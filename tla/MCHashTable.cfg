CONSTANTS
  Keys = {1, 2, 3, 4, 5}
  Values = {1, 2}
  HashValues = {0, 6, 7}
  Unmixed = {3, 7}
  Programs <- MCPrograms
  MaxSize = 5
SPECIFICATION Spec
INVARIANTS
  TypeOK
  SomeBucketIsEmpty
  FindsEveryKey
PROPERTIES
  ImplementsMap
