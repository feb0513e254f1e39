CONSTANTS
  Keys = {1, 2, 3, 4}
  Values = {1}
  HashValues = {0}
  Unmixed = {3, 4}
  Programs <- MCPrograms
  MaxSize = 4
SPECIFICATION Spec
INVARIANT FindsEveryKey
