CONSTANTS
  Cells = {1, 2, 3}
  Globals = {registry}
  Constant = Constant
  NoList = NoList
  Dangling = Dangling
  Missing = Missing
  Null = Null
  MaxReferences = 3
SPECIFICATION FairSpec
INVARIANTS
  TypeOK
  NoMarkedObjectForgotten
  WorkListIsSet
PROPERTIES
  CollectsExactly
  CollectionEnds
