CONSTANTS
  PageUnits = 10
  Limit = 0
  Requests = {1, 5, 9, 12}
  MaxUnits = 20
  Null = Null
SPECIFICATION Spec
INVARIANTS
  TypeOK
  BlocksTile
  FreeBlocksIndexed
  ObjectsHaveRoom
  NothingLeftUndestroyed
PROPERTIES
  CollectionIsComplete
  ImplementsPool
