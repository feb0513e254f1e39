CONSTANTS
  PageCells = 3
  MaxPages = 2
  Null = Null
  Type = Type
SPECIFICATION Spec
INVARIANTS
  TypeOK
  FreeListInOrder
  OnlyObjectsDestroyed
  CollectionIsComplete
  NothingLeftUndestroyed
PROPERTIES
  ImplementsPool
