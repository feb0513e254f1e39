CONSTANTS
  Blocks = {1, 2, 3, 4, 5, 6, 7, 8, 9}
  Variables = {"v", "w"}
  Scripts <- MCScripts
  MaxSteps = 12
SPECIFICATION Spec
INVARIANTS
  TypeOK
  NoErasedArgumentKept
  ReadsTheVariable
