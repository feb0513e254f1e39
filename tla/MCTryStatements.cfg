CONSTANTS
  Programs <- MCPrograms
  Legal <- MCLegal
SPECIFICATION Spec
INVARIANTS
  AgreesWithPython
  HandlersEnclose
PROPERTY ReachesNextStatement
