CONSTANTS
  Programs <- MCDeviations
  Legal <- MCLegal
SPECIFICATION Spec
INVARIANT AgreesWithPython
