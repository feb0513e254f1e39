CONSTANTS
  Blocks = {1, 2, 3, 4, 5, 6}
  Requests = {1, 2, 3, 4, 5, 6, 7}
  Null = Null
  Sizes <- MCSizes
SPECIFICATION Spec
INVARIANT
  Balanced
