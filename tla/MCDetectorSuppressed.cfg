SPECIFICATION Spec
CONSTANTS
  None = None
  MaxStatements = 1
  Program <- MCProgram
INVARIANT
  SuppressedIsReported
CHECK_DEADLOCK FALSE
