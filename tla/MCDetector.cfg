SPECIFICATION Spec
CONSTANTS
  None = None
  MaxStatements = 3
  Program <- MCProgram
INVARIANTS
  TypeOK
  FilesIndependent
  OrderIrrelevant
  NeverGuesses
  CountedOnce
CHECK_DEADLOCK FALSE
