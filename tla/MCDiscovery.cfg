SPECIFICATION Spec
CONSTANTS
  None = None
  MaxChanges = 2
  Disk <- MCDisk
  Project <- MCProject
  ExtraIgnore <- MCExtraIgnore
INVARIANTS
  TypeOK
  StaysInProject
PROPERTIES
  ImplementsSearch
  Terminates
CHECK_DEADLOCK FALSE
