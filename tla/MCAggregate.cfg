SPECIFICATION Spec
CONSTANTS
  None = None
  MaxFindings = 4
  Finding <- MCFinding
  Canonical <- NormalizeAlgorithm
INVARIANTS
  TypeOK
  OneOccurrencePerFinding
  OccurrencesInOrder
  FirstKnownWins
PROPERTIES
  ImplementsInventory
CHECK_DEADLOCK FALSE
