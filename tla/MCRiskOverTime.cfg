SPECIFICATION Spec
CONSTANTS
  None = None
  Day = 2
  ExpiryWarningDays = 1
  QuantumDeprecation = 6
  QuantumProhibition = 9
  MaxGap = 5
  Horizon = 12
  Finding <- MCFinding
INVARIANTS
  TypeOK
  UrgencyFollowsExposure
  KeySizesWeighed
PROPERTIES
  RiskNeverDrops
  ExpiryAnnounced
CHECK_DEADLOCK FALSE
