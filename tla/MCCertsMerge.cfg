SPECIFICATION Spec
CONSTANTS
  None = None
  Day = 1
  ExpiryWarningDays = 2
  QuantumDeprecation = 8
  QuantumProhibition = 12
  Artifacts <- MCRenewals
INVARIANT
  CertificatesStayApart
CHECK_DEADLOCK FALSE
