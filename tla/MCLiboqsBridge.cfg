SPECIFICATION BridgeSpec
CONSTANTS
  None = None
  Library <- MCLibrary
  Catalog <- MCCatalog
INVARIANTS
  ImportContained
  VerifyAgreesWithDescribe
PROPERTIES
  AnswersStand
