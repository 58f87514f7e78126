SPECIFICATION Spec
CONSTANTS
  None = None
  Package <- MCPackage
  CryptoName <- MCCryptoName
  Nodes <- MCNodes
  Module <- MCModule
  Greatest <- MCGreatest
INVARIANTS
  TypeOK
  LookupIsLexical
  AttributesStayInClass
  KindFollowsNesting
  TracedToImport
  AmbiguityIsNeverCertain
  ParentIsEnclosingCall
  FeedsDetector
CHECK_DEADLOCK FALSE
