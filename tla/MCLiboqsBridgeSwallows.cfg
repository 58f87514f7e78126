SPECIFICATION BridgeSpec
CONSTANTS
  None = None
  Library <- MCLibrary
  Catalog <- MCCatalog
INVARIANT
  ImportSwallowsAll
