SPECIFICATION FairSpec
CONSTANTS
  BackoffMax = 30
  MaxVersions = 2
  MaxForgets = 2
INVARIANTS
  ClientInv
PROPERTIES
  RecordOnlyGrows
  ImplementsLink
  PanelIsReached
