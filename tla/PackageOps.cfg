SPECIFICATION FairSpec
CONSTANTS
  Ops <- OneOfEach
  Kind <- KindIsName
  MaxLines = 1
INVARIANTS
  LockInv
PROPERTIES
  DoneIsLast
  OpsEnd
