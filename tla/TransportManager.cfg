SPECIFICATION FairSpec
CONSTANTS
  Window = 5
  Threshold = 3
  MaxStride = 2
  MaxUps = 3
INVARIANTS
  ManagerInv
  DropsCounted
PROPERTIES
  FallbackIsSticky
  RunProceeds
