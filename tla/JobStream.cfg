SPECIFICATION FairSpec
CONSTANTS
  j1 = j1
  j2 = j2
  Jobs = {j1, j2}
  MaxJobs = 1
  Cap = 2
  MaxEvents = 3
INVARIANTS
  NewestIsKept
  LateViewerTold
PROPERTIES
  DoneArrives
