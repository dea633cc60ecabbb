SPECIFICATION FairSpec
CONSTANTS
  Cap = 1
  InitialBackoff = 1
  MaxBackoff = 2
  RmOutlivesSsh = TRUE
INVARIANTS BackoffBounded NoOrphanProcess ReportLags
PROPERTIES StopReturns StaleSocketRecovers
