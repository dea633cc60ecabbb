SPECIFICATION FairSpec
CONSTANTS
  Cap = 1
  InitialBackoff = 1
  MaxBackoff = 1
  RmOutlivesSsh = TRUE
PROPERTIES Recovers
