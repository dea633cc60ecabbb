SPECIFICATION Spec
CONSTANTS
  Cap = 2
  InitialBackoff = 1
  MaxBackoff = 1
  RmOutlivesSsh = FALSE
INVARIANTS OldTunnelProvesNothing
