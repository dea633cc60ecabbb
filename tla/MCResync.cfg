SPECIFICATION Spec
CONSTANTS
  h1 = h1  p1 = p1  r1 = r1
  Hosts = {h1}  Panes = {p1}  Recovery = Recovery
  HostOf <- MCHostOf  RowOf <- MCRowOf
  Slack = 1  LinkSurvives = TRUE  SlowDials = TRUE  SshHangs = TRUE
  QuitsAgain = FALSE
  MaxTime = 3  MaxChanges = 2  MaxLevels = 2
  MaxOutages = 1  MaxQuits = 0  MaxStops = 1  MaxKills = 1

INVARIANT HudShowsLoss
INVARIANT HudClearsWhenUp
PROPERTY SeenFinishStaysSeen
CHECK_DEADLOCK FALSE
