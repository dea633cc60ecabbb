SPECIFICATION Spec
CONSTANTS
  h1 = h1  p1 = p1  r1 = r1
  Hosts = {h1, h2}  Panes = {p1, p2}  Recovery = Recovery
  HostOf <- MCHostOf  RowOf <- MCRowOf
  Slack = 1  LinkSurvives = FALSE  SlowDials = FALSE  SshHangs = FALSE
  QuitsAgain = FALSE
  MaxTime = 1  MaxChanges = 2  MaxLevels = 0
  MaxOutages = 1  MaxQuits = 0  MaxStops = 0  MaxKills = 0
INVARIANT HudShowsLoss
CHECK_DEADLOCK FALSE
