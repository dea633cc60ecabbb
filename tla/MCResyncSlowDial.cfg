SPECIFICATION Spec
CONSTANTS
  h1 = h1  p1 = p1  r1 = r1
  Hosts = {h1}  Panes = {p1}  Recovery = Recovery
  HostOf <- MCHostOf  RowOf <- MCRowOf
  Slack = 1  LinkSurvives = TRUE  SlowDials = TRUE  SshHangs = FALSE
  QuitsAgain = FALSE
  MaxTime = 1  MaxChanges = 2  MaxLevels = 0
  MaxOutages = 2  MaxQuits = 0  MaxStops = 0  MaxKills = 0
PROPERTY HudWhileUnreachable
CHECK_DEADLOCK FALSE
