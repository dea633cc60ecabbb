SPECIFICATION Spec
CONSTANTS
  h1 = h1  p1 = p1  r1 = r1
  Hosts = {h1}  Panes = {p1}  Recovery = Recovery
  HostOf <- MCHostOf  RowOf <- MCRowOf
  Slack = 1  LinkSurvives = FALSE  SlowDials = FALSE  SshHangs = FALSE
  QuitsAgain = FALSE
  MaxTime = 3  MaxChanges = 2  MaxLevels = 1
  MaxOutages = 1  MaxQuits = 0  MaxStops = 0  MaxKills = 0
PROPERTY SkippedFinishWasShown
CHECK_DEADLOCK FALSE
