SPECIFICATION FairSpec
CONSTANTS
  h1 = h1  p1 = p1  r1 = r1
  Hosts = {h1}  Panes = {p1}  Recovery = Recovery
  HostOf <- MCHostOf  RowOf <- MCRowOf
  Slack = 1  LinkSurvives = FALSE  SlowDials = FALSE  SshHangs = TRUE
  QuitsAgain = FALSE
  MaxTime = 1  MaxChanges = 6  MaxLevels = 1
  MaxOutages = 1  MaxQuits = 0  MaxStops = 0  MaxKills = 0
PROPERTY LevelRestored
CHECK_DEADLOCK FALSE
