SPECIFICATION Spec
CONSTANTS
  Hosts = {h1, h2}
  Names = {n1, n2}
  Rows = {w1, w2}
  Slots = {"left", "right"}
  Tokens = {p1, p2, p3, p4}
  NoToken = none
  Grants <- MCGrants
  NoRow = norow
  NoName = noname
  Worlds <- MCWorlds
  Calls <- MCCalls
  Host = h1
  MaxMoves = 2
  h1 = h1
  h2 = h2
  n1 = n1
  n2 = n2
  w1 = w1
  w2 = w2
  p1 = p1
  p2 = p2
  p3 = p3
  p4 = p4
INVARIANTS OwnPanesOnly OwnedAtOnce TypesIntoAgent CancelUndoesOpen
CHECK_DEADLOCK FALSE
