SPECIFICATION Spec
CONSTANTS
  Clients = {c1}
  Hosts = {h1, h2}
  Names = {n1}
  Rows = {w1, w2}
  Slots = {left, right}
  Tokens = {t1, t2, t3}
  NoToken = none
  Grants = {}
  Targets <- MCTargets
  FileFails = TRUE
  h1 = h1
  h2 = h2
  n1 = n1
  w1 = w1
  w2 = w2
  left = left
  right = right
  t1 = t1
  t2 = t2
  t3 = t3
INVARIANTS ReloadRepairs
