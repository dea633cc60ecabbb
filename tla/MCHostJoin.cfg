SPECIFICATION FairSpec
CONSTANTS
  Hosts = {h1}
  Runtimes = {r1}
  Callers = {c1, c2}
  Main = main
  None = none
PROPERTIES CallsReturn
CHECK_DEADLOCK FALSE
