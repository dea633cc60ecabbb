SPECIFICATION FairSpec
CONSTANTS
  Hosts = {h1}
  Runtimes = {r1, r2}
  Callers = {c1}
  Main = main
  None = none
PROPERTIES CallsReturn SignalCloses
CHECK_DEADLOCK FALSE
