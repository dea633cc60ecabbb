SPECIFICATION Spec
CONSTANTS
  Hosts = {h1}
  Runtimes = {r1, r2}
  Callers = {c1, c2}
  Main = main
  None = none
SYMMETRY Symmetry
INVARIANTS SocketOwned FreeSlotFreePath FlockFence OneTorndownCloser CloseSweepsPaths
PROPERTIES WaitGroupNotReused ImplementsHostSlot
CHECK_DEADLOCK FALSE
