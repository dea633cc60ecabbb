\* Pages: the calls one after the other, a page and its watcher, one slot.
SPECIFICATION FairSpec
CONSTANTS
  Calls = {c1, c2}
  Pages = {p1}
  Rows = {}
  Slots = {s1}
  Whole = {}
  None = None
  MaxCalls = 1
  MaxPages = 1
  MaxPosts = 2
INVARIANTS NothingAfterShutdown PagesAccounted OutcomeTold
PROPERTIES PageGoes ShutdownReturns
