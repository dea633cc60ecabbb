\* Pages: one call at a time, two pages, one slot.
SPECIFICATION Spec
CONSTANTS
  Calls = {c1}
  Pages = {p1, p2}
  Rows = {}
  Slots = {s1}
  Whole = {}
  None = None
  MaxCalls = 1
  MaxPages = 2
  MaxPosts = 1
INVARIANTS TypeOK SlotsAccounted NothingAfterShutdown PagesAccounted OutcomeTold
SYMMETRY Symmetry
