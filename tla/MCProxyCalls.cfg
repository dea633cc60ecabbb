\* Consent: two calls, one row.
SPECIFICATION FairSpec
CONSTANTS
  Calls = {c1, c2}
  Pages = {}
  Rows = {r1}
  Slots = {}
  Whole = {}
  None = None
  MaxCalls = 2
  MaxPages = 1
  MaxPosts = 0
INVARIANTS SlotsAccounted TypesWithConsent DialogHasReader
PROPERTIES RefusalHolds ShutdownReturns
