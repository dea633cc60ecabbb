\* A dialog stays when agtermctl fails.
SPECIFICATION Spec
CONSTANTS
  Calls = {c1, c2}
  Pages = {}
  Rows = {r1}
  Slots = {}
  Whole = {}
  None = None
  MaxCalls = 2
  MaxPages = 1
  MaxPosts = 0
INVARIANTS NoDialogLeft
