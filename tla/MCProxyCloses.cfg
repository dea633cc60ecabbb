\* A page is replaced between the look and the close of its overlay.
SPECIFICATION Spec
CONSTANTS
  Calls = {c1, c2}
  Pages = {p1, p2}
  Rows = {}
  Slots = {s1}
  Whole = {}
  None = None
  MaxCalls = 2
  MaxPages = 2
  MaxPosts = 0
PROPERTIES ClosesOwnPage
