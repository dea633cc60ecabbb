SPECIFICATION RowsSpec
CONSTANTS
  Hosts = {"h"}
  Names <- MCNames
  Rows = {"w1", "w2", "w3"}
  Slots = {"left", "right"}
  Tokens = {"p1", "p2", "q1", "q2", "r1"}
  NoToken = "none"
  Grants = {"g"}
  Hooks = {1, 2}
  Host = "h"
  RowOf <- MCRowOf
  SlotOf <- MCSlotOf
  ChildName <- MCChildName
  NoName = "-"
  Jobs = {"end", "kill"}
  Scenarios <- MCForeign
  NewCalls = {"c", "d"}
  Wanted = {"job"}
  Typed = {"work", "work-2"}
  Generated <- MCGenerated
  Free = "free"
PROPERTIES PicksFreeName
CHECK_DEADLOCK FALSE
