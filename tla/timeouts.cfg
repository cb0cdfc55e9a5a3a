SPECIFICATION Spec
CONSTANTS
  e1 = e1
  e2 = e2
  Unused = Unused
  NS_PER_SEC = 4
  MS_PER_SEC = 2
  NS_PER_MS = 2
  NS_PER_US = 2
  Slots <- TwoSlots
  Requests <- AllRequests
  MaxNow = 14
SYMMETRY SlotSymmetry
INVARIANTS
  TimeAccounted
PROPERTIES
  SomeoneIsDue
