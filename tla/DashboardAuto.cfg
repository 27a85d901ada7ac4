SPECIFICATION Spec
CONSTANTS
  p1 = p1
  p2 = p2
  Payments = {p1, p2}
  NoPayment = NoPayment
  Slots = 1
  MaxStream = 2
  MaxPosts = 1
  MaxToggles = 0
  Faults = {}
  MaxFaults = 0
SYMMETRY Alike
INVARIANTS
  PromptsApproved
CHECK_DEADLOCK FALSE
