SPECIFICATION Spec
CONSTANTS
  p1 = p1
  p2 = p2
  Payments = {p1, p2}
  NoPayment = NoPayment
  Slots = 1
  MaxStream = 2
  MaxPosts = 1
  MaxToggles = 1
  Faults = {"link"}
  MaxFaults = 1
PROPERTIES
  PinAuthorizesItsPayment
CHECK_DEADLOCK FALSE
