SPECIFICATION Spec
CONSTANTS
  p1 = p1
  p2 = p2
  Payments = {p1, p2}
  NoPayment = NoPayment
  Slots = 2
  MaxStream = 1
  MaxPosts = 1
  MaxToggles = 1
  Faults = {"publish", "link", "query", "network", "retry"}
  MaxFaults = 1
SYMMETRY Alike
INVARIANTS
  TypeOK
  ListTruthful
  PromptTruthful
  AutoAnswers
CHECK_DEADLOCK FALSE
