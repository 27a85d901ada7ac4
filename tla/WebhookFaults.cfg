SPECIFICATION MerchantSpec
CONSTANTS
  t1 = t1
  d1 = d1
  d2 = d2
  w1 = w1
  w2 = w2
  NoWorker = NoWorker
  NoDelivery = NoDelivery
  Txs = {t1}
  Deliveries = {d1}
  TxOf <- OneTransaction
  Workers = {w1, w2}
  MaxAttempts = 3
  MaxStalled = 1
  MaxFaults = 2
  Faults = {"query", "crash", "lock"}
INVARIANTS
  AttemptsInOrder
  TypeOK
  OutcomeLogged
  PostsBounded
PROPERTIES
  VerdictFinal
  DeliverySettles
  VerdictMatchesJob
CHECK_DEADLOCK FALSE
