SPECIFICATION FairSpec
CONSTANTS
  t1 = t1
  t2 = t2
  u1 = u1
  m1 = m1
  w1 = w1
  w2 = w2
  NoTx = NoTx
  NoWorker = NoWorker
  Txs = {t1}
  Users = {u1}
  Merchants = {m1}
  Workers = {w1, w2}
  Payer <- OneUser
  Payee <- OneMerchant
  Amount <- Amounts
  OpeningBalance <- Balances
  MaxAttempts = 3
  MaxStalled = 1
  MaxRequests = 2
  MaxFaults = 2
  Faults = {"enqueue", "query", "mark", "ack", "crash", "lock"}
INVARIANTS
  DispatchTruthful
  CodeExplained
PROPERTIES
  ForwardOnly
  JobsSettle
CHECK_DEADLOCK FALSE
