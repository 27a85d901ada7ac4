SPECIFICATION Spec
CONSTANTS
  t1 = t1
  t2 = t2
  u1 = u1
  m1 = m1
  w1 = w1
  w2 = w2
  NoTx = NoTx
  NoWorker = NoWorker
  Txs = {t1}
  Users = {u1}
  Merchants = {m1}
  Workers = {w1}
  Payer <- OneUser
  Payee <- OneMerchant
  Amount <- Amounts
  OpeningBalance <- Balances
  MaxAttempts = 3
  MaxStalled = 1
  MaxRequests = 1
  MaxFaults = 0
  Faults = {}
PROPERTIES
  AnnouncedIsHeard
CHECK_DEADLOCK FALSE
