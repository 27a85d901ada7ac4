SPECIFICATION FairSpec
CONSTANTS
  r1 = r1
  r2 = r2
  r3 = r3
  r4 = r4
  f1 = f1
  f2 = f2
  NoRequest = NoRequest
  Requests = {r1, r2, r4}
  Fingerprints = {f1, f2}
  FingerprintOf <- FirstThreeAlike
  PoolSize = 2
  MaxExpiries = 1
  MaxFaults = 0
  Faults = {}
PROPERTIES
  Answered
CHECK_DEADLOCK FALSE
