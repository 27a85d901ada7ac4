SPECIFICATION FairSpec
CONSTANTS
  b1 = b1
  b2 = b2
  server = server
  default = default
  other = other
  Clients = {b1, b2, server}
  Dashboards = {b1, b2}
  Codes = {default, other}
  CodeOf <- MCCodeOf
  Default = default
  NoCode = NoCode
  Tokens = {t1, t2, t3}
  NoToken = NoToken
  Revoked = Revoked
  Urls = {u1, u2}
  NoUrl = NoUrl
  Faults = {"crash", "expiry", "reload", "query"}
  MaxFaults = 1
INVARIANTS
  TypeOK
  KeysAgree
  OnboardingTruthful
PROPERTIES
  SettingsChangedByOwner
  ConvergesOnOneToken
