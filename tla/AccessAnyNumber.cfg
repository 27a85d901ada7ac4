SPECIFICATION FairSpec
CONSTANTS
  b1 = b1
  b2 = b2
  server = server
  default = default
  other = other
  Clients = {b1}
  Dashboards = {b1}
  Codes = {default, other}
  CodeOf <- MCCodeOf
  Default = default
  NoCode = NoCode
  Tokens = {t1, t2, t3}
  NoToken = NoToken
  Revoked = Revoked
  Urls = {u1, u2}
  NoUrl = NoUrl
  Faults = {}
  MaxFaults = 0
PROPERTIES
  SetUpSignsIn
