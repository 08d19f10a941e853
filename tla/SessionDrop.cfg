\* One tab; a connection fails once, no token ever becomes invalid.
SPECIFICATION Spec
CONSTANTS
  ada = ada
  Ada = Ada
  demo = demo
  pw1 = pw1
  pw2 = pw2
  NoToken = NoToken
  NoUser = NoUser
  Clients = {t1}
  Tabs = {t1}
  Spellings = {Ada, demo}
  Emails = {ada, demo}
  Lower <- MCLower
  Passwords = {pw1, pw2}
  Seed <- MCSeed
  MaxRequests = 1
  MaxFailures = 1
  MaxExpiries = 0
  MaxLoads = 1
\* With its requests used up the browser may stay as it is.
CHECK_DEADLOCK FALSE
PROPERTY OnlyBadTokensSignOut
