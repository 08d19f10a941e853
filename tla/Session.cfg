\* Two tabs and another client, an email typed in capitals, the demo account seeded at any time.
SPECIFICATION Spec
CONSTANTS
  ada = ada
  Ada = Ada
  demo = demo
  pw1 = pw1
  pw2 = pw2
  NoToken = NoToken
  NoUser = NoUser
  Clients = {t1, t2, other}
  Tabs = {t1, t2}
  Spellings = {Ada, demo}
  Emails = {ada, demo}
  Lower <- MCLower
  Passwords = {pw1, pw2}
  Seed <- MCSeed
  MaxRequests = 2
  MaxFailures = 1
  MaxExpiries = 1
  MaxLoads = 1
\* With its requests used up the browser may stay as it is.
CHECK_DEADLOCK FALSE
INVARIANTS
  TypeOK
  OnlyTheOwner
  ShowsTokensOwner
  ReloadResumesLast
  LoadingHasACause
PROPERTIES
  AccountsAreADirectory
