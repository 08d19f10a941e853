\* One backend, four messages in any order, a restart and an outage; no redelivery.
SPECIFICATION Spec
CONSTANTS
  e1 = e1
  e2 = e2
  junk = junk
  badId = badId
  NoEvent = NoEvent
  Instances = {b1}
  Messages = {e1, e2, badId, junk}
  Events = {e1, e2, badId}
  Parse <- MCParse
  Storable <- MCStorable
  MaxBatch = 2
  MaxRows = 2
  FeedSize = 2
  MaxFlights = 2
  MaxResends = 0
  MaxRestarts = 1
  MaxOutages = 1
INVARIANTS
  TypeOK
  NothingForgotten
  TotalsAgree
  FeedNewestFirst
  FinalFlush
PROPERTIES
  LedgerSafety
