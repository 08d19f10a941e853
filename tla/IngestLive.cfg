\* Two messages, one published twice perhaps: a batch too large for a statement, a restart, an outage.
SPECIFICATION FairSpec
CONSTANTS
  e1 = e1
  e2 = e2
  junk = junk
  badId = badId
  NoEvent = NoEvent
  Instances = {b1}
  Messages = {e1, e2}
  Events = {e1, e2}
  Parse <- MCParse
  Storable <- MCStorable
  MaxBatch = 2
  MaxRows = 2
  FeedSize = 1
  MaxFlights = 2
  MaxResends = 1
  MaxRestarts = 1
  MaxOutages = 1
PROPERTIES
  LedgerSpec
