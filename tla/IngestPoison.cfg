\* An event the validator accepts and Postgres refuses, no failure at all.
SPECIFICATION Spec
CONSTANTS
  e1 = e1
  e2 = e2
  junk = junk
  badId = badId
  NoEvent = NoEvent
  Instances = {b1}
  Messages = {e1, e2, badId}
  Events = {e1, e2, badId}
  Parse <- MCParse
  Storable <- MCStorable
  MaxBatch = 2
  MaxRows = 3
  FeedSize = 2
  MaxFlights = 1
  MaxResends = 0
  MaxRestarts = 0
  MaxOutages = 0
INVARIANT NoGoodEventLost
