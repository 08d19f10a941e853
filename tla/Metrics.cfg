\* Three events, each late or early, and three ticks in four units of time.
SPECIFICATION Spec
CONSTANTS
  Kinds <- MCKinds
  Skews <- MCSkews
  Primes <- MCPrimes
  ActiveUserWindow = 2
  RateWindow = 1
  Warmup = 2
  RevenueSpike = 3
  RevenueDrop = 1
  OrdersSurge = 1
  MaxClock = 4
  MaxEvents = 3
  MaxTicks = 3
INVARIANTS
  TypeOK
  WindowComplete
  SnapshotExact
  WindowBounded
  OneAlertPerEpisode
