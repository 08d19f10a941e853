\* The subscription comes some time after the process was constructed.
SPECIFICATION Spec
CONSTANTS
  Kinds <- MCKinds
  Skews <- NoSkew
  Primes <- MCPrimes
  ActiveUserWindow = 2
  RateWindow = 1
  Warmup = 2
  RevenueSpike = 3
  RevenueDrop = 1
  OrdersSurge = 1
  MaxClock = 4
  MaxEvents = 1
  MaxTicks = 2
INVARIANT DropNeedsWatching
