\* Two attempts, one loss of Redis (which may be away at the start as well), one health
\* check and one cacheEvent under way.
SPECIFICATION ProcessesSpec
CONSTANTS
  Attempts = 2
  Embedded = TRUE
  MaxOutages = 1
  MaxProbes = 1
  MaxCaching = 1
  Draws = 50
\* A process that has exited stays so.
CHECK_DEADLOCK FALSE
INVARIANTS
  OneChain
  FlushFindsPool
  QuitIsLast
PROPERTIES
  NothingWaitsForEver
