\* Four events, a short and a long range, loads that overlap, a client that reads pages of two.
SPECIFICATION Spec
CONSTANTS
  None = None
  Events <- MCEvents
  MaxBuckets = 1
  DefaultBucket = 3
  Widths = {1, 2}
  Limit = 2
  MaxTime = 4
  MaxInserts = 1
  Ranges = {"short", "long"}
  FirstRange = "short"
  Ms <- MCMs
  BucketOf <- MCBucketOf
  Start = 3
  MaxLoads = 2
  MaxFailures = 1
\* With everything asked and answered the view may stay as it is.
CHECK_DEADLOCK FALSE
INVARIANTS
  TypeOK
  TilesMatchChart
  ChartPartitionsRange
  LabelFits
  LoadingMeansUnderWay
  SeriesBounded
  PagesComplete
