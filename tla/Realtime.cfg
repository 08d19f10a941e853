\* Up to three events or three alerts, one failure of Redis, one lost connection or
\* failed attempt; see MCBounds.
SPECIFICATION FairSpec
CONSTANTS
  FeedSize = 3
  MaxFeedEvents = 2
  MaxSeriesPoints = 2
  MaxAlertHistory = 2
  Bounds <- MCBounds
  MaxWire = 1
\* A dashboard back at the login screen stays there.
CHECK_DEADLOCK FALSE
INVARIANTS
  TypeOK
  NoDataUnverified
  FeedInOrder
  OnlyOmittedMissing
  OnlyMissedAlertsLacking
  ChartsAgreeWithCards
  LiveMeansOpen
  OnlyBadTokensLogOut
PROPERTIES
  RefusedSeesNoMore
  Settles
  MetricsCatchUp
