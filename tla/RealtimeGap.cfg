\* Two events; no connection is lost and Redis never fails.
SPECIFICATION Spec
CONSTANTS
  FeedSize = 2
  MaxFeedEvents = 2
  MaxSeriesPoints = 1
  MaxAlertHistory = 1
  Bounds <- GapBounds
  MaxWire = 0
\* A dashboard back at the login screen stays there.
CHECK_DEADLOCK FALSE
INVARIANT TruthWhenQuiet
