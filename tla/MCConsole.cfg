SPECIFICATION ConsoleSpec
CONSTANTS
  Clients = {"browser"}
  Limit = 2
  Window = 2
  TicksPerSecond = 2
  MaxTime = 2
  Scopes = {"btc"}
  Causes = {"stale", "manual", "manual_stale"}
  WsClients = {"tab"}
  Subscriptions <- MCSubscriptions
  Kinds = {"telegram", "webhook_out"}
  RoutedKinds = {"telegram", "webhook_out"}
  FeedCap = 1
  OtherChannels <- MCChannels
  MaxAlerts = 2
  MaxBroadcasts = 3
INVARIANTS
  AdmissionsAreSpaced
  RetryAfterIsEnough
  FanOutExact
  HardTripIsLatched
PROPERTIES
  ReleaseIsEarned
  EveryRouteAnswers
CHECK_DEADLOCK FALSE
