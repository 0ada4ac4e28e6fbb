\* Two requests at a time, a breaker that trips at two failures and closes after two
\* trials.
SPECIFICATION GatewayLiveSpec
CONSTANTS
  Calls = {c1, c2}
  FailureThreshold = 2
  RecoveryTimeout = 2
  HalfOpenMaxCalls = 2
  UpstreamTimeout = 1
  CountCap = 3
  Replayed = 2
  ReplayedFallbacks = 1
  NoFailure = NoFailure
INVARIANTS
  GatewayTypeOK
  BooksBalance
PROPERTIES
  FailuresDegrade
  EveryRequestAnswered
  HealthFollows
  EventuallyTried
  RecoversWithUpstream
