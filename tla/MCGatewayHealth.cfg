\* Is an outage of Redis reported without the help of chat requests?
SPECIFICATION GatewayLiveSpec
CONSTANTS
  Calls = {c1}
  FailureThreshold = 1
  RecoveryTimeout = 2
  HalfOpenMaxCalls = 1
  UpstreamTimeout = 1
  CountCap = 0
  Replayed = 0
  ReplayedFallbacks = 0
  NoFailure = NoFailure
PROPERTY HealthDetects
