\* Is the number of concurrent trials bounded by half_open_max_calls?
SPECIFICATION Spec
CONSTANTS
  Calls = {c1, c2, c3}
  FailureThreshold = 2
  RecoveryTimeout = 3
  HalfOpenMaxCalls = 2
  UpstreamTimeout = 2
  CountCap = 0
  NoFailure = NoFailure
INVARIANT FewTrials
