\* Safety of the breaker and its contract: three overlapping calls, a trip at
\* three failures, two trials to close, an upstream timeout below the recovery
\* timeout.
SPECIFICATION HistorySpec
CONSTANTS
  Calls = {c1, c2, c3}
  FailureThreshold = 3
  RecoveryTimeout = 3
  HalfOpenMaxCalls = 2
  UpstreamTimeout = 2
  CountCap = 4
  NoFailure = NoFailure
  MaxOutcomes = 5
SYMMETRY CallSymmetry
INVARIANTS
  TypeOK
  StateExplained
  NoneAdmittedWhileOpen
  TrialIsolation
  MetricsAddUp
  LeakyCounter
PROPERTIES
  TripEarned
  RecoveryEarned
  TrialsStartAlone
  ImplementsContract
