\* Two pods with skewed clocks, three checks, a bucket of two tokens that
\* expires within the run.  The clock is bounded, so the system stops.
SPECIFICATION MeteredSpec
CONSTANTS
  Pods = {p1, p2}
  Checks = {r1, r2, r3}
  Capacity = 2
  Cost = 1
  TTL = 4
  CheckTimeout = 1
  MaxLag = 1
  Skew <- MCSkew
  MaxSkew = 1
  MaxTime = 5
SYMMETRY CheckSymmetry
INVARIANTS
  TypeOK
  FleetBound
  LocalBound
  NoFalseRefusal
CHECK_DEADLOCK FALSE
