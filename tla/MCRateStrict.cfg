\* Is the long-run rate strict when all clocks agree?  Commands may overtake
\* one another by a tick.  The clock is bounded, so the system stops.
SPECIFICATION MeteredSpec
CONSTANTS
  Pods = {p1}
  Checks = {r1, r2, r3, r4, r5}
  Capacity = 2
  Cost = 1
  TTL = 4
  CheckTimeout = 1
  MaxLag = 1
  Skew <- MCNoSkew
  MaxSkew = 0
  MaxTime = 1
SYMMETRY CheckSymmetry
INVARIANT StrictRate
CHECK_DEADLOCK FALSE
