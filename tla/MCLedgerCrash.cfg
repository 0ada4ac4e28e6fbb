\* Does a replay find every acknowledged request?
SPECIFICATION DashboardSpec
CONSTANTS
  Workers = {w1, w2}
  r1 = r1
  r2 = r2
  r3 = r3
  Requests <- MCRequests
  Usage <- MCUsage
  RecentLimit = 2
SYMMETRY WorkerSymmetry
INVARIANT AckedIsFound
