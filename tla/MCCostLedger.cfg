\* Two workers, three requests, any number of faults and restarts.  Once every
\* request is answered, workers still crash and boot.
SPECIFICATION DashboardSpec
CONSTANTS
  Workers = {w1, w2}
  r1 = r1
  r2 = r2
  r3 = r3
  Requests <- MCRequests
  Usage <- MCUsage
  RecentLimit = 2
SYMMETRY WorkerSymmetry
INVARIANTS
  TypeOK
  SummaryMatches
  BilledOnce
  LossBounded
  PageAddsUp
  NeverOverstates
PROPERTY StaysFound
