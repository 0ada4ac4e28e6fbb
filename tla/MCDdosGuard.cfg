\* Three requests of one client at once, a threshold of two.
SPECIFICATION LiveSpec
CONSTANTS
  Requests = {r1, r2, r3}
  MaxRequests = 2
  WindowSeconds = 2
  BlockSeconds = 4
  MaxDelay = 1
  CountCap = 4
INVARIANTS
  TypeOK
  BurstBounded
PROPERTIES
  FreshStart
  BlockEnds
  WindowEnds
