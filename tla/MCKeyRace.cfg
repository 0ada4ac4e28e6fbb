\* Two workers start together, on a volume without keys.
SPECIFICATION Spec
CONSTANTS
  Workers = {w1, w2}
  Keys = {k1, k2}
  MaxCrashes = 0
INVARIANT PairMatches
