\* Two workers, one of which is killed; three keypairs are as many as two first
\* boots and a restart can generate.
SPECIFICATION LiveSpec
CONSTANTS
  Workers = {w1, w2}
  Keys = {k1, k2, k3}
  MaxCrashes = 1
INVARIANTS
  TypeOK
  BootedWithKeys
  BootstrapSound
PROPERTIES
  KeysNeverRotate
  HalfPairRepaired
