\* Two workers, one line in a file, three backups: the fewest with which a name
\* without a file can have full ones on both sides.
SPECIFICATION Spec
CONSTANTS
  Workers = {w1, w2}
  MaxLines = 2
  BackupCount = 3
  MaxEvents = 6
SYMMETRY Symmetry
INVARIANTS
  DiskCapped
  LoneWriterKeepsTail
