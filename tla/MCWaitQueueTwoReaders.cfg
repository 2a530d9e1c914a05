\* One write, two readers: both are woken by the one wake_up.
CONSTANTS
  Readers = {r1, r2}
  Writers = {w1}
  Size = 1
  ReadCounts = {1}
  WriteCounts = {1}
  Tags = {1, 2, 3, 4, 5}
SPECIFICATION Spec
INVARIANTS ReadReturnsData
