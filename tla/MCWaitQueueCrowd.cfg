\* Two readers after one message, two writers that overlap, empty writes too.
CONSTANTS
  Readers = {r1, r2}
  Writers = {w1, w2}
  Size = 1
  ReadCounts = {1}
  WriteCounts = {0, 1}
  Tags = {1, 2, 3, 4, 5, 6, 7}
SPECIFICATION Spec
SYMMETRY Symmetry
INVARIANTS NoLostWakeup QuietReadDelivers
