\* One reader and one writer; a two-byte buffer that messages fill in part or
\* overflow, and reads that take less or more than there is.
CONSTANTS
  Readers = {r1}
  Writers = {w1}
  Size = 2
  ReadCounts = {1, 3}
  WriteCounts = {1, 3}
  Tags = {1, 2, 3, 4, 5, 6, 7}
SPECIFICATION FairSpec
INVARIANTS TypeOK QuietReadDelivers
PROPERTIES ReadServed
