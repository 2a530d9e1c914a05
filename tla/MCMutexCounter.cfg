\* Two threads and an int of two bits (-2 .. 1), which a few additions take
\* round; of the buffers handed to read() one is too short for a negative number.
CONSTANTS
  Threads = {t1, t2}
  NoThread = NoThread
  Deltas = {1, 2}
  Counts = {2, 3}
  Modulus = 4
SPECIFICATION FairSpec
INVARIANTS TypeOK NoLostUpdate NoCallWithoutModule
PROPERTIES Linearizable CallsReturn
