\* Two threads and two CPUs: a thread may spin on one CPU for the lock held on
\* the other, or be preempted and dispatched on either.  An int of one bit
\* (-1, 0), where two additions that become one show at once.
CONSTANTS
  Threads = {t1, t2}
  CPUs = {c1, c2}
  NoThread = NoThread
  Deltas = {1}
  Counts = {2}
  Modulus = 2
SPECIFICATION FairSpec
INVARIANTS TypeOK HolderRuns NoSleepInAtomic
PROPERTIES Linearizable CallsReturn
