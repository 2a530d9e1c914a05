\* Three threads, so that one may wait while another re-arms and a third is
\* about to take a completion; `done` can reach UIntMax and stick there.  All threads
\* may wait with no work under way.
CONSTANTS
  Threads = {t1, t2, t3}
  Work = Work
  Nobody = Nobody
  UIntMax = 4
  WriteFirst = FALSE
SPECIFICATION FairSpec
INVARIANTS TypeOK NothingAfterUnload NoStrandedWaiter ReadsBackedByWork
PROPERTIES WorkServesAReader
CHECK_DEADLOCK FALSE
