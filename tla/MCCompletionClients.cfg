\* Each client writes and then reads; both may end up waiting.
CONSTANTS
  Threads = {t1, t2}
  Work = Work
  Nobody = Nobody
  UIntMax = 5
  WriteFirst = TRUE
SPECIFICATION FairSpec
PROPERTIES EveryClientServed
CHECK_DEADLOCK FALSE
