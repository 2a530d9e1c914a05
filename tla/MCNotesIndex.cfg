\* Two pushes and a manual run: enough for a run to be overtaken by a push, by
\* another run, and by both.
CONSTANTS
  Files <- MCFiles
  MaxPushes = 2
  MaxManual = 1
SPECIFICATION FairSpec
INVARIANTS IndexFits
PROPERTIES IndexCatchesUp
CHECK_DEADLOCK FALSE
