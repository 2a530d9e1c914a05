\* Two of each: one to skip and one to find, or none that fits.  The programs end.
CONSTANTS
  Connectors = 2
  Planes = 2
SPECIFICATION UserSpec
INVARIANTS NoDanglingUse CleanExit PromptIsTrue
CHECK_DEADLOCK FALSE
