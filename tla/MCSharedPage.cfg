\* Mappings of up to two pages, of which the driver has only one; enough frames
\* for a second load to get another page than the first.  Failed loads of
\* fault_dev may use them up.
CONSTANTS
  Procs = {p1, p2, p3}
  Frames = {1, 2, 3}
  MaxLen = 2
SPECIFICATION Spec
INVARIANTS TypeOK MappingsShareThePage PageReturned
CHECK_DEADLOCK FALSE
