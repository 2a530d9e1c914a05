\* Two processes; messages that fill the buffer in part or overflow it.
CONSTANTS
  Procs = {p1, p2}
  Size = 2
  Counts = {1, 3}
  Values = {1, 2}
SPECIFICATION Spec
INVARIANTS TypeOK UndoesExactly UsersSupported QuietReadRepeats PanelBalanced
