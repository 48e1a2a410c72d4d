\* A lease of two units, extended twice at most by a prompt renewer, and its
\* steward.
SPECIFICATION Spec
CONSTANTS
  Interval = 1
  Nap = 1
  Grace = 2
  MaxFail = 3
  Length = 2
  Margin = 2
  Add = 2
  Ceiling = 5
  Reserve = 1
  Funds = 3
  Linger = 1
  MaxTime = 7
INVARIANTS
  StopIsRight
PROPERTIES
  EndsAfterJob
CHECK_DEADLOCK FALSE
