\* One run per launchd tick, a quiet wallet: does a later run swap again while
\* the outcome of an earlier intent is unknown?
SPECIFICATION Spec
CONSTANTS
  Runs = {r1, r2}
  HandRuns = FALSE
  Requested = 4
  Floor = 8
  PriorityFee = 1
  SigFee = 1
  FeeEstimates = {0, 1}
  OutAmounts = {1, 2}
  Rungs = 2
  PollBudget = 1
  SolMoves = {3}
  NosMoves <- NoMoves
  MoveBudget = 1
  InitSol = {3, 12, 17}
  InitNos = 1
PROPERTIES
  NoSwapWhileUnresolved
CHECK_DEADLOCK FALSE
