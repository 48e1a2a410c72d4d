\* One run per launchd tick; deposits of SOL are the only outside movement.
SPECIFICATION FairSpec
CONSTANTS
  Runs = {r1, r2}
  HandRuns = FALSE
  Requested = 4
  Floor = 8
  PriorityFee = 1
  SigFee = 1
  FeeEstimates = {0, 1}
  OutAmounts = {1, 2}
  Rungs = 2
  PollBudget = 1
  SolMoves = {3}
  NosMoves <- NoMoves
  MoveBudget = 1
  InitSol = {3, 12, 17}
  InitNos = 1
INVARIANTS
  TypeOK
  SettledMeansLanded
PROPERTIES
  FloorKept
  QuarterKept
  ImplementsExactLedger
  EveryRunEnds
\* The runs are finitely many and the system stops when they have ended.
CHECK_DEADLOCK FALSE
