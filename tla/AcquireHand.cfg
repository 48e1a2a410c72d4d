\* Overlapping and back-to-back runs; other programs move SOL and NOS both ways.
SPECIFICATION Spec
CONSTANTS
  Runs = {r1, r2}
  HandRuns = TRUE
  Requested = 4
  Floor = 8
  PriorityFee = 1
  SigFee = 1
  FeeEstimates = {1}
  OutAmounts = {2}
  Rungs = 1
  PollBudget = 1
  SolMoves <- HandSolMoves
  NosMoves <- HandNosMoves
  MoveBudget = 1
  InitSol = {12, 17}
  InitNos = 1
INVARIANTS
  BroadcastRecorded
  SignatureVerdictTrue
  FilesAgree
PROPERTIES
  ImplementsLooseLedger
\* The runs are finitely many and the system stops when they have ended.
CHECK_DEADLOCK FALSE
