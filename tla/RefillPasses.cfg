\* Passes for ever, from poor and from rich wallets, with every rail failing
\* and recovering.
SPECIFICATION WorkingSpec
CONSTANTS
  Target <- UnitTarget
  MinBridge = 1
  KeepOnBase = 1
  MaxPass = 3
  SubFloor = 1
  SwapFloor = 4
  Requested = 2
  Starts <- AllStarts
  Wealth = 7
  MaxSpent = 1
INVARIANTS
  TypeOK
PROPERTIES
  WorkingCapitalKept
  OkMeansDelivered
  SwapLeavesFees
  PayableIsStocked
