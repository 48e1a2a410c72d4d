\* One process at a time, an hour apart, from any content of the key file.
SPECIFICATION FairSpec
CONSTANTS
  Runs = {r1, r2}
  Elder = elder
  Absent = absent
  Torn = torn
  Overlap = FALSE
  AtOnce = FALSE
  Requests <- TopUps
  Caps <- UnitCaps
  Floor = 3
  LegFee <- UnitFees
  InitFile = {absent, torn, elder}
  InitOwner <- Treasury
  InitSub <- Held
  Rents <- OneRent
  Refunds <- OneRefund
  MoveBudget = 1
INVARIANTS
  TypeOK
  PartialTransferVisible
  FundsReachable
PROPERTIES
  CapKept
  FloorKept
  ImplementsLedger
  EveryRunEnds
\* The runs are finitely many and the system stops when they have ended.
CHECK_DEADLOCK FALSE
