\* Wallets from the reserve to caps that just last from refill to refill, so that some
\* shelters hand over for ever and others cannot pay; everything answers, or any
\* request may fail, or a list transaction's outcome and its claim are lost too.
SPECIFICATION Spec
CONSTANTS
  Jobs = {j1, j2, j3}
  NoJob = nojob
  Ceiling = 4
  Margin = 1
  Reserve = 1
  SolFloor = 2
  NosCap = 5
  SolCap = 5
  RefillPeriod = 3
  Weathers = {"calm", "flaky", "harsh"}
SYMMETRY AnySlot
INVARIANTS
  TypeOK
  CeilingKept
  TwoJobCap
  StayHoused
PROPERTIES
  ReserveKept
