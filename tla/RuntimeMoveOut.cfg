\* Nothing fails; the wallet may hold no more than the reserve.
SPECIFICATION Spec
CONSTANTS
  Jobs = {j1, j2, j3}
  NoJob = nojob
  Ceiling = 4
  Margin = 1
  Reserve = 1
  SolFloor = 2
  NosCap = 5
  SolCap = 5
  RefillPeriod = 3
  Weathers = {"calm"}
SYMMETRY AnySlot
PROPERTIES
  MoveOutKept
