\* With every rail working again and again, can the shelter stay without NOS
\* while Base is rich?
SPECIFICATION WorkingSpec
CONSTANTS
  Target <- UnitTarget
  MinBridge = 1
  KeepOnBase = 1
  MaxPass = 3
  SubFloor = 1
  SwapFloor = 4
  Requested = 2
  Starts <- AllStarts
  Wealth = 7
  MaxSpent = 1
PROPERTIES
  NeverRichAndHomeless
