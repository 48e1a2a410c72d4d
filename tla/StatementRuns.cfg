\* One proof of two bounded reads beside one search for a house.
SPECIFICATION Spec
CONSTANTS
  Hows <- BothSearches
  Orders <- Rails
  Rent = 1
  Funds = 2
  ExecFee = 1
  MaxReads = 2
  Worth = 0
  Values <- FarApart
  Tolerance = 1
INVARIANTS
  ProofOfOneRound
  EachReadDisturbed
CHECK_DEADLOCK FALSE
