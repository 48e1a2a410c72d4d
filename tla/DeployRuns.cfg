\* Three deployments from one wallet, at a distance or at once.
SPECIFICATION Spec
CONSTANTS
  Runs = {r1, r2, r3}
  NoJob = nojob
  NoHash = nohash
  Costs = {1, 3}
  MaxSpendUsd = 2
  Slack = 1
  Day = 3
  Pacings = {TRUE, FALSE}
  MaxTime = 5
  MaxCrowdedTime = 2
  MaxCorrections = 2
SYMMETRY Alike
INVARIANTS
  NoLeaseLost
  CorrectionsStand
PROPERTIES
  ImplementsLedger
CHECK_DEADLOCK FALSE
