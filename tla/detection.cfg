SPECIFICATION Spec
CONSTANTS
  Clients = {c1, c2}
  Bridge = dns
  Burst = 1
  MaxKeys = 2
  Limit = 2
  MaxTime = 2
  MaxBeacons = 4
  MaxCrashes = 1
  MaxErrors = 1
SYMMETRY ClientSymmetry
INVARIANTS AdmissionsBounded RefusedOnlyIfSpent EvictsLeastRecent ExportsSkipNothing
CHECK_DEADLOCK FALSE
