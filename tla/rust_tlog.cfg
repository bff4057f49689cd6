SPECIFICATION Spec
CONSTANTS
  Data = {a, b}
  Torn = Torn
  Threads = {t1, t2}
  NoThread = NoThread
  NoRoot = NoRoot
  MaxLeaves = 2
  MaxCrashes = 1
  MaxErrors = 1
  MaxHeads = 1
  MaxProofs = 1
INVARIANTS AckedInTree HeadNotAhead ProofOrder
CHECK_DEADLOCK FALSE
