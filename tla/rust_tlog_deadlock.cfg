SPECIFICATION Spec
CONSTANTS
  Data = {a, b}
  Torn = Torn
  Threads = {t1, t2}
  NoThread = NoThread
  NoRoot = NoRoot
  MaxLeaves = 2
  MaxCrashes = 0
  MaxErrors = 0
  MaxHeads = 1
  MaxProofs = 0
INVARIANT NoLockCycle
CHECK_DEADLOCK FALSE
