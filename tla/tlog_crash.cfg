SPECIFICATION Spec
CONSTANTS
  Data = {a, b}
  Torn = Torn
  Threads = {t1, t2}
  NoThread = NoThread
  NoRoot = NoRoot
  CrashRemains = {"nothing", "fragment", "whole"}
  MaxLeaves = 3
  MaxCrashes = 2
  MaxErrors = 0
  MaxHeads = 1
  MaxProofs = 1
INVARIANTS TypeOK AckedDurable HeadsOnDisk HeadNotAhead ProofOrder RangeServesTree
PROPERTY ImplementsAppendOnlyLog
CHECK_DEADLOCK FALSE
