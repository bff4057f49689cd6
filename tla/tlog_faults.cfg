SPECIFICATION Spec
CONSTANTS
  Data = {a, b}
  Torn = Torn
  Threads = {t1, t2}
  NoThread = NoThread
  NoRoot = NoRoot
  CrashRemains = {"nothing", "fragment", "unterminated", "whole"}
  MaxLeaves = 3
  MaxCrashes = 2
  MaxErrors = 2
  MaxHeads = 1
  MaxProofs = 0
INVARIANT AckedInTree
CHECK_DEADLOCK FALSE
