SPECIFICATION FairSpec
CONSTANTS
  Page = 1
  MaxLog = 3
  MaxHeadFailures = 1
  MaxRangeFailures = 1
  MaxLostAlerts = 1
  MaxSaveFailures = 1
  MaxKills = 2
INVARIANTS TypeOK NeverAhead NoTrapSkipped
PROPERTY TrapsAlerted
CHECK_DEADLOCK FALSE
