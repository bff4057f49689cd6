SPECIFICATION Spec
CONSTANTS
  Failed = Failed
  Malformed = Malformed
  NoValue = NoValue
  Front = {"cli", "rich", "gui"}
  Paths <- MCPaths
  OutPaths <- MCOutPaths
  PubOf <- MCPubOf
  SideOf <- MCSideOf
  Doc = "report.txt"
  Recipients <- MCRecipients
  Received <- MCReceived
  Now = 9
  MaxCommands = 2
  MaxKills = 1
INVARIANTS OpenedIsSealed KnownCopiesWereWritten
PROPERTY KeysLostOnlyUnguarded
CHECK_DEADLOCK FALSE
