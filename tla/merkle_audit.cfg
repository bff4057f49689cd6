SPECIFICATION AuditSpec
CONSTANTS
  Data = {a, b}
  NoClaim = NoClaim
  NoValue = NoValue
  MaxSize = 6
  MaxAttested = 3
INVARIANTS ServedPathsVerify AcceptedOnlyIfPresent OldRootRejectsNewPath AcceptedEvidenceHolds
CHECK_DEADLOCK FALSE
