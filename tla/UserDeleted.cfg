CONSTANTS
    None = None
    User = {u1, u2}
    MaxMessages = 3
    MaxCrashes = 2
SPECIFICATION Spec
CHECK_DEADLOCK FALSE
INVARIANTS CommittedMeansPurged OnlyTheDeletedLoseRows
PROPERTY PartitionMovesOn
