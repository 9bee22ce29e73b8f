CONSTANTS
    None = None
    Slugs <- SmallSlugs
    Seeds <- SmallSeeds
    Starts <- OneStart
    Tables <- SmallTables
    Plain <- MCPlain
    Process = {p1, p2}
    Requests <- EditDuringImport
    MaxRequests = 2
    Faults = FALSE
SPECIFICATION Spec
CHECK_DEADLOCK FALSE
PROPERTY ImportKeepsEdits
