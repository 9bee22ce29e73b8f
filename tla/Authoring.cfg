CONSTANTS
    None = None
    Slugs <- SmallSlugs
    Seeds <- SmallSeeds
    Starts <- SmallStarts
    Tables <- SmallTables
    Plain <- MCPlain
    Process = {p1, p2}
    Requests <- Overlapping
    MaxRequests = 2
    Faults = TRUE
SPECIFICATION Spec
CHECK_DEADLOCK FALSE
INVARIANTS TypeOK ReleasesAreWhole
PROPERTIES Refines EveryRequestEnds
