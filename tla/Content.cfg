CONSTANTS
    None = None
    Slugs <- FullSlugs
    Seeds <- FullSeeds
    Starts <- FullStarts
    Tables <- IMPORT_ORDER
    Plain <- MCPlain
    Process = {p1}
    Requests <- Everything
    MaxRequests = 2
    Faults = FALSE
SPECIFICATION Spec
CHECK_DEADLOCK FALSE
INVARIANTS ReleasesAreWhole PointerIsCurrent EveryRowShown MoveBackRestores PublishedRowsAreReleased
PROPERTIES AnswersCanBeGiven PlacementIsFair UnitImportIsWhole ImportKeepsEdits
