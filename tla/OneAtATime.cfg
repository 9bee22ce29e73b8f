CONSTANTS
    None = None
    Releases = {"r1", "r2"}
    Tree <- MCTree
    UnitId = {"u1", "u2", "u3"}
    LessonId = {"a", "b", "c"}
    CheckpointId = {"k1", "k2", "k3"}
    Process = {p1}
    Requests <- Sequential
    Retakes = FALSE
    Faults = {}
SPECIFICATION Spec
CHECK_DEADLOCK FALSE
INVARIANTS TypeOK CachedViewIsCurrent NothingUnreported
PROPERTIES ResendChangesNothing Refines
