CONSTANTS
    None = None
    Releases = {"r1"}
    Tree <- MCTree
    UnitId = {"u1", "u2", "u3"}
    LessonId = {"a", "b", "c"}
    CheckpointId = {"k1", "k2", "k3"}
    Process = {p1, p2}
    Requests <- ReadWhileEnrolling
    Retakes = FALSE
    Faults = {}
SPECIFICATION Spec
CHECK_DEADLOCK FALSE
INVARIANT CachedViewIsCurrent
