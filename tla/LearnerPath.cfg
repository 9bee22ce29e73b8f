CONSTANTS
    None = None
    Releases = {"r1", "r2", "r3"}
    Tree <- MCTree
    UnitId = {"u1", "u2", "u3", "u4"}
    LessonId = {"a", "b", "c", "d", "e", "f"}
    CheckpointId = {"k3", "k4"}
SPECIFICATION FairSpec
INVARIANTS TypeOK NothingBeforeEnrolling NoDeadEnd AdminsSeeTheSame
PROPERTIES WorkNeverRelocks TotalsNeverDrop PathCanBeFinished
