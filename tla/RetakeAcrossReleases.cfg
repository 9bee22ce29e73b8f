CONSTANTS
    None = None
    Releases = {"r1", "r2"}
    Tree <- MCTree
    UnitId = {"u1", "u2", "u3", "u4"}
    LessonId = {"a", "b", "c", "d", "e", "f"}
    CheckpointId = {"k3", "k4"}
SPECIFICATION Spec
PROPERTY RetakeKeepsStart
