SPECIFICATION BridgeSpec
CONSTANTS
    Runners = {r1, r2, r3}
    NoRunner = NoRunner
    Tasks = {t1}
    NoteKeys = {k1, k2}
    InboxLimit = 1
    Controllers = {c1, c2}
    Environment = {"cancel"}
SYMMETRY NameSymmetry
CHECK_DEADLOCK FALSE
INVARIANTS
    OneLiveRunner
    ResumableMeansIdle
