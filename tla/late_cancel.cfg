SPECIFICATION BridgeSpec
CONSTANTS
    Runners = {r1}
    NoRunner = NoRunner
    Tasks = {t1}
    NoteKeys = {k1}
    InboxLimit = 1
    Controllers = {c1}
    Environment = {"cancel"}
SYMMETRY NameSymmetry
CHECK_DEADLOCK FALSE
INVARIANTS
    FinalSurvives
