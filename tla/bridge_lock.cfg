SPECIFICATION BridgeSpec
CONSTANTS
    Runners = {r1, r2}
    NoRunner = NoRunner
    Tasks = {t1, t2}
    NoteKeys = {}
    InboxLimit = 1
    Controllers = {c1}
    Environment = {"faults", "nostop", "crash"}
SYMMETRY NameSymmetry
CHECK_DEADLOCK FALSE
INVARIANTS
    OneTurnPerProfile
