SPECIFICATION BridgeSpec
CONSTANTS
    Runners = {r1, r2}
    NoRunner = NoRunner
    Tasks = {t1}
    NoteKeys = {k1, k2}
    InboxLimit = 1
    Controllers = {c1}
    Environment = {"cancel", "notify", "noexit", "lateack", "forgets", "nostop", "crash"}
SYMMETRY NameSymmetry
CHECK_DEADLOCK FALSE
INVARIANTS
    BridgeTypeOK
    OneLiveRunner
    ResumableMeansIdle
    ContinuationHasInstruction
PROPERTIES
    LedgerSpec
