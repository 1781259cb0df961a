SPECIFICATION FairBridgeSpec
CONSTANTS
    Runners = {r1, r2}
    NoRunner = NoRunner
    Tasks = {t1}
    NoteKeys = {k1}
    InboxLimit = 1
    Controllers = {c1}
    Environment = {"cancel", "notify", "lateack", "forgets", "nostop"}
CHECK_DEADLOCK FALSE
INVARIANTS
    IdentityMatches
    CancelledMeansStopped
PROPERTIES
    RunEndsSettled
    CancelResolves
