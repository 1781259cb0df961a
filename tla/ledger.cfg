SPECIFICATION NewsSpec
CONSTANTS
    Runners = {r1}
    NoRunner = NoRunner
    Tasks = {t1, t2}
    NoteKeys = {k1, k2}
    InboxLimit = 1
SYMMETRY CallerSymmetry
INVARIANTS
    LedgerTypeOK
    ClosedInboxDrained
    FinishedIffTerminal
    CompletedIsEvidenced
    NewsIsTold
PROPERTIES
    FinalIsStable
    StoppingIsSticky
    MissedOnlyWhenClosed
