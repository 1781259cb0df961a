SPECIFICATION FairOutboxSpec
CONSTANTS
    Tasks = {t1, t2}
    LocalTasks = {t1}
    Callers = {c1, c2}
    Runners = {r1, r2}
    InlineLimit = 1
    RunnerLimit = 2
    LeaseSends = 2
    MaxEvents = 2
    Environment = {"crash", "deadline", "nospawn"}
    MaxMishaps = 2
CHECK_DEADLOCK FALSE
INVARIANTS
    OutboxTypeOK
    SentIsShown
    OneSender
    SomeoneCares
PROPERTIES
    ShownInOrder
    EveryEventShown
