SPECIFICATION OutboxSpec
CONSTANTS
    Tasks = {t1, t2, t3}
    LocalTasks = {}
    Callers = {c1}
    Runners = {r1, r2}
    InlineLimit = 2
    RunnerLimit = 3
    LeaseSends = 2
    MaxEvents = 4
    Environment = {"nospawn"}
    MaxMishaps = 1
CHECK_DEADLOCK FALSE
PROPERTIES
    ShownInOrder
