CONSTANTS
    MAX_WORKERS = 3
    QUEUE_CAPACITY = 2
    Tasks = {t1, t2, t3}
    NoTask = NoTask
    InitArgs = {0, 1, 3, 4}
    CreateMayFail = TRUE
SPECIFICATION FairSpec
PROPERTY
    ImplementsTaskQueue
    ShutdownCompletes
    AcceptedIsServed
