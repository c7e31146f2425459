CONSTANTS
    Pids = {p1, p2, p3}
    None = None
    MAX_JOBS = 2
SPECIFICATION FairSpec
\* the main loop ends
CHECK_DEADLOCK FALSE
INVARIANTS
    NoZombieForgotten
PROPERTIES
    DrainReapsAgents
    DrainCompletes
    ImplementsAgents
