CONSTANTS
    c1 = c1
    c2 = c2
    c3 = c3
    Conns = {c1, c2, c3}
    Ids = {1, 2}
    IdOf <- TwoIds
    None = None
    Slots = 1
SPECIFICATION FairSpec
\* every task may be done
CHECK_DEADLOCK FALSE
PROPERTIES
    OneLateQuery
    EveryoneGetsIn
    ImplementsGate
