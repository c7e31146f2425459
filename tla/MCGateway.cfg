CONSTANTS
    Clients = {c1, c2}
    Signals = {INT, TERM}
    Main = Main
    Acceptor = Acceptor
    None = None
    DOMAIN_SOCKET_BACKLOG = 1
    MaxSignals = 2
    MaxErrors = 1
SPECIFICATION FairSpec
\* the process ends
CHECK_DEADLOCK FALSE
INVARIANTS
    FreedAfterAcceptLoop
PROPERTIES
    EveryConnectionAccepted
    NextClientReleasesStop
