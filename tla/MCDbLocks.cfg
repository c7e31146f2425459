CONSTANTS
    Threads = {t1, t2, t3}
    Tokens = {k1}
    None = None
    Forensic = TRUE
    StatementsFail = TRUE
SPECIFICATION FairSpec
\* a mutex left locked may stop every thread
CHECK_DEADLOCK FALSE
INVARIANTS
    DeadlocksNeedLockDb
    SessionsAgree
PROPERTIES
    EveryCallReturns
