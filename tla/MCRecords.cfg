CONSTANTS
    t1 = t1
    t2 = t2
    f1 = f1
    f2 = f2
    q1 = q1
    q2 = q2
    v1 = v1
    r1 = r1
    r2 = r2
    o1 = o1
    o2 = o2
    Threads = {t1, t2}
    Files = {f1, f2}
    NoFile = NoFile
    NoSheet = NoSheet
    MaxRows = 3
    MaxSheets = 2
    MaxRestarts = 1
    Persons = {q1, q2}
    Vehicles = {v1}
    Roles = {r1, r2}
    Recorders = {o1, o2}
    FirstRecorder = o1
    NoRecorder = NoRecorder
    MaxParties = 3
SYMMETRY Symmetries
SPECIFICATION RecordsSpec
INVARIANTS
    LoggedFilesAreSecured
    OneFilePerRun
    SheetsNeverReachCourt
    StatementsAreReadOnly
PROPERTIES
    BlindUntilShutdown
