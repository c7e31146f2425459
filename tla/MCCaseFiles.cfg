CONSTANTS
    p1 = p1
    t1 = t1
    t2 = t2
    k1 = k1
    k2 = k2
    o1 = o1
    o2 = o2
    Programs = {p1}
    Callers = {t1, t2}
    Home <- MCHome
    Clerks = {k1, k2}
    Officers = {o1, o2}
    Rank <- MCRank
    FirstOfficer = o1
    Jobs <- MCJobs
    Nobody = Nobody
    Existing = {"UNDER_INVESTIGATION"}
    CaseIds = {1, 2}
    Times = {1}
    CaseLimit = 1
    MaxSeq = 2
    MaxRuns = 1
SYMMETRY Symmetries
SPECIFICATION MCSpec
INVARIANTS
    ClosersAreSenior
    RefusedForAnothersCase
    OfficersWithinLimit
PROPERTIES
    FitnessIsOthersDoing
