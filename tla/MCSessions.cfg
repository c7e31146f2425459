CONSTANTS
    c1 = c1
    c2 = c2
    CLI = CLI
    Connections = {c1, c2}
    Officers = {1, 2, 3, 4}
    Nobody = Nobody
    Rank <- RankOf
    FirstOfficer = 1
    Fallback = TRUE
    Lifetime = 2
    MaxTime = 3
    MaxTokens = 3
SYMMETRY Symmetries
SPECIFICATION SessionsSpec
INVARIANTS
    HeldIsStored
    ValidHasAnOwner
    RankCheckNeverLenient
