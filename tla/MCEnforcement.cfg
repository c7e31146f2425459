CONSTANTS
    s1 = s1
    Sessions = {s1, s2, s3}
    Arrests = {a1}
    Warrants = {w1}
    Bails = {b1, b2}
    None = None
    RankOf <- OneConstable
    MinimumRank = 1
SPECIFICATION Spec
SYMMETRY Exchangeable
INVARIANTS
    BailsAgreeWithCustody
PROPERTIES
    FinalStatesAreKept
