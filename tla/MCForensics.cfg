CONSTANTS
    p1 = p1
    p2 = p2
    r1 = r1
    r2 = r2
    e1 = e1
    e2 = e2
    Programs = {p1, p2}
    Requests = {r1, r2}
    Items = {e1, e2}
    CaseOf <- MCCaseOf
    Schemas = {"shipped", "expected"}
    InitialEvidence = {"RECEIVED"}
    Nothing = Nothing
SYMMETRY Symmetries
SPECIFICATION ForensicsSpec
INVARIANTS
    EvidenceFollowsReport
PROPERTIES
    EdgesWhenAlone
    NothingMovesAsShipped
