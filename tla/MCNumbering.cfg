CONSTANTS
    Clients = {c1, c2, c3}
    Scopes = {fir}
    None = None
    Limit = 10
SPECIFICATION FairSpec
INVARIANTS
    NumbersInOrder
PROPERTIES
    EveryInsertEnds
    ImplementsSerialNumbers
