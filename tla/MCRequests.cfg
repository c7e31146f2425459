CONSTANTS
    Frames = {"ping", "dashboard", "unheard", "one case", "no case", "big limit", "big index", "no JSON", "too long"}
    Meant <- Author
    TextOf <- Texted
    OutOfRange = {"too long"}
    HeaderSize = 2
    BodySize = 2
    BufferSize = 3
    MaxFrames = 2
    Uuids = {"some-uuid"}
    TooBig = {"9999999999"}
    Numerals = {"1", "7", "9", "42"}
    Texts = {"some-uuid", "?", "DROP_CASE", "9999999999"}
    ParamNames = {"case_id", "index", "limit", "offset"}
    KeyLists <- Keys0to2
SPECIFICATION FairSpec
\* the client may fall silent
CHECK_DEADLOCK FALSE
INVARIANTS
    ReadByTheCode
PROPERTIES
    EveryRequestAnswered
    ImplementsRequestReply
