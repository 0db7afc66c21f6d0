SPECIFICATION FairSpec
CONSTANTS
    Labels = {k1, k2}
    Workers = {w1, w2}
    Calls = {"generate", "delete", "sign", "public", "list", "close"}
    Faults = {"hsm", "undo", "logout"}
    NoWorker = NoWorker
INVARIANTS
    TypeOK
    OwnOperation
    NoStrayOperation
    KeyHeldWhileUsed
PROPERTIES
    ImplementsHsmToken
    CallsReturn
