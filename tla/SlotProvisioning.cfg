SPECIFICATION Spec
CONSTANTS
    Calls = {s1, c1, c2}
    Seeds = {s1}
    Tenants = {t1, t2}
    FreeNumbers = {f1, f2}
    NoCall = NoCall
    BornTemporary = TRUE
    MaxRestarts = 2
SYMMETRY Symmetry
INVARIANTS
    TypeOK
    RowOpensToken
    SlotsAreServed
    SessionsAreOwned
PROPERTIES
    AnsweredRowsStay
CHECK_DEADLOCK FALSE
