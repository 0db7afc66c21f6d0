SPECIFICATION Spec
CONSTANTS
    Calls = {s1, c1}
    Seeds = {s1}
    Tenants = {t1, t2}
    FreeNumbers = {f1}
    NoCall = NoCall
    BornTemporary = TRUE
    MaxRestarts = 1
INVARIANTS
    RowsAreWhole
CHECK_DEADLOCK FALSE
