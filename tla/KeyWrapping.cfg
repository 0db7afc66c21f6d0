SPECIFICATION Spec
CONSTANTS
    v1 = v1
    v2 = v2
    v3 = v3
    Rows = {r1, r2}
    Processes = {p1, p2}
    Workers = {w1, w2}
    Fields = {v1, v2, v3}
    Configs <- Generations
    OldMasterKey = OldMasterKey
    None = None
SYMMETRY Symmetry
INVARIANTS
    TypeOK
    PinsReadable
    CacheIsRight
