SPECIFICATION FairSpec
CONSTANTS
    Kids = {k1, k2}
    Workers = {w1, w2}
    NoWorker = NoWorker
    NoKid = NoKid
INVARIANTS
    TypeOK
    SteadyKeysAccepted
PROPERTIES
    WithdrawnKeysGo
    RequestsAnswered
