SPECIFICATION Spec
CONSTANTS
    Keys = {k1, k2}
    Tenants = {t1, t2}
    Workers = {w1, w2}
    Usages = {"SIGNING", "ENCRYPTION"}
    Faults = {"db", "commit", "hsm", "busy", "crash"}
    NoKey = NoKey
    NoTenant = NoTenant
SYMMETRY Symmetry
INVARIANTS
    TypeOK
    RowBacked
    NoOrphanPrivateKey
    RowsAreKnown
    NoSignatureAfterDelete
PROPERTIES
    ImplementsKeyStore
