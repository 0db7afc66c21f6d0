SPECIFICATION Spec
CONSTANTS
    Keys = {k1, k2}
    Tenants = {t1}
    Workers = {w1}
    Usages = {"SIGNING"}
    Faults = {}
    NoKey = NoKey
    NoTenant = NoTenant
PROPERTIES
    RotationDelivers
