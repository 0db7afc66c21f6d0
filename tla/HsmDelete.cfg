SPECIFICATION Spec
CONSTANTS
    Labels = {k1}
    Workers = {w1, w2}
    Calls = {"generate", "delete", "sign"}
    Faults = {}
    NoWorker = NoWorker
INVARIANTS
    DeleteMeansGone
