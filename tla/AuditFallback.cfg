SPECIFICATION Spec
CONSTANTS
    Events = {e1, e2, e3}
    Loops = {w1, w2}
    BufferSize = 1
    Strategies = {"HYBRID"}
    Faults = {"hang"}
    NoEvent = NoEvent
INVARIANTS
    FallbackKeeps
