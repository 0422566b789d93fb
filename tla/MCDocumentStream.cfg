SPECIFICATION Spec
CONSTANTS
    Documents = {"valid", "unbuildable", "malformed", "too_deep", "memory", "encoding"}
    MaxStream = 4
INVARIANTS TypeOK HandleLifetime
PROPERTIES KeepsPromise EventuallyFreed
CHECK_DEADLOCK FALSE
