SPECIFICATION Spec
CONSTANTS
    Calls = {v1, v2, k1}
    Closers = {v1, v2, k1}
    Interrupts = {"reading", "reading late", "calling"}
INVARIANTS TypeOK NeverUsedDead FreedOnce ReportsFreed
PROPERTY EventuallyFreed
CHECK_DEADLOCK FALSE
