SPECIFICATION Spec
CONSTANTS
    Engines <- MCOneEngine
    Overrides <- MCNoPath
    Siblings <- MCNoPath
    Floor = 19
    Functions = {"cbor.dump_all"}
    Sizes <- MCManySizes
INVARIANT NothingLeaked
CHECK_DEADLOCK FALSE
