SPECIFICATION Spec
CONSTANTS
    Engines <- MCEngines
    Overrides <- MCOverrides
    Siblings <- MCSiblings
    Floor = 19
    Functions = {"drain", "load", "each_document", "dump", "dump_all", "dump width", "validate", "safe_load",
                 "json.loads", "json.dumps", "cbor.load", "cbor.load_all", "cbor.dump",
                 "cbor.dump_all"}
    Sizes <- MCSizes
INVARIANTS NothingLeaked HandlesAlive FailsClosed OnlyBoundNames
CHECK_DEADLOCK FALSE
