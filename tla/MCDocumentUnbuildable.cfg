SPECIFICATION Spec
CONSTANTS
    Documents = {"valid", "unbuildable", "malformed"}
    MaxStream = 2
INVARIANT EveryDocumentAnswered
CHECK_DEADLOCK FALSE
