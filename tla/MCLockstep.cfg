SPECIFICATION Spec
CONSTANTS
    A = A
    B = B
    One = One
    Coded = Coded
    Decoded = Decoded
    DateText = DateText
    Date = Date
    None = None
    MergeText = MergeText
    NoName = NoName
    Absent = Absent
    Atoms <- MCAtoms
    ValueScalars <- MCScalars
    KeyScalars <- MCKeys
    AnchorScalars <- MCAnchored
    MergeAliases = TRUE
    Names = {n1}
    CollTags = {"plain", "set", "omap"}
    Addr = {c1, c2, c3}
    MaxEvents = 10
    MaxDepth = 3
    MaxDocs = 2
CONSTRAINT MCStreams
SYMMETRY MCSymmetry
INVARIANTS TypeOK ColumnsAligned DeferredUnlessEmptyAlias LockstepUnlessEmptyAlias
CHECK_DEADLOCK FALSE
