SPECIFICATION MCSpec
CONSTANTS
    A = A
    B = B
    One = One
    None = None
    MergeText = MergeText
    NoName = NoName
    Absent = Absent
    Atoms <- MCAtoms
    ValueScalars <- MCScalars
    KeyScalars <- MCKeys
    AnchorScalars <- MCAnchored
    MergeAliases = TRUE
    Names = {n1}
    CollTags = {"plain", "set", "omap"}
    Addr = {c1, c2, c3, c4}
    MaxEvents = 14
    MaxDepth = 3
    MaxDocs = 2
CONSTRAINT MCStreams
SYMMETRY MCSymmetry
INVARIANTS TypeOK Aligned PendingMatchesStream DeferredOnStack DocumentsShareNothing IInv ShapesKept FlattenedMeaning DeferredIsLast
PROPERTIES ClosedIsFinal ExistingKeysWin
CHECK_DEADLOCK FALSE
