SPECIFICATION Spec
CONSTANTS
    A = A
    B = B
    One = One
    Coded = Coded
    Decoded = Decoded
    DateText = DateText
    Date = Date
    None = None
    MergeText = MergeText
    NoName = NoName
    Absent = Absent
    Atoms <- MCAtoms
    ValueScalars <- MCOneScalar
    KeyScalars <- MCFewScalars
    AnchorScalars <- MCNone
    MergeAliases = TRUE
    Names = {n1}
    CollTags = {"plain", "set"}
    Addr = {c1, c2, c3}
    MaxEvents = 15
    MaxDepth = 2
    MaxDocs = 2
SYMMETRY MCSymmetry
INVARIANT AcceptedAlike
CHECK_DEADLOCK FALSE
