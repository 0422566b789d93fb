SPECIFICATION ReloadSpec
CONSTANTS
    A = A
    NullText = NullText
    OneText = OneText
    One = One
    Data = Data
    Other = Other
    o1 = o1
    o2 = o2
    o3 = o3
    None = None
    Null = None
    MergeText = MergeText
    NoName = NoName
    Absent = Absent
    Atoms <- MCAtoms
    Scalars <- MCAtoms
    Shape <- MCShape
    Resolved <- MCResolved
    Bytes = {Data}
    Odd = {Other}
    Objs = {o1, o2, o3}
    Inputs <- MCInputs
    MaxNesting = 2
    InitialEst = 2
    KeyScalars <- MCNodes
    ValueScalars <- MCNodes
    AnchorScalars = {}
    MergeAliases = FALSE
    Names = {}
    CollTags = {"plain", "set"}
    Addr = {c1, c2, c3, c4, c5, c6, c7}
    MaxEvents = 30
    MaxDepth = 4
    MaxDocs = 2
INVARIANTS RefusedJustly RoundTrip
PROPERTY Ends
CHECK_DEADLOCK FALSE
