------------------------------ MODULE EventStream ------------------------------
(***************************************************************************)
(* What both loader walks read: the engine's composed event stream.  The   *)
(* engine (libyeptris) is external; this grammar is the one the record     *)
(* and columnar drains deliver (yeptris/_ffi.py, drain and drain_columns): *)
(* documents of balanced collections, mappings alternating key and value.  *)
(* A stream that does not parse raises before either walk starts, so only  *)
(* well-formed streams are generated.                                      *)
(***************************************************************************)
EXTENDS Naturals, Sequences, FiniteSets

CONSTANTS
    Atoms,           \* the Python scalars the checks tell apart
    None,            \* Python's None, the value of a null scalar
    MergeText,       \* the text "<<"
    KeyScalars,      \* the scalar nodes a stream may hold as keys, [text, tag, val]
    ValueScalars,    \* those it may hold elsewhere
    AnchorScalars,   \* those it may anchor
    MergeAliases,    \* may an alias be the value of a plain "<<"
    Names,           \* anchor names
    NoName,          \* "this node carries no anchor"
    CollTags,        \* collection tags the stream may hold
    MaxEvents,       \* bound: events in one stream
    MaxDepth,        \* bound: collections open at once
    MaxDocs          \* bound: documents in one stream

Tags == {"str", "merge", "null", "int", "binary", "notag"}
AllCollTags == {"plain", "set", "omap"}

ASSUME StreamAssumption ==
    /\ None \in Atoms /\ MergeText \in Atoms /\ None # MergeText
    /\ KeyScalars \cup ValueScalars \cup AnchorScalars \subseteq [text : Atoms, tag : Tags, val : Atoms]
    /\ MergeAliases \in BOOLEAN
    /\ NoName \notin Names
    /\ CollTags \subseteq AllCollTags
    /\ MaxEvents \in Nat /\ MaxDepth \in Nat /\ MaxDocs \in Nat

VARIABLES
    frames,          \* the open collections, innermost last
    doc,             \* has the current document begun, has it its root node
    ndocs,           \* documents begun
    left             \* events the bound still allows

streamVars == <<frames, doc, ndocs, left>>

\* half: the mapping has a key whose value has not come yet; merge: that key is
\* a plain "<<".
Frame == [kind : {"map", "seq"}, half : BOOLEAN, merge : BOOLEAN]

StreamTypeOK ==
    /\ frames \in Seq(Frame)
    /\ doc \in {"absent", "begun", "rooted"}
    /\ ndocs \in Nat
    /\ left \in Nat

StreamInit ==
    /\ frames = <<>>
    /\ doc = "absent"
    /\ ndocs = 0
    /\ left = MaxEvents

-----------------------------------------------------------------------------
Inner == frames[Len(frames)]

AtKey == frames # <<>> /\ Inner.kind = "map" /\ ~Inner.half

NodeAllowed == frames # <<>> \/ doc = "begun"

\* The frames once the innermost one has received a node.
Received(isMerge) ==
    IF frames = <<>> \/ Inner.kind = "seq" THEN frames
    ELSE [frames EXCEPT ![Len(frames)] =
              [kind |-> "map", half |-> ~Inner.half, merge |-> isMerge]]

\* n events end every collection open in fs, the half pairs' values included.
Room(fs, n) == n >= Len(fs) + Cardinality({i \in DOMAIN fs : fs[i].half})

DocAfterNode == IF frames = <<>> THEN "rooted" ELSE doc

ScalarNode(s, name) ==
    /\ NodeAllowed /\ left > 0
    /\ s \in IF AtKey THEN KeyScalars ELSE ValueScalars
    /\ name # NoName => s \in AnchorScalars
    /\ frames' = Received(AtKey /\ s.tag = "merge")
    /\ Room(frames', left - 1)
    /\ doc' = DocAfterNode
    /\ left' = left - 1
    /\ UNCHANGED ndocs

CollectionStart(kind) ==
    /\ NodeAllowed /\ left > 0 /\ Len(frames) < MaxDepth
    /\ frames' = Append(Received(FALSE), [kind |-> kind, half |-> FALSE, merge |-> FALSE])
    /\ Room(frames', left - 1)
    /\ doc' = DocAfterNode
    /\ left' = left - 1
    /\ UNCHANGED ndocs

AliasNode ==
    /\ NodeAllowed /\ left > 0
    /\ (frames # <<>> /\ Inner.merge) => MergeAliases
    /\ frames' = Received(FALSE)
    /\ Room(frames', left - 1)
    /\ doc' = DocAfterNode
    /\ left' = left - 1
    /\ UNCHANGED ndocs

CollectionEnd ==
    /\ frames # <<>>
    /\ Inner.kind = "map" => ~Inner.half
    /\ left > 0
    /\ frames' = SubSeq(frames, 1, Len(frames) - 1)
    /\ left' = left - 1
    /\ UNCHANGED <<doc, ndocs>>

\* A bare marker opens a document that never gets a node.
DocumentStart ==
    /\ frames = <<>> /\ left > 0 /\ ndocs < MaxDocs
    /\ doc' = "begun"
    /\ ndocs' = ndocs + 1
    /\ left' = left - 1
    /\ UNCHANGED frames
=============================================================================
