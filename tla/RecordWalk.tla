------------------------------- MODULE RecordWalk -------------------------------
(***************************************************************************)
(* load_all (yeptris/_loader.py): one pass over the record drain that      *)
(* builds every document of the stream.  Its three placement sites inline  *)
(* the rules of Placement; what is its own is when a '<<' waits: for every *)
(* collection it opens, and never for an alias.                            *)
(***************************************************************************)
EXTENDS Placement

vars == <<streamVars, walkVars>>

Init == StreamInit /\ PlacementInit

Scalar(s, name) == error = "none" /\ PlaceScalar(s.val, s.tag, name)

Start(a, kind, tag, name) == error = "none" /\ OpenAt(a, kind, tag, name, TRUE)

End == error = "none" /\ Close

Document == error = "none" /\ BeginDocument

Alias(name) == error = "none" /\ PlaceAlias(name, FALSE)

ReadScalar == \E s \in KeyScalars \cup ValueScalars, n \in Names \cup {NoName} :
    ScalarNode(s, n) /\ Scalar(s, n)

ReadStart == \E kind \in {"map", "seq"}, tag \in CollTags, n \in Names \cup {NoName}, a \in Addr :
    CollectionStart(kind) /\ Start(a, kind, tag, n)

ReadEnd == CollectionEnd /\ End

ReadDocument == DocumentStart /\ Document

ReadAlias == \E n \in Names : AliasNode /\ Alias(n)

Next == ReadScalar \/ ReadStart \/ ReadEnd \/ ReadDocument \/ ReadAlias

Spec == Init /\ [][Next]_vars

-----------------------------------------------------------------------------
(* The walk's state has the types the code gives it. *)
TypeOK == StreamTypeOK /\ PlacementTypeOK

(* The four parallel lists of load_all stay parallel to the collections the *)
(* engine holds open: one entry each, of the same kind, above the sentinel, *)
(* so no event ever pops or reads another frame's key, tag or shape.        *)
Aligned ==
    error = "none" =>
        /\ Len(stack) = Len(frames)
        /\ Len(pending_key) = Len(stack) + 1
        /\ Len(pending_tag) = Len(stack) + 1
        /\ Len(modes) = Len(stack) + 1
        /\ \A i \in 1..Len(stack) : (heap[stack[i]].kind = "list") <=> (frames[i].kind = "seq")

(* A key is pending exactly in the mappings that the stream has given a key *)
(* and not yet its value.                                                   *)
PendingMatchesStream ==
    error = "none" =>
        \A i \in 1..Len(stack) : (pending_key[i + 1] # None) <=> frames[i].half

\* No key of the stream is null, and no anchor is on a null: an alias may be a key.
NoNullKeys == \A s \in KeyScalars \cup AnchorScalars : s.val # None

(* Every open container has the shape its tag asked for: an ordered map holds *)
(* only pairs and its members are dicts, a set holds only keys, a plain list *)
(* never holds a pair.                                                       *)
HoldsPairs(c) == \A i \in DOMAIN c.elems : c.elems[i] \notin Value

HasShape(c, mode) ==
    /\ mode = "omap" => c.kind = "list" /\ HoldsPairs(c)
    /\ mode = "omap_member" => c.kind = "dict"
    /\ mode = "set" <=> c.kind = "set"
    /\ mode = "set" => \A k \in Keys(c) : c.pairs[k] = None
    /\ mode = "plain" => \A i \in DOMAIN c.elems : c.elems[i] \in Value

ShapesKept ==
    error = "none" =>
        \A i \in 1..Len(stack) :
            /\ HasShape(heap[stack[i]], modes[i + 1])
            /\ modes[i + 1] = "omap_member" => modes[i] = "omap"

(* Documents share nothing: what one document's root reaches, no other's    *)
(* does, since anchors are per document.                                    *)
DocumentsShareNothing ==
    \A i, j \in 1..Len(docs) : i # j => Reachable({docs[i]} \cap Addr) \cap Reachable({docs[j]} \cap Addr) = {}

(* A container that has closed never changes again while anything refers to *)
(* it: what an alias shares is what its anchor named.                       *)
ClosedIsFinal ==
    [][\A a \in Addr \ Range(stack) : heap'[a] = heap[a] \/ a \in Free]_vars

(* '<<' never changes a pair its mapping already has: a pair changes value   *)
(* only where the mapping's own next key repeats that key.                   *)
ExistingKeysWin ==
    [][\A a \in Range(stack), k \in Atoms :
          k \in Keys(heap[a])
             => \/ heap'[a].pairs[k] = heap[a].pairs[k]
                \/ a = Parent /\ Key = k /\ ~MergeAwaitsValue]_vars

-----------------------------------------------------------------------------
\* A document that has begun has a place for its root.
RootPlace == doc # "absent" => docs # <<>>

(* The strengthening under which the parallel lists and the waiting merges of *)
(* load_all are inductive: what every event handler may rely on when it runs. *)
IInv ==
    /\ TypeOK
    /\ RootPlace
    /\ Aligned
    /\ error = "none" => Distinct /\ MembersAbove /\ OmapsAreLists
    /\ DeferredOnStack
=============================================================================
