------------------------------ MODULE MCRecordWalk ------------------------------
(* Small instances of MergeHistory: the scalars a stream may hold, and symmetry. *)
EXTENDS MergeHistory, TLC

CONSTANTS A, B, One

Plain(t) == [text |-> t, tag |-> "str", val |-> t]

MCAtoms == {None, MergeText, A, B, One}
MCMergeKey == [text |-> MergeText, tag |-> "merge", val |-> MergeText]
MCNull == [text |-> A, tag |-> "null", val |-> None]

MCScalars == {Plain(A), MCNull}
MCKeys == {Plain(A), MCMergeKey}
MCAnchored == {Plain(A)}

\* Streams of every shape: they end in five events less than the bound allows.
MCShort == Room(frames, left - 5)

\* Longer ones are one document of mappings: sequences only where '<<' names
\* several mappings, other collections where '<<' names one or under an anchor,
\* no sets or ordered maps.
MCMerges ==
    /\ ndocs <= 1
    /\ \A a \in Addr : heap[a].kind # "set"
    /\ Range(modes) = {"plain"}
    /\ \A a \in Range(stack) : IsList(heap, a) => merge_targets[a] # Absent
    /\ \A i \in 2..Len(stack) :
          pending_tag[i] = "merge" \/ IsList(heap, stack[i - 1]) \/ stack[i] \in Range(anchors)
    /\ \A n \in Names : anchors[n] = Absent \/ IsDict(heap, anchors[n])

MCStreams == MCShort \/ MCMerges

\* Only the events after which a stream can still be one of those.
MCNext ==
    \/ /\ MCMerges \/ Room(Received(FALSE), left - 6)
       /\ NoteScalar \/ NoteAlias
    \/ /\ MCMerges \/ Room(Received(FALSE), left - 7)
       /\ NoteStart
    \/ NoteEnd
    \/ ReadDocument /\ UNCHANGED history

MCSpec == HistoryInit /\ [][MCNext]_<<vars, history>>

MCSymmetry == Permutations(Addr)
=============================================================================
