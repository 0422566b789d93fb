------------------------------ MODULE MergeHistory ------------------------------
(***************************************************************************)
(* What '<<' means, against how the record walk gets there.  The walk      *)
(* merges incrementally: at once for an alias, at the close for a          *)
(* collection written in place.  The history kept here is only what the    *)
(* document says of each mapping: the pairs it writes itself and the       *)
(* values of its '<<' keys, in order.                                      *)
(***************************************************************************)
EXTENDS RecordWalk

Sequence == INSTANCE SequencesExt

VARIABLES
    own,             \* address -> key -> the value the mapping itself gives it last
    sources          \* address -> the values of its '<<' keys, in order: the pairs
                     \* of their mappings, or (at) a collection still being written

history == <<own, sources>>

HistoryInit ==
    /\ Init
    /\ own = [a \in Addr |-> [k \in Atoms |-> Absent]]
    /\ sources = [a \in Addr |-> <<>>]

\* The pairs of the mappings that a value of '<<' names, in order.
Maps(v) == IF IsDict(heap, v) THEN <<heap[v].pairs>>
           ELSE [i \in DOMAIN heap[v].elems |-> heap[heap[v].elems[i]].pairs]

Written(v) == [at |-> v, maps |-> <<>>]
Known(v) == [at |-> Absent, maps |-> Maps(v)]

\* v is the next node of the innermost collection, to be noted as the source x
\* if it is a source; o and s are the histories.
Note(v, x, o, s) ==
    LET filled == error' = "none" /\ InMapping(heap) /\ ~AwaitsKey
        merged == filled /\ MergeAwaitsValue
    IN  /\ own' = IF filled /\ ~merged
                  THEN [o EXCEPT ![Parent][Key] =
                            IF heap[Parent].kind = "set" THEN None ELSE v]
                  ELSE o
        /\ sources' = IF merged THEN [s EXCEPT ![Parent] = Append(@, x)] ELSE s

NoteScalar == \E s \in KeyScalars \cup ValueScalars, n \in Names \cup {NoName} :
    ScalarNode(s, n) /\ Scalar(s, n) /\ Note(s.val, Written(s.val), own, sources)

NoteStart == \E a \in Free, kind \in {"map", "seq"}, tag \in CollTags, n \in Names \cup {NoName} :
    /\ CollectionStart(kind) /\ Start(a, kind, tag, n)
    /\ Note(a, Written(a), [own EXCEPT ![a] = [k \in Atoms |-> Absent]],
            [sources EXCEPT ![a] = <<>>])

\* What an alias names under '<<' is what it holds now, still open or not.
NoteAlias == \E n \in Names :
    AliasNode /\ Alias(n) /\ Note(anchors[n], Known(anchors[n]), own, sources)

\* What was written under '<<' is known when it ends.
NoteEnd ==
    /\ ReadEnd
    /\ sources' = [a \in Addr |-> [i \in DOMAIN sources[a] |->
                      IF error' = "none" /\ sources[a][i].at = Parent THEN Known(Parent) ELSE sources[a][i]]]
    /\ UNCHANGED own

HistoryNext ==
    \/ NoteScalar
    \/ NoteStart
    \/ NoteAlias
    \/ NoteEnd
    \/ ReadDocument /\ UNCHANGED history

HistorySpec == HistoryInit /\ [][HistoryNext]_<<vars, history>>

-----------------------------------------------------------------------------
\* The pairs of the mappings that the '<<' keys with the values s name, in order.
Named(s) == Sequence!FlattenSeq([i \in DOMAIN s |-> s[i].maps])

\* What the first of the maps that has key k gives it.
Foremost(maps, k) ==
    LET from == Sequence!SelectInSeq(maps, LAMBDA m : m[k] # Absent)
    IN  IF from = 0 THEN Absent ELSE maps[from][k]

\* A set takes their keys only.
Inherited(kind, maps, k) ==
    IF kind = "set" /\ Foremost(maps, k) # Absent THEN None ELSE Foremost(maps, k)

\* In heap h every mapping has the pairs the histories o and s give it.
Flattened(h, o, s) ==
    \A a \in Addr : h[a].kind # "list" =>
        LET maps == Named(s[a])
        IN  \A k \in Atoms :
                h[a].pairs[k] =
                    IF o[a][k] # Absent THEN o[a][k] ELSE Inherited(h[a].kind, maps, k)

(* A mapping, open or closed, holds the pairs it has written itself, and for *)
(* every other key what the first '<<' that has the key gives it, whether    *)
(* the source came by alias or in place.                                     *)
FlattenedMeaning == error = "none" => Flattened(heap, own, sources)

\* In the histories s, the sources that wait are those that targets says wait,
\* each of them the last of its mapping.
Waiting(s, targets) ==
    /\ \A a \in Addr : \A i \in DOMAIN s[a] :
          s[a][i].at # Absent =>
              /\ s[a][i].at \in Addr /\ targets[s[a][i].at] = a
              /\ i = Len(s[a]) /\ s[a][i].maps = <<>>
    /\ \A x \in Addr : targets[x] # Absent =>
          s[targets[x]] # <<>> /\ s[targets[x]][Len(s[targets[x]])].at = x

(* A mapping waits for one source at most, and gets no other until that one  *)
(* has closed: a merge that waits loses no place to a later one.             *)
DeferredIsLast == error = "none" => Waiting(sources, merge_targets)
=============================================================================
