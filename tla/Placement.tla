------------------------------- MODULE Placement -------------------------------
(***************************************************************************)
(* The state and the placement rules the two loader walks share            *)
(* (yeptris/_loader.py): the Python containers a walk builds, identified   *)
(* by their address, the walk's parallel stacks, and where a value goes    *)
(* when an event delivers one.  A dict gives every key a value or Absent   *)
(* (key order is left out), a set is a dict whose values are all None, a   *)
(* list is a sequence of values, of pairs for an ordered map.              *)
(***************************************************************************)
EXTENDS EventStream, FiniteSets, Functions

CONSTANTS
    Addr,            \* addresses a Python container may occupy
    Absent           \* no value, no container: a missing key, an unbound name

ASSUME AddrAssumption ==
    /\ Addr \cap Atoms = {}
    /\ Absent \notin Addr \cup Atoms
    /\ IsFiniteSet(Addr)

VARIABLES
    docs,            \* one root value per document begun
    stack,           \* the open containers, innermost last
    pending_key,     \* per open container, after a sentinel: the key awaiting its value
    pending_tag,     \* the resolver tag of that frame's last key
    modes,           \* per open container, after a sentinel: its constructor shape
    anchors,         \* anchor name -> value, this document's
    merge_targets,   \* address of a container still empty -> container to merge it into
    heap,            \* address -> container
    fresh, closed,   \* the locals that keep the last opened and closed container alive
    error            \* the exception class the walk raised

walkVars == <<docs, stack, pending_key, pending_tag, modes, anchors,
              merge_targets, heap, fresh, closed, error>>

Value == Atoms \cup Addr
Entry == Value \cup (Atoms \X Value)

\* The tuple an ordered map holds is no scalar of the stream and no container.
ASSUME PairAssumption == Value \cap (Atoms \X Value) = {}

Modes == {"plain", "set", "omap", "omap_member"}
Errors == {"none", "ConstructorError", "ComposerError", "TypeError"}

Container == [kind : {"list", "dict", "set"},
              elems : Seq(Entry),
              pairs : [Atoms -> Value \cup {Absent}]]

Empty(kind) == [kind |-> kind, elems |-> <<>>, pairs |-> [k \in Atoms |-> Absent]]

Keys(c) == {k \in Atoms : c.pairs[k] # Absent}

PlacementTypeOK ==
    /\ docs \in Seq(Value)
    /\ stack \in Seq(Addr)
    /\ pending_key \in Seq(Value)
    /\ pending_tag \in Seq(Tags)
    /\ modes \in Seq(Modes)
    /\ anchors \in [Names -> Value \cup {Absent}]
    /\ merge_targets \in [Addr -> Addr \cup {Absent}]
    /\ heap \in [Addr -> Container]
    /\ fresh \in Addr \cup {Absent}
    /\ closed \in Addr \cup {Absent}
    /\ error \in Errors

PlacementInit ==
    /\ docs = <<>>
    /\ stack = <<>>
    /\ pending_key = <<None>>
    /\ pending_tag = <<"notag">>
    /\ modes = <<"plain">>
    /\ anchors = [n \in Names |-> Absent]
    /\ merge_targets = [a \in Addr |-> Absent]
    /\ heap = [a \in Addr |-> Empty("list")]
    /\ fresh = Absent
    /\ closed = Absent
    /\ error = "none"

-----------------------------------------------------------------------------
(* Sequences used as Python lists. *)

Top(s) == s[Len(s)]
Pop(s) == SubSeq(s, 1, Len(s) - 1)
SetTop(s, x) == [s EXCEPT ![Len(s)] = x]

(* Reachability: CPython frees a container once nothing refers to it, and  *)
(* may then hand its address to the next one.                              *)

ListRefs(elems) ==
    Range(elems) \cup UNION {Range(e) : e \in {x \in Range(elems) : x \notin Value}}

Refs(c) == (ListRefs(c.elems) \cup Range(c.pairs)) \cap Addr

\* What the containers in S lead to in heap h, in at most as many steps as there
\* are addresses.
ReachableIn(h, S) ==
    LET grow[n \in 0..Cardinality(Addr)] ==
            IF n = 0 THEN S
            ELSE LET g == grow[n - 1] IN g \cup UNION {Refs(h[x]) : x \in g}
    IN  grow[Cardinality(Addr)]

Reachable(S) == ReachableIn(heap, S)

Roots ==
    ( Range(docs) \cup Range(stack) \cup Range(pending_key) \cup Range(anchors)
      \cup Range(merge_targets) \cup {fresh, closed} ) \cap Addr

Live == Roots \cup Reachable(Roots)

Free == Addr \ Live

\* What is no longer reachable is gone; a is a new empty container.
Allocate(a, kind) ==
    LET kept == Live
    IN  [x \in Addr |-> IF x = a THEN Empty(kind)
                        ELSE IF x \in kept THEN heap[x] ELSE Empty("list")]

-----------------------------------------------------------------------------
(* '<<' merging: existing keys win, sources merge in order. *)

IsDict(h, v) == v \in Addr /\ h[v].kind = "dict"
IsList(h, v) == v \in Addr /\ h[v].kind = "list"
IsEmpty(h, v) == h[v].elems = <<>> /\ Keys(h[v]) = {}

Mergeable(h, v) ==
    \/ IsDict(h, v)
    \/ IsList(h, v) /\ \A i \in DOMAIN h[v].elems : IsDict(h, h[v].elems[i])

Sources(h, v) == IF IsDict(h, v) THEN <<v>> ELSE h[v].elems

\* Slip: a later source overrides an earlier one.
LastWith(h, srcs, k) ==
    LET has == {i \in DOMAIN srcs : k \in Keys(h[srcs[i]])}
        last == {i \in has : \A j \in has : j <= i}
    IN  IF last = {} THEN Absent ELSE h[srcs[CHOOSE i \in last : TRUE]].pairs[k]

\* The value the first source that has key k gives it.
FirstWith(h, srcs, k) ==
    LET has == {i \in DOMAIN srcs : k \in Keys(h[srcs[i]])}
        first == {i \in has : \A j \in has : i <= j}
    IN  IF first = {} THEN Absent ELSE h[srcs[CHOOSE i \in first : TRUE]].pairs[k]

\* Slip: the sources' pairs overwrite the mapping's own.
MergedPairsOverwriting(h, t, v) ==
    [k \in Atoms |->
        IF FirstWith(h, Sources(h, v), k) = Absent THEN h[t].pairs[k]
        ELSE IF h[t].kind = "set" THEN None
        ELSE FirstWith(h, Sources(h, v), k)]

\* A set takes the sources' keys only.
MergedPairs(h, t, v) ==
    [k \in Atoms |->
        IF k \in Keys(h[t]) THEN h[t].pairs[k]
        ELSE IF h[t].kind = "set" /\ FirstWith(h, Sources(h, v), k) # Absent THEN None
        ELSE FirstWith(h, Sources(h, v), k)]

Merge(h, t, v) == [h EXCEPT ![t].pairs = MergedPairs(h, t, v)]

-----------------------------------------------------------------------------
(* Where a value goes.  h is the heap the value lives in; push tells that  *)
(* the value is a container just opened, whose frame goes on the stacks.   *)

Parent == Top(stack)
Key == Top(pending_key)
InMapping(h) == stack # <<>> /\ h[Parent].kind # "list"
InOmap == stack # <<>> /\ Top(modes) = "omap"

AwaitsKey == Key = None
MergeAwaitsValue == Key = MergeText /\ Top(pending_tag) = "merge"

SinglePair(h, v) == IsDict(h, v) /\ Cardinality(Keys(h[v])) = 1

PairOf(c) == LET k == CHOOSE k \in Keys(c) : TRUE IN <<k, c.pairs[k]>>

AddElem(h, p, x) == [h EXCEPT ![p].elems = Append(@, x)]

AddPair(h, p, k, v) ==
    [h EXCEPT ![p].pairs[k] = IF h[p].kind = "set" THEN None ELSE v]

\* The exception placing v raises.  later: an empty container under '<<' waits
\* for its close instead of merging now.
Refusal(v, h, later) ==
    IF InOmap THEN IF SinglePair(h, v) THEN "none" ELSE "ConstructorError"
    ELSE IF ~InMapping(h) \/ AwaitsKey THEN "none"
    ELSE IF MergeAwaitsValue THEN
        IF later \/ Mergeable(h, v) THEN "none" ELSE "ConstructorError"
    ELSE IF Key \notin Addr THEN "none"
    ELSE IF h[Parent].kind = "set" THEN "ConstructorError"
    ELSE "TypeError"

Raise(class) ==
    /\ error' = class
    /\ UNCHANGED <<docs, stack, pending_key, pending_tag, modes, anchors,
                   merge_targets, heap, fresh, closed>>

\* Only the pending stacks of the parent frame change, and a new frame's pair
\* of sentinels goes on top of them.
Pend(key, tag, push) ==
    LET ks == SetTop(pending_key, key)
        ts == SetTop(pending_tag, tag)
    IN  /\ pending_key' = IF push THEN Append(ks, None) ELSE ks
        /\ pending_tag' = IF push THEN Append(ts, "notag") ELSE ts

PlaceRoot(v, h, push) ==
    /\ stack = <<>>
    /\ docs' = SetTop(docs, v)
    /\ heap' = h
    /\ Pend(Key, Top(pending_tag), push)
    /\ UNCHANGED merge_targets

PlaceElement(v, h, push) ==
    /\ stack # <<>> /\ ~InMapping(h) /\ ~InOmap
    /\ heap' = AddElem(h, Parent, v)
    /\ Pend(Key, Top(pending_tag), push)
    /\ UNCHANGED <<docs, merge_targets>>

\* Slip: an aliased mapping goes in whole.
PlaceMemberWhole(v, h, push) ==
    /\ InOmap
    /\ heap' = AddElem(h, Parent, v)
    /\ Pend(Key, Top(pending_tag), push)
    /\ UNCHANGED <<docs, merge_targets>>

\* An aliased single-pair mapping contributes its pair to the ordered map.
PlaceMember(v, h, push) ==
    /\ InOmap
    /\ heap' = AddElem(h, Parent, PairOf(h[v]))
    /\ Pend(Key, Top(pending_tag), push)
    /\ UNCHANGED <<docs, merge_targets>>

PlaceKey(v, tag, h, push) ==
    /\ InMapping(h) /\ AwaitsKey
    /\ heap' = h
    /\ Pend(v, tag, push)
    /\ UNCHANGED <<docs, merge_targets>>

PlaceValue(v, h, push) ==
    /\ InMapping(h) /\ ~AwaitsKey /\ ~MergeAwaitsValue
    /\ heap' = AddPair(h, Parent, Key, v)
    /\ Pend(None, Top(pending_tag), push)
    /\ UNCHANGED <<docs, merge_targets>>

\* Slip: the key stays pending after its merge.
MergeNowKeepsKey(v, h, push) ==
    /\ InMapping(h) /\ MergeAwaitsValue
    /\ heap' = Merge(h, Parent, v)
    /\ Pend(Key, Top(pending_tag), push)
    /\ UNCHANGED <<docs, merge_targets>>

\* Slip: source and target swapped.
MergeNowBackwards(v, h, push) ==
    /\ InMapping(h) /\ MergeAwaitsValue
    /\ heap' = IF IsDict(h, v) THEN Merge(h, v, Parent) ELSE h
    /\ Pend(None, Top(pending_tag), push)
    /\ UNCHANGED <<docs, merge_targets>>

MergeNow(v, h, push) ==
    /\ InMapping(h) /\ MergeAwaitsValue
    /\ heap' = Merge(h, Parent, v)
    /\ Pend(None, Top(pending_tag), push)
    /\ UNCHANGED <<docs, merge_targets>>

MergeLater(v, h, push) ==
    /\ InMapping(h) /\ MergeAwaitsValue
    /\ heap' = h
    /\ merge_targets' = [merge_targets EXCEPT ![v] = Parent]
    /\ Pend(None, Top(pending_tag), push)
    /\ UNCHANGED docs

Place(v, tag, h, push, later) ==
    \/ PlaceRoot(v, h, push)
    \/ PlaceElement(v, h, push)
    \/ PlaceMember(v, h, push)
    \/ PlaceKey(v, tag, h, push)
    \/ PlaceValue(v, h, push)
    \/ ~later /\ MergeNow(v, h, push)
    \/ later /\ MergeLater(v, h, push)

Bind(name, v) == IF name = NoName THEN anchors ELSE [anchors EXCEPT ![name] = v]

-----------------------------------------------------------------------------
(* One event each. *)

PlaceScalar(v, tag, name) ==
    LET refusal == Refusal(v, heap, FALSE) IN
    \/ refusal # "none" /\ Raise(refusal)
    \/ /\ refusal = "none"
       /\ anchors' = Bind(name, v)
       /\ Place(v, tag, heap, FALSE, FALSE)
       /\ UNCHANGED <<stack, modes, fresh, closed, error>>

\* The shape a collection's tag asks for; a member of an ordered map has none.
ModeOf(tag) == IF InOmap THEN "omap_member" ELSE tag

\* Slip: an ordered map's tag is not refused on a mapping.
OpenRefusalMembersOnly(kind, mode) ==
    IF mode \in {"omap_member", "set"} /\ kind = "seq" THEN "ConstructorError" ELSE "none"

OpenRefusal(kind, mode) ==
    IF \/ mode \in {"omap_member", "set"} /\ kind = "seq"
       \/ mode = "omap" /\ kind = "map"
    THEN "ConstructorError" ELSE "none"

KindOf(kind, mode) ==
    IF mode = "set" THEN "set" ELSE IF kind = "map" THEN "dict" ELSE "list"

\* A collection begins at address a.  An ordered map's member is not placed
\* now: its pair goes into the map when the member closes.
OpenAt(a, kind, tag, name, later) ==
    LET mode == ModeOf(tag)
        h == Allocate(a, KindOf(kind, mode))
        refusal == IF OpenRefusal(kind, mode) # "none" THEN OpenRefusal(kind, mode)
                   ELSE IF InOmap THEN "none" ELSE Refusal(a, h, later)
    IN
    /\ a \in Free
    /\ \/ refusal # "none" /\ Raise(refusal)
       \/ /\ refusal = "none"
          /\ fresh' = a
          /\ anchors' = Bind(name, a)
          /\ IF InOmap
             THEN /\ heap' = h
                  /\ Pend(Key, Top(pending_tag), TRUE)
                  /\ UNCHANGED <<docs, merge_targets>>
             ELSE Place(a, "str", h, TRUE, later)
          /\ stack' = Append(stack, a)
          /\ modes' = Append(modes, mode)
          /\ UNCHANGED <<closed, error>>

IsMember == Top(modes) = "omap_member"
Target == merge_targets[Parent]

CloseRefusal ==
    IF \/ IsMember /\ (Cardinality(Keys(heap[Parent])) # 1 \/ Top(pending_tag) = "merge")
       \/ Target # Absent /\ ~Mergeable(heap, Parent)
    THEN "ConstructorError" ELSE "none"

Below == Top(Pop(stack))

\* The heap once the innermost container has given its pair to the ordered map
\* it is a member of.
MemberAdded == IF IsMember THEN AddElem(heap, Below, PairOf(heap[Parent])) ELSE heap

\* Slip: the entry of merge_targets is read, not popped.
SettleKeepsWait ==
    /\ heap' = IF Target # Absent THEN Merge(MemberAdded, Target, Parent) ELSE MemberAdded
    /\ closed' = Parent
    /\ UNCHANGED <<docs, anchors, merge_targets, fresh, error>>

\* What a close that is not refused does, apart from the container stacks.
Settle ==
    /\ heap' = IF Target # Absent THEN Merge(MemberAdded, Target, Parent) ELSE MemberAdded
    /\ merge_targets' = [merge_targets EXCEPT ![Parent] = Absent]
    /\ closed' = Parent
    /\ UNCHANGED <<docs, anchors, fresh, error>>

PopFrame ==
    /\ stack' = Pop(stack)
    /\ pending_key' = Pop(pending_key)
    /\ pending_tag' = Pop(pending_tag)
    /\ modes' = Pop(modes)

\* Slip: one of the four lists is not popped.
CloseKeepsTag ==
    \/ CloseRefusal # "none" /\ Raise(CloseRefusal)
    \/ /\ CloseRefusal = "none" /\ Settle
       /\ stack' = Pop(stack) /\ pending_key' = Pop(pending_key) /\ modes' = Pop(modes)
       /\ UNCHANGED pending_tag

\* The innermost container closes: an ordered map's member gives its pair to
\* the map, and a merge that waited for this container happens.
Close ==
    \/ CloseRefusal # "none" /\ Raise(CloseRefusal)
    \/ CloseRefusal = "none" /\ Settle /\ PopFrame

\* Slip: a document sees the anchors of the one before it.
BeginDocumentKeepsAnchors ==
    /\ docs' = Append(docs, None)
    /\ UNCHANGED <<stack, pending_key, pending_tag, modes, anchors, merge_targets, heap,
                   fresh, closed, error>>

\* Anchors are per document.
BeginDocument ==
    /\ anchors' = [n \in Names |-> Absent]
    /\ docs' = Append(docs, None)
    /\ UNCHANGED <<stack, pending_key, pending_tag, modes, merge_targets, heap,
                   fresh, closed, error>>

\* Slip: an alias of an undefined anchor is not refused.
PlaceAliasUnchecked(name, later) ==
    LET v == anchors[name] IN
    /\ Refusal(v, heap, later) = "none"
    /\ Place(v, "str", heap, FALSE, later)
    /\ UNCHANGED <<stack, modes, anchors, fresh, closed, error>>

PlaceAlias(name, later) ==
    LET v == anchors[name] IN
    \/ v = Absent /\ Raise("ComposerError")
    \/ /\ v # Absent
       /\ LET refusal == Refusal(v, heap, later) IN
          \/ refusal # "none" /\ Raise(refusal)
          \/ /\ refusal = "none"
             /\ Place(v, "str", heap, FALSE, later)
             /\ UNCHANGED <<stack, modes, anchors, fresh, closed, error>>

-----------------------------------------------------------------------------
\* Every container on the stack is there once.
Distinct ==
    \A i, j \in 1..Len(stack) : stack[i] = stack[j] => i = j

\* An ordered map's member lies above its map.
MembersAbove ==
    \A i \in 1..Len(stack) : modes[i + 1] = "omap_member" => i > 1

\* An ordered map is a list.
OmapsAreLists ==
    \A i \in 1..Len(stack) : modes[i + 1] = "omap" => heap[stack[i]].kind = "list"

(* What every rule above relies on of the open containers: the four parallel *)
(* lists hold one entry each, above the sentinels, and the shapes fit.       *)
FramesKept ==
    error = "none" =>
        /\ Len(pending_key) = Len(stack) + 1
        /\ Len(pending_tag) = Len(stack) + 1
        /\ Len(modes) = Len(stack) + 1
        /\ Distinct /\ MembersAbove /\ OmapsAreLists

(* A merge that waits is for a container still open, into the container just *)
(* below it.  merge_targets is keyed by id(): an entry that outlived its     *)
(* container would merge whatever gets that address next.                    *)
DeferredOnStack ==
    error = "none" =>
        \A a \in {x \in Addr : merge_targets[x] # Absent} :
            \E i \in 2..Len(stack) : stack[i] = a /\ merge_targets[a] = stack[i - 1]
=============================================================================
