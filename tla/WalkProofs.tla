---------------------------- MODULE WalkProofs ----------------------------
(***************************************************************************)
(* What the proofs about the two loader walks share: facts about the       *)
(* stream, and about the state and rules of Placement, for every set of    *)
(* scalars, names and addresses and every bound.                           *)
(***************************************************************************)
EXTENDS Placement, SequenceTheorems, FiniteSetTheorems, TLAPS

-----------------------------------------------------------------------------
(* Lists as stacks. *)

LEMMA PopFacts ==
    ASSUME NEW S, NEW s \in Seq(S), s # <<>>
    PROVE  /\ Pop(s) \in Seq(S)
           /\ Len(Pop(s)) = Len(s) - 1
           /\ \A i \in 1..Len(s) - 1 : Pop(s)[i] = s[i]
<1>1. PICK n \in Nat : n = Len(s) - 1
  OBVIOUS
<1>2. \A i \in 1..n : s[i] \in S
  BY <1>1
<1>3. /\ SubSeq(s, 1, n) \in Seq(S)
      /\ Len(SubSeq(s, 1, n)) = IF 1 <= n THEN n - 1 + 1 ELSE 0
      /\ \A i \in 1..n - 1 + 1 : SubSeq(s, 1, n)[i] = s[1 + i - 1]
  BY <1>2, SubSeqProperties
<1>4. Len(SubSeq(s, 1, n)) = n
  BY <1>3
<1>5. \A i \in 1..n : SubSeq(s, 1, n)[i] = s[i]
  BY <1>3
<1> QED
  BY <1>1, <1>3, <1>4, <1>5 DEF Pop

LEMMA SetTopFacts ==
    ASSUME NEW S, NEW s \in Seq(S), s # <<>>, NEW x \in S
    PROVE  /\ SetTop(s, x) \in Seq(S)
           /\ Len(SetTop(s, x)) = Len(s)
           /\ SetTop(s, x)[Len(s)] = x
           /\ \A i \in 1..Len(s) - 1 : SetTop(s, x)[i] = s[i]
BY DEF SetTop

LEMMA TopFacts ==
    ASSUME NEW S, NEW s \in Seq(S), s # <<>>
    PROVE  Top(s) \in S /\ Len(s) \in 1..Len(s)
BY DEF Top

LEMMA AppendFacts ==
    ASSUME NEW S, NEW s \in Seq(S), NEW x \in S
    PROVE  /\ Append(s, x) \in Seq(S)
           /\ Len(Append(s, x)) = Len(s) + 1
           /\ Append(s, x)[Len(s) + 1] = x
           /\ \A i \in 1..Len(s) : Append(s, x)[i] = s[i]
           /\ Append(s, x) # <<>>
OBVIOUS

-----------------------------------------------------------------------------
(* The stream keeps its types. *)

LEMMA ReceivedType ==
    ASSUME StreamTypeOK, NEW m \in BOOLEAN
    PROVE  /\ Received(m) \in Seq(Frame)
           /\ Len(Received(m)) = Len(frames)
           /\ \A i \in 1..Len(frames) : Received(m)[i].kind = frames[i].kind
           /\ \A i \in 1..Len(frames) - 1 : Received(m)[i] = frames[i]
<1>1. CASE frames = <<>> \/ Inner.kind = "seq"
  BY <1>1 DEF Received, StreamTypeOK
<1>2. CASE ~(frames = <<>> \/ Inner.kind = "seq")
  <2>1. Inner \in Frame /\ Len(frames) \in 1..Len(frames)
    BY <1>2 DEF StreamTypeOK, Inner
  <2> DEFINE g == [kind |-> "map", half |-> ~Inner.half, merge |-> m]
  <2>2. g \in Frame /\ g.kind = Inner.kind
    BY <1>2, <2>1 DEF Frame
  <2>3. Received(m) = SetTop(frames, g)
    BY <1>2 DEF Received, SetTop
  <2> HIDE DEF g
  <2>4. /\ SetTop(frames, g) \in Seq(Frame)
        /\ Len(SetTop(frames, g)) = Len(frames)
        /\ SetTop(frames, g)[Len(frames)] = g
        /\ \A i \in 1..Len(frames) - 1 : SetTop(frames, g)[i] = frames[i]
    <3>1. frames \in Seq(Frame) /\ frames # <<>> /\ g \in Frame
      BY <1>2, <2>2 DEF StreamTypeOK
    <3> QED
      BY ONLY <3>1, SetTopFacts
  <2>5. \A i \in 1..Len(frames) : i = Len(frames) \/ i \in 1..Len(frames) - 1
    BY <2>1
  <2> QED
    BY <2>2, <2>3, <2>4, <2>5 DEF Inner
<1> QED
  BY <1>1, <1>2

-----------------------------------------------------------------------------
(* Containers keep their types. *)

HeapType(h) == h \in [Addr -> Container]

LEMMA PairOfType ==
    ASSUME NEW c \in Container, Cardinality(Keys(c)) = 1
    PROVE  PairOf(c) \in Entry
<1>1. Keys(c) # {}
  BY FS_EmptySet
<1>2. (CHOOSE k \in Keys(c) : TRUE) \in Keys(c)
  BY <1>1
<1>3. \A k \in Keys(c) : k \in Atoms /\ c.pairs[k] \in Value
  BY DEF Keys, Container
<1> QED
  BY <1>2, <1>3 DEF PairOf, Entry

LEMMA FirstWithType ==
    ASSUME NEW h, HeapType(h), NEW srcs \in Seq(Entry),
           \A i \in DOMAIN srcs : srcs[i] \in Addr, NEW k \in Atoms
    PROVE  FirstWith(h, srcs, k) \in Value \cup {Absent}
<1> DEFINE has == {i \in DOMAIN srcs : k \in Keys(h[srcs[i]])}
           first == {i \in has : \A j \in has : i <= j}
           pick == CHOOSE i \in first : TRUE
<1>1. first = {} \/ pick \in DOMAIN srcs
  OBVIOUS
<1>2. ASSUME NEW i \in DOMAIN srcs
      PROVE  h[srcs[i]].pairs[k] \in Value \cup {Absent}
  <2>1. h[srcs[i]] \in Container
    BY <1>2 DEF HeapType
  <2> QED
    BY <2>1 DEF Container
<1>3. FirstWith(h, srcs, k) = IF first = {} THEN Absent ELSE h[srcs[pick]].pairs[k]
  BY DEF FirstWith
<1> QED
  BY <1>1, <1>2, <1>3

LEMMA MergeType ==
    ASSUME NEW h, HeapType(h), NEW t \in Addr, NEW v \in Value, Mergeable(h, v), None \in Value
    PROVE  HeapType(Merge(h, t, v)) /\ \A a \in Addr : Merge(h, t, v)[a].kind = h[a].kind
<1>1. h[t] \in Container
  BY DEF HeapType
<1>2. v \in Addr /\ h[v] \in Container
  BY DEF Mergeable, IsDict, IsList, HeapType
<1>3. Sources(h, v) \in Seq(Entry) /\ \A i \in DOMAIN Sources(h, v) : Sources(h, v)[i] \in Addr
  <2>1. CASE IsDict(h, v)
    <3>1. Sources(h, v) = <<v>> /\ v \in Entry
      BY <2>1, <1>2 DEF Sources, Entry, Value
    <3> QED
      BY <3>1, <1>2
  <2>2. CASE ~IsDict(h, v)
    <3>1. Sources(h, v) = h[v].elems
      BY <2>2 DEF Sources
    <3>2. \A i \in DOMAIN h[v].elems : h[v].elems[i] \in Addr
      BY <2>2 DEF Mergeable, IsDict
    <3> QED
      BY <3>1, <3>2, <1>2 DEF Container
  <2> QED
    BY <2>1, <2>2
<1>4. ASSUME NEW k \in Atoms
      PROVE  MergedPairs(h, t, v)[k] \in Value \cup {Absent}
  <2>1. FirstWith(h, Sources(h, v), k) \in Value \cup {Absent}
    BY <1>3, FirstWithType
  <2>2. h[t].pairs[k] \in Value \cup {Absent}
    BY <1>1 DEF Container
  <2> QED
    BY <2>1, <2>2 DEF MergedPairs
<1>5. MergedPairs(h, t, v) \in [Atoms -> Value \cup {Absent}]
  BY <1>4 DEF MergedPairs
<1>6. [h[t] EXCEPT !.pairs = MergedPairs(h, t, v)] \in Container
  BY <1>1, <1>5 DEF Container
<1>7. Merge(h, t, v) = [h EXCEPT ![t] = [h[t] EXCEPT !.pairs = MergedPairs(h, t, v)]]
  BY DEF Merge
<1> HIDE DEF HeapType
<1>8. [h[t] EXCEPT !.pairs = MergedPairs(h, t, v)].kind = h[t].kind
  BY <1>1 DEF Container
<1> QED
  BY <1>1, <1>6, <1>7, <1>8 DEF HeapType

-----------------------------------------------------------------------------
(* One stream step: the frames the engine holds open afterwards. *)

SameKinds(fs, gs) == \A i \in 1..Len(fs) : gs[i].kind = fs[i].kind

LEMMA NodeStep ==
    ASSUME StreamTypeOK,
           NEW m \in BOOLEAN, frames' = Received(m), doc' = DocAfterNode, left' = left - 1,
           left > 0, UNCHANGED ndocs
    PROVE  /\ StreamTypeOK'
           /\ Len(frames') = Len(frames) /\ SameKinds(frames, frames')
           /\ \A i \in 1..Len(frames) - 1 : frames'[i] = frames[i]
<1>1. left' \in Nat
  BY DEF StreamTypeOK
<1> QED
  BY <1>1, ReceivedType DEF StreamTypeOK, SameKinds, DocAfterNode

LEMMA StartStep ==
    ASSUME StreamTypeOK, NEW kind \in {"map", "seq"}, CollectionStart(kind)
    PROVE  /\ StreamTypeOK'
           /\ Len(frames') = Len(frames) + 1 /\ SameKinds(frames, frames')
           /\ frames'[Len(frames) + 1] = [kind |-> kind, half |-> FALSE, merge |-> FALSE]
           /\ \A i \in 1..Len(frames) : frames'[i] = Received(FALSE)[i]
<1> DEFINE new == [kind |-> kind, half |-> FALSE, merge |-> FALSE]
<1>1. new \in Frame
  BY DEF Frame
<1>2. frames' = Append(Received(FALSE), new)
  BY DEF CollectionStart
<1>3. left' \in Nat
  BY DEF StreamTypeOK, CollectionStart
<1>4. doc' \in {"absent", "begun", "rooted"} /\ ndocs' \in Nat
  BY DEF StreamTypeOK, CollectionStart, DocAfterNode
<1> HIDE DEF new
<1>5. /\ frames' \in Seq(Frame)
      /\ Len(frames') = Len(Received(FALSE)) + 1
      /\ frames'[Len(Received(FALSE)) + 1] = new
      /\ \A i \in 1..Len(Received(FALSE)) : frames'[i] = Received(FALSE)[i]
  <2>1. Received(FALSE) \in Seq(Frame)
    BY ReceivedType
  <2> DEFINE r == Received(FALSE)
  <2> HIDE DEF r
  <2>2. r \in Seq(Frame)
    BY <2>1 DEF r
  <2>3. /\ Append(r, new) \in Seq(Frame)
        /\ Len(Append(r, new)) = Len(r) + 1
        /\ Append(r, new)[Len(r) + 1] = new
        /\ \A i \in 1..Len(r) : Append(r, new)[i] = r[i]
    BY ONLY <1>1, <2>2, AppendFacts
  <2> QED
    BY <1>2, <2>3 DEF r
<1> QED
  BY <1>3, <1>4, <1>5, ReceivedType DEF StreamTypeOK, SameKinds, new

LEMMA EndStep ==
    ASSUME StreamTypeOK, CollectionEnd
    PROVE  /\ StreamTypeOK'
           /\ Len(frames) > 0 /\ Len(frames') = Len(frames) - 1
           /\ \A i \in 1..Len(frames) - 1 : frames'[i] = frames[i]
<1>1. frames # <<>> /\ frames' = Pop(frames)
  BY DEF CollectionEnd, Pop
<1>2. left' \in Nat
  BY DEF StreamTypeOK, CollectionEnd
<1>3. /\ Pop(frames) \in Seq(Frame)
      /\ Len(Pop(frames)) = Len(frames) - 1
      /\ \A i \in 1..Len(frames) - 1 : Pop(frames)[i] = frames[i]
  BY <1>1, PopFacts DEF StreamTypeOK
<1> QED
  BY <1>1, <1>2, <1>3 DEF StreamTypeOK, CollectionEnd

-----------------------------------------------------------------------------
(* Placing a value. *)

LEMMA PendFacts ==
    ASSUME NEW key \in Value, NEW tag \in Tags, NEW push \in BOOLEAN,
           pending_key \in Seq(Value), pending_tag \in Seq(Tags), None \in Value,
           Len(pending_key) > 0, Len(pending_tag) > 0,
           Pend(key, tag, push)
    PROVE  /\ pending_key' \in Seq(Value) /\ pending_tag' \in Seq(Tags)
           /\ Len(pending_key') = Len(pending_key) + (IF push THEN 1 ELSE 0)
           /\ Len(pending_tag') = Len(pending_tag) + (IF push THEN 1 ELSE 0)
           /\ pending_key'[Len(pending_key)] = key
           /\ push => pending_key'[Len(pending_key) + 1] = None
           /\ \A i \in 1..Len(pending_key) - 1 : pending_key'[i] = pending_key[i]
<1> DEFINE ks == SetTop(pending_key, key)
           ts == SetTop(pending_tag, tag)
<1>1. /\ ks \in Seq(Value) /\ Len(ks) = Len(pending_key)
      /\ ks[Len(pending_key)] = key
      /\ \A i \in 1..Len(pending_key) - 1 : ks[i] = pending_key[i]
  BY SetTopFacts
<1>2. ts \in Seq(Tags) /\ Len(ts) = Len(pending_tag)
  BY SetTopFacts
<1>3. "notag" \in Tags
  BY DEF Tags
<1>4. /\ pending_key' = IF push THEN Append(ks, None) ELSE ks
      /\ pending_tag' = IF push THEN Append(ts, "notag") ELSE ts
  BY DEF Pend
<1> HIDE DEF ks, ts
<1>5. CASE push
  BY <1>1, <1>2, <1>3, <1>4, <1>5, AppendFacts
<1>6. CASE ~push
  BY <1>1, <1>2, <1>4, <1>6
<1> QED
  BY <1>5, <1>6

LEMMA AddElemFacts ==
    ASSUME NEW h, HeapType(h), NEW p \in Addr, NEW x \in Entry
    PROVE  /\ HeapType(AddElem(h, p, x))
           /\ \A a \in Addr : AddElem(h, p, x)[a].kind = h[a].kind
<1> DEFINE c == [h[p] EXCEPT !.elems = Append(h[p].elems, x)]
<1>1. h[p] \in Container
  BY DEF HeapType
<1>2. Append(h[p].elems, x) \in Seq(Entry)
  BY <1>1 DEF Container
<1>3. c \in Container /\ c.kind = h[p].kind
  BY <1>1, <1>2 DEF Container
<1>4. AddElem(h, p, x) = [h EXCEPT ![p] = c]
  BY DEF AddElem
<1> HIDE DEF c
<1> QED
  BY <1>3, <1>4 DEF HeapType

LEMMA AddPairFacts ==
    ASSUME NEW h, HeapType(h), NEW p \in Addr, NEW k \in Atoms, NEW v \in Value,
           None \in Value
    PROVE  /\ HeapType(AddPair(h, p, k, v))
           /\ \A a \in Addr : AddPair(h, p, k, v)[a].kind = h[a].kind
<1> DEFINE w == IF h[p].kind = "set" THEN None ELSE v
           c == [h[p] EXCEPT !.pairs = [h[p].pairs EXCEPT ![k] = w]]
<1>1. h[p] \in Container /\ w \in Value
  BY DEF HeapType
<1>2. AddPair(h, p, k, v) = [h EXCEPT ![p] = c]
  BY DEF AddPair
<1> HIDE DEF w
<1>3. [h[p].pairs EXCEPT ![k] = w] \in [Atoms -> Value \cup {Absent}]
  BY <1>1 DEF Container
<1>4. c \in Container /\ c.kind = h[p].kind
  BY <1>1, <1>3 DEF Container
<1> HIDE DEF c
<1> QED
  BY <1>2, <1>4 DEF HeapType

LEMMA PlaceFacts ==
    ASSUME PlacementTypeOK, NEW h, HeapType(h), NEW v \in Value, NEW tag \in Tags,
           NEW push \in BOOLEAN, NEW later \in BOOLEAN, later => v \in Addr,
           Len(pending_key) = Len(stack) + 1, Len(pending_tag) = Len(stack) + 1,
           stack = <<>> => docs # <<>>,
           InOmap => ~InMapping(h),
           Refusal(v, h, later) = "none",
           Place(v, tag, h, push, later)
    PROVE  /\ docs' \in Seq(Value) /\ Len(docs') = Len(docs)
           /\ pending_key' \in Seq(Value) /\ pending_tag' \in Seq(Tags)
           /\ Len(pending_key') = Len(pending_key) + (IF push THEN 1 ELSE 0)
           /\ Len(pending_tag') = Len(pending_tag) + (IF push THEN 1 ELSE 0)
           /\ HeapType(heap') /\ \A a \in Addr : heap'[a].kind = h[a].kind
           /\ merge_targets' \in [Addr -> Addr \cup {Absent}]
           /\ \/ merge_targets' = merge_targets
              \/ /\ later /\ stack # <<>>
                 /\ merge_targets' = [merge_targets EXCEPT ![v] = Parent]
<1>0. /\ docs \in Seq(Value) /\ stack \in Seq(Addr)
      /\ pending_key \in Seq(Value) /\ pending_tag \in Seq(Tags)
      /\ merge_targets \in [Addr -> Addr \cup {Absent}]
      /\ None \in Value
      /\ Len(pending_key) > 0 /\ Len(pending_tag) > 0
      /\ Key \in Value /\ Top(pending_tag) \in Tags
  BY StreamAssumption DEF PlacementTypeOK, Value, Key, Top
<1>1. stack # <<>> => Parent \in Addr
  BY <1>0, TopFacts DEF Parent
<1> DEFINE Pended ==
        /\ pending_key' \in Seq(Value) /\ pending_tag' \in Seq(Tags)
        /\ Len(pending_key') = Len(pending_key) + (IF push THEN 1 ELSE 0)
        /\ Len(pending_tag') = Len(pending_tag) + (IF push THEN 1 ELSE 0)
<1>2. ASSUME NEW k \in Value, NEW t \in Tags, Pend(k, t, push) PROVE Pended
  BY <1>0, <1>2, PendFacts
<1> HIDE DEF Pended
<1> DEFINE Same == docs' = docs /\ merge_targets' = merge_targets
<1>3. CASE PlaceRoot(v, h, push)
  <2>1. docs' = SetTop(docs, v) /\ docs # <<>>
    BY <1>3 DEF PlaceRoot
  <2>2. docs' \in Seq(Value) /\ Len(docs') = Len(docs)
    BY <1>0, <2>1, SetTopFacts
  <2>3. Pended
    BY <1>0, <1>2, <1>3 DEF PlaceRoot
  <2> QED
    BY <1>0, <1>3, <2>2, <2>3 DEF PlaceRoot, Pended
<1>4. CASE PlaceElement(v, h, push)
  <2>1. Pended /\ Same
    BY <1>0, <1>2, <1>4 DEF PlaceElement
  <2>2. v \in Entry /\ Parent \in Addr
    BY <1>1, <1>4 DEF Entry, PlaceElement
  <2>3. HeapType(heap') /\ \A a \in Addr : heap'[a].kind = h[a].kind
    BY <1>4, <2>2, AddElemFacts DEF PlaceElement
  <2> QED
    BY <1>0, <2>1, <2>3 DEF Pended
<1>5. CASE PlaceMember(v, h, push)
  <2>1. Pended /\ Same
    BY <1>0, <1>2, <1>5 DEF PlaceMember
  <2>2. SinglePair(h, v) /\ Parent \in Addr
    BY <1>1, <1>5 DEF Refusal, PlaceMember, InOmap
  <2>3. h[v] \in Container /\ Cardinality(Keys(h[v])) = 1
    BY <2>2 DEF SinglePair, IsDict, HeapType
  <2>4. PairOf(h[v]) \in Entry
    BY <2>3, PairOfType
  <2>5. HeapType(heap') /\ \A a \in Addr : heap'[a].kind = h[a].kind
    BY <1>5, <2>2, <2>4, AddElemFacts DEF PlaceMember
  <2> QED
    BY <1>0, <2>1, <2>5 DEF Pended
<1>6. CASE PlaceKey(v, tag, h, push)
  <2>1. Pended /\ Same
    BY <1>2, <1>6 DEF PlaceKey
  <2> QED
    BY <1>0, <1>6, <2>1 DEF Pended, PlaceKey
<1>7. CASE PlaceValue(v, h, push)
  <2>1. Pended /\ Same
    BY <1>0, <1>2, <1>7 DEF PlaceValue
  <2>2. Parent \in Addr /\ Key \in Atoms
    <3>1. Parent \in Addr /\ ~InOmap
      BY <1>1, <1>7 DEF PlaceValue, InMapping
    <3>2. Key \notin Addr
      BY <1>7, <3>1 DEF PlaceValue, Refusal
    <3> QED
      BY <1>0, <3>1, <3>2 DEF Value
  <2>3. heap' = AddPair(h, Parent, Key, v)
    BY <1>7 DEF PlaceValue
  <2>4. /\ HeapType(AddPair(h, Parent, Key, v))
        /\ \A a \in Addr : AddPair(h, Parent, Key, v)[a].kind = h[a].kind
    BY ONLY <1>0, <2>2, AddPairFacts, HeapType(h), v \in Value
  <2>5. HeapType(heap') /\ \A a \in Addr : heap'[a].kind = h[a].kind
    BY ONLY <2>3, <2>4
  <2> QED
    BY <1>0, <2>1, <2>5 DEF Pended
<1>8. CASE ~later /\ MergeNow(v, h, push)
  <2>1. Pended /\ Same
    BY <1>0, <1>2, <1>8 DEF MergeNow
  <2>2. Parent \in Addr /\ ~InOmap
    BY <1>1, <1>8 DEF MergeNow, InMapping
  <2>3. Mergeable(h, v)
    BY <1>8, <2>2, StreamAssumption DEF MergeNow, Refusal, AwaitsKey, MergeAwaitsValue
  <2>4. HeapType(heap') /\ \A a \in Addr : heap'[a].kind = h[a].kind
    BY <1>0, <1>8, <2>2, <2>3, MergeType DEF MergeNow
  <2> QED
    BY <1>0, <2>1, <2>4 DEF Pended
<1>9. CASE later /\ MergeLater(v, h, push)
  <2>1. Pended
    BY <1>0, <1>2, <1>9 DEF MergeLater
  <2>2. Parent \in Addr /\ stack # <<>>
    BY <1>1, <1>9 DEF MergeLater, InMapping
  <2>3. merge_targets' = [merge_targets EXCEPT ![v] = Parent]
    BY <1>9 DEF MergeLater
  <2>4. merge_targets' \in [Addr -> Addr \cup {Absent}]
    BY <1>0, <1>9, <2>2, <2>3
  <2> QED
    BY <1>0, <1>9, <2>1, <2>2, <2>3, <2>4 DEF Pended, MergeLater
<1> QED
  BY <1>3, <1>4, <1>5, <1>6, <1>7, <1>8, <1>9 DEF Place

-----------------------------------------------------------------------------
(* What every rule finds in the walk's lists. *)

LEMMA WalkTypes ==
    ASSUME PlacementTypeOK
    PROVE  /\ docs \in Seq(Value) /\ stack \in Seq(Addr)
           /\ pending_key \in Seq(Value) /\ pending_tag \in Seq(Tags)
           /\ modes \in Seq(Modes)
           /\ anchors \in [Names -> Value \cup {Absent}]
           /\ merge_targets \in [Addr -> Addr \cup {Absent}]
           /\ HeapType(heap)
           /\ None \in Value
           /\ error \in Errors
           /\ Len(stack) \in Nat
           /\ \A i \in 1..Len(stack) : stack[i] \in Addr
BY StreamAssumption DEF PlacementTypeOK, Value, HeapType

LEMMA FramesFacts ==
    ASSUME PlacementTypeOK, FramesKept, error = "none"
    PROVE  /\ Len(pending_key) = Len(stack) + 1 /\ Len(pending_tag) = Len(stack) + 1
           /\ Len(modes) = Len(stack) + 1
           /\ Distinct /\ MembersAbove /\ OmapsAreLists
           /\ stack # <<>> => Parent = stack[Len(stack)] /\ Parent \in Addr /\ Len(stack) > 0
           /\ Top(modes) = modes[Len(stack) + 1]
           /\ InOmap => ~InMapping(heap)
<1>1. /\ Len(pending_key) = Len(stack) + 1 /\ Len(pending_tag) = Len(stack) + 1
      /\ Len(modes) = Len(stack) + 1
      /\ Distinct /\ MembersAbove /\ OmapsAreLists
  BY DEF FramesKept
<1>2. stack # <<>> => Parent = stack[Len(stack)] /\ Parent \in Addr /\ Len(stack) > 0
  BY WalkTypes DEF Parent, Top
<1>3. InOmap => ~InMapping(heap)
  BY <1>1, WalkTypes DEF InOmap, InMapping, Top, Parent, OmapsAreLists
<1> QED
  BY <1>1, <1>2, <1>3 DEF Top

-----------------------------------------------------------------------------
(* What one event does to the lists and to the waiting merges, by outcome. *)

\* The walk raised: nothing else has changed.
Refused ==
    /\ PlacementTypeOK'
    /\ error' # "none"
    /\ UNCHANGED <<docs, stack, pending_key, pending_tag, modes, anchors,
                   merge_targets, heap, fresh, closed>>

\* Nothing opened and nothing closed.
Stays ==
    /\ PlacementTypeOK' /\ FramesKept'
    /\ Len(docs') = Len(docs)
    /\ \A a \in Addr : heap'[a].kind = heap[a].kind
    /\ UNCHANGED <<stack, modes, error>>

\* A container opened at a, for a collection of the stream of that kind.
Opens(a, kind) ==
    /\ PlacementTypeOK' /\ FramesKept'
    /\ Len(docs') = Len(docs)
    /\ Len(stack') = Len(stack) + 1 /\ stack'[Len(stack) + 1] = a
    /\ \A i \in 1..Len(stack) :
          stack'[i] = stack[i] /\ heap'[stack[i]].kind = heap[stack[i]].kind
    /\ heap'[a].kind = "list" <=> kind = "seq"
    /\ DeferredOnStack => DeferredOnStack'
    /\ UNCHANGED error

\* The innermost container closed.
Closes ==
    /\ PlacementTypeOK' /\ FramesKept'
    /\ docs' = docs
    /\ Len(stack') = Len(stack) - 1
    /\ \A i \in 1..Len(stack) - 1 :
          stack'[i] = stack[i] /\ heap'[stack[i]].kind = heap[stack[i]].kind
    /\ DeferredOnStack => DeferredOnStack'
    /\ UNCHANGED error

LEMMA RaiseKeeps ==
    ASSUME PlacementTypeOK, NEW class \in Errors \ {"none"}, Raise(class)
    PROVE  Refused
BY DEF PlacementTypeOK, Raise, Refused

LEMMA RefusalType ==
    ASSUME NEW v, NEW h, NEW later
    PROVE  Refusal(v, h, later) \in Errors
BY DEF Refusal, Errors

LEMMA PlaceKeeps ==
    ASSUME PlacementTypeOK, FramesKept, error = "none", stack = <<>> => docs # <<>>,
           NEW v \in Value, NEW tag \in Tags, NEW later \in BOOLEAN, later => v \in Addr,
           Refusal(v, heap, later) = "none",
           Place(v, tag, heap, FALSE, later),
           anchors' \in [Names -> Value \cup {Absent}],
           UNCHANGED <<stack, modes, fresh, closed, error>>
    PROVE  Stays /\ (merge_targets' = merge_targets \/ later)
<1>1. /\ docs' \in Seq(Value) /\ Len(docs') = Len(docs)
      /\ pending_key' \in Seq(Value) /\ pending_tag' \in Seq(Tags)
      /\ Len(pending_key') = Len(pending_key) + 0
      /\ Len(pending_tag') = Len(pending_tag) + 0
      /\ HeapType(heap') /\ \A a \in Addr : heap'[a].kind = heap[a].kind
      /\ merge_targets' \in [Addr -> Addr \cup {Absent}]
      /\ merge_targets' = merge_targets \/ later
  <2>1. /\ HeapType(heap)
        /\ InOmap => ~InMapping(heap)
        /\ Len(pending_key) = Len(stack) + 1 /\ Len(pending_tag) = Len(stack) + 1
    BY FramesFacts, WalkTypes
  <2> QED
    BY <2>1, PlaceFacts
<1>2. PlacementTypeOK'
  BY <1>1 DEF PlacementTypeOK, HeapType
<1>3. OmapsAreLists'
  <2> SUFFICES ASSUME NEW i \in 1..Len(stack), modes[i + 1] = "omap"
               PROVE  heap'[stack[i]].kind = "list"
    BY DEF OmapsAreLists
  <2>1. stack[i] \in Addr /\ heap[stack[i]].kind = "list"
    BY FramesFacts, WalkTypes DEF OmapsAreLists
  <2> QED
    BY <1>1, <2>1
<1>4. Distinct' /\ MembersAbove'
  BY FramesFacts DEF Distinct, MembersAbove
<1>5. FramesKept'
  BY <1>1, <1>3, <1>4, FramesFacts, WalkTypes DEF FramesKept
<1> QED
  BY <1>1, <1>2, <1>5 DEF Stays

LEMMA ScalarKeeps ==
    ASSUME PlacementTypeOK, FramesKept, error = "none", stack = <<>> => docs # <<>>,
           NEW s \in KeyScalars \cup ValueScalars, NEW n \in Names \cup {NoName},
           PlaceScalar(s.val, s.tag, n)
    PROVE  Refused \/ (Stays /\ UNCHANGED merge_targets)
<1>1. s.val \in Value /\ s.tag \in Tags
  BY StreamAssumption DEF Value
<1>2. Bind(n, s.val) \in [Names -> Value \cup {Absent}]
  BY <1>1, WalkTypes DEF Bind
<1>3. CASE Refusal(s.val, heap, FALSE) # "none"
  BY <1>3, RefusalType, RaiseKeeps DEF PlaceScalar
<1>4. CASE Refusal(s.val, heap, FALSE) = "none"
  BY <1>1, <1>2, <1>4, PlaceKeeps DEF PlaceScalar
<1> QED
  BY <1>3, <1>4

LEMMA AliasKeeps ==
    ASSUME PlacementTypeOK, FramesKept, error = "none", stack = <<>> => docs # <<>>,
           NEW n \in Names, NEW later \in BOOLEAN, later => anchors[n] \in Addr,
           PlaceAlias(n, later)
    PROVE  Refused \/ (Stays /\ (merge_targets' = merge_targets \/ later))
<1>1. anchors[n] \in Value \cup {Absent} /\ "str" \in Tags /\ "ComposerError" \in Errors \ {"none"}
  BY WalkTypes DEF Tags, Errors
<1>2. CASE anchors[n] = Absent
  BY <1>1, <1>2, RaiseKeeps DEF PlaceAlias
<1>3. CASE anchors[n] # Absent /\ Refusal(anchors[n], heap, later) # "none"
  BY <1>3, RefusalType, RaiseKeeps DEF PlaceAlias
<1>4. CASE anchors[n] # Absent /\ Refusal(anchors[n], heap, later) = "none"
  <2>1. anchors[n] \in Value
    BY <1>1, <1>4
  <2>2. /\ Place(anchors[n], "str", heap, FALSE, later)
        /\ UNCHANGED <<stack, modes, anchors, fresh, closed, error>>
    BY <1>4 DEF PlaceAlias
  <2> QED
    BY <1>1, <1>4, <2>1, <2>2, WalkTypes, PlaceKeeps
<1> QED
  BY <1>2, <1>3, <1>4

LEMMA DocumentKeeps ==
    ASSUME PlacementTypeOK, FramesKept, BeginDocument
    PROVE  /\ PlacementTypeOK' /\ FramesKept' /\ docs' # <<>>
           /\ UNCHANGED <<stack, heap, merge_targets, error>>
<1>1. docs' \in Seq(Value) /\ docs' # <<>>
  BY WalkTypes, AppendFacts DEF BeginDocument
<1>2. PlacementTypeOK'
  BY <1>1 DEF PlacementTypeOK, BeginDocument
<1>3. UNCHANGED <<stack, pending_key, pending_tag, modes, heap, merge_targets, error>>
  BY DEF BeginDocument
<1> QED
  BY <1>1, <1>2, <1>3 DEF FramesKept, Distinct, MembersAbove, OmapsAreLists

-----------------------------------------------------------------------------
(* A collection opens. *)

LEMMA StackLive ==
    ASSUME stack \in Seq(Addr), NEW i \in 1..Len(stack)
    PROVE  stack[i] \in Live
BY DEF Live, Roots, Range

LEMMA AllocateFacts ==
    ASSUME HeapType(heap), NEW a \in Addr, NEW kind \in {"list", "dict", "set"}
    PROVE  /\ HeapType(Allocate(a, kind))
           /\ Allocate(a, kind)[a].kind = kind
           /\ \A x \in Live \cap Addr : x # a => Allocate(a, kind)[x] = heap[x]
<1>1. ASSUME NEW k \in {"list", "dict", "set"}
      PROVE  Empty(k) \in Container /\ Empty(k).kind = k
  BY DEF Empty, Container
<1> QED
  BY <1>1 DEF Allocate, HeapType

LEMMA OpenKeeps ==
    ASSUME PlacementTypeOK, FramesKept, error = "none", stack = <<>> => docs # <<>>,
           NEW kind \in {"map", "seq"}, NEW tag \in CollTags,
           NEW n \in Names \cup {NoName}, NEW a \in Addr, NEW later \in BOOLEAN,
           OpenAt(a, kind, tag, n, later)
    PROVE  Refused \/ Opens(a, kind)
<1> DEFINE mode == ModeOf(tag)
           K == KindOf(kind, mode)
           h == Allocate(a, K)
           L == Len(stack)
           refusal == IF OpenRefusal(kind, mode) # "none" THEN OpenRefusal(kind, mode)
                      ELSE IF InOmap THEN "none" ELSE Refusal(a, h, later)
<1>1. a \in Free
  BY DEF OpenAt
<1>2. CASE refusal # "none"
  <2>1. Raise(refusal)
    BY <1>2 DEF OpenAt
  <2>2. refusal \in Errors
    BY RefusalType DEF OpenRefusal, Errors
  <2> HIDE DEF refusal
  <2> QED
    BY <1>2, <2>1, <2>2, RaiseKeeps
<1>3. CASE refusal = "none"
  <2>1. /\ fresh' = a /\ anchors' = Bind(n, a)
        /\ IF InOmap
           THEN /\ heap' = h
                /\ Pend(Key, Top(pending_tag), TRUE)
                /\ UNCHANGED <<docs, merge_targets>>
           ELSE Place(a, "str", h, TRUE, later)
        /\ stack' = Append(stack, a) /\ modes' = Append(modes, mode)
        /\ UNCHANGED <<closed, error>>
    BY <1>3 DEF OpenAt
  <2>2. OpenRefusal(kind, mode) = "none" /\ (~InOmap => Refusal(a, h, later) = "none")
    BY <1>3
  <2>3. mode \in Modes /\ (mode = "omap_member" <=> InOmap)
    BY StreamAssumption DEF ModeOf, Modes, AllCollTags
  <2>4. /\ K \in {"list", "dict", "set"} /\ (K = "list" <=> kind = "seq")
        /\ mode = "omap" => K = "list"
    BY <2>2 DEF OpenRefusal, KindOf
  <2>5. /\ Len(pending_key) = L + 1 /\ Len(pending_tag) = L + 1 /\ Len(modes) = L + 1
        /\ Distinct /\ MembersAbove /\ OmapsAreLists
        /\ L \in Nat
        /\ stack # <<>> => Parent = stack[L] /\ Parent \in Addr /\ L > 0
        /\ Top(modes) = modes[L + 1]
        /\ InOmap => ~InMapping(heap)
    BY FramesFacts, WalkTypes
  <2>6. \A i \in 1..L : stack[i] \in Addr /\ stack[i] # a /\ stack[i] \in Live
    BY <1>1, WalkTypes, StackLive DEF Free
  <2> HIDE DEF mode, K, refusal
  <2>7. /\ HeapType(h) /\ h[a].kind = K
        /\ \A i \in 1..L : h[stack[i]] = heap[stack[i]]
    BY <2>4, <2>6, WalkTypes, AllocateFacts
  <2> HIDE DEF h
  <2>8. /\ docs' \in Seq(Value) /\ Len(docs') = Len(docs)
        /\ pending_key' \in Seq(Value) /\ pending_tag' \in Seq(Tags)
        /\ Len(pending_key') = L + 2 /\ Len(pending_tag') = L + 2
        /\ HeapType(heap') /\ \A x \in Addr : heap'[x].kind = h[x].kind
        /\ \/ merge_targets' = merge_targets
           \/ /\ stack # <<>>
              /\ merge_targets' = [merge_targets EXCEPT ![a] = Parent]
    <3>1. CASE InOmap
      <4>1. Key \in Value /\ Top(pending_tag) \in Tags
        BY <2>5, WalkTypes, TopFacts DEF Key, Top
      <4>2. Len(pending_key) > 0 /\ Len(pending_tag) > 0 /\ Pend(Key, Top(pending_tag), TRUE)
        <5>1. Pend(Key, Top(pending_tag), TRUE)
          BY <2>1, <3>1
        <5>2. Len(pending_key) > 0 /\ Len(pending_tag) > 0
          BY <2>5
        <5> QED
          BY <5>1, <5>2
      <4>3. /\ pending_key' \in Seq(Value) /\ pending_tag' \in Seq(Tags)
            /\ Len(pending_key') = Len(pending_key) + 1
            /\ Len(pending_tag') = Len(pending_tag) + 1
        BY <4>1, <4>2, WalkTypes, PendFacts
      <4> QED
        BY <2>1, <2>5, <2>7, <3>1, <4>3, WalkTypes
    <3>2. CASE ~InOmap
      <4>1. "str" \in Tags /\ a \in Value
        BY DEF Tags, Value
      <4>2. /\ docs' \in Seq(Value) /\ Len(docs') = Len(docs)
            /\ pending_key' \in Seq(Value) /\ pending_tag' \in Seq(Tags)
            /\ Len(pending_key') = Len(pending_key) + 1
            /\ Len(pending_tag') = Len(pending_tag) + 1
            /\ HeapType(heap') /\ \A x \in Addr : heap'[x].kind = h[x].kind
            /\ \/ merge_targets' = merge_targets
               \/ /\ stack # <<>>
                  /\ merge_targets' = [merge_targets EXCEPT ![a] = Parent]
        <5>1. Place(a, "str", h, TRUE, later) /\ Refusal(a, h, later) = "none"
          BY <2>1, <2>2, <3>2
        <5>2. Len(pending_key) = Len(stack) + 1 /\ Len(pending_tag) = Len(stack) + 1
          BY <2>5
        <5>3. CASE later = TRUE
          BY <2>7, <3>2, <4>1, <5>1, <5>2, <5>3, PlaceFacts
        <5>4. CASE later = FALSE
          BY <2>7, <3>2, <4>1, <5>1, <5>2, <5>4, PlaceFacts
        <5> QED
          BY <5>3, <5>4
      <4> QED
        BY <2>5, <4>2
    <3> QED
      BY <3>1, <3>2
  <2>9. /\ stack' \in Seq(Addr) /\ Len(stack') = L + 1 /\ stack'[L + 1] = a
        /\ \A i \in 1..L : stack'[i] = stack[i]
    BY <2>1, WalkTypes, AppendFacts
  <2>10. /\ modes' \in Seq(Modes) /\ Len(modes') = L + 2 /\ modes'[L + 2] = mode
         /\ \A i \in 1..L + 1 : modes'[i] = modes[i]
    <3>1. /\ Append(modes, mode) \in Seq(Modes)
          /\ Len(Append(modes, mode)) = Len(modes) + 1
          /\ Append(modes, mode)[Len(modes) + 1] = mode
          /\ \A i \in 1..Len(modes) : Append(modes, mode)[i] = modes[i]
      BY <2>3, WalkTypes, AppendFacts
    <3> QED
      BY <2>1, <2>5, <3>1
  <2>11. PlacementTypeOK'
    <3>1. anchors' \in [Names -> Value \cup {Absent}]
      BY <2>1, WalkTypes DEF Bind, Value
    <3>2. merge_targets' \in [Addr -> Addr \cup {Absent}]
      BY <2>5, <2>8, WalkTypes
    <3> QED
      BY <2>1, <2>8, <2>9, <2>10, <3>1, <3>2 DEF PlacementTypeOK, HeapType
  <2>12. \A i \in 1..L + 1 : i \in 1..L \/ i = L + 1
    BY <2>5
  <2>13. \A i \in 1..L : heap'[stack[i]].kind = heap[stack[i]].kind
    BY <2>6, <2>7, <2>8
  <2>14. Distinct'
    BY <2>5, <2>6, <2>9, <2>12 DEF Distinct
  <2>15. MembersAbove'
    <3>1. ASSUME NEW i \in 1..L + 1, modes'[i + 1] = "omap_member"
          PROVE  i > 1
      <4>1. CASE i = L + 1
        <5>1. InOmap
          BY <2>3, <2>10, <2>5, <3>1, <4>1
        <5> QED
          BY <2>5, <4>1, <5>1 DEF InOmap
      <4>2. CASE i \in 1..L
        BY <2>5, <2>10, <3>1, <4>2 DEF MembersAbove
      <4> QED
        BY <2>12, <4>1, <4>2
    <3> QED
      BY <2>9, <3>1 DEF MembersAbove
  <2>16. OmapsAreLists'
    <3>1. ASSUME NEW i \in 1..L + 1, modes'[i + 1] = "omap"
          PROVE  heap'[stack'[i]].kind = "list"
      <4>1. CASE i = L + 1
        BY <2>4, <2>5, <2>7, <2>8, <2>9, <2>10, <3>1, <4>1
      <4>2. CASE i \in 1..L
        <5>1. modes[i + 1] = "omap"
          BY <2>5, <2>10, <3>1, <4>2
        <5> QED
          BY <2>5, <2>9, <2>13, <4>2, <5>1 DEF OmapsAreLists
      <4> QED
        BY <2>12, <4>1, <4>2
    <3> QED
      BY <2>9, <3>1 DEF OmapsAreLists
  <2>17. FramesKept'
    BY <2>5, <2>8, <2>9, <2>10, <2>14, <2>15, <2>16 DEF FramesKept
  <2>18. DeferredOnStack => DeferredOnStack'
    <3> SUFFICES ASSUME DeferredOnStack PROVE DeferredOnStack'
      OBVIOUS
    <3>1. ASSUME NEW x \in Addr, merge_targets'[x] # Absent
          PROVE  \E i \in 2..L + 1 : stack'[i] = x /\ merge_targets'[x] = stack'[i - 1]
      <4>1. CASE merge_targets[x] # Absent /\ merge_targets'[x] = merge_targets[x]
        <5>1. PICK i \in 2..L : stack[i] = x /\ merge_targets[x] = stack[i - 1]
          BY <4>1 DEF DeferredOnStack
        <5>2. i \in 2..L + 1 /\ i \in 1..L /\ i - 1 \in 1..L
          BY <2>5, <5>1
        <5>3. stack'[i] = stack[i] /\ stack'[i - 1] = stack[i - 1]
          BY <2>9, <5>2
        <5> QED
          BY <4>1, <5>1, <5>2, <5>3
      <4>2. CASE ~(merge_targets[x] # Absent /\ merge_targets'[x] = merge_targets[x])
        <5>1. stack # <<>> /\ merge_targets' = [merge_targets EXCEPT ![a] = Parent] /\ x = a
          BY <2>8, <3>1, <4>2, WalkTypes
        <5>2. merge_targets'[x] = stack[L] /\ L + 1 \in 2..L + 1 /\ L \in 1..L
          BY <2>5, <5>1, WalkTypes
        <5> QED
          BY <2>5, <2>9, <5>1, <5>2
      <4> QED
        BY <4>1, <4>2
    <3> QED
      BY <2>9, <3>1 DEF DeferredOnStack
  <2> QED
    BY <2>1, <2>4, <2>7, <2>8, <2>9, <2>11, <2>13, <2>17, <2>18 DEF Opens
<1> QED
  BY <1>2, <1>3

-----------------------------------------------------------------------------
(* A collection closes. *)

LEMMA CloseKeeps ==
    ASSUME PlacementTypeOK, FramesKept, error = "none", stack # <<>>, Close
    PROVE  Refused \/ Closes
<1> DEFINE L == Len(stack)
<1>1. CASE CloseRefusal # "none"
  <2>1. Raise(CloseRefusal) /\ CloseRefusal \in Errors \ {"none"}
    BY <1>1 DEF Close, CloseRefusal, Errors
  <2> QED
    BY <2>1, RaiseKeeps
<1>2. CASE CloseRefusal = "none"
  <2>1. /\ heap' = IF Target # Absent THEN Merge(MemberAdded, Target, Parent) ELSE MemberAdded
        /\ merge_targets' = [merge_targets EXCEPT ![Parent] = Absent]
        /\ closed' = Parent /\ stack' = Pop(stack)
        /\ pending_key' = Pop(pending_key) /\ pending_tag' = Pop(pending_tag)
        /\ modes' = Pop(modes)
        /\ UNCHANGED <<docs, anchors, fresh, error>>
    BY <1>2 DEF Close, Settle, PopFrame
  <2>2. /\ IsMember => Cardinality(Keys(heap[Parent])) = 1
        /\ Target # Absent => Mergeable(heap, Parent)
    BY <1>2 DEF CloseRefusal
  <2>3. /\ Len(pending_key) = L + 1 /\ Len(pending_tag) = L + 1 /\ Len(modes) = L + 1
        /\ Distinct /\ MembersAbove /\ OmapsAreLists
        /\ Parent = stack[L] /\ Parent \in Addr /\ L > 0
        /\ Top(modes) = modes[L + 1]
    BY FramesFacts
  <2>4. L \in Nat /\ \A i \in 1..L : stack[i] \in Addr
    BY WalkTypes
  <2>5. /\ stack' \in Seq(Addr) /\ Len(stack') = L - 1
        /\ \A i \in 1..L - 1 : stack'[i] = stack[i]
    BY <2>1, WalkTypes, PopFacts
  <2>6. /\ pending_key' \in Seq(Value) /\ Len(pending_key') = L
        /\ pending_tag' \in Seq(Tags) /\ Len(pending_tag') = L
    <3>1. pending_key # <<>> /\ pending_tag # <<>>
      BY <2>3, <2>4
    <3> QED
      BY <2>1, <2>3, <2>4, <3>1, WalkTypes, PopFacts
  <2>7. /\ modes' \in Seq(Modes) /\ Len(modes') = L
        /\ \A i \in 1..L : modes'[i] = modes[i]
    <3>1. modes # <<>> /\ Len(modes) - 1 = L
      BY <2>3, <2>4
    <3>2. modes \in Seq(Modes)
      BY WalkTypes
    <3> QED
      BY <2>1, <3>1, <3>2, PopFacts
  <2>8. /\ HeapType(MemberAdded) /\ \A x \in Addr : MemberAdded[x].kind = heap[x].kind
        /\ MemberAdded[Parent] = heap[Parent]
    <3>1. CASE IsMember
      <4>1. L > 1
        <5>1. L \in 1..L /\ modes[L + 1] = "omap_member"
          BY <2>3, <2>4, <3>1 DEF IsMember
        <5> QED
          BY <2>3, <5>1 DEF MembersAbove
      <4>2. Below = stack[L - 1] /\ Below \in Addr /\ Below # Parent
        BY <2>1, <2>3, <2>4, <2>5, <4>1 DEF Below, Top, Distinct
      <4>3. heap[Parent] \in Container
        BY <2>3, WalkTypes DEF HeapType
      <4>4. PairOf(heap[Parent]) \in Entry
        BY <2>2, <3>1, <4>3, PairOfType
      <4>5. /\ HeapType(AddElem(heap, Below, PairOf(heap[Parent])))
            /\ \A x \in Addr : AddElem(heap, Below, PairOf(heap[Parent]))[x].kind = heap[x].kind
        BY <4>2, <4>4, WalkTypes, AddElemFacts
      <4>6. AddElem(heap, Below, PairOf(heap[Parent]))[Parent] = heap[Parent]
        BY <4>2 DEF AddElem
      <4> QED
        BY <3>1, <4>5, <4>6 DEF MemberAdded
    <3>2. CASE ~IsMember
      BY <3>2, WalkTypes DEF MemberAdded
    <3> QED
      BY <3>1, <3>2
  <2>9. /\ merge_targets \in [Addr -> Addr \cup {Absent}]
        /\ Target \in Addr \cup {Absent}
    BY <2>3, WalkTypes DEF Target
  <2>10. HeapType(heap') /\ \A x \in Addr : heap'[x].kind = heap[x].kind
    <3>1. CASE Target # Absent
      <4>1. Mergeable(MemberAdded, Parent)
        BY <2>2, <2>8, <3>1 DEF Mergeable, IsDict, IsList
      <4>2. Parent \in Value /\ Target \in Addr /\ None \in Value
        BY <2>3, <2>9, <3>1, WalkTypes DEF Value
      <4>3. /\ HeapType(Merge(MemberAdded, Target, Parent))
            /\ \A x \in Addr : Merge(MemberAdded, Target, Parent)[x].kind = MemberAdded[x].kind
        BY <2>8, <4>1, <4>2, MergeType
      <4> QED
        BY <2>1, <2>8, <3>1, <4>3
    <3>2. CASE Target = Absent
      BY <2>1, <2>8, <3>2
    <3> QED
      BY <3>1, <3>2
  <2>11. PlacementTypeOK'
    <3>1. merge_targets' \in [Addr -> Addr \cup {Absent}]
      BY <2>1, <2>9
    <3> QED
      BY <2>1, <2>3, <2>5, <2>6, <2>7, <2>10, <3>1 DEF PlacementTypeOK, HeapType
  <2>12. ASSUME NEW i \in 1..L - 1
         PROVE  /\ i \in 1..L /\ i + 1 \in 1..L
                /\ stack'[i] = stack[i] /\ stack[i] \in Addr
                /\ modes'[i + 1] = modes[i + 1]
                /\ heap'[stack[i]].kind = heap[stack[i]].kind
    <3>1. i \in 1..L /\ i + 1 \in 1..L
      BY <2>4
    <3> QED
      BY <2>4, <2>5, <2>7, <2>10, <3>1
  <2>13. Distinct' /\ MembersAbove' /\ OmapsAreLists'
    <3>1. Distinct'
      BY <2>3, <2>5, <2>12 DEF Distinct
    <3>2. MembersAbove'
      BY <2>3, <2>5, <2>12 DEF MembersAbove
    <3>3. OmapsAreLists'
      BY <2>3, <2>5, <2>12 DEF OmapsAreLists
    <3> QED
      BY <3>1, <3>2, <3>3
  <2>14. FramesKept'
    BY <2>4, <2>5, <2>6, <2>7, <2>13 DEF FramesKept
  <2>15. DeferredOnStack => DeferredOnStack'
    <3> SUFFICES ASSUME DeferredOnStack PROVE DeferredOnStack'
      OBVIOUS
    <3>1. ASSUME NEW x \in Addr, merge_targets'[x] # Absent
          PROVE  \E i \in 2..L - 1 : stack'[i] = x /\ merge_targets'[x] = stack'[i - 1]
      <4>1. x # Parent /\ merge_targets'[x] = merge_targets[x] /\ merge_targets[x] # Absent
        BY <2>1, <2>3, <2>9, <3>1
      <4>2. PICK i \in 2..L : stack[i] = x /\ merge_targets[x] = stack[i - 1]
        BY <4>1 DEF DeferredOnStack
      <4>3. i \in 2..L - 1 /\ i \in 1..L - 1 /\ i - 1 \in 1..L - 1
        BY <2>3, <2>4, <4>1, <4>2
      <4> QED
        BY <2>5, <4>1, <4>2, <4>3
    <3>2. Len(stack') = L - 1
      BY <2>5
    <3>3. \A x \in {y \in Addr : merge_targets'[y] # Absent} :
             \E i \in 2..Len(stack') : stack'[i] = x /\ merge_targets'[x] = stack'[i - 1]
      BY <3>1, <3>2
    <3> QED
      BY <3>3 DEF DeferredOnStack
  <2> QED
    BY <2>1, <2>5, <2>11, <2>12, <2>14, <2>15 DEF Closes
<1> QED
  BY <1>1, <1>2

=============================================================================
