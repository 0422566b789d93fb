---------------------------- MODULE RecordWalkProofs ----------------------------
(***************************************************************************)
(* Proofs about the record walk, for every set of scalars, names and       *)
(* addresses and every bound: first the invariant and what follows from    *)
(* it, then what containers reach, and that documents share nothing, and   *)
(* last that incremental merging gives every mapping what its '<<' keys    *)
(* mean.                                                                   *)
(***************************************************************************)
EXTENDS MergeHistory, WalkProofs, WellFoundedInduction

-----------------------------------------------------------------------------
(* What every event does to the invariant. *)

LEMMA Types ==
    ASSUME TypeOK
    PROVE  /\ docs \in Seq(Value) /\ stack \in Seq(Addr)
           /\ pending_key \in Seq(Value) /\ pending_tag \in Seq(Tags)
           /\ modes \in Seq(Modes)
           /\ anchors \in [Names -> Value \cup {Absent}]
           /\ merge_targets \in [Addr -> Addr \cup {Absent}]
           /\ HeapType(heap)
           /\ None \in Value
           /\ error \in Errors
           /\ \A i \in 1..Len(stack) : stack[i] \in Addr
BY WalkTypes DEF TypeOK

\* What the invariant says of the walk alone, and what a handler may count on.
LEMMA Walking ==
    ASSUME IInv
    PROVE  /\ StreamTypeOK /\ PlacementTypeOK /\ FramesKept
           /\ error = "none" =>
                /\ Len(stack) = Len(frames) /\ Len(stack) \in Nat
                /\ \A i \in 1..Len(stack) :
                     (heap[stack[i]].kind = "list") <=> (frames[i].kind = "seq")
           /\ NodeAllowed /\ error = "none" /\ stack = <<>> => docs # <<>>
<1>1. StreamTypeOK /\ PlacementTypeOK /\ FramesKept
  BY DEF IInv, TypeOK, Aligned, FramesKept
<1>2. error = "none" => Len(stack) = Len(frames) /\ Len(stack) \in Nat
  BY Types DEF IInv, Aligned
<1>3. ASSUME NodeAllowed, error = "none", stack = <<>>
      PROVE  docs # <<>>
  BY <1>1, <1>2, <1>3 DEF IInv, StreamTypeOK, RootPlace, NodeAllowed
<1> QED
  BY <1>1, <1>2, <1>3 DEF IInv, Aligned

\* A step of both halves that leaves the walk's lists in step with the stream.
LEMMA Together ==
    ASSUME StreamTypeOK', PlacementTypeOK', FramesKept', RootPlace', DeferredOnStack',
           Len(stack') = Len(frames'),
           \A i \in 1..Len(stack') : (heap'[stack'[i]].kind = "list") <=> (frames'[i].kind = "seq")
    PROVE  IInv'
BY DEF IInv, TypeOK, Aligned, FramesKept

LEMMA RefusedStep ==
    ASSUME IInv, Refused, StreamTypeOK', doc' # "absent" => doc # "absent"
    PROVE  IInv'
<1>1. error' # "none" /\ PlacementTypeOK'
  BY DEF Refused
<1>2. RootPlace'
  BY DEF IInv, RootPlace, Refused
<1> QED
  BY <1>1, <1>2 DEF IInv, TypeOK, Aligned, DeferredOnStack

\* A value placed in the open containers, none opened and none closed.
LEMMA StaysStep ==
    ASSUME IInv, error = "none", Stays, UNCHANGED merge_targets,
           StreamTypeOK', doc' # "absent" => doc # "absent",
           Len(frames') = Len(frames), SameKinds(frames, frames')
    PROVE  IInv'
<1>1. PlacementTypeOK' /\ FramesKept' /\ stack' = stack /\ error' = error
  BY DEF Stays
<1>2. RootPlace'
  <2>1. docs # <<>> => docs' # <<>>
    BY <1>1, WalkTypes, Walking DEF Stays, PlacementTypeOK
  <2> QED
    BY <2>1 DEF IInv, RootPlace
<1>3. DeferredOnStack'
  BY <1>1 DEF IInv, DeferredOnStack
<1>4. ASSUME NEW i \in 1..Len(stack')
      PROVE  (heap'[stack'[i]].kind = "list") <=> (frames'[i].kind = "seq")
  <2>1. stack'[i] = stack[i] /\ stack[i] \in Addr /\ i \in 1..Len(frames)
    BY <1>1, Walking, WalkTypes
  <2>2. heap'[stack[i]].kind = heap[stack[i]].kind /\ frames'[i].kind = frames[i].kind
    BY <2>1 DEF Stays, SameKinds
  <2> QED
    BY <1>1, <2>1, <2>2, Walking
<1> QED
  BY <1>1, <1>2, <1>3, <1>4, Walking, Together

LEMMA ScalarStep ==
    ASSUME IInv, NEW s \in KeyScalars \cup ValueScalars, NEW n \in Names \cup {NoName},
           ScalarNode(s, n), Scalar(s, n)
    PROVE  IInv'
<1>1. /\ StreamTypeOK' /\ (doc' # "absent" => doc # "absent") /\ NodeAllowed
      /\ Len(frames') = Len(frames) /\ SameKinds(frames, frames')
  <2>1. StreamTypeOK /\ (AtKey /\ s.tag = "merge") \in BOOLEAN
    BY DEF IInv, TypeOK
  <2>2. frames # <<>> => doc # "absent" \/ doc' = doc
    BY DEF ScalarNode, DocAfterNode
  <2> QED
    BY <2>1, <2>2, NodeStep DEF ScalarNode, NodeAllowed, DocAfterNode
<1>2. error = "none" /\ PlaceScalar(s.val, s.tag, n)
  BY DEF Scalar
<1>3. Refused \/ (Stays /\ UNCHANGED merge_targets)
  BY <1>1, <1>2, Walking, ScalarKeeps
<1> QED
  BY <1>1, <1>2, <1>3, RefusedStep, StaysStep

LEMMA AliasStep ==
    ASSUME IInv, NEW n \in Names, AliasNode, Alias(n)
    PROVE  IInv'
<1>1. /\ StreamTypeOK' /\ (doc' # "absent" => doc # "absent") /\ NodeAllowed
      /\ Len(frames') = Len(frames) /\ SameKinds(frames, frames')
  BY NodeStep DEF IInv, TypeOK, AliasNode, NodeAllowed, DocAfterNode
<1>2. error = "none" /\ PlaceAlias(n, FALSE)
  BY DEF Alias
<1>3. Refused \/ (Stays /\ UNCHANGED merge_targets)
  BY <1>1, <1>2, Walking, AliasKeeps
<1> QED
  BY <1>1, <1>2, <1>3, RefusedStep, StaysStep

LEMMA DocumentStep ==
    ASSUME IInv, DocumentStart, Document
    PROVE  IInv'
<1>1. /\ PlacementTypeOK' /\ FramesKept' /\ docs' # <<>>
      /\ UNCHANGED <<stack, heap, merge_targets, error>>
  BY Walking, DocumentKeeps DEF Document
<1>2. StreamTypeOK' /\ frames' = frames /\ error = "none"
  BY Walking DEF StreamTypeOK, DocumentStart, Document
<1>3. RootPlace' /\ DeferredOnStack'
  BY <1>1 DEF IInv, RootPlace, DeferredOnStack
<1> QED
  BY <1>1, <1>2, <1>3, Walking, Together

LEMMA OpenStep ==
    ASSUME IInv, NEW kind \in {"map", "seq"}, NEW tag \in CollTags,
           NEW n \in Names \cup {NoName}, NEW a \in Addr,
           CollectionStart(kind), Start(a, kind, tag, n)
    PROVE  IInv'
<1>1. /\ StreamTypeOK' /\ (doc' # "absent" => doc # "absent") /\ NodeAllowed
      /\ Len(frames') = Len(frames) + 1 /\ SameKinds(frames, frames')
      /\ frames'[Len(frames) + 1].kind = kind
  <2>1. NodeAllowed /\ doc' = DocAfterNode
    BY DEF CollectionStart
  <2>2. doc' # "absent" => doc # "absent"
    BY <2>1 DEF NodeAllowed, DocAfterNode
  <2>3. /\ StreamTypeOK' /\ Len(frames') = Len(frames) + 1 /\ SameKinds(frames, frames')
        /\ frames'[Len(frames) + 1] = [kind |-> kind, half |-> FALSE, merge |-> FALSE]
    BY Walking, StartStep
  <2> QED
    BY <2>1, <2>2, <2>3
<1>2. error = "none" /\ OpenAt(a, kind, tag, n, TRUE)
  BY DEF Start
<1>3. CASE Refused
  BY <1>1, <1>3, RefusedStep
<1>4. CASE Opens(a, kind)
  <2>1. /\ PlacementTypeOK' /\ FramesKept' /\ DeferredOnStack' /\ Len(docs') = Len(docs)
        /\ Len(stack') = Len(stack) + 1 /\ stack'[Len(stack) + 1] = a
        /\ Len(stack) = Len(frames) /\ Len(stack) \in Nat
    BY <1>2, <1>4, Walking DEF Opens, IInv
  <2>2. RootPlace'
    <3>1. docs # <<>> => docs' # <<>>
      BY <2>1, Walking DEF PlacementTypeOK
    <3> QED
      BY <1>1, <3>1 DEF IInv, RootPlace
  <2>3. ASSUME NEW i \in 1..Len(stack')
        PROVE  (heap'[stack'[i]].kind = "list") <=> (frames'[i].kind = "seq")
    <3>1. CASE i = Len(stack) + 1
      BY <1>1, <1>4, <2>1, <3>1 DEF Opens
    <3>2. CASE i \in 1..Len(stack)
      <4>1. stack'[i] = stack[i] /\ heap'[stack[i]].kind = heap[stack[i]].kind
        BY <1>4, <3>2 DEF Opens
      <4>2. frames'[i].kind = frames[i].kind
        BY <1>1, <2>1, <3>2 DEF SameKinds
      <4> QED
        BY <1>2, <3>2, <4>1, <4>2, Walking
    <3>3. i = Len(stack) + 1 \/ i \in 1..Len(stack)
      BY <2>1
    <3> QED
      BY <3>1, <3>2, <3>3
  <2> QED
    BY <1>1, <2>1, <2>2, <2>3, Together
<1> QED
  BY <1>1, <1>2, <1>3, <1>4, Walking, OpenKeeps

LEMMA CloseStep ==
    ASSUME IInv, CollectionEnd, End
    PROVE  IInv'
<1>1. /\ StreamTypeOK' /\ Len(frames) > 0 /\ Len(frames') = Len(frames) - 1
      /\ \A i \in 1..Len(frames) - 1 : frames'[i] = frames[i]
      /\ doc' = doc
  BY Walking, EndStep DEF CollectionEnd
<1>2. error = "none" /\ Close /\ stack # <<>>
  BY <1>1, Walking DEF End
<1>3. CASE Refused
  BY <1>1, <1>3, RefusedStep
<1>4. CASE Closes
  <2>1. /\ PlacementTypeOK' /\ FramesKept' /\ DeferredOnStack' /\ docs' = docs
        /\ Len(stack') = Len(stack) - 1
        /\ Len(stack) = Len(frames) /\ Len(stack) \in Nat
    BY <1>2, <1>4, Walking DEF Closes, IInv
  <2>2. RootPlace'
    BY <1>1, <2>1 DEF IInv, RootPlace
  <2>3. ASSUME NEW i \in 1..Len(stack')
        PROVE  (heap'[stack'[i]].kind = "list") <=> (frames'[i].kind = "seq")
    <3>1. i \in 1..Len(stack) - 1 /\ i \in 1..Len(stack)
      BY <2>1
    <3>2. stack'[i] = stack[i] /\ heap'[stack[i]].kind = heap[stack[i]].kind
      BY <1>4, <3>1 DEF Closes
    <3>3. frames'[i] = frames[i]
      BY <1>1, <2>1, <3>1
    <3> QED
      BY <1>2, <3>1, <3>2, <3>3, Walking
  <2> QED
    BY <1>1, <2>1, <2>2, <2>3, Together
<1> QED
  BY <1>2, <1>3, <1>4, Walking, CloseKeeps

-----------------------------------------------------------------------------
(* The invariant holds of every reachable state. *)

LEMMA InitIInv == Init => IInv
<1> SUFFICES ASSUME Init PROVE IInv
  OBVIOUS
<1>1. None \in Value /\ "notag" \in Tags /\ "plain" \in Modes
  BY StreamAssumption DEF Value, Tags, Modes
<1>2. Empty("list") \in Container
  BY DEF Empty, Container
<1>3. StreamTypeOK
  BY StreamAssumption DEF Init, StreamInit, StreamTypeOK
<1>4. PlacementTypeOK
  BY <1>1, <1>2 DEF Init, PlacementInit, PlacementTypeOK, Errors
<1>5. RootPlace /\ Aligned
  BY DEF Init, StreamInit, PlacementInit, RootPlace, Aligned
<1>6. Distinct /\ MembersAbove /\ OmapsAreLists /\ DeferredOnStack
  BY DEF Init, PlacementInit, Distinct, MembersAbove, OmapsAreLists, DeferredOnStack
<1> QED
  BY <1>3, <1>4, <1>5, <1>6 DEF IInv, TypeOK

LEMMA NextIInv == IInv /\ [Next]_vars => IInv'
<1> SUFFICES ASSUME IInv, [Next]_vars PROVE IInv'
  OBVIOUS
<1>1. CASE ReadScalar
  BY <1>1, ScalarStep DEF ReadScalar
<1>2. CASE ReadStart
  BY <1>2, OpenStep DEF ReadStart
<1>3. CASE ReadEnd
  BY <1>3, CloseStep DEF ReadEnd
<1>4. CASE ReadDocument
  BY <1>4, DocumentStep DEF ReadDocument
<1>5. CASE ReadAlias
  BY <1>5, AliasStep DEF ReadAlias
<1>6. CASE UNCHANGED vars
  <2>1. UNCHANGED <<streamVars, walkVars>>
    BY <1>6 DEF vars
  <2>2. TypeOK'
    BY <2>1 DEF streamVars, walkVars, IInv, TypeOK, StreamTypeOK, PlacementTypeOK
  <2>3. RootPlace' /\ Aligned' /\ DeferredOnStack'
    BY <2>1 DEF streamVars, walkVars, IInv, RootPlace, Aligned, DeferredOnStack
  <2>4. error' = "none" => Distinct' /\ MembersAbove' /\ OmapsAreLists'
    BY <2>1 DEF streamVars, walkVars, IInv, Distinct, MembersAbove, OmapsAreLists
  <2> QED
    BY <2>2, <2>3, <2>4 DEF IInv
<1> QED
  BY <1>1, <1>2, <1>3, <1>4, <1>5, <1>6 DEF Next

(* What every event handler of load_all relies on when it runs, of the lists, *)
(* the tags, the shapes and the waiting merges, always holds.                *)
THEOREM Inductive == Spec => []IInv
<1> QED
  BY InitIInv, NextIInv, PTL DEF Spec

(* Every list, heap cell and anchor of the walk keeps the type the code gives *)
(* it, whatever the stream delivers.                                         *)
THEOREM RecordTypeCorrect == Spec => []TypeOK
<1>1. IInv => TypeOK
  BY DEF IInv
<1> QED
  BY <1>1, Inductive, PTL

(* load_all's parallel lists never part from the collections the engine      *)
(* holds open, for streams of any length, depth and number of documents.     *)
THEOREM RecordAligned == Spec => []Aligned
<1>1. IInv => Aligned
  BY DEF IInv
<1> QED
  BY <1>1, Inductive, PTL

(* A merge that waits is always for an open container, into the one just     *)
(* below it: no entry of merge_targets outlives the container it names.      *)
THEOREM RecordDeferredOnStack == Spec => []DeferredOnStack
<1>1. IInv => DeferredOnStack
  BY DEF IInv
<1> QED
  BY <1>1, Inductive, PTL

-----------------------------------------------------------------------------
(* What the rules change in the containers. *)

(* What a merge leaves alone: every other container, the target's list and  *)
(* every key the target already has.                                        *)
LEMMA MergeChanges ==
    ASSUME NEW h, HeapType(h), NEW t \in Addr, NEW v
    PROVE  /\ \A x \in Addr : x # t => Merge(h, t, v)[x] = h[x]
           /\ Merge(h, t, v)[t].elems = h[t].elems /\ Merge(h, t, v)[t].kind = h[t].kind
           /\ \A k \in Keys(h[t]) : Merge(h, t, v)[t].pairs[k] = h[t].pairs[k]
           /\ h[t].kind = "set" =>
                 \A k \in Atoms \ Keys(h[t]) : Merge(h, t, v)[t].pairs[k] \in {None, Absent}
<1>1. h[t] \in Container
  BY DEF HeapType
<1>2. Merge(h, t, v) = [h EXCEPT ![t] = [h[t] EXCEPT !.pairs = MergedPairs(h, t, v)]]
  BY DEF Merge
<1> DEFINE m == MergedPairs(h, t, v)
<1>3. /\ Merge(h, t, v)[t].pairs = m /\ Merge(h, t, v)[t].elems = h[t].elems
      /\ Merge(h, t, v)[t].kind = h[t].kind
  <2> HIDE DEF m
  <2> QED
    BY <1>1, <1>2 DEF HeapType, Container, m
<1>4. \A k \in Atoms :
         m[k] = IF k \in Keys(h[t]) THEN h[t].pairs[k]
                ELSE IF h[t].kind = "set" /\ FirstWith(h, Sources(h, v), k) # Absent THEN None
                ELSE FirstWith(h, Sources(h, v), k)
  BY DEF MergedPairs
<1>5. \A x \in Addr : x # t => Merge(h, t, v)[x] = h[x]
  BY <1>2 DEF HeapType
<1>6. Keys(h[t]) \subseteq Atoms
  BY DEF Keys
<1> HIDE DEF m
<1> QED
  BY <1>3, <1>4, <1>5, <1>6

LEMMA AddElemChanges ==
    ASSUME NEW h, HeapType(h), NEW p \in Addr, NEW x
    PROVE  /\ \A a \in Addr : a # p => AddElem(h, p, x)[a] = h[a]
           /\ AddElem(h, p, x)[p].elems = Append(h[p].elems, x)
           /\ AddElem(h, p, x)[p].pairs = h[p].pairs /\ AddElem(h, p, x)[p].kind = h[p].kind
<1>1. h[p] \in Container
  BY DEF HeapType
<1> DEFINE e == Append(h[p].elems, x)
<1>2. AddElem(h, p, x) = [h EXCEPT ![p] = [h[p] EXCEPT !.elems = e]]
  BY DEF AddElem
<1> HIDE DEF e
<1> QED
  BY <1>1, <1>2 DEF HeapType, Container, e

LEMMA AddPairChanges ==
    ASSUME NEW h, HeapType(h), NEW p \in Addr, NEW k \in Atoms, NEW v
    PROVE  /\ \A a \in Addr : a # p => AddPair(h, p, k, v)[a] = h[a]
           /\ AddPair(h, p, k, v)[p].elems = h[p].elems
           /\ AddPair(h, p, k, v)[p].kind = h[p].kind
           /\ AddPair(h, p, k, v)[p].pairs
                 = [h[p].pairs EXCEPT ![k] = IF h[p].kind = "set" THEN None ELSE v]
<1>1. h[p] \in Container
  BY DEF HeapType
<1> DEFINE q == [h[p].pairs EXCEPT ![k] = IF h[p].kind = "set" THEN None ELSE v]
<1>2. AddPair(h, p, k, v) = [h EXCEPT ![p] = [h[p] EXCEPT !.pairs = q]]
  BY DEF AddPair
<1> HIDE DEF q
<1> QED
  BY <1>1, <1>2 DEF HeapType, Container, q

LEMMA PairIsNoValue ==
    ASSUME NEW c \in Container, Cardinality(Keys(c)) = 1
    PROVE  PairOf(c) \notin Value
<1>1. Keys(c) # {}
  BY FS_EmptySet
<1>2. (CHOOSE k \in Keys(c) : TRUE) \in Keys(c)
  BY <1>1
<1>3. \A k \in Keys(c) : k \in Atoms /\ c.pairs[k] \in Value
  BY DEF Keys, Container
<1>4. PairOf(c) \in Atoms \X Value
  BY <1>2, <1>3 DEF PairOf
<1> QED
  BY <1>4, PairAssumption

(* What placing v may change, in the containers and in the pending keys: the *)
(* innermost open container only, by the rule its shape and key call for.   *)
HeapChange(v, h, g) ==
    /\ \A x \in Addr : stack = <<>> \/ x # Parent => g[x] = h[x]
    /\ stack # <<>> =>
         /\ g[Parent].kind = h[Parent].kind
         /\ \/ g[Parent].elems = h[Parent].elems
            \/ ~InMapping(h) /\ ~InOmap /\ g[Parent].elems = Append(h[Parent].elems, v)
            \/ /\ InOmap /\ SinglePair(h, v)
               /\ g[Parent].elems = Append(h[Parent].elems, PairOf(h[v]))
         /\ \A k \in Atoms :
              \/ g[Parent].pairs[k] = h[Parent].pairs[k]
              \/ /\ k = Key /\ ~MergeAwaitsValue
                 /\ h[Parent].kind = "set" => g[Parent].pairs[k] = None
              \/ /\ k \notin Keys(h[Parent])
                 /\ h[Parent].kind = "set" => g[Parent].pairs[k] \in {None, Absent}

LEMMA PlaceChanges ==
    ASSUME TypeOK, NEW h, HeapType(h), NEW v \in Value, NEW tag \in Tags,
           NEW push \in BOOLEAN, NEW later \in BOOLEAN,
           Len(pending_key) = Len(stack) + 1, Len(pending_tag) = Len(stack) + 1,
           InOmap => ~InMapping(h),
           Refusal(v, h, later) = "none",
           Place(v, tag, h, push, later)
    PROVE  HeapChange(v, h, heap')
<1>1. Key \in Value
  BY StreamAssumption DEF TypeOK, PlacementTypeOK, Value, Key, Top
<1>2. stack # <<>> => Parent \in Addr
  BY TopFacts DEF Parent, TypeOK, PlacementTypeOK
<1>3. CASE heap' = h
  BY <1>3 DEF HeapChange
<1>4. CASE PlaceElement(v, h, push)
  <2>1. heap' = AddElem(h, Parent, v) /\ stack # <<>> /\ ~InMapping(h) /\ ~InOmap
    BY <1>4 DEF PlaceElement
  <2> QED
    BY <1>2, <2>1, AddElemChanges DEF HeapChange
<1>5. CASE PlaceMember(v, h, push)
  <2>1. heap' = AddElem(h, Parent, PairOf(h[v])) /\ InOmap /\ stack # <<>>
    BY <1>5 DEF PlaceMember, InOmap
  <2>2. SinglePair(h, v)
    BY <2>1 DEF Refusal
  <2> QED
    BY <1>2, <2>1, <2>2, AddElemChanges DEF HeapChange
<1>6. CASE PlaceValue(v, h, push)
  <2>1. /\ heap' = AddPair(h, Parent, Key, v) /\ InMapping(h) /\ stack # <<>>
        /\ ~AwaitsKey /\ ~MergeAwaitsValue
    BY <1>6 DEF PlaceValue, InMapping
  <2>2. Key \in Atoms /\ Parent \in Addr
    BY <1>1, <1>2, <2>1 DEF Refusal, Value
  <2>3. /\ \A a \in Addr : a # Parent => heap'[a] = h[a]
        /\ heap'[Parent].elems = h[Parent].elems /\ heap'[Parent].kind = h[Parent].kind
        /\ heap'[Parent].pairs
              = [h[Parent].pairs EXCEPT ![Key] = IF h[Parent].kind = "set" THEN None ELSE v]
    BY <2>1, <2>2, AddPairChanges
  <2>4. h[Parent].pairs \in [Atoms -> Value \cup {Absent}]
    BY <2>2 DEF HeapType, Container
  <2> QED
    BY <2>1, <2>2, <2>3, <2>4 DEF HeapChange
<1>7. CASE MergeNow(v, h, push)
  <2>1. heap' = Merge(h, Parent, v) /\ stack # <<>>
    BY <1>7 DEF MergeNow, InMapping
  <2> QED
    BY <1>2, <2>1, MergeChanges DEF HeapChange
<1> QED
  BY <1>3, <1>4, <1>5, <1>6, <1>7 DEF Place, PlaceRoot, PlaceKey, MergeLater

(* The key that waits is v where a key was due, none once it has its value. *)
PendChange(v, h, push) ==
    /\ \A i \in 1..Len(stack) : pending_key'[i] = pending_key[i]
    /\ pending_key'[Len(stack) + 1]
          = IF ~InMapping(h) THEN Key ELSE IF AwaitsKey THEN v ELSE None
    /\ push => pending_key'[Len(stack) + 2] = None

LEMMA PlacePends ==
    ASSUME TypeOK, NEW h, NEW v \in Value, NEW tag \in Tags,
           NEW push \in BOOLEAN, NEW later \in BOOLEAN,
           Len(pending_key) = Len(stack) + 1, Len(pending_tag) = Len(stack) + 1,
           InOmap => ~InMapping(h),
           Place(v, tag, h, push, later)
    PROVE  PendChange(v, h, push)
<1>1. /\ pending_key \in Seq(Value) /\ pending_tag \in Seq(Tags) /\ None \in Value
      /\ Len(pending_key) > 0 /\ Len(pending_tag) > 0 /\ Len(stack) \in Nat
      /\ Key \in Value /\ Top(pending_tag) \in Tags
  BY StreamAssumption DEF TypeOK, PlacementTypeOK, Value, Key, Top
<1> DEFINE next == IF ~InMapping(h) THEN Key ELSE IF AwaitsKey THEN v ELSE None
<1>2. \E k \in Value, t \in Tags : k = next /\ Pend(k, t, push)
  <2>1. MergeAwaitsValue => ~AwaitsKey
    BY StreamAssumption DEF MergeAwaitsValue, AwaitsKey
  <2>2. InMapping(h) => stack # <<>>
    BY DEF InMapping
  <2> HIDE DEF InMapping, AwaitsKey, MergeAwaitsValue, Pend, InOmap
  <2> QED
    BY <1>1, <2>1, <2>2
    DEF Place, PlaceRoot, PlaceElement, PlaceMember, PlaceKey, PlaceValue, MergeNow, MergeLater
<1>3. PICK t \in Tags : next \in Value /\ Pend(next, t, push)
  BY <1>2
<1> HIDE DEF next
<1>4. /\ Len(pending_key') = Len(pending_key) + (IF push THEN 1 ELSE 0)
      /\ pending_key'[Len(pending_key)] = next
      /\ push => pending_key'[Len(pending_key) + 1] = None
      /\ \A i \in 1..Len(pending_key) - 1 : pending_key'[i] = pending_key[i]
  BY <1>1, <1>3, PendFacts
<1> QED
  BY <1>1, <1>4 DEF next, PendChange

-----------------------------------------------------------------------------
(* What one event does to the containers, whichever handler takes it. *)

Raised ==
    /\ error' # "none"
    /\ UNCHANGED <<docs, stack, pending_key, pending_tag, modes, anchors, merge_targets, heap>>

Placed(v, tag) ==
    /\ Refusal(v, heap, FALSE) = "none"
    /\ Place(v, tag, heap, FALSE, FALSE)
    /\ HeapChange(v, heap, heap')
    /\ PendChange(v, heap, FALSE)
    /\ UNCHANGED <<stack, modes, error>>

\* A container of the given kind and shape opens at address a.
Opened(a, kind, mode) ==
    /\ a \in Free
    /\ mode = "omap_member" <=> InOmap
    /\ mode = "omap" => kind = "list"
    /\ mode = "omap_member" => kind = "dict"
    /\ mode = "set" <=> kind = "set"
    /\ HeapChange(a, Allocate(a, kind), heap')
    /\ PendChange(a, heap, TRUE)
    /\ stack' = Append(stack, a)
    /\ modes' = Append(modes, mode)
    /\ UNCHANGED error

\* The innermost container closes; only the one below it may change.
Closed ==
    /\ stack' = Pop(stack) /\ modes' = Pop(modes) /\ stack # <<>>
    /\ pending_key' = Pop(pending_key)
    /\ \A x \in Addr : (Len(stack) > 1 /\ x = stack[Len(stack) - 1]) \/ heap'[x] = heap[x]
    /\ Len(stack) > 1 =>
         LET b == stack[Len(stack) - 1] IN
         /\ heap'[b].kind = heap[b].kind
         /\ \/ heap'[b].elems = heap[b].elems
            \/ /\ IsMember /\ Cardinality(Keys(heap[Parent])) = 1
               /\ heap'[b].elems = Append(heap[b].elems, PairOf(heap[Parent]))
         /\ \A k \in Atoms :
              \/ heap'[b].pairs[k] = heap[b].pairs[k]
              \/ /\ k \notin Keys(heap[b])
                 /\ heap[b].kind = "set" => heap'[b].pairs[k] \in {None, Absent}
    /\ UNCHANGED error

LEMMA Parallel ==
    ASSUME IInv, error = "none"
    PROVE  /\ Len(stack) \in Nat /\ Len(stack) = Len(frames)
           /\ Len(pending_key) = Len(stack) + 1 /\ Len(pending_tag) = Len(stack) + 1
           /\ Len(modes) = Len(stack) + 1
           /\ \A i \in 1..Len(stack) :
                (heap[stack[i]].kind = "list") <=> (frames[i].kind = "seq")
           /\ Distinct /\ MembersAbove /\ OmapsAreLists
           /\ InOmap => ~InMapping(heap)
           /\ stack # <<>> => Parent = stack[Len(stack)] /\ Parent \in Addr /\ Len(stack) > 0
           /\ Top(modes) = modes[Len(stack) + 1]
<1>1. /\ Len(stack) = Len(frames)
      /\ Len(pending_key) = Len(stack) + 1 /\ Len(pending_tag) = Len(stack) + 1
      /\ Len(modes) = Len(stack) + 1
      /\ \A i \in 1..Len(stack) : (heap[stack[i]].kind = "list") <=> (frames[i].kind = "seq")
      /\ Distinct /\ MembersAbove /\ OmapsAreLists
  BY DEF IInv, Aligned
<1>2. /\ Len(stack) \in Nat
      /\ stack # <<>> => Parent = stack[Len(stack)] /\ Parent \in Addr /\ Len(stack) > 0
  BY Types DEF IInv, Parent, Top
<1>3. InOmap => ~InMapping(heap)
  <2> SUFFICES ASSUME InOmap PROVE heap[Parent].kind = "list"
    BY DEF InMapping
  <2>1. Len(stack) \in 1..Len(stack) /\ modes[Len(stack) + 1] = "omap"
    BY <1>1, <1>2 DEF InOmap, Top
  <2> QED
    BY <1>1, <1>2, <2>1 DEF InOmap, OmapsAreLists
<1> QED
  BY <1>1, <1>2, <1>3 DEF Top

LEMMA ScalarKind ==
    ASSUME IInv, NEW s \in KeyScalars \cup ValueScalars, NEW n \in Names \cup {NoName},
           Scalar(s, n)
    PROVE  \/ Raised
           \/ Placed(s.val, s.tag) /\ anchors' = Bind(n, s.val)
<1>1. s.val \in Value /\ s.tag \in Tags /\ error = "none"
  BY StreamAssumption DEF Value, Scalar
<1>2. CASE Refusal(s.val, heap, FALSE) # "none"
  BY <1>2 DEF Scalar, PlaceScalar, Raise, Raised
<1>3. CASE Refusal(s.val, heap, FALSE) = "none"
  <2>1. /\ Place(s.val, s.tag, heap, FALSE, FALSE) /\ anchors' = Bind(n, s.val)
        /\ UNCHANGED <<stack, modes, error>>
    BY <1>3 DEF Scalar, PlaceScalar
  <2>2. HeapChange(s.val, heap, heap') /\ PendChange(s.val, heap, FALSE)
    BY <1>1, <1>3, <2>1, Parallel, Types, PlaceChanges, PlacePends DEF IInv
  <2> QED
    BY <1>3, <2>1, <2>2 DEF Placed
<1> QED
  BY <1>2, <1>3

LEMMA AliasKind ==
    ASSUME IInv, NEW n \in Names, Alias(n)
    PROVE  \/ Raised
           \/ anchors[n] \in Value /\ Placed(anchors[n], "str") /\ UNCHANGED anchors
<1>1. "str" \in Tags /\ error = "none" /\ anchors[n] \in Value \cup {Absent}
  BY Types DEF IInv, Tags, Alias
<1>2. CASE anchors[n] = Absent \/ Refusal(anchors[n], heap, FALSE) # "none"
  BY <1>2 DEF Alias, PlaceAlias, Raise, Raised
<1>3. CASE anchors[n] # Absent /\ Refusal(anchors[n], heap, FALSE) = "none"
  <2>1. /\ Place(anchors[n], "str", heap, FALSE, FALSE) /\ UNCHANGED anchors
        /\ UNCHANGED <<stack, modes, error>>
    BY <1>3 DEF Alias, PlaceAlias
  <2>2. HeapChange(anchors[n], heap, heap') /\ PendChange(anchors[n], heap, FALSE)
    BY <1>1, <1>3, <2>1, Parallel, Types, PlaceChanges, PlacePends DEF IInv
  <2> QED
    BY <1>1, <1>3, <2>1, <2>2 DEF Placed
<1> QED
  BY <1>2, <1>3

LEMMA StartKind ==
    ASSUME IInv, NEW kind \in {"map", "seq"}, NEW tag \in CollTags,
           NEW n \in Names \cup {NoName}, NEW a \in Addr, Start(a, kind, tag, n)
    PROVE  \/ Raised
           \/ /\ \E K \in {"list", "dict", "set"}, mode \in Modes : Opened(a, K, mode)
              /\ anchors' = Bind(n, a)
<1> DEFINE mode == ModeOf(tag)
           K == KindOf(kind, mode)
           h == Allocate(a, K)
           refusal == IF OpenRefusal(kind, mode) # "none" THEN OpenRefusal(kind, mode)
                      ELSE IF InOmap THEN "none" ELSE Refusal(a, h, TRUE)
<1>1. error = "none" /\ a \in Free
  BY DEF Start, OpenAt
<1>2. CASE refusal # "none"
  BY <1>2 DEF Start, OpenAt, Raise, Raised
<1>3. CASE refusal = "none"
  <2>1. /\ anchors' = Bind(n, a)
        /\ IF InOmap
           THEN /\ heap' = h
                /\ Pend(Key, Top(pending_tag), TRUE)
                /\ UNCHANGED <<docs, merge_targets>>
           ELSE Place(a, "str", h, TRUE, TRUE)
        /\ stack' = Append(stack, a) /\ modes' = Append(modes, mode)
        /\ UNCHANGED error
    BY <1>3 DEF Start, OpenAt
  <2>2. OpenRefusal(kind, mode) = "none" /\ (~InOmap => Refusal(a, h, TRUE) = "none")
    BY <1>3
  <2>3. mode \in Modes /\ (mode = "omap_member" <=> InOmap)
    BY StreamAssumption DEF ModeOf, Modes, AllCollTags
  <2>4. /\ K \in {"list", "dict", "set"} /\ (mode = "set" <=> K = "set")
        /\ mode = "omap" => K = "list"
        /\ mode = "omap_member" => K = "dict"
    BY <2>2 DEF OpenRefusal, KindOf
  <2> HIDE DEF mode, K, refusal
  <2>5. HeapType(h) /\ (InMapping(h) <=> InMapping(heap))
    <3>1. HeapType(h)
      BY <2>4, Types, AllocateFacts DEF IInv
    <3>2. stack # <<>> => h[Parent] = heap[Parent]
      <4>1. stack # <<>> => Parent \in Live /\ Parent \in Addr /\ Parent # a
        BY <1>1, Parallel, StackLive, Types DEF IInv, Free
      <4> QED
        BY <2>4, <4>1, Types, AllocateFacts DEF IInv
    <3> HIDE DEF h
    <3> QED
      BY <3>1, <3>2 DEF InMapping
  <2> HIDE DEF h
  <2>6. HeapChange(a, h, heap')
    <3>1. CASE InOmap
      BY <2>1, <3>1 DEF HeapChange
    <3>2. CASE ~InOmap
      <4>1. a \in Value /\ "str" \in Tags
        BY DEF Value, Tags
      <4> QED
        BY <1>1, <2>1, <2>2, <2>5, <3>2, <4>1, Parallel, Types, PlaceChanges DEF IInv
    <3> QED
      BY <3>1, <3>2
  <2>7. PendChange(a, heap, TRUE)
    <3>1. CASE InOmap
      <4>1. Pend(Key, Top(pending_tag), TRUE) /\ ~InMapping(heap)
        BY <1>1, <2>1, <3>1, Parallel
      <4>2. /\ Key \in Value /\ Top(pending_tag) \in Tags /\ None \in Value
            /\ Len(pending_key) = Len(stack) + 1 /\ Len(pending_tag) = Len(stack) + 1
            /\ Len(stack) \in Nat
            /\ pending_key \in Seq(Value) /\ pending_tag \in Seq(Tags)
        BY <1>1, Parallel, Types DEF IInv, Key, Top
      <4>3. Len(pending_key) > 0 /\ Len(pending_tag) > 0
        BY <4>2
      <4>4. /\ pending_key'[Len(pending_key)] = Key
            /\ pending_key'[Len(pending_key) + 1] = None
            /\ \A i \in 1..Len(pending_key) - 1 : pending_key'[i] = pending_key[i]
        BY <4>1, <4>2, <4>3, PendFacts
      <4> QED
        BY <4>1, <4>2, <4>4 DEF PendChange
    <3>2. CASE ~InOmap
      <4>1. a \in Value /\ "str" \in Tags
        BY DEF Value, Tags
      <4>2. PendChange(a, h, TRUE)
        BY <1>1, <2>1, <3>2, <4>1, Parallel, PlacePends DEF IInv
      <4> QED
        BY <2>5, <4>2 DEF PendChange
    <3> QED
      BY <3>1, <3>2
  <2>8. Opened(a, K, mode)
    BY <1>1, <2>1, <2>3, <2>4, <2>6, <2>7 DEF Opened, h
  <2> QED
    BY <2>1, <2>3, <2>4, <2>8
<1> QED
  BY <1>2, <1>3

LEMMA EndKind ==
    ASSUME IInv, CollectionEnd, End
    PROVE  Raised \/ Closed
<1> DEFINE L == Len(stack)
           b == stack[L - 1]
<1>1. error = "none" /\ frames # <<>>
  BY DEF End, CollectionEnd
<1>2. CASE CloseRefusal # "none"
  BY <1>2 DEF End, Close, Raise, Raised
<1>3. CASE CloseRefusal = "none"
  <2>1. /\ heap' = IF Target # Absent THEN Merge(MemberAdded, Target, Parent) ELSE MemberAdded
        /\ stack' = Pop(stack) /\ modes' = Pop(modes) /\ pending_key' = Pop(pending_key)
        /\ UNCHANGED error
    BY <1>3 DEF End, Close, Settle, PopFrame
  <2>2. IsMember => Cardinality(Keys(heap[Parent])) = 1
    BY <1>3 DEF CloseRefusal
  <2>3. /\ L \in Nat /\ L > 0 /\ stack # <<>> /\ Parent = stack[L] /\ Parent \in Addr
        /\ \A i \in 1..L : stack[i] \in Addr
        /\ HeapType(heap)
    <3>1. Len(frames) # 0
      BY <1>1 DEF IInv, TypeOK, StreamTypeOK
    <3> QED
      BY <1>1, <3>1, Parallel, Types DEF IInv
  <2>4. L > 1 => b \in Addr
    BY <2>3
  <2>5. IsMember => L > 1 /\ Below = b
    <3>1. IsMember => L > 1
      BY <1>1, <2>3, Parallel DEF IsMember, MembersAbove
    <3>2. L > 1 => Below = b
      <4>1. Len(Pop(stack)) = L - 1 /\ \A i \in 1..L - 1 : Pop(stack)[i] = stack[i]
        BY <2>3, PopFacts, Types DEF IInv
      <4> QED
        BY <2>3, <4>1 DEF Below, Top
    <3> QED
      BY <3>1, <3>2
  <2>6. Target # Absent => L > 1 /\ Target = b
    <3> SUFFICES ASSUME Target # Absent PROVE L > 1 /\ Target = b
      OBVIOUS
    <3>1. PICK i \in 2..L : stack[i] = Parent /\ Target = stack[i - 1]
      BY <1>1, <2>3 DEF IInv, DeferredOnStack, Target
    <3>2. i = L
      BY <1>1, <2>3, <3>1, Parallel DEF Distinct
    <3> QED
      BY <2>3, <3>1, <3>2
  <2>7. /\ \A x \in Addr : (L > 1 /\ x = b) \/ MemberAdded[x] = heap[x]
        /\ L > 1 =>
             /\ MemberAdded[b].pairs = heap[b].pairs /\ MemberAdded[b].kind = heap[b].kind
             /\ \/ MemberAdded[b].elems = heap[b].elems
                \/ IsMember /\ MemberAdded[b].elems = Append(heap[b].elems, PairOf(heap[Parent]))
    <3>1. CASE IsMember
      <4>1. MemberAdded = AddElem(heap, b, PairOf(heap[Parent])) /\ b \in Addr /\ L > 1
        BY <2>4, <2>5, <3>1 DEF MemberAdded
      <4> QED
        BY <2>3, <3>1, <4>1, AddElemChanges
    <3>2. CASE ~IsMember
      BY <3>2 DEF MemberAdded
    <3> QED
      BY <3>1, <3>2
  <2>8. Target # Absent => HeapType(MemberAdded)
    <3>1. CASE IsMember
      <4>1. heap[Parent] \in Container
        BY <2>3 DEF HeapType
      <4>2. PairOf(heap[Parent]) \in Entry
        BY <2>2, <3>1, <4>1, PairOfType
      <4> QED
        BY <2>3, <2>4, <2>5, <3>1, <4>2, AddElemFacts DEF MemberAdded
    <3>2. CASE ~IsMember
      BY <2>3, <3>2 DEF MemberAdded
    <3> QED
      BY <3>1, <3>2
  <2>9. /\ \A x \in Addr : (L > 1 /\ x = b) \/ heap'[x] = heap[x]
        /\ L > 1 =>
             /\ heap'[b].kind = heap[b].kind
             /\ \/ heap'[b].elems = heap[b].elems
                \/ IsMember /\ heap'[b].elems = Append(heap[b].elems, PairOf(heap[Parent]))
             /\ \A k \in Atoms :
                  \/ heap'[b].pairs[k] = heap[b].pairs[k]
                  \/ /\ k \notin Keys(heap[b])
                     /\ heap[b].kind = "set" => heap'[b].pairs[k] \in {None, Absent}
    <3>1. CASE Target = Absent
      BY <2>1, <2>7, <3>1
    <3>2. CASE Target # Absent
      <4>1. heap' = Merge(MemberAdded, b, Parent) /\ L > 1 /\ b \in Addr /\ HeapType(MemberAdded)
        BY <2>1, <2>4, <2>6, <2>8, <3>2
      <4>2. /\ \A x \in Addr : x # b => heap'[x] = MemberAdded[x]
            /\ heap'[b].elems = MemberAdded[b].elems /\ heap'[b].kind = MemberAdded[b].kind
            /\ \A k \in Keys(MemberAdded[b]) : heap'[b].pairs[k] = MemberAdded[b].pairs[k]
            /\ MemberAdded[b].kind = "set" =>
                  \A k \in Atoms \ Keys(MemberAdded[b]) : heap'[b].pairs[k] \in {None, Absent}
        BY <4>1, MergeChanges
      <4>3. Keys(MemberAdded[b]) = Keys(heap[b])
        BY <2>7, <4>1 DEF Keys
      <4> QED
        BY <2>7, <4>1, <4>2, <4>3
    <3> QED
      BY <3>1, <3>2
  <2> QED
    BY <2>1, <2>2, <2>3, <2>9 DEF Closed
<1> QED
  BY <1>2, <1>3

-----------------------------------------------------------------------------
(* What a step does to the containers, as the two action properties say it. *)

LEMMA OpensEmpty ==
    ASSUME NEW a \in Addr, NEW kind
    PROVE  /\ Allocate(a, kind)[a] = Empty(kind)
           /\ \A x \in Live \cap Addr : x # a => Allocate(a, kind)[x] = heap[x]
BY DEF Allocate

LEMMA StepKind ==
    ASSUME IInv, Next
    PROVE  \/ Raised
           \/ \E v \in Value, tag \in Tags : Placed(v, tag)
           \/ \E a \in Addr, K \in {"list", "dict", "set"}, mode \in Modes : Opened(a, K, mode)
           \/ Closed
           \/ UNCHANGED <<stack, modes, heap, error>>
<1>1. CASE ReadScalar
  <2>1. \A s \in KeyScalars \cup ValueScalars : s.val \in Value /\ s.tag \in Tags
    BY StreamAssumption DEF Value
  <2> QED
    BY <1>1, <2>1, ScalarKind DEF ReadScalar
<1>2. CASE ReadStart
  BY <1>2, StartKind DEF ReadStart
<1>3. CASE ReadEnd
  BY <1>3, EndKind DEF ReadEnd
<1>4. CASE ReadDocument
  BY <1>4 DEF ReadDocument, Document, BeginDocument
<1>5. CASE ReadAlias
  <2>1. "str" \in Tags
    BY DEF Tags
  <2> QED
    BY <1>5, <2>1, AliasKind DEF ReadAlias
<1> QED
  BY <1>1, <1>2, <1>3, <1>4, <1>5 DEF Next

LEMMA ParentOnStack ==
    ASSUME IInv, stack # <<>>
    PROVE  Parent \in Range(stack) /\ Parent \in Addr
BY Types DEF IInv, Parent, Top, Range

LEMMA FinalStep ==
    ASSUME IInv, [Next]_vars, NEW a \in Addr \ Range(stack)
    PROVE  heap'[a] = heap[a] \/ a \in Free
<1>1. stack # <<>> => Parent # a
  BY ParentOnStack
<1>2. ASSUME NEW v \in Value, NEW tag \in Tags, Placed(v, tag)
      PROVE  heap'[a] = heap[a]
  BY <1>1, <1>2 DEF Placed, HeapChange
<1>3. ASSUME NEW b \in Addr, NEW K \in {"list", "dict", "set"}, NEW mode \in Modes,
             Opened(b, K, mode), a \notin Free
      PROVE  heap'[a] = heap[a]
  <2>1. heap'[a] = Allocate(b, K)[a] /\ b \in Free
    BY <1>1, <1>3 DEF Opened, HeapChange
  <2> QED
    BY <1>3, <2>1, OpensEmpty DEF Free
<1>4. CASE Closed
  <2>1. Len(stack) > 1 => stack[Len(stack) - 1] \in Range(stack)
    BY Types DEF IInv, Range
  <2> QED
    BY <1>4, <2>1 DEF Closed
<1>5. CASE heap' = heap
  BY <1>5
<1> QED
  BY <1>2, <1>3, <1>4, <1>5, StepKind DEF Raised, vars, walkVars

LEMMA KeysStep ==
    ASSUME IInv, [Next]_vars, NEW a \in Range(stack), NEW k \in Keys(heap[a])
    PROVE  \/ heap'[a].pairs[k] = heap[a].pairs[k]
           \/ a = Parent /\ Key = k /\ ~MergeAwaitsValue
<1>1. a \in Addr /\ k \in Atoms /\ stack # <<>>
  BY Types DEF IInv, Range, Keys
<1>2. ASSUME NEW h, NEW v, h[a] = heap[a], HeapChange(v, h, heap')
      PROVE  \/ heap'[a].pairs[k] = heap[a].pairs[k]
             \/ a = Parent /\ Key = k /\ ~MergeAwaitsValue
  <2>1. k \in Keys(h[a])
    BY <1>2
  <2> QED
    BY <1>1, <1>2, <2>1 DEF HeapChange
<1>3. ASSUME NEW b \in Addr, NEW K \in {"list", "dict", "set"}, NEW mode \in Modes,
             Opened(b, K, mode)
      PROVE  Allocate(b, K)[a] = heap[a]
  <2>1. a \in Live /\ a # b
    BY <1>3, StackLive, Types DEF IInv, Opened, Free, Range
  <2> QED
    BY <1>1, <2>1, OpensEmpty
<1>4. CASE Closed
  BY <1>1, <1>4 DEF Closed
<1>5. CASE heap' = heap
  BY <1>5
<1> QED
  BY <1>2, <1>3, <1>4, <1>5, StepKind DEF Raised, Placed, Opened, vars, walkVars

(* A container that has closed never changes again while anything refers to *)
(* it: whatever an alias shares is what its anchor named, for streams of any *)
(* size and any number of containers.                                       *)
THEOREM RecordClosedIsFinal == Spec => ClosedIsFinal
<1>1. IInv /\ [Next]_vars => [\A a \in Addr \ Range(stack) : heap'[a] = heap[a] \/ a \in Free]_vars
  BY FinalStep
<1> QED
  BY <1>1, Inductive, PTL DEF Spec, ClosedIsFinal

(* '<<' never changes a pair its mapping already has, whether it merges when *)
(* its value comes or when the container it names closes.                   *)
THEOREM RecordExistingKeysWin == Spec => ExistingKeysWin
<1>1. IInv /\ [Next]_vars =>
        [\A a \in Range(stack), k \in Atoms :
            k \in Keys(heap[a])
               => \/ heap'[a].pairs[k] = heap[a].pairs[k]
                  \/ a = Parent /\ Key = k /\ ~MergeAwaitsValue]_vars
  BY KeysStep
<1> QED
  BY <1>1, Inductive, PTL DEF Spec, ExistingKeysWin

-----------------------------------------------------------------------------
(* The shapes of the open containers. *)

LEMMA ShapeStep ==
    ASSUME NEW c \in Container, NEW d, NEW mode \in Modes, HasShape(c, mode),
           d.kind = c.kind,
           \/ d.elems = c.elems
           \/ \E x : (x \in Value <=> mode # "omap") /\ d.elems = Append(c.elems, x),
           \A k \in Atoms :
               d.pairs[k] = c.pairs[k] \/ (c.kind = "set" => d.pairs[k] \in {None, Absent})
    PROVE  HasShape(d, mode)
<1>1. c.elems \in Seq(Entry)
  BY DEF Container
<1>2. \A i \in DOMAIN d.elems :
        \/ i \in DOMAIN c.elems /\ d.elems[i] = c.elems[i]
        \/ d.elems[i] \in Value <=> mode # "omap"
  BY <1>1
<1> QED
  BY <1>2 DEF HasShape, HoldsPairs, Keys, Modes

LEMMA EmptyShape ==
    ASSUME NEW kind, NEW mode \in Modes,
           mode = "omap" => kind = "list", mode = "omap_member" => kind = "dict",
           mode = "set" <=> kind = "set"
    PROVE  HasShape(Empty(kind), mode)
BY DEF HasShape, HoldsPairs, Keys, Empty

\* The open containers keep their shapes through one change of heap h.
LEMMA ChangeShape ==
    ASSUME IInv, error = "none", NEW h, HeapType(h), NEW v \in Value,
           HeapChange(v, h, heap'),
           InOmap => ~InMapping(h),
           NEW i \in 1..Len(stack), HasShape(h[stack[i]], modes[i + 1])
    PROVE  HasShape(heap'[stack[i]], modes[i + 1])
<1> DEFINE c == h[stack[i]]
           d == heap'[stack[i]]
           mode == modes[i + 1]
<1>1. /\ stack[i] \in Addr /\ c \in Container /\ mode \in Modes
      /\ stack # <<>> /\ Len(stack) > 0 /\ Parent = stack[Len(stack)]
    <2>1. modes \in Seq(Modes) /\ i + 1 \in 1..Len(modes) /\ stack # <<>> /\ stack[i] \in Addr
      BY Parallel, Types DEF IInv
    <2> QED
      BY <2>1, Parallel DEF HeapType
<1>2. CASE stack[i] # Parent
  BY <1>1, <1>2 DEF HeapChange
<1>3. CASE stack[i] = Parent
  <2>1. i = Len(stack) /\ (InOmap <=> mode = "omap")
    BY <1>1, <1>3, Parallel DEF Distinct, InOmap
  <2>2. d.kind = c.kind
    BY <1>1, <1>3 DEF HeapChange
  <2>3. \/ d.elems = c.elems
        \/ \E x : (x \in Value <=> mode # "omap") /\ d.elems = Append(c.elems, x)
    <3>1. ASSUME InOmap, SinglePair(h, v), d.elems = Append(c.elems, PairOf(h[v]))
          PROVE  PairOf(h[v]) \notin Value
      BY <3>1, PairIsNoValue DEF SinglePair, IsDict, HeapType
    <3> QED
      BY <1>1, <1>3, <2>1, <3>1 DEF HeapChange
  <2>4. \A k \in Atoms :
           d.pairs[k] = c.pairs[k] \/ (c.kind = "set" => d.pairs[k] \in {None, Absent})
    BY <1>1, <1>3 DEF HeapChange
  <2> HIDE DEF c, d, mode
  <2>5. HasShape(c, mode)
    BY DEF c, mode
  <2>6. HasShape(d, mode)
    BY <1>1, <2>2, <2>3, <2>4, <2>5, ShapeStep
  <2> QED
    BY <2>6 DEF d, mode
<1> QED
  BY <1>2, <1>3

LEMMA ShapesStep ==
    ASSUME IInv, ShapesKept, [Next]_vars
    PROVE  ShapesKept'
<1> DEFINE L == Len(stack)
<1>1. CASE error # "none"
  BY <1>1 DEF Next, ReadScalar, ReadStart, ReadEnd, ReadDocument, ReadAlias,
     Scalar, Start, End, Document, Alias, vars, walkVars, ShapesKept
<1>2. CASE error = "none"
  <2>1. /\ \A i \in 1..L : HasShape(heap[stack[i]], modes[i + 1])
        /\ \A i \in 1..L : modes[i + 1] = "omap_member" => modes[i] = "omap"
    BY <1>2 DEF ShapesKept
  <2>2. /\ L \in Nat /\ Len(modes) = L + 1 /\ modes \in Seq(Modes) /\ stack \in Seq(Addr)
        /\ HeapType(heap)
        /\ InOmap => ~InMapping(heap)
        /\ stack # <<>> => L > 0 /\ Parent = stack[L]
        /\ \A i \in 1..L : stack[i] \in Addr
    BY <1>2, Parallel, Types DEF IInv
  <2>3. ASSUME NEW v \in Value, NEW tag \in Tags, Placed(v, tag)
        PROVE  ShapesKept'
    <3>1. ASSUME NEW i \in 1..L
          PROVE  HasShape(heap'[stack[i]], modes[i + 1])
      <4>1. HeapChange(v, heap, heap') /\ HasShape(heap[stack[i]], modes[i + 1])
        BY <2>1, <2>3 DEF Placed
      <4> QED
        BY <1>2, <2>2, <4>1, ChangeShape
    <3> QED
      BY <2>1, <2>3, <3>1 DEF Placed, ShapesKept
  <2>4. ASSUME NEW a \in Addr, NEW K \in {"list", "dict", "set"}, NEW mode \in Modes,
               Opened(a, K, mode)
        PROVE  ShapesKept'
    <3> DEFINE h == Allocate(a, K)
    <3>1. /\ h[a] = Empty(K) /\ HeapType(h)
          /\ \A i \in 1..L : stack[i] # a /\ h[stack[i]] = heap[stack[i]]
      <4>1. \A i \in 1..L : stack[i] \in Live /\ stack[i] # a
        BY <2>2, <2>4, StackLive DEF Opened, Free
      <4>2. h[a] = Empty(K) /\ \A i \in 1..L : h[stack[i]] = heap[stack[i]]
        BY <2>2, <4>1, OpensEmpty
      <4> QED
        BY <2>2, <4>1, <4>2, AllocateFacts
    <3>2. InOmap => ~InMapping(h)
      <4>1. stack # <<>> => L \in 1..L
        BY <2>2
      <4> HIDE DEF h
      <4> QED
        BY <2>2, <3>1, <4>1 DEF InMapping
    <3> HIDE DEF h
    <3>3. HeapChange(a, h, heap') /\ a \in Value
      BY <2>4 DEF Opened, h, Value
    <3>4. \A i \in 1..L : HasShape(heap'[stack[i]], modes[i + 1])
      BY <1>2, <2>1, <3>1, <3>2, <3>3, ChangeShape
    <3>5. heap'[a] = Empty(K)
      BY <2>2, <3>1, <3>3 DEF HeapChange
    <3>6. HasShape(heap'[a], mode)
      BY <2>4, <3>5, EmptyShape DEF Opened
    <3>7. /\ Len(stack') = L + 1 /\ stack'[L + 1] = a
          /\ \A i \in 1..L : stack'[i] = stack[i]
          /\ modes'[L + 2] = mode /\ \A i \in 1..L + 1 : modes'[i] = modes[i]
      BY <2>2, <2>4, AppendFacts DEF Opened
    <3>8. mode = "omap_member" => modes[L + 1] = "omap"
      BY <2>2, <2>4 DEF Opened, InOmap, Top
    <3>9. ASSUME NEW i \in 1..L + 1
          PROVE  /\ HasShape(heap'[stack'[i]], modes'[i + 1])
                 /\ modes'[i + 1] = "omap_member" => modes'[i] = "omap"
      <4>1. CASE i = L + 1
        BY <2>2, <3>6, <3>7, <3>8, <4>1
      <4>2. CASE i \in 1..L
        <5>1. stack'[i] = stack[i] /\ modes'[i + 1] = modes[i + 1] /\ modes'[i] = modes[i]
          BY <2>2, <3>7, <4>2
        <5> QED
          BY <2>1, <3>4, <4>2, <5>1
      <4> QED
        BY <2>2, <4>1, <4>2
    <3> QED
      BY <3>7, <3>9 DEF ShapesKept
  <2>5. CASE Closed
    <3>1. /\ Len(stack') = L - 1 /\ L > 0 /\ \A i \in 1..L - 1 : stack'[i] = stack[i]
          /\ \A i \in 1..L : modes'[i] = modes[i]
      <4>1. /\ Len(Pop(stack)) = L - 1 /\ L > 0 /\ \A i \in 1..L - 1 : Pop(stack)[i] = stack[i]
        BY <2>2, <2>5, PopFacts DEF Closed
      <4>2. modes # <<>> /\ Len(modes) - 1 = L
        BY <2>2
      <4>3. \A i \in 1..L : Pop(modes)[i] = modes[i]
        BY <2>2, <4>2, PopFacts
      <4> QED
        BY <2>5, <4>1, <4>3 DEF Closed
    <3>2. ASSUME NEW i \in 1..L - 1
          PROVE  HasShape(heap'[stack[i]], modes[i + 1])
      <4> DEFINE b == stack[L - 1]
      <4>1. i \in 1..L /\ L > 1 /\ L - 1 \in 1..L /\ L \in 1..L /\ L + 1 \in 1..Len(modes)
        BY <2>2, <3>1
      <4>2. CASE stack[i] # b
        BY <2>1, <2>2, <2>5, <4>1, <4>2 DEF Closed
      <4>3. CASE stack[i] = b
        <5>1. i = L - 1
          BY <1>2, <4>1, <4>3, Parallel DEF Distinct
        <5>2. /\ heap'[b].kind = heap[b].kind
              /\ \/ heap'[b].elems = heap[b].elems
                 \/ /\ IsMember /\ Cardinality(Keys(heap[Parent])) = 1
                    /\ heap'[b].elems = Append(heap[b].elems, PairOf(heap[Parent]))
              /\ \A k \in Atoms :
                   \/ heap'[b].pairs[k] = heap[b].pairs[k]
                   \/ heap[b].kind = "set" => heap'[b].pairs[k] \in {None, Absent}
          BY <2>5, <4>1 DEF Closed
        <5>3. IsMember => modes[L] = "omap"
          BY <2>1, <2>2, <4>1 DEF IsMember, Top
        <5>4. Cardinality(Keys(heap[Parent])) = 1 => PairOf(heap[Parent]) \notin Value
          <6>1. heap[Parent] \in Container
            BY <1>2, <3>1, Parallel, Types DEF IInv, HeapType
          <6> QED
            BY <6>1, PairIsNoValue
        <5>5. \/ heap'[b].elems = heap[b].elems
              \/ \E x : (x \in Value <=> modes[L] # "omap") /\ heap'[b].elems = Append(heap[b].elems, x)
          BY <5>2, <5>3, <5>4
        <5>6. heap[b] \in Container /\ modes[L] \in Modes /\ HasShape(heap[b], modes[L])
          <6>1. i + 1 = L /\ b \in Addr /\ L \in 1..Len(modes)
            BY <2>2, <4>1, <5>1
          <6>2. HasShape(heap[stack[i]], modes[i + 1])
            BY <2>1, <4>1
          <6> QED
            BY <2>2, <4>3, <6>1, <6>2 DEF HeapType
        <5>7. HasShape(heap'[b], modes[L])
          BY <5>2, <5>5, <5>6, ShapeStep
        <5> QED
          BY <2>2, <4>3, <5>1, <5>7
      <4> QED
        BY <4>2, <4>3
    <3>3. \A i \in 1..L - 1 :
            /\ i \in 1..L /\ stack'[i] = stack[i]
            /\ modes'[i] = modes[i] /\ modes'[i + 1] = modes[i + 1]
      BY <2>2, <3>1
    <3> QED
      BY <2>1, <3>1, <3>2, <3>3 DEF ShapesKept
  <2>6. CASE UNCHANGED <<stack, modes, heap, error>>
    BY <2>6 DEF ShapesKept
  <2>7. CASE Raised
    BY <2>7 DEF Raised, ShapesKept
  <2> QED
    BY <2>3, <2>4, <2>5, <2>6, <2>7, StepKind DEF vars, walkVars
<1> QED
  BY <1>1, <1>2

(* Every open container keeps the shape its tag asked for: an ordered map is a *)
(* list of pairs fed by dicts, a set holds only keys, a plain list no pair.  *)
THEOREM RecordShapesKept == Spec => []ShapesKept
<1>1. Init => ShapesKept
  BY DEF Init, PlacementInit, ShapesKept
<1>2. IInv /\ ShapesKept /\ [Next]_vars => ShapesKept'
  BY ShapesStep
<1> QED
  BY <1>1, <1>2, Inductive, PTL DEF Spec

-----------------------------------------------------------------------------
(* The keys that wait, and the pairs the stream has half delivered. *)

\* No sequence is half through a pair, and no anchor names a null.
PendingInv ==
    /\ \A n \in Names : anchors[n] # None
    /\ \A i \in 1..Len(frames) : frames[i].kind = "seq" => ~frames[i].half
    /\ PendingMatchesStream

LEMMA ReceivedHalf ==
    ASSUME StreamTypeOK, NEW m \in BOOLEAN
    PROVE  \A i \in 1..Len(frames) :
             Received(m)[i].half =
                IF i = Len(frames) /\ frames[i].kind = "map" THEN ~frames[i].half
                ELSE frames[i].half
<1> SUFFICES ASSUME NEW i \in 1..Len(frames)
             PROVE  Received(m)[i].half =
                       IF i = Len(frames) /\ frames[i].kind = "map" THEN ~frames[i].half
                       ELSE frames[i].half
  OBVIOUS
<1>1. frames \in Seq(Frame) /\ frames # <<>> /\ Inner = frames[Len(frames)]
  BY DEF StreamTypeOK, Inner
<1>2. frames[i] \in Frame
  BY <1>1
<1> DEFINE g == [kind |-> "map", half |-> ~Inner.half, merge |-> m]
<1>3. CASE Inner.kind = "seq"
  BY <1>1, <1>2, <1>3 DEF Received
<1>4. CASE Inner.kind # "seq"
  <2>1. Received(m) = [frames EXCEPT ![Len(frames)] = g]
    BY <1>1, <1>4 DEF Received
  <2>2. g.half = ~Inner.half
    OBVIOUS
  <2> HIDE DEF g
  <2>3. Received(m)[i] = IF i = Len(frames) THEN g ELSE frames[i]
    BY <1>1, <2>1
  <2>4. i = Len(frames) => frames[i].kind = "map"
    BY <1>1, <1>2, <1>4 DEF Frame
  <2> QED
    BY <1>1, <2>2, <2>3, <2>4
<1> QED
  BY <1>3, <1>4

\* What a node does to the pending keys is what it does to the half pairs.
LEMMA PendsWithStream ==
    ASSUME IInv, PendingInv, error = "none", NEW v \in Value, NEW m \in BOOLEAN,
           NEW push \in BOOLEAN, PendChange(v, heap, push), AtKey => v # None
    PROVE  \A i \in 1..Len(stack) : (pending_key'[i + 1] # None) <=> Received(m)[i].half
<1> SUFFICES ASSUME NEW i \in 1..Len(stack)
             PROVE  (pending_key'[i + 1] # None) <=> Received(m)[i].half
  OBVIOUS
<1>1. /\ Len(stack) \in Nat /\ Len(stack) = Len(frames) /\ stack # <<>> /\ frames # <<>>
      /\ Len(pending_key) = Len(stack) + 1 /\ Parent = stack[Len(stack)]
      /\ (heap[stack[i]].kind = "list") <=> (frames[i].kind = "seq")
  BY Parallel, Types DEF IInv, TypeOK, StreamTypeOK
<1>2. frames[i] \in Frame /\ StreamTypeOK
  BY <1>1 DEF IInv, TypeOK, StreamTypeOK
<1>3. (pending_key[i + 1] # None) <=> frames[i].half
  BY DEF PendingInv, PendingMatchesStream
<1>4. Received(m)[i].half =
         IF i = Len(frames) /\ frames[i].kind = "map" THEN ~frames[i].half ELSE frames[i].half
  BY <1>1, <1>2, ReceivedHalf
<1>5. CASE i # Len(stack)
  <2>1. i + 1 \in 1..Len(stack)
    BY <1>1, <1>5
  <2>2. pending_key'[i + 1] = pending_key[i + 1]
    BY <2>1 DEF PendChange
  <2> QED
    BY <1>1, <1>3, <1>4, <1>5, <2>2
<1>6. CASE i = Len(stack)
  <2>1. /\ Key = pending_key[i + 1]
        /\ pending_key'[i + 1] = IF ~InMapping(heap) THEN Key ELSE IF AwaitsKey THEN v ELSE None
    BY <1>1, <1>6 DEF PendChange, Key, Top
  <2>2. InMapping(heap) <=> frames[i].kind = "map"
    BY <1>1, <1>2, <1>6 DEF InMapping, Frame
  <2>3. CASE frames[i].kind = "seq"
    BY <1>3, <1>4, <2>1, <2>2, <2>3
  <2>4. CASE frames[i].kind = "map" /\ ~frames[i].half
    <3>1. AtKey /\ AwaitsKey
      BY <1>1, <1>3, <1>6, <2>1, <2>4 DEF AtKey, Inner, AwaitsKey
    <3> QED
      BY <1>1, <1>4, <1>6, <2>1, <2>2, <2>4, <3>1
  <2>5. CASE frames[i].kind = "map" /\ frames[i].half
    BY <1>1, <1>2, <1>3, <1>4, <1>6, <2>1, <2>2, <2>5 DEF AwaitsKey
  <2> QED
    BY <1>2, <2>3, <2>4, <2>5 DEF Frame
<1> QED
  BY <1>5, <1>6

LEMMA ReceivedSeqs ==
    ASSUME StreamTypeOK, NEW m \in BOOLEAN,
           \A i \in 1..Len(frames) : frames[i].kind = "seq" => ~frames[i].half
    PROVE  \A i \in 1..Len(frames) : Received(m)[i].kind = "seq" => ~Received(m)[i].half
BY ReceivedType, ReceivedHalf DEF StreamTypeOK, Frame

\* A node arrives: the pending keys and the anchors follow the stream.
LEMMA NodePends ==
    ASSUME IInv, PendingInv, error = "none", StreamTypeOK, NEW v \in Value, NEW m \in BOOLEAN,
           frames' = Received(m), PendChange(v, heap, FALSE), AtKey => v # None,
           stack' = stack, \A n \in Names : anchors'[n] # None
    PROVE  PendingInv'
<1>1. Len(frames') = Len(frames)
  BY ReceivedType
<1>2. \A i \in 1..Len(frames') : frames'[i].kind = "seq" => ~frames'[i].half
  BY <1>1, ReceivedSeqs DEF PendingInv
<1>3. \A i \in 1..Len(stack) : (pending_key'[i + 1] # None) <=> Received(m)[i].half
  BY PendsWithStream
<1> QED
  BY <1>2, <1>3 DEF PendingInv, PendingMatchesStream

\* A refused event leaves nothing to match.
LEMMA RaisedPends ==
    ASSUME PendingInv, Raised,
           \A i \in 1..Len(frames') : frames'[i].kind = "seq" => ~frames'[i].half
    PROVE  PendingInv'
BY DEF PendingInv, PendingMatchesStream, Raised

LEMMA PendingStep ==
    ASSUME NoNullKeys, IInv, PendingInv, [Next]_vars
    PROVE  PendingInv'
<1>1. /\ StreamTypeOK /\ \A n \in Names : anchors[n] # None
      /\ \A i \in 1..Len(frames) : frames[i].kind = "seq" => ~frames[i].half
  BY DEF IInv, TypeOK, PendingInv
<1>2. ASSUME NEW m \in BOOLEAN
      PROVE  /\ Len(Received(m)) = Len(frames)
             /\ \A i \in 1..Len(Received(m)) :
                   Received(m)[i].kind = "seq" => ~Received(m)[i].half
  BY <1>1, ReceivedType, ReceivedSeqs
<1>3. anchors \in [Names -> Value \cup {Absent}]
  BY Types DEF IInv
<1>4. ASSUME NEW s \in KeyScalars \cup ValueScalars, NEW n \in Names \cup {NoName},
             ScalarNode(s, n), Scalar(s, n)
      PROVE  PendingInv'
  <2> DEFINE m == AtKey /\ s.tag = "merge"
  <2>1. /\ m \in BOOLEAN /\ frames' = Received(m) /\ error = "none"
        /\ AtKey => s \in KeyScalars
        /\ n # NoName => s \in AnchorScalars
    BY <1>4 DEF ScalarNode, Scalar
  <2>2. s.val \in Value /\ (AtKey => s.val # None) /\ (n # NoName => s.val # None)
    BY <2>1, StreamAssumption DEF Value, NoNullKeys
  <2> HIDE DEF m
  <2>3. CASE Raised
    BY <1>2, <2>1, <2>3, RaisedPends
  <2>4. CASE Placed(s.val, s.tag) /\ anchors' = Bind(n, s.val)
    <3>1. \A x \in Names : anchors'[x] # None
      BY <1>1, <1>3, <2>2, <2>4 DEF Bind
    <3> QED
      BY <1>1, <2>1, <2>2, <2>4, <3>1, NodePends DEF Placed
  <2> QED
    BY <1>4, <2>3, <2>4, ScalarKind
<1>5. ASSUME NEW n \in Names, AliasNode, Alias(n)
      PROVE  PendingInv'
  <2>1. frames' = Received(FALSE) /\ error = "none"
    BY <1>5 DEF AliasNode, Alias
  <2>2. CASE Raised
    BY <1>2, <2>1, <2>2, RaisedPends
  <2>3. CASE anchors[n] \in Value /\ Placed(anchors[n], "str") /\ UNCHANGED anchors
    BY <1>1, <2>1, <2>3, NodePends DEF Placed
  <2> QED
    BY <1>5, <2>2, <2>3, AliasKind
<1>6. ASSUME NEW kind \in {"map", "seq"}, NEW tag \in CollTags,
             NEW n \in Names \cup {NoName}, NEW a \in Addr,
             CollectionStart(kind), Start(a, kind, tag, n)
      PROVE  PendingInv'
  <2>1. /\ Len(frames') = Len(frames) + 1 /\ ~frames'[Len(frames) + 1].half
        /\ \A i \in 1..Len(frames) : frames'[i] = Received(FALSE)[i]
        /\ error = "none"
    <3>1. frames'[Len(frames) + 1] = [kind |-> kind, half |-> FALSE, merge |-> FALSE]
      BY <1>1, <1>6, StartStep
    <3>2. frames'[Len(frames) + 1].half = FALSE
      BY <3>1
    <3>3. error = "none"
      BY <1>6 DEF Start
    <3>4. /\ Len(frames') = Len(frames) + 1
          /\ \A i \in 1..Len(frames) : frames'[i] = Received(FALSE)[i]
      BY <1>1, <1>6, StartStep
    <3> QED
      BY <3>2, <3>3, <3>4
  <2>2. Len(frames) \in Nat
    BY <1>1 DEF StreamTypeOK
  <2>3. \A i \in 1..Len(frames) + 1 : i = Len(frames) + 1 \/ i \in 1..Len(frames)
    BY <2>2
  <2>4. \A i \in 1..Len(frames') : frames'[i].kind = "seq" => ~frames'[i].half
    BY <1>2, <2>1, <2>3
  <2>5. CASE Raised
    BY <2>4, <2>5, RaisedPends
  <2>6. ASSUME NEW K \in {"list", "dict", "set"}, NEW mode \in Modes,
               Opened(a, K, mode), anchors' = Bind(n, a)
        PROVE  PendingInv'
    <3>1. a \in Value /\ a # None
      BY StreamAssumption, AddrAssumption DEF Value
    <3>2. \A x \in Names : anchors'[x] # None
      BY <1>1, <1>3, <2>6, <3>1 DEF Bind
    <3>3. \A i \in 1..Len(stack) : (pending_key'[i + 1] # None) <=> Received(FALSE)[i].half
      BY <2>1, <2>6, <3>1, PendsWithStream DEF Opened
    <3>4. /\ Len(stack) = Len(frames) /\ Len(stack') = Len(frames) + 1
          /\ pending_key'[Len(frames) + 2] = None
      BY <2>1, <2>6, Parallel, Types, AppendFacts DEF IInv, Opened, PendChange
    <3>5. PendingMatchesStream'
      <4>1. ASSUME NEW i \in 1..Len(frames) + 1
            PROVE  (pending_key'[i + 1] # None) <=> frames'[i].half
        <5>1. CASE i = Len(frames) + 1
          <6>1. i + 1 = Len(frames) + 2
            BY <2>2, <5>1
          <6> QED
            BY <2>1, <3>4, <5>1, <6>1
        <5>2. CASE i \in 1..Len(frames)
          BY <2>1, <3>3, <3>4, <5>2
        <5> QED
          BY <2>3, <5>1, <5>2
      <4> QED
        BY <3>4, <4>1 DEF PendingMatchesStream
    <3> QED
      BY <2>4, <3>2, <3>5 DEF PendingInv
  <2> QED
    BY <1>6, <2>5, <2>6, StartKind
<1>7. ASSUME CollectionEnd, End
      PROVE  PendingInv'
  <2>1. /\ Len(frames) > 0 /\ Len(frames') = Len(frames) - 1 /\ Len(frames) \in Nat
        /\ \A i \in 1..Len(frames) - 1 : frames'[i] = frames[i]
        /\ error = "none"
    BY <1>1, <1>7, EndStep DEF End, StreamTypeOK
  <2>2. \A i \in 1..Len(frames') : frames'[i].kind = "seq" => ~frames'[i].half
    BY <1>1, <2>1
  <2>3. CASE Raised
    BY <2>2, <2>3, RaisedPends
  <2>4. CASE Closed
    <3>1. /\ Len(stack) = Len(frames) /\ Len(pending_key) = Len(frames) + 1
          /\ stack \in Seq(Addr) /\ stack # <<>>
          /\ pending_key \in Seq(Value) /\ pending_key # <<>>
      BY <2>1, <2>4, Parallel, Types DEF IInv, Closed
    <3>2. /\ Len(stack') = Len(frames) - 1
          /\ \A i \in 1..Len(pending_key) - 1 : pending_key'[i] = pending_key[i]
      BY <2>4, <3>1, PopFacts DEF Closed
    <3>3. \A i \in 1..Len(frames) - 1 :
             /\ i \in 1..Len(stack) /\ i + 1 \in 1..Len(pending_key) - 1
      BY <2>1, <3>1
    <3>4. \A i \in 1..Len(stack) : (pending_key[i + 1] # None) <=> frames[i].half
      BY <2>1 DEF PendingInv, PendingMatchesStream
    <3>5. PendingMatchesStream'
      BY <2>1, <3>2, <3>3, <3>4 DEF PendingMatchesStream
    <3>6. UNCHANGED anchors
      BY <1>7 DEF End, Close, Raise, Settle
    <3> QED
      BY <2>2, <3>5, <3>6 DEF PendingInv
  <2> QED
    BY <1>7, <2>3, <2>4, EndKind
<1>8. ASSUME DocumentStart, Document
      PROVE  PendingInv'
  <2>1. \A n \in Names : anchors'[n] # None
    BY <1>8, StreamAssumption, AddrAssumption DEF Document, BeginDocument
  <2>2. UNCHANGED <<frames, stack, pending_key, error>>
    BY <1>8 DEF DocumentStart, Document, BeginDocument
  <2> QED
    BY <2>1, <2>2 DEF PendingInv, PendingMatchesStream
<1>9. CASE UNCHANGED vars
  BY <1>9 DEF vars, streamVars, walkVars, PendingInv, PendingMatchesStream
<1> QED
  BY <1>4, <1>5, <1>6, <1>7, <1>8, <1>9
  DEF Next, ReadScalar, ReadStart, ReadEnd, ReadDocument, ReadAlias

(* A key is pending exactly in the mappings the stream has given a key and not *)
(* its value, for every stream without a null as a key, an alias's included: *)
(* load_all tells a waiting key by its not being None.                      *)
THEOREM RecordPendingMatches == NoNullKeys => (Spec => []PendingMatchesStream)
<1> SUFFICES ASSUME NoNullKeys PROVE Spec => []PendingMatchesStream
  OBVIOUS
<1>1. Init => PendingInv
  BY StreamAssumption, AddrAssumption
  DEF Init, StreamInit, PlacementInit, PendingInv, PendingMatchesStream
<1>2. IInv /\ PendingInv /\ [Next]_vars => PendingInv'
  BY PendingStep
<1>3. PendingInv => PendingMatchesStream
  BY DEF PendingInv
<1> QED
  BY <1>1, <1>2, <1>3, Inductive, PTL DEF Spec

-----------------------------------------------------------------------------
(* Induction over the numbers, in the form a set takes it: from the           *)
(* library's proof that less-than is well founded.                           *)
LessThan == {p \in Nat \X Nat : p[1] < p[2]}

LEMMA LeastElement ==
    ASSUME NEW T \in SUBSET Nat, T # {}
    PROVE  \E x \in T : \A y \in T : ~(y < x)
<1>1. IsWellFoundedOn(LessThan, Nat)
  BY NatLessThanWellFounded DEF OpToRel, LessThan
<1>2. \E x \in T : \A y \in T : ~(<<y, x>> \in LessThan)
  BY <1>1, WFMin
<1> QED
  BY <1>2 DEF LessThan

LEMMA SetInduction ==
    ASSUME NEW S, 0 \in S, \A n \in Nat : n \in S => n + 1 \in S
    PROVE  Nat \subseteq S
<1> SUFFICES ASSUME Nat \ S # {} PROVE FALSE
  OBVIOUS
<1>1. PICK x \in Nat \ S : \A y \in Nat \ S : ~(y < x)
  BY LeastElement
<1>2. x - 1 \in Nat /\ x - 1 < x
  BY <1>1
<1>3. x - 1 \in S
  BY <1>1, <1>2
<1> QED
  BY <1>1, <1>2, <1>3

-----------------------------------------------------------------------------
(* Reachability: the least set that holds S and everything it leads to. *)

Onward(h, g) == g \cup UNION {Refs(h[x]) : x \in g}

\* The steps of a search, up to its n-th.
IsSearch(g, h, S, n) ==
    g = [m \in 0..n |-> IF m = 0 THEN S ELSE g[m - 1] \cup UNION {Refs(h[x]) : x \in g[m - 1]}]

LEMMA SearchExists ==
    ASSUME NEW h, NEW S, NEW n \in Nat
    PROVE  \E g : IsSearch(g, h, S, n)
<1> DEFINE Has == {m \in Nat : \E g : IsSearch(g, h, S, m)}
<1>1. 0 \in Has
  <2> DEFINE g == [m \in 0..0 |-> S]
  <2>1. IsSearch(g, h, S, 0)
    BY DEF IsSearch
  <2> QED
    BY <2>1
<1>2. ASSUME NEW m \in Nat, m \in Has PROVE m + 1 \in Has
  <2>1. PICK g : IsSearch(g, h, S, m)
    BY <1>2
  <2> DEFINE last == Onward(h, g[m])
             e == [k \in 0..m + 1 |-> IF k = m + 1 THEN last ELSE g[k]]
  <2>2. ASSUME NEW k \in 0..m + 1
        PROVE  e[k] = IF k = 0 THEN S
                      ELSE e[k - 1] \cup UNION {Refs(h[x]) : x \in e[k - 1]}
    <3>1. CASE k = 0
      <4>1. g[0] = S /\ e[0] = g[0]
        BY <1>2, <2>1 DEF IsSearch
      <4> QED
        BY <3>1, <4>1
    <3>2. CASE k = m + 1
      BY <1>2, <3>2 DEF Onward
    <3>3. CASE k # 0 /\ k # m + 1
      <4>1. k \in 0..m /\ k - 1 \in 0..m
        BY <1>2, <3>3
      <4>2. e[k] = g[k] /\ e[k - 1] = g[k - 1]
        BY <4>1
      <4>3. g[k] = g[k - 1] \cup UNION {Refs(h[x]) : x \in g[k - 1]}
        BY <2>1, <3>3, <4>1 DEF IsSearch
      <4> QED
        BY <3>3, <4>2, <4>3
    <3> QED
      BY <3>1, <3>2, <3>3
  <2>3. IsSearch(e, h, S, m + 1)
    <3>1. e = [k \in 0..m + 1 |-> e[k]]
      OBVIOUS
    <3> HIDE DEF e
    <3> QED
      BY <2>2, <3>1 DEF IsSearch
  <2> QED
    BY <2>3
<1>3. Nat \subseteq Has
  <2> HIDE DEF Has
  <2> QED
    BY <1>1, <1>2, SetInduction
<1> QED
  BY <1>3

LEMMA ReachableSearch ==
    ASSUME NEW h, NEW S
    PROVE  \E g : IsSearch(g, h, S, Cardinality(Addr)) /\ ReachableIn(h, S) = g[Cardinality(Addr)]
<1>1. Cardinality(Addr) \in Nat
  BY AddrAssumption, FS_CardinalityType
<1>2. \E g : IsSearch(g, h, S, Cardinality(Addr))
  BY <1>1, SearchExists
<1> DEFINE grow == CHOOSE g : IsSearch(g, h, S, Cardinality(Addr))
<1>3. IsSearch(grow, h, S, Cardinality(Addr))
  BY <1>2
<1>4. ReachableIn(h, S) = grow[Cardinality(Addr)]
  BY DEF ReachableIn, IsSearch
<1> QED
  BY <1>3, <1>4

\* T holds everything its containers lead to in heap h.
ClosedIn(T, h) == T \subseteq Addr /\ \A x \in T : Refs(h[x]) \subseteq T

LEMMA ReachableIsClosed ==
    ASSUME NEW h, NEW S \in SUBSET Addr
    PROVE  S \subseteq ReachableIn(h, S) /\ ClosedIn(ReachableIn(h, S), h)
<1> DEFINE N == Cardinality(Addr)
<1>1. N \in Nat /\ IsFiniteSet(Addr)
  BY AddrAssumption, FS_CardinalityType
<1>2. PICK g : IsSearch(g, h, S, N) /\ ReachableIn(h, S) = g[N]
  BY ReachableSearch
<1> HIDE DEF N
<1>3. /\ g[0] = S
      /\ \A n \in 0..N : n # 0 => g[n] = Onward(h, g[n - 1])
  BY <1>1, <1>2 DEF IsSearch, Onward
<1>4. \A c : Refs(c) \subseteq Addr
  BY DEF Refs
<1> DEFINE Good == {n \in Nat : n <= N =>
                       /\ S \subseteq g[n] /\ g[n] \subseteq Addr
                       /\ ClosedIn(g[n], h) \/ Cardinality(g[n]) >= n}
<1>5. 0 \in Good
  <2>1. Cardinality(S) >= 0
    BY <1>1, FS_Subset, FS_CardinalityType
  <2> QED
    BY <1>3, <2>1
<1>6. ASSUME NEW n \in Nat, n \in Good PROVE n + 1 \in Good
  <2> SUFFICES ASSUME n + 1 <= N
               PROVE  /\ S \subseteq g[n + 1] /\ g[n + 1] \subseteq Addr
                      /\ ClosedIn(g[n + 1], h) \/ Cardinality(g[n + 1]) >= n + 1
    BY <1>6
  <2>1. /\ S \subseteq g[n] /\ g[n] \subseteq Addr
        /\ ClosedIn(g[n], h) \/ Cardinality(g[n]) >= n
    BY <1>1, <1>6
  <2>2. g[n + 1] = Onward(h, g[n])
    BY <1>1, <1>3
  <2>3. g[n] \subseteq g[n + 1] /\ g[n + 1] \subseteq Addr
    BY <1>4, <2>1, <2>2 DEF Onward
  <2>4. CASE g[n + 1] = g[n]
    BY <2>1, <2>2, <2>4 DEF ClosedIn, Onward
  <2>5. CASE g[n + 1] # g[n]
    <3>1. ~ClosedIn(g[n], h)
      BY <2>1, <2>2, <2>5 DEF ClosedIn, Onward
    <3>2. IsFiniteSet(g[n + 1]) /\ IsFiniteSet(g[n])
      BY <1>1, <2>1, <2>3, FS_Subset
    <3>3. Cardinality(g[n]) \in Nat /\ Cardinality(g[n + 1]) \in Nat
      BY <3>2, FS_CardinalityType
    <3>4. /\ Cardinality(g[n]) <= Cardinality(g[n + 1])
          /\ Cardinality(g[n]) = Cardinality(g[n + 1]) => g[n + 1] = g[n]
      BY <2>3, <3>2, FS_Subset
    <3>5. Cardinality(g[n]) < Cardinality(g[n + 1])
      BY <2>5, <3>3, <3>4
    <3> QED
      BY <2>1, <2>3, <3>1, <3>3, <3>5
  <2> QED
    BY <2>4, <2>5
<1>7. N \in Good
  <2> HIDE DEF Good
  <2> QED
    BY <1>1, <1>5, <1>6, SetInduction
<1>8. /\ S \subseteq g[N] /\ g[N] \subseteq Addr
      /\ ClosedIn(g[N], h) \/ Cardinality(g[N]) >= N
  BY <1>1, <1>7
<1>9. Cardinality(g[N]) >= N => g[N] = Addr
  BY <1>1, <1>8, FS_Subset, FS_CardinalityType DEF N
<1> QED
  BY <1>2, <1>4, <1>8, <1>9 DEF ClosedIn

LEMMA ReachableIsLeast ==
    ASSUME NEW h, NEW S, NEW T, S \subseteq T, ClosedIn(T, h)
    PROVE  ReachableIn(h, S) \subseteq T
<1> DEFINE N == Cardinality(Addr)
<1>1. N \in Nat
  BY AddrAssumption, FS_CardinalityType
<1>2. PICK g : IsSearch(g, h, S, N) /\ ReachableIn(h, S) = g[N]
  BY ReachableSearch
<1> HIDE DEF N
<1> DEFINE Good == {n \in Nat : n <= N => g[n] \subseteq T}
<1>3. 0 \in Good
  BY <1>1, <1>2 DEF IsSearch
<1>4. ASSUME NEW n \in Nat, n \in Good PROVE n + 1 \in Good
  <2> SUFFICES ASSUME n + 1 <= N PROVE g[n + 1] \subseteq T
    OBVIOUS
  <2>1. g[n] \subseteq T
    BY <1>1, <1>4
  <2>2. g[n + 1] = g[n] \cup UNION {Refs(h[x]) : x \in g[n]}
    BY <1>1, <1>2 DEF IsSearch
  <2> QED
    BY <2>1, <2>2 DEF ClosedIn
<1>5. N \in Good
  <2> HIDE DEF Good
  <2> QED
    BY <1>1, <1>3, <1>4, SetInduction
<1> QED
  BY <1>1, <1>2, <1>5

-----------------------------------------------------------------------------
(* A closed set stays closed when what is put into a container is in it. *)

Within(x, T) == x \in Addr => x \in T

LEMMA AddElemClosed ==
    ASSUME NEW T, NEW h, HeapType(h), ClosedIn(T, h), NEW p \in Addr, NEW x,
           Within(x, T), x \notin Value => Range(x) \cap Addr \subseteq T
    PROVE  ClosedIn(T, AddElem(h, p, x))
<1> SUFFICES ASSUME NEW y \in T PROVE Refs(AddElem(h, p, x)[y]) \subseteq T
  BY DEF ClosedIn
<1>1. y \in Addr /\ Refs(h[y]) \subseteq T
  BY DEF ClosedIn
<1>2. CASE y # p
  BY <1>1, <1>2, AddElemChanges
<1>3. CASE y = p
  <2> DEFINE d == AddElem(h, p, x)[p]
             c == h[p]
  <2>1. d.elems = Append(c.elems, x) /\ d.pairs = c.pairs
    BY AddElemChanges
  <2>2. c.elems \in Seq(Entry)
    BY DEF HeapType, Container
  <2> HIDE DEF c, d
  <2>3. Range(d.elems) = Range(c.elems) \cup {x}
    <3>1. /\ DOMAIN c.elems = 1..Len(c.elems) /\ Len(c.elems) \in Nat
          /\ DOMAIN d.elems = 1..Len(c.elems) + 1
          /\ d.elems[Len(c.elems) + 1] = x
          /\ \A i \in 1..Len(c.elems) : d.elems[i] = c.elems[i]
      BY <2>1, <2>2
    <3> QED
      BY <3>1 DEF Range
  <2>4. Refs(d) \subseteq Refs(c) \cup ({x} \cap Addr)
                          \cup UNION {Range(e) \cap Addr : e \in {x} \ Value}
    BY <2>1, <2>3 DEF Refs, ListRefs
  <2> QED
    BY <1>1, <1>3, <2>4 DEF Within, c, d
<1> QED
  BY <1>2, <1>3

LEMMA AddPairClosed ==
    ASSUME NEW T, NEW h, HeapType(h), ClosedIn(T, h), NEW p \in Addr, NEW k \in Atoms,
           NEW v, Within(v, T)
    PROVE  ClosedIn(T, AddPair(h, p, k, v))
<1> SUFFICES ASSUME NEW y \in T PROVE Refs(AddPair(h, p, k, v)[y]) \subseteq T
  BY DEF ClosedIn
<1>1. y \in Addr /\ Refs(h[y]) \subseteq T
  BY DEF ClosedIn
<1>2. CASE y # p
  <2>1. AddPair(h, p, k, v)[y] = h[y]
    BY <1>1, <1>2 DEF AddPair, HeapType
  <2> QED
    BY <1>1, <2>1
<1>3. CASE y = p
  <2> DEFINE d == AddPair(h, p, k, v)[p]
             c == h[p]
             w == IF h[p].kind = "set" THEN None ELSE v
  <2>1. d.elems = c.elems /\ d.pairs = [c.pairs EXCEPT ![k] = w]
    BY AddPairChanges
  <2>2. c.pairs \in [Atoms -> Value \cup {Absent}]
    BY DEF HeapType, Container
  <2>3. Within(w, T)
    BY StreamAssumption, AddrAssumption DEF Within
  <2> HIDE DEF c, d, w
  <2>4. Range(d.pairs) \subseteq Range(c.pairs) \cup {w}
    BY <2>1, <2>2 DEF Range
  <2>5. Refs(d) \subseteq Refs(c) \cup ({w} \cap Addr)
    BY <2>1, <2>4 DEF Refs
  <2> QED
    BY <1>1, <1>3, <2>3, <2>5 DEF Within, c, d
<1> QED
  BY <1>2, <1>3

LEMMA PairsWithin ==
    ASSUME NEW T, NEW h, HeapType(h), ClosedIn(T, h), NEW x \in T, NEW k \in Atoms
    PROVE  Within(h[x].pairs[k], T)
<1>1. h[x].pairs[k] \in Range(h[x].pairs)
  BY DEF HeapType, Container, Range, ClosedIn
<1>2. Refs(h[x]) = (ListRefs(h[x].elems) \cup Range(h[x].pairs)) \cap Addr
  BY DEF Refs
<1> QED
  BY <1>1, <1>2 DEF Within, ClosedIn

LEMMA PairOfWithin ==
    ASSUME NEW T, NEW h, HeapType(h), ClosedIn(T, h), NEW x \in T,
           Cardinality(Keys(h[x])) = 1
    PROVE  Within(PairOf(h[x]), T) /\ Range(PairOf(h[x])) \cap Addr \subseteq T
<1>1. h[x] \in Container
  BY DEF HeapType, ClosedIn
<1>2. Keys(h[x]) # {}
  BY FS_EmptySet
<1>3. PICK k \in Atoms : PairOf(h[x]) = <<k, h[x].pairs[k]>>
  BY <1>2 DEF PairOf, Keys
<1>4. Within(h[x].pairs[k], T)
  BY PairsWithin
<1>5. Range(PairOf(h[x])) = {k, h[x].pairs[k]}
  BY <1>3 DEF Range
<1>6. PairOf(h[x]) \notin Value
  BY <1>1, PairIsNoValue
<1> QED
  BY <1>4, <1>5, <1>6, AddrAssumption DEF Within, Value

LEMMA MergeClosed ==
    ASSUME NEW T, NEW h, HeapType(h), ClosedIn(T, h), NEW t \in Addr, NEW v \in T,
           Mergeable(h, v)
    PROVE  ClosedIn(T, Merge(h, t, v))
<1> SUFFICES ASSUME NEW y \in T PROVE Refs(Merge(h, t, v)[y]) \subseteq T
  BY DEF ClosedIn
<1>1. y \in Addr /\ Refs(h[y]) \subseteq T /\ v \in Addr
  BY DEF ClosedIn
<1>2. CASE y # t
  BY <1>1, <1>2, MergeChanges
<1>3. CASE y = t
  <2> DEFINE d == Merge(h, t, v)[t]
             c == h[t]
  <2>1. \A i \in DOMAIN Sources(h, v) : Sources(h, v)[i] \in T
    <3>1. CASE IsDict(h, v)
      <4>1. Sources(h, v) = <<v>>
        BY <3>1 DEF Sources
      <4> QED
        BY <4>1
    <3>2. CASE ~IsDict(h, v)
      <4>1. /\ Sources(h, v) = h[v].elems
            /\ \A i \in DOMAIN h[v].elems : h[v].elems[i] \in Addr
        BY <3>2 DEF Sources, Mergeable, IsDict
      <4>2. \A i \in DOMAIN h[v].elems : h[v].elems[i] \in Refs(h[v])
        BY <4>1 DEF Refs, ListRefs, Range
      <4> QED
        BY <4>1, <4>2 DEF ClosedIn
    <3> QED
      BY <3>1, <3>2
  <2>2. ASSUME NEW k \in Atoms
        PROVE  Within(FirstWith(h, Sources(h, v), k), T)
    <3> DEFINE srcs == Sources(h, v)
               has == {i \in DOMAIN srcs : k \in Keys(h[srcs[i]])}
               first == {i \in has : \A j \in has : i <= j}
               pick == CHOOSE i \in first : TRUE
    <3>1. FirstWith(h, srcs, k) = IF first = {} THEN Absent ELSE h[srcs[pick]].pairs[k]
      BY DEF FirstWith
    <3>2. first = {} \/ srcs[pick] \in T
      BY <2>1
    <3> HIDE DEF first, pick, srcs
    <3>3. CASE first = {}
      BY <3>1, <3>3, AddrAssumption DEF Within, srcs
    <3>4. CASE first # {}
      BY <3>1, <3>2, <3>4, PairsWithin DEF srcs
    <3> QED
      BY <3>3, <3>4
  <2>3. ASSUME NEW k \in Atoms
        PROVE  Within(MergedPairs(h, t, v)[k], T)
    <3>1. Within(h[t].pairs[k], T)
      BY <1>3, PairsWithin
    <3>2. Within(None, T)
      BY StreamAssumption, AddrAssumption DEF Within
    <3> QED
      BY <2>2, <3>1, <3>2 DEF MergedPairs
  <2>4. d.elems = c.elems /\ d.pairs = MergedPairs(h, t, v)
    <3>1. Merge(h, t, v) = [h EXCEPT ![t] = [h[t] EXCEPT !.pairs = MergedPairs(h, t, v)]]
      BY DEF Merge
    <3> DEFINE m == MergedPairs(h, t, v)
    <3> HIDE DEF m
    <3> QED
      BY <3>1 DEF HeapType, Container, m
  <2>5. DOMAIN MergedPairs(h, t, v) = Atoms
    BY DEF MergedPairs
  <2> HIDE DEF c, d
  <2>6. Range(d.pairs) \cap Addr \subseteq T
    BY <2>3, <2>4, <2>5 DEF Range, Within
  <2>7. Refs(d) \subseteq Refs(c) \cup (Range(d.pairs) \cap Addr)
    BY <2>4 DEF Refs
  <2> QED
    BY <1>1, <1>3, <2>6, <2>7 DEF c, d
<1> QED
  BY <1>2, <1>3

LEMMA PlaceClosed ==
    ASSUME TypeOK, NEW T, NEW h, HeapType(h), ClosedIn(T, h),
           NEW v \in Value, Within(v, T), NEW tag \in Tags,
           NEW push \in BOOLEAN, NEW later \in BOOLEAN,
           Len(pending_key) = Len(stack) + 1, Len(pending_tag) = Len(stack) + 1,
           InOmap => ~InMapping(h),
           Refusal(v, h, later) = "none",
           Place(v, tag, h, push, later)
    PROVE  ClosedIn(T, heap')
<1>1. Key \in Value
  BY StreamAssumption DEF TypeOK, PlacementTypeOK, Value, Key, Top
<1>2. stack # <<>> => Parent \in Addr
  BY TopFacts DEF Parent, TypeOK, PlacementTypeOK
<1>3. CASE heap' = h
  BY <1>3
<1>4. CASE PlaceElement(v, h, push)
  BY <1>2, <1>4, AddElemClosed DEF PlaceElement
<1>5. CASE PlaceMember(v, h, push)
  <2>1. heap' = AddElem(h, Parent, PairOf(h[v])) /\ InOmap /\ Parent \in Addr
    BY <1>2, <1>5 DEF PlaceMember, InOmap
  <2>2. v \in Addr /\ Cardinality(Keys(h[v])) = 1
    BY <2>1 DEF Refusal, SinglePair, IsDict
  <2>3. Within(PairOf(h[v]), T) /\ Range(PairOf(h[v])) \cap Addr \subseteq T
    BY <2>2, PairOfWithin DEF Within
  <2> QED
    BY <2>1, <2>3, AddElemClosed
<1>6. CASE PlaceValue(v, h, push)
  <2>1. /\ heap' = AddPair(h, Parent, Key, v) /\ InMapping(h) /\ stack # <<>>
        /\ ~AwaitsKey /\ ~MergeAwaitsValue
    BY <1>6 DEF PlaceValue, InMapping
  <2>2. Key \in Atoms /\ Parent \in Addr
    BY <1>1, <1>2, <2>1 DEF Refusal, Value
  <2> QED
    BY <2>1, <2>2, AddPairClosed
<1>7. CASE ~later /\ MergeNow(v, h, push)
  <2>1. heap' = Merge(h, Parent, v) /\ InMapping(h) /\ MergeAwaitsValue /\ Parent \in Addr
    BY <1>2, <1>7 DEF MergeNow, InMapping
  <2>2. Mergeable(h, v)
    BY <1>7, <2>1, StreamAssumption DEF Refusal, AwaitsKey, MergeAwaitsValue
  <2>3. v \in T
    BY <2>2 DEF Mergeable, IsDict, IsList, Within
  <2> QED
    BY <2>1, <2>2, <2>3, MergeClosed
<1> QED
  BY <1>3, <1>4, <1>5, <1>6, <1>7 DEF Place, PlaceRoot, PlaceKey, MergeLater

-----------------------------------------------------------------------------
(* Documents share nothing. *)

\* The values the document being built can still reach for.
Current ==
    ((IF docs = <<>> THEN {} ELSE {Top(docs)})
        \cup Range(stack) \cup Range(pending_key) \cup Range(anchors)) \cap Addr

RootOf(i) == {docs[i]} \cap Addr

SharingInv ==
    /\ DocumentsShareNothing
    /\ \A i \in 1..Len(docs) - 1 : ReachableIn(heap, RootOf(i)) \cap ReachableIn(heap, Current) = {}
    /\ pending_key[1] = None

LEMMA ReachableMonotone ==
    ASSUME NEW h, NEW S \in SUBSET Addr, NEW T \in SUBSET Addr, S \subseteq T
    PROVE  ReachableIn(h, S) \subseteq ReachableIn(h, T)
BY ReachableIsClosed, ReachableIsLeast

LEMMA ReachableEmpty == \A h : ReachableIn(h, {}) = {}
BY ReachableIsLeast DEF ClosedIn

\* A document that is done is live, and out of reach of the one being built.
LEMMA DoneDocument ==
    ASSUME IInv, SharingInv, NEW i \in 1..Len(docs) - 1
    PROVE  /\ ReachableIn(heap, RootOf(i)) \cap Range(stack) = {}
           /\ ReachableIn(heap, RootOf(i)) \cap Free = {}
           /\ ReachableIn(heap, RootOf(i)) \subseteq Addr
<1>1. docs \in Seq(Value) /\ \A j \in 1..Len(stack) : stack[j] \in Addr
  BY Types DEF IInv
<1>2. Range(stack) \subseteq Current /\ Current \in SUBSET Addr
  BY <1>1, Types DEF Current, IInv, Range
<1>3. RootOf(i) \subseteq Roots /\ Roots \in SUBSET Addr
  BY <1>1 DEF RootOf, Roots, Range
<1>4. ReachableIn(heap, RootOf(i)) \subseteq Live
  BY <1>3, ReachableMonotone DEF Live, Reachable
<1>5. Range(stack) \subseteq ReachableIn(heap, Current)
  BY <1>2, ReachableIsClosed
<1>6. ReachableIn(heap, RootOf(i)) \subseteq Addr
  BY <1>3, ReachableIsClosed DEF ClosedIn
<1> QED
  BY <1>4, <1>5, <1>6 DEF SharingInv, Free

\* Nothing that happens in a document changes what an earlier one reaches.
LEMMA DoneStays ==
    ASSUME IInv, SharingInv, [Next]_vars, NEW i \in 1..Len(docs) - 1
    PROVE  ReachableIn(heap', RootOf(i)) \subseteq ReachableIn(heap, RootOf(i))
<1> DEFINE Q == ReachableIn(heap, RootOf(i))
<1>1. RootOf(i) \subseteq Q /\ ClosedIn(Q, heap)
  BY ReachableIsClosed DEF RootOf
<1>2. Q \cap Range(stack) = {} /\ Q \cap Free = {} /\ Q \subseteq Addr
  BY DoneDocument
<1> HIDE DEF Q
<1>3. \A x \in Q : heap'[x] = heap[x]
  BY <1>2, FinalStep
<1>4. ClosedIn(Q, heap')
  BY <1>1, <1>3 DEF ClosedIn
<1>5. ReachableIn(heap', RootOf(i)) \subseteq Q
  BY <1>1, <1>4, ReachableIsLeast
<1> QED
  BY <1>5 DEF Q

\* The invariant after a step that reaches for nothing but what the document
\* had in reach, and containers that were free.
LEMMA SharingFrom ==
    ASSUME IInv, IInv', SharingInv, [Next]_vars, NEW New \in SUBSET Free,
           docs' \in Seq(Value), Len(docs') = Len(docs), Len(docs) \in Nat,
           \A i \in 1..Len(docs) - 1 : docs'[i] = docs[i],
           pending_key'[1] = None,
           ReachableIn(heap', Current') \subseteq ReachableIn(heap, Current) \cup New
    PROVE  SharingInv'
<1> DEFINE D == Len(docs)
<1>1. ASSUME NEW i \in 1..D - 1
      PROVE  /\ ReachableIn(heap', RootOf(i)') \subseteq ReachableIn(heap, RootOf(i))
             /\ ReachableIn(heap, RootOf(i)) \cap (ReachableIn(heap, Current) \cup New) = {}
  <2>1. RootOf(i)' = RootOf(i)
    BY DEF RootOf
  <2> QED
    BY <2>1, DoneStays, DoneDocument DEF SharingInv
<1>2. \A i \in 1..D - 1 : ReachableIn(heap', RootOf(i)') \cap ReachableIn(heap', Current') = {}
  BY <1>1
<1>3. D > 0 => ReachableIn(heap', RootOf(D)') \subseteq ReachableIn(heap', Current')
  <2> SUFFICES ASSUME D > 0
               PROVE  ReachableIn(heap', RootOf(D)') \subseteq ReachableIn(heap', Current')
    OBVIOUS
  <2>1. RootOf(D)' \subseteq Current' /\ Current' \in SUBSET Addr
    BY DEF RootOf, Current, Top
  <2> QED
    BY <2>1, ReachableMonotone
<1>4. ASSUME NEW i \in 1..D, NEW j \in 1..D, i # j
      PROVE  ReachableIn(heap', RootOf(i)') \cap ReachableIn(heap', RootOf(j)') = {}
  <2>1. CASE i # D /\ j # D
    <3>1. i \in 1..D - 1 /\ j \in 1..D - 1 /\ i \in 1..D /\ j \in 1..D
      BY <2>1
    <3>2. ReachableIn(heap, RootOf(i)) \cap ReachableIn(heap, RootOf(j)) = {}
      BY <1>4 DEF SharingInv, DocumentsShareNothing, Reachable, RootOf
    <3> QED
      BY <1>1, <3>1, <3>2
  <2>2. CASE i = D \/ j = D
    <3>1. (i = D /\ j \in 1..D - 1) \/ (j = D /\ i \in 1..D - 1)
      BY <1>4, <2>2
    <3> QED
      BY <1>2, <1>3, <3>1
  <2> QED
    BY <2>1, <2>2
<1>5. DocumentsShareNothing'
  BY <1>4 DEF DocumentsShareNothing, Reachable, RootOf
<1> QED
  BY <1>2, <1>5 DEF SharingInv, RootOf

\* Where the root of a document comes from.
LEMMA PlaceDocs ==
    ASSUME NEW h, NEW v, NEW tag, NEW push \in BOOLEAN, NEW later \in BOOLEAN,
           Place(v, tag, h, push, later)
    PROVE  docs' = docs \/ (stack = <<>> /\ docs' = SetTop(docs, v))
BY DEF Place, PlaceRoot, PlaceElement, PlaceMember, PlaceKey, PlaceValue, MergeNow, MergeLater

\* A node that reaches no further than T leaves the document within T.
LEMMA NodeReaches ==
    ASSUME IInv, IInv', error = "none", error' = "none", NodeAllowed,
           NEW T, ClosedIn(T, heap'), Current \subseteq T,
           NEW v \in Value, Within(v, T), NEW push \in BOOLEAN, PendChange(v, heap, push),
           docs' = docs \/ (stack = <<>> /\ docs' = SetTop(docs, v)),
           Len(stack') = Len(stack) + (IF push THEN 1 ELSE 0), Range(stack') \subseteq T,
           \A n \in Names : anchors'[n] = anchors[n] \/ anchors'[n] = v
    PROVE  /\ ReachableIn(heap', Current') \subseteq T
           /\ Len(docs') = Len(docs) /\ \A i \in 1..Len(docs) - 1 : docs'[i] = docs[i]
<1>1. /\ docs \in Seq(Value) /\ pending_key \in Seq(Value) /\ None \in Value
      /\ Len(stack) \in Nat /\ Len(pending_key) = Len(stack) + 1
      /\ anchors \in [Names -> Value \cup {Absent}]
  BY Parallel, Types DEF IInv
<1>2. /\ pending_key' \in Seq(Value) /\ Len(pending_key') = Len(stack') + 1
      /\ anchors' \in [Names -> Value \cup {Absent}]
  BY DEF IInv, TypeOK, PlacementTypeOK, Aligned
<1>3. None \notin Addr
  BY StreamAssumption, AddrAssumption
<1>4. /\ Len(docs') = Len(docs) /\ \A i \in 1..Len(docs) - 1 : docs'[i] = docs[i]
      /\ docs' # <<>> => docs # <<>> /\ (Top(docs') = Top(docs) \/ Top(docs') = v)
  <2>1. CASE docs' = docs
    BY <2>1
  <2>2. CASE stack = <<>> /\ docs' = SetTop(docs, v)
    <3>1. docs # <<>>
      <4>1. frames = <<>>
        BY <2>2, Parallel DEF IInv, TypeOK, StreamTypeOK
      <4> QED
        BY <4>1 DEF IInv, RootPlace, NodeAllowed
    <3>2. /\ Len(docs') = Len(docs) /\ docs'[Len(docs)] = v
          /\ \A i \in 1..Len(docs) - 1 : docs'[i] = docs[i]
      <4>1. docs \in Seq(Value) /\ docs # <<>> /\ v \in Value /\ docs' = SetTop(docs, v)
        BY <1>1, <2>2, <3>1
      <4>2. /\ Len(SetTop(docs, v)) = Len(docs) /\ SetTop(docs, v)[Len(docs)] = v
            /\ \A i \in 1..Len(docs) - 1 : SetTop(docs, v)[i] = docs[i]
        BY ONLY <4>1 DEF SetTop
      <4> QED
        BY ONLY <4>1, <4>2
    <3> QED
      BY <3>1, <3>2 DEF Top
  <2> QED
    BY <2>1, <2>2
<1>5. ASSUME NEW i \in 1..Len(pending_key')
      PROVE  pending_key'[i] \in Range(pending_key) \cup {v, None}
  <2>1. \A j \in 1..Len(stack) + 1 : pending_key[j] \in Range(pending_key)
    BY <1>1 DEF Range
  <2>2. Key \in Range(pending_key)
    BY <1>1, <2>1 DEF Key, Top
  <2>3. i \in 1..Len(stack) \/ i = Len(stack) + 1 \/ (push /\ i = Len(stack) + 2)
    BY <1>1, <1>2
  <2> QED
    BY <1>1, <2>1, <2>2, <2>3 DEF PendChange
<1>6. Range(pending_key') \subseteq Range(pending_key) \cup {v, None}
  BY <1>2, <1>5 DEF Range
<1>7. Range(anchors') \subseteq Range(anchors) \cup {v}
  BY <1>1, <1>2 DEF Range
<1>8. Current' \subseteq T
  BY <1>3, <1>4, <1>6, <1>7 DEF Current, Within
<1>9. ReachableIn(heap', Current') \subseteq T
  BY <1>8, ReachableIsLeast
<1> QED
  BY <1>4, <1>9

LEMMA NodeSentinel ==
    ASSUME IInv, error = "none", pending_key[1] = None, NEW v, NEW push \in BOOLEAN,
           PendChange(v, heap, push)
    PROVE  pending_key'[1] = None
<1>1. Len(stack) \in Nat /\ Len(pending_key) = Len(stack) + 1
  BY Parallel
<1>2. CASE Len(stack) = 0
  <2>1. stack = <<>> /\ Key = pending_key[1]
    BY <1>1, <1>2, Types DEF IInv, Key, Top
  <2> QED
    BY <1>2, <2>1 DEF PendChange, InMapping
<1>3. CASE Len(stack) # 0
  <2>1. 1 \in 1..Len(stack)
    BY <1>1, <1>3
  <2> QED
    BY <2>1 DEF PendChange
<1> QED
  BY <1>2, <1>3

LEMMA CurrentReach ==
    ASSUME IInv
    PROVE  /\ Current \in SUBSET Addr
           /\ Current \subseteq ReachableIn(heap, Current)
           /\ ClosedIn(ReachableIn(heap, Current), heap)
           /\ ReachableIn(heap, Current) \subseteq Live
<1>1. Current \in SUBSET Addr /\ Roots \in SUBSET Addr
  BY DEF Current, Roots
<1>2. docs \in Seq(Value)
  BY Types DEF IInv
<1>3. docs # <<>> => Top(docs) \in Range(docs)
  BY <1>2 DEF Top, Range
<1>4. Current \subseteq Roots
  BY <1>3 DEF Current, Roots
<1> QED
  BY <1>1, <1>4, ReachableIsClosed, ReachableMonotone DEF Live, Reachable

\* A value placed in the document, a scalar or what an alias names.
LEMMA PlacedShares ==
    ASSUME IInv, IInv', SharingInv, [Next]_vars, error = "none", NodeAllowed,
           NEW v \in Value, NEW tag \in Tags, Placed(v, tag),
           Within(v, Current),
           \A n \in Names : anchors'[n] = anchors[n] \/ anchors'[n] = v
    PROVE  SharingInv'
<1> DEFINE T == ReachableIn(heap, Current)
<1>1. Current \subseteq T /\ ClosedIn(T, heap) /\ T \subseteq Live /\ Within(v, T)
  BY CurrentReach DEF Within
<1> HIDE DEF T
<1>2. /\ Place(v, tag, heap, FALSE, FALSE) /\ Refusal(v, heap, FALSE) = "none"
      /\ PendChange(v, heap, FALSE) /\ stack' = stack /\ error' = "none"
  BY DEF Placed
<1>3. ClosedIn(T, heap')
  <2>1. TypeOK
    BY DEF IInv
  <2> QED
    BY <1>1, <1>2, <2>1, Parallel, Types, PlaceClosed
<1>4. docs' = docs \/ (stack = <<>> /\ docs' = SetTop(docs, v))
  BY <1>2, PlaceDocs
<1>5. Range(stack') \subseteq T /\ Len(stack') = Len(stack) + 0
  <2>1. Range(stack) \subseteq Addr /\ Len(stack) \in Nat
    BY Types DEF IInv, Range
  <2>2. Range(stack) \subseteq Current
    BY <2>1 DEF Current
  <2> QED
    BY <1>1, <1>2, <2>1, <2>2
<1>6. /\ ReachableIn(heap', Current') \subseteq T
      /\ Len(docs') = Len(docs) /\ \A i \in 1..Len(docs) - 1 : docs'[i] = docs[i]
  BY <1>1, <1>2, <1>3, <1>4, <1>5, NodeReaches
<1>7. pending_key'[1] = None
  BY <1>2, NodeSentinel DEF SharingInv
<1>8. docs' \in Seq(Value) /\ Len(docs) \in Nat
  BY Types DEF IInv, TypeOK, PlacementTypeOK
<1>9. ReachableIn(heap', Current') \subseteq ReachableIn(heap, Current) \cup {}
  BY <1>6 DEF T
<1> QED
  BY <1>6, <1>7, <1>8, <1>9, SharingFrom

LEMMA EmptyLeadsNowhere == \A kind : Refs(Empty(kind)) = {}
<1> SUFFICES ASSUME NEW kind PROVE Refs(Empty(kind)) = {}
  OBVIOUS
<1>1. Empty(kind).elems = <<>> /\ Empty(kind).pairs = [k \in Atoms |-> Absent]
  BY DEF Empty
<1>2. Range(<<>>) = {} /\ ListRefs(<<>>) = {}
  BY DEF Range, ListRefs
<1>3. Range([k \in Atoms |-> Absent]) \subseteq {Absent}
  BY DEF Range
<1> QED
  BY <1>1, <1>2, <1>3, AddrAssumption DEF Refs

\* A container opens in the document.
LEMMA OpenedShares ==
    ASSUME IInv, IInv', SharingInv, [Next]_vars,
           NEW kind \in {"map", "seq"}, NEW tag \in CollTags,
           NEW n \in Names \cup {NoName}, NEW a \in Addr,
           CollectionStart(kind), Start(a, kind, tag, n), error' = "none"
    PROVE  SharingInv'
<1> DEFINE mode == ModeOf(tag)
           K == KindOf(kind, mode)
           h == Allocate(a, K)
           refusal == IF OpenRefusal(kind, mode) # "none" THEN OpenRefusal(kind, mode)
                      ELSE IF InOmap THEN "none" ELSE Refusal(a, h, TRUE)
           T == ReachableIn(heap, Current) \cup {a}
<1>1. error = "none" /\ a \in Free /\ NodeAllowed
  BY DEF Start, OpenAt, CollectionStart
<1>2. refusal = "none"
  <2>1. refusal # "none" => Raise(refusal) \/ refusal = "none"
    BY DEF Start, OpenAt
  <2> QED
    BY <2>1 DEF Raise, Start, OpenAt
<1>3. /\ anchors' = Bind(n, a)
      /\ IF InOmap
         THEN /\ heap' = h
              /\ Pend(Key, Top(pending_tag), TRUE)
              /\ UNCHANGED <<docs, merge_targets>>
         ELSE Place(a, "str", h, TRUE, TRUE)
      /\ stack' = Append(stack, a)
  BY <1>2 DEF Start, OpenAt
<1>4. ~InOmap => Refusal(a, h, TRUE) = "none"
  BY <1>2
<1> HIDE DEF refusal
<1>5. K \in {"list", "dict", "set"}
  BY DEF KindOf
<1> HIDE DEF mode, K
<1>6. HeapType(h) /\ h[a] = Empty(K) /\ \A x \in Live \cap Addr : x # a => h[x] = heap[x]
  BY <1>5, Types, AllocateFacts, OpensEmpty DEF IInv
<1> HIDE DEF h
<1>7. /\ Current \in SUBSET Addr /\ Current \subseteq ReachableIn(heap, Current)
      /\ ClosedIn(ReachableIn(heap, Current), heap) /\ ReachableIn(heap, Current) \subseteq Live
  BY CurrentReach
<1>8. ClosedIn(T, h) /\ Within(a, T) /\ Current \subseteq T
  BY <1>6, <1>7, EmptyLeadsNowhere DEF ClosedIn, Within
<1> HIDE DEF T
<1>9. InOmap => ~InMapping(h)
  <2>1. stack # <<>> => h[Parent] = heap[Parent]
    <3>1. stack # <<>> => Parent \in Live /\ Parent \in Addr /\ Parent # a
      BY <1>1, Parallel, StackLive, Types DEF IInv, Free
    <3> QED
      BY <1>6, <3>1
  <2> QED
    BY <1>1, <2>1, Parallel DEF InMapping
<1>10. a \in Value /\ "str" \in Tags
  BY DEF Value, Tags
<1>11. ClosedIn(T, heap')
  <2>1. CASE InOmap
    BY <1>3, <1>8, <2>1
  <2>2. CASE ~InOmap
    BY <1>1, <1>3, <1>4, <1>6, <1>8, <1>9, <1>10, <2>2, Parallel, PlaceClosed DEF IInv
  <2> QED
    BY <2>1, <2>2
<1>12. PendChange(a, heap, TRUE)
  BY StartKind DEF Raised, Opened
<1>13. docs' = docs \/ (stack = <<>> /\ docs' = SetTop(docs, a))
  BY <1>3, PlaceDocs
<1>14. Len(stack') = Len(stack) + 1 /\ Range(stack') \subseteq T
  <2>1. /\ stack \in Seq(Addr) /\ Len(stack) \in Nat
        /\ \A i \in 1..Len(stack) : stack[i] \in Range(stack) /\ stack[i] \in Addr
    BY Types DEF IInv, Range
  <2>2. /\ stack' \in Seq(Addr) /\ Len(stack') = Len(stack) + 1 /\ stack'[Len(stack) + 1] = a
        /\ \A i \in 1..Len(stack) : stack'[i] = stack[i]
    BY <1>3, <2>1, AppendFacts
  <2>3. \A i \in 1..Len(stack) : stack[i] \in T
    BY <1>8, <2>1 DEF Current
  <2>4. a \in T
    BY DEF T
  <2>5. \A i \in 1..Len(stack) + 1 : stack'[i] \in T
    BY <2>1, <2>2, <2>3, <2>4
  <2> QED
    BY <2>2, <2>5 DEF Range
<1>15. \A x \in Names : anchors'[x] = anchors[x] \/ anchors'[x] = a
  BY <1>3, Types DEF IInv, Bind
<1>16. /\ ReachableIn(heap', Current') \subseteq T
       /\ Len(docs') = Len(docs) /\ \A i \in 1..Len(docs) - 1 : docs'[i] = docs[i]
  BY <1>1, <1>8, <1>10, <1>11, <1>12, <1>13, <1>14, <1>15, NodeReaches
<1>17. pending_key'[1] = None
  BY <1>1, <1>12, NodeSentinel DEF SharingInv
<1>18. docs' \in Seq(Value) /\ Len(docs) \in Nat
  BY Types DEF IInv, TypeOK, PlacementTypeOK
<1>19. {a} \in SUBSET Free
  BY <1>1
<1>20. ReachableIn(heap', Current') \subseteq ReachableIn(heap, Current) \cup {a}
  BY <1>16 DEF T
<1> QED
  BY <1>16, <1>17, <1>18, <1>19, <1>20, SharingFrom

LEMMA ClosedShares ==
    ASSUME IInv, IInv', SharingInv, [Next]_vars, CollectionEnd, End, error' = "none"
    PROVE  SharingInv'
<1> DEFINE L == Len(stack)
           T == ReachableIn(heap, Current)
<1>1. error = "none" /\ CloseRefusal = "none"
  BY DEF End, Close, Raise
<1>2. /\ heap' = IF Target # Absent THEN Merge(MemberAdded, Target, Parent) ELSE MemberAdded
      /\ stack' = Pop(stack) /\ pending_key' = Pop(pending_key)
      /\ UNCHANGED <<docs, anchors>>
  BY <1>1 DEF End, Close, Settle, PopFrame
<1>3. /\ IsMember => Cardinality(Keys(heap[Parent])) = 1
      /\ Target # Absent => Mergeable(heap, Parent)
  BY <1>1 DEF CloseRefusal
<1>4. Closed
  BY <1>1, EndKind DEF Raised
<1>5. /\ L \in Nat /\ L > 0 /\ stack # <<>> /\ Parent = stack[L] /\ Parent \in Addr
      /\ stack \in Seq(Addr) /\ \A i \in 1..L : stack[i] \in Addr
      /\ pending_key \in Seq(Value) /\ Len(pending_key) = L + 1
      /\ HeapType(heap) /\ merge_targets \in [Addr -> Addr \cup {Absent}]
  BY <1>1, <1>4, Parallel, Types DEF IInv, Closed
<1>6. /\ Current \in SUBSET Addr /\ Current \subseteq T /\ ClosedIn(T, heap) /\ T \subseteq Live
  BY CurrentReach
<1> HIDE DEF T
<1>7. Range(stack) \subseteq T /\ Parent \in T
  BY <1>5, <1>6, ParentOnStack DEF Current, Range
<1>8. IsMember => Below \in Addr
  <2> SUFFICES ASSUME IsMember PROVE Below \in Addr
    OBVIOUS
  <2>1. L > 1
    BY <1>1, <1>5, Parallel DEF IsMember, MembersAbove
  <2>2. Len(Pop(stack)) = L - 1 /\ \A i \in 1..L - 1 : Pop(stack)[i] = stack[i]
    BY <1>5, PopFacts
  <2> QED
    BY <1>5, <2>1, <2>2 DEF Below, Top
<1>9. HeapType(MemberAdded) /\ ClosedIn(T, MemberAdded)
  <2>1. CASE IsMember
    <3>1. heap[Parent] \in Container
      BY <1>5 DEF HeapType
    <3>2. PairOf(heap[Parent]) \in Entry
      BY <1>3, <2>1, <3>1, PairOfType
    <3>3. /\ Within(PairOf(heap[Parent]), T)
          /\ Range(PairOf(heap[Parent])) \cap Addr \subseteq T
      BY <1>3, <1>5, <1>6, <1>7, <2>1, PairOfWithin
    <3> QED
      BY <1>5, <1>6, <1>8, <2>1, <3>2, <3>3, AddElemFacts, AddElemClosed DEF MemberAdded
  <2>2. CASE ~IsMember
    BY <1>5, <1>6, <2>2 DEF MemberAdded
  <2> QED
    BY <2>1, <2>2
<1>10. ClosedIn(T, heap')
  <2>1. CASE Target = Absent
    BY <1>2, <1>9, <2>1
  <2>2. CASE Target # Absent
    <3>1. Target \in Addr
      BY <1>5, <2>2 DEF Target
    <3>2. Mergeable(MemberAdded, Parent)
      <4>1. /\ MemberAdded[Parent] = heap[Parent]
            /\ \A x \in Addr : MemberAdded[x].kind = heap[x].kind
        <5>1. CASE IsMember
          <6>1. Below # Parent
            <7>1. L > 1
              BY <1>1, <1>5, <5>1, Parallel DEF IsMember, MembersAbove
            <7>2. Below = stack[L - 1]
              <8>1. Len(Pop(stack)) = L - 1 /\ \A i \in 1..L - 1 : Pop(stack)[i] = stack[i]
                BY <1>5, PopFacts
              <8> QED
                BY <1>5, <7>1, <8>1 DEF Below, Top
            <7> QED
              BY <1>1, <1>5, <7>1, <7>2, Parallel DEF Distinct
          <6> QED
            BY <1>5, <1>8, <5>1, <6>1, AddElemChanges DEF MemberAdded
        <5>2. CASE ~IsMember
          BY <5>2 DEF MemberAdded
        <5> QED
          BY <5>1, <5>2
      <4>2. CASE IsDict(heap, Parent)
        BY <4>1, <4>2 DEF Mergeable, IsDict
      <4>3. CASE ~IsDict(heap, Parent)
        <5>1. /\ IsList(heap, Parent)
              /\ \A i \in DOMAIN heap[Parent].elems : IsDict(heap, heap[Parent].elems[i])
          BY <1>3, <2>2, <4>3 DEF Mergeable
        <5> QED
          BY <4>1, <5>1 DEF Mergeable, IsDict, IsList
      <4> QED
        BY <4>2, <4>3
    <3>3. heap' = Merge(MemberAdded, Target, Parent)
      BY <1>2, <2>2
    <3> QED
      BY <1>7, <1>9, <3>1, <3>2, <3>3, MergeClosed
  <2> QED
    BY <2>1, <2>2
<1>11. /\ Range(stack') \subseteq Range(stack)
       /\ Range(pending_key') \subseteq Range(pending_key)
       /\ pending_key'[1] = pending_key[1]
  <2>1. /\ stack' \in Seq(Addr) /\ Len(stack') = L - 1 /\ \A i \in 1..L - 1 : stack'[i] = stack[i]
    BY <1>2, <1>5, PopFacts
  <2>2. /\ pending_key' \in Seq(Value) /\ Len(pending_key') = L
        /\ \A i \in 1..L : pending_key'[i] = pending_key[i]
    <3>1. pending_key # <<>> /\ Len(pending_key) - 1 = L
      BY <1>5
    <3> QED
      BY <1>2, <1>5, <3>1, PopFacts
  <2>3. Range(stack') \subseteq Range(stack)
    <3>1. DOMAIN stack' = 1..L - 1 /\ DOMAIN stack = 1..L /\ L \in Nat
      BY <1>5, <2>1
    <3>2. \A i \in 1..L - 1 : i \in 1..L
      BY <3>1
    <3> QED
      BY ONLY <2>1, <3>1, <3>2 DEF Range
  <2>4. Range(pending_key') \subseteq Range(pending_key)
    BY <1>5, <2>2 DEF Range
  <2> QED
    BY <1>5, <2>2, <2>3, <2>4
<1>12. Current' \subseteq Current
  BY <1>2, <1>11 DEF Current
<1>13. ReachableIn(heap', Current') \subseteq T
  BY <1>6, <1>10, <1>12, ReachableIsLeast
<1>14. docs' \in Seq(Value) /\ Len(docs) \in Nat
  BY Types DEF IInv, TypeOK, PlacementTypeOK
<1>15. ReachableIn(heap', Current') \subseteq ReachableIn(heap, Current) \cup {}
  BY <1>13 DEF T
<1> QED
  BY <1>2, <1>11, <1>14, <1>15, SharingFrom DEF SharingInv

\* A document begins with nothing in reach: no anchor, no open container.
LEMMA BegunShares ==
    ASSUME IInv, SharingInv, DocumentStart, Document
    PROVE  SharingInv'
<1>0. PICK D \in Nat : D = Len(docs)
  BY Types DEF IInv
<1>1. error = "none" /\ frames = <<>>
  BY DEF Document, DocumentStart
<1>2. /\ docs' = Append(docs, None) /\ anchors' = [n \in Names |-> Absent]
      /\ UNCHANGED <<stack, pending_key, heap>>
  BY DEF Document, BeginDocument
<1>3. docs \in Seq(Value) /\ None \in Value
  BY Types DEF IInv
<1>4. /\ Len(docs') = D + 1 /\ docs'[D + 1] = None /\ docs' # <<>>
      /\ \A i \in 1..D : docs'[i] = docs[i]
  BY <1>0, <1>2, <1>3, AppendFacts
<1>5. stack = <<>> /\ Len(pending_key) = 1 /\ pending_key \in Seq(Value)
  <2>1. Len(frames) = 0
    BY <1>1
  <2> QED
    BY <1>1, <2>1, Parallel, Types DEF IInv
<1>6. None \notin Addr /\ Absent \notin Addr
  BY StreamAssumption, AddrAssumption
<1>7. Current' = {}
  <2>1. Range(stack) = {}
    BY <1>5 DEF Range
  <2>2. Range(pending_key) \subseteq {None}
    BY <1>5 DEF SharingInv, Range
  <2>3. Range(anchors') \subseteq {Absent}
    BY <1>2 DEF Range
  <2>4. Top(docs') = None
    BY <1>4 DEF Top
  <2> QED
    BY <1>2, <1>6, <2>1, <2>2, <2>3, <2>4 DEF Current
<1>8. RootOf(D + 1)' = {}
  BY <1>4, <1>6 DEF RootOf
<1>9. \A i \in 1..D : RootOf(i)' = RootOf(i)
  BY <1>4 DEF RootOf
<1>10. \A i \in 1..D + 1 : i = D + 1 \/ i \in 1..D
  OBVIOUS
<1>11. ASSUME NEW i \in 1..D + 1, NEW j \in 1..D + 1, i # j
       PROVE  ReachableIn(heap, RootOf(i)') \cap ReachableIn(heap, RootOf(j)') = {}
  <2>1. CASE i = D + 1 \/ j = D + 1
    BY <1>8, <2>1, ReachableEmpty
  <2>2. CASE i # D + 1 /\ j # D + 1
    <3>1. i \in 1..D /\ j \in 1..D
      BY <1>10, <2>2
    <3>2. ReachableIn(heap, RootOf(i)) \cap ReachableIn(heap, RootOf(j)) = {}
      BY <1>0, <1>11, <3>1 DEF SharingInv, DocumentsShareNothing, Reachable, RootOf
    <3> QED
      BY <1>9, <3>1, <3>2
  <2> QED
    BY <2>1, <2>2
<1>12. DocumentsShareNothing'
  BY <1>2, <1>4, <1>11 DEF DocumentsShareNothing, Reachable, RootOf
<1>13. ReachableIn(heap', Current') = {}
  BY <1>7, ReachableEmpty
<1> QED
  BY <1>2, <1>12, <1>13 DEF SharingInv

LEMMA UnchangedShares ==
    ASSUME SharingInv, UNCHANGED <<docs, stack, pending_key, anchors, heap>>
    PROVE  SharingInv'
<1>1. Current' = Current /\ \A i : RootOf(i)' = RootOf(i)
  BY DEF Current, RootOf, Top
<1>2. DocumentsShareNothing'
  BY DEF SharingInv, DocumentsShareNothing, Reachable
<1> QED
  BY <1>1, <1>2 DEF SharingInv

LEMMA SharingStep ==
    ASSUME IInv, IInv', SharingInv, [Next]_vars
    PROVE  SharingInv'
<1>1. CASE Raised
  BY <1>1, UnchangedShares DEF Raised
<1>2. None \notin Addr /\ "str" \in Tags
  BY StreamAssumption, AddrAssumption DEF Tags
<1>3. ASSUME NEW s \in KeyScalars \cup ValueScalars, NEW n \in Names \cup {NoName},
             ScalarNode(s, n), Scalar(s, n)
      PROVE  SharingInv'
  <2>1. s.val \in Atoms /\ s.tag \in Tags /\ s.val \in Value /\ Within(s.val, Current)
    BY StreamAssumption, AddrAssumption DEF Value, Within
  <2>2. CASE Placed(s.val, s.tag) /\ anchors' = Bind(n, s.val)
    <3>1. \A x \in Names : anchors'[x] = anchors[x] \/ anchors'[x] = s.val
      BY <2>2, Types DEF IInv, Bind
    <3>2. error = "none" /\ NodeAllowed
      BY <1>3 DEF Scalar, ScalarNode
    <3> QED
      BY <2>1, <2>2, <3>1, <3>2, PlacedShares
  <2> QED
    BY <1>1, <1>3, <2>2, ScalarKind
<1>4. ASSUME NEW n \in Names, AliasNode, Alias(n)
      PROVE  SharingInv'
  <2>1. CASE anchors[n] \in Value /\ Placed(anchors[n], "str") /\ UNCHANGED anchors
    <3>1. anchors[n] \in Range(anchors)
      BY Types DEF IInv, Range
    <3>2. Within(anchors[n], Current)
      BY <3>1 DEF Within, Current
    <3>3. error = "none" /\ NodeAllowed
      BY <1>4 DEF Alias, AliasNode
    <3>4. \A x \in Names : anchors'[x] = anchors[x] \/ anchors'[x] = anchors[n]
      BY <2>1
    <3> QED
      BY <1>2, <2>1, <3>2, <3>3, <3>4, PlacedShares
  <2> QED
    BY <1>1, <1>4, <2>1, AliasKind
<1>5. ASSUME NEW kind \in {"map", "seq"}, NEW tag \in CollTags,
             NEW n \in Names \cup {NoName}, NEW a \in Addr,
             CollectionStart(kind), Start(a, kind, tag, n)
      PROVE  SharingInv'
  <2>1. error = "none"
    BY <1>5 DEF Start
  <2>2. error' = "none" \/ Raised
    BY <1>5, <2>1, StartKind DEF Opened
  <2> QED
    BY <1>1, <1>5, <2>2, OpenedShares
<1>6. ASSUME CollectionEnd, End
      PROVE  SharingInv'
  <2>1. error = "none"
    BY <1>6 DEF End
  <2>2. error' = "none" \/ Raised
    BY <1>6, <2>1, EndKind DEF Closed
  <2> QED
    BY <1>1, <1>6, <2>2, ClosedShares
<1>7. ASSUME DocumentStart, Document
      PROVE  SharingInv'
  BY <1>7, BegunShares
<1>8. CASE UNCHANGED vars
  BY <1>8, UnchangedShares DEF vars, walkVars
<1> QED
  BY <1>3, <1>4, <1>5, <1>6, <1>7, <1>8
  DEF Next, ReadScalar, ReadStart, ReadEnd, ReadDocument, ReadAlias

(* Documents of one stream share nothing: no container one document's root   *)
(* reaches is reached by another's, for any number of documents and of        *)
(* containers, freed ones handed out again included.                         *)
THEOREM RecordDocumentsShareNothing == Spec => []DocumentsShareNothing
<1>1. Init => SharingInv
  <2> SUFFICES ASSUME Init PROVE SharingInv
    OBVIOUS
  <2> QED
    BY DEF Init, PlacementInit, SharingInv, DocumentsShareNothing
<1>2. IInv /\ IInv' /\ SharingInv /\ [Next]_vars => SharingInv'
  BY SharingStep
<1>3. SharingInv => DocumentsShareNothing
  BY DEF SharingInv
<1> QED
  BY <1>1, <1>2, <1>3, Inductive, PTL DEF Spec

-----------------------------------------------------------------------------
(* Sequences of sequences, joined end to end. *)

IsJoin(g, F, n) == g = [i \in 1..n |-> IF i = 1 THEN F[i] ELSE g[i - 1] \o F[i]]

LEMMA JoinExists ==
    ASSUME NEW F, NEW n \in Nat
    PROVE  \E g : IsJoin(g, F, n)
<1> DEFINE Has == {m \in Nat : \E g : IsJoin(g, F, m)}
<1>1. 0 \in Has
  <2> DEFINE g == [i \in 1..0 |-> F[i]]
  <2>1. IsJoin(g, F, 0)
    BY DEF IsJoin
  <2> QED
    BY <2>1
<1>2. ASSUME NEW m \in Nat, m \in Has PROVE m + 1 \in Has
  <2>1. PICK g : IsJoin(g, F, m)
    BY <1>2
  <2> DEFINE last == IF m = 0 THEN F[1] ELSE g[m] \o F[m + 1]
             e == [i \in 1..m + 1 |-> IF i = m + 1 THEN last ELSE g[i]]
  <2>2. ASSUME NEW i \in 1..m + 1
        PROVE  e[i] = IF i = 1 THEN F[i] ELSE e[i - 1] \o F[i]
    <3>1. CASE i = m + 1
      BY <1>2, <3>1
    <3>2. CASE i # m + 1
      <4>1. i \in 1..m /\ (i # 1 => i - 1 \in 1..m)
        BY <1>2, <3>2
      <4>2. e[i] = g[i] /\ (i # 1 => e[i - 1] = g[i - 1])
        BY <4>1
      <4>3. g[i] = IF i = 1 THEN F[i] ELSE g[i - 1] \o F[i]
        BY <2>1, <4>1 DEF IsJoin
      <4> QED
        BY <4>2, <4>3
    <3> QED
      BY <3>1, <3>2
  <2>3. IsJoin(e, F, m + 1)
    <3>1. e = [i \in 1..m + 1 |-> e[i]]
      OBVIOUS
    <3> HIDE DEF e
    <3> QED
      BY <2>2, <3>1 DEF IsJoin
  <2> QED
    BY <2>3
<1>3. Nat \subseteq Has
  <2> HIDE DEF Has
  <2> QED
    BY <1>1, <1>2, SetInduction
<1> QED
  BY <1>3

LEMMA JoinSteps ==
    ASSUME NEW S, NEW n \in Nat, n # 0, NEW F \in [1..n -> Seq(S)]
    PROVE  \E g : /\ IsJoin(g, F, n) /\ Sequence!FlattenSeq(F) = g[n]
                  /\ \A i \in 1..n : g[i] \in Seq(S)
<1>1. F \in Seq(Seq(S)) /\ Len(F) = n
  BY IsASeq, LenProperties
<1> DEFINE flatten == CHOOSE g : IsJoin(g, F, n)
<1>2. IsJoin(flatten, F, n)
  BY JoinExists
<1>3. Sequence!FlattenSeq(F) = flatten[n]
  BY <1>1 DEF Sequence!FlattenSeq, IsJoin
<1> HIDE DEF flatten
<1>4. \A i \in 1..n : flatten[i] = IF i = 1 THEN F[i] ELSE flatten[i - 1] \o F[i]
  BY <1>2 DEF IsJoin
<1> DEFINE Good == {m \in Nat : m + 1 <= n => flatten[m + 1] \in Seq(S)}
<1>5. 0 \in Good
  BY <1>4
<1>6. ASSUME NEW m \in Nat, m \in Good PROVE m + 1 \in Good
  <2> SUFFICES ASSUME m + 1 + 1 <= n PROVE flatten[m + 1 + 1] \in Seq(S)
    OBVIOUS
  <2>1. PICK i \in 1..n : i = m + 1 + 1
    OBVIOUS
  <2>2. i # 1 /\ i - 1 = m + 1 /\ m + 1 <= n
    BY <2>1
  <2>3. flatten[i - 1] \in Seq(S) /\ F[i] \in Seq(S)
    BY <1>6, <2>2
  <2>4. flatten[i] = flatten[i - 1] \o F[i]
    BY <1>4, <2>2
  <2> QED
    BY <2>1, <2>3, <2>4
<1>7. Nat \subseteq Good
  <2> HIDE DEF Good
  <2> QED
    BY <1>5, <1>6, SetInduction
<1>8. ASSUME NEW i \in 1..n PROVE flatten[i] \in Seq(S)
  <2>1. i - 1 \in Nat /\ i - 1 + 1 = i /\ i <= n
    OBVIOUS
  <2>2. i - 1 \in Good
    BY <1>7, <2>1
  <2> QED
    BY <2>1, <2>2
<1> QED
  BY <1>2, <1>3, <1>8

Alike(F, E, m) == \A i \in 1..m : F[i] = E[i]

\* The first sequences join to the same, whatever comes after them.
LEMMA JoinsAgree ==
    ASSUME NEW n \in Nat, NEW m \in Nat, m <= n, NEW F, NEW E, NEW g, NEW e,
           IsJoin(g, F, n), IsJoin(e, E, m), Alike(F, E, m)
    PROVE  Alike(g, e, m)
<1>0. \A i \in 1..m : F[i] = E[i]
  BY DEF Alike
<1>1. \A i \in 1..n : g[i] = IF i = 1 THEN F[i] ELSE g[i - 1] \o F[i]
  BY DEF IsJoin
<1>2. \A i \in 1..m : e[i] = IF i = 1 THEN E[i] ELSE e[i - 1] \o E[i]
  BY DEF IsJoin
<1> DEFINE Good == {j \in Nat : j + 1 <= m => g[j + 1] = e[j + 1]}
<1>3. 0 \in Good
  BY <1>0, <1>1, <1>2
<1>4. ASSUME NEW j \in Nat, j \in Good PROVE j + 1 \in Good
  <2> SUFFICES ASSUME j + 1 + 1 <= m PROVE g[j + 1 + 1] = e[j + 1 + 1]
    OBVIOUS
  <2>1. PICK i \in 1..m : i = j + 1 + 1
    OBVIOUS
  <2>2. i # 1 /\ i - 1 = j + 1 /\ j + 1 <= m /\ i \in 1..n
    BY <2>1
  <2>3. g[i - 1] = e[i - 1] /\ F[i] = E[i]
    BY <1>0, <1>4, <2>2
  <2>4. g[i] = g[i - 1] \o F[i] /\ e[i] = e[i - 1] \o E[i]
    BY <1>1, <1>2, <2>2
  <2> QED
    BY <2>1, <2>3, <2>4
<1>5. Nat \subseteq Good
  <2> HIDE DEF Good
  <2> QED
    BY <1>3, <1>4, SetInduction
<1> SUFFICES ASSUME NEW i \in 1..m PROVE g[i] = e[i]
  BY DEF Alike
<1>6. i - 1 \in Nat /\ i - 1 + 1 = i /\ i <= m
  OBVIOUS
<1>7. i - 1 \in Good
  BY <1>5, <1>6
<1> QED
  BY <1>6, <1>7

LEMMA FlattenNone ==
    ASSUME NEW S, NEW F \in [1..0 -> S]
    PROVE  Sequence!FlattenSeq(F) = <<>>
BY DEF Sequence!FlattenSeq

\* The last sequence comes last.
LEMMA FlattenLast ==
    ASSUME NEW S, NEW n \in Nat, NEW F \in [1..n + 1 -> Seq(S)], NEW E \in [1..n -> Seq(S)],
           \A i \in 1..n : F[i] = E[i]
    PROVE  /\ Sequence!FlattenSeq(E) \in Seq(S)
           /\ Sequence!FlattenSeq(F) = Sequence!FlattenSeq(E) \o F[n + 1]
<1>1. n + 1 \in Nat /\ n + 1 # 0 /\ n + 1 - 1 = n /\ n + 1 \in 1..n + 1
  OBVIOUS
<1>2. PICK g : IsJoin(g, F, n + 1) /\ Sequence!FlattenSeq(F) = g[n + 1]
  BY ONLY <1>1, JoinSteps, F \in [1..n + 1 -> Seq(S)]
<1>3. g[n + 1] = IF n = 0 THEN F[n + 1] ELSE g[n] \o F[n + 1]
  <2>1. PICK m \in Nat : m = n + 1 /\ m # 0 /\ m - 1 = n /\ m \in 1..m /\ (m = 1 <=> n = 0)
    BY <1>1
  <2>2. g = [i \in 1..m |-> IF i = 1 THEN F[i] ELSE g[i - 1] \o F[i]]
    BY <1>2, <2>1 DEF IsJoin
  <2>3. g[m] = IF m = 1 THEN F[m] ELSE g[m - 1] \o F[m]
    BY ONLY <2>1, <2>2
  <2> QED
    BY ONLY <2>1, <2>3
<1>4. F[n + 1] \in Seq(S)
  BY <1>1
<1>5. CASE n = 0
  <2>1. Sequence!FlattenSeq(E) = <<>>
    BY <1>5, FlattenNone
  <2> QED
    BY <1>2, <1>3, <1>4, <1>5, <2>1
<1>6. CASE n # 0
  <2>1. PICK e : /\ IsJoin(e, E, n) /\ Sequence!FlattenSeq(E) = e[n]
                 /\ \A i \in 1..n : e[i] \in Seq(S)
    BY ONLY <1>6, n \in Nat, JoinSteps, E \in [1..n -> Seq(S)]
  <2>2. \A i \in 1..n : g[i] = e[i]
    <3>1. PICK m \in Nat : m = n + 1 /\ n <= m
      OBVIOUS
    <3>2. IsJoin(g, F, m) /\ IsJoin(e, E, n) /\ n \in Nat /\ n <= m
      BY <1>2, <2>1, <3>1
    <3>3. Alike(F, E, n)
      BY DEF Alike
    <3>4. Alike(g, e, n)
      BY ONLY <3>1, <3>2, <3>3, JoinsAgree
    <3> QED
      BY ONLY <3>4 DEF Alike
  <2>3. n \in 1..n
    BY <1>6
  <2> QED
    BY <1>2, <1>3, <1>6, <2>1, <2>2, <2>3
<1> QED
  BY <1>5, <1>6

-----------------------------------------------------------------------------
(* The first map that has a key. *)

Pairs == [Atoms -> Value \cup {Absent}]

IsForemost(maps, k, x) ==
    \/ x = Absent /\ \A i \in 1..Len(maps) : maps[i][k] = Absent
    \/ \E i \in 1..Len(maps) :
          /\ maps[i][k] # Absent /\ x = maps[i][k]
          /\ \A j \in 1..Len(maps) : j < i => maps[j][k] = Absent

LEMMA ForemostIs ==
    ASSUME NEW S, NEW maps \in Seq(S), NEW k
    PROVE  IsForemost(maps, k, Foremost(maps, k))
<1> DEFINE I == {i \in 1..Len(maps) : maps[i][k] # Absent}
           min == CHOOSE x \in I : \A y \in I : x <= y
<1>1. Foremost(maps, k) = LET from == IF I # {} THEN min ELSE 0
                          IN  IF from = 0 THEN Absent ELSE maps[from][k]
  BY DEF Foremost, Sequence!SelectInSeq, Sequence!Min
<1>2. CASE I = {}
  BY <1>1, <1>2 DEF IsForemost
<1>3. CASE I # {}
  <2>1. I \subseteq Nat
    OBVIOUS
  <2>2. \E x \in I : \A y \in I : x <= y
    <3>1. PICK x \in I : \A y \in I : ~(y < x)
      BY <1>3, <2>1, LeastElement
    <3> QED
      BY <2>1, <3>1
  <2>3. min \in I /\ \A y \in I : min <= y
    BY <2>2
  <2>4. min \in 1..Len(maps) /\ maps[min][k] # Absent
    BY <2>3
  <2> HIDE DEF min
  <2>5. \A j \in 1..Len(maps) : j < min => maps[j][k] = Absent
    BY <2>3, <2>4
  <2>6. Foremost(maps, k) = maps[min][k]
    BY <1>1, <1>3, <2>4
  <2> QED
    BY <2>4, <2>5, <2>6 DEF IsForemost
<1> QED
  BY <1>2, <1>3

LEMMA ForemostOnly ==
    ASSUME NEW S, NEW maps \in Seq(S), NEW k, NEW x, NEW y,
           IsForemost(maps, k, x), IsForemost(maps, k, y)
    PROVE  x = y
BY DEF IsForemost

LEMMA ForemostType ==
    ASSUME NEW maps \in Seq(Pairs), NEW k \in Atoms
    PROVE  Foremost(maps, k) \in Value \cup {Absent}
<1>1. IsForemost(maps, k, Foremost(maps, k))
  BY ForemostIs
<1>2. \A i \in 1..Len(maps) : maps[i][k] \in Value \cup {Absent}
  BY DEF Pairs
<1> QED
  BY <1>1, <1>2 DEF IsForemost

LEMMA ForemostEmpty ==
    ASSUME NEW k
    PROVE  Foremost(<<>>, k) = Absent
<1>1. <<>> \in Seq(Pairs) /\ Len(<<>>) = 0
  OBVIOUS
<1>2. IsForemost(<<>>, k, Foremost(<<>>, k))
  BY <1>1, ForemostIs
<1> QED
  BY <1>1, <1>2 DEF IsForemost

\* One list of maps after another.
LEMMA ForemostJoin ==
    ASSUME NEW m \in Seq(Pairs), NEW n \in Seq(Pairs), NEW k
    PROVE  Foremost(m \o n, k) = IF Foremost(m, k) # Absent THEN Foremost(m, k) ELSE Foremost(n, k)
<1> DEFINE x == Foremost(m, k)
           y == Foremost(n, k)
<1>1. IsForemost(m, k, x) /\ IsForemost(n, k, y)
  BY ForemostIs
<1>2. /\ m \o n \in Seq(Pairs)
      /\ Len(m) \in Nat /\ Len(n) \in Nat /\ Len(m \o n) = Len(m) + Len(n)
      /\ \A i \in 1..Len(m) : (m \o n)[i] = m[i]
      /\ \A i \in 1..Len(n) : (m \o n)[Len(m) + i] = n[i]
      /\ \A i \in 1..Len(m) + Len(n) : i \in 1..Len(m) \/ \E j \in 1..Len(n) : i = Len(m) + j
  <2>1. /\ m \o n \in Seq(Pairs)
        /\ Len(m) \in Nat /\ Len(n) \in Nat /\ Len(m \o n) = Len(m) + Len(n)
        /\ \A i \in 1..Len(m) : (m \o n)[i] = m[i]
        /\ \A i \in 1..Len(n) : (m \o n)[Len(m) + i] = n[i]
    OBVIOUS
  <2>2. ASSUME NEW i \in 1..Len(m) + Len(n), i \notin 1..Len(m)
        PROVE  \E j \in 1..Len(n) : i = Len(m) + j
    <3>1. i - Len(m) \in 1..Len(n) /\ i = Len(m) + (i - Len(m))
      BY <2>1, <2>2
    <3> QED
      BY <3>1
  <2> QED
    BY <2>1, <2>2
<1>3. PICK s : s = m \o n
  OBVIOUS
<1>4. PICK M \in Nat : M = Len(m)
  BY <1>2
<1>5. PICK N \in Nat : N = Len(n)
  BY <1>2
<1>6. /\ Len(s) = M + N /\ s \in Seq(Pairs)
      /\ \A i \in 1..M : s[i] = m[i]
      /\ \A i \in 1..N : s[M + i] = n[i]
      /\ \A i \in 1..M + N : i \in 1..M \/ \E j \in 1..N : i = M + j
  BY ONLY <1>2, <1>3, <1>4, <1>5
<1>7. /\ \/ x = Absent /\ \A i \in 1..M : m[i][k] = Absent
         \/ \E i \in 1..M : /\ m[i][k] # Absent /\ x = m[i][k]
                            /\ \A j \in 1..M : j < i => m[j][k] = Absent
      /\ \/ y = Absent /\ \A i \in 1..N : n[i][k] = Absent
         \/ \E i \in 1..N : /\ n[i][k] # Absent /\ y = n[i][k]
                            /\ \A j \in 1..N : j < i => n[j][k] = Absent
  BY ONLY <1>1, <1>4, <1>5 DEF IsForemost
<1> HIDE DEF x, y
<1>8. IsForemost(s, k, IF x # Absent THEN x ELSE y)
  <2>1. CASE x # Absent
    <3>1. PICK i \in 1..M : /\ m[i][k] # Absent /\ x = m[i][k]
                            /\ \A j \in 1..M : j < i => m[j][k] = Absent
      BY ONLY <1>7, <2>1
    <3>2. i \in 1..M + N /\ s[i][k] # Absent /\ x = s[i][k]
      BY ONLY <1>6, <3>1, M \in Nat, N \in Nat
    <3>3. ASSUME NEW j \in 1..M + N, j < i PROVE s[j][k] = Absent
      <4>1. j \in 1..M
        BY ONLY <3>3, M \in Nat, N \in Nat, i \in 1..M
      <4> QED
        BY ONLY <1>6, <3>1, <3>3, <4>1
    <3> QED
      BY ONLY <1>6, <2>1, <3>2, <3>3 DEF IsForemost
  <2>2. CASE x = Absent
    <3>1. \A i \in 1..M : s[i][k] = Absent
      BY ONLY <1>6, <1>7, <2>2
    <3>2. CASE y = Absent
      <4>0. \A i \in 1..N : s[M + i][k] = Absent
        BY ONLY <1>6, <1>7, <3>2
      <4>1. ASSUME NEW i \in 1..M + N PROVE s[i][k] = Absent
        BY ONLY <1>6, <3>1, <4>0, i \in 1..M + N
      <4> QED
        BY ONLY <1>6, <2>2, <3>2, <4>1 DEF IsForemost
    <3>3. CASE y # Absent
      <4>1. PICK i \in 1..N : /\ n[i][k] # Absent /\ y = n[i][k]
                              /\ \A j \in 1..N : j < i => n[j][k] = Absent
        BY ONLY <1>7, <3>3
      <4>2. M + i \in 1..M + N /\ s[M + i][k] # Absent /\ y = s[M + i][k]
        BY ONLY <1>6, <4>1, M \in Nat, N \in Nat
      <4>3. ASSUME NEW j \in 1..M + N, j < M + i PROVE s[j][k] = Absent
        <5>1. CASE j \in 1..M
          BY ONLY <3>1, <5>1
        <5>2. CASE j \notin 1..M
          <6>1. PICK l \in 1..N : j = M + l
            BY ONLY <1>6, <5>2, j \in 1..M + N
          <6>2. l < i
            BY ONLY <4>3, <6>1, M \in Nat, N \in Nat, i \in 1..N, l \in 1..N
          <6> QED
            BY ONLY <1>6, <4>1, <6>1, <6>2
        <5> QED
          BY <5>1, <5>2
      <4> QED
        BY ONLY <1>6, <2>2, <4>2, <4>3 DEF IsForemost
    <3> QED
      BY <3>2, <3>3
  <2> QED
    BY <2>1, <2>2
<1>9. IsForemost(s, k, Foremost(s, k))
  BY <1>6, ForemostIs
<1>10. Foremost(s, k) = IF x # Absent THEN x ELSE y
  BY ONLY <1>6, <1>8, <1>9, ForemostOnly
<1> QED
  BY <1>3, <1>10 DEF x, y

-----------------------------------------------------------------------------
(* What a merge gives, and what the history says of it. *)

LEMMA FirstIsForemost ==
    ASSUME NEW h, NEW S, NEW srcs \in Seq(S), NEW maps \in Seq(Pairs), NEW k \in Atoms,
           Len(maps) = Len(srcs), \A i \in 1..Len(srcs) : maps[i] = h[srcs[i]].pairs
    PROVE  FirstWith(h, srcs, k) = Foremost(maps, k)
<1> DEFINE has == {i \in DOMAIN srcs : k \in Keys(h[srcs[i]])}
           first == {i \in has : \A j \in has : i <= j}
           pick == CHOOSE i \in first : TRUE
<1>1. FirstWith(h, srcs, k) = IF first = {} THEN Absent ELSE h[srcs[pick]].pairs[k]
  BY DEF FirstWith
<1>2. \A i : i \in has <=> i \in 1..Len(srcs) /\ maps[i][k] # Absent
  BY DEF Keys
<1> HIDE DEF has
<1>3. IsForemost(maps, k, FirstWith(h, srcs, k))
  <2>1. CASE has = {}
    <3>1. first = {}
      BY <2>1
    <3>2. \A i \in 1..Len(maps) : maps[i][k] = Absent
      BY <1>2, <2>1
    <3> QED
      BY <1>1, <3>1, <3>2 DEF IsForemost
  <2>2. CASE has # {}
    <3>1. has \subseteq Nat
      BY <1>2
    <3>2. PICK x \in has : \A y \in has : ~(y < x)
      BY <2>2, <3>1, LeastElement
    <3>3. x \in first
      BY <3>1, <3>2
    <3>4. pick \in first
      BY <3>3
    <3> HIDE DEF pick
    <3>5. pick \in has /\ \A j \in has : pick <= j
      BY <3>4
    <3>6. pick \in 1..Len(maps) /\ maps[pick][k] # Absent /\ maps[pick] = h[srcs[pick]].pairs
      BY <1>2, <3>5
    <3>7. \A j \in 1..Len(maps) : j < pick => maps[j][k] = Absent
      BY <1>2, <3>5, <3>6
    <3>8. FirstWith(h, srcs, k) = maps[pick][k]
      BY <1>1, <3>3, <3>6
    <3> QED
      BY <3>6, <3>7, <3>8 DEF IsForemost
  <2> QED
    BY <2>1, <2>2
<1> QED
  BY <1>3, ForemostIs, ForemostOnly

\* The maps of a source are those of the mappings that Merge takes from it.
LEMMA MapsAre ==
    ASSUME HeapType(heap), NEW v, Mergeable(heap, v)
    PROVE  /\ v \in Addr
           /\ Sources(heap, v) \in Seq(Addr) /\ Maps(v) \in Seq(Pairs)
           /\ Len(Maps(v)) = Len(Sources(heap, v))
           /\ \A i \in 1..Len(Sources(heap, v)) : Maps(v)[i] = heap[Sources(heap, v)[i]].pairs
<1>1. v \in Addr /\ heap[v] \in Container
  BY DEF Mergeable, IsDict, IsList, HeapType
<1>2. \A a \in Addr : heap[a].pairs \in Pairs
  BY DEF HeapType, Container, Pairs
<1>3. CASE IsDict(heap, v)
  BY <1>1, <1>2, <1>3 DEF Maps, Sources
<1>4. CASE ~IsDict(heap, v)
  <2>1. /\ Sources(heap, v) = heap[v].elems
        /\ Maps(v) = [i \in DOMAIN heap[v].elems |-> heap[heap[v].elems[i]].pairs]
    BY <1>4 DEF Sources, Maps
  <2>2. heap[v].elems \in Seq(Entry) /\ \A i \in DOMAIN heap[v].elems : heap[v].elems[i] \in Addr
    BY <1>1, <1>4 DEF Mergeable, IsDict, Container
  <2> DEFINE e == heap[v].elems
             n == Len(e)
  <2>3. n \in Nat /\ DOMAIN e = 1..n /\ e \in Seq(Entry) /\ \A i \in 1..n : e[i] \in Addr
    BY <2>2
  <2>4. e = [i \in 1..n |-> e[i]]
    BY <2>3
  <2> HIDE DEF e, n
  <2>5. e \in [1..n -> Addr]
    BY <2>3, <2>4
  <2>6. [i \in 1..n |-> heap[e[i]].pairs] \in [1..n -> Pairs]
    BY <1>2, <2>3
  <2>7. e \in Seq(Addr) /\ Len(e) = n
    BY <2>3, <2>5, IsASeq, LenProperties DEF n
  <2>8. Maps(v) \in Seq(Pairs) /\ Len(Maps(v)) = n
    <3>1. Maps(v) = [i \in 1..n |-> heap[e[i]].pairs]
      BY <2>1, <2>3 DEF e
    <3> QED
      BY <2>3, <2>6, <3>1, IsASeq, LenProperties
  <2>9. \A i \in 1..n : Maps(v)[i] = heap[e[i]].pairs
    BY <2>1, <2>3 DEF e
  <2> QED
    BY <1>1, <2>1, <2>7, <2>8, <2>9 DEF e
<1> QED
  BY <1>3, <1>4

LEMMA MergeGives ==
    ASSUME NEW h, HeapType(h), NEW t \in Addr, NEW v, NEW maps \in Seq(Pairs), NEW k \in Atoms,
           NEW S, Sources(h, v) \in Seq(S), Len(maps) = Len(Sources(h, v)),
           \A i \in 1..Len(Sources(h, v)) : maps[i] = h[Sources(h, v)[i]].pairs
    PROVE  Merge(h, t, v)[t].pairs[k] =
             IF h[t].pairs[k] # Absent THEN h[t].pairs[k] ELSE Inherited(h[t].kind, maps, k)
<1>1. h[t] \in Container
  BY DEF HeapType
<1>2. Merge(h, t, v) = [h EXCEPT ![t] = [h[t] EXCEPT !.pairs = MergedPairs(h, t, v)]]
  BY DEF Merge
<1> DEFINE m == MergedPairs(h, t, v)
<1>3. Merge(h, t, v)[t].pairs = m
  <2> HIDE DEF m
  <2>1. Merge(h, t, v) = [h EXCEPT ![t] = [h[t] EXCEPT !.pairs = m]]
    BY <1>2 DEF m
  <2> QED
    BY <1>1, <2>1 DEF HeapType, Container
<1>4. FirstWith(h, Sources(h, v), k) = Foremost(maps, k)
  BY FirstIsForemost
<1>5. m[k] = IF k \in Keys(h[t]) THEN h[t].pairs[k]
             ELSE IF h[t].kind = "set" /\ FirstWith(h, Sources(h, v), k) # Absent THEN None
             ELSE FirstWith(h, Sources(h, v), k)
  BY DEF MergedPairs
<1>6. k \in Keys(h[t]) <=> h[t].pairs[k] # Absent
  BY DEF Keys
<1> HIDE DEF m
<1> QED
  BY <1>3, <1>4, <1>5, <1>6 DEF Inherited

Source == [at : Addr \cup {Absent}, maps : Seq(Pairs)]

LEMMA MapsOfSources ==
    ASSUME NEW s \in Seq(Source), NEW n, n = Len(s)
    PROVE  [i \in DOMAIN s |-> s[i].maps] \in [1..n -> Seq(Pairs)]
<1>1. DOMAIN s = 1..n /\ \A i \in 1..n : s[i] \in Source
  OBVIOUS
<1>2. \A x \in Source : x.maps \in Seq(Pairs)
  BY DEF Source
<1>3. \A i \in 1..n : s[i].maps \in Seq(Pairs)
  BY ONLY <1>1, <1>2
<1> QED
  BY ONLY <1>1, <1>3

LEMMA NamedType ==
    ASSUME NEW s \in Seq(Source)
    PROVE  Named(s) \in Seq(Pairs)
<1>1. PICK n \in Nat : n = Len(s)
  OBVIOUS
<1> DEFINE F == [i \in DOMAIN s |-> s[i].maps]
<1>2. F \in [1..n -> Seq(Pairs)]
  BY <1>1, MapsOfSources
<1>3. Named(s) = Sequence!FlattenSeq(F)
  BY DEF Named
<1> HIDE DEF F
<1>4. CASE n = 0
  <2>1. Named(s) = <<>>
    BY <1>2, <1>3, <1>4, FlattenNone
  <2> QED
    BY <2>1
<1>5. CASE n # 0
  <2>1. PICK g : Sequence!FlattenSeq(F) = g[n] /\ \A i \in 1..n : g[i] \in Seq(Pairs)
    BY ONLY <1>2, <1>5, n \in Nat, JoinSteps
  <2> QED
    BY <1>3, <1>5, <2>1
<1> QED
  BY <1>4, <1>5

\* One more source.
LEMMA NamedLast ==
    ASSUME NEW s \in Seq(Source), NEW r \in Seq(Source), Len(r) = Len(s) + 1,
           \A i \in 1..Len(s) : r[i] = s[i]
    PROVE  Named(r) = Named(s) \o r[Len(s) + 1].maps
<1>1. PICK n \in Nat : n = Len(s)
  OBVIOUS
<1> DEFINE F == [i \in DOMAIN r |-> r[i].maps]
           E == [i \in DOMAIN s |-> s[i].maps]
<1>2. F \in [1..n + 1 -> Seq(Pairs)] /\ E \in [1..n -> Seq(Pairs)]
  <2>1. n + 1 = Len(r)
    BY <1>1
  <2>2. F \in [1..n + 1 -> Seq(Pairs)]
    BY ONLY <2>1, MapsOfSources, r \in Seq(Source)
  <2>3. E \in [1..n -> Seq(Pairs)]
    BY ONLY <1>1, MapsOfSources, s \in Seq(Source)
  <2> QED
    BY <2>2, <2>3
<1>3. \A i \in 1..n : F[i] = E[i]
  BY <1>1
<1>4. Named(r) = Sequence!FlattenSeq(F) /\ Named(s) = Sequence!FlattenSeq(E)
  BY DEF Named
<1>5. F[n + 1] = r[n + 1].maps
  BY <1>1
<1> HIDE DEF F, E
<1>6. Sequence!FlattenSeq(F) = Sequence!FlattenSeq(E) \o F[n + 1]
  BY ONLY <1>2, <1>3, n \in Nat, FlattenLast
<1> QED
  BY <1>1, <1>4, <1>5, <1>6

LEMMA NamedAppend ==
    ASSUME NEW s \in Seq(Source), NEW x \in Source
    PROVE  Named(Append(s, x)) = Named(s) \o x.maps /\ Append(s, x) \in Seq(Source)
<1>1. /\ Append(s, x) \in Seq(Source) /\ Len(Append(s, x)) = Len(s) + 1
      /\ Append(s, x)[Len(s) + 1] = x
      /\ \A i \in 1..Len(s) : Append(s, x)[i] = s[i]
  BY AppendFacts
<1>2. Named(Append(s, x)) = Named(s) \o Append(s, x)[Len(s) + 1].maps
  BY ONLY <1>1, NamedLast, s \in Seq(Source)
<1> QED
  BY <1>1, <1>2

\* The last source is told what it waited for.
LEMMA NamedSettled ==
    ASSUME NEW s \in Seq(Source), s # <<>>, s[Len(s)].maps = <<>>,
           NEW r \in Seq(Source), Len(r) = Len(s), \A i \in 1..Len(s) - 1 : r[i] = s[i]
    PROVE  Named(r) = Named(s) \o r[Len(s)].maps
<1>1. /\ Pop(s) \in Seq(Source) /\ Len(Pop(s)) = Len(s) - 1 /\ Len(s) \in Nat
      /\ \A i \in 1..Len(s) - 1 : Pop(s)[i] = s[i]
  BY PopFacts
<1> DEFINE p == Pop(s)
<1> HIDE DEF p
<1>2. PICK n \in Nat : n = Len(p) /\ Len(s) = n + 1 /\ Len(s) - 1 = n
  BY <1>1 DEF p
<1>3. p \in Seq(Source) /\ \A i \in 1..n : p[i] = s[i] /\ r[i] = s[i]
  BY <1>1, <1>2 DEF p
<1>4. ASSUME NEW q \in Seq(Source), Len(q) = n + 1, \A i \in 1..n : q[i] = p[i]
      PROVE  Named(q) = Named(p) \o q[n + 1].maps
  <2>1. Len(q) = Len(p) + 1 /\ \A i \in 1..Len(p) : q[i] = p[i]
    BY ONLY <1>2, <1>4
  <2>2. Named(q) = Named(p) \o q[Len(p) + 1].maps
    BY ONLY <1>3, <2>1, NamedLast, q \in Seq(Source)
  <2> QED
    BY ONLY <1>2, <2>2
<1>5. Named(s) = Named(p) \o s[n + 1].maps
  BY <1>2, <1>3, <1>4
<1>6. Named(r) = Named(p) \o r[n + 1].maps
  BY <1>2, <1>3, <1>4
<1>7. Named(p) \in Seq(Pairs)
  BY <1>3, NamedType
<1>8. Named(p) \o <<>> = Named(p)
  BY <1>7
<1> QED
  BY <1>2, <1>5, <1>6, <1>8

-----------------------------------------------------------------------------
(* What changes to a heap and to its histories leave flattened. *)

HistoryTyped(o, s) == o \in [Addr -> Pairs] /\ s \in [Addr -> Seq(Source)]

\* Flattened, one mapping at a time.
Means(c, given, maps) ==
    c.kind # "list" =>
        \A k \in Atoms :
            c.pairs[k] = IF given[k] # Absent THEN given[k] ELSE Inherited(c.kind, maps, k)

LEMMA FlattenedMeans ==
    ASSUME NEW h, NEW o, NEW s
    PROVE  Flattened(h, o, s) <=> \A a \in Addr : Means(h[a], o[a], Named(s[a]))
BY DEF Flattened, Means

LEMMA SameFlattened ==
    ASSUME NEW h, NEW g, NEW o, NEW s, Flattened(h, o, s),
           \A a \in Addr : g[a].pairs = h[a].pairs /\ g[a].kind = h[a].kind
    PROVE  Flattened(g, o, s)
BY FlattenedMeans DEF Means

LEMMA PairFlattened ==
    ASSUME NEW h, HeapType(h), NEW o, NEW s, o \in [Addr -> Pairs], Flattened(h, o, s),
           NEW p \in Addr, NEW k \in Atoms, NEW v \in Value, NEW w,
           w = IF h[p].kind = "set" THEN None ELSE v
    PROVE  /\ Flattened(AddPair(h, p, k, v), [o EXCEPT ![p][k] = w], s)
           /\ [o EXCEPT ![p][k] = w] \in [Addr -> Pairs]
<1> DEFINE g == AddPair(h, p, k, v)
           q == [o[p] EXCEPT ![k] = w]
           r == [o EXCEPT ![p][k] = w]
<1>1. w \in Value /\ w # Absent
  BY StreamAssumption, AddrAssumption DEF Value
<1>2. o[p] \in Pairs /\ h[p] \in Container
  BY DEF HeapType
<1>3. q \in Pairs /\ q[k] = w /\ \A l \in Atoms : l # k => q[l] = o[p][l]
  BY <1>1, <1>2 DEF Pairs
<1>4. r = [o EXCEPT ![p] = q]
  OBVIOUS
<1>5. /\ \A a \in Addr : a # p => g[a] = h[a]
      /\ g[p].kind = h[p].kind
      /\ g[p].pairs = [h[p].pairs EXCEPT ![k] = w]
  BY AddPairChanges
<1>6. g[p].pairs[k] = w /\ \A l \in Atoms : l # k => g[p].pairs[l] = h[p].pairs[l]
  <2>1. h[p].pairs \in Pairs
    BY <1>2 DEF Container, Pairs
  <2> HIDE DEF g
  <2> QED
    BY <1>5, <2>1 DEF Pairs
<1> HIDE DEF g, q, r
<1>7. r \in [Addr -> Pairs] /\ r[p] = q /\ \A a \in Addr : a # p => r[a] = o[a]
  BY <1>3, <1>4
<1>8. \A a \in Addr : Means(h[a], o[a], Named(s[a]))
  BY FlattenedMeans
<1>9. Means(g[p], r[p], Named(s[p]))
  BY <1>1, <1>3, <1>5, <1>6, <1>7, <1>8 DEF Means
<1>10. \A a \in Addr : Means(g[a], r[a], Named(s[a]))
  BY <1>5, <1>7, <1>8, <1>9
<1>11. Flattened(g, r, s)
  BY <1>10, FlattenedMeans
<1> QED
  BY <1>7, <1>11 DEF g, r

\* From heap h with sources s to g with r: t has merged what the maps m have.
Merges(h, s, g, r, t, m) ==
    /\ \A a \in Addr : g[a].kind = h[a].kind
    /\ \A a \in Addr : a # t => g[a].pairs = h[a].pairs /\ Named(r[a]) = Named(s[a])
    /\ Named(r[t]) = Named(s[t]) \o m
    /\ \A k \in Atoms : g[t].pairs[k] =
          IF h[t].pairs[k] # Absent THEN h[t].pairs[k] ELSE Inherited(h[t].kind, m, k)

LEMMA MergeFlattened ==
    ASSUME NEW h, NEW g, NEW o, NEW s, NEW r, HistoryTyped(o, s), Flattened(h, o, s),
           NEW t \in Addr, NEW m \in Seq(Pairs), Merges(h, s, g, r, t, m)
    PROVE  Flattened(g, o, r)
<1>0. /\ \A a \in Addr : g[a].kind = h[a].kind
      /\ \A a \in Addr : a # t => g[a].pairs = h[a].pairs /\ Named(r[a]) = Named(s[a])
      /\ Named(r[t]) = Named(s[t]) \o m
      /\ \A k \in Atoms : g[t].pairs[k] =
            IF h[t].pairs[k] # Absent THEN h[t].pairs[k] ELSE Inherited(h[t].kind, m, k)
  BY DEF Merges
<1>1. \A a \in Addr : Means(h[a], o[a], Named(s[a]))
  BY FlattenedMeans
<1>2. \A a \in Addr : a # t => Means(g[a], o[a], Named(r[a]))
  BY <1>0, <1>1 DEF Means
<1>3. Means(g[t], o[t], Named(r[t]))
  <2> SUFFICES ASSUME h[t].kind # "list", NEW k \in Atoms
               PROVE  g[t].pairs[k] = IF o[t][k] # Absent THEN o[t][k]
                                      ELSE Inherited(h[t].kind, Named(r[t]), k)
    BY <1>0 DEF Means
  <2>1. h[t].pairs[k] = IF o[t][k] # Absent THEN o[t][k]
                        ELSE Inherited(h[t].kind, Named(s[t]), k)
    BY <1>1 DEF Means
  <2>2. g[t].pairs[k] = IF h[t].pairs[k] # Absent THEN h[t].pairs[k]
                        ELSE Inherited(h[t].kind, m, k)
    BY <1>0
  <2>3. Named(s[t]) \in Seq(Pairs)
    BY NamedType DEF HistoryTyped
  <2>4. Foremost(Named(r[t]), k) = IF Foremost(Named(s[t]), k) # Absent THEN Foremost(Named(s[t]), k)
                                   ELSE Foremost(m, k)
    BY <1>0, <2>3, ForemostJoin
  <2>5. None # Absent
    BY StreamAssumption, AddrAssumption
  <2> QED
    BY ONLY <2>1, <2>2, <2>4, <2>5 DEF Inherited
<1> QED
  BY <1>2, <1>3, FlattenedMeans

-----------------------------------------------------------------------------
(* The sources that wait. *)

LEMMA WaitingAppend ==
    ASSUME NEW s \in [Addr -> Seq(Source)], NEW targets \in [Addr -> Addr \cup {Absent}],
           Waiting(s, targets), NEW p \in Addr, \A y \in Addr : targets[y] # p,
           NEW x \in Source, NEW next,
           \/ x.at = Absent /\ next = targets
           \/ /\ x.at \in Addr /\ targets[x.at] = Absent /\ x.maps = <<>>
              /\ next = [targets EXCEPT ![x.at] = p]
    PROVE  Waiting([s EXCEPT ![p] = Append(s[p], x)], next)
<1>1. s[p] \in Seq(Source)
  OBVIOUS
<1> DEFINE e == Append(s[p], x)
           r == [s EXCEPT ![p] = e]
           n == Len(s[p])
<1>2. /\ e \in Seq(Source) /\ Len(e) = n + 1 /\ e # <<>>
      /\ e[n + 1] = x /\ \A i \in 1..n : e[i] = s[p][i]
  BY <1>1, AppendFacts
<1>3. n \in Nat /\ DOMAIN e = 1..n + 1 /\ DOMAIN s[p] = 1..n
  BY <1>1, <1>2
<1> HIDE DEF e
<1>4. r[p] = e /\ \A a \in Addr : a # p => r[a] = s[a]
  OBVIOUS
<1> HIDE DEF r, n
<1>5. Absent \notin Addr
  BY AddrAssumption
<1>6. \A i \in 1..n : s[p][i].at = Absent
  BY <1>3 DEF Waiting
<1>7. \A y \in Addr : next[y] = IF y = x.at THEN p ELSE targets[y]
  BY <1>5
<1>8. ASSUME NEW a \in Addr, NEW i \in DOMAIN r[a], r[a][i].at # Absent
      PROVE  /\ r[a][i].at \in Addr /\ next[r[a][i].at] = a
             /\ i = Len(r[a]) /\ r[a][i].maps = <<>>
  <2>1. CASE a # p
    <3>1. /\ s[a][i].at \in Addr /\ targets[s[a][i].at] = a
          /\ i = Len(s[a]) /\ s[a][i].maps = <<>>
      BY <1>4, <1>8, <2>1 DEF Waiting
    <3>2. r[a] = s[a] /\ s[a][i].at # x.at
      BY <1>4, <1>5, <2>1, <3>1
    <3> QED
      BY <1>7, <3>1, <3>2
  <2>2. CASE a = p
    <3>1. i \in 1..n + 1
      BY <1>3, <1>4, <2>2
    <3>2. i = n + 1
      BY <1>2, <1>3, <1>4, <1>6, <1>8, <2>2, <3>1
    <3>3. r[a][i] = x
      BY <1>2, <1>4, <2>2, <3>2
    <3>4. x.at \in Addr /\ x.maps = <<>>
      BY <1>8, <3>3
    <3> QED
      BY <1>2, <1>4, <1>7, <2>2, <3>2, <3>3, <3>4
  <2> QED
    BY <2>1, <2>2
<1>9. ASSUME NEW y \in Addr, next[y] # Absent
      PROVE  r[next[y]] # <<>> /\ r[next[y]][Len(r[next[y]])].at = y
  <2>1. CASE y = x.at
    BY <1>2, <1>4, <1>7, <2>1
  <2>2. CASE y # x.at
    <3>1. next[y] = targets[y] /\ targets[y] \in Addr /\ targets[y] # p
      BY <1>7, <1>9, <2>2
    <3>2. s[targets[y]] # <<>> /\ s[targets[y]][Len(s[targets[y]])].at = y
      BY <1>9, <3>1 DEF Waiting
    <3> QED
      BY <1>4, <3>1, <3>2
  <2> QED
    BY <2>1, <2>2
<1>10. Waiting(r, next)
  BY <1>8, <1>9 DEF Waiting
<1> QED
  BY <1>10 DEF r, e

-----------------------------------------------------------------------------
(* A node arrives. *)

\* What the histories o and s say of heap h, and of the merges that wait.
Recorded(h, o, s, targets) == HistoryTyped(o, s) /\ Flattened(h, o, s) /\ Waiting(s, targets)

LEMMA PlaceNotes ==
    ASSUME TypeOK, NEW h, HeapType(h), NEW o, NEW s, Recorded(h, o, s, merge_targets),
           NEW v \in Value, NEW tag \in Tags, NEW push \in BOOLEAN, NEW later \in BOOLEAN, NEW x,
           Len(pending_key) = Len(stack) + 1,
           \A y \in Addr : stack # <<>> => merge_targets[y] # Parent,
           InOmap => ~InMapping(h),
           InMapping(h) <=> InMapping(heap), stack # <<>> => h[Parent].kind = heap[Parent].kind,
           later => v \in Addr /\ x = Written(v) /\ merge_targets[v] = Absent,
           ~later /\ InMapping(h) /\ MergeAwaitsValue =>
             h = heap /\ x = IF v \in Addr THEN Known(v) ELSE Written(v),
           Refusal(v, h, later) = "none", Place(v, tag, h, push, later),
           error' = "none", Note(v, x, o, s)
    PROVE  Recorded(heap', own', sources', merge_targets')
<1>1. /\ Key \in Value /\ (stack # <<>> => Parent \in Addr)
      /\ merge_targets \in [Addr -> Addr \cup {Absent}]
      /\ InMapping(h) => stack # <<>>
  BY Types DEF Key, Top, Parent, InMapping
<1>2. HistoryTyped(o, s) /\ Flattened(h, o, s) /\ Waiting(s, merge_targets)
  BY DEF Recorded
<1>3. MergeAwaitsValue => ~AwaitsKey
  BY StreamAssumption DEF MergeAwaitsValue, AwaitsKey
<1>4. /\ own' = IF InMapping(h) /\ ~AwaitsKey /\ ~MergeAwaitsValue
                THEN [o EXCEPT ![Parent][Key] = IF heap[Parent].kind = "set" THEN None ELSE v]
                ELSE o
      /\ sources' = IF InMapping(h) /\ MergeAwaitsValue
                    THEN [s EXCEPT ![Parent] = Append(s[Parent], x)] ELSE s
  BY <1>3 DEF Note
<1> DEFINE Kept == own' = o /\ sources' = s
<1>5. CASE Kept /\ heap' = h /\ merge_targets' = merge_targets
  BY <1>2, <1>5 DEF Recorded
<1>6. ASSUME NEW e, stack # <<>>, Kept, heap' = AddElem(h, Parent, e), merge_targets' = merge_targets
      PROVE  Recorded(heap', own', sources', merge_targets')
  <2>1. \A a \in Addr : heap'[a].pairs = h[a].pairs /\ heap'[a].kind = h[a].kind
    <3>1. Parent \in Addr
      BY <1>1, <1>6
    <3>2. /\ \A a \in Addr : a # Parent => AddElem(h, Parent, e)[a] = h[a]
          /\ AddElem(h, Parent, e)[Parent].pairs = h[Parent].pairs
          /\ AddElem(h, Parent, e)[Parent].kind = h[Parent].kind
      BY <3>1, AddElemChanges
    <3> QED
      BY <1>6, <3>2
  <2>2. Flattened(heap', o, s)
    BY <1>2, <2>1, SameFlattened
  <2> QED
    BY <1>2, <1>6, <2>2 DEF Recorded
<1>7. CASE PlaceRoot(v, h, push)
  BY <1>4, <1>5, <1>7 DEF PlaceRoot, InMapping
<1>8. CASE PlaceElement(v, h, push)
  BY <1>4, <1>6, <1>8 DEF PlaceElement
<1>9. CASE PlaceMember(v, h, push)
  <2>1. InOmap /\ heap' = AddElem(h, Parent, PairOf(h[v])) /\ merge_targets' = merge_targets
    BY <1>9 DEF PlaceMember
  <2>2. stack # <<>>
    BY <2>1 DEF InOmap
  <2>3. Kept
    BY <1>4, <2>1
  <2> QED
    BY <1>6, <2>1, <2>2, <2>3
<1>10. CASE PlaceKey(v, tag, h, push)
  BY <1>3, <1>4, <1>5, <1>10 DEF PlaceKey
<1>11. CASE PlaceValue(v, h, push)
  <2>1. /\ InMapping(h) /\ ~AwaitsKey /\ ~MergeAwaitsValue
        /\ heap' = AddPair(h, Parent, Key, v) /\ merge_targets' = merge_targets
    BY <1>11 DEF PlaceValue
  <2>2. Parent \in Addr /\ Key \in Atoms
    BY <1>1, <2>1 DEF Refusal, Value
  <2> DEFINE w == IF heap[Parent].kind = "set" THEN None ELSE v
  <2>3. w = IF h[Parent].kind = "set" THEN None ELSE v
    BY <1>1, <2>1
  <2>4. own' = [o EXCEPT ![Parent][Key] = w] /\ sources' = s
    BY <1>4, <2>1
  <2> HIDE DEF w
  <2>5. o \in [Addr -> Pairs]
    BY <1>2 DEF HistoryTyped
  <2>6. /\ Flattened(AddPair(h, Parent, Key, v), [o EXCEPT ![Parent][Key] = w], s)
        /\ [o EXCEPT ![Parent][Key] = w] \in [Addr -> Pairs]
    BY ONLY <1>2, <2>2, <2>3, <2>5, HeapType(h), v \in Value, PairFlattened
  <2> QED
    BY <1>2, <2>1, <2>4, <2>6 DEF Recorded, HistoryTyped
<1>12. CASE ~later /\ MergeNow(v, h, push)
  <2>1. /\ InMapping(h) /\ MergeAwaitsValue
        /\ heap' = Merge(h, Parent, v) /\ merge_targets' = merge_targets
    BY <1>12 DEF MergeNow
  <2>2. h = heap
    BY <1>12, <2>1
  <2>3. Mergeable(heap, v)
    BY <1>3, <1>12, <2>1, <2>2 DEF Refusal
  <2> DEFINE m == Maps(v)
             e == Append(s[Parent], x)
  <2>4. /\ v \in Addr
        /\ Sources(heap, v) \in Seq(Addr) /\ m \in Seq(Pairs)
        /\ Len(m) = Len(Sources(heap, v))
        /\ \A i \in 1..Len(Sources(heap, v)) : m[i] = heap[Sources(heap, v)[i]].pairs
    BY <2>2, <2>3, MapsAre
  <2>5. x = [at |-> Absent, maps |-> m]
    BY <1>12, <2>1, <2>4 DEF Known
  <2> HIDE DEF m
  <2>6. x \in Source /\ x.at = Absent /\ x.maps = m
    BY <2>4, <2>5 DEF Source
  <2>7. Parent \in Addr /\ s[Parent] \in Seq(Source) /\ \A y \in Addr : merge_targets[y] # Parent
    BY <1>1, <1>2, <2>1 DEF HistoryTyped
  <2>8. Named(e) = Named(s[Parent]) \o m /\ e \in Seq(Source)
    BY <2>6, <2>7, NamedAppend
  <2>9. own' = o /\ sources' = [s EXCEPT ![Parent] = e]
    BY <1>4, <2>1
  <2>10. s \in [Addr -> Seq(Source)] /\ o \in [Addr -> Pairs]
    BY <1>2 DEF HistoryTyped
  <2>11. Waiting([s EXCEPT ![Parent] = e], merge_targets)
    BY <1>1, <1>2, <2>6, <2>7, <2>10, WaitingAppend
  <2> HIDE DEF e
  <2>12. HistoryTyped(own', sources')
    BY <2>8, <2>9, <2>10 DEF HistoryTyped
  <2>13. sources'[Parent] = e /\ \A a \in Addr : a # Parent => sources'[a] = s[a]
    BY <2>7, <2>9, <2>10
  <2>14. \A k \in Atoms : heap'[Parent].pairs[k] =
            IF h[Parent].pairs[k] # Absent THEN h[Parent].pairs[k]
            ELSE Inherited(h[Parent].kind, m, k)
    BY <2>1, <2>2, <2>4, <2>7, MergeGives
  <2>15. \A a \in Addr : heap'[a].kind = h[a].kind /\ (a # Parent => heap'[a].pairs = h[a].pairs)
    BY <2>1, <2>7, MergeChanges
  <2>16. Flattened(heap', o, sources')
    <3>1. \A a \in Addr : heap'[a].kind = h[a].kind
      BY <2>15
    <3>2. \A a \in Addr : a # Parent =>
             heap'[a].pairs = h[a].pairs /\ Named(sources'[a]) = Named(s[a])
      BY <2>13, <2>15
    <3>3. Named(sources'[Parent]) = Named(s[Parent]) \o m
      BY <2>8, <2>13
    <3>4. Parent \in Addr /\ m \in Seq(Pairs) /\ HistoryTyped(o, s) /\ Flattened(h, o, s)
      BY <1>2, <2>4, <2>7
    <3>5. Merges(h, s, heap', sources', Parent, m)
      BY ONLY <2>14, <3>1, <3>2, <3>3 DEF Merges
    <3> QED
      BY ONLY <3>4, <3>5, MergeFlattened
  <2> QED
    BY <2>1, <2>9, <2>11, <2>12, <2>16 DEF Recorded
<1>13. CASE later /\ MergeLater(v, h, push)
  <2>1. /\ InMapping(h) /\ MergeAwaitsValue /\ heap' = h
        /\ merge_targets' = [merge_targets EXCEPT ![v] = Parent]
    BY <1>13 DEF MergeLater
  <2> DEFINE e == Append(s[Parent], x)
  <2>2. v \in Addr /\ x = [at |-> v, maps |-> <<>>] /\ merge_targets[v] = Absent
    BY <1>13 DEF Written
  <2>3. x \in Source /\ x.at = v /\ x.maps = <<>>
    BY <2>2 DEF Source
  <2>4. Parent \in Addr /\ s[Parent] \in Seq(Source) /\ \A y \in Addr : merge_targets[y] # Parent
    BY <1>1, <1>2, <2>1 DEF HistoryTyped
  <2>5. Named(e) = Named(s[Parent]) \o <<>> /\ e \in Seq(Source)
    BY <2>3, <2>4, NamedAppend
  <2>6. Named(e) = Named(s[Parent])
    BY <2>4, <2>5, NamedType
  <2>7. own' = o /\ sources' = [s EXCEPT ![Parent] = e]
    BY <1>4, <2>1
  <2>8. s \in [Addr -> Seq(Source)] /\ o \in [Addr -> Pairs]
    BY <1>2 DEF HistoryTyped
  <2>9. Waiting([s EXCEPT ![Parent] = e], merge_targets')
    <3>1. /\ x.at \in Addr /\ merge_targets[x.at] = Absent /\ x.maps = <<>>
          /\ merge_targets' = [merge_targets EXCEPT ![x.at] = Parent]
      BY <2>1, <2>2, <2>3
    <3>2. Waiting(s, merge_targets) /\ merge_targets \in [Addr -> Addr \cup {Absent}]
      BY <1>1, <1>2
    <3> QED
      BY ONLY <2>3, <2>4, <2>8, <3>1, <3>2, WaitingAppend
  <2> HIDE DEF e
  <2>10. HistoryTyped(own', sources')
    BY <2>5, <2>7, <2>8 DEF HistoryTyped
  <2>11. \A a \in Addr : Named(sources'[a]) = Named(s[a])
    BY <2>4, <2>6, <2>7, <2>8
  <2>12. Flattened(heap', o, sources')
    BY <1>2, <2>1, <2>11, FlattenedMeans
  <2> QED
    BY <2>7, <2>9, <2>10, <2>12 DEF Recorded
<1> QED
  BY <1>7, <1>8, <1>9, <1>10, <1>11, <1>12, <1>13 DEF Place

-----------------------------------------------------------------------------
(* One event each. *)

HistoryInv == error = "none" => Recorded(heap, own, sources, merge_targets)

\* The innermost container awaits nothing: a merge waits for what lies above.
LEMMA NoneWaitsForTop ==
    ASSUME IInv, error = "none", stack # <<>>, NEW y \in Addr
    PROVE  merge_targets[y] # Parent
<1> SUFFICES ASSUME merge_targets[y] = Parent PROVE FALSE
  OBVIOUS
<1> DEFINE L == Len(stack)
<1>1. L \in Nat /\ Parent = stack[L] /\ Parent \in Addr /\ L > 0 /\ Distinct
  BY Parallel
<1>2. Parent # Absent
  BY <1>1, AddrAssumption
<1>3. PICK i \in 2..L : stack[i] = y /\ merge_targets[y] = stack[i - 1]
  BY <1>2 DEF IInv, DeferredOnStack
<1>4. i - 1 \in 1..L /\ L \in 1..L /\ i - 1 # L
  BY <1>1, <1>3
<1>5. stack[i - 1] = stack[L]
  BY <1>1, <1>3
<1> QED
  BY <1>1, <1>4, <1>5 DEF Distinct

LEMMA NoteScalarStep ==
    ASSUME IInv, HistoryInv, NoteScalar
    PROVE  HistoryInv'
<1> SUFFICES ASSUME error' = "none" PROVE Recorded(heap', own', sources', merge_targets')
  BY DEF HistoryInv
<1>1. PICK s \in KeyScalars \cup ValueScalars, n \in Names \cup {NoName} :
        Scalar(s, n) /\ Note(s.val, Written(s.val), own, sources)
  BY DEF NoteScalar
<1>2. error = "none" /\ s.val \in Value /\ s.val \notin Addr /\ s.tag \in Tags
  BY <1>1, StreamAssumption, AddrAssumption DEF Scalar, Value
<1>3. Placed(s.val, s.tag)
  BY <1>1, ScalarKind DEF Raised
<1>4. Refusal(s.val, heap, FALSE) = "none" /\ Place(s.val, s.tag, heap, FALSE, FALSE)
  BY <1>3 DEF Placed
<1>5. /\ TypeOK /\ HeapType(heap) /\ Recorded(heap, own, sources, merge_targets)
      /\ Len(pending_key) = Len(stack) + 1 /\ (InOmap => ~InMapping(heap))
      /\ \A y \in Addr : stack # <<>> => merge_targets[y] # Parent
  BY <1>2, Types, Parallel, NoneWaitsForTop DEF IInv, HistoryInv
<1> QED
  BY <1>1, <1>2, <1>4, <1>5, PlaceNotes

LEMMA NoteAliasStep ==
    ASSUME IInv, HistoryInv, NoteAlias
    PROVE  HistoryInv'
<1> SUFFICES ASSUME error' = "none" PROVE Recorded(heap', own', sources', merge_targets')
  BY DEF HistoryInv
<1>1. PICK n \in Names : Alias(n) /\ Note(anchors[n], Known(anchors[n]), own, sources)
  BY DEF NoteAlias
<1> DEFINE v == anchors[n]
<1>2. error = "none" /\ v \in Value /\ Placed(v, "str") /\ "str" \in Tags
  BY <1>1, AliasKind DEF Raised, Alias, Tags
<1>3. Refusal(v, heap, FALSE) = "none" /\ Place(v, "str", heap, FALSE, FALSE)
  BY <1>2 DEF Placed
<1>4. /\ TypeOK /\ HeapType(heap) /\ Recorded(heap, own, sources, merge_targets)
      /\ Len(pending_key) = Len(stack) + 1 /\ (InOmap => ~InMapping(heap))
      /\ \A y \in Addr : stack # <<>> => merge_targets[y] # Parent
  BY <1>2, Types, Parallel, NoneWaitsForTop DEF IInv, HistoryInv
<1>5. Note(v, Known(v), own, sources)
  BY <1>1
<1> HIDE DEF v
<1>6. InMapping(heap) /\ MergeAwaitsValue => v \in Addr
  <2>1. MergeAwaitsValue => ~AwaitsKey
    BY StreamAssumption DEF MergeAwaitsValue, AwaitsKey
  <2>2. Mergeable(heap, v) => v \in Addr
    BY DEF Mergeable, IsDict, IsList
  <2> QED
    BY <1>3, <1>4, <2>1, <2>2 DEF Refusal
<1> QED
  BY <1>2, <1>3, <1>4, <1>5, <1>6, PlaceNotes

\* A new container has no history, and is nobody's source.
LEMMA StartsBlank ==
    ASSUME IInv, error = "none", Recorded(heap, own, sources, merge_targets),
           NEW a \in Free, NEW K \in {"list", "dict", "set"}
    PROVE  /\ Recorded(Allocate(a, K), [own EXCEPT ![a] = [k \in Atoms |-> Absent]],
                       [sources EXCEPT ![a] = <<>>], merge_targets)
           /\ merge_targets[a] = Absent
<1> DEFINE h == Allocate(a, K)
           none == [k \in Atoms |-> Absent]
           o == [own EXCEPT ![a] = none]
           s == [sources EXCEPT ![a] = <<>>]
<1>1. /\ HistoryTyped(own, sources) /\ Flattened(heap, own, sources)
      /\ Waiting(sources, merge_targets)
  BY DEF Recorded
<1>2. a \in Addr /\ a \notin Live
  BY DEF Free
<1>3. \A i \in 1..Len(stack) : stack[i] # a
  BY <1>2, StackLive, Types DEF IInv
<1>4. merge_targets[a] = Absent
  <2>1. merge_targets[a] # Absent => \E i \in 2..Len(stack) : stack[i] = a
    BY <1>2 DEF IInv, DeferredOnStack
  <2>2. Len(stack) \in Nat
    BY Parallel
  <2> QED
    BY <1>3, <2>1, <2>2
<1>5. ASSUME NEW y \in Addr, merge_targets[y] # Absent PROVE merge_targets[y] # a
  <2>1. PICK i \in 2..Len(stack) : merge_targets[y] = stack[i - 1]
    BY <1>5 DEF IInv, DeferredOnStack
  <2>2. i - 1 \in 1..Len(stack)
    BY Parallel, <2>1
  <2> QED
    BY <1>3, <2>1, <2>2
<1>6. none \in Pairs /\ (\A k \in Atoms : none[k] = Absent) /\ <<>> \in Seq(Source)
  BY DEF Pairs
<1> HIDE DEF none
<1>7. /\ HistoryTyped(o, s)
      /\ o[a] = none /\ s[a] = <<>>
      /\ \A x \in Addr : x # a => o[x] = own[x] /\ s[x] = sources[x]
  BY <1>1, <1>2, <1>6 DEF HistoryTyped
<1>8. \A x \in Addr : h[x] = IF x = a THEN Empty(K) ELSE IF x \in Live THEN heap[x] ELSE Empty("list")
  BY DEF Allocate
<1> HIDE DEF h, o, s
<1>9. Flattened(h, o, s)
  <2>1. \A x \in Addr : Means(heap[x], own[x], Named(sources[x]))
    BY <1>1, FlattenedMeans
  <2>2. ASSUME NEW x \in Addr PROVE Means(h[x], o[x], Named(s[x]))
    <3>1. CASE x = a
      <4>1. h[x] = Empty(K) /\ o[x] = none /\ s[x] = <<>>
        BY <1>7, <1>8, <3>1
      <4>2. Named(<<>>) = <<>>
        <5>1. Named(<<>>) = Sequence!FlattenSeq([i \in DOMAIN <<>> |-> <<>>[i].maps])
          BY DEF Named
        <5>2. [i \in DOMAIN <<>> |-> <<>>[i].maps] \in [1..0 -> Seq(Pairs)]
          <6>1. <<>> \in Seq(Source) /\ Len(<<>>) = 0
            OBVIOUS
          <6> QED
            BY <6>1, MapsOfSources
        <5> QED
          BY <5>1, <5>2, FlattenNone
      <4>3. \A k \in Atoms : Empty(K).pairs[k] = Absent
        BY DEF Empty
      <4>4. \A k : Inherited(K, <<>>, k) = Absent
        BY ForemostEmpty DEF Inherited
      <4>5. Empty(K).kind = K
        BY DEF Empty
      <4> QED
        BY <1>6, <4>1, <4>2, <4>3, <4>4, <4>5 DEF Means
    <3>2. CASE x # a /\ x \in Live
      BY <1>7, <1>8, <2>1, <3>2
    <3>3. CASE x # a /\ x \notin Live
      <4>1. h[x].kind = "list"
        BY <1>8, <3>3 DEF Empty
      <4> QED
        BY <4>1 DEF Means
    <3> QED
      BY <3>1, <3>2, <3>3
  <2> QED
    BY <2>2, FlattenedMeans
<1>10. Waiting(s, merge_targets)
  <2>1. ASSUME NEW x \in Addr, NEW i \in DOMAIN s[x], s[x][i].at # Absent
        PROVE  /\ s[x][i].at \in Addr /\ merge_targets[s[x][i].at] = x
               /\ i = Len(s[x]) /\ s[x][i].maps = <<>>
    <3>1. x # a
      BY <1>7, <2>1
    <3> QED
      BY <1>1, <1>7, <2>1, <3>1 DEF Waiting
  <2>2. ASSUME NEW x \in Addr, merge_targets[x] # Absent
        PROVE  s[merge_targets[x]] # <<>> /\ s[merge_targets[x]][Len(s[merge_targets[x]])].at = x
    <3>1. merge_targets[x] # a /\ merge_targets[x] \in Addr
      BY <1>5, <2>2, Types DEF IInv
    <3>2. s[merge_targets[x]] = sources[merge_targets[x]]
      BY <1>7, <3>1
    <3>3. /\ sources[merge_targets[x]] # <<>>
          /\ sources[merge_targets[x]][Len(sources[merge_targets[x]])].at = x
      BY <1>1, <2>2 DEF Waiting
    <3> QED
      BY ONLY <3>2, <3>3
  <2> QED
    BY <2>1, <2>2 DEF Waiting
<1> QED
  BY <1>4, <1>7, <1>9, <1>10 DEF Recorded, h, o, s, none

LEMMA NoteStartStep ==
    ASSUME IInv, HistoryInv, NoteStart
    PROVE  HistoryInv'
<1> SUFFICES ASSUME error' = "none" PROVE Recorded(heap', own', sources', merge_targets')
  BY DEF HistoryInv
<1> DEFINE o(a) == [own EXCEPT ![a] = [k \in Atoms |-> Absent]]
           s(a) == [sources EXCEPT ![a] = <<>>]
<1>1. PICK a \in Free, kind \in {"map", "seq"}, tag \in CollTags, n \in Names \cup {NoName} :
        Start(a, kind, tag, n) /\ Note(a, Written(a), o(a), s(a))
  BY DEF NoteStart
<1> DEFINE mode == ModeOf(tag)
           K == KindOf(kind, mode)
           h == Allocate(a, K)
<1>2. error = "none" /\ a \in Addr /\ a \in Value
  BY <1>1 DEF Start, Free, Value
<1>3. /\ IF InOmap THEN heap' = h /\ UNCHANGED merge_targets
         ELSE Place(a, "str", h, TRUE, TRUE) /\ Refusal(a, h, TRUE) = "none"
  <2> DEFINE refusal == IF OpenRefusal(kind, mode) # "none" THEN OpenRefusal(kind, mode)
                        ELSE IF InOmap THEN "none" ELSE Refusal(a, h, TRUE)
  <2>1. refusal = "none"
    BY <1>1 DEF Start, OpenAt, Raise
  <2>2. IF InOmap THEN heap' = h /\ UNCHANGED merge_targets
        ELSE Place(a, "str", h, TRUE, TRUE)
    BY <1>1, <2>1 DEF Start, OpenAt, Raise
  <2> HIDE DEF h
  <2>3. ~InOmap => Refusal(a, h, TRUE) = "none"
    BY <2>1
  <2> QED
    BY <2>2, <2>3
<1>4. K \in {"list", "dict", "set"}
  BY DEF KindOf
<1> HIDE DEF K, mode
<1>5. Recorded(h, o(a), s(a), merge_targets) /\ merge_targets[a] = Absent
  BY <1>2, <1>4, StartsBlank DEF HistoryInv
<1>6. stack # <<>> => h[Parent] = heap[Parent]
  <2>1. stack # <<>> => Parent \in Live /\ Parent \in Addr /\ Parent # a
    BY <1>1, <1>2, Parallel, StackLive, Types DEF IInv, Free
  <2> QED
    BY <1>2, <1>4, <2>1, OpensEmpty
<1>7. HeapType(h)
  BY <1>2, <1>4, Types, AllocateFacts DEF IInv
<1>8. (InMapping(h) <=> InMapping(heap)) /\ (stack # <<>> => h[Parent].kind = heap[Parent].kind)
  BY <1>6 DEF InMapping
<1>9. /\ TypeOK /\ Len(pending_key) = Len(stack) + 1 /\ (InOmap => ~InMapping(heap))
      /\ \A y \in Addr : stack # <<>> => merge_targets[y] # Parent
  BY <1>2, Parallel, NoneWaitsForTop DEF IInv
<1>10. Note(a, Written(a), o(a), s(a))
  BY <1>1
<1> HIDE DEF h, o, s
<1>11. CASE InOmap
  <2>1. own' = o(a) /\ sources' = s(a)
    BY <1>9, <1>10, <1>11 DEF Note
  <2> QED
    BY <1>3, <1>5, <1>11, <2>1
<1>12. CASE ~InOmap
  <2>1. Place(a, "str", h, TRUE, TRUE) /\ Refusal(a, h, TRUE) = "none" /\ "str" \in Tags
    BY <1>3, <1>12 DEF Tags
  <2> QED
    BY <1>2, <1>5, <1>7, <1>8, <1>9, <1>10, <2>1, PlaceNotes
<1> QED
  BY <1>11, <1>12

\* What an ordered map gets from a member leaves every mapping as it is.
LEMMA MemberAddedKeeps ==
    ASSUME IInv, error = "none", stack # <<>>, CloseRefusal = "none"
    PROVE  /\ HeapType(MemberAdded) /\ MemberAdded[Parent] = heap[Parent]
           /\ \A x \in Addr : /\ MemberAdded[x].pairs = heap[x].pairs
                              /\ MemberAdded[x].kind = heap[x].kind
<1> DEFINE L == Len(stack)
<1>1. /\ L \in Nat /\ Parent = stack[L] /\ Parent \in Addr /\ L > 0 /\ Distinct
      /\ MembersAbove /\ Top(modes) = modes[L + 1] /\ HeapType(heap)
      /\ \A i \in 1..L : stack[i] \in Addr
  BY Parallel, Types DEF IInv
<1>2. CASE IsMember
  <2>1. L > 1
    <3>1. L \in 1..L /\ modes[L + 1] = "omap_member"
      BY <1>1, <1>2 DEF IsMember
    <3> QED
      BY <1>1, <3>1 DEF MembersAbove
  <2>2. Below = stack[L - 1] /\ Below \in Addr /\ Below # Parent
    <3>1. Len(Pop(stack)) = L - 1 /\ \A i \in 1..L - 1 : Pop(stack)[i] = stack[i]
      BY PopFacts, Types DEF IInv
    <3>2. L - 1 \in 1..L /\ L \in 1..L /\ L - 1 # L
      BY <1>1, <2>1
    <3>3. Below = stack[L - 1]
      BY <1>1, <2>1, <3>1 DEF Below, Top
    <3> QED
      BY <1>1, <3>2, <3>3 DEF Distinct
  <2>3. heap[Parent] \in Container /\ Cardinality(Keys(heap[Parent])) = 1
    BY <1>1, <1>2 DEF HeapType, CloseRefusal
  <2>4. PairOf(heap[Parent]) \in Entry
    BY <2>3, PairOfType
  <2>5. MemberAdded = AddElem(heap, Below, PairOf(heap[Parent]))
    BY <1>2 DEF MemberAdded
  <2>6. HeapType(MemberAdded)
    BY <1>1, <2>2, <2>4, <2>5, AddElemFacts
  <2>7. /\ \A x \in Addr : x # Below => MemberAdded[x] = heap[x]
        /\ MemberAdded[Below].pairs = heap[Below].pairs
        /\ MemberAdded[Below].kind = heap[Below].kind
    BY <1>1, <2>2, <2>5, AddElemChanges
  <2> QED
    BY <1>1, <2>2, <2>6, <2>7
<1>3. CASE ~IsMember
  BY <1>1, <1>3 DEF MemberAdded
<1> QED
  BY <1>2, <1>3

LEMMA NoteEndStep ==
    ASSUME IInv, HistoryInv, NoteEnd
    PROVE  HistoryInv'
<1> SUFFICES ASSUME error' = "none" PROVE Recorded(heap', own', sources', merge_targets')
  BY DEF HistoryInv
<1>1. /\ CollectionEnd /\ error = "none" /\ Close /\ own' = own
      /\ sources' = [a \in Addr |-> [i \in DOMAIN sources[a] |->
            IF sources[a][i].at = Parent THEN Known(Parent) ELSE sources[a][i]]]
  BY DEF NoteEnd, ReadEnd, End
<1>2. stack # <<>>
  <2>1. Len(frames) # 0
    BY <1>1 DEF CollectionEnd, IInv, TypeOK, StreamTypeOK
  <2> QED
    BY <1>1, <2>1, Parallel
<1>3. /\ CloseRefusal = "none"
      /\ heap' = IF Target # Absent THEN Merge(MemberAdded, Target, Parent) ELSE MemberAdded
      /\ merge_targets' = [merge_targets EXCEPT ![Parent] = Absent]
  BY <1>1 DEF Close, Settle, Raise
<1>4. /\ HeapType(heap) /\ Parent \in Addr
      /\ merge_targets \in [Addr -> Addr \cup {Absent}]
      /\ Absent \notin Addr
  BY <1>1, <1>2, Parallel, Types, AddrAssumption DEF IInv
<1>5. /\ HistoryTyped(own, sources) /\ Flattened(heap, own, sources)
      /\ Waiting(sources, merge_targets)
  BY <1>1 DEF HistoryInv, Recorded
<1>6. /\ own \in [Addr -> Pairs] /\ sources \in [Addr -> Seq(Source)]
      /\ \A a \in Addr : sources[a] \in Seq(Source) /\ DOMAIN sources[a] = 1..Len(sources[a])
  BY <1>5 DEF HistoryTyped
<1>7. /\ HeapType(MemberAdded) /\ MemberAdded[Parent] = heap[Parent]
      /\ \A x \in Addr : /\ MemberAdded[x].pairs = heap[x].pairs
                         /\ MemberAdded[x].kind = heap[x].kind
  BY <1>1, <1>2, <1>3, MemberAddedKeeps
<1>8. \A a \in Addr : \A i \in DOMAIN sources[a] : sources[a][i].at = Parent =>
         /\ merge_targets[Parent] = a /\ i = Len(sources[a]) /\ sources[a][i].maps = <<>>
  BY <1>4, <1>5 DEF Waiting
<1>9. Target = merge_targets[Parent]
  BY DEF Target
<1>10. \A a \in Addr : a # Target => sources'[a] = sources[a]
  <2> SUFFICES ASSUME NEW a \in Addr, a # Target PROVE sources'[a] = sources[a]
    OBVIOUS
  <2>1. \A i \in 1..Len(sources[a]) : sources[a][i].at # Parent
    BY <1>6, <1>8, <1>9
  <2>2. sources'[a] = [i \in 1..Len(sources[a]) |-> sources[a][i]]
    BY <1>1, <1>6, <2>1
  <2> QED
    BY <1>6, <2>2
<1>11. CASE Target = Absent
  <2>1. \A a \in Addr : a # Target
    BY <1>4, <1>11
  <2>2. sources' = sources
    BY <1>1, <1>6, <1>10, <2>1
  <2>3. merge_targets' = merge_targets
    BY <1>3, <1>4, <1>9, <1>11
  <2>4. heap' = MemberAdded
    BY <1>3, <1>11
  <2>5. Flattened(heap', own, sources)
    BY <1>5, <1>7, <2>4, SameFlattened
  <2> QED
    BY <1>1, <1>5, <2>2, <2>3, <2>5 DEF Recorded
<1>12. CASE Target # Absent
  <2>1. Target \in Addr
    BY <1>4, <1>9, <1>12
  <2> DEFINE t == Target
             m == Maps(Parent)
             s == sources[t]
             n == Len(s)
             r == sources'[t]
             x == [at |-> Absent, maps |-> m]
  <2>2. heap' = Merge(MemberAdded, t, Parent) /\ Mergeable(heap, Parent)
    BY <1>3, <1>12 DEF CloseRefusal
  <2>3. /\ Sources(heap, Parent) \in Seq(Addr) /\ m \in Seq(Pairs)
        /\ Len(m) = Len(Sources(heap, Parent))
        /\ \A i \in 1..Len(Sources(heap, Parent)) : m[i] = heap[Sources(heap, Parent)[i]].pairs
    BY <1>4, <2>2, MapsAre
  <2>4. Sources(MemberAdded, Parent) = Sources(heap, Parent)
    BY <1>7 DEF Sources, IsDict
  <2>5. /\ s \in Seq(Source) /\ n \in Nat /\ s # <<>>
        /\ s[n].at = Parent /\ s[n].maps = <<>>
        /\ \A i \in 1..n : s[i].at = Parent => i = n
    <3>1. s # <<>> /\ s[n].at = Parent
      BY <1>4, <1>5, <1>9, <1>12 DEF Waiting
    <3>2. s \in Seq(Source) /\ n \in Nat /\ DOMAIN s = 1..n
      BY <1>6, <2>1
    <3>3. n \in DOMAIN s
      BY <3>1, <3>2
    <3>4. s[n].maps = <<>> /\ \A i \in 1..n : s[i].at = Parent => i = n
      BY <1>8, <2>1, <3>1, <3>2, <3>3
    <3> QED
      BY <3>1, <3>2, <3>4
  <2>6. x \in Source /\ x.maps = m /\ x = Known(Parent) /\ x.at = Absent
    BY <2>3 DEF Source, Known
  <2>7. /\ r \in Seq(Source) /\ Len(r) = n /\ r # <<>> /\ r[n] = x
        /\ \A i \in 1..n - 1 : r[i] = s[i]
    <3> HIDE DEF x, s, r, n
    <3>1. r = [i \in DOMAIN s |-> IF s[i].at = Parent THEN x ELSE s[i]]
      BY <1>1, <2>1, <2>6 DEF r, s
    <3>2. DOMAIN s = 1..n
      BY <2>5 DEF n
    <3>3. r = [i \in 1..n |-> IF s[i].at = Parent THEN x ELSE s[i]]
      BY <3>1, <3>2
    <3>4. \A i \in 1..n : r[i] = IF s[i].at = Parent THEN x ELSE s[i]
      BY <3>3
    <3>5. \A i \in 1..n : s[i] \in Source
      BY <2>5, <3>2
    <3>6. r \in [1..n -> Source]
      BY <2>6, <3>3, <3>5
    <3>7. r \in Seq(Source) /\ Len(r) = n
      BY <2>5, <3>6, IsASeq, LenProperties
    <3>8. n \in 1..n
      BY <2>5 DEF n
    <3> QED
      BY <2>5, <3>4, <3>7, <3>8
  <2> HIDE DEF x, m
  <2>8. Named(r) = Named(s) \o m
    <3>1. Named(r) = Named(s) \o r[n].maps
      BY ONLY <2>5, <2>7, NamedSettled
    <3> QED
      BY <2>6, <2>7, <3>1
  <2> HIDE DEF s, n, r
  <2>9. \A a \in Addr : a # t => sources'[a] = sources[a]
    BY <1>10
  <2>10. HistoryTyped(own', sources')
    <3>1. \A a \in Addr : sources'[a] \in Seq(Source)
      BY <1>6, <2>7, <2>9 DEF r
    <3>2. sources' = [a \in Addr |-> sources'[a]]
      BY <1>1
    <3> QED
      BY <1>1, <1>6, <3>1, <3>2 DEF HistoryTyped
  <2>11. Flattened(heap', own, sources')
    <3>1. \A k \in Atoms : heap'[t].pairs[k] =
             IF MemberAdded[t].pairs[k] # Absent THEN MemberAdded[t].pairs[k]
             ELSE Inherited(MemberAdded[t].kind, m, k)
      <4>1. \A i \in 1..Len(Sources(heap, Parent)) :
               m[i] = MemberAdded[Sources(heap, Parent)[i]].pairs
        <5>1. \A i \in 1..Len(Sources(heap, Parent)) : Sources(heap, Parent)[i] \in Addr
          BY <2>3
        <5> QED
          BY <1>7, <2>3, <5>1
      <4> QED
        BY <1>7, <2>1, <2>2, <2>3, <2>4, <4>1, MergeGives
    <3>2. \A a \in Addr : /\ heap'[a].kind = MemberAdded[a].kind
                          /\ a # t => heap'[a].pairs = MemberAdded[a].pairs
      BY <1>7, <2>1, <2>2, MergeChanges
    <3>3. Flattened(MemberAdded, own, sources)
      BY <1>5, <1>7, SameFlattened
    <3>4. Merges(MemberAdded, sources, heap', sources', t, m)
      BY <2>8, <2>9, <3>1, <3>2 DEF Merges, r, s
    <3> QED
      BY ONLY <1>5, <2>1, <2>3, <3>3, <3>4, MergeFlattened
  <2>12. Waiting(sources', merge_targets')
    <3>1. \A y \in Addr : merge_targets'[y] = IF y = Parent THEN Absent ELSE merge_targets[y]
      BY <1>3, <1>4
    <3>2. ASSUME NEW a \in Addr, NEW i \in DOMAIN sources'[a], sources'[a][i].at # Absent
          PROVE  /\ sources'[a][i].at \in Addr /\ merge_targets'[sources'[a][i].at] = a
                 /\ i = Len(sources'[a]) /\ sources'[a][i].maps = <<>>
      <4>1. a # t
        <5> SUFFICES ASSUME a = t PROVE FALSE
          OBVIOUS
        <5>1. i \in 1..n /\ r[i].at # Absent
          BY <2>7, <3>2 DEF r
        <5>2. i # n
          BY <2>6, <2>7, <5>1
        <5>3. i \in 1..n - 1
          BY <2>5, <5>1, <5>2
        <5>4. s[i].at # Absent
          BY <2>7, <5>1, <5>3
        <5>5. i \in DOMAIN sources[t] /\ sources[t][i].at # Absent
          BY <2>5, <5>1, <5>4 DEF s, n
        <5>6. i = Len(sources[t])
          BY <1>5, <2>1, <5>5 DEF Waiting
        <5> QED
          BY <5>2, <5>6 DEF n, s
      <4>2. sources'[a] = sources[a]
        BY <2>9, <4>1
      <4>3. /\ sources[a][i].at \in Addr /\ merge_targets[sources[a][i].at] = a
            /\ i = Len(sources[a]) /\ sources[a][i].maps = <<>>
        BY <1>5, <3>2, <4>2 DEF Waiting
      <4>4. sources[a][i].at # Parent
        BY <1>9, <4>1, <4>3
      <4> QED
        BY <3>1, <4>2, <4>3, <4>4
    <3>3. ASSUME NEW y \in Addr, merge_targets'[y] # Absent
          PROVE  /\ sources'[merge_targets'[y]] # <<>>
                 /\ sources'[merge_targets'[y]][Len(sources'[merge_targets'[y]])].at = y
      <4>1. y # Parent /\ merge_targets'[y] = merge_targets[y] /\ merge_targets[y] \in Addr
        BY <1>4, <3>1, <3>3
      <4>2. /\ sources[merge_targets[y]] # <<>>
            /\ sources[merge_targets[y]][Len(sources[merge_targets[y]])].at = y
        BY <1>5, <3>3, <4>1 DEF Waiting
      <4>3. merge_targets[y] # t
        BY <2>5, <4>1, <4>2 DEF s, n
      <4>4. sources'[merge_targets[y]] = sources[merge_targets[y]]
        BY <2>9, <4>1, <4>3
      <4> QED
        BY <4>1, <4>2, <4>4
    <3> QED
      BY <3>2, <3>3 DEF Waiting
  <2> QED
    BY <1>1, <2>10, <2>11, <2>12 DEF Recorded
<1> QED
  BY <1>11, <1>12

-----------------------------------------------------------------------------
(* The histories say what the containers hold. *)

LEMMA HistoryStarts == HistoryInit => HistoryInv
<1> SUFFICES ASSUME HistoryInit PROVE Recorded(heap, own, sources, merge_targets)
  BY DEF HistoryInv
<1>1. /\ heap = [a \in Addr |-> Empty("list")] /\ merge_targets = [a \in Addr |-> Absent]
      /\ own = [a \in Addr |-> [k \in Atoms |-> Absent]] /\ sources = [a \in Addr |-> <<>>]
  BY DEF HistoryInit, Init, PlacementInit
<1>2. HistoryTyped(own, sources)
  <2>1. [k \in Atoms |-> Absent] \in Pairs /\ <<>> \in Seq(Source)
    BY DEF Pairs
  <2> QED
    BY <1>1, <2>1 DEF HistoryTyped
<1>3. Flattened(heap, own, sources)
  BY <1>1 DEF Flattened, Empty
<1>4. Waiting(sources, merge_targets)
  BY <1>1 DEF Waiting
<1> QED
  BY <1>2, <1>3, <1>4 DEF Recorded

LEMMA HistoryKept == IInv /\ HistoryInv /\ [HistoryNext]_<<vars, history>> => HistoryInv'
<1> SUFFICES ASSUME IInv, HistoryInv, [HistoryNext]_<<vars, history>> PROVE HistoryInv'
  OBVIOUS
<1>1. CASE ReadDocument /\ UNCHANGED history
  <2>1. UNCHANGED <<heap, merge_targets, error>> /\ UNCHANGED <<own, sources>>
    BY <1>1 DEF ReadDocument, Document, BeginDocument, history
  <2> QED
    BY <2>1 DEF HistoryInv
<1>2. CASE UNCHANGED <<vars, history>>
  BY <1>2 DEF vars, walkVars, history, HistoryInv
<1> QED
  BY <1>1, <1>2, NoteScalarStep, NoteStartStep, NoteAliasStep, NoteEndStep DEF HistoryNext

\* The history takes the walk's own steps.
LEMMA HistoryWalks == HistorySpec => Spec
<1>1. HistoryInit => Init
  BY DEF HistoryInit
<1>2. [HistoryNext]_<<vars, history>> => [Next]_vars
  <2>1. NoteScalar => ReadScalar
    BY DEF NoteScalar, ReadScalar
  <2>2. NoteStart => ReadStart
    BY DEF NoteStart, ReadStart, Free
  <2>3. NoteAlias => ReadAlias
    BY DEF NoteAlias, ReadAlias
  <2>4. NoteEnd => ReadEnd
    BY DEF NoteEnd
  <2> QED
    BY <2>1, <2>2, <2>3, <2>4 DEF HistoryNext, Next
<1> QED
  BY <1>1, <1>2, PTL DEF HistorySpec, Spec

THEOREM HistoryInductive == HistorySpec => [](IInv /\ HistoryInv)
<1>1. HistorySpec => []IInv
  BY HistoryWalks, Inductive, PTL
<1> QED
  BY <1>1, HistoryStarts, HistoryKept, PTL DEF HistorySpec

(* Merging as the events come gives every mapping what the document says of  *)
(* it: its own pairs, and the first source's for every other key, in streams *)
(* of any length and depth, with any number of sources.                      *)
THEOREM RecordFlattenedMeaning == HistorySpec => []FlattenedMeaning
<1>1. HistoryInv => FlattenedMeaning
  BY DEF HistoryInv, Recorded, FlattenedMeaning
<1> QED
  BY <1>1, HistoryInductive, PTL

(* A source still being written is its mapping's last, and merge_targets     *)
(* says which mapping that is.                                               *)
THEOREM RecordDeferredIsLast == HistorySpec => []DeferredIsLast
<1>1. HistoryInv => DeferredIsLast
  BY DEF HistoryInv, Recorded, DeferredIsLast
<1> QED
  BY <1>1, HistoryInductive, PTL
=============================================================================
