----------------------------- MODULE LockstepProofs -----------------------------
(***************************************************************************)
(* Proofs about the columns walk beside the record walk: the rows it looks *)
(* ahead to keep it in step with the stream, whatever its pair path does.  *)
(***************************************************************************)
EXTENDS Lockstep, WalkProofs

-----------------------------------------------------------------------------
(* Rows. *)

LEMMA RowTypes ==
    ASSUME NEW row \in Row
    PROVE  /\ row.type \in {"scalar", "start", "alias", "end", "document"}
           /\ row.type = "scalar" =>
                row.s \in KeyScalars \cup ValueScalars /\ row.name \in Names \cup {NoName}
           /\ row.type = "start" =>
                /\ row.at \in Addr /\ row.kind \in {"map", "seq"} /\ row.tag \in CollTags
                /\ row.name \in Names \cup {NoName}
           /\ row.type = "alias" => row.name \in Names
BY DEF Row

LEMMA RowsAre ==
    /\ \A s \in KeyScalars \cup ValueScalars, n \in Names \cup {NoName} :
          ScalarRow(s, n) \in Row /\ ScalarRow(s, n).type = "scalar"
    /\ \A a \in Addr, kind \in {"map", "seq"}, tag \in CollTags, n \in Names \cup {NoName} :
          StartRow(a, kind, tag, n) \in Row /\ StartRow(a, kind, tag, n).type = "start"
    /\ \A n \in Names : AliasRow(n) \in Row /\ AliasRow(n).type = "alias"
    /\ EndRow \in Row /\ EndRow.type = "end"
    /\ DocumentRow \in Row /\ DocumentRow.type = "document"
BY DEF Row, ScalarRow, StartRow, AliasRow, EndRow, DocumentRow

-----------------------------------------------------------------------------
(* The stream delivers a row. *)

\* What the next row says of the stream before and after it.
Announces(row) ==
    /\ row.type = "start" => Len(frames') = Len(frames) + 1
    /\ row.type = "end" => Len(frames) = Len(frames') + 1
    /\ row.type \notin {"start", "end"} => Len(frames') = Len(frames)
    /\ row.type = "document" => frames = <<>>
    /\ IsNode(row) => NodeAllowed
    /\ row.type # "document" /\ doc' # "absent" => doc # "absent"

LEMMA WalkUntouched ==
    ASSUME PlacementTypeOK, FramesKept, UNCHANGED walkVars
    PROVE  /\ PlacementTypeOK' /\ FramesKept'
           /\ DeferredOnStack => DeferredOnStack'
BY DEF walkVars, PlacementTypeOK, FramesKept, Distinct, MembersAbove, OmapsAreLists,
       DeferredOnStack

LEMMA DeliverStep ==
    ASSUME ColumnsInv, NEW row \in Row, Deliver(row), Announces(row), StreamTypeOK',
           UNCHANGED deviations
    PROVE  ColumnsInv'
<1>1. /\ PlacementTypeOK /\ FramesKept /\ RowsFit /\ rows \in Seq(Row) /\ Len(rows) <= 2
      /\ StreamTypeOK
  BY DEF ColumnsInv, ColumnsTypeOK
<1>2. /\ PlacementTypeOK' /\ FramesKept' /\ DeferredUnlessEmptyAlias'
      /\ UNCHANGED <<stack, docs, error>>
  BY <1>1, WalkUntouched DEF ColumnsInv, DeferredUnlessEmptyAlias, Deliver, walkVars
<1>3. rows' = IF error = "none" THEN Append(rows, row) ELSE <<>>
  BY DEF Deliver
<1>4. CASE error # "none"
  BY <1>1, <1>2, <1>3, <1>4 DEF ColumnsInv, ColumnsTypeOK, RowsFit
<1>5. CASE error = "none" /\ rows = <<>>
  <2>1. rows' \in Seq(Row) /\ Len(rows') = 1 /\ rows' # <<>> /\ rows'[1] = row
    BY <1>3, <1>5
  <2>2. Len(stack) = Len(frames) /\ (doc # "absent" => docs # <<>>)
    BY <1>1, <1>5 DEF RowsFit
  <2>3. IsNode(row) => stack # <<>> \/ docs # <<>>
    BY <1>1, <2>2, WalkTypes DEF Announces, NodeAllowed, StreamTypeOK
  <2>4. Behind(row)'
    BY <1>2, <2>2 DEF Behind, Announces
  <2>5. doc' # "absent" => docs' # <<>> \/ row.type = "document"
    BY <1>2, <2>2 DEF Announces
  <2>6. RowsFit'
    BY <1>2, <2>1, <2>3, <2>4, <2>5 DEF RowsFit, Behind, IsNode
  <2> QED
    BY <1>2, <2>1, <2>6 DEF ColumnsInv, ColumnsTypeOK
<1>6. CASE error = "none" /\ Lookahead
  <2>1. /\ Len(rows) = 1 /\ rows # <<>> /\ frames # <<>>
        /\ PlainStr(rows[1]) /\ stack # <<>> /\ rows[1].type = "scalar"
    <3>1. Len(rows) = 1 /\ LastRowIsKey /\ PairKey(rows[1])
      BY <1>6 DEF Lookahead
    <3>2. rows # <<>>
      BY <1>1, <3>1
    <3>3. frames # <<>>
      BY <3>1 DEF LastRowIsKey
    <3>4. PlainStr(rows[1]) /\ stack # <<>>
      BY <3>1 DEF PairKey
    <3> QED
      BY <3>1, <3>2, <3>3, <3>4 DEF PlainStr
  <2>2. /\ rows' \in Seq(Row) /\ Len(rows') = 2 /\ rows' # <<>>
        /\ rows'[1] = rows[1] /\ rows'[2] = row
    BY <1>1, <1>3, <1>6, <2>1
  <2>3. Len(stack) = Len(frames) /\ (doc # "absent" => docs # <<>>)
    BY <1>1, <1>6, <2>1 DEF RowsFit, Behind
  <2>4. Behind(row)' /\ row.type # "document"
    BY <1>2, <2>1, <2>3 DEF Behind, Announces
  <2>5. doc' # "absent" => docs' # <<>>
    BY <1>2, <2>3, <2>4 DEF Announces
  <2>6. PlainStr(rows'[1]) /\ stack' # <<>> /\ rows'[2].type # "document"
    BY <1>2, <2>1, <2>2, <2>4
  <2>7. RowsFit'
    BY <1>2, <2>1, <2>2, <2>4, <2>5, <2>6 DEF RowsFit, Behind, PlainStr
  <2> QED
    BY <1>2, <2>2, <2>7 DEF ColumnsInv, ColumnsTypeOK
<1> QED
  BY <1>4, <1>5, <1>6 DEF Deliver, MayDeliver

-----------------------------------------------------------------------------
(* The walk uses a row. *)

LEMMA UsedRow ==
    ASSUME NEW S, NEW s \in Seq(S), s # <<>>, Len(s) <= 2
    PROVE  /\ Len(s) = 1 \/ Len(s) = 2
           /\ Tail(s) \in Seq(S) /\ Len(Tail(s)) = Len(s) - 1 /\ Len(Tail(s)) <= 2
           /\ Len(s) = 1 => Tail(s) = <<>>
           /\ Len(s) = 2 => Tail(s) # <<>> /\ Tail(s)[1] = s[2] /\ Len(Tail(s)) = 1
<1>1. Len(s) \in Nat /\ Len(s) # 0
  OBVIOUS
<1>2. Tail(s) \in Seq(S) /\ Len(Tail(s)) = Len(s) - 1
  BY <1>1, HeadTailProperties
<1>3. \A i \in 1..Len(Tail(s)) : Tail(s)[i] = s[i + 1]
  BY <1>1, HeadTailProperties
<1>4. \A t \in Seq(S) : t = <<>> <=> Len(t) = 0
  OBVIOUS
<1>5. (Len(s) = 1 => Tail(s) = <<>>) /\ (Len(s) = 2 => Tail(s) # <<>>)
  BY <1>2, <1>4
<1> QED
  BY <1>1, <1>2, <1>3, <1>5

\* What using a row of that type does to the walk's depth and documents.
Follows(type) ==
    /\ docs # <<>> \/ type = "document" => docs' # <<>>
    /\ type = "start" => Len(stack') = Len(stack) + 1
    /\ type = "end" => Len(stack') = Len(stack) - 1
    /\ type \notin {"start", "end"} => Len(stack') = Len(stack)

LEMMA UsedStep ==
    ASSUME ColumnsInv, NEW type, Consume(type), UNCHANGED streamVars,
           PlacementTypeOK', FramesKept', DeferredUnlessEmptyAlias',
           error' = "none" => Follows(type)
    PROVE  ColumnsInv'
<1>1. /\ rows \in Seq(Row) /\ Len(rows) <= 2 /\ rows # <<>> /\ rows' = Tail(rows)
      /\ rows[1].type = type /\ RowsFit /\ error = "none"
      /\ PlacementTypeOK /\ stack \in Seq(Addr) /\ Len(stack) \in Nat /\ Len(frames) \in Nat
      /\ UNCHANGED <<frames, doc>>
  BY WalkTypes DEF Consume, ColumnsInv, ColumnsTypeOK, StreamTypeOK, streamVars
<1>2. StreamTypeOK' /\ rows' \in Seq(Row) /\ Len(rows') <= 2
  BY <1>1, UsedRow DEF ColumnsInv, ColumnsTypeOK, StreamTypeOK, streamVars
<1>3. PlacementTypeOK' => Len(stack') \in Nat /\ (stack' = <<>> <=> Len(stack') = 0)
  BY DEF PlacementTypeOK
<1>4. CASE error' # "none"
  BY <1>2, <1>4 DEF ColumnsInv, ColumnsTypeOK, RowsFit
<1>5. CASE error' = "none" /\ Len(rows) = 1
  <2>1. rows' = <<>>
    BY <1>1, <1>5, UsedRow
  <2>2. Behind(rows[1])
    BY <1>1, <1>5 DEF RowsFit
  <2>3. Len(stack') = Len(frames')
    BY <1>1, <1>5, <2>2 DEF Behind, Follows
  <2>4. doc' # "absent" => docs' # <<>>
    BY <1>1, <1>5 DEF RowsFit, Follows
  <2>5. RowsFit'
    BY <2>1, <2>3, <2>4 DEF RowsFit
  <2> QED
    BY <1>2, <2>5 DEF ColumnsInv, ColumnsTypeOK
<1>6. CASE error' = "none" /\ Len(rows) = 2
  <2>1. Len(rows') = 1 /\ rows'[1] = rows[2] /\ rows' # <<>>
    BY <1>1, <1>6, UsedRow
  <2>2. Behind(rows[2]) /\ type = "scalar" /\ stack # <<>> /\ rows[2].type # "document"
    BY <1>1, <1>6 DEF RowsFit, PlainStr
  <2>3. Len(stack') = Len(stack) /\ stack' # <<>> /\ (docs # <<>> => docs' # <<>>)
    BY <1>1, <1>3, <1>6, <2>2 DEF Follows
  <2> PICK next : next = rows[2]
    OBVIOUS
  <2>4. Behind(next)'
    BY <1>1, <2>2, <2>3 DEF Behind
  <2>5. doc' # "absent" => docs' # <<>>
    BY <1>1, <1>6, <2>2, <2>3 DEF RowsFit
  <2>6. RowsFit'
    BY <2>1, <2>3, <2>4, <2>5 DEF RowsFit, Behind
  <2> QED
    BY <1>2, <2>6 DEF ColumnsInv, ColumnsTypeOK
<1>7. Len(rows) = 1 \/ Len(rows) = 2
  BY <1>1, UsedRow
<1> QED
  BY <1>4, <1>5, <1>6, <1>7

-----------------------------------------------------------------------------
(* What the invariant says of the next row, to the action that uses it. *)

LEMMA Using ==
    ASSUME ColumnsInv, NEW type, Consume(type)
    PROVE  /\ PlacementTypeOK /\ FramesKept /\ error = "none"
           /\ rows[1] \in Row /\ rows[1].type = type
           /\ type \in {"scalar", "start", "alias"} /\ stack = <<>> => docs # <<>>
           /\ type = "end" => stack # <<>>
<1>1. /\ PlacementTypeOK /\ FramesKept /\ error = "none" /\ RowsFit
      /\ rows \in Seq(Row) /\ rows # <<>> /\ rows[1].type = type /\ Len(rows) <= 2
      /\ frames \in Seq(Frame)
  BY DEF ColumnsInv, ColumnsTypeOK, Consume, StreamTypeOK
<1>2. rows[1] \in Row /\ (Len(rows) = 1 \/ Len(rows) = 2)
  BY <1>1, UsedRow
<1>3. type \in {"scalar", "start", "alias"} /\ stack = <<>> => docs # <<>>
  BY <1>1 DEF RowsFit, IsNode
<1>4. ASSUME type = "end" PROVE stack # <<>>
  <2>1. CASE Len(rows) = 1
    <3>1. Behind(rows[1])
      BY <1>1, <2>1 DEF RowsFit
    <3>2. Len(stack) = Len(frames) + 1 /\ Len(frames) \in Nat
      BY <1>1, <1>4, <3>1 DEF Behind
    <3> QED
      BY <3>2
  <2>2. CASE Len(rows) = 2
    BY <1>1, <2>2 DEF RowsFit
  <2> QED
    BY <1>2, <2>1, <2>2
<1> QED
  BY <1>1, <1>2, <1>3, <1>4

\* Outcomes that open or close nothing keep the waiting merges, unless one is added.
LEMMA RefusedUse ==
    ASSUME ColumnsInv, NEW type, Consume(type), UNCHANGED streamVars, Refused
    PROVE  ColumnsInv'
<1>1. PlacementTypeOK' /\ error' # "none"
  BY DEF Refused
<1>2. FramesKept' /\ DeferredUnlessEmptyAlias'
  BY <1>1 DEF FramesKept, DeferredUnlessEmptyAlias, DeferredOnStack
<1> QED
  BY <1>1, <1>2, UsedStep

LEMMA StaysUse ==
    ASSUME ColumnsInv, NEW type \in {"scalar", "alias"}, Consume(type),
           UNCHANGED streamVars, Stays, deviations \subseteq deviations',
           merge_targets' # merge_targets => "empty alias" \in deviations'
    PROVE  ColumnsInv'
<1>1. PlacementTypeOK' /\ FramesKept' /\ Len(docs') = Len(docs) /\ UNCHANGED <<stack, error>>
  BY DEF Stays
<1>2. DeferredUnlessEmptyAlias'
  <2>1. CASE merge_targets' = merge_targets
    <3>1. DeferredOnStack => DeferredOnStack'
      BY <1>1, <2>1 DEF DeferredOnStack
    <3> QED
      BY <3>1 DEF ColumnsInv, DeferredUnlessEmptyAlias
  <2>2. CASE "empty alias" \in deviations'
    BY <2>2 DEF DeferredUnlessEmptyAlias
  <2> QED
    BY <2>1, <2>2
<1>3. docs # <<>> => docs' # <<>>
  <2>1. docs \in Seq(Value) /\ docs' \in Seq(Value)
    BY <1>1, Using DEF PlacementTypeOK
  <2>2. Len(docs') = Len(docs)
    BY <1>1
  <2> QED
    BY ONLY <2>1, <2>2
<1>4. Follows(type)
  <2>1. type \notin {"start", "end", "document"} /\ stack' = stack
    BY <1>1
  <2> QED
    BY ONLY <1>3, <2>1 DEF Follows
<1> QED
  BY <1>1, <1>2, <1>4, UsedStep

LEMMA StrStep ==
    ASSUME ColumnsInv, PlaceStr, UNCHANGED streamVars, deviations \subseteq deviations'
    PROVE  ColumnsInv'
<1>1. Consume("scalar") /\ PlaceScalar(rows[1].s.val, rows[1].s.tag, rows[1].name)
  BY DEF PlaceStr
<1>2. rows[1].s \in KeyScalars \cup ValueScalars /\ rows[1].name \in Names \cup {NoName}
  BY <1>1, Using, RowTypes
<1>3. Refused \/ (Stays /\ UNCHANGED merge_targets)
  BY <1>1, <1>2, Using, ScalarKeeps
<1> QED
  BY <1>1, <1>3, RefusedUse, StaysUse

LEMMA AliasRowStep ==
    ASSUME ColumnsInv, PlaceAliasRow, UNCHANGED streamVars, deviations \subseteq deviations',
           merge_targets' # merge_targets => "empty alias" \in deviations'
    PROVE  ColumnsInv'
<1> DEFINE n == rows[1].name
           later == MayWait(anchors[n])
<1>1. Consume("alias") /\ PlaceAlias(n, later)
  BY DEF PlaceAliasRow
<1>2. n \in Names
  BY <1>1, Using, RowTypes
<1>3. later \in BOOLEAN /\ (later => anchors[n] \in Addr)
  BY DEF MayWait
<1> HIDE DEF n, later
<1>4. Refused \/ Stays
  <2>1. CASE later = TRUE
    BY <1>1, <1>2, <1>3, <2>1, Using, AliasKeeps
  <2>2. CASE later = FALSE
    BY <1>1, <1>2, <1>3, <2>2, Using, AliasKeeps
  <2> QED
    BY <1>3, <2>1, <2>2
<1> QED
  BY <1>1, <1>4, RefusedUse, StaysUse

LEMMA OpenStep ==
    ASSUME ColumnsInv, OpenCollection, UNCHANGED streamVars, deviations \subseteq deviations'
    PROVE  ColumnsInv'
<1> DEFINE r == rows[1]
           later == KindOf(r.kind, ModeOf(r.tag)) # "set"
<1>1. Consume("start") /\ OpenAt(r.at, r.kind, r.tag, r.name, later)
  BY DEF OpenCollection
<1>2. /\ r.at \in Addr /\ r.kind \in {"map", "seq"} /\ r.tag \in CollTags
      /\ r.name \in Names \cup {NoName} /\ later \in BOOLEAN
  BY <1>1, Using, RowTypes
<1> HIDE DEF r, later
<1>3. Refused \/ Opens(r.at, r.kind)
  <2>1. CASE later = TRUE
    BY <1>1, <1>2, <2>1, Using, OpenKeeps
  <2>2. CASE later = FALSE
    BY <1>1, <1>2, <2>2, Using, OpenKeeps
  <2> QED
    BY <1>2, <2>1, <2>2
<1>4. CASE Opens(r.at, r.kind)
  <2>1. /\ PlacementTypeOK' /\ FramesKept' /\ Len(docs') = Len(docs)
        /\ Len(stack') = Len(stack) + 1
    BY <1>4 DEF Opens
  <2>2. DeferredUnlessEmptyAlias'
    BY <1>4, <2>1 DEF ColumnsInv, DeferredUnlessEmptyAlias, Opens
  <2>3. docs # <<>> => docs' # <<>>
    BY <1>1, <2>1, Using DEF PlacementTypeOK
  <2>4. Follows("start")
    BY <2>1, <2>3 DEF Follows
  <2> QED
    BY <1>1, <2>1, <2>2, <2>4, UsedStep
<1> QED
  BY <1>1, <1>3, <1>4, RefusedUse

LEMMA CloseStep ==
    ASSUME ColumnsInv, CloseCollection, UNCHANGED streamVars, deviations \subseteq deviations'
    PROVE  ColumnsInv'
<1>1. Consume("end") /\ Close
  BY DEF CloseCollection
<1>2. Refused \/ Closes
  BY <1>1, Using, CloseKeeps
<1>3. CASE Closes
  <2>1. /\ PlacementTypeOK' /\ FramesKept' /\ docs' = docs
        /\ Len(stack') = Len(stack) - 1
    BY <1>3 DEF Closes
  <2>2. DeferredUnlessEmptyAlias'
    BY <1>3 DEF ColumnsInv, DeferredUnlessEmptyAlias, Closes
  <2>3. Follows("end")
    BY <2>1 DEF Follows
  <2> QED
    BY <1>1, <2>1, <2>2, <2>3, UsedStep
<1> QED
  BY <1>1, <1>2, <1>3, RefusedUse

LEMMA DocumentStep ==
    ASSUME ColumnsInv, DocumentMark, UNCHANGED streamVars, deviations \subseteq deviations'
    PROVE  ColumnsInv'
<1>1. Consume("document") /\ BeginDocument
  BY DEF DocumentMark
<1>2. /\ PlacementTypeOK' /\ FramesKept' /\ docs' # <<>>
      /\ UNCHANGED <<stack, heap, merge_targets, error>>
  BY <1>1, Using, DocumentKeeps
<1>3. DeferredUnlessEmptyAlias'
  BY <1>2 DEF ColumnsInv, DeferredUnlessEmptyAlias, DeferredOnStack
<1>4. Follows("document")
  BY <1>2 DEF Follows
<1> QED
  BY <1>1, <1>2, <1>3, <1>4, UsedStep

\* The pair path: past the placement rules, straight into the open dict.
LEMMA PairStep ==
    ASSUME ColumnsInv, PlacePair, UNCHANGED streamVars, deviations \subseteq deviations'
    PROVE  ColumnsInv'
<1>1. /\ PlacementTypeOK /\ FramesKept /\ RowsFit /\ error = "none" /\ IsPair
      /\ rows \in Seq(Row) /\ StreamTypeOK
      /\ Len(rows) = 2 /\ stack # <<>> /\ rows' = <<>>
      /\ rows[1].type = "scalar" /\ rows[2].type = "scalar"
      /\ UNCHANGED <<docs, stack, pending_key, pending_tag, modes, anchors,
                     merge_targets, fresh, closed, error, frames, doc>>
  BY DEF ColumnsInv, ColumnsTypeOK, PlacePair, IsPair, PairKey, PlainStr, streamVars
<1>2. /\ rows[1].s \in KeyScalars \cup ValueScalars
      /\ rows[2].s \in KeyScalars \cup ValueScalars
  <2>1. rows[1] \in Row /\ rows[2] \in Row
    BY <1>1
  <2> QED
    BY <1>1, <2>1, RowTypes
<1> DEFINE k == rows[1].s
           v == rows[2].s
           key == IF k.tag = "binary" \/ v.tag = "binary" THEN k.text ELSE k.val
<1>3. heap' = AddPair(heap, Parent, key, v.val)
  BY DEF PlacePair
<1>4. key \in Atoms /\ v.val \in Value
  BY <1>2, StreamAssumption DEF Value
<1> HIDE DEF key, k, v
<1>5. HeapType(heap') /\ \A a \in Addr : heap'[a].kind = heap[a].kind
  <2>1. HeapType(heap) /\ None \in Value /\ Parent \in Addr
    BY <1>1, WalkTypes, FramesFacts
  <2>2. /\ HeapType(AddPair(heap, Parent, key, v.val))
        /\ \A a \in Addr : AddPair(heap, Parent, key, v.val)[a].kind = heap[a].kind
    BY ONLY <1>4, <2>1, AddPairFacts
  <2> QED
    BY ONLY <1>3, <2>2
<1>6. PlacementTypeOK'
  BY <1>1, <1>5 DEF PlacementTypeOK, HeapType
<1>7. FramesKept'
  <2>1. OmapsAreLists'
    BY <1>1, <1>5, FramesFacts, WalkTypes DEF OmapsAreLists
  <2> QED
    BY <1>1, <2>1 DEF FramesKept, Distinct, MembersAbove
<1>8. DeferredUnlessEmptyAlias'
  BY <1>1 DEF ColumnsInv, DeferredUnlessEmptyAlias, DeferredOnStack
<1>9. Len(stack) = Len(frames) /\ (doc # "absent" => docs # <<>>)
  BY <1>1 DEF RowsFit, Behind
<1>10. RowsFit'
  BY <1>1, <1>9 DEF RowsFit
<1>11. StreamTypeOK'
  BY <1>1 DEF StreamTypeOK, streamVars
<1> QED
  BY <1>1, <1>6, <1>7, <1>8, <1>10, <1>11 DEF ColumnsInv, ColumnsTypeOK

-----------------------------------------------------------------------------
(* The invariant holds of every reachable state. *)

LEMMA ScalarDelivered == ASSUME ColumnsInv, EmitScalar PROVE ColumnsInv'
<1>1. PICK s \in KeyScalars \cup ValueScalars, n \in Names \cup {NoName} :
        ScalarNode(s, n) /\ Deliver(ScalarRow(s, n)) /\ deviations' = deviations
  BY DEF EmitScalar, DeliverScalar, RecordReads
<1> DEFINE row == ScalarRow(s, n)
<1>2. row \in Row /\ row.type = "scalar"
  BY RowsAre
<1>3. /\ StreamTypeOK' /\ Len(frames') = Len(frames) /\ NodeAllowed
      /\ doc' # "absent" => doc # "absent"
  <2>1. StreamTypeOK /\ (AtKey /\ s.tag = "merge") \in BOOLEAN
    BY DEF ColumnsInv, ColumnsTypeOK
  <2> QED
    BY <1>1, <2>1, NodeStep DEF ScalarNode, NodeAllowed, DocAfterNode
<1> HIDE DEF row
<1>4. Announces(row)
  BY <1>2, <1>3 DEF Announces
<1>5. Deliver(row)
  BY <1>1 DEF row
<1> QED
  BY <1>1, <1>2, <1>3, <1>4, <1>5, DeliverStep

LEMMA AliasDelivered == ASSUME ColumnsInv, EmitAlias PROVE ColumnsInv'
<1>1. PICK n \in Names : AliasNode /\ Deliver(AliasRow(n)) /\ deviations' = deviations
  BY DEF EmitAlias, DeliverAlias, RecordReads
<1> DEFINE row == AliasRow(n)
<1>2. row \in Row /\ row.type = "alias"
  BY RowsAre
<1>3. /\ StreamTypeOK' /\ Len(frames') = Len(frames) /\ NodeAllowed
      /\ doc' # "absent" => doc # "absent"
  <2>1. StreamTypeOK
    BY DEF ColumnsInv, ColumnsTypeOK
  <2> QED
    BY <1>1, <2>1, NodeStep DEF AliasNode, NodeAllowed, DocAfterNode
<1> HIDE DEF row
<1>4. Announces(row)
  BY <1>2, <1>3 DEF Announces
<1>5. Deliver(row)
  BY <1>1 DEF row
<1> QED
  BY <1>1, <1>2, <1>3, <1>4, <1>5, DeliverStep

LEMMA StartDelivered == ASSUME ColumnsInv, EmitStart PROVE ColumnsInv'
<1>1. PICK kind \in {"map", "seq"}, tag \in CollTags, n \in Names \cup {NoName}, a \in Addr :
        CollectionStart(kind) /\ Deliver(StartRow(a, kind, tag, n)) /\ deviations' = deviations
  BY DEF EmitStart, DeliverStart, RecordReads, R!Free, Free
<1> DEFINE row == StartRow(a, kind, tag, n)
<1>2. row \in Row /\ row.type = "start"
  BY RowsAre
<1>3. /\ StreamTypeOK' /\ Len(frames') = Len(frames) + 1 /\ NodeAllowed
      /\ doc' # "absent" => doc # "absent"
  <2>1. StreamTypeOK
    BY DEF ColumnsInv, ColumnsTypeOK
  <2>2. NodeAllowed /\ doc' = DocAfterNode
    BY <1>1 DEF CollectionStart
  <2>3. doc' # "absent" => doc # "absent"
    BY <2>2 DEF NodeAllowed, DocAfterNode
  <2> QED
    BY <1>1, <2>1, <2>2, <2>3, StartStep
<1> HIDE DEF row
<1>4. Announces(row)
  BY <1>2, <1>3 DEF Announces
<1>5. Deliver(row)
  BY <1>1 DEF row
<1> QED
  BY <1>1, <1>2, <1>3, <1>4, <1>5, DeliverStep

LEMMA EndDelivered == ASSUME ColumnsInv, EmitEnd PROVE ColumnsInv'
<1>1. CollectionEnd /\ Deliver(EndRow) /\ deviations' = deviations
  BY DEF EmitEnd, DeliverEnd, RecordReads
<1>2. StreamTypeOK /\ Len(frames) \in Nat
  BY DEF ColumnsInv, ColumnsTypeOK, StreamTypeOK
<1>3. StreamTypeOK' /\ Len(frames') = Len(frames) - 1 /\ doc' = doc
  BY <1>1, <1>2, EndStep DEF CollectionEnd
<1>4. Announces(EndRow)
  BY <1>2, <1>3, RowsAre DEF Announces, IsNode
<1> QED
  BY <1>1, <1>3, <1>4, RowsAre, DeliverStep

LEMMA DocumentDelivered == ASSUME ColumnsInv, EmitDocument PROVE ColumnsInv'
<1>1. DocumentStart /\ Deliver(DocumentRow) /\ deviations' = deviations
  BY DEF EmitDocument, DeliverDocument, RecordReads
<1>2. StreamTypeOK' /\ frames = <<>> /\ frames' = frames
  BY <1>1 DEF ColumnsInv, ColumnsTypeOK, StreamTypeOK, DocumentStart
<1>3. Announces(DocumentRow)
  BY <1>2, RowsAre DEF Announces, IsNode
<1> QED
  BY <1>1, <1>2, <1>3, RowsAre, DeliverStep

LEMMA WalkStep == ASSUME ColumnsInv, ColumnsStep PROVE ColumnsInv'
<1>1. /\ UNCHANGED streamVars
      /\ deviations \subseteq deviations'
      /\ rows[1].type = "alias" /\ merge_targets' # merge_targets =>
            "empty alias" \in deviations'
  BY DEF ColumnsStep
<1>2. CASE PlacePair
  BY <1>1, <1>2, PairStep
<1>3. CASE PlaceStr
  BY <1>1, <1>3, StrStep
<1>4. CASE OpenCollection
  BY <1>1, <1>4, OpenStep
<1>5. CASE CloseCollection
  BY <1>1, <1>5, CloseStep
<1>6. CASE DocumentMark
  BY <1>1, <1>6, DocumentStep
<1>7. CASE PlaceAliasRow
  <2>1. rows[1].type = "alias"
    BY <1>7 DEF PlaceAliasRow, Consume
  <2> QED
    BY <1>1, <1>7, <2>1, AliasRowStep
<1> QED
  BY <1>2, <1>3, <1>4, <1>5, <1>6, <1>7 DEF ColumnsStep, ColumnsNext

LEMMA InitColumnsInv == Init => ColumnsInv
<1> SUFFICES ASSUME Init PROVE ColumnsInv
  OBVIOUS
<1>1. None \in Value /\ "notag" \in Tags /\ "plain" \in Modes
  BY StreamAssumption DEF Value, Tags, Modes
<1>2. Empty("list") \in Container
  BY DEF Empty, Container
<1>3. StreamTypeOK
  BY StreamAssumption DEF Init, ColumnsInit, StreamInit, StreamTypeOK
<1>4. PlacementTypeOK
  BY <1>1, <1>2 DEF Init, ColumnsInit, PlacementInit, PlacementTypeOK, Errors
<1>5. FramesKept /\ DeferredOnStack
  BY DEF Init, ColumnsInit, PlacementInit, FramesKept, Distinct, MembersAbove, OmapsAreLists,
     DeferredOnStack
<1>6. RowsFit /\ rows = <<>>
  BY DEF Init, ColumnsInit, StreamInit, PlacementInit, RowsFit
<1> QED
  BY <1>3, <1>4, <1>5, <1>6 DEF ColumnsInv, ColumnsTypeOK, DeferredUnlessEmptyAlias

LEMMA NextColumnsInv == ColumnsInv /\ [Next]_lockVars => ColumnsInv'
<1> SUFFICES ASSUME ColumnsInv, [Next]_lockVars PROVE ColumnsInv'
  OBVIOUS
<1>1. CASE UNCHANGED lockVars
  <2>1. UNCHANGED <<streamVars, walkVars, rows, deviations>>
    BY <1>1 DEF lockVars
  <2>2. /\ PlacementTypeOK' /\ FramesKept' /\ (DeferredOnStack => DeferredOnStack')
        /\ StreamTypeOK'
    BY <2>1, WalkUntouched DEF ColumnsInv, ColumnsTypeOK, StreamTypeOK, streamVars
  <2>3. RowsFit' /\ DeferredUnlessEmptyAlias'
    BY <2>1, <2>2 DEF ColumnsInv, RowsFit, Behind, DeferredUnlessEmptyAlias, streamVars, walkVars
  <2> QED
    BY <2>1, <2>2, <2>3 DEF ColumnsInv, ColumnsTypeOK
<1> QED
  BY <1>1, ScalarDelivered, AliasDelivered, StartDelivered, EndDelivered, DocumentDelivered,
     WalkStep DEF Next

(* What load_all_columns relies on when it uses a row - the four lists, the   *)
(* shapes, and of the rows it has looked ahead at - always holds.            *)
THEOREM ColumnsInductive == Spec => []ColumnsInv
<1> QED
  BY InitColumnsInv, NextColumnsInv, PTL DEF Spec

(* Every list, heap cell and anchor of the columns walk keeps its type, and   *)
(* it never looks further than one row ahead.                                *)
THEOREM ColumnsTypeCorrect == Spec => []ColumnsTypeOK
<1>1. ColumnsInv => ColumnsTypeOK
  BY DEF ColumnsInv
<1> QED
  BY <1>1, ColumnsInductive, PTL

(* load_all_columns' parallel lists never part from its open containers, nor, *)
(* once it has used the rows drained, from the collections the engine holds  *)
(* open, whatever it places by the pair path.                                *)
THEOREM ColumnsKeepAligned == Spec => []ColumnsAligned
<1>1. ColumnsInv => ColumnsAligned
  BY DEF ColumnsInv, FramesKept, RowsFit, ColumnsAligned
<1> QED
  BY <1>1, ColumnsInductive, PTL

(* Until an alias to an empty collection has made it wait, every merge that   *)
(* waits in the columns walk is for an open container, into the one just     *)
(* below it.                                                                 *)
THEOREM ColumnsDeferredOnStack == Spec => []DeferredUnlessEmptyAlias
<1>1. ColumnsInv => DeferredUnlessEmptyAlias
  BY DEF ColumnsInv
<1> QED
  BY <1>1, ColumnsInductive, PTL

=================================================================================
