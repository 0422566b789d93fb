------------------------------ MODULE ColumnsWalk ------------------------------
(***************************************************************************)
(* load_all_columns (yeptris/_loader.py): the columnar twin of load_all.   *)
(* It reads rows with one row of lookahead: a string key directly followed *)
(* by a string value in a dict is placed as a pair, without the placement  *)
(* rules.  A row of kind ANCHOR and the node it names are one row here:    *)
(* pending_anchor is never set between two nodes.                          *)
(***************************************************************************)
EXTENDS Placement

VARIABLE rows        \* drained rows the walk has not consumed, at most two

ScalarRow(s, name) == [type |-> "scalar", s |-> s, name |-> name]
StartRow(a, kind, tag, name) ==
    [type |-> "start", at |-> a, kind |-> kind, tag |-> tag, name |-> name]
EndRow == [type |-> "end"]
DocumentRow == [type |-> "document"]
AliasRow(name) == [type |-> "alias", name |-> name]

Row == [type : {"scalar"}, s : KeyScalars \cup ValueScalars, name : Names \cup {NoName}]
       \cup [type : {"start"}, at : Addr, kind : {"map", "seq"}, tag : CollTags,
             name : Names \cup {NoName}]
       \cup [type : {"alias"}, name : Names]
       \cup [type : {"end", "document"}]

-----------------------------------------------------------------------------
\* The rows the columnar drain gives kind STR.
IsStr(s) == s.tag \in {"str", "merge", "binary"}

PlainStr(row) == row.type = "scalar" /\ row.name = NoName /\ IsStr(row.s)

\* The stream's next node is a value, so the last row emitted was a key.
LastRowIsKey == frames # <<>> /\ Inner.half

\* A key the pair path would take if a string value follows.
PairKey(row) == PlainStr(row) /\ stack # <<>> /\ heap[Parent].kind = "dict"

Lookahead == Len(rows) = 1 /\ LastRowIsKey /\ PairKey(rows[1])

\* Slip: a plain "<<" before a string is a pair like any other.
IsPairMergeToo == Len(rows) = 2 /\ PairKey(rows[1]) /\ PlainStr(rows[2])

IsPair == /\ Len(rows) = 2 /\ PairKey(rows[1]) /\ PlainStr(rows[2])
          /\ rows[2].s.tag = "binary" \/ rows[1].s.text # MergeText

\* Both scalars keep their text, reshaped if implicit; only a !!binary value is
\* decoded, and then the key is not even reshaped.
PlacePair ==
    LET k == rows[1].s
        v == rows[2].s
        key == IF k.tag = "binary" \/ v.tag = "binary" THEN k.text ELSE k.val
    IN  /\ error = "none" /\ IsPair
        /\ heap' = AddPair(heap, Parent, key, v.val)
        /\ rows' = <<>>
        /\ UNCHANGED <<docs, stack, pending_key, pending_tag, modes, anchors,
                       merge_targets, fresh, closed, error>>

-----------------------------------------------------------------------------
\* The next row is not part of a pair.
Consume(type) ==
    /\ error = "none"
    /\ rows # <<>> /\ ~Lookahead /\ ~IsPair
    /\ rows[1].type = type
    /\ rows' = Tail(rows)

PlaceStr == Consume("scalar") /\ PlaceScalar(rows[1].s.val, rows[1].s.tag, rows[1].name)

\* _place defers only lists and dicts: a fresh set under '<<' merges at once.
OpenCollection ==
    /\ Consume("start")
    /\ LET r == rows[1] IN
       OpenAt(r.at, r.kind, r.tag, r.name, KindOf(r.kind, ModeOf(r.tag)) # "set")

CloseCollection == Consume("end") /\ Close

DocumentMark == Consume("document") /\ BeginDocument

\* An alias to any list or dict that is empty waits for that container's close.
MayWait(v) == v \in Addr /\ heap[v].kind # "set" /\ IsEmpty(heap, v)

PlaceAliasRow ==
    /\ Consume("alias")
    /\ PlaceAlias(rows[1].name, MayWait(anchors[rows[1].name]))

ColumnsNext ==
    \/ PlacePair
    \/ PlaceStr
    \/ OpenCollection
    \/ CloseCollection
    \/ DocumentMark
    \/ PlaceAliasRow

-----------------------------------------------------------------------------
(* The drain delivers the next event as a row, when the walk has used those  *)
(* before it or looks one row ahead.                                         *)
MayDeliver == rows = <<>> \/ Lookahead

Deliver(row) ==
    /\ MayDeliver
    /\ rows' = IF error = "none" THEN Append(rows, row) ELSE <<>>
    /\ UNCHANGED walkVars

DeliverScalar(s, name) == ScalarNode(s, name) /\ Deliver(ScalarRow(s, name))

DeliverStart(a, kind, tag, name) ==
    a \in Free /\ CollectionStart(kind) /\ Deliver(StartRow(a, kind, tag, name))

DeliverEnd == CollectionEnd /\ Deliver(EndRow)

DeliverDocument == DocumentStart /\ Deliver(DocumentRow)

DeliverAlias(name) == AliasNode /\ Deliver(AliasRow(name))

ColumnsInit == StreamInit /\ PlacementInit /\ rows = <<>>

-----------------------------------------------------------------------------
(* The columns walk's state has the types the code gives it, and it never     *)
(* looks further than one row ahead.                                         *)
ColumnsTypeOK ==
    /\ StreamTypeOK /\ PlacementTypeOK
    /\ rows \in Seq(Row) /\ Len(rows) <= 2

(* The four parallel lists of the columns walk, like the record walk's, hold *)
(* one entry per open container above the sentinel, of the kinds opened.     *)
ColumnsAligned ==
    error = "none" =>
        /\ Len(pending_key) = Len(stack) + 1
        /\ Len(pending_tag) = Len(stack) + 1
        /\ Len(modes) = Len(stack) + 1
        /\ rows = <<>> => Len(stack) = Len(frames)

-----------------------------------------------------------------------------
\* How far the walk is behind the stream: by its last row.
Behind(row) ==
    /\ row.type = "start" => Len(frames) = Len(stack) + 1
    /\ row.type = "end" => Len(stack) = Len(frames) + 1
    /\ row.type \notin {"start", "end"} => Len(stack) = Len(frames)

IsNode(row) == row.type \in {"scalar", "start", "alias"}

(* What the columns walk may rely on of the rows it has not used: two only   *)
(* when the first is a string key in a dict, and a node only where it has a  *)
(* place, an open container or the root of a document begun.                 *)
RowsFit ==
    error = "none" =>
        /\ rows = <<>> => Len(stack) = Len(frames)
        /\ rows # <<>> => Behind(rows[Len(rows)])
        /\ Len(rows) = 2 => PlainStr(rows[1]) /\ stack # <<>> /\ rows[2].type # "document"
        /\ rows # <<>> /\ IsNode(rows[1]) => stack # <<>> \/ docs # <<>>
        /\ doc # "absent" => docs # <<>> \/ (rows # <<>> /\ rows[1].type = "document")
=============================================================================
