-------------------------------- MODULE Lockstep --------------------------------
(***************************************************************************)
(* load_all_columns beside load_all on one stream: "the walk is load_all's *)
(* lockstep twin - same placement semantics" (yeptris/_loader.py).  Each   *)
(* event the stream delivers is read by the record walk, whose variables   *)
(* are prefixed r_, and becomes a row of the columns walk.  Both give a    *)
(* new container an address that is free in both heaps, so their results   *)
(* can be compared by equality.                                            *)
(***************************************************************************)
EXTENDS ColumnsWalk

VARIABLES r_docs, r_stack, r_pending_key, r_pending_tag, r_modes, r_anchors,
          r_merge_targets, r_heap, r_fresh, r_closed, r_error

R == INSTANCE RecordWalk WITH
        docs <- r_docs, stack <- r_stack, pending_key <- r_pending_key,
        pending_tag <- r_pending_tag, modes <- r_modes, anchors <- r_anchors,
        merge_targets <- r_merge_targets, heap <- r_heap, fresh <- r_fresh,
        closed <- r_closed, error <- r_error

VARIABLE deviations   \* "empty alias": the columns walk has deferred a merge for an alias
                      \* "set early": it has refused a set under '<<' before reading it
                      \* "stale tag": it has placed a pair in an ordered map's member
                      \* whose pending_tag is still that of a '<<'

recordVars == <<r_docs, r_stack, r_pending_key, r_pending_tag, r_modes, r_anchors,
                r_merge_targets, r_heap, r_fresh, r_closed, r_error>>

lockVars == <<streamVars, walkVars, rows, recordVars, deviations>>

Init ==
    /\ ColumnsInit
    /\ R!PlacementInit
    /\ deviations = {}

-----------------------------------------------------------------------------
RecordReads(A) ==
    /\ error = "none" \/ r_error = "none"
    /\ IF r_error = "none" THEN A ELSE UNCHANGED recordVars
    /\ UNCHANGED deviations

EmitScalar == \E s \in KeyScalars \cup ValueScalars, n \in Names \cup {NoName} :
    DeliverScalar(s, n) /\ RecordReads(R!Scalar(s, n))

EmitStart ==
    \E kind \in {"map", "seq"}, tag \in CollTags, n \in Names \cup {NoName}, a \in R!Free :
        DeliverStart(a, kind, tag, n) /\ RecordReads(R!Start(a, kind, tag, n))

EmitEnd == DeliverEnd /\ RecordReads(R!End)

EmitDocument == DeliverDocument /\ RecordReads(R!Document)

EmitAlias == \E n \in Names : DeliverAlias(n) /\ RecordReads(R!Alias(n))

RefusesSet(row) == error' # "none" /\ MergeAwaitsValue /\ KindOf(row.kind, ModeOf(row.tag)) = "set"

LeavesTag == IsPair /\ Top(modes) = "omap_member" /\ Top(pending_tag) = "merge"

ColumnsStep ==
    /\ ColumnsNext
    /\ deviations' = deviations
          \cup (IF rows[1].type = "alias" /\ merge_targets' # merge_targets THEN {"empty alias"} ELSE {})
          \cup (IF rows[1].type = "start" /\ RefusesSet(rows[1]) THEN {"set early"} ELSE {})
          \cup (IF LeavesTag THEN {"stale tag"} ELSE {})
    /\ UNCHANGED <<streamVars, recordVars>>

Next == EmitScalar \/ EmitStart \/ EmitEnd \/ EmitDocument \/ EmitAlias \/ ColumnsStep

Spec == Init /\ [][Next]_lockVars

-----------------------------------------------------------------------------
(* The state the columns walk and the record walk keep is well typed. *)
TypeOK == ColumnsTypeOK /\ R!PlacementTypeOK

\* Both walks have seen the whole stream, or raised.
Finished == \/ frames = <<>> /\ rows = <<>>
            \/ error # "none" /\ r_error # "none"

SameResult == docs = r_docs /\ \A a \in Reachable(Range(docs) \cap Addr) : heap[a] = r_heap[a]

(* The lockstep law: the two walks return equal documents or raise the same *)
(* class of error.  It is asked of the streams where no '<<' names an empty  *)
(* collection by an alias, where the columns walk waits for a close that     *)
(* does not come; where '<<' holds a set, which the columns walk refuses at  *)
(* its start and load_all at its end, an error inside the set may give       *)
(* another class; and an ordered map's member that ends in a pair after a    *)
(* '<<' is refused by the columns walk alone, whose pair path leaves the tag *)
(* of the '<<' in place.                                                     *)
LockstepUnlessEmptyAlias ==
    Finished /\ "empty alias" \notin deviations =>
        IF error = "none" THEN r_error = "none" /\ SameResult
        ELSE \/ r_error = error
             \/ r_error # "none" /\ "set early" \in deviations
             \/ error = "ConstructorError" /\ "stale tag" \in deviations

(* The columns walk's waiting merges, under the same condition: each is for  *)
(* an open container, into the one just below it, so that the address in     *)
(* merge_targets never comes to name another container.                      *)
DeferredUnlessEmptyAlias == "empty alias" \notin deviations => DeferredOnStack

(* The strengthening under which the columns walk's lists are inductive. *)
ColumnsInv == ColumnsTypeOK /\ FramesKept /\ RowsFit /\ DeferredUnlessEmptyAlias

(* The law for the streams both walks accept: they return equal documents.   *)
AcceptedAlike ==
    Finished /\ error = "none" /\ r_error = "none" => SameResult
=============================================================================
