------------------------------- MODULE DumpReload -------------------------------
(***************************************************************************)
(* What dump_all wrote, read back by load_all.  The engine between the two *)
(* is external: it builds a document from its entries, serializes it, and  *)
(* its events are those entries again, a tag on the node placed before it. *)
(* What is quoted stays a str; a plain scalar is resolved from its text.   *)
(***************************************************************************)
EXTENDS RecordWalk, DumpWalk

CONSTANT Resolved    \* the tag and value the loader gives the plain text of a scalar

ASSUME ResolvedAssumption ==
    Scalars = Atoms /\ Null = None /\ Resolved \in [Scalars -> [tag : Tags, val : Atoms]]

VARIABLE at          \* the entries of the current document read back

reloadVars == <<vars, dumpVars, at>>

ReloadInit == DumpInit /\ Init /\ at = 0

Entries == parts[ndocs]
DocumentRead == at = IF ndocs = 0 THEN 0 ELSE Len(Entries)
Upcoming == Entries[at + 1]
Tagged == at + 1 < Len(Entries) /\ Entries[at + 2].op = "tag"

Consume == at' = at + (IF Tagged THEN 2 ELSE 1)

Read(s) ==
    IF Tagged THEN [text |-> s.text, tag |-> Entries[at + 2].tag, val |-> s.text]
    ELSE IF s.style = "quoted" THEN [text |-> s.text, tag |-> "str", val |-> s.text]
    ELSE [text |-> s.text, tag |-> Resolved[s.text].tag, val |-> Resolved[s.text].val]

ReloadDocument == DocumentRead /\ ReadDocument /\ ndocs < Len(parts) /\ at' = 0

ReloadScalar ==
    /\ Upcoming.op = "scalar"
    /\ ScalarNode(Read(Upcoming), NoName) /\ Scalar(Read(Upcoming), NoName)
    /\ Consume

ReloadStart ==
    /\ Upcoming.op \in {"map", "seq"}
    /\ CollectionStart(Upcoming.op)
    /\ Start(CHOOSE a \in Free : TRUE, Upcoming.op, IF Tagged THEN Entries[at + 2].tag ELSE "plain", NoName)
    /\ Consume

ReloadEnd == Upcoming.op = "end" /\ ReadEnd /\ Consume

Reload ==
    \/ ReloadDocument
    \/ ~DocumentRead /\ ReloadScalar
    \/ ~DocumentRead /\ ReloadStart
    \/ ~DocumentRead /\ ReloadEnd

ReloadNext ==
    \/ DumpNext /\ UNCHANGED <<vars, at>>
    \/ dumped = "text" /\ Reload /\ UNCHANGED dumpVars

\* One thread runs the dump and then the load.
ReloadSpec == ReloadInit /\ [][ReloadNext]_reloadVars /\ WF_reloadVars(ReloadNext)

-----------------------------------------------------------------------------
Loaded == dumped = "text" /\ ndocs = Len(parts) /\ DocumentRead /\ frames = <<>>

\* v was dumped as w: a tuple is read back as a list.
Same ==
    LET same[n \in 0 .. MaxNesting + 1, v \in Scalars \cup Objs, w \in Value] ==
            IF v \in Scalars THEN w = v
            ELSE /\ n > 0 /\ w \in Addr
                 /\ LET xs == objects[v].items
                        c == heap[w]
                    IN  CASE ObjKind(v) = "dict" ->
                               /\ c.kind = "dict" /\ Keys(c) = {xs[i][1] : i \in DOMAIN xs}
                               /\ \A i \in DOMAIN xs : same[n - 1, xs[i][2], c.pairs[xs[i][1]]]
                          [] ObjKind(v) = "set" -> c.kind = "set" /\ Keys(c) = Range(xs)
                          [] OTHER ->
                               /\ c.kind = "list" /\ Len(c.elems) = Len(xs)
                               /\ \A i \in DOMAIN xs : same[n - 1, xs[i], c.elems[i]]
    IN  same

(* What dump_all writes, load_all reads back as the same values: a str never *)
(* comes back as another type or as a merge, keys and items keep their       *)
(* places, an object shared by several containers comes back in each.        *)
RoundTrip ==
    /\ error = "none"
    /\ Loaded => /\ Len(docs) = Len(values)
                 /\ \A i \in DOMAIN docs : Same[MaxNesting + 1, values[i], docs[i]]

(* The dump ends, in a text or in an error, for values that contain          *)
(* themselves too, and every text it writes is read to its end.              *)
Ends == <>(Loaded \/ dumped \in {"EmitterError", "RepresenterError"})
=============================================================================
