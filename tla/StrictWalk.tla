------------------------------- MODULE StrictWalk -------------------------------
(***************************************************************************)
(* The other engine of json.loads (_fallback_loads and _walk_columns of    *)
(* yeptris/json.py), given each text that the native engine has looked at  *)
(* to its end.  The gate and the column drain are external: the gate takes *)
(* what RFC 8259 takes, and the drain has a row for every token but the    *)
(* punctuation between them.                                               *)
(***************************************************************************)
EXTENDS NativeJson, JsonGrammar, SequencesExt

VARIABLES
    engine,          \* how far the engine is: "idle", "walking", or what it answers
    row,             \* the last row walked, by its token's place in the text
    stack,           \* the open containers, innermost last
    pending,         \* per open container, after a sentinel: the key awaiting its
                     \* value, as a sequence of at most one
    built,           \* the containers created, which refer to one another by number
    root             \* the completed root, as a sequence of at most one

strictVars == <<engine, row, stack, pending, built, root>>

StrictInit ==
    /\ engine = "idle" /\ row = 0
    /\ stack = <<>> /\ pending = << <<>> >> /\ built = <<>> /\ root = <<>>

\* The tokens that have a row, those still to be walked, and the next.
RowPlaces == {i \in DOMAIN read : read[i].kind \notin {":", ",", "end"}}
Ahead == {i \in RowPlaces : i > row}
NextRow == Min(Ahead)
Row == read[NextRow]

Innermost == stack[Len(stack)]
PendingKey == pending[Len(pending)]
InList == stack # <<>> /\ "list" \in DOMAIN built[Innermost]
SetPending(k) == [pending EXCEPT ![Len(pending)] = k]

\* What the parent becomes once it has received v, and its pending key.
Received(v) ==
    IF InList THEN [built EXCEPT ![Innermost] = List(Append(@.list, v))]
    ELSE IF PendingKey = <<>> THEN built
    ELSE [built EXCEPT ![Innermost] = Dict(Put(@.dict, PendingKey[1], v))]

\* Slip: a key stays pending after its value.
PendingAfterKept(v) ==
    IF InList \/ stack = <<>> THEN pending
    ELSE IF PendingKey = <<>> THEN SetPending(<<v.atom[2]>>)
    ELSE pending

PendingAfter(v) ==
    IF InList \/ stack = <<>> THEN pending
    ELSE IF PendingKey = <<>> THEN SetPending(<<v.atom[2]>>)
    ELSE SetPending(<<>>)

-----------------------------------------------------------------------------
\* The gate; what it rejects goes to stdlib's loads, for NaN and Infinity.
Gate ==
    /\ mode = "done" /\ engine = "idle" /\ read[Len(read)].kind = "end"
    /\ engine' = IF IsStrict(read) THEN "walking" ELSE IF IsJson(read) THEN "value" ELSE "rejected"
    /\ root' = IF engine' = "value" THEN <<CHOOSE v \in Meanings(read) : TRUE>> ELSE root
    /\ UNCHANGED <<row, stack, pending, built>>

ScalarRow ==
    /\ Row.kind \in ScalarKinds
    /\ IF stack = <<>> THEN root' = <<Atom(Row)>> /\ UNCHANGED built
       ELSE built' = Received(Atom(Row)) /\ UNCHANGED root
    /\ pending' = PendingAfter(Atom(Row))
    /\ UNCHANGED stack

\* A container goes into its parent when it opens, and is filled there.
OpenRow ==
    /\ Row.kind \in Openers
    /\ LET c == Len(built) + 1
           ref == [ref |-> <<c>>]
       IN  /\ built' = Append(IF stack = <<>> THEN built ELSE Received(ref),
                              IF Row.kind = "{" THEN Dict(<<>>) ELSE List(<<>>))
           /\ stack' = Append(stack, c)
           /\ pending' = Append(PendingAfter(ref), <<>>)
    /\ UNCHANGED root

CloseRow ==
    /\ Row.kind \in {"}", "]"}
    /\ stack' = Front(stack) /\ pending' = Front(pending)
    /\ root' = IF stack' = <<>> THEN <<[ref |-> <<Innermost>>]>> ELSE root
    /\ UNCHANGED built

WalkRow ==
    /\ engine = "walking" /\ Ahead # {}
    /\ ScalarRow \/ OpenRow \/ CloseRow
    /\ row' = NextRow
    /\ UNCHANGED engine

Answer ==
    /\ engine = "walking" /\ Ahead = {}
    /\ engine' = IF root = <<>> THEN "rejected" ELSE "value"
    /\ UNCHANGED <<row, stack, pending, built, root>>

BothInit == Init /\ StrictInit
BothNext ==
    \/ Next /\ UNCHANGED strictVars
    \/ (Gate \/ WalkRow \/ Answer) /\ UNCHANGED vars

BothSpec == BothInit /\ [][BothNext]_<<vars, strictVars>>

-----------------------------------------------------------------------------
(* A value that loads returns is what the input means as JSON, cached        *)
(* strings and repeated keys included.                                       *)
AcceptedMeansJson ==
    outcome = "value" => Meanings(read) = {hand[1]}

\* Texts that can complete a JSON text cut off after a token.
Completions ==
    LET num == [kind |-> "num", text |-> ""]
        punct(k) == [kind |-> k, text |-> ""]
        closers == UNION {[1..n -> {punct("}"), punct("]")}] : n \in 0..MaxDepth}
        rests == {<<>>, <<num>>, <<punct(":"), num>>}
                   \union {<<[kind |-> "str", text |-> x], punct(":"), num>> : x \in Texts}
    IN  {<<>>} \union {r \o c \o <<punct("end")>> : r \in rests, c \in closers}

(* A syntax error is reported only for a text that no continuation makes     *)
(* JSON: loads rejects nothing that the grammar takes, short of the depth    *)
(* limit.                                                                    *)
RejectedIsNotJson ==
    cause = "syntax" => \A c \in Completions : ~IsJson(read \o c)

-----------------------------------------------------------------------------
\* What a value that refers to containers stands for, and what a container does,
\* whole being what the containers stand for.
Deref(whole, x) == IF "ref" \in DOMAIN x THEN whole[x.ref[1]] ELSE x

Contents(whole, c) ==
    IF "list" \in DOMAIN c THEN List([i \in DOMAIN c.list |-> Deref(whole, c.list[i])])
    ELSE Dict([k \in DOMAIN c.dict |-> Deref(whole, c.dict[k])])

\* A container refers to those created after it.
Whole(x) ==
    LET whole[v \in DOMAIN built] == Contents(whole, built[v])
    IN  Deref(whole, x)

(* The two engines of json.loads mean the same by every text: what the      *)
(* columns walk answers is what the text means, with repeated keys and the   *)
(* constants NaN and Infinity as stdlib has them, and the native engine      *)
(* answers it too, short of its depth limit and of memory; what one rejects  *)
(* so does the other.                                                        *)
EnginesAgree ==
    /\ engine = "value" =>
           /\ Meanings(read) = {Whole(root[1])}
           /\ outcome = "value" => hand = <<Whole(root[1])>>
           /\ cause # "syntax"
    /\ engine = "rejected" => outcome # "value"
=============================================================================
