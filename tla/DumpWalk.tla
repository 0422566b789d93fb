-------------------------------- MODULE DumpWalk --------------------------------
(***************************************************************************)
(* dump_all (yeptris/_dumper.py): every value is walked by _entries into a *)
(* buffer of build entries, which the engine turns into one document.  A   *)
(* value is a scalar or an object with an identity, so that objects may be *)
(* shared and may contain themselves.  The order of a dict's pairs and the *)
(* text of a scalar are left out: a scalar is its text.                    *)
(***************************************************************************)
EXTENDS Naturals, Sequences, FiniteSets

CONSTANTS
    Scalars,         \* the scalars the checks tell apart
    Shape,           \* the shape _plain_ok sees in the text of each str
    Bytes,           \* the scalars that are bytes
    Odd,             \* those of a type with no safe form
    Null,            \* the scalar None
    Objs,            \* the identities of list, tuple, dict and set objects
    Inputs,          \* what dump_all may be given: [values, objects]
    MaxNesting,      \* _MAX_DEPTH
    InitialEst       \* entries the buffer has room for at first

Kinds == {"list", "tuple", "dict", "set", "subclass"}
Shapes == {"word", "reserved", "number", "merge"}
Strings == DOMAIN Shape

\* A dict's items are pairs.
Object == [kind : Kinds, items : Seq(Scalars \cup Objs \cup ((Scalars \cup Objs) \X (Scalars \cup Objs)))]

ASSUME DumpAssumption ==
    /\ Scalars \cap Objs = {}
    /\ Shape \in [Strings -> Shapes] /\ Strings \subseteq Scalars
    /\ Bytes \cup Odd \subseteq Scalars \ Strings /\ Null \in Scalars \ Strings
    /\ MaxNesting \in Nat /\ InitialEst \in Nat \ {0}
    /\ \A x \in Inputs : x.values \in Seq(Scalars \cup Objs) /\ x.objects \in [Objs -> Object]

VARIABLES
    values,          \* the values given to dump_all
    objects,         \* the contents of the objects
    calls,           \* the active calls of _entries on containers, innermost last
    buffer,          \* build_document's ents, est and cursor
    parts,           \* the entries of each document built
    dumped           \* how far dump_all is: "walking", "text", or what it raised

dumpVars == <<values, objects, calls, buffer, parts, dumped>>

Blank == [op |-> "blank"]
Open(op) == [op |-> op]
Tag(t) == [op |-> "tag", tag |-> t]
ScalarEntry(v, style) == [op |-> "scalar", text |-> v, style |-> style]

NewBuffer == [ents |-> [i \in 1..InitialEst |-> Blank], est |-> InitialEst, cursor |-> 0]

DumpInit ==
    /\ \E x \in Inputs : values = x.values /\ objects = x.objects
    /\ calls = <<>>
    /\ buffer = NewBuffer
    /\ parts = <<>>
    /\ dumped = "walking"

-----------------------------------------------------------------------------
(* The buffer. *)

\* Slip: the larger buffer starts empty.
GrownEmpty(b) ==
    [b EXCEPT !.est = 2 * b.est, !.ents = [i \in 1 .. 2 * b.est |-> Blank]]

Grown(b) ==
    [b EXCEPT !.est = 2 * b.est,
              !.ents = [i \in 1 .. 2 * b.est |-> IF i <= b.cursor THEN b.ents[i] ELSE Blank]]

Packed(b, e) ==
    LET room == IF b.cursor >= b.est THEN Grown(b) ELSE b
    IN  [room EXCEPT !.ents[b.cursor + 1] = e, !.cursor = @ + 1]

\* A value is one entry, or two when it has a tag.
Emit(es) ==
    LET first == Packed(buffer, es[1])
    IN  buffer' = IF Len(es) = 1 THEN first ELSE Packed(first, es[2])

-----------------------------------------------------------------------------
(* What one value becomes. *)

\* Slip: "<<" is left plain.
PlainOkMerge(v) == Shape[v] \notin {"reserved", "number"}

PlainOk(v) == Shape[v] \notin {"reserved", "number", "merge"}

ScalarEntries(v) ==
    IF v \in Bytes THEN <<ScalarEntry(v, "literal"), Tag("binary")>>
    ELSE IF v \in Strings THEN <<ScalarEntry(v, IF PlainOk(v) THEN "plain" ELSE "quoted")>>
    ELSE <<ScalarEntry(v, "plain")>>

\* A set is a tagged mapping; the tag follows the entry it tags.
OpenEntries(kind) ==
    IF kind \in {"list", "tuple"} THEN <<Open("seq")>>
    ELSE IF kind = "set" THEN <<Open("map"), Tag("set")>>
    ELSE <<Open("map")>>

ObjKind(v) == objects[v].kind
UnsupportedIn(objs, v) == IF v \in Objs THEN objs[v].kind = "subclass" ELSE v \in Odd
Unsupported(v) == UnsupportedIn(objects, v)

-----------------------------------------------------------------------------
(* Where the walk is.  half: the item's key is written, its value is not. *)

Caller == calls[Len(calls)]
Kind == ObjKind(Caller.obj)
Items == objects[Caller.obj].items
Finished == Caller.at > Len(Items)

KeyTurn == Kind \in {"dict", "set"} /\ ~Caller.half
NullTurn == Kind = "set" /\ Caller.half

Turn == IF Kind = "dict" THEN Items[Caller.at][IF Caller.half THEN 2 ELSE 1] ELSE Items[Caller.at]

\* The calls once that value is written.
Onward == IF KeyTurn THEN [Caller EXCEPT !.half = TRUE] ELSE [Caller EXCEPT !.half = FALSE, !.at = @ + 1]
Advanced == [calls EXCEPT ![Len(calls)] = Onward]

Walking == dumped = "walking"
InValue == Walking /\ calls # <<>>

\* The values whose turn it is: the next root, or a child not written inline.
Inline == KeyTurn /\ Turn \in Strings

RootTurn == Walking /\ calls = <<>> /\ buffer.cursor = 0 /\ Len(parts) < Len(values)
ChildTurn == InValue /\ ~Finished /\ ~NullTurn /\ ~Inline

Visited == IF calls = <<>> THEN values[Len(parts) + 1] ELSE Turn
Rest == IF calls = <<>> THEN <<>> ELSE Advanced

\* Slip: the limit is tested one level late.
TooDeepLate == Len(calls) > MaxNesting + 1

\* The depth of a call is the number of calls around it.
TooDeep == Len(calls) > MaxNesting

-----------------------------------------------------------------------------
Refuse ==
    /\ RootTurn \/ ChildTurn
    /\ TooDeep \/ Unsupported(Visited)
    /\ dumped' = IF TooDeep THEN "EmitterError" ELSE "RepresenterError"
    /\ UNCHANGED <<values, objects, calls, buffer, parts>>

WriteScalar ==
    /\ RootTurn \/ ChildTurn
    /\ ~TooDeep /\ Visited \in Scalars /\ ~Unsupported(Visited)
    /\ Emit(ScalarEntries(Visited))
    /\ calls' = Rest
    /\ UNCHANGED <<values, objects, parts, dumped>>

Enter ==
    /\ RootTurn \/ ChildTurn
    /\ ~TooDeep /\ Visited \in Objs /\ ~Unsupported(Visited)
    /\ Emit(OpenEntries(ObjKind(Visited)))
    /\ calls' = Append(Rest, [obj |-> Visited, at |-> 1, half |-> FALSE])
    /\ UNCHANGED <<values, objects, parts, dumped>>

\* A str key, or a str item of a set, is written without a call.
WriteInline ==
    /\ InValue /\ ~Finished /\ Inline
    /\ Emit(ScalarEntries(Turn))
    /\ calls' = Advanced
    /\ UNCHANGED <<values, objects, parts, dumped>>

WriteNull ==
    /\ InValue /\ ~Finished /\ NullTurn
    /\ Emit(ScalarEntries(Null))
    /\ calls' = Advanced
    /\ UNCHANGED <<values, objects, parts, dumped>>

Leave ==
    /\ InValue /\ Finished
    /\ Emit(<<Open("end")>>)
    /\ calls' = SubSeq(calls, 1, Len(calls) - 1)
    /\ UNCHANGED <<values, objects, parts, dumped>>

\* The engine is given the packed entries; the next document has its own buffer.
Build ==
    /\ Walking /\ calls = <<>> /\ buffer.cursor > 0
    /\ parts' = Append(parts, SubSeq(buffer.ents, 1, buffer.cursor))
    /\ buffer' = NewBuffer
    /\ UNCHANGED <<values, objects, calls, dumped>>

Join ==
    /\ Walking /\ Len(parts) = Len(values)
    /\ dumped' = "text"
    /\ UNCHANGED <<values, objects, calls, buffer, parts>>

DumpNext == Refuse \/ WriteScalar \/ Enter \/ WriteInline \/ WriteNull \/ Leave \/ Build \/ Join

DumpSpec == DumpInit /\ [][DumpNext]_dumpVars

-----------------------------------------------------------------------------
\* The values that calls reach at each depth, from a root among the objects
\* objs: the children of the containers above, inline strings excepted.
Children(objs, v) ==
    IF v \notin Objs \/ UnsupportedIn(objs, v) THEN {}
    ELSE LET xs == {objs[v].items[i] : i \in DOMAIN objs[v].items}
         IN  CASE objs[v].kind = "dict" -> {x[2] : x \in xs} \cup ({x[1] : x \in xs} \ Strings)
               [] objs[v].kind = "set"  -> xs \ Strings
               [] OTHER                 -> xs

Levels(objs, root) ==
    LET level[n \in 0 .. MaxNesting + 1] ==
            IF n = 0 THEN {root} ELSE UNION {Children(objs, v) : v \in level[n - 1]}
    IN  level

NestsTooDeeply(v) == Levels(objects, v)[MaxNesting + 1] # {}
HoldsOdd(v) == \E n \in 0 .. MaxNesting : \E x \in Levels(objects, v)[n] : Unsupported(x)

(* dump_all refuses the first value it cannot write and no other, with the   *)
(* exception of what that value really holds: EmitterError for one that      *)
(* nests beyond the limit, or contains itself, and RepresenterError for one  *)
(* that holds an object of no safe type.                                     *)
RefusedJustly ==
    /\ \A i \in DOMAIN parts : ~NestsTooDeeply(values[i]) /\ ~HoldsOdd(values[i])
    /\ dumped = "EmitterError" => NestsTooDeeply(values[Len(parts) + 1])
    /\ dumped = "RepresenterError" => HoldsOdd(values[Len(parts) + 1])
    /\ dumped = "text" => Len(parts) = Len(values)

-----------------------------------------------------------------------------
(* The inductive invariant behind it. *)

\* The entries a value becomes, and a buffer: what is packed is no blank.
Filled ==
    [op : {"seq", "map", "end"}] \cup [op : {"tag"}, tag : {"binary", "set"}]
      \cup [op : {"scalar"}, text : Scalars, style : {"plain", "quoted", "literal"}]

Buffers ==
    {b \in [ents : Seq(Filled \cup {Blank}), est : Nat \ {0}, cursor : Nat] :
        Len(b.ents) = b.est /\ b.cursor <= b.est /\ \A i \in 1 .. b.cursor : b.ents[i] \in Filled}

\* A call among the objects objs: it is at an item, or past the last.
Places(objs) ==
    {c \in [obj : Objs, at : Nat \ {0}, half : BOOLEAN] :
        /\ objs[c.obj].kind # "subclass" /\ c.at <= Len(objs[c.obj].items) + 1
        /\ c.half => c.at <= Len(objs[c.obj].items) /\ objs[c.obj].kind \in {"dict", "set"}}

DumpTypeOK ==
    /\ values \in Seq(Scalars \cup Objs) /\ objects \in [Objs -> Object]
    /\ calls \in Seq(Places(objects))
    /\ buffer \in Buffers /\ parts \in Seq(Seq(Filled))
    /\ dumped \in {"walking", "text", "EmitterError", "RepresenterError"}

\* v may be written by a call that has d calls around it.
Fine(objs, v, d) ==
    /\ Levels(objs, v)[MaxNesting + 1 - d] = {}
    /\ \A n \in 0 .. MaxNesting - d : \A x \in Levels(objs, v)[n] : ~UnsupportedIn(objs, x)

\* The children that the call c has written, or has a call for.
Written(objs, c) ==
    LET its  == objs[c.obj].items
        keys == 1 .. (IF c.half THEN c.at ELSE c.at - 1)
    IN  CASE objs[c.obj].kind = "dict" ->
               {its[i][2] : i \in 1 .. c.at - 1} \cup ({its[i][1] : i \in keys} \ Strings)
          [] objs[c.obj].kind = "set"  -> {its[i] : i \in keys} \ Strings
          [] OTHER                     -> {its[i] : i \in 1 .. c.at - 1}

Root == values[Len(parts) + 1]

\* The calls s are a way down from the root, and what they have written is fine
\* where it stands, but for what the next call is about.
Way(objs, root, s) ==
    /\ Len(s) <= MaxNesting + 1
    /\ \A k \in 1 .. Len(s) :
          /\ s[k].obj \in Levels(objs, root)[k - 1]
          /\ \A x \in Written(objs, s[k]) :
                Fine(objs, x, k) \/ (k < Len(s) /\ x = s[k + 1].obj)

\* A root that is written is fine.
CallsInv ==
    /\ Way(objects, Root, calls)
    /\ calls = <<>> /\ buffer.cursor > 0 => Fine(objects, Root, 0)

DumpInv == DumpTypeOK /\ CallsInv /\ RefusedJustly
=============================================================================
