------------------------------- MODULE NativeJson -------------------------------
(***************************************************************************)
(* loads of ext/yeptris_native.c: the recursive descent jp_value, jp_object*)
(* and jp_array over the tokens of one input, its string cache, and the    *)
(* references that its local variables and the cache own.  The C stack is  *)
(* the sequence of frames; a token is chosen when it is first looked at.   *)
(***************************************************************************)
EXTENDS Integers, Sequences, FiniteSets, JsonValues

CONSTANTS
    Texts,           \* the strings of the input
    Hash,            \* jp_hash of each: an 8-byte prefix and the length
    Slots,           \* YEP_KC
    Cacheable,       \* those of at most YEP_KEY_MAX bytes
    Short,           \* those of at most 24 bytes
    MaxDepth,        \* YEP_JP_MAX
    MaxTokens,       \* bounds the input
    Failing          \* may an allocation fail

ASSUME NativeAssumption ==
    /\ Hash \in [Texts -> Nat] /\ Slots \in Nat \ {0} /\ MaxDepth \in Nat \ {0}
    /\ Short \subseteq Cacheable /\ Cacheable \subseteq Texts
    /\ MaxTokens \in Nat /\ Failing \in BOOLEAN

VARIABLES
    read,            \* the tokens looked at
    input,           \* the input's bytes: "borrowed", "held" for a str, "dropped"
    mode,            \* what is looked for next, or how far loads has come
    frames,          \* the active calls of jp_object and jp_array
    depth,           \* j->depth
    hand,            \* the value being returned, as a sequence of at most one
    cache,           \* kc: the hash and text of each filled slot
    refs,            \* the references owned by C variables and by the cache
    err,             \* j->err
    pyerr,           \* is a Python memory error set
    cause,           \* why the parse failed
    outcome          \* what loads answers

vars == <<read, input, mode, frames, depth, hand, cache, refs, err, pyerr, cause, outcome>>

Openers == {"{", "["}
Punctuation == Openers \union {"}", "]", ":", ","}

Token == [kind : Punctuation \union {"num", "nan", "bad", "end"}, text : {""}] \union [kind : {"str"}, text : Texts]

Init ==
    /\ read = <<>> /\ input \in {"borrowed", "held"}
    /\ mode = "value" /\ frames = <<>> /\ depth = 0 /\ hand = <<>>
    /\ cache = <<>> /\ refs = 0
    /\ err = 0 /\ pyerr = FALSE /\ cause = "none" /\ outcome = "none"

-----------------------------------------------------------------------------
Top == frames[Len(frames)]
Below == SubSeq(frames, 1, Len(frames) - 1)
InObject == frames # <<>> /\ Top.kind = "{"
InArray == frames # <<>> /\ Top.kind = "["

Look(t) ==
    /\ Len(read) < MaxTokens \/ t.kind = "end"
    /\ read' = Append(read, t)

WantsValue == mode = "value" \/ (mode = "first" /\ InArray)
WantsKey == mode = "key" \/ (mode = "first" /\ InObject)

\* A NULL returned: the error, the Python exception, and the reason.
Failed(e, py, why) ==
    /\ mode' = "unwind"
    /\ err' = e /\ pyerr' = py /\ cause' = why
    /\ UNCHANGED <<outcome>>

Unharmed == UNCHANGED <<err, pyerr, cause, outcome>>

\* A token that no rule takes is a syntax error.
SyntaxError(t) ==
    /\ \/ mode = "value" /\ t.kind \notin Openers \union ScalarKinds
       \/ mode = "first" /\ InArray /\ t.kind \notin Openers \union ScalarKinds \union {"]"}
       \/ mode = "first" /\ InObject /\ t.kind \notin {"str", "}"}
       \/ mode = "key" /\ t.kind # "str"
       \/ mode = "colon" /\ t.kind # ":"
       \/ mode = "after" /\ t.kind \notin {",", IF InObject THEN "}" ELSE "]"}
    /\ WantsValue => depth < MaxDepth
    /\ Failed(-2, FALSE, "syntax")
    /\ UNCHANGED <<frames, depth, hand, cache, refs>>

\* jp_value tests the depth before it looks at the token.
TooDeep(t) ==
    /\ WantsValue /\ depth >= MaxDepth
    /\ ~(mode = "first" /\ t.kind = "]")
    /\ Failed(-2, FALSE, "depth")
    /\ UNCHANGED <<frames, depth, hand, cache, refs>>

Open(t) ==
    /\ WantsValue /\ depth < MaxDepth /\ t.kind \in Openers
    /\ \/ /\ frames' = Append(frames, [kind |-> t.kind, key |-> <<>>,
                                       value |-> IF t.kind = "{" THEN Dict(<<>>) ELSE List(<<>>)])
          /\ depth' = depth + 1 /\ refs' = refs + 1
          /\ mode' = "first"
          /\ Unharmed
       \/ /\ Failing /\ Failed(-1, TRUE, "memory")
          /\ UNCHANGED <<frames, depth, refs>>
    /\ UNCHANGED <<hand, cache>>

\* A number's object, or a NaN's: a failed allocation leaves err as it is.
Number(t) ==
    /\ WantsValue /\ depth < MaxDepth /\ t.kind \in {"num", "nan"}
    /\ \/ hand' = <<Atom(t)>> /\ refs' = refs + 1 /\ mode' = "place" /\ Unharmed
       \/ Failing /\ Failed(0, TRUE, "memory") /\ UNCHANGED <<hand, refs>>
    /\ UNCHANGED <<frames, depth, cache>>

-----------------------------------------------------------------------------
SlotOf(t) == Hash[t] % Slots

\* Slip: the probe compares hash and not bytes.
HitByHash(t) == SlotOf(t) \in DOMAIN cache /\ cache[SlotOf(t)].hash = Hash[t]

Hit(t) == SlotOf(t) \in DOMAIN cache /\ cache[SlotOf(t)] = [hash |-> Hash[t], text |-> t]

\* The references a miss adds: the slot's and the caller's, less the displaced one.
Filled(t) == IF SlotOf(t) \in DOMAIN cache THEN 1 ELSE 2

\* A key of at most YEP_KEY_MAX bytes, or a short value, goes through the cache.
Probed(t, asKey) == t \in Cacheable /\ (asKey \/ t \in Short)

\* The text that jp_str returns.
TextOf(t, asKey) == IF Probed(t, asKey) /\ Hit(t) THEN cache[SlotOf(t)].text ELSE t

\* What jp_str does to the cache and to the references.
String(t, asKey) ==
    IF Probed(t, asKey) /\ ~Hit(t)
    THEN /\ refs' = refs + Filled(t)
         /\ cache' = Put(cache, SlotOf(t), [hash |-> Hash[t], text |-> t])
    ELSE refs' = refs + 1 /\ UNCHANGED cache

\* The scratch buffer cannot grow, or the string cannot be decoded.
StringFails ==
    /\ Failing
    /\ \E e \in {-1, -2} : Failed(e, FALSE, "memory")
    /\ UNCHANGED <<frames, hand, cache, refs>>

StringValue(t) ==
    /\ WantsValue /\ depth < MaxDepth /\ t.kind = "str"
    /\ \/ /\ hand' = <<Atom([t EXCEPT !.text = TextOf(t.text, FALSE)])>>
          /\ String(t.text, FALSE)
          /\ mode' = "place"
          /\ Unharmed /\ UNCHANGED frames
       \/ StringFails
    /\ UNCHANGED depth

Key(t) ==
    /\ WantsKey /\ t.kind = "str"
    /\ \/ /\ frames' = Append(Below, [Top EXCEPT !.key = <<TextOf(t.text, TRUE)>>])
          /\ String(t.text, TRUE)
          /\ mode' = "colon"
          /\ Unharmed /\ UNCHANGED hand
       \/ StringFails
    /\ UNCHANGED depth

Colon(t) ==
    /\ mode = "colon" /\ t.kind = ":"
    /\ mode' = "value"
    /\ Unharmed /\ UNCHANGED <<frames, depth, hand, cache, refs>>

\* Slip: a comma asks for a key whatever the container.
CommaWantsKey(t) ==
    /\ mode = "after" /\ t.kind = ","
    /\ mode' = "key"
    /\ Unharmed /\ UNCHANGED <<frames, depth, hand, cache, refs>>

Comma(t) ==
    /\ mode = "after" /\ t.kind = ","
    /\ mode' = IF InObject THEN "key" ELSE "value"
    /\ Unharmed /\ UNCHANGED <<frames, depth, hand, cache, refs>>

\* Slip: the early return of an empty container leaves the depth.
CloseKeepsDepth(t) ==
    /\ mode \in {"first", "after"} /\ t.kind = IF InObject THEN "}" ELSE "]"
    /\ hand' = <<Top.value>>
    /\ frames' = Below /\ depth' = IF mode = "first" THEN depth ELSE depth - 1
    /\ mode' = "place"
    /\ Unharmed /\ UNCHANGED <<cache, refs>>

Close(t) ==
    /\ mode \in {"first", "after"} /\ t.kind = IF InObject THEN "}" ELSE "]"
    /\ hand' = <<Top.value>>
    /\ frames' = Below /\ depth' = depth - 1
    /\ mode' = "place"
    /\ Unharmed /\ UNCHANGED <<cache, refs>>

-----------------------------------------------------------------------------
Store(frame, v) ==
    IF frame.kind = "[" THEN List(Append(frame.value.list, v))
    ELSE Dict(Put(frame.value.dict, frame.key[1], v))

\* The references to the value and to its key, given up stored or not.
Released(frame, stored) == 1 + Len(frame.key)

Place ==
    /\ mode = "place" /\ frames # <<>>
    /\ \E stored \in IF Failing THEN BOOLEAN ELSE {TRUE} :
          /\ frames' = Append(Below, [Top EXCEPT !.key = <<>>,
                                                 !.value = IF stored THEN Store(Top, hand[1]) ELSE @])
          /\ refs' = refs - Released(Top, stored)
          /\ IF stored THEN mode' = "after" /\ Unharmed ELSE Failed(-1, TRUE, "memory")
    /\ hand' = <<>>
    /\ UNCHANGED <<read, input, depth, cache>>

\* Slip: a failing frame releases its container only.
UnwindKeepsKey ==
    /\ mode = "unwind" /\ frames # <<>>
    /\ refs' = refs - 1
    /\ frames' = Below /\ depth' = depth - 1
    /\ UNCHANGED <<read, input, mode, hand, cache, err, pyerr, cause, outcome>>

\* A frame's failure releases its container and the key it holds.
Unwind ==
    /\ mode = "unwind" /\ frames # <<>>
    /\ refs' = refs - 1 - Len(Top.key)
    /\ frames' = Below /\ depth' = depth - 1
    /\ UNCHANGED <<read, input, mode, hand, cache, err, pyerr, cause, outcome>>

\* jp_value returns to py_loads, which drops the encoded copy of a str.
DropInput ==
    /\ mode \in {"place", "unwind"} /\ frames = <<>>
    /\ input' = IF input = "held" THEN "dropped" ELSE input
    /\ mode' = IF mode = "place" THEN "tail" ELSE "report"
    /\ UNCHANGED <<read, frames, depth, hand, cache, refs, err, pyerr, cause, outcome>>

\* What is left of the input must be white space.
AfterValue(t) ==
    /\ mode = "tail"
    /\ \/ /\ t.kind = "end"
          /\ mode' = "release" /\ outcome' = "value"
          /\ UNCHANGED <<hand, refs, err, cause>>
       \/ /\ t.kind # "end"
          /\ mode' = "report" /\ err' = -2 /\ cause' = "syntax"
          /\ hand' = <<>> /\ refs' = refs - 1
          /\ UNCHANGED outcome
    /\ UNCHANGED <<frames, depth, cache, pyerr>>

\* loads_error: the memory error is kept, or the input is decoded for the message.
Report ==
    /\ mode = "report"
    /\ mode' = "release"
    /\ outcome' \in IF err = -1 /\ pyerr THEN {"MemoryError"}
                    ELSE {"JSONDecodeError"} \union (IF Failing THEN {"MemoryError"} ELSE {})
    /\ UNCHANGED <<read, input, frames, depth, hand, cache, refs, err, pyerr, cause>>

\* jp_release
Release ==
    /\ mode = "release"
    /\ mode' = "done"
    /\ refs' = refs - Cardinality(DOMAIN cache) /\ cache' = <<>>
    /\ UNCHANGED <<read, input, frames, depth, hand, err, pyerr, cause, outcome>>

ReadToken ==
    \E t \in Token :
        /\ Look(t)
        /\ \/ SyntaxError(t) \/ TooDeep(t) \/ Open(t) \/ Number(t) \/ StringValue(t)
           \/ Key(t) \/ Colon(t) \/ Comma(t) \/ Close(t) \/ AfterValue(t)
        /\ UNCHANGED input

Next == ReadToken \/ Place \/ Unwind \/ DropInput \/ Report \/ Release

Spec == Init /\ [][Next]_vars

-----------------------------------------------------------------------------
\* The active calls that hold a key.
KeysHeld(calls) == {i \in DOMAIN calls : calls[i].key # <<>>}

Owned == Len(frames) + Cardinality(KeysHeld(frames)) + Len(hand) + Cardinality(DOMAIN cache)

(* On every path, the failing ones too, the references not yet released are  *)
(* those of the active calls' containers and keys, of the value in hand and  *)
(* of the cache: nothing leaks and nothing is released twice.                *)
RefsBalanced == refs = Owned

(* The depth that YEP_JP_MAX bounds is the nesting of the input, whatever    *)
(* early return a container leaves by.                                       *)
DepthIsNesting == depth = Len(frames)

(* "the parse never retains the input buffer" (ext/yeptris_native.c:326): no *)
(* token of the input is looked at after its bytes have been dropped.        *)
ReadsHeldInput == [][read' # read => input # "dropped"]_vars
-----------------------------------------------------------------------------
AtMostOne(S) == {<<>>} \union {<<x>> : x \in S}

\* What a C variable may hold: the value of a frame is left open.
TypeOK ==
    /\ mode \in {"value", "first", "key", "colon", "after", "place", "unwind",
                 "tail", "report", "release", "done"}
    /\ frames \in Seq({frames[i] : i \in DOMAIN frames})
    /\ \A i \in DOMAIN frames :
          frames[i] \in [kind : Openers, key : AtMostOne(Texts), value : {frames[i].value}]
    /\ hand \in AtMostOne({hand[i] : i \in DOMAIN hand})
    /\ depth \in Nat /\ refs \in Nat
    /\ DOMAIN cache \subseteq 0 .. Slots - 1

\* What each place in the parse may rely on of the value in hand, of the calls
\* under way and of the key the innermost of them holds.
InStep ==
    /\ hand # <<>> <=> \/ mode \in {"place", "tail"}
                       \/ mode \in {"release", "done"} /\ outcome = "value"
    /\ mode \in {"first", "key", "colon", "after"} => frames # <<>>
    /\ mode \in {"first", "key", "after"} => Top.key = <<>>
    /\ mode \in {"tail", "report", "release", "done"} => frames = <<>>
    /\ mode = "done" => cache = <<>>

(* The strengthening under which the references are accounted for.           *)
IInv == TypeOK /\ InStep /\ RefsBalanced /\ DepthIsNesting

(* Once loads has answered, it owns the value it returns and nothing else,   *)
(* whether it answers a value, a JSONDecodeError or a MemoryError.           *)
OwnsItsAnswer == mode = "done" => refs = IF outcome = "value" THEN 1 ELSE 0
=============================================================================
