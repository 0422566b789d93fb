---------------------------- MODULE HandleOwnership ----------------------------
(***************************************************************************)
(* What the engine hands out and who frees it: the recorder, the columns,  *)
(* documents, reports, iterators and text buffers that the functions of    *)
(* _ffi.py, _loader.py, _dumper.py, _validate.py, cbor.py and json.py      *)
(* obtain once the library is imported, and the finally blocks they obtain *)
(* them under.  A function is the sequence of its calls that can fail or   *)
(* that obtain or free something, with the name each calls and the handles *)
(* that the finally blocks around the call free.                           *)
(***************************************************************************)
EXTENDS ImportGate

CONSTANTS
    Functions,       \* the functions the program calls
    Sizes            \* function -> how many values or items it may be given

\* What a program calls of these modules; json.dumps enters its walk by itself.
Entries ==
    {"drain", "load", "each_document", "dump", "dump_all", "dump width", "validate", "safe_load", "json.loads",
     "json.dumps", "cbor.load", "cbor.load_all", "cbor.dump", "cbor.dump_all"}

ASSUME SizesAssumption == Functions \subseteq Entries /\ Sizes \in [Functions -> SUBSET Nat]

VARIABLES
    fn, size, at,    \* the call under way and the step it is at
    live,            \* the handles obtained and not freed
    freed            \* the handles freed by the call under way

callVars == <<fn, size, at, live, freed>>
vars == <<gateVars, callVars>>

-----------------------------------------------------------------------------
Step(calls, uses, gets, frees, guards) ==
    [calls |-> calls, uses |-> uses, gets |-> gets, frees |-> frees, guards |-> guards]

Get(r, name, guards)     == Step({name}, {}, {r}, {}, guards)
From(u, r, name, guards) == Step({name}, {u}, {r}, {}, guards)
Use(r, name, guards)     == Step({name}, {r}, {}, {}, guards)
Free(r, name, guards)    == Step({name}, {}, {}, {r}, guards)
Work(guards)             == Step({}, {}, {}, {}, guards)

Recorder == <<"recorder", 1>>
Columns  == <<"columns", 1>>
Report   == <<"report", 1>>
Iterator == <<"iterator", 1>>
Buffer   == <<"buffer", 1>>
Doc(i)   == <<"document", i>>

\* Slip: the buffer is freed after the copy, outside a finally.
ReadOwnedUnguarded(guards) == <<Step({}, {Buffer}, {}, {}, guards), Step({}, {}, {}, {Buffer}, guards)>>

\* The copy of a text buffer, which is freed even when the copy fails; libc_free
\* is the library's own or the C library's.
ReadOwned(guards) ==
    <<Step({}, {Buffer}, {}, {}, guards \union {Buffer}), Step({}, {}, {}, {Buffer}, guards)>>

\* A document's text (or CBOR): serialize, copy, decode.
Text(d, name, guards) == <<From(d, Buffer, name, guards)>> \o ReadOwned(guards) \o <<Work(guards)>>

\* The entry walk, the new document, and the build that frees it when it fails.
BuildDocument(d, guards) ==
    <<Work(guards), Get(d, "core", guards), Use(d, "core", guards \union {d})>>

\* serialize_ex if a width is given and the library has it.
DumpSteps(name) ==
    BuildDocument(Doc(1), {}) \o Text(Doc(1), name, {Doc(1)}) \o <<Free(Doc(1), "core", {})>>

\* The recorder is fed, its records and arena are copied.
DrainSteps(guards) ==
    LET held == guards \union {Recorder}
    IN  <<Get(Recorder, "core", guards), Use(Recorder, "core", held), Use(Recorder, "core", held),
          Free(Recorder, "core", guards)>>

\* drain_columns copies under its own finally and passes the closer to the walk.
ColumnsSteps(guards) ==
    LET held == guards \union {Columns}
    IN  <<Get(Columns, "value_drain_columns", guards), Step({}, {Columns}, {}, {}, held), Work(held),
          Free(Columns, "value_free_columns", guards)>>

\* Slip: the columns are drained without a look at the flag.
LoadStepsBlind(guards) == ColumnsSteps(guards)

\* _load_all_fast: the columns walk, or the record walk of an older library.
LoadSteps(guards) == IF "columns" \in flags THEN ColumnsSteps(guards) ELSE DrainSteps(guards)

\* A call on the iterator, under the generator's finally.
OnIterator(name) == Use(Iterator, name, {Iterator})

\* The iterator, the frames it delivers and the load of each; a document that
\* fails to parse, whose place is asked for; the end of the stream.
EachDocumentSteps(n) ==
    <<Get(Iterator, "stream_iter_new", {})>>
      \o FlattenSeq([i \in 1..n |->
            <<OnIterator("stream_iter_next"), OnIterator("stream_iter_slice"), OnIterator("stream_iter_buffer")>>
              \o LoadSteps({Iterator}) \o <<Work({Iterator})>>])
      \o <<OnIterator("stream_iter_next"), OnIterator("stream_iter_status"), Work({Iterator}),
            OnIterator("stream_iter_next"), Free(Iterator, "stream_iter_free", {})>>

GateSteps == <<Get(Doc(1), "core", {}), Free(Doc(1), "core", {})>>

CborLoadSteps ==
    <<Get(Doc(1), "cbor_decode", {})>> \o Text(Doc(1), "core", {Doc(1)})
      \o <<Free(Doc(1), "core", {})>> \o LoadSteps({})

\* The items belong to the engine; the callback keeps the first exception.
CborLoadAllSteps(n) ==
    <<Step({"cbor_decode_sequence"}, {}, {}, {}, {})>>
      \o FlattenSeq([i \in 1..n |->
            <<Get(Buffer, "core", {})>> \o ReadOwned({}) \o <<Work({})>> \o LoadSteps({})])
      \o <<Work({})>>

\* Slip: the documents are freed before they are encoded.
CborDumpAllStepsEarly(n) ==
    LET built == {Doc(i) : i \in 1..n}
    IN  FlattenSeq([i \in 1..n |-> BuildDocument(Doc(i), {})])
          \o <<Step({"core"}, {}, {}, built, {}), Step({"cbor_encode_sequence"}, built, {Buffer}, {}, {})>>
          \o ReadOwned({})

\* The list of documents is complete before the try begins.
CborDumpAllSteps(n) ==
    LET built == {Doc(i) : i \in 1..n}
    IN  FlattenSeq([i \in 1..n |-> BuildDocument(Doc(i), {})])
          \o <<Step({"cbor_encode_sequence"}, built, {Buffer}, {}, built)>> \o ReadOwned(built)
          \o <<Step({"core"}, {}, {}, built, {})>>

\* stdlib's text is parsed again; what fails short of memory goes to the walk.
JsonFastSteps ==
    <<Work({}), Get(Doc(1), "core", {})>> \o Text(Doc(1), "serialize_json_ex", {Doc(1)})
      \o <<Free(Doc(1), "core", {})>>

\* cbor.dump; the JSON walk decodes the bytes after its finally.
EncodeSteps(name) ==
    BuildDocument(Doc(1), {}) \o <<From(Doc(1), Buffer, name, {Doc(1)})>> \o ReadOwned({Doc(1)})
      \o <<Free(Doc(1), "core", {})>>

JsonWalkSteps == EncodeSteps("serialize_json_ex") \o <<Work({})>>

\* Without the columns the drain refuses, and nothing is held.
JsonLoadsSteps == GateSteps \o (IF "columns" \in flags THEN ColumnsSteps({}) ELSE <<Work({})>>)

\* The status is raised, or the diagnostics copied, with the report freed.
ValidateSteps ==
    <<Get(Report, "json_schema_validate", {}), Use(Report, "validate_report_at", {Report}),
      Free(Report, "validate_report_free", {})>>

\* safe_load, safe_load_all: the whole stream is validated, an invalid one is
\* refused, and what was read once is loaded.
SafeLoadSteps == ValidateSteps \o <<Work({})>> \o LoadSteps({})

StepsOf(f, n) ==
    CASE f = "drain"         -> DrainSteps({})
      [] f = "load"          -> LoadSteps({})
      [] f = "each_document" -> EachDocumentSteps(n)
      [] f = "dump"          -> DumpSteps("core")
      [] f = "dump_all"      -> FlattenSeq([i \in 1..n |-> DumpSteps("core")])
      [] f = "dump width"    -> DumpSteps(IF "emit" \in flags THEN "serialize_ex" ELSE "core")
      [] f = "validate"      -> ValidateSteps
      [] f = "safe_load"     -> SafeLoadSteps
      [] f = "json.loads"    -> JsonLoadsSteps
      [] f = "json.dumps"    -> JsonFastSteps
      [] f = "json walk"     -> JsonWalkSteps
      [] f = "cbor.load"     -> CborLoadSteps
      [] f = "cbor.load_all" -> CborLoadAllSteps(n)
      [] f = "cbor.dump"     -> EncodeSteps("cbor_encode")
      [] f = "cbor.dump_all" -> CborDumpAllSteps(n)

\* The features a function asks for before its first call: it raises without
\* them, or, json.dumps, leaves the work to the standard library.
Asks(f) ==
    CASE f \in {"cbor.load", "cbor.load_all", "cbor.dump", "cbor.dump_all"} -> {"cbor"}
      [] f = "each_document" -> {"iter", "frames"}
      [] f \in {"validate", "safe_load"} -> {"validate"}
      [] f = "json.dumps"    -> {"json"}
      [] OTHER               -> {}

Running == fn # "none"
Now == StepsOf(fn, size)[at]

-----------------------------------------------------------------------------
Init == GateInit /\ fn = "none" /\ size = 0 /\ at = 0 /\ live = {} /\ freed = {}

Call ==
    /\ gate = "imported" /\ ~Running
    /\ \E f \in Functions : \E n \in Sizes[f] :
          Asks(f) \subseteq flags /\ StepsOf(f, n) # <<>> /\ fn' = f /\ size' = n
    /\ at' = 1 /\ freed' = {}
    /\ UNCHANGED live

Advance ==
    IF at = Len(StepsOf(fn, size))
    THEN fn' = "none" /\ at' = 0 /\ UNCHANGED size
    ELSE at' = at + 1 /\ UNCHANGED <<fn, size>>

Succeed ==
    /\ Running
    /\ live' = (live \ Now.frees) \union Now.gets
    /\ freed' = (freed \union Now.frees) \ Now.gets
    /\ Advance

\* A validation may leave no report to read and free.
AnswerNothing ==
    /\ Running /\ Now.gets = {Report}
    /\ IF at + 2 = Len(StepsOf(fn, size))
       THEN fn' = "none" /\ at' = 0
       ELSE at' = at + Len(ValidateSteps) /\ UNCHANGED fn
    /\ UNCHANGED <<size, live, freed>>

\* What the finally blocks around a failing call do.
Unwind == live' = live \ Now.guards /\ freed' = freed \union Now.guards

Fail ==
    /\ Running /\ Now.frees = {}
    /\ Unwind
    /\ fn' = "none" /\ at' = 0 /\ UNCHANGED size

\* json.dumps: an exception it catches sends the value to the entry walk.
FallToWalk ==
    /\ fn = "json.dumps" /\ Now.frees = {}
    /\ Unwind
    /\ fn' = "json walk" /\ at' = 1 /\ UNCHANGED size

Next ==
    \/ Import /\ UNCHANGED callVars
    \/ (Call \/ Succeed \/ AnswerNothing \/ Fail \/ FallToWalk) /\ UNCHANGED gateVars

Spec == Init /\ [][Next]_vars

-----------------------------------------------------------------------------
(* Whatever fails on the way, a call that is over has freed every handle it  *)
(* obtained: build_document says "caller frees" (_dumper.py:235) and _drain  *)
(* that "the report is always freed" (_validate.py:109).                      *)
NothingLeaked == ~Running => live = {}

(* A handle is used, freed and guarded by a finally only while it is alive,  *)
(* and its name is not overwritten while it is.                              *)
HandlesAlive ==
    Running => /\ Now.uses \subseteq live /\ Now.gets \cap live = {}
               /\ (Now.frees \union Now.guards) \cap freed = {}

(* No call runs on an engine below the floor, however the libraries lie in   *)
(* the search: a stale or unreadable one is refused "AT IMPORT"              *)
(* (_ffi.py:108).                                                            *)
FailsClosed == Running => lib.loads /\ lib.version >= Floor

(* Whatever names a library lacks, a function that starts never calls one of *)
(* them: it has asked first, takes the older route, or the import failed.    *)
OnlyBoundNames == Running => Now.calls \subseteq lib.has
=============================================================================
