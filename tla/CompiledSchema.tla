----------------------------- MODULE CompiledSchema -----------------------------
(***************************************************************************)
(* One compiled Schema (yeptris/_validate.py) and the calls made on it:    *)
(* its validate method, the module's validate function, close, and the     *)
(* close of __del__.  ctypes releases the GIL inside an engine call, and   *)
(* reading the input runs the caller's code, so other calls may come       *)
(* between a call's test of the handle and its use.                        *)
(***************************************************************************)
EXTENDS Naturals, Sequences

CONSTANTS
    Calls,           \* calls that may be under way at once
    Closers,         \* those that may be close()
    Interrupts       \* where KeyboardInterrupt may arrive between two bytecodes

Places == {"reading", "reading late", "calling", "closing", "clearing"}
Labels == Places \cup {"idle", "inside", "draining"}

ASSUME CallsAssumption ==
    Closers \subseteq Calls /\ Interrupts \subseteq Places

VARIABLES
    threaded,        \* are the calls in threads of their own, or nested in one
    handle,          \* _handle: "none" or "set"
    schema,          \* the engine's schema: none, live, freed
    frees,           \* how often it has been freed
    referenced,      \* does the program still hold the Schema
    finalized,       \* has __del__ been called
    nested,          \* the calls under way in the one thread, innermost last
    pc,              \* where each call is
    arg,             \* the pointer it has passed to the engine
    report           \* the report the engine gave it: none, live, freed

object == <<threaded, handle, schema, frees, referenced, finalized>>
vars == <<object, nested, pc, arg, report>>

Init ==
    /\ threaded \in BOOLEAN
    /\ handle = "none" /\ schema = "none" /\ frees = 0
    /\ referenced = FALSE /\ finalized = FALSE
    /\ nested = <<>>
    /\ pc = [c \in Calls |-> "idle"]
    /\ arg = [c \in Calls |-> "none"]
    /\ report = [c \in Calls |-> "none"]

-----------------------------------------------------------------------------
\* In one thread the innermost call runs, while those around it wait for input.
Innermost == {nested[i] : i \in DOMAIN nested \cap {Len(nested)}}

MayRun(c) == threaded \/ c \in Innermost

MayBegin(c) ==
    /\ referenced /\ pc[c] = "idle"
    /\ ~threaded => \A d \in Innermost : pc[d] \in {"reading", "reading late"}

Begin(c, label) ==
    /\ nested' = IF threaded THEN nested ELSE Append(nested, c)
    /\ pc' = [pc EXCEPT ![c] = label]

Goto(c, from, to) ==
    /\ pc[c] = from /\ MayRun(c)
    /\ pc' = [pc EXCEPT ![c] = to]
    /\ UNCHANGED nested

Leave(c) ==
    /\ pc' = [pc EXCEPT ![c] = "idle"]
    /\ nested' = IF threaded THEN nested ELSE SubSeq(nested, 1, Len(nested) - 1)

\* A Schema whose compilation failed has no handle and nothing to free.
Compile ==
    /\ schema = "none"
    /\ schema' = "live" /\ handle' = "set" /\ referenced' = TRUE
    /\ UNCHANGED <<threaded, frees, finalized, nested, pc, arg, report>>

\* Schema.validate tests the handle first and reads its input after.
ValidateMethod(c) ==
    /\ MayBegin(c) /\ handle = "set"
    /\ Begin(c, "reading")
    /\ UNCHANGED <<object, arg, report>>

\* validate(json_schema=schema) reads its input first.
ValidateFunction(c) ==
    /\ MayBegin(c)
    /\ Begin(c, "reading late")
    /\ UNCHANGED <<object, arg, report>>

InputRead(c) ==
    /\ Goto(c, "reading", "calling")
    /\ UNCHANGED <<object, arg, report>>

TestHandle(c) ==
    /\ pc[c] = "reading late" /\ MayRun(c)
    /\ \/ handle = "set" /\ Goto(c, "reading late", "calling")
       \/ handle = "none" /\ Leave(c)
    /\ UNCHANGED <<object, arg, report>>

\* Slip: the handle tested is kept in a local and passed later.
EnterEngineStale(c) ==
    /\ Goto(c, "calling", "inside")
    /\ arg' = [arg EXCEPT ![c] = "set"]
    /\ UNCHANGED <<object, report>>

\* The handle is read again for the call.
EnterEngine(c) ==
    /\ Goto(c, "calling", "inside")
    /\ arg' = [arg EXCEPT ![c] = handle]
    /\ UNCHANGED <<object, report>>

\* A null schema is an argument error and has no report.
LeaveEngine(c) ==
    /\ Goto(c, "inside", "draining")
    /\ \E r \in IF arg[c] = "set" THEN {"none", "live"} ELSE {"none"} :
           report' = [report EXCEPT ![c] = r]
    /\ UNCHANGED <<object, arg>>

\* Slip: a failed status raises before the report is looked at.
DrainRaises(c) ==
    /\ pc[c] = "draining" /\ MayRun(c) /\ Leave(c)
    /\ \E failed \in BOOLEAN :
           report' = [report EXCEPT ![c] = IF report[c] = "live" /\ ~failed THEN "freed" ELSE @]
    /\ UNCHANGED <<object, arg>>

\* The diagnostics are copied out, or the status raises; the report is freed.
Drain(c) ==
    /\ pc[c] = "draining" /\ MayRun(c) /\ Leave(c)
    /\ report' = [report EXCEPT ![c] = IF report[c] = "live" THEN "freed" ELSE @]
    /\ UNCHANGED <<object, arg>>

-----------------------------------------------------------------------------
\* "read-only sharing is safe" (_validate.py:29-30): threads that share a Schema
\* do not close it.
Close(c) ==
    /\ ~threaded
    /\ c \in Closers /\ MayBegin(c)
    /\ handle = "set"
    /\ Begin(c, "closing")
    /\ UNCHANGED <<object, arg, report>>

\* Slip: __del__ leaves the engine's schema alone.
FinalizeNothing(c) ==
    /\ handle = "set" /\ ~referenced /\ ~finalized /\ \A d \in Calls : pc[d] = "idle"
    /\ finalized' = TRUE
    /\ UNCHANGED <<threaded, handle, schema, frees, referenced, nested, pc, arg, report>>

\* __del__, called once, when nothing refers to the Schema any more.
Finalize(c) ==
    /\ handle = "set" /\ ~referenced /\ ~finalized /\ \A d \in Calls : pc[d] = "idle"
    /\ finalized' = TRUE
    /\ Begin(c, "closing")
    /\ UNCHANGED <<threaded, handle, schema, frees, referenced, arg, report>>

\* Freeing a null schema does nothing.
FreeSchema(c) ==
    /\ Goto(c, "closing", "clearing")
    /\ IF handle = "set" THEN schema' = "freed" /\ frees' = frees + 1
       ELSE UNCHANGED <<schema, frees>>
    /\ UNCHANGED <<threaded, handle, referenced, finalized, arg, report>>

\* Slip: the handle outlives the schema.
ForgetNothing(c) ==
    /\ pc[c] = "clearing" /\ MayRun(c) /\ Leave(c)
    /\ UNCHANGED <<object, arg, report>>

\* Slip: the handle keeps the freed pointer.
ForgetHandleStale(c) ==
    /\ pc[c] = "clearing" /\ MayRun(c) /\ Leave(c)
    /\ handle' = schema
    /\ UNCHANGED <<threaded, schema, frees, referenced, finalized, arg, report>>

ForgetHandle(c) ==
    /\ pc[c] = "clearing" /\ MayRun(c) /\ Leave(c)
    /\ handle' = "none"
    /\ UNCHANGED <<threaded, schema, frees, referenced, finalized, arg, report>>

-----------------------------------------------------------------------------
\* The program's own reference; a running call holds another.
DropReference ==
    /\ referenced
    /\ referenced' = FALSE
    /\ UNCHANGED <<threaded, handle, schema, frees, finalized, nested, pc, arg, report>>

Interrupt(c) ==
    /\ pc[c] \in Interrupts /\ MayRun(c) /\ Leave(c)
    /\ UNCHANGED <<object, arg, report>>

Step(c) ==
    \/ InputRead(c) \/ TestHandle(c) \/ EnterEngine(c) \/ LeaveEngine(c) \/ Drain(c)
    \/ FreeSchema(c) \/ ForgetHandle(c)

Next ==
    \/ Compile \/ DropReference
    \/ \E c \in Calls :
           \/ ValidateMethod(c) \/ ValidateFunction(c) \/ Close(c) \/ Finalize(c)
           \/ Step(c) \/ Interrupt(c)

\* A call under way goes on, reading an input ends, the program drops its Schema
\* in the end, and CPython finalizes what nothing refers to.
Spec ==
    /\ Init /\ [][Next]_vars
    /\ \A c \in Calls : SF_vars(Step(c))
    /\ WF_vars(DropReference) /\ WF_vars(\E c \in Calls : Finalize(c))

-----------------------------------------------------------------------------
(* The state of a Schema and its calls is well typed. *)
TypeOK ==
    /\ threaded \in BOOLEAN /\ handle \in {"none", "set"} /\ schema \in {"none", "live", "freed"}
    /\ frees \in Nat
    /\ referenced \in BOOLEAN /\ finalized \in BOOLEAN /\ nested \in Seq(Calls)
    /\ pc \in [Calls -> Labels]
    /\ arg \in [Calls -> {"none", "set"}]
    /\ report \in [Calls -> {"none", "live", "freed"}]

(* The engine never validates against a schema that close() has freed, even  *)
(* when reading the input of a validation closes the Schema.                 *)
NeverUsedDead ==
    \A c \in Calls : pc[c] = "inside" /\ arg[c] = "set" => schema = "live"

(* close() is idempotent: "freeing twice is guarded here" (_validate.py      *)
(* 223-224).  However validations, close() and __del__ are nested, the        *)
(* engine's schema is freed at most once.                                     *)
FreedOnce == frees <= 1

(* A validation that is over has freed its report, raised or not.            *)
ReportsFreed == \A c \in Calls : pc[c] # "draining" => report[c] # "live"

(* A compiled schema is freed in the end, whether or not close() is called.  *)
EventuallyFreed == (schema = "live") ~> (schema = "freed")
=============================================================================
