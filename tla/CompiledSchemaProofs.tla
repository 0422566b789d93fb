-------------------------- MODULE CompiledSchemaProofs --------------------------
(***************************************************************************)
(* Proofs about a compiled Schema, for any number of calls, nested in one  *)
(* thread or in threads of their own.                                      *)
(***************************************************************************)
EXTENDS CompiledSchema, TLAPS

-----------------------------------------------------------------------------
Waiting(c) == pc[c] \in {"idle", "reading", "reading late"}
Closing(c) == pc[c] \in {"closing", "clearing"}

(* In one thread, only the innermost call is past the reading of its input.  *)
Nesting == ~threaded => \A c \in Calls : Waiting(c) \/ c \in Innermost

(* A call that frees the schema runs while all others wait for input, and    *)
(* where threads share the Schema, after the last of them.                   *)
Solitude ==
    \A c \in Calls : Closing(c) =>
        /\ \A d \in Calls \ {c} : Waiting(d)
        /\ threaded => ~referenced /\ \A d \in Calls \ {c} : pc[d] = "idle"

(* The handle names a live schema, save between the free and the assignment  *)
(* that forgets it.                                                          *)
Naming ==
    /\ handle = "set" => schema = "live" \/ \E c \in Calls : pc[c] = "clearing"
    /\ handle = "none" => schema # "live"
    /\ \A c \in Calls : pc[c] = "closing" => handle = "set" /\ schema = "live"
    /\ \A c \in Calls : pc[c] = "clearing" => schema = "freed"

FreesCounted == frees = IF schema = "freed" THEN 1 ELSE 0

SchemaInv ==
    /\ TypeOK /\ Nesting /\ Solitude /\ Naming /\ FreesCounted
    /\ NeverUsedDead /\ ReportsFreed

LEMMA OneInnermost ==
    ASSUME NEW c \in Innermost, NEW d \in Innermost
    PROVE  c = d
BY DEF Innermost

LEMMA InnermostAfterBegin ==
    ASSUME nested \in Seq(Calls), NEW c \in Calls, nested' = Append(nested, c)
    PROVE  c \in Innermost'
<1>1. /\ Len(nested') = Len(nested) + 1 /\ Len(nested) \in Nat
      /\ nested'[Len(nested) + 1] = c /\ Len(nested) + 1 \in DOMAIN nested'
  OBVIOUS
<1> QED
  BY <1>1 DEF Innermost

LEMMA BeginType ==
    ASSUME nested \in Seq(Calls), NEW c \in Calls
    PROVE  (IF threaded THEN nested ELSE Append(nested, c)) \in Seq(Calls)
<1>1. Append(nested, c) \in Seq(Calls)
  OBVIOUS
<1> QED
  BY <1>1, Zenon

LEMMA LeaveType ==
    ASSUME nested \in Seq(Calls), ~threaded => nested # <<>>
    PROVE  (IF threaded THEN nested ELSE SubSeq(nested, 1, Len(nested) - 1)) \in Seq(Calls)
<1>1. nested # <<>> => SubSeq(nested, 1, Len(nested) - 1) \in Seq(Calls)
  OBVIOUS
<1> QED
  BY <1>1, Zenon

LEMMA InitSchemaInv == Init => SchemaInv
<1> SUFFICES ASSUME Init PROVE SchemaInv
  OBVIOUS
<1>1. \A c \in Calls : pc[c] = "idle" /\ report[c] = "none"
  BY DEF Init
<1>2. TypeOK
  <2>1. pc \in [Calls -> Labels] /\ arg \in [Calls -> {"none", "set"}]
        /\ report \in [Calls -> {"none", "live", "freed"}]
    BY DEF Init, Labels
  <2>2. nested \in Seq(Calls) /\ frees \in Nat
    BY DEF Init
  <2>3. threaded \in BOOLEAN /\ referenced \in BOOLEAN /\ finalized \in BOOLEAN
    BY DEF Init
  <2>4. handle \in {"none", "set"} /\ schema \in {"none", "live", "freed"}
    BY DEF Init
  <2> QED
    BY <2>1, <2>2, <2>3, <2>4 DEF TypeOK
<1>3. Nesting /\ Solitude /\ NeverUsedDead /\ ReportsFreed
  BY <1>1 DEF Nesting, Solitude, NeverUsedDead, ReportsFreed, Waiting, Closing
<1>4. Naming /\ FreesCounted
  BY <1>1 DEF Init, Naming, FreesCounted
<1> QED
  BY <1>2, <1>3, <1>4 DEF SchemaInv

\* The call that begins is past its input only if no other call is.
LEMMA BeginFacts ==
    ASSUME SchemaInv, NEW c \in Calls, MayBegin(c)
    PROVE  /\ ~threaded => \A d \in Calls : Waiting(d)
           /\ threaded => \A d \in Calls : ~Closing(d)
<1>1. CASE ~threaded
  <2>1. \A d \in Innermost : Waiting(d)
    BY <1>1 DEF MayBegin, Waiting
  <2> QED
    BY <1>1, <2>1 DEF SchemaInv, Nesting
<1>2. CASE threaded
  BY <1>2 DEF MayBegin, SchemaInv, Solitude
<1> QED
  BY <1>1, <1>2

\* The same of a call that runs.
LEMMA RunFacts ==
    ASSUME SchemaInv, NEW c \in Calls, MayRun(c)
    PROVE  /\ ~threaded => \A d \in Calls \ {c} : Waiting(d)
           /\ ~threaded => c \in Innermost /\ nested # <<>>
BY OneInnermost DEF MayRun, SchemaInv, Nesting, Innermost

-----------------------------------------------------------------------------
(* What a step of call c does to the control of all calls. *)

Moved(c, to) ==
    /\ pc' \in [Calls -> Labels] /\ nested' \in Seq(Calls)
    /\ pc'[c] = to
    /\ \A d \in Calls \ {c} : pc'[d] = pc[d]

LEMMA GotoMoves ==
    ASSUME SchemaInv, NEW c \in Calls, NEW from, NEW to \in Labels, Goto(c, from, to)
    PROVE  Moved(c, to) /\ nested' = nested /\ pc[c] = from /\ MayRun(c)
BY DEF SchemaInv, TypeOK, Goto, Moved

LEMMA LeaveMoves ==
    ASSUME SchemaInv, NEW c \in Calls, MayRun(c), Leave(c)
    PROVE  Moved(c, "idle")
<1>1. pc \in [Calls -> Labels] /\ nested \in Seq(Calls)
  BY DEF SchemaInv, TypeOK
<1>2. nested' \in Seq(Calls)
  BY <1>1, RunFacts, LeaveType DEF Leave
<1> QED
  BY <1>1, <1>2 DEF Leave, Moved, Labels

LEMMA MoveNesting ==
    ASSUME SchemaInv, NEW c \in Calls, MayRun(c), NEW to, Moved(c, to),
           threaded' = threaded, nested' = nested \/ to = "idle"
    PROVE  Nesting'
<1>1. SUFFICES ASSUME ~threaded, NEW d \in Calls
               PROVE  Waiting(d)' \/ d \in Innermost'
  BY DEF Nesting
<1>2. CASE d # c
  BY <1>1, <1>2, RunFacts DEF Moved, Waiting
<1>3. CASE d = c /\ nested' = nested
  BY <1>1, <1>3, RunFacts DEF Innermost
<1>4. CASE d = c /\ to = "idle"
  BY <1>4 DEF Moved, Waiting
<1> QED
  BY <1>2, <1>3, <1>4

LEMMA MoveSolitude ==
    ASSUME SchemaInv, NEW c \in Calls, MayRun(c), pc[c] # "idle", NEW to, Moved(c, to),
           threaded' = threaded, referenced' = referenced,
           to \in {"closing", "clearing"} => Closing(c)
    PROVE  Solitude'
<1>1. SUFFICES ASSUME NEW d \in Calls, Closing(d)'
               PROVE  /\ \A e \in Calls \ {d} : Waiting(e)'
                      /\ threaded => ~referenced /\ \A e \in Calls \ {d} : pc'[e] = "idle"
  BY DEF Solitude
<1>2. d = c
  <2>1. CASE d # c /\ ~threaded
    BY <1>1, <2>1, RunFacts DEF Moved, Closing, Waiting
  <2>2. CASE d # c /\ threaded
    BY <1>1, <2>2 DEF SchemaInv, Solitude, Moved, Closing
  <2> QED
    BY <2>1, <2>2
<1>3. Closing(c)
  BY <1>1, <1>2 DEF Moved, Closing
<1> QED
  BY <1>2, <1>3 DEF SchemaInv, Solitude, Moved, Waiting

-----------------------------------------------------------------------------
(* One lemma for each kind of step. *)

\* A call begins to read its input.
LEMMA BeginReading ==
    ASSUME SchemaInv, NEW c \in Calls, MayBegin(c), NEW label \in {"reading", "reading late"},
           Begin(c, label), UNCHANGED <<object, arg, report>>
    PROVE  SchemaInv'
<1>0. pc \in [Calls -> Labels] /\ nested \in Seq(Calls)
  BY DEF SchemaInv, TypeOK
<1>1. \A d \in Calls \ {c} : pc'[d] = pc[d]
  BY <1>0 DEF Begin
<1>2. pc'[c] = label
  BY <1>0 DEF Begin
<1>3. TypeOK'
  <2>1. pc' \in [Calls -> Labels]
    BY <1>0 DEF Begin, Labels, Places
  <2>2. nested' \in Seq(Calls)
    BY <1>0, BeginType DEF Begin
  <2> QED
    BY <2>1, <2>2 DEF SchemaInv, TypeOK, object
<1>4. Nesting'
  BY <1>1, <1>2, BeginFacts DEF Nesting, Waiting, object
<1>5. Solitude'
  <2>1. threaded => \A d \in Calls : ~Closing(d)'
    BY <1>1, <1>2, BeginFacts DEF Closing
  <2> QED
    BY <1>1, <1>2, <2>1 DEF SchemaInv, Solitude, Closing, Waiting, object
<1>6. Naming'
  BY <1>1, <1>2 DEF SchemaInv, Naming, object, MayBegin
<1>7. FreesCounted' /\ NeverUsedDead' /\ ReportsFreed'
  BY <1>1, <1>2 DEF SchemaInv, FreesCounted, NeverUsedDead, ReportsFreed, object, MayBegin
<1> QED
  BY <1>3, <1>4, <1>5, <1>6, <1>7 DEF SchemaInv

\* A call passes from one label to another, or leaves, without closing.
LEMMA CallMoves ==
    ASSUME SchemaInv, NEW c \in Calls, MayRun(c), pc[c] # "idle", NEW to, Moved(c, to),
           nested' = nested \/ to = "idle", UNCHANGED object,
           ~(pc[c] = "clearing"), to \notin {"closing", "clearing"},
           arg' \in [Calls -> {"none", "set"}],
           report' \in [Calls -> {"none", "live", "freed"}],
           \A d \in Calls \ {c} : arg'[d] = arg[d] /\ report'[d] = report[d],
           to = "inside" /\ arg'[c] = "set" => handle = "set",
           to # "draining" => report'[c] # "live"
    PROVE  SchemaInv'
<1>1. TypeOK'
  BY DEF SchemaInv, TypeOK, object, Moved
<1>2. Nesting' /\ Solitude'
  BY MoveNesting, MoveSolitude DEF object
<1>3. Naming' /\ FreesCounted'
  <2>1. Naming /\ FreesCounted
    BY DEF SchemaInv
  <2>2. \A d \in Calls : pc[d] = "clearing" <=> pc'[d] = "clearing" /\ d # c
    BY DEF Moved
  <2>3. \A d \in Calls : pc'[d] = "closing" => pc[d] = "closing"
    BY DEF Moved
  <2>4. FreesCounted'
    BY <2>1 DEF FreesCounted, object
  <2>5. handle' = "set" => schema' = "live" \/ \E d \in Calls : pc'[d] = "clearing"
    BY <2>1, <2>2 DEF Naming, object
  <2>6. handle' = "none" => schema' # "live"
    BY <2>1 DEF Naming, object
  <2>7. \A d \in Calls : pc'[d] = "clearing" => schema' = "freed"
    <3>1. \A d \in Calls : pc'[d] = "clearing" => pc[d] = "clearing"
      BY DEF Moved
    <3> QED
      BY <2>1, <3>1 DEF Naming, object
  <2>8. \A d \in Calls : pc'[d] = "closing" => handle' = "set" /\ schema' = "live"
    BY <2>1, <2>3 DEF Naming, object
  <2> QED
    BY <2>4, <2>5, <2>6, <2>7, <2>8 DEF Naming
<1>4. ReportsFreed'
  BY DEF SchemaInv, ReportsFreed, Moved
<1>5. NeverUsedDead'
  <2>1. SUFFICES ASSUME NEW d \in Calls, pc'[d] = "inside", arg'[d] = "set"
                 PROVE  schema = "live"
    BY DEF NeverUsedDead, object
  <2>2. CASE d # c
    BY <2>1, <2>2 DEF SchemaInv, NeverUsedDead, Moved
  <2>3. CASE d = c
    <3>1. handle = "set"
      BY <2>1, <2>3 DEF Moved
    <3>2. \A e \in Calls : pc[e] # "clearing"
      <4>1. SUFFICES ASSUME NEW e \in Calls, pc[e] = "clearing" PROVE FALSE
        OBVIOUS
      <4>2. e # c /\ Closing(e)
        BY <4>1 DEF Closing
      <4>3. CASE ~threaded
        BY <4>1, <4>2, <4>3, RunFacts DEF Waiting
      <4>4. CASE threaded
        BY <4>2, <4>4 DEF SchemaInv, Solitude
      <4> QED
        BY <4>3, <4>4
    <3> QED
      BY <3>1, <3>2 DEF SchemaInv, Naming
  <2> QED
    BY <2>2, <2>3
<1> QED
  BY <1>1, <1>2, <1>3, <1>4, <1>5 DEF SchemaInv

\* close(), or __del__ when no call is under way, begins.
LEMMA BeginClosing ==
    ASSUME SchemaInv, NEW c \in Calls, pc[c] = "idle", handle = "set", Begin(c, "closing"),
           UNCHANGED <<threaded, handle, schema, frees, referenced, arg, report>>,
           finalized' \in BOOLEAN,
           \A d \in Calls : Waiting(d),
           threaded => ~referenced /\ \A d \in Calls : pc[d] = "idle"
    PROVE  SchemaInv'
<1>1. pc \in [Calls -> Labels] /\ nested \in Seq(Calls)
  BY DEF SchemaInv, TypeOK
<1>2. Moved(c, "closing")
  <2>1. nested' \in Seq(Calls)
    BY <1>1, BeginType DEF Begin
  <2> QED
    BY <1>1, <2>1 DEF Begin, Moved, Labels, Places
<1>3. TypeOK'
  BY <1>2 DEF SchemaInv, TypeOK, Moved
<1>4. Nesting'
  <2>1. ~threaded => c \in Innermost'
    BY <1>1, InnermostAfterBegin DEF Begin
  <2> QED
    BY <1>2, <2>1 DEF Nesting, Moved, Waiting
<1>5. Solitude'
  BY <1>2 DEF Solitude, Moved, Closing, Waiting
<1>6. schema = "live"
  BY DEF SchemaInv, Naming, Waiting
<1>7. Naming' /\ FreesCounted'
  BY <1>2, <1>6 DEF SchemaInv, Naming, FreesCounted, Moved, Waiting
<1>8. NeverUsedDead' /\ ReportsFreed'
  BY <1>2 DEF SchemaInv, NeverUsedDead, ReportsFreed, Moved
<1> QED
  BY <1>3, <1>4, <1>5, <1>7, <1>8 DEF SchemaInv

LEMMA FreeKeeps ==
    ASSUME SchemaInv, NEW c \in Calls, FreeSchema(c)
    PROVE  SchemaInv'
<1>1. Moved(c, "clearing") /\ nested' = nested /\ pc[c] = "closing" /\ MayRun(c)
  BY GotoMoves DEF FreeSchema, Labels, Places
<1>2. handle = "set" /\ schema = "live" /\ Closing(c)
  BY <1>1 DEF SchemaInv, Naming, Closing
<1>3. schema' = "freed" /\ frees' = frees + 1
  BY <1>2 DEF FreeSchema
<1>4. TypeOK'
  BY <1>1, <1>3 DEF SchemaInv, TypeOK, Moved, FreeSchema
<1>5. Nesting' /\ Solitude'
  BY <1>1, <1>2, MoveNesting, MoveSolitude DEF FreeSchema
<1>6. \A d \in Calls \ {c} : Waiting(d) /\ Waiting(d)'
  BY <1>1, <1>2 DEF SchemaInv, Solitude, Moved, Waiting
<1>7. Naming' /\ FreesCounted'
  <2>1. pc'[c] = "clearing" /\ handle' = "set"
    BY <1>1, <1>2 DEF Moved, FreeSchema
  <2>2. \A d \in Calls : pc'[d] # "closing"
    BY <1>1, <1>6, <2>1 DEF Moved, Waiting
  <2>3. FreesCounted'
    BY <1>2, <1>3 DEF SchemaInv, FreesCounted
  <2> QED
    BY <1>3, <2>1, <2>2, <2>3 DEF Naming
<1>8. NeverUsedDead' /\ ReportsFreed'
  BY <1>1, <1>6 DEF SchemaInv, NeverUsedDead, ReportsFreed, FreeSchema, Moved, Waiting
<1> QED
  BY <1>4, <1>5, <1>7, <1>8 DEF SchemaInv

LEMMA ForgetKeeps ==
    ASSUME SchemaInv, NEW c \in Calls, ForgetHandle(c)
    PROVE  SchemaInv'
<1>1. Moved(c, "idle") /\ pc[c] = "clearing" /\ MayRun(c)
  BY LeaveMoves DEF ForgetHandle
<1>2. schema = "freed" /\ Closing(c)
  BY <1>1 DEF SchemaInv, Naming, Closing
<1>3. TypeOK'
  BY <1>1 DEF SchemaInv, TypeOK, Moved, ForgetHandle
<1>4. Nesting' /\ Solitude'
  BY <1>1, MoveNesting, MoveSolitude DEF ForgetHandle
<1>5. \A d \in Calls \ {c} : Waiting(d)
  BY <1>2 DEF SchemaInv, Solitude
<1>6. Naming' /\ FreesCounted'
  <2>1. handle' = "none" /\ schema' = "freed" /\ frees' = frees
    BY <1>2 DEF ForgetHandle
  <2>2. \A d \in Calls : pc'[d] \notin {"closing", "clearing"}
    BY <1>1, <1>5 DEF Moved, Waiting
  <2>3. FreesCounted'
    BY <1>2, <2>1 DEF SchemaInv, FreesCounted
  <2> QED
    BY <2>1, <2>2, <2>3 DEF Naming
<1>7. NeverUsedDead' /\ ReportsFreed'
  BY <1>1 DEF SchemaInv, NeverUsedDead, ReportsFreed, ForgetHandle, Moved
<1> QED
  BY <1>3, <1>4, <1>6, <1>7 DEF SchemaInv
-----------------------------------------------------------------------------
(* The inductive invariant. *)

LEMMA CompileKeeps ==
    ASSUME SchemaInv, Compile
    PROVE  SchemaInv'
<1>1. /\ schema = "none" /\ schema' = "live" /\ handle' = "set" /\ referenced' = TRUE
      /\ UNCHANGED <<threaded, frees, finalized, nested, pc, arg, report>>
  BY DEF Compile
<1>2. \A c \in Calls : ~Closing(c)
  BY <1>1 DEF SchemaInv, Naming, Closing
<1>3. TypeOK' /\ Nesting'
  BY <1>1 DEF SchemaInv, TypeOK, Nesting, Waiting, Innermost
<1>4. Solitude' /\ Naming'
  BY <1>1, <1>2 DEF Solitude, Naming, Closing
<1>5. FreesCounted' /\ NeverUsedDead' /\ ReportsFreed'
  BY <1>1 DEF SchemaInv, FreesCounted, NeverUsedDead, ReportsFreed
<1> QED
  BY <1>3, <1>4, <1>5 DEF SchemaInv

LEMMA StepKeeps ==
    ASSUME SchemaInv, NEW c \in Calls, Step(c)
    PROVE  SchemaInv'
<1>0. /\ pc \in [Calls -> Labels] /\ arg \in [Calls -> {"none", "set"}]
      /\ report \in [Calls -> {"none", "live", "freed"}] /\ handle \in {"none", "set"}
  BY DEF SchemaInv, TypeOK
<1>1. CASE InputRead(c)
  <2>1. Moved(c, "calling") /\ nested' = nested /\ pc[c] = "reading" /\ MayRun(c)
    BY <1>1, GotoMoves DEF InputRead, Labels, Places
  <2>2. UNCHANGED <<object, arg, report>>
    BY <1>1 DEF InputRead
  <2>3. report'[c] # "live"
    BY <2>1, <2>2 DEF SchemaInv, ReportsFreed
  <2> QED
    BY <1>0, <2>1, <2>2, <2>3, CallMoves
<1>2. CASE TestHandle(c)
  <2>1. PICK to \in {"calling", "idle"} :
            Moved(c, to) /\ (nested' = nested \/ to = "idle")
    <3>1. CASE Goto(c, "reading late", "calling")
      BY <3>1, GotoMoves DEF Labels, Places
    <3>2. CASE Leave(c)
      BY <1>2, <3>2, LeaveMoves DEF TestHandle
    <3> QED
      BY <1>2, <3>1, <3>2 DEF TestHandle
  <2>2. UNCHANGED <<object, arg, report>> /\ pc[c] = "reading late" /\ MayRun(c)
    BY <1>2 DEF TestHandle
  <2>3. report'[c] # "live"
    BY <2>2 DEF SchemaInv, ReportsFreed
  <2> QED
    BY <1>0, <2>1, <2>2, <2>3, CallMoves
<1>3. CASE EnterEngine(c)
  <2>1. Moved(c, "inside") /\ nested' = nested /\ pc[c] = "calling" /\ MayRun(c)
    BY <1>3, GotoMoves DEF EnterEngine, Labels
  <2>2. UNCHANGED <<object, report>> /\ arg' = [arg EXCEPT ![c] = handle]
    BY <1>3 DEF EnterEngine
  <2>3. report'[c] # "live"
    BY <2>1, <2>2 DEF SchemaInv, ReportsFreed
  <2>4. /\ arg' \in [Calls -> {"none", "set"}] /\ arg'[c] = handle
        /\ \A d \in Calls \ {c} : arg'[d] = arg[d]
    BY <1>0, <2>2
  <2> QED
    BY <1>0, <2>1, <2>2, <2>3, <2>4, CallMoves
<1>4. CASE LeaveEngine(c)
  <2>1. Moved(c, "draining") /\ nested' = nested /\ pc[c] = "inside" /\ MayRun(c)
    BY <1>4, GotoMoves DEF LeaveEngine, Labels
  <2>2. UNCHANGED <<object, arg>>
    BY <1>4 DEF LeaveEngine
  <2>3. PICK r \in {"none", "live"} : report' = [report EXCEPT ![c] = r]
    BY <1>4 DEF LeaveEngine
  <2>4. /\ report' \in [Calls -> {"none", "live", "freed"}]
        /\ \A d \in Calls \ {c} : report'[d] = report[d]
    BY <1>0, <2>3
  <2> QED
    BY <1>0, <2>1, <2>2, <2>4, CallMoves
<1>5. CASE Drain(c)
  <2>1. Moved(c, "idle") /\ pc[c] = "draining" /\ MayRun(c)
    BY <1>5, LeaveMoves DEF Drain
  <2>2. UNCHANGED <<object, arg>>
    BY <1>5 DEF Drain
  <2>3. /\ report' \in [Calls -> {"none", "live", "freed"}] /\ report'[c] # "live"
        /\ \A d \in Calls \ {c} : report'[d] = report[d]
    BY <1>0, <1>5 DEF Drain
  <2> QED
    BY <1>0, <2>1, <2>2, <2>3, CallMoves
<1>6. CASE FreeSchema(c)
  BY <1>6, FreeKeeps
<1>7. CASE ForgetHandle(c)
  BY <1>7, ForgetKeeps
<1> QED
  BY <1>1, <1>2, <1>3, <1>4, <1>5, <1>6, <1>7 DEF Step

LEMMA InterruptKeeps ==
    ASSUME "clearing" \notin Interrupts, SchemaInv, NEW c \in Calls, Interrupt(c)
    PROVE  SchemaInv'
<1>1. /\ pc[c] \in Places \ {"clearing"} /\ MayRun(c) /\ Leave(c)
      /\ UNCHANGED <<object, arg, report>>
  BY CallsAssumption DEF Interrupt
<1>2. Moved(c, "idle")
  BY <1>1, LeaveMoves
<1>3. pc[c] \notin {"idle", "draining", "clearing"}
  BY <1>1 DEF Places
<1>4. report'[c] # "live" /\ TypeOK
  BY <1>1, <1>3 DEF SchemaInv, ReportsFreed
<1>5. arg' \in [Calls -> {"none", "set"}] /\ report' \in [Calls -> {"none", "live", "freed"}]
  BY <1>1, <1>4 DEF TypeOK
<1> QED
  BY <1>1, <1>2, <1>3, <1>4, <1>5, CallMoves

LEMMA NextKeeps ==
    ASSUME "clearing" \notin Interrupts, SchemaInv, [Next]_vars
    PROVE  SchemaInv'
<1>1. CASE Compile
  BY <1>1, CompileKeeps
<1>2. CASE DropReference
  <2>1. /\ UNCHANGED <<threaded, handle, schema, frees, finalized, nested, pc, arg, report>>
        /\ referenced' = FALSE
    BY <1>2 DEF DropReference
  <2>2. TypeOK' /\ Nesting' /\ Solitude'
    BY <2>1 DEF SchemaInv, TypeOK, Nesting, Solitude, Waiting, Closing, Innermost
  <2>3. Naming' /\ FreesCounted' /\ NeverUsedDead' /\ ReportsFreed'
    BY <2>1 DEF SchemaInv, Naming, FreesCounted, NeverUsedDead, ReportsFreed
  <2> QED
    BY <2>2, <2>3 DEF SchemaInv
<1>3. ASSUME NEW c \in Calls, ValidateMethod(c)
      PROVE  SchemaInv'
  BY <1>3, BeginReading DEF ValidateMethod
<1>4. ASSUME NEW c \in Calls, ValidateFunction(c)
      PROVE  SchemaInv'
  BY <1>4, BeginReading DEF ValidateFunction
<1>5. ASSUME NEW c \in Calls, Close(c)
      PROVE  SchemaInv'
  <2>1. /\ ~threaded /\ MayBegin(c) /\ handle = "set" /\ Begin(c, "closing")
        /\ UNCHANGED <<object, arg, report>>
    BY <1>5 DEF Close
  <2>2. pc[c] = "idle" /\ finalized' \in BOOLEAN
    BY <2>1 DEF MayBegin, SchemaInv, TypeOK, object
  <2>3. \A d \in Calls : Waiting(d)
    BY <2>1, BeginFacts
  <2> QED
    BY <2>1, <2>2, <2>3, BeginClosing DEF object
<1>6. ASSUME NEW c \in Calls, Finalize(c)
      PROVE  SchemaInv'
  <2>1. \A d \in Calls : pc[d] = "idle" /\ Waiting(d)
    BY <1>6 DEF Finalize, Waiting
  <2> QED
    BY <1>6, <2>1, BeginClosing DEF Finalize
<1>7. ASSUME NEW c \in Calls, Step(c)
      PROVE  SchemaInv'
  BY <1>7, StepKeeps
<1>8. ASSUME NEW c \in Calls, Interrupt(c)
      PROVE  SchemaInv'
  BY <1>8, InterruptKeeps
<1>9. CASE UNCHANGED vars
  <2>1. TypeOK' /\ Nesting' /\ Solitude'
    BY <1>9 DEF vars, object, SchemaInv, TypeOK, Nesting, Solitude, Waiting, Closing, Innermost
  <2>2. Naming' /\ FreesCounted' /\ NeverUsedDead' /\ ReportsFreed'
    BY <1>9 DEF vars, object, SchemaInv, Naming, FreesCounted, NeverUsedDead, ReportsFreed
  <2> QED
    BY <2>1, <2>2 DEF SchemaInv
<1> QED
  BY <1>1, <1>2, <1>3, <1>4, <1>5, <1>6, <1>7, <1>8, <1>9 DEF Next

(* Where an interrupt cannot arrive between the free and the assignment that *)
(* forgets the handle, the engine is never given a schema that close() or     *)
(* __del__ has freed, whatever calls the reading of an input makes.          *)
THEOREM SchemaNeverUsedDead ==
    ASSUME "clearing" \notin Interrupts
    PROVE  Spec => []NeverUsedDead
<1>1. Init => SchemaInv
  BY InitSchemaInv
<1>2. SchemaInv /\ [Next]_vars => SchemaInv'
  BY NextKeeps
<1>3. SchemaInv => NeverUsedDead
  BY DEF SchemaInv
<1> QED
  BY <1>1, <1>2, <1>3, PTL DEF Spec

(* Under the same condition close() and __del__, together and however often, *)
(* free the schema at most once: "freeing twice is guarded here".             *)
THEOREM SchemaFreedOnce ==
    ASSUME "clearing" \notin Interrupts
    PROVE  Spec => []FreedOnce
<1>1. Init => SchemaInv
  BY InitSchemaInv
<1>2. SchemaInv /\ [Next]_vars => SchemaInv'
  BY NextKeeps
<1>3. SchemaInv => FreedOnce
  BY DEF SchemaInv, FreesCounted, FreedOnce
<1> QED
  BY <1>1, <1>2, <1>3, PTL DEF Spec

(* Every report the engine hands out is freed by the validation that got it, *)
(* whether the validation returns, raises or is interrupted elsewhere.        *)
THEOREM SchemaReportsFreed == Spec => []ReportsFreed
<1> DEFINE Kept == /\ pc \in [Calls -> Labels]
                   /\ report \in [Calls -> {"none", "live", "freed"}]
                   /\ ReportsFreed
<1>1. Init => Kept
  <2> SUFFICES ASSUME Init PROVE Kept
    OBVIOUS
  <2>1. pc \in [Calls -> Labels] /\ report \in [Calls -> {"none", "live", "freed"}]
    BY DEF Init, Labels
  <2>2. ReportsFreed
    BY DEF Init, ReportsFreed
  <2> QED
    BY <2>1, <2>2
<1>2. Kept /\ [Next]_vars => Kept'
  <2> SUFFICES ASSUME Kept, [Next]_vars PROVE Kept'
    OBVIOUS
  <2>1. CASE UNCHANGED <<pc, report>>
    BY <2>1 DEF ReportsFreed
  <2>2. ASSUME NEW c \in Calls, NEW to \in Labels \ {"draining"}, pc[c] # "draining",
               pc' = [pc EXCEPT ![c] = to], report' = report
        PROVE  Kept'
    BY <2>2 DEF ReportsFreed
  <2>3. ASSUME NEW c \in Calls, LeaveEngine(c)
        PROVE  Kept'
    <3>1. pc' = [pc EXCEPT ![c] = "draining"]
      BY <2>3 DEF LeaveEngine, Goto
    <3>2. PICK r \in {"none", "live"} : report' = [report EXCEPT ![c] = r]
      BY <2>3 DEF LeaveEngine
    <3> QED
      BY <3>1, <3>2 DEF ReportsFreed, Labels
  <2>4. ASSUME NEW c \in Calls, Drain(c)
        PROVE  Kept'
    <3>1. pc' = [pc EXCEPT ![c] = "idle"]
      BY <2>4 DEF Drain, Leave
    <3>2. /\ report' \in [Calls -> {"none", "live", "freed"}] /\ report'[c] # "live"
          /\ \A d \in Calls \ {c} : report'[d] = report[d]
      BY <2>4 DEF Drain
    <3> QED
      BY <3>1, <3>2 DEF ReportsFreed, Labels
  <2>5. ASSUME NEW c \in Calls, ValidateMethod(c) \/ ValidateFunction(c)
                                \/ Close(c) \/ Finalize(c)
        PROVE  Kept'
    <3>1. PICK to \in {"reading", "reading late", "closing"} : pc' = [pc EXCEPT ![c] = to]
      BY <2>5 DEF ValidateMethod, ValidateFunction, Close, Finalize, Begin
    <3>2. pc[c] = "idle" /\ report' = report
      BY <2>5 DEF ValidateMethod, ValidateFunction, Close, Finalize, MayBegin
    <3> QED
      BY <3>1, <3>2, <2>2 DEF Labels, Places
  <2>6. ASSUME NEW c \in Calls, InputRead(c) \/ EnterEngine(c) \/ FreeSchema(c)
        PROVE  Kept'
    <3>1. PICK to \in {"calling", "inside", "clearing"} : pc' = [pc EXCEPT ![c] = to]
      BY <2>6 DEF InputRead, EnterEngine, FreeSchema, Goto
    <3>2. pc[c] # "draining" /\ report' = report
      BY <2>6 DEF InputRead, EnterEngine, FreeSchema, Goto
    <3> QED
      BY <3>1, <3>2, <2>2 DEF Labels, Places
  <2>7. ASSUME NEW c \in Calls, TestHandle(c) \/ ForgetHandle(c) \/ Interrupt(c)
        PROVE  Kept'
    <3>1. PICK to \in {"calling", "idle"} : pc' = [pc EXCEPT ![c] = to]
      BY <2>7 DEF TestHandle, ForgetHandle, Interrupt, Goto, Leave
    <3>2. pc[c] # "draining" /\ report' = report
      BY <2>7, CallsAssumption DEF TestHandle, ForgetHandle, Interrupt, Places
    <3> QED
      BY <3>1, <3>2, <2>2 DEF Labels, Places
  <2>8. Compile \/ DropReference \/ UNCHANGED vars => UNCHANGED <<pc, report>>
    BY DEF Compile, DropReference, vars
  <2> QED
    BY <2>1, <2>3, <2>4, <2>5, <2>6, <2>7, <2>8 DEF Next, Step
<1>3. Kept => ReportsFreed
  OBVIOUS
<1> QED
  BY <1>1, <1>2, <1>3, PTL DEF Spec

LEMMA LeaveTyped ==
    ASSUME TypeOK, NEW c \in Calls, Leave(c)
    PROVE  pc' \in [Calls -> Labels] /\ nested' \in Seq(Calls)
<1>1. "idle" \in Labels
  BY DEF Labels
<1>2. SubSeq(nested, 1, Len(nested) - 1) \in Seq(Calls)
  BY DEF TypeOK
<1> QED
  BY <1>1, <1>2 DEF TypeOK, Leave

LEMMA BeginTyped ==
    ASSUME TypeOK, NEW c \in Calls, NEW to \in Labels, Begin(c, to)
    PROVE  pc' \in [Calls -> Labels] /\ nested' \in Seq(Calls)
BY DEF TypeOK, Begin

LEMMA GotoTyped ==
    ASSUME TypeOK, NEW c \in Calls, NEW from, NEW to \in Labels, Goto(c, from, to)
    PROVE  pc' \in [Calls -> Labels] /\ nested' \in Seq(Calls)
BY DEF TypeOK, Goto

(* A Schema and its calls never leave their types, interrupted anywhere: the *)
(* handle is None or a pointer, a report none, live or freed.                *)
THEOREM SchemaTypeCorrect == Spec => []TypeOK
<1>1. Init => TypeOK
  BY InitSchemaInv DEF SchemaInv
<1>2. TypeOK /\ [Next]_vars => TypeOK'
  <2> SUFFICES ASSUME TypeOK, [Next]_vars PROVE TypeOK'
    OBVIOUS
  <2> USE DEF TypeOK
  <2>1. CASE Compile \/ DropReference \/ UNCHANGED vars
    BY <2>1 DEF Compile, DropReference, vars, object
  <2>2. ASSUME NEW c \in Calls, InputRead(c) \/ EnterEngine(c) \/ FreeSchema(c) \/ LeaveEngine(c)
        PROVE  TypeOK'
    <3>1. PICK to \in {"calling", "inside", "clearing", "draining"} : \E from \in Labels : Goto(c, from, to)
      <4>1. {"reading", "calling", "closing", "inside"} \subseteq Labels
        BY DEF Labels, Places
      <4> QED
        BY <2>2, <4>1 DEF InputRead, EnterEngine, FreeSchema, LeaveEngine
    <3>4. to \in Labels
      BY DEF Labels, Places
    <3>2. arg' \in [Calls -> {"none", "set"}] /\ report' \in [Calls -> {"none", "live", "freed"}]
      BY <2>2 DEF InputRead, EnterEngine, FreeSchema, LeaveEngine
    <3>3. /\ schema' \in {"none", "live", "freed"} /\ frees' \in Nat
          /\ UNCHANGED <<threaded, handle, referenced, finalized>>
      BY <2>2 DEF InputRead, EnterEngine, FreeSchema, LeaveEngine, object
    <3> QED
      BY <3>1, <3>2, <3>3, <3>4, GotoTyped
  <2>3. ASSUME NEW c \in Calls, Drain(c) \/ ForgetHandle(c) \/ Interrupt(c)
        PROVE  TypeOK'
    <3>1. Leave(c)
      BY <2>3 DEF Drain, ForgetHandle, Interrupt
    <3>2. /\ handle' \in {"none", "set"} /\ report' \in [Calls -> {"none", "live", "freed"}]
          /\ UNCHANGED <<threaded, schema, frees, referenced, finalized, arg>>
      BY <2>3 DEF Drain, ForgetHandle, Interrupt, object
    <3> QED
      BY <3>1, <3>2, LeaveTyped
  <2>4. ASSUME NEW c \in Calls, ValidateMethod(c) \/ ValidateFunction(c) \/ Close(c) \/ Finalize(c)
        PROVE  TypeOK'
    <3>1. PICK to \in {"reading", "reading late", "closing"} : Begin(c, to)
      BY <2>4 DEF ValidateMethod, ValidateFunction, Close, Finalize
    <3>3. to \in Labels
      BY DEF Labels, Places
    <3>2. finalized' \in BOOLEAN /\ UNCHANGED <<threaded, handle, schema, frees, referenced, arg, report>>
      BY <2>4 DEF ValidateMethod, ValidateFunction, Close, Finalize, object
    <3> QED
      BY <3>1, <3>2, <3>3, BeginTyped
  <2>5. ASSUME NEW c \in Calls, TestHandle(c)
        PROVE  TypeOK'
    <3>1. UNCHANGED <<object, arg, report>>
      BY <2>5 DEF TestHandle
    <3>2. pc' \in [Calls -> Labels] /\ nested' \in Seq(Calls)
      <4>1. CASE Leave(c)
        BY <4>1, LeaveTyped
      <4>2. CASE Goto(c, "reading late", "calling")
        <5>1. "reading late" \in Labels /\ "calling" \in Labels
          BY DEF Labels, Places
        <5> QED
          BY <4>2, <5>1, GotoTyped
      <4> QED
        BY <2>5, <4>1, <4>2 DEF TestHandle
    <3> QED
      BY <3>1, <3>2 DEF object
  <2> QED
    BY <2>1, <2>2, <2>3, <2>4, <2>5 DEF Next, Step
<1> QED
  BY <1>1, <1>2, PTL DEF Spec
=============================================================================
