----------------------------- MODULE DocumentStream -----------------------------
(***************************************************************************)
(* each_document (yeptris/_loader.py): a generator over the engine's       *)
(* stream iterator.  Its consumer pulls, closes or drops it between two    *)
(* steps; the generator owns the iterator handle and must free it however  *)
(* it ends.                                                                *)
(***************************************************************************)
EXTENDS Naturals, Sequences

CONSTANTS
    Documents,       \* the kinds of document a stream may hold, of AllDocuments
    MaxStream        \* bound: documents in one stream

\* "unbuildable": the iterator frames the document, the loader rejects it.
AllDocuments == {"valid", "unbuildable", "malformed", "too_deep", "memory", "encoding"}
Framed == {"valid", "unbuildable"}
Fatal == {"memory", "encoding"}

ASSUME DocumentsAssumption == Documents \subseteq AllDocuments /\ MaxStream \in Nat

VARIABLES
    stream,          \* the documents the engine finds, in order
    position,        \* documents the iterator has passed
    gen,             \* the generator: created, running, suspended, finished
    pc,              \* where it runs or will resume
    iterator,        \* the engine's handle: none, open, freed
    pairs,           \* what the consumer received
    outcome          \* why the generator finished

vars == <<stream, position, gen, pc, iterator, pairs, outcome>>

Init ==
    /\ stream \in UNION {[1..n -> Documents] : n \in 0..MaxStream}
    /\ position = 0
    /\ gen = "created"
    /\ pc = "open"
    /\ iterator = "none"
    /\ pairs = <<>>
    /\ outcome = "no"

-----------------------------------------------------------------------------
(* The consumer. *)

Pull ==
    /\ gen \in {"created", "suspended"}
    /\ gen' = "running"
    /\ UNCHANGED <<stream, position, pc, iterator, pairs, outcome>>

\* close(), or the last reference goes: GeneratorExit is raised at the yield,
\* and a generator never started has nothing to unwind.
Close ==
    /\ gen \in {"created", "suspended"}
    /\ outcome' = "stopped"
    /\ IF gen = "created" THEN gen' = "finished" /\ UNCHANGED pc
       ELSE gen' = "running" /\ pc' = "finally"
    /\ UNCHANGED <<stream, position, iterator, pairs>>

-----------------------------------------------------------------------------
(* The generator's body. *)

At(label) == gen = "running" /\ pc = label

\* The input cannot be read, or the engine cannot allocate the iterator: the
\* try block has not been entered.
FailToOpen ==
    /\ At("open")
    /\ gen' = "finished"
    /\ outcome' = "broken"
    /\ UNCHANGED <<stream, position, pc, iterator, pairs>>

Open ==
    /\ At("open")
    /\ iterator' = "open"
    /\ pc' = "next"
    /\ UNCHANGED <<stream, position, gen, pairs, outcome>>

End ==
    /\ At("next") /\ position = Len(stream)
    /\ outcome' = "exhausted"
    /\ pc' = "finally"
    /\ UNCHANGED <<stream, position, gen, iterator, pairs>>

\* Slip: framing a document moves the iterator a second time.
NextDocumentTwice ==
    /\ At("next") /\ position < Len(stream)
    /\ position' = position + (IF stream[position + 1] \in Framed THEN 2 ELSE 1)
    /\ pc' = IF stream[position + 1] \in Framed THEN "frame" ELSE "status"
    /\ UNCHANGED <<stream, gen, iterator, pairs, outcome>>

NextDocument ==
    /\ At("next") /\ position < Len(stream)
    /\ position' = position + 1
    /\ pc' = IF stream[position + 1] \in Framed THEN "frame" ELSE "status"
    /\ UNCHANGED <<stream, gen, iterator, pairs, outcome>>

Escape(reason) ==
    /\ outcome' = reason
    /\ pc' = "finally"
    /\ UNCHANGED <<stream, position, gen, iterator, pairs>>

\* The engine answers no slice or no buffer for the frame it announced.
LoseFrame == At("frame") /\ Escape("broken")

Yield(pair, resume) ==
    /\ pairs' = Append(pairs, pair)
    /\ gen' = "suspended"
    /\ pc' = resume
    /\ UNCHANGED <<stream, position, iterator, outcome>>

\* The frame is copied out and goes through the loader.
YieldDocument ==
    /\ At("frame") /\ stream[position] = "valid"
    /\ Yield("document", "next")

BuildFails ==
    /\ At("frame") /\ stream[position] = "unbuildable"
    /\ Escape("unbuildable")

\* Slip: a depth failure is passed over in silence.
YieldErrorSkipsDepth ==
    /\ At("status")
    /\ IF stream[position] = "too_deep"
       THEN pc' = "next" /\ UNCHANGED <<stream, position, gen, iterator, pairs, outcome>>
       ELSE Yield("error", IF stream[position] \in Fatal THEN "return" ELSE "next")

YieldError ==
    /\ At("status")
    /\ Yield("error", IF stream[position] \in Fatal THEN "return" ELSE "next")

Return == At("return") /\ Escape("exhausted")

\* Slip: only the generator's own return frees the handle.
FinallyOnReturn ==
    /\ At("finally")
    /\ iterator' = IF outcome = "exhausted" THEN "freed" ELSE iterator
    /\ gen' = "finished"
    /\ UNCHANGED <<stream, position, pc, pairs, outcome>>

Finally ==
    /\ At("finally")
    /\ iterator' = "freed"
    /\ gen' = "finished"
    /\ UNCHANGED <<stream, position, pc, pairs, outcome>>

Body ==
    \/ FailToOpen \/ Open
    \/ End \/ NextDocument
    \/ LoseFrame \/ YieldDocument \/ BuildFails
    \/ YieldError \/ Return \/ Finally

Next == Pull \/ Close \/ Body

\* Python runs a started generator to its next yield; a consumer either goes on
\* asking or lets the generator go.
Spec == Init /\ [][Next]_vars /\ WF_vars(Body) /\ WF_vars(Pull \/ Close)

-----------------------------------------------------------------------------
(* The generator's state has the types the code gives it. *)
TypeOK ==
    /\ stream \in Seq(Documents)
    /\ position \in 0..Len(stream)
    /\ gen \in {"created", "running", "suspended", "finished"}
    /\ pc \in {"open", "next", "frame", "status", "return", "finally"}
    /\ iterator \in {"none", "open", "freed"}
    /\ pairs \in Seq({"document", "error"})
    /\ outcome \in {"no", "exhausted", "stopped", "broken", "unbuildable"}

(* The engine's iterator is open whenever the generator may call it, and no  *)
(* finished generator leaves it open: not when the consumer stops early, not *)
(* when a document fails to build, not after a stream-fatal status.          *)
HandleLifetime ==
    /\ gen = "finished" => iterator # "open"
    /\ iterator = "open" <=> (gen # "finished" /\ pc # "open")

(* Once the consumer has started it, the generator ends and its iterator is  *)
(* freed, whether the consumer asks to the end or lets the generator go.     *)
EventuallyFreed == (iterator = "open") ~> (iterator = "freed" /\ gen = "finished")

\* A document that frames but does not build breaks the feed.
FeedEnded ==
    IF gen # "finished" /\ pc # "finally" THEN "no"
    ELSE IF outcome = "unbuildable" THEN "broken" ELSE outcome

(* The walk is what each_document promises, read as a feed of documents: each *)
(* in order, none skipped or repeated, nothing after a stream-fatal one, and *)
(* an exhausted feed has delivered them all.                                 *)
Feed == INSTANCE DocumentFeed WITH
            Valid <- Framed, Fatal <- Fatal, delivered <- pairs, ended <- FeedEnded

KeepsPromise == Feed!FeedSpec

(* "(None, error) for every failed one ... and the walk CONTINUES": no        *)
(* document of the stream ends the walk but a stream-fatal one.              *)
EveryDocumentAnswered ==
    gen = "finished" /\ outcome # "stopped" /\ outcome # "broken"
        => Len(pairs) = Len(stream) \/ (pairs # <<>> /\ stream[Len(pairs)] \in Fatal)
=============================================================================
