------------------------------ MODULE DocumentFeed ------------------------------
(***************************************************************************)
(* What each_document promises its consumer: the documents of the stream,  *)
(* in order, each as a document or as its own error, past failed ones and  *)
(* up to the end of the stream, a stream-fatal failure, or the point where *)
(* the consumer stops asking.                                              *)
(***************************************************************************)
EXTENDS Naturals, Sequences

CONSTANTS
    Documents,       \* what a document of the stream may be
    Valid,           \* those of them that yield a value; the others yield their error
    Fatal            \* failed ones after which no document can be found

VARIABLES
    stream,          \* the documents of the stream
    delivered,       \* what the consumer has received
    ended            \* "no", or why nothing more comes

feedVars == <<stream, delivered, ended>>

PairFor(d) == IF d \in Valid THEN "document" ELSE "error"

Delivered == Len(delivered)

AfterFatal == Delivered > 0 /\ stream[Delivered] \in Fatal

FeedInit == delivered = <<>> /\ ended = "no"

Deliver ==
    /\ ended = "no"
    /\ Delivered < Len(stream) /\ ~AfterFatal
    /\ delivered' = Append(delivered, PairFor(stream[Delivered + 1]))
    /\ UNCHANGED <<stream, ended>>

RunOut ==
    /\ ended = "no"
    /\ Delivered = Len(stream) \/ AfterFatal
    /\ ended' = "exhausted"
    /\ UNCHANGED <<stream, delivered>>

\* The consumer closes or drops the feed.
Stop ==
    /\ ended = "no"
    /\ ended' = "stopped"
    /\ UNCHANGED <<stream, delivered>>

\* The feed could not be opened, or the engine lost the frame it announced.
Break ==
    /\ ended = "no"
    /\ ended' = "broken"
    /\ UNCHANGED <<stream, delivered>>

FeedNext == Deliver \/ RunOut \/ Stop \/ Break

FeedSpec == FeedInit /\ [][FeedNext]_feedVars
=============================================================================
