-------------------------- MODULE DocumentStreamProofs --------------------------
(***************************************************************************)
(* Proofs about each_document, for streams of every length and every kind  *)
(* of document: the iterator's life, and that the generator is the feed of *)
(* documents its docstring describes.                                      *)
(***************************************************************************)
EXTENDS DocumentStream, TLAPS

-----------------------------------------------------------------------------
(* Where the generator can be: it is suspended only at a yield, and why it   *)
(* ends is known as soon as it leaves its try block, not before.             *)
Control ==
    /\ gen = "created" => pc = "open"
    /\ gen = "suspended" => pc \in {"next", "return"}
    /\ pc = "open" => position = 0 /\ pairs = <<>>
    /\ outcome = "no" <=> (gen # "finished" /\ pc # "finally")

(* How far the iterator is ahead of the consumer, and that only a            *)
(* stream-fatal failure makes the generator return.                          *)
Progress ==
    gen # "finished" =>
        /\ pc \in {"next", "return"} => position = Len(pairs)
        /\ pc \in {"frame", "status"} => position = Len(pairs) + 1
        /\ pc = "return" => position > 0 /\ stream[position] \in Fatal
        /\ pc \in {"next", "frame", "status"} =>
               (Len(pairs) > 0 => stream[Len(pairs)] \notin Fatal)
        /\ pc = "frame" => stream[position] \in Framed
        /\ pc = "status" => stream[position] \notin Framed

StreamInv == TypeOK /\ HandleLifetime /\ Control /\ Progress

LEMMA InitStreamInv == Init => StreamInv
<1> SUFFICES ASSUME Init PROVE StreamInv
  OBVIOUS
<1>1. stream \in Seq(Documents)
  BY DocumentsAssumption DEF Init
<1>2. TypeOK
  BY <1>1 DEF Init, TypeOK
<1> QED
  BY <1>2 DEF Init, StreamInv, HandleLifetime, Control, Progress

LEMMA PullKeeps == StreamInv /\ Pull => StreamInv'
BY DEF StreamInv, TypeOK, HandleLifetime, Control, Progress, Pull

LEMMA CloseKeeps == StreamInv /\ Close => StreamInv'
BY DEF StreamInv, TypeOK, HandleLifetime, Control, Progress, Close

\* A yield, after which the consumer has as many documents as the iterator has
\* passed.
LEMMA YieldKeeps ==
    ASSUME StreamInv, gen = "running", pc \in {"frame", "status"},
           NEW pair \in {"document", "error"},
           NEW resume \in {"next", "return"}, Yield(pair, resume),
           resume = "return" <=> stream[position] \in Fatal
    PROVE  StreamInv'
<1>1. /\ pairs' \in Seq({"document", "error"}) /\ Len(pairs') = Len(pairs) + 1
      /\ position = Len(pairs) + 1
  BY DEF StreamInv, TypeOK, Progress, Yield
<1>2. TypeOK'
  BY <1>1 DEF StreamInv, TypeOK, Yield
<1>3. HandleLifetime' /\ Control'
  BY <1>1 DEF StreamInv, TypeOK, HandleLifetime, Control, Yield
<1>4. Progress'
  BY <1>1 DEF StreamInv, TypeOK, Progress, Yield
<1> QED
  BY <1>2, <1>3, <1>4 DEF StreamInv

LEMMA BodyKeeps == StreamInv /\ Body => StreamInv'
<1> SUFFICES ASSUME StreamInv, Body PROVE StreamInv'
  OBVIOUS
<1> USE DEF StreamInv, TypeOK, HandleLifetime, Control, Progress, At
<1>1. CASE FailToOpen
  BY <1>1 DEF FailToOpen
<1>2. CASE Open
  BY <1>2 DEF Open
<1>3. CASE End
  BY <1>3 DEF End
<1>4. CASE NextDocument
  BY <1>4 DEF NextDocument
<1>5. CASE LoseFrame
  BY <1>5 DEF LoseFrame, Escape
<1>6. CASE YieldDocument
  <2>1. stream[position] \notin Fatal
    BY <1>6 DEF YieldDocument, Fatal
  <2> QED
    BY ONLY <1>6, <2>1, StreamInv, YieldKeeps DEF YieldDocument, At
<1>7. CASE BuildFails
  BY <1>7 DEF BuildFails, Escape
<1>8. CASE YieldError
  BY ONLY <1>8, StreamInv, YieldKeeps DEF YieldError, At
<1>9. CASE Return
  BY <1>9 DEF Return, Escape
<1>10. CASE Finally
  BY <1>10 DEF Finally
<1> QED
  BY <1>1, <1>2, <1>3, <1>4, <1>5, <1>6, <1>7, <1>8, <1>9, <1>10 DEF Body

LEMMA StreamInductive == Spec => []StreamInv
<1>1. StreamInv /\ [Next]_vars => StreamInv'
  <2> SUFFICES ASSUME StreamInv, [Next]_vars PROVE StreamInv'
    OBVIOUS
  <2>1. CASE Next
    BY <2>1, PullKeeps, CloseKeeps, BodyKeeps DEF Next
  <2>2. CASE UNCHANGED vars
    BY <2>2 DEF vars, StreamInv, TypeOK, HandleLifetime, Control, Progress
  <2> QED
    BY <2>1, <2>2
<1> QED
  BY InitStreamInv, <1>1, PTL DEF Spec

(* The iterator is open exactly while the generator may call it, for streams *)
(* of every length: no way out of each_document leaves it open.              *)
THEOREM StreamHandleLifetime == Spec => []HandleLifetime
BY StreamInductive, PTL DEF StreamInv

(* The generator never leaves its types: the position stays inside a stream  *)
(* of any length, and every pair it yields is a document or an error.        *)
THEOREM StreamTypeCorrect == Spec => []TypeOK
BY StreamInductive, PTL DEF StreamInv

-----------------------------------------------------------------------------
\* Each step of the generator and its consumer, as a step of the feed.

LEMMA YieldDelivers ==
    ASSUME StreamInv, gen = "running", pc \in {"frame", "status"},
           NEW pair, NEW resume \in {"next", "return"}, Yield(pair, resume),
           pair = Feed!PairFor(stream[position])
    PROVE  Feed!Deliver
<1>1. Len(pairs) < Len(stream) /\ position = Len(pairs) + 1
  BY DEF StreamInv, TypeOK, Progress
<1>2. FeedEnded = "no" /\ FeedEnded' = "no"
  BY DEF FeedEnded, Yield
<1>3. ~Feed!AfterFatal
  BY DEF StreamInv, Progress, Feed!AfterFatal, Feed!Delivered
<1> QED
  BY <1>1, <1>2, <1>3 DEF Feed!Deliver, Feed!Delivered, Yield

LEMMA StepImplementsFeed == StreamInv /\ Next => Feed!FeedNext \/ UNCHANGED Feed!feedVars
<1> SUFFICES ASSUME StreamInv, Next
             PROVE  Feed!FeedNext \/ UNCHANGED Feed!feedVars
  OBVIOUS
<1> USE DEF At, FeedEnded, Feed!FeedNext, Feed!feedVars
<1>1. CASE Pull
  BY <1>1 DEF Pull
<1>2. CASE Close
  BY <1>2 DEF Close, Feed!Stop, StreamInv, Control
<1>3. CASE FailToOpen
  BY <1>3 DEF FailToOpen, Feed!Break
<1>4. CASE Open
  BY <1>4 DEF Open
<1>5. CASE End
  BY <1>5 DEF End, Feed!RunOut, Feed!Delivered, StreamInv, Progress
<1>6. CASE NextDocument
  BY <1>6 DEF NextDocument
<1>7. CASE LoseFrame
  BY <1>7 DEF LoseFrame, Escape, Feed!Break
<1>8. CASE YieldDocument
  BY ONLY <1>8, StreamInv, YieldDelivers DEF YieldDocument, At, Feed!PairFor, Framed, Feed!FeedNext
<1>9. CASE BuildFails
  BY <1>9 DEF BuildFails, Escape, Feed!Break
<1>10. CASE YieldError
  <2>1. Feed!PairFor(stream[position]) = "error"
    BY <1>10 DEF YieldError, StreamInv, Progress, Feed!PairFor
  <2> QED
    BY ONLY <1>10, <2>1, StreamInv, YieldDelivers DEF YieldError, At, Feed!FeedNext
<1>11. CASE Return
  BY <1>11 DEF Return, Escape, Feed!RunOut, Feed!AfterFatal, Feed!Delivered, StreamInv, Progress
<1>12. CASE Finally
  BY <1>12 DEF Finally
<1> QED
  BY <1>1, <1>2, <1>3, <1>4, <1>5, <1>6, <1>7, <1>8, <1>9, <1>10, <1>11, <1>12 DEF Next, Body

(* each_document is the feed it promises: every document of the stream once, *)
(* in order, as itself or as its error, nothing after a stream-fatal one, and *)
(* a feed that ends exhausted has delivered everything.                      *)
THEOREM StreamKeepsPromise == Spec => KeepsPromise
<1>1. Init => Feed!FeedInit
  BY DEF Init, FeedEnded, Feed!FeedInit
<1>2. StreamInv /\ [Next]_vars => [Feed!FeedNext]_(Feed!feedVars)
  <2> SUFFICES ASSUME StreamInv, [Next]_vars PROVE [Feed!FeedNext]_(Feed!feedVars)
    OBVIOUS
  <2>1. CASE Next
    BY <2>1, StepImplementsFeed
  <2>2. CASE UNCHANGED vars
    BY <2>2 DEF vars, Feed!feedVars, FeedEnded
  <2> QED
    BY <2>1, <2>2
<1> QED
  BY <1>1, <1>2, StreamInductive, PTL DEF Spec, KeepsPromise, Feed!FeedSpec
=============================================================================
