---------------------------- MODULE NativeJsonProofs ----------------------------
(***************************************************************************)
(* Proofs about loads of ext/yeptris_native.c, for every set of strings,    *)
(* every hash, every size of the cache and every depth limit: the           *)
(* references it owns are accounted for on every path, and what it accepts  *)
(* and rejects is what the grammar of JSON makes of the text, with no bound *)
(* on the text's length.  And about the columns walk of yeptris/json.py     *)
(* beside it: it answers the meaning of the text too.                       *)
(***************************************************************************)
EXTENDS StrictWalk, SequenceTheorems, FiniteSetTheorems, WellFoundedInduction, TLAPS

-----------------------------------------------------------------------------
(* The frames as a stack.  A sequence of frames is in Seq(S) for the set S of *)
(* its own elements: the values of a frame form no set named beforehand.     *)

FrameOK(f) == f \in [kind : Openers, key : AtMostOne(Texts), value : {f.value}]

Stack(fs) ==
    /\ fs \in Seq({fs[i] : i \in DOMAIN fs})
    /\ \A i \in DOMAIN fs : FrameOK(fs[i])

Count(fs) == Cardinality(KeysHeld(fs))
KeyCount(f) == IF f.key = <<>> THEN 0 ELSE 1

LEMMA OwnElements ==
    ASSUME NEW S, NEW s \in Seq(S)
    PROVE  s \in Seq({s[i] : i \in DOMAIN s}) /\ DOMAIN s = 1..Len(s) /\ Len(s) \in Nat
<1>1. /\ Len(s) \in Nat /\ DOMAIN s = 1..Len(s)
      /\ s = [i \in 1..Len(s) |-> s[i]]
  OBVIOUS
<1> DEFINE T == {s[i] : i \in DOMAIN s}
<1>2. \A i \in 1..Len(s) : s[i] \in T
  BY <1>1
<1> HIDE DEF T
<1>3. s \in Seq(T)
  BY <1>1, <1>2
<1> QED
  BY <1>1, <1>3 DEF T

LEMMA CountType ==
    ASSUME NEW fs, Stack(fs)
    PROVE  Len(fs) \in Nat /\ DOMAIN fs = 1..Len(fs) /\ IsFiniteSet(KeysHeld(fs)) /\ Count(fs) \in Nat
<1>1. Len(fs) \in Nat /\ DOMAIN fs = 1..Len(fs)
  BY OwnElements DEF Stack
<1>2. IsFiniteSet(1..Len(fs)) /\ KeysHeld(fs) \subseteq 1..Len(fs)
  BY <1>1, FS_Interval DEF KeysHeld
<1> QED
  BY <1>1, <1>2, FS_Subset, FS_CardinalityType DEF Count

LEMMA PushFacts ==
    ASSUME NEW fs, Stack(fs), NEW f, FrameOK(f)
    PROVE  /\ Stack(Append(fs, f))
           /\ Len(Append(fs, f)) = Len(fs) + 1
           /\ Append(fs, f) # <<>>
           /\ Append(fs, f)[Len(fs) + 1] = f
           /\ Count(Append(fs, f)) = Count(fs) + KeyCount(f)
<1> DEFINE S == {fs[i] : i \in DOMAIN fs} \cup {f}
           g == Append(fs, f)
           n == Len(fs)
<1>1. n \in Nat /\ DOMAIN fs = 1..n /\ IsFiniteSet(KeysHeld(fs)) /\ Count(fs) \in Nat
  BY CountType
<1>2. fs \in Seq(S) /\ f \in S
  <2>1. fs \in Seq({fs[i] : i \in DOMAIN fs})
    BY DEF Stack
  <2> QED
    BY <2>1
<1> HIDE DEF S
<1>3. /\ g \in Seq(S) /\ Len(g) = n + 1 /\ g # <<>> /\ g[n + 1] = f
      /\ \A i \in 1..n : g[i] = fs[i]
  BY <1>2
<1> HIDE DEF g
<1>4. DOMAIN g = 1..n + 1 /\ g \in Seq({g[i] : i \in DOMAIN g})
  BY <1>3, OwnElements
<1>5. Stack(g)
  <2>1. \A i \in 1..n : FrameOK(fs[i])
    BY <1>1 DEF Stack
  <2>2. \A i \in 1..n + 1 : i \in 1..n \/ i = n + 1
    BY <1>1
  <2>3. \A i \in DOMAIN g : FrameOK(g[i])
    BY <1>3, <1>4, <2>1, <2>2, Zenon
  <2> QED
    BY ONLY <1>4, <2>3 DEF Stack
<1>6. n + 1 \notin KeysHeld(fs)
  BY <1>1 DEF KeysHeld
<1>7. CASE f.key = <<>>
  <2>1. KeysHeld(g) = KeysHeld(fs)
    BY <1>1, <1>3, <1>4, <1>7 DEF KeysHeld
  <2> QED
    BY <1>1, <1>3, <1>5, <1>7, <2>1 DEF Count, KeyCount, g
<1>8. CASE f.key # <<>>
  <2>1. KeysHeld(g) = KeysHeld(fs) \cup {n + 1}
    BY <1>1, <1>3, <1>4, <1>8 DEF KeysHeld
  <2>2. Cardinality(KeysHeld(g)) = Cardinality(KeysHeld(fs)) + 1
    BY <1>1, <1>6, <2>1, FS_AddElement
  <2> QED
    BY <1>3, <1>5, <1>8, <2>2 DEF Count, KeyCount, g
<1> QED
  BY <1>7, <1>8

LEMMA PopFacts ==
    ASSUME NEW fs, Stack(fs), fs # <<>>
    PROVE  LET b == SubSeq(fs, 1, Len(fs) - 1) IN
           /\ Stack(b) /\ Len(fs) > 0 /\ Len(b) = Len(fs) - 1
           /\ FrameOK(fs[Len(fs)])
           /\ Count(fs) = Count(b) + KeyCount(fs[Len(fs)])
<1> DEFINE S == {fs[i] : i \in DOMAIN fs}
           b == SubSeq(fs, 1, Len(fs) - 1)
           n == Len(fs)
<1>1. n \in Nat /\ DOMAIN fs = 1..n /\ IsFiniteSet(KeysHeld(fs)) /\ Count(fs) \in Nat
  BY CountType
<1>2. fs \in Seq(S)
  BY DEF Stack
<1> HIDE DEF S
<1>3. n > 0 /\ n - 1 \in Nat
  BY <1>1, <1>2
<1>4. /\ b \in Seq(S) /\ Len(b) = n - 1
      /\ \A i \in 1..n - 1 : b[i] = fs[i]
  <2>1. PICK m \in Nat : m = n - 1
    BY <1>3
  <2>2. \A i \in 1..m : fs[i] \in S
    BY <1>2, <1>3, <2>1
  <2>3. /\ SubSeq(fs, 1, m) \in Seq(S)
        /\ Len(SubSeq(fs, 1, m)) = IF 1 <= m THEN m - 1 + 1 ELSE 0
        /\ \A i \in 1..m - 1 + 1 : SubSeq(fs, 1, m)[i] = fs[1 + i - 1]
    BY <2>2, SubSeqProperties
  <2>4. Len(SubSeq(fs, 1, m)) = m
    BY <2>3
  <2>5. \A i \in 1..m : SubSeq(fs, 1, m)[i] = fs[i]
    BY <2>3
  <2> QED
    BY <2>1, <2>3, <2>4, <2>5
<1> HIDE DEF b
<1>5. DOMAIN b = 1..n - 1 /\ b \in Seq({b[i] : i \in DOMAIN b})
  BY <1>4, OwnElements
<1>6. Stack(b) /\ FrameOK(fs[n])
  <2>1. \A i \in 1..n : FrameOK(fs[i])
    BY <1>1 DEF Stack
  <2>2. \A i \in 1..n - 1 : i \in 1..n /\ FrameOK(b[i])
    BY <1>1, <1>4, <2>1
  <2> QED
    BY <1>1, <1>3, <1>5, <2>1, <2>2 DEF Stack
<1>7. IsFiniteSet(KeysHeld(b)) /\ n \notin KeysHeld(b)
  BY <1>3, <1>5, <1>6, CountType DEF KeysHeld
<1>8. CASE fs[n].key = <<>>
  <2>1. KeysHeld(fs) = KeysHeld(b)
    BY <1>1, <1>3, <1>4, <1>5, <1>8 DEF KeysHeld
  <2>2. Count(b) \in Nat
    BY <1>6, CountType
  <2> QED
    BY <1>3, <1>4, <1>6, <1>8, <2>1, <2>2 DEF Count, KeyCount, b
<1>9. CASE fs[n].key # <<>>
  <2>1. KeysHeld(fs) = KeysHeld(b) \cup {n}
    <3>1. DOMAIN fs = DOMAIN b \cup {n}
      BY ONLY <1>1, <1>3, <1>5
    <3>2. \A i \in DOMAIN b : b[i] = fs[i]
      BY ONLY <1>4, <1>5
    <3> QED
      BY ONLY <1>9, <3>1, <3>2 DEF KeysHeld
  <2>2. Cardinality(KeysHeld(fs)) = Cardinality(KeysHeld(b)) + 1
    BY <1>7, <2>1, FS_AddElement
  <2> QED
    BY <1>3, <1>4, <1>6, <1>9, <2>2 DEF Count, KeyCount, b
<1> QED
  BY <1>8, <1>9

-----------------------------------------------------------------------------
(* What the invariant says as numbers, and back. *)

LEMMA HandFacts ==
    ASSUME NEW h, h = <<>> \/ \E x : h = <<x>>
    PROVE  /\ h \in AtMostOne({h[i] : i \in DOMAIN h})
           /\ Len(h) \in {0, 1} /\ (Len(h) = 0 <=> h = <<>>)
<1>1. CASE h = <<>>
  BY <1>1 DEF AtMostOne
<1>2. ASSUME NEW x, h = <<x>>
      PROVE  h \in AtMostOne({h[i] : i \in DOMAIN h}) /\ Len(h) = 1 /\ h # <<>>
  <2>1. DOMAIN h = {1} /\ h[1] = x /\ Len(h) = 1 /\ h # <<>>
    BY <1>2
  <2>2. x \in {h[i] : i \in DOMAIN h}
    BY <2>1
  <2> QED
    BY <1>2, <2>1, <2>2 DEF AtMostOne
<1> QED
  BY <1>1, <1>2

LEMMA Counts ==
    ASSUME IInv
    PROVE  /\ Stack(frames) /\ Len(frames) \in Nat /\ Count(frames) \in Nat
           /\ IsFiniteSet(DOMAIN cache) /\ Cardinality(DOMAIN cache) \in Nat
           /\ hand = <<>> \/ \E x : hand = <<x>>
           /\ Len(hand) \in {0, 1} /\ (Len(hand) = 0 <=> hand = <<>>)
           /\ depth = Len(frames)
           /\ refs = Len(frames) + Count(frames) + Len(hand) + Cardinality(DOMAIN cache)
<1>1. Stack(frames)
  BY DEF IInv, TypeOK, Stack, FrameOK
<1>2. Len(frames) \in Nat /\ Count(frames) \in Nat
  BY <1>1, CountType
<1>3. IsFiniteSet(DOMAIN cache) /\ Cardinality(DOMAIN cache) \in Nat
  <2>1. DOMAIN cache \subseteq 0..Slots - 1 /\ 0 \in Int /\ Slots - 1 \in Int
    BY NativeAssumption DEF IInv, TypeOK
  <2> QED
    BY <2>1, FS_Interval, FS_Subset, FS_CardinalityType
<1>4. hand = <<>> \/ \E x : hand = <<x>>
  BY DEF IInv, TypeOK, AtMostOne
<1> QED
  BY <1>1, <1>2, <1>3, <1>4, HandFacts DEF IInv, RefsBalanced, DepthIsNesting, Owned, Count

LEMMA Accounted ==
    ASSUME Stack(frames'), hand' = <<>> \/ \E x : hand' = <<x>>,
           DOMAIN cache' \subseteq 0..Slots - 1,
           mode' \in {"value", "first", "key", "colon", "after", "place", "unwind",
                      "tail", "report", "release", "done"},
           depth' = Len(frames'),
           refs' = Len(frames') + Count(frames') + Len(hand') + Cardinality(DOMAIN cache'),
           InStep'
    PROVE  IInv'
<1>1. Len(frames') \in Nat /\ Count(frames') \in Nat
  BY CountType
<1>2. Len(hand') \in Nat /\ hand' \in AtMostOne({hand'[i] : i \in DOMAIN hand'})
  BY HandFacts
<1>3. Cardinality(DOMAIN cache') \in Nat
  <2>1. 0 \in Int /\ Slots - 1 \in Int
    BY NativeAssumption
  <2> QED
    BY <2>1, FS_Interval, FS_Subset, FS_CardinalityType
<1>4. refs' \in Nat /\ depth' \in Nat
  BY <1>1, <1>2, <1>3
<1>5. TypeOK'
  BY <1>2, <1>4 DEF TypeOK, Stack, FrameOK
<1>6. RefsBalanced' /\ DepthIsNesting'
  BY DEF RefsBalanced, DepthIsNesting, Owned, Count
<1> QED
  BY <1>5, <1>6 DEF IInv

\* The string cache: what jp_str adds to the references is the caller's own and
\* those of the cache.
LEMMA StringFacts ==
    ASSUME IInv, NEW t \in Texts, NEW asKey \in BOOLEAN, String(t, asKey)
    PROVE  /\ TextOf(t, asKey) = t
           /\ DOMAIN cache' \subseteq 0..Slots - 1
           /\ Cardinality(DOMAIN cache') \in Nat
           /\ refs' = refs + 1 + Cardinality(DOMAIN cache') - Cardinality(DOMAIN cache)
<1>1. TextOf(t, asKey) = t
  BY DEF TextOf, Hit
<1>2. SlotOf(t) \in 0..Slots - 1
  BY NativeAssumption DEF SlotOf
<1>3. /\ DOMAIN cache \subseteq 0..Slots - 1 /\ refs \in Nat
      /\ IsFiniteSet(DOMAIN cache) /\ Cardinality(DOMAIN cache) \in Nat
  BY Counts DEF IInv, TypeOK
<1>4. CASE Probed(t, asKey) /\ ~Hit(t)
  <2>1. /\ refs' = refs + Filled(t)
        /\ cache' = Put(cache, SlotOf(t), [hash |-> Hash[t], text |-> t])
    BY <1>4 DEF String
  <2>2. DOMAIN cache' = DOMAIN cache \cup {SlotOf(t)}
    BY <2>1 DEF Put
  <2>3. CASE SlotOf(t) \in DOMAIN cache
    <3>1. DOMAIN cache' = DOMAIN cache
      BY <2>2, <2>3
    <3> QED
      BY <1>1, <1>3, <2>1, <2>3, <3>1 DEF Filled
  <2>4. CASE SlotOf(t) \notin DOMAIN cache
    <3>1. Cardinality(DOMAIN cache') = Cardinality(DOMAIN cache) + 1
      BY <1>3, <2>2, <2>4, FS_AddElement
    <3> QED
      BY <1>1, <1>2, <1>3, <2>1, <2>2, <2>4, <3>1 DEF Filled
  <2> QED
    BY <2>3, <2>4
<1>5. CASE ~(Probed(t, asKey) /\ ~Hit(t))
  BY <1>1, <1>3, <1>5 DEF String
<1> QED
  BY <1>4, <1>5

-----------------------------------------------------------------------------
(* One step of the parse each. *)

\* Places where a token is looked at: nothing is in hand there.
Looking == mode \in {"value", "first", "key", "colon", "after"}

LEMMA LookingFacts ==
    ASSUME IInv
    PROVE  /\ Looking => hand = <<>>
           /\ WantsValue \/ WantsKey => Looking
           /\ mode \in {"first", "key", "colon", "after"} => frames # <<>>
           /\ mode \in {"first", "key", "after"} => Top.key = <<>>
BY DEF IInv, InStep, Looking, WantsValue, WantsKey

\* A step that leaves the counts alone.
LEMMA Still ==
    ASSUME IInv, UNCHANGED <<frames, depth, hand, cache, refs>>, InStep',
           mode' \in {"value", "first", "key", "colon", "after", "place", "unwind",
                      "tail", "report", "release", "done"}
    PROVE  IInv'
BY Counts, Accounted DEF IInv, TypeOK

\* A failure where nothing is in hand.
LEMMA FailedStill ==
    ASSUME IInv, Looking, UNCHANGED <<frames, depth, hand, cache, refs>>, mode' = "unwind"
    PROVE  IInv'
<1>1. InStep'
  BY LookingFacts DEF InStep
<1> QED
  BY <1>1, Still

\* Something comes to hand, with one reference to it.
LEMMA ToHand ==
    ASSUME IInv, Looking, UNCHANGED <<frames, depth>>, NEW x, hand' = <<x>>, mode' = "place",
           DOMAIN cache' \subseteq 0..Slots - 1,
           Cardinality(DOMAIN cache') \in Nat,
           refs' = refs + 1 + Cardinality(DOMAIN cache') - Cardinality(DOMAIN cache)
    PROVE  IInv'
<1>1. InStep'
  BY HandFacts DEF InStep
<1>2. Len(hand') = 1 /\ Len(hand) = 0
  BY LookingFacts
<1>3. refs' = Len(frames') + Count(frames') + Len(hand') + Cardinality(DOMAIN cache')
  BY <1>2, Counts
<1>4. Stack(frames') /\ depth' = Len(frames')
  BY Counts
<1> QED
  BY <1>1, <1>3, <1>4, Accounted

LEMMA SyntaxErrorStep == ASSUME IInv, NEW t, SyntaxError(t) PROVE IInv'
BY FailedStill DEF SyntaxError, Failed, Looking

LEMMA TooDeepStep == ASSUME IInv, NEW t, TooDeep(t) PROVE IInv'
BY FailedStill, LookingFacts DEF TooDeep, Failed

LEMMA ColonStep == ASSUME IInv, NEW t, Colon(t) PROVE IInv'
<1>1. InStep'
  BY LookingFacts DEF Colon, InStep, Looking
<1> QED
  BY <1>1, Still DEF Colon

LEMMA CommaStep == ASSUME IInv, NEW t, Comma(t) PROVE IInv'
<1>1. mode = "after" /\ mode' \in {"key", "value"} /\ UNCHANGED <<frames, depth, hand, cache, refs>>
  BY DEF Comma
<1>2. InStep'
  BY <1>1, LookingFacts DEF InStep, Looking, Top
<1> QED
  BY <1>1, <1>2, Still

LEMMA NumberStep == ASSUME IInv, NEW t, Number(t) PROVE IInv'
<1>1. Looking /\ UNCHANGED <<frames, depth, cache>>
  BY LookingFacts DEF Number
<1>2. CASE hand' = <<Atom(t)>> /\ refs' = refs + 1 /\ mode' = "place"
  <2>1. /\ cache' = cache /\ Cardinality(DOMAIN cache) \in Nat /\ refs \in Nat
        /\ DOMAIN cache' \subseteq 0..Slots - 1
    BY <1>1, Counts DEF IInv, TypeOK
  <2>2. refs' = refs + 1 + Cardinality(DOMAIN cache') - Cardinality(DOMAIN cache)
    BY ONLY <1>2, <2>1
  <2> QED
    BY <1>1, <1>2, <2>1, <2>2, ToHand
<1>3. CASE mode' = "unwind" /\ UNCHANGED <<hand, refs>>
  BY <1>1, <1>3, FailedStill
<1> QED
  BY <1>2, <1>3 DEF Number, Failed

LEMMA StringFailsStep == ASSUME IInv, Looking, StringFails, UNCHANGED depth PROVE IInv'
BY FailedStill DEF StringFails, Failed

LEMMA StringValueStep == ASSUME IInv, NEW t \in Token, StringValue(t) PROVE IInv'
<1>1. Looking /\ t.text \in Texts
  BY LookingFacts DEF StringValue, Token, Punctuation, Openers
<1>2. CASE StringFails
  BY <1>1, <1>2, StringFailsStep DEF StringValue
<1>3. CASE ~StringFails
  <2>1. /\ hand' = <<Atom([t EXCEPT !.text = TextOf(t.text, FALSE)])>>
        /\ String(t.text, FALSE) /\ mode' = "place" /\ UNCHANGED <<frames, depth>>
    BY <1>3 DEF StringValue
  <2> QED
    BY <1>1, <2>1, StringFacts, ToHand
<1> QED
  BY <1>2, <1>3

LEMMA OpenStep == ASSUME IInv, NEW t, Open(t) PROVE IInv'
<1> DEFINE f == [kind |-> t.kind, key |-> <<>>, value |-> IF t.kind = "{" THEN Dict(<<>>) ELSE List(<<>>)]
<1>1. Looking /\ t.kind \in Openers /\ UNCHANGED <<hand, cache>>
  BY LookingFacts DEF Open
<1>2. CASE /\ frames' = Append(frames, f) /\ depth' = depth + 1
           /\ refs' = refs + 1 /\ mode' = "first"
  <2>1. FrameOK(f) /\ f.key = <<>>
    BY <1>1 DEF FrameOK, AtMostOne
  <2> HIDE DEF f
  <2>2. /\ Stack(frames') /\ Len(frames') = Len(frames) + 1 /\ frames' # <<>>
        /\ frames'[Len(frames) + 1] = f /\ Count(frames') = Count(frames) + KeyCount(f)
    BY <1>2, <2>1, Counts, PushFacts
  <2>3. Count(frames') = Count(frames)
    BY <2>1, <2>2, Counts DEF KeyCount
  <2>4. InStep'
    BY <1>1, <1>2, <2>1, <2>2, LookingFacts DEF InStep, Top
  <2>5. depth' = Len(frames') /\ refs' = Len(frames') + Count(frames') + Len(hand') + Cardinality(DOMAIN cache')
    <3>1. UNCHANGED <<hand, cache>> /\ depth = Len(frames)
      BY <1>1, Counts
    <3>2. /\ refs = Len(frames) + Count(frames) + Len(hand) + Cardinality(DOMAIN cache)
          /\ Len(frames) \in Nat /\ Count(frames) \in Nat /\ Len(hand) \in Nat
          /\ Cardinality(DOMAIN cache) \in Nat
      BY Counts
    <3> QED
      BY ONLY <1>2, <2>2, <2>3, <3>1, <3>2
  <2>6. (hand' = <<>> \/ \E x : hand' = <<x>>) /\ DOMAIN cache' \subseteq 0..Slots - 1
    BY <1>1, Counts DEF IInv, TypeOK
  <2> QED
    BY <1>2, <2>2, <2>4, <2>5, <2>6, Accounted
<1>3. CASE mode' = "unwind" /\ UNCHANGED <<frames, depth, refs>>
  BY <1>1, <1>3, FailedStill
<1>4. \/ /\ frames' = Append(frames, f) /\ depth' = depth + 1
         /\ refs' = refs + 1 /\ mode' = "first"
      \/ mode' = "unwind" /\ UNCHANGED <<frames, depth, refs>>
  BY DEF Open, Failed
<1> QED
  BY ONLY <1>2, <1>3, <1>4

LEMMA KeyStep == ASSUME IInv, NEW t \in Token, Key(t) PROVE IInv'
<1>1. Looking /\ t.text \in Texts /\ frames # <<>> /\ Top.key = <<>>
  <2>1. WantsKey /\ t.kind = "str"
    BY DEF Key
  <2>2. t.text \in Texts
    BY <2>1 DEF Token, Punctuation, Openers
  <2> QED
    BY <2>1, <2>2, LookingFacts DEF WantsKey
<1>2. CASE StringFails
  BY <1>1, <1>2, StringFailsStep DEF Key
<1>3. CASE ~StringFails
  <2> DEFINE x == TextOf(t.text, TRUE)
             f == [Top EXCEPT !.key = <<x>>]
  <2>1. /\ frames' = Append(Below, f) /\ String(t.text, TRUE) /\ mode' = "colon"
        /\ UNCHANGED <<hand, depth>>
    BY <1>3 DEF Key
  <2>2. x \in Texts /\ DOMAIN cache' \subseteq 0..Slots - 1 /\ Cardinality(DOMAIN cache') \in Nat
        /\ refs' = refs + 1 + Cardinality(DOMAIN cache') - Cardinality(DOMAIN cache)
    BY <1>1, <2>1, StringFacts
  <2> HIDE DEF x
  <2>3. /\ Stack(Below) /\ Len(frames) > 0 /\ Len(Below) = Len(frames) - 1
        /\ FrameOK(Top) /\ Count(frames) = Count(Below) + KeyCount(Top)
    BY <1>1, Counts, PopFacts DEF Below, Top
  <2>4. FrameOK(f) /\ f.key # <<>>
    BY <2>2, <2>3 DEF FrameOK, AtMostOne
  <2> HIDE DEF f
  <2>5. /\ Stack(frames') /\ Len(frames') = Len(Below) + 1 /\ frames' # <<>>
        /\ Count(frames') = Count(Below) + KeyCount(f)
    BY <2>1, <2>3, <2>4, PushFacts
  <2>6. Count(Below) \in Nat
    BY <2>3, CountType
  <2>7. Len(frames') = Len(frames) /\ Count(frames') = Count(frames) + 1
    BY <1>1, <2>3, <2>4, <2>5, <2>6, Counts DEF KeyCount
  <2>8. InStep'
    BY <1>1, <2>1, <2>5, LookingFacts DEF InStep
  <2>9. depth' = Len(frames') /\ refs' = Len(frames') + Count(frames') + Len(hand') + Cardinality(DOMAIN cache')
    <3>1. depth' = Len(frames') /\ Len(hand') = Len(hand)
      BY <2>1, <2>7, Counts
    <3>2. /\ refs = Len(frames) + Count(frames) + Len(hand) + Cardinality(DOMAIN cache)
          /\ Len(frames) \in Nat /\ Count(frames) \in Nat /\ Len(hand) \in Nat
          /\ Cardinality(DOMAIN cache) \in Nat
      BY Counts
    <3>3. PICK l, c, h, d, e, r : /\ l = Len(frames) /\ c = Count(frames) /\ h = Len(hand)
                                  /\ d = Cardinality(DOMAIN cache) /\ e = Cardinality(DOMAIN cache')
                                  /\ r = refs'
      BY Zenon
    <3>4. l \in Nat /\ c \in Nat /\ h \in Nat /\ d \in Nat /\ e \in Nat /\ r = (l + c + h + d) + 1 + e - d
      BY ONLY <2>2, <3>2, <3>3
    <3>5. r = l + (c + 1) + h + e
      BY ONLY <3>4
    <3>6. refs' = Len(frames') + Count(frames') + Len(hand') + Cardinality(DOMAIN cache')
      BY ONLY <2>7, <3>1, <3>3, <3>5
    <3> QED
      BY ONLY <3>1, <3>6
  <2> QED
    BY <2>1, <2>2, <2>5, <2>8, <2>9, Counts, Accounted
<1> QED
  BY <1>2, <1>3

LEMMA CloseStep == ASSUME IInv, NEW t, Close(t) PROVE IInv'
<1>1. /\ mode \in {"first", "after"} /\ hand' = <<Top.value>> /\ frames' = Below
      /\ depth' = depth - 1 /\ mode' = "place" /\ UNCHANGED <<cache, refs>>
  BY DEF Close
<1>2. frames # <<>> /\ Top.key = <<>> /\ hand = <<>>
  BY <1>1, LookingFacts DEF Looking
<1>3. /\ Stack(Below) /\ Len(frames) > 0 /\ Len(Below) = Len(frames) - 1
      /\ Count(frames) = Count(Below) + KeyCount(Top)
  BY <1>2, Counts, PopFacts DEF Below, Top
<1>4. Count(Below) \in Nat /\ Count(Below) = Count(frames)
  BY <1>2, <1>3, CountType DEF KeyCount
<1>5. Len(hand') = 1 /\ Len(hand) = 0 /\ hand' # <<>>
  BY <1>1, <1>2
<1>6. InStep'
  BY <1>1, <1>5 DEF InStep
<1>7. depth' = Len(frames') /\ refs' = Len(frames') + Count(frames') + Len(hand') + Cardinality(DOMAIN cache')
  BY <1>1, <1>3, <1>4, <1>5, Counts
<1>8. DOMAIN cache' \subseteq 0..Slots - 1
  BY <1>1 DEF IInv, TypeOK
<1> QED
  BY <1>1, <1>3, <1>6, <1>7, <1>8, Accounted

-----------------------------------------------------------------------------
(* The steps between the tokens, and those after the parse. *)

\* Counts after a step that drops the innermost frame for another, or for none.
LEMMA PlaceStep == ASSUME IInv, Place PROVE IInv'
<1>1. PICK stored \in BOOLEAN :
        /\ frames' = Append(Below, [Top EXCEPT !.key = <<>>,
                                               !.value = IF stored THEN Store(Top, hand[1]) ELSE @])
        /\ refs' = refs - Released(Top, stored)
        /\ mode' \in {"after", "unwind"}
  BY DEF Place, Failed
<1>2. mode = "place" /\ frames # <<>> /\ hand' = <<>> /\ UNCHANGED <<depth, cache>>
  BY DEF Place
<1> DEFINE f == [Top EXCEPT !.key = <<>>, !.value = IF stored THEN Store(Top, hand[1]) ELSE @]
<1>3. /\ Stack(Below) /\ Len(frames) > 0 /\ Len(Below) = Len(frames) - 1
      /\ FrameOK(Top) /\ Count(frames) = Count(Below) + KeyCount(Top)
  BY <1>2, Counts, PopFacts DEF Below, Top
<1>4. FrameOK(f) /\ f.key = <<>>
  BY <1>3 DEF FrameOK, AtMostOne
<1>5. frames' = Append(Below, f)
  BY <1>1
<1> HIDE DEF f
<1>6. /\ Stack(frames') /\ Len(frames') = Len(Below) + 1 /\ frames' # <<>>
      /\ frames'[Len(frames')] = f /\ Count(frames') = Count(Below) + KeyCount(f)
  BY <1>3, <1>4, <1>5, PushFacts
<1>7. Count(Below) \in Nat /\ KeyCount(f) = 0
  BY <1>3, <1>4, CountType DEF KeyCount
<1>8. Len(Top.key) = KeyCount(Top) /\ KeyCount(Top) \in {0, 1}
  BY <1>3 DEF KeyCount, FrameOK, AtMostOne
<1>9. Len(hand) = 1 /\ Len(hand') = 0
  <2>1. hand # <<>>
    BY <1>2 DEF IInv, InStep
  <2> QED
    BY <1>2, <2>1, Counts
<1>10. depth' = Len(frames') /\ refs' = Len(frames') + Count(frames') + Len(hand') + Cardinality(DOMAIN cache')
  <2>1. refs' = refs - (1 + KeyCount(Top)) /\ cache' = cache /\ depth' = Len(frames)
    BY <1>1, <1>2, <1>8, Counts DEF Released
  <2>2. /\ refs = Len(frames) + Count(frames) + Len(hand) + Cardinality(DOMAIN cache)
        /\ Len(frames) \in Nat /\ Count(frames) \in Nat /\ Cardinality(DOMAIN cache) \in Nat
    BY Counts
  <2>3. depth' = Len(frames')
    BY ONLY <1>3, <1>6, <2>1, <2>2
  <2>4. PICK l, b, c, k, r : /\ l = Len(frames) /\ b = Count(Below) /\ c = Cardinality(DOMAIN cache)
                             /\ k = KeyCount(Top) /\ r = refs'
    BY Zenon
  <2>5. l \in Nat /\ b \in Nat /\ c \in Nat /\ k \in {0, 1} /\ r = (l + (b + k) + 1 + c) - (1 + k)
    BY ONLY <1>3, <1>7, <1>8, <1>9, <2>1, <2>2, <2>4
  <2>6. r = ((l - 1) + 1) + (b + 0) + 0 + c
    BY ONLY <2>5
  <2>7. refs' = Len(frames') + Count(frames') + Len(hand') + Cardinality(DOMAIN cache')
    BY ONLY <1>3, <1>6, <1>7, <1>9, <2>1, <2>4, <2>6
  <2> QED
    BY ONLY <2>3, <2>7
<1>11. InStep'
  BY <1>1, <1>2, <1>4, <1>6 DEF InStep, Top
<1>12. DOMAIN cache' \subseteq 0..Slots - 1
  BY <1>2 DEF IInv, TypeOK
<1> QED
  BY <1>1, <1>2, <1>6, <1>10, <1>11, <1>12, Accounted

LEMMA UnwindStep == ASSUME IInv, Unwind PROVE IInv'
<1>1. /\ mode = "unwind" /\ frames # <<>> /\ frames' = Below /\ depth' = depth - 1
      /\ refs' = refs - 1 - Len(Top.key) /\ UNCHANGED <<mode, hand, cache, outcome>>
  BY DEF Unwind
<1>2. /\ Stack(Below) /\ Len(frames) > 0 /\ Len(Below) = Len(frames) - 1
      /\ FrameOK(Top) /\ Count(frames) = Count(Below) + KeyCount(Top)
  BY <1>1, Counts, PopFacts DEF Below, Top
<1>3. Count(Below) \in Nat
  BY <1>2, CountType
<1>4. Len(Top.key) = KeyCount(Top) /\ KeyCount(Top) \in {0, 1}
  BY <1>2 DEF KeyCount, FrameOK, AtMostOne
<1>5. depth' = Len(frames') /\ refs' = Len(frames') + Count(frames') + Len(hand') + Cardinality(DOMAIN cache')
  <2>1. /\ refs = Len(frames) + Count(frames) + Len(hand) + Cardinality(DOMAIN cache)
        /\ Len(frames) \in Nat /\ Count(frames) \in Nat /\ Cardinality(DOMAIN cache) \in Nat
        /\ Len(hand) \in Nat /\ depth = Len(frames)
    BY Counts
  <2>2. refs' = refs - 1 - KeyCount(Top) /\ hand' = hand /\ cache' = cache
    BY <1>1, <1>4
  <2>3. depth' = depth - 1 /\ frames' = Below
    BY <1>1
  <2>4. depth' = Len(frames')
    BY ONLY <1>2, <2>1, <2>3
  <2>5. refs' = Len(Below) + Count(Below) + Len(hand) + Cardinality(DOMAIN cache)
    <3>1. PICK l, b, h, c, k, r : /\ l = Len(frames) /\ b = Count(Below) /\ h = Len(hand)
                                  /\ c = Cardinality(DOMAIN cache) /\ k = KeyCount(Top) /\ r = refs'
      BY Zenon
    <3>2. /\ Len(Below) = Len(frames) - 1 /\ Count(frames) = Count(Below) + KeyCount(Top)
          /\ refs' = refs - 1 - KeyCount(Top)
      BY <1>2, <2>2
    <3>3. refs' = (Len(frames) + (Count(Below) + KeyCount(Top)) + Len(hand)
                     + Cardinality(DOMAIN cache)) - 1 - KeyCount(Top)
      BY ONLY <2>1, <3>2
    <3>4. /\ Len(frames) \in Nat /\ Count(Below) \in Nat /\ Len(hand) \in Nat
          /\ Cardinality(DOMAIN cache) \in Nat /\ KeyCount(Top) \in {0, 1}
      BY ONLY <1>3, <1>4, <2>1
    <3>5. refs' = (Len(frames) - 1) + Count(Below) + Len(hand) + Cardinality(DOMAIN cache)
      <4>1. /\ l \in Nat /\ b \in Nat /\ h \in Nat /\ c \in Nat /\ k \in {0, 1}
            /\ r = (l + (b + k) + h + c) - 1 - k
        BY ONLY <3>1, <3>3, <3>4
      <4>2. r = (l - 1) + b + h + c
        BY ONLY <4>1
      <4> QED
        BY ONLY <3>1, <4>2
    <3> QED
      BY ONLY <3>2, <3>5
  <2> QED
    BY ONLY <2>2, <2>3, <2>4, <2>5
<1>6. InStep'
  BY <1>1 DEF IInv, InStep
<1>7. DOMAIN cache' \subseteq 0..Slots - 1 /\ (hand' = <<>> \/ \E x : hand' = <<x>>)
  BY <1>1, Counts DEF IInv, TypeOK
<1> QED
  BY <1>1, <1>2, <1>5, <1>6, <1>7, Accounted

LEMMA DropInputStep == ASSUME IInv, DropInput PROVE IInv'
<1>1. InStep'
  BY DEF DropInput, IInv, InStep
<1> QED
  BY <1>1, Still DEF DropInput

LEMMA AfterValueStep == ASSUME IInv, NEW t, AfterValue(t) PROVE IInv'
<1>1. mode = "tail" /\ hand # <<>> /\ frames = <<>> /\ UNCHANGED <<frames, depth, cache>>
  BY DEF AfterValue, IInv, InStep
<1>2. CASE mode' = "release" /\ outcome' = "value" /\ UNCHANGED <<hand, refs>>
  <2>1. InStep'
    BY <1>1, <1>2 DEF InStep
  <2> QED
    BY <1>1, <1>2, <2>1, Still
<1>3. CASE mode' = "report" /\ hand' = <<>> /\ refs' = refs - 1
  <2>1. InStep'
    BY <1>1, <1>3 DEF InStep
  <2>2. Len(hand) = 1 /\ Len(hand') = 0
    BY <1>1, <1>3, Counts
  <2>3. depth' = Len(frames') /\ refs' = Len(frames') + Count(frames') + Len(hand') + Cardinality(DOMAIN cache')
    <3>1. /\ refs = Len(frames) + Count(frames) + Len(hand) + Cardinality(DOMAIN cache)
          /\ Len(frames) \in Nat /\ Count(frames) \in Nat /\ Cardinality(DOMAIN cache) \in Nat
          /\ depth = Len(frames)
      BY Counts
    <3>2. /\ frames' = frames /\ depth' = depth /\ cache' = cache /\ refs' = refs - 1
      BY <1>1, <1>3
    <3> QED
      BY ONLY <2>2, <3>1, <3>2
  <2>4. Stack(frames') /\ DOMAIN cache' \subseteq 0..Slots - 1
    BY <1>1, Counts DEF IInv, TypeOK
  <2> QED
    BY <1>3, <2>1, <2>3, <2>4, Accounted
<1> QED
  BY <1>2, <1>3 DEF AfterValue

LEMMA ReportStep == ASSUME IInv, Report PROVE IInv'
<1>1. InStep'
  BY DEF Report, IInv, InStep
<1> QED
  BY <1>1, Still DEF Report

LEMMA ReleaseStep == ASSUME IInv, Release PROVE IInv'
<1>1. /\ mode = "release" /\ mode' = "done" /\ refs' = refs - Cardinality(DOMAIN cache)
      /\ cache' = <<>> /\ UNCHANGED <<frames, depth, hand, outcome>>
  BY DEF Release
<1>2. InStep'
  BY <1>1 DEF IInv, InStep
<1>3. DOMAIN cache' = {} /\ Cardinality(DOMAIN cache') = 0
  BY <1>1, FS_EmptySet
<1>4. depth' = Len(frames') /\ refs' = Len(frames') + Count(frames') + Len(hand') + Cardinality(DOMAIN cache')
  <2>1. /\ refs = Len(frames) + Count(frames) + Len(hand) + Cardinality(DOMAIN cache)
        /\ Len(frames) \in Nat /\ Count(frames) \in Nat /\ Cardinality(DOMAIN cache) \in Nat
        /\ Len(hand) \in Nat /\ depth = Len(frames)
    BY Counts
  <2> QED
    BY ONLY <1>1, <1>3, <2>1
<1>5. Stack(frames') /\ (hand' = <<>> \/ \E x : hand' = <<x>>)
  BY <1>1, Counts
<1> QED
  BY <1>1, <1>2, <1>3, <1>4, <1>5, Accounted

-----------------------------------------------------------------------------
(* The invariant holds of every reachable state. *)

LEMMA InitIInv == Init => IInv
<1> SUFFICES ASSUME Init PROVE IInv
  OBVIOUS
<1>1. /\ mode = "value" /\ frames = <<>> /\ depth = 0 /\ hand = <<>> /\ cache = <<>> /\ refs = 0
      /\ outcome = "none"
  BY DEF Init
<1>2. KeysHeld(frames) = {} /\ Cardinality({}) = 0 /\ DOMAIN cache = {} /\ Len(frames) = 0
  BY <1>1, FS_EmptySet DEF KeysHeld
<1>3. TypeOK
  BY <1>1 DEF TypeOK, AtMostOne
<1>4. InStep
  BY <1>1 DEF InStep
<1>5. Len(hand) = 0 /\ Cardinality(KeysHeld(frames)) = 0 /\ Cardinality(DOMAIN cache) = 0
  BY <1>1, <1>2
<1>6. RefsBalanced /\ DepthIsNesting
  <2>1. Owned = 0
    BY ONLY <1>2, <1>5 DEF Owned
  <2> QED
    BY <1>1, <1>2, <2>1 DEF RefsBalanced, DepthIsNesting
<1> QED
  BY <1>3, <1>4, <1>6 DEF IInv

LEMMA NextIInv == IInv /\ [Next]_vars => IInv'
<1> SUFFICES ASSUME IInv, [Next]_vars PROVE IInv'
  OBVIOUS
<1>1. CASE ReadToken
  BY <1>1, SyntaxErrorStep, TooDeepStep, OpenStep, NumberStep, StringValueStep, KeyStep,
     ColonStep, CommaStep, CloseStep, AfterValueStep DEF ReadToken
<1>2. CASE UNCHANGED vars
  <2>1. UNCHANGED <<frames, depth, hand, cache, refs, mode>> /\ InStep'
    BY <1>2 DEF vars, IInv, InStep, Top
  <2> QED
    BY <2>1, Still DEF IInv, TypeOK
<1> QED
  BY <1>1, <1>2, PlaceStep, UnwindStep, DropInputStep, ReportStep, ReleaseStep DEF Next

(* What every step of the parse relies on, of the value in hand, the calls    *)
(* under way and the keys they hold, always holds.                           *)
THEOREM NativeInductive == Spec => []IInv
<1> QED
  BY InitIInv, NextIInv, PTL DEF Spec

(* loads keeps no more references and no fewer than its active calls, the     *)
(* value in hand and the string cache account for, on the failing paths too. *)
THEOREM NativeRefsBalanced == Spec => []RefsBalanced
<1>1. IInv => RefsBalanced
  BY DEF IInv
<1> QED
  BY <1>1, NativeInductive, PTL

(* The depth that YEP_JP_MAX bounds is the nesting of the input.             *)
THEOREM NativeDepthIsNesting == Spec => []DepthIsNesting
<1>1. IInv => DepthIsNesting
  BY DEF IInv
<1> QED
  BY <1>1, NativeInductive, PTL

(* An answered loads owns the value it returns and nothing else: the cache    *)
(* and the frames are released whether it answers a value or an error.       *)
THEOREM NativeOwnsItsAnswer == Spec => []OwnsItsAnswer
<1>1. IInv => OwnsItsAnswer
  <2> SUFFICES ASSUME IInv, mode = "done"
               PROVE  refs = IF outcome = "value" THEN 1 ELSE 0
    BY DEF OwnsItsAnswer
  <2>1. frames = <<>> /\ cache = <<>> /\ (hand # <<>> <=> outcome = "value")
    BY DEF IInv, InStep
  <2>2. KeysHeld(frames) = {} /\ DOMAIN cache = {} /\ Cardinality({}) = 0 /\ Len(frames) = 0
    BY <2>1, FS_EmptySet DEF KeysHeld
  <2>3. refs = Len(hand) /\ Len(hand) \in {0, 1} /\ (Len(hand) = 0 <=> hand = <<>>)
    <3>1. Count(frames) = 0 /\ Cardinality(DOMAIN cache) = 0
      BY <2>2 DEF Count
    <3>2. /\ refs = Len(frames) + Count(frames) + Len(hand) + Cardinality(DOMAIN cache)
          /\ Len(hand) \in {0, 1} /\ (Len(hand) = 0 <=> hand = <<>>)
      BY Counts
    <3> QED
      BY ONLY <2>2, <3>1, <3>2
  <2> QED
    BY <2>1, <2>3
<1> QED
  BY <1>1, NativeInductive, PTL

-----------------------------------------------------------------------------
(* The grammar's rules at one place depend on later places only, so the       *)
(* recursive function Parses solves them.                                    *)

Rules == {"items", "members"}
Places(s) == Rules \X (1 .. Len(s) + 1)
Rule(s, g, p) == IF p[1] = "items" THEN ItemsAt(s, g, p[2]) ELSE MembersAt(s, g, p[2])

\* What a set of results takes ends behind i.
EndBehind(R, i) == \A r \in R : r[2] \in Nat /\ r[2] > i

\* What g takes from a place behind i ends behind that place.
Onward(s, g, i) == \A p \in Places(s) : p[2] > i => EndBehind(g[p], p[2])

SameBehind(s, g, h, i) == \A p \in Places(s) : p[2] > i => g[p] = h[p]

LEMMA InText ==
    ASSUME NEW s \in Seq(Token), NEW i
    PROVE  /\ KindAt(s, i) # "none" => i \in 1..Len(s)
           /\ Len(s) \in Nat /\ DOMAIN s = 1..Len(s)
BY DEF KindAt

\* The rules one case at a time.
LEMMA ValueCases ==
    ASSUME NEW s, NEW g, NEW i
    PROVE  /\ KindAt(s, i) \in ScalarKinds => ValueAt(s, g, i) = {<<Atom(s[i]), i + 1>>}
           /\ KindAt(s, i) = "[" => ValueAt(s, g, i) =
                {<<List(r[1]), r[2]>> : r \in Container(s, g, "items", "]", <<>>, i + 1)}
           /\ KindAt(s, i) = "{" => ValueAt(s, g, i) =
                {<<Dict(r[1]), r[2]>> : r \in Container(s, g, "members", "}", <<>>, i + 1)}
           /\ KindAt(s, i) \notin ScalarKinds \cup {"[", "{"} => ValueAt(s, g, i) = {}
<1>1. KindAt(s, i) \in ScalarKinds => ValueAt(s, g, i) = {<<Atom(s[i]), i + 1>>}
  BY DEF ValueAt, ScalarKinds
<1>2. KindAt(s, i) = "[" => ValueAt(s, g, i) =
                {<<List(r[1]), r[2]>> : r \in Container(s, g, "items", "]", <<>>, i + 1)}
  BY DEF ValueAt, ScalarKinds
<1>3. KindAt(s, i) = "{" => ValueAt(s, g, i) =
                {<<Dict(r[1]), r[2]>> : r \in Container(s, g, "members", "}", <<>>, i + 1)}
  BY DEF ValueAt, ScalarKinds
<1>4. KindAt(s, i) \notin ScalarKinds \cup {"[", "{"} => ValueAt(s, g, i) = {}
  BY DEF ValueAt, ScalarKinds
<1> QED
  BY <1>1, <1>2, <1>3, <1>4

LEMMA AfterCases ==
    ASSUME NEW s, NEW g, NEW k, NEW v
    PROVE  /\ KindAt(s, v[2]) = "]" => AfterItem(s, g, v) = {<< <<v[1]>>, v[2] + 1 >>}
           /\ KindAt(s, v[2]) = "}" => AfterMember(s, g, k, v) = {<<Single(k, v[1]), v[2] + 1>>}
           /\ KindAt(s, v[2]) = "," =>
                /\ AfterItem(s, g, v) =
                     {<< <<v[1]>> \o r[1], r[2] >> : r \in g[<<"items", v[2] + 1>>]}
                /\ AfterMember(s, g, k, v) =
                     {<<Update(Single(k, v[1]), r[1]), r[2]>> : r \in g[<<"members", v[2] + 1>>]}
           /\ KindAt(s, v[2]) \notin {"]", ","} => AfterItem(s, g, v) = {}
           /\ KindAt(s, v[2]) \notin {"}", ","} => AfterMember(s, g, k, v) = {}
<1>1. KindAt(s, v[2]) = "]" => AfterItem(s, g, v) = {<< <<v[1]>>, v[2] + 1 >>}
  BY DEF AfterItem
<1>2. KindAt(s, v[2]) = "}" => AfterMember(s, g, k, v) = {<<Single(k, v[1]), v[2] + 1>>}
  BY DEF AfterMember
<1>3. KindAt(s, v[2]) = "," => AfterItem(s, g, v) =
                     {<< <<v[1]>> \o r[1], r[2] >> : r \in g[<<"items", v[2] + 1>>]}
  BY DEF AfterItem
<1>4. KindAt(s, v[2]) = "," => AfterMember(s, g, k, v) =
                     {<<Update(Single(k, v[1]), r[1]), r[2]>> : r \in g[<<"members", v[2] + 1>>]}
  BY DEF AfterMember
<1>5. KindAt(s, v[2]) \notin {"]", ","} => AfterItem(s, g, v) = {}
  BY DEF AfterItem
<1>6. KindAt(s, v[2]) \notin {"}", ","} => AfterMember(s, g, k, v) = {}
  BY DEF AfterMember
<1> QED
  BY <1>1, <1>2, <1>3, <1>4, <1>5, <1>6

\* A result keeps its end when its value changes.
LEMMA ImagesEnd ==
    ASSUME NEW C, NEW i, EndBehind(C, i)
    PROVE  /\ EndBehind({<<List(r[1]), r[2]>> : r \in C}, i)
           /\ EndBehind({<<Dict(r[1]), r[2]>> : r \in C}, i)
           /\ \A x : EndBehind({<<x \o r[1], r[2]>> : r \in C}, i)
           /\ \A x : EndBehind({<<Update(x, r[1]), r[2]>> : r \in C}, i)
<1>1. EndBehind({<<List(r[1]), r[2]>> : r \in C}, i)
  BY DEF EndBehind
<1>2. EndBehind({<<Dict(r[1]), r[2]>> : r \in C}, i)
  BY DEF EndBehind
<1>3. ASSUME NEW x PROVE EndBehind({<<x \o r[1], r[2]>> : r \in C}, i)
  BY DEF EndBehind
<1>4. ASSUME NEW x PROVE EndBehind({<<Update(x, r[1]), r[2]>> : r \in C}, i)
  BY DEF EndBehind
<1> QED
  BY <1>1, <1>2, <1>3, <1>4

\* A rule's results depend on later places only, and end behind where it begins.
LEMMA ContainerLocal ==
    ASSUME NEW s \in Seq(Token), NEW g, NEW h, NEW i \in 1..Len(s),
           Onward(s, g, i), SameBehind(s, g, h, i),
           NEW rule \in Rules, NEW bracket, NEW empty
    PROVE  /\ Container(s, g, rule, bracket, empty, i + 1) = Container(s, h, rule, bracket, empty, i + 1)
           /\ EndBehind(Container(s, g, rule, bracket, empty, i + 1), i)
<1>1. <<rule, i + 1>> \in Places(s) /\ <<rule, i + 1>>[2] > i
  BY InText DEF Places
<1>2. g[<<rule, i + 1>>] = h[<<rule, i + 1>>]
  BY <1>1 DEF SameBehind
<1>3. EndBehind(g[<<rule, i + 1>>], i)
  <2>1. EndBehind(g[<<rule, i + 1>>], i + 1)
    BY <1>1 DEF Onward
  <2> QED
    BY <2>1 DEF EndBehind
<1>4. EndBehind({<<empty, i + 1 + 1>>}, i)
  BY DEF EndBehind
<1> QED
  BY <1>2, <1>3, <1>4 DEF Container

LEMMA ValueLocal ==
    ASSUME NEW s \in Seq(Token), NEW g, NEW h, NEW i \in Nat, i > 0,
           Onward(s, g, i), SameBehind(s, g, h, i)
    PROVE  ValueAt(s, g, i) = ValueAt(s, h, i) /\ EndBehind(ValueAt(s, g, i), i)
<1>1. CASE KindAt(s, i) \in ScalarKinds
  <2>1. EndBehind({<<Atom(s[i]), i + 1>>}, i)
    BY DEF EndBehind
  <2> QED
    BY <1>1, <2>1, ValueCases
<1>2. CASE KindAt(s, i) = "["
  <2> DEFINE c(k) == Container(s, k, "items", "]", <<>>, i + 1)
  <2>1. i \in 1..Len(s)
    BY <1>2, InText
  <2>2. c(g) = c(h) /\ EndBehind(c(g), i)
    BY <2>1, ContainerLocal DEF Rules
  <2>3. /\ ValueAt(s, g, i) = {<<List(r[1]), r[2]>> : r \in c(g)}
        /\ ValueAt(s, h, i) = {<<List(r[1]), r[2]>> : r \in c(h)}
    BY <1>2, ValueCases
  <2> HIDE DEF c
  <2>4. EndBehind({<<List(r[1]), r[2]>> : r \in c(g)}, i)
    BY <2>2, ImagesEnd
  <2> QED
    BY <2>2, <2>3, <2>4
<1>3. CASE KindAt(s, i) = "{"
  <2> DEFINE c(k) == Container(s, k, "members", "}", <<>>, i + 1)
  <2>1. i \in 1..Len(s)
    BY <1>3, InText
  <2>2. c(g) = c(h) /\ EndBehind(c(g), i)
    BY <2>1, ContainerLocal DEF Rules
  <2>3. /\ ValueAt(s, g, i) = {<<Dict(r[1]), r[2]>> : r \in c(g)}
        /\ ValueAt(s, h, i) = {<<Dict(r[1]), r[2]>> : r \in c(h)}
    BY <1>3, ValueCases
  <2> HIDE DEF c
  <2>4. EndBehind({<<Dict(r[1]), r[2]>> : r \in c(g)}, i)
    BY <2>2, ImagesEnd
  <2> QED
    BY <2>2, <2>3, <2>4
<1>4. CASE KindAt(s, i) \notin ScalarKinds \cup {"[", "{"}
  BY <1>4, ValueCases DEF EndBehind
<1> QED
  BY <1>1, <1>2, <1>3, <1>4

\* What may follow a comma.
LEMMA CommaLocal ==
    ASSUME NEW s \in Seq(Token), NEW g, NEW h, NEW i \in Nat, NEW j \in Nat, j > i,
           Onward(s, g, i), SameBehind(s, g, h, i), NEW rule \in Rules, KindAt(s, j) # "none"
    PROVE  g[<<rule, j + 1>>] = h[<<rule, j + 1>>] /\ EndBehind(g[<<rule, j + 1>>], i)
<1>1. j \in 1..Len(s) /\ Len(s) \in Nat
  BY InText
<1>2. <<rule, j + 1>> \in Places(s) /\ <<rule, j + 1>>[2] > i
  BY <1>1 DEF Places
<1>3. EndBehind(g[<<rule, j + 1>>], j + 1)
  BY <1>2 DEF Onward
<1>4. EndBehind(g[<<rule, j + 1>>], i)
  BY <1>3 DEF EndBehind
<1> QED
  BY <1>2, <1>4 DEF SameBehind

LEMMA AfterLocal ==
    ASSUME NEW s \in Seq(Token), NEW g, NEW h, NEW i \in Nat, NEW v,
           v[2] \in Nat, v[2] > i, Onward(s, g, i), SameBehind(s, g, h, i)
    PROVE  /\ AfterItem(s, g, v) = AfterItem(s, h, v) /\ EndBehind(AfterItem(s, g, v), i)
           /\ \A k : /\ AfterMember(s, g, k, v) = AfterMember(s, h, k, v)
                     /\ EndBehind(AfterMember(s, g, k, v), i)
<1> SUFFICES ASSUME NEW k
             PROVE  /\ AfterItem(s, g, v) = AfterItem(s, h, v) /\ EndBehind(AfterItem(s, g, v), i)
                    /\ AfterMember(s, g, k, v) = AfterMember(s, h, k, v)
                    /\ EndBehind(AfterMember(s, g, k, v), i)
  OBVIOUS
<1>1. CASE KindAt(s, v[2]) = ","
  <2>1. KindAt(s, v[2]) # "none"
    BY <1>1, Zenon
  <2> DEFINE I(f) == f[<<"items", v[2] + 1>>]
             M(f) == f[<<"members", v[2] + 1>>]
  <2>2. I(g) = I(h) /\ EndBehind(I(g), i) /\ M(g) = M(h) /\ EndBehind(M(g), i)
    BY <2>1, CommaLocal DEF Rules
  <2>3. \A f : /\ AfterItem(s, f, v) = {<< <<v[1]>> \o r[1], r[2] >> : r \in I(f)}
               /\ AfterMember(s, f, k, v) = {<<Update(Single(k, v[1]), r[1]), r[2]>> : r \in M(f)}
    BY <1>1, AfterCases, Zenon
  <2> HIDE DEF I, M
  <2>4. /\ EndBehind({<< <<v[1]>> \o r[1], r[2] >> : r \in I(g)}, i)
        /\ EndBehind({<<Update(Single(k, v[1]), r[1]), r[2]>> : r \in M(g)}, i)
    <3>1. EndBehind({<< <<v[1]>> \o r[1], r[2] >> : r \in I(g)}, i)
      BY <2>2, ImagesEnd
    <3>2. EndBehind({<<Update(Single(k, v[1]), r[1]), r[2]>> : r \in M(g)}, i)
      BY <2>2, ImagesEnd
    <3> QED
      BY <3>1, <3>2
  <2> QED
    BY <2>2, <2>3, <2>4, Zenon
<1>2. CASE KindAt(s, v[2]) # ","
  <2>1. EndBehind({<< <<v[1]>>, v[2] + 1 >>}, i) /\ EndBehind({<<Single(k, v[1]), v[2] + 1>>}, i)
        /\ EndBehind({}, i)
    BY DEF EndBehind
  <2>2. AfterItem(s, g, v) = AfterItem(s, h, v) /\ EndBehind(AfterItem(s, g, v), i)
    <3>1. CASE KindAt(s, v[2]) = "]"
      <4>1. \A f : AfterItem(s, f, v) = {<< <<v[1]>>, v[2] + 1 >>}
        BY ONLY <3>1 DEF AfterItem
      <4> QED
        BY ONLY <2>1, <4>1
    <3>2. CASE KindAt(s, v[2]) # "]"
      <4>1. KindAt(s, v[2]) \notin {"]", ","}
        BY <1>2, <3>2, Zenon
      <4>2. AfterItem(s, g, v) = {} /\ AfterItem(s, h, v) = {}
        BY <4>1, AfterCases, Zenon
      <4> QED
        BY <2>1, <4>2
    <3> QED
      BY <3>1, <3>2
  <2>3. AfterMember(s, g, k, v) = AfterMember(s, h, k, v) /\ EndBehind(AfterMember(s, g, k, v), i)
    <3>1. CASE KindAt(s, v[2]) = "}"
      <4>1. /\ AfterMember(s, g, k, v) = {<<Single(k, v[1]), v[2] + 1>>}
            /\ AfterMember(s, h, k, v) = {<<Single(k, v[1]), v[2] + 1>>}
        BY <3>1 DEF AfterMember
      <4> QED
        BY <2>1, <4>1
    <3>2. CASE KindAt(s, v[2]) # "}"
      <4>1. KindAt(s, v[2]) \notin {"}", ","}
        BY <1>2, <3>2, Zenon
      <4>2. AfterMember(s, g, k, v) = {} /\ AfterMember(s, h, k, v) = {}
        BY <4>1, AfterCases, Zenon
      <4> QED
        BY <2>1, <4>2
    <3> QED
      BY <3>1, <3>2
  <2> QED
    BY <2>2, <2>3
<1> QED
  BY <1>1, <1>2

LEMMA RuleLocal ==
    ASSUME NEW s \in Seq(Token), NEW g, NEW h, NEW p \in Places(s),
           Onward(s, g, p[2]), SameBehind(s, g, h, p[2])
    PROVE  Rule(s, g, p) = Rule(s, h, p) /\ EndBehind(Rule(s, g, p), p[2])
<1> DEFINE V(k, j) == ValueAt(s, k, j)
<1> SUFFICES ASSUME NEW i, i = p[2]
             PROVE  Rule(s, g, p) = Rule(s, h, p) /\ EndBehind(Rule(s, g, p), i)
  OBVIOUS
<1>0. Onward(s, g, i) /\ SameBehind(s, g, h, i)
  OBVIOUS
<1>1. i \in Nat /\ i > 0
  BY InText DEF Places
<1>2. V(g, i) = V(h, i) /\ EndBehind(V(g, i), i)
  BY <1>0, <1>1, ValueLocal
<1>3. V(g, i + 2) = V(h, i + 2) /\ EndBehind(V(g, i + 2), i)
  <2>1. Onward(s, g, i + 2) /\ SameBehind(s, g, h, i + 2) /\ i + 2 \in Nat /\ i + 2 > 0
    <3>1. \A q \in Places(s) : q[2] > i + 2 => q[2] > i
      BY <1>1, InText DEF Places
    <3> QED
      BY <1>0, <1>1, <3>1 DEF Onward, SameBehind
  <2>2. V(g, i + 2) = V(h, i + 2) /\ EndBehind(V(g, i + 2), i + 2)
    BY <2>1, ValueLocal
  <2> QED
    BY <1>1, <2>2 DEF EndBehind
<1> HIDE DEF V
<1>4. ItemsAt(s, g, i) = ItemsAt(s, h, i) /\ EndBehind(ItemsAt(s, g, i), i)
  <2>1. ItemsAt(s, g, i) = UNION {AfterItem(s, g, v) : v \in V(g, i)}
        /\ ItemsAt(s, h, i) = UNION {AfterItem(s, h, v) : v \in V(g, i)}
    BY <1>2 DEF ItemsAt, V
  <2>2. ASSUME NEW v \in V(g, i)
        PROVE  AfterItem(s, g, v) = AfterItem(s, h, v) /\ EndBehind(AfterItem(s, g, v), i)
    <3>1. v[2] \in Nat /\ v[2] > i
      BY <1>2 DEF EndBehind
    <3> QED
      BY <1>0, <1>1, <3>1, AfterLocal
  <2> QED
    BY <2>1, <2>2 DEF EndBehind
<1>5. MembersAt(s, g, i) = MembersAt(s, h, i) /\ EndBehind(MembersAt(s, g, i), i)
  <2>1. CASE KindAt(s, i) # "str" \/ KindAt(s, i + 1) # ":"
    BY <2>1 DEF MembersAt, EndBehind
  <2>2. CASE ~(KindAt(s, i) # "str" \/ KindAt(s, i + 1) # ":")
    <3> DEFINE k == s[i].text
    <3>1. MembersAt(s, g, i) = UNION {AfterMember(s, g, k, v) : v \in V(g, i + 2)}
          /\ MembersAt(s, h, i) = UNION {AfterMember(s, h, k, v) : v \in V(g, i + 2)}
      BY <1>3, <2>2 DEF MembersAt, V
    <3> HIDE DEF k
    <3>2. ASSUME NEW v \in V(g, i + 2)
          PROVE  /\ AfterMember(s, g, k, v) = AfterMember(s, h, k, v)
                 /\ EndBehind(AfterMember(s, g, k, v), i)
      <4>1. v[2] \in Nat /\ v[2] > i
        BY <1>3 DEF EndBehind
      <4> QED
        BY <1>0, <1>1, <4>1, AfterLocal
    <3> QED
      BY <3>1, <3>2 DEF EndBehind
  <2> QED
    BY <2>1, <2>2
<1> QED
  BY <1>4, <1>5 DEF Rule

(* The rules have a solution, so Parses is one. *)

LEMMA SetInduction ==
    ASSUME NEW S, 0 \in S, \A n \in Nat : n \in S => n + 1 \in S
    PROVE  Nat \subseteq S
<1> SUFFICES ASSUME Nat \ S # {} PROVE FALSE
  OBVIOUS
<1> DEFINE Less == {p \in Nat \X Nat : p[1] < p[2]}
<1>1. IsWellFoundedOn(Less, Nat)
  BY NatLessThanWellFounded DEF OpToRel
<1>2. \E x \in Nat \ S : \A y \in Nat \ S : ~(<<y, x>> \in Less)
  <2> HIDE DEF Less
  <2> QED
    BY <1>1, WFMin
<1>3. PICK x \in Nat \ S : \A y \in Nat \ S : ~(y < x)
  BY <1>2
<1>4. x - 1 \in Nat /\ x - 1 < x
  BY <1>3
<1>5. x - 1 \in S
  BY <1>3, <1>4
<1> QED
  BY <1>3, <1>4, <1>5

\* g solves the rules behind i.
Solves(s, g, i) ==
    \A p \in Places(s) : p[2] > i => g[p] = Rule(s, g, p) /\ EndBehind(g[p], p[2])

LEMMA SolutionBehind ==
    ASSUME NEW s \in Seq(Token), NEW n \in Nat
    PROVE  \E g : Solves(s, g, Len(s) + 1 - n)
<1> DEFINE Has == {m \in Nat : \E g : Solves(s, g, Len(s) + 1 - m)}
<1>1. Len(s) \in Nat
  BY InText
<1>2. 0 \in Has
  <2>1. \A p \in Places(s) : ~(p[2] > Len(s) + 1)
    BY <1>1 DEF Places
  <2>2. Len(s) + 1 - 0 = Len(s) + 1
    BY <1>1
  <2>3. Solves(s, s, Len(s) + 1 - 0)
    BY <2>1, <2>2 DEF Solves
  <2> QED
    BY <2>3
<1>3. ASSUME NEW m \in Nat, m \in Has PROVE m + 1 \in Has
  <2>1. PICK g : Solves(s, g, Len(s) + 1 - m)
    BY <1>3
  <2> DEFINE i == Len(s) + 1 - m
             h == [p \in Places(s) |-> IF p[2] = i THEN Rule(s, g, p) ELSE g[p]]
  <2>2. i \in Int /\ \A p \in Places(s) : p[2] \in Int
    BY <1>1 DEF Places
  <2>3. Solves(s, g, i)
    BY <2>1
  <2> HIDE DEF i
  <2>4. Onward(s, g, i) /\ SameBehind(s, g, h, i)
    BY <2>2, <2>3 DEF Solves, Onward, SameBehind
  <2>5. ASSUME NEW p \in Places(s), p[2] > i - 1
        PROVE  h[p] = Rule(s, h, p) /\ EndBehind(h[p], p[2])
    <3>1. Onward(s, g, p[2]) /\ SameBehind(s, g, h, p[2])
      <4>1. \A q \in Places(s) : q[2] > p[2] => q[2] > i
        BY <2>2, <2>5
      <4> QED
        BY <2>4, <4>1 DEF Onward, SameBehind
    <3>2. Rule(s, g, p) = Rule(s, h, p) /\ EndBehind(Rule(s, g, p), p[2])
      BY <3>1, RuleLocal
    <3>3. h[p] = Rule(s, g, p)
      BY <2>2, <2>3, <2>5 DEF Solves
    <3> QED
      BY <3>2, <3>3
  <2>6. Solves(s, h, i - 1)
    <3> HIDE DEF h
    <3> QED
      BY <2>5 DEF Solves
  <2>7. i - 1 = Len(s) + 1 - (m + 1)
    BY <1>1 DEF i
  <2> QED
    BY <2>6, <2>7
<1>4. Nat \subseteq Has
  <2> HIDE DEF Has
  <2> QED
    BY <1>2, <1>3, SetInduction
<1> QED
  BY <1>4

LEMMA ParsesSolves ==
    ASSUME NEW s \in Seq(Token)
    PROVE  /\ \A p \in Places(s) : Parses(s)[p] = Rule(s, Parses(s), p)
           /\ DOMAIN Parses(s) = Places(s)
<1> DEFINE Good(g) == g = [p \in Places(s) |-> Rule(s, g, p)]
<1>1. Parses(s) = CHOOSE g : Good(g)
  BY DEF Parses, Places, Rules, Rule
<1>2. Len(s) \in Nat
  BY InText
<1>3. PICK g : Solves(s, g, 0)
  <2>1. Len(s) + 1 \in Nat /\ Len(s) + 1 - (Len(s) + 1) = 0
    BY <1>2
  <2>2. \E g : Solves(s, g, Len(s) + 1 - (Len(s) + 1))
    BY <2>1, SolutionBehind
  <2> QED
    BY <2>1, <2>2
<1> DEFINE h == [p \in Places(s) |-> g[p]]
<1>4. \A p \in Places(s) : p[2] \in Nat /\ p[2] > 0
  BY <1>2 DEF Places
<1>5. ASSUME NEW p \in Places(s) PROVE g[p] = Rule(s, h, p)
  <2>1. Onward(s, g, p[2]) /\ SameBehind(s, g, h, p[2])
    BY <1>3, <1>4 DEF Solves, Onward, SameBehind
  <2>2. Rule(s, g, p) = Rule(s, h, p)
    BY <2>1, RuleLocal
  <2> QED
    BY <1>3, <1>4, <2>2 DEF Solves
<1>6. h = [p \in Places(s) |-> Rule(s, h, p)]
  BY <1>5, Zenon
<1>7. Good(h)
  BY <1>6
<1> HIDE DEF Good, h
<1>8. Good(CHOOSE x : Good(x))
  BY <1>7
<1> QED
  BY <1>1, <1>8 DEF Good

(* Lists. *)

IsTuple(x) == x \in Seq({x[i] : i \in DOMAIN x})

LEMMA TupleIn ==
    ASSUME NEW S, NEW x \in Seq(S)
    PROVE  IsTuple(x) /\ DOMAIN x = 1..Len(x) /\ Len(x) \in Nat
<1>1. Len(x) \in Nat /\ DOMAIN x = 1..Len(x) /\ x = [i \in 1..Len(x) |-> x[i]]
  OBVIOUS
<1> DEFINE T == {x[i] : i \in DOMAIN x}
<1>2. \A i \in 1..Len(x) : x[i] \in T
  BY <1>1
<1> HIDE DEF T
<1>3. x \in Seq(T)
  BY <1>1, <1>2
<1> QED
  BY <1>1, <1>3 DEF T, IsTuple

LEMMA ShortTuples == ASSUME NEW v PROVE IsTuple(<<v>>) /\ IsTuple(<<>>)
<1>1. <<v>> \in Seq({v}) /\ <<>> \in Seq({v})
  OBVIOUS
<1> QED
  BY <1>1, TupleIn

LEMMA Tuples ==
    ASSUME NEW l, IsTuple(l), NEW v
    PROVE  /\ IsTuple(Append(l, v))
           /\ l \o <<v>> = Append(l, v)
           /\ <<>> \o l = l
<1> DEFINE T == {l[i] : i \in DOMAIN l} \cup {v}
<1>1. l \in Seq(T) /\ v \in T
  BY DEF IsTuple
<1> HIDE DEF T
<1>2. Append(l, v) \in Seq(T) /\ l \o <<v>> = Append(l, v) /\ <<>> \o l = l
  BY <1>1
<1> QED
  BY <1>2, TupleIn

Joins(l, v, r) == l \o (<<v>> \o r) = Append(l, v) \o r

LEMMA ConcatTuples ==
    ASSUME NEW l, IsTuple(l), NEW v, NEW r, IsTuple(r)
    PROVE  IsTuple(l \o r) /\ Joins(l, v, r)
<1> DEFINE T == {l[i] : i \in DOMAIN l} \cup {v} \cup {r[i] : i \in DOMAIN r}
<1>1. l \in Seq(T) /\ v \in T /\ r \in Seq(T)
  <2>1. l \in Seq({l[i] : i \in DOMAIN l}) /\ r \in Seq({r[i] : i \in DOMAIN r})
    BY DEF IsTuple
  <2> QED
    BY <2>1
<1> HIDE DEF T
<1>2. <<v>> \in Seq(T) /\ <<v>> \o r \in Seq(T) /\ l \o r \in Seq(T) /\ l \o <<v>> = Append(l, v)
  BY <1>1
<1>3. l \o (<<v>> \o r) = (l \o <<v>>) \o r
  BY <1>1, <1>2, ConcatAssociative
<1> QED
  BY <1>2, <1>3, TupleIn DEF Joins

\* A solution's results behind i end behind their place, and its lists are lists.
Proper(s, g, i) ==
    /\ Onward(s, g, i)
    /\ \A p \in Places(s) : p[2] > i /\ p[1] = "items" => \A r \in g[p] : IsTuple(r[1])

LEMMA ProperBehind ==
    ASSUME NEW s \in Seq(Token), NEW g, \A p \in Places(s) : g[p] = Rule(s, g, p), NEW n \in Nat
    PROVE  Proper(s, g, Len(s) + 1 - n)
<1> DEFINE Has == {m \in Nat : Proper(s, g, Len(s) + 1 - m)}
<1>1. Len(s) \in Nat
  BY InText
<1>2. 0 \in Has
  <2>1. \A p \in Places(s) : ~(p[2] > Len(s) + 1)
    BY <1>1 DEF Places
  <2>2. Len(s) + 1 - 0 = Len(s) + 1
    BY <1>1
  <2>3. Proper(s, g, Len(s) + 1 - 0)
    BY <2>1, <2>2 DEF Proper, Onward
  <2> QED
    BY <2>3
<1>3. ASSUME NEW m \in Nat, m \in Has PROVE m + 1 \in Has
  <2> DEFINE i == Len(s) + 1 - m
  <2>1. i \in Int /\ (\A p \in Places(s) : p[2] \in Int /\ p[2] > 0) /\ Proper(s, g, i)
    BY <1>1, <1>3 DEF Places
  <2> HIDE DEF i
  <2>2. ASSUME NEW p \in Places(s), p[2] > i - 1
        PROVE  EndBehind(g[p], p[2]) /\ (p[1] = "items" => \A r \in g[p] : IsTuple(r[1]))
    <3>1. \A q \in Places(s) : q[2] > p[2] => q[2] > i
      BY <2>1, <2>2
    <3>2. Onward(s, g, p[2]) /\ SameBehind(s, g, g, p[2])
      BY <2>1, <3>1 DEF Proper, Onward, SameBehind
    <3>3. EndBehind(g[p], p[2])
      BY <3>2, RuleLocal
    <3>4. ASSUME p[1] = "items", NEW r \in g[p] PROVE IsTuple(r[1])
      <4>1. PICK v \in ValueAt(s, g, p[2]) : r \in AfterItem(s, g, v)
        <5>1. r \in ItemsAt(s, g, p[2])
          BY <3>4 DEF Rule
        <5> QED
          BY <5>1 DEF ItemsAt
      <4>2. v[2] \in Nat /\ v[2] > p[2]
        BY <2>1, <3>2, ValueLocal DEF EndBehind
      <4>3. CASE r = << <<v[1]>>, v[2] + 1 >>
        <5>1. r[1] = <<v[1]>>
          BY <4>3
        <5> QED
          BY <5>1, ShortTuples
      <4>4. CASE KindAt(s, v[2]) # "none" /\ \E q \in g[<<"items", v[2] + 1>>] : r = << <<v[1]>> \o q[1], q[2] >>
        <5>1. PICK q \in g[<<"items", v[2] + 1>>] : r = << <<v[1]>> \o q[1], q[2] >>
          BY <4>4
        <5>2. v[2] \in 1..Len(s)
          BY <4>4, InText
        <5>3. <<"items", v[2] + 1>> \in Places(s) /\ <<"items", v[2] + 1>>[2] > p[2]
          BY <1>1, <2>1, <4>2, <5>2 DEF Places, Rules
        <5>4. IsTuple(q[1])
          BY <2>1, <3>1, <5>3 DEF Proper
        <5>5. IsTuple(<<v[1]>>)
          BY ShortTuples
        <5>6. IsTuple(<<v[1]>> \o q[1])
          BY <5>4, <5>5, ConcatTuples
        <5> QED
          BY <5>1, <5>6
      <4> QED
        BY <4>1, <4>3, <4>4 DEF AfterItem
    <3> QED
      BY <3>3, <3>4
  <2>3. Proper(s, g, i - 1)
    BY <2>2 DEF Proper, Onward
  <2>4. i - 1 = Len(s) + 1 - (m + 1)
    BY <1>1 DEF i
  <2> QED
    BY <2>3, <2>4
<1>4. Nat \subseteq Has
  <2> HIDE DEF Has
  <2> QED
    BY <1>2, <1>3, SetInduction
<1> QED
  BY <1>4

LEMMA ParsedLists ==
    ASSUME NEW s \in Seq(Token), NEW j, <<"items", j>> \in Places(s),
           NEW r \in Parses(s)[<<"items", j>>]
    PROVE  IsTuple(r[1])
<1>1. Len(s) + 1 \in Nat /\ Len(s) + 1 - (Len(s) + 1) = 0 /\ j > 0
  BY InText DEF Places
<1>2. Proper(s, Parses(s), Len(s) + 1 - (Len(s) + 1))
  BY <1>1, ParsesSolves, ProperBehind
<1> QED
  BY <1>1, <1>2 DEF Proper

-----------------------------------------------------------------------------
(* What the rest of a text makes of the calls under way: the results of the   *)
(* containers they are parsing, given those of the value inside.             *)

Values(s, i) == ValueAt(s, Parses(s), i)

Closer(f) == IF f.kind = "{" THEN "}" ELSE "]"
RestOf(f) == IF f.kind = "[" THEN "items" ELSE "members"

\* f's value with the rest of its list or of its object.
Extended(f, rest) ==
    IF f.kind = "[" THEN List(f.value.list \o rest) ELSE Dict(Update(f.value.dict, rest))

\* f's container, when an item or a member begins at j, and when one has ended there.
Inside(s, f, j) == {<<Extended(f, r[1]), r[2]>> : r \in Parses(s)[<<RestOf(f), j>>]}
Ended(s, f, j) ==
    IF KindAt(s, j) = Closer(f) THEN {<<f.value, j + 1>>}
    ELSE IF KindAt(s, j) = "," THEN Inside(s, f, j + 1) ELSE {}

Stored(f, v) == [f EXCEPT !.value = Store(f, v)]
Completed(s, f, W) == UNION {Ended(s, Stored(f, w[1]), w[2]) : w \in W}

\* The value of a call is a list or a dict, as its bracket says.
Holds(f) ==
    /\ FrameOK(f)
    /\ f.kind = "[" => \E l : IsTuple(l) /\ f.value = List(l)
    /\ f.kind = "{" => \E d : f.value = Dict(d)

LEMMA StoredFacts ==
    ASSUME NEW f, FrameOK(f), NEW v
    PROVE  /\ Stored(f, v).kind = f.kind /\ Stored(f, v).value = Store(f, v)
           /\ Closer(Stored(f, v)) = Closer(f) /\ RestOf(Stored(f, v)) = RestOf(f)
<1>1. Stored(f, v).kind = f.kind /\ Stored(f, v).value = Store(f, v)
  BY DEF Stored, FrameOK
<1> QED
  BY <1>1 DEF Closer, RestOf

LEMMA Shapes ==
    ASSUME NEW x
    PROVE  List(x).list = x /\ Dict(x).dict = x
BY DEF List, Dict

\* Storing an item or a member and then the rest, or both at once.
LEMMA ListOneByOne ==
    ASSUME NEW f, Holds(f), f.kind = "[", NEW v
    PROVE  /\ Store(f, v) = Extended(f, <<v>>)
           /\ \A rest : IsTuple(rest) => Extended(f, <<v>> \o rest) = Extended(Stored(f, v), rest)
<1>1. PICK l : IsTuple(l) /\ f.value = List(l)
  BY DEF Holds
<1>2. f.value.list = l
  BY <1>1, Shapes
<1>3. Store(f, v) = List(Append(l, v))
  BY <1>2 DEF Store
<1>4. Store(f, v) = Extended(f, <<v>>)
  <2>1. l \o <<v>> = Append(l, v)
    BY <1>1, Tuples
  <2> QED
    BY <1>2, <1>3, <2>1 DEF Extended
<1>5. ASSUME NEW rest, IsTuple(rest)
      PROVE  Extended(f, <<v>> \o rest) = Extended(Stored(f, v), rest)
  <2>1. l \o (<<v>> \o rest) = Append(l, v) \o rest
    <3>1. IsTuple(l) /\ IsTuple(rest)
      BY <1>1, <1>5
    <3>2. Joins(l, v, rest)
      BY <3>1, ConcatTuples
    <3> QED
      BY <3>2 DEF Joins
  <2>2. Stored(f, v).kind = "[" /\ Stored(f, v).value.list = Append(l, v)
    BY <1>3, StoredFacts, Shapes DEF Holds
  <2> QED
    BY <1>2, <2>1, <2>2 DEF Extended
<1> QED
  BY <1>4, <1>5

\* The call of an object that holds the key k.
Member(f, k) == Holds(f) /\ f.kind = "{" /\ f.key = <<k>>

LEMMA DictOneByOne ==
    ASSUME NEW f, NEW k, Member(f, k), NEW v
    PROVE  /\ Store(f, v) = Extended(f, Single(k, v))
           /\ \A rest : Extended(f, Update(Single(k, v), rest)) = Extended(Stored(f, v), rest)
<1>0. Holds(f) /\ f.kind = "{"
  BY DEF Member
<1>1. PICK d : f.value = Dict(d)
  BY <1>0 DEF Holds
<1>2. f.value.dict = d
  BY <1>1, Shapes
<1>3. Store(f, v) = Dict(Put(d, k, v))
  <2>1. f.kind # "["
    BY <1>0, Zenon
  <2>2. f.key[1] = k
    <3>1. f.key = <<k>>
      BY DEF Member
    <3> QED
      BY ONLY <3>1
  <2> QED
    BY <1>2, <2>1, <2>2, Zenon DEF Store
<1>4. Update(d, Single(k, v)) = Put(d, k, v)
  BY DEF Update, Single, Put
<1>5. ASSUME NEW rest PROVE Update(d, Update(Single(k, v), rest)) = Update(Put(d, k, v), rest)
  BY DEF Update, Single, Put
<1>6. Stored(f, v).kind = "{" /\ Stored(f, v).value.dict = Put(d, k, v)
  BY <1>0, <1>3, StoredFacts, Shapes DEF Holds
<1> QED
  BY <1>0, <1>2, <1>3, <1>4, <1>5, <1>6 DEF Extended

LEMMA StoredHolds ==
    ASSUME NEW f, Holds(f), NEW v
    PROVE  Holds(Stored(f, v))
<1>1. FrameOK(Stored(f, v))
  BY DEF Stored, FrameOK, Holds
<1>2. CASE f.kind = "["
  <2>1. PICK l : IsTuple(l) /\ f.value = List(l)
    BY <1>2 DEF Holds
  <2>2. Store(f, v) = List(Append(l, v)) /\ IsTuple(Append(l, v))
    BY <1>2, <2>1, Shapes, Tuples DEF Store
  <2> QED
    BY <1>1, <1>2, <2>2, StoredFacts DEF Holds
<1>3. CASE f.kind # "["
  BY <1>1, <1>3, StoredFacts DEF Holds, Store
<1> QED
  BY <1>2, <1>3

\* The rules for the rest of a list and of an object, one value at a time.
LEMMA ItemsUnfold ==
    ASSUME NEW s \in Seq(Token), NEW f, Holds(f), f.kind = "[", NEW j \in 1..Len(s) + 1
    PROVE  Inside(s, f, j) = Completed(s, f, Values(s, j))
<1> DEFINE P == Parses(s)
           E(r) == <<Extended(f, r[1]), r[2]>>
<1>1. Len(s) \in Nat /\ <<"items", j>> \in Places(s)
  BY InText DEF Places, Rules
<1>2. P[<<"items", j>>] = UNION {AfterItem(s, P, v) : v \in Values(s, j)}
  <2>1. P[<<"items", j>>] = Rule(s, P, <<"items", j>>)
    BY <1>1, ParsesSolves
  <2> QED
    BY <2>1 DEF Rule, ItemsAt, Values
<1>3. ASSUME NEW v
      PROVE  {E(r) : r \in AfterItem(s, P, v)} = Ended(s, Stored(f, v[1]), v[2])
  <2> DEFINE g == Stored(f, v[1])
  <2>1. g.value = Extended(f, <<v[1]>>) /\ Closer(g) = "]" /\ RestOf(g) = "items"
    <3>1. g.value = Store(f, v[1]) /\ Closer(g) = Closer(f) /\ RestOf(g) = RestOf(f)
      BY StoredFacts DEF Holds
    <3>2. Store(f, v[1]) = Extended(f, <<v[1]>>)
      BY ListOneByOne
    <3> QED
      BY <3>1, <3>2 DEF Closer, RestOf
  <2>2. CASE KindAt(s, v[2]) = "]"
    <3>1. AfterItem(s, P, v) = {<< <<v[1]>>, v[2] + 1 >>}
      BY <2>2 DEF AfterItem
    <3>2. {E(r) : r \in AfterItem(s, P, v)} = {<<Extended(f, <<v[1]>>), v[2] + 1>>}
      BY <3>1
    <3> QED
      BY <2>1, <2>2, <3>2 DEF Ended
  <2>3. CASE KindAt(s, v[2]) = ","
    <3>1. v[2] \in 1..Len(s)
      <4>1. KindAt(s, v[2]) # "none"
        BY <2>3, Zenon
      <4> QED
        BY <4>1, InText
    <3>2. <<"items", v[2] + 1>> \in Places(s)
      BY <1>1, <3>1 DEF Places, Rules
    <3> DEFINE R == P[<<"items", v[2] + 1>>]
    <3>3. \A r \in R : Extended(f, <<v[1]>> \o r[1]) = Extended(g, r[1])
      BY <3>2, ParsedLists, ListOneByOne
    <3>4. AfterItem(s, P, v) = {<< <<v[1]>> \o r[1], r[2] >> : r \in R}
      BY <2>3 DEF AfterItem
    <3>5. Ended(s, g, v[2]) = {<<Extended(g, r[1]), r[2]>> : r \in R}
      <4>1. KindAt(s, v[2]) # Closer(g)
        BY <2>1, <2>3, Zenon
      <4>2. Ended(s, g, v[2]) = Inside(s, g, v[2] + 1)
        BY <2>3, <4>1, Zenon DEF Ended
      <4> QED
        BY <2>1, <4>2 DEF Inside
    <3> HIDE DEF R, g
    <3>6. {E(r) : r \in AfterItem(s, P, v)} = {<<Extended(f, <<v[1]>> \o r[1]), r[2]>> : r \in R}
      <4> DEFINE F(r) == << <<v[1]>> \o r[1], r[2] >>
      <4>1. \A r : E(F(r)) = <<Extended(f, <<v[1]>> \o r[1]), r[2]>>
        OBVIOUS
      <4>2. AfterItem(s, P, v) = {F(r) : r \in R}
        BY <3>4
      <4> HIDE DEF E, F
      <4>3. {E(q) : q \in {F(r) : r \in R}} = {E(F(r)) : r \in R}
        OBVIOUS
      <4> QED
        BY <4>1, <4>2, <4>3
    <3> QED
      BY <3>3, <3>5, <3>6 DEF g
  <2>4. CASE KindAt(s, v[2]) # "]" /\ KindAt(s, v[2]) # ","
    <3>1. AfterItem(s, P, v) = {}
      BY <2>4, Zenon DEF AfterItem
    <3>2. Ended(s, g, v[2]) = {}
      BY <2>1, <2>4, Zenon DEF Ended
    <3> QED
      BY <3>1, <3>2
  <2> QED
    BY <2>2, <2>3, <2>4
<1>4. Inside(s, f, j) = {E(r) : r \in P[<<"items", j>>]}
  BY DEF Inside, RestOf
<1>5. Inside(s, f, j) = UNION {{E(r) : r \in AfterItem(s, P, v)} : v \in Values(s, j)}
  <2> HIDE DEF E
  <2> QED
    BY <1>2, <1>4
<1> QED
  BY <1>3, <1>5 DEF Completed

Keyed(f, k) == [f EXCEPT !.key = <<k>>]

LEMMA KeyedFacts ==
    ASSUME NEW f, Holds(f), NEW k \in Texts
    PROVE  /\ Holds(Keyed(f, k)) /\ Keyed(f, k).key = <<k>>
           /\ Keyed(f, k).kind = f.kind /\ Keyed(f, k).value = f.value
<1>1. FrameOK(f)
  BY DEF Holds
<1>2. /\ Keyed(f, k).key = <<k>> /\ Keyed(f, k).kind = f.kind /\ Keyed(f, k).value = f.value
      /\ FrameOK(Keyed(f, k))
  BY <1>1 DEF Keyed, FrameOK, AtMostOne
<1> QED
  BY <1>2, Zenon DEF Holds

LEMMA MembersUnfold ==
    ASSUME NEW s \in Seq(Token), NEW f, Holds(f), f.kind = "{", NEW j \in 1..Len(s) + 1
    PROVE  /\ KindAt(s, j) # "str" \/ KindAt(s, j + 1) # ":" => Inside(s, f, j) = {}
           /\ KindAt(s, j) = "str" /\ KindAt(s, j + 1) = ":" /\ s[j].text \in Texts =>
                Inside(s, f, j) = Completed(s, Keyed(f, s[j].text), Values(s, j + 2))
<1> DEFINE P == Parses(s)
           E(r) == <<Extended(f, r[1]), r[2]>>
<1>1. Len(s) \in Nat /\ <<"members", j>> \in Places(s)
  BY InText DEF Places, Rules
<1>2. P[<<"members", j>>] = MembersAt(s, P, j)
  <2>1. P[<<"members", j>>] = Rule(s, P, <<"members", j>>)
    BY <1>1, ParsesSolves
  <2> QED
    BY <2>1 DEF Rule
<1>3. Inside(s, f, j) = {E(r) : r \in P[<<"members", j>>]}
  <2>1. RestOf(f) = "members"
    BY Zenon DEF RestOf
  <2> QED
    BY <2>1 DEF Inside
<1>4. CASE KindAt(s, j) # "str" \/ KindAt(s, j + 1) # ":"
  <2>1. P[<<"members", j>>] = {}
    BY <1>2, <1>4, Zenon DEF MembersAt
  <2> QED
    BY <1>3, <1>4, <2>1
<1>5. ASSUME KindAt(s, j) = "str", KindAt(s, j + 1) = ":", s[j].text \in Texts
      PROVE  Inside(s, f, j) = Completed(s, Keyed(f, s[j].text), Values(s, j + 2))
  <2> DEFINE k == s[j].text
             c == Keyed(f, k)
  <2>1. P[<<"members", j>>] = UNION {AfterMember(s, P, k, v) : v \in Values(s, j + 2)}
    BY <1>2, <1>5, Zenon DEF MembersAt, Values
  <2>2. k \in Texts
    BY <1>5
  <2> HIDE DEF k
  <2>3. Holds(c) /\ c.key = <<k>> /\ c.kind = f.kind /\ c.value = f.value
    BY <2>2, KeyedFacts
  <2>4. FrameOK(c) /\ c.kind = "{"
    BY <2>3 DEF Holds
  <2>5. \A r : Extended(c, r) = Extended(f, r)
    BY <2>3, Zenon DEF Extended
  <2> HIDE DEF c
  <2>55. Member(c, k)
    BY <2>3, <2>4 DEF Member
  <2>6. ASSUME NEW v
        PROVE  {E(r) : r \in AfterMember(s, P, k, v)} = Ended(s, Stored(c, v[1]), v[2])
    <3> DEFINE g == Stored(c, v[1])
    <3>1. g.value = Extended(f, Single(k, v[1])) /\ Closer(g) = "}" /\ RestOf(g) = "members"
      <4>1. g.value = Store(c, v[1]) /\ Closer(g) = Closer(c) /\ RestOf(g) = RestOf(c)
        BY <2>4, StoredFacts
      <4>2. Store(c, v[1]) = Extended(f, Single(k, v[1]))
        <5>1. Store(c, v[1]) = Extended(c, Single(k, v[1]))
          BY ONLY <2>55, DictOneByOne
        <5> QED
          BY <2>5, <5>1
      <4>3. Closer(c) = "}" /\ RestOf(c) = "members"
        BY <2>4, Zenon DEF Closer, RestOf
      <4> QED
        BY <4>1, <4>2, <4>3
    <3>2. CASE KindAt(s, v[2]) = "}"
      <4>1. AfterMember(s, P, k, v) = {<<Single(k, v[1]), v[2] + 1>>}
        BY <3>2 DEF AfterMember
      <4>2. {E(r) : r \in AfterMember(s, P, k, v)} = {<<Extended(f, Single(k, v[1])), v[2] + 1>>}
        <5> DEFINE x == <<Single(k, v[1]), v[2] + 1>>
        <5>1. E(x) = <<Extended(f, Single(k, v[1])), v[2] + 1>>
          OBVIOUS
        <5> HIDE DEF E, x
        <5>2. {E(r) : r \in {x}} = {E(x)}
          OBVIOUS
        <5> QED
          BY <4>1, <5>1, <5>2 DEF x
      <4>3. Ended(s, g, v[2]) = {<<g.value, v[2] + 1>>}
        BY <3>1, <3>2, Zenon DEF Ended
      <4> QED
        BY <3>1, <4>2, <4>3
    <3>3. CASE KindAt(s, v[2]) = ","
      <4> DEFINE R == P[<<"members", v[2] + 1>>]
      <4>1. \A r : Extended(f, Update(Single(k, v[1]), r)) = Extended(g, r)
        <5>1. \A r : Extended(c, Update(Single(k, v[1]), r)) = Extended(g, r)
          BY ONLY <2>55, DictOneByOne
        <5> QED
          BY ONLY <2>5, <5>1, Zenon
      <4>2. AfterMember(s, P, k, v) = {<<Update(Single(k, v[1]), r[1]), r[2]>> : r \in R}
        BY <3>3 DEF AfterMember
      <4>3. Ended(s, g, v[2]) = {<<Extended(g, r[1]), r[2]>> : r \in R}
        <5>1. KindAt(s, v[2]) # Closer(g)
          BY <3>1, <3>3, Zenon
        <5>2. Ended(s, g, v[2]) = Inside(s, g, v[2] + 1)
          BY <3>3, <5>1, Zenon DEF Ended
        <5> QED
          BY <3>1, <5>2 DEF Inside
      <4> HIDE DEF R, g
      <4>4. {E(r) : r \in AfterMember(s, P, k, v)}
              = {<<Extended(f, Update(Single(k, v[1]), r[1])), r[2]>> : r \in R}
        <5> DEFINE F(r) == <<Update(Single(k, v[1]), r[1]), r[2]>>
        <5>1. \A r : E(F(r)) = <<Extended(f, Update(Single(k, v[1]), r[1])), r[2]>>
          OBVIOUS
        <5>2. AfterMember(s, P, k, v) = {F(r) : r \in R}
          BY <4>2
        <5> HIDE DEF E, F
        <5>3. {E(q) : q \in {F(r) : r \in R}} = {E(F(r)) : r \in R}
          OBVIOUS
        <5> QED
          BY <5>1, <5>2, <5>3
      <4>5. \A r \in R : Extended(f, Update(Single(k, v[1]), r[1])) = Extended(g, r[1])
        BY <4>1
      <4> HIDE DEF E
      <4> QED
        BY <4>3, <4>4, <4>5 DEF g
    <3>4. CASE KindAt(s, v[2]) # "}" /\ KindAt(s, v[2]) # ","
      <4>1. AfterMember(s, P, k, v) = {}
        BY <3>4, Zenon DEF AfterMember
      <4>2. Ended(s, g, v[2]) = {}
        BY <3>1, <3>4, Zenon DEF Ended
      <4> QED
        BY <4>1, <4>2
    <3> QED
      BY <3>2, <3>3, <3>4
  <2>7. Inside(s, f, j) = UNION {{E(r) : r \in AfterMember(s, P, k, v)} : v \in Values(s, j + 2)}
    <3> DEFINE A(v) == AfterMember(s, P, k, v)
               V == Values(s, j + 2)
               Q == P[<<"members", j>>]
    <3>1. Q = UNION {A(v) : v \in V} /\ Inside(s, f, j) = {E(r) : r \in Q}
      BY <1>3, <2>1
    <3> HIDE DEF E, A, V, Q
    <3>2. Inside(s, f, j) = UNION {{E(r) : r \in A(v)} : v \in V}
      BY ONLY <3>1
    <3> QED
      BY <3>2 DEF A, V
  <2>8. Inside(s, f, j) = Completed(s, c, Values(s, j + 2))
    BY <2>6, <2>7 DEF Completed
  <2> QED
    BY <2>8 DEF c, k
<1> QED
  BY <1>4, <1>5

\* A call that begins, with its bracket at j.
NewCall(kind) ==
    [kind |-> kind, key |-> <<>>, value |-> IF kind = "{" THEN Dict(<<>>) ELSE List(<<>>)]

First(s, f, j) == IF KindAt(s, j) = Closer(f) THEN {<<f.value, j + 1>>} ELSE Inside(s, f, j)

LEMMA NewCallHolds ==
    ASSUME NEW kind \in Openers
    PROVE  Holds(NewCall(kind)) /\ NewCall(kind).kind = kind /\ NewCall(kind).key = <<>>
<1>1. NewCall(kind).kind = kind /\ NewCall(kind).key = <<>>
  BY DEF NewCall
<1>2. FrameOK(NewCall(kind))
  BY DEF NewCall, FrameOK, AtMostOne
<1>3. /\ kind = "{" => NewCall(kind).value = Dict(<<>>)
      /\ kind # "{" => NewCall(kind).value = List(<<>>)
  BY DEF NewCall
<1>4. kind = "[" => kind # "{"
  BY Zenon
<1>5. IsTuple(<<>>)
  BY ShortTuples
<1> QED
  BY <1>1, <1>2, <1>3, <1>4, <1>5, Zenon DEF Holds

LEMMA ParsedMembers ==
    ASSUME NEW s \in Seq(Token), NEW j, <<"members", j>> \in Places(s),
           NEW r \in Parses(s)[<<"members", j>>]
    PROVE  r[1] = [x \in DOMAIN r[1] |-> r[1][x]]
<1> DEFINE P == Parses(s)
<1>1. r \in MembersAt(s, P, j)
  <2>1. P[<<"members", j>>] = Rule(s, P, <<"members", j>>)
    BY ParsesSolves
  <2>2. Rule(s, P, <<"members", j>>) = MembersAt(s, P, j)
    BY DEF Rule
  <2> QED
    BY <2>1, <2>2
<1>2. PICK k, v : r \in AfterMember(s, P, k, v)
  <2>1. MembersAt(s, P, j) # {}
    BY <1>1
  <2>2. MembersAt(s, P, j) = UNION {AfterMember(s, P, s[j].text, v) : v \in ValueAt(s, P, j + 2)}
    BY <2>1, Zenon DEF MembersAt
  <2> QED
    BY <1>1, <2>2
<1>3. CASE r = <<Single(k, v[1]), v[2] + 1>>
  <2>1. r[1] = Single(k, v[1])
    BY <1>3
  <2> QED
    BY <2>1 DEF Single
<1>4. CASE \E q \in P[<<"members", v[2] + 1>>] : r = <<Update(Single(k, v[1]), q[1]), q[2]>>
  <2>1. PICK q : r = <<Update(Single(k, v[1]), q[1]), q[2]>>
    BY <1>4
  <2>2. r[1] = Update(Single(k, v[1]), q[1])
    BY <2>1
  <2> QED
    BY <2>2 DEF Update
<1> QED
  BY <1>2, <1>3, <1>4, Zenon DEF AfterMember

LEMMA ContainerUnfold ==
    ASSUME NEW s \in Seq(Token), NEW j \in 1..Len(s), KindAt(s, j) \in Openers
    PROVE  Values(s, j) = First(s, NewCall(KindAt(s, j)), j + 1)
<1> DEFINE P == Parses(s)
           f == NewCall(KindAt(s, j))
<1>1. CASE KindAt(s, j) = "["
  <2>1. f.kind = "[" /\ f.value = List(<<>>) /\ Closer(f) = "]" /\ RestOf(f) = "items"
    BY <1>1, Zenon DEF NewCall, Closer, RestOf
  <2> HIDE DEF f
  <2>2. Values(s, j) = {<<List(r[1]), r[2]>> : r \in Container(s, P, "items", "]", <<>>, j + 1)}
    BY <1>1, ValueCases DEF Values
  <2>3. CASE KindAt(s, j + 1) = "]"
    <3>1. Container(s, P, "items", "]", <<>>, j + 1) = {<< <<>>, j + 1 + 1 >>}
      BY <2>3 DEF Container
    <3>2. Values(s, j) = {<<List(<<>>), j + 1 + 1>>}
      <4> DEFINE E(r) == <<List(r[1]), r[2]>>
                 x == << <<>>, j + 1 + 1 >>
      <4>1. E(x) = <<List(<<>>), j + 1 + 1>>
        OBVIOUS
      <4>2. Values(s, j) = {E(r) : r \in {x}}
        BY <2>2, <3>1
      <4> HIDE DEF E, x
      <4>3. {E(r) : r \in {x}} = {E(x)}
        OBVIOUS
      <4> QED
        BY <4>1, <4>2, <4>3
    <3> QED
      BY <2>1, <2>3, <3>2, Zenon DEF First, f
  <2>4. CASE KindAt(s, j + 1) # "]"
    <3> DEFINE R == P[<<"items", j + 1>>]
    <3>1. Values(s, j) = {<<List(r[1]), r[2]>> : r \in R}
      BY <2>2, <2>4 DEF Container
    <3>2. First(s, f, j + 1) = {<<Extended(f, r[1]), r[2]>> : r \in R}
      BY <2>1, <2>4, Zenon DEF First, Inside
    <3>3. ASSUME NEW r \in R PROVE Extended(f, r[1]) = List(r[1])
      <4>1. <<"items", j + 1>> \in Places(s)
        BY InText DEF Places, Rules
      <4>2. IsTuple(r[1])
        BY <4>1, ParsedLists
      <4>3. <<>> \o r[1] = r[1]
        BY <4>2, Tuples
      <4>4. f.value.list = <<>>
        BY <2>1, Shapes
      <4> QED
        BY <2>1, <4>3, <4>4 DEF Extended
    <3> HIDE DEF R
    <3> QED
      BY <3>1, <3>2, <3>3 DEF f
  <2> QED
    BY <2>3, <2>4
<1>2. CASE KindAt(s, j) = "{"
  <2>1. f.kind = "{" /\ f.value = Dict(<<>>) /\ Closer(f) = "}" /\ RestOf(f) = "members"
    BY <1>2, Zenon DEF NewCall, Closer, RestOf
  <2> HIDE DEF f
  <2>2. Values(s, j) = {<<Dict(r[1]), r[2]>> : r \in Container(s, P, "members", "}", <<>>, j + 1)}
    BY <1>2, ValueCases DEF Values
  <2>3. CASE KindAt(s, j + 1) = "}"
    <3>1. Container(s, P, "members", "}", <<>>, j + 1) = {<< <<>>, j + 1 + 1 >>}
      BY <2>3 DEF Container
    <3>2. Values(s, j) = {<<Dict(<<>>), j + 1 + 1>>}
      <4> DEFINE E(r) == <<Dict(r[1]), r[2]>>
                 x == << <<>>, j + 1 + 1 >>
      <4>1. E(x) = <<Dict(<<>>), j + 1 + 1>>
        OBVIOUS
      <4>2. Values(s, j) = {E(r) : r \in {x}}
        BY <2>2, <3>1
      <4> HIDE DEF E, x
      <4>3. {E(r) : r \in {x}} = {E(x)}
        OBVIOUS
      <4> QED
        BY <4>1, <4>2, <4>3
    <3> QED
      BY <2>1, <2>3, <3>2, Zenon DEF First, f
  <2>4. CASE KindAt(s, j + 1) # "}"
    <3> DEFINE R == P[<<"members", j + 1>>]
    <3>1. Values(s, j) = {<<Dict(r[1]), r[2]>> : r \in R}
      BY <2>2, <2>4 DEF Container
    <3>2. First(s, f, j + 1) = {<<Extended(f, r[1]), r[2]>> : r \in R}
      BY <2>1, <2>4, Zenon DEF First, Inside
    <3>3. ASSUME NEW r \in R PROVE Extended(f, r[1]) = Dict(r[1])
      <4>1. <<"members", j + 1>> \in Places(s)
        BY InText DEF Places, Rules
      <4>11. r[1] = [x \in DOMAIN r[1] |-> r[1][x]]
        BY <4>1, ParsedMembers
      <4>2. Update(<<>>, r[1]) = r[1]
        BY <4>11 DEF Update
      <4>3. f.value.dict = <<>>
        BY <2>1, Shapes
      <4> QED
        BY <2>1, <4>2, <4>3, Zenon DEF Extended
    <3> HIDE DEF R
    <3> QED
      BY <3>1, <3>2, <3>3 DEF f
  <2> QED
    BY <2>3, <2>4
<1> QED
  BY <1>1, <1>2 DEF Openers

-----------------------------------------------------------------------------
(* The calls under way, from the outermost: W[k] is what the text makes of    *)
(* the value inside the k-th, and W[0] of the whole.                         *)

Linked(s, fs, W, m) ==
    W[0] = Values(s, 1) /\ \A k \in 1..m : W[k - 1] = Completed(s, fs[k], W[k])

\* What the text from p on makes of the innermost call, by what is looked for.
Fits(s, W, m, fs, h, p) ==
    LET n == Len(fs)
        f == fs[n]
    IN  /\ m = "value" => Linked(s, fs, W, n) /\ W[n] = Values(s, p)
        /\ m = "colon" => /\ Linked(s, fs, W, n)
                          /\ W[n] = IF KindAt(s, p) = ":" THEN Values(s, p + 1) ELSE {}
        /\ m = "place" => Linked(s, fs, W, n) /\ W[n] = {<<h[1], p>>}
        /\ m = "first" => Linked(s, fs, W, n - 1) /\ W[n - 1] = First(s, f, p)
        /\ m = "key" => Linked(s, fs, W, n - 1) /\ W[n - 1] = Inside(s, f, p)
        /\ m = "after" => Linked(s, fs, W, n - 1) /\ W[n - 1] = Ended(s, f, p)

LEMMA LinkedSame ==
    ASSUME NEW s, NEW fs, NEW gs, NEW W, NEW V, NEW m \in Nat, Linked(s, fs, W, m),
           \A k \in 1..m : gs[k] = fs[k], \A k \in 0..m : V[k] = W[k]
    PROVE  Linked(s, gs, V, m)
<1>1. V[0] = W[0]
  OBVIOUS
<1>2. ASSUME NEW k \in 1..m PROVE V[k - 1] = Completed(s, gs[k], V[k])
  <2>1. V[k - 1] = W[k - 1] /\ V[k] = W[k] /\ gs[k] = fs[k]
    OBVIOUS
  <2> QED
    BY <2>1 DEF Linked
<1> QED
  BY <1>1, <1>2 DEF Linked

\* Nothing comes of a text in which nothing comes of an inner value.
LEMMA LinkedEmpty ==
    ASSUME NEW s, NEW fs, NEW W, NEW m \in Nat, Linked(s, fs, W, m), W[m] = {}
    PROVE  Values(s, 1) = {}
<1> SUFFICES ASSUME W[0] # {} PROVE FALSE
  BY DEF Linked
<1> DEFINE S == {k \in Nat : k <= m => W[k] # {}}
<1>1. 0 \in S
  OBVIOUS
<1>2. ASSUME NEW k \in Nat, k \in S PROVE k + 1 \in S
  <2> SUFFICES ASSUME k + 1 <= m PROVE W[k + 1] # {}
    OBVIOUS
  <2>1. k + 1 \in 1..m /\ (k + 1) - 1 = k /\ k <= m
    OBVIOUS
  <2>2. W[k] = Completed(s, fs[k + 1], W[k + 1])
    BY <2>1 DEF Linked
  <2>3. W[k] # {}
    BY <1>2, <2>1
  <2> QED
    BY <2>2, <2>3 DEF Completed
<1>3. Nat \subseteq S
  <2> HIDE DEF S
  <2> QED
    BY <1>1, <1>2, SetInduction
<1> QED
  BY <1>3

\* The value due inside the innermost call.
LEMMA Due ==
    ASSUME NEW s \in Seq(Token), NEW W, NEW fs, NEW h, NEW p \in 1..Len(s) + 1, NEW m,
           Len(fs) \in Nat, Fits(s, W, m, fs, h, p),
           \/ m = "value"
           \/ /\ m = "first" /\ Len(fs) > 0 /\ Holds(fs[Len(fs)]) /\ fs[Len(fs)].kind = "["
              /\ KindAt(s, p) # "]"
    PROVE  \E V : Linked(s, fs, V, Len(fs)) /\ V[Len(fs)] = Values(s, p)
<1> DEFINE n == Len(fs)
           f == fs[n]
<1>1. CASE m = "value"
  BY <1>1 DEF Fits
<1>2. CASE m = "first"
  <2>0. n > 0 /\ Holds(f) /\ f.kind = "[" /\ KindAt(s, p) # "]"
    BY <1>2, Zenon
  <2>1. Linked(s, fs, W, n - 1) /\ W[n - 1] = First(s, f, p)
    BY <1>2 DEF Fits
  <2>2. First(s, f, p) = Completed(s, f, Values(s, p))
    <3>1. Closer(f) = "]"
      BY <2>0, Zenon DEF Closer
    <3>2. First(s, f, p) = Inside(s, f, p)
      BY <2>0, <3>1, Zenon DEF First
    <3> QED
      BY <2>0, <3>2, ItemsUnfold
  <2> DEFINE V == [k \in 0..n |-> IF k = n THEN Values(s, p) ELSE W[k]]
  <2>3. n - 1 \in Nat /\ n \in 0..n
    BY <2>0
  <2>4. (\A k \in 0..n - 1 : V[k] = W[k]) /\ V[n] = Values(s, p)
    BY <2>3
  <2> HIDE DEF V
  <2>5. Linked(s, fs, V, n - 1)
    BY <2>1, <2>3, <2>4, LinkedSame
  <2>6. V[n - 1] = Completed(s, f, V[n])
    <3>1. V[n - 1] = W[n - 1]
      BY <2>3, <2>4
    <3> QED
      BY <2>1, <2>2, <2>4, <3>1
  <2>7. Linked(s, fs, V, n)
    <3>1. \A k \in 1..n : k \in 1..n - 1 \/ k = n
      BY <2>3
    <3> QED
      BY <2>5, <2>6, <3>1 DEF Linked
  <2> QED
    BY <2>4, <2>7
<1> QED
  BY <1>1, <1>2

\* Where the text has the token t.
At(s, p, t) == s \in Seq(Token) /\ p \in 1..Len(s) /\ s[p] = t /\ KindAt(s, p) = t.kind

LEMMA NextToken ==
    ASSUME NEW r \in Seq(Token), NEW t \in Token, NEW rest \in Seq(Token)
    PROVE  /\ \E more \in Seq(Token) : Append(r, t) \o rest = r \o more
           /\ At(Append(r, t) \o rest, Len(r) + 1, t)
<1> DEFINE s == Append(r, t) \o rest
           more == <<t>> \o rest
<1>1. more \in Seq(Token) /\ <<t>> \in Seq(Token) /\ Append(r, t) \in Seq(Token)
  OBVIOUS
<1>2. Append(r, t) = r \o <<t>>
  OBVIOUS
<1>3. s = r \o more
  BY <1>1, <1>2, ConcatAssociative
<1>4. s \in Seq(Token) /\ Len(s) = Len(r) + 1 + Len(rest) /\ s[Len(r) + 1] = t
  OBVIOUS
<1>5. Len(r) + 1 \in 1..Len(s)
  BY <1>4
<1> HIDE DEF s, more
<1>6. KindAt(s, Len(r) + 1) = t.kind
  BY <1>4, <1>5 DEF KindAt
<1>7. At(s, Len(r) + 1, t)
  BY <1>4, <1>5, <1>6 DEF At
<1> QED
  BY <1>1, <1>3, <1>7 DEF s

\* The calls below a change are the same.
LEMMA PushBelow ==
    ASSUME NEW fs, Stack(fs), NEW f, FrameOK(f), NEW k \in 1..Len(fs)
    PROVE  Append(fs, f)[k] = fs[k]
<1> DEFINE S == {fs[i] : i \in DOMAIN fs} \cup {f}
<1>1. fs \in Seq(S) /\ f \in S
  BY DEF Stack
<1> HIDE DEF S
<1> QED
  BY <1>1

LEMMA PopBelow ==
    ASSUME NEW fs, Stack(fs), fs # <<>>, NEW k \in 1..Len(fs) - 1
    PROVE  SubSeq(fs, 1, Len(fs) - 1)[k] = fs[k]
<1> DEFINE S == {fs[i] : i \in DOMAIN fs}
<1>1. fs \in Seq(S) /\ Len(fs) \in Nat
  BY CountType DEF Stack
<1> HIDE DEF S
<1>2. PICK m \in Nat : m = Len(fs) - 1
  BY <1>1
<1>3. \A i \in 1..m : fs[i] \in S
  BY <1>1, <1>2
<1>4. \A i \in 1..m - 1 + 1 : SubSeq(fs, 1, m)[i] = fs[1 + i - 1]
  BY <1>3, SubSeqProperties
<1> QED
  BY <1>2, <1>4

Swapped(fs, f) == Append(SubSeq(fs, 1, Len(fs) - 1), f)

LEMMA SwapBelow ==
    ASSUME NEW fs, Stack(fs), fs # <<>>, NEW f, FrameOK(f), NEW gs, gs = Swapped(fs, f)
    PROVE  /\ Len(gs) = Len(fs) /\ gs[Len(fs)] = f /\ DOMAIN gs = 1..Len(fs)
           /\ \A k \in 1..Len(fs) - 1 : gs[k] = fs[k]
<1> DEFINE b == SubSeq(fs, 1, Len(fs) - 1)
<1>1. Stack(b) /\ Len(fs) > 0 /\ Len(b) = Len(fs) - 1 /\ Len(fs) \in Nat
  BY PopFacts, CountType
<1>2. \A k \in 1..Len(fs) - 1 : b[k] = fs[k]
  BY PopBelow
<1>3. gs = Append(b, f)
  BY DEF Swapped
<1> HIDE DEF b
<1>4. Stack(gs) /\ Len(gs) = Len(b) + 1 /\ gs[Len(b) + 1] = f
  <2>1. FrameOK(f)
    OBVIOUS
  <2> QED
    BY ONLY <1>1, <1>3, <2>1, PushFacts
<1>5. DOMAIN gs = 1..Len(gs)
  BY <1>4, CountType
<1>6. \A k \in 1..Len(b) : gs[k] = b[k]
  BY <1>1, <1>3, PushBelow
<1> QED
  BY <1>1, <1>2, <1>4, <1>5, <1>6

-----------------------------------------------------------------------------
(* A token each: what the text makes of the calls before it, it makes of      *)
(* those behind it.                                                          *)

\* Where a value may begin.
Awaits(m, fs, kind) ==
    \/ m = "value"
    \/ /\ m = "first" /\ Len(fs) > 0 /\ Holds(fs[Len(fs)]) /\ fs[Len(fs)].kind = "["
       /\ kind # "]"

LEMMA ScalarFits ==
    ASSUME NEW s, NEW p, NEW t, At(s, p, t), NEW fs, Len(fs) \in Nat, NEW m, NEW W, NEW h,
           Fits(s, W, m, fs, h, p), Awaits(m, fs, t.kind), t.kind \in ScalarKinds,
           NEW x, x = <<Atom(t)>>
    PROVE  \E V : Fits(s, V, "place", fs, x, p + 1)
<1>1. PICK V : Linked(s, fs, V, Len(fs)) /\ V[Len(fs)] = Values(s, p)
  BY Due DEF At, Awaits
<1>2. Values(s, p) = {<<Atom(t), p + 1>>}
  <2>1. KindAt(s, p) \in ScalarKinds /\ s[p] = t
    BY Zenon DEF At
  <2> QED
    BY <2>1, ValueCases, Zenon DEF Values
<1>3. Fits(s, V, "place", fs, x, p + 1)
  BY <1>1, <1>2 DEF Fits
<1> QED
  BY <1>3

LEMMA OpenFits ==
    ASSUME NEW s, NEW p, NEW t, At(s, p, t), NEW fs, Len(fs) \in Nat, NEW m, NEW W, NEW h,
           Fits(s, W, m, fs, h, p), Awaits(m, fs, t.kind), t.kind \in Openers,
           NEW gs, Len(gs) = Len(fs) + 1, gs[Len(fs) + 1] = NewCall(t.kind),
           \A k \in 1..Len(fs) : gs[k] = fs[k]
    PROVE  \E V : Fits(s, V, "first", gs, h, p + 1)
<1>1. PICK V : Linked(s, fs, V, Len(fs)) /\ V[Len(fs)] = Values(s, p)
  BY Due DEF At, Awaits
<1>2. Values(s, p) = First(s, NewCall(t.kind), p + 1)
  BY ContainerUnfold DEF At
<1>3. Linked(s, gs, V, Len(fs))
  BY <1>1, LinkedSame
<1>4. Len(gs) - 1 = Len(fs) /\ gs[Len(gs)] = NewCall(t.kind)
  OBVIOUS
<1>5. Fits(s, V, "first", gs, h, p + 1)
  BY <1>1, <1>2, <1>3, <1>4 DEF Fits
<1> QED
  BY <1>5

LEMMA KeyFits ==
    ASSUME NEW s, NEW p, NEW t, At(s, p, t), NEW fs, Len(fs) \in Nat, Len(fs) > 0, NEW m, NEW W, NEW h,
           Fits(s, W, m, fs, h, p), m \in {"key", "first"}, t.kind = "str", t.text \in Texts,
           Holds(fs[Len(fs)]), fs[Len(fs)].kind = "{",
           NEW gs, Len(gs) = Len(fs), gs[Len(fs)] = Keyed(fs[Len(fs)], t.text),
           \A k \in 1..Len(fs) - 1 : gs[k] = fs[k]
    PROVE  \E V : Fits(s, V, "colon", gs, h, p + 1)
<1> DEFINE n == Len(fs)
           f == fs[n]
           new == IF KindAt(s, p + 1) = ":" THEN Values(s, p + 1 + 1) ELSE {}
           V == [k \in 0..n |-> IF k = n THEN new ELSE W[k]]
<1>1. Linked(s, fs, W, n - 1) /\ W[n - 1] = Inside(s, f, p)
  <2>1. CASE m = "key"
    BY <2>1 DEF Fits
  <2>2. CASE m = "first"
    <3>1. Linked(s, fs, W, n - 1) /\ W[n - 1] = First(s, f, p)
      BY <2>2 DEF Fits
    <3>2. First(s, f, p) = Inside(s, f, p)
      <4>1. Closer(f) = "}" /\ KindAt(s, p) = "str"
        BY Zenon DEF Closer, At
      <4> QED
        BY <4>1, Zenon DEF First
    <3> QED
      BY <3>1, <3>2
  <2> QED
    BY <2>1, <2>2
<1>2. Inside(s, f, p) = Completed(s, Keyed(f, t.text), new)
  <2>1. s \in Seq(Token) /\ p \in 1..Len(s) + 1 /\ KindAt(s, p) = "str" /\ s[p] = t /\ p + 1 + 1 = p + 2
    <3>1. s \in Seq(Token) /\ p \in 1..Len(s) /\ KindAt(s, p) = "str" /\ s[p] = t
      BY Zenon DEF At
    <3>2. p \in 1..Len(s) + 1 /\ p + 1 + 1 = p + 2
      BY ONLY <3>1, InText
    <3> QED
      BY <3>1, <3>2
  <2>2. CASE KindAt(s, p + 1) = ":"
    <3>1. Inside(s, f, p) = Completed(s, Keyed(f, t.text), Values(s, p + 2))
      BY <2>1, <2>2, MembersUnfold
    <3> QED
      BY <2>1, <2>2, <3>1
  <2>3. CASE KindAt(s, p + 1) # ":"
    <3>1. Inside(s, f, p) = {}
      BY <2>1, <2>3, MembersUnfold
    <3> QED
      BY <2>3, <3>1 DEF Completed
  <2> QED
    BY <2>2, <2>3
<1> HIDE DEF new
<1>3. n - 1 \in Nat /\ n \in 0..n
  <2>1. Len(fs) \in Nat /\ Len(fs) > 0
    OBVIOUS
  <2> QED
    BY ONLY <2>1
<1>4. (\A k \in 0..n - 1 : V[k] = W[k]) /\ V[n] = new
  BY ONLY <1>3
<1> HIDE DEF V
<1>5. Linked(s, gs, V, n - 1)
  <2>1. \A k \in 1..n - 1 : gs[k] = fs[k]
    OBVIOUS
  <2> QED
    BY ONLY <1>1, <1>3, <1>4, <2>1, LinkedSame
<1>6. V[n - 1] = Completed(s, gs[n], V[n])
  <2>1. V[n - 1] = W[n - 1]
    BY ONLY <1>3, <1>4
  <2> QED
    BY <1>1, <1>2, <1>4, <2>1, Zenon
<1>7. Linked(s, gs, V, n)
  <2>1. \A k \in 1..n : k \in 1..n - 1 \/ k = n
    BY ONLY <1>3
  <2> QED
    BY ONLY <1>5, <1>6, <2>1 DEF Linked
<1>8. Fits(s, V, "colon", gs, h, p + 1)
  BY <1>4, <1>7 DEF Fits, new
<1> QED
  BY <1>8

LEMMA ColonFits ==
    ASSUME NEW s, NEW p, NEW t, At(s, p, t), NEW fs, NEW W, NEW h,
           Fits(s, W, "colon", fs, h, p), t.kind = ":"
    PROVE  \E V : Fits(s, V, "value", fs, h, p + 1)
<1>1. Linked(s, fs, W, Len(fs)) /\ W[Len(fs)] = Values(s, p + 1)
  BY DEF Fits, At
<1>2. Fits(s, W, "value", fs, h, p + 1)
  BY <1>1 DEF Fits
<1> QED
  BY <1>2

LEMMA CommaFits ==
    ASSUME NEW s, NEW p, NEW t, At(s, p, t), NEW fs, Len(fs) \in Nat, Len(fs) > 0, NEW W, NEW h,
           Fits(s, W, "after", fs, h, p), t.kind = ",", Holds(fs[Len(fs)])
    PROVE  /\ fs[Len(fs)].kind = "{" => \E V : Fits(s, V, "key", fs, h, p + 1)
           /\ fs[Len(fs)].kind # "{" => \E V : Fits(s, V, "value", fs, h, p + 1)
<1> DEFINE n == Len(fs)
           f == fs[n]
<1>1. Linked(s, fs, W, n - 1) /\ W[n - 1] = Ended(s, f, p)
  BY DEF Fits
<1>2. Ended(s, f, p) = Inside(s, f, p + 1)
  <2>1. KindAt(s, p) = "," /\ KindAt(s, p) # Closer(f)
    BY Zenon DEF At, Closer
  <2> QED
    BY <2>1, Zenon DEF Ended
<1>3. Fits(s, W, "key", fs, h, p + 1)
  BY <1>1, <1>2, Zenon DEF Fits
<1>4. ASSUME f.kind # "{" PROVE \E V : Fits(s, V, "value", fs, h, p + 1)
  <2>1. f.kind = "[" /\ p + 1 \in 1..Len(s) + 1 /\ s \in Seq(Token)
    <3>1. f.kind \in Openers
      BY DEF Holds, FrameOK
    <3>2. f.kind = "["
      BY <1>4, <3>1, Zenon DEF Openers
    <3>3. s \in Seq(Token) /\ p \in 1..Len(s)
      BY Zenon DEF At
    <3>4. p + 1 \in 1..Len(s) + 1
      BY ONLY <3>3, InText
    <3> QED
      BY <3>2, <3>3, <3>4
  <2>2. Inside(s, f, p + 1) = Completed(s, f, Values(s, p + 1))
    <3>1. Holds(f)
      OBVIOUS
    <3> HIDE DEF f
    <3> QED
      BY ONLY <2>1, <3>1, ItemsUnfold
  <2> DEFINE V == [k \in 0..n |-> IF k = n THEN Values(s, p + 1) ELSE W[k]]
  <2>3. n - 1 \in Nat /\ n \in 0..n
    <3>1. Len(fs) \in Nat /\ Len(fs) > 0
      OBVIOUS
    <3> QED
      BY ONLY <3>1
  <2>4. (\A k \in 0..n - 1 : V[k] = W[k]) /\ V[n] = Values(s, p + 1)
    BY ONLY <2>3
  <2> HIDE DEF V
  <2>5. Linked(s, fs, V, n - 1)
    BY ONLY <1>1, <2>3, <2>4, LinkedSame
  <2>6. V[n - 1] = Completed(s, f, V[n])
    BY ONLY <1>1, <1>2, <2>2, <2>3, <2>4
  <2>7. Linked(s, fs, V, n)
    <3>1. \A k \in 1..n : k \in 1..n - 1 \/ k = n
      BY ONLY <2>3
    <3> QED
      BY ONLY <2>5, <2>6, <3>1 DEF Linked
  <2>8. Fits(s, V, "value", fs, h, p + 1)
    BY <2>4, <2>7, Zenon DEF Fits
  <2> QED
    BY <2>8
<1> QED
  BY <1>3, <1>4

LEMMA CloseFits ==
    ASSUME NEW s, NEW p, NEW t, At(s, p, t), NEW fs, Len(fs) \in Nat, Len(fs) > 0, NEW m, NEW W, NEW h,
           Fits(s, W, m, fs, h, p), m \in {"first", "after"}, t.kind = Closer(fs[Len(fs)]),
           NEW gs, Len(gs) = Len(fs) - 1, \A k \in 1..Len(fs) - 1 : gs[k] = fs[k],
           NEW x, x = <<fs[Len(fs)].value>>
    PROVE  \E V : Fits(s, V, "place", gs, x, p + 1)
<1> DEFINE n == Len(fs)
           f == fs[n]
<1>1. Linked(s, fs, W, n - 1) /\ W[n - 1] = {<<f.value, p + 1>>}
  <2>1. KindAt(s, p) = Closer(f)
    BY DEF At
  <2>2. CASE m = "first"
    BY <2>1, <2>2 DEF Fits, First
  <2>3. CASE m = "after"
    BY <2>1, <2>3, Zenon DEF Fits, Ended
  <2> QED
    BY <2>2, <2>3
<1>2. Linked(s, gs, W, n - 1)
  <2>1. n - 1 \in Nat
    OBVIOUS
  <2> QED
    BY <1>1, <2>1, LinkedSame
<1>3. Fits(s, W, "place", gs, x, p + 1)
  BY <1>1, <1>2 DEF Fits
<1> QED
  BY <1>3

\* No token is looked at here.
LEMMA PlaceFits ==
    ASSUME NEW s, NEW p, NEW fs, Len(fs) \in Nat, Len(fs) > 0, NEW W, NEW h,
           Fits(s, W, "place", fs, h, p), FrameOK(fs[Len(fs)]),
           NEW gs, Len(gs) = Len(fs), \A k \in 1..Len(fs) - 1 : gs[k] = fs[k],
           gs[Len(fs)].kind = fs[Len(fs)].kind, gs[Len(fs)].value = Store(fs[Len(fs)], h[1]), NEW x
    PROVE  \E V : Fits(s, V, "after", gs, x, p)
<1> DEFINE n == Len(fs)
           f == fs[n]
           g == gs[n]
<1>1. Linked(s, fs, W, n) /\ W[n] = {<<h[1], p>>}
  BY DEF Fits
<1>2. n \in 1..n /\ n - 1 \in Nat
  OBVIOUS
<1>3. W[n - 1] = Completed(s, f, {<<h[1], p>>})
  BY <1>1, <1>2 DEF Linked
<1>4. Completed(s, f, {<<h[1], p>>}) = Ended(s, Stored(f, h[1]), p)
  BY DEF Completed
<1>5. Ended(s, Stored(f, h[1]), p) = Ended(s, g, p)
  <2> DEFINE c == Stored(f, h[1])
  <2>1. c.kind = g.kind /\ c.value = g.value /\ Closer(c) = Closer(f)
    BY StoredFacts
  <2>2. Closer(g) = Closer(f)
    BY DEF Closer
  <2> HIDE DEF c, g
  <2>3. \A r : Extended(c, r) = Extended(g, r)
    BY <2>1, Zenon DEF Extended
  <2>4. RestOf(c) = RestOf(g)
    BY <2>1, Zenon DEF RestOf
  <2>5. \A j : Inside(s, c, j) = Inside(s, g, j)
    BY ONLY <2>3, <2>4 DEF Inside
  <2> QED
    BY <2>1, <2>2, <2>5, Zenon DEF Ended, c, g
<1>6. Linked(s, gs, W, n - 1)
  <2>1. Linked(s, fs, W, n - 1)
    BY <1>1, <1>2 DEF Linked
  <2> QED
    BY <1>2, <2>1, LinkedSame
<1>7. Fits(s, W, "after", gs, x, p)
  BY <1>3, <1>4, <1>5, <1>6 DEF Fits
<1> QED
  BY <1>7

\* Nothing comes of a text with a token that no rule takes.
LEMMA NothingFits ==
    ASSUME NEW s \in Seq(Token), NEW p \in 1..Len(s) + 1, NEW fs, Len(fs) \in Nat, NEW m, NEW W, NEW h,
           Fits(s, W, m, fs, h, p),
           m # "value" => Len(fs) > 0 /\ Holds(fs[Len(fs)]),
           m \in {"key", "colon"} => fs[Len(fs)].kind = "{",
           \/ m = "value" /\ KindAt(s, p) \notin Openers \union ScalarKinds
           \/ m = "first" /\ fs[Len(fs)].kind = "[" /\ KindAt(s, p) \notin Openers \union ScalarKinds \union {"]"}
           \/ m = "first" /\ fs[Len(fs)].kind = "{" /\ KindAt(s, p) \notin {"str", "}"}
           \/ m = "key" /\ KindAt(s, p) # "str"
           \/ m = "colon" /\ KindAt(s, p) # ":"
           \/ m = "after" /\ KindAt(s, p) \notin {",", Closer(fs[Len(fs)])}
    PROVE  Values(s, 1) = {}
<1> DEFINE n == Len(fs)
           f == fs[n]
<1>0. s \in Seq(Token) /\ p \in 1..Len(s) + 1
  OBVIOUS
<1>1. ASSUME KindAt(s, p) \notin Openers \union ScalarKinds PROVE Values(s, p) = {}
  <2>1. KindAt(s, p) \notin ScalarKinds \cup {"[", "{"}
    BY <1>0, <1>1, Zenon DEF Openers
  <2> QED
    BY <2>1, ValueCases, Zenon DEF Values
<1>2. CASE Awaits(m, fs, KindAt(s, p)) /\ KindAt(s, p) \notin Openers \union ScalarKinds
  <2>1. \E V : Linked(s, fs, V, n) /\ V[n] = Values(s, p)
    <3>1. /\ Len(fs) \in Nat /\ Fits(s, W, m, fs, h, p) /\ Awaits(m, fs, KindAt(s, p))
      BY <1>0, <1>2, Zenon DEF Awaits
    <3> QED
      BY ONLY <1>0, <3>1, Due DEF Awaits
  <2> QED
    BY ONLY <1>1, <1>2, <2>1, Len(fs) \in Nat, LinkedEmpty
<1>3. CASE m # "value" /\ ~Awaits(m, fs, KindAt(s, p))
  <2>0. n - 1 \in Nat /\ Holds(f)
    <3>1. Len(fs) \in Nat /\ Len(fs) > 0 /\ Holds(f)
      BY <1>3, Zenon
    <3> QED
      BY ONLY <3>1
  <2>1. ASSUME m = "colon" PROVE Linked(s, fs, W, n) /\ W[n] = {}
    <3>1. KindAt(s, p) # ":"
      BY <1>0, <2>1, Zenon
    <3> QED
      BY <2>1, <3>1, Zenon DEF Fits
  <2>2. ASSUME f.kind = "{", KindAt(s, p) # "str" PROVE Inside(s, f, p) = {}
    BY ONLY <1>0, <2>0, <2>2, MembersUnfold
  <2>3. ASSUME m = "key" PROVE Linked(s, fs, W, n - 1) /\ W[n - 1] = {}
    BY <1>0, <2>2, <2>3, Zenon DEF Fits
  <2>4. ASSUME m = "first" PROVE Linked(s, fs, W, n - 1) /\ W[n - 1] = {}
    <3>1. f.kind # "["
      BY <1>0, <1>3, <2>0, <2>4, Zenon DEF Awaits
    <3>2. f.kind = "{" /\ KindAt(s, p) # "str" /\ KindAt(s, p) # "}"
      BY <1>0, <2>4, <3>1, Zenon
    <3>3. First(s, f, p) = Inside(s, f, p)
      BY <3>2, Zenon DEF First, Closer
    <3> QED
      BY <2>2, <2>4, <3>2, <3>3, Zenon DEF Fits
  <2>5. ASSUME m = "after" PROVE Linked(s, fs, W, n - 1) /\ W[n - 1] = {}
    <3>1. KindAt(s, p) # "," /\ KindAt(s, p) # Closer(f)
      BY <1>0, <2>5, Zenon
    <3>2. Ended(s, f, p) = {}
      BY <3>1, Zenon DEF Ended
    <3> QED
      BY <2>5, <3>2, Zenon DEF Fits
  <2>6. \E k \in Nat : Linked(s, fs, W, k) /\ W[k] = {}
    BY <1>3, <2>0, <2>1, <2>3, <2>4, <2>5, Len(fs) \in Nat, Zenon
  <2> QED
    BY ONLY <2>6, LinkedEmpty
<1>4. m = "value" => Awaits(m, fs, KindAt(s, p))
  BY Zenon DEF Awaits
<1>5. Awaits(m, fs, KindAt(s, p)) => KindAt(s, p) \notin Openers \union ScalarKinds
  BY Zenon DEF Awaits
<1> QED
  BY <1>2, <1>3, <1>4, <1>5, Zenon

-----------------------------------------------------------------------------
(* The parse as the grammar has it.                                          *)

\* Whatever follows, the text means what the rest of it makes of the calls under way.
Understood ==
    \A rest \in Seq(Token) :
        \E W : Fits(read \o rest, W, mode, frames, hand, Len(read) + 1)

\* The value in hand is that of the text up to its end.
WholeInHand ==
    mode = "tail" =>
        \A rest \in Seq(Token) : Values(read \o rest, 1) = {<<hand[1], Len(read) + 1>>}

(* A syntax error is reported only for a text of which no continuation at all *)
(* is JSON.                                                                  *)
RejectedForGood ==
    cause = "syntax" => \A rest \in Seq(Token) : ~IsJson(read \o rest)

MInv ==
    /\ IInv
    /\ read \in Seq(Token)
    /\ \A i \in DOMAIN frames : Holds(frames[i])
    /\ mode \in {"key", "colon"} => Top.kind = "{"
    /\ mode \notin {"release", "done"} => outcome = "none"
    /\ Understood
    /\ WholeInHand
    /\ AcceptedMeansJson
    /\ RejectedForGood

LEMMA CallFacts ==
    ASSUME MInv
    PROVE  /\ Stack(frames) /\ Len(frames) \in Nat /\ DOMAIN frames = 1..Len(frames)
           /\ Len(read) \in Nat /\ Len(read) + 1 \in Nat
           /\ frames # <<>> => Len(frames) > 0 /\ Holds(Top) /\ FrameOK(Top)
           /\ frames = <<>> => Len(frames) = 0
<1>1. Stack(frames) /\ Len(frames) \in Nat /\ DOMAIN frames = 1..Len(frames)
  BY Counts, CountType DEF MInv
<1>2. ASSUME frames # <<>> PROVE Len(frames) > 0 /\ Holds(Top) /\ FrameOK(Top)
  <2>1. Len(frames) > 0
    BY <1>1, <1>2, PopFacts
  <2>2. Len(frames) \in DOMAIN frames
    BY <1>1, <2>1
  <2> QED
    BY <2>1, <2>2 DEF MInv, Holds, Top
<1>3. Len(read) \in Nat /\ Len(read) + 1 \in Nat
  <2>1. read \in Seq(Token)
    BY DEF MInv
  <2> QED
    BY ONLY <2>1
<1> QED
  BY <1>1, <1>2, <1>3

LEMMA NoMeaning ==
    ASSUME NEW s
    PROVE  /\ Values(s, 1) = {} => Meanings(s) = {}
           /\ \A v, n : Values(s, 1) = {<<v, n>>} /\ (n # Len(s) \/ KindAt(s, n) # "end") => Meanings(s) = {}
           /\ \A v, n : Values(s, 1) = {<<v, n>>} /\ n = Len(s) /\ KindAt(s, n) = "end" => Meanings(s) = {v}
<1> DEFINE E == {w \in Values(s, 1) : w[2] = Len(s) /\ KindAt(s, w[2]) = "end"}
<1>1. Meanings(s) = {v[1] : v \in E}
  BY DEF Meanings, Values
<1>2. Values(s, 1) = {} => E = {}
  OBVIOUS
<1>3. \A v, n : Values(s, 1) = {<<v, n>>} /\ (n # Len(s) \/ KindAt(s, n) # "end") => E = {}
  OBVIOUS
<1>4. \A v, n : Values(s, 1) = {<<v, n>>} /\ n = Len(s) /\ KindAt(s, n) = "end" => E = {<<v, n>>}
  OBVIOUS
<1> HIDE DEF E
<1>5. \A v, n : E = {<<v, n>>} => Meanings(s) = {v}
  BY <1>1
<1>6. E = {} => Meanings(s) = {}
  BY <1>1
<1> QED
  BY <1>2, <1>3, <1>4, <1>5, <1>6

\* A token more does not change what comes of the text that follows.
LEMMA RejectedLonger ==
    ASSUME NEW r \in Seq(Token), NEW t \in Token, \A rest \in Seq(Token) : ~IsJson(r \o rest)
    PROVE  \A rest \in Seq(Token) : ~IsJson(Append(r, t) \o rest)
<1>1. ASSUME NEW rest \in Seq(Token) PROVE ~IsJson(Append(r, t) \o rest)
  <2>1. PICK more \in Seq(Token) : Append(r, t) \o rest = r \o more
    BY NextToken
  <2> QED
    BY <2>1
<1> QED
  BY <1>1

\* A step that looks at a token which a rule takes, or that fails otherwise.
LEMMA LookStep ==
    ASSUME MInv, IInv', NEW t \in Token, read' = Append(read, t),
           \A i \in DOMAIN frames' : Holds(frames'[i]),
           mode' \in {"key", "colon"} => Top'.kind = "{",
           mode' \notin {"tail", "release", "done"}, mode \notin {"tail", "release", "done"},
           outcome' = outcome, cause' = "syntax" => cause = "syntax",
           \A s, W : At(s, Len(read) + 1, t) /\ Fits(s, W, mode, frames, hand, Len(read) + 1)
                       => \E V : Fits(s, V, mode', frames', hand', Len(read) + 1 + 1)
    PROVE  MInv'
<1>1. read \in Seq(Token) /\ read' \in Seq(Token) /\ Len(read') = Len(read) + 1
  <2>1. read \in Seq(Token)
    BY DEF MInv
  <2>2. t \in Token /\ read' = Append(read, t)
    OBVIOUS
  <2> QED
    BY ONLY <2>1, <2>2
<1>2. outcome = "none" /\ outcome' = "none"
  BY DEF MInv
<1>3. Understood'
  <2> SUFFICES ASSUME NEW rest \in Seq(Token)
               PROVE  \E V : Fits(read' \o rest, V, mode', frames', hand', Len(read') + 1)
    BY DEF Understood
  <2>1. At(read' \o rest, Len(read) + 1, t)
    BY <1>1, NextToken
  <2>2. PICK more \in Seq(Token) : read' \o rest = read \o more
    <3>1. read' = Append(read, t) /\ t \in Token /\ rest \in Seq(Token)
      OBVIOUS
    <3> QED
      BY ONLY <1>1, <3>1, NextToken
  <2>3. \E W : Fits(read \o more, W, mode, frames, hand, Len(read) + 1)
    BY DEF MInv, Understood
  <2>4. \E V : Fits(read' \o rest, V, mode', frames', hand', Len(read) + 1 + 1)
    BY <2>1, <2>2, <2>3
  <2> QED
    BY <1>1, <2>4
<1>4. WholeInHand' /\ AcceptedMeansJson'
  BY <1>2, Zenon DEF WholeInHand, AcceptedMeansJson
<1>5. RejectedForGood'
  BY <1>1, RejectedLonger DEF MInv, RejectedForGood
<1> QED
  BY <1>1, <1>2, <1>3, <1>4, <1>5 DEF MInv

\* A failure that is no syntax error.
LEMMA FailedLook ==
    ASSUME MInv, IInv', NEW t \in Token, read' = Append(read, t), frames' = frames,
           mode \notin {"tail", "release", "done"}, NEW e, NEW py, NEW why, why # "syntax", Failed(e, py, why)
    PROVE  MInv'
<1>1. mode' = "unwind" /\ outcome' = outcome /\ cause' # "syntax"
  BY DEF Failed
<1>2. \A s, W : Fits(s, W, mode', frames', hand', Len(read) + 1 + 1)
  BY <1>1 DEF Fits
<1>3. \A i \in DOMAIN frames' : Holds(frames'[i])
  BY DEF MInv
<1> QED
  BY <1>1, <1>2, <1>3, LookStep

LEMMA WantedFacts ==
    ASSUME MInv, NEW t
    PROVE  /\ WantsValue /\ t.kind # "]" => Awaits(mode, frames, t.kind)
           /\ WantsKey => frames # <<>> /\ Top.kind = "{" /\ mode \in {"key", "first"}
           /\ WantsValue \/ WantsKey => mode \notin {"tail", "release", "done"}
<1>1. WantsValue /\ t.kind # "]" => Awaits(mode, frames, t.kind)
  BY CallFacts, Zenon DEF WantsValue, InArray, Awaits, Top
<1>2. WantsKey => frames # <<>> /\ Top.kind = "{" /\ mode \in {"key", "first"}
  BY DEF WantsKey, InObject, MInv, IInv, InStep
<1> QED
  BY <1>1, <1>2 DEF WantsValue, WantsKey

LEMMA MeansNumber ==
    ASSUME MInv, IInv', NEW t \in Token, read' = Append(read, t), Number(t)
    PROVE  MInv'
<1>1. WantsValue /\ t.kind \in ScalarKinds /\ t.kind # "]" /\ frames' = frames
  BY DEF Number, ScalarKinds
<1>2. mode \notin {"tail", "release", "done"} /\ Awaits(mode, frames, t.kind)
  BY <1>1, WantedFacts
<1>3. CASE hand' = <<Atom(t)>> /\ mode' = "place" /\ Unharmed
  <2>1. \A s, W : At(s, Len(read) + 1, t) /\ Fits(s, W, mode, frames, hand, Len(read) + 1)
                    => \E V : Fits(s, V, mode', frames', hand', Len(read) + 1 + 1)
    BY <1>1, <1>2, <1>3, CallFacts, ScalarFits
  <2>2. \A i \in DOMAIN frames' : Holds(frames'[i])
    BY <1>1 DEF MInv
  <2> QED
    BY <1>2, <1>3, <2>1, <2>2, LookStep DEF Unharmed
<1>4. CASE Failed(0, TRUE, "memory")
  BY <1>1, <1>2, <1>4, FailedLook
<1> QED
  BY <1>3, <1>4 DEF Number

LEMMA MeansString ==
    ASSUME MInv, IInv', NEW t \in Token, read' = Append(read, t), StringValue(t)
    PROVE  MInv'
<1>1. WantsValue /\ t.kind \in ScalarKinds /\ t.kind # "]" /\ t.text \in Texts
  BY DEF StringValue, ScalarKinds, Token, Punctuation, Openers
<1>2. mode \notin {"tail", "release", "done"} /\ Awaits(mode, frames, t.kind)
  BY <1>1, WantedFacts
<1>3. CASE StringFails
  <2>1. PICK e : Failed(e, FALSE, "memory")
    BY <1>3 DEF StringFails
  <2> QED
    BY <1>2, <1>3, <2>1, FailedLook DEF StringFails
<1>4. CASE /\ hand' = <<Atom([t EXCEPT !.text = TextOf(t.text, FALSE)])>>
           /\ String(t.text, FALSE) /\ mode' = "place" /\ Unharmed /\ frames' = frames
  <2>1. TextOf(t.text, FALSE) = t.text
    BY <1>1, <1>4, StringFacts DEF MInv
  <2>2. [t EXCEPT !.text = t.text] = t
    BY DEF Token
  <2>3. hand' = <<Atom(t)>>
    BY <1>4, <2>1, <2>2
  <2>4. \A s, W : At(s, Len(read) + 1, t) /\ Fits(s, W, mode, frames, hand, Len(read) + 1)
                    => \E V : Fits(s, V, mode', frames', hand', Len(read) + 1 + 1)
    BY <1>1, <1>2, <1>4, <2>3, CallFacts, ScalarFits
  <2>5. \A i \in DOMAIN frames' : Holds(frames'[i])
    BY <1>4 DEF MInv
  <2> QED
    BY <1>2, <1>4, <2>4, <2>5, LookStep DEF Unharmed
<1> QED
  BY <1>3, <1>4 DEF StringValue

LEMMA MeansOpen ==
    ASSUME MInv, IInv', NEW t \in Token, read' = Append(read, t), Open(t)
    PROVE  MInv'
<1>1. WantsValue /\ t.kind \in Openers /\ t.kind # "]" /\ hand' = hand
  BY DEF Open, Openers
<1>2. mode \notin {"tail", "release", "done"} /\ Awaits(mode, frames, t.kind)
  BY <1>1, WantedFacts
<1>3. CASE frames' = Append(frames, NewCall(t.kind)) /\ mode' = "first" /\ Unharmed
  <2>1. Holds(NewCall(t.kind)) /\ FrameOK(NewCall(t.kind))
    BY <1>1, NewCallHolds DEF Holds
  <2>2. /\ Len(frames') = Len(frames) + 1 /\ frames'[Len(frames) + 1] = NewCall(t.kind)
        /\ DOMAIN frames' = 1..Len(frames')
    BY <1>3, <2>1, CallFacts, PushFacts, CountType
  <2>3. \A k \in 1..Len(frames) : frames'[k] = frames[k]
    BY <1>3, <2>1, CallFacts, PushBelow
  <2>4. \A s, W : At(s, Len(read) + 1, t) /\ Fits(s, W, mode, frames, hand, Len(read) + 1)
                    => \E V : Fits(s, V, mode', frames', hand', Len(read) + 1 + 1)
    BY <1>1, <1>2, <1>3, <2>2, <2>3, CallFacts, OpenFits
  <2>5. ASSUME NEW i \in DOMAIN frames' PROVE Holds(frames'[i])
    <3>1. i \in 1..Len(frames) \/ i = Len(frames) + 1
      BY <2>2, <2>5, CallFacts
    <3> QED
      BY <2>1, <2>2, <2>3, <3>1, CallFacts DEF MInv
  <2> QED
    BY <1>2, <1>3, <2>4, <2>5, LookStep DEF Unharmed
<1>4. CASE Failed(-1, TRUE, "memory") /\ frames' = frames
  BY <1>2, <1>4, FailedLook
<1> QED
  BY <1>3, <1>4 DEF Open, NewCall

LEMMA MeansKey ==
    ASSUME MInv, IInv', NEW t \in Token, read' = Append(read, t), Key(t)
    PROVE  MInv'
<1>1. WantsKey /\ t.kind = "str" /\ t.text \in Texts
  BY DEF Key, Token, Punctuation, Openers
<1>2. /\ mode \notin {"tail", "release", "done"} /\ mode \in {"key", "first"}
      /\ frames # <<>> /\ Top.kind = "{"
  BY <1>1, WantedFacts
<1>3. CASE StringFails
  <2>1. PICK e : Failed(e, FALSE, "memory")
    BY <1>3 DEF StringFails
  <2> QED
    BY <1>2, <1>3, <2>1, FailedLook DEF StringFails
<1>4. CASE /\ frames' = Append(Below, [Top EXCEPT !.key = <<TextOf(t.text, TRUE)>>])
           /\ String(t.text, TRUE) /\ mode' = "colon" /\ Unharmed /\ hand' = hand
  <2> DEFINE f == Keyed(Top, t.text)
  <2>1. frames' = Append(Below, f)
    <3>1. TextOf(t.text, TRUE) = t.text
      BY <1>1, <1>4, StringFacts DEF MInv
    <3> QED
      BY <1>4, <3>1 DEF Keyed
  <2>2. Holds(f) /\ f.kind = "{" /\ FrameOK(f)
    <3>1. Holds(Top)
      BY <1>2, CallFacts
    <3> QED
      BY <1>1, <1>2, <3>1, KeyedFacts DEF Holds
  <2> HIDE DEF f
  <2>3. /\ Len(frames') = Len(frames) /\ frames'[Len(frames)] = f /\ DOMAIN frames' = 1..Len(frames)
        /\ \A k \in 1..Len(frames) - 1 : frames'[k] = frames[k]
    <3>1. /\ Stack(frames) /\ frames # <<>> /\ FrameOK(f)
          /\ frames' = Swapped(frames, f)
      BY <1>2, <2>1, <2>2, CallFacts DEF Below, Swapped
    <3> QED
      BY ONLY <3>1, SwapBelow
  <2>4. \A s, W : At(s, Len(read) + 1, t) /\ Fits(s, W, mode, frames, hand, Len(read) + 1)
                    => \E V : Fits(s, V, mode', frames', hand', Len(read) + 1 + 1)
    BY <1>1, <1>2, <1>4, <2>3, CallFacts, KeyFits DEF Top, f
  <2>5. ASSUME NEW i \in DOMAIN frames' PROVE Holds(frames'[i])
    <3>1. i \in 1..Len(frames) - 1 \/ i = Len(frames)
      BY <2>3, <2>5, CallFacts
    <3>2. i \in DOMAIN frames
      BY <2>3, <2>5, CallFacts
    <3> QED
      BY <2>2, <2>3, <3>1, <3>2 DEF MInv
  <2>6. Top'.kind = "{"
    BY <2>2, <2>3 DEF Top
  <2> QED
    BY <1>2, <1>4, <2>4, <2>5, <2>6, LookStep DEF Unharmed
<1> QED
  BY <1>3, <1>4 DEF Key

LEMMA MeansColon ==
    ASSUME MInv, IInv', NEW t \in Token, read' = Append(read, t), Colon(t)
    PROVE  MInv'
<1>1. mode = "colon" /\ t.kind = ":" /\ mode' = "value" /\ Unharmed /\ UNCHANGED <<frames, hand>>
  BY DEF Colon
<1>2. \A s, W : At(s, Len(read) + 1, t) /\ Fits(s, W, mode, frames, hand, Len(read) + 1)
                  => \E V : Fits(s, V, mode', frames', hand', Len(read) + 1 + 1)
  BY <1>1, ColonFits
<1>3. \A i \in DOMAIN frames' : Holds(frames'[i])
  BY <1>1 DEF MInv
<1> QED
  BY <1>1, <1>2, <1>3, LookStep DEF Unharmed

LEMMA MeansComma ==
    ASSUME MInv, IInv', NEW t \in Token, read' = Append(read, t), Comma(t)
    PROVE  MInv'
<1>1. /\ mode = "after" /\ t.kind = "," /\ Unharmed /\ UNCHANGED <<frames, hand>>
      /\ mode' = IF InObject THEN "key" ELSE "value"
  BY Zenon DEF Comma
<1>2. frames # <<>>
  BY <1>1 DEF MInv, IInv, InStep
<1>3. Len(frames) > 0 /\ Len(frames) \in Nat /\ Holds(Top)
  BY <1>2, CallFacts
<1>4. \A s, W : At(s, Len(read) + 1, t) /\ Fits(s, W, mode, frames, hand, Len(read) + 1)
                  => \E V : Fits(s, V, mode', frames', hand', Len(read) + 1 + 1)
  <2> SUFFICES ASSUME NEW s, NEW W, At(s, Len(read) + 1, t), Fits(s, W, mode, frames, hand, Len(read) + 1)
               PROVE  \E V : Fits(s, V, mode', frames', hand', Len(read) + 1 + 1)
    OBVIOUS
  <2>1. /\ Top.kind = "{" => \E V : Fits(s, V, "key", frames, hand, Len(read) + 1 + 1)
        /\ Top.kind # "{" => \E V : Fits(s, V, "value", frames, hand, Len(read) + 1 + 1)
    BY <1>1, <1>3, CommaFits, Zenon DEF Top
  <2> QED
    BY <1>1, <1>2, <2>1, Zenon DEF InObject
<1>5. \A i \in DOMAIN frames' : Holds(frames'[i])
  BY <1>1 DEF MInv
<1>6. /\ mode' \in {"key", "value"} /\ mode = "after" /\ (mode' = "key" => Top'.kind = "{")
      /\ outcome' = outcome /\ cause' = cause
  BY <1>1, Zenon DEF Top, InObject, Unharmed
<1>7. mode' \in {"key", "colon"} => Top'.kind = "{"
  BY ONLY <1>6
<1>8. mode' \notin {"tail", "release", "done"} /\ mode \notin {"tail", "release", "done"}
  BY ONLY <1>6
<1>9. read' = Append(read, t) /\ t \in Token /\ MInv /\ IInv'
  OBVIOUS
<1> QED
  BY ONLY <1>4, <1>5, <1>6, <1>7, <1>8, <1>9, LookStep

LEMMA MeansClose ==
    ASSUME MInv, IInv', NEW t \in Token, read' = Append(read, t), Close(t)
    PROVE  MInv'
<1>1. /\ mode \in {"first", "after"} /\ hand' = <<Top.value>> /\ frames' = Below /\ mode' = "place"
      /\ Unharmed /\ t.kind = IF InObject THEN "}" ELSE "]"
  BY DEF Close
<1>2. frames # <<>> /\ Len(frames) > 0 /\ t.kind = Closer(Top)
  BY <1>1, CallFacts DEF MInv, IInv, InStep, InObject, Closer
<1>3. Stack(Below) /\ Len(frames') = Len(frames) - 1 /\ DOMAIN frames' = 1..Len(frames')
  BY <1>1, <1>2, CallFacts, PopFacts, CountType DEF Below
<1>4. \A k \in 1..Len(frames) - 1 : frames'[k] = frames[k]
  BY <1>1, <1>2, CallFacts, PopBelow DEF Below
<1>5. \A s, W : At(s, Len(read) + 1, t) /\ Fits(s, W, mode, frames, hand, Len(read) + 1)
                  => \E V : Fits(s, V, mode', frames', hand', Len(read) + 1 + 1)
  BY <1>1, <1>2, <1>3, <1>4, CallFacts, CloseFits DEF Top
<1>6. ASSUME NEW i \in DOMAIN frames' PROVE Holds(frames'[i])
  <2>1. i \in 1..Len(frames) - 1 /\ i \in DOMAIN frames
    BY <1>3, <1>6, CallFacts
  <2> QED
    BY <1>4, <2>1 DEF MInv
<1> QED
  BY <1>1, <1>5, <1>6, LookStep DEF Unharmed

LEMMA MeansTooDeep ==
    ASSUME MInv, IInv', NEW t \in Token, read' = Append(read, t), TooDeep(t)
    PROVE  MInv'
<1>1. WantsValue /\ frames' = frames /\ Failed(-2, FALSE, "depth")
  BY DEF TooDeep
<1> QED
  BY <1>1, WantedFacts, FailedLook

LEMMA MeansSyntaxError ==
    ASSUME MInv, IInv', NEW t \in Token, read' = Append(read, t), SyntaxError(t)
    PROVE  MInv'
<1>1. /\ mode' = "unwind" /\ outcome' = outcome /\ UNCHANGED <<frames, hand>>
  BY DEF SyntaxError, Failed
<1>2. /\ mode \in {"value", "first", "key", "colon", "after"}
      /\ mode # "value" => frames # <<>>
  <2>1. mode \in {"value", "first", "key", "colon", "after"}
    BY Zenon DEF SyntaxError
  <2>2. mode \in {"first", "key", "colon", "after"} => frames # <<>>
    BY Zenon DEF MInv, IInv, InStep
  <2> QED
    BY <2>1, <2>2, Zenon
<1>3. mode # "value" => Len(frames) > 0 /\ Holds(Top)
  BY <1>2, CallFacts, Zenon
<1>4. mode \in {"key", "colon"} => Top.kind = "{"
  BY Zenon DEF MInv
<1>5. \/ mode = "value" /\ t.kind \notin Openers \union ScalarKinds
      \/ mode = "first" /\ Top.kind = "[" /\ t.kind \notin Openers \union ScalarKinds \union {"]"}
      \/ mode = "first" /\ Top.kind = "{" /\ t.kind \notin {"str", "}"}
      \/ mode = "key" /\ t.kind # "str"
      \/ mode = "colon" /\ t.kind # ":"
      \/ mode = "after" /\ t.kind \notin {",", Closer(Top)}
  <2>1. mode = "after" => Closer(Top) = IF InObject THEN "}" ELSE "]"
    BY <1>2, Zenon DEF InObject, Closer
  <2> QED
    BY <2>1, Zenon DEF SyntaxError, InArray, InObject
<1>6. ASSUME NEW rest \in Seq(Token) PROVE ~IsJson(read' \o rest)
  <2> DEFINE s == read' \o rest
  <2>0. read \in Seq(Token) /\ t \in Token /\ read' = Append(read, t)
    BY Zenon DEF MInv
  <2>1. At(s, Len(read) + 1, t)
    BY ONLY <1>6, <2>0, NextToken
  <2>2. PICK more \in Seq(Token) : s = read \o more
    BY ONLY <1>6, <2>0, NextToken
  <2>3. PICK W : Fits(read \o more, W, mode, frames, hand, Len(read) + 1)
    BY Zenon DEF MInv, Understood
  <2>4. Fits(s, W, mode, frames, hand, Len(read) + 1)
    BY <2>2, <2>3, Zenon
  <2> HIDE DEF s
  <2>5. Values(s, 1) = {}
    <3>1. Len(frames) \in Nat
      BY CallFacts
    <3>2. s \in Seq(Token) /\ Len(read) + 1 \in 1..Len(s) + 1 /\ KindAt(s, Len(read) + 1) = t.kind
      <4>1. s \in Seq(Token) /\ Len(read) + 1 \in 1..Len(s) /\ KindAt(s, Len(read) + 1) = t.kind
        BY <2>1, Zenon DEF At
      <4> QED
        BY ONLY <4>1, InText
    <3> QED
      BY ONLY <1>3, <1>4, <1>5, <2>4, <3>1, <3>2, NothingFits, Zenon DEF Top
  <2> QED
    BY <2>5, NoMeaning, Zenon DEF IsJson, s
<1>7. read' \in Seq(Token)
  <2>1. read \in Seq(Token) /\ t \in Token /\ read' = Append(read, t)
    BY Zenon DEF MInv
  <2> QED
    BY ONLY <2>1
<1>8. outcome = "none"
  <2>1. mode \notin {"release", "done"}
    BY ONLY <1>2
  <2> QED
    BY <2>1, Zenon DEF MInv
<1>9. Understood' /\ WholeInHand' /\ AcceptedMeansJson' /\ RejectedForGood'
  <2>1. Understood'
    <3>1. \A s, W : Fits(s, W, mode', frames', hand', Len(read') + 1)
      BY ONLY <1>1 DEF Fits
    <3> QED
      BY <3>1, Zenon DEF Understood
  <2>2. WholeInHand' /\ AcceptedMeansJson'
    <3>1. mode' # "tail" /\ outcome' # "value"
      BY ONLY <1>1, <1>8
    <3> QED
      BY <3>1, Zenon DEF WholeInHand, AcceptedMeansJson
  <2> QED
    BY <1>6, <2>1, <2>2, Zenon DEF RejectedForGood
<1>10. \A i \in DOMAIN frames' : Holds(frames'[i])
  BY <1>1, Zenon DEF MInv
<1>11. mode' \notin {"key", "colon"} /\ outcome' = "none"
  BY ONLY <1>1, <1>8
<1> QED
  BY <1>7, <1>9, <1>10, <1>11, Zenon DEF MInv

LEMMA MeansAfterValue ==
    ASSUME MInv, IInv', NEW t \in Token, read' = Append(read, t), AfterValue(t)
    PROVE  MInv'
<1>0. read \in Seq(Token) /\ read' \in Seq(Token) /\ Len(read') = Len(read) + 1 /\ Len(read) \in Nat
  <2>1. read \in Seq(Token) /\ t \in Token /\ read' = Append(read, t)
    BY DEF MInv
  <2> QED
    BY ONLY <2>1
<1>1. mode = "tail" /\ frames' = frames /\ frames = <<>> /\ outcome = "none"
  BY DEF AfterValue, MInv, IInv, InStep
<1>2. ASSUME NEW rest \in Seq(Token)
      PROVE  /\ At(read' \o rest, Len(read) + 1, t)
             /\ Values(read' \o rest, 1) = {<<hand[1], Len(read) + 1>>}
  <2>1. read' = Append(read, t) /\ t \in Token /\ rest \in Seq(Token)
    OBVIOUS
  <2>2. PICK more \in Seq(Token) : read' \o rest = read \o more
    BY ONLY <1>0, <2>1, NextToken
  <2>3. At(read' \o rest, Len(read) + 1, t)
    BY ONLY <1>0, <2>1, NextToken
  <2>4. Values(read \o more, 1) = {<<hand[1], Len(read) + 1>>}
    BY <1>1 DEF MInv, WholeInHand
  <2> QED
    BY ONLY <2>2, <2>3, <2>4
<1>3. CASE t.kind = "end" /\ mode' = "release" /\ outcome' = "value" /\ UNCHANGED <<hand, cause>>
  <2>1. read' \o <<>> = read' /\ <<>> \in Seq(Token)
    BY <1>0
  <2>2. At(read', Len(read) + 1, t) /\ Values(read', 1) = {<<hand[1], Len(read) + 1>>}
    BY <1>2, <2>1
  <2>3. Meanings(read') = {hand[1]}
    BY <1>0, <1>3, <2>2, NoMeaning DEF At
  <2>4. Understood' /\ WholeInHand' /\ AcceptedMeansJson'
    BY <1>3, <2>3 DEF Understood, Fits, WholeInHand, AcceptedMeansJson
  <2>5. RejectedForGood'
    BY <1>0, <1>3, RejectedLonger DEF MInv, RejectedForGood
  <2> QED
    BY <1>0, <1>1, <1>3, <2>4, <2>5 DEF MInv
<1>4. CASE t.kind # "end" /\ mode' = "report" /\ outcome' = outcome
  <2>1. ASSUME NEW rest \in Seq(Token) PROVE ~IsJson(read' \o rest)
    <3>1. At(read' \o rest, Len(read) + 1, t) /\ Values(read' \o rest, 1) = {<<hand[1], Len(read) + 1>>}
      BY <1>2
    <3>2. Meanings(read' \o rest) = {}
      BY <1>4, <3>1, NoMeaning DEF At
    <3> QED
      BY <3>2 DEF IsJson
  <2>2. Understood' /\ WholeInHand' /\ AcceptedMeansJson'
    BY <1>1, <1>4 DEF Understood, Fits, WholeInHand, AcceptedMeansJson
  <2> QED
    BY <1>0, <1>1, <1>4, <2>1, <2>2 DEF MInv, RejectedForGood
<1> QED
  BY <1>3, <1>4 DEF AfterValue

-----------------------------------------------------------------------------
(* The steps that look at no token. *)

LEMMA MeansPlace == ASSUME MInv, IInv', Place PROVE MInv'
<1>1. PICK stored \in BOOLEAN :
        /\ frames' = Append(Below, [Top EXCEPT !.key = <<>>,
                                               !.value = IF stored THEN Store(Top, hand[1]) ELSE @])
        /\ IF stored THEN mode' = "after" /\ Unharmed ELSE Failed(-1, TRUE, "memory")
  BY DEF Place
<1>2. mode = "place" /\ frames # <<>> /\ UNCHANGED read
  BY DEF Place
<1>3. Holds(Top) /\ FrameOK(Top) /\ Len(frames) > 0
  BY <1>2, CallFacts
<1> DEFINE f == [Top EXCEPT !.key = <<>>, !.value = IF stored THEN Store(Top, hand[1]) ELSE @]
<1>4. /\ FrameOK(f) /\ f.kind = Top.kind
      /\ f.value = IF stored THEN Stored(Top, hand[1]).value ELSE Top.value
  BY <1>3, StoredFacts DEF FrameOK, AtMostOne
<1>5. Holds(f)
  <2>1. Holds(Stored(Top, hand[1])) /\ Stored(Top, hand[1]).kind = Top.kind
    BY <1>3, StoredHolds, StoredFacts
  <2> HIDE DEF f
  <2> QED
    BY <1>3, <1>4, <2>1, Zenon DEF Holds
<1>6. frames' = Append(Below, f)
  BY <1>1
<1> HIDE DEF f
<1>7. /\ Len(frames') = Len(frames) /\ frames'[Len(frames)] = f /\ DOMAIN frames' = 1..Len(frames)
      /\ \A k \in 1..Len(frames) - 1 : frames'[k] = frames[k]
  <2>1. /\ Stack(frames) /\ frames # <<>> /\ FrameOK(f)
        /\ frames' = Swapped(frames, f)
    BY <1>2, <1>4, <1>6, CallFacts DEF Below, Swapped
  <2> QED
    BY ONLY <2>1, SwapBelow
<1>8. ASSUME NEW i \in DOMAIN frames' PROVE Holds(frames'[i])
  <2>1. i \in 1..Len(frames) - 1 \/ i = Len(frames)
    BY <1>7, <1>8, CallFacts
  <2>2. i \in DOMAIN frames
    BY <1>7, <1>8, CallFacts
  <2> QED
    BY <1>5, <1>7, <2>1, <2>2 DEF MInv
<1>9. Understood'
  <2>1. CASE stored
    <3> SUFFICES ASSUME NEW rest \in Seq(Token)
                 PROVE  \E V : Fits(read \o rest, V, "after", frames', hand', Len(read) + 1)
      BY <1>1, <1>2, <2>1 DEF Understood
    <3>1. PICK W : Fits(read \o rest, W, "place", frames, hand, Len(read) + 1)
      BY <1>2 DEF MInv, Understood
    <3>2. f.value = Store(Top, hand[1])
      BY <1>3, <1>4, <2>1, StoredFacts
    <3> QED
      BY <1>3, <1>4, <1>7, <3>1, <3>2, CallFacts, PlaceFits DEF Top
  <2>2. CASE ~stored
    BY <1>1, <2>2 DEF Understood, Fits, Failed
  <2> QED
    BY <2>1, <2>2
<1>10. /\ mode' \in {"after", "unwind"} /\ outcome' = outcome /\ (cause' = "syntax" => cause = "syntax")
  BY <1>1 DEF Unharmed, Failed
<1>11. outcome = "none"
  BY <1>2 DEF MInv
<1>12. WholeInHand' /\ AcceptedMeansJson' /\ RejectedForGood'
  BY <1>2, <1>10, <1>11 DEF MInv, WholeInHand, AcceptedMeansJson, RejectedForGood
<1> QED
  BY <1>2, <1>8, <1>9, <1>10, <1>11, <1>12 DEF MInv

LEMMA MeansUnwind == ASSUME MInv, IInv', Unwind PROVE MInv'
<1>1. /\ mode = "unwind" /\ frames # <<>> /\ frames' = Below
      /\ UNCHANGED <<read, mode, hand, cause, outcome>>
  BY DEF Unwind
<1>2. Stack(Below) /\ Len(frames') = Len(frames) - 1 /\ DOMAIN frames' = 1..Len(frames')
  BY <1>1, CallFacts, PopFacts, CountType DEF Below
<1>3. ASSUME NEW i \in DOMAIN frames' PROVE Holds(frames'[i])
  <2>1. i \in 1..Len(frames) - 1 /\ i \in DOMAIN frames
    BY <1>2, <1>3, CallFacts
  <2>2. frames'[i] = frames[i]
    BY <1>1, <2>1, CallFacts, PopBelow DEF Below
  <2> QED
    BY <2>1, <2>2 DEF MInv
<1>4. Understood' /\ WholeInHand' /\ AcceptedMeansJson' /\ RejectedForGood'
  BY <1>1 DEF MInv, Understood, Fits, WholeInHand, AcceptedMeansJson, RejectedForGood
<1> QED
  BY <1>1, <1>3, <1>4 DEF MInv

LEMMA MeansDropInput == ASSUME MInv, IInv', DropInput PROVE MInv'
<1>1. /\ mode \in {"place", "unwind"} /\ frames = <<>>
      /\ mode' = IF mode = "place" THEN "tail" ELSE "report"
      /\ UNCHANGED <<read, frames, hand, cause, outcome>>
  BY DEF DropInput
<1>2. outcome = "none"
  BY <1>1 DEF MInv
<1>3. WholeInHand'
  <2>1. ASSUME mode = "place", NEW rest \in Seq(Token)
        PROVE  Values(read \o rest, 1) = {<<hand[1], Len(read) + 1>>}
    <3>1. PICK W : Fits(read \o rest, W, "place", frames, hand, Len(read) + 1)
      BY <2>1 DEF MInv, Understood
    <3>2. Linked(read \o rest, frames, W, Len(frames)) /\ W[Len(frames)] = {<<hand[1], Len(read) + 1>>}
      BY <3>1 DEF Fits
    <3> QED
      BY <1>1, <3>2, CallFacts DEF Linked
  <2> QED
    BY <1>1, <2>1 DEF WholeInHand
<1>4. Understood' /\ AcceptedMeansJson' /\ RejectedForGood'
  BY <1>1, <1>2 DEF MInv, Understood, Fits, AcceptedMeansJson, RejectedForGood
<1> QED
  BY <1>1, <1>2, <1>3, <1>4 DEF MInv

LEMMA MeansReport == ASSUME MInv, IInv', Report PROVE MInv'
<1>1. /\ mode' = "release" /\ outcome' \in {"MemoryError", "JSONDecodeError"}
      /\ UNCHANGED <<read, frames, hand, cause>>
  BY DEF Report
<1>2. Understood' /\ WholeInHand' /\ AcceptedMeansJson' /\ RejectedForGood'
  BY <1>1 DEF MInv, Understood, Fits, WholeInHand, AcceptedMeansJson, RejectedForGood
<1> QED
  BY <1>1, <1>2 DEF MInv

LEMMA MeansRelease == ASSUME MInv, IInv', Release PROVE MInv'
<1>1. mode = "release" /\ mode' = "done" /\ UNCHANGED <<read, frames, hand, cause, outcome>>
  BY DEF Release
<1>2. Understood' /\ WholeInHand' /\ AcceptedMeansJson' /\ RejectedForGood'
  BY <1>1 DEF MInv, Understood, Fits, WholeInHand, AcceptedMeansJson, RejectedForGood
<1> QED
  BY <1>1, <1>2 DEF MInv

-----------------------------------------------------------------------------

LEMMA InitMInv == Init => MInv
<1> SUFFICES ASSUME Init PROVE MInv
  OBVIOUS
<1>1. /\ read = <<>> /\ mode = "value" /\ frames = <<>> /\ outcome = "none" /\ cause = "none"
  BY DEF Init
<1>2. Understood
  <2> SUFFICES ASSUME NEW rest \in Seq(Token)
               PROVE  \E W : Fits(read \o rest, W, mode, frames, hand, Len(read) + 1)
    BY DEF Understood
  <2>1. read \o rest = rest /\ Len(read) + 1 = 1 /\ Len(frames) = 0
    BY <1>1
  <2> DEFINE W == [k \in {0} |-> Values(rest, 1)]
  <2>2. Linked(rest, frames, W, 0) /\ W[0] = Values(rest, 1)
    BY DEF Linked
  <2> HIDE DEF W
  <2>3. Fits(rest, W, "value", frames, hand, 1)
    BY <2>1, <2>2 DEF Fits
  <2> QED
    BY <1>1, <2>1, <2>3
<1>3. WholeInHand /\ AcceptedMeansJson /\ RejectedForGood
  BY <1>1 DEF WholeInHand, AcceptedMeansJson, RejectedForGood
<1> QED
  BY <1>1, <1>2, <1>3, InitIInv DEF MInv

LEMMA NextMInv == MInv /\ [Next]_vars => MInv'
<1> SUFFICES ASSUME MInv, [Next]_vars PROVE MInv'
  OBVIOUS
<1>0. IInv'
  BY NextIInv DEF MInv
<1>1. CASE ReadToken
  <2>1. PICK t \in Token :
          /\ read' = Append(read, t)
          /\ \/ SyntaxError(t) \/ TooDeep(t) \/ Open(t) \/ Number(t) \/ StringValue(t)
             \/ Key(t) \/ Colon(t) \/ Comma(t) \/ Close(t) \/ AfterValue(t)
    BY <1>1 DEF ReadToken, Look
  <2> QED
    BY <1>0, <2>1, MeansSyntaxError, MeansTooDeep, MeansOpen, MeansNumber, MeansString, MeansKey,
       MeansColon, MeansComma, MeansClose, MeansAfterValue
<1>2. CASE UNCHANGED vars
  BY <1>0, <1>2 DEF vars, MInv, Top, Understood, WholeInHand, AcceptedMeansJson, RejectedForGood
<1> QED
  BY <1>0, <1>1, <1>2, MeansPlace, MeansUnwind, MeansDropInput, MeansReport, MeansRelease DEF Next

(* At every token, for every text that may follow, what the grammar makes of  *)
(* the whole is what it makes of the calls under way with that text behind.  *)
THEOREM NativeUnderstands == Spec => []MInv
<1> QED
  BY InitMInv, NextMInv, PTL DEF Spec

(* A value that loads returns is what the input means as JSON.               *)
THEOREM NativeAcceptedMeansJson == Spec => []AcceptedMeansJson
<1>1. MInv => AcceptedMeansJson
  BY DEF MInv
<1> QED
  BY <1>1, NativeUnderstands, PTL

(* loads reports a syntax error only at a token that no text at all can       *)
(* follow so as to make JSON of the whole.                                   *)
THEOREM NativeRejectedForGood == Spec => []RejectedForGood
<1>1. MInv => RejectedForGood
  BY DEF MInv
<1> QED
  BY <1>1, NativeUnderstands, PTL

(* In particular none of the completions that the run tries.                 *)
THEOREM NativeRejectedIsNotJson == Spec => []RejectedIsNotJson
<1>1. Completions \subseteq Seq(Token)
  <2> DEFINE num == [kind |-> "num", text |-> ""]
             punct(k) == [kind |-> k, text |-> ""]
             str(x) == [kind |-> "str", text |-> x]
             brackets == {punct("}"), punct("]")}
             colon == punct(":")
             end == punct("end")
             joined(r, c) == r \o c \o <<end>>
             closers == UNION {[1..n -> brackets] : n \in 0..MaxDepth}
             rests == {<<>>, <<num>>, <<colon, num>>} \union {<<str(x), colon, num>> : x \in Texts}
  <2>1. num \in Token /\ colon \in Token /\ end \in Token /\ brackets \subseteq Token
    BY DEF Token, Punctuation, Openers
  <2>2. \A x \in Texts : str(x) \in Token
    BY DEF Token
  <2>3. Completions = {<<>>} \union {joined(r, c) : r \in rests, c \in closers}
    BY DEF Completions
  <2> HIDE DEF num, str, brackets, colon, end
  <2>4. rests \subseteq Seq(Token)
    <3>1. \A x \in Texts : <<str(x), colon, num>> \in Seq(Token)
      BY ONLY <2>1, <2>2
    <3>2. <<>> \in Seq(Token) /\ <<num>> \in Seq(Token) /\ <<colon, num>> \in Seq(Token)
      BY ONLY <2>1
    <3> QED
      BY ONLY <3>1, <3>2
  <2>5. closers \subseteq Seq(Token)
    <3>1. ASSUME NEW n \in Nat, NEW c \in [1..n -> brackets] PROVE c \in Seq(Token)
      <4>1. \A i \in 1..n : c[i] \in Token
        BY ONLY <2>1, <3>1
      <4> QED
        BY ONLY <3>1, <4>1
    <3>2. 0..MaxDepth \subseteq Nat
      OBVIOUS
    <3> QED
      BY ONLY <3>1, <3>2
  <2> HIDE DEF closers, rests
  <2>6. \A r \in Seq(Token), c \in Seq(Token) : joined(r, c) \in Seq(Token)
    BY ONLY <2>1
  <2>7. <<>> \in Seq(Token)
    BY ONLY <2>1
  <2> HIDE DEF joined
  <2> SUFFICES ASSUME NEW x \in Completions PROVE x \in Seq(Token)
    OBVIOUS
  <2>8. x = <<>> \/ \E r \in rests, c \in closers : x = joined(r, c)
    BY ONLY <2>3, x \in Completions
  <2> QED
    BY ONLY <2>4, <2>5, <2>6, <2>7, <2>8
<1>2. RejectedForGood => RejectedIsNotJson
  BY <1>1 DEF RejectedForGood, RejectedIsNotJson
<1> QED
  BY <1>2, NativeRejectedForGood, PTL

-----------------------------------------------------------------------------
(* The other engine takes its steps once this one has stopped and leaves its  *)
(* state alone, so all of this holds of the two together.                    *)
THEOREM BothSpecIsSpec == BothSpec => Spec
<1>1. BothInit => Init
  BY DEF BothInit
<1>2. [BothNext]_<<vars, strictVars>> => [Next]_vars
  BY DEF BothNext
<1> QED
  BY <1>1, <1>2, PTL DEF BothSpec, Spec

-----------------------------------------------------------------------------
(* A text has one meaning at most. *)

Sole(R) == \A r \in R, q \in R : r = q

LEMMA SoleImages ==
    ASSUME NEW C, Sole(C)
    PROVE  /\ Sole({<<List(r[1]), r[2]>> : r \in C})
           /\ Sole({<<Dict(r[1]), r[2]>> : r \in C})
           /\ \A x : Sole({<<x \o r[1], r[2]>> : r \in C})
           /\ \A x : Sole({<<Update(x, r[1]), r[2]>> : r \in C})
<1>1. Sole({<<List(r[1]), r[2]>> : r \in C})
  BY DEF Sole
<1>2. Sole({<<Dict(r[1]), r[2]>> : r \in C})
  BY DEF Sole
<1>3. ASSUME NEW x PROVE Sole({<<x \o r[1], r[2]>> : r \in C})
  BY DEF Sole
<1>4. ASSUME NEW x PROVE Sole({<<Update(x, r[1]), r[2]>> : r \in C})
  <2> DEFINE F(r) == <<Update(x, r[1]), r[2]>>
  <2>1. \A r \in C, q \in C : F(r) = F(q)
    BY Zenon DEF Sole
  <2> HIDE DEF F
  <2>2. Sole({F(r) : r \in C})
    BY <2>1 DEF Sole
  <2> QED
    BY <2>2 DEF F
<1> QED
  BY <1>1, <1>2, <1>3, <1>4

\* g takes one result at most from each place behind i, and onward.
SoleBehind(s, g, i) ==
    Onward(s, g, i) /\ \A p \in Places(s) : p[2] > i => Sole(g[p])

LEMMA SoleContainer ==
    ASSUME NEW s \in Seq(Token), NEW g, NEW i \in 1..Len(s), SoleBehind(s, g, i),
           NEW rule \in Rules, NEW bracket, NEW empty
    PROVE  Sole(Container(s, g, rule, bracket, empty, i + 1))
<1>1. <<rule, i + 1>> \in Places(s) /\ <<rule, i + 1>>[2] > i
  BY InText DEF Places
<1>2. Sole(g[<<rule, i + 1>>])
  BY <1>1 DEF SoleBehind
<1>3. Sole({<<empty, i + 1 + 1>>})
  BY DEF Sole
<1> QED
  BY <1>2, <1>3 DEF Container

LEMMA SoleValue ==
    ASSUME NEW s \in Seq(Token), NEW g, NEW i \in Nat, i > 0, SoleBehind(s, g, i)
    PROVE  Sole(ValueAt(s, g, i))
<1>1. CASE KindAt(s, i) \in ScalarKinds
  <2>1. Sole({<<Atom(s[i]), i + 1>>})
    BY DEF Sole
  <2> QED
    BY <1>1, <2>1, ValueCases
<1>2. CASE KindAt(s, i) = "["
  <2> DEFINE c == Container(s, g, "items", "]", <<>>, i + 1)
  <2>1. i \in 1..Len(s)
    BY <1>2, InText
  <2>2. Sole(c)
    BY <2>1, SoleContainer DEF Rules
  <2>3. ValueAt(s, g, i) = {<<List(r[1]), r[2]>> : r \in c}
    BY <1>2, ValueCases
  <2> HIDE DEF c
  <2> QED
    BY <2>2, <2>3, SoleImages
<1>3. CASE KindAt(s, i) = "{"
  <2> DEFINE c == Container(s, g, "members", "}", <<>>, i + 1)
  <2>1. i \in 1..Len(s)
    BY <1>3, InText
  <2>2. Sole(c)
    BY <2>1, SoleContainer DEF Rules
  <2>3. ValueAt(s, g, i) = {<<Dict(r[1]), r[2]>> : r \in c}
    BY <1>3, ValueCases
  <2> HIDE DEF c
  <2> QED
    BY <2>2, <2>3, SoleImages
<1>4. CASE KindAt(s, i) \notin ScalarKinds \cup {"[", "{"}
  BY <1>4, ValueCases DEF Sole
<1> QED
  BY <1>1, <1>2, <1>3, <1>4

LEMMA SoleAfter ==
    ASSUME NEW s \in Seq(Token), NEW g, NEW i \in Nat, NEW v, v[2] \in Nat, v[2] > i,
           SoleBehind(s, g, i), NEW k
    PROVE  Sole(AfterItem(s, g, v)) /\ Sole(AfterMember(s, g, k, v))
<1>0. Sole({<< <<v[1]>>, v[2] + 1 >>}) /\ Sole({<<Single(k, v[1]), v[2] + 1>>}) /\ Sole({})
  BY DEF Sole
<1>1. CASE KindAt(s, v[2]) = ","
  <2>1. v[2] \in 1..Len(s) /\ Len(s) \in Nat
    <3>1. KindAt(s, v[2]) # "none"
      BY <1>1, Zenon
    <3> QED
      BY <3>1, InText
  <2> DEFINE I == g[<<"items", v[2] + 1>>]
             M == g[<<"members", v[2] + 1>>]
  <2>2. Sole(I) /\ Sole(M)
    <3>1. v[2] + 1 > i /\ v[2] + 1 \in 1..Len(s) + 1
      BY ONLY <2>1, i \in Nat, v[2] > i
    <3>2. /\ <<"items", v[2] + 1>> \in Places(s) /\ <<"items", v[2] + 1>>[2] > i
          /\ <<"members", v[2] + 1>> \in Places(s) /\ <<"members", v[2] + 1>>[2] > i
      BY ONLY <3>1 DEF Places, Rules
    <3> QED
      BY <3>2, Zenon DEF SoleBehind
  <2>3. /\ AfterItem(s, g, v) = {<< <<v[1]>> \o r[1], r[2] >> : r \in I}
        /\ AfterMember(s, g, k, v) = {<<Update(Single(k, v[1]), r[1]), r[2]>> : r \in M}
    BY <1>1, AfterCases, Zenon
  <2> HIDE DEF I, M
  <2>4. Sole({<< <<v[1]>> \o r[1], r[2] >> : r \in I})
    BY ONLY <2>2, SoleImages
  <2>5. Sole({<<Update(Single(k, v[1]), r[1]), r[2]>> : r \in M})
    <3>1. \A x : Sole({<<Update(x, r[1]), r[2]>> : r \in M})
      BY ONLY <2>2, SoleImages
    <3> QED
      BY ONLY <3>1, Zenon
  <2> QED
    BY <2>3, <2>4, <2>5, Zenon
<1>2. CASE KindAt(s, v[2]) # ","
  <2>1. Sole(AfterItem(s, g, v))
    <3>1. CASE KindAt(s, v[2]) = "]"
      BY <1>0, <3>1, AfterCases, Zenon
    <3>2. CASE KindAt(s, v[2]) # "]"
      <4>1. KindAt(s, v[2]) \notin {"]", ","}
        BY <1>2, <3>2, Zenon
      <4> QED
        BY <1>0, <4>1, AfterCases, Zenon
    <3> QED
      BY <3>1, <3>2
  <2>2. Sole(AfterMember(s, g, k, v))
    <3>1. CASE KindAt(s, v[2]) = "}"
      <4>1. AfterMember(s, g, k, v) = {<<Single(k, v[1]), v[2] + 1>>}
        BY <3>1 DEF AfterMember
      <4> QED
        BY <1>0, <4>1
    <3>2. CASE KindAt(s, v[2]) # "}"
      <4>1. KindAt(s, v[2]) \notin {"}", ","}
        BY <1>2, <3>2, Zenon
      <4> QED
        BY <1>0, <4>1, AfterCases, Zenon
    <3> QED
      BY <3>1, <3>2
  <2> QED
    BY <2>1, <2>2
<1> QED
  BY <1>1, <1>2

LEMMA SoleRule ==
    ASSUME NEW s \in Seq(Token), NEW g, NEW p \in Places(s), SoleBehind(s, g, p[2])
    PROVE  Sole(Rule(s, g, p))
<1> DEFINE V(j) == ValueAt(s, g, j)
<1> SUFFICES ASSUME NEW i, i = p[2]
             PROVE  Sole(Rule(s, g, p))
  OBVIOUS
<1>0. SoleBehind(s, g, i)
  OBVIOUS
<1>1. i \in Nat /\ i > 0
  BY InText DEF Places
<1>2. Sole(V(i)) /\ EndBehind(V(i), i)
  <2>1. Onward(s, g, i) /\ SameBehind(s, g, g, i)
    BY <1>0 DEF SoleBehind, SameBehind
  <2> QED
    BY <1>0, <1>1, <2>1, SoleValue, ValueLocal
<1>3. Sole(V(i + 2)) /\ EndBehind(V(i + 2), i)
  <2>1. SoleBehind(s, g, i + 2) /\ SameBehind(s, g, g, i + 2) /\ i + 2 \in Nat /\ i + 2 > 0
    <3>1. \A q \in Places(s) : q[2] > i + 2 => q[2] > i
      BY <1>1, InText DEF Places
    <3> QED
      BY <1>0, <1>1, <3>1 DEF SoleBehind, Onward, SameBehind
  <2>2. Sole(V(i + 2)) /\ EndBehind(V(i + 2), i + 2)
    BY <2>1, SoleValue, ValueLocal DEF SoleBehind
  <2> QED
    BY <1>1, <2>2 DEF EndBehind
<1> HIDE DEF V
<1>4. Sole(ItemsAt(s, g, i))
  <2>1. ItemsAt(s, g, i) = UNION {AfterItem(s, g, v) : v \in V(i)}
    BY DEF ItemsAt, V
  <2>2. ASSUME NEW v \in V(i) PROVE Sole(AfterItem(s, g, v))
    <3>1. v[2] \in Nat /\ v[2] > i
      BY <1>2 DEF EndBehind
    <3> QED
      BY <1>0, <1>1, <3>1, SoleAfter
  <2> QED
    BY <1>2, <2>1, <2>2 DEF Sole
<1>5. Sole(MembersAt(s, g, i))
  <2>1. CASE KindAt(s, i) # "str" \/ KindAt(s, i + 1) # ":"
    BY <2>1 DEF MembersAt, Sole
  <2>2. CASE ~(KindAt(s, i) # "str" \/ KindAt(s, i + 1) # ":")
    <3> DEFINE k == s[i].text
    <3>1. MembersAt(s, g, i) = UNION {AfterMember(s, g, k, v) : v \in V(i + 2)}
      BY <2>2 DEF MembersAt, V
    <3> HIDE DEF k
    <3>2. ASSUME NEW v \in V(i + 2) PROVE Sole(AfterMember(s, g, k, v))
      <4>1. v[2] \in Nat /\ v[2] > i
        BY <1>3 DEF EndBehind
      <4> QED
        BY <1>0, <1>1, <4>1, SoleAfter
    <3> QED
      BY <1>3, <3>1, <3>2 DEF Sole
  <2> QED
    BY <2>1, <2>2
<1> QED
  BY <1>4, <1>5 DEF Rule

LEMMA ParsesSole ==
    ASSUME NEW s \in Seq(Token), NEW n \in Nat
    PROVE  SoleBehind(s, Parses(s), Len(s) + 1 - n)
<1> DEFINE g == Parses(s)
           Has == {m \in Nat : SoleBehind(s, g, Len(s) + 1 - m)}
<1>0. \A p \in Places(s) : g[p] = Rule(s, g, p)
  BY ParsesSolves
<1>1. Len(s) \in Nat
  BY InText
<1> HIDE DEF g
<1>2. 0 \in Has
  <2>1. \A p \in Places(s) : ~(p[2] > Len(s) + 1)
    BY <1>1 DEF Places
  <2>2. Len(s) + 1 - 0 = Len(s) + 1
    BY <1>1
  <2>3. SoleBehind(s, g, Len(s) + 1 - 0)
    BY <2>1, <2>2 DEF SoleBehind, Onward
  <2> QED
    BY <2>3
<1>3. ASSUME NEW m \in Nat, m \in Has PROVE m + 1 \in Has
  <2> DEFINE i == Len(s) + 1 - m
  <2>1. i \in Int /\ (\A p \in Places(s) : p[2] \in Int /\ p[2] > 0) /\ SoleBehind(s, g, i)
    BY <1>1, <1>3 DEF Places
  <2> HIDE DEF i
  <2>2. ASSUME NEW p \in Places(s), p[2] > i - 1
        PROVE  EndBehind(g[p], p[2]) /\ Sole(g[p])
    <3>1. \A q \in Places(s) : q[2] > p[2] => q[2] > i
      BY <2>1, <2>2
    <3>2. SoleBehind(s, g, p[2]) /\ SameBehind(s, g, g, p[2])
      BY <2>1, <3>1 DEF SoleBehind, Onward, SameBehind
    <3> QED
      BY <1>0, <3>2, RuleLocal, SoleRule DEF SoleBehind
  <2>3. SoleBehind(s, g, i - 1)
    BY <2>2 DEF SoleBehind, Onward
  <2>4. i - 1 = Len(s) + 1 - (m + 1)
    BY <1>1 DEF i
  <2> QED
    BY <2>3, <2>4
<1>4. Nat \subseteq Has
  <2> HIDE DEF Has
  <2> QED
    BY <1>2, <1>3, SetInduction
<1> QED
  BY <1>4 DEF g

LEMMA OneMeaning ==
    ASSUME NEW s \in Seq(Token)
    PROVE  Sole(Values(s, 1)) /\ Sole(Meanings(s))
<1>1. Len(s) + 1 \in Nat /\ Len(s) + 1 - (Len(s) + 1) = 0
  BY InText
<1>2. SoleBehind(s, Parses(s), Len(s) + 1 - (Len(s) + 1))
  BY <1>1, ParsesSole
<1>3. SoleBehind(s, Parses(s), 0)
  BY <1>1, <1>2
<1>4. SoleBehind(s, Parses(s), 1)
  <2>1. \A p \in Places(s) : p[2] > 1 => p[2] > 0
    BY InText DEF Places
  <2> QED
    BY <1>3, <2>1 DEF SoleBehind, Onward
<1>5. Sole(Values(s, 1))
  BY <1>4, SoleValue DEF Values
<1> QED
  BY <1>5 DEF Sole, Meanings, Values

\* A meaning is no reference.
LEMMA MeaningShape ==
    ASSUME NEW s \in Seq(Token), NEW v \in Meanings(s)
    PROVE  "ref" \notin DOMAIN v
<1>1. PICK w \in Values(s, 1) : v = w[1]
  BY DEF Meanings, Values
<1>2. \/ \E t : v = Atom(t)
      \/ \E l : v = List(l)
      \/ \E d : v = Dict(d)
  <2>1. CASE KindAt(s, 1) \in ScalarKinds
    <3>1. Values(s, 1) = {<<Atom(s[1]), 1 + 1>>}
      BY <2>1, ValueCases, Zenon DEF Values
    <3>2. v = Atom(s[1])
      BY <1>1, <3>1
    <3> QED
      BY <3>2, Zenon
  <2>2. CASE KindAt(s, 1) = "["
    <3>1. Values(s, 1) = {<<List(r[1]), r[2]>> : r \in Container(s, Parses(s), "items", "]", <<>>, 1 + 1)}
      BY <2>2, ValueCases DEF Values
    <3>2. PICK r : w = <<List(r[1]), r[2]>>
      BY <1>1, <3>1
    <3>3. v = List(r[1])
      BY <1>1, <3>2
    <3> QED
      BY <3>3, Zenon
  <2>3. CASE KindAt(s, 1) = "{"
    <3>1. Values(s, 1) = {<<Dict(r[1]), r[2]>> : r \in Container(s, Parses(s), "members", "}", <<>>, 1 + 1)}
      BY <2>3, ValueCases DEF Values
    <3>2. PICK r : w = <<Dict(r[1]), r[2]>>
      BY <1>1, <3>1
    <3> QED
      BY <1>1, <3>2
  <2>4. CASE KindAt(s, 1) \notin ScalarKinds \cup {"[", "{"}
    BY <1>1, <2>4, ValueCases DEF Values
  <2> QED
    BY <2>1, <2>2, <2>3, <2>4
<1> QED
  BY <1>2 DEF Atom, List, Dict

-----------------------------------------------------------------------------
(* The row behind the last one walked: what it can be, by what is looked for. *)

\* An open call, and what it may have just received.
Between(fs, m) ==
    \/ Len(fs) = 0 /\ m = "value"
    \/ /\ Len(fs) > 0 /\ Holds(fs[Len(fs)])
       /\ m \in {"first", "after", "colon"} /\ (m = "colon" => fs[Len(fs)].kind = "{")

DueValue(fs, m, b, kind) ==
    /\ Awaits(b, fs, kind) /\ kind \in ScalarKinds \union Openers
    /\ Len(fs) > 0 /\ fs[Len(fs)].kind = "{" => m = "colon"

DueKey(fs, m, b, kind) ==
    /\ Len(fs) > 0 /\ b \in {"key", "first"} /\ kind = "str"
    /\ fs[Len(fs)].kind = "{" /\ m # "colon"

DueEnd(fs, m, b, kind) ==
    /\ Len(fs) > 0 /\ b \in {"first", "after"} /\ kind = Closer(fs[Len(fs)]) /\ m # "colon"

Passed == {":", ","}

\* From p, where m is looked for, to the row at q.
Onto(s, fs, m, h, p, q) ==
    /\ q \in 1..Len(s) /\ (q = p \/ (q = p + 1 /\ KindAt(s, p) \in Passed))
    /\ KindAt(s, q) \notin Passed \union {"end", "none"}
    /\ \E b, V : /\ Fits(s, V, b, fs, h, q)
                 /\ \/ DueValue(fs, m, b, KindAt(s, q))
                    \/ DueKey(fs, m, b, KindAt(s, q))
                    \/ DueEnd(fs, m, b, KindAt(s, q))

\* Where b is looked for and something comes of the text, there is a row.
LEMMA RowHere ==
    ASSUME NEW s \in Seq(Token), NEW fs, Len(fs) \in Nat, NEW h, NEW p \in 1..Len(s) + 1, NEW m, NEW b,
           NEW W, Fits(s, W, b, fs, h, p), Values(s, 1) # {},
           b # "value" => Len(fs) > 0 /\ Holds(fs[Len(fs)]),
           b = "key" => fs[Len(fs)].kind = "{" /\ m # "colon",
           b = "value" => (Len(fs) > 0 /\ fs[Len(fs)].kind = "{" => m = "colon"),
           b \in {"first", "after"} => m = b,
           b \in {"value", "first", "key", "after"}, b = "after" => KindAt(s, p) # ","
    PROVE  Onto(s, fs, m, h, p, p)
<1> DEFINE f == fs[Len(fs)]
           k == KindAt(s, p)
<1>1. /\ b = "value" => k \in Openers \union ScalarKinds
      /\ b = "first" /\ f.kind = "[" => k \in Openers \union ScalarKinds \union {"]"}
      /\ b = "first" /\ f.kind = "{" => k \in {"str", "}"}
      /\ b = "key" => k = "str"
      /\ b = "after" => k = Closer(f)
  BY NothingFits, Zenon
<1>2. k \in Openers \union ScalarKinds \union {"]", "}"}
  <2>1. b # "value" => f.kind \in Openers
    BY Zenon DEF Holds, FrameOK
  <2>2. b = "first" => f.kind \in {"[", "{"}
    BY <2>1, Zenon DEF Openers
  <2>3. b = "after" => k \in {"]", "}"}
    BY <1>1, Zenon DEF Closer
  <2> QED
    BY <1>1, <2>2, <2>3, Zenon DEF ScalarKinds
<1>3. k \notin Passed \union {"end", "none"}
  BY <1>2, Zenon DEF Passed, Openers, ScalarKinds
<1>4. p \in 1..Len(s)
  <2>1. k # "none"
    BY <1>3, Zenon
  <2> QED
    BY ONLY <2>1, s \in Seq(Token), InText
<1>5. \/ DueValue(fs, m, b, k) \/ DueKey(fs, m, b, k) \/ DueEnd(fs, m, b, k)
  <2>1. CASE b = "value"
    BY <1>1, <2>1, Zenon DEF DueValue, Awaits
  <2>2. CASE b = "key"
    BY <1>1, <2>2, Zenon DEF DueKey
  <2>3. CASE b = "after"
    BY <1>1, <2>3, Zenon DEF DueEnd
  <2>4. CASE b = "first" /\ f.kind = "["
    <3>1. CASE k = "]"
      BY <2>4, <3>1, Zenon DEF DueEnd, Closer
    <3>2. CASE k # "]"
      BY <1>1, <2>4, <3>2, Zenon DEF DueValue, Awaits
    <3> QED
      BY <3>1, <3>2
  <2>5. CASE b = "first" /\ f.kind = "{"
    BY <1>1, <2>5, Zenon DEF DueEnd, DueKey, Closer
  <2>6. b # "value" => f.kind \in {"[", "{"}
    BY Zenon DEF Holds, FrameOK, Openers
  <2> QED
    BY <2>1, <2>2, <2>3, <2>4, <2>5, <2>6, Zenon
<1>6. Fits(s, W, b, fs, h, p)
  OBVIOUS
<1>7. \E c, V : Fits(s, V, c, fs, h, p) /\ (DueValue(fs, m, c, k) \/ DueKey(fs, m, c, k) \/ DueEnd(fs, m, c, k))
  BY ONLY <1>5, <1>6, Zenon
<1>8. p = p \/ (p = p + 1 /\ KindAt(s, p) \in Passed)
  OBVIOUS
<1> QED
  BY ONLY <1>3, <1>4, <1>7, <1>8, Zenon DEF Onto

LEMMA NextRowOf ==
    ASSUME NEW s \in Seq(Token), NEW fs, Len(fs) \in Nat, NEW h, NEW p \in 1..Len(s) + 1, NEW m,
           NEW W, Fits(s, W, m, fs, h, p), Values(s, 1) # {}, Between(fs, m)
    PROVE  \E q : Onto(s, fs, m, h, p, q)
<1> DEFINE f == fs[Len(fs)]
<1>1. CASE m = "value" /\ Len(fs) = 0
  <2>1. ~(Len(fs) > 0)
    BY <1>1
  <2> QED
    BY <1>1, <2>1, RowHere
<1>2. CASE m # "value"
  <2>0. Len(fs) > 0 /\ Holds(f) /\ m \in {"first", "after", "colon"} /\ (m = "colon" => f.kind = "{")
    BY <1>2, Zenon DEF Between
  <2>1. CASE m = "first" \/ (m = "after" /\ KindAt(s, p) # ",")
    BY <2>0, <2>1, RowHere
  <2>2. ASSUME p \in 1..Len(s), KindAt(s, p) \in Passed, Onto(s, fs, m, h, p + 1, p + 1)
        PROVE  Onto(s, fs, m, h, p, p + 1)
    BY <2>2, Zenon DEF Onto
  <2>3. ASSUME KindAt(s, p) \in Passed
        PROVE  p \in 1..Len(s) /\ p + 1 \in 1..Len(s) + 1 /\ At(s, p, s[p])
    <3>1. KindAt(s, p) # "none"
      BY <2>3, Zenon DEF Passed
    <3>2. p \in 1..Len(s) /\ Len(s) \in Nat /\ DOMAIN s = 1..Len(s) /\ s \in Seq(Token)
      BY ONLY <3>1, s \in Seq(Token), InText
    <3>3. KindAt(s, p) = s[p].kind
      BY ONLY <3>2 DEF KindAt
    <3>4. p + 1 \in 1..Len(s) + 1
      BY ONLY <3>2
    <3> QED
      BY ONLY <3>2, <3>3, <3>4 DEF At
  <2>4. CASE m = "after" /\ KindAt(s, p) = ","
    <3>1. KindAt(s, p) \in Passed
      BY <2>4, Zenon DEF Passed
    <3>2. s[p].kind = ","
      BY <2>3, <2>4, <3>1, Zenon DEF At
    <3>3. /\ f.kind = "{" => \E V : Fits(s, V, "key", fs, h, p + 1)
          /\ f.kind # "{" => \E V : Fits(s, V, "value", fs, h, p + 1)
      BY <2>0, <2>3, <2>4, <3>1, <3>2, CommaFits, Zenon
    <3>4. Onto(s, fs, m, h, p + 1, p + 1)
      <4>1. PICK b, V : /\ Fits(s, V, b, fs, h, p + 1) /\ b \in {"key", "value"}
                        /\ (b = "key" <=> f.kind = "{")
        <5>1. CASE f.kind = "{"
          BY <3>3, <5>1, Zenon
        <5>2. CASE f.kind # "{"
          <6>1. \E V : Fits(s, V, "value", fs, h, p + 1)
            BY <3>3, <5>2, Zenon
          <6> QED
            BY <5>2, <6>1, "value" # "key", Zenon
        <5> QED
          BY <5>1, <5>2
      <4>2. m # "colon" /\ b # "first" /\ b # "after"
        BY <2>4, <4>1, Zenon
      <4> QED
        BY <2>0, <2>3, <3>1, <4>1, <4>2, RowHere, Zenon
    <3> QED
      BY <2>2, <2>3, <3>1, <3>4
  <2>5. CASE m = "colon"
    <3>1. KindAt(s, p) = ":"
      BY <2>0, <2>5, NothingFits, Zenon
    <3>2. KindAt(s, p) \in Passed
      BY <3>1, Zenon DEF Passed
    <3>3. s[p].kind = ":"
      BY <2>3, <3>1, <3>2, Zenon DEF At
    <3>4. PICK V : Fits(s, V, "value", fs, h, p + 1)
      BY <2>3, <2>5, <3>2, <3>3, ColonFits, Zenon
    <3>5. Onto(s, fs, m, h, p + 1, p + 1)
      BY <2>0, <2>3, <2>5, <3>2, <3>4, RowHere, Zenon
    <3> QED
      BY <2>2, <2>3, <3>2, <3>5
  <2>6. m = "first" \/ m = "after" \/ m = "colon"
    BY <2>0, Zenon
  <2> QED
    BY <2>1, <2>4, <2>5, <2>6, Zenon
<1> QED
  BY <1>1, <1>2, Zenon DEF Between

-----------------------------------------------------------------------------
(* The containers of the columns walk, which refer to one another, and what   *)
(* they stand for.                                                           *)

IsContainer(c) == (\E l : IsTuple(l) /\ c = List(l)) \/ (\E d : c = Dict(d))
IsListed(c) == "list" \in DOMAIN c
Parts(c) == IF IsListed(c) THEN {c.list[i] : i \in DOMAIN c.list} ELSE {c.dict[k] : k \in DOMAIN c.dict}

\* A container with one more item or member.
Into(c, key, x) == IF IsListed(c) THEN List(Append(c.list, x)) ELSE Dict(Put(c.dict, key, x))

Mapped(w, f) == [i \in DOMAIN f |-> Deref(w, f[i])]

LEMMA ContentsOf ==
    ASSUME NEW w, NEW x
    PROVE  /\ IsListed(List(x)) /\ ~IsListed(Dict(x))
           /\ Contents(w, List(x)) = List(Mapped(w, x))
           /\ Contents(w, Dict(x)) = Dict(Mapped(w, x))
           /\ Parts(List(x)) = {x[i] : i \in DOMAIN x}
           /\ Parts(Dict(x)) = {x[i] : i \in DOMAIN x}
<1>1. IsListed(List(x)) /\ ~IsListed(Dict(x))
  BY DEF IsListed, List, Dict
<1>2. List(x).list = x /\ Dict(x).dict = x
  BY Shapes
<1> QED
  BY <1>1, <1>2 DEF Contents, Mapped, Parts, IsListed

LEMMA MappedAppend ==
    ASSUME NEW w, NEW l, IsTuple(l), NEW x
    PROVE  /\ IsTuple(Mapped(w, l))
           /\ Mapped(w, Append(l, x)) = Append(Mapped(w, l), Deref(w, x))
<1> DEFINE D(y) == Deref(w, y)
           S == {l[i] : i \in DOMAIN l} \cup {x}
           T == {D(y) : y \in S}
<1>1. l \in Seq(S) /\ x \in S
  BY DEF IsTuple
<1>2. \A y \in S : D(y) \in T
  OBVIOUS
<1> HIDE DEF S, T
<1>3. Mapped(w, l) = [i \in DOMAIN l |-> D(l[i])] /\ Mapped(w, Append(l, x)) = [i \in DOMAIN Append(l, x) |-> D(Append(l, x)[i])]
  BY DEF Mapped
<1> HIDE DEF D
<1>4. [i \in DOMAIN l |-> D(l[i])] \in Seq(T)
  BY <1>1, <1>2
<1>5. [i \in DOMAIN Append(l, x) |-> D(Append(l, x)[i])] = Append([i \in DOMAIN l |-> D(l[i])], D(x))
  BY <1>1, <1>2
<1> QED
  BY <1>3, <1>4, <1>5, TupleIn DEF D

LEMMA MappedPut ==
    ASSUME NEW w, NEW d, NEW k, NEW x
    PROVE  Mapped(w, Put(d, k, x)) = Put(Mapped(w, d), k, Deref(w, x))
BY DEF Mapped, Put

LEMMA IntoShapes ==
    ASSUME NEW x, NEW key, NEW v
    PROVE  /\ Into(List(x), key, v) = List(Append(x, v))
           /\ Into(Dict(x), key, v) = Dict(Put(x, key, v))
<1>1. IsListed(List(x)) /\ ~IsListed(Dict(x))
  BY DEF IsListed, List, Dict
<1> QED
  BY ONLY <1>1, Shapes DEF Into

LEMMA IntoFacts ==
    ASSUME NEW c, IsContainer(c), NEW key, NEW x
    PROVE  /\ IsContainer(Into(c, key, x))
           /\ IsListed(Into(c, key, x)) <=> IsListed(c)
           /\ \A y \in Parts(Into(c, key, x)) : y \in Parts(c) \/ y = x
           /\ \A w : Contents(w, Into(c, key, x)) = Into(Contents(w, c), key, Deref(w, x))
<1>1. CASE \E l : IsTuple(l) /\ c = List(l)
  <2>1. PICK l : IsTuple(l) /\ c = List(l)
    BY <1>1
  <2>2. Into(c, key, x) = List(Append(l, x))
    BY <2>1, IntoShapes
  <2>3. IsTuple(Append(l, x))
    BY <2>1, Tuples
  <2>4. ASSUME NEW w PROVE Contents(w, Into(c, key, x)) = Into(Contents(w, c), key, Deref(w, x))
    <3>1. Contents(w, List(Append(l, x))) = List(Mapped(w, Append(l, x)))
      BY ContentsOf
    <3>2. Into(Contents(w, c), key, Deref(w, x)) = List(Append(Mapped(w, l), Deref(w, x)))
      <4>1. Contents(w, c) = List(Mapped(w, l))
        BY <2>1, ContentsOf
      <4> QED
        BY ONLY <4>1, IntoShapes
    <3> QED
      BY <2>1, <2>2, <3>1, <3>2, MappedAppend
  <2>5. ASSUME NEW y \in Parts(Into(c, key, x)) PROVE y \in Parts(c) \/ y = x
    <3> DEFINE T == {l[i] : i \in DOMAIN l} \cup {x}
    <3>1. l \in Seq(T) /\ x \in T
      BY <2>1 DEF IsTuple
    <3> HIDE DEF T
    <3>2. \A i \in DOMAIN Append(l, x) : (i \in DOMAIN l /\ Append(l, x)[i] = l[i]) \/ Append(l, x)[i] = x
      BY <3>1
    <3>3. PICK i \in DOMAIN Append(l, x) : y = Append(l, x)[i]
      BY <2>2, <2>5, ContentsOf
    <3>4. Parts(c) = {l[j] : j \in DOMAIN l}
      BY <2>1, ContentsOf
    <3> QED
      BY <3>2, <3>3, <3>4
  <2>6. IsListed(Into(c, key, x)) /\ IsListed(c)
    BY <2>1, <2>2, ContentsOf
  <2>7. IsContainer(Into(c, key, x))
    BY <2>2, <2>3 DEF IsContainer
  <2> QED
    BY <2>4, <2>5, <2>6, <2>7
<1>2. CASE \E d : c = Dict(d)
  <2>1. PICK d : c = Dict(d)
    BY <1>2
  <2>2. Into(c, key, x) = Dict(Put(d, key, x))
    BY <2>1, IntoShapes
  <2>4. ASSUME NEW w PROVE Contents(w, Into(c, key, x)) = Into(Contents(w, c), key, Deref(w, x))
    <3>1. Contents(w, Dict(Put(d, key, x))) = Dict(Mapped(w, Put(d, key, x)))
      BY ContentsOf
    <3>2. Into(Contents(w, c), key, Deref(w, x)) = Dict(Put(Mapped(w, d), key, Deref(w, x)))
      <4>1. Contents(w, c) = Dict(Mapped(w, d))
        BY <2>1, ContentsOf
      <4> QED
        BY ONLY <4>1, IntoShapes
    <3> QED
      BY <2>1, <2>2, <3>1, <3>2, MappedPut
  <2>5. ASSUME NEW y \in Parts(Into(c, key, x)) PROVE y \in Parts(c) \/ y = x
    <3>3. PICK i \in DOMAIN Put(d, key, x) : y = Put(d, key, x)[i]
      BY <2>2, <2>5, ContentsOf
    <3>4. Parts(c) = {d[j] : j \in DOMAIN d}
      BY <2>1, ContentsOf
    <3> QED
      BY <3>3, <3>4 DEF Put
  <2>6. ~IsListed(Into(c, key, x)) /\ ~IsListed(c)
    BY <2>1, <2>2, ContentsOf
  <2>7. IsContainer(Into(c, key, x))
    BY <2>2, Zenon DEF IsContainer
  <2> QED
    BY <2>4, <2>5, <2>6, <2>7
<1> QED
  BY <1>1, <1>2 DEF IsContainer

\* What a call stores, by its value.
LEMMA StoreInto ==
    ASSUME NEW f, Holds(f), NEW key, f.kind = "{" => f.key[1] = key, NEW v
    PROVE  /\ IsContainer(f.value) /\ (IsListed(f.value) <=> f.kind = "[")
           /\ Store(f, v) = Into(f.value, key, v)
<1>1. CASE f.kind = "["
  <2>1. PICK l : IsTuple(l) /\ f.value = List(l)
    BY <1>1, Zenon DEF Holds
  <2>2. Store(f, v) = List(Append(f.value.list, v))
    BY <1>1, Zenon DEF Store
  <2> QED
    BY <1>1, <2>1, <2>2, ContentsOf, Zenon DEF IsContainer, Into
<1>2. CASE f.kind # "["
  <2>1. f.kind = "{"
    BY <1>2, Zenon DEF Holds, FrameOK, Openers
  <2>2. PICK d : f.value = Dict(d)
    BY <2>1, Zenon DEF Holds
  <2>3. Store(f, v) = Dict(Put(f.value.dict, key, v))
    BY <1>2, <2>1, Zenon DEF Store
  <2> QED
    BY <1>2, <2>2, <2>3, ContentsOf, Zenon DEF IsContainer, Into
<1> QED
  BY <1>1, <1>2

\* A container refers only to those created after it.
Later(b, c, x) == "ref" \in DOMAIN x => x.ref[1] \in DOMAIN b /\ x.ref[1] > c

Heap(b) ==
    /\ IsTuple(b)
    /\ \A c \in DOMAIN b : IsContainer(b[c]) /\ \A x \in Parts(b[c]) : Later(b, c, x)

\* w has what every container stands for that is not open.
Resolves(w, b, st) ==
    \A c \in DOMAIN b : (\A k \in DOMAIN st : st[k] # c) => w[c] = Contents(w, b[c])

\* The open containers and the calls that build the same values: the innermost
\* holds what its call has, the others the next one too, whatever it will be.
Mirrors(b, st, fs) ==
    /\ Heap(b) /\ st \in Seq(DOMAIN b) /\ Stack(fs) /\ Len(fs) = Len(st)
    /\ \A j \in 1..Len(st), k \in 1..Len(st) : j # k => st[j] # st[k]
    /\ \A k \in 1..Len(st) : Holds(fs[k]) /\ (IsListed(b[st[k]]) <=> fs[k].kind = "[")
    /\ \A w : Resolves(w, b, st) =>
           \A k \in 1..Len(st) :
               Contents(w, b[st[k]]) = IF k = Len(st) THEN fs[k].value ELSE Store(fs[k], w[st[k + 1]])

LEMMA HeapFacts ==
    ASSUME NEW b, Heap(b)
    PROVE  Len(b) \in Nat /\ DOMAIN b = 1..Len(b)
<1>1. b \in Seq({b[i] : i \in DOMAIN b})
  BY DEF Heap, IsTuple
<1> QED
  BY <1>1, TupleIn

LEMMA HeapPut ==
    ASSUME NEW b, Heap(b), NEW c \in DOMAIN b, NEW d, IsContainer(d),
           \A x \in Parts(d) : Later(b, c, x),
           NEW e, e = [b EXCEPT ![c] = d]
    PROVE  /\ Heap(e) /\ DOMAIN e = DOMAIN b /\ Len(e) = Len(b)
           /\ e[c] = d /\ \A a \in DOMAIN b : a # c => e[a] = b[a]
<1> DEFINE S == {b[i] : i \in DOMAIN b} \cup {d}
<1>1. b \in Seq(S) /\ d \in S
  BY DEF Heap, IsTuple
<1> HIDE DEF S
<1>2. e \in Seq(S) /\ Len(e) = Len(b) /\ DOMAIN e = DOMAIN b /\ e[c] = d
  BY <1>1
<1>3. \A a \in DOMAIN b : a # c => e[a] = b[a]
  BY <1>1
<1>4. \A a, x : Later(b, a, x) => Later(e, a, x)
  BY <1>2 DEF Later
<1>5. Heap(e)
  BY <1>2, <1>3, <1>4, TupleIn DEF Heap
<1> QED
  BY <1>2, <1>3, <1>5

LEMMA HeapAppend ==
    ASSUME NEW b, Heap(b), NEW d, IsContainer(d), Parts(d) = {},
           NEW e, e = Append(b, d)
    PROVE  /\ Heap(e) /\ DOMAIN e = 1..Len(b) + 1 /\ Len(e) = Len(b) + 1
           /\ e[Len(b) + 1] = d /\ \A a \in DOMAIN b : e[a] = b[a]
<1> DEFINE S == {b[i] : i \in DOMAIN b} \cup {d}
<1>1. b \in Seq(S) /\ d \in S /\ DOMAIN b = 1..Len(b) /\ Len(b) \in Nat
  BY HeapFacts DEF Heap, IsTuple
<1> HIDE DEF S
<1>2. /\ e \in Seq(S) /\ Len(e) = Len(b) + 1 /\ DOMAIN e = 1..Len(b) + 1
      /\ e[Len(b) + 1] = d /\ \A a \in DOMAIN b : e[a] = b[a]
  BY <1>1
<1>3. DOMAIN b \subseteq DOMAIN e /\ \A a \in DOMAIN e : a \in DOMAIN b \/ a = Len(b) + 1
  BY <1>1, <1>2
<1>4. \A a, x : Later(b, a, x) => Later(e, a, x)
  BY <1>3 DEF Later
<1>5. Heap(e)
  BY <1>2, <1>3, <1>4, TupleIn DEF Heap
<1> QED
  BY <1>2, <1>5

\* A call that has stored v under its key.
Placed(f, v) == [f EXCEPT !.key = <<>>, !.value = Store(f, v)]

LEMMA PlacedFacts ==
    ASSUME NEW f, Holds(f), NEW v
    PROVE  /\ Holds(Placed(f, v)) /\ Placed(f, v).kind = f.kind
           /\ Placed(f, v).value = Store(f, v) /\ FrameOK(Placed(f, v))
<1>1. FrameOK(Placed(f, v)) /\ Placed(f, v).kind = f.kind /\ Placed(f, v).value = Store(f, v)
  BY DEF Placed, FrameOK, Holds, AtMostOne
<1>2. Holds(Stored(f, v)) /\ Stored(f, v).kind = f.kind /\ Stored(f, v).value = Store(f, v)
  <2>1. Holds(f) /\ FrameOK(f)
    BY DEF Holds
  <2> QED
    BY ONLY <2>1, StoredHolds, StoredFacts
<1>3. Holds(Placed(f, v))
  BY <1>1, <1>2, Zenon DEF Holds
<1> QED
  BY <1>1, <1>3

LEMMA MirrorFacts ==
    ASSUME NEW b, NEW st, NEW fs, Mirrors(b, st, fs)
    PROVE  /\ Len(st) \in Nat /\ DOMAIN st = 1..Len(st) /\ DOMAIN fs = 1..Len(st)
           /\ Len(b) \in Nat /\ DOMAIN b = 1..Len(b)
           /\ \A k \in 1..Len(st) : st[k] \in DOMAIN b /\ FrameOK(fs[k])
           /\ Len(st) = 0 <=> st = <<>>
<1>1. st \in Seq(DOMAIN b)
  BY DEF Mirrors
<1>2. Len(st) \in Nat /\ DOMAIN st = 1..Len(st) /\ (Len(st) = 0 <=> st = <<>>)
      /\ \A k \in 1..Len(st) : st[k] \in DOMAIN b
  BY <1>1
<1>3. DOMAIN fs = 1..Len(st)
  BY CountType DEF Mirrors
<1>4. \A k \in 1..Len(st) : FrameOK(fs[k])
  BY DEF Mirrors, Holds
<1> QED
  BY <1>2, <1>3, <1>4, HeapFacts DEF Mirrors

\* A scalar goes into the innermost container.
LEMMA ScalarMirrors ==
    ASSUME NEW b, NEW st, NEW fs, Mirrors(b, st, fs), st # <<>>,
           NEW key, fs[Len(st)].kind = "{" => fs[Len(st)].key[1] = key,
           NEW x, "ref" \notin DOMAIN x,
           NEW e, e = [b EXCEPT ![st[Len(st)]] = Into(@, key, x)],
           NEW gs, gs = Swapped(fs, Placed(fs[Len(st)], x))
    PROVE  Mirrors(e, st, gs)
<1> DEFINE n == Len(st)
           f == fs[n]
           c == st[n]
           d == Into(b[c], key, x)
<1>1. /\ n \in Nat /\ n > 0 /\ n \in 1..n /\ DOMAIN st = 1..n /\ c \in DOMAIN b
      /\ Holds(f) /\ (IsListed(b[c]) <=> f.kind = "[") /\ IsContainer(b[c]) /\ Stack(fs) /\ Len(fs) = n
      /\ fs # <<>>
  <2>0. Mirrors(b, st, fs) /\ st # <<>>
    OBVIOUS
  <2>1. n \in Nat /\ n # 0 /\ DOMAIN st = 1..n
    BY ONLY <2>0, MirrorFacts
  <2>2. n \in 1..n /\ n > 0
    BY ONLY <2>1
  <2>3. c \in DOMAIN b /\ DOMAIN fs = 1..n
    BY ONLY <2>0, <2>2, MirrorFacts
  <2>4. fs # <<>>
    BY ONLY <2>2, <2>3
  <2> QED
    BY <2>1, <2>2, <2>3, <2>4 DEF Mirrors, Heap
<1>2. e = [b EXCEPT ![c] = d]
  BY <1>1
<1>3. /\ IsContainer(d) /\ (IsListed(d) <=> IsListed(b[c]))
      /\ \A y \in Parts(d) : y \in Parts(b[c]) \/ y = x
      /\ \A w : Contents(w, d) = Into(Contents(w, b[c]), key, Deref(w, x))
  BY ONLY <1>1, IntoFacts
<1> HIDE DEF d
<1>4. /\ Heap(e) /\ DOMAIN e = DOMAIN b
      /\ e[c] = d /\ \A a \in DOMAIN b : a # c => e[a] = b[a]
  <2>1. Heap(b)
    BY DEF Mirrors
  <2>2. \A y \in Parts(d) : Later(b, c, y)
    <3>1. Later(b, c, x)
      BY DEF Later
    <3>2. \A y \in Parts(b[c]) : Later(b, c, y)
      BY <1>1, <2>1 DEF Heap
    <3> QED
      BY <1>3, <3>1, <3>2
  <2> QED
    BY ONLY <1>1, <1>2, <1>3, <2>1, <2>2, HeapPut
<1>5. /\ Holds(Placed(f, x)) /\ Placed(f, x).kind = f.kind /\ Placed(f, x).value = Store(f, x)
      /\ FrameOK(Placed(f, x))
  BY <1>1, PlacedFacts
<1>6. /\ Len(gs) = n /\ gs[n] = Placed(f, x) /\ DOMAIN gs = 1..n
      /\ \A k \in 1..n - 1 : gs[k] = fs[k]
  <2>1. gs = Swapped(fs, Placed(f, x))
    OBVIOUS
  <2> QED
    BY ONLY <1>1, <1>5, <2>1, SwapBelow
<1>7. Stack(gs)
  BY <1>1, <1>5, PopFacts, PushFacts DEF Swapped
<1>10. \A k \in 1..n : st[k] \in DOMAIN b /\ (k # n => k \in 1..n - 1 /\ st[k] # c)
  <2>1. Mirrors(b, st, fs)
    OBVIOUS
  <2>2. \A k \in 1..n : st[k] \in DOMAIN b /\ (k # n => st[k] # c)
    BY ONLY <1>1, <2>1, MirrorFacts DEF Mirrors
  <2>3. \A k \in 1..n : k # n => k \in 1..n - 1
    <3>1. n \in Nat
      BY <1>1
    <3> QED
      BY ONLY <3>1
  <2> QED
    BY <2>2, <2>3
<1>8. ASSUME NEW k \in 1..n
      PROVE  Holds(gs[k]) /\ (IsListed(e[st[k]]) <=> gs[k].kind = "[")
  <2>1. CASE k = n
    BY <1>1, <1>3, <1>4, <1>5, <1>6, <2>1
  <2>2. CASE k # n
    <3>1. k \in 1..n - 1 /\ st[k] # c /\ st[k] \in DOMAIN b
      BY <1>10, <2>2
    <3>2. gs[k] = fs[k] /\ e[st[k]] = b[st[k]]
      BY <1>4, <1>6, <3>1
    <3> QED
      BY <3>2 DEF Mirrors
  <2> QED
    BY <2>1, <2>2
<1>9. ASSUME NEW w, Resolves(w, e, st), NEW k \in 1..n
      PROVE  Contents(w, e[st[k]]) = IF k = n THEN gs[k].value ELSE Store(gs[k], w[st[k + 1]])
  <2>1. Resolves(w, b, st)
    <3>1. ASSUME NEW a \in DOMAIN b, \A j \in DOMAIN st : st[j] # a
          PROVE  w[a] = Contents(w, b[a])
      <4>1. a # c
        BY <1>1, <3>1
      <4>2. e[a] = b[a] /\ a \in DOMAIN e
        BY <1>4, <4>1
      <4> QED
        BY <1>9, <3>1, <4>2 DEF Resolves
    <3> QED
      BY <3>1 DEF Resolves
  <2>2. Contents(w, b[st[k]]) = IF k = n THEN fs[k].value ELSE Store(fs[k], w[st[k + 1]])
    BY <2>1 DEF Mirrors
  <2>3. CASE k = n
    <3>1. Contents(w, d) = Into(f.value, key, Deref(w, x))
      BY <1>3, <2>2, <2>3
    <3>2. Deref(w, x) = x
      BY DEF Deref
    <3>3. Store(f, x) = Into(f.value, key, x)
      BY <1>1, StoreInto
    <3> QED
      BY <1>4, <1>5, <1>6, <2>3, <3>1, <3>2, <3>3
  <2>4. CASE k # n
    <3>1. k \in 1..n - 1 /\ st[k] # c /\ st[k] \in DOMAIN b
      BY <1>10, <2>4
    <3>2. gs[k] = fs[k] /\ e[st[k]] = b[st[k]]
      BY <1>4, <1>6, <3>1
    <3> QED
      BY <2>2, <2>4, <3>2
  <2> QED
    BY <2>3, <2>4
<1> QED
  BY <1>4, <1>6, <1>7, <1>8, <1>9 DEF Mirrors

Fresh(kind) == IF kind = "{" THEN Dict(<<>>) ELSE List(<<>>)

LEMMA FreshFacts ==
    ASSUME NEW kind \in Openers
    PROVE  /\ IsContainer(Fresh(kind)) /\ (IsListed(Fresh(kind)) <=> kind = "[") /\ Parts(Fresh(kind)) = {}
           /\ \A w : Contents(w, Fresh(kind)) = Fresh(kind)
           /\ NewCall(kind).value = Fresh(kind)
<1>1. IsTuple(<<>>) /\ DOMAIN <<>> = {}
  <2>1. IsTuple(<<>>)
    BY ShortTuples
  <2>2. DOMAIN <<>> = {}
    OBVIOUS
  <2> QED
    BY <2>1, <2>2
<1>2. \A w : Mapped(w, <<>>) = <<>>
  <2>1. \A w : Mapped(w, <<>>) = [i \in {} |-> Deref(w, <<>>[i])]
    BY <1>1 DEF Mapped
  <2>2. ASSUME NEW f, DOMAIN f = {}, f = [i \in DOMAIN f |-> f[i]] PROVE f = <<>>
    BY <2>2
  <2> QED
    BY <2>1, <2>2
<1>3. \A w : Contents(w, List(<<>>)) = List(<<>>) /\ Contents(w, Dict(<<>>)) = Dict(<<>>)
  BY <1>2, ContentsOf, Zenon
<1>4. Parts(List(<<>>)) = {} /\ Parts(Dict(<<>>)) = {}
  BY <1>1, ContentsOf
<1>5. kind = "[" \/ (kind = "{" /\ kind # "[")
  BY Zenon DEF Openers
<1>6. NewCall(kind).value = Fresh(kind)
  BY DEF NewCall, Fresh
<1>7. IsListed(List(<<>>)) /\ ~IsListed(Dict(<<>>))
  BY ContentsOf
<1>8. CASE kind = "["
  <2>1. Fresh(kind) = List(<<>>)
    BY <1>8, Zenon DEF Fresh
  <2> QED
    BY <1>1, <1>3, <1>4, <1>6, <1>7, <1>8, <2>1, Zenon DEF IsContainer
<1>9. CASE kind = "{" /\ kind # "["
  <2>1. Fresh(kind) = Dict(<<>>)
    BY <1>9, Zenon DEF Fresh
  <2> QED
    BY <1>3, <1>4, <1>6, <1>7, <1>9, <2>1, Zenon DEF IsContainer
<1> QED
  BY <1>5, <1>8, <1>9

\* A container goes into the innermost one when it opens.
LEMMA OpenMirrors ==
    ASSUME NEW b, NEW st, NEW fs, Mirrors(b, st, fs),
           NEW key, st # <<>> /\ fs[Len(st)].kind = "{" => fs[Len(st)].key[1] = key,
           NEW kind \in Openers,
           NEW x, x = [ref |-> <<Len(b) + 1>>],
           NEW a, a = IF st = <<>> THEN b ELSE [b EXCEPT ![st[Len(st)]] = Into(@, key, x)],
           NEW e, e = Append(a, Fresh(kind)),
           NEW tt, tt = Append(st, Len(b) + 1),
           NEW gs, gs = Append(fs, NewCall(kind))
    PROVE  Mirrors(e, tt, gs)
<1> DEFINE n == Len(st)
           N == Len(b) + 1
<1>0. Mirrors(b, st, fs)
  OBVIOUS
<1>1. /\ n \in Nat /\ DOMAIN st = 1..n /\ Len(b) \in Nat /\ DOMAIN b = 1..Len(b) /\ Heap(b)
      /\ Stack(fs) /\ Len(fs) = n /\ (n = 0 <=> st = <<>>) /\ st \in Seq(DOMAIN b)
  BY ONLY <1>0, MirrorFacts DEF Mirrors
<1>N. n \in Nat /\ Len(b) \in Nat
  BY ONLY <1>1
<1>2. \A k \in 1..n : st[k] \in DOMAIN b /\ FrameOK(fs[k]) /\ Holds(fs[k]) /\ (IsListed(b[st[k]]) <=> fs[k].kind = "[")
  BY ONLY <1>0, MirrorFacts DEF Mirrors
<1>3. \A j \in 1..n, k \in 1..n : j # k => st[j] # st[k]
  BY ONLY <1>0 DEF Mirrors
<1>4. /\ IsContainer(Fresh(kind)) /\ (IsListed(Fresh(kind)) <=> kind = "[") /\ Parts(Fresh(kind)) = {}
      /\ \A w : Contents(w, Fresh(kind)) = Fresh(kind)
      /\ NewCall(kind).value = Fresh(kind)
      /\ Holds(NewCall(kind)) /\ NewCall(kind).kind = kind /\ FrameOK(NewCall(kind))
  <2>1. kind \in Openers
    OBVIOUS
  <2> QED
    BY ONLY <2>1, FreshFacts, NewCallHolds DEF Holds
<1>5. /\ Len(tt) = n + 1 /\ DOMAIN tt = 1..n + 1 /\ tt[n + 1] = N /\ \A k \in 1..n : tt[k] = st[k]
      /\ tt \in Seq(1..N)
  <2>1. tt = Append(st, N)
    OBVIOUS
  <2>2. st \in Seq(1..N)
    <3>1. DOMAIN b \subseteq 1..N
      BY ONLY <1>1
    <3> QED
      BY ONLY <1>1, <3>1
  <2>3. N \in 1..N
    BY ONLY <1>1
  <2> HIDE DEF N
  <2> QED
    BY ONLY <1>1, <2>1, <2>2, <2>3
<1>6. /\ Len(gs) = n + 1 /\ Stack(gs) /\ gs[n + 1] = NewCall(kind) /\ \A k \in 1..n : gs[k] = fs[k]
  <2>1. gs = Append(fs, NewCall(kind))
    OBVIOUS
  <2> QED
    BY ONLY <1>1, <1>4, <2>1, PushFacts, PushBelow
\* What the containers are.
<1>7. /\ Heap(e) /\ DOMAIN e = 1..N /\ e[N] = Fresh(kind)
      /\ \A c \in DOMAIN b : (\A k \in 1..n : st[k] # c) => e[c] = b[c]
      /\ \A k \in 1..n : k # n => e[st[k]] = b[st[k]]
      /\ n > 0 => e[st[n]] = Into(b[st[n]], key, x)
  <2> DEFINE u == Append(b, Fresh(kind))
  <2>1. /\ Heap(u) /\ DOMAIN u = 1..N /\ u[N] = Fresh(kind) /\ \A c \in DOMAIN b : u[c] = b[c]
    <3>1. u = Append(b, Fresh(kind))
      OBVIOUS
    <3> HIDE DEF u
    <3> QED
      <4>1. Heap(b) /\ IsContainer(Fresh(kind)) /\ Parts(Fresh(kind)) = {}
        BY <1>1, <1>4
      <4> QED
        <5>1. Heap(u)
          BY ONLY <3>1, <4>1, HeapAppend
        <5>2. DOMAIN u = 1..N
          BY ONLY <3>1, <4>1, HeapAppend
        <5>3. u[N] = Fresh(kind)
          BY ONLY <3>1, <4>1, HeapAppend
        <5>4. \A c \in DOMAIN b : u[c] = b[c]
          BY ONLY <3>1, <4>1, HeapAppend
        <5> QED
          BY <5>1, <5>2, <5>3, <5>4
  <2>2. CASE st = <<>>
    <3>1. e = u /\ n = 0
      BY <1>1, <2>2
    <3>2. \A k \in 1..n : FALSE
      BY ONLY <3>1
    <3> HIDE DEF u
    <3> QED
      BY ONLY <1>1, <2>1, <3>1, <3>2
  <2>3. CASE st # <<>>
    <3> DEFINE c == st[n]
               d == Into(b[c], key, x)
    <3>1. n \in 1..n /\ n > 0 /\ c \in DOMAIN b /\ IsContainer(b[c])
      <4>1. n \in 1..n /\ n > 0
        BY ONLY <1>1, <2>3
      <4> QED
        BY ONLY <1>1, <1>2, <4>1 DEF Heap
    <3>2. e = [u EXCEPT ![c] = d]
      <4> DEFINE S == {b[i] : i \in DOMAIN b} \cup {d, Fresh(kind)}
      <4>1. b \in Seq(S) /\ d \in S /\ Fresh(kind) \in S
        BY ONLY <1>1 DEF Heap, IsTuple
      <4>2. a = [b EXCEPT ![c] = d] /\ e = Append(a, Fresh(kind))
        BY <2>3
      <4> HIDE DEF S, d, c
      <4>3. c \in 1..Len(b)
        BY ONLY <1>1, <3>1
      <4>4. Append([b EXCEPT ![c] = d], Fresh(kind)) = [Append(b, Fresh(kind)) EXCEPT ![c] = d]
        <5> DEFINE F == Fresh(kind)
                   v == [b EXCEPT ![c] = d]
                   t == Append(b, F)
                   y == Append(v, F)
                   z == [t EXCEPT ![c] = d]
        <5>0. F \in S
          BY <4>1
        <5> HIDE DEF F
        <5>4. v \in Seq(S) /\ Len(v) = Len(b) /\ \A i \in 1..Len(b) : v[i] = IF i = c THEN d ELSE b[i]
          BY ONLY <4>1, <4>3
        <5>5. t \in Seq(S) /\ Len(t) = Len(b) + 1 /\ DOMAIN t = 1..Len(b) + 1
              /\ t[Len(b) + 1] = F /\ \A i \in 1..Len(b) : t[i] = b[i]
          BY ONLY <4>1, <5>0
        <5>6. c \in 1..Len(b) + 1 /\ c # Len(b) + 1
          BY ONLY <1>N, <4>3
        <5> HIDE DEF v, t
        <5>1. /\ y \in Seq(S) /\ Len(y) = Len(b) + 1
              /\ z \in Seq(S) /\ Len(z) = Len(b) + 1
          BY ONLY <4>1, <5>0, <5>4, <5>5, <5>6
        <5>2. ASSUME NEW i \in 1..Len(b) + 1 PROVE y[i] = z[i]
          <6>1. i \in 1..Len(b) \/ i = Len(b) + 1
            BY ONLY <1>N, <5>2
          <6>2. CASE i \in 1..Len(b)
            <7>1. y[i] = v[i]
              BY ONLY <1>N, <5>0, <5>4, <6>2
            <7>2. z[i] = IF i = c THEN d ELSE t[i]
              BY ONLY <5>2, <5>5
            <7> QED
              BY ONLY <5>4, <5>5, <6>2, <7>1, <7>2
          <6>3. CASE i = Len(b) + 1
            <7>1. y[i] = F
              BY ONLY <1>N, <5>0, <5>4, <6>3
            <7>2. z[i] = IF i = c THEN d ELSE t[i]
              BY ONLY <5>2, <5>5
            <7> QED
              BY ONLY <5>5, <5>6, <6>3, <7>1, <7>2
          <6> QED
            BY <6>1, <6>2, <6>3
        <5> HIDE DEF y, z
        <5>3. y = z
          BY ONLY <5>1, <5>2
        <5> QED
          BY <5>3 DEF y, z, v, t, F
      <4> QED
        BY <4>2, <4>4
    <3>3. /\ IsContainer(d)
          /\ \A y \in Parts(d) : y \in Parts(b[c]) \/ y = x
      BY ONLY <3>1, IntoFacts
    <3> HIDE DEF d
    <3>4. \A y \in Parts(d) : Later(u, c, y)
      <4>1. Later(u, c, x)
        <5>1. x.ref[1] = N
          OBVIOUS
        <5>2. N \in 1..N /\ N > c
          BY ONLY <1>1, <3>1
        <5> QED
          BY ONLY <2>1, <5>1, <5>2 DEF Later
      <4>2. \A y \in Parts(b[c]) : Later(b, c, y)
        BY ONLY <1>1, <3>1 DEF Heap
      <4>3. \A y : Later(b, c, y) => Later(u, c, y)
        <5>1. DOMAIN b \subseteq DOMAIN u
          BY ONLY <1>1, <2>1
        <5> QED
          BY ONLY <5>1 DEF Later
      <4> QED
        BY ONLY <3>3, <4>1, <4>2, <4>3
    <3> HIDE DEF u
    <3>5. c \in DOMAIN u
      BY ONLY <1>1, <2>1, <3>1
    <3>6. /\ Heap(e) /\ DOMAIN e = DOMAIN u
          /\ e[c] = d /\ \A i \in DOMAIN u : i # c => e[i] = u[i]
      BY ONLY <2>1, <3>2, <3>3, <3>4, <3>5, HeapPut
    <3>7. N \in DOMAIN u /\ N # c /\ DOMAIN b \subseteq DOMAIN u
      BY ONLY <1>1, <2>1, <3>1
    <3>8. \A k \in 1..n : k # n => st[k] # c /\ st[k] \in DOMAIN b
      BY ONLY <1>2, <1>3, <3>1
    <3> QED
      BY ONLY <2>1, <3>1, <3>6, <3>7, <3>8 DEF d
  <2> QED
    BY <2>2, <2>3
<1>8. \A j \in 1..n + 1, k \in 1..n + 1 : j # k => tt[j] # tt[k]
  <2>1. \A k \in 1..n : tt[k] # N
    BY ONLY <1>1, <1>2, <1>5
  <2>2. \A k \in 1..n + 1 : k \in 1..n \/ k = n + 1
    BY ONLY <1>1
  <2> QED
    BY ONLY <1>3, <1>5, <2>1, <2>2
<1>9. ASSUME NEW k \in 1..n + 1
      PROVE  Holds(gs[k]) /\ (IsListed(e[tt[k]]) <=> gs[k].kind = "[")
  <2>1. k \in 1..n \/ k = n + 1
    BY ONLY <1>1, <1>9
  <2>2. CASE k = n + 1
    BY <1>4, <1>5, <1>6, <1>7, <2>2, Zenon
  <2>3. CASE k \in 1..n /\ k # n
    BY ONLY <1>2, <1>5, <1>6, <1>7, <2>3, Zenon
  <2>4. CASE k \in 1..n /\ k = n
    <3>1. n > 0
      BY ONLY <1>1, <2>4
    <3>2. IsContainer(b[st[n]])
      BY ONLY <1>1, <1>2, <2>4 DEF Heap
    <3>3. IsListed(Into(b[st[n]], key, x)) <=> IsListed(b[st[n]])
      BY ONLY <3>2, IntoFacts
    <3> QED
      <4>1. e[tt[k]] = Into(b[st[n]], key, x) /\ gs[k] = fs[n]
        BY ONLY <1>5, <1>6, <1>7, <2>4, <3>1
      <4>2. Holds(fs[n]) /\ (IsListed(b[st[n]]) <=> fs[n].kind = "[")
        BY ONLY <1>2, <2>4
      <4> QED
        BY <3>3, <4>1, <4>2
  <2> QED
    BY <2>1, <2>2, <2>3, <2>4
<1>10. ASSUME NEW w, Resolves(w, e, tt), NEW k \in 1..n + 1
       PROVE  Contents(w, e[tt[k]]) = IF k = n + 1 THEN gs[k].value ELSE Store(gs[k], w[tt[k + 1]])
  <2>1. Resolves(w, b, st)
    <3>1. ASSUME NEW c \in DOMAIN b, \A j \in DOMAIN st : st[j] # c
          PROVE  w[c] = Contents(w, b[c])
      <4>1. e[c] = b[c] /\ c \in DOMAIN e /\ c # N
        <5>1. e[c] = b[c]
          BY ONLY <1>1, <1>7, <3>1
        <5>2. c \in 1..Len(b)
          BY ONLY <1>1, <3>1
        <5>3. c \in 1..N /\ c # N
          BY ONLY <1>N, <5>2
        <5> QED
          BY <1>7, <5>1, <5>3
      <4>2. \A j \in DOMAIN tt : tt[j] # c
        <5>1. \A j \in 1..n + 1 : j \in 1..n \/ j = n + 1
          BY ONLY <1>1
        <5> QED
          BY ONLY <1>1, <1>5, <3>1, <4>1, <5>1
      <4>3. w[c] = Contents(w, e[c])
        BY ONLY <1>10, <4>1, <4>2 DEF Resolves
      <4> QED
        BY ONLY <4>1, <4>3
    <3> QED
      BY ONLY <3>1 DEF Resolves
  <2>2. \A j \in 1..n : Contents(w, b[st[j]]) = IF j = n THEN fs[j].value ELSE Store(fs[j], w[st[j + 1]])
    BY ONLY <1>0, <2>1 DEF Mirrors
  <2>3. k \in 1..n \/ k = n + 1
    BY ONLY <1>1, <1>10
  <2>4. CASE k = n + 1
    BY <1>4, <1>5, <1>6, <1>7, <2>4, Zenon
  <2>5. CASE k \in 1..n /\ k # n
    <3>1. k # n + 1 /\ k + 1 \in 1..n
      BY ONLY <1>N, <2>5
    <3>2. Contents(w, b[st[k]]) = Store(fs[k], w[st[k + 1]])
      BY ONLY <2>2, <2>5
    <3> QED
      BY ONLY <1>5, <1>6, <1>7, <2>5, <3>1, <3>2
  <2>6. CASE k \in 1..n /\ k = n
    <3>1. n > 0 /\ k # n + 1
      BY ONLY <1>N, <2>6
    <3>2. IsContainer(b[st[n]])
      BY ONLY <1>1, <1>2, <2>6 DEF Heap
    <3>3. Contents(w, Into(b[st[n]], key, x)) = Into(Contents(w, b[st[n]]), key, Deref(w, x))
      BY ONLY <3>2, IntoFacts
    <3>4. Contents(w, b[st[n]]) = fs[n].value
      BY ONLY <2>2, <2>6
    <3>5. Deref(w, x) = w[N]
      BY DEF Deref
    <3>6. Store(fs[n], w[N]) = Into(fs[n].value, key, w[N])
      <4>1. Holds(fs[n])
        BY ONLY <1>2, <2>6
      <4>2. fs[n].kind = "{" => fs[n].key[1] = key
        <5>1. n # 0
          BY ONLY <1>N, <3>1
        <5>2. st # <<>>
          BY <1>1, <5>1
        <5> QED
          BY <5>2
      <4> HIDE DEF N
      <4> QED
        BY ONLY <4>1, <4>2, StoreInto
    <3>7. e[tt[k]] = Into(b[st[n]], key, x) /\ gs[k] = fs[n] /\ tt[k + 1] = N
      BY ONLY <1>5, <1>6, <1>7, <2>6, <3>1
    <3> QED
      BY ONLY <3>1, <3>3, <3>4, <3>5, <3>6, <3>7
  <2> QED
    BY <2>3, <2>4, <2>5, <2>6
<1>11. tt \in Seq(DOMAIN e)
  BY ONLY <1>5, <1>7
<1> QED
  BY ONLY <1>5, <1>6, <1>7, <1>8, <1>9, <1>10, <1>11 DEF Mirrors

\* The innermost container closes into the one below it, which has it already.
LEMMA CloseMirrors ==
    ASSUME NEW b, NEW st, NEW fs, Mirrors(b, st, fs), Len(st) > 1,
           NEW tt, tt = SubSeq(st, 1, Len(st) - 1),
           NEW bs, bs = SubSeq(fs, 1, Len(fs) - 1),
           NEW gs, gs = Swapped(bs, Placed(fs[Len(st) - 1], fs[Len(st)].value))
    PROVE  Mirrors(b, tt, gs)
<1> DEFINE n == Len(st)
           m == n - 1
           g == Placed(fs[m], fs[n].value)
<1>0. Mirrors(b, st, fs)
  OBVIOUS
<1>N. n \in Nat /\ n > 1
  <2>1. n > 1
    OBVIOUS
  <2> QED
    BY ONLY <1>0, <2>1, MirrorFacts
<1>M. m \in Nat /\ m > 0 /\ m + 1 = n /\ m \in 1..m /\ m \in 1..n /\ n \in 1..n /\ n # m /\ \A k \in 1..m : k \in 1..n
  BY ONLY <1>N
<1>1. /\ DOMAIN st = 1..n /\ Heap(b) /\ Stack(fs) /\ Len(fs) = n /\ st \in Seq(DOMAIN b)
  BY ONLY <1>0, MirrorFacts DEF Mirrors
<1>2. \A k \in 1..n : st[k] \in DOMAIN b /\ FrameOK(fs[k]) /\ Holds(fs[k]) /\ (IsListed(b[st[k]]) <=> fs[k].kind = "[")
  BY ONLY <1>0, MirrorFacts DEF Mirrors
<1>3. \A j \in 1..n, k \in 1..n : j # k => st[j] # st[k]
  BY ONLY <1>0 DEF Mirrors
<1>4. Holds(g) /\ g.kind = fs[m].kind /\ g.value = Store(fs[m], fs[n].value) /\ FrameOK(g)
  <2>1. Holds(fs[m])
    BY ONLY <1>2, <1>M
  <2> QED
    BY ONLY <2>1, PlacedFacts
<1>5. tt \in Seq(DOMAIN b) /\ Len(tt) = m /\ DOMAIN tt = 1..m /\ \A k \in 1..m : tt[k] = st[k]
  <2>1. tt = SubSeq(st, 1, m)
    OBVIOUS
  <2> HIDE DEF m
  <2>2. \A k \in 1..m : st[k] \in DOMAIN b
    BY <1>2, <1>M
  <2>3. /\ tt \in Seq(DOMAIN b) /\ Len(tt) = m
        /\ \A k \in 1..m : tt[k] = st[k]
    BY ONLY <1>N, <1>M, <1>1, <2>1
  <2> QED
    BY ONLY <2>3
<1>6. /\ bs # <<>> /\ Stack(bs) /\ Len(bs) = m /\ \A k \in 1..m : bs[k] = fs[k]
  <2>1. bs = SubSeq(fs, 1, n - 1) /\ fs # <<>>
    <3>1. Len(fs) # 0
      BY ONLY <1>1, <1>N
    <3> QED
      BY <1>1, <3>1
  <2>2. Stack(bs) /\ Len(bs) = m
    BY ONLY <1>1, <2>1, PopFacts
  <2>3. \A k \in 1..m : bs[k] = fs[k]
    BY ONLY <1>1, <2>1, PopBelow
  <2>4. bs # <<>>
    <3>1. Len(bs) # 0
      <4>1. Len(bs) = m /\ m > 0 /\ m \in Nat
        BY <1>M, <2>2
      <4> HIDE DEF m
      <4> QED
        BY ONLY <4>1
    <3> QED
      BY ONLY <3>1
  <2> QED
    BY <2>2, <2>3, <2>4
<1>7. Stack(gs) /\ Len(gs) = m /\ gs[m] = g /\ \A k \in 1..m : k # m => gs[k] = fs[k]
  <2>1. gs = Swapped(bs, g)
    OBVIOUS
  <2>2. Len(gs) = m /\ gs[m] = g /\ \A k \in 1..m - 1 : gs[k] = bs[k]
    BY ONLY <1>4, <1>6, <2>1, SwapBelow
  <2>3. Stack(gs)
    BY ONLY <1>4, <1>6, <2>1, PopFacts, PushFacts DEF Swapped
  <2>4. \A k \in 1..m : k # m => k \in 1..m - 1
    BY ONLY <1>N
  <2> QED
    BY ONLY <1>6, <2>2, <2>3, <2>4
<1>8. \A j \in 1..m, k \in 1..m : j # k => tt[j] # tt[k]
  BY ONLY <1>3, <1>5, <1>M
<1>9. ASSUME NEW k \in 1..m
      PROVE  Holds(gs[k]) /\ (IsListed(b[tt[k]]) <=> gs[k].kind = "[")
  <2>1. CASE k = m
    <3>1. gs[k] = g /\ tt[k] = st[m]
      BY ONLY <1>5, <1>7, <1>M, <2>1
    <3>2. IsListed(b[st[m]]) <=> fs[m].kind = "["
      BY ONLY <1>2, <1>M
    <3> HIDE DEF g, m
    <3> QED
      BY ONLY <1>4, <3>1, <3>2
  <2>2. CASE k # m
    BY <1>2, <1>5, <1>7, <1>M, <2>2, Zenon
  <2> QED
    BY <2>1, <2>2
<1>10. ASSUME NEW w, Resolves(w, b, tt), NEW k \in 1..m
       PROVE  Contents(w, b[tt[k]]) = IF k = m THEN gs[k].value ELSE Store(gs[k], w[tt[k + 1]])
  <2>1. Resolves(w, b, st)
    BY ONLY <1>1, <1>5, <1>M, <1>10 DEF Resolves
  <2>2. \A j \in 1..n : Contents(w, b[st[j]]) = IF j = n THEN fs[j].value ELSE Store(fs[j], w[st[j + 1]])
    BY ONLY <1>0, <2>1 DEF Mirrors
  <2>3. w[st[n]] = fs[n].value
    <3>1. \A j \in DOMAIN tt : tt[j] # st[n]
      <4>1. \A j \in 1..m : j \in 1..n /\ j # n
        BY ONLY <1>N
      <4> QED
        BY ONLY <1>3, <1>5, <1>M, <4>1
    <3>2. w[st[n]] = Contents(w, b[st[n]])
      BY ONLY <1>2, <1>10, <1>M, <3>1 DEF Resolves
    <3> QED
      BY ONLY <1>M, <2>2, <3>2
  <2>4. CASE k = m
    <3>1. Contents(w, b[st[m]]) = Store(fs[m], w[st[m + 1]])
      BY ONLY <1>M, <2>2
    <3>2. Contents(w, b[st[m]]) = Store(fs[m], fs[n].value)
      BY ONLY <1>M, <2>3, <3>1
    <3> HIDE DEF m, g
    <3> QED
      BY ONLY <1>4, <1>5, <1>7, <1>M, <2>4, <3>2
  <2>5. CASE k # m
    <3>1. k \in 1..n /\ k # n /\ k + 1 \in 1..m
      BY ONLY <1>N, <1>10, <2>5
    <3>2. Contents(w, b[st[k]]) = Store(fs[k], w[st[k + 1]])
      BY ONLY <2>2, <3>1
    <3>3. tt[k] = st[k] /\ tt[k + 1] = st[k + 1] /\ gs[k] = fs[k]
      BY ONLY <1>5, <1>7, <1>10, <2>5, <3>1
    <3> QED
      BY ONLY <2>5, <3>2, <3>3
  <2> QED
    BY <2>4, <2>5
<1> QED
  BY ONLY <1>1, <1>5, <1>7, <1>8, <1>9, <1>10 DEF Mirrors

\* When the outermost container closes, it stands for what its call holds.
LEMMA ClosedMirrors ==
    ASSUME NEW b, NEW st, NEW fs, Mirrors(b, st, fs), Len(st) = 1,
           NEW w, Resolves(w, b, <<>>)
    PROVE  w[st[1]] = fs[1].value
<1>1. st[1] \in DOMAIN b /\ DOMAIN st = 1..1 /\ 1 \in 1..Len(st)
  <2>1. 1 \in 1..Len(st)
    OBVIOUS
  <2> QED
    BY <2>1, MirrorFacts
<1>2. DOMAIN <<>> = {}
  OBVIOUS
<1>3. \A c \in DOMAIN b : w[c] = Contents(w, b[c])
  BY <1>2 DEF Resolves
<1>4. Resolves(w, b, st)
  BY <1>3 DEF Resolves
<1>5. Contents(w, b[st[1]]) = fs[1].value
  BY <1>1, <1>4 DEF Mirrors
<1> QED
  BY <1>1, <1>3, <1>5

-----------------------------------------------------------------------------
(* The containers together stand for something, as none contains itself.      *)

LEMMA SameContents ==
    ASSUME NEW d, NEW v, NEW w, \A x \in Parts(d) : Deref(v, x) = Deref(w, x)
    PROVE  Contents(v, d) = Contents(w, d)
<1>1. CASE IsListed(d)
  <2>1. \A i \in DOMAIN d.list : Deref(v, d.list[i]) = Deref(w, d.list[i])
    BY <1>1 DEF Parts
  <2>2. [i \in DOMAIN d.list |-> Deref(v, d.list[i])] = [i \in DOMAIN d.list |-> Deref(w, d.list[i])]
    BY <2>1, Zenon
  <2> QED
    BY <1>1, <2>2 DEF Contents, IsListed
<1>2. CASE ~IsListed(d)
  <2>1. \A i \in DOMAIN d.dict : Deref(v, d.dict[i]) = Deref(w, d.dict[i])
    BY <1>2 DEF Parts
  <2>2. [i \in DOMAIN d.dict |-> Deref(v, d.dict[i])] = [i \in DOMAIN d.dict |-> Deref(w, d.dict[i])]
    BY <2>1, Zenon
  <2> QED
    BY <1>2, <2>2 DEF Contents, IsListed
<1> QED
  BY <1>1, <1>2

\* w has what every container behind i stands for.
ResolvesBehind(w, b, i) ==
    DOMAIN w = DOMAIN b /\ \A c \in DOMAIN b : c > i => w[c] = Contents(w, b[c])

LEMMA ResolvedBehind ==
    ASSUME NEW b, Heap(b), NEW n \in Nat
    PROVE  \E w : w = [c \in DOMAIN b |-> w[c]] /\ ResolvesBehind(w, b, Len(b) - n)
<1> DEFINE G(w, i) == w = [c \in DOMAIN b |-> w[c]] /\ ResolvesBehind(w, b, i)
           S == {m \in Nat : \E w : G(w, Len(b) - m)}
<1>1. Len(b) \in Nat /\ DOMAIN b = 1..Len(b)
  BY HeapFacts
<1>2. 0 \in S
  <2> DEFINE w == [c \in DOMAIN b |-> 0]
  <2>1. w = [c \in DOMAIN b |-> w[c]] /\ DOMAIN w = DOMAIN b
    OBVIOUS
  <2>2. \A c \in DOMAIN b : ~(c > Len(b) - 0)
    BY ONLY <1>1
  <2> HIDE DEF w
  <2>3. G(w, Len(b) - 0)
    BY <2>1, <2>2 DEF ResolvesBehind
  <2> QED
    BY <2>3
<1>3. ASSUME NEW m \in Nat, m \in S PROVE m + 1 \in S
  <2> DEFINE i == Len(b) - m
  <2>1. PICK w : G(w, i)
    BY <1>3
  <2>2. i \in Int /\ Len(b) - (m + 1) = i - 1
    BY ONLY <1>1, m \in Nat
  <2> HIDE DEF i
  <2>3. CASE i \notin DOMAIN b
    <3>1. \A c \in DOMAIN b : c > i - 1 => c > i
      BY ONLY <1>1, <2>2, <2>3
    <3>2. G(w, i - 1)
      BY <2>1, <3>1 DEF ResolvesBehind
    <3> QED
      BY <2>2, <3>2
  <2>4. CASE i \in DOMAIN b
    <3> DEFINE v == [c \in DOMAIN b |-> IF c = i THEN Contents(w, b[i]) ELSE w[c]]
    <3>1. /\ v = [c \in DOMAIN b |-> v[c]] /\ DOMAIN v = DOMAIN b /\ v[i] = Contents(w, b[i])
          /\ \A c \in DOMAIN b : c # i => v[c] = w[c]
      BY <2>4
    <3> HIDE DEF v
    <3>2. ASSUME NEW c \in DOMAIN b, c > i - 1 PROVE Contents(v, b[c]) = Contents(w, b[c])
      <4>1. ASSUME NEW x \in Parts(b[c]) PROVE Deref(v, x) = Deref(w, x)
        <5>1. Later(b, c, x)
          BY <4>1 DEF Heap
        <5>2. "ref" \in DOMAIN x => x.ref[1] \in DOMAIN b /\ x.ref[1] # i
          <6>1. ASSUME x.ref[1] \in DOMAIN b, x.ref[1] > c PROVE x.ref[1] # i
            BY ONLY <1>1, <2>2, <3>2, <6>1
          <6> QED
            BY <5>1, <6>1 DEF Later
        <5> QED
          BY <3>1, <5>2 DEF Deref
      <4> QED
        BY <4>1, SameContents
    <3>3. ASSUME NEW c \in DOMAIN b, c > i - 1 PROVE v[c] = Contents(v, b[c])
      <4>1. c = i \/ c > i
        BY ONLY <1>1, <2>2, <3>3
      <4>2. CASE c = i
        BY <3>1, <3>2, <3>3, <4>2
      <4>3. CASE c > i
        <5>1. c # i
          BY ONLY <1>1, <2>2, <3>3, <4>3
        <5>2. w[c] = Contents(w, b[c])
          BY <2>1, <4>3 DEF ResolvesBehind
        <5> QED
          BY <3>1, <3>2, <3>3, <5>1, <5>2
      <4> QED
        BY <4>1, <4>2, <4>3
    <3>4. G(v, i - 1)
      BY <3>1, <3>3 DEF ResolvesBehind
    <3> QED
      BY <2>2, <3>4
  <2> QED
    BY <2>3, <2>4
<1>4. Nat \subseteq S
  <2> HIDE DEF S
  <2> QED
    BY <1>2, <1>3, SetInduction
<1> QED
  BY <1>4

LEMMA WholeResolves ==
    ASSUME Heap(built)
    PROVE  \E w : Resolves(w, built, <<>>) /\ \A x : Whole(x) = Deref(w, x)
<1> DEFINE Good(w) == w = [v \in DOMAIN built |-> Contents(w, built[v])]
           e == CHOOSE w : Good(w)
<1>1. \A x : Whole(x) = Deref(e, x)
  BY DEF Whole
<1>2. \E w : Good(w)
  <2>1. Len(built) \in Nat /\ DOMAIN built = 1..Len(built)
    BY HeapFacts
  <2>2. PICK w : w = [c \in DOMAIN built |-> w[c]] /\ ResolvesBehind(w, built, Len(built) - Len(built))
    BY <2>1, ResolvedBehind
  <2>3. \A c \in DOMAIN built : w[c] = Contents(w, built[c])
    <3>1. \A c \in DOMAIN built : c > Len(built) - Len(built)
      BY ONLY <2>1
    <3> QED
      BY <2>2, <3>1 DEF ResolvesBehind
  <2>4. [c \in DOMAIN built |-> w[c]] = [c \in DOMAIN built |-> Contents(w, built[c])]
    BY <2>3, Zenon
  <2> QED
    BY <2>2, <2>4
<1> HIDE DEF Good
<1>3. Good(e)
  BY <1>2
<1> HIDE DEF e
<1>4. Resolves(e, built, <<>>)
  BY <1>3 DEF Good, Resolves
<1> QED
  BY <1>1, <1>4

-----------------------------------------------------------------------------
(* The columns walk, row by row: its containers are those of the calls that   *)
(* parse the text up to the same place.                                      *)

\* One key waits at most, for the innermost container.
Keys(st, pd) ==
    /\ pd \in Seq(AtMostOne(Texts)) /\ Len(pd) = Len(st) + 1
    /\ \A k \in 1..Len(st) : pd[k] = <<>>

\* The containers b, open as st, with the keys pd, are those of the calls fs.
Builds(b, st, pd, s, fs, m, W, h, p) ==
    /\ Mirrors(b, st, fs) /\ Keys(st, pd)
    /\ Fits(s, W, m, fs, h, p) /\ Between(fs, m)
    /\ m = "colon" => pd[Len(pd)] # <<>> /\ pd[Len(pd)] = fs[Len(fs)].key
    /\ m # "colon" => pd[Len(pd)] = <<>>

Ongoing ==
    /\ root = <<>>
    /\ \E fs, m, W, h : Builds(built, stack, pending, read, fs, m, W, h, row + 1)

Finished ==
    /\ stack = <<>> /\ root = <<root[1]>> /\ Heap(built)
    /\ \A w : Resolves(w, built, <<>>) => Values(read, 1) = {<<Deref(w, root[1]), row + 1>>}

LEMMA RowDue ==
    ASSUME read \in Seq(Token), IsJson(read), row \in 0..Len(read),
           NEW fs, Len(fs) \in Nat, NEW m, NEW W, NEW h,
           Fits(read, W, m, fs, h, row + 1), Between(fs, m)
    PROVE  /\ Ahead # {} /\ NextRow \in row + 1..Len(read) /\ At(read, NextRow, Row) /\ Row \in Token
           /\ \E b, V : /\ Fits(read, V, b, fs, h, NextRow)
                        /\ \/ DueValue(fs, m, b, Row.kind)
                           \/ DueKey(fs, m, b, Row.kind)
                           \/ DueEnd(fs, m, b, Row.kind)
<1>1. Len(read) \in Nat /\ DOMAIN read = 1..Len(read)
  BY InText
<1>2. Values(read, 1) # {}
  BY NoMeaning DEF IsJson
<1>3. row + 1 \in 1..Len(read) + 1 /\ row \in Nat
  BY <1>1
<1>4. PICK q : Onto(read, fs, m, h, row + 1, q)
  BY <1>2, <1>3, NextRowOf
<1>5. q \in 1..Len(read) /\ (q = row + 1 \/ (q = row + 1 + 1 /\ KindAt(read, row + 1) \in Passed))
      /\ KindAt(read, q) \notin Passed \union {"end", "none"}
  BY <1>4 DEF Onto
<1>6. \A i \in 1..Len(read) : KindAt(read, i) = read[i].kind
  BY <1>1 DEF KindAt
<1>7. q \in Ahead /\ \A i \in Ahead : i >= q
  <2>1. q \in RowPlaces
    <3>1. read[q].kind \notin {":", ",", "end"}
      BY <1>5, <1>6, Zenon DEF Passed
    <3> QED
      BY <1>1, <1>5, <3>1, Zenon DEF RowPlaces
  <2>2. q > row
    BY ONLY <1>3, <1>5
  <2>3. ASSUME NEW i \in Ahead PROVE i >= q
    <3>1. i \in 1..Len(read) /\ read[i].kind \notin {":", ",", "end"} /\ i > row
      BY <1>1, <2>3, Zenon DEF Ahead, RowPlaces
    <3>2. KindAt(read, i) \notin Passed
      BY <1>6, <3>1, Zenon DEF Passed
    <3>3. KindAt(read, row + 1) \in Passed => i # row + 1
      BY <3>2, Zenon
    <3> QED
      <4>1. q = row + 1 \/ (q = row + 1 + 1 /\ i # row + 1)
        BY <1>5, <3>3
      <4>2. i \in Nat /\ i > row /\ row \in Nat
        <5>1. i \in 1..Len(read) /\ i > row
          BY <3>1, Zenon
        <5> QED
          BY ONLY <1>1, <1>3, <5>1
      <4> QED
        BY ONLY <4>1, <4>2
  <2> QED
    BY <2>1, <2>2, <2>3 DEF Ahead
<1>8. NextRow = q
  <2>1. \A i \in Ahead : i \in Int
    <3>1. \A i \in Ahead : i \in DOMAIN read
      BY Zenon DEF Ahead, RowPlaces
    <3> QED
      BY ONLY <1>1, <3>1
  <2>2. \A x \in Ahead : (\A y \in Ahead : x <= y) => x = q
    BY <1>7, <2>1
  <2>3. \A y \in Ahead : q <= y
    BY <1>7, <2>1
  <2>4. Min(Ahead) = q
    BY <1>7, <2>2, <2>3 DEF Min
  <2> QED
    BY <2>4 DEF NextRow
<1>9. Row = read[q] /\ Row \in Token /\ KindAt(read, q) = Row.kind
  BY <1>1, <1>5, <1>6, <1>8 DEF Row
<1>10. At(read, q, Row)
  BY <1>5, <1>9, Zenon DEF At
<1>11. \E b, V : /\ Fits(read, V, b, fs, h, q)
                 /\ \/ DueValue(fs, m, b, Row.kind)
                    \/ DueKey(fs, m, b, Row.kind)
                    \/ DueEnd(fs, m, b, Row.kind)
  BY <1>4, <1>9, Zenon DEF Onto
<1>12. q \in row + 1..Len(read)
  BY ONLY <1>1, <1>3, <1>5
<1> QED
  BY <1>7, <1>8, <1>9, <1>10, <1>11, <1>12

\* What the pending keys are after a change.
LEMMA KeysSet ==
    ASSUME NEW st, Len(st) \in Nat, NEW pd, Keys(st, pd), NEW k \in AtMostOne(Texts),
           NEW e, e = [pd EXCEPT ![Len(pd)] = k]
    PROVE  Keys(st, e) /\ e[Len(e)] = k
<1>1. pd \in Seq(AtMostOne(Texts)) /\ Len(pd) = Len(st) + 1 /\ \A i \in 1..Len(st) : pd[i] = <<>>
  BY DEF Keys
<1>2. /\ e \in Seq(AtMostOne(Texts)) /\ Len(e) = Len(pd) /\ e[Len(pd)] = k
      /\ \A i \in 1..Len(st) : e[i] = pd[i]
  BY ONLY <1>1, Len(st) \in Nat, k \in AtMostOne(Texts), e = [pd EXCEPT ![Len(pd)] = k]
<1> QED
  BY ONLY <1>1, <1>2 DEF Keys

LEMMA KeysAppend ==
    ASSUME NEW st, Len(st) \in Nat, NEW pd, Keys(st, pd), pd[Len(pd)] = <<>>,
           NEW e, e = Append(pd, <<>>), NEW tt, Len(tt) = Len(st) + 1
    PROVE  Keys(tt, e) /\ e[Len(e)] = <<>>
<1>1. pd \in Seq(AtMostOne(Texts)) /\ Len(pd) = Len(st) + 1 /\ \A i \in 1..Len(st) : pd[i] = <<>>
  BY DEF Keys
<1>2. <<>> \in AtMostOne(Texts)
  BY DEF AtMostOne
<1>3. /\ e \in Seq(AtMostOne(Texts)) /\ Len(e) = Len(pd) + 1 /\ e[Len(e)] = <<>>
      /\ \A i \in 1..Len(pd) : e[i] = pd[i]
  BY ONLY <1>1, <1>2, e = Append(pd, <<>>)
<1>4. \A i \in 1..Len(tt) : i \in 1..Len(st) \/ i = Len(pd)
  BY ONLY <1>1, Len(tt) = Len(st) + 1, Len(st) \in Nat
<1>5. \A i \in 1..Len(tt) : i \in 1..Len(pd)
  BY ONLY <1>1, Len(tt) = Len(st) + 1
<1>6. pd[Len(pd)] = <<>> /\ Len(tt) = Len(st) + 1
  OBVIOUS
<1> QED
  BY ONLY <1>1, <1>3, <1>4, <1>5, <1>6 DEF Keys

LEMMA KeysFront ==
    ASSUME NEW st, Len(st) \in Nat, Len(st) > 0, NEW pd, Keys(st, pd),
           NEW e, e = Front(pd), NEW tt, Len(tt) = Len(st) - 1
    PROVE  Keys(tt, e) /\ e[Len(e)] = <<>>
<1>1. pd \in Seq(AtMostOne(Texts)) /\ Len(pd) = Len(st) + 1 /\ \A i \in 1..Len(st) : pd[i] = <<>>
  BY DEF Keys
<1>2. Len(st) \in Nat /\ Len(st) > 0 /\ Len(tt) = Len(st) - 1
  OBVIOUS
<1>3. e = SubSeq(pd, 1, Len(st))
  <2>1. e = SubSeq(pd, 1, Len(pd) - 1)
    BY DEF Front
  <2> QED
    BY ONLY <1>1, <1>2, <2>1
<1>4. e \in Seq(AtMostOne(Texts)) /\ Len(e) = Len(st) /\ \A i \in 1..Len(st) : e[i] = pd[i]
  BY ONLY <1>1, <1>2, <1>3
<1>5. \A i \in 1..Len(tt) : i \in 1..Len(st)
  BY ONLY <1>2
<1>6. Len(st) \in 1..Len(st)
  BY ONLY <1>2
<1> QED
  BY ONLY <1>1, <1>2, <1>4, <1>5, <1>6 DEF Keys

\* A key does not change what its container holds.
LEMMA KeyMirrors ==
    ASSUME NEW b, NEW st, NEW fs, Mirrors(b, st, fs), st # <<>>,
           NEW k \in Texts, NEW gs, gs = Swapped(fs, Keyed(fs[Len(st)], k))
    PROVE  /\ Mirrors(b, st, gs) /\ Len(gs) = Len(fs) /\ gs[Len(fs)] = Keyed(fs[Len(fs)], k)
           /\ \A i \in 1..Len(fs) - 1 : gs[i] = fs[i]
<1> DEFINE n == Len(st)
           f == fs[n]
           g == Keyed(f, k)
<1>0. Mirrors(b, st, fs)
  OBVIOUS
<1>1. /\ n \in Nat /\ n > 0 /\ Len(fs) = n /\ Stack(fs)
  <2>1. n \in Nat /\ n # 0 /\ Len(fs) = n /\ Stack(fs)
    BY MirrorFacts DEF Mirrors
  <2> QED
    BY ONLY <2>1
<1>2. n \in 1..n /\ fs # <<>>
  BY ONLY <1>1
<1>3. Holds(f)
  BY ONLY <1>0, <1>2 DEF Mirrors
<1>4. Holds(g) /\ g.kind = f.kind /\ g.value = f.value /\ FrameOK(g)
  BY <1>3, KeyedFacts DEF Holds
<1>5. gs = Swapped(fs, g)
  OBVIOUS
<1> HIDE DEF g
<1>6. Len(gs) = n /\ gs[n] = g /\ \A i \in 1..n - 1 : gs[i] = fs[i]
  BY ONLY <1>1, <1>2, <1>4, <1>5, SwapBelow
<1>7. Stack(gs)
  BY ONLY <1>1, <1>2, <1>4, <1>5, PopFacts, PushFacts DEF Swapped
<1>8. \A i \in 1..n : i # n => gs[i] = fs[i]
  <2>1. \A i \in 1..n : i # n => i \in 1..n - 1
    BY ONLY <1>1
  <2> QED
    BY ONLY <1>6, <2>1
<1>9. \A i \in 1..n : Holds(gs[i]) /\ (IsListed(b[st[i]]) <=> gs[i].kind = "[")
  <2>1. \A i \in 1..n : Holds(fs[i]) /\ (IsListed(b[st[i]]) <=> fs[i].kind = "[")
    BY ONLY <1>0 DEF Mirrors
  <2> QED
    BY ONLY <1>4, <1>6, <1>8, <2>1
<1>10. ASSUME NEW w, Resolves(w, b, st), NEW i \in 1..n
       PROVE  Contents(w, b[st[i]]) = IF i = n THEN gs[i].value ELSE Store(gs[i], w[st[i + 1]])
  <2>1. Contents(w, b[st[i]]) = IF i = n THEN fs[i].value ELSE Store(fs[i], w[st[i + 1]])
    BY ONLY <1>0, <1>10 DEF Mirrors
  <2> QED
    BY ONLY <1>4, <1>6, <1>8, <1>10, <2>1
<1>11. Mirrors(b, st, gs)
  BY ONLY <1>0, <1>6, <1>7, <1>9, <1>10 DEF Mirrors
<1> QED
  BY <1>1, <1>6, <1>11 DEF g

LEMMA BuildsFacts ==
    ASSUME NEW s, NEW fs, NEW m, NEW W, NEW h, NEW p, Builds(built, stack, pending, s, fs, m, W, h, p)
    PROVE  /\ Mirrors(built, stack, fs) /\ Keys(stack, pending) /\ Between(fs, m)
           /\ Len(stack) \in Nat /\ Len(fs) = Len(stack) /\ Stack(fs) /\ Heap(built)
           /\ stack = <<>> <=> Len(stack) = 0
           /\ stack # <<>> => /\ Len(stack) > 0 /\ fs # <<>> /\ Holds(fs[Len(stack)]) /\ FrameOK(fs[Len(stack)])
                              /\ Innermost \in DOMAIN built /\ Innermost = stack[Len(stack)]
                              /\ IsContainer(built[Innermost])
           /\ InList <=> stack # <<>> /\ fs[Len(stack)].kind = "["
           /\ m = "colon" => PendingKey # <<>> /\ PendingKey = fs[Len(stack)].key
           /\ m # "colon" => PendingKey = <<>>
<1>1. Mirrors(built, stack, fs) /\ Keys(stack, pending) /\ Between(fs, m)
  BY DEF Builds
<1>2. /\ Len(stack) \in Nat /\ Len(fs) = Len(stack) /\ Stack(fs) /\ Heap(built)
      /\ (stack = <<>> <=> Len(stack) = 0)
  BY ONLY <1>1, MirrorFacts DEF Mirrors
<1>3. ASSUME stack # <<>>
      PROVE  /\ Len(stack) > 0 /\ Len(stack) \in 1..Len(stack)
             /\ Holds(fs[Len(stack)]) /\ FrameOK(fs[Len(stack)])
             /\ stack[Len(stack)] \in DOMAIN built /\ IsContainer(built[stack[Len(stack)]])
             /\ (IsListed(built[stack[Len(stack)]]) <=> fs[Len(stack)].kind = "[")
             /\ fs # <<>>
  <2>1. Len(stack) > 0 /\ Len(stack) \in 1..Len(stack)
    BY ONLY <1>2, <1>3
  <2>2. /\ Holds(fs[Len(stack)]) /\ FrameOK(fs[Len(stack)])
        /\ stack[Len(stack)] \in DOMAIN built
        /\ (IsListed(built[stack[Len(stack)]]) <=> fs[Len(stack)].kind = "[")
    BY ONLY <1>1, <2>1, MirrorFacts DEF Mirrors
  <2>3. fs # <<>>
    <3>1. Len(fs) # 0
      BY ONLY <1>2, <2>1
    <3> QED
      BY ONLY <3>1
  <2> QED
    BY <1>2, <2>1, <2>2, <2>3 DEF Heap
<1>4. /\ m = "colon" => PendingKey # <<>> /\ PendingKey = fs[Len(stack)].key
      /\ m # "colon" => PendingKey = <<>>
  BY <1>2, Zenon DEF Builds, PendingKey
<1>5. InList <=> stack # <<>> /\ fs[Len(stack)].kind = "["
  BY <1>3 DEF InList, IsListed, Innermost
<1> QED
  BY <1>1, <1>2, <1>3, <1>4, <1>5 DEF Innermost

\* What an open container receives.
LEMMA ReceivedInto ==
    ASSUME stack # <<>>, Innermost \in DOMAIN built, InList \/ PendingKey # <<>>, NEW x
    PROVE  Received(x) = [built EXCEPT ![stack[Len(stack)]] = Into(@, PendingKey[1], x)]
<1> DEFINE c == stack[Len(stack)]
<1>1. CASE InList
  <2>1. Into(built[c], PendingKey[1], x) = List(Append(built[c].list, x))
    BY <1>1 DEF InList, IsListed, Into, Innermost
  <2>2. Received(x) = [built EXCEPT ![c] = List(Append(built[c].list, x))]
    BY <1>1 DEF Received, Innermost
  <2> QED
    BY <2>1, <2>2
<1>2. CASE ~InList
  <2>1. Into(built[c], PendingKey[1], x) = Dict(Put(built[c].dict, PendingKey[1], x))
    BY <1>2 DEF InList, IsListed, Into, Innermost
  <2>2. Received(x) = [built EXCEPT ![c] = Dict(Put(built[c].dict, PendingKey[1], x))]
    BY <1>2 DEF Received, Innermost
  <2> QED
    BY <2>1, <2>2
<1> QED
  BY <1>1, <1>2

\* Where a value is due, a key waits in a dict and none in a list.
LEMMA DueFacts ==
    ASSUME NEW s, NEW fs, NEW m, NEW W, NEW h, NEW p, Builds(built, stack, pending, s, fs, m, W, h, p),
           NEW b, NEW k, DueValue(fs, m, b, k)
    PROVE  /\ stack # <<>> => InList \/ PendingKey # <<>>
           /\ stack # <<>> /\ fs[Len(stack)].kind = "{" => fs[Len(stack)].key[1] = PendingKey[1]
           /\ InList \/ stack = <<>> => PendingKey = <<>>
           /\ \A x : Keys(stack, PendingAfter(x)) /\ PendingAfter(x)[Len(PendingAfter(x))] = <<>>
<1>1. stack # <<>> => fs[Len(stack)].kind = "[" \/ (fs[Len(stack)].kind = "{" /\ fs[Len(stack)].kind # "[" /\ m = "colon")
  <2> SUFFICES ASSUME stack # <<>>
               PROVE  fs[Len(stack)].kind = "[" \/ (fs[Len(stack)].kind = "{" /\ fs[Len(stack)].kind # "[" /\ m = "colon")
    OBVIOUS
  <2>1. Len(fs) = Len(stack) /\ Len(fs) > 0 /\ FrameOK(fs[Len(stack)])
    BY BuildsFacts
  <2>2. fs[Len(stack)].kind = "[" \/ (fs[Len(stack)].kind = "{" /\ fs[Len(stack)].kind # "[")
    BY <2>1, Zenon DEF FrameOK, Openers
  <2> QED
    BY <2>1, <2>2, Zenon DEF DueValue
<1>2. stack # <<>> => InList \/ PendingKey # <<>>
  BY <1>1, BuildsFacts
<1>3. stack # <<>> /\ fs[Len(stack)].kind = "{" => fs[Len(stack)].key[1] = PendingKey[1]
  <2>1. stack # <<>> /\ fs[Len(stack)].kind = "{" => m = "colon"
    <3>1. "{" # "["
      OBVIOUS
    <3> QED
      BY <1>1, <3>1, Zenon
  <2> QED
    BY <2>1, BuildsFacts
<1>4. InList \/ stack = <<>> => PendingKey = <<>>
  <2>1. InList \/ stack = <<>> => m # "colon"
    <3>1. CASE stack = <<>>
      <4>1. ~(Len(fs) > 0)
        BY <3>1, BuildsFacts
      <4> QED
        BY <4>1, BuildsFacts, Zenon DEF Between
    <3>2. CASE InList
      <4>1. stack # <<>> /\ fs[Len(stack)].kind = "[" /\ Len(fs) = Len(stack) /\ Between(fs, m)
        BY <3>2, BuildsFacts
      <4> QED
        BY <4>1, Zenon DEF Between
    <3> QED
      BY <3>1, <3>2
  <2> QED
    BY <2>1, BuildsFacts
<1>5. Keys(stack, pending) /\ Len(stack) \in Nat
  BY BuildsFacts
<1>6. ASSUME NEW x PROVE Keys(stack, PendingAfter(x)) /\ PendingAfter(x)[Len(PendingAfter(x))] = <<>>
  <2>1. CASE InList \/ stack = <<>>
    <3>1. PendingAfter(x) = pending
      BY <2>1 DEF PendingAfter
    <3>2. pending[Len(pending)] = <<>>
      BY <1>4, <2>1 DEF PendingKey
    <3> QED
      BY <1>5, <3>1, <3>2
  <2>2. CASE ~(InList \/ stack = <<>>)
    <3>1. PendingAfter(x) = [pending EXCEPT ![Len(pending)] = <<>>]
      BY <1>2, <2>2 DEF PendingAfter, SetPending
    <3>2. <<>> \in AtMostOne(Texts)
      BY DEF AtMostOne
    <3> QED
      BY ONLY <1>5, <3>1, <3>2, KeysSet
  <2> QED
    BY <2>1, <2>2
<1> QED
  BY <1>2, <1>3, <1>4, <1>6

\* The text behind the row, by what the walk has then.
RowStep ==
    /\ read \in Seq(Token) /\ read' = read /\ root = <<>>
    /\ row' = NextRow /\ At(read, NextRow, Row) /\ Row \in Token

LEMMA ScalarStep ==
    ASSUME RowStep, ScalarRow, NEW fs, NEW m, NEW W, NEW h,
           Builds(built, stack, pending, read, fs, m, W, h, row + 1),
           NEW b, NEW V, Fits(read, V, b, fs, h, NextRow), DueValue(fs, m, b, Row.kind)
    PROVE  Ongoing' \/ Finished'
<1> DEFINE x == Atom(Row)
           y == <<x>>
           n == Len(stack)
<1>0. /\ n \in Nat /\ Len(fs) = n /\ (stack = <<>> <=> n = 0) /\ Heap(built) /\ Mirrors(built, stack, fs)
      /\ Stack(fs)
  BY BuildsFacts
<1>1. /\ Row.kind \in ScalarKinds /\ stack' = stack
      /\ pending' = PendingAfter(x) /\ read' = read /\ row' = NextRow /\ root = <<>>
  BY DEF ScalarRow, RowStep
<1>2. PICK U : Fits(read, U, "place", fs, y, NextRow + 1)
  <2>1. At(read, NextRow, Row)
    BY DEF RowStep
  <2>2. Awaits(b, fs, Row.kind) /\ y = <<Atom(Row)>>
    BY DEF DueValue
  <2>3. Fits(read, V, b, fs, h, NextRow)
    OBVIOUS
  <2> HIDE DEF y
  <2> QED
    BY ONLY <1>0, <1>1, <2>1, <2>2, <2>3, ScalarFits
<1>3. "ref" \notin DOMAIN x /\ \A w : Deref(w, x) = x
  <2>1. "ref" \notin DOMAIN x
    BY DEF Atom
  <2> QED
    BY <2>1 DEF Deref
<1>4. CASE stack = <<>>
  <2>1. root' = <<x>> /\ built' = built
    BY <1>4 DEF ScalarRow
  <2>2. Values(read, 1) = {<<x, NextRow + 1>>}
    <3>1. Len(fs) = 0
      BY <1>0, <1>4
    <3>2. y[1] = x
      OBVIOUS
    <3> HIDE DEF x, y
    <3>3. Linked(read, fs, U, 0) /\ U[0] = {<<y[1], NextRow + 1>>}
      BY ONLY <1>2, <3>1 DEF Fits
    <3> QED
      BY ONLY <3>2, <3>3 DEF Linked
  <2>3. root'[1] = x /\ root' = <<root'[1]>>
    BY <2>1
  <2> HIDE DEF x
  <2>4. Finished'
    BY <1>0, <1>1, <1>3, <1>4, <2>1, <2>2, <2>3 DEF Finished
  <2> QED
    BY <2>4
<1>5. CASE stack # <<>>
  <2> DEFINE gs == Swapped(fs, Placed(fs[n], x))
  <2>1. root' = <<>> /\ built' = Received(x)
    BY <1>1, <1>5 DEF ScalarRow
  <2>2. /\ n > 0 /\ fs # <<>> /\ Holds(fs[n]) /\ FrameOK(fs[n]) /\ Innermost \in DOMAIN built
    BY <1>5, BuildsFacts
  <2>3. InList \/ PendingKey # <<>>
    BY <1>5, DueFacts
  <2>4. fs[n].kind = "{" => fs[n].key[1] = PendingKey[1]
    BY <1>5, DueFacts
  <2>5. Keys(stack, pending') /\ pending'[Len(pending')] = <<>>
    BY <1>1, DueFacts
  <2>6. built' = [built EXCEPT ![stack[n]] = Into(@, PendingKey[1], x)]
    BY <1>5, <2>1, <2>2, <2>3, ReceivedInto
  <2>7. Mirrors(built', stack, gs)
    <3> HIDE DEF x
    <3> QED
      BY ONLY <1>0, <1>3, <1>5, <2>4, <2>6, ScalarMirrors
  <2>8. /\ Holds(Placed(fs[n], x)) /\ Placed(fs[n], x).kind = fs[n].kind
        /\ Placed(fs[n], x).value = Store(fs[n], x) /\ FrameOK(Placed(fs[n], x))
    BY ONLY <2>2, PlacedFacts
  <2>9. /\ Len(gs) = n /\ gs[n] = Placed(fs[n], x) /\ \A k \in 1..n - 1 : gs[k] = fs[k]
    <3>1. gs = Swapped(fs, Placed(fs[n], x))
      OBVIOUS
    <3> HIDE DEF gs, x
    <3> QED
      BY ONLY <1>0, <2>2, <2>8, <3>1, SwapBelow
  <2> HIDE DEF gs
  <2>10. PICK Z : Fits(read, Z, "after", gs, h, NextRow + 1)
    <3>1. y[1] = x
      OBVIOUS
    <3> HIDE DEF x, y
    <3>2. /\ Len(fs) \in Nat /\ Len(fs) > 0 /\ FrameOK(fs[Len(fs)]) /\ Len(gs) = Len(fs)
          /\ gs[Len(fs)].kind = fs[Len(fs)].kind /\ gs[Len(fs)].value = Store(fs[Len(fs)], y[1])
          /\ \A k \in 1..Len(fs) - 1 : gs[k] = fs[k]
      BY ONLY <1>0, <2>2, <2>8, <2>9, <3>1
    <3> QED
      BY ONLY <1>2, <3>2, PlaceFits
  <2>11. Between(gs, "after")
    <3>1. Len(gs) > 0 /\ Holds(gs[Len(gs)])
      BY <2>2, <2>8, <2>9
    <3> QED
      BY ONLY <3>1, Zenon DEF Between
  <2>12. Builds(built', stack', pending', read', gs, "after", Z, h, row' + 1)
    BY <1>1, <2>5, <2>7, <2>10, <2>11, Zenon DEF Builds
  <2>13. Ongoing'
    BY <2>1, <2>12, Zenon DEF Ongoing
  <2> QED
    BY <2>13
<1> QED
  BY <1>4, <1>5

LEMMA KeyStepRow ==
    ASSUME RowStep, ScalarRow, NEW fs, NEW m, NEW W, NEW h,
           Builds(built, stack, pending, read, fs, m, W, h, row + 1),
           NEW b, NEW V, Fits(read, V, b, fs, h, NextRow), DueKey(fs, m, b, Row.kind)
    PROVE  Ongoing'
<1> DEFINE n == Len(stack)
           k == Row.text
           gs == Swapped(fs, Keyed(fs[n], k))
<1>0. /\ n \in Nat /\ Len(fs) = n /\ (stack = <<>> <=> n = 0) /\ Mirrors(built, stack, fs)
      /\ Stack(fs) /\ Keys(stack, pending)
  BY BuildsFacts
<1>1. b \in {"key", "first"} /\ Row.kind = "str" /\ fs[n].kind = "{" /\ m # "colon" /\ n > 0
  BY <1>0, Zenon DEF DueKey
<1>2. stack # <<>> /\ Holds(fs[n]) /\ ~InList /\ PendingKey = <<>>
  <2>1. stack # <<>>
    <3>1. n \in Nat /\ n > 0 /\ (stack = <<>> <=> n = 0)
      BY <1>0, <1>1
    <3> QED
      BY ONLY <3>1
  <2>2. fs[n].kind # "["
    BY <1>1, Zenon
  <2> QED
    BY <1>1, <2>1, <2>2, BuildsFacts
<1>3. k \in Texts /\ Atom(Row).atom[2] = k
  <2>1. Row \in Token
    BY DEF RowStep
  <2>2. k \in Texts
    BY <1>1, <2>1 DEF Token, Punctuation, Openers
  <2> QED
    BY <2>2 DEF Atom
<1>4. /\ stack' = stack /\ built' = built /\ read' = read /\ row' = NextRow /\ root' = <<>>
      /\ pending' = [pending EXCEPT ![Len(pending)] = <<k>>]
  <2>1. /\ stack' = stack /\ built' = Received(Atom(Row)) /\ root' = root
        /\ pending' = PendingAfter(Atom(Row))
    BY <1>2 DEF ScalarRow
  <2>2. Received(Atom(Row)) = built
    BY <1>2 DEF Received
  <2>3. PendingAfter(Atom(Row)) = [pending EXCEPT ![Len(pending)] = <<k>>]
    BY <1>2, <1>3 DEF PendingAfter, SetPending
  <2> QED
    BY <2>1, <2>2, <2>3 DEF RowStep
<1>5. Keys(stack, pending') /\ pending'[Len(pending')] = <<k>>
  <2>1. <<k>> \in AtMostOne(Texts)
    BY <1>3 DEF AtMostOne
  <2>2. pending' = [pending EXCEPT ![Len(pending)] = <<k>>]
    BY <1>4
  <2> DEFINE q == <<k>>
  <2> HIDE DEF q
  <2>3. q \in AtMostOne(Texts) /\ pending' = [pending EXCEPT ![Len(pending)] = q]
    BY <2>1, <2>2 DEF q
  <2>4. Keys(stack, pending') /\ pending'[Len(pending')] = q
    <3>1. Keys(stack, pending) /\ Len(stack) \in Nat
      BY <1>0
    <3>2. PICK e : e = pending'
      OBVIOUS
    <3>3. e = [pending EXCEPT ![Len(pending)] = q]
      BY <2>3, <3>2
    <3>4. Keys(stack, e) /\ e[Len(e)] = q
      BY ONLY <2>3, <3>1, <3>3, KeysSet
    <3> QED
      BY <3>2, <3>4
  <2> QED
    BY <2>4 DEF q
<1>6. /\ Mirrors(built, stack, gs) /\ Len(gs) = Len(fs) /\ gs[Len(fs)] = Keyed(fs[Len(fs)], k)
      /\ \A i \in 1..Len(fs) - 1 : gs[i] = fs[i]
  <2>1. gs = Swapped(fs, Keyed(fs[n], k))
    OBVIOUS
  <2> HIDE DEF gs, k
  <2> QED
    BY ONLY <1>0, <1>2, <1>3, <2>1, KeyMirrors
<1>7. /\ Holds(Keyed(fs[n], k)) /\ Keyed(fs[n], k).key = <<k>> /\ Keyed(fs[n], k).kind = fs[n].kind
  <2> HIDE DEF k
  <2> QED
    BY ONLY <1>2, <1>3, KeyedFacts
<1> HIDE DEF gs
<1>8. PICK U : Fits(read, U, "colon", gs, h, NextRow + 1)
  <2>1. At(read, NextRow, Row) /\ Fits(read, V, b, fs, h, NextRow)
    BY DEF RowStep
  <2>2. /\ Len(fs) \in Nat /\ Len(fs) > 0 /\ b \in {"key", "first"} /\ Row.kind = "str" /\ Row.text \in Texts
        /\ Holds(fs[Len(fs)]) /\ fs[Len(fs)].kind = "{"
        /\ Len(gs) = Len(fs) /\ gs[Len(fs)] = Keyed(fs[Len(fs)], Row.text)
        /\ \A i \in 1..Len(fs) - 1 : gs[i] = fs[i]
    BY <1>0, <1>1, <1>2, <1>3, <1>6
  <2> HIDE DEF n, k
  <2> QED
    BY ONLY <2>1, <2>2, KeyFits
<1>9. Between(gs, "colon")
  <2>1. Len(gs) > 0 /\ Holds(gs[Len(gs)]) /\ gs[Len(gs)].kind = "{"
    BY <1>0, <1>1, <1>6, <1>7
  <2> QED
    BY ONLY <2>1, Zenon DEF Between
<1>10. pending'[Len(pending')] # <<>> /\ pending'[Len(pending')] = gs[Len(gs)].key
  <2>1. gs[Len(gs)].key = <<k>>
    BY <1>0, <1>6, <1>7
  <2> QED
    BY <1>5, <2>1
<1>11. Builds(built', stack', pending', read', gs, "colon", U, h, row' + 1)
  BY <1>4, <1>5, <1>6, <1>8, <1>9, <1>10, Zenon DEF Builds
<1> QED
  BY <1>4, <1>11, Zenon DEF Ongoing

LEMMA OpenRowBuilds ==
    ASSUME RowStep, OpenRow, NEW fs, NEW m, NEW W, NEW h,
           Builds(built, stack, pending, read, fs, m, W, h, row + 1),
           NEW b, NEW V, Fits(read, V, b, fs, h, NextRow), DueValue(fs, m, b, Row.kind)
    PROVE  Ongoing'
<1> DEFINE n == Len(stack)
           kind == Row.kind
           ref == [ref |-> <<Len(built) + 1>>]
           a == IF stack = <<>> THEN built ELSE [built EXCEPT ![stack[n]] = Into(@, PendingKey[1], ref)]
           gs == Append(fs, NewCall(kind))
<1>0. /\ n \in Nat /\ Len(fs) = n /\ (stack = <<>> <=> n = 0) /\ Mirrors(built, stack, fs)
      /\ Stack(fs)
  BY BuildsFacts
<1>1. /\ kind \in Openers /\ read' = read /\ row' = NextRow /\ root' = <<>>
      /\ stack' = Append(stack, Len(built) + 1) /\ pending' = Append(PendingAfter(ref), <<>>)
      /\ built' = Append(IF stack = <<>> THEN built ELSE Received(ref), Fresh(kind))
  BY DEF OpenRow, RowStep, Fresh
<1>2. /\ stack # <<>> /\ fs[n].kind = "{" => fs[n].key[1] = PendingKey[1]
      /\ Keys(stack, PendingAfter(ref)) /\ PendingAfter(ref)[Len(PendingAfter(ref))] = <<>>
  BY DueFacts
<1>3. built' = Append(a, Fresh(kind))
  <2>1. stack # <<>> => Received(ref) = [built EXCEPT ![stack[n]] = Into(@, PendingKey[1], ref)]
    <3> SUFFICES ASSUME stack # <<>>
                 PROVE  Received(ref) = [built EXCEPT ![stack[n]] = Into(@, PendingKey[1], ref)]
      OBVIOUS
    <3>1. (InList \/ PendingKey # <<>>) /\ Innermost \in DOMAIN built
      BY BuildsFacts, DueFacts
    <3> HIDE DEF ref
    <3> QED
      BY <3>1, ReceivedInto
  <2> HIDE DEF ref, kind
  <2> QED
    BY <1>1, <2>1
<1>4. Mirrors(built', stack', gs)
  <2>1. stack' = Append(stack, Len(built) + 1) /\ gs = Append(fs, NewCall(kind)) /\ ref = [ref |-> <<Len(built) + 1>>]
        /\ a = IF stack = <<>> THEN built ELSE [built EXCEPT ![stack[n]] = Into(@, PendingKey[1], ref)]
    BY <1>1
  <2> HIDE DEF kind, ref, a, gs
  <2> QED
    BY ONLY <1>0, <1>1, <1>2, <1>3, <2>1, OpenMirrors
<1>5. /\ Len(stack') = n + 1
      /\ Keys(stack', pending') /\ pending'[Len(pending')] = <<>>
  <2> DEFINE pd == PendingAfter(ref)
  <2>1. Keys(stack, pd) /\ pd[Len(pd)] = <<>> /\ pending' = Append(pd, <<>>)
    BY <1>1, <1>2
  <2>2. Len(stack') = n + 1
    <3>1. stack \in Seq(DOMAIN built)
      BY <1>0 DEF Mirrors
    <3>2. stack \in Seq(DOMAIN built \cup {Len(built) + 1})
      BY ONLY <3>1
    <3> QED
      BY ONLY <1>1, <3>2
  <2> HIDE DEF pd
  <2>3. PICK e : e = pending'
    OBVIOUS
  <2>4. PICK tt : tt = stack'
    OBVIOUS
  <2>5. e = Append(pd, <<>>) /\ Len(tt) = Len(stack) + 1 /\ Len(stack) \in Nat
    BY <1>0, <2>1, <2>2, <2>3, <2>4
  <2>6. Keys(tt, e) /\ e[Len(e)] = <<>>
    BY ONLY <2>1, <2>5, KeysAppend
  <2> QED
    BY <2>2, <2>3, <2>4, <2>6
<1>6. Holds(NewCall(kind)) /\ FrameOK(NewCall(kind))
  <2> HIDE DEF kind
  <2> QED
    BY <1>1, NewCallHolds DEF Holds
<1>7. /\ Len(gs) = Len(fs) + 1 /\ gs[Len(fs) + 1] = NewCall(kind)
      /\ \A k \in 1..Len(fs) : gs[k] = fs[k]
  <2>1. gs = Append(fs, NewCall(kind))
    OBVIOUS
  <2> HIDE DEF gs
  <2> QED
    BY ONLY <1>0, <1>6, <2>1, PushFacts, PushBelow
<1> HIDE DEF gs
<1>8. PICK U : Fits(read, U, "first", gs, h, NextRow + 1)
  <2>1. At(read, NextRow, Row) /\ Awaits(b, fs, Row.kind) /\ Fits(read, V, b, fs, h, NextRow) /\ Len(fs) \in Nat
    BY <1>0 DEF RowStep, DueValue
  <2>2. Row.kind \in Openers /\ gs[Len(fs) + 1] = NewCall(Row.kind)
    BY <1>1, <1>7
  <2> QED
    BY ONLY <1>7, <2>1, <2>2, OpenFits
<1>9. Between(gs, "first")
  <2>1. Len(gs) > 0 /\ Holds(gs[Len(gs)])
    <3>1. Len(gs) = Len(fs) + 1 /\ Len(fs) \in Nat
      BY <1>0, <1>7
    <3>2. Len(gs) > 0
      BY ONLY <3>1
    <3> QED
      BY <1>6, <1>7, <3>2
  <2> QED
    BY ONLY <2>1, Zenon DEF Between
<1>10. Builds(built', stack', pending', read', gs, "first", U, h, row' + 1)
  BY <1>1, <1>4, <1>5, <1>8, <1>9, Zenon DEF Builds
<1> QED
  BY <1>1, <1>10, Zenon DEF Ongoing

LEMMA CloseRowBuilds ==
    ASSUME RowStep, CloseRow, NEW fs, NEW m, NEW W, NEW h,
           Builds(built, stack, pending, read, fs, m, W, h, row + 1),
           NEW b, NEW V, Fits(read, V, b, fs, h, NextRow), DueEnd(fs, m, b, Row.kind)
    PROVE  Ongoing' \/ Finished'
<1> DEFINE n == Len(stack)
           bs == SubSeq(fs, 1, Len(fs) - 1)
           y == <<fs[n].value>>
<1>0. /\ n \in Nat /\ Len(fs) = n /\ (stack = <<>> <=> n = 0) /\ Mirrors(built, stack, fs)
      /\ Stack(fs) /\ Keys(stack, pending) /\ Heap(built)
  BY BuildsFacts
<1>1. /\ b \in {"first", "after"} /\ Row.kind = Closer(fs[n]) /\ n > 0
  BY <1>0, Zenon DEF DueEnd
<1>2. stack # <<>> /\ fs # <<>> /\ Holds(fs[n])
  <2>1. stack # <<>>
    <3>1. n \in Nat /\ n > 0 /\ (stack = <<>> <=> n = 0)
      BY <1>0, <1>1
    <3> QED
      BY ONLY <3>1
  <2> QED
    BY <2>1, BuildsFacts
<1>3. /\ read' = read /\ row' = NextRow /\ built' = built /\ root = <<>>
      /\ stack' = SubSeq(stack, 1, n - 1) /\ pending' = Front(pending)
      /\ root' = IF stack' = <<>> THEN <<[ref |-> <<stack[n]>>]>> ELSE <<>>
  BY DEF CloseRow, RowStep, Front, Innermost
<1>4. /\ Stack(bs) /\ Len(bs) = n - 1 /\ \A k \in 1..n - 1 : bs[k] = fs[k]
  <2>1. bs = SubSeq(fs, 1, Len(fs) - 1)
    OBVIOUS
  <2> HIDE DEF bs
  <2> QED
    BY ONLY <1>0, <1>2, <2>1, PopFacts, PopBelow
<1>5. /\ Len(stack') = n - 1 /\ (stack' = <<>> <=> n = 1)
      /\ Keys(stack', pending') /\ pending'[Len(pending')] = <<>>
  <2>1. stack \in Seq(DOMAIN built) /\ n \in Nat /\ n > 0
    BY <1>0, <1>1 DEF Mirrors
  <2>2. Len(stack') = n - 1 /\ (stack' = <<>> <=> n = 1)
    <3>1. SubSeq(stack, 1, n - 1) \in Seq(DOMAIN built) /\ Len(SubSeq(stack, 1, n - 1)) = n - 1
      <4>1. PICK k, d : k = n /\ d = DOMAIN built
        OBVIOUS
      <4>2. PICK u : u = stack
        OBVIOUS
      <4>3. u \in Seq(d) /\ k = Len(u) /\ k \in Nat /\ k > 0
        BY <2>1, <4>1, <4>2
      <4>4. SubSeq(u, 1, k - 1) \in Seq(d) /\ Len(SubSeq(u, 1, k - 1)) = k - 1
        BY ONLY <4>3
      <4> QED
        BY <4>1, <4>2, <4>4
    <3>2. PICK tt : tt = SubSeq(stack, 1, n - 1)
      OBVIOUS
    <3>3. Len(tt) = n - 1 /\ tt \in Seq(DOMAIN built)
      BY <3>1, <3>2
    <3>4. tt = <<>> <=> n = 1
      BY ONLY <2>1, <3>3
    <3> QED
      BY <1>3, <3>2, <3>3, <3>4
  <2>3. PICK e : e = pending'
    OBVIOUS
  <2>4. PICK tt : tt = stack'
    OBVIOUS
  <2>5. e = Front(pending) /\ Len(tt) = Len(stack) - 1 /\ Len(stack) \in Nat /\ Len(stack) > 0
    BY <1>3, <2>1, <2>2, <2>3, <2>4
  <2>6. Keys(tt, e) /\ e[Len(e)] = <<>>
    BY ONLY <1>0, <2>5, KeysFront
  <2> QED
    BY <2>2, <2>3, <2>4, <2>6
<1>6. PICK U : Fits(read, U, "place", bs, y, NextRow + 1)
  <2>1. At(read, NextRow, Row) /\ Fits(read, V, b, fs, h, NextRow) /\ Len(fs) \in Nat /\ Len(fs) > 0
    BY <1>0, <1>1 DEF RowStep
  <2>2. Row.kind = Closer(fs[Len(fs)]) /\ y = <<fs[Len(fs)].value>> /\ Len(bs) = Len(fs) - 1
        /\ \A k \in 1..Len(fs) - 1 : bs[k] = fs[k]
    BY <1>0, <1>1, <1>4
  <2>3. b \in {"first", "after"}
    BY <1>1
  <2> HIDE DEF bs, y
  <2> QED
    BY ONLY <2>1, <2>2, <2>3, CloseFits
<1>7. CASE n = 1
  <2> DEFINE x == [ref |-> <<stack[1]>>]
  <2>1. stack' = <<>> /\ root' = <<x>>
    BY <1>3, <1>5, <1>7
  <2>2. Values(read, 1) = {<<fs[1].value, NextRow + 1>>}
    <3>1. Len(bs) = 0
      BY <1>4, <1>7
    <3>2. y[1] = fs[1].value
      BY <1>7
    <3> HIDE DEF bs, y
    <3>3. Linked(read, bs, U, 0) /\ U[0] = {<<y[1], NextRow + 1>>}
      BY ONLY <1>6, <3>1 DEF Fits
    <3> QED
      BY ONLY <3>2, <3>3 DEF Linked
  <2>3. root'[1] = x /\ root' = <<root'[1]>>
    BY <2>1
  <2>4. \A w : Deref(w, x) = w[stack[1]]
    BY DEF Deref
  <2>5. \A w : Resolves(w, built, <<>>) => w[stack[1]] = fs[1].value
    <3>1. Mirrors(built, stack, fs) /\ Len(stack) = 1
      BY <1>0, <1>7
    <3> QED
      BY ONLY <3>1, ClosedMirrors
  <2> HIDE DEF x
  <2>6. \A w : Resolves(w, built', <<>>) => Values(read', 1) = {<<Deref(w, root'[1]), row' + 1>>}
    <3>1. \A w : Resolves(w, built, <<>>) => fs[1].value = Deref(w, x)
      BY <2>4, <2>5
    <3> QED
      BY <1>3, <2>2, <2>3, <3>1
  <2>7. Finished'
    BY <1>0, <1>3, <2>1, <2>3, <2>6 DEF Finished
  <2> QED
    BY <2>7
<1>8. CASE n # 1
  <2> DEFINE v == fs[n].value
             gs == Swapped(bs, Placed(fs[n - 1], v))
  <2>1. n > 1 /\ n - 1 \in Nat /\ n - 1 > 0 /\ n - 1 \in 1..n - 1 /\ n - 1 \in 1..n
    <3>1. PICK k : k = n
      OBVIOUS
    <3>2. k \in Nat /\ k > 0 /\ k # 1
      BY <1>0, <1>1, <1>8, <3>1
    <3>3. k > 1 /\ k - 1 \in Nat /\ k - 1 > 0 /\ k - 1 \in 1..k - 1 /\ k - 1 \in 1..k
      BY ONLY <3>2
    <3> QED
      BY <3>1, <3>3
  <2>2. stack' # <<>> /\ root' = <<>>
    BY <1>3, <1>5, <1>8
  <2>3. Mirrors(built, stack', gs)
    <3>1. PICK tt : tt = stack'
      OBVIOUS
    <3>2. tt = SubSeq(stack, 1, Len(stack) - 1) /\ Len(stack) > 1
      BY <1>3, <2>1, <3>1
    <3>3. gs = Swapped(bs, Placed(fs[Len(stack) - 1], fs[Len(stack)].value)) /\ bs = SubSeq(fs, 1, Len(fs) - 1)
      OBVIOUS
    <3> HIDE DEF gs, bs, v
    <3>4. Mirrors(built, tt, gs)
      BY ONLY <1>0, <3>2, <3>3, CloseMirrors
    <3> QED
      BY <3>1, <3>4
  <2>4. Holds(fs[n - 1]) /\ FrameOK(fs[n - 1])
    BY <1>0, <2>1 DEF Mirrors, Holds
  <2>5. /\ Holds(Placed(fs[n - 1], v)) /\ Placed(fs[n - 1], v).kind = fs[n - 1].kind
        /\ Placed(fs[n - 1], v).value = Store(fs[n - 1], v) /\ FrameOK(Placed(fs[n - 1], v))
    <3> HIDE DEF v
    <3> QED
      BY ONLY <2>4, PlacedFacts
  <2>6. /\ Len(gs) = n - 1 /\ gs[n - 1] = Placed(fs[n - 1], v)
        /\ \A k \in 1..n - 1 - 1 : gs[k] = bs[k]
    <3>1. gs = Swapped(bs, Placed(fs[n - 1], v))
      OBVIOUS
    <3>2. bs # <<>>
      <4>1. Len(bs) # 0
        <5>1. PICK k : k = Len(bs)
          OBVIOUS
        <5>2. k > 0
          BY <1>4, <2>1, <5>1
        <5>3. k # 0
          BY ONLY <5>2
        <5> QED
          BY <5>1, <5>3
      <4> HIDE DEF bs
      <4> QED
        BY ONLY <4>1
    <3> HIDE DEF gs, bs, v
    <3> QED
      BY ONLY <1>4, <2>5, <3>1, <3>2, SwapBelow
  <2> HIDE DEF gs
  <2>7. PICK Z : Fits(read, Z, "after", gs, h, NextRow + 1)
    <3>1. y[1] = v
      OBVIOUS
    <3>2. bs[n - 1] = fs[n - 1]
      BY <1>4, <2>1
    <3> HIDE DEF bs, y, v
    <3>3. /\ Len(bs) \in Nat /\ Len(bs) > 0 /\ FrameOK(bs[Len(bs)]) /\ Len(gs) = Len(bs)
          /\ gs[Len(bs)].kind = bs[Len(bs)].kind /\ gs[Len(bs)].value = Store(bs[Len(bs)], y[1])
          /\ \A k \in 1..Len(bs) - 1 : gs[k] = bs[k]
      BY ONLY <1>4, <2>1, <2>4, <2>5, <2>6, <3>1, <3>2
    <3> QED
      BY ONLY <1>6, <3>3, PlaceFits
  <2>8. Between(gs, "after")
    <3>1. Len(gs) > 0 /\ Holds(gs[Len(gs)])
      BY <2>1, <2>5, <2>6
    <3> QED
      BY ONLY <3>1, Zenon DEF Between
  <2>9. Builds(built', stack', pending', read', gs, "after", Z, h, row' + 1)
    BY <1>3, <1>5, <2>3, <2>7, <2>8, Zenon DEF Builds
  <2>10. Ongoing'
    BY <2>2, <2>9, Zenon DEF Ongoing
  <2> QED
    BY <2>10
<1> QED
  BY <1>7, <1>8

WalkInv == row \in 0..Len(read) /\ (Ongoing \/ Finished)

(* The strengthening under which the engines agree.                          *)
SInv ==
    /\ MInv
    /\ engine # "idle" => mode = "done"
    /\ engine = "idle" => StrictInit
    /\ engine = "walking" => IsJson(read) /\ WalkInv
    /\ EnginesAgree

LEMMA NothingAfterDone == ASSUME Next, mode = "done" PROVE FALSE
<1>1. CASE ReadToken
  <2>1. PICK t \in Token :
             \/ SyntaxError(t) \/ TooDeep(t) \/ Open(t) \/ Number(t) \/ StringValue(t)
             \/ Key(t) \/ Colon(t) \/ Comma(t) \/ Close(t) \/ AfterValue(t)
    BY <1>1 DEF ReadToken
  <2>2. ~WantsValue /\ ~WantsKey
    BY DEF WantsValue, WantsKey
  <2>3. ~TooDeep(t) /\ ~Open(t) /\ ~Number(t) /\ ~StringValue(t) /\ ~Key(t)
    BY <2>2 DEF TooDeep, Open, Number, StringValue, Key
  <2>4. ~SyntaxError(t) /\ ~Colon(t) /\ ~Comma(t) /\ ~Close(t) /\ ~AfterValue(t)
    BY DEF SyntaxError, Colon, Comma, Close, AfterValue
  <2> QED
    BY <2>1, <2>3, <2>4
<1>2. ~Place /\ ~Unwind /\ ~DropInput /\ ~Report /\ ~Release
  BY DEF Place, Unwind, DropInput, Report, Release
<1> QED
  BY <1>1, <1>2 DEF Next

LEMMA InitSInv == BothInit => SInv
<1> SUFFICES ASSUME BothInit PROVE SInv
  OBVIOUS
<1>1. MInv /\ StrictInit /\ engine = "idle"
  BY InitMInv DEF BothInit, StrictInit
<1>2. EnginesAgree
  BY <1>1 DEF EnginesAgree
<1> QED
  BY <1>1, <1>2 DEF SInv

\* The native engine takes its steps while the other is idle.
LEMMA NativeStepSInv == ASSUME SInv, [Next]_vars, UNCHANGED strictVars PROVE SInv'
<1>0. MInv'
  BY NextMInv DEF SInv
<1>1. CASE engine = "idle"
  <2>1. engine' = "idle" /\ StrictInit'
    BY <1>1 DEF SInv, StrictInit, strictVars
  <2>2. EnginesAgree'
    BY <2>1 DEF EnginesAgree
  <2> QED
    BY <1>0, <2>1, <2>2 DEF SInv
<1>2. CASE engine # "idle"
  <2>1. UNCHANGED vars
    BY <1>2, NothingAfterDone DEF SInv
  <2>2. /\ UNCHANGED <<read, mode, hand, cause, outcome>>
        /\ UNCHANGED <<engine, row, stack, pending, built, root>>
    BY <2>1 DEF vars, strictVars
  <2>3. EnginesAgree'
    BY <2>2 DEF EnginesAgree, Whole, SInv
  <2>4. WalkInv => WalkInv'
    BY <2>2 DEF WalkInv, Ongoing, Finished
  <2> QED
    BY <1>0, <1>2, <2>2, <2>3, <2>4 DEF SInv
<1> QED
  BY <1>1, <1>2

\* What the native engine answered once it has stopped.
LEMMA NativeAnswer ==
    ASSUME MInv, mode = "done"
    PROVE  /\ outcome = "value" => hand = <<hand[1]>> /\ Meanings(read) = {hand[1]}
           /\ cause = "syntax" => ~IsJson(read)
           /\ read \in Seq(Token)
<1>1. read \in Seq(Token) /\ IInv /\ AcceptedMeansJson /\ RejectedForGood
  BY DEF MInv
<1>2. outcome = "value" => hand = <<hand[1]>>
  <2>1. outcome = "value" => hand # <<>>
    BY <1>1 DEF IInv, InStep
  <2>2. hand \in AtMostOne({hand[i] : i \in DOMAIN hand})
    BY <1>1 DEF IInv, TypeOK
  <2> QED
    BY <2>1, <2>2 DEF AtMostOne
<1>3. cause = "syntax" => ~IsJson(read)
  <2>1. read \o <<>> = read /\ <<>> \in Seq(Token)
    BY <1>1
  <2> QED
    BY <1>1, <2>1 DEF RejectedForGood
<1> QED
  BY <1>1, <1>2, <1>3 DEF AcceptedMeansJson

\* Before the first row nothing is open, and the value of the whole is due.
LEMMA WalkBegins ==
    ASSUME StrictInit PROVE Ongoing
<1>1. /\ root = <<>> /\ built = <<>> /\ stack = <<>> /\ pending = << <<>> >> /\ row = 0
  BY DEF StrictInit
<1> DEFINE W == [k \in {0} |-> Values(read, 1)]
           fs == <<>>
<1>2. Heap(built)
  <2>1. IsTuple(<<>>)
    <3>1. IsTuple(<<0>>) /\ IsTuple(<<>>)
      BY ShortTuples
    <3> QED
      BY <3>1
  <2>2. DOMAIN <<>> = {}
    OBVIOUS
  <2> QED
    BY <1>1, <2>1, <2>2 DEF Heap
<1>3. Stack(fs) /\ Len(fs) = 0 /\ Len(stack) = 0 /\ row + 1 = 1
  <2>1. Stack(<<>>)
    BY PushFacts DEF Stack
  <2> QED
    BY <1>1, <2>1
<1>4. Mirrors(built, stack, fs)
  <2>1. \A k \in 1..0 : FALSE
    OBVIOUS
  <2>2. stack \in Seq(DOMAIN built)
    BY <1>1
  <2> HIDE DEF fs
  <2> QED
    BY <1>2, <1>3, <2>1, <2>2 DEF Mirrors
<1>5. Keys(stack, pending) /\ pending[Len(pending)] = <<>>
  <2>1. <<>> \in AtMostOne(Texts)
    BY DEF AtMostOne
  <2> QED
    BY <1>1, <2>1 DEF Keys
<1>6. Linked(read, fs, W, 0) /\ W[0] = Values(read, 1)
  BY DEF Linked
<1> HIDE DEF W, fs
<1>7. Fits(read, W, "value", fs, <<>>, row + 1)
  BY <1>3, <1>6 DEF Fits
<1>8. Between(fs, "value")
  BY <1>3 DEF Between
<1>9. Builds(built, stack, pending, read, fs, "value", W, <<>>, row + 1)
  BY <1>4, <1>5, <1>7, <1>8, Zenon DEF Builds
<1> QED
  BY <1>1, <1>9, Zenon DEF Ongoing

LEMMA GateStep == ASSUME SInv, Gate, UNCHANGED vars PROVE SInv'
<1>1. /\ mode = "done" /\ engine = "idle" /\ StrictInit /\ MInv
      /\ UNCHANGED <<row, stack, pending, built>>
      /\ UNCHANGED <<read, mode, hand, cause, outcome>>
  BY DEF SInv, Gate, vars
<1>2. MInv'
  BY <1>1, NextMInv
<1>3. /\ outcome = "value" => hand = <<hand[1]>> /\ Meanings(read) = {hand[1]}
      /\ cause = "syntax" => ~IsJson(read)
      /\ read \in Seq(Token)
  BY <1>1, NativeAnswer
<1>4. CASE IsStrict(read)
  <2>1. engine' = "walking" /\ root' = root
    BY <1>4 DEF Gate
  <2>2. EnginesAgree'
    BY <2>1 DEF EnginesAgree
  <2>3. IsJson(read) /\ IsJson(read)'
    BY <1>1, <1>4 DEF IsStrict
  <2>4. StrictInit
    BY <1>1
  <2>5. Ongoing'
    <3>1. Ongoing
      BY <2>4, WalkBegins
    <3> QED
      BY <1>1, <2>1, <3>1 DEF Ongoing
  <2>6. (row \in 0..Len(read))'
    <3>1. Len(read) \in Nat /\ row = 0
      BY <1>1, <1>3 DEF StrictInit
    <3> QED
      BY <1>1, <3>1
  <2> QED
    BY <1>1, <1>2, <2>1, <2>2, <2>3, <2>5, <2>6 DEF SInv, WalkInv
<1>5. CASE ~IsStrict(read) /\ IsJson(read)
  <2> DEFINE v == CHOOSE x \in Meanings(read) : TRUE
  <2>1. engine' = "value" /\ root' = <<v>> /\ root'[1] = v
    BY <1>5 DEF Gate
  <2>2. v \in Meanings(read)
    BY <1>5 DEF IsJson
  <2> HIDE DEF v
  <2>3. Meanings(read) = {v}
    BY <1>3, <2>2, OneMeaning DEF Sole
  <2>4. "ref" \notin DOMAIN v
    BY <1>3, <2>2, MeaningShape
  <2>5. Whole(root[1])' = v
    BY <2>1, <2>4 DEF Whole, Deref
  <2>6. EnginesAgree'
    <3>1. Meanings(read)' = {v}
      BY <1>1, <2>3
    <3>2. (outcome = "value")' => hand' = <<v>>
      <4> SUFFICES ASSUME outcome' = "value" PROVE hand' = <<v>>
        OBVIOUS
      <4>1. outcome = "value" /\ hand' = hand
        BY <1>1
      <4>2. hand = <<hand[1]>> /\ {hand[1]} = {v}
        BY <1>3, <2>3, <4>1
      <4>3. hand[1] = v
        BY ONLY <4>2
      <4> QED
        BY <4>1, <4>2, <4>3
    <3>3. (cause # "syntax")'
      BY <1>1, <1>3, <1>5
    <3>4. engine' # "rejected"
      BY <2>1
    <3> QED
      BY <2>5, <3>1, <3>2, <3>3, <3>4 DEF EnginesAgree
  <2> QED
    BY <1>1, <1>2, <2>1, <2>6 DEF SInv
<1>6. CASE ~IsStrict(read) /\ ~IsJson(read)
  <2>1. engine' = "rejected"
    BY <1>6 DEF Gate
  <2>2. outcome' # "value"
    BY <1>1, <1>3, <1>6 DEF IsJson
  <2>3. EnginesAgree'
    BY <2>1, <2>2 DEF EnginesAgree
  <2> QED
    BY <1>1, <1>2, <2>1, <2>3 DEF SInv
<1> QED
  BY <1>4, <1>5, <1>6

\* The root is completed by the last row.
LEMMA NothingBehindRoot ==
    ASSUME read \in Seq(Token), IsJson(read), row \in 0..Len(read), Finished
    PROVE  /\ Ahead = {} /\ root # <<>> /\ Meanings(read) = {Whole(root[1])}
<1>1. PICK w : Resolves(w, built, <<>>) /\ \A x : Whole(x) = Deref(w, x)
  BY WholeResolves DEF Finished
<1>2. Values(read, 1) = {<<Whole(root[1]), row + 1>>} /\ root = <<root[1]>>
  BY <1>1, Zenon DEF Finished
<1>3. row + 1 = Len(read) /\ KindAt(read, row + 1) = "end" /\ Meanings(read) = {Whole(root[1])}
  <2>1. row + 1 = Len(read) /\ KindAt(read, row + 1) = "end"
    BY <1>2, NoMeaning DEF IsJson
  <2> QED
    BY <1>2, <2>1, NoMeaning
<1>4. Ahead = {}
  <2> SUFFICES ASSUME NEW i \in Ahead PROVE FALSE
    OBVIOUS
  <2>1. i \in DOMAIN read /\ i > row /\ read[i].kind # "end"
    BY Zenon DEF Ahead, RowPlaces
  <2>2. DOMAIN read = 1..Len(read) /\ Len(read) \in Nat
    BY InText
  <2>3. i = row + 1
    BY <1>3, <2>1, <2>2
  <2>4. KindAt(read, i) = read[i].kind
    BY <2>1 DEF KindAt
  <2> QED
    BY <1>3, <2>1, <2>3, <2>4
<1>5. root # <<>>
  <2>1. \A x : <<x>> # <<>>
    OBVIOUS
  <2> QED
    BY ONLY <1>2, <2>1
<1> QED
  BY <1>3, <1>4, <1>5

LEMMA WalkRowStep == ASSUME SInv, WalkRow, UNCHANGED vars PROVE SInv'
<1>1. /\ engine = "walking" /\ engine' = engine /\ mode = "done" /\ MInv /\ IsJson(read)
      /\ row \in 0..Len(read) /\ (Ongoing \/ Finished) /\ Ahead # {}
      /\ UNCHANGED <<read, mode>> /\ row' = NextRow /\ (ScalarRow \/ OpenRow \/ CloseRow)
  BY DEF SInv, WalkInv, WalkRow, vars
<1>2. MInv'
  BY <1>1, NextMInv
<1>3. read \in Seq(Token)
  BY <1>1 DEF MInv
<1>4. Ongoing
  BY <1>1, <1>3, NothingBehindRoot
<1>5. PICK fs, m, W, h : Builds(built, stack, pending, read, fs, m, W, h, row + 1)
  BY <1>4, Zenon DEF Ongoing
<1>6. root = <<>>
  BY <1>4, Zenon DEF Ongoing
<1>7. Len(fs) \in Nat /\ Fits(read, W, m, fs, h, row + 1) /\ Between(fs, m)
  <2>1. Len(fs) \in Nat
    BY <1>5, BuildsFacts
  <2> QED
    BY <1>5, <2>1, Zenon DEF Builds
<1>8. /\ NextRow \in row + 1..Len(read) /\ At(read, NextRow, Row) /\ Row \in Token
      /\ \E b, V : /\ Fits(read, V, b, fs, h, NextRow)
                   /\ \/ DueValue(fs, m, b, Row.kind)
                      \/ DueKey(fs, m, b, Row.kind)
                      \/ DueEnd(fs, m, b, Row.kind)
  BY <1>1, <1>3, <1>7, RowDue
<1>9. PICK b, V : /\ Fits(read, V, b, fs, h, NextRow)
                  /\ \/ DueValue(fs, m, b, Row.kind)
                     \/ DueKey(fs, m, b, Row.kind)
                     \/ DueEnd(fs, m, b, Row.kind)
  BY <1>8, Zenon
<1>10. RowStep
  BY <1>1, <1>3, <1>6, <1>8 DEF RowStep
<1>11. /\ DueValue(fs, m, b, Row.kind) => ~CloseRow
       /\ DueKey(fs, m, b, Row.kind) => ~OpenRow /\ ~CloseRow
       /\ DueEnd(fs, m, b, Row.kind) => ~ScalarRow /\ ~OpenRow
  <2>1. DueValue(fs, m, b, Row.kind) => Row.kind \in ScalarKinds \union Openers
    BY Zenon DEF DueValue
  <2>2. DueKey(fs, m, b, Row.kind) => Row.kind = "str"
    BY Zenon DEF DueKey
  <2>3. DueEnd(fs, m, b, Row.kind) => Row.kind \in {"}", "]"}
    BY Zenon DEF DueEnd, Closer
  <2>4. /\ ScalarRow => Row.kind \in ScalarKinds
        /\ OpenRow => Row.kind \in Openers
        /\ CloseRow => Row.kind \in {"}", "]"}
    BY Zenon DEF ScalarRow, OpenRow, CloseRow
  <2>5. \A k : /\ ~(k \in ScalarKinds \union Openers /\ k \in {"}", "]"})
               /\ ~(k = "str" /\ k \in Openers \union {"}", "]"})
    BY DEF ScalarKinds, Openers
  <2> QED
    BY <2>1, <2>2, <2>3, <2>4, <2>5
<1>12. Ongoing' \/ Finished'
  <2>1. CASE DueValue(fs, m, b, Row.kind)
    <3>1. CASE ScalarRow
      BY <1>5, <1>9, <1>10, <2>1, <3>1, ScalarStep
    <3>2. CASE OpenRow
      BY <1>5, <1>9, <1>10, <2>1, <3>2, OpenRowBuilds
    <3> QED
      BY <1>1, <1>11, <2>1, <3>1, <3>2
  <2>2. CASE DueKey(fs, m, b, Row.kind)
    <3>1. ScalarRow
      BY <1>1, <1>11, <2>2
    <3> QED
      BY <1>5, <1>9, <1>10, <2>2, <3>1, KeyStepRow
  <2>3. CASE DueEnd(fs, m, b, Row.kind)
    <3>1. CloseRow
      BY <1>1, <1>11, <2>3
    <3> QED
      BY <1>5, <1>9, <1>10, <2>3, <3>1, CloseRowBuilds
  <2> QED
    BY <1>9, <2>1, <2>2, <2>3
<1>13. (row \in 0..Len(read))'
  <2>1. Len(read) \in Nat /\ row \in Nat
    BY <1>1, <1>3
  <2>2. NextRow \in 0..Len(read)
    BY <1>8, <2>1
  <2> QED
    BY <1>1, <2>2
<1>14. EnginesAgree'
  BY <1>1 DEF EnginesAgree
<1>15. IsJson(read)'
  BY <1>1
<1> QED
  BY <1>1, <1>2, <1>12, <1>13, <1>14, <1>15 DEF SInv, WalkInv

LEMMA AnswerStep == ASSUME SInv, Answer, UNCHANGED vars PROVE SInv'
<1>1. /\ engine = "walking" /\ mode = "done" /\ MInv /\ IsJson(read) /\ Ahead = {}
      /\ row \in 0..Len(read) /\ (Ongoing \/ Finished)
      /\ UNCHANGED <<built, root>> /\ UNCHANGED <<read, mode, hand, cause, outcome>>
      /\ engine' = IF root = <<>> THEN "rejected" ELSE "value"
  BY DEF SInv, WalkInv, Answer, vars
<1>2. MInv'
  BY <1>1, NextMInv
<1>3. /\ outcome = "value" => hand = <<hand[1]>> /\ Meanings(read) = {hand[1]}
      /\ cause # "syntax" /\ read \in Seq(Token)
  BY <1>1, NativeAnswer
<1>4. ~Ongoing
  <2> SUFFICES ASSUME Ongoing PROVE FALSE
    OBVIOUS
  <2>1. PICK fs, m, W, h : Builds(built, stack, pending, read, fs, m, W, h, row + 1)
    BY Zenon DEF Ongoing
  <2>2. Len(fs) \in Nat /\ Fits(read, W, m, fs, h, row + 1) /\ Between(fs, m)
    <3>1. Len(fs) \in Nat
      BY <2>1, BuildsFacts
    <3> QED
      BY <2>1, <3>1, Zenon DEF Builds
  <2> QED
    BY <1>1, <1>3, <2>2, RowDue
<1>5. root # <<>> /\ Meanings(read) = {Whole(root[1])}
  BY <1>1, <1>3, <1>4, NothingBehindRoot
<1>6. engine' = "value"
  BY <1>1, <1>5
<1>7. Whole(root[1])' = Whole(root[1])
  BY <1>1 DEF Whole
<1>8. EnginesAgree'
  <2>1. Meanings(read)' = {Whole(root[1])}
    BY <1>1, <1>5
  <2>2. (outcome = "value")' => hand' = <<Whole(root[1])>>
    BY <1>1, <1>3, <1>5
  <2>3. (cause # "syntax")'
    BY <1>1, <1>3
  <2> QED
    BY <1>6, <1>7, <2>1, <2>2, <2>3 DEF EnginesAgree
<1> QED
  BY <1>1, <1>2, <1>6, <1>8 DEF SInv

LEMMA NextSInv == SInv /\ [BothNext]_<<vars, strictVars>> => SInv'
<1> SUFFICES ASSUME SInv, [BothNext]_<<vars, strictVars>> PROVE SInv'
  OBVIOUS
<1>1. CASE [Next]_vars /\ UNCHANGED strictVars
  BY <1>1, NativeStepSInv
<1>2. CASE (Gate \/ WalkRow \/ Answer) /\ UNCHANGED vars
  BY <1>2, GateStep, WalkRowStep, AnswerStep
<1>3. UNCHANGED <<vars, strictVars>> => UNCHANGED vars /\ UNCHANGED strictVars
  OBVIOUS
<1> QED
  BY <1>1, <1>2, <1>3 DEF BothNext

(* At every row, the containers the columns walk has created are those of a   *)
(* parse of the text up to that row, whatever their members will be.         *)
THEOREM EnginesInductive == BothSpec => []SInv
<1> QED
  BY InitSInv, NextSInv, PTL DEF BothSpec

(* The columns walk answers what the text means, and the native engine        *)
(* answers it too; what one rejects so does the other.                       *)
THEOREM StrictEnginesAgree == BothSpec => []EnginesAgree
<1>1. SInv => EnginesAgree
  BY DEF SInv
<1> QED
  BY <1>1, EnginesInductive, PTL
=============================================================================
