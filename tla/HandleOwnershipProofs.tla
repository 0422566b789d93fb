------------------------- MODULE HandleOwnershipProofs -------------------------
(***************************************************************************)
(* Proofs about the import gate and the functions behind it, for any set   *)
(* of libraries, any search path, any functions and any number of values.  *)
(***************************************************************************)
EXTENDS HandleOwnership, WellFoundedInduction, SequenceTheorems, TLAPS

-----------------------------------------------------------------------------
(* The gate. *)

\* Past the version check the library is a loaded one at the floor or above, and
\* functions run only behind the whole gate.
Gated ==
    /\ gate \in {"search", "version", "bind", "imported", "ImportError", "AttributeError", "YeptrisError"}
    /\ gate # "search" /\ gate # "YeptrisError" => lib.loads
    /\ gate \in {"bind", "imported"} => lib.version >= Floor
    /\ Running => gate = "imported"

LEMMA InitGated == Init => Gated
BY DEF Init, GateInit, Gated, Running

LEMMA ImportGated ==
    ASSUME Gated, Import, UNCHANGED callVars
    PROVE  Gated'
<1>1. gate # "imported"
  BY DEF Import, LoadLib, NoLib, CheckEngineVersion, Bind
<1>2. ~Running'
  BY <1>1 DEF Gated, Running, callVars
<1>3. CASE LoadLib
  BY <1>2, <1>3 DEF Gated, LoadLib
<1>4. CASE NoLib
  BY <1>2, <1>4 DEF Gated, NoLib
<1>5. CASE CheckEngineVersion
  BY <1>2, <1>5 DEF Gated, CheckEngineVersion, TooOld
<1>6. CASE Bind
  BY <1>2, <1>6 DEF Gated, Bind
<1> QED
  BY <1>3, <1>4, <1>5, <1>6 DEF Import

LEMMA CallGated ==
    ASSUME Gated, Call \/ Succeed \/ AnswerNothing \/ Fail \/ FallToWalk, UNCHANGED gateVars
    PROVE  Gated'
<1>1. gate = "imported"
  BY DEF Call, Succeed, AnswerNothing, Fail, FallToWalk, Gated, Running
<1> QED
  BY <1>1 DEF Gated, gateVars

(* The engine is never called below its floor, whatever libraries the search *)
(* meets and in whatever order.                                              *)
THEOREM ImportFailsClosed == Spec => []FailsClosed
<1>1. Gated /\ [Next]_vars => Gated'
  <2> SUFFICES ASSUME Gated, [Next]_vars PROVE Gated'
    OBVIOUS
  <2>1. CASE UNCHANGED vars
    BY <2>1 DEF vars, gateVars, callVars, Gated, Running
  <2>2. CASE Next
    BY <2>2, ImportGated, CallGated DEF Next
  <2> QED
    BY <2>1, <2>2
<1>2. Gated => FailsClosed
  BY DEF Gated, FailsClosed
<1> QED
  BY <1>1, <1>2, InitGated, PTL DEF Spec

-----------------------------------------------------------------------------
(* The shape of a function: at every call the handles alive are those that   *)
(* the finally blocks around it free, or that it frees itself.               *)

Handles == {Recorder, Columns, Report, Iterator, Buffer} \union {Doc(i) : i \in Nat}

\* The handles alive at a call, and after it has succeeded.
Held(c) == c.frees \union c.guards
After(c) == (Held(c) \ c.frees) \union c.gets

\* The calls that use only the names of N; those that also use and obtain
\* handles as they should; and, of each, those that ask for no report.
Calls(N) ==
    [calls : SUBSET N, uses : SUBSET Handles, gets : SUBSET Handles, frees : SUBSET Handles,
     guards : SUBSET Handles]
Sound(N) == {c \in Calls(N) : c.uses \subseteq Held(c) /\ c.gets \cap Held(c) = {}}
Silent(N) == {c \in Calls(N) : c.gets # {Report}}
Quiet(N) == {c \in Sound(N) : c.gets # {Report}}

\* s begins with the handles of G alive, ends with those of H, and each call
\* finds alive what the one before left.
Joins(s, G, H) ==
    /\ IF s = <<>> THEN G = H ELSE Held(s[1]) = G /\ After(s[Len(s)]) = H
    /\ \A k \in 1..Len(s) - 1 : After(s[k]) = Held(s[k + 1])

Scoped(s, P, G, H) == s \in Seq(P) /\ Joins(s, G, H)

LEMMA ScopedOne ==
    ASSUME NEW P, NEW c \in P, NEW G, NEW H, Held(c) = G, After(c) = H
    PROVE  Scoped(<<c>>, P, G, H)
BY DEF Scoped, Joins

LEMMA ScopedTwo ==
    ASSUME NEW P, NEW c \in P, NEW d \in P, NEW G, NEW H,
           Held(c) = G, After(c) = Held(d), After(d) = H
    PROVE  Scoped(<<c, d>>, P, G, H)
<1>1. \A k \in 1..2 - 1 : k = 1
  OBVIOUS
<1> QED
  BY <1>1 DEF Scoped, Joins

LEMMA ScopedThree ==
    ASSUME NEW P, NEW c \in P, NEW d \in P, NEW e \in P, NEW G, NEW H,
           Held(c) = G, After(c) = Held(d), After(d) = Held(e), After(e) = H
    PROVE  Scoped(<<c, d, e>>, P, G, H)
<1>1. \A k \in 1..3 - 1 : k = 1 \/ k = 2
  OBVIOUS
<1> QED
  BY <1>1 DEF Scoped, Joins

LEMMA ScopedFour ==
    ASSUME NEW P, NEW c \in P, NEW d \in P, NEW e \in P, NEW f \in P, NEW G, NEW H,
           Held(c) = G, After(c) = Held(d), After(d) = Held(e), After(e) = Held(f), After(f) = H
    PROVE  Scoped(<<c, d, e, f>>, P, G, H)
<1>1. \A k \in 1..4 - 1 : k = 1 \/ k = 2 \/ k = 3
  OBVIOUS
<1> QED
  BY <1>1 DEF Scoped, Joins

LEMMA ScopedFive ==
    ASSUME NEW P, NEW c \in P, NEW d \in P, NEW e \in P, NEW f \in P, NEW g \in P, NEW G, NEW H,
           Held(c) = G, After(c) = Held(d), After(d) = Held(e), After(e) = Held(f), After(f) = Held(g),
           After(g) = H
    PROVE  Scoped(<<c, d, e, f, g>>, P, G, H)
<1>1. \A k \in 1..5 - 1 : k = 1 \/ k = 2 \/ k = 3 \/ k = 4
  OBVIOUS
<1> QED
  BY <1>1 DEF Scoped, Joins

LEMMA ScopedBoth ==
    ASSUME NEW P, NEW G, NEW H, NEW K, NEW s, NEW t, Scoped(s, P, G, H), Scoped(t, P, H, K)
    PROVE  Scoped(s \o t, P, G, K)
<1>1. /\ s \in Seq(P) /\ t \in Seq(P) /\ s \o t \in Seq(P)
      /\ Len(s) \in Nat /\ Len(t) \in Nat /\ Len(s \o t) = Len(s) + Len(t)
      /\ \A k \in 1..Len(s) : (s \o t)[k] = s[k]
      /\ \A k \in 1..Len(t) : (s \o t)[Len(s) + k] = t[k]
  BY ConcatProperties, LenProperties DEF Scoped
<1>2. CASE s = <<>>
  BY <1>1, <1>2 DEF Scoped, Joins
<1>3. CASE t = <<>>
  BY <1>1, <1>3 DEF Scoped, Joins
<1>4. CASE s # <<>> /\ t # <<>>
  <2>1. Len(s) > 0 /\ Len(t) > 0 /\ s \o t # <<>>
    BY <1>1, <1>4, EmptySeq
  <2>2. Held((s \o t)[1]) = G /\ After((s \o t)[Len(s \o t)]) = K
    BY <1>1, <1>4, <2>1 DEF Scoped, Joins
  <2>3. ASSUME NEW k \in 1..Len(s \o t) - 1
        PROVE  After((s \o t)[k]) = Held((s \o t)[k + 1])
    <3>1. CASE k < Len(s)
      BY <1>1, <2>3, <3>1 DEF Scoped, Joins
    <3>2. CASE k = Len(s)
      <4>1. (s \o t)[k + 1] = t[1] /\ (s \o t)[k] = s[k]
        BY <1>1, <2>1, <3>2
      <4> QED
        BY <1>4, <3>2, <4>1 DEF Scoped, Joins
    <3>3. CASE k > Len(s)
      <4> DEFINE j == k - Len(s)
      <4>1. j \in 1..Len(t) - 1 /\ k = Len(s) + j /\ k + 1 = Len(s) + (j + 1)
        BY <1>1, <2>3, <3>3
      <4>2. j \in 1..Len(t) /\ j + 1 \in 1..Len(t)
        BY <1>1, <4>1
      <4>3. (s \o t)[k] = t[j]
        BY <1>1, <4>1, <4>2
      <4>4. (s \o t)[k + 1] = t[j + 1]
        BY <1>1, <4>1, <4>2
      <4> QED
        BY <4>1, <4>3, <4>4 DEF Scoped, Joins
    <3> QED
      BY <1>1, <2>3, <3>1, <3>2, <3>3
  <2> QED
    BY <1>1, <2>1, <2>2, <2>3 DEF Scoped, Joins
<1> QED
  BY <1>2, <1>3, <1>4

-----------------------------------------------------------------------------
(* A function of many values repeats a sequence of calls: what sequences      *)
(* closed under concatenation are put together to is one of them.             *)

LEMMA SetInduction ==
    ASSUME NEW S, 0 \in S, \A n \in Nat : n \in S => n + 1 \in S
    PROVE  Nat \subseteq S
<1> SUFFICES ASSUME Nat \ S # {} PROVE FALSE
  OBVIOUS
<1> DEFINE Below == {p \in Nat \X Nat : p[1] < p[2]}
<1>1. IsWellFoundedOn(Below, Nat)
  BY NatLessThanWellFounded DEF OpToRel
<1>2. \E x \in Nat \ S : \A y \in Nat \ S : ~(<<y, x>> \in Below)
  <2> HIDE DEF Below
  <2> QED
    BY <1>1, WFMin
<1>3. PICK x \in Nat \ S : \A y \in Nat \ S : ~(y < x)
  BY <1>2
<1>4. x - 1 \in Nat /\ x - 1 < x
  BY <1>3
<1>5. x - 1 \in S
  BY <1>3, <1>4
<1> QED
  BY <1>3, <1>4, <1>5

IsFlat(g, F, n) == g = [i \in 1..n |-> IF i = 1 THEN F[i] ELSE g[i - 1] \o F[i]]

LEMMA FlatExists ==
    ASSUME NEW F, NEW n \in Nat
    PROVE  \E g : IsFlat(g, F, n)
<1> DEFINE Has == {m \in Nat : \E g : IsFlat(g, F, m)}
<1>1. 0 \in Has
  <2> DEFINE g == [i \in 1..0 |-> F[i]]
  <2>1. IsFlat(g, F, 0)
    BY DEF IsFlat
  <2> QED
    BY <2>1
<1>2. ASSUME NEW m \in Nat, m \in Has PROVE m + 1 \in Has
  <2>1. PICK g : IsFlat(g, F, m)
    BY <1>2
  <2> DEFINE last == IF m = 0 THEN F[1] ELSE g[m] \o F[m + 1]
             e == [i \in 1..m + 1 |-> IF i = m + 1 THEN last ELSE g[i]]
  <2>2. ASSUME NEW i \in 1..m + 1
        PROVE  e[i] = IF i = 1 THEN F[i] ELSE e[i - 1] \o F[i]
    <3>1. CASE i = m + 1
      BY <1>2, <3>1
    <3>2. CASE i # m + 1
      <4>1. i \in 1..m /\ (i # 1 => i - 1 \in 1..m)
        BY <1>2, <3>2
      <4>2. e[i] = g[i] /\ (i # 1 => e[i - 1] = g[i - 1])
        BY <4>1
      <4>3. g[i] = IF i = 1 THEN F[i] ELSE g[i - 1] \o F[i]
        BY <2>1, <4>1 DEF IsFlat
      <4> QED
        BY <4>2, <4>3
    <3> QED
      BY <3>1, <3>2
  <2>3. IsFlat(e, F, m + 1)
    <3>1. e = [i \in 1..m + 1 |-> e[i]]
      OBVIOUS
    <3> HIDE DEF e
    <3> QED
      BY <2>2, <3>1 DEF IsFlat
  <2> QED
    BY <2>3
<1>3. Nat \subseteq Has
  <2> HIDE DEF Has
  <2> QED
    BY <1>1, <1>2, SetInduction
<1> QED
  BY <1>3

LEMMA FlattenClosed ==
    ASSUME NEW B, NEW n \in Nat, NEW F \in [1..n -> B], \A s, t \in B : s \o t \in B
    PROVE  IF n = 0 THEN FlattenSeq(F) = <<>> ELSE FlattenSeq(F) \in B
<1>1. F \in Seq(B) /\ Len(F) = n
  BY IsASeq, LenProperties
<1>2. CASE n = 0
  BY <1>1, <1>2, EmptySeq DEF FlattenSeq
<1>3. CASE n # 0
  <2> DEFINE flatten == CHOOSE g : IsFlat(g, F, n)
  <2>1. IsFlat(flatten, F, n)
    BY FlatExists
  <2>2. FlattenSeq(F) = flatten[n]
    BY <1>1, <1>3 DEF FlattenSeq, IsFlat
  <2> HIDE DEF flatten
  <2>3. \A i \in 1..n : flatten[i] = IF i = 1 THEN F[i] ELSE flatten[i - 1] \o F[i]
    BY <2>1 DEF IsFlat
  <2> DEFINE Good == {m \in Nat : m + 1 <= n => flatten[m + 1] \in B}
  <2>4. 0 \in Good
    BY <1>3, <2>1 DEF IsFlat
  <2>5. ASSUME NEW m \in Nat, m \in Good PROVE m + 1 \in Good
    <3> SUFFICES ASSUME m + 1 + 1 <= n PROVE flatten[m + 1 + 1] \in B
      OBVIOUS
    <3>1. PICK i \in 1..n : i = m + 1 + 1
      OBVIOUS
    <3>2. i # 1 /\ i - 1 = m + 1 /\ m + 1 <= n
      BY <3>1
    <3>3. flatten[i - 1] \in B /\ F[i] \in B
      BY <2>5, <3>2
    <3>4. flatten[i] = flatten[i - 1] \o F[i]
      BY <2>3, <3>2
    <3> QED
      BY <3>1, <3>3, <3>4
  <2>6. Nat \subseteq Good
    <3> HIDE DEF Good
    <3> QED
      BY <2>4, <2>5, SetInduction
  <2>7. n - 1 \in Nat /\ n - 1 + 1 = n
    BY <1>3
  <2>8. n - 1 \in Good
    BY <2>6, <2>7
  <2> QED
    BY <1>3, <2>2, <2>7, <2>8
<1> QED
  BY <1>2, <1>3

-----------------------------------------------------------------------------
(* The calls, one by one. *)

LEMMA HandlesDiffer ==
    /\ {Recorder, Columns, Report, Iterator, Buffer} \subseteq Handles
    /\ Report \notin {Recorder, Columns, Iterator, Buffer}
    /\ Buffer # Iterator /\ Recorder # Iterator /\ Columns # Iterator
    /\ \A i \in Nat : Doc(i) \in Handles /\ Doc(i) # Report /\ Doc(i) # Buffer
<1>1. /\ "recorder" # "report" /\ "columns" # "report" /\ "iterator" # "report" /\ "buffer" # "report"
      /\ "document" # "report" /\ "document" # "buffer" /\ "recorder" # "iterator"
      /\ "columns" # "iterator" /\ "buffer" # "iterator"
  OBVIOUS
<1>2. \A k, l, i, j : k # l => <<k, i>> # <<l, j>>
  OBVIOUS
<1>3. {Recorder, Columns, Report, Iterator, Buffer} \subseteq Handles /\ \A i \in Nat : Doc(i) \in Handles
  BY DEF Handles
<1>4. /\ Report \notin {Recorder, Columns, Iterator, Buffer}
      /\ Buffer # Iterator /\ Recorder # Iterator /\ Columns # Iterator
  BY <1>1, <1>2 DEF Recorder, Columns, Report, Iterator, Buffer
<1>5. \A i \in Nat : Doc(i) # Report /\ Doc(i) # Buffer
  BY <1>1, <1>2 DEF Doc, Report, Buffer
<1> QED
  BY <1>3, <1>4, <1>5

LEMMA FromScoped ==
    ASSUME NEW N, NEW name \in N, NEW G \in SUBSET Handles, NEW d \in G,
           NEW r \in Handles, r \notin G, r # Report
    PROVE  /\ From(d, r, name, G) \in Quiet(N)
           /\ Held(From(d, r, name, G)) = G /\ After(From(d, r, name, G)) = G \union {r}
BY DEF From, Step, Quiet, Sound, Calls, Held, After

LEMMA FromAlone ==
    ASSUME NEW N, NEW name \in N, NEW G \in SUBSET Handles, NEW d \in G,
           NEW r \in Handles, r \notin G, r # Report
    PROVE  Scoped(<<From(d, r, name, G)>>, Quiet(N), G, G \union {r})
<1>1. From(d, r, name, G) \in Quiet(N)
  BY FromScoped
<1>2. Held(From(d, r, name, G)) = G
  BY FromScoped
<1>3. After(From(d, r, name, G)) = G \union {r}
  BY FromScoped
<1> QED
  BY <1>1, <1>2, <1>3, ScopedOne

LEMMA GetScoped ==
    ASSUME NEW N, NEW name \in N, NEW G \in SUBSET Handles, NEW r \in Handles, r \notin G, r # Report
    PROVE  /\ Get(r, name, G) \in Quiet(N)
           /\ Held(Get(r, name, G)) = G /\ After(Get(r, name, G)) = G \union {r}
BY DEF Get, Step, Quiet, Sound, Calls, Held, After

LEMMA GetAlone ==
    ASSUME NEW N, NEW name \in N, NEW G \in SUBSET Handles, NEW r \in Handles, r \notin G, r # Report
    PROVE  Scoped(<<Get(r, name, G)>>, Quiet(N), G, G \union {r})
<1>1. Get(r, name, G) \in Quiet(N)
  BY GetScoped
<1>2. Held(Get(r, name, G)) = G
  BY GetScoped
<1>3. After(Get(r, name, G)) = G \union {r}
  BY GetScoped
<1> QED
  BY <1>1, <1>2, <1>3, ScopedOne

LEMMA UseScoped ==
    ASSUME NEW N, NEW name \in N, NEW G \in SUBSET Handles, NEW r \in G
    PROVE  /\ Use(r, name, G) \in Quiet(N)
           /\ Held(Use(r, name, G)) = G /\ After(Use(r, name, G)) = G
BY DEF Use, Step, Quiet, Sound, Calls, Held, After

LEMMA FreeScoped ==
    ASSUME NEW N, NEW name \in N, NEW G \in SUBSET Handles, NEW r \in Handles, r \notin G
    PROVE  /\ Free(r, name, G) \in Quiet(N)
           /\ Held(Free(r, name, G)) = G \union {r} /\ After(Free(r, name, G)) = G
BY DEF Free, Step, Quiet, Sound, Calls, Held, After

LEMMA WorkScoped ==
    ASSUME NEW N, NEW G \in SUBSET Handles
    PROVE  Work(G) \in Quiet(N) /\ Held(Work(G)) = G /\ After(Work(G)) = G
BY DEF Work, Step, Quiet, Sound, Calls, Held, After

LEMMA FreeAlone ==
    ASSUME NEW N, NEW name \in N, NEW G \in SUBSET Handles, NEW r \in Handles, r \notin G
    PROVE  Scoped(<<Free(r, name, G)>>, Quiet(N), G \union {r}, G)
<1>1. Free(r, name, G) \in Quiet(N)
  BY FreeScoped
<1>2. Held(Free(r, name, G)) = G \union {r}
  BY FreeScoped
<1>3. After(Free(r, name, G)) = G
  BY FreeScoped
<1> QED
  BY <1>1, <1>2, <1>3, ScopedOne

LEMMA CoreFreed ==
    ASSUME NEW N, "core" \in N, NEW d \in Handles
    PROVE  Scoped(<<Free(d, "core", {})>>, Quiet(N), {d}, {})
<1>1. PICK name \in N : name = "core"
  OBVIOUS
<1>2. PICK G \in SUBSET Handles : G = {}
  OBVIOUS
<1>3. d \notin G
  BY <1>2
<1>4. Scoped(<<Free(d, name, G)>>, Quiet(N), G \union {d}, G)
  BY <1>3, FreeAlone
<1>5. G \union {d} = {d}
  BY <1>2
<1> QED
  BY <1>1, <1>2, <1>4, <1>5

LEMMA WorkAlone ==
    ASSUME NEW N, NEW G \in SUBSET Handles
    PROVE  Scoped(<<Work(G)>>, Quiet(N), G, G)
BY WorkScoped, ScopedOne

LEMMA ReadOwnedScoped ==
    ASSUME NEW N, NEW G \in SUBSET Handles, Buffer \notin G
    PROVE  Scoped(ReadOwned(G), Quiet(N), G \union {Buffer}, G)
<1> DEFINE copy == Step({}, {Buffer}, {}, {}, G \union {Buffer})
           release == Step({}, {}, {}, {Buffer}, G)
<1>1. copy \in Quiet(N) /\ Held(copy) = G \union {Buffer} /\ After(copy) = G \union {Buffer}
  BY HandlesDiffer DEF Step, Quiet, Sound, Calls, Held, After
<1>2. release \in Quiet(N) /\ Held(release) = G \union {Buffer} /\ After(release) = G
  BY HandlesDiffer DEF Step, Quiet, Sound, Calls, Held, After
<1>3. ReadOwned(G) = <<copy, release>>
  BY DEF ReadOwned
<1> HIDE DEF copy, release
<1> QED
  BY <1>1, <1>2, <1>3, ScopedTwo

LEMMA TextScoped ==
    ASSUME NEW N, NEW name \in N, NEW G \in SUBSET Handles, NEW d \in G, Buffer \notin G
    PROVE  Scoped(Text(d, name, G), Quiet(N), G, G)
<1>1. Scoped(<<From(d, Buffer, name, G)>>, Quiet(N), G, G \union {Buffer})
  BY FromAlone, HandlesDiffer
<1>2. Scoped(<<From(d, Buffer, name, G)>> \o ReadOwned(G), Quiet(N), G, G)
  BY <1>1, ReadOwnedScoped, ScopedBoth
<1>3. Scoped(<<Work(G)>>, Quiet(N), G, G)
  BY WorkScoped, ScopedOne
<1> QED
  BY <1>2, <1>3, ScopedBoth DEF Text

LEMMA BuildScoped ==
    ASSUME NEW N, "core" \in N, NEW G \in SUBSET Handles, NEW d \in Handles, d \notin G, d # Report
    PROVE  Scoped(BuildDocument(d, G), Quiet(N), G, G \union {d})
<1>1. Work(G) \in Quiet(N) /\ Held(Work(G)) = G /\ After(Work(G)) = G
  BY WorkScoped
<1>2. /\ Get(d, "core", G) \in Quiet(N) /\ Held(Get(d, "core", G)) = G
      /\ After(Get(d, "core", G)) = G \union {d}
  BY GetScoped
<1>3. /\ Use(d, "core", G \union {d}) \in Quiet(N)
      /\ Held(Use(d, "core", G \union {d})) = G \union {d}
      /\ After(Use(d, "core", G \union {d})) = G \union {d}
  BY UseScoped
<1> QED
  BY <1>1, <1>2, <1>3, ScopedThree DEF BuildDocument

-----------------------------------------------------------------------------
(* The functions: each call is bound by the library, and the shape is kept. *)

LEMMA RepeatScoped ==
    ASSUME NEW P, NEW G, NEW n \in Nat, NEW F, F = [i \in 1..n |-> F[i]],
           \A i \in 1..n : Scoped(F[i], P, G, G)
    PROVE  Scoped(FlattenSeq(F), P, G, G)
<1> DEFINE B == {s \in Seq(P) : Joins(s, G, G)}
<1>1. \A s : s \in B <=> Scoped(s, P, G, G)
  BY DEF Scoped
<1> HIDE DEF B
<1>2. \A s, t \in B : s \o t \in B
  BY <1>1, ScopedBoth
<1>3. F \in [1..n -> B]
  BY <1>1
<1>4. IF n = 0 THEN FlattenSeq(F) = <<>> ELSE FlattenSeq(F) \in B
  BY <1>2, <1>3, FlattenClosed
<1>5. Scoped(<<>>, P, G, G)
  BY DEF Scoped, Joins
<1> QED
  BY <1>1, <1>4, <1>5

\* What the import leaves behind: every feature found has its names.
Bound ==
    /\ "core" \in lib.has
    /\ \A f \in flags : f \in DOMAIN FeatureNames /\ Available(f)
    /\ "columns" \in flags => "value_free_columns" \in lib.has

LEMMA FeaturesBound ==
    ASSUME Bound
    PROVE  /\ "core" \in lib.has
           /\ "json" \in flags => "serialize_json_ex" \in lib.has
           /\ "cbor" \in flags => {"cbor_decode", "cbor_decode_sequence", "cbor_encode",
                                   "cbor_encode_sequence"} \subseteq lib.has
           /\ "emit" \in flags => "serialize_ex" \in lib.has
           /\ "validate" \in flags => {"json_schema_validate", "validate_report_at",
                                       "validate_report_free"} \subseteq lib.has
           /\ "iter" \in flags => {"stream_iter_new", "stream_iter_next", "stream_iter_status",
                                   "stream_iter_free"} \subseteq lib.has
           /\ "frames" \in flags => {"stream_iter_slice", "stream_iter_buffer"} \subseteq lib.has
           /\ "columns" \in flags => {"value_drain_columns", "value_free_columns"} \subseteq lib.has
<1>1. /\ FeatureNames["json"] = <<"serialize_json", "serialize_json_ex">>
      /\ FeatureNames["cbor"] = <<"cbor_decode", "cbor_decode_sequence", "cbor_encode", "cbor_encode_sequence">>
      /\ FeatureNames["emit"] = <<"serialize_ex">>
      /\ FeatureNames["validate"] = <<"json_schema_validate", "validate_report_at", "validate_report_free">>
      /\ FeatureNames["iter"] = <<"stream_iter_new", "stream_iter_next", "stream_iter_status", "stream_iter_free">>
      /\ FeatureNames["frames"] = <<"stream_iter_slice", "stream_iter_buffer">>
      /\ FeatureNames["columns"] = <<"value_drain_columns">>
  BY DEF FeatureNames
<1>2. \A f \in flags : \A i \in DOMAIN FeatureNames[f] : FeatureNames[f][i] \in lib.has
  BY DEF Bound, Available, ToSet
<1>3. \A f, a, b, c, d : FeatureNames[f] = <<a, b, c, d>> /\ f \in flags => {a, b, c, d} \subseteq lib.has
  BY <1>2
<1>4. \A f, a, b, c : FeatureNames[f] = <<a, b, c>> /\ f \in flags => {a, b, c} \subseteq lib.has
  BY <1>2
<1>5. \A f, a, b : FeatureNames[f] = <<a, b>> /\ f \in flags => {a, b} \subseteq lib.has
  BY <1>2
<1>6. \A f, a : FeatureNames[f] = <<a>> /\ f \in flags => a \in lib.has
  BY <1>2
<1> QED
  BY <1>1, <1>3, <1>4, <1>5, <1>6 DEF Bound

LEMMA DrainScoped ==
    ASSUME NEW N, "core" \in N, NEW G \in SUBSET Handles, Recorder \notin G
    PROVE  Scoped(DrainSteps(G), Quiet(N), G, G)
<1> DEFINE held == G \union {Recorder}
<1>1. Recorder \in Handles /\ Recorder # Report /\ held \in SUBSET Handles /\ Recorder \in held
  BY HandlesDiffer
<1> HIDE DEF held
<1>2. /\ Get(Recorder, "core", G) \in Quiet(N) /\ Held(Get(Recorder, "core", G)) = G
      /\ After(Get(Recorder, "core", G)) = held
  BY <1>1, GetScoped DEF held
<1>3. /\ Use(Recorder, "core", held) \in Quiet(N) /\ Held(Use(Recorder, "core", held)) = held
      /\ After(Use(Recorder, "core", held)) = held
  BY <1>1, UseScoped
<1>4. /\ Free(Recorder, "core", G) \in Quiet(N) /\ Held(Free(Recorder, "core", G)) = held
      /\ After(Free(Recorder, "core", G)) = G
  BY <1>1, FreeScoped DEF held
<1>5. DrainSteps(G) = <<Get(Recorder, "core", G), Use(Recorder, "core", held), Use(Recorder, "core", held),
                        Free(Recorder, "core", G)>>
  BY DEF DrainSteps, held
<1> QED
  BY <1>2, <1>3, <1>4, <1>5, ScopedFour

LEMMA ColumnsScoped ==
    ASSUME NEW N, {"value_drain_columns", "value_free_columns"} \subseteq N,
           NEW G \in SUBSET Handles, Columns \notin G
    PROVE  Scoped(ColumnsSteps(G), Quiet(N), G, G)
<1> DEFINE held == G \union {Columns}
           copy == Step({}, {Columns}, {}, {}, held)
<1>1. Columns \in Handles /\ Columns # Report /\ held \in SUBSET Handles /\ Columns \in held
  BY HandlesDiffer
<1> HIDE DEF held
<1>2. /\ Get(Columns, "value_drain_columns", G) \in Quiet(N)
      /\ Held(Get(Columns, "value_drain_columns", G)) = G
      /\ After(Get(Columns, "value_drain_columns", G)) = held
  BY <1>1, GetScoped DEF held
<1>3. copy \in Quiet(N) /\ Held(copy) = held /\ After(copy) = held
  BY <1>1 DEF Step, Quiet, Sound, Calls, Held, After
<1>4. Work(held) \in Quiet(N) /\ Held(Work(held)) = held /\ After(Work(held)) = held
  BY <1>1, WorkScoped
<1>5. /\ Free(Columns, "value_free_columns", G) \in Quiet(N)
      /\ Held(Free(Columns, "value_free_columns", G)) = held
      /\ After(Free(Columns, "value_free_columns", G)) = G
  BY <1>1, FreeScoped DEF held
<1>6. ColumnsSteps(G) = <<Get(Columns, "value_drain_columns", G), copy, Work(held),
                          Free(Columns, "value_free_columns", G)>>
  BY DEF ColumnsSteps, held
<1> HIDE DEF copy
<1> QED
  BY <1>2, <1>3, <1>4, <1>5, <1>6, ScopedFour

LEMMA LoadScoped ==
    ASSUME Bound, NEW G \in SUBSET Handles, Recorder \notin G, Columns \notin G
    PROVE  Scoped(LoadSteps(G), Quiet(lib.has), G, G)
BY FeaturesBound, DrainScoped, ColumnsScoped DEF LoadSteps

LEMMA DumpScoped ==
    ASSUME NEW N, "core" \in N, NEW name \in N
    PROVE  Scoped(DumpSteps(name), Quiet(N), {}, {})
<1>1. /\ Doc(1) \in Handles /\ Doc(1) # Report /\ Buffer \notin {Doc(1)}
      /\ {} \union {Doc(1)} = {Doc(1)} /\ {} \in SUBSET Handles /\ {Doc(1)} \in SUBSET Handles
  BY HandlesDiffer
<1>2. Scoped(BuildDocument(Doc(1), {}), Quiet(N), {}, {Doc(1)})
  BY <1>1, BuildScoped
<1>3. Scoped(Text(Doc(1), name, {Doc(1)}), Quiet(N), {Doc(1)}, {Doc(1)})
  BY <1>1, TextScoped
<1>4. Scoped(BuildDocument(Doc(1), {}) \o Text(Doc(1), name, {Doc(1)}), Quiet(N), {}, {Doc(1)})
  BY <1>2, <1>3, ScopedBoth
<1>5. Scoped(<<Free(Doc(1), "core", {})>>, Quiet(N), {Doc(1)}, {})
  BY <1>1, CoreFreed
<1> QED
  BY <1>4, <1>5, ScopedBoth DEF DumpSteps

LEMMA EncodeScoped ==
    ASSUME NEW N, "core" \in N, NEW name \in N
    PROVE  Scoped(EncodeSteps(name), Quiet(N), {}, {})
<1>1. /\ Doc(1) \in Handles /\ Doc(1) # Report /\ Buffer \notin {Doc(1)} /\ Buffer \in Handles
      /\ Buffer # Report
      /\ {} \union {Doc(1)} = {Doc(1)} /\ {} \in SUBSET Handles /\ {Doc(1)} \in SUBSET Handles
  BY HandlesDiffer
<1>2. Scoped(BuildDocument(Doc(1), {}), Quiet(N), {}, {Doc(1)})
  BY <1>1, BuildScoped
<1>3. Scoped(<<From(Doc(1), Buffer, name, {Doc(1)})>>, Quiet(N), {Doc(1)}, {Doc(1)} \union {Buffer})
  <2>1. PICK G \in SUBSET Handles : G = {Doc(1)}
    BY <1>1
  <2>2. Doc(1) \in G /\ Buffer \notin G
    BY <1>1, <2>1
  <2>3. Scoped(<<From(Doc(1), Buffer, name, G)>>, Quiet(N), G, G \union {Buffer})
    BY <1>1, <2>2, FromAlone
  <2> QED
    BY <2>1, <2>3
<1>4. Scoped(ReadOwned({Doc(1)}), Quiet(N), {Doc(1)} \union {Buffer}, {Doc(1)})
  BY <1>1, ReadOwnedScoped
<1>5. Scoped(<<Free(Doc(1), "core", {})>>, Quiet(N), {Doc(1)}, {})
  BY <1>1, CoreFreed
<1>6. Scoped(BuildDocument(Doc(1), {}) \o <<From(Doc(1), Buffer, name, {Doc(1)})>>, Quiet(N),
             {}, {Doc(1)} \union {Buffer})
  BY <1>2, <1>3, ScopedBoth
<1>7. Scoped(BuildDocument(Doc(1), {}) \o <<From(Doc(1), Buffer, name, {Doc(1)})>> \o ReadOwned({Doc(1)}),
             Quiet(N), {}, {Doc(1)})
  BY <1>4, <1>6, ScopedBoth
<1> QED
  BY <1>5, <1>7, ScopedBoth DEF EncodeSteps

LEMMA EachDocumentScoped ==
    ASSUME Bound, "iter" \in flags, "frames" \in flags, NEW n \in Nat
    PROVE  Scoped(EachDocumentSteps(n), Quiet(lib.has), {}, {})
<1> DEFINE P == Quiet(lib.has)
           held == {Iterator}
           loop == <<OnIterator("stream_iter_next"), OnIterator("stream_iter_slice"),
                     OnIterator("stream_iter_buffer")>> \o LoadSteps(held) \o <<Work(held)>>
           frames == [i \in 1..n |-> loop]
           last == <<OnIterator("stream_iter_next"), OnIterator("stream_iter_status"), Work(held),
                     OnIterator("stream_iter_next"), Free(Iterator, "stream_iter_free", {})>>
<1>1. /\ Iterator \in Handles /\ Iterator # Report /\ held \in SUBSET Handles /\ Iterator \in held
      /\ Recorder \notin held /\ Columns \notin held /\ {} \in SUBSET Handles /\ {} \union {Iterator} = held
  BY HandlesDiffer
<1>2. {"stream_iter_new", "stream_iter_next", "stream_iter_status", "stream_iter_free",
       "stream_iter_slice", "stream_iter_buffer"} \subseteq lib.has
  BY FeaturesBound
<1> HIDE DEF held
<1>3. Scoped(<<Get(Iterator, "stream_iter_new", {})>>, P, {}, held)
  <2>1. PICK G \in SUBSET Handles : G = {}
    OBVIOUS
  <2>2. Iterator \notin G /\ G \union {Iterator} = held /\ "stream_iter_new" \in lib.has
    BY <1>1, <1>2, <2>1
  <2>3. Scoped(<<Get(Iterator, "stream_iter_new", G)>>, P, G, G \union {Iterator})
    BY <1>1, <2>2, GetAlone
  <2> QED
    BY <2>1, <2>2, <2>3
<1>4. /\ Free(Iterator, "stream_iter_free", {}) \in P
      /\ Held(Free(Iterator, "stream_iter_free", {})) = held
      /\ After(Free(Iterator, "stream_iter_free", {})) = {}
  <2>1. PICK G \in SUBSET Handles : G = {}
    OBVIOUS
  <2>2. Iterator \notin G /\ G \union {Iterator} = held /\ "stream_iter_free" \in lib.has
    BY <1>1, <1>2, <2>1
  <2>3. PICK name \in lib.has : name = "stream_iter_free"
    BY <2>2
  <2>4. Free(Iterator, name, G) \in Quiet(lib.has)
    BY <1>1, <2>2, FreeScoped
  <2>5. Held(Free(Iterator, name, G)) = G \union {Iterator}
    BY <1>1, <2>2, FreeScoped
  <2>6. After(Free(Iterator, name, G)) = G
    BY <1>1, <2>2, FreeScoped
  <2> QED
    BY <2>1, <2>2, <2>3, <2>4, <2>5, <2>6
<1>5. \A name \in lib.has : OnIterator(name) \in P /\ Held(OnIterator(name)) = held
                            /\ After(OnIterator(name)) = held
  BY <1>1, UseScoped DEF OnIterator, held
<1>6. Work(held) \in P /\ Held(Work(held)) = held /\ After(Work(held)) = held
  BY <1>1, WorkScoped
<1>7. Scoped(loop, P, held, held)
  <2> DEFINE next == <<OnIterator("stream_iter_next"), OnIterator("stream_iter_slice"),
                       OnIterator("stream_iter_buffer")>>
  <2>1. Scoped(next, P, held, held)
    BY <1>2, <1>5, ScopedThree
  <2>2. Scoped(LoadSteps(held), P, held, held)
    BY <1>1, LoadScoped
  <2>3. Scoped(<<Work(held)>>, P, held, held)
    BY <1>6, ScopedOne
  <2> HIDE DEF next, P
  <2>4. Scoped(next \o LoadSteps(held), P, held, held)
    BY <2>1, <2>2, ScopedBoth
  <2>5. Scoped(next \o LoadSteps(held) \o <<Work(held)>>, P, held, held)
    BY <2>3, <2>4, ScopedBoth
  <2> QED
    BY <2>5 DEF next
<1>8. Scoped(last, P, held, {})
  BY <1>2, <1>4, <1>5, <1>6, ScopedFive
<1> HIDE DEF loop, last, P
<1>9. Scoped(FlattenSeq(frames), P, held, held)
  <2>1. frames = [i \in 1..n |-> frames[i]] /\ \A i \in 1..n : Scoped(frames[i], P, held, held)
    BY <1>7
  <2> HIDE DEF frames
  <2> QED
    BY <2>1, RepeatScoped
<1>10. EachDocumentSteps(n) = <<Get(Iterator, "stream_iter_new", {})>> \o FlattenSeq(frames) \o last
  BY DEF EachDocumentSteps, frames, loop, last, held
<1> HIDE DEF frames
<1>11. Scoped(<<Get(Iterator, "stream_iter_new", {})>> \o FlattenSeq(frames), P, {}, held)
  BY <1>3, <1>9, ScopedBoth
<1>12. Scoped(<<Get(Iterator, "stream_iter_new", {})>> \o FlattenSeq(frames) \o last, P, {}, {})
  BY <1>8, <1>11, ScopedBoth
<1> QED
  BY <1>10, <1>12 DEF P

LEMMA DumpAllScoped ==
    ASSUME NEW N, "core" \in N, NEW n \in Nat
    PROVE  Scoped(FlattenSeq([i \in 1..n |-> DumpSteps("core")]), Quiet(N), {}, {})
<1> DEFINE each == [i \in 1..n |-> DumpSteps("core")]
<1>1. each = [i \in 1..n |-> each[i]] /\ \A i \in 1..n : Scoped(each[i], Quiet(N), {}, {})
  BY DumpScoped
<1> HIDE DEF each
<1>2. Scoped(FlattenSeq(each), Quiet(N), {}, {})
  BY <1>1, RepeatScoped
<1> QED
  BY <1>2 DEF each

LEMMA CborLoadScoped ==
    ASSUME Bound, "cbor" \in flags
    PROVE  Scoped(CborLoadSteps, Quiet(lib.has), {}, {})
<1> DEFINE P == Quiet(lib.has)
           decode == <<Get(Doc(1), "cbor_decode", {})>>
           text == Text(Doc(1), "core", {Doc(1)})
           free == <<Free(Doc(1), "core", {})>>
<1>1. /\ Doc(1) \in Handles /\ Doc(1) # Report /\ Buffer \notin {Doc(1)} /\ {} \in SUBSET Handles
      /\ Doc(1) \notin {} /\ {} \union {Doc(1)} = {Doc(1)} /\ {Doc(1)} \in SUBSET Handles
  BY HandlesDiffer
<1>2. "core" \in lib.has /\ "cbor_decode" \in lib.has
  BY FeaturesBound
<1>3. Scoped(decode, P, {}, {} \union {Doc(1)})
  BY <1>1, <1>2, GetAlone
<1>4. Scoped(text, P, {Doc(1)}, {Doc(1)})
  BY <1>1, <1>2, TextScoped
<1>5. Scoped(free, P, {} \union {Doc(1)}, {})
  BY <1>1, <1>2, FreeAlone
<1>6. Scoped(LoadSteps({}), P, {}, {})
  BY LoadScoped
<1> HIDE DEF P, decode, text, free
<1>7. Scoped(decode \o text, P, {}, {Doc(1)})
  BY <1>1, <1>3, <1>4, ScopedBoth
<1>8. Scoped(decode \o text \o free, P, {}, {})
  BY <1>1, <1>5, <1>7, ScopedBoth
<1>9. Scoped(decode \o text \o free \o LoadSteps({}), P, {}, {})
  BY <1>6, <1>8, ScopedBoth
<1> QED
  BY <1>9 DEF CborLoadSteps, P, decode, text, free

LEMMA CborLoadAllScoped ==
    ASSUME Bound, "cbor" \in flags, NEW n \in Nat
    PROVE  Scoped(CborLoadAllSteps(n), Quiet(lib.has), {}, {})
<1> DEFINE P == Quiet(lib.has)
           decode == <<Step({"cbor_decode_sequence"}, {}, {}, {}, {})>>
           get == <<Get(Buffer, "core", {})>>
           item == get \o ReadOwned({}) \o <<Work({})>> \o LoadSteps({})
           items == [i \in 1..n |-> item]
<1>1. Buffer \in Handles /\ Buffer # Report /\ {} \in SUBSET Handles /\ Buffer \notin {}
  BY HandlesDiffer
<1>2. "core" \in lib.has /\ "cbor_decode_sequence" \in lib.has
  BY FeaturesBound
<1>3. Scoped(decode, P, {}, {})
  <2> DEFINE c == Step({"cbor_decode_sequence"}, {}, {}, {}, {})
  <2>1. c \in P /\ Held(c) = {} /\ After(c) = {}
    BY <1>2 DEF Step, Quiet, Sound, Calls, Held, After
  <2> HIDE DEF c, P
  <2>2. Scoped(<<c>>, P, {}, {})
    BY <2>1, ScopedOne
  <2> QED
    BY <2>2 DEF c
<1>4. Scoped(item, P, {}, {})
  <2>1. Scoped(get, P, {}, {} \union {Buffer})
    BY <1>1, <1>2, GetAlone
  <2>2. Scoped(ReadOwned({}), P, {} \union {Buffer}, {})
    BY <1>1, ReadOwnedScoped
  <2>3. Scoped(<<Work({})>>, P, {}, {})
    BY <1>1, WorkAlone
  <2>4. Scoped(LoadSteps({}), P, {}, {})
    BY LoadScoped
  <2> HIDE DEF P, get
  <2>5. Scoped(get \o ReadOwned({}), P, {}, {})
    BY <2>1, <2>2, ScopedBoth
  <2>6. Scoped(get \o ReadOwned({}) \o <<Work({})>>, P, {}, {})
    BY <2>3, <2>5, ScopedBoth
  <2> QED
    BY <2>4, <2>6, ScopedBoth
<1>5. Scoped(<<Work({})>>, P, {}, {})
  BY <1>1, WorkAlone
<1> HIDE DEF P, decode, item
<1>6. Scoped(FlattenSeq(items), P, {}, {})
  <2>1. items = [i \in 1..n |-> items[i]] /\ \A i \in 1..n : Scoped(items[i], P, {}, {})
    BY <1>4
  <2> HIDE DEF items
  <2> QED
    BY <2>1, RepeatScoped
<1>7. CborLoadAllSteps(n) = decode \o FlattenSeq(items) \o <<Work({})>>
  BY DEF CborLoadAllSteps, decode, items, item, get
<1> HIDE DEF items
<1>8. Scoped(decode \o FlattenSeq(items), P, {}, {})
  BY <1>3, <1>6, ScopedBoth
<1>9. Scoped(decode \o FlattenSeq(items) \o <<Work({})>>, P, {}, {})
  BY <1>5, <1>8, ScopedBoth
<1> QED
  BY <1>7, <1>9 DEF P

LEMMA JsonFastScoped ==
    ASSUME NEW N, "core" \in N, "serialize_json_ex" \in N
    PROVE  Scoped(JsonFastSteps, Quiet(N), {}, {})
<1> DEFINE P == Quiet(N)
           parse == <<Work({}), Get(Doc(1), "core", {})>>
           text == Text(Doc(1), "serialize_json_ex", {Doc(1)})
           free == <<Free(Doc(1), "core", {})>>
<1>1. /\ Doc(1) \in Handles /\ Doc(1) # Report /\ Buffer \notin {Doc(1)} /\ {} \in SUBSET Handles
      /\ Doc(1) \notin {} /\ {} \union {Doc(1)} = {Doc(1)} /\ {Doc(1)} \in SUBSET Handles
  BY HandlesDiffer
<1>2. Scoped(parse, P, {}, {Doc(1)})
  <2>1. Work({}) \in P /\ Held(Work({})) = {} /\ After(Work({})) = {}
    BY <1>1, WorkScoped
  <2>2. Get(Doc(1), "core", {}) \in P
    BY <1>1, GetScoped
  <2>3. Held(Get(Doc(1), "core", {})) = {}
    BY <1>1, GetScoped
  <2>4. After(Get(Doc(1), "core", {})) = {Doc(1)}
    BY <1>1, GetScoped
  <2> QED
    BY <2>1, <2>2, <2>3, <2>4, ScopedTwo
<1>3. Scoped(text, P, {Doc(1)}, {Doc(1)})
  BY <1>1, TextScoped
<1>4. Scoped(free, P, {} \union {Doc(1)}, {})
  BY <1>1, FreeAlone
<1> HIDE DEF P, parse, text, free
<1>5. Scoped(parse \o text, P, {}, {Doc(1)})
  BY <1>2, <1>3, ScopedBoth
<1>6. Scoped(parse \o text \o free, P, {}, {})
  BY <1>1, <1>4, <1>5, ScopedBoth
<1> QED
  BY <1>6 DEF JsonFastSteps, P, parse, text, free

LEMMA JsonLoadsScoped ==
    ASSUME Bound
    PROVE  Scoped(JsonLoadsSteps, Quiet(lib.has), {}, {})
<1> DEFINE P == Quiet(lib.has)
           rest == IF "columns" \in flags THEN ColumnsSteps({}) ELSE <<Work({})>>
<1>1. /\ Doc(1) \in Handles /\ Doc(1) # Report /\ {} \in SUBSET Handles /\ Doc(1) \notin {}
      /\ {} \union {Doc(1)} = {Doc(1)}
  BY HandlesDiffer
<1>2. "core" \in lib.has
  BY FeaturesBound
<1>3. Scoped(GateSteps, P, {}, {})
  <2>1. Get(Doc(1), "core", {}) \in P
    BY <1>1, <1>2, GetScoped
  <2>2. Held(Get(Doc(1), "core", {})) = {}
    BY <1>1, <1>2, GetScoped
  <2>3. After(Get(Doc(1), "core", {})) = {Doc(1)}
    BY <1>1, <1>2, GetScoped
  <2>4. /\ Free(Doc(1), "core", {}) \in P /\ Held(Free(Doc(1), "core", {})) = {Doc(1)}
        /\ After(Free(Doc(1), "core", {})) = {}
    BY <1>1, <1>2, FreeScoped
  <2> HIDE DEF P
  <2> QED
    BY <2>1, <2>2, <2>3, <2>4, ScopedTwo DEF GateSteps
<1>4. Scoped(rest, P, {}, {})
  BY <1>1, FeaturesBound, ColumnsScoped, WorkAlone
<1> HIDE DEF P, rest
<1>5. Scoped(GateSteps \o rest, P, {}, {})
  BY <1>3, <1>4, ScopedBoth
<1> QED
  BY <1>5 DEF JsonLoadsSteps, P, rest

LEMMA EncodeAllParts ==
    ASSUME NEW N, "core" \in N, "cbor_encode_sequence" \in N, NEW G \in SUBSET Handles, Buffer \notin G
    PROVE  /\ Scoped(<<Step({"cbor_encode_sequence"}, G, {Buffer}, {}, G)>>, Quiet(N), G, G \union {Buffer})
           /\ Scoped(ReadOwned(G), Quiet(N), G \union {Buffer}, G)
           /\ Scoped(<<Step({"core"}, {}, {}, G, {})>>, Quiet(N), G, {})
<1> DEFINE P == Quiet(N)
           c == Step({"cbor_encode_sequence"}, G, {Buffer}, {}, G)
           d == Step({"core"}, {}, {}, G, {})
<1>1. Buffer \in Handles /\ Buffer # Report
  BY HandlesDiffer
<1>2. c \in P /\ Held(c) = G /\ After(c) = G \union {Buffer}
  BY <1>1 DEF Step, Quiet, Sound, Calls, Held, After
<1>3. d \in P /\ Held(d) = G /\ After(d) = {}
  BY DEF Step, Quiet, Sound, Calls, Held, After
<1>4. Scoped(ReadOwned(G), P, G \union {Buffer}, G)
  BY ReadOwnedScoped
<1>5. Scoped(<<c>>, P, G, G \union {Buffer}) /\ Scoped(<<d>>, P, G, {})
  <2> HIDE DEF P, c, d
  <2> QED
    BY <1>2, <1>3, ScopedOne
<1> QED
  BY <1>4, <1>5

LEMMA BuiltHandles ==
    ASSUME NEW n \in Nat
    PROVE  {Doc(i) : i \in 1..n} \in SUBSET Handles /\ Buffer \notin {Doc(i) : i \in 1..n}
BY HandlesDiffer

LEMMA FlattenOne ==
    ASSUME NEW F, F = [i \in 1..1 |-> F[i]]
    PROVE  FlattenSeq(F) = F[1]
<1> DEFINE flatten == CHOOSE g : IsFlat(g, F, 1)
<1>1. IsFlat(flatten, F, 1)
  BY FlatExists
<1>2. F \in Seq({F[1]}) /\ Len(F) = 1
  BY IsASeq, LenProperties
<1>3. FlattenSeq(F) = flatten[1]
  BY <1>2 DEF FlattenSeq, IsFlat
<1> HIDE DEF flatten
<1> QED
  BY <1>1, <1>3 DEF IsFlat

\* With one value at most, nothing is built outside a finally.
LEMMA CborDumpAllScoped ==
    ASSUME Bound, "cbor" \in flags, NEW n \in {0, 1}
    PROVE  Scoped(CborDumpAllSteps(n), Quiet(lib.has), {}, {})
<1> DEFINE P == Quiet(lib.has)
           built == {Doc(i) : i \in 1..n}
           builds == [i \in 1..n |-> BuildDocument(Doc(i), {})]
           c == <<Step({"cbor_encode_sequence"}, built, {Buffer}, {}, built)>>
           d == <<Step({"core"}, {}, {}, built, {})>>
<1>1. "core" \in lib.has /\ "cbor_encode_sequence" \in lib.has
  BY FeaturesBound
<1>2. built \in SUBSET Handles /\ Buffer \notin built
  BY BuiltHandles
<1>3. /\ Scoped(c, P, built, built \union {Buffer}) /\ Scoped(ReadOwned(built), P, built \union {Buffer}, built)
      /\ Scoped(d, P, built, {})
  <2> HIDE DEF built
  <2> QED
    BY <1>1, <1>2, EncodeAllParts
<1>4. Scoped(FlattenSeq(builds), P, {}, built)
  <2>1. CASE n = 0
    <3>1. FlattenSeq(builds) = <<>> /\ built = {}
      BY <2>1 DEF FlattenSeq
    <3> QED
      BY <3>1 DEF Scoped, Joins
  <2>2. CASE n = 1
    <3>1. builds = [i \in 1..1 |-> builds[i]] /\ builds[1] = BuildDocument(Doc(1), {})
          /\ built = {} \union {Doc(1)}
      BY <2>2
    <3>2. FlattenSeq(builds) = BuildDocument(Doc(1), {})
      <4> HIDE DEF builds
      <4> QED
        BY <3>1, FlattenOne
    <3>3. Scoped(BuildDocument(Doc(1), {}), P, {}, {} \union {Doc(1)})
      BY <1>1, BuildScoped, HandlesDiffer
    <3> QED
      BY <3>1, <3>2, <3>3
  <2> QED
    BY <2>1, <2>2
<1>5. CborDumpAllSteps(n) = FlattenSeq(builds) \o c \o ReadOwned(built) \o d
  BY DEF CborDumpAllSteps
<1> HIDE DEF P, built, builds, c, d
<1>6. Scoped(FlattenSeq(builds) \o c, P, {}, built \union {Buffer})
  BY <1>3, <1>4, ScopedBoth
<1>7. Scoped(FlattenSeq(builds) \o c \o ReadOwned(built), P, {}, built)
  BY <1>3, <1>6, ScopedBoth
<1>8. Scoped(FlattenSeq(builds) \o c \o ReadOwned(built) \o d, P, {}, {})
  BY <1>3, <1>7, ScopedBoth
<1> QED
  BY <1>5, <1>8 DEF P

\* With more, the names are still bound.
LEMMA CborDumpAllCalls ==
    ASSUME Bound, "cbor" \in flags, NEW n \in Nat
    PROVE  CborDumpAllSteps(n) \in Seq(Silent(lib.has))
<1> DEFINE B == Seq(Silent(lib.has))
           built == {Doc(i) : i \in 1..n}
           builds == [i \in 1..n |-> BuildDocument(Doc(i), {})]
           c == <<Step({"cbor_encode_sequence"}, built, {Buffer}, {}, built)>>
           d == <<Step({"core"}, {}, {}, built, {})>>
<1>1. "core" \in lib.has /\ "cbor_encode_sequence" \in lib.has
  BY FeaturesBound
<1>2. \A s, G, H : Scoped(s, Quiet(lib.has), G, H) => s \in B
  <2>1. Quiet(lib.has) \subseteq Silent(lib.has)
    BY DEF Quiet, Sound, Silent
  <2>2. \A s \in Seq(Quiet(lib.has)) : s \in B
    BY <2>1
  <2> QED
    BY <2>2 DEF Scoped
<1>3. c \in B /\ ReadOwned(built) \in B /\ d \in B
  <2>1. built \in SUBSET Handles /\ Buffer \notin built
    BY BuiltHandles
  <2> HIDE DEF built, B
  <2> QED
    BY <1>1, <1>2, <2>1, EncodeAllParts
<1>4. \A i \in 1..n : builds[i] \in B
  <2> SUFFICES ASSUME NEW i \in 1..n PROVE BuildDocument(Doc(i), {}) \in B
    OBVIOUS
  <2>1. Doc(i) \in Handles /\ Doc(i) # Report
    BY HandlesDiffer
  <2>2. Scoped(BuildDocument(Doc(i), {}), Quiet(lib.has), {}, {} \union {Doc(i)})
    BY <1>1, <2>1, BuildScoped
  <2> HIDE DEF B
  <2> QED
    BY <1>2, <2>2
<1>5. \A s, t \in B : s \o t \in B
  BY ConcatProperties
<1>6. <<>> \in B
  OBVIOUS
<1>7. FlattenSeq(builds) \in B
  <2>1. builds \in [1..n -> B]
    BY <1>4
  <2> HIDE DEF builds, B
  <2> QED
    BY <1>5, <1>6, <2>1, FlattenClosed
<1>8. CborDumpAllSteps(n) = FlattenSeq(builds) \o c \o ReadOwned(built) \o d
  BY DEF CborDumpAllSteps
<1> HIDE DEF B, built, builds, c, d
<1>9. FlattenSeq(builds) \o c \o ReadOwned(built) \o d \in B
  BY <1>3, <1>5, <1>7
<1> QED
  BY <1>8, <1>9 DEF B

\* The one call that asks for a report is the first of its function.
ReportFirst(s) == \A k \in 1..Len(s) : s[k].gets = {Report} => k = 1

LEMMA QuietAfter ==
    ASSUME NEW N, NEW s \in Seq(Sound(N)), ReportFirst(s), NEW t \in Seq(Quiet(N))
    PROVE  ReportFirst(s \o t)
<1> SUFFICES ASSUME NEW k \in 1..Len(s \o t), (s \o t)[k].gets = {Report}
             PROVE  k = 1
  BY DEF ReportFirst
<1>1. /\ Len(s) \in Nat /\ Len(t) \in Nat /\ Len(s \o t) = Len(s) + Len(t)
      /\ \A j \in 1..Len(s) : (s \o t)[j] = s[j]
      /\ \A j \in 1..Len(t) : (s \o t)[Len(s) + j] = t[j]
  BY ConcatProperties, LenProperties
<1>2. CASE k <= Len(s)
  BY <1>1, <1>2 DEF ReportFirst
<1>3. CASE k > Len(s)
  <2>1. PICK j \in 1..Len(t) : k = Len(s) + j
    <3>1. k - Len(s) \in 1..Len(t) /\ k = Len(s) + (k - Len(s))
      BY <1>1, <1>3
    <3> QED
      BY <3>1
  <2>2. t[j] \in Quiet(N) /\ t[j].gets = {Report}
    BY <1>1, <2>1
  <2> QED
    BY <2>2 DEF Quiet
<1> QED
  BY <1>1, <1>2, <1>3

LEMMA QuietFirst ==
    ASSUME NEW N, NEW s \in Seq(Quiet(N))
    PROVE  ReportFirst(s)
BY DEF ReportFirst, Quiet

LEMMA QuietSound ==
    ASSUME NEW N, NEW s, NEW G, NEW H, Scoped(s, Quiet(N), G, H)
    PROVE  Scoped(s, Sound(N), G, H)
<1>1. Quiet(N) \subseteq Sound(N)
  BY DEF Quiet
<1>2. s \in Seq(Sound(N))
  BY <1>1 DEF Scoped
<1> QED
  BY <1>2 DEF Scoped

LEMMA ValidateShape ==
    ASSUME Bound, "validate" \in flags
    PROVE  /\ Scoped(ValidateSteps, Sound(lib.has), {}, {})
           /\ ReportFirst(ValidateSteps) /\ Len(ValidateSteps) = 3
<1> DEFINE c == Get(Report, "json_schema_validate", {})
           d == Use(Report, "validate_report_at", {Report})
           e == Free(Report, "validate_report_free", {})
<1>1. /\ Report \in Handles
      /\ {"json_schema_validate", "validate_report_at", "validate_report_free"} \subseteq lib.has
  BY FeaturesBound, HandlesDiffer
<1>2. c \in Sound(lib.has) /\ Held(c) = {} /\ After(c) = {Report}
  BY <1>1 DEF Get, Step, Sound, Calls, Held, After
<1>3. d \in Sound(lib.has) /\ Held(d) = {Report} /\ After(d) = {Report} /\ d.gets = {}
  BY <1>1 DEF Use, Step, Sound, Calls, Held, After
<1>4. e \in Sound(lib.has) /\ Held(e) = {Report} /\ After(e) = {} /\ e.gets = {}
  BY <1>1 DEF Free, Step, Sound, Calls, Held, After
<1>5. ValidateSteps = <<c, d, e>>
  BY DEF ValidateSteps
<1> HIDE DEF c, d, e
<1>6. Scoped(<<c, d, e>>, Sound(lib.has), {}, {})
  BY <1>2, <1>3, <1>4, ScopedThree
<1>7. ReportFirst(<<c, d, e>>)
  <2> SUFFICES ASSUME NEW k \in 1..3, <<c, d, e>>[k].gets = {Report} PROVE k = 1
    BY DEF ReportFirst
  <2>1. k # 2 /\ k # 3
    BY <1>3, <1>4
  <2> QED
    BY <2>1
<1> QED
  BY <1>5, <1>6, <1>7

LEMMA SafeLoadShape ==
    ASSUME Bound, "validate" \in flags
    PROVE  /\ Scoped(SafeLoadSteps, Sound(lib.has), {}, {})
           /\ ReportFirst(SafeLoadSteps)
           /\ Len(SafeLoadSteps) >= 4 /\ Held(SafeLoadSteps[4]) = {}
<1> DEFINE N == lib.has
           v == ValidateSteps
           w == <<Work({})>>
           l == LoadSteps({})
<1>1. Scoped(v, Sound(N), {}, {}) /\ ReportFirst(v) /\ Len(v) = 3
  BY ValidateShape
<1>2. Scoped(w, Quiet(N), {}, {}) /\ Held(w[1]) = {} /\ Len(w) = 1
  BY WorkAlone, WorkScoped
<1>3. Scoped(l, Quiet(N), {}, {})
  BY LoadScoped
<1>4. SafeLoadSteps = v \o w \o l
  BY DEF SafeLoadSteps
<1> HIDE DEF N, v, w, l
<1>5. Scoped(w, Sound(N), {}, {}) /\ Scoped(l, Sound(N), {}, {})
  BY <1>2, <1>3, QuietSound
<1>6. Scoped(v \o w, Sound(N), {}, {})
  BY <1>1, <1>5, ScopedBoth
<1>7. Scoped(v \o w \o l, Sound(N), {}, {})
  BY <1>5, <1>6, ScopedBoth
<1>8. /\ v \in Seq(Sound(N)) /\ w \in Seq(Quiet(N)) /\ l \in Seq(Quiet(N)) /\ v \o w \in Seq(Sound(N))
      /\ w \in Seq(Sound(N)) /\ l \in Seq(Sound(N))
  BY <1>1, <1>2, <1>3, <1>5, <1>6 DEF Scoped
<1>9. ReportFirst(v \o w \o l)
  BY <1>1, <1>8, QuietAfter
<1>10. Len(v \o w) = 4 /\ (v \o w)[4] = w[1]
  <2>1. /\ Len(v \o w) = Len(v) + Len(w)
        /\ \A i \in 1..Len(v) + Len(w) : (v \o w)[i] = IF i <= Len(v) THEN v[i] ELSE w[i - Len(v)]
    BY <1>8, ConcatProperties
  <2>2. 4 \in 1..Len(v) + Len(w) /\ ~(4 <= Len(v)) /\ 4 - Len(v) = 1 /\ Len(v) + Len(w) = 4
    BY <1>1, <1>2
  <2> QED
    BY <2>1, <2>2
<1>11. Len(v \o w \o l) >= 4 /\ (v \o w \o l)[4] = (v \o w)[4]
  <2>1. Len(l) \in Nat
    BY <1>8, LenProperties
  <2> QED
    BY <1>8, <1>10, <2>1, ConcatProperties
<1> QED
  BY <1>2, <1>4, <1>7, <1>9, <1>10, <1>11 DEF N

\* A function that may start.
Callable(f, n) ==
    /\ f \in Entries \union {"json walk"} /\ n \in Nat
    /\ Asks(f) \subseteq flags /\ (f = "json walk" => "json" \in flags)

LEMMA FunctionScoped ==
    ASSUME Bound, NEW f, NEW n, Callable(f, n), f \notin {"validate", "safe_load"},
           f = "cbor.dump_all" => n \in {0, 1}
    PROVE  Scoped(StepsOf(f, n), Quiet(lib.has), {}, {})
<1>1. f = "drain" \/ f = "load" \/ f = "each_document" \/ f = "dump" \/ f = "dump_all" \/ f = "dump width"
      \/ f = "json.loads" \/ f = "json.dumps" \/ f = "json walk" \/ f = "cbor.load" \/ f = "cbor.load_all"
      \/ f = "cbor.dump" \/ f = "cbor.dump_all"
  BY DEF Callable, Entries
<1>2. n \in Nat /\ Asks(f) \subseteq flags /\ "core" \in lib.has
  BY FeaturesBound DEF Callable
<1>3. CASE f = "drain"
  BY <1>2, <1>3, DrainScoped DEF StepsOf
<1>4. CASE f = "load"
  BY <1>4, LoadScoped DEF StepsOf
<1>5. CASE f = "each_document"
  BY <1>2, <1>5, EachDocumentScoped DEF StepsOf, Asks
<1>6. CASE f = "dump"
  BY <1>2, <1>6, DumpScoped DEF StepsOf
<1>7. CASE f = "dump_all"
  BY <1>2, <1>7, DumpAllScoped DEF StepsOf
<1>8. CASE f = "dump width"
  BY <1>2, <1>8, DumpScoped, FeaturesBound DEF StepsOf
<1>9. CASE f = "json.loads"
  BY <1>9, JsonLoadsScoped DEF StepsOf
<1>10. CASE f = "json.dumps"
  BY <1>2, <1>10, JsonFastScoped, FeaturesBound DEF StepsOf, Asks
<1>11. CASE f = "json walk"
  <2>1. "serialize_json_ex" \in lib.has
    BY <1>11, FeaturesBound DEF Callable
  <2>2. Scoped(EncodeSteps("serialize_json_ex"), Quiet(lib.has), {}, {}) /\ Scoped(<<Work({})>>, Quiet(lib.has), {}, {})
    BY <1>2, <2>1, EncodeScoped, WorkAlone
  <2> QED
    BY <1>11, <2>2, ScopedBoth DEF StepsOf, JsonWalkSteps
<1>12. CASE f = "cbor.load"
  BY <1>2, <1>12, CborLoadScoped DEF StepsOf, Asks
<1>13. CASE f = "cbor.load_all"
  BY <1>2, <1>13, CborLoadAllScoped DEF StepsOf, Asks
<1>14. CASE f = "cbor.dump"
  BY <1>2, <1>14, EncodeScoped, FeaturesBound DEF StepsOf, Asks
<1>15. CASE f = "cbor.dump_all"
  BY <1>2, <1>15, CborDumpAllScoped DEF StepsOf, Asks
<1> QED
  BY <1>1, <1>3, <1>4, <1>5, <1>6, <1>7, <1>8, <1>9, <1>10, <1>11, <1>12, <1>13, <1>14, <1>15

LEMMA FunctionShape ==
    ASSUME Bound, NEW f, NEW n, Callable(f, n), f = "cbor.dump_all" => n \in {0, 1}
    PROVE  /\ Scoped(StepsOf(f, n), Sound(lib.has), {}, {})
           /\ ReportFirst(StepsOf(f, n))
           /\ f \notin {"validate", "safe_load"} =>
                \A k \in 1..Len(StepsOf(f, n)) : StepsOf(f, n)[k].gets # {Report}
           /\ f = "validate" => Len(StepsOf(f, n)) = 3
           /\ f = "safe_load" => Len(StepsOf(f, n)) >= 4 /\ Held(StepsOf(f, n)[4]) = {}
<1>1. CASE f = "validate"
  BY <1>1, ValidateShape DEF StepsOf, Callable, Asks
<1>2. CASE f = "safe_load"
  BY <1>2, SafeLoadShape DEF StepsOf, Callable, Asks
<1>3. CASE f \notin {"validate", "safe_load"}
  <2>1. Scoped(StepsOf(f, n), Quiet(lib.has), {}, {})
    BY <1>3, FunctionScoped
  <2>2. StepsOf(f, n) \in Seq(Quiet(lib.has))
    BY <2>1 DEF Scoped
  <2>3. \A k \in 1..Len(StepsOf(f, n)) : StepsOf(f, n)[k] \in Quiet(lib.has)
    BY <2>2
  <2>4. \A k \in 1..Len(StepsOf(f, n)) : StepsOf(f, n)[k].gets # {Report}
    BY <2>3 DEF Quiet
  <2> QED
    BY <1>3, <2>1, <2>2, <2>4, QuietSound, QuietFirst
<1> QED
  BY <1>1, <1>2, <1>3

LEMMA FunctionCalls ==
    ASSUME Bound, NEW f, NEW n, Callable(f, n)
    PROVE  /\ StepsOf(f, n) \in Seq(Calls(lib.has))
           /\ \A k \in 1..Len(StepsOf(f, n)) :
                 StepsOf(f, n)[k].gets = {Report} => k = 1 /\ f \in {"validate", "safe_load"}
<1>1. CASE f = "cbor.dump_all"
  <2>1. StepsOf(f, n) \in Seq(Silent(lib.has))
    BY <1>1, CborDumpAllCalls DEF StepsOf, Callable, Asks
  <2>2. Silent(lib.has) \subseteq Calls(lib.has)
    BY DEF Silent
  <2>3. \A k \in 1..Len(StepsOf(f, n)) : StepsOf(f, n)[k].gets # {Report}
    BY <2>1 DEF Silent
  <2> QED
    BY <2>1, <2>2, <2>3
<1>2. CASE f # "cbor.dump_all"
  <2>1. StepsOf(f, n) \in Seq(Sound(lib.has))
    BY <1>2, FunctionShape DEF Scoped
  <2>2. Sound(lib.has) \subseteq Calls(lib.has)
    BY DEF Sound
  <2>3. ReportFirst(StepsOf(f, n))
    BY <1>2, FunctionShape
  <2>4. f \notin {"validate", "safe_load"} => \A k \in 1..Len(StepsOf(f, n)) : StepsOf(f, n)[k].gets # {Report}
    BY <1>2, FunctionShape
  <2>5. StepsOf(f, n) \in Seq(Calls(lib.has))
    BY <2>1, <2>2
  <2> QED
    BY <2>3, <2>4, <2>5 DEF ReportFirst
<1> QED
  BY <1>1, <1>2

LEMMA JsonWalkIsSome ==
    ASSUME Bound, "json" \in flags, NEW n \in Nat
    PROVE  StepsOf("json walk", n) # <<>>
<1> DEFINE s == EncodeSteps("serialize_json_ex") \o <<Work({})>>
<1>1. "serialize_json_ex" \in lib.has /\ "core" \in lib.has
  BY FeaturesBound
<1>2. EncodeSteps("serialize_json_ex") \in Seq(Quiet(lib.has)) /\ <<Work({})>> \in Seq(Quiet(lib.has))
  BY <1>1, EncodeScoped, WorkAlone DEF Scoped
<1>3. Len(s) = Len(EncodeSteps("serialize_json_ex")) + Len(<<Work({})>>)
  BY <1>2, ConcatProperties
<1>4. Len(s) # 0
  BY <1>2, <1>3, LenProperties
<1>5. StepsOf("json walk", n) = s
  BY DEF StepsOf, JsonWalkSteps
<1> HIDE DEF s
<1>6. s # <<>>
  BY ONLY <1>4
<1> QED
  BY <1>5, <1>6

\* A function's calls do not change while the features do not.
LEMMA StepsStay ==
    ASSUME UNCHANGED flags
    PROVE  \A f, n : StepsOf(f, n)' = StepsOf(f, n)
<1>1. \A G : LoadSteps(G)' = LoadSteps(G)
  BY DEF LoadSteps
<1>2. \A n : EachDocumentSteps(n)' = EachDocumentSteps(n)
  BY <1>1 DEF EachDocumentSteps
<1>3. \A n : CborLoadAllSteps(n)' = CborLoadAllSteps(n)
  BY <1>1 DEF CborLoadAllSteps
<1>4. CborLoadSteps' = CborLoadSteps /\ SafeLoadSteps' = SafeLoadSteps
  BY <1>1 DEF CborLoadSteps, SafeLoadSteps
<1>5. JsonLoadsSteps' = JsonLoadsSteps
  BY DEF JsonLoadsSteps
<1> QED
  BY <1>1, <1>2, <1>3, <1>4, <1>5 DEF StepsOf

-----------------------------------------------------------------------------
(* The call under way: it may start, it is at one of its calls, and what is   *)
(* alive is what that call holds.                                             *)

CallInv ==
    /\ gate = "imported" => Bound
    /\ Running => gate = "imported" /\ Callable(fn, size) /\ at \in 1..Len(StepsOf(fn, size))

\* cbor.dump_all is given one value at most: with more it leaks.
OneDocument == "cbor.dump_all" \in Functions => Sizes["cbor.dump_all"] \subseteq {0, 1}

HeldInv ==
    /\ IF Running THEN live = Held(Now) /\ (fn = "cbor.dump_all" => size \in {0, 1}) ELSE live = {}
    /\ freed \cap live = {}

LEMMA ImportCalls ==
    ASSUME CallInv, Import, UNCHANGED callVars
    PROVE  CallInv'
<1>1. gate # "imported" /\ ~Running
  BY DEF CallInv, Import, LoadLib, NoLib, CheckEngineVersion, Bind
<1>2. ~Running'
  BY <1>1 DEF Running, callVars
<1>3. gate' = "imported" => Bound'
  <2> SUFFICES ASSUME gate' = "imported" PROVE Bound'
    OBVIOUS
  <2>1. Bind
    BY <1>1 DEF Import, LoadLib, NoLib, CheckEngineVersion
  <2>2. ~BindMisses /\ flags' = {f \in DOMAIN FeatureNames : Available(f)} /\ lib' = lib
    BY <2>1 DEF Bind
  <2>3. \A f : Available(f)' = Available(f)
    BY <2>2 DEF Available
  <2> QED
    BY <2>2, <2>3 DEF Bound, BindMisses
<1> QED
  BY <1>2, <1>3 DEF CallInv

\* While the gate stands still, what may start and what it calls stay.
LEMMA GateStays ==
    ASSUME UNCHANGED gateVars
    PROVE  /\ Bound' = Bound /\ flags' = flags /\ lib' = lib /\ gate' = gate
           /\ \A f, n : StepsOf(f, n)' = StepsOf(f, n) /\ Callable(f, n)' = Callable(f, n)
<1>1. flags' = flags /\ lib' = lib /\ gate' = gate
  BY DEF gateVars
<1>2. Bound' = Bound
  BY <1>1 DEF Bound, Available
<1>3. \A f, n : Callable(f, n)' = Callable(f, n)
  BY <1>1 DEF Callable, Asks
<1> QED
  BY <1>1, <1>2, <1>3, StepsStay

\* Where a call that starts or falls through begins.
LEMMA Begins ==
    ASSUME CallInv, UNCHANGED gateVars, NEW f, NEW n, gate = "imported", Callable(f, n),
           StepsOf(f, n) # <<>>, fn' = f, size' = n, at' = 1
    PROVE  CallInv'
<1>1. Bound
  BY DEF CallInv
<1>2. StepsOf(f, n) \in Seq(Calls(lib.has))
  BY <1>1, FunctionCalls
<1>3. 1 \in 1..Len(StepsOf(f, n))
  BY <1>2, EmptySeq, LenProperties
<1> QED
  BY <1>1, <1>3, GateStays DEF CallInv

LEMMA CallCalls ==
    ASSUME CallInv, Call, UNCHANGED gateVars
    PROVE  CallInv'
<1>1. PICK f \in Functions :
          \E n \in Sizes[f] : Asks(f) \subseteq flags /\ StepsOf(f, n) # <<>> /\ fn' = f /\ size' = n
  BY DEF Call
<1>2. PICK n \in Sizes[f] : Asks(f) \subseteq flags /\ StepsOf(f, n) # <<>> /\ fn' = f /\ size' = n
  BY <1>1
<1>3. n \in Nat /\ f \in Entries
  BY SizesAssumption
<1>4. Callable(f, n)
  BY <1>2, <1>3 DEF Callable, Entries
<1> QED
  BY <1>2, <1>4, Begins DEF Call

LEMMA SucceedCalls ==
    ASSUME CallInv, Succeed, UNCHANGED gateVars
    PROVE  CallInv'
<1>1. Running /\ gate = "imported" /\ Bound /\ Callable(fn, size) /\ at \in 1..Len(StepsOf(fn, size))
  BY DEF CallInv, Succeed
<1>2. StepsOf(fn, size) \in Seq(Calls(lib.has))
  BY <1>1, FunctionCalls
<1>3. CASE at = Len(StepsOf(fn, size))
  <2>1. ~Running'
    BY <1>3 DEF Succeed, Advance, Running
  <2> QED
    BY <1>1, <2>1, GateStays DEF CallInv
<1>4. CASE at # Len(StepsOf(fn, size))
  <2>1. fn' = fn /\ size' = size /\ at' = at + 1
    BY <1>4 DEF Succeed, Advance
  <2>2. at' \in 1..Len(StepsOf(fn, size))
    BY <1>1, <1>2, <1>4, <2>1, LenProperties
  <2> QED
    BY <1>1, <2>1, <2>2, GateStays DEF CallInv
<1> QED
  BY <1>3, <1>4

\* A validation that answers nothing goes on behind the report's calls.
LEMMA AnswerNothingAt ==
    ASSUME CallInv, AnswerNothing
    PROVE  /\ Bound /\ at = 1 /\ Callable(fn, size)
           /\ \/ fn = "validate" /\ fn' = "none"
              \/ /\ fn = "safe_load" /\ fn' = "safe_load" /\ at' = 4
                 /\ 4 \in 1..Len(StepsOf(fn, size)) /\ Held(StepsOf(fn, size)[4]) = {}
<1>1. Running /\ Bound /\ Callable(fn, size) /\ at \in 1..Len(StepsOf(fn, size)) /\ Now.gets = {Report}
  BY DEF CallInv, AnswerNothing
<1>2. at = 1 /\ fn \in {"validate", "safe_load"}
  BY <1>1, FunctionCalls DEF Now
<1>3. CASE fn = "validate"
  <2>1. Len(StepsOf(fn, size)) = 3
    BY <1>1, <1>3, FunctionShape
  <2> QED
    BY <1>1, <1>2, <1>3, <2>1 DEF AnswerNothing
<1>4. CASE fn = "safe_load"
  <2>1. Len(StepsOf(fn, size)) >= 4 /\ Held(StepsOf(fn, size)[4]) = {}
    BY <1>1, <1>4, FunctionShape
  <2>2. Len(StepsOf(fn, size)) \in Nat /\ Len(ValidateSteps) = 3
    BY <1>1, FunctionCalls, LenProperties DEF ValidateSteps
  <2>3. at + 2 # Len(StepsOf(fn, size)) /\ at + Len(ValidateSteps) = 4 /\ 4 \in 1..Len(StepsOf(fn, size))
    BY <1>2, <2>1, <2>2
  <2> QED
    BY <1>1, <1>2, <1>4, <2>1, <2>3 DEF AnswerNothing
<1> QED
  BY <1>2, <1>3, <1>4

LEMMA AnswerNothingCalls ==
    ASSUME CallInv, AnswerNothing, UNCHANGED gateVars
    PROVE  CallInv'
<1>1. Running /\ gate = "imported" /\ Bound /\ size' = size
  BY DEF CallInv, AnswerNothing
<1>2. CASE fn' = "none"
  BY <1>1, <1>2, GateStays DEF CallInv, Running
<1>3. CASE fn' # "none"
  BY <1>1, <1>3, AnswerNothingAt, GateStays DEF CallInv
<1> QED
  BY <1>2, <1>3

LEMMA FailCalls ==
    ASSUME CallInv, Fail, UNCHANGED gateVars
    PROVE  CallInv'
BY GateStays DEF CallInv, Fail, Running

LEMMA FallToWalkCalls ==
    ASSUME CallInv, FallToWalk, UNCHANGED gateVars
    PROVE  CallInv'
<1>1. Running /\ gate = "imported" /\ Bound /\ Callable("json.dumps", size) /\ fn' = "json walk" /\ size' = size
  BY DEF CallInv, FallToWalk, Running
<1>2. "json" \in flags /\ size \in Nat
  BY <1>1 DEF Callable, Asks
<1>3. Callable("json walk", size)
  BY <1>2 DEF Callable, Asks
<1>4. StepsOf("json walk", size) # <<>>
  BY <1>1, <1>2, JsonWalkIsSome
<1> QED
  BY <1>1, <1>3, <1>4, Begins DEF FallToWalk

(* The invariant of the gate and the call: what may start has its names, and *)
(* is at one of its calls.                                                    *)
THEOREM CallsAreBound == Spec => []CallInv
<1>1. Init => CallInv
  BY DEF Init, GateInit, CallInv, Running
<1>2. CallInv /\ [Next]_vars => CallInv'
  <2> SUFFICES ASSUME CallInv, [Next]_vars PROVE CallInv'
    OBVIOUS
  <2>1. CASE UNCHANGED vars
    BY <2>1, GateStays DEF vars, callVars, CallInv, Running
  <2>2. CASE Import /\ UNCHANGED callVars
    BY <2>2, ImportCalls
  <2>3. CASE (Call \/ Succeed \/ AnswerNothing \/ Fail \/ FallToWalk) /\ UNCHANGED gateVars
    BY <2>3, CallCalls, SucceedCalls, AnswerNothingCalls, FailCalls, FallToWalkCalls
  <2> QED
    BY <2>1, <2>2, <2>3 DEF Next
<1> QED
  BY <1>1, <1>2, PTL DEF Spec

(* Whatever names the library lacks, a function that starts never calls one   *)
(* of them, whatever it is given.                                             *)
THEOREM OwnershipOnlyBoundNames == Spec => []OnlyBoundNames
<1>1. CallInv => OnlyBoundNames
  <2> SUFFICES ASSUME CallInv, Running PROVE Now.calls \subseteq lib.has
    BY DEF OnlyBoundNames
  <2>1. Bound /\ Callable(fn, size) /\ at \in 1..Len(StepsOf(fn, size))
    BY DEF CallInv
  <2>2. StepsOf(fn, size) \in Seq(Calls(lib.has))
    BY <2>1, FunctionCalls
  <2>3. Now \in Calls(lib.has)
    BY <2>1, <2>2 DEF Now
  <2> QED
    BY <2>3 DEF Calls
<1> QED
  BY <1>1, CallsAreBound, PTL

-----------------------------------------------------------------------------
(* Handles: what is alive is what the call at hand holds. *)

LEMMA BeginsHeld ==
    ASSUME Bound, NEW f, NEW n, Callable(f, n), f = "cbor.dump_all" => n \in {0, 1},
           StepsOf(f, n) # <<>>
    PROVE  Held(StepsOf(f, n)[1]) = {}
BY FunctionShape DEF Scoped, Joins

LEMMA CallHeld ==
    ASSUME OneDocument, CallInv, HeldInv, Call, UNCHANGED gateVars
    PROVE  HeldInv'
<1>1. PICK f \in Functions :
          \E n \in Sizes[f] : Asks(f) \subseteq flags /\ StepsOf(f, n) # <<>> /\ fn' = f /\ size' = n
  BY DEF Call
<1>2. PICK n \in Sizes[f] : Asks(f) \subseteq flags /\ StepsOf(f, n) # <<>> /\ fn' = f /\ size' = n
  BY <1>1
<1>3. n \in Nat /\ f \in Entries
  BY SizesAssumption
<1>4. Callable(f, n) /\ Bound
  BY <1>2, <1>3 DEF Callable, Entries, CallInv, Call
<1>5. f = "cbor.dump_all" => n \in {0, 1}
  BY DEF OneDocument
<1>6. Held(StepsOf(f, n)[1]) = {}
  BY <1>2, <1>4, <1>5, BeginsHeld
<1>7. live' = {} /\ freed' = {} /\ at' = 1
  BY DEF Call, HeldInv
<1>8. Now' = StepsOf(f, n)[1]
  BY <1>2, <1>7, GateStays DEF Now
<1>9. Running'
  BY <1>2, <1>3 DEF Running, Entries
<1>10. Held(Now)' = Held(Now')
  BY DEF Held
<1> QED
  BY <1>2, <1>5, <1>6, <1>7, <1>8, <1>9, <1>10 DEF HeldInv

LEMMA SucceedHeld ==
    ASSUME CallInv, HeldInv, Succeed, UNCHANGED gateVars
    PROVE  HeldInv'
<1>1. /\ Running /\ Bound /\ Callable(fn, size) /\ at \in 1..Len(StepsOf(fn, size))
      /\ fn = "cbor.dump_all" => size \in {0, 1}
      /\ live = Held(Now)
  BY DEF CallInv, HeldInv, Succeed
<1>2. Scoped(StepsOf(fn, size), Sound(lib.has), {}, {})
  BY <1>1, FunctionShape
<1>3. live' = After(Now)
  BY <1>1 DEF Succeed, After
<1>4. freed' \cap live' = {}
  BY DEF Succeed, HeldInv
<1>5. CASE at = Len(StepsOf(fn, size))
  <2>1. ~Running' /\ StepsOf(fn, size) # <<>>
    BY <1>1, <1>5 DEF Succeed, Advance, Running
  <2>2. live' = {}
    BY <1>2, <1>3, <1>5, <2>1 DEF Scoped, Joins, Now
  <2> QED
    BY <1>4, <2>1, <2>2 DEF HeldInv
<1>6. CASE at # Len(StepsOf(fn, size))
  <2>1. fn' = fn /\ size' = size /\ at' = at + 1
    BY <1>6 DEF Succeed, Advance
  <2>2. at \in 1..Len(StepsOf(fn, size)) - 1
    <3>1. Len(StepsOf(fn, size)) \in Nat
      BY <1>2, LenProperties DEF Scoped
    <3> QED
      BY <1>1, <1>6, <3>1
  <2>3. live' = Held(StepsOf(fn, size)[at + 1])
    BY <1>2, <1>3, <2>2 DEF Scoped, Joins, Now
  <2>4. Held(Now)' = Held(StepsOf(fn, size)[at + 1])
    <3>1. Now' = StepsOf(fn, size)[at + 1]
      BY <2>1, GateStays DEF Now
    <3> QED
      BY <3>1 DEF Held
  <2> QED
    BY <1>1, <1>4, <2>1, <2>3, <2>4 DEF HeldInv, Running
<1> QED
  BY <1>5, <1>6

LEMMA AnswerNothingHeld ==
    ASSUME CallInv, HeldInv, AnswerNothing, UNCHANGED gateVars
    PROVE  HeldInv'
<1>1. /\ Running /\ Bound /\ at = 1 /\ Callable(fn, size) /\ live = Held(Now)
      /\ fn = "cbor.dump_all" => size \in {0, 1}
      /\ size' = size /\ live' = live /\ freed' = freed
  BY AnswerNothingAt DEF HeldInv, AnswerNothing
<1>2. live = {}
  <2>1. StepsOf(fn, size) # <<>>
    <3>1. at \in 1..Len(StepsOf(fn, size))
      BY <1>1 DEF CallInv
    <3> QED
      BY <3>1
  <2> QED
    BY <1>1, <2>1, BeginsHeld DEF Now
<1>3. CASE fn = "validate" /\ fn' = "none"
  BY <1>1, <1>2, <1>3 DEF HeldInv, Running
<1>4. CASE fn = "safe_load" /\ fn' = "safe_load" /\ at' = 4 /\ Held(StepsOf(fn, size)[4]) = {}
  <2>1. Now' = StepsOf(fn, size)[4]
    BY <1>1, <1>4, GateStays DEF Now
  <2>2. Held(Now)' = {}
    BY <1>4, <2>1 DEF Held
  <2> QED
    BY <1>1, <1>2, <1>4, <2>2 DEF HeldInv, Running
<1> QED
  BY <1>3, <1>4, AnswerNothingAt

LEMMA UnwindHeld ==
    ASSUME HeldInv, Running, Now.frees = {}, Unwind
    PROVE  live' = {} /\ freed' \cap live' = {}
BY DEF HeldInv, Unwind, Held

LEMMA FailHeld ==
    ASSUME HeldInv, Fail
    PROVE  HeldInv'
BY UnwindHeld DEF Fail, HeldInv, Running

LEMMA FallToWalkHeld ==
    ASSUME CallInv, HeldInv, FallToWalk, UNCHANGED gateVars
    PROVE  HeldInv'
<1>1. /\ Running /\ Bound /\ Callable("json.dumps", size) /\ fn' = "json walk" /\ size' = size /\ at' = 1
      /\ live' = {} /\ freed' \cap live' = {}
  BY UnwindHeld DEF CallInv, FallToWalk, Running
<1>2. "json" \in flags /\ size \in Nat
  BY <1>1 DEF Callable, Asks
<1>3. Callable("json walk", size)
  BY <1>2 DEF Callable, Asks
<1>4. StepsOf("json walk", size) # <<>>
  BY <1>1, <1>2, JsonWalkIsSome
<1>5. Held(StepsOf("json walk", size)[1]) = {}
  BY <1>1, <1>3, <1>4, BeginsHeld
<1>6. Now' = StepsOf("json walk", size)[1]
  BY <1>1, GateStays DEF Now
<1>7. Held(Now)' = {}
  BY <1>5, <1>6 DEF Held
<1> QED
  BY <1>1, <1>7 DEF HeldInv, Running

(* At every call of every function the handles alive are exactly those that   *)
(* the finally blocks around the call free or that it frees itself, as long   *)
(* as cbor.dump_all is given one value at most.                               *)
THEOREM HandlesAreHeld ==
    ASSUME OneDocument
    PROVE  Spec => []HeldInv
<1>1. Init => HeldInv
  BY DEF Init, HeldInv, Running
<1>2. CallInv /\ HeldInv /\ [Next]_vars => HeldInv'
  <2> SUFFICES ASSUME CallInv, HeldInv, [Next]_vars PROVE HeldInv'
    OBVIOUS
  <2>1. CASE UNCHANGED vars
    BY <2>1, GateStays DEF vars, callVars, HeldInv, Running, Now, Held
  <2>2. CASE Import /\ UNCHANGED callVars
    <3>1. ~Running /\ ~Running'
      BY <2>2 DEF CallInv, Import, LoadLib, NoLib, CheckEngineVersion, Bind, Running, callVars
    <3> QED
      BY <2>2, <3>1 DEF HeldInv, callVars
  <2>3. CASE (Call \/ Succeed \/ AnswerNothing \/ Fail \/ FallToWalk) /\ UNCHANGED gateVars
    BY <2>3, CallHeld, SucceedHeld, AnswerNothingHeld, FailHeld, FallToWalkHeld
  <2> QED
    BY <2>1, <2>2, <2>3 DEF Next
<1> QED
  BY <1>1, <1>2, CallsAreBound, PTL DEF Spec

(* Whatever fails on the way, a call that is over has freed every handle it   *)
(* obtained, for any number of documents and items, as long as cbor.dump_all  *)
(* is given one value at most.                                                *)
THEOREM OwnershipNothingLeaked ==
    ASSUME OneDocument
    PROVE  Spec => []NothingLeaked
<1>1. HeldInv => NothingLeaked
  BY DEF HeldInv, NothingLeaked
<1> QED
  BY <1>1, HandlesAreHeld, PTL

(* A handle is used, freed and guarded by a finally only while it is alive,   *)
(* and no name is overwritten that holds one, under the same hypothesis.      *)
THEOREM OwnershipHandlesAlive ==
    ASSUME OneDocument
    PROVE  Spec => []HandlesAlive
<1>1. CallInv /\ HeldInv => HandlesAlive
  <2> SUFFICES ASSUME CallInv, HeldInv, Running
               PROVE  /\ Now.uses \subseteq live /\ Now.gets \cap live = {}
                      /\ (Now.frees \union Now.guards) \cap freed = {}
    BY DEF HandlesAlive
  <2>1. /\ Bound /\ Callable(fn, size) /\ at \in 1..Len(StepsOf(fn, size))
        /\ fn = "cbor.dump_all" => size \in {0, 1}
        /\ live = Held(Now) /\ freed \cap live = {}
    BY DEF CallInv, HeldInv
  <2>2. StepsOf(fn, size) \in Seq(Sound(lib.has))
    BY <2>1, FunctionShape DEF Scoped
  <2>3. Now \in Sound(lib.has)
    BY <2>1, <2>2 DEF Now
  <2> QED
    BY <2>1, <2>3 DEF Sound, Held
<1> QED
  BY <1>1, CallsAreBound, HandlesAreHeld, PTL
=============================================================================
