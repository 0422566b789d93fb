---------------------------- MODULE DumpWalkProofs ----------------------------
(***************************************************************************)
(* Proofs about dump_all's walk: for any values and objects, shared, deep  *)
(* or containing themselves, any limit and any first buffer.               *)
(***************************************************************************)
EXTENDS DumpReload, SequenceTheorems, WellFoundedInduction, TLAPS

-----------------------------------------------------------------------------
(* Levels: what a value holds at each depth. *)

LEMMA SetInduction ==
    ASSUME NEW S, 0 \in S, \A n \in Nat : n \in S => n + 1 \in S
    PROVE  Nat \subseteq S
<1> SUFFICES ASSUME Nat \ S # {} PROVE FALSE
  OBVIOUS
<1> DEFINE Less == {p \in Nat \X Nat : p[1] < p[2]}
<1>1. IsWellFoundedOn(Less, Nat)
  BY NatLessThanWellFounded DEF OpToRel
<1>2. \E x \in Nat \ S : \A y \in Nat \ S : ~(<<y, x>> \in Less)
  <2> HIDE DEF Less
  <2> QED
    BY <1>1, WFMin
<1>3. PICK x \in Nat \ S : \A y \in Nat \ S : ~(y < x)
  BY <1>2
<1>4. x - 1 \in Nat /\ x - 1 < x
  BY <1>3
<1>5. x - 1 \in S
  BY <1>3, <1>4
<1> QED
  BY <1>3, <1>4, <1>5

\* The levels of root, up to the n-th.
AreLevels(g, objs, root, n) ==
    g = [m \in 0 .. n |-> IF m = 0 THEN {root} ELSE UNION {Children(objs, v) : v \in g[m - 1]}]

LEMMA LevelsExist ==
    ASSUME NEW h, NEW root, NEW n \in Nat
    PROVE  \E g : AreLevels(g, h, root, n)
<1> DEFINE Has == {m \in Nat : \E g : AreLevels(g, h, root, m)}
<1>1. 0 \in Has
  <2> DEFINE g == [m \in 0..0 |-> {root}]
  <2>1. AreLevels(g, h, root, 0)
    BY DEF AreLevels
  <2> QED
    BY <2>1
<1>2. ASSUME NEW m \in Nat, m \in Has PROVE m + 1 \in Has
  <2>1. PICK g : AreLevels(g, h, root, m)
    BY <1>2
  <2> DEFINE last == UNION {Children(h, v) : v \in g[m]}
             e == [k \in 0..m + 1 |-> IF k = m + 1 THEN last ELSE g[k]]
  <2>2. ASSUME NEW k \in 0..m + 1
        PROVE  e[k] = IF k = 0 THEN {root} ELSE UNION {Children(h, v) : v \in e[k - 1]}
    <3>1. CASE k = 0
      <4>1. g[0] = {root} /\ e[0] = g[0]
        BY <1>2, <2>1 DEF AreLevels
      <4> QED
        BY <3>1, <4>1
    <3>2. CASE k = m + 1
      <4>1. k # 0 /\ k - 1 = m /\ m \in 0..m + 1 /\ m # m + 1
        BY <1>2, <3>2
      <4>2. e[k - 1] = g[m] /\ e[k] = last
        BY <3>2, <4>1
      <4> QED
        BY <4>1, <4>2
    <3>3. CASE k # 0 /\ k # m + 1
      <4>1. k \in 0..m /\ k - 1 \in 0..m
        BY <1>2, <3>3
      <4>2. e[k] = g[k] /\ e[k - 1] = g[k - 1]
        BY <4>1
      <4>3. g[k] = UNION {Children(h, v) : v \in g[k - 1]}
        BY <2>1, <3>3, <4>1 DEF AreLevels
      <4> QED
        BY <3>3, <4>2, <4>3
    <3> QED
      BY <3>1, <3>2, <3>3
  <2>3. AreLevels(e, h, root, m + 1)
    <3>1. e = [k \in 0..m + 1 |-> e[k]]
      OBVIOUS
    <3> HIDE DEF e
    <3> QED
      BY <2>2, <3>1 DEF AreLevels
  <2> QED
    BY <2>3
<1>3. Nat \subseteq Has
  <2> HIDE DEF Has
  <2> QED
    BY <1>1, <1>2, SetInduction
<1> QED
  BY <1>3

LEMMA LevelsAre ==
    ASSUME NEW h, NEW root
    PROVE  /\ Levels(h, root)[0] = {root}
           /\ \A n \in 0..MaxNesting :
                 Levels(h, root)[n + 1] = UNION {Children(h, v) : v \in Levels(h, root)[n]}
<1>1. MaxNesting + 1 \in Nat
  BY DumpAssumption
<1> DEFINE level == CHOOSE g : AreLevels(g, h, root, MaxNesting + 1)
<1>2. AreLevels(level, h, root, MaxNesting + 1)
  BY <1>1, LevelsExist
<1>3. Levels(h, root) = level
  BY DEF Levels, AreLevels
<1> HIDE DEF level
<1>4. \A m \in 0..MaxNesting + 1 :
         level[m] = IF m = 0 THEN {root} ELSE UNION {Children(h, v) : v \in level[m - 1]}
  BY <1>2 DEF AreLevels
<1>5. level[0] = {root}
  <2>1. 0 \in 0..MaxNesting + 1
    BY <1>1
  <2> QED
    BY <1>4, <2>1
<1>6. ASSUME NEW n \in 0..MaxNesting
      PROVE  level[n + 1] = UNION {Children(h, v) : v \in level[n]}
  <2>1. PICK m \in 0..MaxNesting + 1 : m = n + 1
    BY DumpAssumption
  <2>2. m # 0 /\ m - 1 = n
    BY <2>1
  <2>3. level[m] = UNION {Children(h, v) : v \in level[m - 1]}
    BY <1>4, <2>2
  <2> QED
    BY <2>1, <2>2, <2>3
<1> QED
  BY <1>3, <1>5, <1>6

\* A level is what the children hold one level up.
LEMMA LevelsOfChildren ==
    ASSUME NEW h, NEW root, NEW n \in 0..MaxNesting
    PROVE  Levels(h, root)[n + 1] = UNION {Levels(h, c)[n] : c \in Children(h, root)}
<1> DEFINE Good == {m \in Nat : m <= MaxNesting =>
                       Levels(h, root)[m + 1] = UNION {Levels(h, c)[m] : c \in Children(h, root)}}
<1>0. MaxNesting \in Nat
  BY DumpAssumption
<1>1. 0 \in Good
  <2>1. 0 \in 0..MaxNesting
    BY <1>0
  <2>2. Levels(h, root)[0 + 1] = UNION {Children(h, v) : v \in {root}}
    BY <2>1, LevelsAre
  <2>3. UNION {Levels(h, c)[0] : c \in Children(h, root)} = Children(h, root)
    <3>1. \A c : Levels(h, c)[0] = {c}
      BY LevelsAre
    <3> QED
      BY <3>1
  <2>4. UNION {Children(h, v) : v \in {root}} = Children(h, root)
    OBVIOUS
  <2> QED
    BY <2>2, <2>3, <2>4
<1>2. ASSUME NEW m \in Nat, m \in Good PROVE m + 1 \in Good
  <2> SUFFICES ASSUME m + 1 <= MaxNesting
               PROVE  Levels(h, root)[m + 1 + 1] = UNION {Levels(h, c)[m + 1] : c \in Children(h, root)}
    OBVIOUS
  <2>1. PICK k \in 0..MaxNesting : k = m + 1
    BY <1>0
  <2>2. m \in 0..MaxNesting
    BY <1>0
  <2>3. Levels(h, root)[k + 1] = UNION {Children(h, v) : v \in Levels(h, root)[k]}
    BY LevelsAre
  <2>4. Levels(h, root)[k] = UNION {Levels(h, c)[m] : c \in Children(h, root)}
    BY <1>2, <2>1, <2>2
  <2>5. \A c : Levels(h, c)[k] = UNION {Children(h, v) : v \in Levels(h, c)[m]}
    BY <2>1, <2>2, LevelsAre
  <2>6. Levels(h, root)[k + 1] = UNION {Levels(h, c)[k] : c \in Children(h, root)}
    BY ONLY <2>3, <2>4, <2>5
  <2> QED
    BY <2>1, <2>6
<1>3. Nat \subseteq Good
  <2> HIDE DEF Good
  <2> QED
    BY <1>1, <1>2, SetInduction
<1> QED
  BY <1>0, <1>3

-----------------------------------------------------------------------------
(* Fine: what may be written at a depth, from what its children may. *)

LEMMA FineFromChildren ==
    ASSUME NEW h, NEW v, NEW d \in 0..MaxNesting, ~UnsupportedIn(h, v),
           \A c \in Children(h, v) : Fine(h, c, d + 1)
    PROVE  Fine(h, v, d)
<1>0. MaxNesting \in Nat
  BY DumpAssumption
<1>1. Levels(h, v)[MaxNesting + 1 - d] = {}
  <2>1. PICK m \in 0..MaxNesting : m = MaxNesting - d /\ m + 1 = MaxNesting + 1 - d /\ m = MaxNesting + 1 - (d + 1)
    BY <1>0
  <2>2. \A c \in Children(h, v) : Levels(h, c)[m] = {}
    BY <2>1 DEF Fine
  <2>3. Levels(h, v)[m + 1] = {}
    BY <2>2, LevelsOfChildren
  <2> QED
    BY <2>1, <2>3
<1>2. ASSUME NEW n \in 0..MaxNesting - d, NEW x \in Levels(h, v)[n]
      PROVE  ~UnsupportedIn(h, x)
  <2>1. CASE n = 0
    BY <1>2, <2>1, LevelsAre
  <2>2. CASE n # 0
    <3>1. PICK m \in 0..MaxNesting : n = m + 1 /\ m \in 0..MaxNesting - (d + 1)
      <4>1. n - 1 \in 0..MaxNesting /\ n = n - 1 + 1 /\ n - 1 \in 0..MaxNesting - (d + 1)
        BY <1>0, <2>2
      <4> QED
        BY <4>1
    <3>2. x \in UNION {Levels(h, c)[m] : c \in Children(h, v)}
      BY <3>1, LevelsOfChildren
    <3>3. PICK c \in Children(h, v) : x \in Levels(h, c)[m]
      BY <3>2
    <3> QED
      BY <3>1, <3>3 DEF Fine
  <2> QED
    BY <2>1, <2>2
<1> QED
  BY <1>1, <1>2 DEF Fine

LEMMA FineScalar ==
    ASSUME NEW h, NEW v \in Scalars, NEW d \in 0..MaxNesting, ~UnsupportedIn(h, v)
    PROVE  Fine(h, v, d)
<1>1. Children(h, v) = {}
  BY DumpAssumption DEF Children
<1> QED
  BY <1>1, FineFromChildren

LEMMA FineRoot ==
    ASSUME NEW v, Fine(objects, v, 0)
    PROVE  ~NestsTooDeeply(v) /\ ~HoldsOdd(v)
<1>1. MaxNesting + 1 - 0 = MaxNesting + 1 /\ MaxNesting - 0 = MaxNesting
  BY DumpAssumption
<1> QED
  BY <1>1 DEF Fine, NestsTooDeeply, HoldsOdd, Unsupported

-----------------------------------------------------------------------------
(* The buffer: what is packed stays, however often the buffer grows. *)

LEMMA PackedFits ==
    ASSUME NEW b \in Buffers, NEW e \in Filled
    PROVE  Packed(b, e) \in Buffers /\ Packed(b, e).cursor = b.cursor + 1
<1> DEFINE room == IF b.cursor >= b.est THEN Grown(b) ELSE b
           T == Filled \cup {Blank}
<1>1. /\ b \in [ents : Seq(T), est : Nat \ {0}, cursor : Nat]
      /\ Len(b.ents) = b.est /\ b.cursor <= b.est /\ \A i \in 1..b.cursor : b.ents[i] \in Filled
  BY DEF Buffers
<1> HIDE DEF T
<1>2. /\ room \in [ents : Seq(T), est : Nat \ {0}, cursor : Nat]
      /\ Len(room.ents) = room.est /\ b.cursor < room.est /\ room.cursor = b.cursor
      /\ \A i \in 1..b.cursor : room.ents[i] \in Filled
  <2>1. CASE b.cursor >= b.est
    <3> DEFINE grown == [i \in 1..2 * b.est |-> IF i <= b.cursor THEN b.ents[i] ELSE Blank]
    <3>1. b.cursor = b.est /\ 2 * b.est \in Nat \ {0} /\ b.cursor < 2 * b.est
      BY <1>1, <2>1
    <3>2. \A i \in 1..2 * b.est : grown[i] \in T
      <4> SUFFICES ASSUME NEW i \in 1..2 * b.est PROVE grown[i] \in T
        OBVIOUS
      <4>1. CASE i <= b.cursor
        BY <1>1, <3>1, <4>1
      <4>2. CASE ~(i <= b.cursor)
        BY <4>2 DEF T
      <4> QED
        BY <4>1, <4>2
    <3>3. grown \in Seq(T) /\ Len(grown) = 2 * b.est
      <4>1. grown \in [1..2 * b.est -> T]
        BY <3>2
      <4> HIDE DEF grown
      <4> QED
        BY <3>1, <4>1, IsASeq, LenProperties
    <3>4. \A i \in 1..b.cursor : grown[i] \in Filled
      BY <1>1, <3>1
    <3>5. room = [b EXCEPT !.est = 2 * b.est, !.ents = grown]
      BY <2>1 DEF Grown
    <3> HIDE DEF grown, room
    <3>6. room.ents = grown /\ room.est = 2 * b.est /\ room.cursor = b.cursor
      BY <1>1, <3>5
    <3>7. room \in [ents : Seq(T), est : Nat \ {0}, cursor : Nat]
      BY <1>1, <3>1, <3>3, <3>5
    <3> QED
      BY <3>1, <3>3, <3>4, <3>6, <3>7
  <2>2. CASE ~(b.cursor >= b.est)
    BY <1>1, <2>2
  <2> QED
    BY <2>1, <2>2
<1>3. Packed(b, e) = [room EXCEPT !.ents[b.cursor + 1] = e, !.cursor = @ + 1]
  BY DEF Packed
<1> HIDE DEF room
<1>4. /\ Packed(b, e).ents = [room.ents EXCEPT ![b.cursor + 1] = e]
      /\ Packed(b, e).est = room.est /\ Packed(b, e).cursor = b.cursor + 1
  BY <1>2, <1>3
<1>5. b.cursor + 1 \in 1..Len(room.ents) /\ e \in T
  BY <1>1, <1>2 DEF T
<1>6. /\ [room.ents EXCEPT ![b.cursor + 1] = e] \in Seq(T)
      /\ Len([room.ents EXCEPT ![b.cursor + 1] = e]) = Len(room.ents)
  BY <1>2, <1>5, ExceptSeq
<1>7. \A i \in 1..b.cursor + 1 : [room.ents EXCEPT ![b.cursor + 1] = e][i] \in Filled
  BY <1>1, <1>2, <1>5
<1>8. Packed(b, e) \in [ents : Seq(T), est : Nat \ {0}, cursor : Nat]
  <2> DEFINE ents == [room.ents EXCEPT ![b.cursor + 1] = e]
  <2>1. Packed(b, e) = [ents |-> ents, est |-> room.est, cursor |-> b.cursor + 1]
    BY <1>2, <1>3
  <2>2. room.est \in Nat \ {0} /\ b.cursor + 1 \in Nat
    BY <1>1, <1>2
  <2>3. ents \in Seq(T)
    BY <1>6
  <2> HIDE DEF ents
  <2> QED
    BY <2>1, <2>2, <2>3
<1> QED
  BY <1>1, <1>2, <1>4, <1>6, <1>7, <1>8 DEF Buffers, T

LEMMA EmitFits ==
    ASSUME buffer \in Buffers, NEW es \in Seq(Filled), Len(es) \in {1, 2}, Emit(es)
    PROVE  buffer' \in Buffers /\ buffer'.cursor > 0
<1>1. es[1] \in Filled /\ (Len(es) = 2 => es[2] \in Filled)
  OBVIOUS
<1>2. Packed(buffer, es[1]) \in Buffers /\ Packed(buffer, es[1]).cursor = buffer.cursor + 1
  BY <1>1, PackedFits
<1>3. \A b \in Buffers : b.cursor \in Nat
  BY DEF Buffers
<1>4. CASE Len(es) = 1
  BY <1>2, <1>3, <1>4 DEF Emit
<1>5. CASE Len(es) = 2
  <2>1. /\ Packed(Packed(buffer, es[1]), es[2]) \in Buffers
        /\ Packed(Packed(buffer, es[1]), es[2]).cursor = Packed(buffer, es[1]).cursor + 1
    BY <1>1, <1>2, <1>5, PackedFits
  <2>2. buffer' = Packed(Packed(buffer, es[1]), es[2])
    BY <1>5 DEF Emit
  <2> QED
    BY <1>2, <1>3, <2>1, <2>2
<1> QED
  BY <1>4, <1>5

LEMMA ScalarEntriesFit ==
    ASSUME NEW v \in Scalars
    PROVE  ScalarEntries(v) \in Seq(Filled) /\ Len(ScalarEntries(v)) \in {1, 2}
<1>1. \A style \in {"plain", "quoted", "literal"} : ScalarEntry(v, style) \in Filled
  BY DEF ScalarEntry, Filled
<1>2. Tag("binary") \in Filled
  BY DEF Tag, Filled
<1> QED
  BY <1>1, <1>2 DEF ScalarEntries

LEMMA OpenEntriesFit ==
    ASSUME NEW kind
    PROVE  OpenEntries(kind) \in Seq(Filled) /\ Len(OpenEntries(kind)) \in {1, 2}
<1>1. Open("seq") \in Filled /\ Open("map") \in Filled /\ Tag("set") \in Filled
  BY DEF Open, Tag, Filled
<1> QED
  BY <1>1 DEF OpenEntries

LEMMA NewBufferFits == NewBuffer \in Buffers /\ NewBuffer.cursor = 0
<1> DEFINE T == Filled \cup {Blank}
           blanks == [i \in 1..InitialEst |-> Blank]
<1>1. InitialEst \in Nat \ {0}
  BY DumpAssumption
<1>2. blanks \in Seq(T) /\ Len(blanks) = InitialEst
  <2>1. blanks \in [1..InitialEst -> T]
    OBVIOUS
  <2> HIDE DEF blanks, T
  <2> QED
    BY <1>1, <2>1, IsASeq, LenProperties
<1>3. NewBuffer = [ents |-> blanks, est |-> InitialEst, cursor |-> 0]
  BY DEF NewBuffer
<1> HIDE DEF blanks
<1> QED
  BY <1>1, <1>2, <1>3 DEF Buffers

-----------------------------------------------------------------------------
(* The calls: what a call has written once its turn is over. *)

\* The call c, of the objects h, once that value is written.
Stepped(h, c) ==
    IF h[c.obj].kind \in {"dict", "set"} /\ ~c.half
    THEN [c EXCEPT !.half = TRUE] ELSE [c EXCEPT !.half = FALSE, !.at = @ + 1]

\* The value whose turn it is in the call c, and whether a call is made for it.
TurnOf(h, c) ==
    LET item == h[c.obj].items[c.at]
    IN  IF h[c.obj].kind = "dict" THEN item[IF c.half THEN 2 ELSE 1] ELSE item

NullOf(h, c) == h[c.obj].kind = "set" /\ c.half
InlineOf(h, c) == h[c.obj].kind \in {"dict", "set"} /\ ~c.half /\ TurnOf(h, c) \in Strings

LEMMA StepsAreThese ==
    /\ Advanced = [calls EXCEPT ![Len(calls)] = Stepped(objects, Caller)]
    /\ Turn = TurnOf(objects, Caller)
    /\ NullTurn <=> NullOf(objects, Caller)
    /\ Inline <=> InlineOf(objects, Caller)
<1>1. Advanced = [calls EXCEPT ![Len(calls)] = Stepped(objects, Caller)]
  BY DEF Advanced, Onward, Stepped, KeyTurn, Kind, ObjKind
<1>2. Turn = TurnOf(objects, Caller)
  BY DEF Turn, TurnOf, Kind, ObjKind, Items
<1>3. NullTurn <=> NullOf(objects, Caller)
  BY DEF NullTurn, NullOf, Kind, ObjKind
<1>4. Inline <=> InlineOf(objects, Caller)
  BY <1>2 DEF Inline, InlineOf, KeyTurn, Kind, ObjKind
<1> QED
  BY <1>1, <1>2, <1>3, <1>4

LEMMA SteppedFits ==
    ASSUME NEW h \in [Objs -> Object], NEW c \in Places(h), c.at <= Len(h[c.obj].items)
    PROVE  Stepped(h, c) \in Places(h) /\ Stepped(h, c).obj = c.obj
<1>1. Len(h[c.obj].items) \in Nat
  BY DEF Object, Places
<1>2. CASE h[c.obj].kind \in {"dict", "set"} /\ ~c.half
  <2>1. Stepped(h, c) = [obj |-> c.obj, at |-> c.at, half |-> TRUE]
    BY <1>2 DEF Stepped, Places
  <2> QED
    BY <1>2, <2>1 DEF Places
<1>3. CASE ~(h[c.obj].kind \in {"dict", "set"} /\ ~c.half)
  <2>1. Stepped(h, c) = [obj |-> c.obj, at |-> c.at + 1, half |-> FALSE]
    BY <1>3 DEF Stepped, Places
  <2> QED
    BY <1>1, <2>1 DEF Places
<1> QED
  BY <1>2, <1>3

\* A step writes the value whose turn it is, and nothing when that is inline.
LEMMA SteppedWrites ==
    ASSUME NEW h \in [Objs -> Object], NEW c \in Places(h), c.at <= Len(h[c.obj].items),
           NEW x \in Written(h, Stepped(h, c))
    PROVE  x \in Written(h, c) \/ (x = TurnOf(h, c) /\ ~NullOf(h, c) /\ ~InlineOf(h, c))
<1> DEFINE its == h[c.obj].items
<1>0. c.at \in Nat \ {0} /\ c.half \in BOOLEAN
  BY DEF Places
<1>1. CASE h[c.obj].kind \in {"dict", "set"} /\ ~c.half
  <2>1. Stepped(h, c) = [obj |-> c.obj, at |-> c.at, half |-> TRUE]
    BY <1>1 DEF Stepped, Places
  <2>2. CASE h[c.obj].kind = "dict"
    <3>1. /\ x \in {its[i][2] : i \in 1..c.at - 1} \cup ({its[i][1] : i \in 1..c.at} \ Strings)
          /\ Written(h, c) = {its[i][2] : i \in 1..c.at - 1} \cup ({its[i][1] : i \in 1..c.at - 1} \ Strings)
      BY <1>1, <2>1, <2>2 DEF Written
    <3>2. CASE x \in {its[i][2] : i \in 1..c.at - 1}
      BY <3>1, <3>2
    <3>3. CASE x \in {its[i][1] : i \in 1..c.at} \ Strings
      <4>1. PICK i \in 1..c.at : x = its[i][1] /\ x \notin Strings
        BY <3>3
      <4>2. CASE i = c.at
        BY <1>1, <2>2, <4>1, <4>2 DEF TurnOf, NullOf, InlineOf
      <4>3. CASE i # c.at
        <5>1. i \in 1..c.at - 1
          BY <1>0, <4>3
        <5> QED
          BY <3>1, <4>1, <5>1
      <4> QED
        BY <4>2, <4>3
    <3> QED
      BY <3>1, <3>2, <3>3
  <2>3. CASE h[c.obj].kind = "set"
    <3>1. /\ x \in {its[i] : i \in 1..c.at} \ Strings
          /\ Written(h, c) = {its[i] : i \in 1..c.at - 1} \ Strings
      BY <1>1, <2>1, <2>3 DEF Written
    <3>2. PICK i \in 1..c.at : x = its[i] /\ x \notin Strings
      BY <3>1
    <3>3. CASE i = c.at
      BY <1>1, <2>3, <3>2, <3>3 DEF TurnOf, NullOf, InlineOf
    <3>4. CASE i # c.at
      <4>1. i \in 1..c.at - 1
        BY <1>0, <3>4
      <4> QED
        BY <3>1, <3>2, <4>1
    <3> QED
      BY <3>3, <3>4
  <2> QED
    BY <1>1, <2>2, <2>3
<1>2. CASE ~(h[c.obj].kind \in {"dict", "set"} /\ ~c.half)
  <2>2. PICK n \in Nat : n = c.at + 1 /\ n - 1 = c.at
    BY <1>0
  <2>1. Stepped(h, c) = [obj |-> c.obj, at |-> n, half |-> FALSE]
    BY <1>2, <2>2 DEF Stepped, Places
  <2>3. CASE h[c.obj].kind = "dict"
    <3>1. /\ x \in {its[i][2] : i \in 1..c.at} \cup ({its[i][1] : i \in 1..c.at} \ Strings)
          /\ Written(h, c) = {its[i][2] : i \in 1..c.at - 1} \cup ({its[i][1] : i \in 1..c.at} \ Strings)
      BY <1>2, <2>1, <2>2, <2>3 DEF Written
    <3>2. CASE x \in {its[i][1] : i \in 1..c.at} \ Strings
      BY <3>1, <3>2
    <3>3. CASE x \in {its[i][2] : i \in 1..c.at}
      <4>1. PICK i \in 1..c.at : x = its[i][2]
        BY <3>3
      <4>2. CASE i = c.at
        BY <1>2, <2>3, <4>1, <4>2 DEF TurnOf, NullOf, InlineOf
      <4>3. CASE i # c.at
        <5>1. i \in 1..c.at - 1
          BY <1>0, <4>3
        <5> QED
          BY <3>1, <4>1, <5>1
      <4> QED
        BY <4>2, <4>3
    <3> QED
      BY <3>1, <3>2, <3>3
  <2>4. CASE h[c.obj].kind = "set"
    <3>1. Written(h, Stepped(h, c)) = Written(h, c)
      BY <1>2, <2>1, <2>2, <2>4 DEF Written
    <3> QED
      BY <3>1
  <2>5. CASE h[c.obj].kind \notin {"dict", "set"}
    <3>1. x \in {its[i] : i \in 1..c.at} /\ Written(h, c) = {its[i] : i \in 1..c.at - 1}
      BY <2>1, <2>2, <2>5 DEF Written
    <3>2. PICK i \in 1..c.at : x = its[i]
      BY <3>1
    <3>3. CASE i = c.at
      BY <2>5, <3>2, <3>3 DEF TurnOf, NullOf, InlineOf
    <3>4. CASE i # c.at
      <4>1. i \in 1..c.at - 1
        BY <1>0, <3>4
      <4> QED
        BY <3>1, <3>2, <4>1
    <3> QED
      BY <3>3, <3>4
  <2> QED
    BY <2>3, <2>4, <2>5
<1> QED
  BY <1>1, <1>2

\* A call that is over has written every child.
LEMMA WrittenAtTheEnd ==
    ASSUME NEW h \in [Objs -> Object], NEW c \in Places(h), c.at = Len(h[c.obj].items) + 1
    PROVE  Children(h, c.obj) \subseteq Written(h, c)
<1> DEFINE its == h[c.obj].items
<1>1. Len(its) \in Nat /\ DOMAIN its = 1..Len(its) /\ c.at - 1 = Len(its)
  BY DEF Object, Places
<1>2. ~c.half
  BY <1>1 DEF Places
<1> SUFFICES ASSUME NEW x \in Children(h, c.obj) PROVE x \in Written(h, c)
  OBVIOUS
<1>3. CASE h[c.obj].kind = "dict"
  <2>1. x \in {its[i][2] : i \in 1..Len(its)} \cup ({its[i][1] : i \in 1..Len(its)} \ Strings)
    BY <1>1, <1>3 DEF Children
  <2> QED
    BY <1>1, <1>2, <1>3, <2>1 DEF Written
<1>4. CASE h[c.obj].kind = "set"
  <2>1. x \in {its[i] : i \in 1..Len(its)} \ Strings
    BY <1>1, <1>4 DEF Children
  <2> QED
    BY <1>1, <1>2, <1>4, <2>1 DEF Written
<1>5. CASE h[c.obj].kind \notin {"dict", "set"}
  <2>1. x \in {its[i] : i \in 1..Len(its)}
    BY <1>1, <1>5 DEF Children
  <2> QED
    BY <1>1, <1>2, <1>5, <2>1 DEF Written
<1> QED
  BY <1>3, <1>4, <1>5

\* A value a call is made for is a child.
LEMMA TurnIsChild ==
    ASSUME NEW h \in [Objs -> Object], NEW c \in Places(h), c.at <= Len(h[c.obj].items),
           ~NullOf(h, c), ~InlineOf(h, c)
    PROVE  TurnOf(h, c) \in Children(h, c.obj)
<1> DEFINE its == h[c.obj].items
<1>1. Len(its) \in Nat /\ DOMAIN its = 1..Len(its) /\ c.at \in 1..Len(its)
  BY DEF Object, Places
<1>2. c.obj \in Objs /\ ~UnsupportedIn(h, c.obj)
  BY DEF Places, UnsupportedIn
<1> QED
  BY <1>1, <1>2 DEF Children, TurnOf, NullOf, InlineOf

LEMMA NothingWrittenYet ==
    ASSUME NEW h \in [Objs -> Object], NEW v \in Objs
    PROVE  Written(h, [obj |-> v, at |-> 1, half |-> FALSE]) = {}
BY DEF Written

-----------------------------------------------------------------------------
(* The way down: how writing, entering and leaving a value move it. *)

\* A way down of which the last call has written some of V.
WayTo(h, root, s, V) ==
    /\ Len(s) <= MaxNesting + 1
    /\ \A k \in 1..Len(s) :
          /\ s[k].obj \in Levels(h, root)[k - 1]
          /\ \A x \in Written(h, s[k]) :
                Fine(h, x, k) \/ (k < Len(s) /\ x = s[k + 1].obj) \/ (k = Len(s) /\ x \in V)

LEMMA WayStepped ==
    ASSUME NEW h, NEW root, NEW s \in Seq(Places(h)), Len(s) > 0, Way(h, root, s),
           NEW c \in Places(h), c.obj = s[Len(s)].obj,
           NEW V, \A x \in Written(h, c) : x \in Written(h, s[Len(s)]) \/ x \in V
    PROVE  WayTo(h, root, [s EXCEPT ![Len(s)] = c], V)
<1> DEFINE t == [s EXCEPT ![Len(s)] = c]
<1>1. Len(s) \in Nat /\ Len(s) \in 1..Len(s)
  OBVIOUS
<1>2. Len(t) = Len(s) /\ t[Len(s)] = c /\ \A k \in 1..Len(s) : k # Len(s) => t[k] = s[k]
  BY <1>1, ExceptSeq
<1> HIDE DEF t
<1>3. \A k \in 1..Len(s) : t[k].obj = s[k].obj
  BY <1>1, <1>2
<1>4. Len(s) <= MaxNesting + 1
  BY DEF Way
<1>5. ASSUME NEW k \in 1..Len(s)
      PROVE  t[k].obj \in Levels(h, root)[k - 1]
  BY <1>3 DEF Way
<1>6. ASSUME NEW k \in 1..Len(s), NEW x \in Written(h, t[k])
      PROVE  Fine(h, x, k) \/ (k < Len(s) /\ x = t[k + 1].obj) \/ (k = Len(s) /\ x \in V)
  <2>1. CASE k = Len(s)
    <3>1. x \in Written(h, s[k]) \/ x \in V
      BY <1>2, <1>6, <2>1
    <3>2. x \in Written(h, s[k]) => Fine(h, x, k) \/ (k < Len(s) /\ x = s[k + 1].obj)
      BY DEF Way
    <3>3. ~(k < Len(s))
      BY <1>1, <2>1
    <3> QED
      BY <2>1, <3>1, <3>2, <3>3
  <2>2. CASE k # Len(s)
    <3>1. t[k] = s[k] /\ k < Len(s) /\ k + 1 \in 1..Len(s)
      BY <1>1, <1>2, <2>2
    <3>2. Fine(h, x, k) \/ x = s[k + 1].obj
      BY <1>6, <3>1 DEF Way
    <3> QED
      BY <1>3, <3>1, <3>2
  <2> QED
    BY <2>1, <2>2
<1>7. WayTo(h, root, t, V)
  BY <1>2, <1>4, <1>5, <1>6 DEF WayTo
<1> QED
  BY <1>7 DEF t

LEMMA WayEntered ==
    ASSUME NEW h \in [Objs -> Object], NEW root, NEW s \in Seq(Places(h)), NEW v \in Objs,
           Len(s) <= MaxNesting, v \in Levels(h, root)[Len(s)], WayTo(h, root, s, {v})
    PROVE  Way(h, root, Append(s, [obj |-> v, at |-> 1, half |-> FALSE]))
<1> DEFINE new == [obj |-> v, at |-> 1, half |-> FALSE]
           t == Append(s, new)
<1>1. Len(s) \in Nat /\ MaxNesting \in Nat
  BY DumpAssumption
<1>2. Len(t) = Len(s) + 1 /\ t[Len(s) + 1] = new /\ \A k \in 1..Len(s) : t[k] = s[k]
  BY <1>1
<1>3. new.obj = v /\ Written(h, new) = {}
  BY NothingWrittenYet
<1> HIDE DEF t, new
<1>4. ASSUME NEW k \in 1..Len(t)
      PROVE  t[k].obj \in Levels(h, root)[k - 1]
  <2>1. CASE k = Len(s) + 1
    BY <1>1, <1>2, <1>3, <2>1
  <2>2. CASE k # Len(s) + 1
    <3>1. k \in 1..Len(s)
      BY <1>1, <1>2, <2>2
    <3> QED
      BY <1>2, <3>1 DEF WayTo
  <2> QED
    BY <2>1, <2>2
<1>5. ASSUME NEW k \in 1..Len(t), NEW x \in Written(h, t[k])
      PROVE  Fine(h, x, k) \/ (k < Len(t) /\ x = t[k + 1].obj)
  <2>1. k # Len(s) + 1
    BY <1>2, <1>3, <1>5
  <2>2. k \in 1..Len(s) /\ k < Len(t)
    BY <1>1, <1>2, <2>1
  <2>3. CASE k = Len(s)
    <3>1. Fine(h, x, k) \/ x = v
      BY <1>1, <1>2, <1>5, <2>2, <2>3 DEF WayTo
    <3>2. t[k + 1].obj = v
      BY <1>2, <1>3, <2>3
    <3> QED
      BY <2>2, <3>1, <3>2
  <2>4. CASE k # Len(s)
    <3>1. k + 1 \in 1..Len(s)
      BY <1>1, <2>2, <2>4
    <3>2. Fine(h, x, k) \/ x = s[k + 1].obj
      BY <1>2, <1>5, <2>2, <2>4 DEF WayTo
    <3> QED
      BY <1>2, <2>2, <3>1, <3>2
  <2> QED
    BY <2>3, <2>4
<1>6. Len(t) <= MaxNesting + 1
  BY <1>1, <1>2
<1>7. Way(h, root, t)
  BY <1>4, <1>5, <1>6 DEF Way
<1> QED
  BY <1>7 DEF t, new

\* A value whose call is over is fine where it stands.
LEMMA FinishedIsFine ==
    ASSUME NEW h \in [Objs -> Object], NEW root, NEW s \in Seq(Places(h)), Len(s) > 0,
           Way(h, root, s), s[Len(s)].at > Len(h[s[Len(s)].obj].items)
    PROVE  Fine(h, s[Len(s)].obj, Len(s) - 1)
<1>1. /\ MaxNesting \in Nat /\ Len(s) \in Nat /\ Len(s) \in 1..Len(s)
      /\ Len(s) <= MaxNesting + 1
  BY DumpAssumption DEF Way
<1>2. PICK c \in Places(h) : c = s[Len(s)]
  BY <1>1
<1>3. PICK d \in 0..MaxNesting : d = Len(s) - 1 /\ d + 1 = Len(s)
  BY <1>1
<1>4. c.at = Len(h[c.obj].items) + 1
  <2>1. Len(h[c.obj].items) \in Nat /\ c.at \in Nat /\ c.at <= Len(h[c.obj].items) + 1
    BY DEF Places, Object
  <2> QED
    BY <1>2, <2>1
<1>5. \A x \in Children(h, c.obj) : Fine(h, x, d + 1)
  <2> SUFFICES ASSUME NEW x \in Children(h, c.obj) PROVE Fine(h, x, d + 1)
    OBVIOUS
  <2>1. x \in Written(h, c)
    BY <1>4, WrittenAtTheEnd
  <2>2. Fine(h, x, Len(s))
    BY <1>1, <1>2, <2>1 DEF Way
  <2> QED
    BY <1>3, <2>2
<1>6. ~UnsupportedIn(h, c.obj)
  BY DEF Places, UnsupportedIn
<1>7. Fine(h, c.obj, d)
  BY <1>5, <1>6, FineFromChildren
<1> QED
  BY <1>2, <1>3, <1>7

LEMMA WayLeft ==
    ASSUME NEW h \in [Objs -> Object], NEW root, NEW s \in Seq(Places(h)), Len(s) > 0,
           Way(h, root, s), s[Len(s)].at > Len(h[s[Len(s)].obj].items)
    PROVE  Way(h, root, SubSeq(s, 1, Len(s) - 1))
<1>0. /\ Len(s) \in Nat /\ Len(s) - 1 \in Nat
      /\ Len(s) - 1 + 1 = Len(s) /\ Len(s) - 1 <= Len(s)
  OBVIOUS
<1>1. PICK n \in Nat : n = Len(s) - 1 /\ n + 1 = Len(s) /\ n <= Len(s)
  BY <1>0
<1> DEFINE t == SubSeq(s, 1, n)
<1>2. Len(t) = n /\ \A k \in 1..n : t[k] = s[k]
  BY <1>1
<1> HIDE DEF t
<1>3. \A k \in 1..n : k \in 1..Len(s)
  BY <1>1
<1>4. ASSUME NEW k \in 1..n
      PROVE  t[k].obj \in Levels(h, root)[k - 1]
  BY <1>2, <1>3 DEF Way
<1>5. ASSUME NEW k \in 1..n, NEW x \in Written(h, t[k])
      PROVE  Fine(h, x, k) \/ (k < n /\ x = t[k + 1].obj)
  <2>1. Fine(h, x, k) \/ (k < Len(s) /\ x = s[k + 1].obj)
    BY <1>2, <1>3, <1>5 DEF Way
  <2>2. CASE k = n
    <3>1. Fine(h, s[Len(s)].obj, Len(s) - 1)
      BY FinishedIsFine
    <3> QED
      BY <1>1, <2>1, <2>2, <3>1
  <2>3. CASE k # n
    <3>1. k < n /\ k + 1 \in 1..n
      BY <1>1, <2>3
    <3> QED
      BY <1>2, <2>1, <3>1
  <2> QED
    BY <2>2, <2>3
<1>6. n <= MaxNesting + 1
  <2>1. Len(s) <= MaxNesting + 1 /\ MaxNesting \in Nat
    BY DumpAssumption DEF Way
  <2> QED
    BY <1>1, <2>1
<1>7. Way(h, root, t)
  BY <1>2, <1>4, <1>5, <1>6 DEF Way
<1> QED
  BY <1>1, <1>7 DEF t

-----------------------------------------------------------------------------
(* The walk's invariant. *)

LEMMA WaysMeet ==
    ASSUME NEW h, NEW root, NEW s, NEW V, WayTo(h, root, s, V),
           \A x \in V : Fine(h, x, Len(s))
    PROVE  Way(h, root, s)
BY DEF WayTo, Way

\* Where a value is visited, and what is left to be written there.
LEMMA Visiting ==
    ASSUME DumpTypeOK, CallsInv, InValue, ~Finished
    PROVE  /\ Caller \in Places(objects) /\ Caller = calls[Len(calls)]
           /\ Caller.at <= Len(objects[Caller.obj].items) /\ Len(calls) > 0
           /\ objects \in [Objs -> Object] /\ calls \in Seq(Places(objects))
<1>1. /\ objects \in [Objs -> Object] /\ calls \in Seq(Places(objects)) /\ calls # <<>>
  BY DEF DumpTypeOK, InValue
<1>2. Len(calls) > 0 /\ Len(calls) \in 1..Len(calls)
  BY <1>1
<1>3. Caller \in Places(objects) /\ Caller = calls[Len(calls)]
  BY <1>1, <1>2 DEF Caller
<1>4. Caller.at <= Len(objects[Caller.obj].items)
  <2>1. Len(objects[Caller.obj].items) \in Nat /\ Caller.at \in Nat
    BY <1>1, <1>3 DEF Places, Object
  <2> QED
    BY <2>1 DEF Finished, Items
<1> QED
  BY <1>1, <1>2, <1>3, <1>4

LEMMA AdvancedFits ==
    ASSUME DumpTypeOK, CallsInv, InValue, ~Finished
    PROVE  /\ Advanced \in Seq(Places(objects)) /\ Len(Advanced) = Len(calls)
           /\ WayTo(objects, Root, Advanced, IF NullTurn \/ Inline THEN {} ELSE {Turn})
<1> DEFINE c == Stepped(objects, Caller)
           V == IF NullTurn \/ Inline THEN {} ELSE {Turn}
<1>1. /\ Caller \in Places(objects) /\ Caller = calls[Len(calls)]
      /\ Caller.at <= Len(objects[Caller.obj].items) /\ Len(calls) > 0
      /\ objects \in [Objs -> Object] /\ calls \in Seq(Places(objects))
  BY Visiting
<1>2. c \in Places(objects) /\ c.obj = Caller.obj
  BY <1>1, SteppedFits
<1>3. \A x \in Written(objects, c) : x \in Written(objects, calls[Len(calls)]) \/ x \in V
  <2> SUFFICES ASSUME NEW x \in Written(objects, c) PROVE x \in Written(objects, Caller) \/ x \in V
    BY <1>1
  <2>1. \/ x \in Written(objects, Caller)
        \/ x = TurnOf(objects, Caller) /\ ~NullOf(objects, Caller) /\ ~InlineOf(objects, Caller)
    BY <1>1, SteppedWrites
  <2> QED
    BY <2>1, StepsAreThese
<1>4. Advanced = [calls EXCEPT ![Len(calls)] = c]
  BY StepsAreThese
<1>5. Way(objects, Root, calls)
  BY DEF CallsInv
<1> HIDE DEF c, V
<1>6. WayTo(objects, Root, Advanced, V)
  BY <1>1, <1>2, <1>3, <1>4, <1>5, WayStepped
<1>7. Len(calls) \in 1..Len(calls)
  BY <1>1
<1>8. Advanced \in Seq(Places(objects)) /\ Len(Advanced) = Len(calls)
  BY <1>1, <1>2, <1>4, <1>7, ExceptSeq
<1> QED
  BY <1>6, <1>8 DEF V

LEMMA RestFits ==
    ASSUME DumpTypeOK, CallsInv, RootTurn \/ ChildTurn
    PROVE  /\ Rest \in Seq(Places(objects)) /\ Len(Rest) = Len(calls)
           /\ WayTo(objects, Root, Rest, {Visited})
<1>1. CASE RootTurn
  <2>1. calls = <<>> /\ Rest = <<>>
    BY <1>1 DEF RootTurn, Rest
  <2>2. 0 <= MaxNesting + 1
    BY DumpAssumption
  <2>3. Rest \in Seq(Places(objects)) /\ Len(Rest) = 0 /\ Len(calls) = 0
    BY <2>1
  <2> QED
    BY <2>2, <2>3 DEF WayTo
<1>2. CASE ChildTurn
  <2>1. InValue /\ ~Finished /\ ~(NullTurn \/ Inline) /\ calls # <<>>
    BY <1>2 DEF ChildTurn, InValue
  <2>2. Rest = Advanced /\ Visited = Turn
    BY <2>1 DEF Rest, Visited
  <2>3. /\ Advanced \in Seq(Places(objects)) /\ Len(Advanced) = Len(calls)
        /\ WayTo(objects, Root, Advanced, IF NullTurn \/ Inline THEN {} ELSE {Turn})
    BY <2>1, AdvancedFits
  <2> QED
    BY <2>1, <2>2, <2>3
<1> QED
  BY <1>1, <1>2

LEMMA VisitedAtItsLevel ==
    ASSUME DumpTypeOK, CallsInv, RootTurn \/ ChildTurn
    PROVE  Len(calls) \in 0..MaxNesting + 1 /\ Visited \in Levels(objects, Root)[Len(calls)]
<1>0. MaxNesting \in Nat /\ Len(calls) \in Nat
  BY DumpAssumption DEF DumpTypeOK
<1>1. CASE RootTurn
  <2>1. Len(calls) = 0 /\ Visited = Root
    BY <1>1 DEF RootTurn, Visited, Root
  <2> QED
    BY <1>0, <2>1, LevelsAre
<1>2. CASE ChildTurn
  <2>1. InValue /\ ~Finished /\ ~NullTurn /\ ~Inline /\ calls # <<>> /\ Visited = Turn
    BY <1>2 DEF ChildTurn, InValue, Visited
  <2>2. /\ Caller \in Places(objects) /\ Caller = calls[Len(calls)]
        /\ Caller.at <= Len(objects[Caller.obj].items) /\ Len(calls) > 0
        /\ objects \in [Objs -> Object] /\ calls \in Seq(Places(objects))
    BY <2>1, Visiting
  <2>3. Turn \in Children(objects, Caller.obj)
    <3>1. ~NullOf(objects, Caller) /\ ~InlineOf(objects, Caller)
      BY <2>1, StepsAreThese
    <3>2. TurnOf(objects, Caller) \in Children(objects, Caller.obj)
      BY <2>2, <3>1, TurnIsChild
    <3> QED
      BY <3>2, StepsAreThese
  <2>4. Len(calls) \in 1..Len(calls) /\ Len(calls) <= MaxNesting + 1
    BY <1>0, <2>2 DEF CallsInv, Way
  <2>5. Caller.obj \in Levels(objects, Root)[Len(calls) - 1]
    BY <2>2, <2>4 DEF CallsInv, Way
  <2>6. PICK n \in 0..MaxNesting : n = Len(calls) - 1 /\ n + 1 = Len(calls)
    BY <1>0, <2>4
  <2>7. Levels(objects, Root)[n + 1] = UNION {Children(objects, v) : v \in Levels(objects, Root)[n]}
    BY LevelsAre
  <2> QED
    BY <1>0, <2>1, <2>3, <2>4, <2>5, <2>6, <2>7
<1> QED
  BY <1>1, <1>2

\* A step of the walk within one document.
LEMMA WalkKeeps ==
    ASSUME DumpInv, UNCHANGED <<values, objects, parts, dumped>>, buffer' \in Buffers,
           calls' \in Seq(Places(objects)), Way(objects, Root, calls'),
           calls' = <<>> => Fine(objects, Root, 0)
    PROVE  DumpInv'
<1>1. Root' = Root
  BY DEF Root
<1>2. DumpTypeOK'
  BY DEF DumpInv, DumpTypeOK
<1>3. CallsInv'
  BY <1>1 DEF CallsInv
<1>4. RefusedJustly'
  BY DEF DumpInv, RefusedJustly, NestsTooDeeply, HoldsOdd, Unsupported
<1> QED
  BY <1>2, <1>3, <1>4 DEF DumpInv

LEMMA WriteScalarKeeps == DumpInv /\ WriteScalar => DumpInv'
<1> SUFFICES ASSUME DumpInv, WriteScalar PROVE DumpInv'
  OBVIOUS
<1> DEFINE es == ScalarEntries(Visited)
<1>1. /\ RootTurn \/ ChildTurn
      /\ ~TooDeep /\ Visited \in Scalars /\ ~Unsupported(Visited)
      /\ Emit(es) /\ calls' = Rest
      /\ UNCHANGED <<values, objects, parts, dumped>>
  BY DEF WriteScalar
<1>2. DumpTypeOK /\ CallsInv /\ MaxNesting \in Nat /\ Len(calls) \in Nat
  BY DumpAssumption DEF DumpInv, DumpTypeOK
<1>3. es \in Seq(Filled) /\ Len(es) \in {1, 2}
  BY <1>1, ScalarEntriesFit
<1> HIDE DEF es
<1>4. buffer' \in Buffers
  BY <1>1, <1>2, <1>3, EmitFits DEF DumpTypeOK
<1>5. Len(calls) \in 0..MaxNesting
  BY <1>1, <1>2 DEF TooDeep
<1>6. Fine(objects, Visited, Len(calls))
  <2>1. ~UnsupportedIn(objects, Visited)
    BY <1>1 DEF Unsupported
  <2> QED
    BY <1>1, <1>5, <2>1, FineScalar
<1>7. /\ Rest \in Seq(Places(objects)) /\ Len(Rest) = Len(calls)
      /\ WayTo(objects, Root, Rest, {Visited})
  BY <1>1, <1>2, RestFits
<1>8. Way(objects, Root, Rest)
  BY <1>6, <1>7, WaysMeet
<1>9. Rest = <<>> => Fine(objects, Root, 0)
  <2> SUFFICES ASSUME Rest = <<>> PROVE Fine(objects, Root, 0)
    OBVIOUS
  <2>1. Len(calls) = 0 /\ calls = <<>>
    BY <1>2, <1>7 DEF DumpTypeOK
  <2>2. Visited = Root
    BY <2>1 DEF Visited, Root
  <2> QED
    BY <1>6, <2>1, <2>2
<1> QED
  BY <1>1, <1>4, <1>7, <1>8, <1>9, WalkKeeps

LEMMA EnterKeeps == DumpInv /\ Enter => DumpInv'
<1> SUFFICES ASSUME DumpInv, Enter PROVE DumpInv'
  OBVIOUS
<1> DEFINE es == OpenEntries(ObjKind(Visited))
           new == [obj |-> Visited, at |-> 1, half |-> FALSE]
<1>1. /\ RootTurn \/ ChildTurn
      /\ ~TooDeep /\ Visited \in Objs /\ ~Unsupported(Visited)
      /\ Emit(es) /\ calls' = Append(Rest, new)
      /\ UNCHANGED <<values, objects, parts, dumped>>
  BY DEF Enter
<1>2. DumpTypeOK /\ CallsInv /\ MaxNesting \in Nat /\ Len(calls) \in Nat
  BY DumpAssumption DEF DumpInv, DumpTypeOK
<1>3. es \in Seq(Filled) /\ Len(es) \in {1, 2}
  BY OpenEntriesFit
<1> HIDE DEF es
<1>4. buffer' \in Buffers
  BY <1>1, <1>2, <1>3, EmitFits DEF DumpTypeOK
<1>5. Len(calls) <= MaxNesting
  BY <1>1, <1>2 DEF TooDeep
<1>6. /\ Rest \in Seq(Places(objects)) /\ Len(Rest) = Len(calls)
      /\ WayTo(objects, Root, Rest, {Visited})
  BY <1>1, <1>2, RestFits
<1>7. Visited \in Levels(objects, Root)[Len(calls)]
  BY <1>1, <1>2, VisitedAtItsLevel
<1>8. objects \in [Objs -> Object]
  BY <1>2 DEF DumpTypeOK
<1>9. Way(objects, Root, Append(Rest, new))
  BY <1>1, <1>5, <1>6, <1>7, <1>8, WayEntered
<1>10. new \in Places(objects)
  <2>1. objects[Visited].kind # "subclass"
    BY <1>1 DEF Unsupported, UnsupportedIn
  <2>2. Len(objects[Visited].items) \in Nat
    BY <1>1, <1>8 DEF Object
  <2> QED
    BY <1>1, <2>1, <2>2 DEF Places
<1> HIDE DEF new
<1>11. Append(Rest, new) \in Seq(Places(objects)) /\ Append(Rest, new) # <<>>
  <2>1. Len(Append(Rest, new)) = Len(Rest) + 1 /\ Len(Rest) \in Nat
    BY <1>6
  <2> QED
    BY <1>6, <1>10, <2>1
<1> QED
  BY <1>1, <1>4, <1>9, <1>11, WalkKeeps

LEMMA InlineKeeps == DumpInv /\ (WriteInline \/ WriteNull) => DumpInv'
<1> SUFFICES ASSUME DumpInv, WriteInline \/ WriteNull PROVE DumpInv'
  OBVIOUS
<1>1. PICK v \in Scalars : Emit(ScalarEntries(v))
  <2>1. CASE WriteInline
    <3>1. Turn \in Scalars /\ Emit(ScalarEntries(Turn))
      BY <2>1, DumpAssumption DEF WriteInline, Inline
    <3> QED
      BY <3>1
  <2>2. CASE WriteNull
    <3>1. Null \in Scalars /\ Emit(ScalarEntries(Null))
      BY <2>2, DumpAssumption DEF WriteNull
    <3> QED
      BY <3>1
  <2> QED
    BY <2>1, <2>2
<1>2. /\ InValue /\ ~Finished /\ (NullTurn \/ Inline)
      /\ calls' = Advanced /\ UNCHANGED <<values, objects, parts, dumped>>
  BY DEF WriteInline, WriteNull
<1>3. DumpTypeOK /\ CallsInv
  BY DEF DumpInv
<1>4. buffer' \in Buffers
  <2>1. ScalarEntries(v) \in Seq(Filled) /\ Len(ScalarEntries(v)) \in {1, 2}
    BY ScalarEntriesFit
  <2> QED
    BY <1>1, <1>3, <2>1, EmitFits DEF DumpTypeOK
<1>5. /\ Advanced \in Seq(Places(objects)) /\ Len(Advanced) = Len(calls)
      /\ WayTo(objects, Root, Advanced, IF NullTurn \/ Inline THEN {} ELSE {Turn})
  BY <1>2, <1>3, AdvancedFits
<1>6. Way(objects, Root, Advanced)
  <2>1. PICK G : G = {}
    OBVIOUS
  <2>2. WayTo(objects, Root, Advanced, G) /\ \A x \in G : Fine(objects, x, Len(Advanced))
    BY <1>2, <1>5, <2>1
  <2> QED
    BY <2>2, WaysMeet
<1>7. Advanced # <<>>
  <2>1. Len(calls) > 0
    BY <1>2, <1>3, Visiting
  <2> QED
    BY <1>5, <2>1
<1> QED
  BY <1>2, <1>4, <1>5, <1>6, <1>7, WalkKeeps

LEMMA LeaveKeeps == DumpInv /\ Leave => DumpInv'
<1> SUFFICES ASSUME DumpInv, Leave PROVE DumpInv'
  OBVIOUS
<1> DEFINE es == <<Open("end")>>
           outer == SubSeq(calls, 1, Len(calls) - 1)
<1>1. /\ InValue /\ Finished /\ Emit(es)
      /\ calls' = outer /\ UNCHANGED <<values, objects, parts, dumped>>
  BY DEF Leave
<1>2. /\ objects \in [Objs -> Object] /\ calls \in Seq(Places(objects)) /\ buffer \in Buffers
      /\ Way(objects, Root, calls) /\ MaxNesting \in Nat
  BY DumpAssumption DEF DumpInv, DumpTypeOK, CallsInv
<1>3. Len(calls) \in Nat /\ Len(calls) > 0 /\ Len(calls) \in 1..Len(calls)
  BY <1>1, <1>2 DEF InValue
<1>4. buffer' \in Buffers
  <2>1. Open("end") \in Filled
    BY DEF Open, Filled
  <2>2. es \in Seq(Filled) /\ Len(es) \in {1, 2}
    BY <2>1
  <2> HIDE DEF es
  <2> QED
    BY <1>1, <1>2, <2>2, EmitFits
<1>5. calls[Len(calls)].at > Len(objects[calls[Len(calls)].obj].items)
  BY <1>1 DEF Finished, Items, Caller
<1>6. Way(objects, Root, outer)
  BY <1>2, <1>3, <1>5, WayLeft
<1>7. outer \in Seq(Places(objects)) /\ Len(outer) = Len(calls) - 1
  <2> DEFINE n == Len(calls) - 1
             T == Places(objects)
  <2>1. n \in Nat /\ n <= Len(calls)
    BY <1>3
  <2>2. calls \in Seq(T)
    BY <1>2
  <2> HIDE DEF n, T
  <2>3. SubSeq(calls, 1, n) \in Seq(T) /\ Len(SubSeq(calls, 1, n)) = n
    BY <2>1, <2>2
  <2> QED
    BY <2>3 DEF n, T
<1>8. outer = <<>> => Fine(objects, Root, 0)
  <2> SUFFICES ASSUME outer = <<>> PROVE Fine(objects, Root, 0)
    OBVIOUS
  <2>1. Len(calls) = 1
    <3>1. Len(outer) = 0
      OBVIOUS
    <3> QED
      BY <1>3, <1>7, <3>1
  <2>2. Fine(objects, calls[Len(calls)].obj, Len(calls) - 1)
    BY <1>2, <1>3, <1>5, FinishedIsFine
  <2>3. calls[Len(calls)].obj \in Levels(objects, Root)[Len(calls) - 1]
    BY <1>2, <1>3 DEF Way
  <2>4. calls[Len(calls)].obj = Root
    BY <2>1, <2>3, LevelsAre
  <2> QED
    BY <2>1, <2>2, <2>4
<1> HIDE DEF outer
<1> QED
  BY <1>1, <1>4, <1>6, <1>7, <1>8, WalkKeeps

LEMMA BuildKeeps == DumpInv /\ Build => DumpInv'
<1> SUFFICES ASSUME DumpInv, Build PROVE DumpInv'
  OBVIOUS
<1> DEFINE new == SubSeq(buffer.ents, 1, buffer.cursor)
<1>1. /\ dumped = "walking" /\ calls = <<>> /\ buffer.cursor > 0
      /\ parts' = Append(parts, new) /\ buffer' = NewBuffer
      /\ UNCHANGED <<values, objects, calls, dumped>>
  BY DEF Build, Walking
<1>2. DumpTypeOK /\ CallsInv /\ RefusedJustly /\ buffer \in Buffers /\ parts \in Seq(Seq(Filled))
  BY DEF DumpInv, DumpTypeOK
<1>3. new \in Seq(Filled)
  <2>1. PICK e, n : e = buffer.ents /\ n = buffer.cursor
    OBVIOUS
  <2>2. e \in Seq(Filled \cup {Blank}) /\ n \in Nat /\ n <= Len(e) /\ \A i \in 1..n : e[i] \in Filled
    BY <1>2, <2>1 DEF Buffers
  <2>3. Len(SubSeq(e, 1, n)) = n /\ \A i \in 1..n : SubSeq(e, 1, n)[i] = e[i]
    BY <2>2
  <2>4. SubSeq(e, 1, n) = [i \in 1..n |-> e[i]]
    BY <2>2
  <2>5. [i \in 1..n |-> e[i]] \in Seq(Filled)
    BY <2>2, IsASeq
  <2> QED
    BY <2>1, <2>4, <2>5
<1>4. Fine(objects, Root, 0)
  BY <1>1, <1>2 DEF CallsInv
<1> HIDE DEF new
<1>5. DumpTypeOK'
  <2>1. parts' \in Seq(Seq(Filled))
    BY <1>1, <1>2, <1>3
  <2> QED
    BY <1>1, <1>2, <2>1, NewBufferFits DEF DumpTypeOK
<1>6. CallsInv'
  <2>1. 0 <= MaxNesting + 1 /\ calls' = <<>> /\ Len(calls') = 0 /\ ~(buffer'.cursor > 0)
    BY <1>1, DumpAssumption, NewBufferFits
  <2> QED
    BY <2>1 DEF CallsInv, Way
<1>7. RefusedJustly'
  <2>1. \A i \in DOMAIN parts : ~NestsTooDeeply(values[i]) /\ ~HoldsOdd(values[i])
    BY <1>2 DEF RefusedJustly
  <2>2. ~NestsTooDeeply(values[Len(parts) + 1]) /\ ~HoldsOdd(values[Len(parts) + 1])
    BY <1>4, FineRoot DEF Root
  <2>3. \A i \in DOMAIN parts' : i \in DOMAIN parts \/ i = Len(parts) + 1
    BY <1>1, <1>2
  <2>4. \A i \in DOMAIN parts' : ~NestsTooDeeply(values[i]) /\ ~HoldsOdd(values[i])
    BY <2>1, <2>2, <2>3
  <2>5. (\A i \in DOMAIN parts : ~NestsTooDeeply(values[i]) /\ ~HoldsOdd(values[i]))'
    BY <1>1, <2>4 DEF NestsTooDeeply, HoldsOdd, Unsupported
  <2> QED
    BY <1>1, <2>5 DEF RefusedJustly
<1> QED
  BY <1>5, <1>6, <1>7 DEF DumpInv

LEMMA JoinKeeps == DumpInv /\ Join => DumpInv'
<1> SUFFICES ASSUME DumpInv, Join PROVE DumpInv'
  OBVIOUS
<1>1. /\ Len(parts) = Len(values) /\ dumped' = "text"
      /\ UNCHANGED <<values, objects, calls, buffer, parts>>
  BY DEF Join
<1>2. DumpTypeOK'
  BY <1>1 DEF DumpInv, DumpTypeOK
<1>3. CallsInv'
  BY <1>1 DEF DumpInv, CallsInv, Root
<1>4. RefusedJustly'
  BY <1>1 DEF DumpInv, RefusedJustly, NestsTooDeeply, HoldsOdd, Unsupported
<1> QED
  BY <1>2, <1>3, <1>4 DEF DumpInv

LEMMA RefuseKeeps == DumpInv /\ Refuse => DumpInv'
<1> SUFFICES ASSUME DumpInv, Refuse PROVE DumpInv'
  OBVIOUS
<1>1. /\ RootTurn \/ ChildTurn
      /\ TooDeep \/ Unsupported(Visited)
      /\ dumped' = IF TooDeep THEN "EmitterError" ELSE "RepresenterError"
      /\ UNCHANGED <<values, objects, calls, buffer, parts>>
  BY DEF Refuse
<1>2. DumpTypeOK /\ CallsInv /\ RefusedJustly /\ MaxNesting \in Nat
  BY DumpAssumption DEF DumpInv
<1>3. Len(calls) \in 0..MaxNesting + 1 /\ Visited \in Levels(objects, Root)[Len(calls)]
  BY <1>1, <1>2, VisitedAtItsLevel
<1>4. DumpTypeOK'
  BY <1>1, <1>2 DEF DumpTypeOK
<1>5. CallsInv'
  BY <1>1, <1>2 DEF CallsInv, Root
<1>6. dumped' = "EmitterError" => NestsTooDeeply(Root)
  <2> SUFFICES ASSUME TooDeep PROVE NestsTooDeeply(Root)
    BY <1>1
  <2>1. Len(calls) = MaxNesting + 1
    BY <1>2, <1>3 DEF TooDeep
  <2> QED
    BY <1>3, <2>1 DEF NestsTooDeeply
<1>7. dumped' = "RepresenterError" => HoldsOdd(Root)
  <2> SUFFICES ASSUME ~TooDeep PROVE HoldsOdd(Root)
    BY <1>1
  <2>1. Len(calls) \in 0..MaxNesting /\ Unsupported(Visited)
    BY <1>1, <1>2, <1>3 DEF TooDeep
  <2> QED
    BY <1>3, <2>1 DEF HoldsOdd
<1>8. RefusedJustly'
  BY <1>1, <1>2, <1>6, <1>7 DEF RefusedJustly, NestsTooDeeply, HoldsOdd, Unsupported, Root
<1> QED
  BY <1>4, <1>5, <1>8 DEF DumpInv

-----------------------------------------------------------------------------
LEMMA DumpInvInit == DumpInit => DumpInv
<1> SUFFICES ASSUME DumpInit PROVE DumpInv
  OBVIOUS
<1>1. /\ values \in Seq(Scalars \cup Objs) /\ objects \in [Objs -> Object]
      /\ calls = <<>> /\ buffer = NewBuffer /\ parts = <<>> /\ dumped = "walking"
  BY DumpAssumption DEF DumpInit
<1>2. DumpTypeOK
  BY <1>1, NewBufferFits DEF DumpTypeOK
<1>3. CallsInv
  <2>1. Len(calls) = 0 /\ 0 <= MaxNesting + 1
    BY <1>1, DumpAssumption
  <2>2. ~(buffer.cursor > 0)
    BY <1>1, NewBufferFits
  <2> QED
    BY <2>1, <2>2 DEF CallsInv, Way
<1>4. RefusedJustly
  BY <1>1 DEF RefusedJustly
<1> QED
  BY <1>2, <1>3, <1>4 DEF DumpInv

(* DumpInv is inductive: the calls are a way down from the root being       *)
(* dumped (_entries' recursion, _dumper.py), one level each, and what they   *)
(* have written may be written where it stands.                              *)
THEOREM DumpInductive == DumpSpec => []DumpInv
<1>1. DumpInv /\ [DumpNext]_dumpVars => DumpInv'
  <2> SUFFICES ASSUME DumpInv, [DumpNext]_dumpVars PROVE DumpInv'
    OBVIOUS
  <2>1. CASE Refuse
    BY <2>1, RefuseKeeps
  <2>2. CASE WriteScalar
    BY <2>2, WriteScalarKeeps
  <2>3. CASE Enter
    BY <2>3, EnterKeeps
  <2>4. CASE WriteInline \/ WriteNull
    BY <2>4, InlineKeeps
  <2>5. CASE Leave
    BY <2>5, LeaveKeeps
  <2>6. CASE Build
    BY <2>6, BuildKeeps
  <2>7. CASE Join
    BY <2>7, JoinKeeps
  <2>8. CASE UNCHANGED dumpVars
    BY <2>8 DEF dumpVars, DumpInv, DumpTypeOK, CallsInv, Root, RefusedJustly,
                NestsTooDeeply, HoldsOdd, Unsupported
  <2> QED
    BY <2>1, <2>2, <2>3, <2>4, <2>5, <2>6, <2>7, <2>8 DEF DumpNext
<1> QED
  BY <1>1, DumpInvInit, PTL DEF DumpSpec

(* The buffer grows before it is full and what build_document hands the     *)
(* engine holds no entry that was never packed.                              *)
THEOREM DumpTypeCorrect == DumpSpec => []DumpTypeOK
<1>1. DumpInv => DumpTypeOK
  BY DEF DumpInv
<1> QED
  BY <1>1, DumpInductive, PTL

(* dump_all refuses exactly what it must: the error it raises is true of the *)
(* value it stopped at, whatever the objects share or contain, and every     *)
(* document before that one was within the limit and of safe types.          *)
THEOREM DumpRefusedJustly == DumpSpec => []RefusedJustly
<1>1. DumpInv => RefusedJustly
  BY DEF DumpInv
<1> QED
  BY <1>1, DumpInductive, PTL

(* What is dumped and then read back is first dumped: the load that follows *)
(* changes nothing of the dump, so what holds of dump_all holds of both.     *)
THEOREM ReloadIsADump == ReloadSpec => DumpSpec
<1>1. ReloadInit => DumpInit
  BY DEF ReloadInit
<1>2. [ReloadNext]_reloadVars => [DumpNext]_dumpVars
  BY DEF ReloadNext, reloadVars
<1> QED
  BY <1>1, <1>2, PTL DEF ReloadSpec, DumpSpec

(* The same of the text that is read back: a load follows no refused dump.   *)
THEOREM ReloadRefusedJustly == ReloadSpec => []RefusedJustly
BY ReloadIsADump, DumpRefusedJustly, PTL
=============================================================================
