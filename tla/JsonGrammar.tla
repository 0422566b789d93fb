------------------------------ MODULE JsonGrammar ------------------------------
(***************************************************************************)
(* What a sequence of JSON tokens means, by RFC 8259's grammar: the        *)
(* reference that the engines of json.loads are compared with.  A token is *)
(* a record with a kind and a text.  Values takes the constants NaN and    *)
(* Infinity too, as stdlib's loads does; IsStrict does not.                *)
(***************************************************************************)
EXTENDS Naturals, Sequences, JsonValues

KindAt(s, i) == IF i \in DOMAIN s THEN s[i].kind ELSE "none"

Single(k, v) == [x \in {k} |-> v]
Update(f, g) == [x \in DOMAIN f \union DOMAIN g |-> IF x \in DOMAIN g THEN g[x] ELSE f[x]]

(* A rule gives the pairs of what begins at a position and the position      *)
(* behind it.  parse is what the rules for the rest of a list and of an      *)
(* object, its bracket included, give behind that position.                  *)

\* A container whose rest begins at i, empty if the bracket follows.
Container(s, parse, rule, bracket, empty, i) ==
    IF KindAt(s, i) = bracket THEN {<<empty, i + 1>>} ELSE parse[<<rule, i>>]

ValueAt(s, parse, i) ==
    CASE KindAt(s, i) \in ScalarKinds -> {<<Atom(s[i]), i + 1>>}
      [] KindAt(s, i) = "[" ->
           {<<List(r[1]), r[2]>> : r \in Container(s, parse, "items", "]", <<>>, i + 1)}
      [] KindAt(s, i) = "{" ->
           {<<Dict(r[1]), r[2]>> : r \in Container(s, parse, "members", "}", <<>>, i + 1)}
      [] OTHER -> {}

\* What is left of a list after its item v, and of an object after its member k: v.
AfterItem(s, parse, v) ==
    CASE KindAt(s, v[2]) = "]" -> {<< <<v[1]>>, v[2] + 1 >>}
      [] KindAt(s, v[2]) = "," ->
           {<< <<v[1]>> \o r[1], r[2] >> : r \in parse[<<"items", v[2] + 1>>]}
      [] OTHER -> {}

AfterMember(s, parse, k, v) ==
    CASE KindAt(s, v[2]) = "}" -> {<<Single(k, v[1]), v[2] + 1>>}
      [] KindAt(s, v[2]) = "," ->
           {<<Update(Single(k, v[1]), r[1]), r[2]>> : r \in parse[<<"members", v[2] + 1>>]}
      [] OTHER -> {}

ItemsAt(s, parse, i) == UNION {AfterItem(s, parse, v) : v \in ValueAt(s, parse, i)}

MembersAt(s, parse, i) ==
    IF KindAt(s, i) # "str" \/ KindAt(s, i + 1) # ":" THEN {}
    ELSE UNION {AfterMember(s, parse, s[i].text, v) : v \in ValueAt(s, parse, i + 2)}

Parses(s) ==
    LET parse[p \in {"items", "members"} \X (1 .. Len(s) + 1)] ==
            IF p[1] = "items" THEN ItemsAt(s, parse, p[2]) ELSE MembersAt(s, parse, p[2])
    IN  parse

\* The meanings of a whole text, which the end of the input closes.
Meanings(s) ==
    {v[1] : v \in {w \in ValueAt(s, Parses(s), 1) : w[2] = Len(s) /\ KindAt(s, w[2]) = "end"}}

IsJson(s) == Meanings(s) # {}
IsStrict(s) == IsJson(s) /\ \A i \in DOMAIN s : s[i].kind # "nan"
=============================================================================
