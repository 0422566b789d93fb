------------------------------- MODULE JsonValues -------------------------------
(* The kinds of JSON scalars, and the values that JSON tokens stand for.     *)

ScalarKinds == {"str", "num", "nan"}

Atom(t)  == [atom |-> <<t.kind, t.text>>]
List(xs) == [list |-> xs]
Dict(f)  == [dict |-> f]

\* A duplicated key keeps its last value.
Put(f, k, v) == [x \in DOMAIN f \union {k} |-> IF x = k THEN v ELSE f[x]]
=================================================================================
