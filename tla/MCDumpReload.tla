------------------------------ MODULE MCDumpReload ------------------------------
(* Small instances of DumpReload: what dump_all is given. *)
EXTENDS DumpReload, TLC

CONSTANTS A, NullText, OneText, One, Data, Other, o1, o2, o3

MCAtoms == {None, MergeText, A, NullText, OneText, One, Data, Other}
MCShape == A :> "word" @@ MergeText :> "merge" @@ NullText :> "reserved" @@ OneText :> "number"

Reads(tag, v) == [tag |-> tag, val |-> v]
MCResolved == [v \in MCAtoms |->
    CASE v \in {None, NullText} -> Reads("null", None)
      [] v \in {One, OneText}   -> Reads("int", One)
      [] v = MergeText          -> Reads("merge", v)
      [] OTHER                  -> Reads("str", v)]

MCNodes == {[text |-> v, tag |-> t, val |-> w] : v, w \in MCAtoms, t \in {"str", "merge", "null", "int", "binary"}}

\* Sequences of at most two of S.
UpTo2(S) == {<<>>} \cup {<<x>> : x \in S} \cup (S \X S)
Distinct2(S) == {s \in UpTo2(S) : Len(s) = 2 => s[1] # s[2]}

Of(kind, contents) == {[kind |-> kind, items |-> s] : s \in contents}

Dicts(ks, vs) ==
    {s \in UpTo2(ks \X vs) : Len(s) = 2 => s[1][1] # s[2][1]}

\* Objects over the given leaves, keys and members.
MCObjects(ks, vs) ==
    Of("list", UpTo2(vs)) \cup Of("tuple", {<<>>} \cup {<<v>> : v \in vs}) \cup Of("dict", Dicts(ks, vs))
    \cup Of("set", Distinct2(ks)) \cup Of("subclass", {<<>>})

MCKeys == MCAtoms \ {None, Other}

Nothing == [kind |-> "list", items |-> <<>>]
Graph(x, y, z) == o1 :> x @@ o2 :> y @@ o3 :> z

\* Two objects that may hold one another, with few leaves.
MCPairs ==
    LET few == MCObjects({A, One}, {A, o1, o2})
    IN  {[values |-> <<o1>>, objects |-> Graph(x, y, Nothing)] : x, y \in few}

\* One object over every leaf, alone or before another document.
MCLeaves ==
    {[values |-> vs, objects |-> Graph(x, Nothing, Nothing)] :
        vs \in {<<o1>>, <<o1, A>>}, x \in MCObjects(MCKeys, MCAtoms)}

MCScalarDocs == {[values |-> vs, objects |-> Graph(Nothing, Nothing, Nothing)] : vs \in UpTo2(MCAtoms)}

\* Three objects, each inside the one before, once or twice.
MCChains ==
    LET holders(v) == Of("list", {<<v>>, <<v, v>>}) \cup Of("dict", {<< <<A, v>> >>, << <<One, A>>, <<A, v>> >>})
    IN  {[values |-> <<o1>>, objects |-> Graph(x, y, z)] :
            x \in holders(o2), y \in holders(o3), z \in MCObjects({A, One}, {A})}

MCInputs == MCPairs \cup MCLeaves \cup MCScalarDocs \cup MCChains
=============================================================================
