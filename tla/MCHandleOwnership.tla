--------------------------- MODULE MCHandleOwnership ---------------------------
(* Small instances of HandleOwnership: the libraries an installation may hold. *)
EXTENDS HandleOwnership

Names == {"core", "value_free_columns"} \cup UNION {ToSet(FeatureNames[f]) : f \in DOMAIN FeatureNames}

Engine(dir, version, has) == [loads |-> TRUE, dir |-> dir, version |-> version, has |-> has]

\* In the order of their directories' names: v0.6.19, v0.6.55, v0.6.7.
MCBare == Engine(1, 19, {"core"})
MCFull == Engine(2, 55, Names)
MCOld == Engine(3, 7, Names)

\* A build that lacks one name or two, or whose version cannot be read, in no
\* vendored directory; a file that does not load.
MCLacking == {Engine(0, 55, Names \ {x, y}) : x, y \in Names}
MCUnreadable == Engine(0, 0, Names)

MCEngines == {MCBare, MCFull, MCOld, MCUnreadable, Nothing} \cup MCLacking
MCOverrides == {<<>>} \cup {<<e>> : e \in MCEngines}
MCSiblings == {<<>>, <<MCFull>>}

\* Of the functions that take many, cbor.dump_all is given one value at most:
\* MCCborDumpAll gives it more.
MCStreams == {"each_document", "dump_all", "cbor.load_all"}
MCSizes == [f \in Functions |-> IF f \in MCStreams THEN 0..3 ELSE IF f = "cbor.dump_all" THEN 0..1 ELSE {1}]

\* One complete library, up to three values.
MCManySizes == [f \in Functions |-> 1..3]
MCOneEngine == {MCFull}
MCNoPath == {<<>>}
=============================================================================
