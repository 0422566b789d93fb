------------------------------ MODULE MCNativeJson ------------------------------
(* Both engines, with three cacheable strings in one slot: two share the hash of *)
(* prefix and length, the third displaces them.                              *)
EXTENDS StrictWalk

MCHash == [t \in Texts |-> IF t = "c" THEN 6 ELSE 4]
=============================================================================
