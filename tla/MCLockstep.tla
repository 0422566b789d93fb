------------------------------- MODULE MCLockstep -------------------------------
(* Small instances of Lockstep: the scalars a stream may hold, and symmetry. *)
EXTENDS Lockstep, TLC

CONSTANTS A, B, One, Coded, Decoded, DateText, Date

Plain(t) == [text |-> t, tag |-> "str", val |-> t]

MCAtoms == {None, MergeText, A, B, One, Coded, Decoded, DateText, Date}
MCMergeKey == [text |-> MergeText, tag |-> "merge", val |-> MergeText]
MCNull == [text |-> A, tag |-> "null", val |-> None]
MCInt == [text |-> One, tag |-> "int", val |-> One]
MCBinary == [text |-> Coded, tag |-> "binary", val |-> Decoded]

MCDate == [text |-> DateText, tag |-> "str", val |-> Date]

MCScalars == {MCDate, MCMergeKey}
MCKeys == {MCDate, MCMergeKey, MCInt}
MCAnchored == {MCInt}
MCPlainKeys == {MCDate, MCInt}
MCPlainScalars == {MCDate, MCInt}
MCOneScalar == {Plain(A)}
MCNone == {}
MCNullScalars == {Plain(A), Plain(B), MCNull}
MCBinaryScalars == {MCBinary, MCMergeKey}
MCDateKeys == {MCDate}
MCBinaryValues == {MCBinary}
MCFewScalars == {Plain(A), MCMergeKey}

\* Streams of one document, or of any number of them that end an event before the bound.
MCStreams == ndocs <= 1 \/ Room(frames, left - 1)

MCSymmetry == Permutations(Addr)
=============================================================================
