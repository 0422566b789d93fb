------------------------------- MODULE ImportGate -------------------------------
(***************************************************************************)
(* The import of yeptris/_ffi.py: the search for libyeptris, the version   *)
(* floor, the names bound without a test and the features that are tested. *)
(* A library is external: its version (0 when the name yeptris_version is  *)
(* missing, or it answers nothing readable) and the names it exports, of   *)
(* which "core" stands for every name bound without a test.                *)
(***************************************************************************)
EXTENDS Naturals, Sequences, SequencesExt

CONSTANTS
    Engines,         \* libraries: [loads, dir (the place of its directory's name), version, has]
    Overrides,       \* what $YEPTRIS_LIB_PATH may name: a sequence of at most one library
    Siblings,        \* what the sibling checkout may have built, likewise
    Floor            \* ENGINE_VERSION_FLOOR

Nothing == [loads |-> FALSE, dir |-> 0, version |-> 0, has |-> {}]

ASSUME EnginesAssumption ==
    /\ Engines \subseteq [loads : BOOLEAN, dir : Nat, version : Nat, has : SUBSET STRING]
    /\ Overrides \cup Siblings \subseteq Seq(Engines)
    /\ Floor \in Nat \ {0}

VARIABLES
    ladder,          \* the paths still to try
    lib,             \* the library loaded, if any
    gate,            \* how far the import is, or the class it raised
    flags            \* the features found

gateVars == <<ladder, lib, gate, flags>>

-----------------------------------------------------------------------------
\* The paths in the order of the search; vendored directories go by their names,
\* so that v0.6.55 comes before v0.6.7.
CandidatePaths(override, vendored, sibling) ==
    override \o SetToSortSeq(vendored, LAMBDA x, y : x.dir < y.dir) \o sibling

GateInit ==
    /\ \E override \in Overrides, vendored \in SUBSET {e \in Engines : e.dir > 0}, sibling \in Siblings :
          ladder = CandidatePaths(override, vendored, sibling)
    /\ lib = Nothing
    /\ gate = "search"
    /\ flags = {}

\* A path that is missing or does not load is passed over; the first that loads
\* ends the search, whatever it is.
LoadLib ==
    /\ gate = "search" /\ ladder # <<>>
    /\ IF Head(ladder).loads
       THEN lib' = Head(ladder) /\ gate' = "version" /\ ladder' = <<>>
       ELSE ladder' = Tail(ladder) /\ UNCHANGED <<lib, gate>>
    /\ UNCHANGED flags

NoLib ==
    /\ gate = "search" /\ ladder = <<>>
    /\ gate' = "YeptrisError"
    /\ UNCHANGED <<ladder, lib, flags>>

\* Slip: a version that cannot be read passes.
TooOldIfReadable(version) == version # 0 /\ version < Floor

TooOld(version) == ~(version >= Floor)

CheckEngineVersion ==
    /\ gate = "version"
    /\ gate' = IF TooOld(lib.version) THEN "ImportError" ELSE "bind"
    /\ UNCHANGED <<ladder, lib, flags>>

\* The names of each feature, in the order they are bound.
FeatureNames ==
    [json     |-> <<"serialize_json", "serialize_json_ex">>,
     cbor     |-> <<"cbor_decode", "cbor_decode_sequence", "cbor_encode", "cbor_encode_sequence">>,
     emit     |-> <<"serialize_ex">>,
     validate |-> <<"json_schema_validate", "validate_report_at", "validate_report_free">>,
     iter     |-> <<"stream_iter_new", "stream_iter_next", "stream_iter_status", "stream_iter_free">>,
     frames   |-> <<"stream_iter_slice", "stream_iter_buffer">>,
     columns  |-> <<"value_drain_columns">>]

\* A flag is set when every name of the feature has been bound.
Available(feature) == ToSet(FeatureNames[feature]) \subseteq lib.has

\* The columns' free is bound without a test of its own.
BindMisses ==
    \/ "core" \notin lib.has
    \/ Available("columns") /\ "value_free_columns" \notin lib.has

Bind ==
    /\ gate = "bind"
    /\ IF BindMisses
       THEN gate' = "AttributeError" /\ UNCHANGED flags
       ELSE gate' = "imported" /\ flags' = {f \in DOMAIN FeatureNames : Available(f)}
    /\ UNCHANGED <<ladder, lib>>

Import == LoadLib \/ NoLib \/ CheckEngineVersion \/ Bind
=============================================================================
