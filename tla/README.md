# yeptris-py in TLA+

A TLA+ model of [yeptris-py](../src/README.md), the Python binding of
libyeptris (YAML, CBOR and JSON), with the TLC runs that check it and the
theorems that TLAPS proves. Paths below are relative to `src/`; a bare
`_loader.py` is `yeptris/_loader.py`. `PROJECT.json` gives, for each
definition, the lines of the source it stands for.

## 1. Inventory

The engine (libyeptris, C, reached through ctypes) parses, resolves tags and
serializes. It is not in the repository and is modelled only as far as the
binding relies on it. The binding itself is these parts.

| part | source | state | operations | interacts with |
|---|---|---|---|---|
| record walk | `_loader.py` `load_all` | parallel lists `stack`, `pending_key`, `pending_tag`, `modes`; `anchors`; `merge_targets` | one handler per event: scalar, collection start and end, document start, alias | reads the record drain of `_ffi.py` |
| columns walk | `_loader.py` `load_all_columns` | the same lists and `pending_anchor` | one handler per row, `_place`, and a path for str-to-str pairs that looks one row ahead | reads the column drain; must agree with the record walk |
| scalar conversion | `_loader.py` `_value`, `_cvalue`, `_to_int`, `_to_float`, `_to_timestamp` | none | text to Python value | both walks |
| document stream | `_loader.py` `each_document` | a generator's frame, the engine's iterator handle | open, next, frame, status, finally; the consumer's next and close | feeds each framed document to the columns walk |
| validation | `_validate.py` `Schema`, `validate`, `_drain` | `_handle`; a report per call | compile, validate, close, `__del__` | the engine, without the GIL |
| import gate | `_ffi.py` | the library, its version, a flag per feature | library search, version floor, feature tests | runs once, before everything else |
| engine seam | `_ffi.py` | none of its own | `drain`, `drain_columns`, `read_owned`, `parse_json_strict`, `last_error` | everything |
| dumper | `_dumper.py` | entry buffer, text blob, depth | `_entries`, `build_document`, `dump`, `dump_all`, `_plain_ok` | the engine's document builder; what it writes is read by the walks |
| cbor | `cbor.py` | none beyond a call | `load`, `load_all`, `dump`, `dump_all` | dumper, columns walk |
| json, native engine | `ext/yeptris_native.c` | the C stack, `depth`, string cache, reference counts, `err` | `jp_value`, `jp_object`, `jp_array`, `jp_str`, `jp_cached`, `loads_error` | called by `json.loads` when built |
| json, ctypes engine | `json.py` | a walk of strict columns | `loads`, `dumps` with its two routes | `json.loads` without the extension |
| yaml facade | `yaml/__init__.py` | none | `safe_load` and its family, validation first, `each_document` | loader, validation |
| error taxonomy | `_errors.py` | none | class declarations | all |
| build, packaging, benchmarks | `setup.py`, `scripts/`, `bench.py`, `benchmark/` | none | build-time scripts | - |

What is hard here, and the property each part needs:

* **Walks.** No threads, but four parallel lists and an `id()`-keyed table of
  merges that are to happen later, kept in step by hand at some twenty sites;
  two implementations of the same rules; one path that skips the rules.
  Correct when the lists stay parallel to what the engine holds open, a waiting
  merge belongs to an open container, `<<` means what the document says, a
  closed container never changes, documents share nothing, and both walks
  return the same.
* **Document stream.** A generator that may be abandoned at any yield, whose
  engine reports failures out of line. Correct when the consumer sees each
  document once and in order, and the iterator is freed however it ends.
* **Schema.** A handle that is tested, then used after code of the caller's has
  run; free and forget are two steps; threads share it while the engine runs
  without the GIL. Correct when the engine never gets a freed schema, frees it
  once, and in the end does.
* **Handles.** Every function that obtains something from the engine must
  release it on every failing path, across functions that hand ownership on.
* **Import.** The first library that loads wins, whatever it is; groups of its
  names may be missing. Correct when no call reaches an engine below the floor or
  a name it lacks.
* **Dump.** A recursive walk of shared, nested and cyclic objects, with inline
  cases beside the recursive one, into a buffer that grows by hand; what is left
  unquoted is decided without the reader. Correct when it refuses exactly what it
  should, ends on a cycle, and what it writes loads back the same.
* **Native JSON.** C error paths that own references; a cache probed by a
  partial hash; a depth counter with six exits; a failure flag that tells memory
  from syntax. Correct when references balance on every path, and acceptance and
  result are those of the JSON grammar. The ctypes engine has another walk, which
  must answer the same.

`PROJECT.json` lists these as hazards, each at its line.

## 2. Modules

| module | stands for | composes |
|---|---|---|
| `EventStream` | the event streams the drains deliver (external) | |
| `Placement` | the state and the placement rules that both walks share, with the heap of Python containers | `EventStream` |
| `RecordWalk` | `load_all` | `Placement` |
| `ColumnsWalk` | `load_all_columns`, its lookahead and its pair path | `Placement` |
| `Lockstep` | both walks on one stream | `ColumnsWalk`, an instance of `RecordWalk` |
| `MergeHistory` | the record walk beside what the document says of each mapping | `RecordWalk` |
| `DocumentFeed` | abstract: what `each_document` promises | |
| `DocumentStream` | `each_document`, a generator, and its consumer | implements `DocumentFeed` |
| `CompiledSchema` | one `Schema`, the calls on it, threads, `__del__` | |
| `ImportGate` | the import of `_ffi.py`: search, floor, features | |
| `HandleOwnership` | every function that obtains an engine handle, once imported | `ImportGate` |
| `DumpWalk` | `dump_all`: `_entries` and its buffer, value by value | |
| `DumpReload` | what `dump_all` wrote, read back by `load_all` | `DumpWalk`, `RecordWalk` |
| `JsonValues` | the values JSON texts have | |
| `JsonGrammar` | what a sequence of JSON tokens means, from the grammar | `JsonValues` |
| `NativeJson` | `loads` of the C extension | `JsonValues` |
| `StrictWalk` | the ctypes engine of `json.loads`, on the texts the native one has read; both beside the grammar | `NativeJson`, `JsonGrammar` |
| `WalkProofs` | lemmas about `EventStream` and `Placement`, for both walks | |
| `RecordWalkProofs` | theorems about `RecordWalk` and its `MergeHistory` | `WalkProofs` |
| `LockstepProofs` | theorems about `ColumnsWalk` beside `RecordWalk` | `WalkProofs` |
| `DocumentStreamProofs` | theorems about `DocumentStream` | |
| `CompiledSchemaProofs` | theorems about `CompiledSchema` | |
| `HandleOwnershipProofs` | theorems about `HandleOwnership` and the import before it | |
| `DumpWalkProofs` | theorems about `DumpWalk` and `DumpReload` | |
| `NativeJsonProofs` | theorems about `NativeJson` and about `StrictWalk`, both beside the grammar | |
| `MC*` | finite values for the constants, symmetry | |

### The walks

`frames` and `doc` in `EventStream` are what the engine holds open; each walk has
the variables of the code's locals, with the same names. A container is an
element of `Addr`, the address `id()` returns; `heap` holds its contents. An
address is given out again once nothing refers to its container (`Free`), because
`merge_targets` is keyed by `id()`. `fresh` and `closed` are the locals that keep
the last opened and last closed container alive; the other loop locals (`v`, `key`,
`parent`, `target`) are not roots, so the model may reuse an address
earlier than CPython does, never later.

Each event handler is one action with every list it touches. `Refusal`,
`OpenRefusal` and `CloseRefusal` are the code's error paths in its order; a
raising walk keeps its state, because its locals die with it. `Place` is the
placement rule, one disjunct per site. A dict is a function from keys to values, so
insertion order is left out. A scalar is its text, its resolver tag and the
value that `_value` gives it; `MergeText` with tag `merge` is a plain `<<`, with
tag `str` a quoted one. Strings, ints, binaries and dates differ only where the
walks tell them apart.

`ColumnsWalk` receives rows one at a time and holds at most two: the code may look
at row `i + 1` when row `i` is a string key (`Lookahead`). An ANCHOR row and the
node it names are one row, since `pending_anchor` never survives a node. `IsPair`
and `PlacePair` are the fast path, the rest is `Placement`. The walks differ in
what may wait: `load_all` defers every fresh collection under `<<` and no alias,
`_place` defers whatever list or dict is empty.

`Lockstep` gives one stream to both. New containers take an address free in both
heaps, so results are compared by equality. `deviations` records where the two are
known to part. "empty alias": the columns walk has deferred a merge for an alias, which
the code never has to settle (the law is checked without such streams and refuted
with them). "set early": it has refused a set under `<<` at the set's start, where
`load_all` reads the set first and may meet another error in it. "stale tag": a pair
on the fast path followed a `<<` in an ordered map's member; the path leaves
`pending_tag` as the `<<` set it, and the member's close then takes the member's key
for a `<<`.

`MergeHistory` adds the pairs a mapping writes itself (`own`) and the values of
its `<<` keys (`sources`); `FlattenedMeaning` compares them with the result of the
incremental merging, in open mappings as in closed ones. A source given by alias counts
with what it holds when the alias is read, which for a container still being built is
what the code can know of it; one written in place counts when it closes.
`DeferredIsLast` says of the time between: the source that waits is its mapping's last,
so nothing that comes later can get in before it, and `merge_targets` has exactly the
sources that wait.

### The document stream

`gen` is the generator's life (created, running, suspended, finished), `pc` where
it runs or will resume, `iterator` the engine's handle. `Pull` and `Close` are the
consumer; `Close` stands for `close()` and for dropping the last reference, and
raises `GeneratorExit` at the yield. `FeedEnded` maps the walk to `DocumentFeed`:
the feed ends when the generator leaves its `try`. A document that frames but does
not build ends the feed as `broken`; `EveryDocumentAnswered` says what the docstring
says of it, and fails.

### The schema

One Python call is a path of `pc`: `reading` (the input's own code runs),
`calling`, `inside` (the engine, GIL released), `draining`; `closing` and
`clearing` for the free and the assignment. A behaviour either nests its calls in
one thread (the sequence `nested`, innermost last), where one may begin only while the calls around it read their input and
any may close the Schema, or gives each a thread of its own (`threaded`), where
none closes it: `_validate.py:28-30` calls read-only sharing safe and nothing more.
`Interrupts` are the places where `KeyboardInterrupt` may end a call.

### Import and handles

A library is its version (0 when the name is missing or the answer unreadable) and
the names it exports. `ladder` holds the paths still to try: the environment's, the
vendored directories in the order of their names, the sibling checkout. The first
that loads ends the search; the floor is tested on that one alone. `flags` has a
feature when every name of its group was bound; what is bound without a test (the
`core`, and the columns' free) fails the import with `AttributeError`.

A function is the sequence of its calls that obtain, use or free something, each
with the name it calls and the handles that the `finally` blocks around it free;
where the code asks a flag, the sequence depends on it, and `Asks` holds the
features without which a function raises before its first call. `Fail` is a failing
call that runs those blocks. An asynchronous exception between an engine call and the
`try` after it is not modelled; `CompiledSchema` covers the one place where the
code claims to be safe against it.

### Dump and reload

`calls` is the Python stack of `_entries`: the object, the item it is at, and
whether the item's key is written. A value is a scalar, or the identity of an object
in `objects`, so objects may be shared and may contain themselves. `buffer` is
`ents`, `est` and `cursor`; `Grown` is the code's doubling. A `str` key is written
without a call (`WriteInline`), any other with one, which is what the depth counts.
`_plain_ok` is a test on the `Shape` of a text: a plain word, a reserved word, a
number, a merge.

`DumpReload` feeds the entries of each document to the handlers of `RecordWalk`: the
engine is taken to build, serialize and parse without change, a quoted scalar to
stay a `str`, and a plain one to be resolved from its text (`Resolved`, the loader's
rule), which `_plain_ok` has to anticipate.

### Native JSON

The C stack is `frames`; `mode` is what the parser looks for; a token is chosen
when it is first looked at, so `read` is the input so far. `refs` counts the
references that C variables and the cache own. A string's hash is a constant,
so that two strings may collide. `Failing` lets any allocation fail. Numbers,
escapes and UTF-8 checks are data: a malformed one is the token `bad`, NaN and the
infinities are the token `nan`.

`StrictWalk` takes each text that the native engine has looked at to its end and
runs `_fallback_loads` on it: the gate, then the walk of its rows with `stack` and
`pending`. Containers are built by reference, since the code puts them in their
parent when they open; `Whole` is the value the root then stands for. Texts that the
native engine gave up on earlier are prefixes no continuation of which is JSON
(`RejectedIsNotJson`), except where its depth limit or memory ended it.

## 3. Runs

All bounds are in the `.cfg` files and the `MC*` modules. `CHECK_DEADLOCK` is off everywhere: a walk ends
with its stream, a generator with its consumer, a Schema with its program.

| run | asks | bounds |
|---|---|---|
| `record_walk` | parallel lists, waiting merges, shapes, sharing, closed containers, the meaning and precedence of `<<` in `load_all`; the inductive invariant of the proofs | four containers, depth 3; every stream that can end within nine events, two documents included (`MCShort`), and one document of mappings within fourteen (`MCMerges`: sequences only as the value of `<<`, anchors on mappings) |
| `lockstep` | both walks agree, and the columns walk's own lists and waiting merges | ten events in one document, nine in two (`MCStreams`); three containers, ints, dates and merges |
| `document_stream` | `each_document` implements its promise and frees its iterator | every stream of up to four documents of six kinds |
| `compiled_schema` | re-entrant calls, interrupts, threads, `__del__` | three calls |
| `handle_ownership` | every mix of installed libraries, then each function with each call failing | a complete, an old, a bare and an unreadable library, a file that does not load, and every library that lacks one or two names; up to three values, at most one for `cbor.dump_all` |
| `dump_reload` | what `dump_all` refuses, that it ends, and that its text loads back the same | two objects of any kind that may hold one another or themselves; one over every kind of scalar; chains of three; one or two documents; depth limit 2, a buffer of two entries |
| `native_json` | acceptance, result, references, depth, failing allocations, agreement of the two engines | nine tokens, depth limit 2, three keys in one cache slot, two of them with one hash |

Why these bounds are enough to be of use: the walks' rules look at the top two
frames, so depth 3 has a frame above, between and below; nine events hold a
mapping with an anchored mapping and a `<<` to it, or two documents
with an anchor each; fourteen hold a `<<` over two mappings with a shared key.
Three addresses with reuse are needed for a stale `merge_targets` entry. Four
documents put a failure before, between and after good ones, after a fatal one
too. Three calls nest a close inside a validation inside a validation. Nine
tokens are `{"a":1,"a":1}`, the smallest repeated key, and the depth limit 2 is
exceeded by three brackets. A buffer of two entries grows once and again within a
set of two items; `MaxNesting = 2` is met and exceeded by chains of three, by keys
and by cycles. Libraries that lack one or two names leave every group half bound. Every
property has a mutant in `PROJECT.json`, a plausible slip in the code it guards (the operators marked *Slip* in the modules),
under which its run fails.

What is known to fail is excluded, by name: `cbor.dump_all` with more than one
value (`MCSizes`), an interrupt between free and forget (`Interrupts`),
null keys and `!!binary` scalars in `lockstep` (`KeyScalars`, `ValueScalars`), streams
in which a `<<` names an empty collection by alias (`deviations`), None as
a key or as a member of a set in `dump_reload` (`MCKeys`; the null key again), and keys
that are objects, which the loader cannot build.

### Fairness

* `DocumentStream`: weak fairness of the generator's body, since Python runs a
  resumed generator to its next yield, and of the consumer (`Pull \/ Close`): a
  consumer asks again or lets the generator go, which closes it.
* `CompiledSchema`: strong fairness of each call's steps, since in one thread a
  step is disabled while a nested call runs, infinitely often but never for good:
  reading an input ends. Weak fairness of dropping the program's reference and of
  CPython finalizing an unreferenced object. Nothing is assumed of `close()`.
* `DumpReload`: weak fairness of its steps: one thread runs the dump and then the
  load, and nothing in either waits.
* The other specifications have none, and only safety is asked of them.

### What the violation runs show

| run | disagreement |
|---|---|
| `null_key` | a null key is forgotten because `None` means "no key pending" (`_loader.py:426`), and the two walks then return different documents |
| `empty_alias` | `<<` naming an empty collection by alias waits for a close that never comes, and can replace the entry of one that will (`_loader.py:432`) |
| `document_unbuildable` | a document that frames but does not build ends `each_document` (`_loader.py:949`) |
| `cbor_dump_all` | documents already built leak when a later one fails (`cbor.py:118`) |
| `native_input` | the rest of a `str` input is looked at after its bytes were released (`ext/yeptris_native.c:326`) |

Read off the same models, without a run of their own:

* the pair path handles a `!!binary` value before its test for `<<` and before it
  reshapes the key (`_loader.py:456-463`), so `<<: !!binary ...` is a pair for the
  columns walk and an error for `load_all`, and a date as the key of a `!!binary`
  value stays text;
* `!!omap [{<<: {}, a: b}]` is a list of one pair for `load_all` and a
  `ConstructorError` for the columns walk: its pair path stores `a: b` without writing
  `pending_tag` (`_loader.py:453-485`, while `load_all` writes it at every key, 652 and
  674), so the close reads the tag of the `<<` (558). The walks are "lockstep" twins with
  "same placement semantics" (`_loader.py:359-361`). `lockstep` checks its law with this
  one case named;
* a collection as a mapping key raises a bare `TypeError` (`_loader.py:687`), though
  `_errors.py:3-4` says "every stage error is catchable as yaml.YAMLError";
* an exception between the free and the assignment of `Schema.close`
  (`_validate.py:226-227`) leaves a handle that is freed again;
* a failed allocation of a number (`ext/yeptris_native.c:152`) or a string is
  reported as invalid JSON, though line 289 says "memory: keep it";
* `dump_all` calls itself the mirror of `load_all`, "dump_all(load_all(x))
  round-trips" (`_dumper.py:294-295`). A `!!omap` loads as a list of tuples, and a
  tuple is written as a sequence, so it comes back as a list of lists; a value that
  an alias made contain itself loads, and is refused at dump as too deep;
* `json.py:144-147` says of the gate "gate-reject + stdlib-accept is precisely the
  constant case"; a text nested deeper than the engine's limit is another, and
  so `json.loads` without the extension accepts what the native engine rejects;
* vendored directories are searched in the order of their names (`_ffi.py:151`), so
  where several lie side by side `v0.6.18` is loaded before `v0.6.19` and the import
  fails, though a good library is there; it fails closed (`FailsClosed`);
* without the column drain `json.loads` raises `YeptrisError` (`_ffi.py:516-517`) for
  every valid text, while `load` falls back to the record drain (`_loader.py:890-893`).

None of these has been reproduced by running the program, which needs the engine.

## 4. Theorems

Every theorem is about a specification a run checks, for every value of the
constants that its modules' `ASSUME`s admit, and TLAPS checks each proof to its last
leaf. Where a theorem has a further hypothesis, it is part of its statement. Each
rests on an inductive invariant, which TLC was given before it was proved where it can
evaluate it (`MInv` and `SInv` speak of all texts and all resolutions; of these it was
given what the run lists).

### `load_all` (`RecordWalkProofs`)

Assumed: `StreamAssumption`, `AddrAssumption` and `PairAssumption`: the addresses are
finitely many, neither they nor the scalars are pairs, scalars are well formed.

| theorem | says |
|---|---|
| `Inductive` | `Spec => []IInv` |
| `RecordTypeCorrect`, `RecordAligned`, `RecordDeferredOnStack` | the parts of `IInv` that the run checks by name: types; the four lists stay parallel to the collections the engine holds open; a waiting merge is for an open container, into the one just below it, so an `id()` in `merge_targets` never outlives its container |
| `RecordClosedIsFinal` | `Spec => ClosedIsFinal`: a closed container never changes while anything refers to it |
| `RecordExistingKeysWin` | `Spec => ExistingKeysWin`: no merge changes a pair its mapping has |
| `RecordShapesKept` | ordered maps hold pairs, their members are dicts, sets hold keys, plain lists no pair |
| `RecordPendingMatches` | under `NoNullKeys`, a key waits exactly where the stream is half through a pair; the run `null_key` shows why the hypothesis is needed |
| `RecordDocumentsShareNothing` | no container is reached from two documents |
| `RecordFlattenedMeaning` | `HistorySpec => FlattenedMeaning`: merging as the events come gives every mapping its own pairs and, for every other key, the first source's |
| `RecordDeferredIsLast` | `HistorySpec => DeferredIsLast` |

`IInv` adds to `TypeOK`, `Aligned` and `DeferredOnStack`: `RootPlace` (a begun document
has a place for its root, or `PlaceRoot` would write past the list); `Distinct` (no
container is on the stack twice, or a close would settle another frame's merge; it
holds because a new container takes a free address and what is on the stack is live);
`MembersAbove` (an ordered map's member has a frame below it to give its pair to);
`OmapsAreLists` (the two tests of the placement rule never disagree). The step is proved
once per kind of placement, then for opening, closing, a new document and an alias, and
put together per event; what both walks need of it is in `WalkProofs`.

The action properties come from `StepKind`: an event places a value, opens a
container, closes one, or leaves the containers alone, and `ClosedIsFinal` and
`ExistingKeysWin` are proved for each. `PendingInv` adds that no sequence is half
through a pair and no anchor names a null, which an alias could make a key.

`RecordDocumentsShareNothing` needs what a container *reaches*. `Reachable` is a
recursive function over the number of addresses; the proof shows that it is the
least set closed under the heap's references (`ReachableIsClosed`, by a cardinality
argument: the growth stops, since the addresses are finitely many; `ReachableIsLeast`).
`SharingInv` then says that no finished document reaches what the current one can
still touch: its root, the open containers, the waiting keys and the anchors. Every
change of the heap is within the latter (`DocumentStart` empties the anchors).

`RecordFlattenedMeaning` is about every address and not only about what is reachable:
a container that is gone is a list, and has no meaning to keep. `HistoryInv` joins the
histories' types, `FlattenedMeaning` and `DeferredIsLast`; the three need each other. A
merge at the close adds its source's mappings to the end of `Named` only because the
source was the last, and it was the last because no merge ever waits for the innermost
container (`NoneWaitsForTop`, from `DeferredOnStack` and `Distinct`), so a mapping whose
source is open gets no event. `PlaceNotes` is the one argument for a scalar, an alias
and an opening collection, over the heap the value lives in; `MergeFlattened` the one for
both moments of a merge. Under them are facts about the operators: what `FlattenSeq`
gives with one sequence more (`FlattenLast`), that the first mapping with a key of two
lists of mappings is the first list's if it has one (`ForemostJoin`), and that the
code's search, `FirstWith`, finds the same (`FirstIsForemost`). `HistoryWalks` shows
that the history takes none but the walk's own steps, so `IInv` may be used.

### `load_all_columns` (`LockstepProofs`)

The columns walk beside the record walk, for every stream and every split into rows:
`ColumnsInductive` (`Spec => []ColumnsInv`), and from it `ColumnsTypeCorrect`,
`ColumnsKeepAligned` and `ColumnsDeferredOnStack` (`DeferredUnlessEmptyAlias`). `ColumnsInv`
needs `FramesKept` in place of `Aligned`, because the walk lags one or two rows behind the
engine, and `RowsFit`: what those rows are, relative to what the engine holds
open. `RowsFit` is what makes the pair path safe: two rows are held only when the
first is a plain string key in a dict.

### `each_document` (`DocumentStreamProofs`)

For streams of every length over every choice of the six kinds of document
(`DocumentsAssumption`): `StreamTypeCorrect`; `StreamHandleLifetime`, the engine's iterator
is open exactly from its creation to the end of the generator; `StreamKeepsPromise`,
`each_document` implements `DocumentFeed`. The mapping is `FeedEnded`; a document
delivered, and the end of the feed, are steps of the promise, and every other step of
the generator stutters. `StreamInv` adds where the generator can be in each phase of its
life (`Control`), and how far the iterator is ahead of the consumer (`Progress`),
without which a yield could not be matched with the promise's next pair.

### `Schema` (`CompiledSchemaProofs`)

For any number of calls nested to any depth, or in any number of threads
(`CallsAssumption`): `SchemaTypeCorrect` and `SchemaReportsFreed`, whatever the interrupts;
`SchemaNeverUsedDead` and `SchemaFreedOnce` where `"clearing" \notin Interrupts`: an
interrupt between the free and the assignment breaks them, as section 3 says. `SchemaInv`
needs three facts the properties do not state. `Nesting`: in one thread only the
innermost call is past its input, so between the test of the handle and its use no
other call runs. `Solitude`: while one call frees the schema, all others wait for
input. `Naming`: the handle names a live schema, except while a call is at `clearing`.

### Import and handles (`HandleOwnershipProofs`)

For every set of libraries with any names, every search path, every set of
functions and arguments of any size (`EnginesAssumption`, `SizesAssumption`):

* `ImportFailsClosed`: no function runs below the floor. `Gated` follows the import:
  past the search a library is loaded, past the version test it is at the floor or above,
  and nothing runs before the whole gate is passed.
* `CallsAreBound`, `OwnershipOnlyBoundNames`: no function calls a name its library lacks.
  `CallInv`: after the import, a flag stands for the whole group of its names (`Bound`),
  and a running function has asked for the flags it depends on. The names of the
  steps of each function are followed through its branches on the flags.
* `HandlesAreHeld`, `OwnershipNothingLeaked`, `OwnershipHandlesAlive`: whichever call fails,
  everything obtained is released once. Hypothesis `OneDocument`: `cbor.dump_all` is given
  one value at most, since with more it leaks (run `cbor_dump_all`). `HeldInv`: what is
  alive is exactly `Held` of the next step, the handles it frees and those its `finally`
  guards. `Scoped` says of a sequence of steps that each leaves what the next one holds;
  it is preserved by concatenation, and by `FlattenSeq` over any number of values, so
  each function is proved from its parts.

### `dump_all` (`DumpWalkProofs`)

For all values, objects shared or cyclic in any way, every depth limit and every
first size of the buffer (`DumpAssumption`):

* `DumpInductive`: `DumpSpec => []DumpInv`; `DumpTypeCorrect`: the buffer never overflows,
  and what the engine is given holds no entry that was never packed;
* `DumpRefusedJustly`: `DumpSpec => []RefusedJustly`, the error raised is true of the value it
  stopped at, and every value before it is within the limit and of safe types;
* `ReloadIsADump`, `ReloadRefusedJustly`: the specification of the run is a dump, then a load
  that leaves the dump alone, so the same holds of it.

`CallsInv` says that the calls are a way down from the root: the k-th holds an object
that the root reaches in k - 1 steps (`Levels`), so that a call too deep proves the value
too deep; and that whatever a call has written is `Fine` where it stands, nests within
what is left of the limit and holds nothing unsupported, except for the object of the
next call. When a call ends, it has written every child, so its object is fine
(`FineFromChildren`, from `LevelsOfChildren`: the levels counted from the top are those of
the children counted from below).

### `json.loads`, both engines (`NativeJsonProofs`)

For inputs of any length, any depth limit, cache and hash, any allocation failing
(`NativeAssumption`): `NativeInductive`, `NativeRefsBalanced`, `NativeDepthIsNesting`, and
`NativeOwnsItsAnswer`: when `loads` has answered, it owns its value and nothing else.
`IInv` adds `InStep`: what each place in the parse relies on of the value in hand and of
the key of the innermost call, which is what the error paths release.

What it accepts and what it rejects, for texts of any length:

* `NativeUnderstands`: `Spec => []MInv`;
* `NativeAcceptedMeansJson`: what it returns is the one meaning of the text by the grammar,
  repeated keys and cached strings included;
* `NativeRejectedForGood`: a syntax error is reported only where no text in `Seq(Token)`
  whatever can follow so as to make JSON of the whole; `NativeRejectedIsNotJson`, of the
  completions that the run tries, follows;
* `BothSpecIsSpec`: `BothSpec => Spec`, so that all of this holds in the specification the
  run checks.

The grammar is a recursive function over the places of a text (`Parses`, a rule and a
token each); that it solves its own rules is shown by well-founded induction on how
much text lies behind a place (`ParsesSolves`). `MInv` says that the text read so far is
*understood*: for every continuation, what the grammar makes of the whole text is what it
makes of the calls under way and that continuation (`Fits`). There `W[k]` is the set of
what the text may make of the value inside the k-th call, each with the place where it
ends; `Linked` says how `W[k]` comes of `W[k+1]` (stored under the frame's key, after what
it holds already), `Completed` what the innermost call still looks for, and at the top
are the values of the text. Each token is one lemma (`ScalarFits`, `OpenFits`, `KeyFits`,
`ColonFits`, `CommaFits`, `CloseFits`, `PlaceFits`: from `Fits` before it to `Fits` behind
it), and `NothingFits` says that at a token of the wrong kind all of these sets are empty,
which is why a rejected text is rejected for good.

The two engines, for texts of any length:

* `EnginesInductive`: `BothSpec => []SInv`;
* `StrictEnginesAgree`: what the columns walk answers is the one meaning of the text, the
  native engine answers nothing else, and what the walk or the gate rejects the native
  engine does not accept.

A text has one meaning at most (`OneMeaning`), so the value stdlib's `loads` gives for NaN
and Infinity is determined too. For the walk, `Ongoing` says that its open containers are
those of a parse of the text up to the row (`Builds`): there are calls `fs` of which `Fits`
holds at that place, though no engine makes them, and `Mirrors` relates the containers to
them. The code puts a container in its parent when it opens, a parse when it closes, so
`Mirrors` speaks of every `w` that gives the closed containers their contents
(`Resolves`) and says nothing of what it gives the open ones: under each, the
innermost open container holds what its call has, and each of the others holds what its
call has and the next container as well. Because a container refers only to later ones
(`Heap`), there is such a `w` once all are closed, and it is `Whole` (`WholeResolves`).
`RowDue` finds the next row behind the commas and colons that have none, and says what it can
be; `ScalarStep`, `KeyStepRow`, `OpenRowBuilds` and `CloseRowBuilds` take `Builds` across it,
each by the same lemma about `Fits` as the token of the native engine. At the last row
the stack is empty and the root has the value that is due (`Finished`), behind which
only the end of the text can come (`NothingBehindRoot`).

### How induction is done

`LEMMA SetInduction` (in four modules: it is stated for a set, not for a predicate) is
proved from the library's theorem that `<` is well founded on the naturals. What is
proved by it (`ReachableIn`, `Levels`, `FlattenSeq`, sums, `Parses`, `Whole`) is stated as the set of
numbers for which it holds.

### Only model-checked

* Liveness: `EventuallyFreed` (twice) and `Ends`. TLAPS does not reach fairness.
* `LockstepUnlessEmptyAlias`: the two walks are at different rows and give containers
  addresses at different moments, so the invariant is an isomorphism of two partial heaps.
* The half of `Lockstep`'s `TypeOK` about the record walk: it is a theorem of `RecordWalk`
  (`RecordTypeCorrect`), but tlapm does not carry theorems through `R == INSTANCE`.
* `RoundTrip`: it needs both walks' invariants and a description of a half-read buffer.

## 5. What is left

`load_all_columns` could take the place of `load_all` in `DumpReload`; until then the
round trip holds for the columns walk through `Lockstep`, on the streams both runs share.

## 6. Not modelled

* Scalar text rules (`_value` and its helpers, the character tests of `_plain_ok`,
  escapes, number syntax): character by character; a node carries the value they
  give, and a text the shape they tell apart.
* Order of dict keys, marks and message texts of errors, contents of diagnostics.
* Parsing, resolution and serialization by the engine: external. A stream that does
  not parse raises before a walk starts, so only well-formed streams are generated.
* `last_error`: the engine's slot for the message of its last failure. What another
  call can change there is wording and position, which no property tells apart.
* `safe_load` and `safe_load_all` beyond the calls they make: what they do with the
  diagnostics is one test, and their laziness is the generator's.
* What the count of `cbor_decode_sequence` means for a sequence whose tail fails
  (`cbor.py:88`): the engine's contract is not in the repository.
* Build scripts and benchmarks: no run-time state.
