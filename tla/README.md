# A TLA+ verification project for Valise

Valise is a single-file embedded store for text and vectors, written in Rust.
This directory holds TLA+ models of it from the fsync up to the search: how
bytes become durable, what survives a crash, how threads share a `Database` and
processes a file, how records are kept under keys, what a file holds and what
an opened one gives back, and what a query answers. TLC checks the models on
small instances; TLAPS proves part of the results for every value of the
constants. Paths below are relative to the
repository root, which is `src/` in `PROJECT.json`.

## 1. Inventory

### 1.1 The parts

| Part | Code | State | Operations | Hard because of |
|---|---|---|---|---|
| fsync barrier | `src/concurrency/writer_pipeline.rs` | tickets, `last_fsynced`, `leader_active`, a condition variable | `fsync` | threads, a system call without the lock, failure of the leader |
| file and commit | `src/file/commit.rs`, `commit_writers.rs`, `frame_ops.rs`, `lifecycle.rs`, `toc_io.rs` | header, footers, segments; catalog, pending batches, dirty sets | `put_frame`, `index_frame_text`, `flush`, `commit`, `open`, `create` | power loss at any point, page reordering, torn writes, errors followed by retries |
| database and connections | `src/concurrency/database.rs`, `connection.rs`, `snapshot.rs` | writer slot, `RwLock`, published snapshot, search caches | `writer`, `put_*`, `commit`, `reader`, `refresh_snapshot` | the lock is free during the fsync; callers that bypass the slot |
| registry and byte locks | `src/concurrency/database.rs`, `locks.rs`, `coordination.rs` | `(dev, ino)` map of `Weak`s, OFD locks | `open`, `create`, `Drop`, lock and release | open/drop races, other processes, early returns |
| store layer | `src/db.rs`, `src/db/writer.rs`, `identity.rs`, `loader.rs` | key map, schema registry, staged vectors | `put`, `update`, `delete`, `commit`, `collection` | several engine calls per operation, each can fail |
| compaction | `src/db/compact.rs` | temp file, published triple | `compact` | rename under live handles, crash between steps |
| partitions | `src/db/partition.rs` | none of its own | `route`, `view`, `forget_before` | calendar arithmetic, retention races |
| schema documents | `src/db/schema_doc.rs`, `src/file/registration.rs` | persisted schemas | `plan_sync`, `apply_sync` | plan made under a read lock, applied under a later write lock |
| text index | `src/file/text_indexing.rs`, `text_ops.rs`, `src/format/postings.rs` | term dictionary, posting chains, doc stats, query caches | flush, open, query | two halves of one state, chains across commits, stale caches |
| text analysis | `src/text/*` | a stem cache per worker | analyze | the cache outlives a document |
| vectors | `src/file/vector_ops.rs`, `vector_search.rs`, `upq_search.rs`, `src/retrieval/sketch.rs` | batches, the vector base | `put_vector`, search | cached base, budgets and cuts |
| vector codecs | `src/codec/*` | none | encode, decode, distance | integer widths, packed layouts, tails |
| scoring and fusion | `src/retrieval/*`, `src/db/reader.rs`, `query.rs` | none | rank, fuse, search | filters and cuts in the right order |
| formats | `src/format/*`, `src/file/catalog_io.rs`, `filter_io.rs` | none | encode, decode | deltas at the ends of a range, chains, bounds |
| CLI, Python bindings, benchmarks | `src/bin`, `bindings`, `bench` | none | - | - |

A store operation becomes engine calls under `Database::inner.write()`. A
commit goes through three hands: `WriteConnection::commit` holds the lock for
phase A (segments, footer, header to the page cache), lets go of it and enters
the barrier, then takes the lock again for phase B (adopt the footer, clear the
dirty sets, publish the snapshot). Readers pin the published snapshot; searches
read caches that live in the file handle. Processes meet in the file: its
header, and one lock byte held from phase A to the end of phase B.

What makes the parts correct:

* barrier: Ok only for durable bytes; one leader; nobody sleeps for ever;
* file: an acknowledged commit survives every crash, whole and readable;
  `open` always finds a snapshot;
* database: a commit covers everything staged before it; a pinned snapshot
  shows only durable rows, and those can be searched;
* registry and locks: one live `Database` per process and inode; commits of
  different processes do not overlap and do not undo each other;
* store: a key has one version; an acknowledged record, with its vectors, is
  what a reopened store finds; a get returns the fields of one put;
* declarations: a store opened again has the spaces and shapes it had;
* file contents: every footer opens, rows, payloads and indexes come back as
  they were put;
* queries: the hits and their order are those the documents themselves give.

The hazards that could break this, each with its line, are in `PROJECT.json`.

### 1.2 The modules

| Module | Models | Used by |
|---|---|---|
| `DurabilityBarrier` | what a group-commit barrier promises (abstract) | `GroupFsync` refines it |
| `GroupFsync` | `GroupFsync::fsync` | run `group_fsync` |
| `GroupFsync_proof` | theorems about it | |
| `SnapshotStore` | what the file promises: atomic commits under crashes (abstract) | `CommitFile` refines it |
| `CommitFile`, `MCCommitFile` | `ValiseFile`: staging, commit, errors, crashes, open | runs `commit_file`, `commit_orphan`, `commit_text_lost` |
| `CommitFile_proof` | theorems about it: types, `open`, readability, text; survival and the refinement | |
| `CommitPipeline` | `Database`, `WriteConnection`, `ReadConnection`, `Store::collection` | runs `commit_pipeline`, `pipeline_declare_gap` |
| `CommitPipeline_proof` | theorems about it | |
| `SharedFile`, `MCSharedFile` | the registry, the byte lock, several processes | runs `shared_file*` |
| `SharedFile_proof` | theorems about it | |
| `KeyedStore`, `MCKeyedStore` | the record layer of `src/db`: writer, identity index, bulk loads, retention, compaction, get | runs `keyed_store`, `compact_uncommitted` |
| `KeyedStore_proof` | theorems about it: the operators and steps, types, writers; versions, commits, reads, vectors, schema documents | |
| `Declarations` | spaces and collections: registered, committed, restored | `MCKeyedStore` |
| `SegmentCodecs` | the payload encodings of `src/format` | `SegmentFile`, `FileFormats` |
| `SegmentFile` | appended segments and the chains of deltas | `TextIndex` |
| `FileFormats` | header, segment headers, footer, contract, codec parameters | `Quantizers` |
| `TextIndex` | the text state of a space: flush and open | `Retrieval` |
| `Retrieval` | text profiles, top-k, fusion | `IndexedFile` |
| `VectorSearch` | sketch, rerank, rescoring | `IndexedFile` |
| `Quantizers` | the two families of vector codecs | `IndexedFile`, `Declarations` |
| `TextAnalysis` | from a text to its tokens | `IndexedFile` |
| `IndexedFile` | one `ValiseFile` handle: edits, commit segment by segment, open, queries | `StoreSearch` |
| `StoreSearch`, `MCIndexedFile` | `Reader::search`: plan, scope, recency, fusion, keys | runs `indexed_file`, `text_reopen_stale` |
| `Folding` | what loops over sequences do: folds, concatenation, reading encodings back | `IndexedFile_proof` |
| `IndexedFile_proof` | theorems about `IndexedFile`, its segments and its text index | |
| `IndexedFile_tables` | theorems about its tables, its segment registry and its allocators | |

The layers fit on top of each other: `CommitPipeline` uses an fsync that makes
phase A's footer durable, which is what `GroupFsync` guarantees, and a footer
that is either wholly on disk or not there, which is what `CommitFile`
establishes. `SharedFile` reduces a commit to the header it moves, `KeyedStore`
to one step that makes the catalog the image on disk, or leaves the old one.
`IndexedFile` goes the other way: it opens up the commit into the segments it
writes, and leaves the crashes to `CommitFile`.

## 2. The models

### 2.1 GroupFsync

One action is one critical section of the state mutex, one system call or the
notification. `pc[c]` is where caller `c` stands in `fsync()`; `my_ticket` and
`target` are its locals. The kernel is three sets: `dirty` (page cache),
`captured` (what the running fsync must flush), `durable`. An fsync flushes
what was dirty when it began, so bytes written meanwhile are not covered. A
failed one leaves any part of its bytes on disk. `DropDirtyOnError` says
whether it also marks the rest clean, as some kernels do; the code says nothing
about such kernels, and the run and the durability theorems take `FALSE`.

In the present code the writer slot lets one commit per `Database` run at a
time, so the barrier mostly serves one caller. It is written and documented
for many, and is modelled for many.

### 2.2 CommitFile

The file is a sequence of chunks (payload, roots, footer, junk), and an offset
is an index in it. `synced` are the chunks a power loss cannot take;
`images` the header prefixes the disk may hold. `mem` has the fields of
`ValiseFile` that matter: header copy, adopted footer, catalog, payload
references, pending payloads, pending text, dirty. A footer records the frames,
the text-indexed frames, the root segments it reaches and the payload
references; a checksum is "the chunk is not junk".

* `PutFrame` is `put_frame` followed by `index_frame_text`, with the early flush
  when the batch reaches its cap (the cap is a choice); `PutFrameErr` is that
  flush failing after the frame entered the catalog.
* `CommitWrites` is `commit_phase_writes` in one step: nothing else runs in the
  handle meanwhile, and a crash in the middle of it is `PowerLoss` after it
  (unordered: any subset of its chunks; ordered: any prefix) or one of the
  `CommitFails` alternatives followed by `Die`.
* `CommitFails` stops in the payload, root or header step and keeps what the
  code had already done to memory. In particular the pending text is gone and
  `self.header` may be advanced.
* `FsyncOk`/`FsyncErr` and `Publish`/`PublishErr` are the rest of the commit.
* `Die` keeps the page cache; `PowerLoss` does not. With `reorder` any
  unsynced chunk may be lost and the header may tear into the offset of one
  image and the generation of another; without it the disk holds a prefix of
  the writes, which is what the contract above `commit_phase_writes` assumes.
* `Open` uses the header's footer if generation and roots agree, and otherwise
  the best footer of the scan whose roots load. Payloads are not read, as in
  the code.

A behaviour starts by choosing one of the `Settings`: durability, whether the
disk reorders, whether a process may die between the header write and the fsync
of a commit (`midcommit`), and how many puts, commits, errors and stops there
may be. `midcommit` is a setting because finding 4.1 needs it: such a death
leaves an unsynced footer to which the next process adds its own.

`SnapshotStore` is the promise: a recovered state is the last committed
snapshot, or whole a later attempt.

### 2.3 CommitPipeline

A method call holds the inner lock throughout and is one action; a commit is
three. `Rows` are put through a `WriteConnection`; `Decls` stand for what
`Store::collection`, `define_space` and their kin stage with `inner.write()`
alone. `prepared` is phase A's footer, `footer` the adopted one, `indexes` the
collection-filter and time-index caches. `covers` and `promised` are history:
what a commit that returns Ok has promised.

### 2.4 SharedFile

`registry[p]` is the `Weak` of process `p`, `refs[h]` a strong count,
`byte_lock` the descriptor holding the writer byte. Open is four steps, as in
the code: lookup, `ValiseFile::open`, second look under the mutex, insert. Drop
is two: the count reaches zero, then `Drop` looks at the entry. Errors after
the lock was taken keep it, since every `?` between acquire and publish skips
the release. Locks are Linux's OFD locks.

### 2.5 KeyedStore

`Store` publishes three things together: engine, schema registry and identity
index. `eng` has the frames and vectors of the catalog, each with whether it is
active and whether a commit has stored it; `disk` is what `open` would load;
`ident` maps a collection and key to frame, vectors and the `committed` flag.
A put creates its partition if need be, appends the new version, and only then
tombstones the old one; `PutIntoErr` stops after the frame, after its vector or
at the tombstone. The engine has no rollback, so the frame of a failed put
stays (`"orphan"` in `faults`). A commit is `FlushDeferred` (calibrate, put the
vectors held back), `EngineCommit`, or its refusal or failure, and
`MarkCommitted`. `ForgetBefore` and compaction take the writer and are split at
their commit, at the rename and at the publish. `Reader::get` is a lookup and a
read, with anything in between. `Reopen` is a process death in any state.

The n-th put carries the number n in its text and its vector, so that a mixture
of two puts would show. History is `acked`, what the last commit that returned
Ok promised, `attempts`, the batches of commits that did not return Ok, and
`faults`, the situations in which the code gives up a guarantee, which every
property names where it has to.

### 2.6 Declarations

The catalog tables that declarations fill (collections, spaces, codecs,
analyzers, profiles, schemas, documents), each with its rows, next id and dirty
set; the `SchemaRegistry`; and the chain of deltas that commits write. Codec
parameters are encoded and decoded as `Quantizers` and `FileFormats` have it,
so that a row that instantiates at registration and not at open, or the other
way round, is a state of the model. A schema document is found only once it is
committed, because a pending frame has no URI. `MCKeyedStore` runs it beside
`KeyedStore`: a behaviour is one or the other, never both.

### 2.7 Formats: SegmentCodecs, SegmentFile, FileFormats

A payload is a sequence of cells: a field is one, a varint as many as it has
groups, so truncation, lengths and offsets mean what they mean for bytes.
Integers have `WordBits` bits (7 in the run, with groups of 3: the last group
of a u64 is partly used, as 64 = 9 * 7 + 1 has it), and checked arithmetic
refuses where the code's does. A digest is the value it was taken of. A file is
the sequence of appended segments, an offset a position in it; `Chain` follows
`previous_root` to a delta that has none, `LatestRows` keeps the newest version
of a row.

### 2.8 IndexedFile, TextIndex, VectorSearch, Retrieval

One handle `h` with the fields of `ValiseFile`: tables, allocators, dirty sets,
pending buffers, text state, filters, time index, segment registry, mapping and
vector base. `Commit` runs the writers of `commit_phase_writes` in their order,
each on the file as the one before left it; `CommitRefused` is an encoder that
refuses, which leaves what was written. `Reopen` builds a handle from the
footer alone. `Query` is a text query, which fills the caches. Searches change
no state and are evaluated in the properties.

The text state keeps two halves, as in the code: what was read at open, and the
maps that flushes fill. Scores are exact rationals; BM25 is taken at k1 = b = 1
for one term, where only the sign of the idf matters for the order. A vector is
three distances from the query (sketch, i8 and full), which disagree, so each
stage of a search has something to lose.

### 2.9 StoreSearch

A query over named fields becomes a plan or a refusal; the channels over-fetch,
are cut to the collections in scope, to what is not deleted and to the window,
are fused by rank or weight, aged, and turned into keys. `StoreSearchRight`
compares every answer with a definition over the committed documents.

### 2.10 Quantizers and TextAnalysis

Operators without state, checked against what they are for: a rotation is
undone by its inverse, a packed index reads back at any width and position, the
integer sums take in every pair once and fit their words, the distance to a
code is the distance to the vector it decodes to; the tokens of a document
analyzed through a used cache are those of a query analyzed without one. All
numbers are chosen so that no rounding arises (blocks of 1 or 4 values, phases
of a quarter turn).

## 3. The runs

| Run | Shows | States |
|---|---|---|
| `group_fsync` | Ok only for durable bytes, no lost wake-up, every call returns, refinement of `DurabilityBarrier`; 3 callers, 2 calls each, 1 failure | 373 k |
| `commit_file` | under both durabilities, with reordering, torn headers and 4 stops around 4 commits, and with 3 I/O errors, retries, deaths inside a commit and 3 stops on write-ordered storage: open succeeds, acknowledged frames survive, are readable and, until an error, indexed; recovered payloads are present; refinement of `SnapshotStore` | 6.0 M |
| `commit_pipeline` | with two writers, a declarer, a reader, 2 failures: acknowledged rows durable, pinned rows durable and searchable | 33 k |
| `shared_file` | two threads and a second process, 4 handles, a failing commit: one live `Database`, commits exclusive | 1.2 M |
| `keyed_store` | one key in two partitions, 2 puts, 3 sessions, 1 failure or death: one version, acknowledged records and their vectors survive, gets are of one put, listed keys are durable, bulk loads are never refused, shapes stay; beside it 3 declarations and a reopening: what was declared is restored | 3.1 M |
| `indexed_file` | three documents, 5 edits, 2 commits, 1 reopening: footers open, rows, payloads, indexes, vectors and term ids come back, every kind of query is exact; in the first state formats, codecs and analysis invert | 53 k |
| `commit_orphan` | violation, 4.1 | |
| `commit_text_lost` | violation, 4.2 | |
| `pipeline_declare_gap` | violation, 4.3 | |
| `shared_file_stale` | violation, 4.4 | |
| `compact_uncommitted` | violation, 4.5 | |
| `text_reopen_stale` | violation, 4.6 | |

Bounds. Three callers are the least with a leader, a covered follower and a
late arrival; two calls each let a caller come back during somebody else's
fsync. Three frames, four commits and four stops give an acknowledged commit, a
lost one, one that reuses its generation (the tie of `Newest`) and one more
crash. The error settings have room for two failed commits, a crash, an
acknowledged commit and a crash. Two writers and three rows give a row of a
dropped connection, one of the running commit and one of the next. Four handles
let a handle be opened, dropped, and raced twice. Two puts of one key give an
update, in one batch or across a commit, and in two partitions a record that
retention takes and one that it leaves; three sessions are a load, a compaction
or forget, and a writer after it. Five edits and two commits make chains of
two deltas with a delete in the second, a vector put later than its frame, and
a third document that some orders of the time index refuse; `BatchLimit` lets
the second payload flush early and `SketchBudget` cuts the candidates. The
documents lie at the ends of the range of times and at period ends.

Fairness. Only `group_fsync` needs it: weak fairness of each caller's steps
inside `fsync()`. The scheduler runs threads that can run, the mutex is
`parking_lot`'s, which is eventually fair, and a system call ends. Nothing is
assumed about new calls. Spurious wake-ups only add a turn of the loop and are
left out.

Deadlock is not checked where the bounds make behaviours end.

Every property has a mutant: a definition changed the way a bug would change
it, under which TLC finds the property violated. They stand beside the
definition they change, marked `Mutant of`.

## 4. Where the code and its documentation disagree

1. **Orphan footers outrank acknowledged commits** (`commit_orphan`). A process
   dies between the header write and the fsync of its commit. The next one opens
   the new footer from the page cache and commits on top of it, with the next
   generation. A power loss keeps the pages of that second footer and the old
   header, so later commits start again from the older generation. One of them
   is acknowledged; the next is cut off by a power loss that tears the header,
   and the scan takes the highest generation, which is the orphan. No I/O error
   is needed; a failed commit and its retry do the same as the death. It does
   need the reordering of unsynced pages and an unsynced footer that another
   one is stacked upon: without the second, or on write-ordered storage, it
   cannot happen (`CommitsSurvive`, section 5).
2. **A failed commit loses pending text** (`commit_text_lost`). The pending
   index is removed from the map before it is written; the retry succeeds
   without it.
3. **A declaration inside another thread's commit is forgotten**
   (`pipeline_declare_gap`). Phase B clears the dirty sets, including what was
   staged since phase A without the slot.
4. **A stale handle undoes a commit** (`shared_file_stale`). `open` reads the
   snapshot before it looks at the registry the second time, and a commit never
   compares its base with the header in the file.

5. **Compaction over an abandoned batch loses a committed record**
   (`compact_uncommitted`). Put, commit, put again, drop the writer, compact:
   the tombstone of the old version counts, the new version has no key yet.
6. **A reopened handle does not find what it commits** (`text_reopen_stale`).
   For terms it opened with, postings and document frequencies come from the
   directories read at open.

Smaller ones, without a run:

* the filter and time caches show rows before their commit is durable, an
  uncommitted delete hides its frame from searches, and one uncommitted text
  makes every text query return Err, although reads are said to reflect the
  last committed state;
* a byte lock leaked by an error shuts other processes out until the handle is
  dropped; `create` may leave two live `Database`s if somebody opens the path
  before it returns (`CreateFirst = FALSE` shows it);
* one active frame with a `created_at` before that of an earlier frame makes
  every commit fail, because the time index takes no frame ids that go down
  (`TimeOrdered`, `TimesRefused`);
* the frame of a put that failed half way is committed by whoever commits next;
  a `forget_before` whose commit failed leaves entries that name dead frames;
* `forget_before` tombstones what the last commit stored: a record that a dropped
  writer left uncommitted in an expired partition stays active, without an
  entry. The next put of its key makes a second active frame, and a rebuild at
  open gives the entry of the key the vectors of both (`OneVersion` and
  `ReadOnePut` except it as the fault `"forget"`);
* `register_codec` marks the row dirty before it instantiates the codec: a
  refused codec (more than 2048 cells) is committed all the same, and the file
  cannot be opened afterwards (`DeclarationsReload` states it);
* `define_space` accepts a redefinition with another codec or language, where
  `src/db.rs:252` promises an error, and a declaration that failed half way
  leaves a space whose codec the next declaration silently keeps;
* every non-empty space has a sketch, so the brute-force scan serves empty ones
  only; the collection filter is applied after the sketch budget, so a filtered
  query can return fewer hits than there are; the sliding engine ignores the
  metric.

## 5. What is proved

`GroupFsync_proof`, for any set of callers and any bounds:

* `TypeCorrect`, `LeaderIsUnique`, `NoLostWakeup`, with no assumption on the
  kernel;
* `OkIsDurable`, `CoveredIsDurable`, `ImplementsBarrier`, under
  `DropDirtyOnError = FALSE`.

`OkImpliesDurable` alone is not inductive. The invariant `Ind` follows the
bytes: a ticketed caller's bytes are dirty or durable (`BytesKept`); while the
system call runs, those of every ticket up to `target` are captured or durable
(`CaptureCoversTarget`), after it they are durable (`SyncCoversTarget`); so
raising `last_fsynced` to `target` keeps `CoveredImpliesDurable`. `TicketOrder`
says that tickets are below `next_ticket`, which is why a late ticket is above
`target`. The refinement adds that only written bytes are ever durable.

`CommitPipeline_proof`, for any writers, readers, rows and declarations:
`TypeCorrect`, `RowsAreCovered`, `PinnedRowsAreDurable`,
`PinnedRowsAreSearchable`. The argument is the writer slot: between the phases
no row is staged, so on rows phase A's footer is the live catalog (`InFlight`),
no row is forgotten when the dirty sets are cleared (`NoRowForgotten`), the
adopted footer is durable and bounds what was promised and shown
(`FooterBounds`), and a row missing from the caches is still dirty
(`CachesFresh`). The same invariant fails for declarations, which is finding 3.

`CommitFile_proof`, for any settings: any number of puts, commits, errors and
stops, either durability, any order of writes, deaths anywhere.

* `TypeCorrect` and `AlwaysOpens`. The invariant `Shape` says what a file can
  look like: the footer of `create` is synced and stays (`FirstFooter`), a
  footer refers only to chunks before it (`FootersOK`), the handle stands on a
  footer that loads (`MemoryOK`), and what a publish or a commit of a clean
  handle acknowledges is all on disk (`Committing`, `Covered`). The scan picks a
  greatest element of a bounded set of generations and offsets, which exists by
  well-foundedness (`Greatest`, `NewestFacts`).
* `AckedStayReadable`. A frame that is there must be readable even where what
  was recovered is not the snapshot that acknowledged it. `Payloads` says why: a
  frame is written once, so all references to it, in every footer and in
  memory, are to one segment (`OneRef`), and the fsync of its commit covered
  that segment (`AckedData`); a frame waiting to be written is referred to by
  nobody (`PendingUnwritten`).
* `TextUntilError` (`TextComplete`: each footer, and the next one, indexes all
  its frames while no error was reported) and `ServedWhole` (`Whole`: on
  write-ordered storage every footer has all its chunks and every header image
  names a footer with its generation).

Its second half has `CommitsSurvive` and `ImplementsStore`, for settings
that are `Disciplined`: storage is write-ordered, with any errors and deaths, or
it reorders and tears but no error is reported and nobody dies inside a commit.
Finding 4.1 is what happens without the condition, and the attempt to prove the
theorem for deaths inside a commit is how its present form was found. On
ordered storage every header image names a current snapshot (`ImagesCurrent`),
so `open` never scans. Where storage reorders the scan decides by generation,
so the invariant `Scan` speaks of an anchor: a footer on disk that loads, is
current, and below which (in the order of the scan) every footer lies that is
no longer current. At rest the handle's own footer is one, and the header names
it or nothing (`Rests`); between the writes of a commit and its fsync the old
one is, and every mixture of header images names the old footer, the new one or
nothing (`InFlight`). A header that names nothing may later name a new footer by
accident, because that lands at the offset a lost one had: the proof shows that
it is then the right one.

`SharedFile_proof`, for any threads, processes and bounds: `TypeCorrect`,
`CommitsExclusive` (the byte lock is held by the one handle that is in a
commit), and `OneDatabase`, which needs `CreateFirst`: with a file opened while
`create` is still making it, TLC finds two handles. Its invariant counts the
strong references of a handle, and says that whatever a thread holds is what
the registry of its process names.

`KeyedStore_proof`, for any keys, times, period length,
flush threshold, and any number of puts, sessions, failures and deaths, with
commits, retention and compaction cut at every point where the model cuts them:
nine theorems, one for every property that the run checks of `KeyedStore`.

Its first half says what each operator does to the catalog: `Kept(e, d, fs,
vs)`, d is e with rows added, the frames fs and vectors vs tombstoned, is proved
of every edit; `ImageFacts` of a commit, `TempFacts` of a compaction (by the
order-preserving renumbering `Rank`, whose inverse `Nth` exists by
well-foundedness), `RebuiltFacts` of the identity rebuild. From them each action
gets a summary (`PutEngine`, `FlushEngine`, `ForgetEngine`, ...), and the
summaries are shown to keep `Sound`:

* `Types`, with the facts that make a catalog meaningful: the owner of a vector
  is a row, and the vector has the owner's value;
* `Entries`: an entry names a record of its key, dead or alive;
* `StagedOK`: a deferred vector is owned by the frame its key's entry names, and
  that frame is active. This is why an update or delete has to drop the deferred
  vectors of the old version, and why `FlushDeferred` cannot fail on a dead frame;
* `BatchOK`: an uncommitted entry is in the batch, and a `Bulk` that began with
  an empty batch has seen it.

`TypeCorrect`, `StagedLive` and `BulkNeverRefused` follow. The second half
puts layers on top, each inductive given those before it:

* `Live`: unless a forget went over pending records, the frame of an entry is
  active, and once the entry is committed, or a commit stands between its write
  and its mark, that frame is stored and the file has it; so does the file a
  compaction is about to rename (`CommittedKeysDurable`);
* `Unique`: no other frame of the key is active, in the engine, on disk, or in
  the file being compacted (`OneActiveVersion`). Compaction over an uncommitted
  batch keeps this, which an earlier form of `OneVersion` did not claim;
* `Owners`: the vectors of an entry, and of an entry a reader carries while
  others work, belong to its frame in the engine that reader uses
  (`GetReadsOnePut`). Searching for this proof found the case of
  `forget_before` under "smaller ones" above;
* `Views`: what `open` would find is acknowledged or attempted, and equal to what
  is about to be acknowledged between write and mark (`AckedRecordsSurvive`);
* `Vecs`: an active frame has its vector or its vector is staged, only such
  frames have vectors, and vectors are listed by the entry of their frame, so
  that a tombstone takes them along (`VectorsGoWithRecords`);
* `Docs`: every registered shape has a document among the active frames, and what
  a compaction copies, or has published, has all of them unless the catalog was
  changed meanwhile (`ShapesAreKept`, an action property).

The hypotheses on `faults` are those of the properties: each names a situation in
which the code gives the guarantee up, and in which TLC finds it violated.

`IndexedFile_proof`, for any documents and any number of edits, commits, refused
commits and openings of the file, proves `TermIdsStable`. The invariant
`TermInv` ties three places together: the ids a handle has in memory, the
counter they come from, and the rows of every dictionary delta that the root in
the footer leads to. `DictOK` says that each of those rows agrees with memory
and that its segment's previous root stays among them, so it survives whatever
else is appended. The argument goes through the code as it runs:

* `DictionaryReadsBack`: decoding a delta gives the rows that were encoded.
  `Folding` has what this needs of loops: a fold is a chain of steps
  (`FoldSteps`), and a loop over a reader that inverts one encoding inverts
  their concatenation (`ReadsBack`). Both are lemmas, for any operator; a proof
  takes the module with its own (`INSTANCE Folding WITH Op <- ...`).
* Each stage of a commit is `Quiet` (the file grows, the text and its root stay)
  or is `FlushText`, which gives out new ids and then writes their rows
  (`AppendTextHeld`). Between the two, and for good after a refusal, memory
  knows ids that the disk does not: the invariant is about the rows on disk, and
  `Held` carries it through the stages with the root the footer still has.
* Opening the file walks the chain from the root. Whatever number of deltas it
  reads, they are among those of `DictOK`, so the ids it takes over agree with
  what was given out and the counter ends above them (`RebuildFacts`).

`SpecFileGrows` states what all of this rests on as an action property: no step
moves or overwrites a segment written before it. It follows from the stages,
refused or not, because each of them only appends.

No step had to assume that the commits before it succeeded, so the run now
checks `TermIdsStable` after refused commits too.

`IndexedFile_tables` proves `TypeOK` of the same specification: each table is in
id order below its allocator, what is dirty is a row, the payload buffer lists a
frame once, and the registry leads from an id to the segment of that id. None of
this is inductive alone, because opening the file replaces all of it by what the
footer leads to. `TablesInv` therefore says the same of the disk:

* `CatOK(f, table, lim, root)`: what a catalog root leads to is a set of deltas,
  closed under previous roots, whose rows have ids; a row of the registry has an
  id below `lim` and the offset of a segment with that id. `lim` is the segment
  allocator written in the footer.
* `Safe(w, low)`: what the stages of a commit keep of the writer, its tables,
  buffers, pending batch, registry and new roots, while its segment allocator
  stays above `low`, the one of the footer still on disk. `StageSafe` has one case
  per stage, and `CommitWritesSafe` composes them, cut off or not.
* A delta of a catalog decodes to the rows it was given (`CatalogReadsBack`), and
  so a walk from a good root reads good deltas only (`CatChainWalks`). Frames are
  weaker: their deltas are columns, and `FrameRowsGood` shows only that whatever
  decodes has numbers for ids.
* `ObserveOK`: an allocator that goes on above the ids that were read is above
  every row of the table.

A refused commit is where this could go wrong. It leaves segments in the file,
with ids that the next opening gives out again, because the allocator goes back
to the footer's. The old roots survive, since the file only grew
(`RootsGrown`), and they name no segment with an id above the footer's allocator;
what was appended in vain is never named. `CommitRefusedTables` and
`ReopenTables` are these two steps. `NextTables` says that `TablesInv` is
inductive given `TermInv`, `SpecTypeOK` that `TypeOK` follows.

The assumptions on constants are the `ASSUME`s of the modules; TLC evaluates
them in every run.

`LeaderIsUnique` and `CoveredIsDurable` are steps of the argument and
consequences the run does not check separately: `OkImpliesDurable` and the
refinement would fail with them.

Only model-checked: liveness (`EveryCallReturns`), which is beyond the prover;
the other properties of `IndexedFile` (`FooterLoads`, `CommittedReload`,
`ReadBack`, `IndexesAgree`, `VectorsFound`, `SearchExact`);
`CodecsInvert`, `QuantizersExact` and `FusionKeepsOrder`, which are about what
operators compute; and `DeclarationsReload`.

## 6. Not modelled

* Footer consensus when the digest in the header is corrupt, and media faults
  in general: the disk here loses or tears writes, it does not alter old bytes.
* Reader slots of the coordination region: laid out, but nothing pins one yet.
* macOS `F_SETLK` locks, which belong to the process.
* Compaction under the handle of another process.
* The legacy v1 catalog, dense postings, compression.
* TF-IDF profiles and z-score fusion, BM25 of several terms and its parameters,
  f32 rounding, SIMD variants: real arithmetic. The order of equal scores that
  a hash table decides.
* Codebook fitting (Lloyd-Max iterations, the ring designs of UPQ): numerical optimisation; the
  codebooks are parameters here.
* Unicode tables and the Snowball stemmer, which are libraries; JSON.
* Permits for fan-out, arenas and prefetching: which thread computes, not what.
* Over-fetch caps of searches: thousands of hits.
* The calendar of partitions: a period is an interval of numbers.
* `check_redeclare`'s second comparison, which no caller can reach.
* CLI, Python bindings, benchmarks: wrappers and drivers.

## 7. Plan

In this order:

1. *(done)* the barrier and its abstract promise; checked and proved.
2. *(done)* the file's commit and recovery, and the atomic store it implements.
3. *(done)* the shared `Database`; checked and proved.
4. *(done)* the registry and several processes.
5. *(done)* the store layer, retention and compaction; declarations.
6. *(done)* the contents of the file: formats, chains, text and vector indexes,
   codecs, analysis, queries, store searches.
7. *(done)* proofs about the file and the registry.
8. *(done)* proofs about the store layer.
9. Two processes and a compaction: the `nlink` check against the rename.
10. Proofs about `IndexedFile`: *(done)* `TermIdsStable` and the dictionary; then
    *(done)* the catalog deltas in the same way, and `TypeOK`; then the columns of
    the frame catalog read back, which `CommittedReload` needs.
