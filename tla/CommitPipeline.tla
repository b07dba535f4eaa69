--------------------------- MODULE CommitPipeline ---------------------------
(***************************************************************************)
(* One Database shared by the threads of a process: the single-writer slot *)
(* (src/src/concurrency/database.rs), the two-phase commit of a            *)
(* WriteConnection (src/src/concurrency/connection.rs), the staging calls  *)
(* that do not take the slot (src/src/db.rs, src/src/db/writer.rs), and    *)
(* the snapshots readers pin.                                              *)
(*                                                                         *)
(* Every method call holds the inner RwLock for its whole body, so a call  *)
(* is one action; a commit holds it twice and fsyncs in between, with no   *)
(* lock, so it is three.  CommitFile has the file under this, GroupFsync   *)
(* the barrier; here an fsync makes the last written footer durable.       *)
(***************************************************************************)
EXTENDS Integers

CONSTANTS
  Writers,    \* threads that use Database::writer()
  Readers,    \* threads that use Database::reader()
  Rows,       \* frames, put through a WriteConnection
  Decls,      \* collections, spaces and schema frames that Store::collection,
              \* define_space and partitioned stage
  None,       \* no thread
  MaxErrors   \* bound: commits that fail

ASSUME CommitPipelineAssumption ==
  /\ None \notin Writers
  /\ Rows \cap Decls = {}
  /\ MaxErrors \in Nat

VARIABLES
  writer_slot,  \* the WriteConnection that is alive, or None
  phase,        \* of the slot's holder: "idle", "fsync" or "publish"
  catalog,      \* self.catalog: every staged and committed item
  dirty_ids,    \* the dirty_*_ids sets
  dirty,        \* self.dirty
  footer,       \* items under self.footer, the last adopted footer
  prepared,     \* items under the footer phase A wrote (CommitPhaseAState)
  indexes,      \* items in collection_filter_cache and time_index_cache,
                \* which the unpinned search methods answer from
  durable,      \* items under the newest footer on disk
  published,    \* items in the published snapshot
  pinned,       \* pinned[r]: items in the snapshot reader r holds
  covers,       \* items in the catalog when the running commit began
  promised,     \* items that were staged before a commit that returned Ok
  errors

vars == <<writer_slot, phase, catalog, dirty_ids, dirty, footer, prepared,
          indexes, durable, published, pinned, covers, promised, errors>>
staging == <<catalog, dirty_ids, dirty>>
views == <<indexes, published, pinned>>

Items == Rows \cup Decls

Init ==
  /\ writer_slot = None
  /\ phase = "idle"
  /\ catalog = {} /\ dirty_ids = {} /\ dirty = FALSE
  /\ footer = {} /\ prepared = {} /\ durable = {}
  /\ indexes = {} /\ published = {} /\ pinned = [r \in Readers |-> {}]
  /\ covers = {} /\ promised = {} /\ errors = 0

(* Database::writer() blocks on the slot; try_writer() gives up instead.   *)
AcquireWriter(w) ==
  /\ writer_slot = None
  /\ writer_slot' = w
  /\ UNCHANGED <<phase, staging, footer, prepared, durable, views, covers,
                 promised, errors>>

(* Mutant of DropWriter: the connection can go away in the middle of its   *)
(* own commit.                                                             *)
DropWriterMidCommit(w) ==
  /\ writer_slot = w
  /\ writer_slot' = None
  /\ UNCHANGED <<phase, staging, footer, prepared, durable, views, covers,
                 promised, errors>>

(* Dropping the connection.  What it staged stays for the next commit.     *)
DropWriter(w) ==
  /\ writer_slot = w
  /\ phase = "idle"
  /\ writer_slot' = None
  /\ UNCHANGED <<phase, staging, footer, prepared, durable, views, covers,
                 promised, errors>>

(* Every staging call: into the catalog, into a dirty set, dirty = true.   *)
Stage(i) ==
  /\ i \notin catalog
  /\ catalog' = catalog \cup {i}
  /\ dirty_ids' = dirty_ids \cup {i}
  /\ dirty' = TRUE
  /\ UNCHANGED <<writer_slot, phase, footer, prepared, durable, views, covers,
                 promised, errors>>

(* Mutant of PutFrame: a row is staged without owning the slot.            *)
PutFrameWithoutSlot(w, i) == Stage(i)

(* WriteConnection::put_frame, put_vector, create_collection.              *)
PutFrame(w, i) ==
  /\ writer_slot = w
  /\ phase = "idle"
  /\ Stage(i)

(* Store::collection and its kin take inner.write() and never the slot.    *)
Declare(i) == Stage(i)

-----------------------------------------------------------------------------
(* WriteConnection::commit.                                                *)

(* commit_phase_writes on a clean file.                                    *)
CommitNoOp(w) ==
  /\ writer_slot = w
  /\ phase = "idle"
  /\ ~dirty
  /\ promised' = promised \cup catalog
  /\ UNCHANGED <<writer_slot, phase, staging, footer, prepared, durable, views,
                 covers, errors>>

(* Mutant of CommitPhaseA: the snapshot is published before the barrier.   *)
CommitPhaseAPublishes(w) ==
  /\ writer_slot = w
  /\ phase = "idle"
  /\ dirty
  /\ prepared' = footer \cup dirty_ids
  /\ covers' = catalog
  /\ indexes' = catalog
  /\ published' = catalog
  /\ phase' = "fsync"
  /\ UNCHANGED <<writer_slot, staging, footer, durable, pinned, promised,
                 errors>>

(* Mutant of CommitPhaseA: the caches keep what the last open loaded.      *)
CommitPhaseAStaleCaches(w) ==
  /\ writer_slot = w
  /\ phase = "idle"
  /\ dirty
  /\ prepared' = footer \cup dirty_ids
  /\ covers' = catalog
  /\ phase' = "fsync"
  /\ UNCHANGED <<writer_slot, staging, footer, durable, views, promised,
                 errors>>

(* Phase A writes a delta: the adopted footer's roots, plus one record for *)
(* every dirty id.  If a frame is dirty (every row is one, a declaration   *)
(* may be) it rebuilds the collection filters and the time index from the  *)
(* whole catalog, in the file and in the caches.  dirty stays set.         *)
CommitPhaseA(w) ==
  /\ writer_slot = w
  /\ phase = "idle"
  /\ dirty
  /\ prepared' = footer \cup dirty_ids
  /\ covers' = catalog
  /\ \/ indexes' = catalog
     \/ dirty_ids \cap Rows = {} /\ indexes' = indexes
  /\ phase' = "fsync"
  /\ UNCHANGED <<writer_slot, staging, footer, durable, published, pinned,
                 promised, errors>>

(* An I/O error in phase A: the caches may have been rebuilt, or not.      *)
CommitPhaseAErr(w) ==
  /\ writer_slot = w
  /\ phase = "idle"
  /\ dirty
  /\ errors < MaxErrors
  /\ errors' = errors + 1
  /\ indexes' \in {indexes, catalog}
  /\ UNCHANGED <<writer_slot, phase, staging, footer, prepared, durable,
                 published, pinned, covers, promised>>

(* The barrier, with no lock held.                                         *)
FsyncOk(w) ==
  /\ writer_slot = w
  /\ phase = "fsync"
  /\ durable' = prepared
  /\ phase' = "publish"
  /\ UNCHANGED <<writer_slot, staging, footer, prepared, views, covers,
                 promised, errors>>

FsyncErr(w) ==
  /\ writer_slot = w
  /\ phase = "fsync"
  /\ errors < MaxErrors
  /\ errors' = errors + 1
  /\ phase' = "idle"
  /\ UNCHANGED <<writer_slot, staging, footer, prepared, durable, views, covers,
                 promised>>

(* commit_phase_publish adopts the footer of phase A and clears every      *)
(* dirty set, whatever was staged since.                                   *)
Adopt(w) ==
  /\ writer_slot = w
  /\ phase = "publish"
  /\ footer' = prepared
  /\ dirty_ids' = {}
  /\ dirty' = FALSE
  /\ phase' = "idle"
  /\ UNCHANGED <<writer_slot, catalog, prepared, durable, indexes, pinned,
                 covers>>

(* The snapshot is built from the live catalog.                            *)
Publish(w) ==
  /\ Adopt(w)
  /\ published' = catalog
  /\ promised' = promised \cup covers
  /\ UNCHANGED errors

(* The remap or the vector base fails after the dirty sets were cleared.   *)
PublishErr(w) ==
  /\ Adopt(w)
  /\ errors < MaxErrors
  /\ errors' = errors + 1
  /\ UNCHANGED <<published, promised>>

-----------------------------------------------------------------------------
(* Database::reader() and ReadConnection::refresh_snapshot().              *)
Pin(r) ==
  /\ pinned' = [pinned EXCEPT ![r] = published]
  /\ UNCHANGED <<writer_slot, phase, staging, footer, prepared, indexes,
                 durable, published, covers, promised, errors>>

CommitStep(w) ==
  \/ CommitNoOp(w) \/ CommitPhaseA(w) \/ CommitPhaseAErr(w)
  \/ FsyncOk(w) \/ FsyncErr(w) \/ Publish(w) \/ PublishErr(w)

Next ==
  \/ \E w \in Writers : \/ AcquireWriter(w) \/ DropWriter(w)
                        \/ \E i \in Rows : PutFrame(w, i)
                        \/ CommitStep(w)
  \/ \E i \in Decls : Declare(i)
  \/ \E r \in Readers : Pin(r)

Spec == Init /\ [][Next]_vars

-----------------------------------------------------------------------------
(* The types of the shared Database's state; the writer slot is never free *)
(* while a commit is between its phases.                                   *)
TypeOK ==
  /\ writer_slot \in Writers \cup {None}
  /\ phase \in {"idle", "fsync", "publish"}
  /\ writer_slot = None => phase = "idle"
  /\ catalog \subseteq Items /\ dirty_ids \subseteq Items /\ dirty \in BOOLEAN
  /\ footer \subseteq Items /\ prepared \subseteq Items
  /\ durable \subseteq Items /\ indexes \subseteq Items
  /\ published \subseteq Items /\ pinned \in [Readers -> SUBSET Items]
  /\ covers \subseteq Items /\ promised \subseteq Items
  /\ errors \in 0..MaxErrors

(* WriteConnection docs: commit() "is the durability point for everything  *)
(* staged".  A row put through the slot is on disk once any later commit   *)
(* returned Ok, whichever connection put it, whichever commits failed in   *)
(* between, and whatever other threads declare meanwhile.                  *)
RowsCovered == promised \cap Rows \subseteq durable

(* A reader's pinned snapshot shows no row that a power loss could take    *)
(* away: phase A's effects stay invisible to it until the barrier.         *)
PinnedRowsDurable ==
  \A r \in Readers : pinned[r] \cap Rows \subseteq durable

(* Store::collection docs: "the persisted schema rides the next commit".   *)
(* The same for everything staged, declarations included.                  *)
StagedIsCovered == promised \subseteq durable

(* ReadConnection docs: the search methods are not pinned but "see the     *)
(* latest committed state".  Every row a reader's pinned snapshot lists is *)
(* in the caches they answer from, although phase A refreshes the caches   *)
(* and phase B the snapshot, and either phase can fail.                    *)
PinnedRowsSearchable ==
  \A r \in Readers : pinned[r] \cap Rows \subseteq indexes

=============================================================================
