----------------------------- MODULE KeyedStore -----------------------------
(***************************************************************************)
(* The record layer of src/src/db: one Store and its three published parts *)
(* (engine, schema registry, identity index), the single writer with its   *)
(* deferred vectors, the Bulk loader, time partitions and forget_before,   *)
(* compaction, a concurrent Reader::get, process death and reopen.         *)
(*                                                                         *)
(* The engine below is CommitFile seen from above: a commit is one step    *)
(* that makes the catalog the on-disk image.  A partition is the number    *)
(* of its period; the records all bind one text field and one vector       *)
(* field, whose space is calibrated by the first commit that has vectors.  *)
(* The text and the vector of the n-th put both carry the value n.         *)
(***************************************************************************)
EXTENDS Integers, FiniteSets, Sequences, FiniteSetsExt

CONSTANTS
  Keys,          \* the keys records are put under
  Times,         \* the created_at values of records
  PeriodLen,     \* seconds in a partition period
  BulkThreshold, \* puts after which Bulk flushes
  MaxPuts,       \* bound: puts
  MaxFailures,   \* bound: I/O errors and process deaths
  MaxSessions    \* bound: writers, forgets and compactions started

ASSUME KeyedStoreAssumption ==
  /\ Times \subseteq Nat
  /\ {PeriodLen, BulkThreshold} \subseteq Nat \ {0}
  /\ {MaxPuts, MaxFailures, MaxSessions} \subseteq Nat

VARIABLES
  disk,     \* what open() would load: the catalog of the last commit
  eng,      \* the ValiseFile behind Published.db
  reg,      \* SchemaRegistry: collections with a shape, the vector space
  ident,    \* IdentityIndex.map
  batch,    \* IdentityIndex.uncommitted
  writer,   \* who holds writer_lock, and where it is
  reader,   \* one Reader::get
  puts, failures, sessions,  \* counters for the bounds
  acked, attempts,  \* history: what commit() returned Ok for; what a commit
                    \* that was not acknowledged may have left on disk
  faults    \* history: the irregular things that have happened

vars == <<disk, eng, reg, ident, batch, writer, reader, puts, failures,
          sessions, acked, attempts, faults>>
published == <<eng, reg, ident, batch>>
bounds == <<puts, failures, sessions>>
history == <<acked, attempts, faults>>

-----------------------------------------------------------------------------
(* The catalog of the engine, as this layer uses it.                       *)

(* The place of x among the numbers of S, and the n-th of them: what is    *)
(* kept of a list keeps its order.                                         *)
Rank(S, x) == Cardinality({y \in S : y <= x})
Nth(S, n) == CHOOSE x \in S : Rank(S, x) = n

(* Partitioned::route: the period created_at falls in.                     *)
Period(t) == t \div PeriodLen
Colls == {Period(t) : t \in Times}
Slots == Colls \X Keys

(* FrameDesc.  `stored' is FALSE while payload and uri are only in the     *)
(* pending buffers, that is until the next commit; `vec' remembers whether *)
(* the record was put with a vector.                                       *)
Frame(kind, coll, key, val, ts, vec) ==
  [kind |-> kind, coll |-> coll, key |-> key, val |-> val, ts |-> ts,
   vec |-> vec, active |-> TRUE, stored |-> FALSE]
(* VectorDesc, pending until the next commit.                              *)
Vector(space, owner, val) ==
  [space |-> space, owner |-> owner, val |-> val,
   active |-> TRUE, stored |-> FALSE]

ActiveFrames(e) == {f \in DOMAIN e.frames : e.frames[f].active}
ActiveVectors(e) == {v \in DOMAIN e.vectors : e.vectors[v].active}

(* create_with_options; no embedding space is registered yet.              *)
EmptyEngine ==
  [frames |-> <<>>, vectors |-> <<>>, spaces |-> 0, colls |-> {}]

DeleteFrame(e, f) == [e EXCEPT !.frames[f].active = FALSE]
DeleteVectors(e, vs) ==
  [e EXCEPT !.vectors = [v \in DOMAIN @ |->
     IF v \in vs THEN [@[v] EXCEPT !.active = FALSE] ELSE @[v]]]
PutVector(e, owner, val) ==
  [e EXCEPT !.vectors = Append(@, Vector(e.spaces, owner, val))]

(* What a commit writes: nothing is pending any more.                      *)
Image(e) ==
  [e EXCEPT
     !.frames  = [f \in DOMAIN @ |-> [@[f] EXCEPT !.stored = TRUE]],
     !.vectors = [v \in DOMAIN @ |-> [@[v] EXCEPT !.stored = TRUE]]]

(* encode_time_index_segment accepts the active frames in frame-id order   *)
(* only if created_at never decreases; otherwise the commit fails.         *)
TimeOrdered(e) ==
  \A f, g \in ActiveFrames(e) : f < g => e.frames[f].ts <= e.frames[g].ts

(* collection_filter_cache: the members as of the last commit.             *)
MemberFrames(e, c) ==
  {f \in DOMAIN e.frames : e.frames[f].stored /\ e.frames[f].coll = c
                           /\ e.frames[f].kind = "record"}
MemberVectors(e, c) ==
  {v \in DOMAIN e.vectors : e.vectors[v].stored
                            /\ e.frames[e.vectors[v].owner].coll = c}

-----------------------------------------------------------------------------
(* Schema documents and the identity index.                                *)

(* schema_doc::watermark: documents sort behind every active frame.        *)
Watermark(e) == Max({0} \cup {e.frames[f].ts : f \in ActiveFrames(e)})

DocsOf(e, c) ==
  {f \in ActiveFrames(e) : e.frames[f].kind = "doc" /\ e.frames[f].coll = c}
(* find_doc reads uris, and a pending document has none yet.               *)
FindDoc(e, c) == \E f \in DocsOf(e, c) : e.frames[f].stored

(* ensure_collection_with_shape and Store::collection: create the          *)
(* collection and stage its document unless one is persisted.              *)
Declared(e, c, r) ==
  IF c \in r.shapes THEN e
  ELSE [e EXCEPT
          !.colls = @ \cup {c},
          !.frames = IF FindDoc(e, c) THEN @
                     ELSE Append(@, Frame("doc", c, c, 0, Watermark(e), FALSE))]
Bound(r, c) == [r EXCEPT !.shapes = @ \cup {c}]

(* SchemaRegistry::rebuild: shapes come from the stored documents; the     *)
(* space is the last one registered under its name, or deferred (0).       *)
RebuiltSchema(e) ==
  [shapes |-> {c \in e.colls : FindDoc(e, c)}, space |-> e.spaces]

Entry(f, vs, done) == [frame |-> f, vectors |-> vs, committed |-> done]
NoEntry == Entry(0, {}, FALSE)

KeyedFrames(e, s) ==
  {f \in ActiveFrames(e) : /\ e.frames[f].kind = "record"
                           /\ e.frames[f].stored
                           /\ <<e.frames[f].coll, e.frames[f].key>> = s}

(* IdentityIndex::rebuild walks the active frames in id order, so the last *)
(* frame of a key wins, and its entry gets the vectors of all of them.     *)
RebuiltIdentity(e) ==
  [s \in Slots |->
     LET fs == KeyedFrames(e, s) IN
     IF fs = {} THEN NoEntry
     ELSE Entry(Max(fs),
                {v \in ActiveVectors(e) : e.vectors[v].owner \in fs}, TRUE)]

(* Key -> value, as the identity index i over the engine e resolves it.    *)
View(e, i) ==
  [s \in Slots |-> IF i[s] = NoEntry THEN 0 ELSE e.frames[i[s].frame].val]
DiskView == View(disk, RebuiltIdentity(disk))

-----------------------------------------------------------------------------
NoWriter == [by |-> "none"]
(* A fresh WriterCore; `seen' and `pending' are Bulk's, `expired' the      *)
(* collections a forget_before is about to drop.                           *)
WriterCore(by) ==
  [by |-> by, pc |-> "idle", staged |-> <<>>, seen |-> {}, pending |-> 0,
   expired |-> {}, fresh |-> batch = {}]
IdleReader == [pc |-> "idle"]

(* Store::create, then Store::partitioned in this process.                 *)
Init ==
  /\ disk = EmptyEngine
  /\ eng = EmptyEngine
  /\ reg = RebuiltSchema(EmptyEngine)
  /\ ident = RebuiltIdentity(EmptyEngine)
  /\ batch = {}
  /\ writer = NoWriter
  /\ reader = IdleReader
  /\ puts = 0 /\ failures = 0 /\ sessions = 0
  /\ acked = [s \in Slots |-> 0]
  /\ attempts = {}
  /\ faults = {}

Acquire ==
  /\ writer = NoWriter
  /\ sessions < MaxSessions
  /\ sessions' = sessions + 1

(* Store::writer, writer_owned, try_writer_owned.                          *)
OpenWriter ==
  /\ Acquire
  /\ writer' = WriterCore("app")
  /\ UNCHANGED <<disk, published, reader, puts, failures, history>>

App == writer.by \in {"app", "bulk"} /\ writer.pc = "idle"

(* Writer::bulk borrows the writer: nothing of the batch has been seen.    *)
StartBulk ==
  /\ writer.by = "app" /\ writer.pc = "idle"
  /\ writer' = [writer EXCEPT !.by = "bulk", !.seen = {}, !.pending = 0,
                              !.fresh = batch = {}]
  /\ UNCHANGED <<disk, published, reader, bounds, history>>

(* The writer is dropped.  The engine and the identity index keep what it  *)
(* staged; the deferred vectors go with the WriterCore.                    *)
DropWriter ==
  /\ App
  /\ writer' = NoWriter
  /\ faults' = faults \cup (IF writer.staged # <<>> THEN {"vectors"} ELSE {})
  /\ UNCHANGED <<disk, published, reader, bounds, acked, attempts>>

-----------------------------------------------------------------------------
(* WriterCore::put.                                                        *)

(* An entry of this batch with vectors cannot be tombstoned yet.           *)
Rejected(en) == ~en.committed /\ en.vectors # {}

(* Bulk::put flushes first when the key was put since its last flush.      *)
MayPut(s) == writer.by = "bulk" => s \notin writer.seen

(* With the batch full, Bulk::put goes on to flush before it returns.      *)
Counted(w) ==
  [w EXCEPT !.pending = @ + 1,
            !.pc = IF w.pending + 1 >= BulkThreshold THEN "full" ELSE @]
(* Mutant of Noted: Bulk counts the put but does not remember the key.     *)
NotedCountOnly(w, s) == IF w.by = "bulk" THEN Counted(w) ELSE w
Noted(w, s) ==
  IF w.by = "bulk" THEN [Counted(w) EXCEPT !.seen = @ \cup {s}] ELSE w

(* delete_vector and delete_frame refuse what is tombstoned already.       *)
CanTombstone(e, en) ==
  /\ en.vectors \subseteq ActiveVectors(e)
  /\ en.frame \in ActiveFrames(e)
(* Mutant of Tombstoned: the vectors of the record are forgotten.          *)
TombstonedFrameOnly(e, en) == DeleteFrame(e, en.frame)
Tombstoned(e, en) ==
  DeleteFrame(DeleteVectors(e, IF en.committed THEN en.vectors ELSE {}),
              en.frame)
(* Mutant of Replaced: the prior version is left for compaction to find.   *)
ReplacedKeepsPrior(e, prev) == e
(* Tombstone the prior version, if there is one.                           *)
Replaced(e, prev) == IF prev = NoEntry THEN e ELSE Tombstoned(e, prev)

(* Mutant of Without: the deferred vectors of a dead frame stay staged.    *)
WithoutNothing(staged, f) == staged
Without(staged, f) ==
  LET keep == {i \in DOMAIN staged : staged[i].owner # f}
  IN  [n \in 1..Cardinality(keep) |-> staged[Nth(keep, n)]]

(* The engine with the new version of slot s appended, and its frame.      *)
NewFrame(e) == Len(e.frames) + 1
Appended(e, s, t, n, vec) ==
  [e EXCEPT !.frames = Append(@, Frame("record", s[1], s[2], n, t, vec))]

(* put_into: declare the partition, append frame, text and calibrated      *)
(* vectors, then tombstone the prior version, then stage the vectors of an *)
(* uncalibrated space and remap the key.  A concurrent get that looked the *)
(* key up before cannot tell these apart from one step.                    *)
Put(s, t, vec) ==
  LET e0   == Declared(eng, s[1], reg)
      f    == NewFrame(e0)
      prev == ident[s]
      e1   == Appended(e0, s, t, puts', vec)
      now  == vec /\ reg.space # 0
      e2   == IF now THEN PutVector(e1, f, puts') ELSE e1
      late == IF vec /\ reg.space = 0
              THEN <<[slot |-> s, owner |-> f, val |-> puts']>> ELSE <<>>
      kept == IF prev = NoEntry THEN writer.staged
              ELSE Without(writer.staged, prev.frame)
  IN  /\ prev # NoEntry => CanTombstone(e2, prev)
      /\ reg' = Bound(reg, s[1])
      /\ eng' = Replaced(e2, prev)
      /\ ident' = [ident EXCEPT ![s] =
           Entry(f, IF now THEN {Len(e2.vectors)} ELSE {}, FALSE)]
      /\ batch' = batch \cup {s}
      /\ writer' = [Noted(writer, s) EXCEPT !.staged = kept \o late]

(* put_into fails behind put_frame: an I/O error in the payload batch or   *)
(* in a vector chunk, or a prior version that can no longer be tombstoned. *)
(* The new frame stays in the catalog under the key, identity is as it was.*)
PutFails(s, t, vec) ==
  LET e0 == Declared(eng, s[1], reg)
      e1 == Appended(e0, s, t, puts', vec)
      stale == ident[s] # NoEntry /\ ~CanTombstone(e1, ident[s])
  IN  /\ stale \/ failures < MaxFailures
      /\ failures' = IF stale THEN failures ELSE failures + 1
      /\ reg' = Bound(reg, s[1])
      /\ \/ ~stale /\ eng' = e1
         \/ vec /\ reg.space # 0 /\ eng' = PutVector(e1, NewFrame(e0), puts')
         \/ stale /\ ~(vec /\ reg.space # 0) /\ eng' = e1
      /\ UNCHANGED <<ident, batch, writer>>

StartPut(s) ==
  /\ App
  /\ puts < MaxPuts
  /\ MayPut(s)
  /\ ~Rejected(ident[s])
  /\ puts' = puts + 1

PutInto ==
  /\ \E k \in Keys, t \in Times, vec \in BOOLEAN :
       StartPut(<<Period(t), k>>) /\ Put(<<Period(t), k>>, t, vec)
  /\ UNCHANGED <<disk, reader, failures, sessions, history>>

PutIntoErr ==
  /\ \E k \in Keys, t \in Times, vec \in BOOLEAN :
       StartPut(<<Period(t), k>>) /\ PutFails(<<Period(t), k>>, t, vec)
  /\ faults' = faults \cup {"orphan"}
  /\ UNCHANGED <<disk, reader, sessions, acked, attempts>>

(* WriterCore::delete.                                                     *)
Delete ==
  /\ writer.by = "app" /\ writer.pc = "idle"
  /\ \E s \in Slots :
       /\ ident[s] # NoEntry
       /\ ~Rejected(ident[s])
       /\ CanTombstone(eng, ident[s])
       /\ eng' = Tombstoned(eng, ident[s])
       /\ writer' = [writer EXCEPT
                       !.staged = Without(@, ident[s].frame)]
       /\ ident' = [ident EXCEPT ![s] = NoEntry]
  /\ UNCHANGED <<disk, reg, batch, reader, bounds, history>>

(* Store::collection on another thread; it takes no writer lock.           *)
Declare ==
  /\ \E c \in Colls \ reg.shapes :
       /\ eng' = Declared(eng, c, reg)
       /\ reg' = Bound(reg, c)
  /\ UNCHANGED <<disk, ident, batch, writer, reader, bounds, history>>

-----------------------------------------------------------------------------
(* WriterCore::commit: calibrate, write, mark.                             *)

(* All staged vectors of d into the engine, in a space registered now.     *)
(* Mutant of Registered: the catalog never hears of the space.             *)
RegisteredNot(e) == e
Registered(e) == [e EXCEPT !.spaces = @ + 1]
PutAll(e, d) ==
  [e EXCEPT !.vectors = @ \o
     [i \in 1..Len(d) |-> Vector(e.spaces, d[i].owner, d[i].val)]]
(* push_vector: vector v joins the entry of its slot.                      *)
Pushed(e, d) ==
  [s \in Slots |->
     [ident[s] EXCEPT !.vectors =
        @ \cup {Len(e.vectors) + i : i \in {j \in 1..Len(d) :
                                              /\ d[j].slot = s
                                              /\ ident[s] # NoEntry}}]]

CommitStart ==
  /\ writer.by \in {"app", "bulk", "forget"}
  /\ writer.pc \in {"idle", "full"}

(* Bulk::flush of nothing commits nothing.                                 *)
Flushing == writer.by = "bulk" => writer.pending > 0

(* flush_deferred: register codec and space from the sample, put every     *)
(* staged vector, make the space Ready, attach the ids, clear.             *)
FlushDeferred ==
  /\ CommitStart /\ Flushing
  /\ IF writer.staged = <<>> THEN UNCHANGED <<eng, reg, ident>>
     ELSE LET e == IF reg.space = 0 THEN Registered(eng) ELSE eng IN
          /\ eng' = PutAll(e, writer.staged)
          /\ reg' = [reg EXCEPT !.space = e.spaces]
          /\ ident' = Pushed(e, writer.staged)
  /\ writer' = [writer EXCEPT !.pc = "commit", !.staged = <<>>]
  /\ UNCHANGED <<disk, batch, reader, bounds, history>>

(* A put_vector in it fails: the space and the first n vectors are in the  *)
(* engine, but the schema still says deferred and everything stays staged. *)
FlushDeferredErr ==
  /\ CommitStart /\ Flushing
  /\ writer.staged # <<>>
  /\ failures < MaxFailures
  /\ failures' = failures + 1
  /\ LET e == IF reg.space = 0 THEN Registered(eng) ELSE eng IN
       \E n \in 0..(Len(writer.staged) - 1) :
         eng' = PutAll(e, SubSeq(writer.staged, 1, n))
  /\ writer' = [writer EXCEPT !.pc = "idle"]
  /\ faults' = faults \cup {"vectors"}
  /\ UNCHANGED <<disk, reg, ident, batch, reader, puts,
                 sessions, acked, attempts>>

(* The state the caller means to make durable.                             *)
Intended ==
  [s \in Slots |-> IF s[1] \in writer.expired THEN 0 ELSE View(eng, ident)[s]]

(* Mutant of EngineCommit: the delta carries the new rows only, not the    *)
(* tombstones of rows written before.                                      *)
EngineCommitNewRows ==
  /\ writer.by \in {"app", "bulk", "forget"} /\ writer.pc = "commit"
  /\ TimeOrdered(eng)
  /\ disk' = [Image(eng) EXCEPT !.frames = [f \in DOMAIN @ |->
       IF f \in DOMAIN disk.frames THEN disk.frames[f] ELSE @[f]]]
  /\ eng' = Image(eng)
  /\ attempts' = attempts \cup {Intended}
  /\ writer' = [writer EXCEPT !.pc = "mark"]
  /\ UNCHANGED <<reg, ident, batch, reader, bounds, acked, faults>>

EngineCommit ==
  /\ writer.by \in {"app", "bulk", "forget"} /\ writer.pc = "commit"
  /\ TimeOrdered(eng)
  /\ disk' = Image(eng)
  /\ eng' = Image(eng)
  /\ attempts' = attempts \cup {Intended}
  /\ writer' = [writer EXCEPT !.pc = "mark"]
  /\ UNCHANGED <<reg, ident, batch, reader, bounds, acked, faults>>

(* What a commit that returns Err leaves behind.  forget_before gives up   *)
(* its writer with the tombstones staged and the entries in place.         *)
CommitReturnsErr ==
  /\ writer' = IF writer.by = "forget" THEN NoWriter
               ELSE [writer EXCEPT !.pc = "idle"]
  /\ faults' = faults \cup (IF writer.by = "forget" THEN {"forget"} ELSE {})

(* Mutant of CommitRefused: the batch is marked although commit() failed.  *)
CommitRefusedMarks ==
  /\ writer.by \in {"app", "bulk", "forget"} /\ writer.pc = "commit"
  /\ ~TimeOrdered(eng)
  /\ CommitReturnsErr
  /\ ident' = [s \in Slots |->
       [ident[s] EXCEPT !.committed = ident[s] # NoEntry]]
  /\ batch' = {}
  /\ UNCHANGED <<disk, eng, reg, reader, bounds, acked, attempts>>

(* A record put behind a newer one is in the batch: the time index refuses *)
(* the commit until that record, or the newer one, is gone.                *)
CommitRefused ==
  /\ writer.by \in {"app", "bulk", "forget"} /\ writer.pc = "commit"
  /\ ~TimeOrdered(eng)
  /\ CommitReturnsErr
  /\ UNCHANGED <<disk, published, reader, bounds, acked, attempts>>

(* An I/O error, before or behind the point where open() would find the    *)
(* new snapshot.                                                           *)
CommitErr ==
  /\ writer.by \in {"app", "bulk", "forget"} /\ writer.pc = "commit"
  /\ TimeOrdered(eng)
  /\ failures < MaxFailures
  /\ failures' = failures + 1
  /\ \/ UNCHANGED <<disk, attempts>>
     \/ disk' = Image(eng) /\ attempts' = attempts \cup {Intended}
  /\ CommitReturnsErr
  /\ UNCHANGED <<published, reader, puts, sessions, acked>>

Marked(slots) ==
  [s \in Slots |-> IF s \in slots /\ ident[s] # NoEntry
                   THEN [ident[s] EXCEPT !.committed = TRUE] ELSE ident[s]]

(* mark_all_committed, and commit() returns Ok.                            *)
MarkCommitted ==
  /\ writer.by \in {"app", "bulk"} /\ writer.pc = "mark"
  /\ ident' = Marked(batch)
  /\ batch' = {}
  /\ writer' = [writer EXCEPT !.pc = "idle", !.seen = {}, !.pending = 0,
                              !.fresh = TRUE]
  /\ acked' = Intended
  /\ attempts' = {}
  /\ UNCHANGED <<disk, eng, reg, reader, bounds, faults>>

-----------------------------------------------------------------------------
(* Partitioned::forget_before.                                             *)

(* period_of: [start, end) of a partition.                                 *)
PeriodEnd(c) == (c + 1) * PeriodLen
(* The known partitions whose whole period precedes the cutoff.            *)
Expired(cutoff) ==
  {c \in eng.colls \cap reg.shapes : PeriodEnd(c) <= cutoff}

(* Everything the engine has changed since the last commit.                *)
Dirty == eng # disk

(* Tombstone every member of the partitions that end at or before the      *)
(* cutoff; then commit.  The members are those of the last commit.         *)
ForgetBefore ==
  /\ Acquire
  /\ \E cutoff \in Times :
       LET gone == Expired(cutoff)
           vs == UNION {MemberVectors(eng, c) : c \in gone}
           fs == UNION {MemberFrames(eng, c) : c \in gone}
           e  == DeleteVectors(eng, vs)
       IN  /\ gone # {}
           /\ eng' = [e EXCEPT !.frames = [f \in DOMAIN @ |->
                IF f \in fs THEN [@[f] EXCEPT !.active = FALSE] ELSE @[f]]]
           /\ writer' = [WriterCore("forget") EXCEPT !.expired = gone]
           /\ faults' = faults \cup
                (IF \E f \in ActiveFrames(eng) :
                      /\ eng.frames[f].kind = "record"
                      /\ eng.frames[f].coll \in gone
                      /\ ~eng.frames[f].stored
                 THEN {"forget"} ELSE {})
  /\ UNCHANGED <<disk, reg, ident, batch, reader, puts, failures,
                 acked, attempts>>

(* Its commit returned Ok: mark the batch, then remove_collection.         *)
ForgetRemove ==
  /\ writer.by = "forget" /\ writer.pc = "mark"
  /\ ident' = [s \in Slots |->
                 IF s[1] \in writer.expired THEN NoEntry ELSE Marked(batch)[s]]
  /\ batch' = {}
  /\ writer' = NoWriter
  /\ acked' = Intended
  /\ attempts' = {}
  /\ UNCHANGED <<disk, eng, reg, reader, bounds, faults>>

-----------------------------------------------------------------------------
(* Store::compact.                                                         *)

(* Mutant of CompactionSource: only the records are copied.                *)
CompactionSourceRecords(e) ==
  {f \in ActiveFrames(e) : e.frames[f].kind = "record"}
CompactionSource(e) == ActiveFrames(e)

(* build_compacted_file: the active frames in id order, renumbered, then   *)
(* the active vectors of live owners, in the same spaces.  A frame that is *)
(* still pending has no uri and no payload to copy: it arrives keyless.    *)
Compacted(e) ==
  LET live == CompactionSource(e)
      vs == {v \in ActiveVectors(e) : e.vectors[v].owner \in live}
      Copy(fr) == IF fr.stored THEN fr ELSE [fr EXCEPT !.kind = "keyless"]
  IN  [e EXCEPT
         !.frames = [n \in 1..Cardinality(live) |-> Copy(e.frames[Nth(live, n)])],
         !.vectors = [n \in 1..Cardinality(vs) |->
            [e.vectors[Nth(vs, n)] EXCEPT !.owner = Rank(live, @)]]]

(* No-op when nothing is tombstoned; Err when an active vector is pending, *)
(* because read_vector refuses it.                                         *)
CompactBuild ==
  /\ Acquire
  /\ \/ ActiveFrames(eng) # DOMAIN eng.frames
     \/ ActiveVectors(eng) # DOMAIN eng.vectors
  /\ \A v \in ActiveVectors(eng) : eng.vectors[v].stored
  /\ writer' = [by |-> "compact", pc |-> "rename", source |-> eng,
                temp |-> Image(Compacted(eng))]
  /\ faults' = faults \cup (IF Dirty THEN {"compact"} ELSE {})
  /\ UNCHANGED <<disk, published, reader, puts, failures, acked,
                 attempts>>

(* rename(temp, path) and the directory fsync.                             *)
CompactRename ==
  /\ writer.by = "compact" /\ writer.pc = "rename"
  /\ disk' = writer.temp
  /\ writer' = [writer EXCEPT !.pc = "publish"]
  /\ UNCHANGED <<published, reader, bounds, history>>

(* Mutant of Pinned: a get loads the published triple a second time.       *)
PinnedNot(r) == r
(* A reader that has loaded the published triple keeps its engine.         *)
Pinned(r) ==
  IF r.pc = "looked" /\ r.held = <<>> THEN [r EXCEPT !.held = <<eng>>] ELSE r

(* Open the new file, rebuild schema and identity, publish the triple.  A  *)
(* collection declared since CompactBuild went to the old file.            *)
CompactPublish ==
  /\ writer.by = "compact" /\ writer.pc = "publish"
  /\ eng' = disk
  /\ reg' = RebuiltSchema(disk)
  /\ ident' = RebuiltIdentity(disk)
  /\ batch' = {}
  /\ writer' = NoWriter
  /\ reader' = Pinned(reader)
  /\ faults' = faults \cup
       (IF eng # writer.source THEN {"compact"} ELSE {})
  /\ UNCHANGED <<disk, bounds, acked, attempts>>

-----------------------------------------------------------------------------
(* Reader::get, and the process.                                           *)

(* The identity entry is read under its lock, the engine later under its   *)
(* own.  `held' is the published triple's engine once it is a former one.  *)
GetLookup ==
  /\ reader.pc = "idle"
  /\ \E s \in Slots :
       /\ s[1] \in reg.shapes
       /\ ident[s] # NoEntry
       /\ reader' = [pc |-> "looked", slot |-> s, entry |-> ident[s],
                     space |-> reg.space, held |-> <<>>]
  /\ UNCHANGED <<disk, published, writer, bounds, history>>

(* materialize: the payload of the frame, and read_vector of each vector   *)
(* of the entry in the field's space; Err for one pending or tombstoned.   *)
ReaderEngine == IF reader.held = <<>> THEN eng ELSE reader.held[1]
ReaderVectors ==
  {v \in reader.entry.vectors : ReaderEngine.vectors[v].space = reader.space}
MaterializeOk ==
  /\ reader.entry.frame \in DOMAIN ReaderEngine.frames
  /\ reader.entry.vectors \subseteq DOMAIN ReaderEngine.vectors
  /\ \A v \in ReaderVectors : /\ ReaderEngine.vectors[v].active
                              /\ ReaderEngine.vectors[v].stored

GetMaterialize ==
  /\ reader.pc = "looked"
  /\ reader' = IdleReader
  /\ UNCHANGED <<disk, published, writer, bounds, history>>

(* The process ends at any point; Store::open rebuilds from the file.      *)
Reopen ==
  /\ failures < MaxFailures
  /\ failures' = failures + 1
  /\ eng' = disk
  /\ reg' = RebuiltSchema(disk)
  /\ ident' = RebuiltIdentity(disk)
  /\ batch' = {}
  /\ writer' = NoWriter
  /\ reader' = IdleReader
  /\ acked' = View(disk, RebuiltIdentity(disk))
  /\ attempts' = {}
  /\ UNCHANGED <<disk, puts, sessions, faults>>

Next ==
  \/ OpenWriter \/ StartBulk \/ DropWriter \/ PutInto \/ PutIntoErr \/ Delete \/ Declare
  \/ FlushDeferred \/ FlushDeferredErr
  \/ EngineCommit \/ CommitRefused \/ CommitErr \/ MarkCommitted
  \/ ForgetBefore \/ ForgetRemove
  \/ CompactBuild \/ CompactRename \/ CompactPublish
  \/ GetLookup \/ GetMaterialize
  \/ Reopen

Spec == Init /\ [][Next]_vars

-----------------------------------------------------------------------------
(* Properties.                                                             *)

EntryType ==
  [frame : Nat, vectors : SUBSET (Nat \ {0}), committed : BOOLEAN]

(* Every variable has the shape the code's types give it.                  *)
TypeOK ==
  /\ \A e \in {disk, eng} :
       /\ DOMAIN e = {"frames", "vectors", "spaces", "colls"}
       /\ e.colls \subseteq Colls /\ e.spaces \in Nat
       /\ \A v \in DOMAIN e.vectors :
            /\ e.vectors[v].owner \in DOMAIN e.frames
            /\ e.vectors[v].space \in 1..e.spaces
  /\ reg \in [shapes : SUBSET Colls, space : 0..eng.spaces]
  /\ ident \in [Slots -> EntryType]
  /\ \A s \in Slots : /\ ident[s].frame \in {0} \cup DOMAIN eng.frames
                      /\ ident[s].vectors \subseteq DOMAIN eng.vectors
  /\ batch \subseteq Slots
  /\ writer.by \in {"none", "app", "bulk", "forget", "compact"}
  /\ reader.pc \in {"idle", "looked"}
  /\ faults \subseteq {"orphan", "vectors", "forget", "compact"}

(* The identity index and the catalog tell the same story: a key has       *)
(* exactly one active frame, the one its entry names (put tombstones the   *)
(* prior version, delete the only one, rebuild and compaction keep it so). *)
(* Not so once a put has failed half way, or a forget ran over a batch     *)
(* that some dropped writer had left uncommitted: that puts or leaves a    *)
(* frame beside the entry.                                                 *)
OneVersion ==
  faults \cap {"orphan", "forget"} = {} =>
    \A s \in Slots :
      (writer.by = "forget" => s[1] \notin writer.expired) =>
        {f \in ActiveFrames(eng) :
           /\ eng.frames[f].kind = "record"
           /\ <<eng.frames[f].coll, eng.frames[f].key>> = s}
          = {ident[s].frame} \ {0}

(* Store::open finds the records of the last acknowledged commit, each     *)
(* with its value, and nothing else: no lost update, no record that was    *)
(* deleted or forgotten comes back, and compaction keeps all of them.  The *)
(* only other possibility is the complete batch of a commit that has not   *)
(* returned, or returned Err.                                              *)
AckedSurvive ==
  faults \cap {"orphan", "forget", "compact"} = {} =>
    DiskView \in {acked} \cup attempts

(* On disk a record put with a vector has exactly that vector, a record    *)
(* put without has none, and no active vector belongs to a dead record:    *)
(* deferred calibration attaches each vector to the frame that put it, and *)
(* update, delete and forget take the vectors along.  (A writer dropped    *)
(* before its first commit loses the deferred vectors of its records.)     *)
VectorsFollow ==
  faults = {} =>
    \A f \in DOMAIN disk.frames :
      {disk.vectors[v].val :
         v \in {w \in ActiveVectors(disk) : disk.vectors[w].owner = f}}
        = IF disk.frames[f].active /\ disk.frames[f].vec
          THEN {disk.frames[f].val} ELSE {}

(* Reader::get returns the fields of one put of the key it was asked for,  *)
(* whatever update, delete, commit or compaction runs between its lookup   *)
(* in the identity index and its reads from the engine: at every such      *)
(* point materialize would find them, or return Err.  The exceptions are   *)
(* those of OneVersion: where two frames of a key are active, a rebuild    *)
(* gives the entry the vectors of both.                                    *)
ReadOnePut ==
  /\ faults \cap {"orphan", "forget"} = {}
  /\ reader.pc = "looked"
  /\ MaterializeOk
  =>
    LET fr == ReaderEngine.frames[reader.entry.frame] IN
    /\ <<fr.coll, fr.key>> = reader.slot
    /\ {ReaderEngine.vectors[v].val : v \in ReaderVectors} \subseteq {fr.val}

(* committed_keys never surfaces a record that a crash would erase.        *)
(* forget_before is the exception: it drops its entries behind the commit. *)
KeysDurable ==
  "forget" \notin faults =>
    \A s \in Slots :
      /\ ident[s].committed
      /\ writer.by = "forget" => s[1] \notin writer.expired
      => KeyedFrames(disk, s) # {}

(* The vectors a writer holds back for calibration always belong to active *)
(* frames; put_vector would refuse one that does not, and with it every    *)
(* later commit of this writer.                                            *)
StagedOwnersLive ==
  writer.by \in {"app", "bulk"} =>
    \A i \in DOMAIN writer.staged :
      writer.staged[i].owner \in ActiveFrames(eng)

(* Bulk never runs into the rule that a key whose vectors are uncommitted  *)
(* cannot be put again: a key it has not seen since its last flush has no  *)
(* uncommitted vectors, if none were left over when it took the writer.    *)
BulkAccepts ==
  writer.by = "bulk" /\ writer.pc = "idle" /\ writer.fresh =>
    \A s \in Slots \ writer.seen : ~Rejected(ident[s])

(* Within a process no collection loses its shape: compaction rebuilds the *)
(* registry from the copied schema documents, and finds all of them.       *)
ShapesStay ==
  [][~Reopen /\ "compact" \notin faults' =>
       reg.shapes \subseteq reg'.shapes]_vars

(* What src/src/db/compact.rs:4 says of compaction: it reclaims tombstoned *)
(* bytes by streaming the live set into a fresh file.  So a key with a     *)
(* value acknowledged by commit() still has one afterwards, unless a       *)
(* commit has been asked to take it away.                                  *)
CompactKeepsRecords ==
  \A s \in Slots :
    acked[s] # 0 /\ (\A a \in attempts : a[s] # 0) => DiskView[s] # 0

=============================================================================
