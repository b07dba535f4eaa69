----------------------------- MODULE CommitFile -----------------------------
(***************************************************************************)
(* One ValiseFile handle, the file under it and the disk under that:       *)
(* staging, the three-write commit of src/src/file/commit.rs, its fsync    *)
(* and publish, process death and power loss at every point, and the       *)
(* header -> footer -> scan-back recovery of src/src/file/lifecycle.rs.    *)
(*                                                                         *)
(* The file is a sequence of chunks, and a byte offset is an index in it:  *)
(*   data    a payload segment;                                            *)
(*   roots   the catalog, text-index, filter, time-index and registry      *)
(*           segments of one commit;                                       *)
(*   footer  a TOC footer: what it labels and what it refers to;           *)
(*   junk    bytes no checksum accepts (a torn write, a lost page).        *)
(* `synced' are the chunks that survive a power loss, `images' the header  *)
(* prefixes the disk may hold since the last fsync.                        *)
(***************************************************************************)
EXTENDS Integers, Sequences

(* A setting: Durability::Buffered or FullSync; whether unsynced pages     *)
(* reach the disk in any order and the 120-byte header prefix may tear, or *)
(* all is written in order and whole; whether a process may die inside     *)
(* commit(), between its header write and the fsync; and the bounds on     *)
(* frames put, commits that start writing, I/O errors, and process deaths  *)
(* and power losses.                                                       *)
CONSTANT Settings

Setting == [buffered : BOOLEAN, reorder : BOOLEAN, midcommit : BOOLEAN,
            puts : Nat, commits : Nat, errors : Nat, stops : Nat]

ASSUME CommitFileAssumption == Settings \subseteq Setting

VARIABLES
  file, synced,    \* chunks in the page cache, indexes on disk
  header, images,  \* header prefix in the page cache, on the disk
  handle,          \* "open", "closed", or "failed": open() returned Err
  mem,             \* the handle's memory
  phase,           \* "idle", "fsync" or "publish": inside commit()
  acked,           \* items whose commit returned Ok
  committed, attempts,              \* history, see SnapshotStore
  puts, commits, errors, stops,     \* counters for the bounds
  mode                              \* the setting, which never changes

vars == <<file, synced, header, images, handle, mem, phase, acked,
          committed, attempts, puts, commits, errors, stops, mode>>
disk == <<file, synced, header, images>>
history == <<acked, committed, attempts>>

Items == UNION {1..s.puts : s \in Settings}

Data  == [kind |-> "data"]
Roots == [kind |-> "roots"]
Junk  == [kind |-> "junk"]

(* TocFooterBody: generation, the frames of the snapshot, the text-indexed *)
(* frames, the segments its root chains reach, and <<frame, segment>> for  *)
(* every payload reference.                                                *)
Footer(gen, items, text, roots, payload) ==
  [kind |-> "footer", gen |-> gen, items |-> items, text |-> text,
   roots |-> roots, payload |-> payload]

(* ValiseFile right after open() or create(): everything comes from the    *)
(* footer at index off, and the in-memory header is made to agree with it. *)
Loaded(f, off) ==
  [off |-> off, gen |-> f[off].gen,      \* self.header
   footer |-> f[off],                    \* self.footer
   items |-> f[off].items,               \* self.catalog
   payload |-> f[off].payload,           \* payload_ref of each frame
   pending |-> {},                       \* pending_payload_frames
   text |-> {},                          \* pending_text_indexes
   staged |-> {},                        \* frames put since the last publish
   dirty |-> FALSE]

NotLoaded == [dirty |-> FALSE, items |-> {}]

(* create_with_options: an empty snapshot of generation 1, fully synced.   *)
Init ==
  /\ mode \in Settings
  /\ file = <<Footer(1, {}, {}, {}, {})>>
  /\ synced = {1}
  /\ header = [off |-> 1, gen |-> 1]
  /\ images = {header}
  /\ handle = "open"
  /\ mem = Loaded(file, 1)
  /\ phase = "idle"
  /\ acked = {} /\ committed = {} /\ attempts = {}
  /\ puts = 0 /\ commits = 0 /\ errors = 0 /\ stops = 0

-----------------------------------------------------------------------------
(* Staging.                                                                *)

Idle == handle = "open" /\ phase = "idle"

(* flush_pending_payloads of a handle with memory m: one data segment for  *)
(* the batch, at EOF, index Len(f) + 1; the frames get their payload_ref.  *)
FlushedFile(f, m) == IF m.pending = {} THEN f ELSE Append(f, Data)
FlushedMem(f, m) ==
  [m EXCEPT !.pending = {}, !.payload = @ \cup (m.pending \X {Len(f) + 1})]
(* sync_file(self.durability) inside it covers the whole file so far.      *)
FlushSyncs == mem.pending # {} /\ ~mode.buffered

(* Frame i enters the catalog and the payload batch, in memory.            *)
InCatalog(i) ==
  [mem EXCEPT !.items = @ \cup {i}, !.pending = @ \cup {i}, !.dirty = TRUE]
(* index_frame_text accepts it for the next commit.                        *)
Indexed(m, i) ==
  [m EXCEPT !.text = @ \cup {i}, !.staged = @ \cup {i}]

(* Mutant of PutFrame: staging forgets to mark the handle dirty.           *)
PutFrameNotDirty ==
  /\ Idle
  /\ puts < mode.puts
  /\ puts' = puts + 1
  /\ mem' = [Indexed(InCatalog(puts'), puts') EXCEPT !.dirty = mem.dirty]
  /\ UNCHANGED <<disk, handle, phase, history, commits, errors, stops, mode>>

(* put_frame and index_frame_text.  A batch that reaches                   *)
(* PAYLOAD_BATCH_FLUSH_BYTES is written before put_frame returns.          *)
PutFrame ==
  /\ Idle
  /\ puts < mode.puts
  /\ puts' = puts + 1
  /\ LET m == InCatalog(puts') IN
       \/ /\ mem' = Indexed(m, puts')
          /\ UNCHANGED disk
       \/ /\ mem' = Indexed(FlushedMem(file, m), puts')
          /\ file' = FlushedFile(file, m)
          /\ synced' = IF mode.buffered THEN synced ELSE DOMAIN file'
          /\ images' = IF mode.buffered THEN images ELSE {header}
          /\ UNCHANGED header
  /\ UNCHANGED <<handle, phase, history, commits, errors, stops, mode>>

(* That write fails: put_frame returns Err, but the frame is in the        *)
(* catalog and the next commit takes it along, without its text.           *)
PutFrameErr ==
  /\ Idle
  /\ puts < mode.puts
  /\ errors < mode.errors
  /\ puts' = puts + 1
  /\ errors' = errors + 1
  /\ mem' = InCatalog(puts')
  /\ file' = Append(file, Junk)
  /\ UNCHANGED <<synced, header, images, handle, phase, history, commits,
                 stops, mode>>

(* flush(): under Buffered one fsync of what is in the page cache.  It     *)
(* leaves the pending batches in memory; under FullSync it does nothing.   *)
Flush ==
  /\ Idle
  /\ mode.buffered
  /\ synced' = DOMAIN file
  /\ images' = {header}
  /\ UNCHANGED <<file, header, handle, mem, phase, history, puts, commits,
                 errors, stops, mode>>

-----------------------------------------------------------------------------
(* commit_phase_writes: payloads, then text and catalogs, then the footer, *)
(* then the header.  A step that fails returns Err at once: the chunks     *)
(* before it stay in the file, and so does what it did to the memory.      *)

(* commit() returns Ok with the handle's memory m.                         *)
Acknowledge(m) ==
  /\ mem' = [m EXCEPT !.staged = {}]
  /\ acked' = acked \cup m.staged
  /\ committed' = m.items
  /\ attempts' = {}

StartCommit ==
  /\ Idle
  /\ mem.dirty
  /\ commits < mode.commits
  /\ commits' = commits + 1

(* commit() of a clean handle writes nothing and returns Ok: whatever the  *)
(* caller had staged counts as committed.                                  *)
CommitNoOp ==
  /\ Idle
  /\ ~mem.dirty
  /\ IF mem.staged = {} THEN UNCHANGED <<mem, history>> ELSE Acknowledge(mem)
  /\ UNCHANGED <<disk, handle, phase, puts, commits, errors, stops, mode>>

(* Mutant of NewFooter: the text roots start afresh at every commit.       *)
NewFooterFreshText(flushed, at) ==
  Footer(mem.gen + 1, mem.items, mem.text, mem.footer.roots \cup {at},
         flushed.payload)

(* Mutant of NewFooter: the catalog delta leaves out a frame whose put     *)
(* returned an error.                                                      *)
NewFooterStagedOnly(flushed, at) ==
  Footer(mem.gen + 1, mem.footer.items \cup mem.staged,
         mem.footer.text \cup mem.text, mem.footer.roots \cup {at},
         flushed.payload)

(* The footer is built from self.footer.body, the last published one: its  *)
(* root chains are extended by this commit's segments.                     *)
NewFooter(flushed, at) ==
  Footer(mem.gen + 1, mem.items, mem.footer.text \cup mem.text,
         mem.footer.roots \cup {at}, flushed.payload)

CommitWrites ==
  /\ StartCommit
  /\ LET f1 == FlushedFile(file, mem)
         m1 == FlushedMem(file, mem)
         f2 == f1 \o <<Roots, NewFooter(m1, Len(f1) + 1)>>
         h  == [off |-> Len(f2), gen |-> mem.gen + 1]
     IN  /\ file' = f2
         /\ header' = h
         /\ synced' = IF FlushSyncs THEN synced \cup DOMAIN f1 ELSE synced
         /\ images' = (IF FlushSyncs THEN {header} ELSE images) \cup {h}
         /\ mem' = [m1 EXCEPT !.off = h.off, !.gen = h.gen, !.text = {}]
  /\ phase' = "fsync"
  /\ attempts' = attempts \cup {mem.items}
  /\ UNCHANGED <<handle, acked, committed, puts, errors, stops, mode>>

(* Mutant of FailPayload: the batch is taken before the append succeeds.   *)
FailPayloadTaken ==
  /\ file' = Append(file, Junk)
  /\ mem' = FlushedMem(file, mem)
  /\ UNCHANGED <<synced, images, attempts>>

(* The payload segment cannot be written: nothing else has happened.       *)
FailPayload ==
  /\ file' = Append(file, Junk)
  /\ UNCHANGED <<synced, images, mem, attempts>>

(* A text or catalog segment cannot be written.  The pending text index    *)
(* was already taken out of the map.                                       *)
FailRoots ==
  /\ file' = Append(FlushedFile(file, mem), Junk)
  /\ mem' = [FlushedMem(file, mem) EXCEPT !.text = {}]
  /\ synced' = IF FlushSyncs THEN 1..(Len(file') - 1) ELSE synced
  /\ images' = IF FlushSyncs THEN {header} ELSE images
  /\ UNCHANGED attempts

(* The footer is in the file, but coord_publish or the header write fails; *)
(* self.header has been advanced before them.                              *)
FailHeader ==
  LET f1 == FlushedFile(file, mem)
      m1 == FlushedMem(file, mem)
  IN  /\ file' = f1 \o <<Roots, NewFooter(m1, Len(f1) + 1)>>
      /\ mem' = [m1 EXCEPT !.off = Len(file'), !.gen = mem.gen + 1,
                           !.text = {}]
      /\ synced' = IF FlushSyncs THEN synced \cup DOMAIN f1 ELSE synced
      /\ images' = IF FlushSyncs THEN {header} ELSE images
      /\ attempts' = attempts \cup {mem.items}

CommitFails ==
  /\ StartCommit
  /\ errors < mode.errors
  /\ errors' = errors + 1
  /\ FailPayload \/ FailRoots \/ FailHeader
  /\ UNCHANGED <<header, handle, phase, acked, committed, puts, stops, mode>>

(* Mutant of FsyncOk: the barrier leaves the payload segments out.         *)
FsyncOkWithoutData ==
  /\ phase = "fsync"
  /\ synced' = synced \cup {i \in DOMAIN file : file[i] # Data}
  /\ images' = {header}
  /\ phase' = "publish"
  /\ UNCHANGED <<file, header, handle, mem, history, puts, commits, errors,
                 stops, mode>>

(* The single barrier: every byte written so far reaches the disk.         *)
FsyncOk ==
  /\ phase = "fsync"
  /\ synced' = DOMAIN file
  /\ images' = {header}
  /\ phase' = "publish"
  /\ UNCHANGED <<file, header, handle, mem, history, puts, commits, errors,
                 stops, mode>>

(* commit() returns Err; dirty is still set, self.header stays advanced.   *)
FsyncErr ==
  /\ phase = "fsync"
  /\ errors < mode.errors
  /\ errors' = errors + 1
  /\ phase' = "idle"
  /\ UNCHANGED <<disk, handle, mem, history, puts, commits, stops, mode>>

(* commit_phase_publish first adopts the footer and clears the dirty sets. *)
Adopted == [mem EXCEPT !.footer = file[mem.off], !.dirty = FALSE]

Publish ==
  /\ phase = "publish"
  /\ Acknowledge(Adopted)
  /\ phase' = "idle"
  /\ UNCHANGED <<disk, handle, puts, commits, errors, stops, mode>>

(* The remap or the vector base behind it fails: commit() returns Err, but *)
(* the commit is on disk and the handle is clean.                          *)
PublishErr ==
  /\ phase = "publish"
  /\ errors < mode.errors
  /\ errors' = errors + 1
  /\ mem' = Adopted
  /\ phase' = "idle"
  /\ UNCHANGED <<disk, handle, history, puts, commits, stops, mode>>

-----------------------------------------------------------------------------
(* Failures.                                                               *)

Stop ==
  /\ handle = "open"
  /\ stops < mode.stops
  /\ stops' = stops + 1
  /\ handle' = "closed"
  /\ mem' = NotLoaded
  /\ phase' = "idle"
  /\ UNCHANGED <<history, puts, commits, errors, mode>>

(* The process ends, in the middle of anything; the page cache stays.      *)
Die ==
  /\ phase = "fsync" => mode.midcommit
  /\ Stop
  /\ UNCHANGED disk

(* Power loss.  Chunks that were not synced survive or turn to junk, the   *)
(* file ends somewhere behind the last synced chunk, and the header is one *)
(* of its images, or, torn, the offset of one and the generation of        *)
(* another.  In write order, a chunk or a header image is on the disk only *)
(* if everything written before it is; off is the length the file had when *)
(* the image was written.                                                  *)
LoseUnordered ==
  \E n \in DOMAIN file :
    \E kept \in SUBSET ((1..n) \ synced) :
      /\ synced \subseteq 1..n
      /\ file' = [i \in 1..n |->
                    IF i \in synced \cup kept THEN file[i] ELSE Junk]
      /\ synced' = 1..n
      /\ \E a, b \in images : header' = [off |-> a.off, gen |-> b.gen]

LoseSuffix ==
  \E n \in DOMAIN file :
    /\ synced \subseteq 1..n
    /\ file' = SubSeq(file, 1, n)
    /\ synced' = 1..n
    /\ header' \in {h \in images : /\ h.off <= n
                                   /\ \A g \in images : g.off < n
                                                        => g.off <= h.off}

PowerLoss ==
  /\ Stop
  /\ IF mode.reorder THEN LoseUnordered ELSE LoseSuffix
  /\ images' = {header'}

-----------------------------------------------------------------------------
(* open(): resolve_footer_state and recover_via_scan.                      *)

(* read_toc_footer: the double checksum accepts only a whole footer.       *)
IsFooter(off) == off \in DOMAIN file /\ file[off].kind = "footer"

(* load_open_state: every root segment the footer reaches decodes.  The    *)
(* payload segments are not read here.                                     *)
Loads(off) == IsFooter(off) /\ \A r \in file[off].roots : file[r] = Roots

(* The header's footer is used when its generation label agrees with it.   *)
HeaderUsable == Loads(header.off) /\ file[header.off].gen = header.gen

(* Mutant of Newest: a tie goes to the copy appended first.                *)
NewestFirstOnTie(candidates) ==
  CHOOSE o \in candidates : \A p \in candidates :
    \/ file[p].gen < file[o].gen
    \/ file[p].gen = file[o].gen /\ o <= p

(* Highest generation; on a tie the copy appended later.                   *)
Newest(candidates) ==
  CHOOSE o \in candidates : \A p \in candidates :
    \/ file[p].gen < file[o].gen
    \/ file[p].gen = file[o].gen /\ p <= o

(* Mutant of ScanCandidates: the roots of a candidate are not loaded       *)
(* before it is chosen, and a bad one fails the open.                      *)
ScanCandidatesUnchecked ==
  LET top == Newest({o \in DOMAIN file : IsFooter(o)})
  IN  IF Loads(top) THEN {top} ELSE {}

(* The scan tries the footers it finds, best first, until one loads.       *)
ScanCandidates == {o \in DOMAIN file : Loads(o)}

Open ==
  /\ handle = "closed"
  /\ IF HeaderUsable
       THEN handle' = "open" /\ mem' = Loaded(file, header.off)
     ELSE IF ScanCandidates # {}
       THEN handle' = "open" /\ mem' = Loaded(file, Newest(ScanCandidates))
     ELSE handle' = "failed" /\ mem' = NotLoaded
  /\ UNCHANGED <<disk, phase, history, puts, commits, errors, stops, mode>>

Next ==
  \/ PutFrame \/ PutFrameErr \/ Flush
  \/ CommitNoOp \/ CommitWrites \/ CommitFails \/ FsyncOk \/ FsyncErr
  \/ Publish \/ PublishErr
  \/ Die \/ PowerLoss \/ Open

Spec == Init /\ [][Next]_vars

-----------------------------------------------------------------------------
(* The types of the file, the disk and the handle; a pending payload batch *)
(* keeps the handle dirty, so that the next commit() does not take its     *)
(* early return.                                                           *)
TypeOK ==
  /\ \A i \in DOMAIN file :
       file[i].kind \in {"data", "roots", "junk", "footer"}
  /\ synced \subseteq DOMAIN file
  /\ header \in [off : Nat, gen : Nat] /\ header \in images
  /\ handle \in {"open", "closed", "failed"}
  /\ phase \in {"idle", "fsync", "publish"}
  /\ acked \subseteq Items /\ committed \subseteq Items
  /\ handle = "open" => /\ mem.items \subseteq Items
                        /\ mem.pending \subseteq mem.items
                        /\ mem.pending # {} => mem.dirty

(* lifecycle.rs: "any file that ever committed successfully has at least   *)
(* one recoverable snapshot".  However the crashes fall, open() finds one. *)
OpenSucceeds == handle # "failed"

(* The acknowledged commit survives: whatever is open holds every frame    *)
(* whose commit returned Ok, in this process or in one before it.          *)
AckedSurvive == handle = "open" => acked \subseteq mem.items

(* An acknowledged frame that is there can be read: its payload segment is *)
(* the one that was written for it, not a page the power loss took.        *)
AckedReadable ==
  handle = "open" =>
    \A i \in acked \cap mem.items :
      \E p \in mem.payload : p[1] = i /\ file[p[2]] = Data

(* With write-ordered storage a snapshot is served whole or not at all:    *)
(* every payload it refers to, acknowledged or not, is in the file.        *)
RecoveredReadable ==
  handle = "open" /\ ~mode.reorder => \A p \in mem.payload : file[p[2]] = Data

(* A commit that returned Ok has text-indexed every frame staged for it.   *)
AckedIndexed ==
  handle = "open" => acked \cap mem.footer.items \subseteq mem.footer.text

(* As long as no I/O error has been reported, whatever crashes and         *)
(* recoveries there were, every frame of an acknowledged commit is         *)
(* text-indexed by the footer that is served (commit_phase_writes extends  *)
(* the text chain of the last published footer).                           *)
IndexedUntilError == errors = 0 => AckedIndexed

Store == INSTANCE SnapshotStore WITH
  view <- mem.items, opened <- handle = "open"

(* The commit protocol with its crashes and errors implements the atomic   *)
(* store: what open() recovers is the snapshot of the last commit that     *)
(* returned Ok, or whole one that a commit tried to put in place since.    *)
StoreSpec == Store!Spec

=============================================================================
