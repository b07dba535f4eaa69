-------------------------- MODULE CommitFile_proof --------------------------
(***************************************************************************)
(* Proofs about CommitFile for any settings: any number of puts, commits,  *)
(* I/O errors and crashes, any write order.  The types, that open() always *)
(* finds a snapshot, that acknowledged frames stay readable, that ordered  *)
(* storage serves whole snapshots, and that text is indexed until an error *)
(* is reported; then what survives, and that CommitFile implements         *)
(* SnapshotStore.                                                          *)
(***************************************************************************)
EXTENDS CommitFile, WellFoundedInduction, TLAPS

FooterChunk ==
  [kind : {"footer"}, gen : Nat, items : SUBSET Nat, text : SUBSET Nat,
   roots : SUBSET Nat, payload : SUBSET (Nat \X Nat)]
Chunk == {Data, Roots, Junk} \cup FooterChunk
Memory ==
  [off : Nat, gen : Nat, footer : FooterChunk, items : SUBSET Nat,
   payload : SUBSET (Nat \X Nat), pending : SUBSET Nat, text : SUBSET Nat,
   staged : SUBSET Nat, dirty : BOOLEAN]

(***************************************************************************)
(* The inductive invariant.                                                *)
(***************************************************************************)
Types ==
  /\ mode \in Settings
  /\ file \in Seq(Chunk)
  /\ puts \in 0..mode.puts
  /\ errors \in 0..mode.errors
  /\ header \in images /\ images \subseteq [off : Nat, gen : Nat]
  /\ handle \in {"open", "closed", "failed"}
  /\ phase \in {"idle", "fsync", "publish"}
  /\ acked \subseteq 1..puts /\ committed \subseteq 1..puts
  /\ handle = "open" => mem \in Memory
  /\ handle # "open" => phase = "idle"

(* The footer create() wrote and synced is never lost.                     *)
FirstFooter ==
  /\ synced \subseteq DOMAIN file
  /\ 1 \in synced
  /\ file[1] = Footer(1, {}, {}, {}, {})

(* A footer refers to chunks before it, and to one for each of its frames. *)
FooterOK(o) ==
  /\ file[o].items \subseteq 1..puts
  /\ file[o].gen <= o
  /\ \A r \in file[o].roots : 1 <= r /\ r < o
  /\ \A p \in file[o].payload : p[1] \in 1..puts /\ 1 <= p[2] /\ p[2] < o
  /\ \A i \in file[o].items : \E p \in file[o].payload : p[1] = i

FootersOK == \A o \in DOMAIN file : IsFooter(o) => FooterOK(o)

(* The handle's memory: a loadable footer under it, frames that are        *)
(* written or pending, and root segments that are in the file.             *)
MemoryOK ==
  handle = "open" =>
    /\ Loads(mem.off) /\ file[mem.off].gen = mem.gen
    /\ mem.items \subseteq 1..puts
    /\ mem.pending \subseteq mem.items /\ mem.staged \subseteq mem.items
    /\ mem.pending # {} => mem.dirty
    /\ \A r \in mem.footer.roots : r \in DOMAIN file /\ file[r] = Roots
    /\ \A p \in mem.payload : p[1] \in 1..puts /\ p[2] \in DOMAIN file
    /\ \A i \in mem.items \ mem.pending : \E p \in mem.payload : p[1] = i

(* Inside commit() the header names the footer of what is in memory.       *)
Committing ==
  phase # "idle" =>
    /\ mem.pending = {}
    /\ phase = "fsync" => mem.dirty
    /\ header = [off |-> mem.off, gen |-> mem.gen]
    /\ file[mem.off].items = mem.items
    /\ mem.items \in attempts

(* After the barrier, and as long as a publish that failed leaves frames   *)
(* unacknowledged in a clean handle, what is in memory is all on disk.     *)
Unacknowledged ==
  handle = "open" /\ (\/ phase = "publish"
                      \/ phase = "idle" /\ ~mem.dirty /\ mem.staged # {})
Covered ==
  Unacknowledged =>
    /\ mem.pending = {}
    /\ synced = DOMAIN file
    /\ images = {header}
    /\ header = [off |-> mem.off, gen |-> mem.gen]
    /\ file[mem.off].items = mem.items
    /\ mem.items \in attempts

Shape ==
  Types /\ FirstFooter /\ FootersOK /\ MemoryOK /\ Committing /\ Covered

(* p is a payload reference of a footer in the file or of the memory.      *)
Refers(p) ==
  \/ \E o \in DOMAIN file : IsFooter(o) /\ p \in file[o].payload
  \/ handle = "open" /\ p \in mem.payload

(* A frame is written once, wherever it is referred to; so the segment     *)
(* that the fsync of its commit put on disk is the one everybody reads.    *)
OneRef ==
  \A p, q \in Nat \X Nat : Refers(p) /\ Refers(q) /\ p[1] = q[1] => p[2] = q[2]
PendingUnwritten ==
  handle = "open" =>
    /\ \A p \in Nat \X Nat : Refers(p) => p[1] \notin mem.pending
    /\ acked \cap mem.pending = {}
StagedData ==
  handle = "open" => \A i \in mem.staged \ mem.pending :
                       \E p \in mem.payload : p[1] = i /\ file[p[2]] = Data
AckedData ==
  \A i \in acked : \E k \in synced :
    file[k] = Data /\ \A p \in Nat \X Nat : Refers(p) /\ p[1] = i => p[2] = k

Payloads == OneRef /\ PendingUnwritten /\ StagedData /\ AckedData

(* Until an error is reported, a footer indexes the text of all its        *)
(* frames, and the next one will.                                          *)
TextComplete ==
  errors = 0 =>
    /\ \A o \in DOMAIN file : IsFooter(o) => file[o].items \subseteq file[o].text
    /\ handle = "open" =>
         /\ mem.footer.items \subseteq mem.footer.text
         /\ phase = "idle" => mem.items \subseteq mem.footer.text \cup mem.text

(* On write-ordered storage a chunk is in the file only if all before it   *)
(* is: every footer is whole, and every header image names one.            *)
WholeFooter(o) ==
  /\ \A r \in file[o].roots : file[r] = Roots
  /\ \A p \in file[o].payload : file[p[2]] = Data
Whole ==
  ~mode.reorder =>
    /\ \A o \in DOMAIN file : IsFooter(o) => WholeFooter(o)
    /\ \A h \in images : IsFooter(h.off) /\ file[h.off].gen = h.gen
    /\ handle = "open" => \A p \in mem.payload : file[p[2]] = Data

-----------------------------------------------------------------------------
(* Lemmas about the operators.                                             *)

(* The kinds of chunk differ.                                              *)
LEMMA ChunkKinds ==
  /\ Data \in Chunk /\ Roots \in Chunk /\ Junk \in Chunk
  /\ Data.kind = "data" /\ Roots.kind = "roots" /\ Junk.kind = "junk"
  /\ \A c \in Chunk : c.kind \in {"data", "roots", "junk", "footer"}
  /\ \A c \in Chunk : c.kind = "footer" <=> c \in FooterChunk
BY DEF Chunk, Data, Roots, Junk, FooterChunk

(* g is f with chunks appended.                                            *)
Extends(f, g) == DOMAIN f \subseteq DOMAIN g /\ \A i \in DOMAIN f : g[i] = f[i]

(* Extending a file by one chunk.                                          *)
LEMMA AppendChunk ==
  ASSUME NEW f \in Seq(Chunk), NEW c \in Chunk
  PROVE  /\ Append(f, c) \in Seq(Chunk)
         /\ Len(Append(f, c)) = Len(f) + 1
         /\ DOMAIN Append(f, c) = 1..(Len(f) + 1)
         /\ Extends(f, Append(f, c))
         /\ Append(f, c)[Len(f) + 1] = c
BY DEF Extends

(* What flush_pending_payloads does to the file: a data segment, or        *)
(* nothing.                                                                *)
LEMMA FlushedFileFacts ==
  ASSUME NEW f \in Seq(Chunk), NEW m \in Memory
  PROVE  /\ FlushedFile(f, m) \in Seq(Chunk)
         /\ Extends(f, FlushedFile(f, m))
         /\ Len(FlushedFile(f, m)) \in {Len(f), Len(f) + 1}
         /\ \A i \in DOMAIN FlushedFile(f, m) \ DOMAIN f :
              i = Len(f) + 1 /\ FlushedFile(f, m)[i] = Data
         /\ m.pending # {} => Len(f) + 1 \in DOMAIN FlushedFile(f, m)
<1>1. CASE m.pending = {}
  BY <1>1 DEF FlushedFile, Extends
<1>2. CASE m.pending # {}
  BY <1>2, AppendChunk, ChunkKinds DEF FlushedFile
<1> QED BY <1>1, <1>2

(* What it does to the memory.                                             *)
LEMMA FlushedMemFacts ==
  ASSUME NEW f \in Seq(Chunk), NEW m \in Memory
  PROVE  LET n == FlushedMem(f, m) IN
         /\ n \in Memory
         /\ n.off = m.off /\ n.gen = m.gen /\ n.footer = m.footer
         /\ n.items = m.items /\ n.text = m.text /\ n.staged = m.staged
         /\ n.dirty = m.dirty /\ n.pending = {}
         /\ \A p : p \in n.payload <=>
                   \/ p \in m.payload
                   \/ p \in Nat \X Nat /\ p[1] \in m.pending /\ p[2] = Len(f) + 1
<1> DEFINE n == FlushedMem(f, m)
           P == m.payload \cup (m.pending \X {Len(f) + 1})
<1>1. Len(f) + 1 \in Nat
  OBVIOUS
<1>2. P \subseteq Nat \X Nat
  BY <1>1 DEF Memory
<1>3. n = [m EXCEPT !.pending = {}, !.payload = P]
  BY DEF FlushedMem, Memory
<1>4. \A p : p \in P <=> \/ p \in m.payload
                         \/ /\ p \in Nat \X Nat /\ p[1] \in m.pending
                            /\ p[2] = Len(f) + 1
  BY <1>1 DEF Memory
<1> HIDE DEF P
<1>5. n \in Memory /\ n.payload = P
  BY <1>2, <1>3 DEF Memory
<1>6. /\ n.off = m.off /\ n.gen = m.gen /\ n.footer = m.footer
      /\ n.items = m.items /\ n.text = m.text /\ n.staged = m.staged
      /\ n.dirty = m.dirty /\ n.pending = {}
  BY <1>3 DEF Memory
<1> QED BY <1>4, <1>5, <1>6

(* Staging frame i in memory.                                              *)
LEMMA InCatalogFacts ==
  ASSUME mem \in Memory, NEW i \in Nat
  PROVE  LET n == InCatalog(i) IN
         /\ n \in Memory
         /\ n.off = mem.off /\ n.gen = mem.gen /\ n.footer = mem.footer
         /\ n.items = mem.items \cup {i} /\ n.text = mem.text
         /\ n.staged = mem.staged /\ n.payload = mem.payload
         /\ n.dirty = TRUE /\ n.pending = mem.pending \cup {i}
BY DEF InCatalog, Memory

LEMMA IndexedFacts ==
  ASSUME NEW m \in Memory, NEW i \in Nat
  PROVE  LET n == Indexed(m, i) IN
         /\ n \in Memory
         /\ n.off = m.off /\ n.gen = m.gen /\ n.footer = m.footer
         /\ n.items = m.items /\ n.text = m.text \cup {i}
         /\ n.staged = m.staged \cup {i} /\ n.payload = m.payload
         /\ n.dirty = m.dirty /\ n.pending = m.pending
BY DEF Indexed, Memory

(* What open() puts in memory.                                             *)
LEMMA LoadedFacts ==
  ASSUME NEW f \in Seq(Chunk), NEW o \in DOMAIN f, f[o] \in FooterChunk
  PROVE  LET n == Loaded(f, o) IN
         /\ n \in Memory
         /\ n.off = o /\ n.gen = f[o].gen /\ n.footer = f[o]
         /\ n.items = f[o].items /\ n.payload = f[o].payload
         /\ n.pending = {} /\ n.text = {} /\ n.staged = {} /\ n.dirty = FALSE
BY DEF Loaded, Memory, FooterChunk

(* A footer a commit writes.                                               *)
LEMMA NewFooterFacts ==
  ASSUME mem \in Memory, NEW n \in Memory, NEW at \in Nat
  PROVE  LET f == NewFooter(n, at) IN
         /\ f \in FooterChunk /\ f \in Chunk /\ f.kind = "footer"
         /\ f.gen = mem.gen + 1 /\ f.items = mem.items
         /\ f.text = mem.footer.text \cup mem.text
         /\ f.roots = mem.footer.roots \cup {at}
         /\ f.payload = n.payload
BY DEF NewFooter, Footer, Memory, FooterChunk, Chunk
-----------------------------------------------------------------------------
(* The shape of the file and of the memory.                                *)

(* What is in a file stays as it is when the file grows.                   *)
LEMMA Grown ==
  ASSUME Types, FirstFooter, FootersOK, puts' \in Nat, puts <= puts',
         file' \in Seq(Chunk), Extends(file, file')
  PROVE  /\ DOMAIN file \subseteq DOMAIN file' /\ Len(file) <= Len(file')
         /\ \A i \in DOMAIN file : file'[i] = file[i]
         /\ \A o : IsFooter(o) => IsFooter(o)' /\ FooterOK(o)'
         /\ \A o : Loads(o) => Loads(o)'
         /\ file'[1] = Footer(1, {}, {}, {}, {})
<1>1. DOMAIN file \subseteq DOMAIN file' /\ \A i \in DOMAIN file : file'[i] = file[i]
  BY DEF Extends
<1>2. Len(file) <= Len(file')
  <2>1. DOMAIN file = 1..Len(file) /\ DOMAIN file' = 1..Len(file')
        /\ Len(file) \in Nat /\ Len(file') \in Nat
    BY DEF Types
  <2> QED BY <1>1, <2>1
<1>3. ASSUME NEW o, IsFooter(o) PROVE IsFooter(o)' /\ FooterOK(o)'
  <2>1. IsFooter(o)' /\ file'[o] = file[o] /\ FooterOK(o)
    BY <1>1, <1>3 DEF IsFooter, FootersOK
  <2>2. puts \in Nat
    BY CommitFileAssumption DEF Types, CommitFileAssumption, Setting
  <2>3. 1..puts \subseteq 1..puts'
    BY <2>2
  <2> QED BY <2>1, <2>3 DEF FooterOK
<1>4. file'[1] = Footer(1, {}, {}, {}, {})
  BY <1>1 DEF FirstFooter
<1>5. ASSUME NEW o, Loads(o) PROVE Loads(o)'
  <2>1. IsFooter(o) /\ IsFooter(o)' /\ file'[o] = file[o] /\ FooterOK(o)
    BY <1>1, <1>3, <1>5 DEF Loads, IsFooter, FootersOK
  <2>2. ASSUME NEW r \in file[o].roots PROVE file'[r] = Roots
    <3>1. o \in 1..Len(file) /\ r \in Nat /\ 1 <= r /\ r < o
      <4>1. file[o] \in FooterChunk
        BY <2>1, ChunkKinds DEF Types, IsFooter
      <4> QED BY <2>1, <4>1 DEF FooterChunk, FooterOK, IsFooter, Types
    <3>2. r \in DOMAIN file
      BY <3>1 DEF Types
    <3> QED BY <1>1, <1>5, <2>2, <3>2 DEF Loads
  <2> QED BY <2>1, <2>2 DEF Loads
<1> QED BY <1>1, <1>2, <1>3, <1>4, <1>5

(* Nothing but footers can disturb what is known of footers.               *)
LEMMA SameFooters ==
  ASSUME Types, file' \in Seq(Chunk), Extends(file, file'),
         \A i \in DOMAIN file' \ DOMAIN file : file'[i].kind # "footer"
  PROVE  \A o : /\ IsFooter(o)' <=> IsFooter(o)
                /\ IsFooter(o) => file'[o] = file[o] /\ o \in DOMAIN file
BY DEF Extends, IsFooter

(* The settings bound the counters.                                        *)
LEMMA Bounds ==
  ASSUME Types
  PROVE  /\ mode \in Setting /\ puts \in Nat /\ mode.puts \in Nat
         /\ errors \in Nat /\ mode.errors \in Nat
         /\ 1..puts \subseteq Items /\ Len(file) \in Nat
         /\ DOMAIN file = 1..Len(file)
<1>1. mode \in Setting /\ mode.puts \in Nat /\ mode.errors \in Nat
  BY CommitFileAssumption DEF Types, CommitFileAssumption, Setting
<1>2. puts \in Nat /\ puts <= mode.puts /\ errors \in Nat
  BY <1>1 DEF Types
<1>3. 1..puts \subseteq 1..mode.puts
  BY <1>1, <1>2
<1>4. 1..mode.puts \subseteq Items
  BY DEF Types, Items
<1> QED BY <1>1, <1>2, <1>3, <1>4 DEF Types

LEMMA ShapeInit == Init => Shape
<1> SUFFICES ASSUME Init PROVE Shape
  OBVIOUS
<1> DEFINE f == Footer(1, {}, {}, {}, {})
<1>1. f \in FooterChunk /\ f \in Chunk
  BY DEF Footer, FooterChunk, Chunk
<1>2. /\ file = <<f>> /\ file \in Seq(Chunk) /\ Len(file) = 1
      /\ DOMAIN file = {1} /\ file[1] = f
  BY <1>1 DEF Init
<1>3. /\ f.kind = "footer" /\ f.items = {} /\ f.gen = 1 /\ f.roots = {}
      /\ f.payload = {}
  BY DEF Footer
<1>4. mem \in Memory /\ mem.items = {} /\ mem.off = 1 /\ mem.gen = 1
      /\ mem.footer = f /\ mem.pending = {} /\ mem.staged = {}
      /\ mem.payload = {} /\ mem.dirty = FALSE
  <2>1. mem = Loaded(file, 1)
    BY DEF Init
  <2>2. file[1] \in FooterChunk
    BY <1>1, <1>2
  <2>3. 1 \in DOMAIN file /\ file \in Seq(Chunk)
    BY <1>2
  <2>4. /\ mem \in Memory /\ mem.off = 1 /\ mem.gen = file[1].gen
        /\ mem.footer = file[1] /\ mem.items = file[1].items
        /\ mem.payload = file[1].payload /\ mem.pending = {}
        /\ mem.staged = {} /\ mem.dirty = FALSE
    BY <2>1, <2>2, <2>3, LoadedFacts
  <2> HIDE DEF f
  <2> QED BY <1>2, <1>3, <2>4
<1> HIDE DEF f
<1>5. mode.puts \in Nat /\ mode.errors \in Nat
  BY CommitFileAssumption DEF Init, CommitFileAssumption, Setting
<1>6. Types
  BY <1>2, <1>4, <1>5 DEF Init, Types
<1>7. FirstFooter /\ FootersOK
  BY <1>2, <1>3 DEF Init, FirstFooter, FootersOK, FooterOK, IsFooter, f
<1>8. MemoryOK /\ Committing /\ Covered
  BY <1>2, <1>3, <1>4 DEF Init, MemoryOK, Committing, Covered, IsFooter,
     Loads, Unacknowledged
<1> QED BY <1>6, <1>7, <1>8 DEF Shape
-----------------------------------------------------------------------------
(* What the steps that write do to the file and to the memory.             *)

(* The payload references once the batch b is written at index k.          *)
Flushed(P, b, k) ==
  {p \in Nat \X Nat : p \in P \/ (p[1] \in b /\ p[2] = k)}

(* put_frame: the frame is pending or written, and errors tells whether    *)
(* its text was lost.                                                      *)
Staged(i) ==
  /\ puts' = i /\ puts < mode.puts
  /\ handle = "open" /\ phase = "idle"
  /\ UNCHANGED <<handle, phase, mode, header, acked, committed, attempts>>
  /\ file' \in Seq(Chunk) /\ Extends(file, file')
  /\ \A o \in DOMAIN file' \ DOMAIN file :
       file'[o] = Data \/ (file'[o] = Junk /\ errors' # 0)
  /\ \/ UNCHANGED <<synced, images>>
     \/ synced' = DOMAIN file' /\ images' = {header}
  /\ errors' \in {errors, errors + 1} /\ errors' <= mode.errors
  /\ mem' \in Memory
  /\ mem'.off = mem.off /\ mem'.gen = mem.gen /\ mem'.footer = mem.footer
  /\ mem'.items = mem.items \cup {i} /\ mem'.dirty = TRUE
  /\ mem'.staged \subseteq mem.staged \cup {i}
  /\ mem.text \subseteq mem'.text
  /\ errors' = 0 => i \in mem'.text
  /\ \/ mem'.pending = mem.pending \cup {i} /\ mem'.payload = mem.payload
     \/ /\ mem'.pending = {}
        /\ mem'.payload = Flushed(mem.payload, mem.pending \cup {i}, Len(file) + 1)
        /\ Len(file) + 1 \in DOMAIN file' /\ file'[Len(file) + 1] = Data

LEMMA StageFacts ==
  ASSUME Shape, PutFrame \/ PutFrameErr
  PROVE  Staged(puts + 1)
<1> USE DEF Shape
<1> DEFINE i == puts + 1
           m == InCatalog(i)
<1>1. /\ Idle /\ puts' = i /\ puts < mode.puts
      /\ UNCHANGED <<handle, phase, mode, header, acked, committed, attempts>>
  BY DEF PutFrame, PutFrameErr, disk, history
<1>2. /\ puts \in Nat /\ i \in Nat /\ errors \in Nat /\ mode.errors \in Nat
      /\ errors <= mode.errors /\ file \in Seq(Chunk) /\ Len(file) \in Nat
  BY <1>1, Bounds DEF Types
<1>3. mem \in Memory /\ handle = "open" /\ phase = "idle"
  BY <1>1 DEF Idle, Types
<1>4. /\ m \in Memory
      /\ m.off = mem.off /\ m.gen = mem.gen /\ m.footer = mem.footer
      /\ m.items = mem.items \cup {i} /\ m.text = mem.text
      /\ m.staged = mem.staged /\ m.payload = mem.payload
      /\ m.dirty = TRUE /\ m.pending = mem.pending \cup {i}
  BY <1>2, <1>3, InCatalogFacts
<1>5. CASE PutFrameErr
  <2>1. mem' = m /\ file' = Append(file, Junk) /\ UNCHANGED <<synced, images>>
        /\ errors' = errors + 1 /\ errors < mode.errors
    BY <1>5, <1>1 DEF PutFrameErr
  <2>2. /\ file' \in Seq(Chunk) /\ Extends(file, file')
        /\ \A o \in DOMAIN file' \ DOMAIN file : file'[o] = Junk
    BY <2>1, <1>2, AppendChunk, ChunkKinds
  <2> HIDE DEF m
  <2> QED BY <1>1, <1>2, <1>3, <1>4, <2>1, <2>2 DEF Staged
<1>6. CASE PutFrame /\ mem' = Indexed(m, i) /\ UNCHANGED disk
  <2>0. mem' = Indexed(m, i) /\ m \in Memory /\ i \in Nat
    BY <1>2, <1>4, <1>6
  <2>1. UNCHANGED <<file, synced, images, errors>>
    BY <1>6 DEF PutFrame, disk
  <2>2. Extends(file, file') /\ file' \in Seq(Chunk)
    BY <2>1, <1>2 DEF Extends
  <2> HIDE DEF m
  <2>3. /\ mem' \in Memory
        /\ mem'.off = m.off /\ mem'.gen = m.gen /\ mem'.footer = m.footer
        /\ mem'.items = m.items /\ mem'.text = m.text \cup {i}
        /\ mem'.staged = m.staged \cup {i} /\ mem'.payload = m.payload
        /\ mem'.dirty = m.dirty /\ mem'.pending = m.pending
    BY <2>0, IndexedFacts
  <2> QED BY <1>1, <1>2, <1>3, <1>4, <2>1, <2>2, <2>3 DEF Staged
<1>7. CASE /\ PutFrame
           /\ mem' = Indexed(FlushedMem(file, m), i)
           /\ file' = FlushedFile(file, m)
           /\ synced' = IF mode.buffered THEN synced ELSE DOMAIN file'
           /\ images' = IF mode.buffered THEN images ELSE {header}
  <2>1. UNCHANGED errors
    BY <1>7 DEF PutFrame
  <2> HIDE DEF m
  <2> DEFINE n == FlushedMem(file, m)
  <2>2. /\ n \in Memory
        /\ n.off = m.off /\ n.gen = m.gen /\ n.footer = m.footer
        /\ n.items = m.items /\ n.text = m.text /\ n.staged = m.staged
        /\ n.dirty = m.dirty /\ n.pending = {}
        /\ \A p : p \in n.payload <=>
                   \/ p \in m.payload
                   \/ p \in Nat \X Nat /\ p[1] \in m.pending /\ p[2] = Len(file) + 1
    BY <1>2, <1>4, FlushedMemFacts
  <2> HIDE DEF n
  <2>3. n.payload = Flushed(m.payload, m.pending, Len(file) + 1)
    <3>1. n.payload \subseteq Nat \X Nat
      BY <2>2 DEF Memory
    <3> QED BY <2>2, <3>1 DEF Flushed
  <2>4. /\ mem' \in Memory
        /\ mem'.off = n.off /\ mem'.gen = n.gen /\ mem'.footer = n.footer
        /\ mem'.items = n.items /\ mem'.text = n.text \cup {i}
        /\ mem'.staged = n.staged \cup {i} /\ mem'.payload = n.payload
        /\ mem'.dirty = n.dirty /\ mem'.pending = n.pending
    BY <1>2, <1>7, <2>2, IndexedFacts DEF n
  <2>5. /\ file' \in Seq(Chunk) /\ Extends(file, file')
        /\ \A o \in DOMAIN file' \ DOMAIN file : file'[o] = Data
        /\ Len(file) + 1 \in DOMAIN file' /\ file'[Len(file) + 1] = Data
    <3>1. m.pending # {} /\ Len(file) + 1 \notin DOMAIN file
      BY <1>2, <1>4
    <3> QED BY <1>2, <1>4, <1>7, <3>1, FlushedFileFacts
  <2>6. \/ UNCHANGED <<synced, images>>
        \/ synced' = DOMAIN file' /\ images' = {header}
    BY <1>7
  <2> QED BY <1>1, <1>2, <1>3, <1>4, <2>1, <2>2, <2>3, <2>4, <2>5, <2>6
          DEF Staged
<1> QED BY <1>5, <1>6, <1>7 DEF PutFrame, disk

(* The writes of a commit up to its footer, with or without the header.    *)
Wrote ==
  /\ handle = "open" /\ phase = "idle" /\ mem.dirty
  /\ UNCHANGED <<handle, mode, acked, committed, puts>>
  /\ attempts' = attempts \cup {mem.items}
  /\ file' \in Seq(Chunk) /\ Extends(file, file') /\ Len(file) + 2 <= Len(file')
  /\ \A o \in DOMAIN file' \ DOMAIN file :
       \/ file'[o] = Data /\ o < Len(file') - 1
       \/ o >= Len(file') - 1
  /\ file'[Len(file') - 1] = Roots
  /\ LET f == file'[Len(file')] IN
       /\ f \in FooterChunk /\ f.kind = "footer"
       /\ f.gen = mem.gen + 1 /\ f.items = mem.items
       /\ f.text = mem.footer.text \cup mem.text
       /\ f.roots = mem.footer.roots \cup {Len(file') - 1}
       /\ f.payload = Flushed(mem.payload, mem.pending, Len(file) + 1)
  /\ mem.pending # {} => file'[Len(file) + 1] = Data /\ Len(file) + 1 < Len(file') - 1
  /\ synced' \in {synced, synced \cup (1..(Len(file') - 2))}
  /\ mem' \in Memory
  /\ mem'.off = Len(file') /\ mem'.gen = mem.gen + 1
  /\ mem'.footer = mem.footer /\ mem'.items = mem.items
  /\ mem'.staged = mem.staged /\ mem'.dirty = mem.dirty /\ mem'.pending = {}
  /\ mem'.payload = file'[Len(file')].payload

LEMMA WroteFacts ==
  ASSUME Shape, StartCommit,
         LET f1 == FlushedFile(file, mem)
             m1 == FlushedMem(file, mem)
         IN  /\ file' = f1 \o <<Roots, NewFooter(m1, Len(f1) + 1)>>
             /\ mem' = [m1 EXCEPT !.off = Len(file'), !.gen = mem.gen + 1,
                                  !.text = {}]
             /\ synced' = IF FlushSyncs THEN synced \cup DOMAIN f1 ELSE synced,
         UNCHANGED <<handle, mode, acked, committed, puts>>,
         attempts' = attempts \cup {mem.items}
  PROVE  Wrote
<1> USE DEF Shape
<1> DEFINE f1 == FlushedFile(file, mem)
           m1 == FlushedMem(file, mem)
           nf == NewFooter(m1, Len(f1) + 1)
<1>1. /\ mem \in Memory /\ handle = "open" /\ phase = "idle" /\ mem.dirty
      /\ file \in Seq(Chunk) /\ Len(file) \in Nat /\ DOMAIN file = 1..Len(file)
  BY DEF StartCommit, Idle, Types
<1>0. file \in Seq(Chunk) /\ mem \in Memory
  BY <1>1
<1>2. /\ f1 \in Seq(Chunk)
      /\ Extends(file, f1)
      /\ Len(f1) \in {Len(file), Len(file) + 1}
      /\ \A i \in DOMAIN f1 \ DOMAIN file :
              i = Len(file) + 1 /\ f1[i] = Data
      /\ mem.pending # {} => Len(file) + 1 \in DOMAIN f1
  BY <1>0, FlushedFileFacts
<1>3. /\ m1 \in Memory
      /\ m1.footer = mem.footer
      /\ m1.items = mem.items /\ m1.staged = mem.staged
      /\ m1.dirty = mem.dirty /\ m1.pending = {}
      /\ \A p : p \in m1.payload <=>
                   \/ p \in mem.payload
                   \/ p \in Nat \X Nat /\ p[1] \in mem.pending /\ p[2] = Len(file) + 1
  BY <1>0, FlushedMemFacts
<1>4. /\ file' = f1 \o <<Roots, nf>>
      /\ mem' = [m1 EXCEPT !.off = Len(file'), !.gen = mem.gen + 1, !.text = {}]
      /\ synced' = IF FlushSyncs THEN synced \cup DOMAIN f1 ELSE synced
  OBVIOUS
<1> HIDE DEF f1, m1
<1>5. Len(f1) + 1 \in Nat /\ Len(f1) \in Nat /\ DOMAIN f1 = 1..Len(f1)
  BY <1>2
<1>6. /\ nf \in FooterChunk /\ nf \in Chunk /\ nf.kind = "footer"
      /\ nf.gen = mem.gen + 1 /\ nf.items = mem.items
      /\ nf.text = mem.footer.text \cup mem.text
      /\ nf.roots = mem.footer.roots \cup {Len(f1) + 1}
      /\ nf.payload = m1.payload
  BY <1>1, <1>3, <1>5, NewFooterFacts
<1> HIDE DEF nf
<1>7. /\ file' \in Seq(Chunk) /\ Len(file') = Len(f1) + 2
      /\ DOMAIN file' = 1..(Len(f1) + 2) /\ Extends(f1, file')
      /\ file'[Len(f1) + 1] = Roots /\ file'[Len(f1) + 2] = nf
  <2>1. f1 \in Seq(Chunk) /\ Roots \in Chunk /\ nf \in Chunk
    BY <1>2, <1>6, ChunkKinds
  <2> DEFINE g == f1 \o <<Roots, nf>>
  <2>2. /\ g \in Seq(Chunk) /\ Len(g) = Len(f1) + 2
        /\ DOMAIN g = 1..(Len(f1) + 2) /\ Extends(f1, g)
        /\ g[Len(f1) + 1] = Roots /\ g[Len(f1) + 2] = nf
    BY <2>1 DEF Extends
  <2>3. file' = g
    BY <1>4
  <2> HIDE DEF g
  <2> QED BY <2>2, <2>3
<1>8. Extends(file, file')
  BY <1>2, <1>7 DEF Extends
<1>9. m1.payload = Flushed(mem.payload, mem.pending, Len(file) + 1)
  <2>1. m1.payload \subseteq Nat \X Nat
    BY <1>3 DEF Memory
  <2> QED BY <1>3, <2>1 DEF Flushed
<1>10. /\ mem' \in Memory
       /\ mem'.off = Len(file') /\ mem'.gen = mem.gen + 1
       /\ mem'.footer = m1.footer /\ mem'.items = m1.items
       /\ mem'.staged = m1.staged /\ mem'.dirty = m1.dirty
       /\ mem'.pending = m1.pending /\ mem'.payload = m1.payload
  <2>1. Len(file') \in Nat /\ mem.gen + 1 \in Nat
    BY <1>1, <1>5, <1>7 DEF Memory
  <2> QED BY <1>3, <1>4, <2>1 DEF Memory
<1>11. \A o \in DOMAIN file' \ DOMAIN file :
         \/ file'[o] = Data /\ o < Len(file') - 1
         \/ o >= Len(file') - 1
  <2> SUFFICES ASSUME NEW o \in DOMAIN file', o \notin DOMAIN file,
                      ~(o >= Len(file') - 1)
               PROVE  file'[o] = Data /\ o < Len(file') - 1
    OBVIOUS
  <2>1. o < Len(f1) + 1 /\ o \in DOMAIN f1 /\ o < Len(file') - 1
    BY <1>5, <1>7
  <2>2. file'[o] = f1[o] /\ f1[o] = Data
    BY <1>2, <1>7, <2>1 DEF Extends
  <2> QED BY <2>1, <2>2
<1>12. mem.pending # {} => file'[Len(file) + 1] = Data /\ Len(file) + 1 < Len(file') - 1
  <2> SUFFICES ASSUME mem.pending # {}
               PROVE  file'[Len(file) + 1] = Data /\ Len(file) + 1 < Len(file') - 1
    OBVIOUS
  <2>1. Len(file) + 1 \in DOMAIN f1 /\ Len(file) + 1 \notin DOMAIN file
    BY <1>1, <1>2
  <2>2. Len(file) + 1 < Len(file') - 1
    BY <1>1, <1>5, <1>7, <2>1
  <2> QED BY <1>2, <1>7, <2>1, <2>2 DEF Extends
<1>13. synced' \in {synced, synced \cup (1..(Len(file') - 2))}
  <2>1. DOMAIN f1 = 1..(Len(file') - 2)
    BY <1>5, <1>7
  <2> QED BY <1>4, <2>1
<1>14. Len(file') - 1 = Len(f1) + 1 /\ Len(file) + 2 <= Len(file')
  <2>1. Len(f1) >= Len(file) /\ Len(file') = Len(f1) + 2
    BY <1>1, <1>2, <1>7
  <2> QED BY <1>1, <1>5, <2>1
<1> QED BY <1>1, <1>3, <1>6, <1>7, <1>8, <1>9, <1>10, <1>11, <1>12, <1>13, <1>14
        DEF Wrote

(* A commit that fails before its footer is written.                       *)
FailedEarly ==
  /\ handle = "open" /\ phase = "idle" /\ mem.dirty
  /\ UNCHANGED <<handle, phase, mode, acked, committed, puts, attempts, header>>
  /\ errors' = errors + 1 /\ errors < mode.errors
  /\ file' \in Seq(Chunk) /\ Extends(file, file')
  /\ \A o \in DOMAIN file' \ DOMAIN file : file'[o] \in {Data, Junk}
  /\ synced \subseteq synced' /\ synced' \subseteq DOMAIN file'
  /\ images' \in {images, {header}}
  /\ mem' \in Memory
  /\ mem'.off = mem.off /\ mem'.gen = mem.gen
  /\ mem'.footer = mem.footer /\ mem'.items = mem.items
  /\ mem'.staged = mem.staged /\ mem'.dirty = mem.dirty
  /\ \/ mem'.pending = mem.pending /\ mem'.payload = mem.payload
     \/ /\ mem'.pending = {}
        /\ mem'.payload = Flushed(mem.payload, mem.pending, Len(file) + 1)
        /\ mem.pending # {} => /\ Len(file) + 1 \in DOMAIN file'
                               /\ file'[Len(file) + 1] = Data

LEMMA FailedEarlyFacts ==
  ASSUME Shape, CommitFails, FailPayload \/ FailRoots
  PROVE  FailedEarly
<1> USE DEF Shape
<1>1. /\ mem \in Memory /\ handle = "open" /\ phase = "idle" /\ mem.dirty
      /\ file \in Seq(Chunk) /\ Len(file) \in Nat /\ DOMAIN file = 1..Len(file)
      /\ synced \subseteq DOMAIN file
      /\ UNCHANGED <<handle, phase, mode, acked, committed, puts, header>>
      /\ errors' = errors + 1 /\ errors < mode.errors
  BY DEF CommitFails, StartCommit, Idle, Types, FirstFooter
<1>2. CASE FailPayload
  <2>1. /\ file' = Append(file, Junk) /\ UNCHANGED <<synced, images, mem, attempts>>
    BY <1>2 DEF FailPayload
  <2>2. /\ file' \in Seq(Chunk) /\ Extends(file, file')
        /\ \A o \in DOMAIN file' \ DOMAIN file : file'[o] = Junk
    BY <2>1, <1>1, AppendChunk, ChunkKinds
  <2> QED BY <1>1, <2>1, <2>2 DEF FailedEarly, Extends
<1>3. CASE FailRoots
  <2> DEFINE f1 == FlushedFile(file, mem)
             m1 == FlushedMem(file, mem)
  <2>0. file \in Seq(Chunk) /\ mem \in Memory
    BY <1>1
  <2>1. /\ file' = Append(f1, Junk) /\ mem' = [m1 EXCEPT !.text = {}]
        /\ synced' = IF FlushSyncs THEN 1..(Len(file') - 1) ELSE synced
        /\ images' \in {images, {header}} /\ UNCHANGED attempts
    BY <1>3 DEF FailRoots
  <2>2. /\ f1 \in Seq(Chunk)
        /\ Extends(file, f1)
        /\ Len(f1) \in {Len(file), Len(file) + 1}
        /\ \A i \in DOMAIN f1 \ DOMAIN file :
                i = Len(file) + 1 /\ f1[i] = Data
        /\ mem.pending # {} => Len(file) + 1 \in DOMAIN f1
    BY <2>0, FlushedFileFacts
  <2>3. /\ m1 \in Memory
        /\ m1.off = mem.off /\ m1.gen = mem.gen /\ m1.footer = mem.footer
        /\ m1.items = mem.items /\ m1.staged = mem.staged
        /\ m1.dirty = mem.dirty /\ m1.pending = {}
        /\ \A p : p \in m1.payload <=>
                   \/ p \in mem.payload
                   \/ p \in Nat \X Nat /\ p[1] \in mem.pending /\ p[2] = Len(file) + 1
    BY <2>0, FlushedMemFacts
  <2> HIDE DEF f1, m1
  <2>4. Len(f1) \in Nat /\ DOMAIN f1 = 1..Len(f1)
    BY <2>2
  <2>5. /\ file' \in Seq(Chunk) /\ Extends(f1, file') /\ Len(file') = Len(f1) + 1
        /\ DOMAIN file' = 1..(Len(f1) + 1) /\ file'[Len(f1) + 1] = Junk
    BY <2>1, <2>2, AppendChunk, ChunkKinds
  <2>6. m1.payload = Flushed(mem.payload, mem.pending, Len(file) + 1)
    <3>1. m1.payload \subseteq Nat \X Nat
      BY <2>3 DEF Memory
    <3> QED BY <2>3, <3>1 DEF Flushed
  <2>7. /\ mem' \in Memory
        /\ mem'.off = m1.off /\ mem'.gen = m1.gen
        /\ mem'.footer = m1.footer /\ mem'.items = m1.items
        /\ mem'.staged = m1.staged /\ mem'.dirty = m1.dirty
        /\ mem'.pending = {} /\ mem'.payload = m1.payload
    BY <2>1, <2>3 DEF Memory
  <2>8. Extends(file, file')
    BY <2>2, <2>5 DEF Extends
  <2>9. ASSUME NEW o \in DOMAIN file', o \notin DOMAIN file
        PROVE  file'[o] \in {Data, Junk}
    <3>1. o = Len(f1) + 1 \/ o \in DOMAIN f1
      BY <2>4, <2>5
    <3> QED BY <2>2, <2>5, <2>9, <3>1 DEF Extends
  <2>10. mem.pending # {} => /\ Len(file) + 1 \in DOMAIN file'
                             /\ file'[Len(file) + 1] = Data
    <3>1. mem.pending # {} => /\ Len(file) + 1 \in DOMAIN f1
                              /\ Len(file) + 1 \notin DOMAIN file
      BY <1>1, <2>2
    <3> QED BY <2>2, <2>5, <3>1 DEF Extends
  <2>11. synced \subseteq synced' /\ synced' \subseteq DOMAIN file'
    <3>1. DOMAIN file \subseteq DOMAIN f1 /\ DOMAIN f1 \subseteq DOMAIN file'
      BY <2>2, <2>5 DEF Extends
    <3>2. 1..(Len(file') - 1) = DOMAIN f1
      BY <2>4, <2>5
    <3> QED BY <1>1, <2>1, <3>1, <3>2
  <2> QED BY <1>1, <2>1, <2>3, <2>5, <2>6, <2>7, <2>8, <2>9, <2>10, <2>11
          DEF FailedEarly
<1> QED BY <1>2, <1>3

(* A power loss: the file ends behind all that was synced; before that, a  *)
(* chunk is as it was or junk, and as it was if it was synced or if        *)
(* storage is ordered.                                                     *)
Lost ==
  /\ file' \in Seq(Chunk) /\ DOMAIN file' \subseteq DOMAIN file
  /\ synced \subseteq DOMAIN file' /\ synced' = DOMAIN file'
  /\ \A i \in DOMAIN file' : file'[i] \in {file[i], Junk}
  /\ \A i \in DOMAIN file' : i \in synced \/ ~mode.reorder => file'[i] = file[i]
  /\ images' = {header'}
  /\ header' \in [off : Nat, gen : Nat]
  /\ IF mode.reorder
       THEN \E g, h \in images : header' = [off |-> g.off, gen |-> h.gen]
       ELSE header' \in images /\ header'.off <= Len(file')

LEMMA LostFacts ==
  ASSUME Shape, PowerLoss
  PROVE  Lost
<1> USE DEF Shape
<1>1. /\ file \in Seq(Chunk) /\ Len(file) \in Nat /\ DOMAIN file = 1..Len(file)
      /\ \A i \in DOMAIN file : file[i] \in Chunk
      /\ images \subseteq [off : Nat, gen : Nat] /\ images' = {header'}
  BY DEF PowerLoss, Types
<1>2. CASE mode.reorder
  <2>0. PICK n \in DOMAIN file : \E kept \in SUBSET ((1..n) \ synced) :
          /\ synced \subseteq 1..n
          /\ file' = [i \in 1..n |->
                        IF i \in synced \cup kept THEN file[i] ELSE Junk]
          /\ synced' = 1..n
          /\ \E a, b \in images : header' = [off |-> a.off, gen |-> b.gen]
    BY <1>2 DEF PowerLoss, LoseUnordered
  <2>1. PICK kept \in SUBSET ((1..n) \ synced) :
          /\ synced \subseteq 1..n
          /\ file' = [i \in 1..n |->
                        IF i \in synced \cup kept THEN file[i] ELSE Junk]
          /\ synced' = 1..n
          /\ \E a, b \in images : header' = [off |-> a.off, gen |-> b.gen]
    BY <2>0
  <2>2. n \in Nat /\ 1..n \subseteq DOMAIN file
    BY <1>1
  <2>3. DOMAIN file' = 1..n /\ \A i \in 1..n : file'[i] \in Chunk
    BY <1>1, <2>1, <2>2, ChunkKinds
  <2>4. file' \in Seq(Chunk)
    <3>1. file' \in [1..n -> Chunk]
      BY <2>1, <2>3
    <3> QED BY <2>2, <3>1
  <2>5. header' \in [off : Nat, gen : Nat]
    BY <1>1, <2>1
  <2> QED BY <1>1, <1>2, <2>1, <2>2, <2>3, <2>4, <2>5 DEF Lost
<1>3. CASE ~mode.reorder
  <2>1. PICK n \in DOMAIN file :
          /\ synced \subseteq 1..n
          /\ file' = SubSeq(file, 1, n)
          /\ synced' = 1..n
          /\ header' \in images /\ header'.off <= n
    BY <1>3 DEF PowerLoss, LoseSuffix
  <2>2. /\ file' \in Seq(Chunk) /\ Len(file') = n /\ DOMAIN file' = 1..n
        /\ \A i \in 1..n : file'[i] = file[i]
    BY <1>1, <2>1
  <2>3. n \in Nat /\ 1..n \subseteq DOMAIN file
    BY <1>1
  <2> QED BY <1>1, <1>3, <2>1, <2>2, <2>3 DEF Lost
<1> QED BY <1>2, <1>3
-----------------------------------------------------------------------------
(* Staging keeps the shape.                                                *)
LEMMA StageShape ==
  ASSUME Shape, Staged(puts + 1)
  PROVE  Shape'
<1> USE DEF Shape
<1> DEFINE i == puts + 1
<1>1. /\ puts \in Nat /\ i \in Nat /\ puts' = i /\ mode' = mode
      /\ i \in 0..mode.puts /\ 1..puts \subseteq 1..i /\ i \in 1..i
      /\ errors' \in 0..mode.errors /\ puts <= puts'
      /\ handle = "open" /\ handle' = "open" /\ phase = "idle" /\ phase' = "idle"
  BY Bounds DEF Staged, Types
<1>2. /\ file' \in Seq(Chunk) /\ Extends(file, file')
      /\ \A o \in DOMAIN file' \ DOMAIN file : file'[o].kind # "footer"
  BY ChunkKinds DEF Staged
<1>3. /\ DOMAIN file \subseteq DOMAIN file'
      /\ \A o \in DOMAIN file : file'[o] = file[o]
      /\ \A o : IsFooter(o) => IsFooter(o)' /\ FooterOK(o)'
      /\ \A o : Loads(o) => Loads(o)'
      /\ file'[1] = Footer(1, {}, {}, {}, {})
  BY <1>1, <1>2, Grown
<1>4. \A o : IsFooter(o)' <=> IsFooter(o)
  BY <1>2, SameFooters
<1>5. Types'
  <2>1. header' \in images' /\ images' \subseteq [off : Nat, gen : Nat]
    BY DEF Staged, Types
  <2>2. acked' \subseteq 1..i /\ committed' \subseteq 1..i
    BY <1>1 DEF Staged, Types
  <2> QED BY <1>1, <1>2, <2>1, <2>2 DEF Staged, Types
<1>6. FirstFooter' /\ FootersOK'
  <2>1. synced' \subseteq DOMAIN file' /\ 1 \in synced'
    BY <1>3 DEF Staged, FirstFooter
  <2> QED BY <1>3, <1>4, <2>1 DEF FirstFooter, FootersOK
<1>7. MemoryOK'
  <2> USE DEF MemoryOK
  <2>1. Loads(mem.off)' /\ file'[mem.off] = file[mem.off]
    BY <1>1, <1>3 DEF Loads, IsFooter, Staged
  <2>2. mem'.items \subseteq 1..i /\ mem'.staged \subseteq mem'.items
        /\ mem'.pending \subseteq mem'.items
    BY <1>1 DEF Staged
  <2>3. \A r \in mem.footer.roots : r \in DOMAIN file' /\ file'[r] = Roots
    BY <1>1, <1>3
  <2>4. \A p \in mem.payload : p[1] \in 1..i /\ p[2] \in DOMAIN file'
    BY <1>1, <1>3
  <2>5. \A p \in mem'.payload : p[1] \in 1..i /\ p[2] \in DOMAIN file'
    <3>1. mem.pending \cup {i} \subseteq 1..i
      BY <1>1
    <3> QED BY <2>4, <3>1 DEF Staged, Flushed
  <2>6. ASSUME NEW j \in mem'.items, j \notin mem'.pending
        PROVE  \E p \in mem'.payload : p[1] = j
    <3>1. CASE mem'.pending = mem.pending \cup {i} /\ mem'.payload = mem.payload
      BY <1>1, <2>6, <3>1 DEF Staged
    <3>2. CASE mem'.payload = Flushed(mem.payload, mem.pending \cup {i}, Len(file) + 1)
      <4>1. mem.payload \subseteq mem'.payload
        BY <1>1, <3>2 DEF Flushed, Types, Memory
      <4>2. CASE j \in mem.items \ mem.pending
        BY <1>1, <4>1, <4>2
      <4>3. CASE j \in mem.pending \cup {i}
        <5>1. <<j, Len(file) + 1>> \in mem'.payload
          <6>1. j \in Nat /\ Len(file) + 1 \in Nat
            BY <1>1, <4>3, Bounds DEF Types, Memory
          <6> QED BY <3>2, <4>3, <6>1 DEF Flushed
        <5> QED BY <5>1
      <4> QED BY <2>6, <4>2, <4>3 DEF Staged
    <3> QED BY <3>1, <3>2 DEF Staged
  <2> QED BY <1>1, <2>1, <2>2, <2>3, <2>5, <2>6 DEF Staged
<1>8. Committing' /\ Covered'
  BY <1>1 DEF Committing, Covered, Unacknowledged, Staged
<1> QED BY <1>5, <1>6, <1>7, <1>8

(* So do the writes of a commit.  The header was written too, or not.      *)
HeaderWritten ==
  /\ phase' = "fsync" /\ errors' = errors
  /\ header' = [off |-> Len(file'), gen |-> mem.gen + 1]
  /\ images' \in {images \cup {header'}, {header, header'}}
HeaderNotWritten ==
  /\ phase' = "idle" /\ errors' = errors + 1 /\ errors < mode.errors
  /\ header' = header /\ images' \in {images, {header}}

LEMMA WroteShape ==
  ASSUME Shape, Wrote, HeaderWritten \/ HeaderNotWritten
  PROVE  Shape'
<1> USE DEF Shape
<1>0. PICK L \in Nat : L = Len(file')
  BY DEF Wrote
<1>1. /\ puts \in Nat /\ puts' = puts /\ mode' = mode /\ puts <= puts'
      /\ handle = "open" /\ handle' = "open" /\ phase = "idle"
      /\ Len(file) \in Nat /\ DOMAIN file = 1..Len(file) /\ mem \in Memory
      /\ mem' \in Memory /\ errors \in Nat /\ mode.errors \in Nat
      /\ mem.pending \subseteq 1..puts /\ mem.gen <= mem.off
      /\ mem.off <= Len(file) /\ mem.off \in Nat /\ mem.gen \in Nat
  <2>1. /\ handle = "open" /\ handle' = "open" /\ phase = "idle" /\ mem' \in Memory
        /\ puts' = puts /\ mode' = mode
    BY DEF Wrote
  <2>2. mem \in Memory /\ mem.off \in Nat /\ mem.gen \in Nat
    BY <2>1 DEF Types, Memory
  <2>3. IsFooter(mem.off) /\ file[mem.off].gen = mem.gen
        /\ mem.pending \subseteq 1..puts
    BY <2>1 DEF MemoryOK, Loads
  <2>4. mem.gen <= mem.off /\ mem.off <= Len(file)
    BY <2>3, Bounds DEF FootersOK, FooterOK, IsFooter
  <2> QED BY <2>1, <2>2, <2>3, <2>4, Bounds
<1>2. /\ file' \in Seq(Chunk) /\ Extends(file, file')
      /\ L \in Nat /\ DOMAIN file' = 1..L /\ Len(file) + 2 <= L
  BY <1>0 DEF Wrote
<1>3. /\ DOMAIN file \subseteq DOMAIN file'
      /\ \A o \in DOMAIN file : file'[o] = file[o]
      /\ \A o : IsFooter(o) => IsFooter(o)' /\ FooterOK(o)'
      /\ \A o : Loads(o) => Loads(o)'
      /\ file'[1] = Footer(1, {}, {}, {}, {})
  BY <1>1, <1>2, Grown
<1>4. \A o : IsFooter(o)' => IsFooter(o) \/ o = L
  <2> SUFFICES ASSUME NEW o \in DOMAIN file', file'[o].kind = "footer", o # L
               PROVE  IsFooter(o)
    BY DEF IsFooter
  <2>1. CASE o \in DOMAIN file
    BY <1>3, <2>1 DEF IsFooter
  <2>2. CASE o \notin DOMAIN file
    <3>1. file'[o] = Data \/ o = L - 1
      BY <1>0, <1>2, <2>2 DEF Wrote
    <3> QED BY <1>0, <3>1, ChunkKinds DEF Wrote
  <2> QED BY <2>1, <2>2
<1>5. /\ file'[L] \in FooterChunk /\ file'[L].kind = "footer"
      /\ file'[L].gen = mem.gen + 1 /\ file'[L].items = mem.items
      /\ file'[L].roots = mem.footer.roots \cup {L - 1}
      /\ file'[L].payload = Flushed(mem.payload, mem.pending, Len(file) + 1)
      /\ file'[L - 1] = Roots
      /\ mem.pending # {} => Len(file) + 1 < L - 1
  BY <1>0 DEF Wrote
<1>6. \A p \in file'[L].payload :
        p[1] \in 1..puts /\ p[2] \in Nat /\ 1 <= p[2] /\ p[2] < L - 1
  <2> SUFFICES ASSUME NEW p \in file'[L].payload
               PROVE  p[1] \in 1..puts /\ p[2] \in Nat /\ 1 <= p[2] /\ p[2] < L - 1
    OBVIOUS
  <2>1. CASE p \in mem.payload
    <3>1. p[1] \in 1..puts /\ p[2] \in 1..Len(file)
      BY <1>1, <2>1 DEF MemoryOK
    <3> QED BY <1>1, <1>2, <3>1
  <2>2. CASE p[1] \in mem.pending /\ p[2] = Len(file) + 1
    <3>1. Len(file) + 1 < L - 1
      BY <1>5, <2>2
    <3> QED BY <1>1, <2>2, <3>1
  <2> QED BY <1>5, <2>1, <2>2 DEF Flushed
<1>7. ASSUME NEW j \in mem.items PROVE \E p \in file'[L].payload : p[1] = j
  <2>1. CASE j \in mem.pending
    <3>1. j \in Nat /\ Len(file) + 1 \in Nat
      BY <1>1 DEF Memory
    <3>2. <<j, Len(file) + 1>> \in file'[L].payload
      BY <1>5, <2>1, <3>1 DEF Flushed
    <3> QED BY <3>2
  <2>2. CASE j \notin mem.pending
    <3>1. PICK p \in mem.payload : p[1] = j
      BY <1>1, <2>2 DEF MemoryOK
    <3>2. p \in file'[L].payload
      BY <1>1, <1>5, <3>1 DEF Flushed, Memory
    <3> QED BY <3>1, <3>2
  <2> QED BY <2>1, <2>2
<1>8. \A r \in file'[L].roots : r \in Nat /\ 1 <= r /\ r < L /\ file'[r] = Roots
  <2>1. \A r \in mem.footer.roots : r \in 1..Len(file) /\ file'[r] = Roots
    BY <1>1, <1>3 DEF MemoryOK
  <2>2. L - 1 \in Nat /\ 1 <= L - 1 /\ L - 1 < L
        /\ \A r \in 1..Len(file) : r \in Nat /\ 1 <= r /\ r < L
    BY <1>1, <1>2
  <2> QED BY <1>5, <2>1, <2>2
<1>9. FooterOK(L)' /\ IsFooter(L)'
  <2>1. mem.gen + 1 <= L /\ L \in DOMAIN file'
    BY <1>1, <1>2
  <2>2. mem.items \subseteq 1..puts'
    BY <1>1 DEF MemoryOK
  <2>3. \A p \in file'[L].payload : p[1] \in 1..puts' /\ 1 <= p[2] /\ p[2] < L
    BY <1>1, <1>2, <1>6
  <2> QED BY <1>5, <1>7, <1>8, <2>1, <2>2, <2>3 DEF FooterOK, IsFooter
<1>10. mem'.off = L /\ mem'.gen = mem.gen + 1 /\ mem'.footer = mem.footer
       /\ mem'.items = mem.items /\ mem'.staged = mem.staged
       /\ mem'.dirty = mem.dirty /\ mem'.pending = {} /\ mem.dirty
       /\ mem'.payload = file'[L].payload
  BY <1>0 DEF Wrote
<1>11. Types'
  <2>1. header' \in images' /\ images' \subseteq [off : Nat, gen : Nat]
        /\ errors' \in 0..mode.errors /\ phase' \in {"idle", "fsync", "publish"}
    <3>1. CASE HeaderWritten
      <4>1. header' \in [off : Nat, gen : Nat]
        BY <1>0, <1>1, <3>1 DEF HeaderWritten
      <4> QED BY <3>1, <4>1 DEF HeaderWritten, Types
    <3>2. CASE HeaderNotWritten
      BY <1>1, <3>2 DEF HeaderNotWritten, Types
    <3> QED BY <3>1, <3>2
  <2> QED BY <1>1, <1>2, <2>1 DEF Types, Wrote
<1>12. FirstFooter' /\ FootersOK'
  <2>1. 1..(L - 2) \subseteq DOMAIN file'
    BY <1>2
  <2>2. synced' \subseteq DOMAIN file' /\ 1 \in synced'
    BY <1>0, <1>3, <2>1 DEF Wrote, FirstFooter
  <2> QED BY <1>3, <1>4, <1>9, <2>2 DEF FirstFooter, FootersOK
<1>13. MemoryOK'
  <2>1. \A r \in mem.footer.roots : r \in DOMAIN file' /\ file'[r] = Roots
    BY <1>1, <1>3 DEF MemoryOK
  <2>2. \A p \in file'[L].payload : p[1] \in 1..puts' /\ p[2] \in DOMAIN file'
    BY <1>1, <1>2, <1>6
  <2>3. mem.items \subseteq 1..puts' /\ mem.staged \subseteq mem.items
    BY <1>1 DEF MemoryOK
  <2> QED BY <1>5, <1>7, <1>8, <1>9, <1>10, <2>1, <2>2, <2>3 DEF MemoryOK, Loads
<1>14. Committing'
  BY <1>0, <1>5, <1>10 DEF Committing, HeaderWritten, HeaderNotWritten, Wrote
<1>15. Covered'
  BY <1>10 DEF Covered, Unacknowledged, HeaderWritten, HeaderNotWritten
<1> QED BY <1>11, <1>12, <1>13, <1>14, <1>15

(* So does a commit that fails before its footer.                          *)
LEMMA FailedEarlyShape ==
  ASSUME Shape, FailedEarly
  PROVE  Shape'
<1> USE DEF Shape
<1>1. /\ puts \in Nat /\ puts' = puts /\ mode' = mode /\ puts <= puts'
      /\ handle = "open" /\ handle' = "open" /\ phase = "idle" /\ phase' = "idle"
      /\ mem \in Memory /\ mem' \in Memory /\ mem'.dirty
      /\ errors' \in 0..mode.errors
  BY Bounds DEF FailedEarly, Types
<1>2. /\ file' \in Seq(Chunk) /\ Extends(file, file')
      /\ \A o \in DOMAIN file' \ DOMAIN file : file'[o].kind # "footer"
  BY ChunkKinds DEF FailedEarly
<1>3. /\ DOMAIN file \subseteq DOMAIN file'
      /\ \A o \in DOMAIN file : file'[o] = file[o]
      /\ \A o : IsFooter(o) => IsFooter(o)' /\ FooterOK(o)'
      /\ \A o : Loads(o) => Loads(o)'
      /\ file'[1] = Footer(1, {}, {}, {}, {})
  BY <1>1, <1>2, Grown
<1>4. \A o : IsFooter(o)' <=> IsFooter(o)
  BY <1>2, SameFooters
<1>5. Types'
  BY <1>1, <1>2 DEF FailedEarly, Types
<1>6. FirstFooter' /\ FootersOK'
  BY <1>3, <1>4 DEF FirstFooter, FootersOK, FailedEarly
<1>7. MemoryOK'
  <2> USE DEF MemoryOK
  <2>1. Loads(mem.off)' /\ file'[mem.off] = file[mem.off]
    BY <1>1, <1>3 DEF Loads, IsFooter, FailedEarly
  <2>2. \A r \in mem.footer.roots : r \in DOMAIN file' /\ file'[r] = Roots
    BY <1>1, <1>3
  <2>3. \A p \in mem.payload : p[1] \in 1..puts /\ p[2] \in DOMAIN file'
    BY <1>1, <1>3
  <2>4. \A p \in mem'.payload : p[1] \in 1..puts /\ p[2] \in DOMAIN file'
    <3>1. mem.pending \subseteq 1..puts
      BY <1>1
    <3> QED BY <2>3, <3>1 DEF FailedEarly, Flushed
  <2>5. ASSUME NEW j \in mem.items, j \notin mem'.pending
        PROVE  \E p \in mem'.payload : p[1] = j
    <3>1. CASE mem'.pending = mem.pending /\ mem'.payload = mem.payload
      BY <1>1, <2>5, <3>1
    <3>2. CASE mem'.payload = Flushed(mem.payload, mem.pending, Len(file) + 1)
      <4>1. mem.payload \subseteq mem'.payload
        BY <1>1, <3>2 DEF Flushed, Memory
      <4>2. CASE j \in mem.pending
        <5>1. j \in Nat /\ Len(file) + 1 \in Nat
          BY <1>1, Bounds DEF Memory
        <5>2. <<j, Len(file) + 1>> \in mem'.payload
          BY <3>2, <4>2, <5>1 DEF Flushed
        <5> QED BY <5>2
      <4>3. CASE j \notin mem.pending
        BY <1>1, <4>1, <4>3
      <4> QED BY <4>2, <4>3
    <3> QED BY <3>1, <3>2 DEF FailedEarly
  <2> QED BY <1>1, <2>1, <2>2, <2>4, <2>5 DEF FailedEarly
<1>8. Committing' /\ Covered'
  BY <1>1 DEF Committing, Covered, Unacknowledged
<1> QED BY <1>5, <1>6, <1>7, <1>8

(* A power loss keeps synced chunks, and never makes a footer.             *)
LEMMA LostFooters ==
  ASSUME Shape, Lost
  PROVE  /\ \A o : IsFooter(o)' => IsFooter(o) /\ file'[o] = file[o]
         /\ \A o : Loads(o)' => Loads(o)
<1>1. \A o : IsFooter(o)' => IsFooter(o) /\ file'[o] = file[o]
  <2> SUFFICES ASSUME NEW o \in DOMAIN file', file'[o].kind = "footer"
               PROVE  IsFooter(o) /\ file'[o] = file[o]
    BY DEF IsFooter
  <2>1. file'[o] = file[o] /\ o \in DOMAIN file
    BY ChunkKinds DEF Lost
  <2> QED BY <2>1 DEF IsFooter
<1>2. ASSUME NEW o, Loads(o)' PROVE Loads(o)
  <2>1. IsFooter(o)' /\ \A r \in file'[o].roots : file'[r] = Roots
    BY <1>2 DEF Loads
  <2>2. IsFooter(o) /\ file'[o] = file[o] /\ FooterOK(o) /\ o \in DOMAIN file'
    BY <1>1, <2>1 DEF Shape, FootersOK, IsFooter
  <2>3. ASSUME NEW r \in file[o].roots PROVE file[r] = Roots
    <3>1. file'[r] = Roots /\ 1 <= r /\ r < o
      BY <2>1, <2>2 DEF FooterOK
    <3>2. r \in DOMAIN file'
      <4>1. r \in Nat /\ DOMAIN file' = 1..Len(file') /\ Len(file') \in Nat
        <5>1. file[o] \in FooterChunk
          BY <2>2, ChunkKinds DEF Shape, Types, IsFooter
        <5> QED BY <5>1 DEF FooterChunk, Lost
      <4> QED BY <2>2, <3>1, <4>1
    <3>3. Roots # Junk
      BY DEF Roots, Junk
    <3> QED BY <3>1, <3>2, <3>3 DEF Lost
  <2> QED BY <2>2, <2>3 DEF Loads
<1> QED BY <1>1, <1>2

LEMMA LostShape ==
  ASSUME Shape, Lost, Stop
  PROVE  Shape'
<1> USE DEF Shape
<1>1. /\ handle' = "closed" /\ phase' = "idle"
      /\ UNCHANGED <<acked, committed, attempts, puts, errors, mode>>
  BY DEF Stop, history
<1>2. \A o : IsFooter(o)' => IsFooter(o) /\ file'[o] = file[o]
  BY LostFooters
<1>3. Types'
  BY <1>1 DEF Lost, Types
<1>4. FirstFooter' /\ FootersOK'
  BY <1>1, <1>2 DEF Lost, FirstFooter, FootersOK, FooterOK, IsFooter
<1>5. MemoryOK' /\ Committing' /\ Covered'
  BY <1>1 DEF MemoryOK, Committing, Covered, Unacknowledged
<1> QED BY <1>3, <1>4, <1>5

-----------------------------------------------------------------------------
(* Recovery.                                                               *)

(* A bounded nonempty set of numbers has a greatest element.               *)
LEMMA Greatest ==
  ASSUME NEW T \in SUBSET Nat, T # {}, NEW b \in Nat, \A x \in T : x <= b
  PROVE  \E x \in T : \A y \in T : y <= x
<1> DEFINE U == {b - x : x \in T}
<1>0. \A x \in T : b - x \in Nat
  OBVIOUS
<1>1. U \subseteq Nat /\ U # {}
  BY <1>0, Zenon
<1>2. \A x, y \in Nat : <<y, x>> \in OpToRel(<, Nat) <=> y < x
  BY DEF OpToRel
<1>3. PICK u \in U : \A y \in U : ~ (<<y, u>> \in OpToRel(<, Nat))
  BY <1>1, NatLessThanWellFounded, WFMin
<1>4. \A y \in U : ~(y < u)
  BY <1>1, <1>2, <1>3, Zenon
<1>5. PICK x \in T : u = b - x
  BY <1>3
<1>6. \A y \in T : ~(b - y < b - x)
  BY <1>4, <1>5
<1> QED BY <1>6

(* The candidate the scan prefers exists.                                  *)
LEMMA NewestFacts ==
  ASSUME Shape, NEW S \in SUBSET DOMAIN file, S # {}, \A o \in S : IsFooter(o)
  PROVE  /\ Newest(S) \in S
         /\ \A p \in S : \/ file[p].gen < file[Newest(S)].gen
                         \/ file[p].gen = file[Newest(S)].gen /\ p <= Newest(S)
<1>1. /\ Len(file) \in Nat /\ DOMAIN file = 1..Len(file)
      /\ \A o \in S : /\ file[o].gen \in Nat /\ file[o].gen <= Len(file)
                      /\ o \in Nat /\ o <= Len(file)
  <2>1. \A o \in S : file[o] \in FooterChunk /\ file[o].gen <= o
    BY ChunkKinds DEF Shape, Types, FootersOK, FooterOK, IsFooter
  <2>2. \A o \in S : file[o].gen \in Nat
    BY <2>1 DEF FooterChunk
  <2>3. Len(file) \in Nat /\ DOMAIN file = 1..Len(file)
    BY Bounds DEF Shape
  <2> QED BY <2>1, <2>2, <2>3
<1> DEFINE G == {file[o].gen : o \in S}
<1>2. G \in SUBSET Nat /\ G # {} /\ \A g \in G : g <= Len(file)
  BY <1>1
<1>3. PICK g \in G : \A k \in G : k <= g
  <2> HIDE DEF G
  <2> QED BY <1>1, <1>2, Greatest
<1> DEFINE R == {o \in S : file[o].gen = g}
<1>4. R \in SUBSET Nat /\ R # {} /\ \A o \in R : o <= Len(file)
  BY <1>1, <1>3
<1>5. PICK o \in R : \A k \in R : k <= o
  <2> HIDE DEF R
  <2> QED BY <1>1, <1>4, Greatest
<1>6. o \in S /\ \A p \in S : \/ file[p].gen < file[o].gen
                              \/ file[p].gen = file[o].gen /\ p <= o
  <2>1. o \in S /\ file[o].gen = g
    BY <1>5
  <2>2. ASSUME NEW p \in S PROVE \/ file[p].gen < file[o].gen
                                 \/ file[p].gen = file[o].gen /\ p <= o
    <3>1. file[p].gen <= g
      BY <1>3
    <3>2. file[p].gen = g => p <= o
      BY <1>5
    <3>3. file[p].gen \in Nat /\ g \in Nat
      BY <1>1, <2>1
    <3> QED BY <2>1, <3>1, <3>2, <3>3
  <2> QED BY <2>1, <2>2
<1> QED BY <1>6 DEF Newest

(* The first footer always loads.                                          *)
LEMMA FirstLoads == ASSUME Shape PROVE 1 \in DOMAIN file /\ Loads(1)
BY DEF Shape, FirstFooter, Loads, IsFooter, Footer

(* open() succeeds: with the header's footer, or with the newest that      *)
(* loads.                                                                  *)
LEMMA OpenFacts ==
  ASSUME Shape, Open
  PROVE  /\ handle = "closed" /\ handle' = "open"
         /\ \E o \in DOMAIN file :
              /\ Loads(o) /\ mem' = Loaded(file, o)
              /\ IF HeaderUsable
                   THEN o = header.off
                   ELSE \A p \in DOMAIN file : Loads(p) =>
                          \/ file[p].gen < file[o].gen
                          \/ file[p].gen = file[o].gen /\ p <= o
<1>1. handle = "closed"
  BY DEF Open
<1>2. CASE HeaderUsable
  <2>1. Loads(header.off) /\ header.off \in DOMAIN file
    BY <1>2 DEF HeaderUsable, Loads, IsFooter
  <2> QED BY <1>1, <1>2, <2>1 DEF Open
<1>3. CASE ~HeaderUsable
  <2> DEFINE S == ScanCandidates
  <2>1. S \in SUBSET DOMAIN file /\ S # {} /\ \A o \in S : IsFooter(o) /\ Loads(o)
    BY FirstLoads DEF ScanCandidates, Loads
  <2>2. \A p \in DOMAIN file : Loads(p) => p \in S
    BY DEF ScanCandidates
  <2>3. handle' = "open" /\ mem' = Loaded(file, Newest(S))
    BY <1>3, <2>1 DEF Open
  <2> HIDE DEF S
  <2>4. /\ Newest(S) \in S
        /\ \A p \in S : \/ file[p].gen < file[Newest(S)].gen
                        \/ file[p].gen = file[Newest(S)].gen /\ p <= Newest(S)
    BY <2>1, NewestFacts
  <2> QED BY <1>1, <1>3, <2>1, <2>2, <2>3, <2>4
<1> QED BY <1>2, <1>3

LEMMA OpenShape ==
  ASSUME Shape, Open
  PROVE  Shape'
<1> USE DEF Shape
<1>1. /\ UNCHANGED <<file, synced, header, images, phase, acked, committed,
                     attempts, puts, errors, mode>>
      /\ handle' = "open" /\ phase = "idle"
  BY OpenFacts DEF Open, disk, history, Types
<1>2. PICK o \in DOMAIN file : Loads(o) /\ mem' = Loaded(file, o)
  BY OpenFacts
<1>3. /\ IsFooter(o) /\ FooterOK(o) /\ file[o] \in FooterChunk
      /\ file \in Seq(Chunk)
  BY <1>2, ChunkKinds DEF Loads, IsFooter, FootersOK, Types
<1>4. /\ mem' \in Memory
      /\ mem'.off = o /\ mem'.gen = file[o].gen /\ mem'.footer = file[o]
      /\ mem'.items = file[o].items /\ mem'.payload = file[o].payload
      /\ mem'.pending = {} /\ mem'.staged = {} /\ mem'.dirty = FALSE
  BY <1>2, <1>3, LoadedFacts
<1>5. Types'
  BY <1>1, <1>4 DEF Types
<1>6. FirstFooter' /\ FootersOK'
  BY <1>1 DEF FirstFooter, FootersOK, FooterOK, IsFooter
<1>7. MemoryOK'
  <2>1. \A k \in Nat : 1 <= k /\ k < o => k \in DOMAIN file
    BY Bounds
  <2>2. file[o].roots \subseteq Nat /\ file[o].payload \subseteq Nat \X Nat
    BY <1>3 DEF FooterChunk
  <2>3. \A r \in file[o].roots : r \in DOMAIN file /\ file[r] = Roots
    BY <1>2, <1>3, <2>1, <2>2 DEF FooterOK, Loads
  <2>4. \A p \in file[o].payload : p[1] \in 1..puts /\ p[2] \in DOMAIN file
    BY <1>3, <2>1, <2>2 DEF FooterOK
  <2> QED BY <1>1, <1>3, <1>4, <2>3, <2>4 DEF MemoryOK, FooterOK, IsFooter, Loads
<1>8. Committing' /\ Covered'
  BY <1>1, <1>4 DEF Committing, Covered, Unacknowledged
<1> QED BY <1>5, <1>6, <1>7, <1>8
-----------------------------------------------------------------------------
(* Adopting the footer of a commit: after the barrier the memory differs   *)
(* from what phase A left only in footer, dirty and staged.                *)
LEMMA AdoptedFacts ==
  ASSUME Shape, handle = "open"
  PROVE  /\ Adopted \in Memory
         /\ Adopted.off = mem.off /\ Adopted.gen = mem.gen
         /\ Adopted.footer = file[mem.off] /\ Adopted.items = mem.items
         /\ Adopted.payload = mem.payload /\ Adopted.pending = mem.pending
         /\ Adopted.text = mem.text /\ Adopted.staged = mem.staged
         /\ Adopted.dirty = FALSE
<1>1. mem \in Memory /\ file[mem.off] \in FooterChunk
  BY ChunkKinds DEF Shape, Types, MemoryOK, Loads, IsFooter
<1> QED BY <1>1 DEF Adopted, Memory

LEMMA UnstagedFacts ==
  ASSUME NEW m \in Memory
  PROVE  LET n == [m EXCEPT !.staged = {}] IN
         /\ n \in Memory
         /\ n.off = m.off /\ n.gen = m.gen /\ n.footer = m.footer
         /\ n.items = m.items /\ n.payload = m.payload /\ n.text = m.text
         /\ n.pending = m.pending /\ n.staged = {} /\ n.dirty = m.dirty
BY DEF Memory

(* A publish, acknowledged or not, and a commit() that has nothing to do.  *)
Published ==
  /\ Unacknowledged /\ handle' = "open" /\ phase' = "idle"
  /\ UNCHANGED <<file, synced, header, images, puts, mode>>
  /\ mem' \in Memory
  /\ mem'.off = mem.off /\ mem'.gen = mem.gen
  /\ mem'.footer \in {mem.footer, file[mem.off]}
  /\ phase = "publish" => mem'.footer = file[mem.off]
  /\ phase = "idle" => mem'.footer = mem.footer
  /\ mem'.items = mem.items /\ mem'.payload = mem.payload
  /\ mem'.pending = mem.pending /\ mem'.text = mem.text /\ ~mem'.dirty
  /\ \/ /\ mem'.staged = {} /\ acked' = acked \cup mem.staged
        /\ committed' = mem.items /\ attempts' = {} /\ errors' = errors
     \/ /\ mem'.staged = mem.staged /\ UNCHANGED <<acked, committed, attempts>>
        /\ errors' = errors + 1 /\ errors < mode.errors

LEMMA PublishedFacts ==
  ASSUME Shape,
         \/ Publish \/ PublishErr
         \/ CommitNoOp /\ mem.staged # {}
  PROVE  Published
<1>1. handle = "open"
  BY DEF Publish, PublishErr, CommitNoOp, Idle, Shape, Types
<1>2. /\ Adopted \in Memory
      /\ Adopted.off = mem.off /\ Adopted.gen = mem.gen
      /\ Adopted.footer = file[mem.off] /\ Adopted.items = mem.items
      /\ Adopted.payload = mem.payload /\ Adopted.pending = mem.pending
      /\ Adopted.text = mem.text /\ Adopted.staged = mem.staged
      /\ Adopted.dirty = FALSE
  BY <1>1, AdoptedFacts
<1>3. mem \in Memory
  BY <1>1 DEF Shape, Types
<1>4. CASE Publish
  <2>1. /\ mem' = [Adopted EXCEPT !.staged = {}] /\ acked' = acked \cup Adopted.staged
        /\ committed' = Adopted.items /\ attempts' = {} /\ phase = "publish"
        /\ phase' = "idle" /\ UNCHANGED <<file, synced, header, images, puts, mode,
                                          handle, errors>>
    BY <1>4 DEF Publish, Acknowledge, disk
  <2>2. /\ mem' \in Memory
        /\ mem'.off = Adopted.off /\ mem'.gen = Adopted.gen
        /\ mem'.footer = Adopted.footer
        /\ mem'.items = Adopted.items /\ mem'.payload = Adopted.payload
        /\ mem'.text = Adopted.text
        /\ mem'.pending = Adopted.pending /\ mem'.staged = {}
        /\ mem'.dirty = Adopted.dirty
    BY <1>2, <2>1, UnstagedFacts
  <2> QED BY <1>1, <1>2, <2>1, <2>2 DEF Published, Unacknowledged
<1>5. CASE PublishErr
  <2>1. /\ mem' = Adopted /\ UNCHANGED <<acked, committed, attempts>>
        /\ phase = "publish" /\ errors' = errors + 1 /\ errors < mode.errors
        /\ phase' = "idle" /\ UNCHANGED <<file, synced, header, images, puts, mode,
                                          handle>>
    BY <1>5 DEF PublishErr, disk, history
  <2> QED BY <1>1, <1>2, <2>1 DEF Published, Unacknowledged
<1>6. CASE CommitNoOp /\ mem.staged # {}
  <2>1. /\ mem' = [mem EXCEPT !.staged = {}] /\ acked' = acked \cup mem.staged
        /\ committed' = mem.items /\ attempts' = {} /\ phase = "idle"
        /\ ~mem.dirty /\ mem.staged # {}
        /\ UNCHANGED <<file, synced, header, images, puts, mode, handle, phase,
                       errors>>
    BY <1>6 DEF CommitNoOp, Idle, Acknowledge, disk
  <2>2. /\ mem' \in Memory
        /\ mem'.off = mem.off /\ mem'.gen = mem.gen
        /\ mem'.footer = mem.footer
        /\ mem'.items = mem.items /\ mem'.payload = mem.payload
        /\ mem'.text = mem.text
        /\ mem'.pending = mem.pending /\ mem'.staged = {}
        /\ mem'.dirty = mem.dirty
    BY <1>3, <2>1, UnstagedFacts
  <2> QED BY <1>1, <2>1, <2>2 DEF Published, Unacknowledged
<1> QED BY <1>4, <1>5, <1>6

LEMMA PublishedShape ==
  ASSUME Shape, Published
  PROVE  Shape'
<1> USE DEF Shape
<1>1. /\ handle = "open" /\ handle' = "open" /\ phase' = "idle" /\ mem \in Memory
      /\ mem.pending = {} /\ UNCHANGED <<file, synced, header, images, puts, mode>>
      /\ mem.items \subseteq 1..puts /\ mem.staged \subseteq mem.items
      /\ errors \in Nat /\ mode.errors \in Nat /\ errors <= mode.errors
  BY Bounds DEF Published, Unacknowledged, Types, MemoryOK, Covered
<1>2. Types'
  <2>1. errors' \in 0..mode.errors
    BY <1>1 DEF Published
  <2>2. acked' \subseteq 1..puts /\ committed' \subseteq 1..puts
    BY <1>1 DEF Published, Types
  <2> QED BY <1>1, <2>1, <2>2 DEF Published, Types
<1>3. FirstFooter' /\ FootersOK'
  BY <1>1 DEF FirstFooter, FootersOK, FooterOK, IsFooter
<1>4. \A r \in mem'.footer.roots : r \in DOMAIN file /\ file[r] = Roots
  <2>1. \A r \in mem.footer.roots : r \in DOMAIN file /\ file[r] = Roots
    BY <1>1 DEF MemoryOK
  <2>2. Loads(mem.off) /\ IsFooter(mem.off) /\ FooterOK(mem.off)
        /\ file[mem.off] \in FooterChunk
    BY <1>1, ChunkKinds DEF MemoryOK, Loads, IsFooter, FootersOK, Types
  <2>3. \A r \in file[mem.off].roots : r \in Nat /\ 1 <= r /\ r < mem.off
    BY <2>2 DEF FooterOK, FooterChunk
  <2>4. mem.off \in 1..Len(file) /\ Len(file) \in Nat /\ DOMAIN file = 1..Len(file)
    BY <2>2, Bounds DEF IsFooter
  <2>5. \A r \in file[mem.off].roots : r \in DOMAIN file /\ file[r] = Roots
    BY <2>2, <2>3, <2>4 DEF Loads
  <2> QED BY <2>1, <2>5 DEF Published
<1>5. MemoryOK'
  <2>1. Loads(mem.off)' /\ file'[mem'.off].gen = mem'.gen
    BY <1>1 DEF MemoryOK, Published, Loads, IsFooter
  <2> QED BY <1>1, <1>4, <2>1 DEF MemoryOK, Published
<1>6. Committing'
  BY <1>1 DEF Committing
<1>7. Covered'
  BY <1>1 DEF Covered, Unacknowledged, Published
<1> QED BY <1>2, <1>3, <1>5, <1>6, <1>7

(* The steps that leave the file and the memory alone: a flush, the fsync  *)
(* of a commit, a process that ends.                                       *)
Quiet ==
  /\ UNCHANGED <<file, header, acked, committed, attempts, puts, mode>>
  /\ \/ /\ UNCHANGED <<handle, mem, phase, errors>>
        /\ \/ UNCHANGED <<synced, images>>
           \/ synced' = DOMAIN file /\ images' = {header}
     \/ /\ phase = "fsync" /\ phase' = "publish" /\ UNCHANGED <<handle, mem, errors>>
        /\ synced' = DOMAIN file /\ images' = {header}
     \/ /\ phase = "fsync" /\ phase' = "idle"
        /\ UNCHANGED <<handle, mem, synced, images>>
        /\ errors' = errors + 1 /\ errors < mode.errors
     \/ /\ handle = "open" /\ handle' = "closed" /\ phase' = "idle"
        /\ mem' = NotLoaded /\ UNCHANGED <<synced, images, errors>>
        /\ phase = "fsync" => mode.midcommit

LEMMA QuietFacts ==
  ASSUME Shape,
         \/ Flush \/ FsyncOk \/ FsyncErr \/ Die \/ UNCHANGED vars
         \/ CommitNoOp /\ mem.staged = {}
  PROVE  Quiet
BY DEF Flush, FsyncOk, FsyncErr, Die, Stop, CommitNoOp, vars, disk, history, Quiet

(* A step that keeps the memory keeps what is said of it.                  *)
LEMMA QuietShape ==
  ASSUME Shape, Quiet
  PROVE  Shape'
<1> USE DEF Shape
<1>1. FirstFooter' /\ FootersOK'
  BY DEF FirstFooter, FootersOK, FooterOK, IsFooter, Quiet
<1>2. Types'
  <2>1. errors' \in 0..mode.errors
    BY Bounds DEF Quiet, Types
  <2> QED BY <2>1 DEF Quiet, Types
<1>3. CASE handle' = "open"
  <2>1. handle = "open" /\ mem' = mem
    BY <1>3, <1>2 DEF Quiet, Types
  <2>2. MemoryOK'
    BY <2>1 DEF Quiet, MemoryOK, Loads, IsFooter
  <2>3. UNCHANGED <<file, header, mem, attempts>>
    BY <2>1 DEF Quiet
  <2>4. CASE UNCHANGED <<handle, mem, phase, errors, synced, images>>
    BY <1>1, <1>2, <2>2, <2>3, <2>4 DEF Committing, Covered, Unacknowledged
  <2>5. CASE /\ UNCHANGED phase \/ (phase = "fsync" /\ phase' = "publish")
             /\ synced' = DOMAIN file /\ images' = {header}
    BY <1>1, <1>2, <2>1, <2>2, <2>3, <2>5
       DEF Committing, Covered, Unacknowledged
  <2>6. CASE phase = "fsync" /\ phase' = "idle"
    BY <1>1, <1>2, <2>2, <2>3, <2>6 DEF Committing, Covered, Unacknowledged
  <2> QED BY <1>3, <2>4, <2>5, <2>6 DEF Quiet
<1>4. CASE handle' # "open"
  BY <1>1, <1>2, <1>4 DEF MemoryOK, Committing, Covered, Unacknowledged, Types
<1> QED BY <1>3, <1>4

-----------------------------------------------------------------------------
(* Every step is one of those above.                                       *)
LEMMA WriteFacts ==
  ASSUME Shape, CommitWrites \/ CommitFails
  PROVE  FailedEarly \/ (Wrote /\ (HeaderWritten \/ HeaderNotWritten))
<1>1. CASE CommitWrites
  <2> DEFINE f1 == FlushedFile(file, mem)
             m1 == FlushedMem(file, mem)
             f2 == f1 \o <<Roots, NewFooter(m1, Len(f1) + 1)>>
  <2>1. /\ StartCommit /\ file' = f2
        /\ header' = [off |-> Len(f2), gen |-> mem.gen + 1]
        /\ synced' = IF FlushSyncs THEN synced \cup DOMAIN f1 ELSE synced
        /\ images' = (IF FlushSyncs THEN {header} ELSE images) \cup {header'}
        /\ mem' = [m1 EXCEPT !.off = Len(f2), !.gen = mem.gen + 1, !.text = {}]
        /\ phase' = "fsync" /\ attempts' = attempts \cup {mem.items}
        /\ UNCHANGED <<handle, mode, acked, committed, puts, errors>>
    BY <1>1 DEF CommitWrites
  <2>2. Wrote
    <3> HIDE DEF f1, m1
    <3>1. mem' = [m1 EXCEPT !.off = Len(file'), !.gen = mem.gen + 1, !.text = {}]
      BY <2>1
    <3> QED BY <2>1, <3>1, WroteFacts DEF f1, m1
  <2>3. HeaderWritten
    <3> HIDE DEF f2
    <3> QED BY <2>1 DEF HeaderWritten
  <2> QED BY <2>2, <2>3
<1>2. CASE CommitFails /\ (FailPayload \/ FailRoots)
  BY <1>2, FailedEarlyFacts
<1>3. CASE CommitFails /\ FailHeader
  <2>1. /\ StartCommit /\ errors' = errors + 1 /\ errors < mode.errors
        /\ UNCHANGED <<header, handle, phase, acked, committed, puts, mode>>
        /\ attempts' = attempts \cup {mem.items}
        /\ images' = IF FlushSyncs THEN {header} ELSE images
    BY <1>3 DEF CommitFails, FailHeader
  <2>2. Wrote
    <3>1. LET f1 == FlushedFile(file, mem)
              m1 == FlushedMem(file, mem)
          IN  /\ file' = f1 \o <<Roots, NewFooter(m1, Len(f1) + 1)>>
              /\ mem' = [m1 EXCEPT !.off = Len(file'), !.gen = mem.gen + 1,
                                   !.text = {}]
              /\ synced' = IF FlushSyncs THEN synced \cup DOMAIN f1 ELSE synced
      BY <1>3 DEF FailHeader
    <3> QED BY <2>1, <3>1, WroteFacts
  <2>3. HeaderNotWritten
    BY <2>1 DEF HeaderNotWritten, StartCommit, Idle
  <2> QED BY <2>2, <2>3
<1> QED BY <1>1, <1>2, <1>3 DEF CommitFails

Step ==
  \/ Staged(puts + 1)
  \/ Wrote /\ (HeaderWritten \/ HeaderNotWritten)
  \/ FailedEarly
  \/ Published
  \/ Quiet
  \/ Stop /\ Lost
  \/ Open

LEMMA StepFacts ==
  ASSUME Shape, [Next]_vars
  PROVE  Step
<1>1. CASE PutFrame \/ PutFrameErr
  BY <1>1, StageFacts DEF Step
<1>2. CASE CommitWrites \/ CommitFails
  BY <1>2, WriteFacts DEF Step
<1>3. CASE Publish \/ PublishErr \/ (CommitNoOp /\ mem.staged # {})
  BY <1>3, PublishedFacts DEF Step
<1>4. CASE \/ Flush \/ FsyncOk \/ FsyncErr \/ Die \/ UNCHANGED vars
           \/ CommitNoOp /\ mem.staged = {}
  BY <1>4, QuietFacts DEF Step
<1>5. CASE PowerLoss
  BY <1>5, LostFacts DEF Step, PowerLoss
<1>6. CASE Open
  BY <1>6 DEF Step
<1> QED BY <1>1, <1>2, <1>3, <1>4, <1>5, <1>6 DEF Next

LEMMA ShapeStep == Shape /\ [Next]_vars => Shape'
BY StepFacts, StageShape, WroteShape, FailedEarlyShape, PublishedShape,
   QuietShape, LostShape, OpenShape DEF Step

(* The types hold for any settings.  Part of them: a pending payload batch *)
(* keeps the handle dirty, so no commit() returns early and leaves it out  *)
(* (commit.rs, the early return of commit_phase_writes).                   *)
THEOREM TypeCorrect == Spec => []TypeOK
<1>1. Shape => TypeOK
  <2> SUFFICES ASSUME Shape PROVE TypeOK
    OBVIOUS
  <2>1. \A i \in DOMAIN file : file[i].kind \in {"data", "roots", "junk", "footer"}
    BY ChunkKinds DEF Shape, Types
  <2>2. header \in [off : Nat, gen : Nat]
    BY DEF Shape, Types
  <2> QED BY <2>1, <2>2, Bounds DEF Shape, Types, FirstFooter, MemoryOK, TypeOK
<1> QED BY ShapeInit, ShapeStep, <1>1, PTL DEF Spec

(* lifecycle.rs: "any file that ever committed successfully has at least   *)
(* one recoverable snapshot".  Under any setting, with errors, torn        *)
(* headers, lost and reordered pages and deaths anywhere, open() finds a   *)
(* footer that loads.                                                      *)
THEOREM AlwaysOpens == Spec => []OpenSucceeds
<1>1. Shape /\ OpenSucceeds /\ [Next]_vars => OpenSucceeds'
  <2> SUFFICES ASSUME Shape, OpenSucceeds, [Next]_vars PROVE OpenSucceeds'
    OBVIOUS
  <2>1. CASE Open
    BY <2>1, OpenFacts DEF OpenSucceeds
  <2>2. CASE ~Open
    BY <2>2, StepFacts DEF Step, OpenSucceeds, Staged, Wrote, FailedEarly,
       Published, Quiet, Stop
  <2> QED BY <2>1, <2>2
<1>2. Init => OpenSucceeds
  BY DEF Init, OpenSucceeds
<1> QED BY ShapeInit, ShapeStep, <1>1, <1>2, PTL DEF Spec

-----------------------------------------------------------------------------
(* Payloads.                                                               *)

(* A reference is to a frame that was put and to a chunk of the file.      *)
LEMMA RefRange ==
  ASSUME Shape, NEW p \in Nat \X Nat, Refers(p)
  PROVE  p[1] \in 1..puts /\ p[2] \in DOMAIN file
<1> USE DEF Shape
<1>1. CASE handle = "open" /\ p \in mem.payload
  BY <1>1 DEF MemoryOK
<1>2. ASSUME NEW o \in DOMAIN file, IsFooter(o), p \in file[o].payload
      PROVE  p[1] \in 1..puts /\ p[2] \in DOMAIN file
  <2>1. p[1] \in 1..puts /\ 1 <= p[2] /\ p[2] < o
    BY <1>2 DEF FootersOK, FooterOK
  <2>2. p[2] \in Nat /\ o \in 1..Len(file) /\ Len(file) \in Nat
        /\ DOMAIN file = 1..Len(file)
    BY Bounds
  <2> QED BY <2>1, <2>2
<1> QED BY <1>1, <1>2 DEF Refers

(* When the file grows and a batch B that nobody referred to is written,   *)
(* references stay unique and acknowledged data stays where it is.         *)
LEMMA RefsGrow ==
  ASSUME Shape, Payloads, Extends(file, file'), synced \subseteq synced',
         acked' = acked, NEW B,
         acked \cap B = {},
         \A p \in Nat \X Nat : Refers(p) => p[1] \notin B,
         \A p \in Nat \X Nat :
           Refers(p)' => Refers(p) \/ (p[1] \in B /\ p[2] = Len(file) + 1)
  PROVE  OneRef' /\ AckedData'
<1>1. OneRef'
  BY DEF Payloads, OneRef
<1>2. AckedData'
  <2> SUFFICES ASSUME NEW i \in acked
               PROVE  \E k \in synced' : /\ file'[k] = Data
                        /\ \A p \in Nat \X Nat : Refers(p)' /\ p[1] = i => p[2] = k
    BY DEF AckedData
  <2>1. PICK k \in synced : /\ file[k] = Data
           /\ \A p \in Nat \X Nat : Refers(p) /\ p[1] = i => p[2] = k
    BY DEF Payloads, AckedData
  <2>2. k \in synced' /\ file'[k] = Data
    BY <2>1 DEF Extends, Shape, FirstFooter
  <2>3. i \notin B
    OBVIOUS
  <2> QED BY <2>1, <2>2, <2>3
<1> QED BY <1>1, <1>2

(* The staged frames that are not pending have their data when a batch B   *)
(* that contains what was pending is written at the end of the file.       *)
LEMMA FlushedData ==
  ASSUME Shape, handle = "open", NEW m \in Memory, NEW B \in SUBSET Nat,
         StagedData, Extends(file, file'),
         m.payload = Flushed(mem.payload, B, Len(file) + 1),
         m.staged \subseteq mem.staged \cup B, mem.pending \subseteq B,
         B # {} => file'[Len(file) + 1] = Data
  PROVE  \A j \in m.staged : \E p \in m.payload : p[1] = j /\ file'[p[2]] = Data
<1> SUFFICES ASSUME NEW j \in m.staged
             PROVE  \E p \in m.payload : p[1] = j /\ file'[p[2]] = Data
  OBVIOUS
<1>1. mem \in Memory /\ Len(file) + 1 \in Nat
  BY Bounds DEF Shape, Types
<1>2. CASE j \in B
  <2>1. <<j, Len(file) + 1>> \in m.payload
    BY <1>1, <1>2 DEF Flushed
  <2> QED BY <1>2, <2>1
<1>3. CASE j \in mem.staged \ mem.pending
  <2>1. PICK p \in mem.payload : p[1] = j /\ file[p[2]] = Data
    BY <1>3 DEF StagedData
  <2>2. p[2] \in DOMAIN file
    BY <2>1 DEF Shape, MemoryOK
  <2>3. p \in m.payload
    BY <1>1, <2>1 DEF Flushed, Memory
  <2> QED BY <2>1, <2>2, <2>3 DEF Extends
<1> QED BY <1>2, <1>3

LEMMA StagePayloads ==
  ASSUME Shape, Payloads, Staged(puts + 1)
  PROVE  Payloads'
<1> USE DEF Shape
<1> DEFINE i == puts + 1
           B == IF mem'.pending = {} THEN mem.pending \cup {i} ELSE {}
<1>1. /\ i \in Nat /\ i \notin 1..puts /\ handle = "open" /\ handle' = "open"
      /\ mem \in Memory /\ mem' \in Memory /\ acked \subseteq 1..puts
      /\ acked' = acked /\ mem'.staged \subseteq mem.staged \cup {i}
      /\ Extends(file, file') /\ file' \in Seq(Chunk)
  BY Bounds DEF Staged, Types
<1>2. \A p \in Nat \X Nat : Refers(p) => p[1] \notin mem.pending \cup {i}
  BY <1>1, RefRange DEF Payloads, PendingUnwritten
<1>3. acked \cap (mem.pending \cup {i}) = {}
  BY <1>1 DEF Payloads, PendingUnwritten
<1>4. \A o : /\ IsFooter(o)' <=> IsFooter(o)
             /\ IsFooter(o) => file'[o] = file[o] /\ o \in DOMAIN file
  <2>1. \A o \in DOMAIN file' \ DOMAIN file : file'[o].kind # "footer"
    BY ChunkKinds DEF Staged
  <2> QED BY <1>1, <2>1, SameFooters
<1>5. \A p \in Nat \X Nat :
        Refers(p)' => Refers(p) \/ (p[1] \in B /\ p[2] = Len(file) + 1)
  BY <1>1, <1>4 DEF Refers, Staged, Flushed
<1>6. synced \subseteq synced'
  BY <1>1 DEF Staged, FirstFooter, Extends
<1>7. OneRef' /\ AckedData'
  <2>1. acked \cap B = {} /\ \A p \in Nat \X Nat : Refers(p) => p[1] \notin B
    BY <1>2, <1>3
  <2> HIDE DEF B
  <2> QED BY <1>1, <1>5, <1>6, <2>1, RefsGrow
<1>8. PendingUnwritten'
  <2>1. CASE mem'.pending = {}
    BY <2>1 DEF PendingUnwritten
  <2>2. CASE mem'.pending = mem.pending \cup {i} /\ mem'.pending # {}
    BY <1>1, <1>2, <1>3, <1>5, <2>2 DEF PendingUnwritten
  <2> QED BY <2>1, <2>2 DEF Staged
<1>9. StagedData'
  <2>1. CASE mem'.pending = mem.pending \cup {i} /\ mem'.payload = mem.payload
    <3> SUFFICES ASSUME NEW j \in mem'.staged, j \notin mem'.pending
                 PROVE  \E p \in mem'.payload : p[1] = j /\ file'[p[2]] = Data
      BY DEF StagedData
    <3>1. PICK p \in mem.payload : p[1] = j /\ file[p[2]] = Data
      BY <1>1, <2>1 DEF Payloads, StagedData
    <3>2. p[2] \in DOMAIN file
      BY <1>1, <3>1 DEF MemoryOK
    <3> QED BY <1>1, <2>1, <3>1, <3>2 DEF Extends
  <2>2. CASE /\ mem'.pending = {} /\ file'[Len(file) + 1] = Data
             /\ mem'.payload = Flushed(mem.payload, mem.pending \cup {i}, Len(file) + 1)
    <3>1. mem.pending \cup {i} \in SUBSET Nat
      BY <1>1 DEF Memory
    <3>2. \A j \in mem'.staged : \E p \in mem'.payload :
            p[1] = j /\ file'[p[2]] = Data
      BY <1>1, <2>2, <3>1, FlushedData DEF Payloads
    <3> QED BY <3>2 DEF StagedData
  <2> QED BY <2>1, <2>2 DEF Staged
<1> QED BY <1>7, <1>8, <1>9 DEF Payloads

(* The same for the writes of a commit, whole or broken off.               *)
LEMMA WrotePayloads ==
  ASSUME Shape, Payloads, Wrote \/ FailedEarly
  PROVE  Payloads'
<1> USE DEF Shape
<1> DEFINE B == IF mem'.pending = {} THEN mem.pending ELSE {}
<1>1. /\ handle = "open" /\ handle' = "open" /\ mem \in Memory /\ mem' \in Memory
      /\ acked' = acked /\ mem'.staged = mem.staged
      /\ Extends(file, file') /\ file' \in Seq(Chunk) /\ synced \subseteq synced'
  BY DEF Wrote, FailedEarly, Types
<1>2. /\ \A p \in Nat \X Nat : Refers(p) => p[1] \notin mem.pending
      /\ acked \cap mem.pending = {}
  BY <1>1 DEF Payloads, PendingUnwritten
<1>3. \/ mem'.pending = mem.pending /\ mem'.payload = mem.payload
      \/ /\ mem'.pending = {}
         /\ mem'.payload = Flushed(mem.payload, mem.pending, Len(file) + 1)
         /\ mem.pending # {} => file'[Len(file) + 1] = Data
  BY DEF Wrote, FailedEarly
<1>4. ASSUME NEW o, IsFooter(o)'
      PROVE  \/ IsFooter(o) /\ file'[o] = file[o] /\ o \in DOMAIN file
             \/ file'[o].payload = mem'.payload
  <2>1. o \in DOMAIN file' /\ file'[o].kind = "footer"
    BY <1>4 DEF IsFooter
  <2>2. CASE o \in DOMAIN file
    BY <1>1, <2>1, <2>2 DEF IsFooter, Extends
  <2>3. CASE o \notin DOMAIN file /\ FailedEarly
    BY <2>1, <2>3, ChunkKinds DEF FailedEarly
  <2>4. CASE o \notin DOMAIN file /\ Wrote
    <3>1. o >= Len(file') - 1 /\ o # Len(file') - 1
      BY <2>1, <2>4, ChunkKinds DEF Wrote
    <3>2. o \in 1..Len(file') /\ Len(file') \in Nat
      BY <1>1, <2>1
    <3>3. o = Len(file')
      BY <3>1, <3>2
    <3> QED BY <2>4, <3>3 DEF Wrote
  <2> QED BY <2>2, <2>3, <2>4
<1>5. \A p \in Nat \X Nat :
        Refers(p)' => Refers(p) \/ (p[1] \in B /\ p[2] = Len(file) + 1)
  <2> SUFFICES ASSUME NEW p \in Nat \X Nat, Refers(p)', ~Refers(p)
               PROVE  p[1] \in B /\ p[2] = Len(file) + 1
    OBVIOUS
  <2>1. p \in mem'.payload /\ p \notin mem.payload
    BY <1>1, <1>4 DEF Refers
  <2> QED BY <1>3, <2>1 DEF Flushed
<1>6. OneRef' /\ AckedData'
  <2>1. acked \cap B = {} /\ \A p \in Nat \X Nat : Refers(p) => p[1] \notin B
    BY <1>2
  <2> HIDE DEF B
  <2> QED BY <1>1, <1>5, <2>1, RefsGrow
<1>7. PendingUnwritten'
  <2>1. CASE mem'.pending = {}
    BY <2>1 DEF PendingUnwritten
  <2>2. CASE mem'.pending = mem.pending /\ mem'.pending # {}
    BY <1>1, <1>2, <1>5, <2>2 DEF PendingUnwritten
  <2> QED BY <1>3, <2>1, <2>2
<1>8. StagedData'
  <2>1. CASE mem'.pending = mem.pending /\ mem'.payload = mem.payload
    <3> SUFFICES ASSUME NEW j \in mem'.staged, j \notin mem'.pending
                 PROVE  \E p \in mem'.payload : p[1] = j /\ file'[p[2]] = Data
      BY DEF StagedData
    <3>1. PICK p \in mem.payload : p[1] = j /\ file[p[2]] = Data
      BY <1>1, <2>1 DEF Payloads, StagedData
    <3>2. p[2] \in DOMAIN file
      BY <1>1, <3>1 DEF MemoryOK
    <3> QED BY <1>1, <2>1, <3>1, <3>2 DEF Extends
  <2>2. CASE /\ mem'.payload = Flushed(mem.payload, mem.pending, Len(file) + 1)
             /\ mem.pending # {} => file'[Len(file) + 1] = Data
    <3>1. mem.pending \in SUBSET Nat
      BY <1>1 DEF Memory
    <3>2. \A j \in mem'.staged : \E p \in mem'.payload :
            p[1] = j /\ file'[p[2]] = Data
      BY <1>1, <2>2, <3>1, FlushedData DEF Payloads
    <3> QED BY <3>2 DEF StagedData
  <2> QED BY <1>3, <2>1, <2>2
<1> QED BY <1>6, <1>7, <1>8 DEF Payloads

(* An acknowledgement finds the data of what it acknowledges on disk.      *)
LEMMA PublishedPayloads ==
  ASSUME Shape, Payloads, Published
  PROVE  Payloads'
<1> USE DEF Shape
<1>1. /\ handle = "open" /\ handle' = "open" /\ mem \in Memory
      /\ mem.pending = {} /\ mem'.pending = {} /\ mem'.payload = mem.payload
      /\ mem'.staged \subseteq mem.staged
      /\ synced = DOMAIN file /\ UNCHANGED <<file, synced>>
      /\ acked' \subseteq acked \cup mem.staged
  BY DEF Published, Unacknowledged, Types, Covered
<1>2. \A p : Refers(p)' <=> Refers(p)
  BY <1>1 DEF Refers, IsFooter
<1>3. OneRef' /\ PendingUnwritten' /\ StagedData'
  BY <1>1, <1>2 DEF Payloads, OneRef, PendingUnwritten, StagedData
<1>4. AckedData'
  <2> SUFFICES ASSUME NEW i \in acked'
               PROVE  \E k \in synced : /\ file[k] = Data
                        /\ \A p \in Nat \X Nat : Refers(p) /\ p[1] = i => p[2] = k
    BY <1>1, <1>2 DEF AckedData
  <2>1. CASE i \in acked
    BY <2>1 DEF Payloads, AckedData
  <2>2. CASE i \in mem.staged
    <3>1. PICK q \in mem.payload : q[1] = i /\ file[q[2]] = Data
      BY <1>1, <2>2 DEF Payloads, StagedData
    <3>2. Refers(q) /\ q \in Nat \X Nat /\ q[2] \in DOMAIN file
      BY <1>1, <3>1 DEF Refers, Memory, MemoryOK
    <3>3. \A p \in Nat \X Nat : Refers(p) /\ p[1] = i => p[2] = q[2]
      BY <3>1, <3>2 DEF Payloads, OneRef
    <3> QED BY <1>1, <3>1, <3>2, <3>3
  <2> QED BY <1>1, <2>1, <2>2
<1> QED BY <1>3, <1>4 DEF Payloads

(* The other steps write no payload and lose none that was synced.         *)
LEMMA OtherPayloads ==
  ASSUME Shape, Payloads, Quiet \/ Open \/ (Stop /\ Lost)
  PROVE  Payloads'
<1> USE DEF Shape
<1>1. /\ acked' = acked
      /\ \A p : Refers(p)' => Refers(p)
      /\ synced \subseteq synced' /\ \A k \in synced : file'[k] = file[k]
      /\ handle' = "open" =>
           \/ handle = "open" /\ mem' = mem /\ file' = file
           \/ mem'.pending = {} /\ mem'.staged = {}
  <2>1. CASE Quiet
    <3>1. handle' = "open" => handle = "open" /\ mem' = mem
      BY <2>1 DEF Quiet, Types
    <3> QED BY <2>1, <3>1 DEF Quiet, Refers, IsFooter, FirstFooter
  <2>2. CASE Open
    <3>1. PICK o \in DOMAIN file : Loads(o) /\ mem' = Loaded(file, o)
      BY <2>2, OpenFacts
    <3>2. IsFooter(o) /\ file[o] \in FooterChunk /\ file \in Seq(Chunk)
      BY <3>1, ChunkKinds DEF Loads, IsFooter, Types
    <3>3. mem'.payload = file[o].payload /\ mem'.pending = {} /\ mem'.staged = {}
      BY <3>1, <3>2, LoadedFacts
    <3>4. UNCHANGED <<file, synced, acked>>
      BY <2>2 DEF Open, disk, history
    <3>5. \A p : Refers(p)' => Refers(p)
      BY <3>2, <3>3, <3>4 DEF Refers, IsFooter
    <3> QED BY <3>3, <3>4, <3>5
  <2>3. CASE Stop /\ Lost
    <3>1. handle' = "closed" /\ acked' = acked
      BY <2>3 DEF Stop, history
    <3>2. \A o : IsFooter(o)' => IsFooter(o) /\ file'[o] = file[o]
      BY <2>3, LostFooters
    <3>3. \A p : Refers(p)' => Refers(p)
      BY <3>1, <3>2 DEF Refers, IsFooter
    <3> QED BY <2>3, <3>1, <3>3 DEF Lost
  <2> QED BY <2>1, <2>2, <2>3
<1>2. OneRef' /\ AckedData'
  BY <1>1 DEF Payloads, OneRef, AckedData
<1>3. PendingUnwritten' /\ StagedData'
  BY <1>1 DEF Payloads, PendingUnwritten, StagedData
<1> QED BY <1>2, <1>3 DEF Payloads

LEMMA PayloadsInit == Init => Payloads
<1> SUFFICES ASSUME Init PROVE Payloads
  OBVIOUS
<1>1. \A p : ~Refers(p)
  BY DEF Init, Refers, Footer, Loaded, IsFooter
<1> QED BY <1>1 DEF Init, Loaded, Payloads, OneRef, PendingUnwritten,
        StagedData, AckedData

LEMMA PayloadsStep == Shape /\ Payloads /\ [Next]_vars => Payloads'
BY StepFacts, StagePayloads, WrotePayloads, PublishedPayloads, OtherPayloads
   DEF Step

(* An acknowledged frame that the open handle holds can be read, under any *)
(* setting: its payload segment is the one its commit synced, also when    *)
(* what was recovered is older or newer than that commit.                  *)
THEOREM AckedStayReadable == Spec => []AckedReadable
<1>1. Shape /\ Payloads => AckedReadable
  <2> SUFFICES ASSUME Shape, Payloads, handle = "open",
                      NEW i \in acked \cap mem.items
               PROVE  \E p \in mem.payload : p[1] = i /\ file[p[2]] = Data
    BY DEF AckedReadable
  <2>1. PICK p \in mem.payload : p[1] = i
    BY DEF Shape, MemoryOK, Payloads, PendingUnwritten
  <2>2. Refers(p) /\ p \in Nat \X Nat
    BY <2>1 DEF Refers, Shape, Types, Memory
  <2> QED BY <2>1, <2>2 DEF Payloads, AckedData
<1> QED BY ShapeInit, ShapeStep, PayloadsInit, PayloadsStep, <1>1, PTL DEF Spec

-----------------------------------------------------------------------------
(* Text.                                                                   *)

LEMMA TextInit == Init => TextComplete
BY DEF Init, TextComplete, Footer, Loaded, IsFooter

LEMMA TextStep == Shape /\ TextComplete /\ [Next]_vars => TextComplete'
<1> SUFFICES ASSUME Shape, TextComplete, Step, errors' = 0
             PROVE  TextComplete'
  BY StepFacts DEF TextComplete
<1>0. errors \in Nat
  BY Bounds DEF Shape
<1>1. errors = 0
  BY <1>0 DEF Step, Staged, HeaderWritten, HeaderNotWritten, FailedEarly,
     Published, Quiet, Stop, Open
<1>2. /\ \A o : IsFooter(o) => file[o].items \subseteq file[o].text
      /\ handle = "open" =>
           /\ mem.footer.items \subseteq mem.footer.text
           /\ phase = "idle" => mem.items \subseteq mem.footer.text \cup mem.text
  BY <1>1 DEF TextComplete, IsFooter
<1>3. CASE Staged(puts + 1)
  <2>1. \A o \in DOMAIN file' \ DOMAIN file : file'[o].kind # "footer"
    BY <1>3, ChunkKinds DEF Staged
  <2>2. \A o : IsFooter(o)' => IsFooter(o) /\ file'[o] = file[o]
    BY <1>3, <2>1, SameFooters DEF Staged, Shape
  <2> QED BY <1>2, <1>3, <2>2 DEF Staged, TextComplete
<1>4. CASE Wrote /\ HeaderWritten
  <2>1. ASSUME NEW o \in DOMAIN file', IsFooter(o)'
        PROVE  file'[o].items \subseteq file'[o].text
    <3>1. CASE o \in DOMAIN file
      BY <1>2, <1>4, <2>1, <3>1 DEF Wrote, Extends, IsFooter
    <3>2. CASE o \notin DOMAIN file
      <4>1. o >= Len(file') - 1 /\ o # Len(file') - 1
        BY <1>4, <2>1, <3>2, ChunkKinds DEF Wrote, IsFooter
      <4>2. o \in 1..Len(file') /\ Len(file') \in Nat
        BY <1>4 DEF Wrote
      <4>3. o = Len(file')
        BY <4>1, <4>2
      <4> QED BY <1>2, <1>4, <4>3 DEF Wrote
    <3> QED BY <3>1, <3>2
  <2> QED BY <1>2, <1>4, <2>1 DEF Wrote, HeaderWritten, TextComplete
<1>5. CASE (Wrote /\ HeaderNotWritten) \/ FailedEarly
  BY <1>0, <1>1, <1>5 DEF HeaderNotWritten, FailedEarly
<1>6. CASE Published
  <2>1. \A o : IsFooter(o)' => IsFooter(o) /\ file'[o] = file[o]
    BY <1>6 DEF Published, IsFooter
  <2>2. IsFooter(mem.off) /\ file[mem.off].items = mem.items /\ handle = "open"
    BY <1>6 DEF Published, Unacknowledged, Shape, Covered, MemoryOK, Loads
  <2> QED BY <1>2, <1>6, <2>1, <2>2 DEF Published, Unacknowledged, TextComplete
<1>7. CASE Quiet
  <2>1. \A o : IsFooter(o)' => IsFooter(o) /\ file'[o] = file[o]
    BY <1>7 DEF Quiet, IsFooter
  <2>2. handle' = "open" => /\ handle = "open" /\ mem' = mem
                            /\ phase' = "idle" => phase = "idle"
    BY <1>0, <1>1, <1>7 DEF Quiet, Shape, Types
  <2> QED BY <1>2, <2>1, <2>2 DEF TextComplete
<1>8. CASE Stop /\ Lost
  BY <1>2, <1>8, LostFooters DEF Stop, TextComplete
<1>9. CASE Open
  <2>1. PICK o \in DOMAIN file : Loads(o) /\ mem' = Loaded(file, o)
    BY <1>9, OpenFacts
  <2>2. IsFooter(o) /\ file[o] \in FooterChunk /\ file \in Seq(Chunk)
    BY <2>1, ChunkKinds DEF Loads, IsFooter, Shape, Types
  <2>3. mem'.footer = file[o] /\ mem'.items = file[o].items
    BY <2>1, <2>2, LoadedFacts
  <2>4. UNCHANGED file
    BY <1>9 DEF Open, disk
  <2> QED BY <1>2, <2>2, <2>3, <2>4 DEF TextComplete, IsFooter
<1> QED BY <1>3, <1>4, <1>5, <1>6, <1>7, <1>8, <1>9 DEF Step

(* Until an I/O error is reported, every frame of an acknowledged commit   *)
(* is text-indexed by the footer that is served, under any setting and     *)
(* through any crashes (commit_phase_writes extends the text chain of the  *)
(* last published footer by what was staged since).                        *)
THEOREM TextUntilError == Spec => []IndexedUntilError
<1>1. TextComplete => IndexedUntilError
  BY DEF TextComplete, IndexedUntilError, AckedIndexed
<1> QED BY ShapeInit, ShapeStep, TextInit, TextStep, <1>1, PTL DEF Spec

-----------------------------------------------------------------------------
(* Whole snapshots on ordered storage.                                     *)

(* A whole footer stays whole when the chunks before it stay.              *)
LEMMA KeepsWhole ==
  ASSUME Shape, NEW o \in DOMAIN file, IsFooter(o), WholeFooter(o),
         o \in DOMAIN file', file'[o] = file[o],
         \A i \in DOMAIN file : i <= o => file'[i] = file[i]
  PROVE  WholeFooter(o)'
<1>1. FooterOK(o) /\ file[o] \in FooterChunk /\ DOMAIN file = 1..Len(file)
      /\ Len(file) \in Nat
  BY ChunkKinds, Bounds DEF Shape, FootersOK, IsFooter, Types
<1>2. \A k \in Nat : 1 <= k /\ k < o => file'[k] = file[k]
  BY <1>1
<1>3. file[o].roots \subseteq Nat /\ file[o].payload \subseteq Nat \X Nat
  BY <1>1 DEF FooterChunk
<1> QED BY <1>1, <1>2, <1>3 DEF FooterOK, WholeFooter

(* So do footers and references when the file grows.                       *)
LEMMA GrowsWhole ==
  ASSUME Shape, Whole, ~mode.reorder, Extends(file, file')
  PROVE  /\ \A o \in DOMAIN file : IsFooter(o) =>
              IsFooter(o)' /\ file'[o] = file[o] /\ WholeFooter(o)'
         /\ handle = "open" => \A p \in mem.payload : file'[p[2]] = Data
<1>1. ASSUME NEW o \in DOMAIN file, IsFooter(o)
      PROVE  IsFooter(o)' /\ file'[o] = file[o] /\ WholeFooter(o)'
  <2>1. /\ WholeFooter(o) /\ o \in DOMAIN file' /\ file'[o] = file[o]
        /\ \A i \in DOMAIN file : i <= o => file'[i] = file[i]
    BY <1>1 DEF Whole, Extends
  <2> QED BY <1>1, <2>1, KeepsWhole DEF IsFooter
<1> QED BY <1>1 DEF Whole, Extends, Shape, MemoryOK

LEMMA WholeInit == Init => Whole
BY DEF Init, Whole, WholeFooter, Footer, Loaded, IsFooter

LEMMA WholeStep == Shape /\ Whole /\ [Next]_vars => Whole'
<1> SUFFICES ASSUME Shape, Whole, Step, ~mode.reorder, mode' = mode
             PROVE  Whole'
  <2>1. ASSUME Shape, [Next]_vars PROVE mode' = mode
    BY <2>1, StepFacts DEF Step, Staged, Wrote, FailedEarly, Published, Quiet,
       Stop, Open
  <2> QED BY <2>1, StepFacts DEF Whole
<1>1. /\ file \in Seq(Chunk) /\ Len(file) \in Nat /\ DOMAIN file = 1..Len(file)
      /\ header \in images
  BY Bounds DEF Shape, Types
<1>2. ASSUME Extends(file, file'), images' \subseteq images
      PROVE  \A h \in images' : IsFooter(h.off)' /\ file'[h.off].gen = h.gen
  BY <1>2, GrowsWhole DEF Whole, IsFooter
<1>3. CASE Staged(puts + 1)
  <2>1. Extends(file, file') /\ images' \subseteq images /\ handle = "open"
    BY <1>1, <1>3 DEF Staged
  <2>2. \A o \in DOMAIN file' : IsFooter(o)' => WholeFooter(o)'
    <3>1. \A o \in DOMAIN file' \ DOMAIN file : file'[o].kind # "footer"
      BY <1>3, ChunkKinds DEF Staged
    <3> QED BY <2>1, <3>1, GrowsWhole DEF IsFooter, Extends
  <2>3. \A p \in mem'.payload : file'[p[2]] = Data
    BY <1>3, <2>1, GrowsWhole DEF Staged, Flushed
  <2> QED BY <1>2, <2>1, <2>2, <2>3 DEF Whole
<1>4. CASE Wrote /\ (HeaderWritten \/ HeaderNotWritten)
  <2>0. PICK L \in Nat : L = Len(file')
    BY <1>4 DEF Wrote
  <2>1. /\ Extends(file, file') /\ handle = "open"
        /\ DOMAIN file' = 1..L /\ L >= 2
        /\ file'[L - 1] = Roots /\ file'[L].kind = "footer"
        /\ file'[L].roots = mem.footer.roots \cup {L - 1}
        /\ file'[L].payload = Flushed(mem.payload, mem.pending, Len(file) + 1)
        /\ file'[L].gen = mem.gen + 1
        /\ mem.pending # {} => file'[Len(file) + 1] = Data
        /\ mem'.payload = file'[L].payload
    BY <1>1, <1>4, <2>0 DEF Wrote
  <2>2. WholeFooter(L)'
    <3>1. \A r \in mem.footer.roots : file'[r] = Roots
      BY <2>1 DEF Shape, MemoryOK, Extends
    <3>2. \A p \in file'[L].payload : file'[p[2]] = Data
      BY <2>1, GrowsWhole DEF Flushed
    <3> QED BY <2>1, <3>1, <3>2 DEF WholeFooter
  <2>3. ASSUME NEW o \in DOMAIN file', IsFooter(o)' PROVE WholeFooter(o)'
    <3>1. CASE o \in DOMAIN file
      BY <2>1, <2>3, <3>1, GrowsWhole DEF IsFooter, Extends
    <3>2. CASE o \notin DOMAIN file
      <4>1. o >= L - 1 /\ o # L - 1
        BY <1>4, <2>0, <2>3, <3>2, ChunkKinds DEF Wrote, IsFooter
      <4>2. o = L
        BY <2>1, <4>1
      <4> QED BY <2>2, <4>2
    <3> QED BY <3>1, <3>2
  <2>4. ASSUME NEW h \in images' PROVE IsFooter(h.off)' /\ file'[h.off].gen = h.gen
    <3>1. h \in images \/ h = [off |-> L, gen |-> mem.gen + 1]
      BY <1>1, <1>4, <2>0 DEF HeaderWritten, HeaderNotWritten
    <3>2. CASE h \in images
      BY <2>1, <3>2, GrowsWhole DEF Whole, IsFooter
    <3>3. CASE h = [off |-> L, gen |-> mem.gen + 1]
      BY <2>1, <3>3 DEF IsFooter
    <3> QED BY <3>1, <3>2, <3>3
  <2>5. \A p \in mem'.payload : file'[p[2]] = Data
    BY <2>1, <2>2 DEF WholeFooter
  <2> QED BY <2>3, <2>4, <2>5 DEF Whole
<1>5. CASE FailedEarly
  <2>1. Extends(file, file') /\ images' \subseteq images /\ handle = "open"
    BY <1>1, <1>5 DEF FailedEarly
  <2>2. \A o \in DOMAIN file' : IsFooter(o)' => WholeFooter(o)'
    <3>1. \A o \in DOMAIN file' \ DOMAIN file : file'[o].kind # "footer"
      BY <1>5, ChunkKinds DEF FailedEarly
    <3> QED BY <2>1, <3>1, GrowsWhole DEF IsFooter, Extends
  <2>3. \A p \in mem'.payload : file'[p[2]] = Data
    BY <1>5, <2>1, GrowsWhole DEF FailedEarly, Flushed
  <2> QED BY <1>2, <2>1, <2>2, <2>3 DEF Whole
<1>6. CASE Published \/ Quiet \/ Open
  <2>1. file' = file /\ images' \subseteq images
    BY <1>1, <1>6 DEF Published, Quiet, Open, disk
  <2>2. \A o : (IsFooter(o)' <=> IsFooter(o)) /\ (WholeFooter(o)' <=> WholeFooter(o))
    BY <2>1 DEF IsFooter, WholeFooter
  <2>3. handle' = "open" => \A p \in mem'.payload : file[p[2]] = Data
    <3>1. CASE Published
      BY <3>1 DEF Published, Unacknowledged, Whole
    <3>2. CASE Quiet
      BY <3>2 DEF Quiet, Shape, Types, Whole
    <3>3. CASE Open
      <4>1. PICK o \in DOMAIN file : Loads(o) /\ mem' = Loaded(file, o)
        BY <3>3, OpenFacts
      <4>2. IsFooter(o) /\ file[o] \in FooterChunk
        BY <4>1, ChunkKinds DEF Loads, IsFooter, Shape, Types
      <4>3. mem'.payload = file[o].payload
        BY <1>1, <4>1, <4>2, LoadedFacts
      <4> QED BY <4>2, <4>3 DEF Whole, WholeFooter
    <3> QED BY <1>6, <3>1, <3>2, <3>3
  <2> QED BY <2>1, <2>2, <2>3 DEF Whole
<1>7. CASE Stop /\ Lost
  <2>1. /\ file' \in Seq(Chunk) /\ DOMAIN file' \subseteq DOMAIN file
        /\ \A i \in DOMAIN file' : file'[i] = file[i]
        /\ header' \in images /\ header'.off <= Len(file') /\ images' = {header'}
        /\ handle' # "open"
    BY <1>7 DEF Lost, Stop
  <2>2. Len(file') \in Nat /\ DOMAIN file' = 1..Len(file')
    BY <2>1
  <2>3. ASSUME NEW o \in DOMAIN file', IsFooter(o)' PROVE WholeFooter(o)'
    <3>1. IsFooter(o) /\ o \in DOMAIN file /\ WholeFooter(o)
      BY <2>1, <2>3 DEF IsFooter, Whole
    <3>2. \A i \in DOMAIN file : i <= o => i \in DOMAIN file'
      BY <1>1, <2>2
    <3> QED BY <2>1, <3>1, <3>2, KeepsWhole
  <2>4. IsFooter(header.off)' /\ file'[header'.off].gen = header'.gen
    <3>1. IsFooter(header'.off) /\ file[header'.off].gen = header'.gen
      BY <2>1 DEF Whole
    <3>2. header'.off \in DOMAIN file'
      BY <1>1, <2>1, <2>2, <3>1 DEF IsFooter
    <3> QED BY <2>1, <3>1, <3>2 DEF IsFooter
  <2> QED BY <2>1, <2>3, <2>4 DEF Whole
<1> QED BY <1>3, <1>4, <1>5, <1>6, <1>7 DEF Step

(* On write-ordered storage the open snapshot is whole, with any errors    *)
(* and crashes: every payload it refers to, acknowledged or not, is data.  *)
THEOREM ServedWhole == Spec => []RecoveredReadable
<1>1. Whole => RecoveredReadable
  BY DEF Whole, RecoveredReadable
<1> QED BY ShapeInit, ShapeStep, WholeInit, WholeStep, <1>1, PTL DEF Spec

-----------------------------------------------------------------------------
(***************************************************************************)
(* What survives: that the open handle holds every acknowledged frame, and *)
(* that CommitFile implements SnapshotStore.  Both hold on write-ordered   *)
(* storage or, where pages and headers reach the disk in any order, as     *)
(* long as no I/O error is reported and no process dies inside commit().   *)
(* Without that condition they fail (the run CommitFile_orphan).           *)
(***************************************************************************)
Disciplined == \A s \in Settings : s.reorder => s.errors = 0 /\ ~s.midcommit

(* What may be open after a crash: the snapshot of the last commit that    *)
(* returned Ok, or one written since.                                      *)
Current(o) == file[o].items \in {committed} \cup attempts

Survive ==
  /\ \A s \in {committed} \cup attempts : acked \subseteq s
  /\ handle = "open" => acked \subseteq mem.items

(* Write-ordered storage: every header image names a current footer.       *)
ImagesCurrent == ~mode.reorder => \A h \in images : Current(h.off)

(***************************************************************************)
(* Storage that reorders and tears, without I/O errors and without deaths  *)
(* inside a commit: the scan compares generations, so every footer that is *)
(* no longer current must lie below one that is on disk and loads.         *)
(***************************************************************************)
Below(o, a) ==
  file[o].gen < file[a].gen \/ (file[o].gen = file[a].gen /\ o <= a)

Anchor(a) ==
  /\ a \in DOMAIN file
  /\ Loads(a) /\ Current(a)
  /\ \A o \in DOMAIN file : IsFooter(o) => file[o].gen <= file[a].gen + 1
  /\ \A o \in DOMAIN file : Loads(o) => Current(o) \/ Below(o, a)

OnDisk(top) == \A i \in DOMAIN file \ synced : file[i] = Data \/ i > top

(* Nothing of a commit is under way: the header names the footer in use,   *)
(* or it names none and the scan chose the highest generation.             *)
Rests ==
  handle = "open" /\ phase # "fsync" =>
    /\ OnDisk(Len(file)) /\ images = {header} /\ Anchor(mem.off)
    /\ \/ header = [off |-> mem.off, gen |-> mem.gen]
       \/ /\ ~HeaderUsable
          /\ \A o \in DOMAIN file : Loads(o) => file[o].gen <= mem.gen
    /\ Unacknowledged => \A o \in DOMAIN file : Loads(o) => Below(o, mem.off)

(* Between the writes and the fsync: the footer a that the commit extends  *)
(* is on disk, and any mixture of header images names it, the new footer   *)
(* or nothing.                                                             *)
InFlight ==
  phase = "fsync" =>
    /\ mem.off = Len(file)
    /\ OnDisk(mem.off - 2)
    /\ \E a \in 1..(mem.off - 2) :
         /\ Anchor(a)
         /\ mem.gen = file[a].gen + 1
         /\ \A g, h \in images :
              Loads(g.off) /\ file[g.off].gen = h.gen => g.off \in {a, mem.off}

Recoverable ==
  handle = "closed" =>
    /\ OnDisk(Len(file)) /\ images = {header}
    /\ \E a \in DOMAIN file : Anchor(a)
    /\ HeaderUsable => Anchor(header.off)

Scan == mode.reorder => Rests /\ InFlight /\ Recoverable

-----------------------------------------------------------------------------
(* The order of the scan.                                                  *)

LEMMA FooterRange ==
  ASSUME Shape, NEW o, IsFooter(o)
  PROVE  /\ o \in DOMAIN file /\ o \in Nat /\ 1 <= o /\ o <= Len(file)
         /\ file[o] \in FooterChunk /\ file[o].gen \in Nat
<1>1. o \in DOMAIN file /\ file[o] \in FooterChunk
  BY ChunkKinds DEF Shape, Types, IsFooter
<1>2. Len(file) \in Nat /\ DOMAIN file = 1..Len(file)
  BY Bounds DEF Shape
<1> QED BY <1>1, <1>2 DEF FooterChunk

LEMMA BelowAntisymmetric ==
  ASSUME Shape, NEW o, NEW a, IsFooter(o), IsFooter(a), Below(o, a), Below(a, o)
  PROVE  o = a
<1>1. /\ o \in Nat /\ a \in Nat /\ file[o].gen \in Nat /\ file[a].gen \in Nat
  BY FooterRange
<1> QED BY <1>1 DEF Below

(* What loads among the chunks that were there, when the file grows.       *)
LEMMA GrownLoads ==
  ASSUME Shape, Extends(file, file')
  PROVE  \A o \in DOMAIN file : /\ file'[o] = file[o]
                                /\ IsFooter(o)' <=> IsFooter(o)
                                /\ Loads(o)' <=> Loads(o)
<1> SUFFICES ASSUME NEW o \in DOMAIN file
             PROVE  /\ file'[o] = file[o]
                    /\ IsFooter(o)' <=> IsFooter(o)
                    /\ Loads(o)' <=> Loads(o)
  OBVIOUS
<1>1. file'[o] = file[o] /\ (IsFooter(o)' <=> IsFooter(o))
  BY DEF Extends, IsFooter
<1>2. ASSUME IsFooter(o), NEW r \in file[o].roots PROVE file'[r] = file[r]
  <2>1. FooterOK(o) /\ r \in Nat
    BY <1>2, FooterRange DEF Shape, FootersOK, FooterChunk
  <2>2. o \in Nat /\ o <= Len(file) /\ Len(file) \in Nat /\ DOMAIN file = 1..Len(file)
    BY Bounds DEF Shape
  <2>3. r \in DOMAIN file
    BY <1>2, <2>1, <2>2 DEF FooterOK
  <2> QED BY <2>3 DEF Extends
<1> QED BY <1>1, <1>2 DEF Loads

(* An anchor stays one when no other footer appears or changes.            *)
LEMMA AnchorStays ==
  ASSUME NEW a, Anchor(a), Loads(a)',
         \A o : IsFooter(o)' => IsFooter(o) /\ file'[o] = file[o],
         \A o : Loads(o)' => Loads(o),
         UNCHANGED <<committed, attempts>>
  PROVE  Anchor(a)'
<1>1. IsFooter(a)' /\ a \in DOMAIN file' /\ file'[a] = file[a]
  BY DEF Loads, IsFooter
<1>2. Current(a)'
  BY <1>1 DEF Anchor, Current
<1>3. \A o \in DOMAIN file' : IsFooter(o)' => file'[o].gen <= file'[a].gen + 1
  BY <1>1 DEF Anchor, IsFooter
<1>4. ASSUME NEW o \in DOMAIN file', Loads(o)' PROVE Current(o)' \/ Below(o, a)'
  <2>1. Loads(o) /\ file'[o] = file[o] /\ o \in DOMAIN file
    BY <1>4 DEF Loads, IsFooter
  <2> QED BY <1>1, <2>1 DEF Anchor, Current, Below
<1> QED BY <1>1, <1>2, <1>3, <1>4 DEF Anchor

(* While a commit is in flight its footer is itself an anchor, and nothing *)
(* lies above it.                                                          *)
LEMMA NewAnchor ==
  ASSUME Shape, phase = "fsync", InFlight
  PROVE  /\ Anchor(mem.off)
         /\ \A o \in DOMAIN file : IsFooter(o) => Below(o, mem.off)
<1>1. PICK a \in 1..(mem.off - 2) : Anchor(a) /\ mem.gen = file[a].gen + 1
  BY DEF InFlight
<1>2. handle = "open" /\ mem.off = Len(file)
  BY DEF Shape, Types, InFlight
<1>3. Loads(mem.off) /\ file[mem.off].gen = mem.gen /\ IsFooter(mem.off)
  BY <1>2 DEF Shape, MemoryOK, Loads
<1>4. Current(mem.off)
  BY DEF Shape, Committing, Current
<1>5. ASSUME NEW o \in DOMAIN file, IsFooter(o)
      PROVE  Below(o, mem.off) /\ file[o].gen <= file[mem.off].gen + 1
  <2>1. o \in Nat /\ o <= Len(file) /\ file[o].gen \in Nat /\ file[mem.off].gen \in Nat
    BY <1>3, <1>5, FooterRange
  <2>2. file[o].gen <= file[mem.off].gen
    BY <1>1, <1>3, <1>5 DEF Anchor
  <2> QED BY <1>2, <2>1, <2>2 DEF Below
<1>6. mem.off \in DOMAIN file
  BY <1>3 DEF IsFooter
<1> QED BY <1>3, <1>4, <1>5, <1>6 DEF Anchor, Loads

(* What open() takes is current: the header names an anchor, or the newest *)
(* footer is not below one.                                                *)
LEMMA OpenAnchor ==
  ASSUME Shape, Open, Recoverable, NEW o \in DOMAIN file, Loads(o),
         IF HeaderUsable THEN o = header.off
         ELSE \A p \in DOMAIN file : Loads(p) =>
                \/ file[p].gen < file[o].gen
                \/ file[p].gen = file[o].gen /\ p <= o
  PROVE  Anchor(o)
<1>1. CASE HeaderUsable
  BY <1>1 DEF Open, Recoverable
<1>2. CASE ~HeaderUsable
  <2>1. PICK a \in DOMAIN file : Anchor(a)
    BY DEF Open, Recoverable
  <2>2. \A p \in DOMAIN file : Loads(p) => Below(p, o)
    BY <1>2 DEF Below
  <2>3. IsFooter(o) /\ IsFooter(a) /\ Below(a, o)
    BY <2>1, <2>2 DEF Anchor, Loads
  <2>4. Current(o)
    BY <2>1, <2>3, BelowAntisymmetric DEF Anchor
  <2>5. ASSUME NEW p \in DOMAIN file, IsFooter(p)
        PROVE  file[p].gen <= file[o].gen + 1
    <3>1. /\ file[p].gen \in Nat /\ file[a].gen \in Nat /\ file[o].gen \in Nat
          /\ file[a].gen <= file[o].gen
      BY <2>3, <2>5, FooterRange DEF Below
    <3>2. file[p].gen <= file[a].gen + 1
      BY <2>1, <2>5 DEF Anchor
    <3> QED BY <3>1, <3>2
  <2> QED BY <2>2, <2>4, <2>5 DEF Anchor
<1> QED BY <1>1, <1>2

-----------------------------------------------------------------------------
(* The scan invariant, step by step, where storage reorders.               *)

LEMMA ScanInit == Init => Scan
<1> SUFFICES ASSUME Init PROVE Rests /\ InFlight /\ Recoverable
  BY DEF Scan
<1>1. /\ file = <<Footer(1, {}, {}, {}, {})>> /\ DOMAIN file = {1}
      /\ file[1] = Footer(1, {}, {}, {}, {}) /\ Len(file) = 1 /\ synced = {1}
      /\ mem.off = 1 /\ mem.gen = 1 /\ mem.staged = {}
      /\ header = [off |-> 1, gen |-> 1] /\ images = {header}
      /\ handle = "open" /\ phase = "idle" /\ committed = {}
  BY DEF Init, Loaded, Footer
<1>2. file[1].items = {} /\ file[1].gen = 1 /\ file[1].roots = {}
      /\ file[1].kind = "footer"
  BY <1>1 DEF Footer
<1>3. Anchor(1)
  BY <1>1, <1>2 DEF Anchor, Current, Loads, IsFooter, Below
<1>4. OnDisk(Len(file))
  BY <1>1 DEF OnDisk
<1> QED BY <1>1, <1>3, <1>4
        DEF Rests, InFlight, Recoverable, Unacknowledged

(* put_frame adds a data chunk at most.                                    *)
LEMMA StageScan ==
  ASSUME Shape, mode.errors = 0, Rests, Staged(puts + 1)
  PROVE  (Rests /\ InFlight /\ Recoverable)'
<1>1. /\ handle = "open" /\ phase = "idle" /\ handle' = "open" /\ phase' = "idle"
      /\ Extends(file, file') /\ file' \in Seq(Chunk) /\ errors' = 0
      /\ mem'.off = mem.off /\ mem'.gen = mem.gen /\ mem'.dirty = TRUE
      /\ images = {header} /\ images' = {header} /\ header' = header
      /\ Anchor(mem.off) /\ OnDisk(Len(file)) /\ synced \subseteq synced'
      /\ UNCHANGED <<committed, attempts>>
  <2>1. errors' = 0
    BY Bounds DEF Staged, Shape
  <2>2. handle = "open" /\ phase = "idle" /\ Extends(file, file')
    BY DEF Staged
  <2>3. images = {header} /\ Anchor(mem.off) /\ OnDisk(Len(file))
    BY <2>2 DEF Rests
  <2>4. synced \subseteq synced'
    BY <2>2 DEF Staged, Extends, Shape, FirstFooter
  <2> QED BY <2>1, <2>2, <2>3, <2>4 DEF Staged
<1>2. \A o \in DOMAIN file' \ DOMAIN file : file'[o] = Data
  BY <1>1 DEF Staged
<1>3. \A o : IsFooter(o)' => IsFooter(o) /\ file'[o] = file[o]
  <2>1. \A o \in DOMAIN file' \ DOMAIN file : file'[o].kind # "footer"
    BY <1>2, ChunkKinds
  <2> QED BY <1>1, <2>1, SameFooters DEF Shape
<1>4. \A o : Loads(o)' => Loads(o)
  BY <1>1, <1>3, GrownLoads DEF Loads, IsFooter
<1>5. Loads(mem.off)' /\ mem.off \in DOMAIN file /\ IsFooter(mem.off)
  <2>1. Loads(mem.off) /\ mem.off \in DOMAIN file
    BY <1>1 DEF Anchor
  <2>2. ASSUME NEW o \in DOMAIN file, Loads(o), mem'.off = o PROVE Loads(mem.off)'
    BY <1>1, <2>2, GrownLoads DEF Loads, IsFooter
  <2> QED BY <1>1, <2>1, <2>2 DEF Loads
<1>6. Anchor(mem.off)'
  <2>1. PICK a : a = mem.off
    OBVIOUS
  <2>2. Anchor(a)'
    BY <1>1, <1>3, <1>4, <1>5, <2>1, AnchorStays DEF Loads, IsFooter
  <2> QED BY <1>1, <2>1, <2>2 DEF Anchor, Loads, IsFooter, Current, Below
<1>7. OnDisk(Len(file))'
  <2>1. \A i \in DOMAIN file \ synced : file[i] = Data
    BY <1>1, Bounds DEF OnDisk, Shape
  <2> QED BY <1>1, <1>2, <2>1 DEF OnDisk, Extends
<1>8. \/ header' = [off |-> mem'.off, gen |-> mem'.gen]
      \/ /\ ~HeaderUsable'
         /\ \A o \in DOMAIN file' : Loads(o)' => file'[o].gen <= mem'.gen
  <2>1. HeaderUsable' => HeaderUsable
    BY <1>1, <1>3, <1>4 DEF HeaderUsable, Loads
  <2>2. ASSUME \A o \in DOMAIN file : Loads(o) => file[o].gen <= mem.gen
        PROVE  \A o \in DOMAIN file' : Loads(o)' => file'[o].gen <= mem'.gen
    BY <1>1, <1>3, <1>4, <2>2 DEF Loads, IsFooter
  <2> QED BY <1>1, <2>1, <2>2 DEF Rests
<1> QED BY <1>1, <1>6, <1>7, <1>8
        DEF Rests, InFlight, Recoverable, Unacknowledged

(* The writes of a commit, over the footer in use.  The header that was    *)
(* there named that footer, or nothing: it may now name the new footer,    *)
(* whose place in the file it had before a power loss cut it off.          *)
LEMMA WroteScan ==
  ASSUME Shape, Rests, Wrote, HeaderWritten
  PROVE  (Rests /\ InFlight /\ Recoverable)'
<1>0. PICK L \in Nat : L = Len(file')
  BY DEF Wrote
<1>1. /\ handle = "open" /\ phase = "idle" /\ handle' = "open" /\ phase' = "fsync"
      /\ Extends(file, file') /\ file' \in Seq(Chunk) /\ DOMAIN file' = 1..L
      /\ Len(file) \in Nat /\ DOMAIN file = 1..Len(file) /\ Len(file) + 2 <= L
      /\ mem'.off = L /\ mem'.gen = mem.gen + 1 /\ mem.gen \in Nat
      /\ header' = [off |-> L, gen |-> mem.gen + 1]
      /\ images = {header} /\ images' \subseteq {header, header'}
      /\ Anchor(mem.off) /\ OnDisk(Len(file)) /\ synced \subseteq synced'
      /\ committed' = committed /\ attempts' = attempts \cup {mem.items}
      /\ file'[L - 1] = Roots /\ file'[L].kind = "footer"
      /\ file'[L].gen = mem.gen + 1 /\ file'[L].items = mem.items
  <2>1. handle = "open" /\ phase = "idle" /\ mem \in Memory
    BY DEF Wrote, Shape, Types
  <2>2. images = {header} /\ Anchor(mem.off) /\ OnDisk(Len(file)) /\ mem.gen \in Nat
    BY <2>1 DEF Rests, Memory
  <2> QED BY <1>0, <2>1, <2>2, Bounds DEF Wrote, HeaderWritten, Shape
<1>2. ASSUME NEW o \in DOMAIN file', o \notin DOMAIN file
      PROVE  \/ file'[o] = Data /\ o <= L - 2
             \/ o = L - 1
             \/ o = L
  <2>1. (file'[o] = Data /\ o < L - 1) \/ o >= L - 1
    BY <1>0, <1>2 DEF Wrote
  <2>2. o \in Nat /\ o <= L
    BY <1>1, <1>2
  <2> QED BY <2>1, <2>2
<1>3. ASSUME NEW o, IsFooter(o)', o # L
      PROVE  o \in DOMAIN file /\ IsFooter(o) /\ file'[o] = file[o]
  BY <1>1, <1>2, <1>3, ChunkKinds DEF IsFooter, Extends
<1>4. ASSUME NEW o, Loads(o)', o # L PROVE Loads(o)
  BY <1>1, <1>3, <1>4, GrownLoads DEF Loads
<1>5. PICK a : a = mem.off
  OBVIOUS
<1>6. /\ a \in DOMAIN file /\ Loads(a)' /\ IsFooter(a) /\ file'[a] = file[a]
      /\ file[a].gen = mem.gen
  BY <1>1, <1>5, GrownLoads DEF Anchor, Loads, Shape, MemoryOK
<1>7. a \in 1..(L - 2)
  BY <1>1, <1>6
<1>8. Anchor(a)'
  <2>1. Current(a)' /\ Current(L)'
    BY <1>1, <1>5, <1>6 DEF Anchor, Current
  <2>2. ASSUME NEW o \in DOMAIN file', IsFooter(o)'
        PROVE  file'[o].gen <= file'[a].gen + 1
    <3>1. CASE o = L
      BY <1>1, <1>6, <3>1
    <3>2. CASE o # L
      BY <1>1, <1>3, <1>5, <1>6, <2>2, <3>2 DEF Anchor
    <3> QED BY <3>1, <3>2
  <2>3. ASSUME NEW o \in DOMAIN file', Loads(o)' PROVE Current(o)' \/ Below(o, a)'
    <3>1. CASE o = L
      BY <2>1, <3>1
    <3>2. CASE o # L
      <4>1. o \in DOMAIN file /\ file'[o] = file[o] /\ Loads(o)
        BY <1>3, <1>4, <2>3, <3>2 DEF Loads
      <4>2. Current(o) \/ Below(o, a)
        BY <1>1, <1>5, <4>1 DEF Anchor
      <4> QED BY <1>1, <1>6, <4>1, <4>2 DEF Current, Below
    <3> QED BY <3>1, <3>2
  <2> QED BY <1>1, <1>6, <2>1, <2>2, <2>3 DEF Anchor, Extends
<1>9. OnDisk(mem.off - 2)'
  <2> SUFFICES ASSUME NEW i \in DOMAIN file', i \notin synced', ~(i > L - 2)
               PROVE  file'[i] = Data
    BY <1>1 DEF OnDisk
  <2>1. CASE i \in DOMAIN file
    BY <1>1, <2>1 DEF OnDisk, Extends
  <2>2. CASE i \notin DOMAIN file
    BY <1>1, <1>2, <2>2
  <2> QED BY <2>1, <2>2
<1>10. ASSUME NEW g \in images', NEW h \in images', Loads(g.off)',
              file'[g.off].gen = h.gen
       PROVE  g.off \in {a, L}
  <2>1. CASE g = header'
    BY <1>1, <2>1
  <2>2. CASE g = header /\ header = [off |-> mem.off, gen |-> mem.gen]
    BY <1>5, <2>2
  <2>3. CASE /\ g = header /\ g.off # L /\ ~HeaderUsable
             /\ \A o \in DOMAIN file : Loads(o) => file[o].gen <= mem.gen
    <3>1. /\ Loads(g.off) /\ g.off \in DOMAIN file /\ file'[g.off] = file[g.off]
      BY <1>3, <1>4, <1>10, <2>3 DEF Loads
    <3>2. file[g.off].gen <= mem.gen
      BY <2>3, <3>1
    <3>3. h # header'
      BY <1>1, <1>10, <3>1, <3>2
    <3>4. h = header
      BY <1>1, <3>3
    <3> QED BY <1>10, <2>3, <3>1, <3>4 DEF HeaderUsable
  <2> QED BY <1>1, <2>1, <2>2, <2>3 DEF Rests
<1>11. InFlight'
  <2>1. file'[a].gen + 1 = mem'.gen /\ mem'.off = Len(file')
    BY <1>0, <1>1, <1>6
  <2> QED BY <1>1, <1>7, <1>8, <1>9, <1>10, <2>1 DEF InFlight
<1> QED BY <1>1, <1>11 DEF Rests, Recoverable

(* An acknowledgement leaves the footer in use as the only current one; no *)
(* other lies above it.                                                    *)
LEMMA PublishedScan ==
  ASSUME Shape, mode.errors = 0, Rests, Published
  PROVE  (Rests /\ InFlight /\ Recoverable)'
<1>1. /\ Unacknowledged /\ handle = "open" /\ phase # "fsync"
      /\ handle' = "open" /\ phase' = "idle"
      /\ UNCHANGED <<file, synced, header, images>>
      /\ mem'.off = mem.off /\ mem'.gen = mem.gen /\ mem'.staged = {}
      /\ committed' = mem.items
  BY Bounds DEF Published, Unacknowledged, Shape
<1>2. /\ OnDisk(Len(file)) /\ images = {header} /\ Anchor(mem.off)
      /\ \A o \in DOMAIN file : Loads(o) => Below(o, mem.off)
      /\ header = [off |-> mem.off, gen |-> mem.gen]
      /\ file[mem.off].items = mem.items
  BY <1>1 DEF Rests, Shape, Covered
<1>3. \A o : IsFooter(o)' <=> IsFooter(o)
  BY <1>1 DEF IsFooter
<1>4. \A o : Loads(o)' <=> Loads(o)
  BY <1>1, <1>3 DEF Loads
<1>5. Loads(mem.off)' /\ Current(mem.off)'
  BY <1>1, <1>2, <1>3 DEF Anchor, Loads, IsFooter, Current
<1>6. Anchor(mem.off)'
  BY <1>1, <1>2, <1>3, <1>4, <1>5 DEF Anchor, Below
<1>7. OnDisk(Len(file))'
  BY <1>1, <1>2 DEF OnDisk
<1> QED BY <1>1, <1>2, <1>6, <1>7
        DEF Rests, InFlight, Recoverable, Unacknowledged

(* The fsync of a commit makes its footer the anchor; a process that ends  *)
(* outside of it leaves the anchor it used.                                *)
LEMMA QuietScan ==
  ASSUME Shape, mode.errors = 0, ~mode.midcommit,
         Rests, InFlight, Recoverable, Quiet
  PROVE  (Rests /\ InFlight /\ Recoverable)'
<1>1. UNCHANGED <<file, header, committed, attempts>>
  BY DEF Quiet
<1>2. \A o : /\ IsFooter(o)' <=> IsFooter(o)
             /\ Loads(o)' <=> Loads(o)
             /\ Anchor(o)' <=> Anchor(o)
             /\ \A a : Below(o, a)' <=> Below(o, a)
  BY <1>1 DEF IsFooter, Loads, Anchor, Current, Below
<1>3. HeaderUsable' <=> HeaderUsable
  BY <1>1 DEF HeaderUsable, Loads, IsFooter
<1>4. CASE /\ UNCHANGED <<handle, mem, phase>>
           /\ \/ UNCHANGED <<synced, images>>
              \/ synced' = DOMAIN file /\ images' = {header}
  <2>1. \A top : OnDisk(top) => OnDisk(top)'
    BY <1>1, <1>4 DEF OnDisk
  <2>2. images' \subseteq images /\ header \in images'
    BY <1>4 DEF Shape, Types
  <2>3. Rests'
    <3> SUFFICES ASSUME handle = "open", phase # "fsync" PROVE Rests'
      BY <1>4 DEF Rests
    <3>1. Anchor(mem.off)' /\ OnDisk(Len(file))' /\ images' = {header'}
      BY <1>1, <1>2, <1>4, <2>1, <2>2 DEF Rests, Anchor, Loads, IsFooter,
         Current, Below, OnDisk
    <3>2. \/ header' = [off |-> mem'.off, gen |-> mem'.gen]
          \/ /\ ~HeaderUsable'
             /\ \A o \in DOMAIN file' : Loads(o)' => file'[o].gen <= mem'.gen
      BY <1>1, <1>2, <1>3, <1>4 DEF Rests
    <3>3. Unacknowledged' => Unacknowledged
      BY <1>4 DEF Unacknowledged
    <3>4. Unacknowledged' => \A o \in DOMAIN file' : Loads(o)' => Below(o, mem.off)'
      BY <1>1, <1>2, <1>4, <3>3 DEF Rests, Below
    <3> QED BY <3>1, <3>2, <3>4 DEF Rests
  <2>4. InFlight'
    <3> SUFFICES ASSUME phase = "fsync" PROVE InFlight'
      BY <1>4 DEF InFlight
    <3>1. OnDisk(mem.off - 2)' /\ mem'.off = Len(file')
      BY <1>1, <1>4, <2>1 DEF InFlight, OnDisk
    <3>2. PICK a \in 1..(mem.off - 2) :
            /\ Anchor(a)
            /\ mem.gen = file[a].gen + 1
            /\ \A g, h \in images : Loads(g.off) /\ file[g.off].gen = h.gen
                                    => g.off \in {a, mem.off}
      BY DEF InFlight
    <3>3. /\ Anchor(a)' /\ mem'.gen = file'[a].gen + 1 /\ a \in 1..(mem'.off - 2)
          /\ \A g, h \in images' : Loads(g.off)' /\ file'[g.off].gen = h.gen
                                  => g.off \in {a, mem'.off}
      BY <1>1, <1>2, <1>4, <2>2, <3>2
    <3> QED BY <3>1, <3>3 DEF InFlight
  <2>5. Recoverable'
    <3> SUFFICES ASSUME handle = "closed" PROVE Recoverable'
      BY <1>4 DEF Recoverable
    <3>1. OnDisk(Len(file))' /\ images' = {header'}
      BY <1>1, <1>4, <2>1, <2>2 DEF Recoverable, OnDisk
    <3> QED BY <1>1, <1>2, <1>3, <3>1 DEF Recoverable
  <2> QED BY <2>3, <2>4, <2>5
<1>5. CASE /\ phase = "fsync" /\ phase' = "publish" /\ UNCHANGED <<handle, mem>>
           /\ synced' = DOMAIN file /\ images' = {header}
  <2>1. /\ Anchor(mem.off) /\ handle = "open"
        /\ \A o \in DOMAIN file : IsFooter(o) => Below(o, mem.off)
        /\ header = [off |-> mem.off, gen |-> mem.gen]
    BY <1>5, NewAnchor DEF Shape, Committing, Types
  <2>2. Anchor(mem.off)' /\ \A o \in DOMAIN file' : Loads(o)' => Below(o, mem.off)'
    BY <1>1, <1>2, <1>5, <2>1 DEF Anchor, Loads, IsFooter, Current, Below
  <2>3. OnDisk(Len(file))'
    BY <1>1, <1>5 DEF OnDisk
  <2> QED BY <1>1, <1>5, <2>1, <2>2, <2>3 DEF Rests, InFlight, Recoverable
<1>6. CASE phase = "fsync" /\ phase' = "idle" /\ errors < mode.errors
  BY <1>6, Bounds DEF Shape
<1>7. CASE /\ handle = "open" /\ handle' = "closed" /\ phase' = "idle"
           /\ UNCHANGED <<synced, images>> /\ phase # "fsync"
  <2>1. /\ OnDisk(Len(file)) /\ images = {header} /\ Anchor(mem.off)
        /\ HeaderUsable => header.off = mem.off
    BY <1>7 DEF Rests
  <2>2. PICK a : a = mem.off
    OBVIOUS
  <2>3. Anchor(a)' /\ a \in DOMAIN file' /\ (HeaderUsable' => header'.off = a)
    BY <1>1, <1>2, <1>3, <2>1, <2>2 DEF Anchor
  <2>4. OnDisk(Len(file))' /\ images' = {header'}
    BY <1>1, <1>7, <2>1 DEF OnDisk
  <2>5. HeaderUsable' => Anchor(header.off)'
    BY <1>1, <1>2, <2>3 DEF Anchor, Loads, IsFooter, Current, Below
  <2> QED BY <1>7, <2>3, <2>4, <2>5 DEF Rests, InFlight, Recoverable
<1> QED BY <1>4, <1>5, <1>6, <1>7 DEF Quiet

(* A power loss takes no footer and no root segment that an anchor needs.  *)
LEMMA LostAnchor ==
  ASSUME Shape, Lost, NEW a, Anchor(a), NEW top \in Nat, a <= top, OnDisk(top),
         UNCHANGED <<committed, attempts>>
  PROVE  Anchor(a)' /\ Loads(a)'
<1>1. IsFooter(a) /\ Loads(a) /\ FooterOK(a) /\ a \in DOMAIN file /\ a \in Nat
      /\ file[a] \in FooterChunk
  BY FooterRange DEF Anchor, Loads, Shape, FootersOK
<1>2. ASSUME NEW i \in DOMAIN file, i <= a, file[i] # Data
      PROVE  i \in DOMAIN file' /\ file'[i] = file[i]
  <2>1. i \in Nat
    BY Bounds DEF Shape
  <2>2. i \in synced
    BY <1>1, <1>2, <2>1 DEF OnDisk
  <2> QED BY <2>2 DEF Lost
<1>3. a \in DOMAIN file' /\ file'[a] = file[a]
  BY <1>1, <1>2, ChunkKinds DEF IsFooter
<1>4. ASSUME NEW r \in file[a].roots PROVE file'[r] = Roots
  <2>1. r \in Nat /\ 1 <= r /\ r < a /\ file[r] = Roots
    BY <1>1 DEF FooterChunk, FooterOK, Loads
  <2>2. r \in DOMAIN file
    BY <1>1, <2>1, Bounds DEF Shape
  <2>3. Roots # Data
    BY ChunkKinds
  <2> QED BY <1>1, <1>2, <2>1, <2>2, <2>3
<1>5. Loads(a)'
  BY <1>1, <1>3, <1>4 DEF Loads, IsFooter
<1> QED BY <1>5, LostFooters, AnchorStays

LEMMA LostScan ==
  ASSUME Shape, mode.reorder, Rests, InFlight, Stop, Lost
  PROVE  (Rests /\ InFlight /\ Recoverable)'
<1>1. /\ handle = "open" /\ handle' = "closed" /\ phase' = "idle"
      /\ UNCHANGED <<committed, attempts>> /\ Len(file) \in Nat
      /\ DOMAIN file = 1..Len(file)
  BY Bounds DEF Stop, history, Shape
<1>2. OnDisk(Len(file))' /\ images' = {header'}
  BY DEF Lost, OnDisk
<1>3. PICK g \in images, h \in images : header' = [off |-> g.off, gen |-> h.gen]
  BY DEF Lost
<1>4. HeaderUsable' => Loads(g.off)' /\ Loads(g.off) /\ file[g.off].gen = h.gen
                       /\ header'.off = g.off
  <2>1. HeaderUsable' => /\ Loads(header.off)' /\ file'[header'.off].gen = header'.gen
    BY DEF HeaderUsable
  <2>2. header'.off = g.off /\ header'.gen = h.gen
    BY <1>3
  <2>3. Loads(header.off)' => Loads(g.off)' /\ Loads(g.off) /\ file'[g.off] = file[g.off]
    BY <2>2, LostFooters DEF Loads, IsFooter
  <2> QED BY <2>1, <2>2, <2>3
<1>5. ASSUME NEW a, Anchor(a), NEW top \in Nat, a <= top, OnDisk(top)
      PROVE  a \in DOMAIN file' /\ Anchor(a)' /\ (header'.off = a => Anchor(header.off)')
  <2>1. Anchor(a)' /\ a \in DOMAIN file'
    BY <1>1, <1>5, LostAnchor DEF Anchor
  <2> QED BY <2>1 DEF Anchor, Loads, IsFooter, Current, Below
<1>6. CASE phase # "fsync"
  <2>1. /\ OnDisk(Len(file)) /\ images = {header} /\ Anchor(mem.off)
        /\ HeaderUsable => header.off = mem.off
    BY <1>1, <1>6 DEF Rests
  <2>2. mem.off <= Len(file)
    BY <1>1, <2>1 DEF Anchor
  <2>3. HeaderUsable' => header'.off = mem.off
    BY <1>3, <1>4, <2>1 DEF HeaderUsable
  <2> QED BY <1>1, <1>2, <1>5, <2>1, <2>2, <2>3 DEF Rests, InFlight, Recoverable
<1>7. CASE phase = "fsync"
  <2>1. /\ mem.off = Len(file) /\ OnDisk(mem.off - 2)
    BY <1>7 DEF InFlight
  <2>2. PICK a \in 1..(mem.off - 2) :
          /\ Anchor(a)
          /\ \A x, y \in images : Loads(x.off) /\ file[x.off].gen = y.gen
                                  => x.off \in {a, mem.off}
    BY <1>7 DEF InFlight
  <2>3. mem.off - 2 \in Nat /\ a <= mem.off - 2
    BY <1>1, <2>1
  <2>4. a \in DOMAIN file' /\ Anchor(a)' /\ (header'.off = a => Anchor(header.off)')
    BY <1>5, <2>1, <2>2, <2>3
  <2>5. ASSUME HeaderUsable' PROVE Anchor(header.off)'
    <3>1. g.off \in {a, mem.off}
      BY <1>4, <2>2, <2>5
    <3>2. CASE g.off = a
      BY <1>4, <2>4, <2>5, <3>2
    <3>3. CASE g.off = mem.off
      <4>1. PICK m : m = mem.off
        OBVIOUS
      <4>2. Anchor(m) /\ Loads(m)'
        BY <1>4, <1>7, <2>5, <3>3, <4>1, NewAnchor
      <4>3. Anchor(m)'
        BY <1>1, <4>2, LostFooters, AnchorStays
      <4> QED BY <1>4, <2>5, <3>3, <4>1, <4>3
              DEF Anchor, Loads, IsFooter, Current, Below
    <3> QED BY <3>1, <3>2, <3>3
  <2> QED BY <1>1, <1>2, <2>4, <2>5 DEF Rests, InFlight, Recoverable
<1> QED BY <1>6, <1>7

LEMMA OpenScan ==
  ASSUME Shape, Recoverable, Open
  PROVE  (Rests /\ InFlight /\ Recoverable)'
<1>1. /\ UNCHANGED <<file, synced, header, images, phase, committed, attempts>>
      /\ handle = "closed" /\ handle' = "open" /\ phase = "idle"
  BY OpenFacts DEF Open, disk, history, Shape, Types
<1>2. PICK o \in DOMAIN file :
        /\ Loads(o) /\ mem' = Loaded(file, o)
        /\ IF HeaderUsable
             THEN o = header.off
             ELSE \A p \in DOMAIN file : Loads(p) =>
                    \/ file[p].gen < file[o].gen
                    \/ file[p].gen = file[o].gen /\ p <= o
  BY OpenFacts
<1>3. Anchor(o)
  BY <1>2, OpenAnchor
<1>4. IsFooter(o) /\ file[o] \in FooterChunk /\ file \in Seq(Chunk)
  BY <1>2, FooterRange DEF Loads, Shape, Types
<1>5. mem'.off = o /\ mem'.gen = file[o].gen /\ mem'.staged = {}
  BY <1>2, <1>4, LoadedFacts
<1>6. Anchor(mem.off)' /\ OnDisk(Len(file))' /\ images' = {header'}
  BY <1>1, <1>3, <1>5 DEF Anchor, Loads, IsFooter, Current, Below, OnDisk,
     Recoverable
<1>7. \/ header' = [off |-> mem'.off, gen |-> mem'.gen]
      \/ /\ ~HeaderUsable'
         /\ \A p \in DOMAIN file' : Loads(p)' => file'[p].gen <= mem'.gen
  <2>1. CASE HeaderUsable
    <3>1. header \in [off : Nat, gen : Nat]
      BY DEF Shape, Types
    <3>2. header.off = o /\ header.gen = file[o].gen
      BY <1>2, <2>1 DEF HeaderUsable
    <3>3. header = [off |-> o, gen |-> file[o].gen]
      BY <3>1, <3>2
    <3> QED BY <1>1, <1>5, <3>3
  <2>2. CASE ~HeaderUsable
    <3>1. ~HeaderUsable'
      BY <1>1, <2>2 DEF HeaderUsable, Loads, IsFooter
    <3>2. ASSUME NEW p \in DOMAIN file, Loads(p) PROVE file[p].gen <= file[o].gen
      <4>1. file[p].gen \in Nat /\ file[o].gen \in Nat
        BY <1>4, <3>2, FooterRange DEF Loads
      <4> QED BY <1>2, <2>2, <3>2, <4>1
    <3> QED BY <1>1, <1>5, <3>1, <3>2 DEF Loads, IsFooter
  <2> QED BY <2>1, <2>2
<1> QED BY <1>1, <1>5, <1>6, <1>7
        DEF Rests, InFlight, Recoverable, Unacknowledged

LEMMA ScanStep ==
  ASSUME Disciplined PROVE Shape /\ Scan /\ [Next]_vars => Scan'
<1> SUFFICES ASSUME Shape, Scan, Step, mode.reorder, mode' = mode
             PROVE  (Rests /\ InFlight /\ Recoverable)'
  <2>1. ASSUME Shape, [Next]_vars PROVE mode' = mode
    BY <2>1, StepFacts DEF Step, Staged, Wrote, FailedEarly, Published, Quiet,
       Stop, Open
  <2> QED BY <2>1, StepFacts DEF Scan
<1>1. mode.errors = 0 /\ ~mode.midcommit /\ Rests /\ InFlight /\ Recoverable
  BY DEF Disciplined, Shape, Types, Scan
<1>2. ~(errors < mode.errors)
  BY <1>1, Bounds DEF Shape
<1> QED BY <1>1, <1>2, StageScan, WroteScan, PublishedScan, QuietScan, LostScan,
        OpenScan DEF Step, HeaderNotWritten, FailedEarly

-----------------------------------------------------------------------------
(* Write-ordered storage.                                                  *)

LEMMA ImagesInit == Init => ImagesCurrent
BY DEF Init, ImagesCurrent, Current, Footer

LEMMA ImagesStep ==
  Shape /\ Whole /\ ImagesCurrent /\ [Next]_vars => ImagesCurrent'
<1> SUFFICES ASSUME Shape, Whole, ImagesCurrent, Step, ~mode.reorder,
                    NEW h \in images'
             PROVE  Current(h.off)'
  <2>1. ASSUME Shape, [Next]_vars PROVE mode' = mode
    BY <2>1, StepFacts DEF Step, Staged, Wrote, FailedEarly, Published, Quiet,
       Stop, Open
  <2> QED BY <2>1, StepFacts DEF ImagesCurrent
<1>0. header \in images
  BY DEF Shape, Types
<1>1. ASSUME h \in images, Extends(file, file'), committed' = committed,
             attempts \subseteq attempts'
      PROVE  Current(h.off)'
  BY <1>1 DEF ImagesCurrent, Current, Whole, IsFooter, Extends
<1>2. CASE Staged(puts + 1) \/ FailedEarly
  BY <1>0, <1>1, <1>2 DEF Staged, FailedEarly
<1>3. CASE Wrote /\ (HeaderWritten \/ HeaderNotWritten)
  <2>1. h \in images \/ h = [off |-> Len(file'), gen |-> mem.gen + 1]
    BY <1>0, <1>3 DEF HeaderWritten, HeaderNotWritten
  <2>2. CASE h \in images
    BY <1>1, <1>3, <2>2 DEF Wrote
  <2>3. CASE h = [off |-> Len(file'), gen |-> mem.gen + 1]
    BY <1>3, <2>3 DEF Wrote, Current
  <2> QED BY <2>1, <2>2, <2>3
<1>4. CASE Published
  <2>1. /\ images' = {header} /\ header.off = mem.off /\ file' = file
        /\ file[mem.off].items = mem.items /\ mem.items \in attempts
    BY <1>4 DEF Published, Shape, Covered
  <2> QED BY <1>4, <2>1 DEF Published, Current
<1>5. CASE Quiet \/ Open
  <2>1. h \in images /\ UNCHANGED <<file, committed, attempts>>
    BY <1>0, <1>5 DEF Quiet, Open, disk, history
  <2> QED BY <1>1, <2>1 DEF Extends
<1>6. CASE Stop /\ Lost
  <2>1. /\ h \in images /\ h.off <= Len(file') /\ UNCHANGED <<committed, attempts>>
        /\ \A i \in DOMAIN file' : file'[i] = file[i]
        /\ DOMAIN file' = 1..Len(file') /\ Len(file') \in Nat
    BY <1>6 DEF Lost, Stop, history
  <2>2. h.off \in Nat /\ 1 <= h.off
    BY <2>1, FooterRange DEF Whole
  <2> QED BY <2>1, <2>2 DEF ImagesCurrent, Current
<1> QED BY <1>2, <1>3, <1>4, <1>5, <1>6 DEF Step

-----------------------------------------------------------------------------
(* What is recovered, under either.                                        *)

LEMMA Recovered ==
  ASSUME Shape, Whole, ImagesCurrent, Scan, Open
  PROVE  mem'.items \in {committed} \cup attempts
<1>1. PICK o \in DOMAIN file :
        /\ Loads(o) /\ mem' = Loaded(file, o)
        /\ IF HeaderUsable
             THEN o = header.off
             ELSE \A p \in DOMAIN file : Loads(p) =>
                    \/ file[p].gen < file[o].gen
                    \/ file[p].gen = file[o].gen /\ p <= o
  BY OpenFacts
<1>2. mem'.items = file[o].items
  <2>1. file[o] \in FooterChunk /\ file \in Seq(Chunk)
    BY <1>1, FooterRange DEF Loads, Shape, Types
  <2> QED BY <1>1, <2>1, LoadedFacts
<1>3. CASE mode.reorder
  <2>1. Anchor(o)
    BY <1>1, <1>3, OpenAnchor DEF Scan
  <2> QED BY <1>2, <2>1 DEF Anchor, Current
<1>4. CASE ~mode.reorder
  <2>1. IsFooter(header.off) /\ file[header.off].gen = header.gen
        /\ Current(header.off)
    BY <1>4 DEF Whole, ImagesCurrent, Shape, Types
  <2>2. WholeFooter(header.off)
    BY <1>4, <2>1 DEF Whole, IsFooter
  <2>3. HeaderUsable
    BY <2>1, <2>2 DEF HeaderUsable, Loads, WholeFooter
  <2> QED BY <1>1, <1>2, <2>1, <2>3 DEF Current
<1> QED BY <1>3, <1>4

Recovery == Shape /\ Whole /\ ImagesCurrent /\ Scan

LEMMA RecoveryInit == Init => Recovery
BY ShapeInit, WholeInit, ImagesInit, ScanInit DEF Recovery

LEMMA RecoveryStep ==
  ASSUME Disciplined PROVE Recovery /\ [Next]_vars => Recovery'
BY ShapeStep, WholeStep, ImagesStep, ScanStep DEF Recovery

LEMMA SurviveStep ==
  Recovery /\ Survive /\ [Next]_vars => Survive'
<1> SUFFICES ASSUME Recovery, Survive, Step PROVE Survive'
  BY StepFacts DEF Recovery
<1> USE DEF Recovery
<1>1. CASE Staged(puts + 1)
  BY <1>1 DEF Staged, Survive
<1>2. CASE Wrote \/ FailedEarly
  <2>1. /\ handle = "open" /\ acked' = acked /\ committed' = committed
        /\ attempts' \subseteq attempts \cup {mem.items} /\ mem'.items = mem.items
    BY <1>2 DEF Wrote, FailedEarly
  <2> QED BY <2>1 DEF Survive
<1>3. CASE Published
  <2>1. mem.staged \subseteq mem.items /\ acked \subseteq mem.items
    BY <1>3 DEF Published, Unacknowledged, Shape, MemoryOK, Survive
  <2> QED BY <1>3, <2>1 DEF Published, Survive
<1>4. CASE Quiet
  BY <1>4 DEF Quiet, Shape, Types, Survive
<1>5. CASE Stop
  BY <1>5 DEF Stop, history, Survive
<1>6. CASE Open
  BY <1>6, Recovered DEF Open, history, Survive
<1> QED BY <1>1, <1>2, <1>3, <1>4, <1>5, <1>6 DEF Step

(* The acknowledged commit survives: whatever is open holds every frame    *)
(* whose commit returned Ok, in this process or in one before it.  For any *)
(* number of puts, commits and crashes, under either durability; on        *)
(* write-ordered storage with any errors and deaths, and where storage     *)
(* reorders and tears, without errors and without deaths inside commit().  *)
THEOREM CommitsSurvive == Disciplined => (Spec => []AckedSurvive)
<1> SUFFICES ASSUME Disciplined PROVE Spec => []AckedSurvive
  OBVIOUS
<1>1. Init => Survive
  BY DEF Init, Survive
<1>2. Recovery /\ [Next]_vars => Recovery'
  BY RecoveryStep
<1>3. Survive => AckedSurvive
  BY DEF Survive, AckedSurvive
<1> QED BY RecoveryInit, SurviveStep, <1>1, <1>2, <1>3, PTL DEF Spec

-----------------------------------------------------------------------------
(* The refinement.                                                         *)

LEMMA StoreStep ==
  Recovery /\ [Next]_vars => [Store!Next]_(Store!vars)
<1> SUFFICES ASSUME Recovery, Step PROVE [Store!Next]_(Store!vars)
  BY StepFacts DEF Recovery
<1> USE DEF Recovery, Store!Next, Store!vars
<1>1. CASE Staged(puts + 1)
  <2>1. puts + 1 \in Items
    <3>1. puts + 1 \in 1..mode.puts
      BY <1>1, Bounds DEF Staged, Shape
    <3> QED BY <3>1 DEF Items, Shape, Types
  <2>2. puts + 1 \notin mem.items
    BY <1>1, Bounds DEF Staged, Shape, MemoryOK
  <2>3. Store!Stage
    BY <1>1, <2>1, <2>2 DEF Staged, Store!Stage
  <2> QED BY <2>3
<1>2. CASE Wrote
  <2>1. Store!Begin
    BY <1>2 DEF Wrote, Store!Begin
  <2> QED BY <2>1
<1>3. CASE FailedEarly
  <2>1. UNCHANGED Store!vars
    BY <1>3 DEF FailedEarly
  <2> QED BY <2>1
<1>4. CASE Published
  <2>1. handle = "open" /\ mem.items \in attempts
    BY <1>4 DEF Published, Unacknowledged, Shape, Covered
  <2>2. Store!Commit \/ UNCHANGED Store!vars
    BY <1>4, <2>1 DEF Published, Store!Commit
  <2> QED BY <2>2
<1>5. CASE Quiet
  <2>1. CASE handle = "open" /\ handle' = "closed" /\ mem' = NotLoaded
    <3>1. Store!Stop
      BY <1>5, <2>1 DEF Quiet, Store!Stop, NotLoaded
    <3> QED BY <3>1
  <2>2. CASE UNCHANGED <<handle, mem>>
    <3>1. UNCHANGED Store!vars
      BY <1>5, <2>2 DEF Quiet
    <3> QED BY <3>1
  <2> QED BY <1>5, <2>1, <2>2 DEF Quiet
<1>6. CASE Stop
  <2>1. Store!Stop
    BY <1>6 DEF Stop, history, Store!Stop, NotLoaded
  <2> QED BY <2>1
<1>7. CASE Open
  <2>1. Store!Recover
    BY <1>7, Recovered, OpenFacts DEF Open, history, Store!Recover
  <2> QED BY <2>1
<1> QED BY <1>1, <1>2, <1>3, <1>4, <1>5, <1>6, <1>7 DEF Step

(* The commit protocol implements the atomic store, under the same         *)
(* condition: every step is a step of SnapshotStore or leaves its state    *)
(* alone, so open() recovers the snapshot of the last commit that returned *)
(* Ok or, whole, one that a commit tried to put in place since.            *)
THEOREM ImplementsStore == Disciplined => (Spec => StoreSpec)
<1> SUFFICES ASSUME Disciplined PROVE Spec => StoreSpec
  OBVIOUS
<1>1. Init => Store!Init
  BY DEF Init, Store!Init, Loaded, Footer
<1>2. Recovery /\ [Next]_vars => Recovery'
  BY RecoveryStep
<1>3. Recovery /\ [Next]_vars => [Store!Next]_(Store!vars)
  BY StoreStep
<1> QED BY RecoveryInit, <1>1, <1>2, <1>3, PTL DEF Spec, StoreSpec, Store!Spec
=============================================================================
