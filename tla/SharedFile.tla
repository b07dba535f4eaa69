----------------------------- MODULE SharedFile -----------------------------
(***************************************************************************)
(* One Valise file used by several threads of several processes: the       *)
(* per-process registry that collapses opens of an inode to one Database   *)
(* (src/src/concurrency/database.rs), the byte lock that serialises        *)
(* commits across open file descriptions (src/src/concurrency/locks.rs,    *)
(* coord_* in src/src/file/commit.rs), and the commits themselves, reduced *)
(* to the snapshot the header in the shared page cache points at.          *)
(*                                                                         *)
(* A handle h stands for one Database with its ValiseFile and its open     *)
(* file description.  refs[h] is the Arc's strong count; the registry      *)
(* holds only a Weak.  Locks are Linux's: owned by the file description.   *)
(***************************************************************************)
EXTENDS Integers, FiniteSets

CONSTANTS
  Threads,
  Processes,
  ProcessOf,      \* ProcessOf[t]: the process thread t belongs to
  None,           \* no handle, no thread
  MaxHandles,     \* bound: handles ever made
  MaxItems,       \* bound: frames put
  MaxErrors,      \* bound: commits that fail after they took the lock
  CreateFirst     \* TRUE: nobody opens the file before create() returned

ASSUME SharedFileAssumption ==
  /\ IsFiniteSet(Threads)
  /\ ProcessOf \in [Threads -> Processes]
  /\ {MaxHandles, MaxItems, MaxErrors} \subseteq Nat
  /\ None \notin Threads \cup (1..MaxHandles)
  /\ CreateFirst \in BOOLEAN

VARIABLES
  file,       \* "absent", "creating" or "ready": is there something to open
  header,     \* [gen, items] of the footer the page-cache header points at
  byte_lock,  \* the handle that holds WRITER_LOCK_BYTE, or None
  registry,   \* registry[p]: the handle behind the Weak for this inode
  refs,       \* refs[h]: strong count; 0 for a handle not made or gone
  mem,        \* mem[h]: the handle's [gen, items, dirty]
  slot,       \* slot[h]: the thread that holds writer_slot, or None
  pc, hd,     \* pc[t], hd[t]: control point and handle of thread t
  made, puts, errors,  \* counters for the bounds
  acked       \* items whose commit returned Ok, in any process

vars == <<file, header, byte_lock, registry, refs, mem, slot, pc, hd, made,
          puts, errors, acked>>

Handles == 1..MaxHandles
Live(h) == h # None /\ refs[h] > 0

Goto(t, where) == pc' = [pc EXCEPT ![t] = where]
Load(hdr) ==
  [gen |-> hdr.gen, items |-> hdr.items, dirty |-> FALSE]

Init ==
  /\ file = "absent"
  /\ header = [gen |-> 1, items |-> {}]
  /\ byte_lock = None
  /\ registry = [p \in Processes |-> None]
  /\ refs = [h \in Handles |-> 0]
  /\ mem = [h \in Handles |-> Load(header)]
  /\ slot = [h \in Handles |-> None]
  /\ pc = [t \in Threads |-> "out"]
  /\ hd = [t \in Threads |-> None]
  /\ made = 0 /\ puts = 0 /\ errors = 0
  /\ acked = {}

-----------------------------------------------------------------------------
(* Database::create_with_options and Database::open.                       *)

(* ValiseFile::create_with_options: create_new, so only one thread can.    *)
Create(t) ==
  /\ pc[t] = "out"
  /\ file = "absent"
  /\ file' = "creating"
  /\ Goto(t, "created")
  /\ UNCHANGED <<header, byte_lock, registry, refs, mem, slot, hd, made, puts,
                 errors, acked>>

(* A new Database around the file t has open, entered in the registry.     *)
Insert(t) ==
  LET h == made + 1
      p == ProcessOf[t]
  IN  /\ h \in Handles
      /\ made' = h
      /\ registry' = [registry EXCEPT ![p] = h]
      /\ refs' = [refs EXCEPT ![h] = 1]
      /\ hd' = [hd EXCEPT ![t] = h]
      /\ Goto(t, "in")

(* create() inserts whatever the registry holds.                           *)
RegisterCreated(t) ==
  /\ pc[t] = "created"
  /\ Insert(t)
  /\ mem' = [mem EXCEPT ![made + 1] = Load([gen |-> 1, items |-> {}])]
  /\ file' = "ready"
  /\ UNCHANGED <<header, byte_lock, slot, puts, errors, acked>>

Openable == IF CreateFirst THEN file = "ready" ELSE file # "absent"

(* Mutant of Adopt: the handle is used without owning a reference.         *)
AdoptUncounted(t) ==
  LET h == registry[ProcessOf[t]] IN
    /\ Live(h)
    /\ hd' = [hd EXCEPT ![t] = h]
    /\ Goto(t, "in")
    /\ UNCHANGED <<file, header, byte_lock, registry, refs, mem, slot, made,
                   puts, errors, acked>>

(* A registered, live handle is shared.                                    *)
Adopt(t) ==
  LET h == registry[ProcessOf[t]] IN
    /\ Live(h)
    /\ refs' = [refs EXCEPT ![h] = @ + 1]
    /\ hd' = [hd EXCEPT ![t] = h]
    /\ Goto(t, "in")
    /\ UNCHANGED <<file, header, byte_lock, registry, mem, slot, made, puts,
                   errors, acked>>

LookupHit(t) == pc[t] = "out" /\ Openable /\ Adopt(t)

LookupMiss(t) ==
  /\ pc[t] = "out"
  /\ Openable
  /\ ~Live(registry[ProcessOf[t]])
  /\ Goto(t, "missed")
  /\ UNCHANGED <<file, header, byte_lock, registry, refs, mem, slot, hd, made,
                 puts, errors, acked>>

(* ValiseFile::open by a thread that missed; the snapshot is read now and  *)
(* the registry is looked at again later, under its mutex.                 *)
OpenFile(t) ==
  /\ pc[t] = "missed"
  /\ made < MaxHandles
  /\ mem' = [mem EXCEPT ![made + 1] = Load(header)]
  /\ made' = made + 1
  /\ hd' = [hd EXCEPT ![t] = made + 1]
  /\ Goto(t, "opened")
  /\ UNCHANGED <<file, header, byte_lock, registry, refs, slot, puts, errors, acked>>

(* Another thread won the race: its handle is used, ours is dropped.       *)
AdoptWinner(t) == pc[t] = "opened" /\ Adopt(t)

(* Mutant of RegisterOpened: the second look at the registry is missing.   *)
RegisterOpenedBlindly(t) ==
  /\ pc[t] = "opened"
  /\ registry' = [registry EXCEPT ![ProcessOf[t]] = hd[t]]
  /\ refs' = [refs EXCEPT ![hd[t]] = 1]
  /\ Goto(t, "in")
  /\ UNCHANGED <<file, header, byte_lock, mem, slot, hd, made, puts, errors,
                 acked>>

RegisterOpened(t) ==
  /\ pc[t] = "opened"
  /\ ~Live(registry[ProcessOf[t]])
  /\ registry' = [registry EXCEPT ![ProcessOf[t]] = hd[t]]
  /\ refs' = [refs EXCEPT ![hd[t]] = 1]
  /\ Goto(t, "in")
  /\ UNCHANGED <<file, header, byte_lock, mem, slot, hd, made, puts, errors,
                 acked>>

(* A thread lets its Arc go; the last one runs Drop.                       *)
Release(t) ==
  /\ pc[t] = "in"
  /\ slot[hd[t]] # t
  /\ refs' = [refs EXCEPT ![hd[t]] = @ - 1]
  /\ IF refs[hd[t]] > 1
       THEN Goto(t, "out") /\ hd' = [hd EXCEPT ![t] = None]
       ELSE Goto(t, "dropping") /\ UNCHANGED hd
  /\ UNCHANGED <<file, header, byte_lock, registry, mem, slot, made, puts,
                 errors, acked>>

(* Drop for Database removes the entry if nobody owns what is behind it;   *)
(* then the descriptor closes, and its locks go with it.                   *)
DropDatabase(t) ==
  /\ pc[t] = "dropping"
  /\ registry' = [registry EXCEPT ![ProcessOf[t]] = IF Live(@) THEN @ ELSE None]
  /\ byte_lock' = IF byte_lock = hd[t] THEN None ELSE byte_lock
  /\ hd' = [hd EXCEPT ![t] = None]
  /\ Goto(t, "out")
  /\ UNCHANGED <<file, header, refs, mem, slot, made, puts, errors,
                 acked>>

-----------------------------------------------------------------------------
(* Writing.  A thread takes the writer slot of its handle, puts, commits   *)
(* and drops the WriteConnection.                                          *)

Put(t) ==
  /\ pc[t] = "in"
  /\ puts < MaxItems
  /\ slot[hd[t]] \in {None, t}
  /\ slot' = [slot EXCEPT ![hd[t]] = t]
  /\ puts' = puts + 1
  /\ mem' = [mem EXCEPT ![hd[t]].items = @ \cup {puts + 1},
                        ![hd[t]].dirty = TRUE]
  /\ UNCHANGED <<file, header, byte_lock, registry, refs, pc, hd, made, errors, acked>>

(* commit() of a handle that is not dirty, and the connection is dropped.  *)
DropConnection(t) ==
  /\ pc[t] = "in"
  /\ slot[hd[t]] = t
  /\ slot' = [slot EXCEPT ![hd[t]] = None]
  /\ UNCHANGED <<file, header, byte_lock, registry, refs, mem, pc, hd, made,
                 puts, errors, acked>>

(* Mutant of TryLock: the lock is shared, like a reader slot's.            *)
TryLockShared(t) == TRUE

(* acquire_exclusive_blocking: granted if no other description holds it.   *)
TryLock(t) == byte_lock \in {None, hd[t]}

Writing(t) == pc[t] = "in" /\ slot[hd[t]] = t /\ mem[hd[t]].dirty

(* Phase A under the byte lock.  The new footer extends what THIS handle   *)
(* last loaded or published, and takes its generation from it; the file's  *)
(* own header is not read again.                                           *)
CommitWrites(t) ==
  LET m == mem[hd[t]] IN
    /\ Writing(t)
    /\ TryLock(t)
    /\ byte_lock' = hd[t]
    /\ header' = [gen |-> m.gen + 1, items |-> m.items]
    /\ mem' = [mem EXCEPT ![hd[t]].gen = @ + 1]
    /\ Goto(t, "fsync")
    /\ UNCHANGED <<file, registry, refs, slot, hd, made, puts, errors,
                   acked>>

(* The lock stayed contended for max_attempts: Busy, nothing has changed.  *)
CommitBusy(t) ==
  /\ Writing(t)
  /\ ~TryLock(t)
  /\ slot' = [slot EXCEPT ![hd[t]] = None]
  /\ UNCHANGED <<file, header, byte_lock, registry, refs, mem, pc, hd, made,
                 puts, errors, acked>>

(* A write fails after the lock was taken: commit() returns with `?' and   *)
(* the lock stays with the handle.                                         *)
CommitFails(t) ==
  /\ Writing(t)
  /\ TryLock(t)
  /\ errors < MaxErrors
  /\ errors' = errors + 1
  /\ byte_lock' = hd[t]
  /\ UNCHANGED <<file, header, registry, refs, mem, slot, pc, hd, made, puts, acked>>

(* The fsync fails: the header is advanced in the page cache, dirty stays  *)
(* set and again the lock stays with the handle.                           *)
FsyncFails(t) ==
  /\ pc[t] = "fsync"
  /\ errors < MaxErrors
  /\ errors' = errors + 1
  /\ Goto(t, "in")
  /\ UNCHANGED <<file, header, byte_lock, registry, refs, mem, slot, hd, made,
                 puts, acked>>

(* The fsync and commit_phase_publish, which ends by releasing the lock.   *)
CommitPublishes(t) ==
  /\ pc[t] = "fsync"
  /\ mem' = [mem EXCEPT ![hd[t]].dirty = FALSE]
  /\ byte_lock' = None
  /\ acked' = acked \cup mem[hd[t]].items
  /\ Goto(t, "in")
  /\ UNCHANGED <<file, header, registry, refs, slot, hd, made, puts, errors>>

ThreadStep(t) ==
  \/ Create(t) \/ RegisterCreated(t)
  \/ LookupHit(t) \/ LookupMiss(t) \/ OpenFile(t)
  \/ AdoptWinner(t) \/ RegisterOpened(t) \/ Release(t) \/ DropDatabase(t)
  \/ Put(t) \/ DropConnection(t)
  \/ CommitWrites(t) \/ CommitBusy(t) \/ CommitFails(t)
  \/ FsyncFails(t) \/ CommitPublishes(t)

Next == \E t \in Threads : ThreadStep(t)

Spec == Init /\ [][Next]_vars

-----------------------------------------------------------------------------
(* The types of the registry, the locks and the threads; an Arc's strong   *)
(* count is the number of threads that hold it.                            *)
TypeOK ==
  /\ file \in {"absent", "creating", "ready"}
  /\ byte_lock \in Handles \cup {None}
  /\ registry \in [Processes -> Handles \cup {None}]
  /\ refs \in [Handles -> 0..Cardinality(Threads)]
  /\ slot \in [Handles -> Threads \cup {None}]
  /\ hd \in [Threads -> Handles \cup {None}]
  /\ \A h \in Handles :
       refs[h] = Cardinality({t \in Threads : /\ hd[t] = h
                                              /\ pc[t] \in {"in", "fsync"}})

(* database.rs: opening the same file twice "collapses to one shared       *)
(* handle".  Threads of one process that hold a Database for this inode    *)
(* hold the same one, through every race of open, create and drop.         *)
OneLiveDatabase ==
  \A t, u \in Threads :
    /\ ProcessOf[t] = ProcessOf[u]
    /\ pc[t] \in {"in", "fsync"} /\ pc[u] \in {"in", "fsync"}
    => hd[t] = hd[u]

(* locks.rs: "One writer at a time across processes": from the first write *)
(* of a commit to its publish, no other commit writes, also when earlier   *)
(* commits failed and left the byte locked.                                *)
ExclusiveCommit ==
  \A t, u \in Threads : pc[t] = "fsync" /\ pc[u] = "fsync" => t = u

(* lib.rs: "N readers and one writer, coordinated across processes".  What *)
(* a commit acknowledged stays in the snapshot the header points at: no    *)
(* commit starts from a state older than the one it replaces.              *)
AckedStays == acked \subseteq header.items

=============================================================================
