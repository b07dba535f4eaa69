-------------------------- MODULE SharedFile_proof --------------------------
(***************************************************************************)
(* Proofs about SharedFile for any number of threads, processes, handles,  *)
(* puts and failing commits: an Arc's strong count is the number of its    *)
(* holders, commits exclude each other across processes, and threads of    *)
(* one process share one Database.                                         *)
(***************************************************************************)
EXTENDS SharedFile, FiniteSetTheorems, TLAPS

Holding == {"in", "fsync"}
Without == {"out", "created", "missed"}

(* The threads that own a reference to handle h.                           *)
Holders(h) == {t \in Threads : hd[t] = h /\ pc[t] \in {"in", "fsync"}}

(***************************************************************************)
(* The inductive invariant.  The strong count alone says too little: what  *)
(* a thread may take as its own (a file it has opened and not registered,  *)
(* a handle it is dropping) must be nobody else's, and a commit in flight  *)
(* must be the one that owns both the slot of its handle and the byte.     *)
(***************************************************************************)
Types ==
  /\ file \in {"absent", "creating", "ready"}
  /\ byte_lock \in Handles \cup {None}
  /\ registry \in [Processes -> Handles \cup {None}]
  /\ refs \in [Handles -> Nat]
  /\ slot \in [Handles -> Threads \cup {None}]
  /\ pc \in [Threads -> Holding \cup Without \cup {"opened", "dropping"}]
  /\ hd \in [Threads -> Handles \cup {None}]
  /\ made \in 0..MaxHandles

Counted == \A h \in Handles : refs[h] = Cardinality(Holders(h))

(* Who has a handle at which control point, and that it has been made.     *)
Held ==
  \A t \in Threads :
    /\ hd[t] = None <=> pc[t] \in Without
    /\ hd[t] # None => hd[t] <= made

(* A file opened after a miss belongs to the thread that opened it until   *)
(* it is registered.                                                       *)
Private == \A t, u \in Threads : pc[t] = "opened" /\ hd[u] = hd[t] => u = t

Unowned == \A t \in Threads : pc[t] = "dropping" => refs[hd[t]] = 0

SlotHeld ==
  \A h \in Handles :
    slot[h] # None => hd[slot[h]] = h /\ pc[slot[h]] \in Holding

CommitOwns ==
  \A t \in Threads : pc[t] = "fsync" => byte_lock = hd[t] /\ slot[hd[t]] = t

Ind ==
  Types /\ Counted /\ Held /\ Private /\ Unowned /\ SlotHeld /\ CommitOwns

(***************************************************************************)
(* What only holds when nobody opens a file that is still being created.   *)
(***************************************************************************)

(* Nobody is past the lookup before create() has registered its handle.    *)
CreatedAlone ==
  /\ file # "ready" => \A t \in Threads : pc[t] \in {"out", "created"}
  /\ \A t \in Threads : pc[t] = "created" => file = "creating"
  /\ \A t, u \in Threads : pc[t] = "created" /\ pc[u] = "created" => t = u

(* The Weak in the registry points at what the process's threads hold.     *)
HeldIsRegistered ==
  \A t \in Threads : pc[t] \in Holding => registry[ProcessOf[t]] = hd[t]

Shared == CreatedAlone /\ HeldIsRegistered

-----------------------------------------------------------------------------
(* A handle's holders are a finite set, and it is live exactly when there  *)
(* is one.                                                                 *)
LEMMA LiveHeld ==
  ASSUME Types, Counted, NEW h \in Handles
  PROVE  /\ IsFiniteSet(Holders(h))
         /\ Cardinality(Holders(h)) <= Cardinality(Threads)
         /\ refs[h] > 0 <=> \E t \in Threads : hd[t] = h /\ pc[t] \in Holding
<1>1. IsFiniteSet(Threads)
  BY SharedFileAssumption DEF SharedFileAssumption
<1>2. Holders(h) \subseteq Threads
  BY DEF Holders
<1>3. IsFiniteSet(Holders(h)) /\ Cardinality(Holders(h)) <= Cardinality(Threads)
  BY <1>1, <1>2, FS_Subset
<1>4. Cardinality(Holders(h)) = 0 <=> Holders(h) = {}
  BY <1>3, FS_EmptySet
<1>5. refs[h] > 0 <=> Holders(h) # {}
  BY <1>4 DEF Types, Counted
<1> QED BY <1>3, <1>5 DEF Holders, Holding

(* A thread that becomes a holder of h raises its count by one.            *)
LEMMA Joins ==
  ASSUME Types, Counted, NEW t \in Threads, NEW h \in Handles,
         pc[t] \notin Holding,
         pc' = [pc EXCEPT ![t] = "in"],
         hd' = [hd EXCEPT ![t] = h],
         refs' = [refs EXCEPT ![h] = refs[h] + 1]
  PROVE  Counted'
<1> SUFFICES ASSUME NEW k \in Handles
             PROVE  refs'[k] = Cardinality(Holders(k)')
  BY DEF Counted, Handles
<1>1. IsFiniteSet(Holders(k)) /\ refs[k] = Cardinality(Holders(k))
  BY LiveHeld DEF Counted
<1>2. CASE k = h
  <2>1. Holders(k)' = Holders(k) \cup {t} /\ t \notin Holders(k)
    BY <1>2 DEF Types, Holders, Holding
  <2>2. Cardinality(Holders(k)') = Cardinality(Holders(k)) + 1
    BY <1>1, <2>1, FS_AddElement
  <2> QED BY <1>1, <1>2, <2>2 DEF Types
<1>3. CASE k # h
  <2>1. Holders(k)' = Holders(k)
    BY <1>3 DEF Types, Holders, Holding
  <2> QED BY <1>1, <1>3, <2>1 DEF Types
<1> QED BY <1>2, <1>3

(* A step that changes no thread's ownership keeps the counts.             *)
LEMMA SameHolders ==
  ASSUME Types, Counted, refs' = refs,
         \A t \in Threads : \A h \in Handles :
           (hd'[t] = h /\ pc'[t] \in Holding) <=> (hd[t] = h /\ pc[t] \in Holding)
  PROVE  Counted'
<1>1. \A h \in Handles : Holders(h)' = Holders(h)
  BY DEF Holders, Holding
<1> QED BY <1>1 DEF Counted, Handles

(* Letting an Arc go lowers the count of its handle by one.                *)
LEMMA Leaves ==
  ASSUME Types, Counted, Held, NEW t \in Threads, Release(t)
  PROVE  Counted'
<1> SUFFICES ASSUME NEW k \in Handles
             PROVE  refs'[k] = Cardinality(Holders(k)')
  BY DEF Counted, Handles
<1>1. IsFiniteSet(Holders(k)) /\ refs[k] = Cardinality(Holders(k))
  BY LiveHeld DEF Counted
<1>2. hd[t] \in Handles /\ pc[t] = "in"
  BY DEF Release, Held, Types, Without
<1>3. pc' \in {[pc EXCEPT ![t] = "out"], [pc EXCEPT ![t] = "dropping"]}
      /\ \A u \in Threads : u # t => hd'[u] = hd[u]
  BY DEF Release, Goto, Types
<1>4. pc'[t] \notin Holding /\ \A u \in Threads : u # t => pc'[u] = pc[u]
  BY <1>3 DEF Types, Holding
<1>5. Holders(k)' = Holders(k) \ {t}
  BY <1>3, <1>4 DEF Holders, Holding
<1>6. CASE k = hd[t]
  <2>1. t \in Holders(k)
    BY <1>2, <1>6 DEF Holders
  <2>2. Cardinality(Holders(k)') = Cardinality(Holders(k)) - 1
    BY <1>1, <1>5, <2>1, FS_RemoveElement
  <2> QED BY <1>1, <1>2, <1>6, <2>2 DEF Release, Types
<1>7. CASE k # hd[t]
  <2>1. Holders(k)' = Holders(k)
    BY <1>5, <1>7 DEF Holders
  <2> QED BY <1>1, <1>2, <1>7, <2>1 DEF Release, Types
<1> QED BY <1>6, <1>7

-----------------------------------------------------------------------------
(* The initial state satisfies the inductive invariant.                    *)
LEMMA IndInit == Init => Ind /\ Shared
<1> SUFFICES ASSUME Init PROVE Ind /\ Shared
  OBVIOUS
<1> USE SharedFileAssumption DEF SharedFileAssumption, Init
<1>1. Types
  BY DEF Types, Handles, Holding, Without
<1>2. Counted
  <2> SUFFICES ASSUME NEW h \in Handles PROVE refs[h] = Cardinality(Holders(h))
    BY DEF Counted
  <2>1. Holders(h) = {}
    BY DEF Holders
  <2> QED BY <2>1, FS_EmptySet
<1>3. Held /\ Private /\ Unowned /\ SlotHeld /\ CommitOwns
  BY DEF Held, Private, Unowned, SlotHeld, CommitOwns, Handles, Holding, Without
<1>4. Shared
  BY DEF Shared, CreatedAlone, HeldIsRegistered, Holding
<1> QED BY <1>1, <1>2, <1>3, <1>4 DEF Ind

(* Entering a new handle in the registry keeps the invariant: nobody has   *)
(* it yet.                                                                 *)
LEMMA RegisterCreatedInd ==
  ASSUME Ind, NEW t \in Threads, RegisterCreated(t)
  PROVE  Ind'
<1> USE SharedFileAssumption DEF SharedFileAssumption, Ind, Holding, Without
<1> DEFINE h == made + 1
<1>1. h \in Handles /\ \A u \in Threads : hd[u] # h
  BY DEF RegisterCreated, Insert, Types, Held, Handles
<1>2. refs[h] = 0
  BY <1>1, LiveHeld DEF Types
<1>3. Types'
  <2>1. made' \in 0..MaxHandles /\ file' \in {"absent", "creating", "ready"}
    BY <1>1 DEF RegisterCreated, Insert, Types, Handles
  <2>2. registry' \in [Processes -> Handles \cup {None}]
    BY <1>1 DEF RegisterCreated, Insert, Types
  <2>3. refs' \in [Handles -> Nat] /\ hd' \in [Threads -> Handles \cup {None}]
    BY <1>1 DEF RegisterCreated, Insert, Types
  <2> QED BY <2>1, <2>2, <2>3 DEF RegisterCreated, Insert, Goto, Types, Handles
<1>4. Counted'
  <2>1. refs' = [refs EXCEPT ![h] = refs[h] + 1]
    BY <1>2 DEF RegisterCreated, Insert
  <2> HIDE DEF h
  <2>2. hd' = [hd EXCEPT ![t] = h] /\ pc' = [pc EXCEPT ![t] = "in"]
    BY DEF RegisterCreated, Insert, Goto, h
  <2>3. pc[t] \notin Holding
    BY DEF RegisterCreated
  <2> QED BY <1>1, <2>1, <2>2, <2>3, Joins
<1>5. Held' /\ Private' /\ Unowned'
  BY <1>1 DEF RegisterCreated, Insert, Goto, Types, Held, Private, Unowned,
     Handles
<1>6. SlotHeld' /\ CommitOwns'
  BY <1>1 DEF RegisterCreated, Insert, Goto, Types, Held, SlotHeld, CommitOwns,
     Handles
<1> QED BY <1>3, <1>4, <1>5, <1>6

(* Sharing a live handle keeps the invariant: nobody else thinks the       *)
(* handle is only theirs, because it has a holder.                         *)
LEMMA AdoptInd ==
  ASSUME Ind, NEW t \in Threads, pc[t] \in {"out", "opened"}, Adopt(t)
  PROVE  Ind'
<1> USE SharedFileAssumption DEF SharedFileAssumption, Ind, Holding, Without
<1> DEFINE h == registry[ProcessOf[t]]
<1>1. h \in Handles /\ refs[h] > 0
  BY DEF Adopt, Live, Types
<1>2. PICK w \in Threads : hd[w] = h /\ pc[w] \in Holding
  BY <1>1, LiveHeld
<1>3. Types'
  BY <1>1 DEF Adopt, Goto, Types, Handles
<1>4. Counted'
  <2> HIDE DEF h
  <2>1. /\ hd' = [hd EXCEPT ![t] = h] /\ pc' = [pc EXCEPT ![t] = "in"]
        /\ refs' = [refs EXCEPT ![h] = refs[h] + 1]
    BY <1>1 DEF Adopt, Goto, h, Types
  <2>2. pc[t] \notin Holding
    OBVIOUS
  <2> QED BY <1>1, <2>1, <2>2, Joins
<1>5. Held' /\ Private'
  BY <1>1, <1>2 DEF Adopt, Goto, Types, Held, Private, Handles
<1>6. Unowned'
  BY <1>1 DEF Adopt, Goto, Types, Unowned, Held
<1>7. SlotHeld' /\ CommitOwns'
  BY <1>1 DEF Adopt, Goto, Types, Held, SlotHeld, CommitOwns, Handles
<1> QED BY <1>3, <1>4, <1>5, <1>6, <1>7

(* So does registering the file this thread opened, which only it has.     *)
LEMMA RegisterOpenedInd ==
  ASSUME Ind, NEW t \in Threads, RegisterOpened(t)
  PROVE  Ind'
<1> USE SharedFileAssumption DEF SharedFileAssumption, Ind, Holding, Without
<1>1. hd[t] \in Handles /\ \A u \in Threads : hd[u] = hd[t] => u = t
  BY DEF RegisterOpened, Held, Private, Types
<1>2. refs[hd[t]] = 0
  BY <1>1, LiveHeld DEF Types, RegisterOpened
<1>3. Types'
  BY <1>1 DEF RegisterOpened, Goto, Types, Handles
<1>4. Counted'
  <2>1. /\ hd' = [hd EXCEPT ![t] = hd[t]] /\ pc' = [pc EXCEPT ![t] = "in"]
        /\ refs' = [refs EXCEPT ![hd[t]] = refs[hd[t]] + 1]
    BY <1>2 DEF RegisterOpened, Goto, Types
  <2>2. pc[t] \notin Holding
    BY DEF RegisterOpened
  <2> QED BY <1>1, <2>1, <2>2, Joins
<1>5. Held' /\ Private' /\ Unowned'
  BY <1>1 DEF RegisterOpened, Goto, Types, Held, Private, Unowned
<1>6. SlotHeld' /\ CommitOwns'
  BY <1>1 DEF RegisterOpened, Goto, Types, Held, SlotHeld, CommitOwns
<1> QED BY <1>3, <1>4, <1>5, <1>6

(* So does letting an Arc go: a thread in "in" that is not in the writer   *)
(* slot owns nothing but its count.                                        *)
LEMMA ReleaseInd ==
  ASSUME Ind, NEW t \in Threads, Release(t)
  PROVE  Ind'
<1> USE SharedFileAssumption DEF SharedFileAssumption, Ind, Holding, Without
<1>1. hd[t] \in Handles /\ pc[t] = "in"
  BY DEF Release, Held, Types
<1>2. refs[hd[t]] > 0
  BY <1>1, LiveHeld
<1>3. Types'
  BY <1>1, <1>2 DEF Release, Goto, Types
<1>4. Counted'
  BY Leaves
<1>5. Held' /\ Private'
  BY <1>1 DEF Release, Goto, Types, Held, Private
<1>6. Unowned'
  BY <1>1, <1>2 DEF Release, Goto, Types, Unowned, Held
<1>7. SlotHeld' /\ CommitOwns'
  BY <1>1 DEF Release, Goto, Types, Held, SlotHeld, CommitOwns
<1> QED BY <1>3, <1>4, <1>5, <1>6, <1>7

(* The other steps of open and drop change nobody's count.                 *)
LEMMA OpenStepInd ==
  ASSUME Ind, NEW t \in Threads,
         Create(t) \/ LookupMiss(t) \/ OpenFile(t) \/ DropDatabase(t)
  PROVE  Ind'
<1> USE SharedFileAssumption DEF SharedFileAssumption, Ind, Holding, Without
<1>1. CASE Create(t) \/ LookupMiss(t)
  <2> USE <1>1 DEF Create, LookupMiss, Goto, Types
  <2>1. Types'     OBVIOUS
  <2>2. Counted'   BY SameHolders
  <2>3. Held' /\ Private' /\ Unowned'
    BY DEF Held, Private, Unowned
  <2>4. SlotHeld' /\ CommitOwns'
    BY DEF SlotHeld, CommitOwns
  <2> QED BY <2>1, <2>2, <2>3, <2>4
<1>2. CASE OpenFile(t)
  <2> USE <1>2 DEF OpenFile, Goto, Types, Handles
  <2>1. Types'     OBVIOUS
  <2>2. Counted'   BY SameHolders
  <2>3. Held' /\ Private' /\ Unowned'
    BY DEF Held, Private, Unowned
  <2>4. SlotHeld' /\ CommitOwns'
    BY DEF SlotHeld, CommitOwns
  <2> QED BY <2>1, <2>2, <2>3, <2>4
<1>3. CASE DropDatabase(t)
  <2> USE <1>3 DEF DropDatabase, Goto, Types
  <2>1. hd[t] \in Handles /\ refs[hd[t]] = 0
    BY DEF Held, Unowned
  <2>2. \A u \in Threads : pc[u] \in Holding => hd[u] # hd[t]
    BY <2>1, LiveHeld
  <2>3. Types'     OBVIOUS
  <2>4. Counted'   BY SameHolders
  <2>5. Held' /\ Private' /\ Unowned'
    BY DEF Held, Private, Unowned
  <2>6. SlotHeld' /\ CommitOwns'
    BY <2>2 DEF SlotHeld, CommitOwns
  <2> QED BY <2>3, <2>4, <2>5, <2>6
<1> QED BY <1>1, <1>2, <1>3

(* A commit gets the byte only when no commit of another handle has it,    *)
(* and the slot keeps the threads of its own handle out.                   *)
LEMMA WriteStepInd ==
  ASSUME Ind, NEW t \in Threads,
         \/ Put(t) \/ DropConnection(t)
         \/ CommitWrites(t) \/ CommitBusy(t) \/ CommitFails(t)
         \/ FsyncFails(t) \/ CommitPublishes(t)
  PROVE  Ind'
<1> USE SharedFileAssumption
    DEF SharedFileAssumption, Ind, Holding, Without, Types
<1>1. pc[t] \in Holding /\ hd[t] \in Handles
  BY DEF Put, DropConnection, CommitWrites, CommitBusy, CommitFails, Writing,
         FsyncFails, CommitPublishes, Held
<1>2. CASE Put(t)
  <2> USE <1>1, <1>2 DEF Put
  <2>1. Types'     OBVIOUS
  <2>2. Counted'   BY SameHolders
  <2>3. Held' /\ Private' /\ Unowned'
    BY DEF Held, Private, Unowned
  <2>4. SlotHeld' /\ CommitOwns'
    BY DEF SlotHeld, CommitOwns
  <2> QED BY <2>1, <2>2, <2>3, <2>4
<1>3. CASE DropConnection(t) \/ CommitBusy(t)
  <2> USE <1>1, <1>3 DEF DropConnection, CommitBusy, Writing
  <2>1. Types'     OBVIOUS
  <2>2. Counted'   BY SameHolders
  <2>3. Held' /\ Private' /\ Unowned'
    BY DEF Held, Private, Unowned
  <2>4. \A u \in Threads : pc[u] = "fsync" => hd[u] # hd[t]
    BY DEF CommitOwns
  <2>5. SlotHeld'
    BY DEF SlotHeld
  <2>6. CommitOwns'
    BY <2>4 DEF CommitOwns, Held
  <2> QED BY <2>1, <2>2, <2>3, <2>5, <2>6
<1>4. CASE CommitWrites(t)
  <2> USE <1>1, <1>4 DEF CommitWrites, Writing, TryLock, Goto
  <2>1. Types'     OBVIOUS
  <2>2. Counted'   BY SameHolders
  <2>3. Held' /\ Private' /\ Unowned'
    BY DEF Held, Private, Unowned
  <2>4. SlotHeld' /\ CommitOwns'
    BY DEF SlotHeld, CommitOwns, Held
  <2> QED BY <2>1, <2>2, <2>3, <2>4
<1>5. CASE CommitFails(t)
  <2> USE <1>1, <1>5 DEF CommitFails, Writing, TryLock
  <2>1. Types'     OBVIOUS
  <2>2. Counted'   BY SameHolders
  <2>3. Held' /\ Private' /\ Unowned'
    BY DEF Held, Private, Unowned
  <2>4. SlotHeld' /\ CommitOwns'
    BY DEF SlotHeld, CommitOwns, Held
  <2> QED BY <2>1, <2>2, <2>3, <2>4
<1>6. CASE FsyncFails(t) \/ CommitPublishes(t)
  <2> USE <1>1, <1>6 DEF FsyncFails, CommitPublishes, Goto
  <2>0. pc' = [pc EXCEPT ![t] = "in"] /\ hd' = hd /\ refs' = refs
        /\ slot' = slot /\ byte_lock' \in {byte_lock, None}
    OBVIOUS
  <2>1. Types'     OBVIOUS
  <2>2. Counted'   BY <2>0, SameHolders
  <2>3. Held' /\ Private' /\ Unowned'
    BY DEF Held, Private, Unowned
  <2>4. SlotHeld' /\ CommitOwns'
    BY DEF SlotHeld, CommitOwns
  <2> QED BY <2>1, <2>2, <2>3, <2>4
<1> QED BY <1>2, <1>3, <1>4, <1>5, <1>6

(* The invariant is inductive.                                             *)
LEMMA IndStep == Ind /\ [Next]_vars => Ind'
<1> SUFFICES ASSUME Ind, [Next]_vars PROVE Ind'
  OBVIOUS
<1>1. ASSUME NEW t \in Threads, ThreadStep(t) PROVE Ind'
  <2>1. CASE RegisterCreated(t)
    BY <2>1, RegisterCreatedInd
  <2>2. CASE LookupHit(t) \/ AdoptWinner(t)
    BY <2>2, AdoptInd DEF LookupHit, AdoptWinner
  <2>3. CASE RegisterOpened(t)
    BY <2>3, RegisterOpenedInd
  <2>4. CASE Release(t)
    BY <2>4, ReleaseInd
  <2>5. CASE Create(t) \/ LookupMiss(t) \/ OpenFile(t) \/ DropDatabase(t)
    BY <2>5, OpenStepInd
  <2>6. CASE \/ Put(t) \/ DropConnection(t)
             \/ CommitWrites(t) \/ CommitBusy(t) \/ CommitFails(t)
             \/ FsyncFails(t) \/ CommitPublishes(t)
    BY <2>6, WriteStepInd
  <2> QED BY <1>1, <2>1, <2>2, <2>3, <2>4, <2>5, <2>6 DEF ThreadStep
<1>2. CASE UNCHANGED vars
  <2>1. Counted'
    BY <1>2 DEF vars, Ind, Counted, Holders, Handles
  <2> QED
    BY <1>2, <2>1 DEF vars, Ind, Types, Held, Private, Unowned, SlotHeld,
       CommitOwns, Handles
<1> QED BY <1>1, <1>2 DEF Next

(* The types hold for any constants; and the strong count of a Database is *)
(* the number of threads that hold it, so that Drop runs exactly when the  *)
(* last of them has let it go (database.rs, Drop for Database).            *)
THEOREM TypeCorrect == Spec => []TypeOK
<1>1. Ind => TypeOK
  <2> SUFFICES ASSUME Ind PROVE TypeOK
    OBVIOUS
  <2>1. \A h \in Handles : refs[h] = Cardinality(Holders(h))
    BY DEF Ind, Counted
  <2>2. \A h \in Handles : Cardinality(Holders(h)) <= Cardinality(Threads)
    BY LiveHeld DEF Ind
  <2>3. Cardinality(Threads) \in Nat
    BY SharedFileAssumption, FS_CardinalityType DEF SharedFileAssumption
  <2>4. refs \in [Handles -> 0..Cardinality(Threads)]
    BY <2>1, <2>2, <2>3 DEF Ind, Types
  <2> QED BY <2>1, <2>4 DEF Ind, Types, TypeOK, Holders
<1> QED BY IndInit, IndStep, <1>1, PTL DEF Spec

(* locks.rs: "One writer at a time across processes".  However many        *)
(* processes and threads there are, and whatever commits failed and left   *)
(* the byte locked, no two commits are between their first write and their *)
(* publish.                                                                *)
THEOREM CommitsExclusive == Spec => []ExclusiveCommit
<1>1. Ind => ExclusiveCommit
  BY DEF Ind, CommitOwns, ExclusiveCommit
<1> QED BY IndInit, IndStep, <1>1, PTL DEF Spec

-----------------------------------------------------------------------------
(* With CreateFirst, the registry of a process points at the handle its    *)
(* threads hold.                                                           *)
LEMMA SharedStep ==
  ASSUME CreateFirst, Ind, Shared, [Next]_vars
  PROVE  Shared'
<1> USE SharedFileAssumption
    DEF SharedFileAssumption, Ind, Types, Holding, Without, Shared
<1>1. ASSUME NEW t \in Threads, ThreadStep(t) PROVE Shared'
  <2> USE DEF Goto, CreatedAlone, HeldIsRegistered
  <2>1. CASE Create(t)
    BY <2>1 DEF Create
  <2>2. CASE RegisterCreated(t)
    BY <2>2 DEF RegisterCreated, Insert
  <2>3. CASE LookupHit(t) \/ AdoptWinner(t)
    BY <2>3 DEF LookupHit, AdoptWinner, Adopt, Openable
  <2>4. CASE LookupMiss(t)
    BY <2>4 DEF LookupMiss, Openable
  <2>5. CASE OpenFile(t)
    BY <2>5 DEF OpenFile
  <2>6. CASE RegisterOpened(t)
    <3>1. ASSUME NEW u \in Threads, pc[u] \in Holding PROVE ProcessOf[u] # ProcessOf[t]
      <4>1. hd[u] \in Handles /\ refs[hd[u]] > 0
        BY <3>1, LiveHeld DEF Held
      <4> QED BY <2>6, <3>1, <4>1 DEF RegisterOpened, Live, Handles
    <3> QED BY <2>6, <3>1 DEF RegisterOpened
  <2>7. CASE Release(t)
    BY <2>7 DEF Release
  <2>8. CASE DropDatabase(t)
    <3>1. ASSUME NEW u \in Threads, pc[u] \in Holding PROVE Live(hd[u])
      BY <3>1, LiveHeld DEF Held, Live
    <3> QED BY <2>8, <3>1 DEF DropDatabase
  <2>9. CASE Put(t) \/ DropConnection(t) \/ CommitBusy(t) \/ CommitFails(t)
    BY <2>9 DEF Put, DropConnection, CommitBusy, CommitFails
  <2>10. CASE CommitWrites(t)
    BY <2>10 DEF CommitWrites, Writing
  <2>11. CASE FsyncFails(t) \/ CommitPublishes(t)
    BY <2>11 DEF FsyncFails, CommitPublishes
  <2> QED BY <1>1, <2>1, <2>2, <2>3, <2>4, <2>5, <2>6, <2>7, <2>8, <2>9, <2>10,
             <2>11 DEF ThreadStep
<1>2. CASE UNCHANGED vars
  BY <1>2 DEF vars, CreatedAlone, HeldIsRegistered
<1> QED BY <1>1, <1>2 DEF Next

(* database.rs: opening the same file twice "collapses to one shared       *)
(* handle": threads of one process that hold a Database hold the same one, *)
(* through every race of open and drop.  The theorem needs CreateFirst: a  *)
(* file opened while create() is between making it and registering it can  *)
(* end up behind two handles.                                              *)
THEOREM OneDatabase == CreateFirst => (Spec => []OneLiveDatabase)
<1> SUFFICES ASSUME CreateFirst PROVE Spec => []OneLiveDatabase
  OBVIOUS
<1>1. Ind /\ Shared /\ [Next]_vars => (Ind /\ Shared)'
  BY IndStep, SharedStep
<1>2. Shared => OneLiveDatabase
  BY DEF Shared, HeldIsRegistered, OneLiveDatabase, Holding
<1> QED BY IndInit, <1>1, <1>2, PTL DEF Spec

=============================================================================
