-------------------------- MODULE GroupFsync_proof --------------------------
(***************************************************************************)
(* Proofs about GroupFsync for any set of callers and any number of calls  *)
(* and errors: the type invariant, the durability of every Ok, the single  *)
(* leader, and the refinement of DurabilityBarrier.                        *)
(***************************************************************************)
EXTENDS GroupFsync, TLAPS

(* Callers that hold a ticket of their current call.                       *)
Ticketed == InCall \ {"written"}

(***************************************************************************)
(* The inductive invariant.  OkImpliesDurable alone is not inductive: that *)
(* a leader's target may be published needs to know what its system call   *)
(* captured, and that in turn that no caller at or below the target wrote  *)
(* after the capture.                                                      *)
(***************************************************************************)
TicketOrder ==
  /\ last_fsynced < next_ticket
  /\ \A c \in Callers :
       /\ pc[c] \in Ticketed => my_ticket[c] < next_ticket
       /\ pc[c] \in Leading => my_ticket[c] <= target[c]
       /\ pc[c] \in Leading => target[c] < next_ticket

(* Nothing a caller asked for is lost: it is in the cache or on disk.      *)
BytesKept == \A c \in Callers : pc[c] \in InCall => Bytes(c) \in dirty \cup durable

CaptureCoversTarget ==
  \A l, c \in Callers :
    pc[l] = "syncing" /\ pc[c] \in Ticketed /\ my_ticket[c] <= target[l]
      => Bytes(c) \in captured \cup durable

SyncCoversTarget ==
  \A l, c \in Callers :
    pc[l] = "synced" /\ pc[c] \in Ticketed /\ my_ticket[c] <= target[l]
      => Bytes(c) \in durable

ReturningOkIsDurable ==
  \A c \in Callers : pc[c] \in {"notify_ok", "ok"} => Bytes(c) \in durable

Ind ==
  /\ TypeOK
  /\ OneLeader
  /\ TicketOrder
  /\ BytesKept
  /\ CaptureCoversTarget
  /\ SyncCoversTarget
  /\ CoveredImpliesDurable
  /\ ReturningOkIsDurable

-----------------------------------------------------------------------------
(* Every variable keeps its type: tickets only grow and each write is one  *)
(* of the bounded set.                                                     *)
THEOREM TypeCorrect == Spec => []TypeOK
<1> USE GroupFsyncAssumption
<1>1. Init => TypeOK
  <2> SUFFICES ASSUME Init PROVE TypeOK
    OBVIOUS
  <2>1. 0 \in 0..MaxCalls /\ 0 \in 0..MaxErrors
    BY DEF GroupFsyncAssumption
  <2>2. next_ticket \in Nat \ {0} /\ last_fsynced \in Nat
    BY DEF Init
  <2>3. QED
    BY <2>1, <2>2 DEF Init, TypeOK, Resting, InCall, Leading
<1>2. TypeOK /\ [Next]_vars => TypeOK'
  <2> SUFFICES ASSUME TypeOK, [Next]_vars PROVE TypeOK'
    OBVIOUS
  <2> USE DEF TypeOK, Resting, InCall, Leading, Goto, barrier, storage
  <2>1. ASSUME NEW c \in Callers, WriteBytes(c) PROVE TypeOK'
    BY <2>1 DEF WriteBytes
  <2>2. ASSUME NEW c \in Callers, TakeTicket(c) PROVE TypeOK'
    BY <2>2 DEF TakeTicket
  <2>3. ASSUME NEW c \in Callers, ReturnCovered(c) PROVE TypeOK'
    BY <2>3 DEF ReturnCovered, DropLocals
  <2>4. ASSUME NEW c \in Callers, Wait(c) PROVE TypeOK'
    BY <2>4 DEF Wait
  <2>5. ASSUME NEW c \in Callers, Promote(c) PROVE TypeOK'
    BY <2>5 DEF Promote
  <2>6. ASSUME NEW c \in Callers, StartFsync(c) PROVE TypeOK'
    BY <2>6 DEF StartFsync
  <2>7. ASSUME NEW c \in Callers, FsyncOk(c) PROVE TypeOK'
    BY <2>7 DEF FsyncOk
  <2>8. ASSUME NEW c \in Callers, FsyncErr(c) PROVE TypeOK'
    BY <2>8 DEF FsyncErr
  <2>9. ASSUME NEW c \in Callers, Release(c) PROVE TypeOK'
    BY <2>9 DEF Release
  <2>10. ASSUME NEW c \in Callers, Notify(c) PROVE TypeOK'
    BY <2>10 DEF Notify, DropLocals
  <2>11. CASE UNCHANGED vars
    BY <2>11 DEF vars
  <2>12. QED
    BY <2>1, <2>2, <2>3, <2>4, <2>5, <2>6, <2>7, <2>8, <2>9, <2>10, <2>11
       DEF Next, FsyncStep
<1>3. QED
  BY <1>1, <1>2, PTL DEF Spec

-----------------------------------------------------------------------------
(* One step of the barrier preserves the inductive invariant, as long as   *)
(* the kernel keeps the pages of a failed fsync dirty.                     *)
LEMMA IndStep ==
  ASSUME DropDirtyOnError = FALSE, Ind, TypeOK', [Next]_vars
  PROVE  Ind'
<1> USE DEF Ticketed, InCall, Leading, Resting, Goto, Bytes, barrier, storage
<1> DEFINE Rest == /\ OneLeader /\ TicketOrder /\ BytesKept
                   /\ CaptureCoversTarget /\ SyncCoversTarget
                   /\ CoveredImpliesDurable /\ ReturningOkIsDurable
<1> USE DEF OneLeader, TicketOrder, BytesKept, CaptureCoversTarget,
            SyncCoversTarget, CoveredImpliesDurable, ReturningOkIsDurable
<1>1. ASSUME NEW c \in Callers, WriteBytes(c) PROVE Rest'
  BY <1>1 DEF WriteBytes, Ind, TypeOK
<1>2. ASSUME NEW c \in Callers, TakeTicket(c) PROVE Rest'
  BY <1>2 DEF TakeTicket, Ind, TypeOK
<1>3. ASSUME NEW c \in Callers, ReturnCovered(c) PROVE Rest'
  BY <1>3 DEF ReturnCovered, DropLocals, Ind, TypeOK
<1>4. ASSUME NEW c \in Callers, Wait(c) PROVE Rest'
  BY <1>4 DEF Wait, Ind, TypeOK
<1>5. ASSUME NEW c \in Callers, Promote(c) PROVE Rest'
  BY <1>5 DEF Promote, Ind, TypeOK
<1>6. ASSUME NEW c \in Callers, StartFsync(c) PROVE Rest'
  BY <1>6 DEF StartFsync, Ind, TypeOK
<1>7. ASSUME NEW c \in Callers, FsyncOk(c) PROVE Rest'
  BY <1>7 DEF FsyncOk, Ind, TypeOK
<1>8. ASSUME NEW c \in Callers, FsyncErr(c) PROVE Rest'
  BY <1>8 DEF FsyncErr, Ind, TypeOK
<1>9. ASSUME NEW c \in Callers, Release(c) PROVE Rest'
  BY <1>9 DEF Release, Ind, TypeOK
<1>10. ASSUME NEW c \in Callers, Notify(c) PROVE Rest'
  BY <1>10 DEF Notify, DropLocals, Ind, TypeOK
<1>11. CASE UNCHANGED vars
  BY <1>11 DEF vars, Ind, TypeOK
<1>12. QED
  BY <1>1, <1>2, <1>3, <1>4, <1>5, <1>6, <1>7, <1>8, <1>9, <1>10, <1>11
     DEF Next, FsyncStep, Ind

(* The initial state satisfies it.                                         *)
LEMMA IndInit == Init => Ind
<1> SUFFICES ASSUME Init PROVE Ind
  OBVIOUS
<1>1. 0 \in 0..MaxCalls /\ 0 \in 0..MaxErrors
  BY GroupFsyncAssumption DEF GroupFsyncAssumption
<1>2. next_ticket \in Nat \ {0} /\ last_fsynced \in Nat
        /\ last_fsynced < next_ticket
  BY DEF Init
<1>3. TypeOK
  BY <1>1, <1>2 DEF Init, TypeOK, Resting, InCall, Leading
<1>4. OneLeader
  BY DEF Init, OneLeader, Leading
<1>5. QED
  BY <1>2, <1>3, <1>4 DEF Init, Ind, TicketOrder, BytesKept, Ticketed,
     CaptureCoversTarget, SyncCoversTarget, CoveredImpliesDurable,
     ReturningOkIsDurable, InCall, Leading

(* Hence it holds in every reachable state.                                *)
LEMMA IndInvariant == ASSUME DropDirtyOnError = FALSE PROVE Spec => []Ind
<1>1. Ind /\ TypeOK' /\ [Next]_vars => Ind'
  BY IndStep
<1>2. QED
  BY <1>1, IndInit, TypeCorrect, PTL DEF Spec

(* A caller that fsync() answered with Ok has its bytes on disk, whichever *)
(* caller ran the system call and however often earlier leaders failed.    *)
THEOREM OkIsDurable ==
  ASSUME DropDirtyOnError = FALSE PROVE Spec => []OkImpliesDurable
<1>1. Ind => OkImpliesDurable
  BY DEF Ind, ReturningOkIsDurable, OkImpliesDurable
<1>2. QED
  BY <1>1, IndInvariant, PTL

(* A published ticket number never runs ahead of the disk.                 *)
THEOREM CoveredIsDurable ==
  ASSUME DropDirtyOnError = FALSE PROVE Spec => []CoveredImpliesDurable
<1>1. Ind => CoveredImpliesDurable
  BY DEF Ind
<1>2. QED
  BY <1>1, IndInvariant, PTL

(* No two fsync system calls of the barrier overlap, and leader_active     *)
(* says truthfully whether a leader exists, whatever the kernel does with  *)
(* the pages of a failed fsync.                                            *)
THEOREM LeaderIsUnique == Spec => []OneLeader
<1> USE DEF OneLeader, Leading, InCall, Resting, Goto, barrier, storage
<1>1. Init => OneLeader
  BY DEF Init
<1>2. TypeOK /\ OneLeader /\ [Next]_vars => OneLeader'
  <2> SUFFICES ASSUME TypeOK, OneLeader, [Next]_vars PROVE OneLeader'
    OBVIOUS
  <2> USE DEF TypeOK
  <2>1. ASSUME NEW c \in Callers, WriteBytes(c) PROVE OneLeader'
    BY <2>1 DEF WriteBytes
  <2>2. ASSUME NEW c \in Callers, TakeTicket(c) PROVE OneLeader'
    BY <2>2 DEF TakeTicket
  <2>3. ASSUME NEW c \in Callers, ReturnCovered(c) PROVE OneLeader'
    BY <2>3 DEF ReturnCovered
  <2>4. ASSUME NEW c \in Callers, Wait(c) PROVE OneLeader'
    BY <2>4 DEF Wait
  <2>5. ASSUME NEW c \in Callers, Promote(c) PROVE OneLeader'
    BY <2>5 DEF Promote
  <2>6. ASSUME NEW c \in Callers, StartFsync(c) PROVE OneLeader'
    BY <2>6 DEF StartFsync
  <2>7. ASSUME NEW c \in Callers, FsyncOk(c) PROVE OneLeader'
    BY <2>7 DEF FsyncOk
  <2>8. ASSUME NEW c \in Callers, FsyncErr(c) PROVE OneLeader'
    BY <2>8 DEF FsyncErr
  <2>9. ASSUME NEW c \in Callers, Release(c) PROVE OneLeader'
    BY <2>9 DEF Release
  <2>10. ASSUME NEW c \in Callers, Notify(c) PROVE OneLeader'
    BY <2>10 DEF Notify
  <2>11. CASE UNCHANGED vars
    BY <2>11 DEF vars
  <2>12. QED
    BY <2>1, <2>2, <2>3, <2>4, <2>5, <2>6, <2>7, <2>8, <2>9, <2>10, <2>11
       DEF Next, FsyncStep
<1>3. QED
  BY <1>1, <1>2, TypeCorrect, PTL DEF Spec

(* A waiter is never left without somebody who will wake it.               *)
THEOREM NoLostWakeup == Spec => []WaitersHaveWaker
<1> USE DEF WaitersHaveWaker, OneLeader, Leading, InCall, Resting, Goto, barrier, storage
<1>1. Init => WaitersHaveWaker
  BY DEF Init
<1>2. TypeOK /\ OneLeader /\ WaitersHaveWaker /\ [Next]_vars => WaitersHaveWaker'
  <2> SUFFICES ASSUME TypeOK, OneLeader, WaitersHaveWaker, [Next]_vars
                  PROVE  WaitersHaveWaker'
    OBVIOUS
  <2> USE DEF TypeOK
  <2>1. ASSUME NEW c \in Callers, WriteBytes(c) PROVE WaitersHaveWaker'
    BY <2>1 DEF WriteBytes
  <2>2. ASSUME NEW c \in Callers, TakeTicket(c) PROVE WaitersHaveWaker'
    BY <2>2 DEF TakeTicket
  <2>3. ASSUME NEW c \in Callers, ReturnCovered(c) PROVE WaitersHaveWaker'
    BY <2>3 DEF ReturnCovered
  <2>4. ASSUME NEW c \in Callers, Wait(c) PROVE WaitersHaveWaker'
    BY <2>4 DEF Wait
  <2>5. ASSUME NEW c \in Callers, Promote(c) PROVE WaitersHaveWaker'
    BY <2>5 DEF Promote
  <2>6. ASSUME NEW c \in Callers, StartFsync(c) PROVE WaitersHaveWaker'
    BY <2>6 DEF StartFsync
  <2>7. ASSUME NEW c \in Callers, FsyncOk(c) PROVE WaitersHaveWaker'
    BY <2>7 DEF FsyncOk
  <2>8. ASSUME NEW c \in Callers, FsyncErr(c) PROVE WaitersHaveWaker'
    BY <2>8 DEF FsyncErr
  <2>9. ASSUME NEW c \in Callers, Release(c) PROVE WaitersHaveWaker'
    BY <2>9 DEF Release
  <2>10. ASSUME NEW c \in Callers, Notify(c) PROVE WaitersHaveWaker'
    BY <2>10 DEF Notify
  <2>11. CASE UNCHANGED vars
    BY <2>11 DEF vars
  <2>12. QED
    BY <2>1, <2>2, <2>3, <2>4, <2>5, <2>6, <2>7, <2>8, <2>9, <2>10, <2>11
       DEF Next, FsyncStep
<1>3. QED
  BY <1>1, <1>2, TypeCorrect, LeaderIsUnique, PTL DEF Spec

-----------------------------------------------------------------------------
(* Only bytes that were written are ever cached, captured or durable.      *)
OnlyWritten ==
  /\ dirty \subseteq Barrier!Written
  /\ captured \subseteq Barrier!Written
  /\ durable \subseteq Barrier!Written

(* A step keeps OnlyWritten.                                               *)
LEMMA OnlyWrittenStep ==
  ASSUME TypeOK, OnlyWritten, [Next]_vars PROVE OnlyWritten'
<1> USE DEF OnlyWritten, Barrier!Written, TypeOK, barrier, storage
<1>1. ASSUME NEW c \in Callers, WriteBytes(c) PROVE OnlyWritten'
  <2>1. calls[c] + 1 \in 1..MaxCalls /\ calls[c] <= calls[c] + 1
    BY <1>1, GroupFsyncAssumption DEF WriteBytes, GroupFsyncAssumption
  <2>2. \A w \in Callers \X (1..MaxCalls) :
          w[2] <= calls[w[1]] => w[2] <= calls'[w[1]]
    BY <1>1, <2>1 DEF WriteBytes
  <2>3. QED
    BY <1>1, <2>1, <2>2 DEF WriteBytes
<1>2. ASSUME NEW c \in Callers, FsyncOk(c) PROVE OnlyWritten'
  BY <1>2 DEF FsyncOk
<1>3. ASSUME NEW c \in Callers, FsyncErr(c) PROVE OnlyWritten'
  BY <1>3 DEF FsyncErr
<1>4. ASSUME NEW c \in Callers, StartFsync(c) PROVE OnlyWritten'
  BY <1>4 DEF StartFsync
<1>5. ASSUME NEW c \in Callers,
             TakeTicket(c) \/ ReturnCovered(c) \/ Wait(c) \/ Promote(c)
               \/ Release(c) \/ Notify(c)
      PROVE OnlyWritten'
  BY <1>5 DEF TakeTicket, ReturnCovered, Wait, Promote, Release, Notify
<1>6. CASE UNCHANGED vars
  BY <1>6 DEF vars
<1>7. QED
  BY <1>1, <1>2, <1>3, <1>4, <1>5, <1>6 DEF Next, FsyncStep

(* Every step of the ticket protocol is a step of the abstract barrier, or *)
(* invisible to it.                                                        *)
LEMMA BarrierStep ==
  ASSUME Ind, OnlyWritten, OnlyWritten', [Next]_vars
  PROVE  [Barrier!Next]_(Barrier!vars)
<1> USE DEF Ind, TypeOK, InCall, Leading, Resting, Goto, Bytes, barrier, storage,
            Barrier!vars, Barrier!Next
<1>1. ASSUME NEW c \in Callers, WriteBytes(c) PROVE Barrier!Call(c)
  BY <1>1 DEF WriteBytes, Barrier!Call
<1>2. ASSUME NEW c \in Callers, TakeTicket(c) PROVE UNCHANGED Barrier!vars
  BY <1>2 DEF TakeTicket, TicketOrder
<1>3. ASSUME NEW c \in Callers, ReturnCovered(c) PROVE Barrier!ReturnOk(c)
  BY <1>3 DEF ReturnCovered, CoveredImpliesDurable, Barrier!ReturnOk
<1>4. ASSUME NEW c \in Callers, Wait(c) PROVE UNCHANGED Barrier!vars
  BY <1>4 DEF Wait
<1>5. ASSUME NEW c \in Callers, Promote(c) PROVE UNCHANGED Barrier!vars
  BY <1>5 DEF Promote
<1>6. ASSUME NEW c \in Callers, StartFsync(c) PROVE UNCHANGED Barrier!vars
  BY <1>6 DEF StartFsync
<1>7. ASSUME NEW c \in Callers, FsyncOk(c) PROVE Barrier!Persist
  BY <1>7 DEF FsyncOk, Barrier!Persist, OnlyWritten, Barrier!Written
<1>8. ASSUME NEW c \in Callers, FsyncErr(c) PROVE Barrier!Persist
  BY <1>8 DEF FsyncErr, Barrier!Persist, OnlyWritten, Barrier!Written
<1>9. ASSUME NEW c \in Callers, Release(c) PROVE UNCHANGED Barrier!vars
  BY <1>9 DEF Release
<1>10. ASSUME NEW c \in Callers, Notify(c)
       PROVE  Barrier!ReturnOk(c) \/ Barrier!ReturnErr(c)
  <2>1. CASE pc[c] = "notify_ok"
    BY <1>10, <2>1 DEF Notify, ReturningOkIsDurable, Barrier!ReturnOk
  <2>2. CASE pc[c] = "notify_err"
    BY <1>10, <2>2 DEF Notify, Barrier!ReturnErr
  <2>3. QED
    BY <1>10, <2>1, <2>2 DEF Notify
<1>11. CASE UNCHANGED vars
  BY <1>11 DEF vars
<1>12. QED
  BY <1>1, <1>2, <1>3, <1>4, <1>5, <1>6, <1>7, <1>8, <1>9, <1>10, <1>11
     DEF Next, FsyncStep

(* The ticket protocol implements the abstract barrier: every step is a    *)
(* step of DurabilityBarrier or leaves its state alone.                    *)
THEOREM ImplementsBarrier ==
  ASSUME DropDirtyOnError = FALSE PROVE Spec => BarrierSpec
<1>1. Init => Barrier!Init /\ OnlyWritten
  BY DEF Init, Barrier!Init, OnlyWritten, InCall, Leading
<1>2. TypeOK /\ OnlyWritten /\ [Next]_vars => OnlyWritten'
  BY OnlyWrittenStep
<1>3. Ind /\ OnlyWritten /\ OnlyWritten' /\ [Next]_vars
        => [Barrier!Next]_(Barrier!vars)
  BY BarrierStep
<1>4. QED
  BY <1>1, <1>2, <1>3, IndInvariant, TypeCorrect, PTL
     DEF Spec, BarrierSpec, Barrier!Spec

=============================================================================
