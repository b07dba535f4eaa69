----------------------------- MODULE GroupFsync -----------------------------
(***************************************************************************)
(* The coalesced-fsync barrier of src/src/concurrency/writer_pipeline.rs.  *)
(*                                                                         *)
(* Concurrent commits share one fsync.  A caller that has written its      *)
(* bytes to the page cache takes a ticket under the state mutex and then   *)
(* loops: a covered ticket returns Ok, an active leader is waited for on   *)
(* the condition variable, and otherwise the caller becomes the leader,    *)
(* fsyncs with no lock held, and publishes the highest ticket that existed *)
(* when it was promoted.                                                   *)
(*                                                                         *)
(* One action is one critical section of the mutex, one system call or the *)
(* notification, so every interleaving the mutex allows is a behaviour.    *)
(*                                                                         *)
(* Every write is a pair <<c, k>>: the bytes caller c wrote before its     *)
(* k-th call.  `dirty' is the kernel's page cache, `durable' the disk.     *)
(***************************************************************************)
EXTENDS Integers

CONSTANTS
  Callers,          \* threads that call fsync()
  MaxCalls,         \* bound: calls each caller makes
  MaxErrors,        \* bound: fsync system calls that fail
  DropDirtyOnError  \* TRUE: a failed fsync marks the pages clean unwritten

ASSUME GroupFsyncAssumption ==
  /\ MaxCalls \in Nat
  /\ MaxErrors \in Nat
  /\ DropDirtyOnError \in BOOLEAN

VARIABLES
  next_ticket, last_fsynced, leader_active,   \* GroupFsyncState
  pc,         \* pc[c]: control point of caller c
  my_ticket,  \* my_ticket[c]: local of fsync()
  target,     \* target[c]: local of fsync(), set when c is promoted
  calls,      \* calls[c]: how many calls c has begun
  captured,   \* the dirty writes the running fsync must flush
  dirty,      \* page cache: written, not yet on disk
  durable,    \* on disk
  errors      \* fsync failures so far

vars == <<next_ticket, last_fsynced, leader_active, pc, my_ticket, target,
          calls, captured, dirty, durable, errors>>

barrier == <<next_ticket, last_fsynced, leader_active>>
storage == <<captured, dirty, durable, errors>>

Leading == {"leading", "syncing", "synced", "failed"}
InCall  == {"written", "ticketed", "waiting", "notify_ok", "notify_err"}
             \cup Leading
Resting == {"idle", "ok", "err"}

(* The bytes caller c is asking the barrier to make durable.               *)
Bytes(c) == <<c, calls[c]>>

(* Mutant of Init: tickets start at zero, where last_fsynced starts.       *)
InitTicketZero ==
  /\ next_ticket = 0 /\ last_fsynced = 0 /\ leader_active = FALSE
  /\ pc = [c \in Callers |-> "idle"]
  /\ my_ticket = [c \in Callers |-> 0] /\ target = [c \in Callers |-> 0]
  /\ calls = [c \in Callers |-> 0]
  /\ captured = {} /\ dirty = {} /\ durable = {} /\ errors = 0

Init ==
  /\ next_ticket = 1
  /\ last_fsynced = 0
  /\ leader_active = FALSE
  /\ pc = [c \in Callers |-> "idle"]
  /\ my_ticket = [c \in Callers |-> 0]
  /\ target = [c \in Callers |-> 0]
  /\ calls = [c \in Callers |-> 0]
  /\ captured = {}
  /\ dirty = {}
  /\ durable = {}
  /\ errors = 0

Goto(c, where) == pc' = [pc EXCEPT ![c] = where]

(* fsync() returns: its locals are gone.                                   *)
DropLocals(c) ==
  /\ my_ticket' = [my_ticket EXCEPT ![c] = 0]
  /\ target' = [target EXCEPT ![c] = 0]

(***************************************************************************)
(* Phase A of a commit: the bytes are in the page cache before fsync() is  *)
(* entered.                                                                *)
(***************************************************************************)
WriteBytes(c) ==
  /\ pc[c] \in Resting
  /\ calls[c] < MaxCalls
  /\ calls' = [calls EXCEPT ![c] = @ + 1]
  /\ dirty' = dirty \cup {<<c, calls[c] + 1>>}
  /\ Goto(c, "written")
  /\ UNCHANGED <<barrier, my_ticket, target, captured, durable, errors>>

(* First critical section of fsync(): take a ticket, with the fast path.   *)
TakeTicket(c) ==
  /\ pc[c] = "written"
  /\ my_ticket' = [my_ticket EXCEPT ![c] = next_ticket]
  /\ next_ticket' = next_ticket + 1
  /\ Goto(c, IF last_fsynced >= next_ticket THEN "ok" ELSE "ticketed")
  /\ UNCHANGED <<last_fsynced, leader_active, target, calls, storage>>

(***************************************************************************)
(* The three outcomes of one turn of the loop, each under the mutex.       *)
(***************************************************************************)
ReturnCovered(c) ==
  /\ pc[c] = "ticketed"
  /\ last_fsynced >= my_ticket[c]
  /\ Goto(c, "ok")
  /\ DropLocals(c)
  /\ UNCHANGED <<barrier, calls, storage>>

Wait(c) ==
  /\ pc[c] = "ticketed"
  /\ last_fsynced < my_ticket[c]
  /\ leader_active
  /\ Goto(c, "waiting")
  /\ UNCHANGED <<barrier, my_ticket, target, calls, storage>>

(* Mutant of Promote: the role is taken without looking at leader_active.  *)
PromoteUnchecked(c) ==
  /\ pc[c] = "ticketed"
  /\ last_fsynced < my_ticket[c]
  /\ leader_active' = TRUE
  /\ target' = [target EXCEPT ![c] = next_ticket - 1]
  /\ Goto(c, "leading")
  /\ UNCHANGED <<next_ticket, last_fsynced, my_ticket, calls, storage>>

Promote(c) ==
  /\ pc[c] = "ticketed"
  /\ last_fsynced < my_ticket[c]
  /\ ~leader_active
  /\ leader_active' = TRUE
  /\ target' = [target EXCEPT ![c] = next_ticket - 1]
  /\ Goto(c, "leading")
  /\ UNCHANGED <<next_ticket, last_fsynced, my_ticket, calls, storage>>

(***************************************************************************)
(* do_fsync(), no lock held.  The system call flushes what is dirty when   *)
(* it starts; bytes written while it runs are not its business.            *)
(***************************************************************************)
StartFsync(c) ==
  /\ pc[c] = "leading"
  /\ captured' = dirty
  /\ Goto(c, "syncing")
  /\ UNCHANGED <<barrier, my_ticket, target, calls, dirty, durable, errors>>

FsyncOk(c) ==
  /\ pc[c] = "syncing"
  /\ durable' = durable \cup captured
  /\ dirty' = dirty \ captured
  /\ captured' = {}
  /\ Goto(c, "synced")
  /\ UNCHANGED <<barrier, my_ticket, target, calls, errors>>

(* The system call fails; some of the bytes may have reached the disk.     *)
FsyncErr(c) ==
  /\ pc[c] = "syncing"
  /\ errors < MaxErrors
  /\ \E reached \in SUBSET captured :
       /\ durable' = durable \cup reached
       /\ dirty' = dirty \ (IF DropDirtyOnError THEN captured ELSE reached)
  /\ captured' = {}
  /\ errors' = errors + 1
  /\ Goto(c, "failed")
  /\ UNCHANGED <<barrier, my_ticket, target, calls>>

(* Mutant of Release: covers every ticket handed out by now, also those     *)
(* taken after the system call had started.                                *)
ReleaseLateTarget(c) ==
  /\ pc[c] \in {"synced", "failed"}
  /\ leader_active' = FALSE
  /\ last_fsynced' = IF pc[c] = "synced" THEN next_ticket - 1 ELSE last_fsynced
  /\ Goto(c, IF pc[c] = "synced" THEN "notify_ok" ELSE "notify_err")
  /\ UNCHANGED <<next_ticket, my_ticket, target, calls, storage>>

(* Mutant of Release: a failed fsync covers its followers too.             *)
ReleaseIgnoringError(c) ==
  /\ pc[c] \in {"synced", "failed"}
  /\ leader_active' = FALSE
  /\ last_fsynced' = IF target[c] > last_fsynced THEN target[c] ELSE last_fsynced
  /\ Goto(c, IF pc[c] = "synced" THEN "notify_ok" ELSE "notify_err")
  /\ UNCHANGED <<next_ticket, my_ticket, target, calls, storage>>

(* The leader gives up the role and publishes its target if it succeeded.  *)
Release(c) ==
  /\ pc[c] \in {"synced", "failed"}
  /\ leader_active' = FALSE
  /\ last_fsynced' = IF pc[c] = "synced" /\ target[c] > last_fsynced
                       THEN target[c] ELSE last_fsynced
  /\ Goto(c, IF pc[c] = "synced" THEN "notify_ok" ELSE "notify_err")
  /\ UNCHANGED <<next_ticket, my_ticket, target, calls, storage>>

(* Mutant of Notify: nobody is woken when the leader's fsync failed.       *)
NotifyOnlyOnSuccess(c) ==
  /\ pc[c] \in {"notify_ok", "notify_err"}
  /\ pc' = [d \in Callers |->
              IF d = c THEN (IF pc[c] = "notify_ok" THEN "ok" ELSE "err")
              ELSE IF pc[d] = "waiting" /\ pc[c] = "notify_ok"
                     THEN "ticketed" ELSE pc[d]]
  /\ DropLocals(c)
  /\ UNCHANGED <<barrier, calls, storage>>

(* Mutant of Notify: notify_one, which wakes a single waiter.              *)
NotifyOne(c) ==
  /\ pc[c] \in {"notify_ok", "notify_err"}
  /\ LET returned == [pc EXCEPT ![c] = IF @ = "notify_ok" THEN "ok" ELSE "err"]
         waiters  == {d \in Callers : pc[d] = "waiting"}
     IN  IF waiters = {} THEN pc' = returned
         ELSE \E d \in waiters : pc' = [returned EXCEPT ![d] = "ticketed"]
  /\ DropLocals(c)
  /\ UNCHANGED <<barrier, calls, storage>>

(* Mutant of Notify: a woken follower returns Ok without looking again.    *)
NotifyWithoutRecheck(c) ==
  /\ pc[c] \in {"notify_ok", "notify_err"}
  /\ pc' = [d \in Callers |->
              IF d = c THEN (IF pc[c] = "notify_ok" THEN "ok" ELSE "err")
              ELSE IF pc[d] = "waiting" THEN "ok" ELSE pc[d]]
  /\ DropLocals(c)
  /\ UNCHANGED <<barrier, calls, storage>>

(* cv.notify_all() after the mutex is released, then return the result.    *)
Notify(c) ==
  /\ pc[c] \in {"notify_ok", "notify_err"}
  /\ pc' = [d \in Callers |->
              IF d = c THEN (IF pc[c] = "notify_ok" THEN "ok" ELSE "err")
              ELSE IF pc[d] = "waiting" THEN "ticketed" ELSE pc[d]]
  /\ DropLocals(c)
  /\ UNCHANGED <<barrier, calls, storage>>

(* The steps of a caller inside fsync(); it never stops in the middle.     *)
FsyncStep(c) ==
  \/ TakeTicket(c) \/ ReturnCovered(c) \/ Wait(c) \/ Promote(c)
  \/ StartFsync(c) \/ FsyncOk(c) \/ FsyncErr(c) \/ Release(c) \/ Notify(c)

Next == \E c \in Callers : WriteBytes(c) \/ FsyncStep(c)

Spec == Init /\ [][Next]_vars

(* The scheduler keeps running every thread that can move, and a system    *)
(* call ends.  Nothing is assumed about the order of the threads.          *)
FairSpec == Spec /\ \A c \in Callers : WF_vars(FsyncStep(c))

-----------------------------------------------------------------------------
(* The types of the barrier's state and of fsync()'s locals; tickets start *)
(* at 1, above last_fsynced.                                               *)
TypeOK ==
  /\ next_ticket \in Nat \ {0}
  /\ last_fsynced \in Nat
  /\ leader_active \in BOOLEAN
  /\ pc \in [Callers -> Resting \cup InCall]
  /\ my_ticket \in [Callers -> Nat]
  /\ target \in [Callers -> Nat]
  /\ calls \in [Callers -> 0..MaxCalls]
  /\ captured \in SUBSET (Callers \X (1..MaxCalls))
  /\ dirty \in SUBSET (Callers \X (1..MaxCalls))
  /\ durable \in SUBSET (Callers \X (1..MaxCalls))
  /\ errors \in 0..MaxErrors

(* fsync(): "every caller sees its own bytes as durable when this          *)
(* returns".  A caller that got Ok, as leader or as a covered follower,    *)
(* has its own latest bytes on disk.                                       *)
OkImpliesDurable ==
  \A c \in Callers : pc[c] = "ok" => Bytes(c) \in durable

(* last_fsynced never runs ahead of the disk: a ticket at or below it      *)
(* belongs to a caller whose bytes are durable, although its holder may    *)
(* not have looked yet and a later leader may already be syncing.          *)
CoveredImpliesDurable ==
  \A c \in Callers :
    /\ pc[c] \in InCall \ {"written"}
    /\ last_fsynced >= my_ticket[c]
    => Bytes(c) \in durable

(* leader_active is true exactly while one caller leads, so two system     *)
(* calls never overlap and no waiter sleeps on a leader that is gone.      *)
OneLeader ==
  /\ \A c, d \in Callers : pc[c] \in Leading /\ pc[d] \in Leading => c = d
  /\ leader_active <=> \E c \in Callers : pc[c] \in Leading

(* No lost wake-up: while somebody waits, a leader is running or a         *)
(* notification is still to come.                                          *)
WaitersHaveWaker ==
  (\E c \in Callers : pc[c] = "waiting")
    => \E d \in Callers : pc[d] \in Leading \cup {"notify_ok", "notify_err"}

(* fsync() doc: "progress is guaranteed even under continuous arrival".    *)
(* Every call returns, also those whose leader failed.                     *)
EveryCallReturns ==
  \A c \in Callers : pc[c] \in InCall ~> pc[c] \in Resting

Barrier == INSTANCE DurabilityBarrier WITH
  status <- [c \in Callers |-> IF pc[c] \in InCall THEN "calling" ELSE pc[c]]

(* fsync() implements the abstract barrier: with tickets, leaders and the  *)
(* condition variable hidden, it answers Ok only for durable bytes and its *)
(* other steps are invisible or persist something that was written.        *)
BarrierSpec == Barrier!Spec

=============================================================================
