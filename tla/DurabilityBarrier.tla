-------------------------- MODULE DurabilityBarrier --------------------------
(***************************************************************************)
(* What a group-commit barrier promises its callers, with no mention of    *)
(* tickets, leaders or condition variables.                                *)
(*                                                                         *)
(* A caller writes bytes to the page cache and then calls the barrier.     *)
(* The storage may make written bytes durable at any moment.  The barrier  *)
(* may answer Ok to a caller only once that caller's bytes are durable; it *)
(* may answer with an error at any time.                                   *)
(*                                                                         *)
(* Every write is a pair <<c, k>>: the k-th write of caller c.             *)
(***************************************************************************)
EXTENDS Naturals

CONSTANTS
  Callers,    \* the threads that commit
  MaxCalls    \* bound: barrier calls each caller makes

VARIABLES
  calls,      \* calls[c]: the number of calls caller c has begun
  status,     \* status[c]: where c stands in its current call
  durable     \* the writes that have reached stable storage

vars == <<calls, status, durable>>

Statuses == {"idle", "calling", "ok", "err"}

Written == {w \in Callers \X (1..MaxCalls) : w[2] <= calls[w[1]]}

Init ==
  /\ calls = [c \in Callers |-> 0]
  /\ status = [c \in Callers |-> "idle"]
  /\ durable = {}

(* The caller's bytes enter the page cache and it turns to the barrier.    *)
Call(c) ==
  /\ status[c] # "calling"
  /\ calls[c] < MaxCalls
  /\ calls' = [calls EXCEPT ![c] = @ + 1]
  /\ status' = [status EXCEPT ![c] = "calling"]
  /\ UNCHANGED durable

(* Stable storage absorbs some more of what was written.                   *)
Persist ==
  /\ durable' \in SUBSET Written
  /\ durable \subseteq durable'
  /\ UNCHANGED <<calls, status>>

ReturnOk(c) ==
  /\ status[c] = "calling"
  /\ <<c, calls[c]>> \in durable
  /\ status' = [status EXCEPT ![c] = "ok"]
  /\ UNCHANGED <<calls, durable>>

ReturnErr(c) ==
  /\ status[c] = "calling"
  /\ status' = [status EXCEPT ![c] = "err"]
  /\ UNCHANGED <<calls, durable>>

Next ==
  \/ \E c \in Callers : Call(c) \/ ReturnOk(c) \/ ReturnErr(c)
  \/ Persist

Spec == Init /\ [][Next]_vars

=============================================================================
