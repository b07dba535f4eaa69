---------------------------- MODULE SnapshotStore ----------------------------
(***************************************************************************)
(* What the single-file store promises about commits and crashes, with no  *)
(* mention of headers, footers, segments or generations.                   *)
(*                                                                         *)
(* A snapshot is a set of items.  A commit turns the writer's view into    *)
(* the committed snapshot in one step.  A crash may strike at any moment;  *)
(* whatever is opened afterwards is the committed snapshot or, whole, one  *)
(* that a commit was trying to put in place after it.                      *)
(***************************************************************************)
EXTENDS Naturals

CONSTANT Items

VARIABLES
  view,       \* the items the open writer holds, staged ones included
  opened,     \* is there an open writer
  committed,  \* the snapshot of the last commit that returned Ok
  attempts    \* the snapshots written by commits begun since then

vars == <<view, opened, committed, attempts>>

Init ==
  /\ view = {}
  /\ opened = TRUE
  /\ committed = {}
  /\ attempts = {}

Stage ==
  /\ opened
  /\ \E i \in Items \ view : view' = view \cup {i}
  /\ UNCHANGED <<opened, committed, attempts>>

(* A commit begins to write the current view.                              *)
Begin ==
  /\ opened
  /\ attempts' = attempts \cup {view}
  /\ UNCHANGED <<view, opened, committed>>

(* The commit returns Ok: earlier attempts can no longer come back.        *)
Commit ==
  /\ opened
  /\ view \in attempts
  /\ committed' = view
  /\ attempts' = {}
  /\ UNCHANGED <<view, opened>>

Stop ==
  /\ opened
  /\ opened' = FALSE
  /\ view' = {}
  /\ UNCHANGED <<committed, attempts>>

Recover ==
  /\ ~opened
  /\ opened' = TRUE
  /\ view' \in {committed} \cup attempts
  /\ UNCHANGED <<committed, attempts>>

Next == Stage \/ Begin \/ Commit \/ Stop \/ Recover

Spec == Init /\ [][Next]_vars

=============================================================================
