---------------------------- MODULE MCSharedFile ----------------------------
(***************************************************************************)
(* SharedFile for up to two processes: t1 and t2 live in p1, t3 in p2.    *)
(***************************************************************************)
EXTENDS SharedFile

CONSTANTS t1, t2, t3, p1, p2

MCProcessOf == [t \in Threads |-> IF t = t3 THEN p2 ELSE p1]

=============================================================================
