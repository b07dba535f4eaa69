---------------------------- MODULE MCCommitFile ----------------------------
(***************************************************************************)
(* Small instances of CommitFile.                                          *)
(***************************************************************************)
EXTENDS CommitFile

(* Under either durability: power losses that reorder and tear, without    *)
(* I/O errors and without a process that dies inside a commit; and I/O     *)
(* errors and deaths anywhere under write-ordered storage.                 *)
Crashes(b) == [buffered |-> b, reorder |-> TRUE, midcommit |-> FALSE,
               puts |-> 3, commits |-> 4, errors |-> 0, stops |-> 4]
Errors(b) == [buffered |-> b, reorder |-> FALSE, midcommit |-> TRUE,
              puts |-> 3, commits |-> 5, errors |-> 3, stops |-> 3]
MCSettings == {Crashes(b) : b \in BOOLEAN} \cup {Errors(b) : b \in BOOLEAN}

(* No I/O error at all: a process that dies inside a commit, then power    *)
(* losses that reorder.                                                    *)
OrphanSettings == {[buffered |-> TRUE, reorder |-> TRUE, midcommit |-> TRUE,
                    puts |-> 4, commits |-> 4, errors |-> 0, stops |-> 3]}

(* One I/O error, one stop.                                                *)
TextSettings == {[buffered |-> TRUE, reorder |-> FALSE, midcommit |-> TRUE,
                  puts |-> 3, commits |-> 5, errors |-> 1, stops |-> 1]}
=============================================================================
