--------------------------- MODULE MCIndexedFile ---------------------------
(***************************************************************************)
(* Small instances of IndexedFile and of the searches over it.             *)
(***************************************************************************)
EXTENDS StoreSearch

CONSTANTS n1, n2

(* A document of one term and a longer one in a collection, and chunks     *)
(* without a key in another, with a term of their own, at the two ends of  *)
(* the range of times: of the three, the time index takes some orders      *)
(* only, and the frame catalog no delta from the one end to the other.     *)
MCDocs ==
  {[coll |-> 1, created |-> 63, tokens |-> <<1>>, uri |-> <<<<3, 9>>>>,
    parent |-> <<>>, dist |-> [ham |-> 1, rough |-> 2, full |-> 1]],
   [coll |-> 2, created |-> 0 - 63, tokens |-> <<2, 1, 2>>, uri |-> <<>>,
    parent |-> <<1>>, dist |-> [ham |-> 0, rough |-> 2, full |-> 2]],
   [coll |-> 1, created |-> 0, tokens |-> <<1, 3>>, uri |-> <<<<1, 8>>>>,
    parent |-> <<>>, dist |-> [ham |-> 1, rough |-> 1, full |-> 3]]}

(* Two periods; the first begins with its first record and ends just after *)
(* its last.                                                               *)
MCPeriods == <<<<0, 64>>, <<0 - 64, 0>>>>

MCSymmetry == Permutations({n1, n2})
=============================================================================
