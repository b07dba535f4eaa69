---------------------------- MODULE VectorSearch ----------------------------
(***************************************************************************)
(* Nearest-neighbour search in one embedding space (vector_search.rs,      *)
(* upq_search.rs and retrieval/sketch.rs under src/src).                   *)
(*                                                                         *)
(* A row of the vector base is [id, ham, rough, full]: how many bits its   *)
(* sign sketch differs from that of the query, its distance in the i8      *)
(* domain, and the distance of the decoded vector.  The three disagree in  *)
(* general, so each is a value of its own.  The base lists its rows in the *)
(* order they lie in the file.  Whether a query gets a permit to fan out   *)
(* decides which threads compute, not what, and is left out.               *)
(*                                                                         *)
(* A query is [k, channel, full, filter]; channel (channel_k) and filter   *)
(* are sequences of at most one number and one set of collections.         *)
(***************************************************************************)
EXTENDS Integers, Sequences, FiniteSets, SequencesExt, FiniteSetsExt

CONSTANT SketchBudget   \* DEFAULT_SKETCH_CANDIDATE_BUDGET

ASSUME SketchBudgetAssumption == SketchBudget \in Nat \ {0}

Smaller(m, n) == IF m < n THEN m ELSE n
Larger(m, n) == IF m < n THEN n ELSE m
Take(s, n) == SubSeq(s, 1, Smaller(n, Len(s)))

(* Ascending score, ties by vector id.                                     *)
Nearest(items) ==
  SetToSortSeq(Range(items), LAMBDA a, b :
    a.score < b.score \/ (a.score = b.score /\ a.id < b.id))
Rough(rows) == [i \in DOMAIN rows |-> [id |-> rows[i].id, score |-> rows[i].rough]]
Full(rows) == [i \in DOMAIN rows |-> [id |-> rows[i].id, score |-> rows[i].full]]

(* candidates_budget: never more than there are active vectors.            *)
CandidatesBudget(q, active) ==
  Smaller(IF q.channel = <<>> THEN Larger(4 * q.k, SketchBudget)
          ELSE q.channel[1],
          Larger(active, 1))

(* How many rows are within d bits of the query.                           *)
Within(rows, d) == Cardinality({i \in DOMAIN rows : rows[i].ham <= d})

(* The histogram of Hamming distances gives the distance at which ck rows  *)
(* are reached, or one past the largest.                                   *)
Threshold(rows, ck) ==
  LET largest == Max({0} \cup {rows[i].ham : i \in DOMAIN rows})
      reached == {d \in 0..largest : Within(rows, d) >= ck} IN
  IF reached = {} THEN largest + 1 ELSE Min(reached)

(* scan_candidates: every row below the threshold, and of those at it as   *)
(* many as are still missing, in the order of the rows.                    *)
ScanCandidates(rows, ck) ==
  LET thr == Threshold(rows, ck)
      rem == Larger(ck - Within(rows, thr - 1), 0)
      nth(i) == Cardinality({j \in 1..i : rows[j].ham = thr})
      taken == SelectSeq([i \in DOMAIN rows |-> i], LAMBDA i :
                 \/ rows[i].ham < thr
                 \/ rows[i].ham = thr /\ nth(i) <= rem) IN
  [k \in DOMAIN taken |-> rows[taken[k]]]

(* The collection filter looks a vector up among the committed ones.       *)
Allowed(q, byId, rows) ==
  IF q.filter = <<>> THEN rows
  ELSE SelectSeq(rows, LAMBDA r :
         r.id \in DOMAIN byId /\ byId[r.id].coll \in q.filter[1])

(* make_hits: a vector no longer committed is dropped.                     *)
MakeHits(byId, items) == SelectSeq(items, LAMBDA e : e.id \in DOMAIN byId)

(* The survivors of the first scoring: three times k for a second one.  A  *)
(* pool of 0 is not cut.                                                   *)
Pool(q, scored) ==
  LET size == Smaller(IF q.full THEN 3 * q.k ELSE q.k, Len(scored)) IN
  IF size > 0 THEN Take(Nearest(scored), size) ELSE Nearest(scored)

(* The rows of a list of items.                                            *)
RowsOf(rows, items) ==
  [i \in DOMAIN items |-> rows[CHOOSE j \in DOMAIN rows : rows[j].id = items[i].id]]

(* What both sketch paths score: the candidates within the budget, of      *)
(* which the filter takes its share afterwards.                            *)
Candidates(q, byId, rows) ==
  Allowed(q, byId, ScanCandidates(rows, CandidatesBudget(q, Cardinality(DOMAIN byId))))

(* sketch_then_rerank_impl, of a QAM space.                                *)
SketchThenRerank(q, byId, rows) ==
  LET top == Pool(q, Rough(Candidates(q, byId, rows)))
      kept == IF q.full THEN Take(Nearest(Full(RowsOf(rows, top))), q.k)
              ELSE top IN
  MakeHits(byId, kept)

(* upq_sketch_then_rerank, which takes k of what it has in any case.       *)
UpqSketchThenRerank(q, byId, rows) ==
  LET top == Pool(q, Rough(Candidates(q, byId, rows)))
      kept == IF q.full THEN Nearest(Full(RowsOf(rows, top))) ELSE top IN
  MakeHits(byId, Take(kept, q.k))

(* brute_force_vector: the filter comes first, and k is at least 1.  The   *)
(* last sort is by score alone, of hits in no particular order.            *)
BruteForce(q, byId, rows) ==
  LET k == Larger(q.k, 1)
      scored == Rough(Allowed(q, byId, rows))
      top == Take(Nearest(scored), IF q.full THEN 3 * k ELSE k)
      hits == MakeHits(byId, IF q.full THEN Full(RowsOf(rows, top)) ELSE top) IN
  Take(Nearest(hits), k)

(* vector_search.  A sketch is derived for every space that has a row, so  *)
(* brute force is left with the spaces that have none.                     *)
SearchSpace(codec, q, byId, rows) ==
  CASE rows = <<>>     -> BruteForce(q, byId, rows)
    [] rows # <<>> /\ codec = "Upq" -> UpqSketchThenRerank(q, byId, rows)
    [] OTHER           -> SketchThenRerank(q, byId, rows)
=============================================================================
