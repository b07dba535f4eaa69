----------------------------- MODULE Retrieval -----------------------------
(***************************************************************************)
(* Text scoring, top-k selection and score fusion (src/src/retrieval).     *)
(*                                                                         *)
(* Scores are exact: a rational <<p, q>> with q > 0, or the square of the  *)
(* score where the code takes a root of it.  BM25 is modelled at k1 = 1    *)
(* and b = 1 for queries of one term, where only the sign of the inverse   *)
(* document frequency ln((n + 1) / (df + 1/2)) can change the order; its   *)
(* stand-in is that sign, the sign of 2n + 1 - 2df.  The rounding of f32   *)
(* is left out, and channel_k, which cuts posting lists short, is None.    *)
(***************************************************************************)
EXTENDS TextIndex

Less(a, b) == a[1] * b[2] < b[1] * a[2]
Equal(a, b) == a[1] * b[2] = b[1] * a[2]

(* In lowest terms, so that the numbers stay small.                        *)
Gcd(m, n) ==
  LET gcd[a \in Nat, b \in Nat] == IF b = 0 THEN a ELSE gcd[b, a % b] IN
  gcd[m, n]
Lowest(a) ==
  LET g == Gcd(IF a[1] < 0 THEN 0 - a[1] ELSE a[1], a[2]) IN
  <<IF a[1] < 0 THEN 0 - ((0 - a[1]) \div g) ELSE a[1] \div g, a[2] \div g>>
Plus(a, b) == Lowest(<<a[1] * b[2] + b[1] * a[2], a[2] * b[2]>>)

(* resolve_query_terms: the known terms of the query, in the order of      *)
(* their first occurrence, each with how often it occurs.                  *)
ResolveQueryTerms(st, query) ==
  LET known == SelectSeq(query, LAMBDA b : LookupTerm(st, b) # <<>>)
      add(qfs, b) ==
        LET t == LookupTerm(st, b)[1]
            at == {i \in DOMAIN qfs : qfs[i].term = t} IN
        IF at = {} THEN Append(qfs, [term |-> t, qf |-> 1])
        ELSE [qfs EXCEPT ![CHOOSE i \in at : TRUE].qf = @ + 1] IN
  FoldLeft(add, <<>>, known)

(* build_tombstone_set.                                                    *)
TombstoneSet(frames) ==
  {frames[i].id : i \in {k \in DOMAIN frames : frames[k].status = "Tombstoned"}}

-----------------------------------------------------------------------------
(* top_k.rs.  A hit is [frame, score]; better is a higher score, then a    *)
(* lower frame id.                                                         *)

Better(a, b) ==
  \/ Less(b.score, a.score)
  \/ Equal(a.score, b.score) /\ a.frame < b.frame

Ranked(hits) == SetToSortSeq(hits, Better)

(* Mutant of PushBounded: a tie replaces the entry that was kept.          *)
PushBoundedTies(cap, heap, e) ==
  IF Cardinality(heap) < cap THEN heap \cup {e}
  ELSE LET worst == CHOOSE x \in heap : \A y \in heap \ {x} : Better(y, x) IN
       IF ~Less(e.score, worst.score) THEN (heap \ {worst}) \cup {e} ELSE heap

(* One step of the bounded heap.                                           *)
PushBounded(cap, heap, e) ==
  IF Cardinality(heap) < cap THEN heap \cup {e}
  ELSE LET worst == CHOOSE x \in heap : \A y \in heap \ {x} : Better(y, x) IN
       IF Better(e, worst) THEN (heap \ {worst}) \cup {e} ELSE heap

(* The frames of touched, in the order they were touched, with a score.    *)
Hits(touched, score) ==
  [i \in DOMAIN touched |-> [frame |-> touched[i], score |-> score[touched[i]]]]
NonZero(hits) == SelectSeq(hits, LAMBDA e : e.score[1] # 0)
Positive(hits) == SelectSeq(hits, LAMBDA e : e.score[1] > 0)

(* select_top_k_from_touched: cap >= touched.len() sorts what is not zero, *)
(* fewer goes through the heap and keeps positive scores only.             *)
SelectTopK(hits, cap) ==
  IF cap = 0 \/ hits = <<>> THEN <<>>
  ELSE IF cap >= Len(hits) THEN Ranked(Range(NonZero(hits)))
  ELSE Ranked(FoldLeft(LAMBDA heap, e : PushBounded(cap, heap, e), {},
                       Positive(hits)))

(* select_top_k_from_touched_signed: negative scores stay.                 *)
SelectTopKSigned(hits, cap) ==
  IF cap = 0 \/ hits = <<>> THEN <<>>
  ELSE IF cap >= Len(hits) THEN Ranked(Range(NonZero(hits)))
  ELSE Ranked(FoldLeft(LAMBDA heap, e : PushBounded(cap, heap, e), {},
                       NonZero(hits)))

Frames(hits) == [i \in DOMAIN hits |-> hits[i].frame]

-----------------------------------------------------------------------------
(* Query caches of the text state.  A query answers from them and leaves   *)
(* behind what it had to build.                                            *)

(* doc_lengths.len(): one past the highest frame id indexed.               *)
NFrames(st) == IF DOMAIN st.stats = {} THEN 0 ELSE Max(DOMAIN st.stats) + 1

(* lookup_or_build_impact_posting: a term's list by descending tf.         *)
ByImpact(ps) ==
  SetToSortSeq(Range(ps), LAMBDA p, q :
    p.tf > q.tf \/ (p.tf = q.tf /\ p.frame < q.frame))
ImpactPosting(st, t) ==
  At(st.cache.impact, t, ByImpact(LookupPostings(st, t)))

(* active_corpus_stats: how many documents with terms are not tombstoned,  *)
(* and their total length.                                                 *)
ActiveCorpusStats(st, dead) ==
  LET live == {f \in DOMAIN st.stats : st.stats[f].total # 0 /\ f \notin dead} IN
  <<Cardinality(live), MapThenSumSet(LAMBDA f : st.stats[f].total, live)>>

(* prepare_bm25's corpus statistics: cached while nothing is tombstoned.   *)
CorpusStats(st, dead) ==
  IF dead # {} \/ st.cache.corpus = <<>> THEN ActiveCorpusStats(st, dead)
  ELSE st.cache.corpus

(* build_doc_normalizer: a document's length over the average length.      *)
BuildNormalizer(st, avg) ==
  [n |-> NFrames(st), avg |-> avg,
   of |-> [f \in DOMAIN st.stats |->
             <<st.stats[f].total * avg[2], avg[1]>>]]

(* Mutant of DocNormalizer: the key leaves out the average length.         *)
DocNormalizerAnyAverage(st, avg) ==
  IF st.cache.normal # <<>> /\ st.cache.normal.n = NFrames(st)
  THEN st.cache.normal
  ELSE BuildNormalizer(st, avg)

(* lookup_or_build_doc_normalizer.                                         *)
DocNormalizer(st, avg) ==
  IF st.cache.normal # <<>> /\ st.cache.normal.n = NFrames(st)
       /\ Equal(st.cache.normal.avg, avg)
  THEN st.cache.normal
  ELSE BuildNormalizer(st, avg)

(* compute_doc_count_l2_norms_full, squared.                               *)
ComputeNorms(st, dead) ==
  LET all == IterAllPostings(st)
      sq(f, t) == FoldLeft(LAMBDA sum, p : IF p.frame = f THEN sum + p.tf * p.tf
                                           ELSE sum, 0, all[t]) IN
  [f \in DOMAIN st.stats |->
     IF f \in dead THEN 0
     ELSE MapThenSumSet(LAMBDA t : sq(f, t), DOMAIN all)]

(* lookup_or_build_count_l2_norms: cached while nothing is tombstoned.     *)
CountNorms(st, dead) ==
  IF dead # {} \/ st.cache.norms = <<>> \/ st.cache.norms.n # NFrames(st)
  THEN [n |-> NFrames(st), of |-> ComputeNorms(st, dead)]
  ELSE st.cache.norms

-----------------------------------------------------------------------------
(* The query arena and the profiles.                                       *)

(* QueryArena::accumulate after begin_query: a frame's first contribution  *)
(* of this query replaces what an earlier query left.                      *)
EmptyArena == [touched |-> <<>>, scores |-> <<>>]
Accumulate(arena, f, delta) ==
  IF f \in DOMAIN arena.scores
  THEN [arena EXCEPT !.scores[f] = Plus(@, delta)]
  ELSE [touched |-> Append(arena.touched, f),
        scores |-> Insert(arena.scores, f, delta)]

(* The postings of a list that a query scores.                             *)
Scored(ps, dead) == SelectSeq(ps, LAMBDA p : p.frame \notin dead)

(* bm25_idf, its sign.                                                     *)
Idf(n, df) == IF 2 * n + 1 > 2 * df THEN 1 ELSE 0 - 1

(* bm25_query_topk for a query of one term.                                *)
Bm25(st, dead, query, cap) ==
  LET qfs == ResolveQueryTerms(st, query)
      n == CorpusStats(st, dead)[1]
      avg == <<CorpusStats(st, dead)[2], n>> IN
  IF n = 0 \/ qfs = <<>> \/ DfFor(st, qfs[1].term) = 0 THEN <<>>
  ELSE LET t == qfs[1].term
           norm == DocNormalizer(st, avg)
           weight == qfs[1].qf * Idf(n, DfFor(st, t))
           score(p) == LET d == norm.of[p.frame] IN
                       <<weight * p.tf * d[2], p.tf * d[2] + d[1]>>
           arena == FoldLeft(LAMBDA a, p : Accumulate(a, p.frame, score(p)),
                             EmptyArena, Scored(ImpactPosting(st, t), dead)) IN
       SelectTopKSigned(Hits(arena.touched, arena.scores), cap)

(* What bm25_query_topk leaves in the caches.                              *)
WarmBm25(st, dead, query) ==
  LET qfs == ResolveQueryTerms(st, query)
      stats == CorpusStats(st, dead)
      st1 == IF query # <<>> /\ dead = {}
             THEN [st EXCEPT !.cache.corpus = stats] ELSE st IN
  IF stats[1] = 0 \/ qfs = <<>> THEN st1
  ELSE LET t == qfs[1].term
           st2 == [st1 EXCEPT !.cache.normal =
                     DocNormalizer(st, <<stats[2], stats[1]>>)] IN
       IF DfFor(st, t) = 0 THEN st2
       ELSE [st2 EXCEPT !.cache.impact = Insert(@, t, ImpactPosting(st, t))]

(* score_set_similarity: how many of the query's terms each document has,  *)
(* in the order the lists touch the documents.                             *)
Intersections(st, dead, qfs) ==
  FoldLeft(LAMBDA a, q :
             FoldLeft(LAMBDA b, p : Accumulate(b, p.frame, <<1, 1>>), a,
                      Scored(LookupPostings(st, q.term), dead)),
           EmptyArena, qfs)

Over(p, q) == IF q = 0 THEN <<0, 1>> ELSE <<p, q>>
SetScore(profile, both, q, d) ==
  CASE profile = "Jaccard"     -> Over(both, q + d - both)
    [] profile = "Dice"        -> Over(2 * both, q + d)
    [] profile = "Overlap"     -> Over(both, IF q < d THEN q ELSE d)
    [] profile = "Containment" -> Over(both, q)

SetSimilarity(profile, st, dead, query, cap) ==
  LET qfs == ResolveQueryTerms(st, query)
      arena == Intersections(st, dead, qfs)
      score == [f \in DOMAIN arena.scores |->
                  SetScore(profile, arena.scores[f][1], Len(qfs),
                           st.stats[f].unique)] IN
  SelectTopK(Hits(arena.touched, score), cap)

(* count_cosine_query and count_cosine_approx_query: the dot product over  *)
(* the norms, squared.  A document without a norm scores 0.                *)
CountCosine(source, st, dead, query, cap) ==
  LET qfs == ResolveQueryTerms(st, query)
      arena == FoldLeft(LAMBDA a, q :
                 FoldLeft(LAMBDA b, p : Accumulate(b, p.frame, <<q.qf * p.tf, 1>>),
                          a, Scored(ImpactPosting(st, q.term), dead)),
                 EmptyArena, qfs)
      qnorm == FoldLeft(LAMBDA sum, q : sum + q.qf * q.qf, 0, qfs)
      norm(f) == IF source = "Exact" THEN CountNorms(st, dead).of[f]
                 ELSE st.stats[f].total
      score == [f \in DOMAIN arena.scores |->
                  LET dot == arena.scores[f][1] IN
                  Over(dot * dot, qnorm * norm(f))] IN
  IF \A i \in DOMAIN qfs : DfFor(st, qfs[i].term) = 0 THEN <<>>
  ELSE SelectTopK(Hits(arena.touched, score), cap)

(* What count_cosine_query leaves in the caches.                           *)
WarmCosine(st, dead, query) ==
  LET qfs == ResolveQueryTerms(st, query)
      terms == {qfs[i].term : i \in DOMAIN qfs} IN
  IF \A t \in terms : DfFor(st, t) = 0 THEN st
  ELSE [st EXCEPT !.cache.impact =
                    InsertAll(@, [t \in terms |-> ImpactPosting(st, t)]),
                  !.cache.norms = IF dead = {} THEN CountNorms(st, dead) ELSE @]

-----------------------------------------------------------------------------
(* fusion.rs.  A column is, by frame, the score a signal gave it.          *)

Column(hits) ==
  [f \in {hits[i].frame : i \in DOMAIN hits} |->
     hits[CHOOSE i \in DOMAIN hits : hits[i].frame = f].score]

(* minmax: (x - min) / (max - min), and 0 when all are equal.              *)
Negate(a) == <<0 - a[1], a[2]>>
DivideBy(a, b) == IF b[1] = 0 THEN <<0, 1>> ELSE Lowest(<<a[1] * b[2], a[2] * b[1]>>)
MinMax(col) ==
  LET low == CHOOSE a \in Range(col) : \A b \in Range(col) : ~Less(b, a)
      high == CHOOSE a \in Range(col) : \A b \in Range(col) : ~Less(a, b) IN
  [f \in DOMAIN col |-> DivideBy(Plus(col[f], Negate(low)),
                                Plus(high, Negate(low)))]

(* Mutant of Rrf: the column is ranked lowest score first.                 *)
RrfLowestFirst(col, k) ==
  [f \in DOMAIN col |->
     <<1, k + 1 + Cardinality({g \in DOMAIN col : Less(col[g], col[f])})>>]

(* rrf_column: 1 / (k + rank); the stable sort ranks ties by frame id.     *)
Rrf(col, k) ==
  [f \in DOMAIN col |->
     <<1, k + 1 + Cardinality({g \in DOMAIN col :
            Better([frame |-> g, score |-> col[g]],
                   [frame |-> f, score |-> col[f]])})>>]

NormalizeColumn(mode, col) ==
  CASE mode = "None"   -> col
    [] mode = "MinMax" -> MinMax(col)
    [] mode = "Rrf"    -> Rrf(col, 1)

(* fuse: the weighted sum over the signals a frame has, for the frames     *)
(* that some signal with a weight has.                                     *)
Fuse(mode, weights, cols) ==
  LET n == [s \in DOMAIN cols |-> NormalizeColumn(mode, cols[s])]
      on(f) == SelectSeq([s \in DOMAIN cols |-> s],
                         LAMBDA s : weights[s] # 0 /\ f \in DOMAIN cols[s])
      frames == {f \in UNION {DOMAIN cols[s] : s \in DOMAIN cols} :
                   on(f) # <<>>}
      score(f) == FoldLeft(LAMBDA sum, s :
                    Plus(sum, <<weights[s] * n[s][f][1], n[s][f][2]>>),
                    <<0, 1>>, on(f)) IN
  Ranked({[frame |-> f, score |-> score(f)] : f \in frames})
=============================================================================
