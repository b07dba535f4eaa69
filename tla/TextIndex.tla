----------------------------- MODULE TextIndex -----------------------------
(***************************************************************************)
(* The text index of one text space (src/src/file/text_indexing.rs): the   *)
(* state kept in memory, the delta a commit flushes and the state rebuilt  *)
(* from the chains when the file is opened.                                *)
(*                                                                         *)
(* The state has two halves.  What was flushed by this handle is in the    *)
(* maps ids, df, cf and postings; what the file held when it was opened is *)
(* in sorted (the term dictionary) and segs (the directories of the        *)
(* postings chain, oldest first, their lists still encoded).  A term's     *)
(* bytes are a number.                                                     *)
(***************************************************************************)
EXTENDS SegmentFile

(* The query caches (Bm25Cache): corpus statistics, document normalizers   *)
(* and document norms, each at most one, and impact lists by term.         *)
NoCache == [corpus |-> <<>>, normal |-> <<>>, norms |-> <<>>, impact |-> <<>>]

EmptyText ==
  [sorted |-> <<>>, ids |-> <<>>, next |-> 0, df |-> <<>>, cf |-> <<>>,
   postings |-> <<>>, segs |-> <<>>, stats |-> <<>>, cache |-> NoCache]

(* A map's value or a default.                                             *)
At(f, x, default) == IF x \in DOMAIN f THEN f[x] ELSE default

(* PendingFrameIndex::from_tokens.                                         *)
FromTokens(coll, tokens) ==
  [coll |-> coll, total |-> Len(tokens),
   counts |-> [t \in Range(tokens) |->
                 Cardinality({i \in DOMAIN tokens : tokens[i] = t})]]

(* lookup_term: the opened dictionary first; <<>> when there is none.      *)
LookupTerm(st, bytes) ==
  IF bytes \in DOMAIN st.sorted THEN <<st.sorted[bytes]>>
  ELSE IF bytes \in DOMAIN st.ids THEN <<st.ids[bytes]>>
  ELSE <<>>

(* The directory entries of a term, oldest segment first.                  *)
EntriesOf(st, term) ==
  SelectSeq(FlattenSeq([i \in DOMAIN st.segs |-> st.segs[i].entries]),
            LAMBDA e : e.term = term)

(* single_segment_dir_index holds the term.                                *)
InSingleSegment(st, term) == Len(st.segs) = 1 /\ EntriesOf(st, term) # <<>>

DfFor(st, term) ==
  IF InSingleSegment(st, term) THEN EntriesOf(st, term)[1].df
  ELSE At(st.df, term, 0)

CfFor(st, term) ==
  IF InSingleSegment(st, term) THEN EntriesOf(st, term)[1].cf
  ELSE At(st.cf, term, 0)

ByFrame(ps) == SetToSortSeq(Range(ps), LAMBDA p, q : p.frame < q.frame)

(* lookup_postings_sparse: the lists of the opened segments, concatenated  *)
(* and sorted (decode_term_locators), and only when they hold none of the  *)
(* term the list of postings_by_term.                                      *)
LookupPostings(st, term) ==
  LET es == EntriesOf(st, term) IN
  IF es # <<>>
  THEN ByFrame(FlattenSeq([i \in DOMAIN es |-> DecodeTermBlob(es[i]).val]))
  ELSE At(st.postings, term, <<>>)

(* iter_all_postings: postings_by_term alone once it holds anything.       *)
IterAllPostings(st) ==
  LET terms == IF DOMAIN st.postings # {} THEN DOMAIN st.postings
               ELSE UNION {{st.segs[i].entries[k].term :
                              k \in DOMAIN st.segs[i].entries} :
                           i \in DOMAIN st.segs} IN
  [t \in terms |-> IF DOMAIN st.postings # {} THEN st.postings[t]
                   ELSE LookupPostings(st, t)]

-----------------------------------------------------------------------------
(* build_flush_output.                                                     *)

PendingFrames(pending) == InOrder(DOMAIN pending)

(* The tokens no dictionary knows, in byte order: they take the next ids.  *)
NewTerms(st, pending) ==
  InOrder({b \in UNION {DOMAIN pending[f].counts : f \in DOMAIN pending} :
             LookupTerm(st, b) = <<>>})

(* Mutant of AssignTerms: the next id is not advanced.                     *)
AssignTermsStuck(st, new) ==
  [st EXCEPT !.ids = InsertAll(@, [b \in Range(new) |->
                       st.next + (CHOOSE i \in DOMAIN new : new[i] = b) - 1])]

AssignTerms(st, new) ==
  [st EXCEPT !.ids = InsertAll(@, [b \in Range(new) |->
                       st.next + (CHOOSE i \in DOMAIN new : new[i] = b) - 1]),
             !.next = @ + Len(new)]

(* The posting lists of the delta, by term id and then by frame id.        *)
FlushLists(st, pending) ==
  LET frames == PendingFrames(pending)
      has(f, t) == \E b \in DOMAIN pending[f].counts : LookupTerm(st, b) = <<t>>
      tf(f, t) == pending[f].counts[CHOOSE b \in DOMAIN pending[f].counts :
                                      LookupTerm(st, b) = <<t>>]
      terms == InOrder({LookupTerm(st, b)[1] :
                 b \in UNION {DOMAIN pending[f].counts : f \in DOMAIN pending}})
  IN
  [i \in DOMAIN terms |->
     LET mine == SelectSeq(frames, LAMBDA f : has(f, terms[i])) IN
     [term |-> terms[i], df |-> Len(mine),
      postings |-> [k \in DOMAIN mine |->
        [frame |-> mine[k], coll |-> pending[mine[k]].coll, mask |-> 1,
         tf |-> tf(mine[k], terms[i])]]]]

CfOf(list) == FoldLeft(LAMBDA sum, p : sum + p.tf, 0, list.postings)

(* The running df and cf, and PostingListSoA::upsert of every posting.     *)
AddList(s, l) ==
  LET old == SelectSeq(At(s.postings, l.term, <<>>),
                       LAMBDA p : \A k \in DOMAIN l.postings :
                                    l.postings[k].frame # p.frame) IN
  [s EXCEPT !.df = Insert(@, l.term, At(@, l.term, 0) + l.df),
            !.cf = Insert(@, l.term, At(@, l.term, 0) + CfOf(l)),
            !.postings = Insert(@, l.term, ByFrame(old \o l.postings))]
AddLists(st, lists) == FoldLeft(LAMBDA s, l : AddList(s, l), st, lists)

DocRecords(pending) ==
  LET frames == PendingFrames(pending) IN
  [i \in DOMAIN frames |->
     LET p == pending[frames[i]] IN
     [frame |-> frames[i], coll |-> p.coll, lens |-> <<p.total>>,
      total |-> p.total, unique |-> Cardinality(DOMAIN p.counts)]]

(* The record of each frame.                                               *)
ByFrameId(records) ==
  [f \in {records[i].frame : i \in DOMAIN records} |->
     records[CHOOSE i \in DOMAIN records : records[i].frame = f]]

(* Mutant of RecordDocStats: the query caches survive the new documents.   *)
RecordDocStatsCached(st, records) ==
  [st EXCEPT !.stats = InsertAll(@, ByFrameId(records))]

(* record_doc_stats of every record: each call drops every query cache.    *)
RecordDocStats(st, records) ==
  [st EXCEPT !.stats = InsertAll(@, ByFrameId(records)),
             !.cache = IF records = <<>> THEN @ ELSE NoCache]

(* Dictionary records, for the new terms only.                             *)
TermRecords(st, new, lists) ==
  LET listed(term) == lists[CHOOSE i \in DOMAIN lists : lists[i].term = term] IN
  [i \in DOMAIN new |->
     LET term == st.ids[new[i]] IN
     [term |-> term, cf |-> CfOf(listed(term)), df |-> listed(term).df,
      bytes |-> new[i]]]

(* The state after the flush and the three payloads it writes, each        *)
(* chained to the root of the footer.                                      *)
FlushOutput(st, pending, roots) ==
  LET new == NewTerms(st, pending)
      st1 == AssignTerms(st, new)
      lists == FlushLists(st1, pending)
      records == DocRecords(pending) IN
  [state |-> RecordDocStats(AddLists(st1, lists), records),
   terms |-> Ok(EncodeTermDictionary(roots.terms,
                                     TermRecords(st1, new, lists)), <<>>),
   postings |-> EncodePostings(roots.postings, lists),
   stats |-> EncodeDocStats(roots.stats, records)]

-----------------------------------------------------------------------------
(* rebuild_text_space_state.                                               *)

(* df and cf are summed over the chain unless it is one segment, whose     *)
(* directory then answers.                                                 *)
SumEntries(segs, field) ==
  LET es == FlattenSeq([i \in DOMAIN segs |-> segs[i].entries]) IN
  IF Len(segs) = 1 THEN <<>>
  ELSE [t \in {es[i].term : i \in DOMAIN es} |->
          FoldLeft(LAMBDA sum, e : IF e.term = t THEN sum + e[field] ELSE sum,
                   0, es)]

TextFrom(dict, segs, docs) ==
  RecordDocStats(
    [EmptyText EXCEPT
      !.sorted = [b \in {dict[i].bytes : i \in DOMAIN dict} |->
                    dict[CHOOSE i \in DOMAIN dict : dict[i].bytes = b].term],
      !.next = IF dict = <<>> THEN 0
               ELSE Max({dict[i].term : i \in DOMAIN dict}) + 1,
      !.segs = segs,
      !.df = SumEntries(segs, "df"),
      !.cf = SumEntries(segs, "cf")],
    docs)

(* The rows of a chain, oldest first.                                      *)
OldestFirst(deltas) ==
  FlattenSeq(Reverse([i \in DOMAIN deltas |-> deltas[i].rows]))

RebuildFrom(terms, lists, stats) ==
  IF ~(terms.ok /\ lists.ok /\ stats.ok) THEN Err
  ELSE Ok(TextFrom(OldestFirst(terms.val), Reverse(lists.val),
                   OldestFirst(stats.val)), <<>>)

Rebuild(file, roots) ==
  RebuildFrom(Chain(file, roots.terms, "TermDictionary", DecodeTermDictionary),
              Chain(file, roots.postings, "Postings", DecodePostingsDirectory),
              Chain(file, roots.stats, "DocStats", DecodeDocStats))
=============================================================================
