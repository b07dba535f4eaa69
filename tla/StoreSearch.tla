---------------------------- MODULE StoreSearch ----------------------------
(***************************************************************************)
(* Search in the Store layer (reader.rs, query.rs, partition.rs and        *)
(* record.rs under src/src/db): a query over fields is resolved against    *)
(* the declared shape, each channel asks the engine for more than it       *)
(* needs, the answers are cut to the collections in scope and to the time  *)
(* range, fused, weighted by age and turned into keys.                     *)
(*                                                                         *)
(* A query is [text, vectors, fusion, recency, top]: text has at most one  *)
(* [field, terms, scorer], vectors any number of [field, dim, full].  A    *)
(* partition is named by its collection, whose period Periods gives.  The  *)
(* order of equal scores is that of a hash table in the code; here it is   *)
(* that of the frame ids, and no property depends on it.                   *)
(***************************************************************************)
EXTENDS IndexedFile

CONSTANTS
  Periods,   \* by collection, the start of its period and the end after it
  Day        \* 86_400 seconds, in the unit of created

(* route sends a record to the partition whose period holds it.            *)
ASSUME StoreSearchAssumption ==
  /\ Day \in Nat \ {0}
  /\ \A d \in Docs : /\ Periods[d.coll][1] <= d.created
                     /\ d.created < Periods[d.coll][2]

-----------------------------------------------------------------------------
(* Keys: a tag and the bytes of a string, of a u64, or bytes as they are.  *)
TagStr == 1
TagU64 == 2
TagBytes == 3
EncodeKey(key) ==
  <<CASE key.type = "Str" -> TagStr [] key.type = "U64" -> TagU64
      [] key.type = "Bytes" -> TagBytes>> \o key.bytes

(* Key::decode: nothing for a URI that another layer wrote.  Bytes below   *)
(* 128 are UTF-8.                                                          *)
DecodeKey(uri) ==
  IF uri = <<>> THEN <<>>
  ELSE LET key(type) == <<[type |-> type, bytes |-> Tail(uri)]>> IN
       CASE uri[1] = TagStr   -> key("Str")
         [] uri[1] = TagU64   -> IF Len(uri) = 9 THEN key("U64") ELSE <<>>
         [] uri[1] = TagBytes -> key("Bytes")
         [] OTHER             -> <<>>

-----------------------------------------------------------------------------
(* Partitioned::in_window: the half-open period meets the closed window.   *)
InWindow(existing, from, to) ==
  {c \in existing : Periods[c][2] > from /\ Periods[c][1] <= to}

(* view_as_of and all: the collections of a view.                          *)
ViewAsOf(existing, window, now) ==
  CASE window.kind = "Partitions" -> window.colls \cap existing
    [] window.kind = "LastDays"   -> InWindow(existing, now - window.days * Day, now)
    [] window.kind = "Range"      -> InWindow(existing, window.from, window.to)
    [] window.kind = "All"        -> existing

(* resolve_plan: no channel, a field the shape has not or of the other     *)
(* kind, a space not registered, not calibrated, or of another dimension.  *)
PlanRefused(reg, shape, q) ==
  LET kind(v) == IF v.field \in DOMAIN shape THEN shape[v.field].kind ELSE "None"
      space(v) == shape[v.field].space IN
  \/ q.text = <<>> /\ q.vectors = <<>>
  \/ \E t \in Range(q.text) :
       kind(t) # "Text" \/ space(t) \notin reg.text
  \/ \E v \in Range(q.vectors) :
       \/ kind(v) # "Vector" \/ space(v) \notin DOMAIN reg.vectors
       \/ ~reg.vectors[space(v)].ready \/ reg.vectors[space(v)].dim # v.dim

-----------------------------------------------------------------------------
(* A channel is [kind, ranked, scores, owner]: its frames best first, their *)
(* scores, higher being better, and the collections they were found in.    *)

(* How many hits to ask the engine for.  Text cannot be filtered by        *)
(* collection before it is cut, so a part of the file asks for more.       *)
OverFetchText(hd, scope, top) ==
  IF Len(scope) < Len(hd.collections) THEN Smaller(Larger(64 * top, 1000), 50000)
  ELSE Larger(4 * top, 100)
OverFetchVector(q) ==
  IF q.recency.kind = "Range" THEN Larger(8 * q.top, 100) ELSE Larger(2 * q.top, 50)

(* TextScorer::to_algorithm and query_text; tf-idf is not in Retrieval.    *)
QueryText(hd, t, cap) ==
  CASE t.scorer = "Bm25"        -> Bm25(hd.text, Dead(hd), t.terms, cap)
    [] t.scorer = "CountCosine" -> CountCosine("Exact", hd.text, Dead(hd), t.terms, cap)
    [] OTHER -> SetSimilarity(t.scorer, hd.text, Dead(hd), t.terms, cap)

(* collection_member_frames: those of the last commit.                     *)
MemberFrames(hd, c) == IF c \in DOMAIN hd.filters THEN Range(hd.filters[c].frames) ELSE {}

InScope(hd, scope, hits) ==
  SelectSeq(hits, LAMBDA e : \E c \in Range(scope) : e.frame \in MemberFrames(hd, c))

TextChannel(hd, scope, hits) ==
  [kind |-> "Text", ranked |-> Frames(hits), scores |-> Column(hits),
   owner |-> [f \in Range(Frames(hits)) |->
                CHOOSE c \in Range(scope) : f \in MemberFrames(hd, c)]]

(* A frame is ranked once for each of its vectors; its score is the last.  *)
VectorChannel(hd, hits) ==
  LET ranked == [i \in DOMAIN hits |-> hd.byId[hits[i].id].frame] IN
  [kind |-> "Vector", ranked |-> ranked, scores |-> DistanceColumn(hd, hits),
   owner |-> [f \in Range(ranked) |->
                hd.byId[hits[CHOOSE i \in DOMAIN hits : ranked[i] = f].id].coll]]

(* time_range_query.                                                       *)
TimeRange(times, from, to, c) ==
  {e.id : e \in {x \in Range(times) : from <= x.created /\ x.created <= to /\ x.coll = c}}

(* Mutant of InRange: the window is half-open.                             *)
InRangeHalfOpen(hd, scope, recency, ch) ==
  IF recency.kind # "Range" THEN ch
  ELSE LET allowed == UNION {TimeRange(hd.times, recency.from, recency.to - 1, c) :
                               c \in Range(scope)} IN
       [ch EXCEPT !.ranked = SelectSeq(@, LAMBDA f : f \in allowed),
                  !.scores = Restrict(@, DOMAIN @ \cap allowed)]

(* Recency::Range keeps the frames of the window.                          *)
InRange(hd, scope, recency, ch) ==
  IF recency.kind # "Range" THEN ch
  ELSE LET allowed == UNION {TimeRange(hd.times, recency.from, recency.to, c) :
                               c \in Range(scope)} IN
       [ch EXCEPT !.ranked = SelectSeq(@, LAMBDA f : f \in allowed),
                  !.scores = Restrict(@, DOMAIN @ \cap allowed)]

-----------------------------------------------------------------------------
(* Fusion.                                                                 *)

Universe(chs) == UNION {Range(chs[i].ranked) : i \in DOMAIN chs}
CreatedAt(hd, f) == RowOf(hd.frames, f).created

(* sort_by_created_desc.                                                   *)
NewestFirst(hd, frames) ==
  SetToSortSeq(frames, LAMBDA a, b :
    \/ CreatedAt(hd, a) > CreatedAt(hd, b)
    \/ CreatedAt(hd, a) = CreatedAt(hd, b) /\ a < b)

(* weight / (k + rank), summed over the positions a frame has.             *)
Reciprocal(ranked, k, weight, f) ==
  FoldLeft(LAMBDA sum, p :
             IF ranked[p] = f THEN Plus(sum, <<weight, k + p>>) ELSE sum,
           <<0, 1>>, [p \in DOMAIN ranked |-> p])

FuseRrf(hd, chs, k, recency) ==
  LET new == [ranked |-> NewestFirst(hd, Universe(chs))]
      all == IF recency.kind = "RrfChannel" THEN Append(chs, new) ELSE chs
      weight(i) == IF i > Len(chs) THEN recency.weight ELSE 1 IN
  [f \in Universe(chs) |->
     FoldLeft(LAMBDA sum, i : Plus(sum, Reciprocal(all[i].ranked, k, weight(i), f)),
              <<0, 1>>, [i \in DOMAIN all |-> i])]

(* Min-max, and a half for a channel whose scores are all the same.        *)
Normal(col) ==
  IF \A f, g \in DOMAIN col : Equal(col[f], col[g]) THEN [f \in DOMAIN col |-> <<1, 2>>]
  ELSE MinMax(col)

FuseWeighted(chs, fusion) ==
  LET normal == [i \in DOMAIN chs |-> Normal(chs[i].scores)]
      weight(i) == IF chs[i].kind = "Text" THEN fusion.text ELSE fusion.vector
      term(i, f) == <<weight(i) * normal[i][f][1], normal[i][f][2]>> IN
  [f \in Universe(chs) |->
     FoldLeft(LAMBDA sum, i :
                IF f \in DOMAIN normal[i] THEN Plus(sum, term(i, f)) ELSE sum,
              <<0, 1>>, [i \in DOMAIN chs |-> i])]

(* Recency::HalfLife, for ages of whole half-lives; the future is age 0.   *)
Decayed(hd, fused, recency) ==
  IF recency.kind # "HalfLife" THEN fused
  ELSE LET halfLife == Larger(recency.days * Day, 1)
           age(f) == Larger(recency.now - CreatedAt(hd, f), 0) IN
       [f \in DOMAIN fused |->
          Lowest(<<fused[f][1], fused[f][2] * 2 ^ (age(f) \div halfLife)>>)]

(* The best frames that have a key, until there are enough.  The frame of  *)
(* a hit is not in the code's Hit and serves the properties.               *)
ResolveHits(f, hd, scope, owner, ranked, top) ==
  FoldLeft(LAMBDA r, e :
    IF ~r.ok \/ Len(r.val) >= top THEN r
    ELSE Then(ReadUri(f, hd, e.frame), LAMBDA uri, rest :
           IF uri = <<>> \/ DecodeKey(uri[1]) = <<>> THEN r
           ELSE Ok(Append(r.val, [key |-> DecodeKey(uri[1])[1], score |-> e.score,
                                  coll |-> At(owner, e.frame, scope[1]),
                                  frame |-> e.frame]), <<>>)),
    Ok(<<>>, <<>>), ranked)

(* The vector channels' searches, with the collections as filter.          *)
NearHits(f, hd, scope, q) ==
  [i \in DOMAIN q.vectors |->
     SearchVectors(f, hd, "Qam",
       [k |-> OverFetchVector(q), channel |-> <<>>, full |-> q.vectors[i].full,
        filter |-> <<Range(scope)>>])]

Channels(hd, scope, q, near) ==
  [i \in DOMAIN q.text |->
     TextChannel(hd, scope, InScope(hd, scope,
       QueryText(hd, q.text[i], OverFetchText(hd, scope, q.top))))]
  \o [i \in DOMAIN near |-> VectorChannel(hd, near[i].val)]

Fused(hd, chs, q) ==
  Decayed(hd, IF q.fusion.kind = "Rrf" THEN FuseRrf(hd, chs, q.fusion.k, q.recency)
              ELSE FuseWeighted(chs, q.fusion), q.recency)

RankedFrames(fused) == Ranked({[frame |-> g, score |-> fused[g]] : g \in DOMAIN fused})

FuseAndResolve(f, hd, scope, q, found) ==
  ResolveHits(f, hd, scope,
    FoldLeft(LAMBDA o, ch : o @@ ch.owner, <<>>, found),
    RankedFrames(Fused(hd, [i \in DOMAIN found |->
                              InRange(hd, scope, q.recency, found[i])], q)),
    q.top)

FuseNear(f, hd, scope, q, near) ==
  IF \/ q.text # <<>> /\ DOMAIN hd.pending # {}
     \/ \E i \in DOMAIN near : ~near[i].ok
     \/ q.fusion.kind = "Weighted" /\ q.recency.kind = "RrfChannel"
  THEN Err
  ELSE FuseAndResolve(f, hd, scope, q, Channels(hd, scope, q, near))

(* Reader::execute.                                                        *)
Execute(f, hd, scope, q) == FuseNear(f, hd, scope, q, NearHits(f, hd, scope, q))

(* Reader::search, where the collection must be known, and its shape.      *)
SearchRefused(reg, c, q) ==
  \/ c \notin DOMAIN reg.shapes
  \/ reg.shapes[c] = <<>>
  \/ PlanRefused(reg, reg.shapes[c][1], q)
Search(f, hd, reg, c, q) ==
  CASE q.top = 0 -> Ok(<<>>, <<>>)
    [] OTHER -> IF SearchRefused(reg, c, q) THEN Err ELSE Execute(f, hd, <<c>>, q)

(* Reader::search_view, where members that are no collections are left     *)
(* out and the plan is made before a scope of none is noticed.             *)
SearchView(f, hd, reg, view, q) ==
  LET scope == SetToSortSeq(view.colls \cap DOMAIN reg.shapes, LAMBDA a, b : a < b) IN
  CASE q.top = 0 -> Ok(<<>>, <<>>)
    [] OTHER -> IF PlanRefused(reg, view.shape, q) THEN Err
                ELSE IF scope = <<>> THEN Ok(<<>>, <<>>)
                ELSE Execute(f, hd, scope, q)

-----------------------------------------------------------------------------
(* Properties.                                                             *)

(* Of two frames in both columns, one that is strictly higher in each is   *)
(* ahead in the fused list, which has every frame of either column once.   *)
OrderKept(a, b, out) ==
  LET at(f) == CHOOSE i \in DOMAIN out : out[i] = f IN
  /\ Range(out) = DOMAIN a \cup DOMAIN b
  /\ Len(out) = Cardinality(Range(out))
  /\ \A f, g \in DOMAIN a \cap DOMAIN b :
       Less(a[g], a[f]) /\ Less(b[g], b[f]) => at(f) < at(g)

(* query_hybrid of the engine, in every mode.                              *)
HybridKeepsOrder ==
  DOMAIN h.pending = {} =>
    \A text \in {Bm25(h.text, Dead(h), <<1>>, MaxEdits)},
       near \in {SearchVectors(file, h, "Qam",
                              VectorQuery(MaxEdits, <<>>, TRUE, <<>>))},
       mode \in {"None", "MinMax", "Rrf"} :
      near.ok => OrderKept(Column(text), DistanceColumn(h, near.val),
                   Frames(QueryHybrid(mode, <<1, 2>>, h, text, near.val)))

(* The collections of the handle, all declared with one shape.             *)
Declared == RowIds(h.collections)
SearchShape ==
  [body |-> [kind |-> "Text", space |-> "words"],
   emb |-> [kind |-> "Vector", space |-> "ready"],
   raw |-> [kind |-> "Vector", space |-> "deferred"]]
Registered ==
  [shapes |-> [c \in Declared |-> <<SearchShape>>], text |-> {"words"},
   vectors |-> [ready |-> [ready |-> TRUE, dim |-> 2],
                deferred |-> [ready |-> FALSE, dim |-> 2]]]

(* The queries asked: either channel or both, each fusion and recency.     *)
StoreQuery(text, near, fusion, recency, top) ==
  [text |-> text, vectors |-> near, fusion |-> fusion, recency |-> recency,
   top |-> top]
Body == <<[field |-> "body", terms |-> <<1>>, scorer |-> "Bm25"]>>
Emb == <<[field |-> "emb", dim |-> 2, full |-> TRUE]>>
Raw == <<[field |-> "raw", dim |-> 2, full |-> TRUE]>>
Always == [kind |-> "None"]
RangeOf(from, to) == [kind |-> "Range", from |-> from, to |-> to]
StoreQueries ==
  LET rrf == [kind |-> "Rrf", k |-> 1]
      weighted == [kind |-> "Weighted", text |-> 1, vector |-> 2] IN
  {StoreQuery(Body, Emb, weighted, RangeOf(0 - Day, 0), MaxEdits),
   StoreQuery(Body, Emb, rrf, RangeOf(Day, 2 * Day), MaxEdits),
   StoreQuery(Body, Emb, rrf, [kind |-> "RrfChannel", weight |-> 4], MaxEdits),
   StoreQuery(Body, Emb, rrf, [kind |-> "HalfLife", days |-> 1, now |-> Day],
              MaxEdits)}
  \cup {StoreQuery(t, v, rrf, Always, 1) : t \in {<<>>, Body}, v \in {<<>>, Emb, Raw}}

(* As the Writer leaves the file: a record has one frame, with at most one *)
(* vector in a space, and they are deleted together.                       *)
OneVectorEach ==
  LET act == Active(h.vectors) IN
  \A i, j \in DOMAIN act : /\ act[i].frame \in RowIds(Active(h.frames))
                           /\ act[i].frame = act[j].frame => i = j
VectorOf(f) == {v \in RowIds(Active(h.vectors)) : RowOf(h.vectors, v).frame = f}

(* What a search is asked for: the live records with a key, in its         *)
(* collections and its window, that one of its channels finds.             *)
Asked(scope, q, text) ==
  {f \in RowIds(Active(h.frames)) :
     /\ RowOf(h.frames, f).coll \in scope
     /\ past.puts[f].uri # <<>>
     /\ q.recency.kind = "Range" => CreatedAt(h, f) \in q.recency.from..q.recency.to
     /\ \/ q.text # <<>> /\ f \in DOMAIN text
        \/ q.vectors # <<>> /\ VectorOf(f) # {}}

(* One record beats another in every channel of the query.                 *)
Beats(f, g, q, text) ==
  /\ q.text # <<>> => {f, g} \subseteq DOMAIN text /\ Less(text[g], text[f])
  /\ q.vectors # <<>> =>
       \E v \in VectorOf(f), w \in VectorOf(g) : past.vals[v].full < past.vals[w].full
  /\ q.recency.kind = "HalfLife" => CreatedAt(h, f) >= CreatedAt(h, g)
  /\ q.recency.kind = "RrfChannel" => CreatedAt(h, f) > CreatedAt(h, g)

StoreAnswers(scope, q, text, r) ==
  LET asked == Asked(scope, q, text)
      hits == r.val
      at(f) == {i \in DOMAIN hits : hits[i].frame = f} IN
  /\ r.ok
  /\ Range(Frames(hits)) \subseteq asked
  /\ Len(hits) = Cardinality(Range(Frames(hits)))
  /\ Len(hits) = Smaller(q.top, Cardinality(asked))
  /\ \A e \in Range(hits) : /\ e.coll = RowOf(h.frames, e.frame).coll
                            /\ EncodeKey(e.key) = past.puts[e.frame].uri[1]
  /\ \A f, g \in asked :
       Beats(f, g, q, text) =>
         \A j \in at(g) : \E i \in at(f) : i < j

(* A search of one collection, and searches of every partition and of the  *)
(* partitions of a window: what they go through, and whose records they    *)
(* are asked for.                                                          *)
Scopes(q) ==
  {[one |-> TRUE, view |-> {1}, asked |-> {1}],
   [one |-> FALSE, view |-> Declared, asked |-> Declared]}
  \cup {[one |-> FALSE, asked |-> Declared,
         view |-> ViewAsOf(Declared, window, q.recency.to)] :
          window \in {w \in {[kind |-> "LastDays", days |-> 1], q.recency} :
                       q.recency.kind = "Range"}}
SearchIn(s, q) ==
  IF s.one THEN Search(file, h, Registered, 1, q)
  ELSE SearchView(file, h, Registered, [colls |-> s.view, shape |-> SearchShape], q)

(* A key comes back from its URI, and nothing from a URI of another layer. *)
KeysInvert ==
  /\ \A key \in {[type |-> type, bytes |-> bytes] : type \in {"Str", "Bytes"},
                   bytes \in {<<>>, <<1>>, <<3, 2>>}}
              \cup {[type |-> "U64", bytes |-> [i \in 1..8 |-> i]]} :
       DecodeKey(EncodeKey(key)) = <<key>>
  /\ \A uri \in {<<>>, <<9>>, <<TagU64>>, <<TagU64, 1>>} : DecodeKey(uri) = <<>>

(* Reader::search and search_view answer with the records asked for and no *)
(* other, as many as there are up to top, each under its own key and       *)
(* collection, and one that beats another in every channel is ahead of it. *)
(* The partitions of a window hold every record of the window: searching   *)
(* its view gives what searching everything gives.  A query without a      *)
(* channel, or on a space without codec, is refused.  Looked at with cold  *)
(* caches; SearchExact and VectorsFound have the engine's with warm ones.  *)
StoreSearchRight ==
  /\ h = EmptyHandle => KeysInvert
  /\ ~h.changed /\ h.base = <<>> /\ OneVectorEach /\ 1 \in Declared =>
    \A text \in {Column(Bm25(h.text, Dead(h), <<1>>, MaxEdits))},
       q \in StoreQueries :
      \A s \in Scopes(q) :
        \A r \in {SearchIn(s, q)} :
          IF \/ q.text = <<>> /\ q.vectors = <<>>
             \/ \E v \in Range(q.vectors) : v.field = "raw"
          THEN ~r.ok
          ELSE StoreAnswers(s.asked, q, text, r)

(* Fusing channels turns no order around that all of them agree on: in     *)
(* query_hybrid a frame both channels rank strictly higher stays ahead,    *)
(* and each frame is listed once (fuse); in a search of the Store layer    *)
(* the same holds with scopes, windows and recency (StoreSearchRight).     *)
FusionKeepsOrder == HybridKeepsOrder /\ StoreSearchRight
=============================================================================
