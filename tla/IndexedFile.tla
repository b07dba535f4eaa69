---------------------------- MODULE IndexedFile ----------------------------
(***************************************************************************)
(* One ValiseFile handle at work: frames, vectors and text are put and     *)
(* deleted in memory, a commit writes them as segments and deltas, another *)
(* handle opens what the footer leads to, and queries answer from memory   *)
(* (src/src/file: frame_ops, vector_ops, text_ops, commit, commit_writers, *)
(* filter_io, time_index_io, lifecycle, vector_search, accessors).         *)
(*                                                                         *)
(* The file never loses a write here; CommitFile has the crashes.  There   *)
(* is one text space and one embedding space, declared before Init, whose  *)
(* catalogs do not change.  A payload is a sequence of cells, one for each *)
(* token of its text; a vector is its distances from the query (see         *)
(* VectorSearch), and a frame gets vectors of its document.                *)
(***************************************************************************)
EXTENDS Retrieval, VectorSearch, Quantizers, TextAnalysis

CONSTANTS
  Docs,        \* what may be put: [coll, created, tokens, uri, parent, dist]
  Names,       \* collection names
  BatchLimit,  \* PAYLOAD_BATCH_FLUSH_BYTES, in cells
  MaxEdits,    \* bound on the creations, puts and deletions
  MaxCommits,  \* bound on the commits tried
  MaxOpens     \* bound on the times the file is opened again

ASSUME IndexedFileAssumption ==
  /\ \A d \in Docs : /\ d.coll \in Nat \ {0}
                     /\ d.created \in I64
                     /\ d.tokens \in Seq(Nat)
                     /\ d.dist \in [ham : Nat, rough : Nat, full : Nat]
                     /\ Len(d.uri) <= 1 /\ Len(d.parent) <= 1
  /\ {BatchLimit, MaxEdits, MaxCommits, MaxOpens} \subseteq Nat

VARIABLES
  file,     \* the segments, in the order they were appended
  footer,   \* the footer body the header points to
  h,        \* the ValiseFile handle
  past,     \* what was put, for the properties
  left      \* how many edits, commits and opens the bounds leave

vars == <<file, footer, h, past, left>>

(* The clock: every update happens at time 0.                              *)
Now == 0

EmptyAlloc == [collection |-> 1, frame |-> 1, vector |-> 1, segment |-> 1]
NoDirty == [collection |-> {}, frame |-> {}, vector |-> {}, segment |-> {}]
EmptyBuf == [buf |-> <<>>, frames |-> <<>>]

EmptyFooter ==
  [alloc |-> EmptyAlloc, collection |-> <<>>, frame |-> <<>>, vector |-> <<>>,
   filters |-> <<>>, time |-> <<>>, segments |-> <<>>,
   terms |-> <<>>, postings |-> <<>>, stats |-> <<>>]

(* Fields: the allocator, the catalog tables in id order, the dirty sets   *)
(* and flag, the segment registry, the payload and URI buffers, the        *)
(* pending vector batch and text, the text state, the caches of filters,   *)
(* time index and committed vectors, the vector base (<<>> until loaded),  *)
(* and how much of the file is mapped.                                     *)
EmptyHandle ==
  [alloc |-> EmptyAlloc, collections |-> <<>>, frames |-> <<>>,
   vectors |-> <<>>, dirty |-> NoDirty, changed |-> FALSE,
   registry |-> <<>>, payloads |-> EmptyBuf, uris |-> EmptyBuf,
   batch |-> <<>>, pending |-> <<>>, text |-> EmptyText,
   filters |-> <<>>, times |-> <<>>, byId |-> <<>>, base |-> <<>>,
   mapped |-> 0]

-----------------------------------------------------------------------------
(* flush_pending_payloads.                                                 *)

(* The reference of a frame's bytes in a buffer that became segment seg.   *)
BufferRef(b, seg, f) ==
  LET e == b.frames[CHOOSE i \in DOMAIN b.frames : b.frames[i].frame = f] IN
  <<<<seg, e.off, e.len>>>>
InBuffer(b) == {b.frames[i].frame : i \in DOMAIN b.frames}

(* The bytes join the end of the buffer.                                   *)
AddBytes(b, f, bytes) ==
  [buf |-> b.buf \o bytes,
   frames |-> Append(b.frames, [frame |-> f, off |-> Len(b.buf),
                                len |-> Len(bytes)])]

(* Mutant of FlushPayloads: the URIs take the reference of the payloads.   *)
FlushPayloadsOneSegment(w) ==
  IF w.h.payloads.frames = <<>> THEN w
  ELSE LET p == w.h.payloads
           u == w.h.uris
           seg == w.h.alloc.segment
           w1 == AppendRegistered(w, "Payload", Ok(p.buf, <<>>))
           w2 == IF u.frames = <<>> THEN w1
                 ELSE AppendRegistered(w1, "Metadata", Ok(u.buf, <<>>))
           set(r) ==
             [r EXCEPT
               !.payload = IF r.id \in InBuffer(p) THEN BufferRef(p, seg, r.id)
                           ELSE @,
               !.uri = IF r.id \in InBuffer(u) THEN BufferRef(u, seg, r.id)
                       ELSE @] IN
       [w2 EXCEPT !.h.frames = [i \in DOMAIN @ |-> set(@[i])],
                  !.h.dirty.frame = @ \cup InBuffer(p) \cup InBuffer(u),
                  !.h.payloads = EmptyBuf, !.h.uris = EmptyBuf]

FlushPayloads(w) ==
  IF w.h.payloads.frames = <<>> THEN w
  ELSE LET p == w.h.payloads
           u == w.h.uris
           seg == w.h.alloc.segment
           w1 == AppendRegistered(w, "Payload", Ok(p.buf, <<>>))
           useg == w1.h.alloc.segment
           w2 == IF u.frames = <<>> THEN w1
                 ELSE AppendRegistered(w1, "Metadata", Ok(u.buf, <<>>))
           set(r) ==
             [r EXCEPT
               !.payload = IF r.id \in InBuffer(p) THEN BufferRef(p, seg, r.id)
                           ELSE @,
               !.uri = IF r.id \in InBuffer(u) THEN BufferRef(u, useg, r.id)
                       ELSE @] IN
       [w2 EXCEPT !.h.frames = [i \in DOMAIN @ |-> set(@[i])],
                  !.h.dirty.frame = @ \cup InBuffer(p) \cup InBuffer(u),
                  !.h.payloads = EmptyBuf, !.h.uris = EmptyBuf]

-----------------------------------------------------------------------------
(* The stages of a commit, each from a writer to a writer.                 *)

(* flush_pending_vector_batches: the segment id was taken at the first put *)
(* of the batch.                                                           *)
FlushVectors(w) ==
  IF w.h.batch = <<>> THEN w
  ELSE [AppendSegment(w, w.h.batch[1].seg, "VectorData", w.h.batch[1].rows)
          EXCEPT !.h.batch = <<>>]

(* flush_pending_text_indexes: the pending map is gone and the state has   *)
(* changed before anything is written.                                     *)
AppendText(w, out) ==
  LET w0 == [w EXCEPT !.h.pending = <<>>, !.h.text = out.state]
      w1 == AppendRegistered(w0, "TermDictionary", out.terms)
      w2 == AppendRegistered(w1, "Postings", out.postings)
      w3 == AppendRegistered(w2, "DocStats", out.stats) IN
  IF ~(out.terms.ok /\ out.postings.ok /\ out.stats.ok)
  THEN [w0 EXCEPT !.ok = FALSE]
  ELSE [w3 EXCEPT !.body.terms = NextRef(w0), !.body.postings = NextRef(w1),
                  !.body.stats = NextRef(w2)]
FlushText(w) ==
  IF DOMAIN w.h.pending = {} THEN w
  ELSE AppendText(w, FlushOutput(w.h.text, w.h.pending, w.body))

(* flush_catalog_table.                                                    *)
FlushTable(w, root, type, rows, ids) ==
  IF ids = {} THEN w
  ELSE [AppendRegistered(w, type,
          Ok(EncodeCatalogDelta(type, w.body[root], DirtyRecords(rows, ids)),
             <<>>))
          EXCEPT !.body[root] = NextRef(w)]

FlushCollections(w) ==
  FlushTable(w, "collection", "CollectionCatalog", w.h.collections,
             w.h.dirty.collection)
FlushVectorTable(w) ==
  FlushTable(w, "vector", "VectorCatalog", w.h.vectors, w.h.dirty.vector)

(* Appends what an encoder returned and points a root at it.               *)
AppendRoot(w, type, encoded, SetRoot(_, _)) ==
  LET w1 == AppendRegistered(w, type, encoded) IN
  IF w1.ok THEN SetRoot(w1, NextRef(w)) ELSE w1

(* flush_frame_catalog_columnar.                                           *)
FlushFrames(w) ==
  IF w.h.dirty.frame = {} THEN w
  ELSE AppendRoot(w, "FrameCatalog",
         EncodeFrameCatalog(w.body.frame,
                            DirtyRecords(w.h.frames, w.h.dirty.frame)),
         LAMBDA v, ref : [v EXCEPT !.body.frame = ref])

Active(rows) == SelectSeq(rows, LAMBDA r : r.status = "Active")
Ids(rows) == [i \in DOMAIN rows |-> rows[i].id]

(* The collections whose members changed, ascending                        *)
(* (dirty_filter_collections).                                             *)
DirtyFilters(hd) ==
  LET touched(rows, ids) ==
        {rows[i].coll : i \in {k \in DOMAIN rows : rows[k].id \in ids}} IN
  InOrder(touched(hd.frames, hd.dirty.frame)
            \cup touched(hd.vectors, hd.dirty.vector))

Members(rows, c) == Ids(SelectSeq(Active(rows), LAMBDA r : r.coll = c))
Filter(hd, c) ==
  [coll |-> c, frames |-> Members(hd.frames, c),
   vectors |-> Members(hd.vectors, c)]

(* write_collection_filter_segment of each, and the cache entry right      *)
(* after it.                                                               *)
FlushFilter(w, c) ==
  IF ~w.ok THEN w
  ELSE LET s == Filter(w.h, c) IN
       AppendRoot(w, "CollectionFilter",
         EncodeCollectionFilter(At(w.body.filters, c, <<>>), c, s.frames,
                                s.vectors),
         LAMBDA v, ref : [v EXCEPT !.body.filters = Insert(@, c, ref),
                                   !.h.filters = Insert(@, c, s)])
FlushFilters(w) ==
  FoldLeft(LAMBDA v, c : FlushFilter(v, c), w, DirtyFilters(w.h))

TimeEntries(rows) ==
  LET act == Active(rows) IN
  SetToSortSeq({[id |-> act[i].id, coll |-> act[i].coll,
                 created |-> act[i].created, updated |-> act[i].updated] :
                i \in DOMAIN act},
               LAMBDA a, b : \/ a.created < b.created
                             \/ a.created = b.created /\ a.id < b.id)

(* Mutant of FlushTimes: only a frame that is active makes the index dirty.*)
FlushTimesActiveOnly(w) ==
  IF DirtyRecords(Active(w.h.frames), w.h.dirty.frame) = <<>> THEN w
  ELSE LET es == TimeEntries(w.h.frames) IN
       AppendRoot(w, "TimeIndex", EncodeTimeIndex(w.body.time, es),
                  LAMBDA v, ref : [v EXCEPT !.body.time = ref, !.h.times = es])

(* write_time_index_segment, and the cache after it.                       *)
FlushTimes(w) ==
  IF w.h.dirty.frame = {} THEN w
  ELSE LET es == TimeEntries(w.h.frames) IN
       AppendRoot(w, "TimeIndex", EncodeTimeIndex(w.body.time, es),
                  LAMBDA v, ref : [v EXCEPT !.body.time = ref, !.h.times = es])

(* The registry delta: its own segment takes an id and is not in it.       *)
FlushRegistry(w) ==
  IF w.h.dirty.segment = {} THEN w
  ELSE LET ids == InOrder(w.h.dirty.segment)
           id == w.h.alloc.segment
           rows == [i \in DOMAIN ids |->
                      [id |-> ids[i], off |-> w.h.registry[ids[i]]]]
           delta == EncodeCatalogDelta("SegmentRegistry", w.body.segments, rows)
       IN [w EXCEPT !.file = Append(@, [id |-> id, type |-> "SegmentRegistry",
                                        payload |-> delta]),
                    !.h.alloc.segment = @ + 1,
                    !.body.segments = RefAtEnd(w, id)]

Stage(w, n) ==
  CASE n = "payloads" -> FlushPayloads(w) [] n = "vectors" -> FlushVectors(w)
    [] n = "text" -> FlushText(w)         [] n = "collections" -> FlushCollections(w)
    [] n = "frames" -> FlushFrames(w)     [] n = "vector_rows" -> FlushVectorTable(w)
    [] n = "filters" -> FlushFilters(w)   [] n = "times" -> FlushTimes(w)
    [] n = "registry" -> FlushRegistry(w)

Stages == <<"payloads", "vectors", "text", "collections", "frames",
            "vector_rows", "filters", "times", "registry">>

(* commit_phase_writes up to the footer: the first refusal ends it.        *)
WithAlloc(w) == [w EXCEPT !.body.alloc = w.h.alloc]
NextStage(w, n) == IF w.ok THEN Stage(w, n) ELSE w
CommitWrites ==
  WithAlloc(FoldLeft(LAMBDA w, n : NextStage(w, n),
                     [file |-> file, h |-> h, body |-> footer, ok |-> TRUE],
                     Stages))

-----------------------------------------------------------------------------
(* Reading.                                                                *)

(* The bytes a reference names, in a segment of the registry.              *)
ReadRange(f, registry, type, ref) ==
  IF ref[1] \notin DOMAIN registry THEN Err
  ELSE Then(ReadSegment(f, <<ref[1], registry[ref[1]]>>, type), LAMBDA s, rest :
         IF ref[2] + ref[3] > Len(s) THEN Err
         ELSE Ok(SubSeq(s, ref[2] + 1, ref[2] + ref[3]), rest))

(* read_payload: the buffer while the frame is in it.                      *)
ReadPayload(f, hd, id) ==
  IF id \in InBuffer(hd.payloads)
  THEN LET r == BufferRef(hd.payloads, 0, id)[1] IN
       Ok(SubSeq(hd.payloads.buf, r[2] + 1, r[2] + r[3]), <<>>)
  ELSE LET ref == RowOf(hd.frames, id).payload IN
       IF ref = <<>> THEN Err ELSE ReadRange(f, hd.registry, "Payload", ref[1])

(* read_frame_uri: nothing until the buffer has been flushed.              *)
ReadUri(f, hd, id) ==
  LET ref == RowOf(hd.frames, id).uri IN
  IF ref = <<>> THEN Ok(<<>>, <<>>)
  ELSE Then(ReadRange(f, hd.registry, "Metadata", ref[1]), LAMBDA u, rest :
         Ok(<<u>>, rest))

(* A vector's row of its data segment, within the mapping.                 *)
VectorRow(f, hd, v) ==
  IF \/ v.seg \notin DOMAIN hd.registry
     \/ hd.registry[v.seg] > hd.mapped
  THEN Err
  ELSE Then(ReadSegment(f, <<v.seg, hd.registry[v.seg]>>, "VectorData"),
            LAMBDA rows, rest :
              IF v.ord + 1 \in DOMAIN rows THEN Ok(rows[v.ord + 1], rest)
              ELSE Err)

(* read_vector.                                                            *)
ReadVector(f, hd, id) ==
  LET v == RowOf(hd.vectors, id) IN
  IF \/ hd.batch # <<>> /\ id \in RowIds(hd.batch[1].rows)
     \/ v.status # "Active"
  THEN Err
  ELSE Then(VectorRow(f, hd, v), LAMBDA row, rest :
         IF row.id = id THEN Ok(row.val, rest) ELSE Err)

(* The active vectors in the order their rows lie in the file.             *)
InFileOrder(hd, act) ==
  SetToSortSeq(Range(act), LAMBDA a, b :
    \/ hd.registry[a.seg] < hd.registry[b.seg]
    \/ a.seg = b.seg /\ a.ord < b.ord)

(* build_vector_base_ptrs: a row for every active vector, or an error.     *)
VectorBase(f, hd) ==
  LET act == Active(hd.vectors) IN
  IF \E i \in DOMAIN act : ~VectorRow(f, hd, act[i]).ok THEN Err
  ELSE LET in == InFileOrder(hd, act) IN
       Ok([i \in DOMAIN in |->
             [id |-> in[i].id] @@ VectorRow(f, hd, in[i]).val.val], <<>>)

(* ensure_vector_base_loaded.                                              *)
LoadedBase(f, hd) ==
  IF hd.base # <<>> THEN Ok(hd.base[1], <<>>) ELSE VectorBase(f, hd)

ActiveById(rows) ==
  LET act == Active(rows) IN
  [v \in RowIds(act) |-> RowOf(act, v)]

(* vector_search: refused while the space has a pending batch.             *)
SearchVectors(f, hd, codec, q) ==
  IF hd.batch # <<>> THEN Err
  ELSE Then(LoadedBase(f, hd), LAMBDA rows, rest :
         Ok(SearchSpace(codec, q, hd.byId, rows), rest))

(* query_hybrid's vector channel: by frame, the last distance listed.      *)
DistanceColumn(hd, hits) ==
  LET owner(i) == hd.byId[hits[i].id].frame IN
  [f \in {owner(i) : i \in DOMAIN hits} |->
     Negate(<<hits[Max({i \in DOMAIN hits : owner(i) = f})].score, 1>>)]

(* query_hybrid: one text channel and the vectors, fused.                  *)
QueryHybrid(mode, weights, hd, text, hits) ==
  Fuse(mode, weights, <<Column(text), DistanceColumn(hd, hits)>>)

-----------------------------------------------------------------------------
(* load_open_state.                                                        *)

LoadFilters(f, roots) ==
  [c \in DOMAIN roots |->
     Then(ReadSegment(f, roots[c], "CollectionFilter"),
          LAMBDA s, rest : DecodeCollectionFilter(s))]

LoadTimes(f, root) ==
  IF root = <<>> THEN Ok(<<>>, <<>>)
  ELSE Then(ReadSegment(f, root, "TimeIndex"),
            LAMBDA s, rest : DecodeTimeIndex(s))

LoadRegistry(f, root) ==
  Then(ReadCatalogChain(f, root, "SegmentRegistry"), LAMBDA rows, rest :
    Ok([id \in RowIds(rows) |-> RowOf(rows, id).off], rest))

(* The footer's allocator, advanced past every id in the tables            *)
(* (observe_catalog_ids).                                                  *)
Observe(next, rows) == Max({next} \cup {id + 1 : id \in RowIds(rows)})

Opened(f, ft, colls, frames, vectors, text, filters, times, registry) ==
  IF ~ /\ colls.ok /\ frames.ok /\ vectors.ok /\ text.ok /\ times.ok
       /\ registry.ok
       /\ \A c \in DOMAIN filters : filters[c].ok
  THEN Err
  ELSE Ok([EmptyHandle EXCEPT
             !.alloc = [collection |-> Observe(ft.alloc.collection, colls.val),
                        frame |-> Observe(ft.alloc.frame, frames.val),
                        vector |-> Observe(ft.alloc.vector, vectors.val),
                        segment |-> ft.alloc.segment],
             !.collections = colls.val, !.frames = frames.val,
             !.vectors = vectors.val, !.registry = registry.val,
             !.text = text.val, !.times = times.val,
             !.filters = [c \in DOMAIN filters |-> filters[c].val],
             !.byId = ActiveById(vectors.val),
             !.mapped = Len(f)], <<>>)

Load(f, ft) ==
  Opened(f, ft, ReadCatalogChain(f, ft.collection, "CollectionCatalog"),
         ReadFrameChain(f, ft.frame),
         ReadCatalogChain(f, ft.vector, "VectorCatalog"),
         Rebuild(f, ft), LoadFilters(f, ft.filters), LoadTimes(f, ft.time),
         LoadRegistry(f, ft.segments))

-----------------------------------------------------------------------------
(* What the properties remember: the documents and vectors put (puts,      *)
(* vals), the rows of the last commit and what they were put as (saved),   *)
(* whether a commit was refused after it had taken the pending text        *)
(* (refused), whether one succeeded on that handle later (mixed), and      *)
(* whether the file was opened after that (spoilt).                        *)
Kept == [puts |-> <<>>, vals |-> <<>>]
NoPast == [puts |-> <<>>, vals |-> <<>>, kept |-> Kept,
           rows |-> [collections |-> <<>>, frames |-> <<>>, vectors |-> <<>>],
           refused |-> FALSE, mixed |-> FALSE, spoilt |-> FALSE]

(* ValiseFile::create.                                                     *)
Init ==
  /\ file = <<>>
  /\ footer = EmptyFooter
  /\ h = EmptyHandle
  /\ past = NoPast
  /\ left = [edits |-> MaxEdits, commits |-> MaxCommits, opens |-> MaxOpens]

(* One edit more, within its bound.                                        *)
Edit ==
  /\ left.edits > 0
  /\ left' = [left EXCEPT !.edits = @ - 1]

(* create_collection_at, which refuses a name that is taken.               *)
CreateCollection(name) ==
  /\ Edit
  /\ \A i \in DOMAIN h.collections : h.collections[i].name # name
  /\ LET id == h.alloc.collection IN
     h' = [h EXCEPT !.alloc.collection = @ + 1,
                    !.collections = Upsert(@, [id |-> id, name |-> name]),
                    !.dirty.collection = @ \cup {id},
                    !.changed = TRUE]
  /\ UNCHANGED <<file, footer, past>>

FrameRow(id, d) ==
  [id |-> id, coll |-> d.coll,
   role |-> IF d.parent = <<>> THEN "Document" ELSE "Chunk",
   status |-> "Active", encoding |-> "Raw", created |-> d.created, updated |-> Now,
   payload |-> <<>>, uri |-> <<>>, title |-> <<>>, search_text |-> <<>>,
   metadata |-> <<>>, parent |-> d.parent,
   chunk_index |-> IF d.parent = <<>> THEN <<>> ELSE <<0>>,
   chunk_count |-> IF d.parent = <<>> THEN <<>> ELSE <<1>>]

(* put_text_frames_batch of one input: put_frame, which may flush the      *)
(* payload buffer, and the pending text of the new frame.                  *)
PutFrame(d) ==
  /\ Edit
  /\ d.coll \in RowIds(h.collections)
  /\ LET id == h.alloc.frame
         h1 == [h EXCEPT
                 !.alloc.frame = @ + 1,
                 !.payloads = AddBytes(@, id, d.tokens),
                 !.uris = IF d.uri = <<>> THEN @ ELSE AddBytes(@, id, d.uri[1]),
                 !.frames = Upsert(@, FrameRow(id, d)),
                 !.dirty.frame = @ \cup {id},
                 !.changed = TRUE]
         w == [file |-> file, h |-> h1, body |-> footer, ok |-> TRUE]
         w1 == IF Len(h1.payloads.buf) >= BatchLimit THEN FlushPayloads(w)
               ELSE w IN
     /\ file' = w1.file
     /\ h' = [w1.h EXCEPT !.pending = Insert(@, id, FromTokens(d.coll, d.tokens))]
     /\ past' = [past EXCEPT !.puts = Insert(@, id, d)]
  /\ UNCHANGED footer

(* put_vector: the first of a batch takes the batch's segment id.          *)
PutVector(f) ==
  /\ Edit
  /\ f \in RowIds(Active(h.frames))
  /\ LET id == h.alloc.vector
         batch == IF h.batch # <<>> THEN h.batch[1]
                  ELSE [seg |-> h.alloc.segment, rows |-> <<>>]
         val == past.puts[f].dist
         row == [id |-> id, frame |-> f, coll |-> RowOf(h.frames, f).coll,
                 seg |-> batch.seg, ord |-> Len(batch.rows),
                 status |-> "Active"] IN
     /\ h' = [h EXCEPT
               !.alloc.vector = @ + 1,
               !.alloc.segment = IF h.batch = <<>> THEN @ + 1 ELSE @,
               !.batch = <<[batch EXCEPT
                             !.rows = Append(@, [id |-> id, val |-> val])]>>,
               !.vectors = Upsert(@, row),
               !.dirty.vector = @ \cup {id},
               !.changed = TRUE]
     /\ past' = [past EXCEPT !.vals = Insert(@, id, val)]
  /\ UNCHANGED <<file, footer>>

(* delete_vector: refused while the vector is in the pending batch.        *)
DeleteVector(v) ==
  /\ Edit
  /\ v \in RowIds(Active(h.vectors))
  /\ h.batch # <<>> => v \notin RowIds(h.batch[1].rows)
  /\ h' = [h EXCEPT
            !.vectors = Upsert(@, [RowOf(@, v) EXCEPT !.status = "Tombstoned"]),
            !.dirty.vector = @ \cup {v},
            !.changed = TRUE]
  /\ UNCHANGED <<file, footer, past>>

(* delete_frame: the frame's vectors stay as they are.                     *)
DeleteFrame(f) ==
  /\ Edit
  /\ f \in RowIds(Active(h.frames))
  /\ h' = [h EXCEPT
            !.frames = Upsert(@, [RowOf(@, f) EXCEPT !.status = "Tombstoned",
                                                     !.role = "Tombstone",
                                                     !.updated = Now]),
            !.dirty.frame = @ \cup {f},
            !.changed = TRUE]
  /\ UNCHANGED <<file, footer, past>>

(* Mutant of Published: the vector base outlives the commit.               *)
PublishedStaleBase(w) ==
  LET h1 == [w.h EXCEPT !.dirty = NoDirty, !.changed = FALSE,
                        !.mapped = Len(w.file)] IN
  IF w.h.dirty.vector = {} THEN h1
  ELSE [h1 EXCEPT !.byId = ActiveById(h1.vectors)]

(* commit_phase_publish: what the handle forgets and rebuilds once the     *)
(* footer and header are written.                                          *)
Published(w) ==
  LET h1 == [w.h EXCEPT !.dirty = NoDirty, !.changed = FALSE,
                        !.mapped = Len(w.file)]
      base == VectorBase(w.file, h1) IN
  IF w.h.dirty.vector = {} THEN [h1 EXCEPT !.base = <<>>]
  ELSE [h1 EXCEPT !.byId = ActiveById(h1.vectors),
                  !.base = IF base.ok THEN <<base.val>> ELSE @]

(* A commit every stage of which succeeds.                                 *)
Commit ==
  /\ h.changed /\ left.commits > 0
  /\ \E w \in {CommitWrites} :
     /\ w.ok
     /\ file' = w.file
     /\ footer' = w.body
     /\ h' = Published(w)
  /\ past' = [past EXCEPT
               !.kept = [puts |-> past.puts, vals |-> past.vals],
               !.rows = [collections |-> h'.collections, frames |-> h'.frames,
                         vectors |-> h'.vectors],
               !.mixed = past.refused]
  /\ left' = [left EXCEPT !.commits = @ - 1]

(* A commit that an encoder refuses: the caller gets the error, the file   *)
(* keeps what was appended and the handle what was done.                   *)
CommitRefused ==
  /\ h.changed /\ left.commits > 0
  /\ \E w \in {CommitWrites} :
     /\ ~w.ok
     /\ file' = w.file
     /\ h' = w.h
  /\ past' = [past EXCEPT !.refused = @ \/ DOMAIN h.pending # {}]
  /\ left' = [left EXCEPT !.commits = @ - 1]
  /\ UNCHANGED footer

(* The handle is dropped and the file opened again.                        *)
Reopen ==
  /\ left.opens > 0
  /\ \E r \in {Load(file, footer)} : r.ok /\ h' = r.val
  /\ past' = [past EXCEPT !.puts = past.kept.puts, !.vals = past.kept.vals,
                          !.refused = FALSE, !.spoilt = @ \/ past.mixed]
  /\ left' = [left EXCEPT !.opens = @ - 1]
  /\ UNCHANGED <<file, footer>>

Dead(hd) == TombstoneSet(hd.frames)

(* query_text by BM25 and by count cosine, and vector_search: they change  *)
(* only the caches.  Text is refused while some is pending.                *)
Query(t) ==
  /\ LET st == IF DOMAIN h.pending # {} THEN h.text
               ELSE WarmCosine(WarmBm25(h.text, Dead(h), <<t>>), Dead(h), <<t>>)
         base == LoadedBase(file, h) IN
     h' = [h EXCEPT !.text = st, !.base = IF base.ok THEN <<base.val>> ELSE @]
  /\ UNCHANGED <<file, footer, past, left>>

Next ==
  \/ \E n \in Names : CreateCollection(n)
  \/ \E d \in Docs : PutFrame(d)
  \/ \E f \in RowIds(h.frames) : PutVector(f)
  \/ \E v \in RowIds(h.vectors) : DeleteVector(v)
  \/ \E f \in RowIds(h.frames) : DeleteFrame(f)
  \/ Commit \/ CommitRefused \/ Reopen
  \/ Query(1)

Spec == Init /\ [][Next]_vars

-----------------------------------------------------------------------------
(* Properties.                                                             *)

SortedById(rows) == StrictlyAscending(Ids(rows))

(* Every table is in id order below the allocator that numbers it          *)
(* (upsert_*, IdAllocator), every registered segment is where the registry *)
(* says, and a frame waits in the buffers at most once.                    *)
TypeOK ==
  /\ SortedById(h.collections) /\ SortedById(h.frames) /\ SortedById(h.vectors)
  /\ \A id \in RowIds(h.collections) : id < h.alloc.collection
  /\ \A id \in RowIds(h.frames) : id < h.alloc.frame
  /\ \A id \in RowIds(h.vectors) : id < h.alloc.vector
  /\ h.dirty.frame \subseteq RowIds(h.frames)
  /\ h.dirty.vector \subseteq RowIds(h.vectors)
  /\ \A id \in DOMAIN h.registry : /\ id < h.alloc.segment
                                  /\ file[h.registry[id]].id = id
  /\ IsInjective(h.payloads.frames) /\ h.mapped <= Len(file)

(* Whatever was put, deleted, committed or refused, the footer on disk     *)
(* opens (load_open_state returns no error): every chain, filter, time     *)
(* index and registry a commit wrote decodes.  Evaluated once a commit has *)
(* written, or was refused with text in hand, and not after the puts that  *)
(* follow, which only append payload segments.                             *)
FooterLoads == ~h.changed \/ past.refused => Load(file, footer).ok

(* A handle with nothing uncommitted has the rows of the last commit that  *)
(* succeeded, each in its newest version: the one that wrote them and one  *)
(* that opened the file, whatever deltas and refused commits lie between   *)
(* (flush_frame_catalog_columnar, read_catalog_chain_dedup).               *)
CommittedReload ==
  ~h.changed => [collections |-> h.collections, frames |-> h.frames,
                 vectors |-> h.vectors] = past.rows

(* The frames are those that were put, and read_payload and read_frame_uri *)
(* give back what was put, in every state between put, flush, commit,      *)
(* refusal and opening again; a URI once it has left the buffer            *)
(* (flush_pending_payloads: offsets, segments and registry).               *)
ReadBack ==
  /\ DOMAIN past.puts = RowIds(h.frames)
  /\ \A id \in RowIds(h.frames) :
       /\ ReadPayload(file, h, id) = Ok(past.puts[id].tokens, <<>>)
       /\ ReadUri(file, h, id) =
            Ok(IF id \in InBuffer(h.uris) THEN <<>> ELSE past.puts[id].uri, <<>>)

(* The time index and the collection filters of a handle with nothing      *)
(* uncommitted, kept by commits or decoded from the file, list exactly the *)
(* active rows of the catalogs, and the document statistics are those of   *)
(* the documents (write_catalog_segments: a delete or a new vector must    *)
(* make its collection's filter dirty).                                    *)
IndexesAgree ==
  ~h.changed =>
    /\ h.times = TimeEntries(h.frames)
    /\ \A c \in RowIds(h.collections) :
         At(h.filters, c, [coll |-> c, frames |-> <<>>, vectors |-> <<>>])
           = Filter(h, c)
    /\ ~past.spoilt =>
         \A f \in DOMAIN h.text.stats :
           LET s == h.text.stats[f]
               tokens == past.puts[f].tokens IN
           /\ s.lens = <<Len(tokens)>> /\ s.total = Len(tokens)
           /\ s.unique = Cardinality(Range(tokens))

(* The queries the properties ask: every k, fidelity, filter and budget.   *)
VectorQuery(k, channel, full, filter) ==
  [k |-> k, channel |-> channel, full |-> full, filter |-> filter]
VectorQueries ==
  {VectorQuery(k, channel, full, filter) :
     k \in {1, MaxEdits}, channel \in {<<>>, <<1>>}, full \in BOOLEAN,
     filter \in {<<>>, <<{1}>>}}

(* The active vectors a query asks for, and those of them that the sketch  *)
(* lets through: fewer than the budget are nearer by Hamming distance.     *)
Wanted(q) ==
  {v \in RowIds(Active(h.vectors)) :
     q.filter = <<>> \/ RowOf(h.vectors, v).coll \in q.filter[1]}
Reached(q, v) ==
  LET nearer == {w \in RowIds(Active(h.vectors)) :
                   past.vals[w].ham < past.vals[v].ham} IN
  q.channel = <<>> \/ Cardinality(nearer) < q.channel[1]

(* What a search may answer.  Its hits are active vectors of the filter's  *)
(* collections that the sketch reaches, each once, with its score, nearest *)
(* first; and with the default budget, which covers every vector here, no  *)
(* vector left out is nearer than one listed unless the first scoring      *)
(* ranked it behind 3k others.                                             *)
SearchRight(q, hits) ==
  LET ids == {hits[i].id : i \in DOMAIN hits}
      score(v) == IF q.full THEN past.vals[v].full ELSE past.vals[v].rough
      behind(v) == {w \in Wanted(q) : past.vals[w].rough <= past.vals[v].rough} IN
  /\ ids \subseteq Wanted(q) /\ Len(hits) = Cardinality(ids)
  /\ Len(hits) <= q.k
  /\ \A i \in DOMAIN hits : hits[i].score = score(hits[i].id)
                            /\ Reached(q, hits[i].id)
  /\ Ascending([i \in DOMAIN hits |-> hits[i].score])
  /\ q.channel = <<>> =>
       \A v \in Wanted(q) \ ids :
         \/ Len(hits) = q.k /\ score(v) >= Last(hits).score
         \/ q.full /\ Cardinality(behind(v)) > 3 * q.k

(* Of a handle's vectors, those that wait in no batch read back as put;    *)
(* and with no vector uncommitted, a search answers as SearchRight says,   *)
(* for either codec (build_vector_base_ptrs, read_vector: registry,        *)
(* mapping, ordinal and the cached base must all be of the same commit;    *)
(* scan_candidates, sketch_then_rerank, upq_sketch_then_rerank: budget,    *)
(* filter, pool and rescoring must not lose a hit).                        *)
VectorsFound ==
  h.dirty.vector = {} =>
    /\ \A v \in RowIds(Active(h.vectors)) :
         ReadVector(file, h, v) = Ok(past.vals[v], <<>>)
    /\ \A codec \in {"Qam", "Upq"}, q \in VectorQueries :
         LET r == SearchVectors(file, h, codec, q) IN
         r.ok /\ SearchRight(q, r.val)

(* The text was indexed and is searchable: it is not pending.              *)
Indexed == DOMAIN past.puts \ DOMAIN h.pending
LiveDocs == Indexed \ Dead(h)
Tokens(f) == past.puts[f].tokens
Tf(f, t) == Cardinality({i \in DOMAIN Tokens(f) : Tokens(f)[i] = t})
Df(t) == Cardinality({f \in Indexed : Tf(f, t) > 0})

(* The first cap of the documents with a score other than 0.               *)
Best(score, cap) ==
  LET hits == Ranked({[frame |-> f, score |-> score[f]] :
                        f \in {g \in DOMAIN score : score[g][1] # 0}}) IN
  SubSeq(hits, 1, IF Len(hits) < cap THEN Len(hits) ELSE cap)

SetReference(profile, query, cap) ==
  LET known == {t \in Range(query) : Df(t) > 0} IN
  Best([f \in LiveDocs |->
          SetScore(profile, Cardinality(known \cap Range(Tokens(f))),
                   Cardinality(known), Cardinality(Range(Tokens(f))))], cap)

CosineReference(query, cap) ==
  LET known == {t \in Range(query) : Df(t) > 0}
      qf(t) == Cardinality({i \in DOMAIN query : query[i] = t})
      dot(f) == MapThenSumSet(LAMBDA t : qf(t) * Tf(f, t), known)
      sq(f) == MapThenSumSet(LAMBDA t : Tf(f, t) * Tf(f, t), Range(Tokens(f)))
      qsq == MapThenSumSet(LAMBDA t : qf(t) * qf(t), known) IN
  Best([f \in LiveDocs |-> Over(dot(f) * dot(f), qsq * sq(f))], cap)

Bm25Reference(t, cap) ==
  LET live == {f \in LiveDocs : Tokens(f) # <<>>}
      n == Cardinality(live)
      total == MapThenSumSet(LAMBDA f : Len(Tokens(f)), live)
      weight == Idf(n, Df(t)) IN
  Best([f \in live |-> <<weight * Tf(f, t) * total,
                        Tf(f, t) * total + Len(Tokens(f)) * n>>], cap)

SameHits(a, b) ==
  /\ Frames(a) = Frames(b)
  /\ \A i \in DOMAIN a : Equal(a[i].score, b[i].score)

Queries == {<<1>>, <<2, 1, 2>>}

(* Every profile answers as if it had read the documents themselves.       *)
SearchAnswers ==
  \A cap \in {1, 3} :
    /\ SameHits(Bm25(h.text, Dead(h), <<1>>, cap), Bm25Reference(1, cap))
    /\ \A q \in Queries :
         /\ SameHits(CountCosine("Exact", h.text, Dead(h), q, cap),
                     CosineReference(q, cap))
         /\ \A profile \in {"Jaccard", "Dice", "Overlap", "Containment"} :
              SameHits(SetSimilarity(profile, h.text, Dead(h), q, cap),
                       SetReference(profile, q, cap))

(* The text state holds both lists it opened with and lists it flushed.    *)
TwoHalves == h.text.segs # <<>> /\ DOMAIN h.text.postings # {}

(* query_text, whatever the caches hold and however many segments the      *)
(* postings are in, ranks the documents that are indexed and not deleted   *)
(* by their true scores, ties by frame id.  Left out are a handle that has *)
(* both opened and flushed postings and a file that a refused commit took  *)
(* text from: SearchFindsCommitted and CommitFile have them.  The tokens   *)
(* of a document here are those of a query of the same words, and          *)
(* AnalysisAgrees (looked at once, in the first state) is why.             *)
SearchExact ==
  /\ h = EmptyHandle => AnalysisAgrees
  /\ DOMAIN h.pending = {} /\ ~past.spoilt /\ ~TwoHalves => SearchAnswers

(* docs/text.md, 9.5, of the postings segments: "The active state is the   *)
(* union across the chain".  So query_text finds what was committed, on a  *)
(* handle that opened the file as on the one that wrote it.                *)
SearchFindsCommitted ==
  DOMAIN h.pending = {} /\ ~past.spoilt /\ ~past.refused => SearchAnswers

(* A term id stands for one term, in memory and on disk: the ids a flush   *)
(* assigns are those of no other term (build_flush_output), and no term    *)
(* has one id from the file and another in memory.                         *)
TermIdsStable ==
  LET known == InsertAll(h.text.sorted, h.text.ids) IN
  /\ \A a, b \in DOMAIN known : known[a] = known[b] => a = b
  /\ \A b \in DOMAIN known : known[b] < h.text.next
  /\ DOMAIN h.text.sorted \cap DOMAIN h.text.ids = {}

(* Every decoder of SegmentCodecs and of FileFormats gives back what its   *)
(* encoder was given and refuses a payload cut short, changed, or of       *)
(* another generation, for more shapes of input than the edits above       *)
(* produce: ids in several runs, times at the ends of i64, columns of      *)
(* mixed widths, references that go backwards, a footer across two chunks  *)
(* of the scan.  It depends on no state and is evaluated in the first one. *)
CodecsInvert ==
  h = EmptyHandle =>
    /\ VarintsInvert /\ FiltersInvert /\ TimesInvert /\ TextInverts /\ FramesInvert
    /\ HeadersHold /\ SegmentsGuarded /\ FootersHold /\ VectorDataHolds
    /\ ParamsInvert

(* The two vector codecs compute the distance they are for, whatever the   *)
(* layout: the rotation is undone, a packed index is read back at any      *)
(* width, amplitude and ring are the nearest, the integer sums of          *)
(* SlidingSession take in every pair once and fit their words, and the     *)
(* distance to a code is the one to the vector it decodes to (codec, see   *)
(* Quantizers).  Evaluated in the first state too.                         *)
QuantizersExact ==
  h = EmptyHandle =>
    /\ RotationInverts /\ StreamsInvert /\ AmpIndexRight /\ QamExact
    /\ CalibrationAccepts /\ NarrowingFits /\ SlidingSumsAll /\ UpqExact
    /\ UpqDesigns
=============================================================================
