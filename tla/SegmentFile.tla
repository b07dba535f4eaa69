---------------------------- MODULE SegmentFile ----------------------------
(***************************************************************************)
(* The file as the segments appended to it, and the chains of deltas that  *)
(* a footer's roots lead to (src/src/file/segment_io.rs and catalog_io.rs).*)
(*                                                                         *)
(* A segment is [id, type, payload]; its offset is its place in the file,  *)
(* and a SegmentRef is <<id, offset>>.  Checksums and lengths are those of *)
(* the segment found there: the file only grows, so a reference whose id   *)
(* and type match is intact.  What tears or loses a write is CommitFile's. *)
(* A zstd segment holds the bytes that decompressing it gives.             *)
(*                                                                         *)
(* A writer is [file, h, body, ok]: the file, the ValiseFile handle, the   *)
(* footer body under construction and whether every step succeeded.        *)
(***************************************************************************)
EXTENDS SegmentCodecs

(* HashMap::insert and HashMap::extend: the new entries replace the old.   *)
Insert(map, x, v) ==
  [y \in DOMAIN map \cup {x} |-> IF y = x THEN v ELSE map[y]]
InsertAll(map, new) ==
  [y \in DOMAIN map \cup DOMAIN new |->
     IF y \in DOMAIN new THEN new[y] ELSE map[y]]

(* Mutant of RefAtEnd: the offset is that of the last segment.             *)
RefAtEndBefore(w, id) == <<id, Len(w.file)>>

(* The reference the next append returns (segment_ref_at_end).             *)
RefAtEnd(w, id) == <<id, Len(w.file) + 1>>

(* append_segment_at_end, then register_segment.                           *)
AppendSegment(w, id, type, payload) ==
  [w EXCEPT !.file = Append(@, [id |-> id, type |-> type, payload |-> payload]),
            !.h.registry = Insert(@, id, Len(w.file) + 1),
            !.h.dirty.segment = @ \cup {id}]

(* append_registered_segment on what an encoder returned: a refusal stops  *)
(* the commit and leaves what was appended before.                         *)
AppendRegistered(w, type, encoded) ==
  IF ~encoded.ok THEN [w EXCEPT !.ok = FALSE]
  ELSE AppendSegment([w EXCEPT !.h.alloc.segment = @ + 1],
                     w.h.alloc.segment, type, encoded.val)

(* The reference that append_registered_segment returns.                   *)
NextRef(w) == RefAtEnd(w, w.h.alloc.segment)

(* read_segment: the header found at the offset must name the segment and, *)
(* when the caller knows it, the type.                                     *)
ReadSegment(file, ref, type) ==
  IF /\ ref[2] \in DOMAIN file
     /\ file[ref[2]].id = ref[1]
     /\ file[ref[2]].type = type
  THEN Ok(file[ref[2]].payload, <<>>)
  ELSE Err

(* One segment further back, until there is no previous root.              *)
ChainStep(file, type, Decode(_), acc) ==
  IF ~acc.ok \/ acc.next = <<>> THEN acc
  ELSE LET r == ReadSegment(file, acc.next, type)
           d == IF r.ok THEN Decode(r.val) ELSE Err IN
       IF d.ok THEN [ok |-> TRUE, next |-> d.val.prev,
                     deltas |-> Append(acc.deltas, d.val)]
       ELSE [acc EXCEPT !.ok = FALSE]

(* The decoded deltas of a chain, newest first: it ends at a delta without *)
(* a previous root.                                                        *)
Chain(file, head, type, Decode(_)) ==
  LET walk == FoldLeft(LAMBDA acc, k : ChainStep(file, type, Decode, acc),
                       [ok |-> TRUE, next |-> head, deltas |-> <<>>],
                       [k \in DOMAIN file |-> k]) IN
  IF walk.ok /\ walk.next = <<>> THEN Ok(walk.deltas, <<>>) ELSE Err

(* A set of ids, ascending.                                                *)
InOrder(ids) ==
  [k \in 1..Cardinality(ids) |->
     CHOOSE x \in ids : Cardinality({y \in ids : y < x}) = k - 1]

(* The elements of a sequence at some of its places, in their order.       *)
Pick(s, places) == LET at == InOrder(places) IN [k \in DOMAIN at |-> s[at[k]]]

(* Mutant of LatestRows: an older delta overwrites a newer one.            *)
OldestRows(deltas) ==
  LET rows == FlattenSeq([i \in DOMAIN deltas |-> deltas[i].rows])
      ids == InOrder({rows[k].id : k \in DOMAIN rows}) IN
  [i \in DOMAIN ids |->
     rows[Max({k \in DOMAIN rows : rows[k].id = ids[i]})]]

(* The newest row of every id, in id order.                                *)
LatestRows(deltas) ==
  LET rows == FlattenSeq([i \in DOMAIN deltas |-> deltas[i].rows])
      ids == InOrder({rows[k].id : k \in DOMAIN rows}) IN
  [i \in DOMAIN ids |->
     rows[Min({k \in DOMAIN rows : rows[k].id = ids[i]})]]

ReadFrameChain(file, head) ==
  Then(Chain(file, head, "FrameCatalog", DecodeFrameCatalog),
       LAMBDA ds, none : Ok(LatestRows(ds), none))

(* read_catalog_chain_dedup, of any table.                                 *)
ReadCatalogChain(file, head, table) ==
  Then(Chain(file, head, table, LAMBDA s : DecodeCatalogDelta(table, s)),
       LAMBDA ds, none : Ok(LatestRows(ds), none))

(* The row of an id in a table sorted by id.                               *)
RowIds(rows) == {rows[i].id : i \in DOMAIN rows}
RowOf(rows, id) == rows[CHOOSE i \in DOMAIN rows : rows[i].id = id]

(* Mutant of Upsert: a row that is replaced goes to the end.               *)
UpsertAtEnd(rows, row) ==
  Append(SelectSeq(rows, LAMBDA r : r.id # row.id), row)

(* upsert_collection, upsert_frame, upsert_vector: replace or insert at    *)
(* the place of the id.                                                    *)
Upsert(rows, row) ==
  LET below == Pick(rows, {i \in DOMAIN rows : rows[i].id < row.id})
      above == Pick(rows, {i \in DOMAIN rows : rows[i].id > row.id}) IN
  below \o <<row>> \o above

(* dirty_records: the dirty rows, in id order.                             *)
DirtyRecords(rows, ids) == Pick(rows, {i \in DOMAIN rows : rows[i].id \in ids})
=============================================================================
