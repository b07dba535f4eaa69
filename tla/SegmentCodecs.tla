--------------------------- MODULE SegmentCodecs ---------------------------
(***************************************************************************)
(* The payload encodings of src/src/format: the columnar frame catalog,    *)
(* the time index, the collection filter, the postings, document-statistics*)
(* and term-dictionary segments, and the catalog deltas of every other     *)
(* table.                                                                  *)
(*                                                                         *)
(* A payload is a sequence of cells.  A fixed-width field is one cell; a   *)
(* varint is as many cells as it has groups, so that lengths, offsets and  *)
(* truncation behave as they do for bytes.  Integers keep their width,     *)
(* scaled down: u64 has WordBits bits and a varint group GroupBits, with   *)
(* the last group partly used, as 64 = 9 * 7 + 1 has it.                   *)
(*                                                                         *)
(* A decoder, and an encoder that may refuse, returns Ok or Err; a reader  *)
(* also returns the cells it left.                                         *)
(***************************************************************************)
EXTENDS Integers, Sequences, FiniteSets, SequencesExt, FiniteSetsExt

CONSTANTS WordBits, GroupBits

ASSUME SegmentCodecsAssumption ==
  /\ GroupBits \in Nat \ {0}
  /\ WordBits \in Nat
  /\ WordBits > GroupBits

U64 == 0 .. (2^WordBits - 1)
I64 == (0 - 2^(WordBits - 1)) .. (2^(WordBits - 1) - 1)
Group == 2^GroupBits

-----------------------------------------------------------------------------
(* Cursors, varints and blobs.                                             *)

Err == [ok |-> FALSE]
Ok(v, rest) == [ok |-> TRUE, val |-> v, rest |-> rest]
Then(r, K(_, _)) == IF r.ok THEN K(r.val, r.rest) ELSE Err

(* Cursor::read_array: the next fixed-width field, or "truncated".         *)
ReadCell(s) == IF s = <<>> THEN Err ELSE Ok(Head(s), Tail(s))

(* A fixed-width count: a cell that holds no number is none.               *)
ReadCount(s) ==
  Then(ReadCell(s), LAMBDA n, rest : IF n \in Nat THEN Ok(n, rest) ELSE Err)

(* n times the reader R.                                                   *)
ReadMany(n, R(_), s) ==
  FoldLeft(LAMBDA acc, i :
             Then(acc, LAMBDA vs, rest :
               Then(R(rest), LAMBDA v, left : Ok(Append(vs, v), left))),
           Ok(<<>>, s), [i \in 1..n |-> i])

(* A cursor that must be empty when its column has been read.              *)
Whole(r) == IF r.ok /\ r.rest = <<>> THEN r ELSE Err

VarintCells[v \in Nat] ==
  IF v < Group THEN <<v>>
  ELSE <<Group + (v % Group)>> \o VarintCells[v \div Group]
WriteUvarint(v) == VarintCells[v]

ReadUvarint(s) ==
  LET read[k \in Nat, acc \in Nat] ==
        IF GroupBits * k >= WordBits \/ k = Len(s) THEN Err
        ELSE LET b == s[k + 1]
                 v == (acc + (b % Group) * 2^(GroupBits * k)) % 2^WordBits IN
             IF b < Group THEN Ok(v, SubSeq(s, k + 2, Len(s)))
             ELSE read[k + 1, v] IN
  read[0, 0]

ZigZag(v) == IF v >= 0 THEN 2 * v ELSE (0 - 2) * v - 1
UnZigZag(z) == IF z % 2 = 0 THEN z \div 2 ELSE 0 - (z + 1) \div 2

WriteIvarint(v) == WriteUvarint(ZigZag(v))
ReadIvarint(s) == Then(ReadUvarint(s), LAMBDA z, rest : Ok(UnZigZag(z), rest))

WriteBlob(b) == <<Len(b)>> \o b
ReadBlob(s) ==
  Then(ReadCell(s), LAMBDA n, rest :
    IF n > Len(rest) THEN Err
    ELSE Ok(SubSeq(rest, 1, n), SubSeq(rest, n + 1, Len(rest))))

Uvarints(vs) == FlattenSeq([i \in DOMAIN vs |-> WriteUvarint(vs[i])])
Ivarints(vs) == FlattenSeq([i \in DOMAIN vs |-> WriteIvarint(vs[i])])

(* Magic and version, checked together.                                    *)
ReadMagic(magic, s) ==
  Then(ReadCell(s), LAMBDA m, rest : IF m = magic THEN Ok(m, rest) ELSE Err)

(* Option<SegmentRef>: a flag, then where the segment is.  A SegmentRef is *)
(* <<segment_id, offset>>: the file is append-only, so the length and the  *)
(* checksum it also carries are those of the segment there.                *)
WriteRef(ref) == IF ref = <<>> THEN <<0>> ELSE <<1>> \o ref
ReadRef(s) ==
  Then(ReadCell(s), LAMBDA flag, rest :
    CASE flag = 0 -> Ok(<<>>, rest)
      [] flag = 1 -> ReadMany(2, ReadCell, rest)
      [] OTHER -> Err)

-----------------------------------------------------------------------------
(* Columns.                                                                *)

Col(rows, f(_)) == [i \in DOMAIN rows |-> f(rows[i])]
Deltas(vs) == [i \in 1 .. Len(vs) - 1 |-> vs[i + 1] - vs[i]]
RunningSums(first, ds) ==
  FoldLeft(LAMBDA acc, d : Append(acc, Last(acc) + d), <<first>>, ds)
Ascending(vs) == \A i \in 1 .. Len(vs) - 1 : vs[i] <= vs[i + 1]
StrictlyAscending(vs) == \A i \in 1 .. Len(vs) - 1 : vs[i] < vs[i + 1]

(* frame_id column: the first id, then deltas, each addition checked.      *)
EncodeIds(ids) == <<ids[1]>> \o Uvarints(Deltas(ids))
DecodeIds(n, s) ==
  Then(ReadCell(s), LAMBDA first, rest :
    Then(ReadMany(n - 1, ReadUvarint, rest), LAMBDA ds, left :
      LET ids == RunningSums(first, ds) IN
      IF Range(ids) \subseteq U64 THEN Ok(ids, left) ELSE Err))

(* created_at column: the first value, then deltas of deltas; every        *)
(* subtraction and addition is checked.                                    *)
DeltasOfDeltas(vs) == Deltas(<<0>> \o Deltas(vs))
TimesRefused(vs) ==
  ~ /\ Range(Deltas(vs)) \subseteq I64
    /\ Range(DeltasOfDeltas(vs)) \subseteq I64
EncodeTimes(vs) == <<vs[1]>> \o Ivarints(DeltasOfDeltas(vs))
DecodeTimes(n, s) ==
  Then(ReadCell(s), LAMBDA first, rest :
    Then(ReadMany(n - 1, ReadIvarint, rest), LAMBDA dods, left :
      LET ds == Tail(RunningSums(0, dods))
          vs == RunningSums(first, ds) IN
      IF Range(ds) \cup Range(vs) \subseteq I64 THEN Ok(vs, left) ELSE Err))

(* updated_at column: the offset from created_at of the same row.          *)
Offsets(created, updated) ==
  [i \in DOMAIN created |-> updated[i] - created[i]]
DecodeUpdated(created, s) ==
  Then(ReadMany(Len(created), ReadIvarint, s), LAMBDA offs, left :
    LET vs == [i \in DOMAIN created |-> created[i] + offs[i]] IN
    IF Range(vs) \subseteq I64 THEN Ok(vs, left) ELSE Err)

(* Run-length encoding: <<value, length>> pairs.                           *)
Runs(vs) ==
  FoldLeft(LAMBDA rs, v :
             IF rs # <<>> /\ Last(rs)[1] = v
             THEN [rs EXCEPT ![Len(rs)] = <<v, @[2] + 1>>]
             ELSE Append(rs, <<v, 1>>),
           <<>>, vs)
EncodeRle(vs) ==
  LET rs == Runs(vs) IN
  <<Len(rs)>> \o FlattenSeq([i \in DOMAIN rs |->
                               <<rs[i][1]>> \o WriteUvarint(rs[i][2])])
ReadRun(s) ==
  Then(ReadCell(s), LAMBDA v, rest :
    Then(ReadUvarint(rest), LAMBDA len, left : Ok(<<v, len>>, left)))
DecodeRle(n, s) ==
  Whole(Then(ReadCell(s), LAMBDA count, rest :
    Then(ReadMany(count, ReadRun, rest), LAMBDA rs, left :
      LET vs == FlattenSeq([i \in DOMAIN rs |->
                              [k \in 1..rs[i][2] |-> rs[i][1]]]) IN
      IF Len(vs) = n THEN Ok(vs, left) ELSE Err)))

(* Presence list of an optional column: the rows, counted from 0, that     *)
(* hold a value; an option is a sequence of at most one value.             *)
Presence(opts) ==
  SelectSeq([i \in DOMAIN opts |-> i - 1], LAMBDA i : opts[i + 1] # <<>>)
EncodePresence(idx) ==
  <<Len(idx)>> \o (IF idx = <<>> THEN <<>>
                   ELSE WriteUvarint(idx[1]) \o Uvarints(Deltas(idx)))
DecodePresence(s) ==
  Whole(Then(ReadCell(s), LAMBDA n, rest :
    Then(ReadMany(n, ReadUvarint, rest), LAMBDA ds, left :
      Ok(IF ds = <<>> THEN <<>> ELSE RunningSums(ds[1], Tail(ds)), left))))

(* An optional column: its presence blob and its values blob.              *)
EncodeOptional(opts, W(_)) ==
  LET idx == Presence(opts) IN
  <<EncodePresence(idx),
    FlattenSeq([k \in DOMAIN idx |-> W(opts[idx[k] + 1][1])])>>
Spread(n, idx, vs) ==
  [i \in 1..n |-> IF \E k \in DOMAIN idx : idx[k] = i - 1
                  THEN <<vs[CHOOSE k \in DOMAIN idx : idx[k] = i - 1]>>
                  ELSE <<>>]
DecodeOptional(n, presence, values, R(_)) ==
  Then(DecodePresence(presence), LAMBDA idx, none :
    Then(Whole(ReadMany(Len(idx), R, values)), LAMBDA vs, left :
      IF \E k \in DOMAIN idx : idx[k] >= n THEN Err
      ELSE Ok(Spread(n, idx, vs), left)))

-----------------------------------------------------------------------------
(* frame_catalog_codec.rs: one delta of the frame catalog, "VLF2".         *)

RoleDisc     == <<"Document", "Chunk", "Tombstone">>
StatusDisc   == <<"Active", "Tombstoned">>
EncodingDisc == <<"Raw", "Zstd", "Lz4">>
DiscOf(table, x) == (CHOOSE i \in DOMAIN table : table[i] = x) - 1
Discs(table, rows, f(_)) == EncodeRle(Col(rows, LAMBDA r : DiscOf(table, f(r))))
DecodeDiscs(table, n, s) ==
  Then(DecodeRle(n, s), LAMBDA ds, left :
    IF \E i \in DOMAIN ds : ds[i] >= Len(table) THEN Err
    ELSE Ok([i \in DOMAIN ds |-> table[ds[i] + 1]], left))

(* payload_ref column: the first reference in full, then signed deltas of  *)
(* its segment and offset.  A reference is <<segment_id, offset, length>>. *)
EncodePayloadRefs(refs) ==
  FlattenSeq([k \in DOMAIN refs |->
    (IF k = 1 THEN <<refs[1][1]>> \o WriteUvarint(refs[1][2])
     ELSE WriteIvarint(refs[k][1] - refs[k - 1][1])
            \o WriteIvarint(refs[k][2] - refs[k - 1][2]))
    \o WriteUvarint(refs[k][3])])
ReadPayloadRef(prev, s) ==
  LET Seg(t) == IF prev = <<>> THEN ReadCell(t) ELSE ReadIvarint(t)
      Off(t) == IF prev = <<>> THEN ReadUvarint(t) ELSE ReadIvarint(t)
      Base(j) == IF prev = <<>> THEN 0 ELSE prev[j] IN
  Then(Seg(s), LAMBDA seg, s1 : Then(Off(s1), LAMBDA off, s2 :
    Then(ReadUvarint(s2), LAMBDA len, s3 :
      Ok(<<(Base(1) + seg) % 2^WordBits, (Base(2) + off) % 2^WordBits, len>>,
         s3))))
DecodePayloadRefs(n, presence, values) ==
  Then(DecodePresence(presence), LAMBDA idx, none :
    Then(FoldLeft(LAMBDA acc, k :
                    Then(acc, LAMBDA vs, rest :
                      Then(ReadPayloadRef(IF vs = <<>> THEN <<>> ELSE Last(vs),
                                          rest),
                           LAMBDA v, left : Ok(Append(vs, v), left))),
                  Ok(<<>>, values), idx),
         LAMBDA vs, left :
           IF \E k \in DOMAIN idx : idx[k] >= n THEN Err
           ELSE Ok(Spread(n, idx, vs), left)))

(* MetadataRef: segment, offset, length (and a checksum of the value).     *)
WriteMetadataRef(m) ==
  <<m[1]>> \o WriteUvarint(m[2]) \o WriteUvarint(m[3])
ReadMetadataRef(s) ==
  Then(ReadCell(s), LAMBDA seg, s1 : Then(ReadUvarint(s1), LAMBDA off, s2 :
    Then(ReadUvarint(s2), LAMBDA len, s3 : Ok(<<seg, off, len>>, s3))))

EncodeMetadataColumn(opts) == EncodeOptional(opts, WriteMetadataRef)
DecodeMetadataColumn(n, presence, values) ==
  DecodeOptional(n, presence, values, ReadMetadataRef)
EncodeIntegerColumn(opts) == EncodeOptional(opts, WriteUvarint)
DecodeIntegerColumn(n, presence, values) ==
  DecodeOptional(n, presence, values, ReadUvarint)

MetadataColumns == <<"uri", "title", "search_text", "metadata">>
IntegerColumns  == <<"parent", "chunk_index", "chunk_count">>

FrameCatalogRefused(rows) ==
  /\ rows # <<>>
  /\ LET created == Col(rows, LAMBDA r : r.created)
         updated == Col(rows, LAMBDA r : r.updated) IN
     \/ ~Ascending(Col(rows, LAMBDA r : r.id))
     \/ TimesRefused(created)
     \/ ~(Range(Offsets(created, updated)) \subseteq I64)

(* The columns every row has.                                              *)
FrameColumns(rows) ==
  LET created == Col(rows, LAMBDA r : r.created) IN
  <<EncodeIds(Col(rows, LAMBDA r : r.id)),
    EncodeRle(Col(rows, LAMBDA r : r.coll)),
    Discs(RoleDisc, rows, LAMBDA r : r.role),
    Discs(StatusDisc, rows, LAMBDA r : r.status),
    Discs(EncodingDisc, rows, LAMBDA r : r.encoding),
    EncodeTimes(created),
    Ivarints(Offsets(created, Col(rows, LAMBDA r : r.updated)))>>

OptionalFrameColumns(rows) ==
  LET refs == Col(rows, LAMBDA r : r.payload)
      idx == Presence(refs) IN
  <<EncodePresence(idx),
    EncodePayloadRefs([k \in DOMAIN idx |-> refs[idx[k] + 1][1]])>>
  \o FlattenSeq([j \in DOMAIN MetadataColumns |->
       EncodeMetadataColumn(Col(rows, LAMBDA r : r[MetadataColumns[j]]))])
  \o FlattenSeq([j \in DOMAIN IntegerColumns |->
       EncodeIntegerColumn(Col(rows, LAMBDA r : r[IntegerColumns[j]]))])

EncodeFrameCatalog(prev, rows) ==
  IF FrameCatalogRefused(rows) THEN Err
  ELSE LET cols == IF rows = <<>> THEN <<>>
                   ELSE FrameColumns(rows) \o OptionalFrameColumns(rows) IN
       Ok(<<"VLF2", Len(rows)>> \o WriteRef(prev) \o <<0>>
            \o FlattenSeq([i \in DOMAIN cols |-> WriteBlob(cols[i])]), <<>>)

(* decode_frame_catalog_previous_root: the chain is walked without the     *)
(* rows.                                                                   *)
FrameCatalogPrevious(s) ==
  Then(ReadMagic("VLF2", s), LAMBDA m, s1 : Then(ReadCount(s1), LAMBDA n, s2 :
    Then(ReadRef(s2), LAMBDA prev, s3 : Then(ReadCell(s3), LAMBDA pad, s4 :
      Ok([prev |-> prev, count |-> n], s4)))))

(* The rows of n frames from their 23 column blobs.  The frame_id,         *)
(* created_at, updated_at and payload_ref columns may have trailing cells. *)
ReadColumns(n, b) ==
  LET created == DecodeTimes(n, b[6]) IN
  <<DecodeIds(n, b[1]), DecodeRle(n, b[2]), DecodeDiscs(RoleDisc, n, b[3]),
    DecodeDiscs(StatusDisc, n, b[4]), DecodeDiscs(EncodingDisc, n, b[5]),
    created, Then(created, LAMBDA vs, left : DecodeUpdated(vs, b[7])),
    DecodePayloadRefs(n, b[8], b[9])>>
  \o [j \in 1..4 |-> DecodeMetadataColumn(n, b[8 + 2 * j], b[9 + 2 * j])]
  \o [j \in 1..3 |-> DecodeIntegerColumn(n, b[16 + 2 * j], b[17 + 2 * j])]

FrameFields == <<"id", "coll", "role", "status", "encoding", "created",
                 "updated", "payload", "uri", "title", "search_text",
                 "metadata", "parent", "chunk_index", "chunk_count">>

FrameRows(n, cols) ==
  IF \A j \in DOMAIN cols : cols[j].ok
  THEN Ok([i \in 1..n |->
             [f \in Range(FrameFields) |->
                cols[CHOOSE j \in DOMAIN FrameFields : FrameFields[j] = f].val[i]]],
          <<>>)
  ELSE Err
DecodeFrameColumns(n, b) == FrameRows(n, ReadColumns(n, b))

DecodeFrameCatalog(s) ==
  Then(FrameCatalogPrevious(s), LAMBDA h, rest :
    IF h.count = 0 THEN Ok([prev |-> h.prev, rows |-> <<>>], rest)
    ELSE Then(ReadMany(23, ReadBlob, rest), LAMBDA b, left :
           Then(DecodeFrameColumns(h.count, b), LAMBDA rows, none :
             Ok([prev |-> h.prev, rows |-> rows], left))))

-----------------------------------------------------------------------------
(* time_index_segment.rs: "VLTI", entries [id, coll, created, updated].    *)

(* Entries must be sorted by created_at, and the frame_id deltas are       *)
(* unsigned, so the frame ids must ascend along the same order.            *)
TimeIndexRefused(entries) ==
  LET created == Col(entries, LAMBDA e : e.created)
      updated == Col(entries, LAMBDA e : e.updated) IN
  \/ ~Ascending(created)
  \/ ~Ascending(Col(entries, LAMBDA e : e.id))
  \/ TimesRefused(created)
  \/ ~(Range(Offsets(created, updated)) \subseteq I64)

EncodeTimeIndex(prev, entries) ==
  IF TimeIndexRefused(entries) THEN Err
  ELSE LET created == Col(entries, LAMBDA e : e.created)
           cols == IF entries = <<>> THEN <<>>
                   ELSE <<EncodeIds(Col(entries, LAMBDA e : e.id)),
                          EncodeTimes(created),
                          Ivarints(Offsets(created,
                                       Col(entries, LAMBDA e : e.updated))),
                          EncodeRle(Col(entries, LAMBDA e : e.coll))>> IN
       Ok(<<"VLTI", 0, 0, Len(entries)>> \o WriteRef(prev)
            \o FlattenSeq([i \in DOMAIN cols |-> WriteBlob(cols[i])]), <<>>)

DecodeTimeColumns(n, b) ==
  LET ids == Whole(DecodeIds(n, b[1]))
      created == Whole(DecodeTimes(n, b[2]))
      updated == Then(created, LAMBDA vs, left : Whole(DecodeUpdated(vs, b[3])))
      coll == DecodeRle(n, b[4]) IN
  IF ids.ok /\ created.ok /\ updated.ok /\ coll.ok
  THEN Ok([i \in 1..n |->
            [id |-> ids.val[i], coll |-> coll.val[i],
             created |-> created.val[i], updated |-> updated.val[i]]], <<>>)
  ELSE Err

DecodeTimeIndex(s) ==
  Then(ReadMagic("VLTI", s), LAMBDA m, s1 :
    Then(ReadMany(3, ReadCell, s1), LAMBDA h, s2 :
      Then(ReadRef(s2), LAMBDA prev, s3 :
        IF h[1] \notin {0, 1} THEN Err
        ELSE IF h[3] = 0 THEN Whole(Ok(<<>>, s3))
        ELSE Then(Whole(ReadMany(4, ReadBlob, s3)), LAMBDA b, left :
               DecodeTimeColumns(h[3], b)))))

-----------------------------------------------------------------------------
(* collection_filter.rs: "VLCF", two strictly ascending id lists, each as  *)
(* gaps or as runs, whichever is shorter.                                  *)

EncodeSortedPostings(ids) ==
  IF ids = <<>> THEN <<>> ELSE Uvarints(Deltas(<<0>> \o ids))

(* The maximal runs of consecutive ids, as <<start, length>>.              *)
IdRuns(ids) ==
  FoldLeft(LAMBDA rs, id :
             IF rs # <<>> /\ Last(rs)[1] + Last(rs)[2] = id
             THEN [rs EXCEPT ![Len(rs)] = <<@[1], @[2] + 1>>]
             ELSE Append(rs, <<id, 1>>),
           <<>>, ids)

(* Mutant of EncodeRuns: the gap is counted from the start of the run      *)
(* before.                                                                 *)
EncodeRunsFromStart(ids) ==
  LET rs == IdRuns(ids)
      prev(k) == IF k = 1 THEN 0 ELSE rs[k - 1][1] IN
  <<Len(rs)>> \o FlattenSeq([k \in DOMAIN rs |->
    WriteUvarint(rs[k][1] - prev(k)) \o WriteUvarint(rs[k][2])])

EncodeRuns(ids) ==
  LET rs == IdRuns(ids)
      end(k) == IF k = 0 THEN 0 ELSE rs[k][1] + rs[k][2] IN
  <<Len(rs)>> \o FlattenSeq([k \in DOMAIN rs |->
    WriteUvarint(rs[k][1] - end(k - 1)) \o WriteUvarint(rs[k][2])])

(* Encoding number and body: runs only when strictly shorter.              *)
IdBlock(ids) ==
  LET postings == EncodeSortedPostings(ids)
      runs == EncodeRuns(ids) IN
  IF Len(runs) < Len(postings) THEN <<1, runs>> ELSE <<0, postings>>

EncodeCollectionFilter(prev, coll, frames, vectors) ==
  IF ~(StrictlyAscending(frames) /\ StrictlyAscending(vectors)) THEN Err
  ELSE LET f == IdBlock(frames)
           v == IdBlock(vectors) IN
       Ok(<<"VLCF", f[1] + 16 * v[1], coll, Len(frames), Len(vectors)>>
            \o WriteRef(prev) \o f[2] \o v[2], <<>>)

ReadIdRun(s) ==
  Then(ReadUvarint(s), LAMBDA gap, rest :
    Then(ReadUvarint(rest), LAMBDA len, left : Ok(<<gap, len>>, left)))
ExpandRuns(rs) ==
  LET next(ids, r, end) == ids \o [k \in 1..r[2] |-> end + r[1] + k - 1] IN
  FoldLeft(LAMBDA acc, r : [ids |-> next(acc.ids, r, acc.end),
                            end |-> acc.end + r[1] + r[2]],
           [ids |-> <<>>, end |-> 0], rs).ids
ReadIdBlock(encoding, n, s) ==
  CASE encoding = 0 ->
         Then(ReadMany(n, ReadUvarint, s), LAMBDA ds, left :
           Ok(Tail(RunningSums(0, ds)), left))
    [] encoding = 1 ->
         Then(ReadCell(s), LAMBDA count, rest :
           Then(ReadMany(count, ReadIdRun, rest), LAMBDA rs, left :
             LET ids == ExpandRuns(rs) IN
             IF Len(ids) = n THEN Ok(ids, left) ELSE Err))
    [] OTHER -> Err

DecodeCollectionFilter(s) ==
  Then(ReadMagic("VLCF", s), LAMBDA m, s1 :
    Then(ReadMany(4, ReadCell, s1), LAMBDA h, s2 :
      Then(ReadRef(s2), LAMBDA prev, s3 :
        Then(ReadIdBlock(h[1] % 16, h[3], s3), LAMBDA frames, s4 :
          Whole(Then(ReadIdBlock(h[1] \div 16, h[4], s4), LAMBDA vectors, s5 :
            Ok([coll |-> h[2], frames |-> frames, vectors |-> vectors],
               s5)))))))

-----------------------------------------------------------------------------
(* postings.rs: "VLTP".  A list is [term, df, postings], a posting         *)
(* [frame, coll, mask, tf].  DENSE_THRESHOLD is u32::MAX, so every list is *)
(* sparse.                                                                 *)

PostingsRefused(list) ==
  \/ ~StrictlyAscending(Col(list.postings, LAMBDA p : p.frame))
  \/ \E i \in DOMAIN list.postings : list.postings[i].tf = 0

(* encode_posting_blob: the gaps carry a flag for tf > 1, and only those   *)
(* frequencies follow.                                                     *)
EncodePostingBlob(list) ==
  LET ps == list.postings
      gaps == Deltas(<<0>> \o Col(ps, LAMBDA p : p.frame))
      flag(p) == IF p.tf > 1 THEN 1 ELSE 0 IN
  WriteUvarint(Len(ps))
    \o Uvarints([i \in DOMAIN ps |-> 2 * gaps[i] + flag(ps[i])])
    \o Uvarints(Col(SelectSeq(ps, LAMBDA p : p.tf > 1), LAMBDA p : p.tf))
    \o Uvarints(Col(ps, LAMBDA p : p.coll))
    \o Uvarints(Col(ps, LAMBDA p : p.mask))
    \o <<0>>

ReadPostingBlob(s) ==
  Then(ReadUvarint(s), LAMBDA n, s1 :
    Then(ReadMany(n, ReadUvarint, s1), LAMBDA packed, s2 :
      LET frames == Tail(RunningSums(0, Col(packed, LAMBDA p : p \div 2)))
          rows == SelectSeq([i \in 1..n |-> i], LAMBDA i : packed[i] % 2 = 1)
      IN
      Then(ReadMany(Len(rows), ReadUvarint, s2), LAMBDA tfs, s3 :
        Then(ReadMany(n, ReadUvarint, s3), LAMBDA colls, s4 :
          Then(ReadMany(n, ReadUvarint, s4), LAMBDA masks, s5 :
            Then(ReadCell(s5), LAMBDA positions, s6 :
              IF positions # 0 \/ \E k \in DOMAIN tfs : tfs[k] <= 1 THEN Err
              ELSE Ok([i \in 1..n |->
                        [frame |-> frames[i], coll |-> colls[i],
                         mask |-> masks[i],
                         tf |-> IF packed[i] % 2 = 0 THEN 1
                                ELSE tfs[CHOOSE k \in DOMAIN rows :
                                           rows[k] = i]]], s6)))))))

(* The blobs, then the directory: term, df, cf, offset and length of each. *)
EncodePostings(prev, lists) ==
  IF \E i \in DOMAIN lists : PostingsRefused(lists[i]) THEN Err
  ELSE LET blobs == [i \in DOMAIN lists |-> EncodePostingBlob(lists[i])]
           start(i) == Len(FlattenSeq(SubSeq(blobs, 1, i - 1)))
           cf(i) == FoldLeft(LAMBDA sum, p : sum + p.tf, 0, lists[i].postings)
       IN Ok(<<"VLTP">> \o WriteRef(prev) \o WriteBlob(FlattenSeq(blobs))
               \o <<Len(lists)>>
               \o FlattenSeq([i \in DOMAIN lists |->
                    <<lists[i].term, lists[i].df, cf(i), start(i),
                      Len(blobs[i])>>]), <<>>)

ReadDirectoryEntry(s) == ReadMany(5, ReadCell, s)

(* decode_postings_segment_directory: the lists stay encoded.              *)
DecodePostingsDirectory(s) ==
  Then(ReadMagic("VLTP", s), LAMBDA m, s1 : Then(ReadRef(s1), LAMBDA prev, s2 :
    Then(ReadBlob(s2), LAMBDA blob, s3 : Then(ReadCell(s3), LAMBDA n, s4 :
      Whole(Then(ReadMany(n, ReadDirectoryEntry, s4), LAMBDA es, s5 :
        IF \E i \in DOMAIN es : es[i][4] + es[i][5] > Len(blob) THEN Err
        ELSE Ok([prev |-> prev,
                 entries |-> [i \in DOMAIN es |->
                   [term |-> es[i][1], df |-> es[i][2], cf |-> es[i][3],
                    blob |-> SubSeq(blob, es[i][4] + 1, es[i][4] + es[i][5])]]],
                s5)))))))

(* decode_term_blob_into.                                                  *)
DecodeTermBlob(entry) == Whole(ReadPostingBlob(entry.blob))

-----------------------------------------------------------------------------
(* doc_stats.rs: "VLTS", records [frame, coll, lens, total, unique].       *)

(* Bits of the three widths of a field-length column, scaled as u64 is.    *)
WidthBits(w) == CASE w = 1 -> 1 [] w = 2 -> 2 [] w = 4 -> WordBits

(* The narrowest width that holds the largest length of the column.        *)
FieldWidth(lens) ==
  CHOOSE w \in {1, 2, 4} :
    /\ Max(Range(lens)) < 2^WidthBits(w)
    /\ \A v \in {1, 2, 4} : Max(Range(lens)) < 2^WidthBits(v) => w <= v
EncodeFieldColumn(lens) ==
  LET w == FieldWidth(lens) IN
  <<w>> \o [i \in DOMAIN lens |-> lens[i] % 2^WidthBits(w)]
ReadFieldColumn(n, s) ==
  Then(ReadCell(s), LAMBDA w, rest :
    IF w \in {1, 2, 4} THEN ReadMany(n, ReadCell, rest) ELSE Err)

FieldCount(records) == IF records = <<>> THEN 0 ELSE Len(records[1].lens)

EncodeDocStats(prev, records) ==
  LET fc == FieldCount(records)
      ids == Col(records, LAMBDA r : r.frame)
      cols == IF records = <<>> THEN <<>>
              ELSE <<EncodeIds(ids),
                     EncodeRle(Col(records, LAMBDA r : r.coll)),
                     FlattenSeq([f \in 1..fc |->
                       EncodeFieldColumn(Col(records, LAMBDA r : r.lens[f]))]),
                     Uvarints(Col(records, LAMBDA r : r.total)),
                     Uvarints(Col(records, LAMBDA r : r.unique))>> IN
  IF \/ \E i \in DOMAIN records : Len(records[i].lens) # fc
     \/ ~Ascending(ids)
  THEN Err
  ELSE Ok(<<"VLTS", Len(records), fc>> \o WriteRef(prev)
            \o FlattenSeq([i \in DOMAIN cols |-> WriteBlob(cols[i])]), <<>>)

DecodeDocColumns(n, fc, b) ==
  LET ids == Whole(DecodeIds(n, b[1]))
      coll == DecodeRle(n, b[2])
      lens == Whole(ReadMany(fc, LAMBDA s : ReadFieldColumn(n, s), b[3]))
      total == Whole(ReadMany(n, ReadUvarint, b[4]))
      unique == Whole(ReadMany(n, ReadUvarint, b[5])) IN
  IF ids.ok /\ coll.ok /\ lens.ok /\ total.ok /\ unique.ok
  THEN Ok([i \in 1..n |->
            [frame |-> ids.val[i], coll |-> coll.val[i],
             lens |-> [f \in 1..fc |-> lens.val[f][i]],
             total |-> total.val[i], unique |-> unique.val[i]]], <<>>)
  ELSE Err

DecodeDocStats(s) ==
  Then(ReadMagic("VLTS", s), LAMBDA m, s1 :
    Then(ReadMany(2, ReadCell, s1), LAMBDA h, s2 :
      Then(ReadRef(s2), LAMBDA prev, s3 :
        IF h[1] = 0 THEN Whole(Ok([prev |-> prev, rows |-> <<>>], s3))
        ELSE Then(Whole(ReadMany(5, ReadBlob, s3)), LAMBDA b, left :
               Then(DecodeDocColumns(h[1], h[2], b), LAMBDA rows, none :
                 Ok([prev |-> prev, rows |-> rows], none))))))

-----------------------------------------------------------------------------
(* term_dictionary.rs: "VLTD", records [term, bytes, cf, df].  The bytes   *)
(* of a term are one cell behind their length.                             *)

EncodeTermDictionary(prev, records) ==
  <<"VLTD", Len(records)>> \o WriteRef(prev)
    \o FlattenSeq([i \in DOMAIN records |->
         <<records[i].term>> \o WriteBlob(<<records[i].bytes>>)
           \o <<records[i].cf, records[i].df>>])

ReadTermRecord(s) ==
  Then(ReadCell(s), LAMBDA term, s1 : Then(ReadBlob(s1), LAMBDA bytes, s2 :
    Then(ReadMany(2, ReadCell, s2), LAMBDA c, s3 :
      Ok([term |-> term, bytes |-> bytes[1], cf |-> c[1], df |-> c[2]], s3))))

DecodeTermDictionary(s) ==
  Then(ReadMagic("VLTD", s), LAMBDA m, s1 : Then(ReadCount(s1), LAMBDA n, s2 :
    Then(ReadRef(s2), LAMBDA prev, s3 :
      Whole(Then(ReadMany(n, ReadTermRecord, s3), LAMBDA rows, left :
        Ok([prev |-> prev, rows |-> rows], left))))))

-----------------------------------------------------------------------------
(* catalog_codec.rs: "VLCC", a delta of any other table.  A record is one  *)
(* cell (bincode) behind an envelope that repeats its table.               *)

EncodeRecord(table, record) == <<table>> \o WriteBlob(<<record>>)
ReadRecord(table, s) ==
  Then(ReadCell(s), LAMBDA t, s1 : Then(ReadBlob(s1), LAMBDA b, s2 :
    IF t = table THEN Ok(b[1], s2) ELSE Err))

EncodeCatalogDelta(table, prev, records) ==
  <<"VLCC", table, Len(records)>>
    \o FlattenSeq([i \in DOMAIN records |-> EncodeRecord(table, records[i])])
    \o WriteBlob(WriteRef(prev))

(* decode_previous_root_suffix: a segment without the suffix has no        *)
(* previous root.                                                          *)
ReadPreviousSuffix(s) ==
  IF s = <<>> THEN Ok(<<>>, s)
  ELSE Whole(Then(ReadBlob(s), LAMBDA b, rest :
         Then(Whole(ReadRef(b)), LAMBDA prev, none : Ok(prev, rest))))

DecodeCatalogDelta(table, s) ==
  Then(ReadMagic("VLCC", s), LAMBDA m, s1 : Then(ReadMagic(table, s1),
    LAMBDA t, s2 : Then(ReadCount(s2), LAMBDA n, s3 :
      Then(ReadMany(n, LAMBDA r : ReadRecord(table, r), s3), LAMBDA rows, s4 :
        Then(ReadPreviousSuffix(s4), LAMBDA prev, left :
          Ok([prev |-> prev, rows |-> rows], left))))))

-----------------------------------------------------------------------------
(* Decoding inverts encoding, on every small input; a payload cut short is *)
(* refused.                                                                *)

(* Sequences of 1 to 3 elements.                                           *)
Short(S) == UNION {[1..n -> S] : n \in 1..3}
CutShort(s) == SubSeq(s, 1, Len(s) - 1)

VarintsInvert ==
  /\ \A v \in U64 : /\ ReadUvarint(WriteUvarint(v)) = Ok(v, <<>>)
                    /\ ~ReadUvarint(CutShort(WriteUvarint(v))).ok
  /\ \A v \in I64 : ReadIvarint(WriteIvarint(v)) = Ok(v, <<>>)

(* Both id lists, in whichever of their two forms is shorter.              *)
FiltersInvert ==
  \A S \in SUBSET (1..8) :
    LET list(T) == SelectSeq([k \in 1..8 |-> k], LAMBDA k : k \in T)
        e == EncodeCollectionFilter(<<>>, 1, list(S), list((1..8) \ S)) IN
    /\ DecodeCollectionFilter(e.val)
         = Ok([coll |-> 1, frames |-> list(S), vectors |-> list((1..8) \ S)],
              <<>>)
    /\ ~DecodeCollectionFilter(CutShort(e.val)).ok

(* Times at both ends of the range and gaps of more than one group.        *)
TimesInvert ==
  LET ends == {Min(I64), 0, Max(I64)} IN
  \A created \in Short(ends) : \A updated \in [DOMAIN created -> ends] :
    LET rows == [i \in DOMAIN created |->
                   [id |-> i * i * i, coll |-> i % 2, created |-> created[i],
                    updated |-> updated[i]]]
        e == EncodeTimeIndex(<<>>, rows) IN
    e.ok => /\ DecodeTimeIndex(e.val) = Ok(rows, <<>>)
            /\ ~DecodeTimeIndex(CutShort(e.val)).ok

TextInverts ==
  /\ \A lens \in Short({0, 1, 2, Max(I64)}) :
       LET rows == [i \in DOMAIN lens |->
                      [frame |-> i, coll |-> i % 2, lens |-> <<lens[i], i>>,
                       total |-> lens[i], unique |-> i]] IN
       DecodeDocStats(EncodeDocStats(<<3, 1>>, rows).val)
         = Ok([prev |-> <<3, 1>>, rows |-> rows], <<>>)
  /\ \A tfs \in Short({1, 2, Max(U64)}) :
       LET list == [term |-> 0, df |-> Len(tfs), postings |->
                      [i \in DOMAIN tfs |->
                         [frame |-> i * i * i, coll |-> 1, mask |-> 1,
                          tf |-> tfs[i]]]] IN
       DecodeTermBlob([blob |-> EncodePostingBlob(list)])
         = Ok(list.postings, <<>>)

(* Any row may lack any optional column, and references may go backwards.  *)
FramesInvert ==
  \A refs \in Short({<<>>, <<<<2, 9, 1>>>>, <<<<5, 0, 12>>>>}) :
    LET rows == [i \in DOMAIN refs |->
          [id |-> i, coll |-> 1, role |-> RoleDisc[i], encoding |-> "Zstd",
           status |-> IF i = 2 THEN "Tombstoned" ELSE "Active",
           created |-> 3 * i, updated |-> 0 - i, payload |-> refs[i],
           uri |-> refs[Len(refs)], title |-> <<>>, search_text |-> refs[i],
           metadata |-> refs[1], parent |-> IF i = 3 THEN <<1>> ELSE <<>>,
           chunk_index |-> <<i - 1>>, chunk_count |-> <<3>>]]
        e == EncodeFrameCatalog(<<7, 2>>, rows).val IN
    \A s \in {e, CutShort(e)} :
      DecodeFrameCatalog(s) =
        IF s = e THEN Ok([prev |-> <<7, 2>>, rows |-> rows], <<>>) ELSE Err
=============================================================================
