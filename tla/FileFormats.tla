---------------------------- MODULE FileFormats ----------------------------
(***************************************************************************)
(* What frames the payloads of SegmentCodecs: the file header, segment     *)
(* headers and the registry's entries about them, the footer, the creation *)
(* contract, vector-data segments and the parameters of vector codecs      *)
(* (src/src/format).                                                       *)
(*                                                                         *)
(* A structure of fixed layout is the record of its fields, so that one of *)
(* them can be changed on disk and the rest kept.  A digest (BLAKE3) is    *)
(* the value it was taken of: no two values have the same.                 *)
(***************************************************************************)
EXTENDS SegmentCodecs

Digest(x) == [digest |-> x]

PowerOfTwo(n) == \E e \in 0..16 : n = 2^e

-----------------------------------------------------------------------------
(* header.rs.                                                              *)

HeaderSize == 4
FormatVersion == <<2, 3>>

ValidHeader(hd) ==
  /\ hd.version = FormatVersion
  /\ hd.footer # 0 => hd.footer >= HeaderSize

(* The region for coordination is stamped when the file is created, and    *)
(* live afterwards.                                                        *)
EncodeHeader(hd) ==
  IF ~ValidHeader(hd) THEN Err
  ELSE Ok([magic |-> "VLS", version |-> hd.version, size |-> HeaderSize,
           uuid |-> hd.uuid, flags |-> hd.flags, footer |-> hd.footer,
           generation |-> hd.generation, features |-> hd.features,
           coordination |-> IF "coordination" \in hd.features THEN 1 ELSE 0,
           contract |-> IF "contract" \in hd.features THEN hd.contract
                        ELSE Digest(0)], <<>>)

DecodeHeader(b) ==
  LET hd == [version |-> b.version, uuid |-> b.uuid, flags |-> b.flags,
             footer |-> b.footer, generation |-> b.generation,
             features |-> b.features,
             contract |-> IF "contract" \in b.features THEN b.contract
                          ELSE Digest(0)] IN
  IF b.magic = "VLS" /\ b.size = HeaderSize /\ ValidHeader(hd)
  THEN Ok(hd, <<>>) ELSE Err

(* Mutant of WriteLogicalPrefix: the whole header is written.              *)
WriteWholeHeader(b, hd) == EncodeHeader(hd).val

(* write_logical_prefix, by which every commit rewrites the header: the    *)
(* bytes up to the feature bitmap.                                         *)
WriteLogicalPrefix(b, hd) ==
  [EncodeHeader(hd).val EXCEPT !.coordination = b.coordination,
                               !.contract = b.contract]

-----------------------------------------------------------------------------
(* segment.rs.                                                             *)

SegmentTypes ==
  << <<1, "Payload">>, <<2, "FrameCatalog">>, <<3, "CollectionCatalog">>,
     <<4, "TextSpaceCatalog">>, <<5, "AnalyzerCatalog">>,
     <<6, "FieldSchemaCatalog">>, <<7, "RetrievalProfileCatalog">>,
     <<8, "EmbeddingSpaceCatalog">>, <<9, "CodecCatalog">>,
     <<10, "VectorCatalog">>, <<12, "FusionProfileCatalog">>,
     <<16, "TermDictionary">>, <<17, "Postings">>, <<18, "Positions">>,
     <<19, "DocStats">>, <<20, "TokenSet">>, <<21, "MinHashSignature">>,
     <<22, "ForwardIndex">>, <<23, "RawText">>, <<24, "RawTextDictionary">>,
     <<25, "Metadata">>, <<32, "VectorData">>, <<34, "CollectionFilter">>,
     <<35, "CodecParams">>, <<48, "TimeIndex">>, <<254, "SegmentRegistry">>,
     <<255, "Extension">> >>
CodeOf(type) == (CHOOSE i \in DOMAIN SegmentTypes : SegmentTypes[i][2] = type)
SegmentCode(type) == SegmentTypes[CodeOf(type)][1]
SegmentTypeOf(code) ==
  IF \E i \in DOMAIN SegmentTypes : SegmentTypes[i][1] = code
  THEN Ok(SegmentTypes[CHOOSE i \in DOMAIN SegmentTypes :
                         SegmentTypes[i][1] = code][2], <<>>)
  ELSE Err

Compressions == <<"None", "Zstd", "Lz4">>

(* A compressed payload decompresses to one that repeats it; anything else *)
(* is no zstd frame.                                                       *)
Compress(p) == <<99>> \o p
Decompress(p) == IF p # <<>> /\ p[1] = 99 THEN Ok(Tail(p), <<>>) ELSE Err

NewSegmentHeader(type, id, items, compression, rawLength, payload) ==
  [version |-> 1, type |-> type, id |-> id, flags |-> 0, items |-> items,
   compression |-> compression, raw |-> rawLength, length |-> Len(payload),
   checksum |-> Digest(payload)]

ValidSegmentHeader(hd) == hd.compression = "None" => hd.raw = hd.length
ValidPayload(hd, payload) ==
  /\ ValidSegmentHeader(hd)
  /\ hd.length = Len(payload)
  /\ hd.checksum = Digest(payload)

EncodeSegmentHeader(hd) ==
  [hd EXCEPT !.type = SegmentCode(hd.type),
             !.compression = DiscOf(Compressions, hd.compression)]
    @@ [magic |-> "SEG", reserved |-> 0]

DecodeSegmentHeader(b) ==
  IF \/ b.magic # "SEG" \/ b.reserved # 0 \/ b.version # 1
     \/ ~SegmentTypeOf(b.type).ok
     \/ b.compression >= Len(Compressions)
  THEN Err
  ELSE LET hd == [version |-> b.version, type |-> SegmentTypeOf(b.type).val,
                  id |-> b.id, flags |-> b.flags, items |-> b.items,
                  compression |-> Compressions[b.compression + 1],
                  raw |-> b.raw, length |-> b.length,
                  checksum |-> b.checksum] IN
       IF ValidSegmentHeader(hd) THEN Ok(hd, <<>>) ELSE Err

SegmentHeaderSize == 3

(* What append_segment_at_end writes, and the reference it returns.        *)
WireSegment(hd, payload) ==
  [header |-> EncodeSegmentHeader(hd), payload |-> payload]
WireRef(hd, offset) ==
  [id |-> hd.id, offset |-> offset,
   length |-> SegmentHeaderSize + hd.length, checksum |-> hd.checksum]

(* Bytes of the payload that are there to read.                            *)
Available(seg, n) == n <= Len(seg.payload)

(* Mutant of ReadWire: the payload is taken without its checksum.          *)
ReadWireUnchecked(seg, ref, type) ==
  Then(DecodeSegmentHeader(seg.header), LAMBDA hd, rest :
    IF \/ hd.id # ref.id \/ hd.checksum # ref.checksum
       \/ ref.length # SegmentHeaderSize + hd.length
       \/ hd.type # type
       \/ ~Available(seg, hd.length)
    THEN Err ELSE Ok(SubSeq(seg.payload, 1, hd.length), <<>>))

(* read_segment: header, reference, type, payload, compression.            *)
ReadWire(seg, ref, type) ==
  Then(DecodeSegmentHeader(seg.header), LAMBDA hd, rest :
    IF \/ hd.id # ref.id \/ hd.checksum # ref.checksum
       \/ ref.length # SegmentHeaderSize + hd.length
       \/ hd.type # type
       \/ ~Available(seg, hd.length)
    THEN Err
    ELSE LET payload == SubSeq(seg.payload, 1, hd.length) IN
         IF ~ValidPayload(hd, payload) \/ hd.compression = "Lz4" THEN Err
         ELSE IF hd.compression = "None" THEN Ok(payload, <<>>)
         ELSE Then(Decompress(payload), LAMBDA raw, none :
                IF Len(raw) = hd.raw THEN Ok(raw, <<>>) ELSE Err))

(* mmap_segment_payload: the bytes are used where they lie, unhashed.      *)
MapWire(seg, ref, type) ==
  LET there == ref.length - SegmentHeaderSize IN
  IF there < 0 \/ ~Available(seg, there) THEN Err
  ELSE Then(DecodeSegmentHeader(seg.header), LAMBDA hd, rest :
         IF \/ hd.type # type \/ hd.id # ref.id
            \/ hd.checksum # ref.checksum \/ hd.length # there
         THEN Err ELSE Ok(SubSeq(seg.payload, 1, there), <<>>))

(* read_payload_ref: a range of a payload segment.  Its bytes are hashed   *)
(* the first time only (verified).                                         *)
ReadPayloadRange(seg, ref, off, len, verified) ==
  Then(DecodeSegmentHeader(seg.header), LAMBDA hd, rest :
    LET wire == SubSeq(seg.payload, 1, hd.length)
        hashed == hd.id \in verified \/ Digest(wire) = hd.checksum IN
    IF \/ hd.id # ref.id \/ hd.type # "Payload"
       \/ hd.checksum # ref.checksum
       \/ hd.length # ref.length - SegmentHeaderSize
       \/ ~Available(seg, hd.length)
       \/ hd.compression = "Lz4"
       \/ off + len > (IF hd.compression = "Zstd" THEN hd.raw ELSE hd.length)
       \/ ~hashed
    THEN Err
    ELSE IF hd.compression = "None" THEN Ok(SubSeq(wire, off + 1, off + len), <<>>)
    ELSE Then(Decompress(wire), LAMBDA raw, none :
           IF Len(raw) = hd.raw THEN Ok(SubSeq(raw, off + 1, off + len), <<>>)
           ELSE Err))

-----------------------------------------------------------------------------
(* registry.rs: the registry's entry about a segment, and id allocation.   *)

ValidEntry(e) ==
  /\ e.header.id # 0 /\ e.root.id = e.header.id
  /\ e.root.length = SegmentHeaderSize + e.header.length
  /\ ValidSegmentHeader(e.header)

(* SegmentCatalogEntry::new.  The entry repeats the header; the checksum   *)
(* is its root's.                                                          *)
MatchesHeader(e, hd) ==
  /\ ValidEntry(e)
  /\ [e.header EXCEPT !.checksum = e.root.checksum] = hd
CatalogEntry(root, hd) ==
  LET e == [header |-> hd, root |-> root, status |-> "Live"] IN
  IF MatchesHeader(e, hd) THEN Ok(e, <<>>) ELSE Err

(* take_u64: the id handed out, and the next one.                          *)
AllocateId(next) ==
  IF next = 0 \/ next + 1 \notin U64 THEN Err ELSE Ok(next, <<next + 1>>)

(* observe_u64.                                                            *)
ObserveId(next, id) ==
  IF id = 0 \/ id + 1 \notin U64 THEN Err
  ELSE Ok(IF next < id + 1 THEN id + 1 ELSE next, <<>>)

-----------------------------------------------------------------------------
(* toc.rs.                                                                 *)

(* Mutant of FooterChecksum: of the body alone.                            *)
BodyChecksum(generation, body) == Digest([generation |-> 0, body |-> body])

FooterChecksum(generation, body) ==
  Digest([generation |-> generation, body |-> body])

(* The body is [generation, content] and, encoded, the sequence of both.   *)
EncodeBody(body) == <<body.generation>> \o body.content
DecodeBody(s) == [generation |-> Head(s), content |-> Tail(s)]

TocHeaderLen == 5
EncodeFooter(body) ==
  LET s == EncodeBody(body) IN
  [magic |-> "TOC", version |-> 1, head |-> TocHeaderLen,
   generation |-> body.generation, length |-> Len(s),
   bodySum |-> Digest(s), sum |-> FooterChecksum(body.generation, s),
   body |-> s]

(* encoded_len_from_header.                                                *)
FooterLength(b) ==
  IF b.magic # "TOC" \/ b.version # 1 \/ b.head # TocHeaderLen THEN Err
  ELSE Ok(TocHeaderLen + b.length, <<>>)

(* decode, of a footer that is followed by whatever the file holds.        *)
DecodeFooter(b) ==
  Then(FooterLength(b), LAMBDA n, rest :
    IF Len(b.body) < b.length THEN Err
    ELSE LET s == SubSeq(b.body, 1, b.length) IN
         IF \/ b.bodySum # Digest(s)
            \/ b.sum # FooterChecksum(b.generation, s)
            \/ DecodeBody(s).generation # b.generation
         THEN Err ELSE Ok(DecodeBody(s), <<>>))

(* scan_for_footer_candidates: where the 3 cells of the magic begin, read  *)
(* in chunks; the last 2 cells of a chunk are searched with the next one.  *)
MagicAt(s, i, magic) ==
  i + Len(magic) - 1 <= Len(s) /\ SubSeq(s, i, i + Len(magic) - 1) = magic
MagicPlaces(s, magic) ==
  SelectSeq([i \in DOMAIN s |-> i], LAMBDA i : MagicAt(s, i, magic))
ScanChunks(s, magic, chunk) ==
  LET step(acc, k) ==
        LET here == SubSeq(s, acc.at + 1, Min({acc.at + chunk, Len(s)}))
            buf == acc.carry \o here
            base == acc.at - Len(acc.carry)
            hits == MagicPlaces(buf, magic)
            keep == Min({Len(buf), Len(magic) - 1}) IN
        IF acc.at >= Len(s) THEN acc
        ELSE [at |-> acc.at + Len(here),
              found |-> acc.found \o [i \in DOMAIN hits |-> base + hits[i]],
              carry |-> SubSeq(buf, Len(buf) - keep + 1, Len(buf))] IN
  FoldLeft(step, [at |-> 0, found |-> <<>>, carry |-> <<>>], s).found

-----------------------------------------------------------------------------
(* dtype.rs and create_contract.rs.  A DtypeSet is the set of its bits.    *)

Dtypes == {"F32", "F16", "BF16", "F8E4M3", "F8E5M2"}
IsF8(d) == d \in {"F8E4M3", "F8E5M2"}

MaxDimLimit == 65535
ValidContract(c) ==
  /\ c.schema = 1
  /\ c.maxDim \in 1..MaxDimLimit
  /\ c.dtypes \subseteq Dtypes /\ c.dtypes # {}
  /\ c.promote >= 1024 /\ c.promoteF8 >= c.promote

(* decode: only what an older binary could not have meant is refused.      *)
DecodeContract(c) ==
  IF c.schema = 1 /\ c.dtypes \subseteq Dtypes THEN Ok(c, <<>>) ELSE Err

-----------------------------------------------------------------------------
(* vector.rs: ids of the vectors, then their encodings, each width cells.  *)

VectorHeadLen == 7
EncodeVectorData(space, codec, width, ids, bases) ==
  IF \E i \in DOMAIN bases : Len(bases[i]) # width THEN Err
  ELSE Ok(<<"VLVD", space, codec, Len(ids), VectorHeadLen,
            VectorHeadLen + Len(ids), 0>>
            \o ids \o FlattenSeq(bases), <<>>)

(* Mutant of OpenVectorData: the length of the payload is not compared.    *)
OpenVectorDataAnyLength(s, width) ==
  IF Len(s) < VectorHeadLen \/ s[1] # "VLVD" THEN Err
  ELSE Ok([n |-> s[4], ids |-> s[5], bases |-> s[6], width |-> width,
           payload |-> s], <<>>)

OpenVectorData(s, width) ==
  IF \/ Len(s) < VectorHeadLen \/ s[1] # "VLVD" \/ s[7] # 0
     \/ s[5] # VectorHeadLen \/ s[6] # VectorHeadLen + s[4]
     \/ Len(s) # VectorHeadLen + s[4] + s[4] * width
  THEN Err
  ELSE Ok([n |-> s[4], ids |-> s[5], bases |-> s[6], width |-> width,
           payload |-> s], <<>>)

VectorIdAt(r, ord) ==
  IF ord >= r.n THEN Err ELSE Ok(r.payload[r.ids + ord + 1], <<>>)
VectorBaseAt(r, ord) ==
  IF ord >= r.n THEN Err
  ELSE Ok(SubSeq(r.payload, r.bases + ord * r.width + 1,
                 r.bases + (ord + 1) * r.width), <<>>)

-----------------------------------------------------------------------------
(* upq_params.rs and qam_lloyd_max_params.rs.                              *)

(* What both families check.  A sigma is positive; 0 stands for a value    *)
(* that is not finite.                                                     *)
ValidPairs(p) ==
  /\ p.dim > 0 /\ p.dim % 2 = 0 /\ p.pairs = p.dim \div 2
  /\ PowerOfTwo(p.block) /\ p.dim % p.block = 0
  /\ Len(p.sigma) = p.pairs
  /\ \A i \in DOMAIN p.sigma : p.sigma[i] > 0

QamBits == 1..8
ValidQam(p) == ValidPairs(p) /\ p.ampBits \in QamBits /\ p.phaseBits \in QamBits

(* U16 is scaled down with UpqCellsMax = 2^16.                             *)
UpqCellsMin == 8
UpqCellsMax == 64
U16 == 0 .. (UpqCellsMax - 1)
MinRingPhases == 4
ValidUpq(p) ==
  /\ ValidPairs(p)
  /\ PowerOfTwo(p.cells) /\ p.cells \in UpqCellsMin..UpqCellsMax
  /\ Len(p.radii) \in U16 /\ Len(p.radii) >= 2
  /\ Len(p.phases) = Len(p.radii)
  /\ p.radii[1] > 0 /\ StrictlyAscending(p.radii)
  /\ \A i \in DOMAIN p.phases :
       PowerOfTwo(p.phases[i]) /\ p.phases[i] \in MinRingPhases..p.cells
  /\ FoldLeft(+, 0, p.phases) <= p.cells
  /\ p.calibration # 0

(* Rings and phases are written as u16.                                    *)
EncodeUpqParams(p) ==
  IF ~ValidUpq(p) THEN Err
  ELSE LET u16(v) == v % UpqCellsMax IN
       Ok(<<"VLUP", p.dim, p.pairs, p.block, p.seed, p.cells,
            u16(Len(p.radii)), DiscOf(<<"Empirical", "Rayleigh">>, p.design),
            p.renorm>> \o p.radii
            \o [i \in DOMAIN p.phases |-> u16(p.phases[i])]
            \o WriteBlob(p.sigma) \o <<p.calibration>>, <<>>)

DecodeUpqParams(s) ==
  Then(ReadMagic("VLUP", s), LAMBDA m, s1 :
    Then(ReadMany(8, ReadCell, s1), LAMBDA b, s2 :
      Then(ReadMany(b[6], ReadCell, s2), LAMBDA radii, s3 :
        Then(ReadMany(b[6], ReadCell, s3), LAMBDA phases, s4 :
          Then(ReadBlob(s4), LAMBDA sigma, s5 :
            Whole(Then(ReadCell(s5), LAMBDA calibration, s6 :
              LET p == [dim |-> b[1], pairs |-> b[2], block |-> b[3],
                        seed |-> b[4], cells |-> b[5],
                        design |-> <<"Empirical", "Rayleigh">>[b[7] + 1],
                        renorm |-> b[8], radii |-> radii, phases |-> phases,
                        sigma |-> sigma, calibration |-> calibration] IN
              IF b[7] > 1 \/ b[8] > 1 \/ ~ValidUpq(p) THEN Err
              ELSE Ok(p, s6))))))))

EncodeQamParams(p) ==
  IF ~ValidQam(p) THEN Err
  ELSE Ok(<<"VLQL", p.dim, p.pairs, p.block, p.seed, p.ampBits, p.phaseBits,
            p.renorm, 0>> \o WriteBlob(p.sigma) \o <<p.calibration>>, <<>>)

DecodeQamParams(s) ==
  Then(ReadMagic("VLQL", s), LAMBDA m, s1 :
    Then(ReadMany(8, ReadCell, s1), LAMBDA b, s2 :
      Then(ReadBlob(s2), LAMBDA sigma, s3 :
        Whole(Then(ReadCell(s3), LAMBDA calibration, s4 :
          LET p == [dim |-> b[1], pairs |-> b[2], block |-> b[3],
                    seed |-> b[4], ampBits |-> b[5], phaseBits |-> b[6],
                    renorm |-> b[7], sigma |-> sigma,
                    calibration |-> calibration] IN
          IF b[7] > 1 \/ b[8] # 0 \/ ~ValidQam(p) THEN Err ELSE Ok(p, s4))))))

(* CodecParams.                                                            *)
EncodeParams(family, p) ==
  IF family = "Upq" THEN EncodeUpqParams(p) ELSE EncodeQamParams(p)
DecodeParams(family, s) ==
  CASE family = "Upq" -> DecodeUpqParams(s)
    [] family = "QamLloydMax" -> DecodeQamParams(s)
    [] OTHER -> Err

-----------------------------------------------------------------------------
(* What these formats promise, on small inputs.                            *)

(* A header reads back as written, an unknown version or a footer inside   *)
(* the header is refused, and the rewrite of a commit moves the footer and *)
(* the generation and nothing else.                                        *)
HeadersHold ==
  \A features \in SUBSET {"coordination", "contract"},
     footer \in 0..5, generation \in {0, 7}, version \in {<<2, 3>>, <<2, 2>>} :
    LET hd == [version |-> version, uuid |-> 5, flags |-> 0,
               footer |-> footer, generation |-> generation,
               features |-> features,
               contract |-> Digest(IF "contract" \in features THEN 1 ELSE 0)]
        e == EncodeHeader(hd)
        live == [e.val EXCEPT !.coordination = 9]
        later == [hd EXCEPT !.footer = 8, !.generation = @ + 1,
                            !.contract = Digest(0)] IN
    IF version # FormatVersion \/ footer \in 1..3 THEN ~e.ok
    ELSE /\ DecodeHeader(e.val) = Ok(hd, <<>>)
         /\ WriteLogicalPrefix(live, later) =
              [live EXCEPT !.footer = 8, !.generation = generation + 1]
         /\ ~DecodeHeader([e.val EXCEPT !.size = 3]).ok

(* The ways one field of a segment may have changed on disk.               *)
Damaged(seg) ==
  {[seg EXCEPT !.header[f] = (IF f = "checksum" THEN Digest(<<5>>)
                              ELSE IF f = "magic" THEN "BAD" ELSE @ + 1)] :
     f \in DOMAIN seg.header \ {"flags", "items"}}
  \cup {[seg EXCEPT !.payload[i] = @ + 1] : i \in DOMAIN seg.payload}
  \cup {[seg EXCEPT !.payload = CutShort(@)]}

(* What was written is read, by either reader, and none of the changes     *)
(* above gets past read_segment.  The registry accepts the entry of that   *)
(* very segment.                                                           *)
SegmentsGuarded ==
  \A type \in {"Payload", "VectorData"}, n \in 1..2,
     compression \in {"None", "Zstd"} :
    LET raw == [i \in 1..n |-> i]
        payload == IF compression = "Zstd" THEN Compress(raw) ELSE raw
        hd == NewSegmentHeader(type, 4, n, compression, n, payload)
        seg == WireSegment(hd, payload)
        ref == WireRef(hd, 12) IN
    /\ DecodeSegmentHeader(seg.header) = Ok(hd, <<>>)
    /\ ReadWire(seg, ref, type) = Ok(raw, <<>>)
    /\ compression = "None" => MapWire(seg, ref, type) = Ok(raw, <<>>)
    /\ CatalogEntry(ref, hd).ok
    /\ \A bad \in Damaged(seg) :
         /\ ~ReadWire(bad, ref, type).ok
         /\ bad.payload = payload => ~MapWire(bad, ref, type).ok
                                     \/ bad.header.compression # seg.header.compression
                                     \/ bad.header.raw # seg.header.raw
         /\ type = "Payload" => ~ReadPayloadRange(bad, ref, 0, n, {}).ok
    /\ type = "Payload" =>
         ReadPayloadRange(seg, ref, n - 1, 1, {}) = Ok(<<n>>, <<>>)

(* A footer reads back, whatever follows it, and with one field changed,   *)
(* cut short or under another generation it is refused; the chunked scan   *)
(* finds every footer once, also one that lies across two chunks.          *)
FootersHold ==
  /\ \A generation \in 0..2, content \in Short({0, 1}) :
       LET body == [generation |-> generation, content |-> content]
           b == EncodeFooter(body) IN
       /\ DecodeFooter(b) = Ok(body, <<>>)
       /\ DecodeFooter([b EXCEPT !.body = @ \o <<3>>]) = Ok(body, <<>>)
       /\ ~DecodeFooter([b EXCEPT !.body = CutShort(@)]).ok
       /\ ~DecodeFooter([b EXCEPT !.magic = "BAD"]).ok
       /\ \A f \in {"version", "head", "generation"} :
            ~DecodeFooter([b EXCEPT ![f] = @ + 1]).ok
       /\ ~DecodeFooter([b EXCEPT !.length = @ - 1]).ok
       /\ \A i \in DOMAIN b.body : ~DecodeFooter([b EXCEPT !.body[i] = @ + 1]).ok
  /\ \A s \in [1..7 -> {0, 1}], chunk \in 3..7 :
       ScanChunks(s, <<1, 0, 1>>, chunk) = MagicPlaces(s, <<1, 0, 1>>)

(* Every vector of a batch is read at its ordinal and no other, and a      *)
(* segment of another width or length is refused.                          *)
VectorDataHolds ==
  \A n \in 0..3, width \in 1..2 :
    LET ids == [i \in 1..n |-> 10 + i]
        bases == [i \in 1..n |-> [k \in 1..width |-> 10 * i + k]]
        e == EncodeVectorData(1, 2, width, ids, bases)
        r == OpenVectorData(e.val, width) IN
    /\ r.ok
    /\ \A i \in 1..n : /\ VectorIdAt(r.val, i - 1) = Ok(ids[i], <<>>)
                       /\ VectorBaseAt(r.val, i - 1) = Ok(bases[i], <<>>)
    /\ ~VectorIdAt(r.val, n).ok /\ ~VectorBaseAt(r.val, n).ok
    /\ ~OpenVectorData(CutShort(e.val), width).ok
    /\ n > 0 => ~OpenVectorData(e.val, width + 1).ok

UpqExample(cells, phases) ==
  [dim |-> 4, pairs |-> 2, block |-> 2, seed |-> 1, cells |-> cells,
   design |-> "Rayleigh", renorm |-> 1, radii |-> [i \in DOMAIN phases |-> i],
   phases |-> phases, sigma |-> <<1, 2>>, calibration |-> 6]
QamExample(dim, block) ==
  [dim |-> dim, pairs |-> dim \div 2, block |-> block, seed |-> 1,
   ampBits |-> 2, phaseBits |-> 1, renorm |-> 0,
   sigma |-> [i \in 1 .. dim \div 2 |-> 1], calibration |-> 0]

(* Parameters that are accepted are read back as they were: no phase count *)
(* is cut to 16 bits, even with as many cells as the format allows.        *)
ParamsInvert ==
  /\ \A cells \in {8, 16, 32, 64, 128}, phases \in Short({4, 8, 16, 32, 64}) :
       LET p == UpqExample(cells, phases)
           e == EncodeParams("Upq", p) IN
       e.ok => /\ DecodeParams("Upq", e.val) = Ok(p, <<>>)
               /\ ~DecodeParams("Upq", CutShort(e.val)).ok
  /\ \A dim \in 0..8, block \in 0..8 :
       LET p == QamExample(dim, block)
           e == EncodeParams("QamLloydMax", p) IN
       e.ok => /\ DecodeParams("QamLloydMax", e.val) = Ok(p, <<>>)
               /\ ~DecodeParams("QamLloydMax", CutShort(e.val)).ok
=============================================================================
