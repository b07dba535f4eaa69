----------------------------- MODULE Quantizers -----------------------------
(***************************************************************************)
(* The two families of vector codecs (src/src/codec): what a vector is     *)
(* encoded as, and the distances computed from its code alone.             *)
(*                                                                         *)
(* Numbers are exact.  A rotation block has 1 or 4 values, so that the     *)
(* 1/sqrt(block) of the Hadamard transform is 1 or 1/2; values and sigmas  *)
(* are even, so that no half arises.  Phases are multiples of a quarter    *)
(* turn (phase_bits = 2, rings of MIN_RING_PHASES), whose sines and        *)
(* cosines are whole.  A length is known by its square.  The codebooks are *)
(* parameters: how they are fitted is not modelled.  Rounding, and which   *)
(* of two equally near phases f32 picks, is left out.                      *)
(***************************************************************************)
EXTENDS FileFormats

(* A value that is no number.                                              *)
NotFinite == 999

Dot(a, b) == FoldLeft(+, 0, [i \in DOMAIN a |-> a[i] * b[i]])
Sq(a) == Dot(a, a)

-----------------------------------------------------------------------------
(* The rotation: random signs, then a Hadamard transform of every block.   *)

(* signs_from_seed: one bit of the generator's words for each value, in    *)
(* order.  A seed stands for the bits its generator yields.                *)
SignsFromBits(bits) == [i \in DOMAIN bits |-> IF bits[i] = 0 THEN 1 ELSE -1]
Signed(x, signs) == [i \in DOMAIN x |-> x[i] * signs[i]]

(* One pass of butterflies of width w over a block.                        *)
Butterfly(x, w) ==
  [i \in DOMAIN x |->
     IF ((i - 1) \div w) % 2 = 0 THEN x[i] + x[i + w] ELSE x[i - w] - x[i]]
Hadamard4(x) ==
  LET y == Butterfly(Butterfly(x, 1), 2) IN [i \in DOMAIN y |-> y[i] \div 2]
Blocks(x, block) ==
  IF block = 1 THEN x
  ELSE FlattenSeq([b \in 1 .. Len(x) \div block |->
         Hadamard4(SubSeq(x, (b - 1) * block + 1, b * block))])

RotationOk(x, signs, block) ==
  Len(x) = Len(signs) /\ PowerOfTwo(block) /\ Len(x) % block = 0
Forward(x, signs, block) ==
  IF RotationOk(x, signs, block) THEN Ok(Blocks(Signed(x, signs), block), <<>>)
  ELSE Err
Backward(y, signs, block) ==
  IF RotationOk(y, signs, block) THEN Ok(Signed(Blocks(y, block), signs), <<>>)
  ELSE Err

-----------------------------------------------------------------------------
(* Bit streams.                                                            *)

DivCeil(n, d) == (n + d - 1) \div d
PackedBytes(n, bits) == DivCeil(n * bits, 8)
StreamAlign == 4      \* 64 in the code
PaddedBytes(n, bits) == DivCeil(PackedBytes(n, bits), StreamAlign) * StreamAlign

(* pack_bits: values enter an accumulator from above, bytes leave below,   *)
(* and a last incomplete byte is written.  What remains of out is 0.       *)
PackBits(vs, bits, len) ==
  LET step(a, v) ==
        LET acc == a.acc + (v % 2^bits) * 2^a.n
            full == (a.n + bits) \div 8 IN
        [acc |-> acc \div 256^full, n |-> (a.n + bits) % 8,
         out |-> a.out \o [i \in 1..full |-> (acc \div 256^(i - 1)) % 256]]
      end == FoldLeft(step, [acc |-> 0, n |-> 0, out |-> <<>>], vs)
      out == IF end.n > 0 THEN Append(end.out, end.acc) ELSE end.out IN
  [i \in 1..len |-> IF i <= Len(out) THEN out[i] ELSE 0]

(* unpack_bits, of at most 8 bits a value: a byte is taken when the        *)
(* accumulator holds too few.                                              *)
UnpackBits(bytes, bits, count) ==
  LET step(a, i) ==
        LET need == a.n < bits
            acc == IF need THEN a.acc + bytes[a.at] * 2^a.n ELSE a.acc IN
        [acc |-> acc \div 2^bits, n |-> IF need THEN a.n + 8 - bits ELSE a.n - bits,
         at |-> IF need THEN a.at + 1 ELSE a.at,
         out |-> Append(a.out, acc % 2^bits)] IN
  FoldLeft(step, [acc |-> 0, n |-> 0, at |-> 1, out |-> <<>>],
           [i \in 1..count |-> i]).out

(* The field of w bits number i of a stream whose groups of 8 fields fill  *)
(* w bytes: what the sliding kernels read with one load for each group.    *)
FieldOf(bytes, group, i, w) ==
  LET bit == i * w
      at(j) == IF j <= Len(bytes) THEN bytes[j] ELSE 0
      byte == group * w + bit \div 8 + 1 IN
  ((at(byte) + 256 * at(byte + 1)) \div 2^(bit % 8)) % 2^w

(* pack11, extract11 and packed11_stride.                                  *)
Packed11Len(n) == DivCeil(n * 11, 8)
Packed11Stride(n) == DivCeil(Packed11Len(n) + 4, 16) * 16
Pack11(codes, len) ==
  FoldLeft(LAMBDA out, k :
      LET bit == (k - 1) * 11
          byte == bit \div 8 + 1
          v == codes[k] * 2^(bit % 8)
          or(b, x) == b + x     \* the codes share no bit
      IN [j \in DOMAIN out |->
            CASE j = byte -> or(out[j], v % 256)
              [] j = byte + 1 -> or(out[j], (v \div 256) % 256)
              [] j = byte + 2 /\ bit % 8 > 5 -> or(out[j], v \div 65536)
              [] OTHER -> out[j]],
    [j \in 1..len |-> 0], [k \in DOMAIN codes |-> k])
(* The load takes 4 bytes, of which the shift and the mask use 3.          *)
Extract11(bytes, k) ==
  LET bit == k * 11
      byte == bit \div 8 + 1 IN
  ((bytes[byte] + 256 * bytes[byte + 1] + 65536 * bytes[byte + 2])
     \div 2^(bit % 8)) % 2048
ExtractEnd(k) == (k * 11) \div 8 + 4

-----------------------------------------------------------------------------
(* A pair of values as amplitude and phase.                                *)

(* atan2 in quarter turns, rounded half away from 0.                       *)
Quarter(re, im) ==
  LET steep == (IF im < 0 THEN -im ELSE im) >= (IF re < 0 THEN -re ELSE re) IN
  CASE im = 0 /\ re >= 0 -> 0
    [] im = 0 /\ re < 0 -> 2
    [] steep /\ im > 0 -> IF im = -re THEN 2 ELSE 1
    [] steep /\ im < 0 -> IF im = re THEN -2 ELSE -1
    [] OTHER -> IF re > 0 THEN 0 ELSE IF im > 0 THEN 2 ELSE -2
PhaseIndex(re, im) == Quarter(re, im) % 4
Cos == <<1, 0, -1, 0>>
Sin == <<0, 1, 0, -1>>

(* amp_index: the binary search over the boundaries, compared by squares:  *)
(* boundary <= amplitude / sigma.                                          *)
SearchBin(bounds, amp2, sigma, first, last) ==
  LET bin[lo \in Nat, hi \in Nat] ==
        IF lo >= hi THEN lo - 1
        ELSE LET mid == (lo + hi) \div 2
                 b == bounds[mid + 1] * sigma IN
             IF b * b <= amp2 THEN bin[mid + 1, hi] ELSE bin[lo, mid] IN
  bin[first, last]
AmpIndex(bounds, amp2, sigma) ==
  LET n == Len(bounds) - 1
      top == bounds[n + 1] * sigma IN
  CASE amp2 = 0 -> 0
    [] top * top <= amp2 -> n - 1
    [] OTHER -> LET i == SearchBin(bounds, amp2, sigma, 1, n) IN
                IF i < n - 1 THEN i ELSE n - 1

-----------------------------------------------------------------------------
(* QamLloydMaxCodec: [dim, block, ampBits, phaseBits, renorm, sigma, signs, *)
(* levels, bounds]; phaseBits is 2 but for the sliding engine.             *)

DefaultBlock == 4     \* 1024 in the code
(* for_calibration_with_bits: 1 << trailing_zeros, at most the default.    *)
CalibrationBlock(dim) ==
  LET low == Max({2^e : e \in {d \in 0..6 : dim % 2^d = 0}}) IN
  IF low < DefaultBlock THEN low ELSE DefaultBlock

(* with_config.                                                            *)
WithConfigOk(dim, block, ampBits, phaseBits) ==
  /\ dim > 0 /\ dim % 2 = 0
  /\ PowerOfTwo(block) /\ dim % block = 0
  /\ ampBits \in QamBits /\ phaseBits \in QamBits
(* from_validated checks what the parameters say of the pairs.             *)
FromValidatedOk(p) ==
  /\ p.pairs * 2 = p.dim /\ Len(p.sigma) = p.pairs
  /\ \A i \in DOMAIN p.sigma : p.sigma[i] > 0
ToQamParams(dim, block, ampBits, phaseBits, sigma) ==
  [dim |-> dim, pairs |-> dim \div 2, block |-> block, seed |-> 1,
   ampBits |-> ampBits, phaseBits |-> phaseBits, renorm |-> 1,
   sigma |-> sigma, calibration |-> 0]

Pairs(c) == c.dim \div 2
AmpBytes(c) == PaddedBytes(Pairs(c), c.ampBits)
PhaseBytes(c) == PaddedBytes(Pairs(c), c.phaseBits)
BaseBytes(c) == AmpBytes(c) + PhaseBytes(c)

Usable(c, x) == Len(x) = c.dim /\ \A i \in DOMAIN x : x[i] # NotFinite

EncodePairs(c, x) ==
  LET amp(k) == AmpIndex(c.bounds, x[2 * k - 1] * x[2 * k - 1] + x[2 * k] * x[2 * k],
                         c.sigma[k])
      phase(k) == PhaseIndex(x[2 * k - 1], x[2 * k]) IN
  PackBits([k \in 1..Pairs(c) |-> amp(k)], c.ampBits, AmpBytes(c))
    \o PackBits([k \in 1..Pairs(c) |-> phase(k)], 2, PhaseBytes(c))
Encode(c, x) ==
  IF ~Usable(c, x) THEN Err
  ELSE Then(Forward(x, c.signs, c.block), LAMBDA r, rest :
         Ok(EncodePairs(c, r), <<>>))

Amps(c, base) == UnpackBits(SubSeq(base, 1, AmpBytes(c)), c.ampBits, Pairs(c))
Phases(c, base) ==
  UnpackBits(SubSeq(base, AmpBytes(c) + 1, BaseBytes(c)), 2, Pairs(c))

(* The rotated vector that a code stands for.                              *)
Rotated(c, amps, phases) ==
  [i \in 1..c.dim |->
     LET k == (i + 1) \div 2
         turn == phases[k] + 1 IN
     c.levels[amps[k] + 1] * c.sigma[k] * (IF i % 2 = 1 THEN Cos[turn] ELSE Sin[turn])]
RotatedOf(c, base) == Rotated(c, Amps(c, base), Phases(c, base))

(* decode_lossy.  A vector that was renormalized is [x, over], x divided   *)
(* by the root of over.                                                    *)
Scaled(c, x) == [x |-> x, over |-> IF c.renorm /\ Sq(x) > 0 THEN Sq(x) ELSE 1]
DecodeLossy(c, base) ==
  IF Len(base) # BaseBytes(c) THEN Err
  ELSE Then(Backward(RotatedOf(c, base), c.signs, c.block), LAMBDA x, rest :
         Ok(Scaled(c, x), <<>>))

(* sign_sketch reads the phases alone.                                     *)
SignSketch(c, base) ==
  LET phases == Phases(c, base) IN
  [i \in 1..c.dim |-> LET turn == phases[(i + 1) \div 2] + 1 IN
                      (IF i % 2 = 1 THEN Cos[turn] ELSE Sin[turn]) >= 0]

-----------------------------------------------------------------------------
(* Distances.  [a, b, c] is the number a + b / sqrt(c).                    *)

Number(a, b, c) == [a |-> a, b |-> b, c |-> IF c = 0 THEN 1 ELSE c]
Same(v, w) ==
  /\ v.a = w.a
  /\ v.b * v.b * w.c = w.b * w.b * v.c
  /\ (v.b > 0) = (w.b > 0) /\ (v.b < 0) = (w.b < 0)

(* The distance of a vector of square length q2 from one of y2 that is     *)
(* renormalized or not.                                                    *)
AsymmetricParts(renorm, dot, q2, y2, metric) ==
  CASE metric = "Cosine" -> Number(1, -dot, q2 * y2)
    [] metric = "InnerProduct" -> Number(0, -dot, IF renorm THEN y2 ELSE 1)
    [] metric = "L2" -> IF renorm THEN Number(q2 + 1, -2 * dot, y2)
                        ELSE Number(q2 + y2, -2 * dot, 1)

(* prepare_query_rotated and asymmetric_distance_with_rotated_scratch (and *)
(* _prepared_blob, which carries the query as bytes): the dot product is   *)
(* taken in the rotated domain.                                            *)
AsymmetricDistance(c, q, base, metric) ==
  IF ~Usable(c, q) \/ Len(base) # BaseBytes(c) THEN Err
  ELSE Then(Forward(q, c.signs, c.block), LAMBDA r, rest :
         LET y == RotatedOf(c, base) IN
         Ok(AsymmetricParts(c.renorm, Dot(r, y), Sq(r), Sq(y), metric), <<>>))

(* prepare_query_blob, with the norm as its last number, and               *)
(* asymmetric_distance_prepared_blob.                                      *)
QueryBlob(c, q) ==
  IF ~Usable(c, q) THEN Err
  ELSE Then(Forward(q, c.signs, c.block), LAMBDA r, rest :
         Ok(Append(r, Sq(r)), <<>>))
BlobDistance(c, blob, base, metric) ==
  IF Len(blob) # c.dim + 1 \/ Len(base) # BaseBytes(c) THEN Err
  ELSE LET y == RotatedOf(c, base) IN
       Ok(AsymmetricParts(c.renorm, Dot(SubSeq(blob, 1, c.dim), y),
                          blob[c.dim + 1], Sq(y), metric), <<>>)

(* symmetric_distance; dot products of pairs from amplitudes and the       *)
(* cosine of the phase difference.                                         *)
SymmetricDistance(c, one, two, metric) ==
  LET pa == Phases(c, one)
      pb == Phases(c, two)
      la == [k \in 1..Pairs(c) |-> c.levels[Amps(c, one)[k] + 1] * c.sigma[k]]
      lb == [k \in 1..Pairs(c) |-> c.levels[Amps(c, two)[k] + 1] * c.sigma[k]]
      turn(k) == Cos[pa[k] + 1] * Cos[pb[k] + 1] + Sin[pa[k] + 1] * Sin[pb[k] + 1]
      dot == FoldLeft(+, 0, [k \in 1..Pairs(c) |-> la[k] * lb[k] * turn(k)]) IN
  IF Len(one) # BaseBytes(c) \/ Len(two) # BaseBytes(c) THEN Err
  ELSE Ok(CASE metric = "Cosine" -> Number(1, -dot, Sq(la) * Sq(lb))
            [] metric = "InnerProduct" ->
                 Number(0, -dot, IF c.renorm THEN Sq(la) * Sq(lb) ELSE 1)
            [] metric = "L2" ->
                 IF c.renorm THEN Number(2, -2 * dot, Sq(la) * Sq(lb))
                 ELSE Number(Sq(la) + Sq(lb), -2 * dot, 1), <<>>)

-----------------------------------------------------------------------------
(* QamSlidingEngine, of 5 and 6 bits: integer tables, groups of 8 pairs.   *)

(* qr * c + qi * s, narrowed to i8, times the amplitude.                   *)
Clamp(v, lo, hi) == IF v < lo THEN lo ELSE IF v > hi THEN hi ELSE v
PairTerm(t, q, k, ai, pi) ==
  LET ip == q[2 * k + 1] * t.cos[pi + 1] + q[2 * k + 2] * t.sin[pi + 1] IN
  Clamp((ip + 64) \div 128, -128, 127) * t.amp[ai + 1]

GroupDot(t, q, amps, phases, group, upto) ==
  FoldLeft(+, 0, [i \in 1..upto |->
    PairTerm(t, q, group * 8 + i - 1, FieldOf(amps, group, i - 1, 5),
             FieldOf(phases, group, i - 1, 6))])

(* Values as i8, the largest as 127; rounding is half away from 0.         *)
Abs(v) == IF v < 0 THEN -v ELSE v
RoundDiv(n, d) ==
  LET r == (2 * Abs(n) + d) \div (2 * d) IN IF n < 0 THEN -r ELSE r
QuantizeI8(x) ==
  LET top == Max({Abs(x[i]) : i \in DOMAIN x}) IN
  [i \in DOMAIN x |->
     IF top = 0 THEN 0 ELSE Clamp(RoundDiv(127 * x[i], top), -127, 127)]

(* from_codec: the tables of amplitudes, and of cosines or sines n / d.    *)
AmpTable(levels) ==
  [i \in DOMAIN levels |->
     Clamp(RoundDiv(127 * levels[i], Max(Range(levels))), 0, 127)]
TurnTable(ns, d) == [i \in DOMAIN ns |-> Clamp(RoundDiv(63 * ns[i], d), -63, 63)]

(* prepare_query: the rotated query, each pair times its sigma.            *)
SlidingQuery(c, q) ==
  IF ~Usable(c, q) THEN Err
  ELSE Then(Forward(q, c.signs, c.block), LAMBDA r, rest :
         Ok(QuantizeI8([i \in DOMAIN r |-> r[i] * c.sigma[(i + 1) \div 2]]), <<>>))

(* Mutant of RawDotInt: the pairs after the last whole group are skipped.  *)
RawDotWholeGroups(t, q, amps, phases, pairs) ==
  FoldLeft(+, 0, [g \in 1 .. pairs \div 8 |-> GroupDot(t, q, amps, phases, g - 1, 8)])

(* raw_dot_int: the kernel's whole groups and the tail.                    *)
RawDotInt(t, q, amps, phases, pairs) ==
  FoldLeft(+, 0, [g \in 1 .. pairs \div 8 |-> GroupDot(t, q, amps, phases, g - 1, 8)])
    + IF pairs % 8 = 0 THEN 0
      ELSE GroupDot(t, q, amps, phases, pairs \div 8, pairs % 8)

(* y_hat_norm, squared.                                                    *)
GroupNorm(levels, sigma, amps, group, upto) ==
  FoldLeft(+, 0, [i \in 1..upto |->
    LET v == sigma[group * 8 + i] * levels[FieldOf(amps, group, i - 1, 5) + 1] IN
    v * v])
YHatNorm(levels, sigma, amps, pairs) ==
  FoldLeft(+, 0, [g \in 1 .. pairs \div 8 |-> GroupNorm(levels, sigma, amps, g - 1, 8)])
    + IF pairs % 8 = 0 THEN 0
      ELSE GroupNorm(levels, sigma, amps, pairs \div 8, pairs % 8)

(* asymmetric_distance of a prepared query, up to its scale: the metric is *)
(* not looked at.                                                          *)
SlidingDistance(c, t, q, base, metric) ==
  IF Len(base) # BaseBytes(c) THEN Err
  ELSE LET amps == SubSeq(base, 1, AmpBytes(c))
           phases == SubSeq(base, AmpBytes(c) + 1, BaseBytes(c)) IN
       Ok(Number(0, -RawDotInt(t, q, amps, phases, Pairs(c)),
                 YHatNorm(c.levels, c.sigma, amps, Pairs(c))), <<>>)

-----------------------------------------------------------------------------
(* UpqCodec: rings of phases, numbered through as cells.                   *)

UpqWireCells == 32     \* UPQ_WIRE_MAX_CELLS, 2^11 of UpqCellsMax = 2^16

(* validate_dims, then from_params: the parameters must fit the packing.   *)
ValidDims(dim, block, cells) ==
  /\ dim > 0 /\ dim % 2 = 0
  /\ PowerOfTwo(block) /\ dim % block = 0
  /\ cells <= UpqWireCells
Instantiable(family, p) ==
  IF family = "Upq" THEN ValidUpq(p) /\ ValidDims(p.dim, p.block, p.cells)
  ELSE FromValidatedOk(p)

(* default_block_size_for.                                                 *)
DefaultBlockFor(dim) ==
  LET grow[block \in Nat] ==
        IF block * 2 <= DefaultBlock /\ dim % (block * 2) = 0
        THEN grow[block * 2] ELSE block IN
  grow[1]

(* alloc_pow2: every ring starts with 4 phases, and the ring that gains    *)
(* most (the first of equals) is doubled while one fits.                   *)
AllocPow2(weights, cells) ==
  LET alloc[phases \in [DOMAIN weights -> Nat]] ==
        LET budget == cells - FoldLeft(+, 0, phases)
            fits == {i \in DOMAIN phases : phases[i] <= budget}
            gain(i, j) == weights[i] * phases[j] * phases[j]
                            > weights[j] * phases[i] * phases[i]
            best == CHOOSE i \in fits :
                      \A j \in fits : ~gain(j, i) /\ (gain(i, j) \/ i <= j) IN
        IF budget <= 0 \/ fits = {} THEN phases
        ELSE alloc[[phases EXCEPT ![best] = 2 * @]] IN
  alloc[[i \in DOMAIN weights |-> MinRingPhases]]

RingBases(phases) ==
  [i \in DOMAIN phases |-> FoldLeft(+, 0, SubSeq(phases, 1, i - 1))]

(* ring_cost and ring_cut_boundaries, for coefficients c / 12; a boundary  *)
(* is <<p, q>>, q > 0, or Never.                                           *)
Never == <<1, 0>>
RingCost(a, r, c) == 12 * (a - r) * (a - r) + a * r * c
CutBetween(radii, coeffs, i) ==
  LET den == 24 * (radii[i + 1] - radii[i]) + radii[i] * coeffs[i]
               - radii[i + 1] * coeffs[i + 1] IN
  IF den > 0 THEN <<12 * (radii[i + 1] * radii[i + 1] - radii[i] * radii[i]), den>>
  ELSE Never
Below(b, c) == b[1] * c[2] < c[1] * b[2]
RingCutBoundaries(radii, coeffs) ==
  FoldLeft(LAMBDA out, i :
      LET b == CutBetween(radii, coeffs, i) IN
      Append(out, IF out # <<>> /\ Below(b, Last(out)) THEN Last(out) ELSE b),
    <<>>, [i \in 1 .. Len(radii) - 1 |-> i])

(* encode_pair: the ring by partition_point on the amplitude, the phase by *)
(* rounding, and the cell they number.                                     *)
RingOf(bounds, amp2, sigma) ==
  Cardinality({i \in DOMAIN bounds :
    bounds[i][1] * bounds[i][1] * sigma * sigma
      < amp2 * bounds[i][2] * bounds[i][2]}) + 1
EncodePair(phases, ring, turn) ==
  RingBases(phases)[ring] + (turn % phases[ring])

(* build_tables: the ring and the phase of every cell.                     *)
CellTable(phases) ==
  FlattenSeq([i \in DOMAIN phases |-> [m \in 1..phases[i] |-> <<i, m - 1>>]])

(* tangential_coeff, (2 pi / phases)^2 rounded down.                       *)
TangentialCoeff(phases) == 40 \div (phases * phases)

(* from_params and to_params.                                              *)
UpqFromParams(p) ==
  IF ~Instantiable("Upq", p) THEN Err
  ELSE Ok([dim |-> p.dim, block |-> p.block, seed |-> p.seed,
           renorm |-> p.renorm = 1, design |-> p.design, cells |-> p.cells,
           sigma |-> p.sigma, signs |-> SignsFromBits(p.seed),
           radii |-> p.radii, phases |-> p.phases,
           bounds |-> RingCutBoundaries(p.radii,
             [i \in DOMAIN p.phases |-> TangentialCoeff(p.phases[i])])], <<>>)
UpqToParams(c, calibration) ==
  [dim |-> c.dim, pairs |-> Pairs(c), block |-> c.block, seed |-> c.seed,
   cells |-> c.cells, design |-> c.design, renorm |-> IF c.renorm THEN 1 ELSE 0,
   radii |-> c.radii, phases |-> c.phases, sigma |-> c.sigma,
   calibration |-> calibration]

(* encode.                                                                 *)
UpqCells(c, x) ==
  [k \in 1..Pairs(c) |->
     EncodePair(c.phases,
       RingOf(c.bounds, x[2 * k - 1] * x[2 * k - 1] + x[2 * k] * x[2 * k], c.sigma[k]),
       Quarter(x[2 * k - 1], x[2 * k]))]
UpqEncode(c, x) ==
  IF Len(x) # c.dim THEN Err
  ELSE Then(Forward(x, c.signs, c.block), LAMBDA r, rest :
         Ok(Pack11(UpqCells(c, r), Packed11Stride(Pairs(c))), <<>>))

(* cell_at refuses a cell the design does not have.                        *)
UpqCodes(c, base) == [k \in 1..Pairs(c) |-> Extract11(base, k - 1)]
UpqReadable(c, base) ==
  /\ Len(base) >= Packed11Stride(Pairs(c))
  /\ \A k \in 1..Pairs(c) : UpqCodes(c, base)[k] < c.cells
UpqRotated(c, codes) ==
  LET cell(k) == CellTable(c.phases)[codes[k] + 1] IN
  [i \in 1..c.dim |->
     LET k == (i + 1) \div 2
         turn == cell(k)[2] + 1 IN
     c.radii[cell(k)[1]] * c.sigma[k] * (IF i % 2 = 1 THEN Cos[turn] ELSE Sin[turn])]
UpqDecodeLossy(c, base) ==
  IF ~UpqReadable(c, base) THEN Err
  ELSE Then(Backward(UpqRotated(c, UpqCodes(c, base)), c.signs, c.block),
            LAMBDA x, rest : Ok(Scaled(c, x), <<>>))
UpqSketch(c, base) ==
  LET y == UpqRotated(c, UpqCodes(c, base)) IN [i \in DOMAIN y |-> y[i] >= 0]

(* asymmetric_distance_prepared: distance_from_parts does not know whether *)
(* the codec renormalizes.                                                 *)
UpqDistance(c, q, base, metric) ==
  IF Len(q) # c.dim \/ ~UpqReadable(c, base) THEN Err
  ELSE Then(Forward(q, c.signs, c.block), LAMBDA r, rest :
         LET y == UpqRotated(c, UpqCodes(c, base)) IN
         Ok(AsymmetricParts(FALSE, Dot(r, y), Sq(r), Sq(y), metric), <<>>))

(* decode_dot_from_base, of a rotated query and its square length, and     *)
(* i8_row_from_base, by which the coarse pass ranks.                       *)
DecodeDot(c, base, r, q2) ==
  IF ~UpqReadable(c, base) THEN Err
  ELSE LET y == UpqRotated(c, UpqCodes(c, base)) IN
       Ok(Number(1, -Dot(r, y), q2 * Sq(y)), <<>>)
I8Row(c, base) ==
  IF ~UpqReadable(c, base) THEN Err
  ELSE Ok(QuantizeI8(UpqRotated(c, UpqCodes(c, base))), <<>>)

-----------------------------------------------------------------------------
(* What the codecs promise, on small inputs.                               *)

Seeds4 == {<<0, 0, 0, 0>>, <<0, 1, 1, 0>>}
Signs4 == {SignsFromBits(seed) : seed \in Seeds4}
Vectors4 == [1..4 -> {-4, 0, 2}]
Metrics == {"Cosine", "InnerProduct", "L2"}

(* The rotation keeps lengths and its inverse undoes it.                   *)
RotationInverts ==
  \A x \in Vectors4, signs \in Signs4, block \in {1, 4} :
    LET y == Forward(x, signs, block).val IN
    Sq(y) = Sq(x) /\ Backward(y, signs, block) = Ok(x, <<>>)

(* n values of so many bits, with every bit set somewhere.                 *)
Pattern(n, bits) == [i \in 1..n |-> (37 * i + 5) % 2^bits]
AllOnes(n, bits) == [i \in 1..n |-> 2^bits - 1]

(* What is packed is unpacked, by either reader, within the bytes that     *)
(* were reserved.                                                          *)
StreamsInvert ==
  /\ \A n \in 0..9, bits \in 1..8 :
       \A vs \in {Pattern(n, bits), AllOnes(n, bits)} :
         UnpackBits(PackBits(vs, bits, PackedBytes(n, bits)), bits, n) = vs
  /\ \A n \in {1, 7, 8, 9, 17}, w \in {5, 6} :
       LET bytes == PackBits(Pattern(n, w), w, PaddedBytes(n, w)) IN
       \A i \in 1..n :
         FieldOf(bytes, (i - 1) \div 8, (i - 1) % 8, w) = Pattern(n, w)[i]
  /\ \A n \in 1..9 : \A vs \in {Pattern(n, 11), AllOnes(n, 11)} :
       LET bytes == Pack11(vs, Packed11Stride(n)) IN
       /\ \A k \in 1..n : Extract11(bytes, k - 1) = vs[k]
       /\ ExtractEnd(n - 1) <= Packed11Stride(n)

(* The binary search finds the bin that a scan of the boundaries finds.    *)
AmpIndexRight ==
  \A amp2 \in 0..40, sigma \in 1..2 :
    LET bounds == <<0, 1, 2, 4, 5>>
        under == {i \in 1..4 : bounds[i] * bounds[i] * sigma * sigma <= amp2} IN
    AmpIndex(bounds, amp2, sigma) = Max(under) - 1

(* The distance by definition of q from the decoded vector d.              *)
Reference(q, d, metric) ==
  LET y2 == Sq(d.x)
      unit == d.over > 1 IN
  AsymmetricParts(unit /\ d.over = y2, Dot(q, d.x), Sq(q), y2, metric)

QamCodec(block, signs, renorm) ==
  [dim |-> 4, block |-> block, ampBits |-> 1, phaseBits |-> 2, renorm |-> renorm,
   sigma |-> <<2, 4>>, signs |-> signs, levels |-> <<1, 3>>,
   bounds |-> <<0, 2, 4>>]

(* A vector's code has the sketch of the vector it stands for, is found    *)
(* again when that vector is encoded, and its distances from a query, of   *)
(* any metric and computed without decoding, are those of that vector.     *)
QamExact ==
  \A block \in {1, 4}, signs \in Signs4, renorm \in BOOLEAN, x \in Vectors4 :
    \A c \in {QamCodec(block, signs, renorm)} :
    \A base \in {Encode(c, x).val} :
    \A d \in {DecodeLossy(c, base).val} :
      LET y == Forward(d.x, signs, block).val
          q == <<2, -4, 0, 2>> IN
      /\ Encode(c, d.x) = Ok(base, <<>>)
      /\ SignSketch(c, base) = [i \in 1..4 |-> y[i] >= 0]
      /\ \A m \in Metrics :
           /\ Same(AsymmetricDistance(c, q, base, m).val, Reference(q, d, m))
           /\ BlobDistance(c, QueryBlob(c, q).val, base, m)
                = AsymmetricDistance(c, q, base, m)
           /\ LET two == Encode(c, q).val
                  e == DecodeLossy(c, two).val IN
              Same(SymmetricDistance(c, base, two, m).val,
                   AsymmetricParts(renorm, Dot(d.x, e.x),
                                   IF renorm THEN 1 ELSE Sq(d.x),
                                   IF renorm THEN Sq(d.x) * Sq(e.x) ELSE Sq(e.x), m))
      /\ ~DecodeLossy(c, CutShort(base)).ok

(* Every even dimension can be calibrated, and what is then saved as       *)
(* parameters is accepted when the file is opened.                         *)
CalibrationAccepts ==
  \A dim \in 1..24 :
    LET block == CalibrationBlock(dim)
        sigma == [i \in 1 .. dim \div 2 |-> 1] IN
    IF dim % 2 = 1 THEN ~WithConfigOk(dim, block, 5, 6)
    ELSE /\ DefaultBlockFor(dim) = block
         /\ WithConfigOk(dim, block, 5, 6)
         /\ ValidQam(ToQamParams(dim, block, 5, 6, sigma))
         /\ Instantiable("QamLloydMax", ToQamParams(dim, block, 5, 6, sigma))

(* A product of i8 query and table fits i16 and is narrowed without        *)
(* saturating, so that no distance is cut off; and quantizing keeps order. *)
NarrowingFits ==
  /\ \A qr, qi \in {-127, -1, 0, 127}, c, s \in Range(TurnTable(<<-5, -1, 0, 4, 5>>, 5)) :
       /\ qr * c + qi * s + 64 \in -32768..32767
       /\ (qr * c + qi * s + 64) \div 128 \in -128..127
  /\ \A x \in Vectors4 :
       LET q == SlidingQuery([dim |-> 4, block |-> 1, signs |-> <<1, 1, 1, 1>>,
                              sigma |-> <<1, 3>>], x).val IN
       /\ \A i \in 1..4 : q[i] \in -127..127
       /\ \A i, j \in 1..2 : x[i] < x[j] => q[i] <= q[j]
       /\ x # <<0, 0, 0, 0>> => \E i \in 1..4 : Abs(q[i]) = 127
  /\ StrictlyAscending(AmpTable(<<2, 3, 7, 9>>))

(* The kernel's groups and the tail add up to the sum over all pairs, and  *)
(* so does the norm, also when the pairs fill no whole group.              *)
SlidingSumsAll ==
  LET t == [amp |-> AmpTable([i \in 1..32 |-> i]),
            cos |-> TurnTable([i \in 1..64 |-> ((i * 29) % 127) - 63], 63),
            sin |-> TurnTable([i \in 1..64 |-> ((i * 31) % 127) - 63], 63)] IN
  \A pairs \in {1, 7, 8, 9, 15, 16, 17} :
    LET ai == Pattern(pairs, 5)
        pi == Pattern(pairs, 6)
        q == [i \in 1 .. 2 * pairs |-> ((i * 83) % 255) - 127]
        sigma == [i \in 1..pairs |-> i]
        amps == PackBits(ai, 5, PaddedBytes(pairs, 5))
        phases == PackBits(pi, 6, PaddedBytes(pairs, 6)) IN
    /\ RawDotInt(t, q, amps, phases, pairs) =
         FoldLeft(+, 0, [k \in 1..pairs |-> PairTerm(t, q, k - 1, ai[k], pi[k])])
    /\ YHatNorm(t.amp, sigma, amps, pairs) =
         FoldLeft(+, 0, [k \in 1..pairs |->
           sigma[k] * t.amp[ai[k] + 1] * sigma[k] * t.amp[ai[k] + 1]])
    /\ \A m \in Metrics :
         SlidingDistance([dim |-> 2 * pairs, ampBits |-> 5, phaseBits |-> 6,
                          levels |-> t.amp, sigma |-> sigma], t, q, amps \o phases, m)
           = Ok(Number(0, -RawDotInt(t, q, amps, phases, pairs),
                       YHatNorm(t.amp, sigma, amps, pairs)), <<>>)

UpqParamsOf(block, seed, renorm) ==
  [dim |-> 4, pairs |-> 2, block |-> block, seed |-> seed, cells |-> 8,
   design |-> "Rayleigh", renorm |-> renorm, radii |-> <<1, 3>>,
   phases |-> <<4, 4>>, sigma |-> <<2, 4>>, calibration |-> 6]

(* The same of Upq, whose inner products and L2 distances are of the       *)
(* vector before decode_lossy renormalizes it.                             *)
UpqExact ==
  \A block \in {1, 4}, seed \in Seeds4, renorm \in {0, 1}, x \in Vectors4 :
    \A c \in {UpqFromParams(UpqParamsOf(block, seed, renorm)).val} :
    \A base \in {UpqEncode(c, x).val} :
    \A d \in {UpqDecodeLossy(c, base).val} :
      LET signs == c.signs
          y == Forward(d.x, signs, block).val
          q == <<2, -4, 0, 2>> IN
      /\ UpqToParams(c, 6) = UpqParamsOf(block, seed, renorm)
      /\ UpqEncode(c, d.x) = Ok(base, <<>>)
      /\ UpqSketch(c, base) = [i \in 1..4 |-> y[i] >= 0]
      /\ \A m \in Metrics :
           Same(UpqDistance(c, q, base, m).val,
                Reference(q, IF m = "Cosine" THEN d ELSE [d EXCEPT !.over = 1], m))
      /\ \A r \in {Forward(q, signs, block).val} :
           DecodeDot(c, base, r, Sq(r)) = UpqDistance(c, q, base, "Cosine")
      /\ \A i \in 1..4 : (I8Row(c, base).val[i] >= 0) = UpqSketch(c, base)[i]
      /\ ~UpqReadable(c, [base EXCEPT ![1] = 8])

(* An allocation spends no more cells than there are on powers of two, and *)
(* the ring by boundaries is the ring of least cost wherever the           *)
(* boundaries were not clamped.                                            *)
UpqDesigns ==
  /\ \A weights \in [1..3 -> {1, 5, 40}], cells \in {12, 16, 32} :
       LET phases == AllocPow2(weights, cells) IN
       /\ FoldLeft(+, 0, phases) <= cells
       /\ \A i \in DOMAIN phases : PowerOfTwo(phases[i]) /\ phases[i] >= MinRingPhases
       /\ Len(CellTable(phases)) <= cells
       /\ \A ring \in 1..3, turn \in -2..2 :
            LET cell == EncodePair(phases, ring, turn) IN
            CellTable(phases)[cell + 1] = <<ring, turn % phases[ring]>>
  /\ \A radii \in {<<1, 3, 4>>, <<2, 3, 9>>}, coeffs \in [1..3 -> {0, 2, 6}], a \in 0..12 :
       LET bounds == RingCutBoundaries(radii, coeffs)
           ring == RingOf(bounds, a * a, 1) IN
       (\A i \in 1..2 : bounds[i] = CutBetween(radii, coeffs, i)) =>
         \A r \in 1..3 : RingCost(a, radii[ring], coeffs[ring])
                           <= RingCost(a, radii[r], coeffs[r])
=============================================================================
