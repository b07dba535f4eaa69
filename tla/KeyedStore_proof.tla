-------------------------- MODULE KeyedStore_proof --------------------------
(***************************************************************************)
(* Proofs about KeyedStore for any keys, times, periods and bounds.        *)
(***************************************************************************)
EXTENDS KeyedStore, FiniteSetTheorems, SequenceTheorems, WellFoundedInduction, TLAPS

(***************************************************************************)
(* Lists renumbered by rank.                                               *)
(***************************************************************************)

(* Renumbering a finite set of ids by rank loses none and keeps the order. *)
LEMMA RankFacts ==
  ASSUME NEW S \in SUBSET Nat, IsFiniteSet(S)
  PROVE  /\ Cardinality(S) \in Nat
         /\ \A x \in S : Rank(S, x) \in 1..Cardinality(S)
         /\ \A x, y \in S : x < y => Rank(S, x) < Rank(S, y)
<1> DEFINE c == Cardinality(S)
           Low(x) == {y \in S : y <= x}
<1>1. c \in Nat
  BY FS_CardinalityType
<1>2. ASSUME NEW x \in S
      PROVE  /\ IsFiniteSet(Low(x)) /\ Cardinality(Low(x)) \in 1..c
  <2>1. Low(x) \in SUBSET S /\ x \in Low(x)
    OBVIOUS
  <2>2. IsFiniteSet(Low(x)) /\ Cardinality(Low(x)) <= c
    BY <2>1, FS_Subset
  <2>3. Cardinality(Low(x)) \in Nat /\ Cardinality(Low(x)) # 0
    BY <2>1, <2>2, FS_CardinalityType, FS_EmptySet
  <2> QED
    BY <1>1, <2>2, <2>3
<1>3. ASSUME NEW x \in S, NEW y \in S, x < y
      PROVE  Cardinality(Low(x)) < Cardinality(Low(y))
  <2>0. S \subseteq Nat
    OBVIOUS
  <2>4. ASSUME NEW z \in Low(x) PROVE z \in Low(y)
    <3>1. x \in Nat /\ y \in Nat /\ z \in Nat /\ z <= x
      BY <2>0
    <3>2. z <= y
      BY <1>3, <3>1
    <3> QED
      BY <3>2
  <2>1. Low(x) \in SUBSET Low(y)
    BY <2>4
  <2>3. y \in Low(y) /\ y \notin Low(x)
    BY <1>3, <2>0
  <2>2. Cardinality(Low(x)) <= Cardinality(Low(y)) /\ Cardinality(Low(x)) # Cardinality(Low(y))
    BY <2>1, <2>3, <1>2, FS_Subset
  <2> QED
    BY <1>1, <1>2, <2>2
<1> QED
  BY <1>1, <1>2, <1>3 DEF Rank

LEMMA NthFacts ==
  ASSUME NEW S \in SUBSET Nat, IsFiniteSet(S)
  PROVE  /\ \A n \in 1..Cardinality(S) : Nth(S, n) \in S /\ Rank(S, Nth(S, n)) = n
         /\ \A x \in S : Nth(S, Rank(S, x)) = x
<1> DEFINE c == Cardinality(S)
           r == [x \in S |-> Rank(S, x)]
<1>1. c \in Nat /\ \A x \in S : Rank(S, x) \in 1..c
  BY RankFacts
<1>2. \A x, y \in S : Rank(S, x) = Rank(S, y) => x = y
  <2> SUFFICES ASSUME NEW x \in S, NEW y \in S, x # y PROVE Rank(S, x) # Rank(S, y)
    OBVIOUS
  <2>1. x < y \/ y < x
    OBVIOUS
  <2> QED
    BY <2>1, <1>1, RankFacts
<1>3. r \in Injection(S, 1..c)
  BY <1>1, <1>2 DEF Injection, IsInjective
<1>4. IsFiniteSet(1..c) /\ Cardinality(1..c) = c
  BY <1>1, FS_Interval
<1>5. r \in Surjection(S, 1..c)
  BY <1>3, <1>4, FS_Injection
<1>6. \A n \in 1..c : \E x \in S : Rank(S, x) = n
  BY <1>5 DEF Surjection
<1>7. \A n \in 1..c : Nth(S, n) \in S /\ Rank(S, Nth(S, n)) = n
  BY <1>6 DEF Nth
<1> QED
  BY <1>1, <1>2, <1>7

(* A finite nonempty set of numbers has a greatest element.                *)
LEMMA MaxFacts ==
  ASSUME NEW S \in SUBSET Nat, IsFiniteSet(S), S # {}
  PROVE  Max(S) \in S /\ \A y \in S : y <= Max(S)
<1>1. Cardinality(S) \in 1..Cardinality(S)
  BY FS_CardinalityType, FS_EmptySet
<1> DEFINE m == Nth(S, Cardinality(S))
<1>2. m \in S /\ Rank(S, m) = Cardinality(S)
  BY <1>1, NthFacts
<1>3. ASSUME NEW y \in S PROVE y <= m
  <2>1. Rank(S, y) \in 1..Cardinality(S) /\ (m < y => Rank(S, m) < Rank(S, y))
    BY <1>2, RankFacts
  <2>2. Cardinality(S) \in Nat /\ y \in Nat /\ m \in Nat
    BY <1>2, RankFacts
  <2> HIDE DEF m
  <2> QED
    BY <1>2, <2>1, <2>2
<1> HIDE DEF m
<1> QED
  BY <1>2, <1>3 DEF Max

(* A function on 1..n is a sequence of length n.                           *)
LEMMA FnSeq ==
  ASSUME NEW T, NEW n \in Nat, NEW g \in [1..n -> T]
  PROVE  g \in Seq(T) /\ Len(g) = n /\ DOMAIN g = 1..n
<1>1. g \in Seq(T)
  BY IsASeq, \A i \in 1..n : g[i] \in T
<1> QED
  BY <1>1, LenProperties

(***************************************************************************)
(* The catalog and what the operations do to it.                           *)
(***************************************************************************)
FrameType ==
  [kind : {"record", "doc", "keyless"}, coll : Colls, key : Keys \cup Colls,
   val : Nat, ts : Nat, vec : BOOLEAN, active : BOOLEAN, stored : BOOLEAN]
VectorType ==
  [space : Nat, owner : Nat, val : Nat, active : BOOLEAN, stored : BOOLEAN]
EngineType ==
  [frames : Seq(FrameType), vectors : Seq(VectorType), spaces : Nat,
   colls : SUBSET Colls]

(* A record frame has a key; a vector belongs to a frame of the catalog,   *)
(* carries the value of the put that made that frame, and lies in a        *)
(* registered space.                                                       *)
EngineOK(e) ==
  /\ e \in EngineType
  /\ \A f \in DOMAIN e.frames : e.frames[f].kind = "record" => e.frames[f].key \in Keys
  /\ \A v \in DOMAIN e.vectors :
       /\ e.vectors[v].owner \in DOMAIN e.frames
       /\ e.vectors[v].space \in 1..e.spaces
       /\ e.vectors[v].val = e.frames[e.vectors[v].owner].val

(* d is e with rows added, the frames fs and the vectors vs tombstoned.    *)
Off(row) == [row EXCEPT !.active = FALSE]
Kept(e, d, fs, vs) ==
  /\ EngineOK(d)
  /\ \A g \in DOMAIN e.frames :
       /\ g \in DOMAIN d.frames
       /\ d.frames[g] = IF g \in fs THEN Off(e.frames[g]) ELSE e.frames[g]
  /\ \A v \in DOMAIN e.vectors :
       /\ v \in DOMAIN d.vectors
       /\ d.vectors[v] = IF v \in vs THEN Off(e.vectors[v]) ELSE e.vectors[v]
  /\ e.spaces <= d.spaces
  /\ e.colls \subseteq d.colls

LEMMA EngineFacts ==
  ASSUME NEW e, EngineOK(e)
  PROVE  /\ e.frames \in Seq(FrameType) /\ Len(e.frames) \in Nat
         /\ DOMAIN e.frames = 1..Len(e.frames)
         /\ e.vectors \in Seq(VectorType) /\ Len(e.vectors) \in Nat
         /\ DOMAIN e.vectors = 1..Len(e.vectors)
         /\ \A f \in DOMAIN e.frames : e.frames[f] \in FrameType
         /\ \A v \in DOMAIN e.vectors : e.vectors[v] \in VectorType
         /\ e.spaces \in Nat /\ e.colls \subseteq Colls
         /\ e = [frames |-> e.frames, vectors |-> e.vectors,
                 spaces |-> e.spaces, colls |-> e.colls]
  BY DEF EngineOK, EngineType

(* The ids of a catalog are finite sets of numbers.                        *)
LEMMA ActiveFinite ==
  ASSUME NEW e, EngineOK(e), NEW S, S \subseteq DOMAIN e.frames \/ S \subseteq DOMAIN e.vectors
  PROVE  S \in SUBSET Nat /\ IsFiniteSet(S)
<1>1. PICK n \in Nat : S \subseteq 1..n
  BY EngineFacts
<1>2. IsFiniteSet(1..n)
  BY FS_Interval
<1>3. S \in SUBSET (1..n)
  BY <1>1
<1>4. IsFiniteSet(S)
  BY <1>2, <1>3, FS_Subset
<1>5. S \in SUBSET Nat
  BY <1>1
<1> QED
  BY <1>4, <1>5

LEMMA WatermarkType ==
  ASSUME NEW e, EngineOK(e)
  PROVE  Watermark(e) \in Nat
<1> DEFINE A == ActiveFrames(e)
           T == {e.frames[f].ts : f \in A}
           g == [f \in A |-> e.frames[f].ts]
<1>1. A \subseteq DOMAIN e.frames
  BY DEF ActiveFrames
<1>2. IsFiniteSet(A)
  BY <1>1, ActiveFinite
<1>3. g \in Surjection(A, T)
  BY DEF Surjection
<1>4. IsFiniteSet(T)
  BY <1>2, <1>3, FS_Surjection
<1>5. IsFiniteSet(T \cup {0})
  BY <1>4, FS_AddElement
<1>6. T \subseteq Nat
  BY <1>1, EngineFacts DEF FrameType
<1>7. {0} \cup T = T \cup {0} /\ T \cup {0} \in SUBSET Nat /\ T \cup {0} # {}
  BY <1>6
<1>8. Max(T \cup {0}) \in Nat
  <2> HIDE DEF T
  <2> QED
    BY <1>5, <1>7, MaxFacts
<1> QED
  BY <1>7, <1>8 DEF Watermark

LEMMA KeptTrans ==
  ASSUME NEW a, NEW b, NEW c, NEW fs, NEW vs, EngineOK(a),
         Kept(a, b, {}, {}), Kept(b, c, fs, vs)
  PROVE  Kept(a, c, fs, vs)
<1>1. a.spaces <= c.spaces
  BY EngineFacts DEF Kept
<1> QED
  BY <1>1 DEF Kept

LEMMA KeptRefl ==
  ASSUME NEW e, EngineOK(e)
  PROVE  Kept(e, e, {}, {})
  BY EngineFacts DEF Kept

(* ensure_collection_with_shape adds the collection and its document.      *)
DocFrame(e, c) == Frame("doc", c, c, 0, Watermark(e), FALSE)
LEMMA DeclaredFacts ==
  ASSUME NEW e, EngineOK(e), NEW c \in Colls, NEW r
  PROVE  LET d == Declared(e, c, r) IN
         /\ Kept(e, d, {}, {})
         /\ d.vectors = e.vectors /\ d.spaces = e.spaces
         /\ d.colls \subseteq e.colls \cup {c}
         /\ \A g \in DOMAIN d.frames \ DOMAIN e.frames :
              d.frames[g] = DocFrame(e, c)
         /\ c \notin r.shapes => c \in d.colls /\ DocsOf(d, c) # {}
<1> DEFINE d == Declared(e, c, r)
           w == DocFrame(e, c)
<1>0. w \in FrameType /\ w.kind = "doc" /\ w.coll = c /\ w.active
  BY WatermarkType DEF Frame, FrameType, DocFrame
<1>1. CASE c \in r.shapes
  <2>1. d = e
    BY <1>1 DEF Declared
  <2> QED
    BY <1>1, <2>1, KeptRefl
<1>2. CASE c \notin r.shapes /\ FindDoc(e, c)
  <2>1. d = [e EXCEPT !.colls = @ \cup {c}]
    BY <1>2, EngineFacts DEF Declared
  <2>2. d.frames = e.frames /\ d.vectors = e.vectors /\ d.spaces = e.spaces
        /\ d.colls = e.colls \cup {c} /\ d \in EngineType
    BY <2>1 DEF EngineOK, EngineType
  <2> HIDE DEF d
  <2>3. EngineOK(d)
    BY <2>2 DEF EngineOK
  <2>4. Kept(e, d, {}, {})
    BY <2>2, <2>3, EngineFacts DEF Kept
  <2>5. DocsOf(d, c) # {}
    BY <1>2, <2>2 DEF FindDoc, DocsOf, ActiveFrames
  <2> QED
    BY <2>2, <2>4, <2>5 DEF d
<1>3. CASE c \notin r.shapes /\ ~FindDoc(e, c)
  <2>1. d = [e EXCEPT !.colls = @ \cup {c}, !.frames = Append(@, w)]
    BY <1>3 DEF Declared, DocFrame
  <2> HIDE DEF w
  <2>a. Append(e.frames, w) \in Seq(FrameType)
    BY <1>0, EngineFacts, AppendProperties
  <2>b. d = [frames |-> Append(e.frames, w), vectors |-> e.vectors, spaces |-> e.spaces,
             colls |-> e.colls \cup {c}]
    BY <2>1, EngineFacts
  <2>2. d.frames = Append(e.frames, w) /\ d.vectors = e.vectors /\ d.spaces = e.spaces
        /\ d.colls = e.colls \cup {c} /\ d \in EngineType
    BY <2>a, <2>b, EngineFacts DEF EngineType
  <2> HIDE DEF d
  <2>3. /\ DOMAIN d.frames = 1..(Len(e.frames) + 1)
        /\ \A g \in 1..Len(e.frames) : d.frames[g] = e.frames[g]
        /\ d.frames[Len(e.frames) + 1] = w
    BY <1>0, <2>2, EngineFacts, AppendProperties, LenProperties
  <2>4. \A g \in DOMAIN e.frames : g \in DOMAIN d.frames /\ d.frames[g] = e.frames[g]
    BY <2>3, EngineFacts
  <2>5. \A g \in DOMAIN d.frames \ DOMAIN e.frames : d.frames[g] = w
    BY <2>3, EngineFacts
  <2>6. EngineOK(d)
    BY <2>2, <2>4, <2>5, <1>0 DEF EngineOK
  <2>7. Kept(e, d, {}, {})
    BY <2>2, <2>4, <2>6, EngineFacts DEF Kept
  <2>8. Len(e.frames) + 1 \in DOMAIN d.frames
    BY <2>3, EngineFacts
  <2>9. Len(e.frames) + 1 \in DocsOf(d, c)
    BY <1>0, <2>3, <2>8 DEF DocsOf, ActiveFrames
  <2> QED
    BY <2>2, <2>5, <2>7, <2>9 DEF d, w
<1> QED
  BY <1>1, <1>2, <1>3

(* put_frame appends one frame.                                            *)
LEMMA AppendedFacts ==
  ASSUME NEW e, EngineOK(e), NEW s \in Slots, NEW t \in Times, NEW n \in Nat, NEW vec \in BOOLEAN
  PROVE  LET d == Appended(e, s, t, n, vec) IN
         /\ Kept(e, d, {}, {})
         /\ d.vectors = e.vectors /\ d.spaces = e.spaces /\ d.colls = e.colls
         /\ NewFrame(e) \in Nat /\ NewFrame(e) \notin DOMAIN e.frames
         /\ NewFrame(e) # 0
         /\ DOMAIN d.frames = DOMAIN e.frames \cup {NewFrame(e)}
         /\ d.frames[NewFrame(e)] = Frame("record", s[1], s[2], n, t, vec)
<1> DEFINE d == Appended(e, s, t, n, vec)
           w == Frame("record", s[1], s[2], n, t, vec)
<1>0. w \in FrameType /\ w.kind = "record" /\ w.key \in Keys
  <2>1. s[1] \in Colls /\ s[2] \in Keys /\ t \in Nat
    BY KeyedStoreAssumption DEF Slots
  <2> QED
    BY <2>1 DEF Frame, FrameType
<1>1. d = [e EXCEPT !.frames = Append(@, w)]
  BY DEF Appended
<1> HIDE DEF w
<1>a. Append(e.frames, w) \in Seq(FrameType)
  BY <1>0, EngineFacts, AppendProperties
<1>b. d = [frames |-> Append(e.frames, w), vectors |-> e.vectors, spaces |-> e.spaces,
           colls |-> e.colls]
  BY <1>1, EngineFacts
<1>2. d.frames = Append(e.frames, w) /\ d.vectors = e.vectors /\ d.spaces = e.spaces
      /\ d.colls = e.colls /\ d \in EngineType
  BY <1>a, <1>b, EngineFacts DEF EngineType
<1> HIDE DEF d
<1>3. /\ DOMAIN d.frames = 1..(Len(e.frames) + 1)
      /\ \A g \in 1..Len(e.frames) : d.frames[g] = e.frames[g]
      /\ d.frames[Len(e.frames) + 1] = w
  BY <1>0, <1>2, EngineFacts, AppendProperties, LenProperties
<1>4. \A g \in DOMAIN e.frames : g \in DOMAIN d.frames /\ d.frames[g] = e.frames[g]
  BY <1>3, EngineFacts
<1>5. DOMAIN d.frames = DOMAIN e.frames \cup {Len(e.frames) + 1}
  BY <1>3, EngineFacts
<1>6. EngineOK(d)
  BY <1>0, <1>2, <1>3, <1>4, <1>5 DEF EngineOK
<1>7. Kept(e, d, {}, {})
  BY <1>2, <1>4, <1>6, EngineFacts DEF Kept
<1>8. Len(e.frames) + 1 \in Nat /\ Len(e.frames) + 1 \notin DOMAIN e.frames /\ Len(e.frames) + 1 # 0
  BY EngineFacts
<1> QED
  BY <1>2, <1>3, <1>5, <1>7, <1>8 DEF d, w, NewFrame

(* put_vector appends one vector to the latest space.                      *)
LEMMA PutVectorFacts ==
  ASSUME NEW e, EngineOK(e), e.spaces # 0, NEW f \in DOMAIN e.frames, NEW n, n = e.frames[f].val
  PROVE  LET d == PutVector(e, f, n) IN
         /\ Kept(e, d, {}, {})
         /\ d.frames = e.frames /\ d.spaces = e.spaces /\ d.colls = e.colls
         /\ Len(d.vectors) \in Nat \ {0} /\ Len(d.vectors) \notin DOMAIN e.vectors
         /\ DOMAIN d.vectors = DOMAIN e.vectors \cup {Len(d.vectors)}
         /\ d.vectors[Len(d.vectors)] = Vector(e.spaces, f, n)
<1> DEFINE d == PutVector(e, f, n)
           w == Vector(e.spaces, f, n)
<1>0. w \in VectorType /\ w.owner = f /\ w.val = n /\ w.space = e.spaces
  BY EngineFacts DEF Vector, VectorType, FrameType
<1>1. d = [e EXCEPT !.vectors = Append(@, w)]
  BY DEF PutVector
<1> HIDE DEF w
<1>a. Append(e.vectors, w) \in Seq(VectorType)
  BY <1>0, EngineFacts, AppendProperties
<1>b. d = [frames |-> e.frames, vectors |-> Append(e.vectors, w), spaces |-> e.spaces,
           colls |-> e.colls]
  BY <1>1, EngineFacts
<1>2. d.vectors = Append(e.vectors, w) /\ d.frames = e.frames /\ d.spaces = e.spaces
      /\ d.colls = e.colls /\ d \in EngineType
  BY <1>a, <1>b, EngineFacts DEF EngineType
<1> HIDE DEF d
<1>3. /\ Len(d.vectors) = Len(e.vectors) + 1
      /\ DOMAIN d.vectors = 1..(Len(e.vectors) + 1)
      /\ \A g \in 1..Len(e.vectors) : d.vectors[g] = e.vectors[g]
      /\ d.vectors[Len(e.vectors) + 1] = w
  BY <1>0, <1>2, EngineFacts, AppendProperties, LenProperties
<1>4. \A g \in DOMAIN e.vectors : g \in DOMAIN d.vectors /\ d.vectors[g] = e.vectors[g]
  BY <1>3, EngineFacts
<1>5. DOMAIN d.vectors = DOMAIN e.vectors \cup {Len(e.vectors) + 1}
  BY <1>3, EngineFacts
<1>6. e.spaces \in 1..e.spaces
  BY EngineFacts
<1>7. EngineOK(d)
  BY <1>0, <1>2, <1>3, <1>4, <1>5, <1>6 DEF EngineOK
<1>8. Kept(e, d, {}, {})
  BY <1>2, <1>4, <1>7, EngineFacts DEF Kept
<1>9. Len(e.vectors) + 1 \in Nat \ {0} /\ Len(e.vectors) + 1 \notin DOMAIN e.vectors
  BY EngineFacts
<1> QED
  BY <1>2, <1>3, <1>5, <1>8, <1>9 DEF d, w

(* A row switched off keeps its other fields.                              *)
LEMMA OffFrame ==
  ASSUME NEW x \in FrameType
  PROVE  /\ Off(x) \in FrameType /\ ~Off(x).active /\ Off(x).kind = x.kind
         /\ Off(x).coll = x.coll /\ Off(x).key = x.key /\ Off(x).val = x.val
         /\ Off(x).vec = x.vec /\ Off(x).stored = x.stored
  BY DEF FrameType, Off
LEMMA OffVector ==
  ASSUME NEW x \in VectorType
  PROVE  /\ Off(x) \in VectorType /\ ~Off(x).active /\ Off(x).space = x.space
         /\ Off(x).owner = x.owner /\ Off(x).val = x.val /\ Off(x).stored = x.stored
  BY DEF VectorType, Off

LEMMA OKCopy ==
  ASSUME NEW e, EngineOK(e), NEW d \in EngineType, d.spaces = e.spaces,
         DOMAIN d.frames = DOMAIN e.frames, DOMAIN d.vectors = DOMAIN e.vectors,
         \A f \in DOMAIN e.frames : d.frames[f].kind = e.frames[f].kind
           /\ d.frames[f].key = e.frames[f].key /\ d.frames[f].val = e.frames[f].val,
         \A v \in DOMAIN e.vectors : d.vectors[v].owner = e.vectors[v].owner
           /\ d.vectors[v].space = e.vectors[v].space /\ d.vectors[v].val = e.vectors[v].val
  PROVE  EngineOK(d)
  BY DEF EngineOK

(* Tombstoning changes the active flags and nothing else.                  *)
LEMMA OffFacts ==
  ASSUME NEW e, EngineOK(e), NEW fs, NEW vs, NEW d, NEW F, NEW V,
         F = [f \in DOMAIN e.frames |-> IF f \in fs THEN Off(e.frames[f]) ELSE e.frames[f]],
         V = [v \in DOMAIN e.vectors |-> IF v \in vs THEN Off(e.vectors[v]) ELSE e.vectors[v]],
         d = [frames |-> F, vectors |-> V, spaces |-> e.spaces, colls |-> e.colls]
  PROVE  /\ Kept(e, d, fs, vs)
         /\ DOMAIN d.frames = DOMAIN e.frames /\ DOMAIN d.vectors = DOMAIN e.vectors
         /\ d.spaces = e.spaces /\ d.colls = e.colls
<1>1. \A f \in DOMAIN e.frames :
        /\ Off(e.frames[f]) \in FrameType
        /\ Off(e.frames[f]).kind = e.frames[f].kind
        /\ Off(e.frames[f]).key = e.frames[f].key
        /\ Off(e.frames[f]).val = e.frames[f].val
  BY EngineFacts, OffFrame
<1>2. \A v \in DOMAIN e.vectors :
        /\ Off(e.vectors[v]) \in VectorType
        /\ Off(e.vectors[v]).owner = e.vectors[v].owner
        /\ Off(e.vectors[v]).space = e.vectors[v].space
        /\ Off(e.vectors[v]).val = e.vectors[v].val
  BY EngineFacts, OffVector
<1>3. F \in Seq(FrameType) /\ DOMAIN F = DOMAIN e.frames
  <2>1. F \in [1..Len(e.frames) -> FrameType]
    BY <1>1, EngineFacts
  <2> QED
    BY <2>1, FnSeq, EngineFacts
<1>4. V \in Seq(VectorType) /\ DOMAIN V = DOMAIN e.vectors
  <2>1. V \in [1..Len(e.vectors) -> VectorType]
    BY <1>2, EngineFacts
  <2> QED
    BY <2>1, FnSeq, EngineFacts
<1>5. d \in EngineType /\ d.frames = F /\ d.vectors = V /\ d.spaces = e.spaces /\ d.colls = e.colls
  BY <1>3, <1>4, EngineFacts DEF EngineType
<1>6. \A f \in DOMAIN e.frames : d.frames[f] = IF f \in fs THEN Off(e.frames[f]) ELSE e.frames[f]
  BY <1>5
<1>7. \A v \in DOMAIN e.vectors : d.vectors[v] = IF v \in vs THEN Off(e.vectors[v]) ELSE e.vectors[v]
  BY <1>5
<1>8. \A f \in DOMAIN e.frames : d.frames[f].kind = e.frames[f].kind
        /\ d.frames[f].key = e.frames[f].key /\ d.frames[f].val = e.frames[f].val
  BY <1>1, <1>6
<1>9. \A v \in DOMAIN e.vectors : d.vectors[v].owner = e.vectors[v].owner
        /\ d.vectors[v].space = e.vectors[v].space /\ d.vectors[v].val = e.vectors[v].val
  BY <1>2, <1>7
<1>10. DOMAIN d.frames = DOMAIN e.frames /\ DOMAIN d.vectors = DOMAIN e.vectors
  BY <1>3, <1>4, <1>5
<1>11. EngineOK(d)
  BY <1>5, <1>8, <1>9, <1>10, OKCopy
<1> QED
  BY <1>5, <1>6, <1>7, <1>10, <1>11, EngineFacts DEF Kept

LEMMA TombstonedFacts ==
  ASSUME NEW e, EngineOK(e), NEW en, en.frame \in DOMAIN e.frames
  PROVE  LET d == Tombstoned(e, en) IN
         /\ Kept(e, d, {en.frame}, IF en.committed THEN en.vectors ELSE {})
         /\ DOMAIN d.frames = DOMAIN e.frames /\ DOMAIN d.vectors = DOMAIN e.vectors
         /\ d.spaces = e.spaces /\ d.colls = e.colls
<1> DEFINE d == Tombstoned(e, en)
           vs == IF en.committed THEN en.vectors ELSE {}
           F == [f \in DOMAIN e.frames |-> IF f \in {en.frame} THEN Off(e.frames[f]) ELSE e.frames[f]]
           V == [v \in DOMAIN e.vectors |-> IF v \in vs THEN Off(e.vectors[v]) ELSE e.vectors[v]]
           m == DeleteVectors(e, vs)
<1>0. m = [e EXCEPT !.vectors = V]
  BY DEF DeleteVectors, Off
<1>1. m = [frames |-> e.frames, vectors |-> V, spaces |-> e.spaces, colls |-> e.colls]
  <2> HIDE DEF m, V
  <2> QED
    BY <1>0, EngineFacts
<1>2. d = DeleteFrame(m, en.frame)
  BY DEF Tombstoned
<1> HIDE DEF m, V, vs
<1>3. d = [frames |-> [e.frames EXCEPT ![en.frame] = Off(e.frames[en.frame])],
           vectors |-> V, spaces |-> e.spaces, colls |-> e.colls]
  BY <1>1, <1>2, EngineFacts DEF DeleteFrame, Off
<1>4. [e.frames EXCEPT ![en.frame] = Off(e.frames[en.frame])] = F
  BY EngineFacts
<1>5. d = [frames |-> F, vectors |-> V, spaces |-> e.spaces, colls |-> e.colls]
  BY <1>3, <1>4
<1> HIDE DEF d, F
<1> QED
  BY <1>5, OffFacts DEF d, F, V, vs

(* What forget_before leaves of the catalog.                               *)
Forgotten(e, fs, vs) ==
  [DeleteVectors(e, vs) EXCEPT !.frames = [f \in DOMAIN @ |->
     IF f \in fs THEN [@[f] EXCEPT !.active = FALSE] ELSE @[f]]]
LEMMA ForgottenFacts ==
  ASSUME NEW e, EngineOK(e), NEW fs, NEW vs
  PROVE  LET d == Forgotten(e, fs, vs) IN
         /\ Kept(e, d, fs, vs)
         /\ DOMAIN d.frames = DOMAIN e.frames /\ DOMAIN d.vectors = DOMAIN e.vectors
         /\ d.spaces = e.spaces /\ d.colls = e.colls
<1> DEFINE F == [f \in DOMAIN e.frames |-> IF f \in fs THEN Off(e.frames[f]) ELSE e.frames[f]]
           V == [v \in DOMAIN e.vectors |-> IF v \in vs THEN Off(e.vectors[v]) ELSE e.vectors[v]]
           m == DeleteVectors(e, vs)
           d == Forgotten(e, fs, vs)
<1>0. m = [e EXCEPT !.vectors = V]
  BY DEF DeleteVectors, Off
<1>1. m = [frames |-> e.frames, vectors |-> V, spaces |-> e.spaces, colls |-> e.colls]
  <2> HIDE DEF m, V
  <2> QED
    BY <1>0, EngineFacts
<1>2. d = [m EXCEPT !.frames = [f \in DOMAIN @ |->
                IF f \in fs THEN [@[f] EXCEPT !.active = FALSE] ELSE @[f]]]
  BY DEF Forgotten
<1> HIDE DEF m, V
<1>3. m.frames = e.frames
  BY <1>1
<1>4. d = [m EXCEPT !.frames = F]
  BY <1>2, <1>3 DEF Off
<1>5. d = [frames |-> F, vectors |-> V, spaces |-> e.spaces, colls |-> e.colls]
  <2> HIDE DEF F
  <2> QED
    BY <1>1, <1>4
<1>6. F = [f \in DOMAIN e.frames |-> IF f \in fs THEN Off(e.frames[f]) ELSE e.frames[f]]
  OBVIOUS
<1>7. V = [v \in DOMAIN e.vectors |-> IF v \in vs THEN Off(e.vectors[v]) ELSE e.vectors[v]]
  BY DEF V
<1> HIDE DEF F, d
<1>8. /\ Kept(e, d, fs, vs)
      /\ DOMAIN d.frames = DOMAIN e.frames /\ DOMAIN d.vectors = DOMAIN e.vectors
      /\ d.spaces = e.spaces /\ d.colls = e.colls
  BY <1>5, <1>6, <1>7, OffFacts
<1> QED
  BY <1>8 DEF d

(* A commit stores all that was pending.                                   *)
On(row) == [row EXCEPT !.stored = TRUE]
LEMMA OnFrame ==
  ASSUME NEW x \in FrameType
  PROVE  /\ On(x) \in FrameType /\ On(x).active = x.active /\ On(x).kind = x.kind
         /\ On(x).coll = x.coll /\ On(x).key = x.key /\ On(x).val = x.val
         /\ On(x).vec = x.vec /\ On(x).stored
  BY DEF FrameType, On
LEMMA OnVector ==
  ASSUME NEW x \in VectorType
  PROVE  /\ On(x) \in VectorType /\ On(x).active = x.active /\ On(x).space = x.space
         /\ On(x).owner = x.owner /\ On(x).val = x.val /\ On(x).stored
  BY DEF VectorType, On
LEMMA ImageFacts ==
  ASSUME NEW e, EngineOK(e)
  PROVE  LET d == Image(e) IN
         /\ EngineOK(d)
         /\ DOMAIN d.frames = DOMAIN e.frames /\ DOMAIN d.vectors = DOMAIN e.vectors
         /\ \A f \in DOMAIN e.frames : d.frames[f] = On(e.frames[f])
         /\ \A v \in DOMAIN e.vectors : d.vectors[v] = On(e.vectors[v])
         /\ d.spaces = e.spaces /\ d.colls = e.colls
<1> DEFINE d == Image(e)
           F == [f \in DOMAIN e.frames |-> On(e.frames[f])]
           V == [v \in DOMAIN e.vectors |-> On(e.vectors[v])]
<1>a. d = [e EXCEPT !.frames = F, !.vectors = V]
  BY DEF Image, On
<1>0. d = [frames |-> F, vectors |-> V, spaces |-> e.spaces, colls |-> e.colls]
  <2> HIDE DEF d, F, V
  <2>1. PICK a, b, c, g : e = [frames |-> a, vectors |-> b, spaces |-> c, colls |-> g]
    BY EngineFacts
  <2> QED
    BY <1>a, <2>1
<1>1. \A f \in DOMAIN e.frames :
        /\ On(e.frames[f]) \in FrameType
        /\ On(e.frames[f]).kind = e.frames[f].kind
        /\ On(e.frames[f]).key = e.frames[f].key
        /\ On(e.frames[f]).val = e.frames[f].val
  BY EngineFacts, OnFrame
<1>2. \A v \in DOMAIN e.vectors :
        /\ On(e.vectors[v]) \in VectorType
        /\ On(e.vectors[v]).owner = e.vectors[v].owner
        /\ On(e.vectors[v]).space = e.vectors[v].space
        /\ On(e.vectors[v]).val = e.vectors[v].val
  BY EngineFacts, OnVector
<1>3. F \in Seq(FrameType) /\ DOMAIN F = DOMAIN e.frames
  <2>1. F \in [1..Len(e.frames) -> FrameType]
    BY <1>1, EngineFacts
  <2> QED
    BY <2>1, FnSeq, EngineFacts
<1>4. V \in Seq(VectorType) /\ DOMAIN V = DOMAIN e.vectors
  <2>1. V \in [1..Len(e.vectors) -> VectorType]
    BY <1>2, EngineFacts
  <2> QED
    BY <2>1, FnSeq, EngineFacts
<1>5. d \in EngineType /\ d.frames = F /\ d.vectors = V /\ d.spaces = e.spaces /\ d.colls = e.colls
  BY <1>0, <1>3, <1>4, EngineFacts DEF EngineType
<1>6. /\ \A f \in DOMAIN e.frames : d.frames[f] = On(e.frames[f])
      /\ \A v \in DOMAIN e.vectors : d.vectors[v] = On(e.vectors[v])
  BY <1>5
<1>10. DOMAIN d.frames = DOMAIN e.frames /\ DOMAIN d.vectors = DOMAIN e.vectors
  BY <1>3, <1>4, <1>5
<1> HIDE DEF d, F, V
<1>8. \A f \in DOMAIN e.frames : d.frames[f].kind = e.frames[f].kind
        /\ d.frames[f].key = e.frames[f].key /\ d.frames[f].val = e.frames[f].val
  BY <1>1, <1>6
<1>9. \A v \in DOMAIN e.vectors : d.vectors[v].owner = e.vectors[v].owner
        /\ d.vectors[v].space = e.vectors[v].space /\ d.vectors[v].val = e.vectors[v].val
  BY <1>2, <1>6
<1>11. EngineOK(d)
  BY <1>5, <1>8, <1>9, <1>10, OKCopy
<1> QED
  BY <1>5, <1>6, <1>10, <1>11 DEF d

(* Deferred vectors: written in order behind the ones that are there.      *)
StagedType == [slot : Slots, owner : Nat, val : Nat]
PutAllOK(e, d, p) ==
  /\ Kept(e, p, {}, {})
  /\ p.frames = e.frames /\ p.spaces = e.spaces /\ p.colls = e.colls
  /\ \A i \in 1..Len(d) :
       /\ Len(e.vectors) + i \in DOMAIN p.vectors \ DOMAIN e.vectors
       /\ p.vectors[Len(e.vectors) + i] = Vector(e.spaces, d[i].owner, d[i].val)
  /\ \A v \in DOMAIN p.vectors \ DOMAIN e.vectors :
       \E i \in 1..Len(d) : v = Len(e.vectors) + i
LEMMA PutAllFacts ==
  ASSUME NEW e, EngineOK(e), e.spaces # 0, NEW d \in Seq(StagedType),
         \A i \in 1..Len(d) : d[i].owner \in DOMAIN e.frames /\ d[i].val = e.frames[d[i].owner].val
  PROVE  PutAllOK(e, d, PutAll(e, d))
<1> DEFINE p == PutAll(e, d)
           W == [i \in 1..Len(d) |-> Vector(e.spaces, d[i].owner, d[i].val)]
<1>0. p = [e EXCEPT !.vectors = @ \o W]
  BY DEF PutAll
<1>1. \A i \in 1..Len(d) :
        LET w == Vector(e.spaces, d[i].owner, d[i].val) IN
        w \in VectorType /\ w.owner = d[i].owner /\ w.val = d[i].val /\ w.space = e.spaces
  BY EngineFacts, ElementOfSeq DEF Vector, VectorType, FrameType, StagedType
<1>2. Len(d) \in Nat
  BY LenProperties
<1>3. W \in Seq(VectorType) /\ Len(W) = Len(d)
  <2>1. W \in [1..Len(d) -> VectorType]
    BY <1>1
  <2> QED
    BY <1>2, <2>1, FnSeq
<1>4. \A i \in 1..Len(d) : W[i] = Vector(e.spaces, d[i].owner, d[i].val)
  OBVIOUS
<1> HIDE DEF W
<1> DEFINE V == e.vectors \o W
<1>5. /\ V \in Seq(VectorType) /\ Len(V) = Len(e.vectors) + Len(d)
      /\ \A i \in 1..(Len(e.vectors) + Len(d)) :
           V[i] = IF i <= Len(e.vectors) THEN e.vectors[i] ELSE W[i - Len(e.vectors)]
  <2>1. PICK a \in Seq(VectorType) : a = e.vectors
    BY EngineFacts
  <2>2. PICK b \in Seq(VectorType) : b = W
    BY <1>3
  <2>3. V = a \o b
    BY <2>1, <2>2
  <2> HIDE DEF V
  <2>4. a \o b \in Seq(VectorType) /\ Len(a \o b) = Len(a) + Len(b)
    BY ConcatProperties
  <2>5. \A i \in 1..(Len(a) + Len(b)) : (a \o b)[i] = IF i <= Len(a) THEN a[i] ELSE b[i - Len(a)]
    BY ConcatProperties
  <2> QED
    BY <1>3, <2>1, <2>2, <2>3, <2>4, <2>5
<1>6. DOMAIN V = 1..(Len(e.vectors) + Len(d))
  BY <1>5, LenProperties
<1> HIDE DEF V
<1>7. p = [frames |-> e.frames, vectors |-> V, spaces |-> e.spaces, colls |-> e.colls]
  BY <1>0, EngineFacts DEF V
<1>8. p \in EngineType /\ p.vectors = V /\ p.frames = e.frames /\ p.spaces = e.spaces /\ p.colls = e.colls
  BY <1>5, <1>7, EngineFacts DEF EngineType
<1> HIDE DEF p
<1>9. \A v \in DOMAIN e.vectors : v \in DOMAIN V /\ V[v] = e.vectors[v]
  BY <1>2, <1>5, <1>6, EngineFacts
<1>10. \A i \in 1..Len(d) : Len(e.vectors) + i \in DOMAIN V \ DOMAIN e.vectors
         /\ V[Len(e.vectors) + i] = W[i]
  BY <1>2, <1>5, <1>6, EngineFacts
<1>11. \A v \in DOMAIN V \ DOMAIN e.vectors : v - Len(e.vectors) \in 1..Len(d)
         /\ v = Len(e.vectors) + (v - Len(e.vectors))
  BY <1>2, <1>6, EngineFacts
<1>12. \A v \in DOMAIN V \ DOMAIN e.vectors : \E i \in 1..Len(d) : v = Len(e.vectors) + i
  BY <1>11
<1>13. e.spaces \in 1..e.spaces
  BY EngineFacts
<1>14. \A v \in DOMAIN V : /\ V[v].owner \in DOMAIN e.frames
                           /\ V[v].space \in 1..e.spaces
                           /\ V[v].val = e.frames[V[v].owner].val
  <2> TAKE v \in DOMAIN V
  <2>1. CASE v \in DOMAIN e.vectors
    BY <1>9, <2>1 DEF EngineOK
  <2>2. CASE v \notin DOMAIN e.vectors
    <3>1. PICK i \in 1..Len(d) : v = Len(e.vectors) + i
      BY <1>12, <2>2
    <3>2. V[v] = W[i]
      BY <1>10, <3>1
    <3> QED
      BY <1>1, <1>4, <1>13, <3>2
  <2> QED
    BY <2>1, <2>2
<1>15. EngineOK(p)
  BY <1>8, <1>14 DEF EngineOK
<1>16. Kept(e, p, {}, {})
  BY <1>8, <1>9, <1>15, EngineFacts DEF Kept
<1>17. PutAllOK(e, d, p)
  BY <1>4, <1>8, <1>10, <1>12, <1>16 DEF PutAllOK
<1> QED
  BY <1>17 DEF p

(* The deferred vectors of other owners, and only those, are kept.         *)
WithoutOK(d, f, w) ==
  /\ w \in Seq(StagedType)
  /\ \A i \in DOMAIN w : \E j \in DOMAIN d : w[i] = d[j] /\ d[j].owner # f
  /\ \A j \in DOMAIN d : d[j].owner # f => \E i \in DOMAIN w : w[i] = d[j]
LEMMA WithoutFacts ==
  ASSUME NEW d \in Seq(StagedType), NEW f
  PROVE  WithoutOK(d, f, Without(d, f))
<1> DEFINE w == Without(d, f)
           keep == {i \in DOMAIN d : d[i].owner # f}
           c == Cardinality(keep)
<1>1. d \in Seq(StagedType) /\ Len(d) \in Nat /\ DOMAIN d = 1..Len(d)
      /\ \A j \in DOMAIN d : d[j] \in StagedType
  BY LenProperties
<1>2. keep \in SUBSET Nat /\ IsFiniteSet(keep)
  <2>1. IsFiniteSet(1..Len(d)) /\ keep \in SUBSET (1..Len(d))
    BY <1>1, FS_Interval
  <2>2. IsFiniteSet(keep)
    BY <2>1, FS_Subset
  <2> QED
    BY <2>1, <2>2
<1>3. w = [n \in 1..c |-> d[Nth(keep, n)]]
  BY DEF Without
<1>4. keep \subseteq DOMAIN d /\ \A j \in DOMAIN d : j \in keep <=> d[j].owner # f
  OBVIOUS
<1> HIDE DEF keep
<1>5. /\ c \in Nat
      /\ \A n \in 1..c : Nth(keep, n) \in keep
      /\ \A x \in keep : Rank(keep, x) \in 1..c /\ Nth(keep, Rank(keep, x)) = x
  BY <1>2, RankFacts, NthFacts
<1> HIDE DEF c
<1>6. w \in [1..c -> StagedType]
  BY <1>1, <1>3, <1>4, <1>5
<1>7. w \in Seq(StagedType) /\ DOMAIN w = 1..c
  BY <1>5, <1>6, FnSeq
<1>8. ASSUME NEW i \in DOMAIN w PROVE \E j \in DOMAIN d : w[i] = d[j] /\ d[j].owner # f
  <2>1. Nth(keep, i) \in keep /\ w[i] = d[Nth(keep, i)]
    BY <1>3, <1>5, <1>7
  <2> QED
    BY <1>4, <2>1
<1>9. ASSUME NEW j \in DOMAIN d, d[j].owner # f PROVE \E i \in DOMAIN w : w[i] = d[j]
  <2>1. Rank(keep, j) \in 1..c /\ Nth(keep, Rank(keep, j)) = j
    BY <1>4, <1>5, <1>9
  <2>2. w[Rank(keep, j)] = d[j]
    BY <1>3, <2>1
  <2> QED
    BY <1>7, <2>1, <2>2
<1> HIDE DEF w
<1>10. WithoutOK(d, f, w)
  BY <1>7, <1>8, <1>9 DEF WithoutOK
<1> QED
  BY <1>10 DEF w

(* The identity index a rebuild finds.                                     *)
LEMMA RebuiltFacts ==
  ASSUME NEW e, EngineOK(e)
  PROVE  LET i == RebuiltIdentity(e) IN
         /\ i \in [Slots -> EntryType]
         /\ \A s \in Slots :
              /\ KeyedFrames(e, s) = {} => i[s] = NoEntry
              /\ KeyedFrames(e, s) # {} =>
                   /\ i[s] # NoEntry /\ i[s].committed /\ i[s].frame # 0
                   /\ i[s].frame \in KeyedFrames(e, s)
                   /\ i[s].vectors =
                        {v \in ActiveVectors(e) : e.vectors[v].owner \in KeyedFrames(e, s)}
<1> DEFINE i == RebuiltIdentity(e)
<1>0. NoEntry \in EntryType /\ NoEntry.committed = FALSE
  BY DEF NoEntry, Entry, EntryType
<1>1. ASSUME NEW s \in Slots, KeyedFrames(e, s) # {}
      PROVE  LET vs == {v \in ActiveVectors(e) : e.vectors[v].owner \in KeyedFrames(e, s)} IN
             /\ Max(KeyedFrames(e, s)) \in KeyedFrames(e, s)
             /\ Max(KeyedFrames(e, s)) \in Nat \ {0}
             /\ i[s] = Entry(Max(KeyedFrames(e, s)), vs, TRUE)
             /\ vs \in SUBSET (Nat \ {0})
  <2>1. KeyedFrames(e, s) \subseteq DOMAIN e.frames
    BY DEF KeyedFrames, ActiveFrames
  <2>2. Max(KeyedFrames(e, s)) \in KeyedFrames(e, s)
    BY <1>1, <2>1, ActiveFinite, MaxFacts
  <2>3. Max(KeyedFrames(e, s)) \in Nat \ {0}
    BY <2>1, <2>2, EngineFacts
  <2>4. ActiveVectors(e) \subseteq Nat \ {0}
    BY EngineFacts DEF ActiveVectors
  <2>5. i[s] = Entry(Max(KeyedFrames(e, s)),
                     {v \in ActiveVectors(e) : e.vectors[v].owner \in KeyedFrames(e, s)}, TRUE)
    BY <1>1 DEF RebuiltIdentity
  <2> QED
    BY <2>2, <2>3, <2>4, <2>5
<1>2. ASSUME NEW s \in Slots, KeyedFrames(e, s) = {} PROVE i[s] = NoEntry
  BY <1>2 DEF RebuiltIdentity
<1>3. i = [s \in Slots |-> i[s]]
  BY DEF RebuiltIdentity
<1> HIDE DEF i
<1>4. ASSUME NEW s \in Slots, KeyedFrames(e, s) # {}
      PROVE  /\ i[s] # NoEntry /\ i[s].committed /\ i[s].frame # 0
             /\ i[s].frame \in KeyedFrames(e, s)
             /\ i[s].vectors =
                  {v \in ActiveVectors(e) : e.vectors[v].owner \in KeyedFrames(e, s)}
             /\ i[s] \in EntryType
  <2> DEFINE vs == {v \in ActiveVectors(e) : e.vectors[v].owner \in KeyedFrames(e, s)}
             m == Max(KeyedFrames(e, s))
  <2>1. m \in KeyedFrames(e, s) /\ m \in Nat \ {0} /\ i[s] = Entry(m, vs, TRUE) /\ vs \in SUBSET (Nat \ {0})
    BY <1>1, <1>4
  <2> HIDE DEF vs, m
  <2>2. i[s].frame = m /\ i[s].committed /\ i[s].vectors = vs /\ i[s] \in EntryType /\ i[s] # NoEntry
    BY <2>1, <1>0 DEF Entry, EntryType
  <2> QED
    BY <2>1, <2>2 DEF vs
<1>5. \A s \in Slots : i[s] \in EntryType
  BY <1>0, <1>2, <1>4
<1>6. i \in [Slots -> EntryType]
  BY <1>3, <1>5
<1> QED
  BY <1>2, <1>4, <1>6 DEF i

(* What a compaction of e writes to its file.                              *)
Survives(e, f) == IF e.frames[f].stored THEN e.frames[f].kind ELSE "keyless"
AllStored(e) ==
  /\ \A f \in DOMAIN e.frames : e.frames[f].stored
  /\ \A v \in DOMAIN e.vectors : e.vectors[v].stored

LEMMA CompactedFacts ==
  ASSUME NEW e, EngineOK(e)
  PROVE  LET d == Compacted(e)
             A == ActiveFrames(e)
         IN
         /\ EngineOK(d) /\ d.spaces = e.spaces /\ d.colls = e.colls
         /\ \A f \in A :
              /\ Rank(A, f) \in DOMAIN d.frames
              /\ d.frames[Rank(A, f)] =
                   IF e.frames[f].stored THEN e.frames[f] ELSE [e.frames[f] EXCEPT !.kind = "keyless"]
         /\ \A f, g \in A : Rank(A, f) = Rank(A, g) => f = g
         /\ \A n \in DOMAIN d.frames : \E f \in A : n = Rank(A, f)
         /\ \A v \in ActiveVectors(e) : e.vectors[v].owner \in A =>
              \E m \in DOMAIN d.vectors :
                d.vectors[m] = [e.vectors[v] EXCEPT !.owner = Rank(A, e.vectors[v].owner)]
         /\ \A m \in DOMAIN d.vectors : \E v \in ActiveVectors(e) :
              /\ e.vectors[v].owner \in A
              /\ d.vectors[m] = [e.vectors[v] EXCEPT !.owner = Rank(A, e.vectors[v].owner)]
<1> DEFINE d == Compacted(e)
           A == ActiveFrames(e)
           B == {v \in ActiveVectors(e) : e.vectors[v].owner \in A}
           Copy(fr) == IF fr.stored THEN fr ELSE [fr EXCEPT !.kind = "keyless"]
           Own(x) == [x EXCEPT !.owner = Rank(A, x.owner)]
           a == Cardinality(A)
           b == Cardinality(B)
           F == [n \in 1..a |-> Copy(e.frames[Nth(A, n)])]
           V == [n \in 1..b |-> Own(e.vectors[Nth(B, n)])]
<1>1. d = [e EXCEPT !.frames = F, !.vectors = V]
  BY DEF Compacted, CompactionSource
<1>2. /\ A \subseteq DOMAIN e.frames /\ B \subseteq DOMAIN e.vectors
      /\ \A v \in B : e.vectors[v].owner \in A
      /\ \A v \in B : v \in ActiveVectors(e)
      /\ \A v \in ActiveVectors(e) : e.vectors[v].owner \in A => v \in B
  BY DEF ActiveFrames, ActiveVectors
<1> HIDE DEF A, B
<1>3. A \in SUBSET Nat /\ IsFiniteSet(A) /\ B \in SUBSET Nat /\ IsFiniteSet(B)
  BY <1>2, ActiveFinite
<1>4. /\ a \in Nat
      /\ \A n \in 1..a : Nth(A, n) \in A /\ Rank(A, Nth(A, n)) = n
      /\ \A f \in A : Rank(A, f) \in 1..a /\ Nth(A, Rank(A, f)) = f
  BY <1>3, RankFacts, NthFacts
<1>5. /\ b \in Nat
      /\ \A n \in 1..b : Nth(B, n) \in B
      /\ \A v \in B : Rank(B, v) \in 1..b /\ Nth(B, Rank(B, v)) = v
  BY <1>3, RankFacts, NthFacts
<1> HIDE DEF a, b
<1>6. ASSUME NEW x \in FrameType
      PROVE  /\ Copy(x) \in FrameType /\ Copy(x).kind \in {x.kind, "keyless"}
             /\ Copy(x).key = x.key /\ Copy(x).val = x.val
  BY DEF FrameType
<1>7. ASSUME NEW x \in VectorType, x.owner \in A
      PROVE  /\ Own(x) \in VectorType /\ Own(x).owner = Rank(A, x.owner)
             /\ Own(x).space = x.space /\ Own(x).val = x.val
  <2>1. Rank(A, x.owner) \in Nat
    BY <1>4, <1>7
  <2> QED
    BY <2>1 DEF VectorType
<1>8. \A f \in A : e.frames[f] \in FrameType
  BY <1>2, EngineFacts
<1>9. \A v \in B : e.vectors[v] \in VectorType /\ e.vectors[v].owner \in A
  BY <1>2, EngineFacts
<1>10. d = [frames |-> F, vectors |-> V, spaces |-> e.spaces, colls |-> e.colls]
  <2> HIDE DEF d, F, V
  <2>1. PICK p, q, r, g : e = [frames |-> p, vectors |-> q, spaces |-> r, colls |-> g]
    BY EngineFacts
  <2> QED
    BY <1>1, <2>1
<1>11. \A f \in A : F[Rank(A, f)] = Copy(e.frames[f])
  BY <1>4
<1>12. \A n \in 1..a : F[n] = Copy(e.frames[Nth(A, n)])
  OBVIOUS
<1>13. \A n \in 1..b : V[n] = Own(e.vectors[Nth(B, n)])
  OBVIOUS
<1>14. F \in Seq(FrameType) /\ DOMAIN F = 1..a
  <2> HIDE DEF Copy
  <2>1. F \in [1..a -> FrameType]
    BY <1>4, <1>6, <1>8
  <2> QED
    BY <1>4, <2>1, FnSeq
<1>15. V \in Seq(VectorType) /\ DOMAIN V = 1..b
  <2> HIDE DEF Own
  <2>1. V \in [1..b -> VectorType]
    BY <1>5, <1>7, <1>9
  <2> QED
    BY <1>5, <2>1, FnSeq
<1> HIDE DEF F, V, Copy, Own
<1>16. d \in EngineType /\ d.frames = F /\ d.vectors = V /\ d.spaces = e.spaces /\ d.colls = e.colls
  BY <1>10, <1>14, <1>15, EngineFacts DEF EngineType
<1> HIDE DEF d
<1>17. ASSUME NEW n \in 1..a, F[n].kind = "record" PROVE F[n].key \in Keys
  <2>1. Nth(A, n) \in A /\ e.frames[Nth(A, n)] \in FrameType
    BY <1>4, <1>8
  <2>2. F[n] = Copy(e.frames[Nth(A, n)])
    BY <1>12
  <2>3. e.frames[Nth(A, n)].kind = "record" /\ F[n].key = e.frames[Nth(A, n)].key
    BY <1>6, <1>17, <2>1, <2>2
  <2> QED
    BY <1>2, <2>1, <2>3 DEF EngineOK
<1>18. ASSUME NEW n \in 1..b
       PROVE  /\ V[n].owner \in 1..a
              /\ V[n].space \in 1..e.spaces
              /\ V[n].val = F[V[n].owner].val
  <2> DEFINE v == Nth(B, n)
             o == e.vectors[v].owner
  <2>1. v \in B /\ e.vectors[v] \in VectorType /\ o \in A
    BY <1>5, <1>9
  <2>2. V[n] = Own(e.vectors[v])
    BY <1>13
  <2>3. V[n].owner = Rank(A, o) /\ V[n].space = e.vectors[v].space /\ V[n].val = e.vectors[v].val
    BY <1>7, <2>1, <2>2
  <2>4. F[Rank(A, o)] = Copy(e.frames[o]) /\ Rank(A, o) \in 1..a
    BY <1>4, <1>11, <2>1
  <2>5. F[Rank(A, o)].val = e.frames[o].val
    BY <1>6, <1>8, <2>1, <2>4
  <2>6. e.vectors[v].space \in 1..e.spaces /\ e.vectors[v].val = e.frames[o].val
    BY <1>2, <2>1 DEF EngineOK
  <2> HIDE DEF o, v
  <2> QED
    BY <2>3, <2>4, <2>5, <2>6
<1>19. EngineOK(d)
  BY <1>14, <1>15, <1>16, <1>17, <1>18 DEF EngineOK
<1>20. \A f, g \in A : Rank(A, f) = Rank(A, g) => f = g
  BY <1>4
<1>21. \A n \in DOMAIN d.frames : \E f \in A : n = Rank(A, f)
  BY <1>4, <1>14, <1>16
<1>22. \A v \in B : \E m \in DOMAIN d.vectors : d.vectors[m] = Own(e.vectors[v])
  <2> TAKE v \in B
  <2>1. Rank(B, v) \in 1..b /\ V[Rank(B, v)] = Own(e.vectors[v])
    BY <1>5, <1>13
  <2> QED
    BY <1>15, <1>16, <2>1
<1>23. \A m \in DOMAIN d.vectors : \E v \in B : d.vectors[m] = Own(e.vectors[v])
  BY <1>5, <1>13, <1>15, <1>16
<1>24. \A f \in A : Rank(A, f) \in DOMAIN d.frames /\ d.frames[Rank(A, f)] = Copy(e.frames[f])
  BY <1>4, <1>11, <1>14, <1>16
<1>25. \A v \in ActiveVectors(e) : e.vectors[v].owner \in A =>
         \E m \in DOMAIN d.vectors : d.vectors[m] = Own(e.vectors[v])
  <2> SUFFICES ASSUME NEW v \in ActiveVectors(e), e.vectors[v].owner \in A
               PROVE  \E m \in DOMAIN d.vectors : d.vectors[m] = Own(e.vectors[v])
    OBVIOUS
  <2>1. v \in B
    BY DEF B
  <2> QED
    BY <1>22, <2>1
<1>26. \A m \in DOMAIN d.vectors : \E v \in ActiveVectors(e) :
              e.vectors[v].owner \in A /\ d.vectors[m] = Own(e.vectors[v])
  BY <1>2, <1>23
<1> QED
  BY <1>16, <1>19, <1>20, <1>21, <1>24, <1>25, <1>26 DEF d, A, Own, Copy

LEMMA TempFacts ==
  ASSUME NEW e, EngineOK(e)
  PROVE  LET d == Image(Compacted(e))
             A == ActiveFrames(e)
         IN
         /\ EngineOK(d) /\ AllStored(d) /\ d.spaces = e.spaces /\ d.colls = e.colls
         /\ \A f \in A :
              /\ Rank(A, f) \in DOMAIN d.frames
              /\ d.frames[Rank(A, f)].kind = Survives(e, f)
              /\ d.frames[Rank(A, f)].coll = e.frames[f].coll
              /\ d.frames[Rank(A, f)].key = e.frames[f].key
              /\ d.frames[Rank(A, f)].val = e.frames[f].val
              /\ d.frames[Rank(A, f)].vec = e.frames[f].vec
              /\ d.frames[Rank(A, f)].active
         /\ \A f, g \in A : Rank(A, f) = Rank(A, g) => f = g
         /\ \A n \in DOMAIN d.frames : \E f \in A : n = Rank(A, f)
         /\ \A v \in ActiveVectors(e) : e.vectors[v].owner \in A =>
              \E m \in ActiveVectors(d) : d.vectors[m].owner = Rank(A, e.vectors[v].owner)
         /\ \A m \in DOMAIN d.vectors : \E v \in ActiveVectors(e) :
              /\ e.vectors[v].owner \in A
              /\ d.vectors[m].owner = Rank(A, e.vectors[v].owner)
<1> DEFINE c == Compacted(e)
           d == Image(c)
           A == ActiveFrames(e)
<1>1. EngineOK(c) /\ c.spaces = e.spaces /\ c.colls = e.colls
  BY CompactedFacts
<1>2. /\ \A f \in A :
           /\ Rank(A, f) \in DOMAIN c.frames
           /\ c.frames[Rank(A, f)] =
                IF e.frames[f].stored THEN e.frames[f] ELSE [e.frames[f] EXCEPT !.kind = "keyless"]
      /\ \A f, g \in A : Rank(A, f) = Rank(A, g) => f = g
      /\ \A n \in DOMAIN c.frames : \E f \in A : n = Rank(A, f)
  BY CompactedFacts
<1>3. /\ \A v \in ActiveVectors(e) : e.vectors[v].owner \in A =>
              \E m \in DOMAIN c.vectors :
                c.vectors[m] = [e.vectors[v] EXCEPT !.owner = Rank(A, e.vectors[v].owner)]
      /\ \A m \in DOMAIN c.vectors : \E v \in ActiveVectors(e) :
              /\ e.vectors[v].owner \in A
              /\ c.vectors[m] = [e.vectors[v] EXCEPT !.owner = Rank(A, e.vectors[v].owner)]
  BY CompactedFacts
<1>4. \A f \in A : e.frames[f] \in FrameType /\ e.frames[f].active
  BY EngineFacts DEF ActiveFrames
<1>5. \A v \in ActiveVectors(e) : e.vectors[v] \in VectorType /\ e.vectors[v].active
  BY EngineFacts DEF ActiveVectors
<1> HIDE DEF c, A
<1>6. /\ EngineOK(d)
      /\ DOMAIN d.frames = DOMAIN c.frames /\ DOMAIN d.vectors = DOMAIN c.vectors
      /\ \A f \in DOMAIN c.frames : d.frames[f] = On(c.frames[f])
      /\ \A v \in DOMAIN c.vectors : d.vectors[v] = On(c.vectors[v])
      /\ d.spaces = c.spaces /\ d.colls = c.colls
  BY <1>1, ImageFacts
<1> HIDE DEF d
<1>7. AllStored(d)
  <2>1. /\ \A f \in DOMAIN c.frames : On(c.frames[f]).stored
        /\ \A v \in DOMAIN c.vectors : On(c.vectors[v]).stored
    BY <1>1, EngineFacts, OnFrame, OnVector
  <2> QED
    BY <1>6, <2>1 DEF AllStored
<1>8. ASSUME NEW f \in A
      PROVE  /\ Rank(A, f) \in DOMAIN d.frames
             /\ d.frames[Rank(A, f)].kind = Survives(e, f)
             /\ d.frames[Rank(A, f)].coll = e.frames[f].coll
             /\ d.frames[Rank(A, f)].key = e.frames[f].key
             /\ d.frames[Rank(A, f)].val = e.frames[f].val
             /\ d.frames[Rank(A, f)].vec = e.frames[f].vec
             /\ d.frames[Rank(A, f)].active
  <2> DEFINE r == Rank(A, f)
             x == c.frames[r]
  <2>1. r \in DOMAIN c.frames /\ d.frames[r] = On(x) /\ r \in DOMAIN d.frames
    BY <1>2, <1>6
  <2>2. x = IF e.frames[f].stored THEN e.frames[f] ELSE [e.frames[f] EXCEPT !.kind = "keyless"]
    BY <1>2
  <2>3. x \in FrameType
    BY <1>1, <2>1, EngineFacts
  <2>4. e.frames[f] \in FrameType /\ e.frames[f].active
    BY <1>4
  <2> HIDE DEF r, x
  <2>5. /\ x.kind = Survives(e, f) /\ x.coll = e.frames[f].coll
        /\ x.key = e.frames[f].key /\ x.val = e.frames[f].val
        /\ x.vec = e.frames[f].vec /\ x.active = e.frames[f].active
    <3>1. PICK y : y = e.frames[f]
      OBVIOUS
    <3>2. y \in FrameType /\ x = IF y.stored THEN y ELSE [y EXCEPT !.kind = "keyless"]
      BY <2>2, <2>4, <3>1
    <3>3. /\ x.kind = IF y.stored THEN y.kind ELSE "keyless"
          /\ x.coll = y.coll /\ x.key = y.key /\ x.val = y.val /\ x.vec = y.vec /\ x.active = y.active
      BY <3>2 DEF FrameType
    <3> QED
      BY <3>1, <3>3 DEF Survives
  <2>6. /\ On(x).kind = x.kind /\ On(x).coll = x.coll /\ On(x).key = x.key
        /\ On(x).val = x.val /\ On(x).vec = x.vec /\ On(x).active = x.active
    BY <2>3, OnFrame
  <2> QED
    BY <2>1, <2>4, <2>5, <2>6 DEF r
<1>9. ASSUME NEW v \in ActiveVectors(e), NEW m \in DOMAIN c.vectors,
             c.vectors[m] = [e.vectors[v] EXCEPT !.owner = Rank(A, e.vectors[v].owner)]
      PROVE  d.vectors[m].active /\ d.vectors[m].owner = Rank(A, e.vectors[v].owner)
  <2>1. c.vectors[m] \in VectorType /\ d.vectors[m] = On(c.vectors[m])
    BY <1>1, <1>6, EngineFacts
  <2>2. c.vectors[m].active /\ c.vectors[m].owner = Rank(A, e.vectors[v].owner)
    BY <1>5, <1>9 DEF VectorType
  <2> QED
    BY <2>1, <2>2, OnVector
<1>10. ASSUME NEW v \in ActiveVectors(e), e.vectors[v].owner \in A
       PROVE  \E m \in ActiveVectors(d) : d.vectors[m].owner = Rank(A, e.vectors[v].owner)
  <2>1. PICK m \in DOMAIN c.vectors :
          c.vectors[m] = [e.vectors[v] EXCEPT !.owner = Rank(A, e.vectors[v].owner)]
    BY <1>3, <1>10
  <2>2. d.vectors[m].active /\ d.vectors[m].owner = Rank(A, e.vectors[v].owner)
    BY <1>9, <2>1
  <2>3. m \in ActiveVectors(d)
    BY <1>6, <2>2 DEF ActiveVectors
  <2> QED
    BY <2>2, <2>3
<1>11. ASSUME NEW m \in DOMAIN d.vectors
       PROVE  \E v \in ActiveVectors(e) :
                e.vectors[v].owner \in A /\ d.vectors[m].owner = Rank(A, e.vectors[v].owner)
  <2>0. m \in DOMAIN c.vectors
    BY <1>6
  <2>1. PICK v \in ActiveVectors(e) :
              /\ e.vectors[v].owner \in A
              /\ c.vectors[m] = [e.vectors[v] EXCEPT !.owner = Rank(A, e.vectors[v].owner)]
    BY <1>3, <2>0
  <2>2. d.vectors[m].owner = Rank(A, e.vectors[v].owner)
    BY <1>9, <2>0, <2>1
  <2> QED
    BY <2>1, <2>2
<1>12. /\ \A f, g \in A : Rank(A, f) = Rank(A, g) => f = g
       /\ \A n \in DOMAIN d.frames : \E f \in A : n = Rank(A, f)
  BY <1>2, <1>6
<1>13. d.spaces = e.spaces /\ d.colls = e.colls
  BY <1>1, <1>6
<1> QED
  BY <1>6, <1>7, <1>8, <1>10, <1>11, <1>12, <1>13 DEF c, d, A

(* The engine behind put_frame and put_vector, before the prior version is *)
(* tombstoned.                                                             *)
Written(e, r, s, t, n, vec) == Appended(Declared(e, s[1], r), s, t, n, vec)
WrittenFrame(e, r, s) == NewFrame(Declared(e, s[1], r))

WrittenOK(e, r, s, t, n, vec, d, f) ==
  /\ Kept(e, d, {}, {})
  /\ d.vectors = e.vectors /\ d.spaces = e.spaces
  /\ d.colls \subseteq e.colls \cup {s[1]}
  /\ f \in DOMAIN d.frames \ DOMAIN e.frames
  /\ d.frames[f] = Frame("record", s[1], s[2], n, t, vec)
  /\ \A g \in DOMAIN d.frames \ DOMAIN e.frames : g = f \/ d.frames[g] = DocFrame(e, s[1])
  /\ s[1] \notin r.shapes => s[1] \in d.colls /\ DocsOf(d, s[1]) # {}

LEMMA WrittenFacts ==
  ASSUME NEW e, EngineOK(e), NEW r, NEW s \in Slots, NEW t \in Times, NEW n \in Nat,
         NEW vec \in BOOLEAN
  PROVE  WrittenOK(e, r, s, t, n, vec, Written(e, r, s, t, n, vec), WrittenFrame(e, r, s))
<1> DEFINE m == Declared(e, s[1], r)
           d == Appended(m, s, t, n, vec)
           f == NewFrame(m)
<1>0. s[1] \in Colls
  BY DEF Slots
<1>1. /\ Kept(e, m, {}, {})
      /\ m.vectors = e.vectors /\ m.spaces = e.spaces
      /\ m.colls \subseteq e.colls \cup {s[1]}
      /\ \A g \in DOMAIN m.frames \ DOMAIN e.frames : m.frames[g] = DocFrame(e, s[1])
      /\ s[1] \notin r.shapes => s[1] \in m.colls /\ DocsOf(m, s[1]) # {}
  BY <1>0, DeclaredFacts
<1>2. EngineOK(m)
  BY <1>1 DEF Kept
<1> HIDE DEF m
<1>3. /\ Kept(m, d, {}, {})
      /\ d.vectors = m.vectors /\ d.spaces = m.spaces /\ d.colls = m.colls
      /\ f \notin DOMAIN m.frames
      /\ DOMAIN d.frames = DOMAIN m.frames \cup {f}
      /\ d.frames[f] = Frame("record", s[1], s[2], n, t, vec)
  BY <1>2, AppendedFacts
<1> HIDE DEF d, f
<1>4. Kept(e, d, {}, {})
  BY <1>1, <1>3, KeptTrans
<1>5. \A g \in DOMAIN m.frames : d.frames[g] = m.frames[g]
  BY <1>3 DEF Kept
<1>6. DocsOf(m, s[1]) \subseteq DocsOf(d, s[1])
  BY <1>3, <1>5 DEF DocsOf, ActiveFrames
<1>7. f \in DOMAIN d.frames \ DOMAIN e.frames
  BY <1>1, <1>3 DEF Kept
<1>8. \A g \in DOMAIN d.frames \ DOMAIN e.frames : g = f \/ d.frames[g] = DocFrame(e, s[1])
  BY <1>1, <1>3, <1>5
<1>9. WrittenOK(e, r, s, t, n, vec, d, f)
  BY <1>1, <1>3, <1>4, <1>6, <1>7, <1>8 DEF WrittenOK
<1> QED
  BY <1>9 DEF d, f, m, Written, WrittenFrame

(***************************************************************************)
(* The inductive invariant, in layers.                                     *)
(***************************************************************************)
CoreType ==
  [by : {"app", "bulk", "forget"}, pc : {"idle", "full", "commit", "mark"},
   staged : Seq(StagedType), seen : SUBSET Slots, pending : Nat,
   expired : SUBSET Colls, fresh : BOOLEAN]
WriterOK ==
  \/ writer = NoWriter
  \/ writer \in CoreType /\ (writer.by # "forget" => writer.expired = {})
  \/ /\ writer = [by |-> "compact", pc |-> writer.pc, source |-> writer.source, temp |-> writer.temp]
     /\ writer.pc \in {"rename", "publish"}
     /\ EngineOK(writer.source) /\ EngineOK(writer.temp) /\ AllStored(writer.temp)
ReaderOK ==
  \/ reader = IdleReader
  \/ /\ reader = [pc |-> "looked", slot |-> reader.slot, entry |-> reader.entry,
                  space |-> reader.space, held |-> reader.held]
     /\ reader.slot \in Slots

Types ==
  /\ EngineOK(disk) /\ AllStored(disk) /\ EngineOK(eng)
  /\ reg \in [shapes : SUBSET Colls, space : Nat] /\ reg.space <= eng.spaces
  /\ ident \in [Slots -> EntryType]
  /\ batch \subseteq Slots
  /\ puts \in Nat
  /\ WriterOK /\ ReaderOK
  /\ faults \subseteq {"orphan", "vectors", "forget", "compact"}

(* f is a frame of a record of slot s.                                     *)
RecordOf(e, f, s) ==
  /\ f \in DOMAIN e.frames /\ e.frames[f].kind = "record"
  /\ e.frames[f].coll = s[1] /\ e.frames[f].key = s[2]

(* An entry names a record of its key, whatever became of it since.        *)
Entries ==
  \A s \in Slots :
    /\ ident[s] # NoEntry => RecordOf(eng, ident[s].frame, s)
    /\ ident[s].vectors \subseteq DOMAIN eng.vectors

(* A deferred vector is that of the newest version of its key, which is    *)
(* active; the commit that writes it leaves none behind.                   *)
StagedOK ==
  writer.by \in {"app", "bulk", "forget"} =>
    /\ \A i \in DOMAIN writer.staged :
         /\ ident[writer.staged[i].slot].frame = writer.staged[i].owner
         /\ writer.staged[i].owner \in ActiveFrames(eng)
         /\ writer.staged[i].val = eng.frames[writer.staged[i].owner].val
         /\ eng.frames[writer.staged[i].owner].vec
    /\ writer.by = "forget" \/ writer.pc \in {"commit", "mark"} => writer.staged = <<>>

(* What is uncommitted is in the batch, and Bulk has seen all of it.       *)
BatchOK ==
  /\ \A s \in Slots : ident[s] # NoEntry /\ ~ident[s].committed => s \in batch
  /\ writer.by = "bulk" /\ writer.fresh => batch \subseteq writer.seen

Sound == Types /\ Entries /\ StagedOK /\ BatchOK

LEMMA WriterKinds ==
  ASSUME WriterOK
  PROVE  /\ writer.by \in {"none", "app", "bulk", "forget", "compact"}
         /\ writer.by = "none" <=> writer = NoWriter
         /\ writer.by \in {"app", "bulk", "forget"} =>
              writer \in CoreType /\ (writer.by # "forget" => writer.expired = {})
         /\ writer.by = "compact" =>
              /\ writer = [by |-> "compact", pc |-> writer.pc, source |-> writer.source, temp |-> writer.temp]
              /\ writer.pc \in {"rename", "publish"}
              /\ EngineOK(writer.source) /\ EngineOK(writer.temp) /\ AllStored(writer.temp)
<1>1. NoWriter.by = "none"
  BY DEF NoWriter
<1>2. writer \in CoreType => writer.by \in {"app", "bulk", "forget"}
  BY DEF CoreType
<1>3. writer = [by |-> "compact", pc |-> writer.pc, source |-> writer.source, temp |-> writer.temp]
        => writer.by = "compact"
  OBVIOUS
<1> QED
  BY <1>1, <1>2, <1>3 DEF WriterOK

(***************************************************************************)
(* What each step does, in the terms of the invariant.                     *)
(***************************************************************************)
NewFrames == DOMAIN eng'.frames \ DOMAIN eng.frames
NewVectors == DOMAIN eng'.vectors \ DOMAIN eng.vectors
IsDoc(fr, c) == fr.kind = "doc" /\ fr.coll = c /\ fr.active /\ ~fr.vec

(* The rows of an entry that a put or a delete tombstones.                 *)
DeadFrames(en) == IF en = NoEntry THEN {} ELSE {en.frame}
DeadVectors(en) == IF en # NoEntry /\ en.committed THEN en.vectors ELSE {}

PutEngine(s, vec, f, nv) ==
  /\ Kept(eng, eng', DeadFrames(ident[s]), DeadVectors(ident[s]))
  /\ f \in NewFrames
  /\ RecordOf(eng', f, s) /\ eng'.frames[f].active /\ ~eng'.frames[f].stored
  /\ eng'.frames[f].val = puts' /\ eng'.frames[f].vec = vec
  /\ \A g \in NewFrames : g = f \/ IsDoc(eng'.frames[g], s[1])
  /\ nv = NewVectors
  /\ \A v \in nv : /\ vec /\ eng'.vectors[v].owner = f
                   /\ eng'.vectors[v].active /\ ~eng'.vectors[v].stored
  /\ vec /\ reg.space # 0 => nv # {}
  /\ ~vec \/ reg.space = 0 => nv = {}
  /\ eng'.spaces = eng.spaces
  /\ s[1] \notin reg.shapes => s[1] \in eng'.colls /\ DocsOf(eng', s[1]) # {}
  /\ ident[s] # NoEntry =>
       ident[s].frame \in ActiveFrames(eng) /\ ident[s].vectors \subseteq ActiveVectors(eng)
  /\ reg' = Bound(reg, s[1])
  /\ ident' = [ident EXCEPT ![s] = Entry(f, nv, FALSE)]
  /\ batch' = batch \cup {s}

LEMMA DocFrameFacts ==
  ASSUME NEW e, NEW c
  PROVE  /\ IsDoc(DocFrame(e, c), c)
  BY DEF DocFrame, Frame, IsDoc

LEMMA PutEngineFacts ==
  ASSUME Sound, NEW s \in Slots, NEW t \in Times, NEW vec \in BOOLEAN, puts' \in Nat, Put(s, t, vec)
  PROVE  PutEngine(s, vec, WrittenFrame(eng, reg, s), NewVectors)
<1>n. PICK n \in Nat : n = puts'
  OBVIOUS
<1> DEFINE prev == ident[s]
           f == WrittenFrame(eng, reg, s)
           e1 == Written(eng, reg, s, t, n, vec)
           now == vec /\ reg.space # 0
           e2 == IF now THEN PutVector(e1, f, n) ELSE e1
           nv == IF now THEN {Len(e2.vectors)} ELSE {}
<1>0. /\ EngineOK(eng) /\ reg.space \in Nat /\ eng.spaces \in Nat /\ reg.space <= eng.spaces
      /\ prev \in EntryType
      /\ prev # NoEntry => RecordOf(eng, prev.frame, s)
      /\ prev.vectors \subseteq DOMAIN eng.vectors
  BY EngineFacts DEF Sound, Types, Entries
<1>1. /\ prev # NoEntry => CanTombstone(e2, prev)
      /\ reg' = Bound(reg, s[1])
      /\ eng' = Replaced(e2, prev)
      /\ ident' = [ident EXCEPT ![s] = Entry(f, nv, FALSE)]
      /\ batch' = batch \cup {s}
  BY <1>n DEF Put, Written, WrittenFrame
<1>2. /\ Kept(eng, e1, {}, {})
      /\ e1.vectors = eng.vectors /\ e1.spaces = eng.spaces
      /\ e1.colls \subseteq eng.colls \cup {s[1]}
      /\ f \in DOMAIN e1.frames \ DOMAIN eng.frames
      /\ e1.frames[f] = Frame("record", s[1], s[2], n, t, vec)
      /\ \A g \in DOMAIN e1.frames \ DOMAIN eng.frames : g = f \/ e1.frames[g] = DocFrame(eng, s[1])
      /\ s[1] \notin reg.shapes => s[1] \in e1.colls /\ DocsOf(e1, s[1]) # {}
  <2>1. EngineOK(eng)
    BY <1>0
  <2>2. WrittenOK(eng, reg, s, t, n, vec, e1, f)
    BY <2>1, WrittenFacts
  <2> HIDE DEF e1, f
  <2> QED
    BY <2>2 DEF WrittenOK
<1> HIDE DEF e1, f
<1>3. PICK fr : fr = e1.frames[f]
  OBVIOUS
<1>4. fr.kind = "record" /\ fr.coll = s[1] /\ fr.key = s[2] /\ fr.val = n /\ fr.vec = vec
      /\ fr.active /\ ~fr.stored
  BY <1>2, <1>3 DEF Frame
<1>5. EngineOK(e1)
  BY <1>2 DEF Kept
<1>6. /\ Kept(eng, e2, {}, {})
      /\ e2.frames = e1.frames /\ e2.spaces = eng.spaces /\ e2.colls = e1.colls
      /\ nv = DOMAIN e2.vectors \ DOMAIN eng.vectors
      /\ \A v \in nv : e2.vectors[v].owner = f /\ e2.vectors[v].active /\ ~e2.vectors[v].stored
  <2>1. CASE ~now
    <3>1. e2 = e1 /\ nv = {}
      BY <2>1
    <3> QED
      BY <1>2, <3>1
  <2>2. CASE now
    <3> DEFINE d == PutVector(e1, f, n)
    <3>0. reg.space # 0
      BY <2>2
    <3>a. e1.spaces # 0
      BY <1>0, <1>2, <3>0
    <3>1. e1.spaces # 0 /\ f \in DOMAIN e1.frames /\ n = e1.frames[f].val
      BY <1>2, <1>3, <1>4, <3>a
    <3>2. /\ Kept(e1, d, {}, {})
          /\ d.frames = e1.frames /\ d.spaces = e1.spaces /\ d.colls = e1.colls
          /\ Len(d.vectors) \notin DOMAIN e1.vectors
          /\ DOMAIN d.vectors = DOMAIN e1.vectors \cup {Len(d.vectors)}
          /\ d.vectors[Len(d.vectors)] = Vector(e1.spaces, f, n)
      BY <1>5, <3>1, PutVectorFacts
    <3>3. e2 = d /\ nv = {Len(d.vectors)}
      BY <2>2
    <3> HIDE DEF e2, d, nv
    <3>4. Kept(eng, d, {}, {})
      BY <1>0, <1>2, <3>2, KeptTrans
    <3>5. d.vectors[Len(d.vectors)].owner = f /\ d.vectors[Len(d.vectors)].active
          /\ ~d.vectors[Len(d.vectors)].stored
      BY <3>2 DEF Vector
    <3> QED
      BY <1>2, <3>2, <3>3, <3>4, <3>5
  <2> QED
    BY <2>1, <2>2
<1>7. now => nv # {}
  OBVIOUS
<1>8. ~now => nv = {}
  OBVIOUS
<1> HIDE DEF e2, nv
<1>9. EngineOK(e2)
  BY <1>6 DEF Kept
<1>10. /\ Kept(e2, eng', DeadFrames(prev), DeadVectors(prev))
       /\ DOMAIN eng'.frames = DOMAIN e2.frames /\ DOMAIN eng'.vectors = DOMAIN e2.vectors
       /\ eng'.spaces = e2.spaces /\ eng'.colls = e2.colls
  <2>1. CASE prev = NoEntry
    <3>1. eng' = e2 /\ DeadFrames(prev) = {} /\ DeadVectors(prev) = {}
      BY <1>1, <2>1 DEF Replaced, DeadFrames, DeadVectors
    <3> QED
      BY <1>9, <3>1, KeptRefl
  <2>2. CASE prev # NoEntry
    <3>1. eng' = Tombstoned(e2, prev) /\ prev.frame \in DOMAIN e2.frames
      BY <1>1, <2>2 DEF Replaced, CanTombstone, ActiveFrames
    <3>2. DeadFrames(prev) = {prev.frame} /\ DeadVectors(prev) = IF prev.committed THEN prev.vectors ELSE {}
      BY <2>2 DEF DeadFrames, DeadVectors
    <3> QED
      BY <1>9, <3>1, <3>2, TombstonedFacts
  <2> QED
    BY <2>1, <2>2
<1>11. /\ DeadFrames(prev) \subseteq DOMAIN eng.frames /\ DeadVectors(prev) \subseteq DOMAIN eng.vectors
       /\ \A g \in DeadFrames(prev) : eng.frames[g].kind = "record"
  BY <1>0 DEF DeadFrames, DeadVectors, RecordOf
<1>12. Kept(eng, eng', DeadFrames(prev), DeadVectors(prev))
  BY <1>0, <1>6, <1>10, KeptTrans
<1>13. /\ \A g \in DOMAIN e2.frames \ DeadFrames(prev) : eng'.frames[g] = e2.frames[g]
       /\ \A v \in DOMAIN e2.vectors \ DeadVectors(prev) : eng'.vectors[v] = e2.vectors[v]
  BY <1>10 DEF Kept
<1>14. f \in NewFrames /\ eng'.frames[f] = fr
  BY <1>2, <1>3, <1>6, <1>10, <1>11, <1>13 DEF NewFrames
<1>15. \A g \in NewFrames : g = f \/ IsDoc(eng'.frames[g], s[1])
  <2> TAKE g \in NewFrames
  <2>1. g \in DOMAIN e1.frames \ DOMAIN eng.frames /\ eng'.frames[g] = e1.frames[g]
    BY <1>6, <1>10, <1>11, <1>13 DEF NewFrames
  <2> QED
    BY <1>2, <2>1, DocFrameFacts
<1>16. nv = NewVectors
       /\ \A v \in nv : eng'.vectors[v].owner = f /\ eng'.vectors[v].active /\ ~eng'.vectors[v].stored
  BY <1>6, <1>10, <1>11, <1>13 DEF NewVectors
<1>17. s[1] \notin reg.shapes => s[1] \in eng'.colls /\ DocsOf(eng', s[1]) # {}
  <2> SUFFICES ASSUME s[1] \notin reg.shapes PROVE s[1] \in eng'.colls /\ DocsOf(eng', s[1]) # {}
    OBVIOUS
  <2>1. s[1] \in eng'.colls
    BY <1>2, <1>6, <1>10
  <2>2. PICK g \in DocsOf(e1, s[1]) : TRUE
    BY <1>2
  <2>3. g \in DOMAIN e2.frames /\ e2.frames[g].active /\ e2.frames[g].kind = "doc" /\ e2.frames[g].coll = s[1]
    BY <1>6, <2>2 DEF DocsOf, ActiveFrames
  <2>4. g \notin DeadFrames(prev)
    <3>1. \A h \in DOMAIN eng.frames : e2.frames[h] = eng.frames[h]
      BY <1>6 DEF Kept
    <3> QED
      BY <1>11, <2>3, <3>1
  <2>5. g \in DocsOf(eng', s[1])
    BY <1>10, <1>13, <2>3, <2>4 DEF DocsOf, ActiveFrames
  <2> QED
    BY <2>1, <2>5
<1>18. prev # NoEntry =>
         prev.frame \in ActiveFrames(eng) /\ prev.vectors \subseteq ActiveVectors(eng)
  <2> SUFFICES ASSUME prev # NoEntry
               PROVE  prev.frame \in ActiveFrames(eng) /\ prev.vectors \subseteq ActiveVectors(eng)
    OBVIOUS
  <2>1. prev.frame \in ActiveFrames(e2) /\ prev.vectors \subseteq ActiveVectors(e2)
    BY <1>1 DEF CanTombstone
  <2>2. prev.frame \in DOMAIN eng.frames /\ prev.vectors \subseteq DOMAIN eng.vectors
    BY <1>0 DEF RecordOf
  <2>3. /\ \A g \in DOMAIN eng.frames : e2.frames[g] = eng.frames[g]
        /\ \A v \in DOMAIN eng.vectors : e2.vectors[v] = eng.vectors[v]
    BY <1>6 DEF Kept
  <2> QED
    BY <2>1, <2>2, <2>3 DEF ActiveFrames, ActiveVectors
<1>19. RecordOf(eng', f, s)
  BY <1>4, <1>14 DEF RecordOf, NewFrames
<1>20. eng'.spaces = eng.spaces
  BY <1>6, <1>10
<1> HIDE DEF prev
<1> QED
  <2>1. PutEngine(s, vec, f, nv)
    BY <1>n, <1>1, <1>4, <1>7, <1>8, <1>12, <1>14, <1>15, <1>16, <1>17, <1>18, <1>19, <1>20 DEF PutEngine, prev
  <2> QED
    BY <1>16, <2>1 DEF f

PutWriter(s, vec, f) ==
  /\ writer \in CoreType /\ writer.by \in {"app", "bulk"} /\ writer.pc = "idle"
  /\ writer' \in CoreType /\ writer'.by = writer.by /\ writer'.pc \in {"idle", "full"}
  /\ writer.expired = {} /\ writer'.expired = {} /\ writer'.fresh = writer.fresh
  /\ writer'.seen = IF writer.by = "bulk" THEN writer.seen \cup {s} ELSE writer.seen
  /\ \A j \in DOMAIN writer'.staged :
       \/ \E i \in DOMAIN writer.staged :
            writer'.staged[j] = writer.staged[i] /\ writer.staged[i].owner \notin DeadFrames(ident[s])
       \/ vec /\ writer'.staged[j] = [slot |-> s, owner |-> f, val |-> puts']
  /\ \A i \in DOMAIN writer.staged :
       writer.staged[i].owner \notin DeadFrames(ident[s]) =>
         \E j \in DOMAIN writer'.staged : writer'.staged[j] = writer.staged[i]
  /\ vec /\ reg.space = 0 => \E j \in DOMAIN writer'.staged : writer'.staged[j].owner = f

LEMMA CoreFacts ==
  ASSUME NEW w \in CoreType
  PROVE  /\ w.by \in {"app", "bulk", "forget"} /\ w.pc \in {"idle", "full", "commit", "mark"}
         /\ w.staged \in Seq(StagedType) /\ w.seen \subseteq Slots /\ w.pending \in Nat
         /\ w.expired \subseteq Colls /\ w.fresh \in BOOLEAN
  BY DEF CoreType

NotedOK(w, s, st, x) ==
  /\ x \in CoreType /\ x.by = w.by /\ x.pc \in {"idle", "full"} /\ x.expired = w.expired
  /\ x.fresh = w.fresh /\ x.staged = st
  /\ x.seen = IF w.by = "bulk" THEN w.seen \cup {s} ELSE w.seen
LEMMA NotedFacts ==
  ASSUME NEW w \in CoreType, NEW s \in Slots, NEW st \in Seq(StagedType), w.pc = "idle"
  PROVE  NotedOK(w, s, st, [Noted(w, s) EXCEPT !.staged = st])
<1> DEFINE x == [Noted(w, s) EXCEPT !.staged = st]
<1> SUFFICES NotedOK(w, s, st, x)
  OBVIOUS
<1>1. CASE w.by # "bulk"
  <2>1. x = [w EXCEPT !.staged = st]
    BY <1>1 DEF Noted
  <2> HIDE DEF x
  <2> QED
    BY <1>1, <2>1 DEF CoreType, NotedOK
<1>2. CASE w.by = "bulk"
  <2>1. PICK p : p = IF w.pending + 1 >= BulkThreshold THEN "full" ELSE w.pc
    OBVIOUS
  <2>2. Noted(w, s) = [[w EXCEPT !.pending = @ + 1, !.pc = p] EXCEPT !.seen = @ \cup {s}]
    BY <1>2, <2>1 DEF Noted, Counted
  <2>3. p \in {"idle", "full"}
    BY <2>1
  <2>4. x = [w EXCEPT !.pending = @ + 1, !.pc = p, !.seen = @ \cup {s}, !.staged = st]
    BY <2>2 DEF CoreType
  <2>5. x = [by |-> w.by, pc |-> p, staged |-> st, seen |-> w.seen \cup {s},
             pending |-> w.pending + 1, expired |-> w.expired, fresh |-> w.fresh]
    <3> HIDE DEF x
    <3> QED
      BY <2>4 DEF CoreType
  <2> HIDE DEF x
  <2>6. w.pending + 1 \in Nat /\ w.seen \cup {s} \subseteq Slots
    BY CoreFacts
  <2>7. x \in CoreType
    BY <1>2, <2>3, <2>5, <2>6, CoreFacts DEF CoreType
  <2> QED
    BY <1>2, <2>3, <2>5, <2>7 DEF NotedOK
<1> QED
  BY <1>1, <1>2

LEMMA PutWriterFacts ==
  ASSUME Sound, NEW s \in Slots, NEW t \in Times, NEW vec \in BOOLEAN, puts' \in Nat, Put(s, t, vec),
         App
  PROVE  PutWriter(s, vec, WrittenFrame(eng, reg, s))
<1>0. writer \in CoreType /\ writer.by \in {"app", "bulk"} /\ writer.pc = "idle" /\ writer.expired = {}
  <2>1. WriterOK
    BY DEF Sound, Types
  <2> QED
    BY <2>1, WriterKinds DEF App
<1> DEFINE prev == ident[s]
           f == WrittenFrame(eng, reg, s)
           late == IF vec /\ reg.space = 0
                   THEN <<[slot |-> s, owner |-> f, val |-> puts']>> ELSE <<>>
           kept == IF prev = NoEntry THEN writer.staged
                   ELSE Without(writer.staged, prev.frame)
<1>1. writer' = [Noted(writer, s) EXCEPT !.staged = kept \o late]
  BY DEF Put, Written, WrittenFrame
<1>2. f \in Nat
  <2>1. PICK n \in Nat : n = puts'
    OBVIOUS
  <2>2. EngineOK(eng)
    BY DEF Sound, Types
  <2>3. WrittenOK(eng, reg, s, t, n, vec, Written(eng, reg, s, t, n, vec), f)
    BY <2>2, WrittenFacts
  <2> HIDE DEF f
  <2> DEFINE d == Written(eng, reg, s, t, n, vec)
  <2> HIDE DEF d
  <2>4. f \in DOMAIN d.frames /\ EngineOK(d)
    BY <2>3 DEF WrittenOK, Kept, d
  <2> QED
    BY <2>4, EngineFacts
<1> HIDE DEF f
<1> DEFINE x == [slot |-> s, owner |-> f, val |-> puts']
<1>3. x \in StagedType
  BY <1>2 DEF StagedType
<1>4. late \in Seq(StagedType) /\ (vec /\ reg.space = 0 => Len(late) = 1 /\ late[1] = x)
      /\ (~(vec /\ reg.space = 0) => Len(late) = 0)
  BY <1>3
<1>5. /\ kept \in Seq(StagedType)
      /\ \A i \in DOMAIN kept : \E j \in DOMAIN writer.staged :
           kept[i] = writer.staged[j] /\ writer.staged[j].owner \notin DeadFrames(prev)
      /\ \A j \in DOMAIN writer.staged : writer.staged[j].owner \notin DeadFrames(prev) =>
           \E i \in DOMAIN kept : kept[i] = writer.staged[j]
  <2>0. writer.staged \in Seq(StagedType)
    BY <1>0, CoreFacts
  <2>1. CASE prev = NoEntry
    BY <2>0, <2>1 DEF DeadFrames
  <2>2. CASE prev # NoEntry
    <3>1. DeadFrames(prev) = {prev.frame} /\ kept = Without(writer.staged, prev.frame)
      BY <2>2 DEF DeadFrames
    <3>2. WithoutOK(writer.staged, prev.frame, kept)
      BY <2>0, <3>1, WithoutFacts
    <3> HIDE DEF kept, prev
    <3> QED
      BY <3>1, <3>2 DEF WithoutOK
  <2> QED
    BY <2>1, <2>2
<1> HIDE DEF late, kept, x
<1>6. /\ kept \o late \in Seq(StagedType)
      /\ Len(kept) \in Nat /\ Len(late) \in Nat /\ DOMAIN kept = 1..Len(kept) /\ DOMAIN late = 1..Len(late)
      /\ DOMAIN (kept \o late) = 1..(Len(kept) + Len(late))
      /\ \A i \in 1..(Len(kept) + Len(late)) :
           (kept \o late)[i] = IF i <= Len(kept) THEN kept[i] ELSE late[i - Len(kept)]
  BY <1>4, <1>5, ConcatProperties, LenProperties
<1> DEFINE st == kept \o late
<1> HIDE DEF st
<1>7. /\ writer' \in CoreType /\ writer'.by = writer.by /\ writer'.pc \in {"idle", "full"}
      /\ writer'.expired = writer.expired
      /\ writer'.fresh = writer.fresh /\ writer'.staged = st
      /\ writer'.seen = IF writer.by = "bulk" THEN writer.seen \cup {s} ELSE writer.seen
  <2>1. st \in Seq(StagedType) /\ writer' = [Noted(writer, s) EXCEPT !.staged = st]
    BY <1>1, <1>6 DEF st
  <2>2. NotedOK(writer, s, st, writer')
    BY <1>0, <2>1, NotedFacts
  <2> QED
    BY <2>2 DEF NotedOK
<1>8. ASSUME NEW j \in DOMAIN st
      PROVE  \/ \E i \in DOMAIN writer.staged :
                  st[j] = writer.staged[i] /\ writer.staged[i].owner \notin DeadFrames(prev)
             \/ vec /\ st[j] = x
  <2>1. CASE j <= Len(kept)
    <3>1. j \in DOMAIN kept /\ st[j] = kept[j]
      BY <1>6, <1>8, <2>1 DEF st
    <3> QED
      BY <1>5, <3>1
  <2>2. CASE ~(j <= Len(kept))
    <3>1. j - Len(kept) \in 1..Len(late) /\ st[j] = late[j - Len(kept)]
      BY <1>6, <1>8, <2>2 DEF st
    <3>2. vec /\ reg.space = 0 /\ j - Len(kept) = 1
      BY <1>4, <3>1
    <3> QED
      BY <1>4, <3>1, <3>2
  <2> QED
    BY <2>1, <2>2
<1>9. ASSUME NEW i \in DOMAIN writer.staged, writer.staged[i].owner \notin DeadFrames(prev)
      PROVE  \E j \in DOMAIN st : st[j] = writer.staged[i]
  <2>1. PICK j \in DOMAIN kept : kept[j] = writer.staged[i]
    BY <1>5, <1>9
  <2>2. j \in DOMAIN st /\ st[j] = kept[j]
    BY <1>6 DEF st
  <2> QED
    BY <2>1, <2>2
<1>10. vec /\ reg.space = 0 => \E j \in DOMAIN st : st[j].owner = f
  <2> SUFFICES ASSUME vec, reg.space = 0 PROVE \E j \in DOMAIN st : st[j].owner = f
    OBVIOUS
  <2>1. Len(kept) + 1 \in DOMAIN st /\ st[Len(kept) + 1] = late[1]
    BY <1>4, <1>6 DEF st
  <2>2. late[1].owner = f
    BY <1>4 DEF x
  <2> QED
    BY <2>1, <2>2
<1> QED
  BY <1>0, <1>7, <1>8, <1>9, <1>10 DEF PutWriter, f, x

FailEngine(s, f) ==
  /\ Kept(eng, eng', {}, {})
  /\ f \in NewFrames /\ RecordOf(eng', f, s)
  /\ \A g \in NewFrames : g = f \/ IsDoc(eng'.frames[g], s[1])
  /\ s[1] \notin reg.shapes => s[1] \in eng'.colls /\ DocsOf(eng', s[1]) # {}
  /\ reg' = Bound(reg, s[1])

LEMMA FailFacts ==
  ASSUME Sound, NEW s \in Slots, NEW t \in Times, NEW vec \in BOOLEAN, puts' \in Nat, PutFails(s, t, vec)
  PROVE  FailEngine(s, WrittenFrame(eng, reg, s))
<1>n. PICK n \in Nat : n = puts'
  OBVIOUS
<1> DEFINE f == WrittenFrame(eng, reg, s)
           e1 == Written(eng, reg, s, t, n, vec)
<1>0. EngineOK(eng) /\ reg.space \in Nat /\ eng.spaces \in Nat /\ reg.space <= eng.spaces
  BY EngineFacts DEF Sound, Types
<1>1. /\ reg' = Bound(reg, s[1])
      /\ \/ eng' = e1
         \/ vec /\ reg.space # 0 /\ eng' = PutVector(e1, f, n)
  BY <1>n DEF PutFails, Written, WrittenFrame
<1>2. WrittenOK(eng, reg, s, t, n, vec, e1, f)
  BY <1>0, WrittenFacts
<1> HIDE DEF e1, f
<1>3. PICK fr : fr = e1.frames[f]
  OBVIOUS
<1>4. fr.kind = "record" /\ fr.coll = s[1] /\ fr.key = s[2] /\ fr.val = n
  BY <1>2, <1>3 DEF Frame, WrittenOK
<1>5. EngineOK(e1) /\ f \in DOMAIN e1.frames \ DOMAIN eng.frames /\ e1.spaces = eng.spaces
      /\ Kept(eng, e1, {}, {})
  BY <1>2 DEF Kept, WrittenOK
<1>6. Kept(eng, eng', {}, {}) /\ eng'.frames = e1.frames /\ eng'.colls = e1.colls
  <2>1. CASE eng' = e1
    BY <1>5, <2>1
  <2>2. CASE vec /\ reg.space # 0 /\ eng' = PutVector(e1, f, n)
    <3>0. e1.spaces # 0
      BY <1>0, <1>5, <2>2
    <3>1. Kept(e1, eng', {}, {}) /\ eng'.frames = e1.frames /\ eng'.colls = e1.colls
      BY <1>3, <1>4, <1>5, <2>2, <3>0, PutVectorFacts
    <3> QED
      BY <1>0, <1>5, <3>1, KeptTrans
  <2> QED
    BY <1>1, <2>1, <2>2
<1>7. f \in NewFrames /\ RecordOf(eng', f, s)
  BY <1>3, <1>4, <1>5, <1>6 DEF NewFrames, RecordOf
<1>8. \A g \in NewFrames : g = f \/ IsDoc(eng'.frames[g], s[1])
  BY <1>2, <1>6, DocFrameFacts DEF NewFrames, WrittenOK
<1>9. s[1] \notin reg.shapes => s[1] \in eng'.colls /\ DocsOf(eng', s[1]) # {}
  <2>1. DocsOf(eng', s[1]) = DocsOf(e1, s[1])
    BY <1>6 DEF DocsOf, ActiveFrames
  <2> QED
    BY <1>2, <1>6, <2>1 DEF WrittenOK
<1>10. FailEngine(s, f)
  BY <1>1, <1>6, <1>7, <1>8, <1>9 DEF FailEngine
<1> QED
  BY <1>10 DEF f

DeclareEngine(c) ==
  /\ Kept(eng, eng', {}, {})
  /\ eng'.vectors = eng.vectors /\ eng'.spaces = eng.spaces
  /\ \A g \in NewFrames : IsDoc(eng'.frames[g], c)
  /\ c \in eng'.colls /\ DocsOf(eng', c) # {}
  /\ reg' = Bound(reg, c)

LEMMA DeclareFacts ==
  ASSUME Sound, Declare
  PROVE  \E c \in Colls \ reg.shapes : DeclareEngine(c) /\ eng' = Declared(eng, c, reg)
<1>1. PICK c \in Colls \ reg.shapes : eng' = Declared(eng, c, reg) /\ reg' = Bound(reg, c)
  BY DEF Declare
<1>2. EngineOK(eng)
  BY DEF Sound, Types
<1> DEFINE d == Declared(eng, c, reg)
<1>3. /\ Kept(eng, d, {}, {})
      /\ d.vectors = eng.vectors /\ d.spaces = eng.spaces
      /\ \A g \in DOMAIN d.frames \ DOMAIN eng.frames : d.frames[g] = DocFrame(eng, c)
      /\ c \notin reg.shapes => c \in d.colls /\ DocsOf(d, c) # {}
  BY <1>2, DeclaredFacts
<1> HIDE DEF d
<1>4. eng' = d
  BY <1>1 DEF d
<1>5. DeclareEngine(c)
  BY <1>1, <1>3, <1>4, DocFrameFacts DEF DeclareEngine, NewFrames
<1> QED
  BY <1>1, <1>5

DeleteEngine(s) ==
  /\ Kept(eng, eng', DeadFrames(ident[s]), DeadVectors(ident[s]))
  /\ NewFrames = {} /\ NewVectors = {} /\ eng'.spaces = eng.spaces
  /\ ident[s] # NoEntry
  /\ ident[s].frame \in ActiveFrames(eng) /\ ident[s].vectors \subseteq ActiveVectors(eng)
  /\ ~Rejected(ident[s])
  /\ ident' = [ident EXCEPT ![s] = NoEntry]
  /\ writer \in CoreType /\ writer.by = "app" /\ writer.pc = "idle" /\ writer.expired = {}
  /\ writer' \in CoreType /\ writer' = [writer EXCEPT !.staged = writer'.staged]
  /\ WithoutOK(writer.staged, ident[s].frame, writer'.staged)

LEMMA DeleteFacts ==
  ASSUME Sound, Delete
  PROVE  \E s \in Slots : DeleteEngine(s)
<1>0. EngineOK(eng) /\ WriterOK
  BY DEF Sound, Types
<1>1. PICK s \in Slots :
        /\ ident[s] # NoEntry
        /\ ~Rejected(ident[s])
        /\ CanTombstone(eng, ident[s])
        /\ eng' = Tombstoned(eng, ident[s])
        /\ writer' = [writer EXCEPT !.staged = Without(@, ident[s].frame)]
        /\ ident' = [ident EXCEPT ![s] = NoEntry]
  BY DEF Delete
<1>2. writer \in CoreType /\ writer.by = "app" /\ writer.pc = "idle" /\ writer.expired = {}
  BY <1>0, WriterKinds DEF Delete
<1> DEFINE st == Without(writer.staged, ident[s].frame)
<1>3. WithoutOK(writer.staged, ident[s].frame, st)
  BY <1>2, CoreFacts, WithoutFacts
<1>4. writer' = [writer EXCEPT !.staged = st]
  BY <1>1
<1> HIDE DEF st
<1>5. writer' \in CoreType /\ writer'.staged = st /\ writer' = [writer EXCEPT !.staged = writer'.staged]
  BY <1>2, <1>3, <1>4 DEF CoreType, WithoutOK
<1>6. ident[s].frame \in DOMAIN eng.frames
  BY <1>1 DEF CanTombstone, ActiveFrames
<1>7. /\ Kept(eng, eng', {ident[s].frame}, IF ident[s].committed THEN ident[s].vectors ELSE {})
      /\ DOMAIN eng'.frames = DOMAIN eng.frames /\ DOMAIN eng'.vectors = DOMAIN eng.vectors
      /\ eng'.spaces = eng.spaces
  BY <1>0, <1>1, <1>6, TombstonedFacts
<1>8. DeadFrames(ident[s]) = {ident[s].frame}
      /\ DeadVectors(ident[s]) = IF ident[s].committed THEN ident[s].vectors ELSE {}
  BY <1>1 DEF DeadFrames, DeadVectors
<1>9. NewFrames = {} /\ NewVectors = {}
  BY <1>7 DEF NewFrames, NewVectors
<1>10. DeleteEngine(s)
  BY <1>1, <1>2, <1>3, <1>5, <1>7, <1>8, <1>9 DEF DeleteEngine, CanTombstone
<1> QED
  BY <1>10

ForgetEngine(gone) ==
  LET fs == UNION {MemberFrames(eng, c) : c \in gone}
      vs == UNION {MemberVectors(eng, c) : c \in gone}
  IN
  /\ Kept(eng, eng', fs, vs)
  /\ NewFrames = {} /\ NewVectors = {} /\ eng'.spaces = eng.spaces
  /\ gone \subseteq Colls
  /\ writer = NoWriter /\ writer' \in CoreType /\ writer'.by = "forget" /\ writer'.pc = "idle"
  /\ writer'.staged = <<>> /\ writer'.expired = gone
  /\ faults' = faults \cup
       (IF \E f \in ActiveFrames(eng) : /\ eng.frames[f].kind = "record"
                                        /\ eng.frames[f].coll \in gone
                                        /\ ~eng.frames[f].stored
        THEN {"forget"} ELSE {})

LEMMA FreshCore ==
  ASSUME NEW b \in {"app", "bulk", "forget"}, NEW w, w = WriterCore(b)
  PROVE  /\ w \in CoreType /\ w.by = b /\ w.pc = "idle" /\ w.staged = <<>> /\ w.seen = {}
         /\ w.expired = {} /\ w.fresh = (batch = {})
  BY DEF WriterCore, CoreType

LEMMA ForgetFacts ==
  ASSUME Sound, ForgetBefore
  PROVE  \E gone : ForgetEngine(gone)
<1>0. EngineOK(eng) /\ WriterOK /\ writer = NoWriter
  BY DEF Sound, Types, ForgetBefore, Acquire
<1>1. PICK cutoff \in Times :
       LET gone == Expired(cutoff)
           vs == UNION {MemberVectors(eng, c) : c \in gone}
           fs == UNION {MemberFrames(eng, c) : c \in gone}
       IN  /\ eng' = Forgotten(eng, fs, vs)
           /\ writer' = [WriterCore("forget") EXCEPT !.expired = gone]
           /\ faults' = faults \cup
                (IF \E f \in ActiveFrames(eng) :
                      /\ eng.frames[f].kind = "record"
                      /\ eng.frames[f].coll \in gone
                      /\ ~eng.frames[f].stored
                 THEN {"forget"} ELSE {})
  BY DEF ForgetBefore, Forgotten
<1> DEFINE gone == Expired(cutoff)
           vs == UNION {MemberVectors(eng, c) : c \in gone}
           fs == UNION {MemberFrames(eng, c) : c \in gone}
<1>2. gone \subseteq Colls
  BY <1>0, EngineFacts DEF Expired
<1> HIDE DEF gone
<1>3. eng' = Forgotten(eng, fs, vs)
  BY <1>1 DEF gone
<1>4. writer' = [WriterCore("forget") EXCEPT !.expired = gone]
  BY <1>1 DEF gone
<1>5. faults' = faults \cup
       (IF \E f \in ActiveFrames(eng) : /\ eng.frames[f].kind = "record"
                                        /\ eng.frames[f].coll \in gone
                                        /\ ~eng.frames[f].stored
        THEN {"forget"} ELSE {})
  BY <1>1 DEF gone
<1>6. writer' \in CoreType /\ writer'.by = "forget" /\ writer'.pc = "idle"
      /\ writer'.staged = <<>> /\ writer'.expired = gone
  BY <1>2, <1>4, FreshCore DEF CoreType
<1>7. /\ Kept(eng, eng', fs, vs)
      /\ DOMAIN eng'.frames = DOMAIN eng.frames /\ DOMAIN eng'.vectors = DOMAIN eng.vectors
      /\ eng'.spaces = eng.spaces
  BY <1>0, <1>3, ForgottenFacts
<1>8. NewFrames = {} /\ NewVectors = {}
  BY <1>7 DEF NewFrames, NewVectors
<1>9. ForgetEngine(gone)
  BY <1>0, <1>2, <1>5, <1>6, <1>7, <1>8 DEF ForgetEngine
<1> QED
  BY <1>9

LEMMA SlotEq ==
  ASSUME NEW e, NEW f, NEW r \in Slots, NEW s \in Slots, RecordOf(e, f, r), RecordOf(e, f, s)
  PROVE  r = s
<1>1. r[1] = s[1] /\ r[2] = s[2]
  BY DEF RecordOf
<1>2. r = <<r[1], r[2]>> /\ s = <<s[1], s[2]>>
  BY DEF Slots
<1> QED
  BY <1>1, <1>2

FlushWriter ==
  /\ writer \in CoreType /\ (writer.by # "forget" => writer.expired = {})
  /\ writer' \in CoreType /\ writer' = [writer EXCEPT !.pc = "commit", !.staged = <<>>]
  /\ writer'.pc = "commit" /\ writer'.staged = <<>> /\ writer'.by = writer.by
  /\ writer'.expired = writer.expired /\ writer'.seen = writer.seen /\ writer'.fresh = writer.fresh

FlushEngine ==
  /\ Kept(eng, eng', {}, {})
  /\ eng'.frames = eng.frames /\ eng'.colls = eng.colls
  /\ \A v \in NewVectors :
       /\ eng'.vectors[v].active /\ ~eng'.vectors[v].stored
       /\ \E i \in DOMAIN writer.staged : eng'.vectors[v].owner = writer.staged[i].owner
  /\ \A i \in DOMAIN writer.staged : \E v \in NewVectors : eng'.vectors[v].owner = writer.staged[i].owner
  /\ reg' \in [shapes : SUBSET Colls, space : Nat]
  /\ reg'.shapes = reg.shapes /\ reg'.space <= eng'.spaces
  /\ ident' \in [Slots -> EntryType]
  /\ \A s \in Slots :
       /\ ident'[s].frame = ident[s].frame /\ ident'[s].committed = ident[s].committed
       /\ ident'[s] = NoEntry <=> ident[s] = NoEntry
       /\ ident[s].vectors \subseteq ident'[s].vectors
       /\ \A v \in ident'[s].vectors \ ident[s].vectors :
            v \in NewVectors /\ eng'.vectors[v].owner = ident[s].frame
       /\ \A v \in NewVectors :
            ident[s] # NoEntry /\ eng'.vectors[v].owner = ident[s].frame => v \in ident'[s].vectors

LEMMA RegisteredFacts ==
  ASSUME NEW e, EngineOK(e)
  PROVE  /\ Kept(e, Registered(e), {}, {}) /\ Registered(e).frames = e.frames
         /\ Registered(e).vectors = e.vectors /\ Registered(e).colls = e.colls
         /\ Registered(e).spaces = e.spaces + 1
<1> DEFINE d == Registered(e)
<1>1. d = [frames |-> e.frames, vectors |-> e.vectors, spaces |-> e.spaces + 1, colls |-> e.colls]
  BY EngineFacts DEF Registered
<1> HIDE DEF d
<1>2. d.frames = e.frames /\ d.vectors = e.vectors /\ d.spaces = e.spaces + 1 /\ d.colls = e.colls
      /\ d \in EngineType
  BY <1>1, EngineFacts DEF EngineType
<1>3. \A n \in 1..e.spaces : n \in 1..d.spaces
  BY <1>2, EngineFacts
<1>4. EngineOK(d)
  BY <1>2, <1>3 DEF EngineOK
<1> QED
  BY <1>2, <1>4, EngineFacts DEF Kept, d

(* The engine a flush writes to: the space is registered.                  *)
FlushTarget == IF reg.space = 0 THEN Registered(eng) ELSE eng
LEMMA TargetFacts ==
  ASSUME Sound
  PROVE  /\ Kept(eng, FlushTarget, {}, {}) /\ EngineOK(FlushTarget)
         /\ FlushTarget.frames = eng.frames /\ FlushTarget.vectors = eng.vectors
         /\ FlushTarget.colls = eng.colls
         /\ FlushTarget.spaces # 0 /\ FlushTarget.spaces \in Nat
<1>1. EngineOK(eng) /\ reg.space \in Nat /\ reg.space <= eng.spaces /\ eng.spaces \in Nat
  BY EngineFacts DEF Sound, Types
<1>2. CASE reg.space = 0
  <2>1. /\ Kept(eng, FlushTarget, {}, {}) /\ FlushTarget.frames = eng.frames
        /\ FlushTarget.vectors = eng.vectors /\ FlushTarget.colls = eng.colls
        /\ FlushTarget.spaces = eng.spaces + 1
    BY <1>1, <1>2, RegisteredFacts DEF FlushTarget
  <2> QED
    BY <1>1, <2>1 DEF Kept
<1>3. CASE reg.space # 0
  <2>1. FlushTarget = eng /\ eng.spaces # 0
    BY <1>1, <1>3 DEF FlushTarget
  <2> QED
    BY <1>1, <2>1, KeptRefl
<1> QED
  BY <1>2, <1>3

LEMMA FlushWriterFacts ==
  ASSUME Sound, FlushDeferred
  PROVE  FlushWriter
<1>1. writer \in CoreType /\ (writer.by # "forget" => writer.expired = {})
  <2>1. WriterOK
    BY DEF Sound, Types
  <2> QED
    BY <2>1, WriterKinds DEF FlushDeferred, CommitStart
<1>2. writer' = [writer EXCEPT !.pc = "commit", !.staged = <<>>]
  BY DEF FlushDeferred
<1>3. <<>> \in Seq(StagedType)
  BY EmptySeq
<1>4. writer' \in CoreType /\ writer'.pc = "commit" /\ writer'.staged = <<>> /\ writer'.by = writer.by
      /\ writer'.expired = writer.expired /\ writer'.seen = writer.seen /\ writer'.fresh = writer.fresh
  BY <1>1, <1>2, <1>3 DEF CoreType
<1> QED
  BY <1>1, <1>2, <1>4 DEF FlushWriter

LEMMA FlushFacts ==
  ASSUME Sound, FlushDeferred
  PROVE  FlushEngine
<1>0. EngineOK(eng) /\ reg \in [shapes : SUBSET Colls, space : Nat] /\ reg.space <= eng.spaces
      /\ ident \in [Slots -> EntryType] /\ Entries /\ StagedOK
  BY DEF Sound, Types
<1>1. writer \in CoreType /\ writer.by \in {"app", "bulk", "forget"}
  BY FlushWriterFacts, CoreFacts DEF FlushWriter
<1>2. CASE writer.staged = <<>>
  <2>1. eng' = eng /\ reg' = reg /\ ident' = ident
    BY <1>2 DEF FlushDeferred
  <2>2. NewVectors = {} /\ DOMAIN writer.staged = {}
    BY <1>2, <2>1 DEF NewVectors
  <2> QED
    BY <1>0, <2>1, <2>2, KeptRefl DEF FlushEngine
<1>3. CASE writer.staged # <<>>
  <2> DEFINE e == FlushTarget
             d == writer.staged
  <2>1. eng' = PutAll(e, d) /\ reg' = [reg EXCEPT !.space = e.spaces] /\ ident' = Pushed(e, d)
    BY <1>3 DEF FlushDeferred, FlushTarget
  <2>2. /\ Kept(eng, e, {}, {}) /\ EngineOK(e) /\ e.frames = eng.frames /\ e.vectors = eng.vectors
        /\ e.colls = eng.colls /\ e.spaces # 0 /\ e.spaces \in Nat
    BY TargetFacts
  <2> HIDE DEF e
  <2>3. d \in Seq(StagedType) /\ DOMAIN d = 1..Len(d)
    BY <1>1, CoreFacts, LenProperties
  <2>4. \A i \in 1..Len(d) : /\ d[i].owner \in DOMAIN eng.frames /\ d[i].val = eng.frames[d[i].owner].val
                             /\ d[i].slot \in Slots /\ ident[d[i].slot].frame = d[i].owner
    <3>0. \A i \in 1..Len(d) : d[i] \in StagedType
      BY <2>3, ElementOfSeq
    <3>1. \A i \in 1..Len(d) : d[i].slot \in Slots
      BY <3>0 DEF StagedType
    <3> QED
      BY <1>0, <1>1, <2>3, <3>1 DEF StagedOK, ActiveFrames
  <2>4a. PutAllOK(e, d, eng')
    <3> HIDE DEF d
    <3>1. \A i \in 1..Len(d) : d[i].owner \in DOMAIN e.frames /\ d[i].val = e.frames[d[i].owner].val
      BY <2>2, <2>4
    <3>2. PutAllOK(e, d, PutAll(e, d))
      BY <2>2, <2>3, <3>1, PutAllFacts
    <3> QED
      BY <2>1, <3>2
  <2>5. /\ Kept(e, eng', {}, {})
        /\ eng'.frames = e.frames /\ eng'.spaces = e.spaces /\ eng'.colls = e.colls
        /\ \A i \in 1..Len(d) :
              /\ Len(e.vectors) + i \in DOMAIN eng'.vectors \ DOMAIN e.vectors
              /\ eng'.vectors[Len(e.vectors) + i] = Vector(e.spaces, d[i].owner, d[i].val)
        /\ \A v \in DOMAIN eng'.vectors \ DOMAIN e.vectors :
              \E i \in 1..Len(d) : v = Len(e.vectors) + i
    BY <2>4a DEF PutAllOK
  <2> HIDE DEF d
  <2>6. Kept(eng, eng', {}, {})
    BY <1>0, <2>2, <2>5, KeptTrans
  <2>7. \A i \in 1..Len(d) :
          LET v == Len(e.vectors) + i IN
          /\ v \in NewVectors /\ eng'.vectors[v].owner = d[i].owner
          /\ eng'.vectors[v].active /\ ~eng'.vectors[v].stored
    <3> TAKE i \in 1..Len(d)
    <3>1. PICK w : w = eng'.vectors[Len(e.vectors) + i]
      OBVIOUS
    <3>2. w = Vector(e.spaces, d[i].owner, d[i].val)
      BY <2>5, <3>1
    <3>3. w.owner = d[i].owner /\ w.active /\ ~w.stored
      BY <3>2 DEF Vector
    <3>4. Len(e.vectors) + i \in NewVectors
      BY <2>2, <2>5 DEF NewVectors
    <3> QED
      BY <3>1, <3>3, <3>4
  <2>8. \A v \in NewVectors : \E i \in 1..Len(d) : v = Len(e.vectors) + i
    BY <2>2, <2>5 DEF NewVectors
  <2>9. reg' \in [shapes : SUBSET Colls, space : Nat] /\ reg'.shapes = reg.shapes /\ reg'.space = e.spaces
    BY <1>0, <2>1, <2>2
  <2> DEFINE X(s) == {Len(e.vectors) + i : i \in {j \in 1..Len(d) : d[j].slot = s /\ ident[s] # NoEntry}}
  <2>10. \A s \in Slots : ident'[s] = [ident[s] EXCEPT !.vectors = @ \cup X(s)]
    BY <2>1 DEF Pushed
  <2>11. \A s \in Slots : X(s) \subseteq NewVectors /\ X(s) \subseteq Nat \ {0}
    <3>1. \A i \in 1..Len(d) : Len(e.vectors) + i \in NewVectors
      BY <2>7
    <3>2. \A v \in NewVectors : v \in Nat \ {0}
      <4>1. EngineOK(eng')
        BY <2>6 DEF Kept
      <4>2. DOMAIN eng'.vectors \subseteq Nat \ {0}
        BY <4>1, EngineFacts
      <4> QED
        BY <4>2 DEF NewVectors
    <3> QED
      BY <3>1, <3>2
  <2>12. ASSUME NEW s \in Slots
         PROVE  /\ ident'[s] \in EntryType
                /\ ident'[s].frame = ident[s].frame /\ ident'[s].committed = ident[s].committed
                /\ ident'[s].vectors = ident[s].vectors \cup X(s)
                /\ ident'[s] = NoEntry <=> ident[s] = NoEntry
    <3>0. X(s) \subseteq Nat \ {0} /\ (ident[s] = NoEntry => X(s) = {})
      BY <2>11
    <3> HIDE DEF X
    <3>1. ident[s] \in EntryType /\ ident'[s] = [ident[s] EXCEPT !.vectors = @ \cup X(s)]
      BY <1>0, <2>10
    <3>2. /\ ident'[s] \in EntryType
          /\ ident'[s].frame = ident[s].frame /\ ident'[s].committed = ident[s].committed
          /\ ident'[s].vectors = ident[s].vectors \cup X(s)
      BY <3>0, <3>1 DEF EntryType
    <3>3. ASSUME ident[s] = NoEntry PROVE ident'[s] = NoEntry
      BY <3>0, <3>1, <3>3 DEF NoEntry, Entry
    <3>4. ASSUME ident[s] # NoEntry PROVE ident'[s] # NoEntry
      <4>1. ident[s].frame # 0
        BY <1>0, <3>4, EngineFacts DEF Entries, RecordOf
      <4>2. NoEntry.frame = 0
        BY DEF NoEntry, Entry
      <4> QED
        BY <3>2, <4>1, <4>2
    <3> QED
      BY <3>2, <3>3, <3>4
  <2>13. ASSUME NEW s \in Slots, NEW v \in X(s)
         PROVE  v \in NewVectors /\ eng'.vectors[v].owner = ident[s].frame
    <3>1. PICK i \in 1..Len(d) : v = Len(e.vectors) + i /\ d[i].slot = s
      BY <2>13
    <3> HIDE DEF X
    <3> QED
      BY <2>4, <2>7, <3>1
  <2>14. ASSUME NEW s \in Slots, NEW v \in NewVectors, ident[s] # NoEntry, eng'.vectors[v].owner = ident[s].frame
         PROVE  v \in X(s)
    <3>1. PICK i \in 1..Len(d) : v = Len(e.vectors) + i
      BY <2>8
    <3>2. d[i].slot \in Slots /\ ident[d[i].slot].frame = ident[s].frame /\ d[i].owner \in DOMAIN eng.frames
      BY <2>4, <2>7, <2>14, <3>1
    <3>3. ident[d[i].slot] # NoEntry
      <4>1. ident[s].frame # 0
        BY <1>0, <2>14, EngineFacts DEF Entries, RecordOf
      <4>2. NoEntry.frame = 0
        BY DEF NoEntry, Entry
      <4> HIDE DEF X
      <4> QED
        BY <3>2, <4>1, <4>2
    <3>4. RecordOf(eng, ident[s].frame, s) /\ RecordOf(eng, ident[s].frame, d[i].slot)
      BY <1>0, <2>14, <3>2, <3>3 DEF Entries
    <3>5. d[i].slot = s
      BY <3>2, <3>4, SlotEq
    <3> QED
      BY <2>14, <3>1, <3>5
  <2> HIDE DEF X
  <2>15. ident' \in [Slots -> EntryType]
    <3>1. ident' = [s \in Slots |-> ident'[s]]
      BY <2>1 DEF Pushed
    <3> QED
      BY <2>12, <3>1
  <2>16. ASSUME NEW v \in NewVectors
         PROVE  /\ eng'.vectors[v].active /\ ~eng'.vectors[v].stored
                /\ \E i \in DOMAIN d : eng'.vectors[v].owner = d[i].owner
    BY <2>3, <2>7, <2>8
  <2>17. \A i \in DOMAIN d : \E v \in NewVectors : eng'.vectors[v].owner = d[i].owner
    BY <2>3, <2>7
  <2>18. reg'.space <= eng'.spaces
    BY <2>2, <2>5, <2>9
  <2>19. ASSUME NEW s \in Slots
         PROVE /\ ident'[s].frame = ident[s].frame /\ ident'[s].committed = ident[s].committed
               /\ ident'[s] = NoEntry <=> ident[s] = NoEntry
               /\ ident[s].vectors \subseteq ident'[s].vectors
               /\ \A v \in ident'[s].vectors \ ident[s].vectors :
                    v \in NewVectors /\ eng'.vectors[v].owner = ident[s].frame
               /\ \A v \in NewVectors :
                    ident[s] # NoEntry /\ eng'.vectors[v].owner = ident[s].frame => v \in ident'[s].vectors
    BY <2>12, <2>13, <2>14
  <2>20. eng'.frames = eng.frames /\ eng'.colls = eng.colls
    BY <2>2, <2>5
  <2> QED
    BY <2>6, <2>9, <2>15, <2>16, <2>17, <2>18, <2>19, <2>20 DEF FlushEngine, d
<1> QED
  BY <1>2, <1>3

LEMMA FlushErrFacts ==
  ASSUME Sound, FlushDeferredErr
  PROVE  /\ Kept(eng, eng', {}, {}) /\ eng'.frames = eng.frames /\ eng'.colls = eng.colls
         /\ writer \in CoreType /\ (writer.by # "forget" => writer.expired = {})
         /\ writer' \in CoreType /\ writer' = [writer EXCEPT !.pc = "idle"]
         /\ writer.staged # <<>>
<1>0. EngineOK(eng) /\ WriterOK /\ StagedOK
  BY DEF Sound, Types
<1>1. writer \in CoreType /\ writer.by \in {"app", "bulk", "forget"}
      /\ (writer.by # "forget" => writer.expired = {})
  BY <1>0, WriterKinds DEF FlushDeferredErr, CommitStart
<1> DEFINE e == FlushTarget
<1>2. PICK n \in 0..(Len(writer.staged) - 1) : eng' = PutAll(e, SubSeq(writer.staged, 1, n))
  BY DEF FlushDeferredErr, FlushTarget
<1>3. /\ Kept(eng, e, {}, {}) /\ EngineOK(e) /\ e.frames = eng.frames
      /\ e.colls = eng.colls /\ e.spaces # 0
  BY TargetFacts
<1> HIDE DEF e
<1> DEFINE d == SubSeq(writer.staged, 1, n)
<1>4. writer.staged \in Seq(StagedType) /\ Len(writer.staged) \in Nat
      /\ DOMAIN writer.staged = 1..Len(writer.staged)
      /\ \A i \in DOMAIN writer.staged : writer.staged[i] \in StagedType
  BY <1>1, CoreFacts, LenProperties
<1>5. n \in Nat /\ n <= Len(writer.staged) /\ \A i \in 1..n : i \in DOMAIN writer.staged
  BY <1>2, <1>4
<1>6. d \in Seq(StagedType) /\ Len(d) = n /\ \A i \in 1..n : d[i] = writer.staged[i]
  <2>1. \A i \in 1..n : writer.staged[i] \in StagedType
    BY <1>4, <1>5
  <2>2. /\ d \in Seq(StagedType) /\ Len(d) = IF 1 <= n THEN n - 1 + 1 ELSE 0
        /\ \A i \in 1..(n - 1 + 1) : d[i] = writer.staged[1 + i - 1]
    <3>1. 1 \in Int /\ n \in Int
      BY <1>5
    <3> QED
      BY <2>1, <3>1, SubSeqProperties
  <2> HIDE DEF d
  <2> QED
    BY <1>5, <2>2
<1> HIDE DEF d
<1>7. \A i \in 1..Len(d) : d[i].owner \in DOMAIN e.frames /\ d[i].val = e.frames[d[i].owner].val
  BY <1>0, <1>1, <1>3, <1>5, <1>6 DEF StagedOK, ActiveFrames
<1>8. Kept(e, eng', {}, {}) /\ eng'.frames = e.frames /\ eng'.colls = e.colls
  <2>1. PutAllOK(e, d, PutAll(e, d))
    BY <1>3, <1>6, <1>7, PutAllFacts
  <2>2. eng' = PutAll(e, d)
    BY <1>2 DEF d
  <2> QED
    BY <2>1, <2>2 DEF PutAllOK
<1>9. Kept(eng, eng', {}, {})
  BY <1>0, <1>3, <1>8, KeptTrans
<1>10. writer' = [writer EXCEPT !.pc = "idle"] /\ writer.staged # <<>>
  BY DEF FlushDeferredErr
<1>11. writer' \in CoreType
  BY <1>1, <1>10 DEF CoreType
<1> QED
  BY <1>1, <1>3, <1>8, <1>9, <1>10, <1>11

LEMMA KeptFields ==
  ASSUME NEW e, EngineOK(e), NEW d, NEW fs, NEW vs, Kept(e, d, fs, vs)
  PROVE  /\ \A g \in DOMAIN e.frames :
              /\ g \in DOMAIN d.frames
              /\ d.frames[g].kind = e.frames[g].kind /\ d.frames[g].coll = e.frames[g].coll
              /\ d.frames[g].key = e.frames[g].key /\ d.frames[g].val = e.frames[g].val
              /\ d.frames[g].vec = e.frames[g].vec /\ d.frames[g].stored = e.frames[g].stored
              /\ d.frames[g].active <=> (e.frames[g].active /\ g \notin fs)
         /\ \A v \in DOMAIN e.vectors :
              /\ v \in DOMAIN d.vectors
              /\ d.vectors[v].owner = e.vectors[v].owner /\ d.vectors[v].val = e.vectors[v].val
              /\ d.vectors[v].stored = e.vectors[v].stored
              /\ d.vectors[v].active <=> (e.vectors[v].active /\ v \notin vs)
         /\ \A f, s : RecordOf(e, f, s) => RecordOf(d, f, s)
<1>1. ASSUME NEW g \in DOMAIN e.frames
      PROVE  /\ g \in DOMAIN d.frames
             /\ d.frames[g].kind = e.frames[g].kind /\ d.frames[g].coll = e.frames[g].coll
             /\ d.frames[g].key = e.frames[g].key /\ d.frames[g].val = e.frames[g].val
             /\ d.frames[g].vec = e.frames[g].vec /\ d.frames[g].stored = e.frames[g].stored
             /\ d.frames[g].active <=> (e.frames[g].active /\ g \notin fs)
  <2>1. g \in DOMAIN d.frames
        /\ d.frames[g] = IF g \in fs THEN Off(e.frames[g]) ELSE e.frames[g]
    BY DEF Kept
  <2>2. e.frames[g] \in FrameType
    BY EngineFacts
  <2> QED
    BY <2>1, <2>2, OffFrame
<1>2. ASSUME NEW v \in DOMAIN e.vectors
      PROVE  /\ v \in DOMAIN d.vectors
             /\ d.vectors[v].owner = e.vectors[v].owner /\ d.vectors[v].val = e.vectors[v].val
             /\ d.vectors[v].stored = e.vectors[v].stored
             /\ d.vectors[v].active <=> (e.vectors[v].active /\ v \notin vs)
  <2>1. v \in DOMAIN d.vectors
        /\ d.vectors[v] = IF v \in vs THEN Off(e.vectors[v]) ELSE e.vectors[v]
    BY DEF Kept
  <2>2. e.vectors[v] \in VectorType
    BY EngineFacts
  <2> QED
    BY <2>1, <2>2, OffVector
<1>3. \A f, s : RecordOf(e, f, s) => RecordOf(d, f, s)
  BY <1>1 DEF RecordOf
<1> QED
  BY <1>1, <1>2, <1>3

(* Entries stay records of their keys as the catalog grows.                *)
LEMMA EntriesKept ==
  ASSUME Sound, NEW fs, NEW vs, Kept(eng, eng', fs, vs), ident' = ident
  PROVE  Entries'
<1>1. EngineOK(eng)
  BY DEF Sound, Types
<1>2. /\ \A f, s : RecordOf(eng, f, s) => RecordOf(eng', f, s)
      /\ DOMAIN eng.vectors \subseteq DOMAIN eng'.vectors
  BY <1>1, KeptFields
<1>3. Entries
  BY DEF Sound
<1> QED
  BY <1>2, <1>3 DEF Entries

(* Deferred vectors stay those of active frames as long as no owner of one *)
(* is tombstoned.                                                          *)
LEMMA StagedKept ==
  ASSUME Sound, NEW fs, NEW vs, Kept(eng, eng', fs, vs), NEW i, i \in DOMAIN writer.staged,
         writer.by \in {"app", "bulk", "forget"}, writer.staged[i].owner \notin fs
  PROVE  /\ writer.staged[i].owner \in ActiveFrames(eng')
         /\ writer.staged[i].val = eng'.frames[writer.staged[i].owner].val
         /\ eng'.frames[writer.staged[i].owner].vec
<1>1. EngineOK(eng) /\ StagedOK
  BY DEF Sound, Types
<1>2. /\ writer.staged[i].owner \in ActiveFrames(eng)
      /\ writer.staged[i].val = eng.frames[writer.staged[i].owner].val
      /\ eng.frames[writer.staged[i].owner].vec
  BY <1>1 DEF StagedOK
<1> QED
  BY <1>1, <1>2, KeptFields DEF ActiveFrames

(***************************************************************************)
(* Every step keeps the catalog, the identity index and the writer sound.  *)
(***************************************************************************)
LEMMA SoundInit == Init => Sound
<1> SUFFICES ASSUME Init PROVE Sound
  OBVIOUS
<1> DEFINE e == EmptyEngine
<1>1. e \in EngineType /\ DOMAIN e.frames = {} /\ DOMAIN e.vectors = {} /\ e.spaces = 0 /\ e.colls = {}
  BY EmptySeq DEF EmptyEngine, EngineType
<1>2. EngineOK(e) /\ AllStored(e)
  BY <1>1 DEF EngineOK, AllStored
<1>3. RebuiltSchema(e) \in [shapes : SUBSET Colls, space : Nat] /\ RebuiltSchema(e).space = 0
  BY <1>1 DEF RebuiltSchema
<1>4. \A s \in Slots : KeyedFrames(e, s) = {}
  BY <1>1 DEF KeyedFrames, ActiveFrames
<1>5. RebuiltIdentity(e) \in [Slots -> EntryType] /\ \A s \in Slots : RebuiltIdentity(e)[s] = NoEntry
  BY <1>2, <1>4, RebuiltFacts
<1>6. /\ disk = e /\ eng = e /\ reg = RebuiltSchema(e) /\ ident = RebuiltIdentity(e) /\ batch = {}
      /\ writer = NoWriter /\ reader = IdleReader /\ puts = 0 /\ faults = {}
  BY DEF Init
<1> HIDE DEF e
<1>7. Types
  BY <1>1, <1>2, <1>3, <1>5, <1>6 DEF Types, WriterOK, ReaderOK
<1>8. NoEntry.vectors = {}
  BY DEF NoEntry, Entry
<1>9. Entries
  BY <1>5, <1>6, <1>8 DEF Entries
<1>10. StagedOK /\ BatchOK
  BY <1>5, <1>6 DEF StagedOK, BatchOK, NoWriter
<1> QED
  BY <1>7, <1>9, <1>10 DEF Sound

LEMMA BoundFacts ==
  ASSUME NEW r \in [shapes : SUBSET Colls, space : Nat], NEW c \in Colls
  PROVE  /\ Bound(r, c) \in [shapes : SUBSET Colls, space : Nat]
         /\ Bound(r, c).shapes = r.shapes \cup {c} /\ Bound(r, c).space = r.space
  BY DEF Bound

LEMMA SpacesKept ==
  ASSUME Sound, NEW fs, NEW vs, Kept(eng, eng', fs, vs)
  PROVE  reg.space <= eng'.spaces /\ EngineOK(eng')
<1>1. EngineOK(eng) /\ EngineOK(eng') /\ eng.spaces <= eng'.spaces
      /\ reg.space \in Nat /\ reg.space <= eng.spaces
  BY DEF Sound, Types, Kept
<1>2. eng.spaces \in Nat /\ eng'.spaces \in Nat
  BY <1>1, EngineFacts
<1> QED
  BY <1>1, <1>2

LEMMA EntryFacts ==
  ASSUME NEW f \in Nat, NEW vs \in SUBSET (Nat \ {0}), NEW b \in BOOLEAN
  PROVE  /\ Entry(f, vs, b) \in EntryType /\ Entry(f, vs, b).frame = f
         /\ Entry(f, vs, b).vectors = vs /\ Entry(f, vs, b).committed = b
         /\ f # 0 => Entry(f, vs, b) # NoEntry
  BY DEF Entry, EntryType, NoEntry

LEMMA NoEntryFacts == NoEntry \in EntryType /\ NoEntry.frame = 0 /\ NoEntry.vectors = {} /\ NoEntry.committed = FALSE
  BY DEF NoEntry, Entry, EntryType

LEMMA PutSlot ==
  ASSUME NEW k \in Keys, NEW t \in Times
  PROVE  <<Period(t), k>> \in Slots
  BY DEF Slots, Colls

LEMMA PutSound ==
  ASSUME Sound, NEW s \in Slots, NEW t \in Times, NEW vec \in BOOLEAN, StartPut(s), Put(s, t, vec),
         UNCHANGED <<disk, reader, faults>>
  PROVE  Sound' /\ \E f : PutEngine(s, vec, f, NewVectors) /\ PutWriter(s, vec, f)
<1>0. puts' \in Nat /\ App
  BY DEF StartPut, Sound, Types
<1> DEFINE f == WrittenFrame(eng, reg, s)
<1>1. PutEngine(s, vec, f, NewVectors) /\ PutWriter(s, vec, f)
  BY <1>0, PutEngineFacts, PutWriterFacts
<1> HIDE DEF f
<1>2. /\ EngineOK(eng) /\ EngineOK(disk) /\ AllStored(disk)
      /\ reg \in [shapes : SUBSET Colls, space : Nat] /\ ident \in [Slots -> EntryType]
      /\ batch \subseteq Slots /\ ReaderOK /\ faults \subseteq {"orphan", "vectors", "forget", "compact"}
      /\ Entries /\ StagedOK /\ BatchOK
  BY DEF Sound, Types
<1>3. reg.space <= eng'.spaces /\ EngineOK(eng')
  BY <1>1, SpacesKept DEF PutEngine
<1>4. f \in Nat \ {0} /\ NewVectors \in SUBSET (Nat \ {0}) /\ f \in DOMAIN eng'.frames
  BY <1>1, <1>3, EngineFacts DEF PutEngine, NewFrames, NewVectors
<1>5. LET en == Entry(f, NewVectors, FALSE) IN
      en \in EntryType /\ en.frame = f /\ en.vectors = NewVectors /\ ~en.committed /\ en # NoEntry
  BY <1>4, EntryFacts
<1>6. ident' = [ident EXCEPT ![s] = Entry(f, NewVectors, FALSE)]
  BY <1>1 DEF PutEngine
<1>7. /\ ident' \in [Slots -> EntryType]
      /\ ident'[s].frame = f /\ ident'[s].vectors = NewVectors /\ ~ident'[s].committed
      /\ \A r \in Slots \ {s} : ident'[r] = ident[r]
  BY <1>2, <1>5, <1>6
<1>8. reg' \in [shapes : SUBSET Colls, space : Nat] /\ reg'.space = reg.space
  <2>1. s[1] \in Colls
    BY DEF Slots
  <2> QED
    BY <1>1, <1>2, <2>1, BoundFacts DEF PutEngine
<1>9. WriterOK'
  BY <1>1 DEF PutWriter, WriterOK
<1>10. ReaderOK'
  BY <1>2 DEF ReaderOK
<1>11. Types'
  <2>1. batch' \subseteq Slots
    BY <1>1, <1>2 DEF PutEngine
  <2> QED
    BY <1>0, <1>2, <1>3, <1>7, <1>8, <1>9, <1>10, <2>1 DEF Types
<1>12. /\ \A g, r : RecordOf(eng, g, r) => RecordOf(eng', g, r)
       /\ DOMAIN eng.vectors \subseteq DOMAIN eng'.vectors
  BY <1>1, <1>2, KeptFields DEF PutEngine
<1>13. Entries'
  <2> SUFFICES ASSUME NEW r \in Slots
               PROVE  /\ ident'[r] # NoEntry => RecordOf(eng', ident'[r].frame, r)
                      /\ ident'[r].vectors \subseteq DOMAIN eng'.vectors
    BY DEF Entries
  <2>1. CASE r = s
    BY <1>1, <1>7, <2>1 DEF PutEngine, NewVectors
  <2>2. CASE r # s
    BY <1>2, <1>7, <1>12, <2>2 DEF Entries
  <2> QED
    BY <2>1, <2>2
<1>14. StagedOK'
  <2>1. ASSUME NEW j \in DOMAIN writer'.staged
        PROVE  /\ ident'[writer'.staged[j].slot].frame = writer'.staged[j].owner
               /\ writer'.staged[j].owner \in ActiveFrames(eng')
               /\ writer'.staged[j].val = eng'.frames[writer'.staged[j].owner].val
               /\ eng'.frames[writer'.staged[j].owner].vec
    <3>1. CASE \E i \in DOMAIN writer.staged :
                 writer'.staged[j] = writer.staged[i] /\ writer.staged[i].owner \notin DeadFrames(ident[s])
      <4>1. PICK i \in DOMAIN writer.staged :
                 writer'.staged[j] = writer.staged[i] /\ writer.staged[i].owner \notin DeadFrames(ident[s])
        BY <3>1
      <4>2. /\ writer.staged[i].owner \in ActiveFrames(eng')
            /\ writer.staged[i].val = eng'.frames[writer.staged[i].owner].val
            /\ eng'.frames[writer.staged[i].owner].vec
        BY <1>1, <4>1, StagedKept DEF PutEngine, PutWriter
      <4>3. ident[writer.staged[i].slot].frame = writer.staged[i].owner
            /\ writer.staged[i].owner \in DOMAIN eng.frames
        BY <1>1, <1>2, <4>1 DEF StagedOK, PutWriter, ActiveFrames
      <4>4. writer.staged[i].slot \in Slots
        <5>1. writer.staged \in Seq(StagedType)
          BY <1>1, CoreFacts DEF PutWriter
        <5>2. writer.staged[i] \in StagedType
          BY <5>1, LenProperties
        <5> QED
          BY <5>2 DEF StagedType
      <4>5. writer.staged[i].slot # s
        <5>1. SUFFICES ASSUME writer.staged[i].slot = s PROVE FALSE
          OBVIOUS
        <5>2. ident[s].frame = writer.staged[i].owner /\ ident[s].frame # 0
          BY <1>2, <4>3, <5>1, EngineFacts
        <5>3. ident[s] # NoEntry
          BY <5>2, NoEntryFacts
        <5> QED
          BY <4>1, <5>2, <5>3 DEF DeadFrames
      <4> QED
        BY <1>7, <4>1, <4>2, <4>3, <4>4, <4>5
    <3>2. CASE vec /\ writer'.staged[j] = [slot |-> s, owner |-> f, val |-> puts']
      <4>1. writer'.staged[j].slot = s /\ writer'.staged[j].owner = f /\ writer'.staged[j].val = puts'
        BY <3>2
      <4>2. f \in ActiveFrames(eng') /\ eng'.frames[f].val = puts' /\ eng'.frames[f].vec
        BY <1>1, <1>4, <3>2 DEF PutEngine, ActiveFrames
      <4> QED
        BY <1>7, <4>1, <4>2
    <3> QED
      BY <1>1, <3>1, <3>2 DEF PutWriter
  <2>2. writer'.by # "forget" /\ writer'.pc \notin {"commit", "mark"}
    BY <1>1 DEF PutWriter
  <2> QED
    BY <2>1, <2>2 DEF StagedOK
<1>15. BatchOK'
  <2>1. batch' = batch \cup {s}
    BY <1>1 DEF PutEngine
  <2>2. \A r \in Slots : ident'[r] # NoEntry /\ ~ident'[r].committed => r \in batch'
    BY <1>2, <1>7, <2>1 DEF BatchOK
  <2>3. writer'.by = "bulk" /\ writer'.fresh => batch' \subseteq writer'.seen
    BY <1>1, <1>2, <2>1 DEF BatchOK, PutWriter
  <2> QED
    BY <2>2, <2>3 DEF BatchOK
<1> QED
  BY <1>1, <1>11, <1>13, <1>14, <1>15 DEF Sound

SoundParts ==
  /\ EngineOK(eng) /\ EngineOK(disk) /\ AllStored(disk)
  /\ reg \in [shapes : SUBSET Colls, space : Nat] /\ reg.space <= eng.spaces
  /\ ident \in [Slots -> EntryType]
  /\ batch \subseteq Slots /\ puts \in Nat /\ WriterOK /\ ReaderOK
  /\ faults \subseteq {"orphan", "vectors", "forget", "compact"}
  /\ Entries /\ StagedOK /\ BatchOK
LEMMA SoundMeans == Sound <=> SoundParts
  BY DEF Sound, Types, SoundParts

(* A step that only adds rows to the catalog: a put that fails, a          *)
(* declaration.                                                            *)
LEMMA GrowSound ==
  ASSUME Sound, Kept(eng, eng', {}, {}), NEW c \in Colls, reg' = Bound(reg, c),
         puts' \in Nat, faults' \subseteq {"orphan", "vectors", "forget", "compact"},
         UNCHANGED <<disk, ident, batch, writer, reader>>
  PROVE  Sound'
<1>1. SoundParts
  BY SoundMeans
<1>2. reg.space <= eng'.spaces /\ EngineOK(eng')
  BY SpacesKept
<1>3. reg' \in [shapes : SUBSET Colls, space : Nat] /\ reg'.space = reg.space
  BY <1>1, BoundFacts DEF SoundParts
<1>4. WriterOK' /\ ReaderOK'
  BY <1>1 DEF SoundParts, WriterOK, ReaderOK
<1>5. Types'
  BY <1>1, <1>2, <1>3, <1>4 DEF Types, SoundParts
<1>6. Entries'
  BY EntriesKept
<1>7. StagedOK'
  <2>1. ASSUME writer.by \in {"app", "bulk", "forget"}, NEW i \in DOMAIN writer.staged
        PROVE  /\ ident[writer.staged[i].slot].frame = writer.staged[i].owner
               /\ writer.staged[i].owner \in ActiveFrames(eng')
               /\ writer.staged[i].val = eng'.frames[writer.staged[i].owner].val
               /\ eng'.frames[writer.staged[i].owner].vec
    BY <1>1, <2>1, StagedKept DEF SoundParts, StagedOK
  <2> QED
    BY <1>1, <2>1 DEF SoundParts, StagedOK
<1>8. BatchOK'
  BY <1>1 DEF SoundParts, BatchOK
<1> QED
  BY <1>5, <1>6, <1>7, <1>8 DEF Sound

LEMMA DeleteSound ==
  ASSUME Sound, Delete
  PROVE  Sound'
<1>1. SoundParts
  BY SoundMeans
<1>2. PICK s \in Slots : DeleteEngine(s)
  BY DeleteFacts
<1>3. reg.space <= eng'.spaces /\ EngineOK(eng')
  BY <1>2, SpacesKept DEF DeleteEngine
<1>4. UNCHANGED <<disk, reg, batch, reader, puts, faults>>
  BY DEF Delete, bounds, history
<1>5. /\ ident' \in [Slots -> EntryType] /\ ident'[s] = NoEntry
      /\ \A r \in Slots \ {s} : ident'[r] = ident[r]
  BY <1>1, <1>2, NoEntryFacts DEF DeleteEngine, SoundParts
<1>6. /\ writer \in CoreType /\ writer' \in CoreType /\ writer'.by = "app" /\ writer.by = "app"
      /\ writer'.pc = "idle" /\ writer'.expired = {}
  BY <1>2 DEF DeleteEngine, CoreType
<1>7. WriterOK'
  BY <1>6 DEF WriterOK
<1>8. ReaderOK'
  BY <1>1, <1>4 DEF SoundParts, ReaderOK
<1>9. Types'
  BY <1>1, <1>3, <1>4, <1>5, <1>7, <1>8 DEF Types, SoundParts
<1>10. /\ \A g, r : RecordOf(eng, g, r) => RecordOf(eng', g, r)
       /\ DOMAIN eng.vectors \subseteq DOMAIN eng'.vectors
  BY <1>1, <1>2, KeptFields DEF DeleteEngine, SoundParts
<1>11. Entries'
  <2> SUFFICES ASSUME NEW r \in Slots
               PROVE  /\ ident'[r] # NoEntry => RecordOf(eng', ident'[r].frame, r)
                      /\ ident'[r].vectors \subseteq DOMAIN eng'.vectors
    BY DEF Entries
  <2> QED
    BY <1>1, <1>5, <1>10, NoEntryFacts DEF Entries, SoundParts
<1>12. StagedOK'
  <2>1. ASSUME NEW j \in DOMAIN writer'.staged
        PROVE  /\ ident'[writer'.staged[j].slot].frame = writer'.staged[j].owner
               /\ writer'.staged[j].owner \in ActiveFrames(eng')
               /\ writer'.staged[j].val = eng'.frames[writer'.staged[j].owner].val
               /\ eng'.frames[writer'.staged[j].owner].vec
    <3>1. PICK i \in DOMAIN writer.staged :
            writer'.staged[j] = writer.staged[i] /\ writer.staged[i].owner # ident[s].frame
      BY <1>2 DEF DeleteEngine, WithoutOK
    <3>2. writer.staged[i].owner \notin DeadFrames(ident[s])
      BY <3>1 DEF DeadFrames
    <3>3. /\ writer.staged[i].owner \in ActiveFrames(eng')
          /\ writer.staged[i].val = eng'.frames[writer.staged[i].owner].val
          /\ eng'.frames[writer.staged[i].owner].vec
      BY <1>2, <1>6, <3>2, StagedKept DEF DeleteEngine
    <3>4. ident[writer.staged[i].slot].frame = writer.staged[i].owner
      BY <1>1, <1>6 DEF SoundParts, StagedOK
    <3>5. writer.staged[i].slot \in Slots
      <4>1. writer.staged \in Seq(StagedType)
        BY <1>6, CoreFacts
      <4>2. writer.staged[i] \in StagedType
        BY <4>1, LenProperties
      <4> QED
        BY <4>2 DEF StagedType
    <3>6. writer.staged[i].slot # s
      BY <3>1, <3>4
    <3> QED
      BY <1>5, <3>1, <3>3, <3>4, <3>5, <3>6
  <2> QED
    BY <1>6, <2>1 DEF StagedOK
<1>13. BatchOK'
  BY <1>1, <1>4, <1>5, <1>6 DEF SoundParts, BatchOK
<1> QED
  BY <1>9, <1>11, <1>12, <1>13 DEF Sound

LEMMA FlushSound ==
  ASSUME Sound, FlushDeferred
  PROVE  Sound'
<1>1. SoundParts
  BY SoundMeans
<1>2. FlushEngine /\ FlushWriter
  BY FlushFacts, FlushWriterFacts
<1>3. UNCHANGED <<disk, batch, reader, puts, faults>>
  BY DEF FlushDeferred, bounds, history
<1>4. EngineOK(eng')
  BY <1>2 DEF FlushEngine, Kept
<1>5. WriterOK'
  BY <1>2 DEF FlushWriter, WriterOK
<1>6. ReaderOK'
  BY <1>1, <1>3 DEF SoundParts, ReaderOK
<1>7. Types'
  BY <1>1, <1>2, <1>3, <1>4, <1>5, <1>6 DEF Types, SoundParts, FlushEngine
<1>8. /\ \A g, r : RecordOf(eng, g, r) => RecordOf(eng', g, r)
      /\ DOMAIN eng.vectors \subseteq DOMAIN eng'.vectors
  BY <1>1, <1>2, KeptFields DEF FlushEngine, SoundParts
<1>9. Entries'
  <2> SUFFICES ASSUME NEW r \in Slots
               PROVE  /\ ident'[r] # NoEntry => RecordOf(eng', ident'[r].frame, r)
                      /\ ident'[r].vectors \subseteq DOMAIN eng'.vectors
    BY DEF Entries
  <2>1. /\ ident'[r].frame = ident[r].frame /\ (ident'[r] = NoEntry <=> ident[r] = NoEntry)
        /\ \A v \in ident'[r].vectors \ ident[r].vectors : v \in NewVectors
    BY <1>2 DEF FlushEngine
  <2>2. ident[r].vectors \subseteq DOMAIN eng.vectors
        /\ (ident[r] # NoEntry => RecordOf(eng, ident[r].frame, r))
    BY <1>1 DEF SoundParts, Entries
  <2> QED
    BY <1>8, <2>1, <2>2 DEF NewVectors
<1>10. StagedOK'
  BY <1>2 DEF StagedOK, FlushWriter
<1>11. BatchOK'
  <2>1. \A s \in Slots : ident'[s] # NoEntry /\ ~ident'[s].committed => s \in batch'
    BY <1>1, <1>2, <1>3 DEF SoundParts, BatchOK, FlushEngine
  <2>2. writer'.by = "bulk" /\ writer'.fresh => batch' \subseteq writer'.seen
    BY <1>1, <1>2, <1>3 DEF SoundParts, BatchOK, FlushWriter
  <2> QED
    BY <2>1, <2>2 DEF BatchOK
<1> QED
  BY <1>7, <1>9, <1>10, <1>11 DEF Sound

LEMMA FlushErrSound ==
  ASSUME Sound, FlushDeferredErr
  PROVE  Sound'
<1>1. SoundParts
  BY SoundMeans
<1>2. /\ Kept(eng, eng', {}, {})
      /\ writer \in CoreType /\ (writer.by # "forget" => writer.expired = {})
      /\ writer' \in CoreType /\ writer' = [writer EXCEPT !.pc = "idle"]
      /\ writer.staged # <<>>
  BY FlushErrFacts
<1>3. UNCHANGED <<disk, reg, ident, batch, reader, puts>> /\ faults' = faults \cup {"vectors"}
  BY DEF FlushDeferredErr
<1>4. reg.space <= eng'.spaces /\ EngineOK(eng')
  BY <1>2, SpacesKept
<1>5. /\ writer'.pc = "idle" /\ writer'.by = writer.by /\ writer'.staged = writer.staged
      /\ writer'.expired = writer.expired /\ writer'.seen = writer.seen /\ writer'.fresh = writer.fresh
  BY <1>2 DEF CoreType
<1>6. WriterOK'
  BY <1>2, <1>5 DEF WriterOK
<1>7. ReaderOK'
  BY <1>1, <1>3 DEF SoundParts, ReaderOK
<1>8. Types'
  BY <1>1, <1>3, <1>4, <1>6, <1>7 DEF Types, SoundParts
<1>9. Entries'
  BY <1>2, <1>3, EntriesKept
<1>10. StagedOK'
  <2>1. writer.by \in {"app", "bulk"}
    BY <1>1, <1>2, CoreFacts DEF SoundParts, StagedOK
  <2>2. ASSUME NEW i \in DOMAIN writer.staged
        PROVE  /\ ident[writer.staged[i].slot].frame = writer.staged[i].owner
               /\ writer.staged[i].owner \in ActiveFrames(eng')
               /\ writer.staged[i].val = eng'.frames[writer.staged[i].owner].val
               /\ eng'.frames[writer.staged[i].owner].vec
    BY <1>1, <1>2, <2>1, StagedKept DEF SoundParts, StagedOK
  <2> QED
    BY <1>3, <1>5, <2>1, <2>2 DEF StagedOK
<1>11. BatchOK'
  BY <1>1, <1>3, <1>5 DEF SoundParts, BatchOK
<1> QED
  BY <1>8, <1>9, <1>10, <1>11 DEF Sound

LEMMA ForgetSound ==
  ASSUME Sound, ForgetBefore
  PROVE  Sound'
<1>1. SoundParts
  BY SoundMeans
<1>2. PICK gone : ForgetEngine(gone)
  BY ForgetFacts
<1>3. UNCHANGED <<disk, reg, ident, batch, reader, puts>>
  BY DEF ForgetBefore
<1>4. PICK fs, vs : Kept(eng, eng', fs, vs)
  BY <1>2 DEF ForgetEngine
<1>5. reg.space <= eng'.spaces /\ EngineOK(eng')
  BY <1>4, SpacesKept
<1>6. /\ writer' \in CoreType /\ writer'.by = "forget" /\ writer'.staged = <<>>
      /\ faults' \subseteq faults \cup {"forget"}
  BY <1>2 DEF ForgetEngine
<1>7. WriterOK'
  BY <1>6 DEF WriterOK
<1>8. ReaderOK'
  BY <1>1, <1>3 DEF SoundParts, ReaderOK
<1>9. Types'
  BY <1>1, <1>3, <1>5, <1>6, <1>7, <1>8 DEF Types, SoundParts
<1>10. Entries'
  BY <1>3, <1>4, EntriesKept
<1>11. StagedOK'
  BY <1>6 DEF StagedOK
<1>12. BatchOK'
  BY <1>1, <1>3, <1>6 DEF SoundParts, BatchOK
<1> QED
  BY <1>9, <1>10, <1>11, <1>12 DEF Sound

(* A step that leaves the published parts alone.                           *)
WriterSound ==
  /\ WriterOK /\ StagedOK
  /\ writer.by = "bulk" /\ writer.fresh => batch \subseteq writer.seen
LEMMA PublishedKept ==
  ASSUME Sound, UNCHANGED <<eng, reg, ident, batch, puts>>,
         EngineOK(disk'), AllStored(disk'), ReaderOK', WriterSound',
         faults' \subseteq {"orphan", "vectors", "forget", "compact"}
  PROVE  Sound'
<1>1. SoundParts
  BY SoundMeans
<1>2. Types'
  BY <1>1 DEF Types, SoundParts, WriterSound
<1>3. Entries'
  BY <1>1 DEF SoundParts, Entries
<1>4. BatchOK'
  BY <1>1 DEF SoundParts, BatchOK, WriterSound
<1> QED
  BY <1>2, <1>3, <1>4 DEF Sound, WriterSound

LEMMA NoWriterSound ==
  ASSUME writer = NoWriter
  PROVE  WriterSound
  BY DEF WriterSound, WriterOK, StagedOK, NoWriter

LEMMA ReaderKept ==
  ASSUME ReaderOK, reader' = reader
  PROVE  ReaderOK'
  BY DEF ReaderOK

LEMMA OpenWriterSound ==
  ASSUME Sound, OpenWriter
  PROVE  Sound'
<1>1. SoundParts
  BY SoundMeans
<1>2. writer' = WriterCore("app") /\ UNCHANGED <<disk, eng, reg, ident, batch, puts, reader, faults>>
  BY DEF OpenWriter, published, history
<1>3. writer' \in CoreType /\ writer'.by = "app" /\ writer'.pc = "idle" /\ writer'.staged = <<>>
      /\ writer'.expired = {}
  BY <1>2, FreshCore
<1>4. WriterSound'
  BY <1>3 DEF WriterSound, WriterOK, StagedOK
<1> QED
  BY <1>1, <1>2, <1>4, ReaderKept, PublishedKept DEF SoundParts

LEMMA StartBulkSound ==
  ASSUME Sound, StartBulk
  PROVE  Sound'
<1>1. SoundParts
  BY SoundMeans
<1>2. /\ writer' = [writer EXCEPT !.by = "bulk", !.seen = {}, !.pending = 0, !.fresh = batch = {}]
      /\ writer.by = "app" /\ writer.pc = "idle"
      /\ UNCHANGED <<disk, eng, reg, ident, batch, puts, reader, faults>>
  BY DEF StartBulk, published, history, bounds
<1>3. writer \in CoreType /\ writer.expired = {}
  BY <1>1, <1>2, WriterKinds DEF SoundParts
<1>4. /\ writer' \in CoreType /\ writer'.by = "bulk" /\ writer'.pc = "idle" /\ writer'.staged = writer.staged
      /\ writer'.expired = {} /\ writer'.seen = {} /\ writer'.fresh = (batch = {})
  <2>1. PICK b \in BOOLEAN : b = (batch = {})
    OBVIOUS
  <2>2. writer' = [writer EXCEPT !.by = "bulk", !.seen = {}, !.pending = 0, !.fresh = b]
    BY <1>2, <2>1
  <2>3. /\ writer' \in CoreType /\ writer'.by = "bulk" /\ writer'.pc = "idle"
        /\ writer'.staged = writer.staged /\ writer'.expired = {} /\ writer'.seen = {} /\ writer'.fresh = b
    <3>1. PICK a, c, d, h, g : writer = [by |-> "app", pc |-> "idle", staged |-> a, seen |-> c,
                                         pending |-> d, expired |-> h, fresh |-> g]
      BY <1>2, <1>3 DEF CoreType
    <3>2. writer' = [by |-> "bulk", pc |-> "idle", staged |-> a, seen |-> {},
                     pending |-> 0, expired |-> h, fresh |-> b]
      BY <2>2, <3>1
    <3>3. a \in Seq(StagedType) /\ h = {}
      BY <1>3, <3>1, CoreFacts
    <3> QED
      BY <2>1, <3>1, <3>2, <3>3 DEF CoreType
  <2> QED
    BY <2>1, <2>3
<1>5. StagedOK'
  BY <1>1, <1>2, <1>4 DEF SoundParts, StagedOK
<1>6. WriterSound'
  BY <1>2, <1>4, <1>5 DEF WriterSound, WriterOK
<1> QED
  BY <1>1, <1>2, <1>6, ReaderKept, PublishedKept DEF SoundParts

LEMMA DropWriterSound ==
  ASSUME Sound, DropWriter
  PROVE  Sound'
<1>1. SoundParts
  BY SoundMeans
<1>2. /\ writer' = NoWriter /\ faults' \subseteq faults \cup {"vectors"}
      /\ UNCHANGED <<disk, eng, reg, ident, batch, puts, reader>>
  BY DEF DropWriter, published, bounds
<1>3. WriterSound'
  BY <1>2 DEF WriterSound, WriterOK, StagedOK, NoWriter
<1>4. faults' \subseteq {"orphan", "vectors", "forget", "compact"}
  BY <1>1, <1>2 DEF SoundParts
<1> QED
  BY <1>1, <1>2, <1>3, <1>4, ReaderKept, PublishedKept DEF SoundParts

(* A commit: the writer has nothing staged any more.                       *)
LEMMA Committing ==
  ASSUME Sound, writer.by \in {"app", "bulk", "forget"}, writer.pc \in {"commit", "mark"}
  PROVE  writer \in CoreType /\ (writer.by # "forget" => writer.expired = {}) /\ writer.staged = <<>>
  BY SoundMeans, WriterKinds DEF SoundParts, StagedOK

CommitImage(e, d) ==
  /\ EngineOK(d) /\ AllStored(d)
  /\ DOMAIN d.frames = DOMAIN e.frames /\ DOMAIN d.vectors = DOMAIN e.vectors
  /\ d.spaces = e.spaces /\ d.colls = e.colls
  /\ \A f \in DOMAIN e.frames :
       /\ d.frames[f].kind = e.frames[f].kind /\ d.frames[f].coll = e.frames[f].coll
       /\ d.frames[f].key = e.frames[f].key /\ d.frames[f].val = e.frames[f].val
       /\ d.frames[f].vec = e.frames[f].vec /\ d.frames[f].active = e.frames[f].active
  /\ \A v \in DOMAIN e.vectors :
       /\ d.vectors[v].owner = e.vectors[v].owner /\ d.vectors[v].val = e.vectors[v].val
       /\ d.vectors[v].active = e.vectors[v].active /\ d.vectors[v].space = e.vectors[v].space
LEMMA CommitImageFacts ==
  ASSUME NEW e, EngineOK(e)
  PROVE  CommitImage(e, Image(e))
<1> DEFINE d == Image(e)
<1>1. /\ EngineOK(d)
      /\ DOMAIN d.frames = DOMAIN e.frames /\ DOMAIN d.vectors = DOMAIN e.vectors
      /\ \A f \in DOMAIN e.frames : d.frames[f] = On(e.frames[f])
      /\ \A v \in DOMAIN e.vectors : d.vectors[v] = On(e.vectors[v])
      /\ d.spaces = e.spaces /\ d.colls = e.colls
  BY ImageFacts
<1> HIDE DEF d
<1>2. \A f \in DOMAIN e.frames : e.frames[f] \in FrameType
  BY EngineFacts
<1>3. \A v \in DOMAIN e.vectors : e.vectors[v] \in VectorType
  BY EngineFacts
<1>4. \A f \in DOMAIN e.frames :
       /\ d.frames[f].kind = e.frames[f].kind /\ d.frames[f].coll = e.frames[f].coll
       /\ d.frames[f].key = e.frames[f].key /\ d.frames[f].val = e.frames[f].val
       /\ d.frames[f].vec = e.frames[f].vec /\ d.frames[f].active = e.frames[f].active
       /\ d.frames[f].stored
  BY <1>1, <1>2, OnFrame
<1>5. \A v \in DOMAIN e.vectors :
       /\ d.vectors[v].owner = e.vectors[v].owner /\ d.vectors[v].val = e.vectors[v].val
       /\ d.vectors[v].active = e.vectors[v].active /\ d.vectors[v].space = e.vectors[v].space
       /\ d.vectors[v].stored
  BY <1>1, <1>3, OnVector
<1>6. AllStored(d)
  BY <1>1, <1>4, <1>5 DEF AllStored
<1>7. CommitImage(e, d)
  BY <1>1, <1>4, <1>5, <1>6 DEF CommitImage
<1> QED
  BY <1>7 DEF d

LEMMA EngineCommitSound ==
  ASSUME Sound, EngineCommit
  PROVE  Sound'
<1>1. SoundParts
  BY SoundMeans
<1>2. /\ disk' = Image(eng) /\ eng' = Image(eng)
      /\ writer' = [writer EXCEPT !.pc = "mark"]
      /\ writer.by \in {"app", "bulk", "forget"} /\ writer.pc = "commit"
      /\ UNCHANGED <<reg, ident, batch, reader, puts, faults>>
  BY DEF EngineCommit, bounds
<1>3. CommitImage(eng, eng')
  BY <1>1, <1>2, CommitImageFacts DEF SoundParts
<1>4. writer \in CoreType /\ (writer.by # "forget" => writer.expired = {}) /\ writer.staged = <<>>
  BY <1>2, Committing
<1>5. /\ writer' \in CoreType /\ writer'.by = writer.by /\ writer'.pc = "mark" /\ writer'.staged = <<>>
      /\ writer'.expired = writer.expired /\ writer'.seen = writer.seen /\ writer'.fresh = writer.fresh
  BY <1>2, <1>4 DEF CoreType
<1>6. WriterOK'
  BY <1>4, <1>5 DEF WriterOK
<1>7. Types'
  BY <1>1, <1>2, <1>3, <1>6, ReaderKept DEF Types, SoundParts, CommitImage
<1>8. Entries'
  BY <1>1, <1>2, <1>3 DEF Entries, SoundParts, CommitImage, RecordOf
<1>9. StagedOK'
  BY <1>5 DEF StagedOK
<1>10. BatchOK'
  BY <1>1, <1>2, <1>5 DEF BatchOK, SoundParts
<1> QED
  BY <1>7, <1>8, <1>9, <1>10 DEF Sound

LEMMA CommitErrSound ==
  ASSUME Sound, writer.by \in {"app", "bulk", "forget"}, writer.pc = "commit", CommitReturnsErr,
         disk' = disk \/ disk' = Image(eng), UNCHANGED <<eng, reg, ident, batch, reader, puts>>
  PROVE  Sound'
<1>1. SoundParts
  BY SoundMeans
<1>2. EngineOK(disk') /\ AllStored(disk')
  BY <1>1, CommitImageFacts DEF SoundParts, CommitImage
<1>3. faults' \subseteq {"orphan", "vectors", "forget", "compact"}
  BY <1>1 DEF CommitReturnsErr, SoundParts
<1>4. writer \in CoreType /\ (writer.by # "forget" => writer.expired = {}) /\ writer.staged = <<>>
  BY Committing
<1>5. WriterSound'
  <2>1. CASE writer.by = "forget"
    <3>1. writer' = NoWriter
      BY <2>1 DEF CommitReturnsErr
    <3> QED
      BY <3>1 DEF WriterSound, WriterOK, StagedOK, NoWriter
  <2>2. CASE writer.by # "forget"
    <3>1. writer' = [writer EXCEPT !.pc = "idle"]
      BY <2>2 DEF CommitReturnsErr
    <3>2. /\ writer' \in CoreType /\ writer'.by = writer.by /\ writer'.pc = "idle" /\ writer'.staged = <<>>
          /\ writer'.expired = writer.expired /\ writer'.seen = writer.seen /\ writer'.fresh = writer.fresh
      BY <1>4, <3>1 DEF CoreType
    <3>3. WriterOK' /\ StagedOK'
      BY <1>4, <2>2, <3>2 DEF WriterOK, StagedOK
    <3> QED
      BY <1>1, <3>2, <3>3 DEF SoundParts, BatchOK, WriterSound
  <2> QED
    BY <2>1, <2>2
<1> QED
  BY <1>1, <1>2, <1>3, <1>5, ReaderKept, PublishedKept DEF SoundParts

LEMMA OnEntry ==
  ASSUME NEW en \in EntryType
  PROVE  LET x == [en EXCEPT !.committed = TRUE] IN
         /\ x \in EntryType /\ x.committed = TRUE /\ x.frame = en.frame /\ x.vectors = en.vectors
  BY DEF EntryType

LEMMA MarkedFacts ==
  ASSUME ident \in [Slots -> EntryType], NEW S
  PROVE  /\ Marked(S) \in [Slots -> EntryType]
         /\ \A s \in Slots :
              /\ Marked(S)[s].frame = ident[s].frame /\ Marked(S)[s].vectors = ident[s].vectors
              /\ ident[s] = NoEntry => Marked(S)[s] = NoEntry
              /\ ident[s] # NoEntry /\ s \in S => Marked(S)[s].committed /\ Marked(S)[s] # NoEntry
              /\ s \notin S => Marked(S)[s] = ident[s]
<1>1. ASSUME NEW s \in Slots, s \in S, ident[s] # NoEntry
      PROVE  /\ Marked(S)[s] = [ident[s] EXCEPT !.committed = TRUE]
             /\ Marked(S)[s] \in EntryType /\ Marked(S)[s].committed
             /\ Marked(S)[s].frame = ident[s].frame /\ Marked(S)[s].vectors = ident[s].vectors
             /\ Marked(S)[s] # NoEntry
  <2>1. Marked(S)[s] = [ident[s] EXCEPT !.committed = TRUE] /\ ident[s] \in EntryType
    BY <1>1 DEF Marked
  <2> QED
    BY <1>1, <2>1, OnEntry, NoEntryFacts
<1>2. ASSUME NEW s \in Slots, s \notin S \/ ident[s] = NoEntry PROVE Marked(S)[s] = ident[s]
  BY <1>2 DEF Marked
<1>3. \A s \in Slots : Marked(S)[s] \in EntryType
  BY <1>1, <1>2
<1>4. Marked(S) \in [Slots -> EntryType]
  BY <1>3 DEF Marked
<1> QED
  BY <1>1, <1>2, <1>4

LEMMA MarkSound ==
  ASSUME Sound, MarkCommitted \/ ForgetRemove
  PROVE  Sound'
<1>1. SoundParts
  BY SoundMeans
<1>2. /\ \A s \in Slots : \/ ident'[s] = NoEntry
                          \/ ident'[s] = Marked(batch)[s]
      /\ ident' \in [Slots -> EntryType]
      /\ batch' = {}
      /\ UNCHANGED <<disk, eng, reg, reader, puts, faults>>
      /\ writer.by \in {"app", "bulk", "forget"} /\ writer.pc = "mark"
  <2>1. CASE MarkCommitted
    BY <1>1, <2>1, MarkedFacts DEF MarkCommitted, bounds, SoundParts
  <2>2. CASE ForgetRemove
    <3>1. ident' = [s \in Slots |->
                 IF s[1] \in writer.expired THEN NoEntry ELSE Marked(batch)[s]]
      BY <2>2 DEF ForgetRemove
    <3>2. \A s \in Slots : Marked(batch)[s] \in EntryType
      BY <1>1, MarkedFacts DEF SoundParts
    <3> QED
      BY <2>2, <3>1, <3>2, NoEntryFacts DEF ForgetRemove, bounds
  <2> QED
    BY <2>1, <2>2
<1>3. writer \in CoreType /\ (writer.by # "forget" => writer.expired = {}) /\ writer.staged = <<>>
  BY <1>2, Committing
<1>4. WriterOK' /\ StagedOK'
  <2>1. CASE MarkCommitted
    <3>1. writer' = [writer EXCEPT !.pc = "idle", !.seen = {}, !.pending = 0, !.fresh = TRUE]
          /\ writer.by # "forget"
      BY <2>1 DEF MarkCommitted
    <3>2. writer' \in CoreType /\ writer'.by = writer.by /\ writer'.staged = <<>> /\ writer'.pc = "idle"
          /\ writer'.expired = {}
      BY <1>3, <3>1 DEF CoreType
    <3> QED
      BY <3>1, <3>2 DEF WriterOK, StagedOK
  <2>2. CASE ForgetRemove
    BY <2>2 DEF ForgetRemove, WriterOK, StagedOK, NoWriter
  <2> QED
    BY <2>1, <2>2
<1>5. Types'
  BY <1>1, <1>2, <1>4, ReaderKept DEF Types, SoundParts
<1>6. \A s \in Slots :
        /\ ident'[s].vectors \subseteq ident[s].vectors
        /\ ident'[s] # NoEntry => ident[s] # NoEntry /\ ident'[s].frame = ident[s].frame
                                  /\ (s \in batch => ident'[s].committed)
                                  /\ (s \notin batch => ident'[s] = ident[s])
  BY <1>1, <1>2, MarkedFacts, NoEntryFacts DEF SoundParts
<1>7. Entries'
  BY <1>1, <1>2, <1>6 DEF SoundParts, Entries, RecordOf
<1>8. BatchOK'
  BY <1>1, <1>2, <1>6 DEF SoundParts, BatchOK
<1> QED
  BY <1>4, <1>5, <1>7, <1>8 DEF Sound

LEMMA CompactBuildSound ==
  ASSUME Sound, CompactBuild
  PROVE  Sound'
<1>1. SoundParts
  BY SoundMeans
<1>2. /\ writer' = [by |-> "compact", pc |-> "rename", source |-> eng, temp |-> Image(Compacted(eng))]
      /\ faults' \subseteq faults \cup {"compact"}
      /\ UNCHANGED <<disk, eng, reg, ident, batch, puts, reader>>
  BY DEF CompactBuild, published
<1>3. EngineOK(Image(Compacted(eng))) /\ AllStored(Image(Compacted(eng)))
  BY <1>1, TempFacts DEF SoundParts
<1>4. WriterSound'
  BY <1>1, <1>2, <1>3 DEF SoundParts, WriterSound, WriterOK, StagedOK
<1>5. faults' \subseteq {"orphan", "vectors", "forget", "compact"}
  BY <1>1, <1>2 DEF SoundParts
<1> QED
  BY <1>1, <1>2, <1>4, <1>5, ReaderKept, PublishedKept DEF SoundParts

LEMMA CompactRenameSound ==
  ASSUME Sound, CompactRename
  PROVE  Sound'
<1>1. SoundParts
  BY SoundMeans
<1>2. /\ writer.by = "compact" /\ disk' = writer.temp /\ writer' = [writer EXCEPT !.pc = "publish"]
      /\ UNCHANGED <<eng, reg, ident, batch, puts, reader, faults>>
  BY DEF CompactRename, published, bounds, history
<1>3. /\ writer = [by |-> "compact", pc |-> writer.pc, source |-> writer.source, temp |-> writer.temp]
      /\ EngineOK(writer.source) /\ EngineOK(writer.temp) /\ AllStored(writer.temp)
  BY <1>1, <1>2, WriterKinds DEF SoundParts
<1>4. writer' = [by |-> "compact", pc |-> "publish", source |-> writer.source, temp |-> writer.temp]
  BY <1>2, <1>3
<1>5. WriterSound'
  BY <1>3, <1>4 DEF WriterSound, WriterOK, StagedOK
<1> QED
  BY <1>1, <1>2, <1>3, <1>5, ReaderKept, PublishedKept DEF SoundParts

(* Publishing or opening the file on disk.                                 *)
LEMMA LoadSound ==
  ASSUME Sound, eng' = disk, reg' = RebuiltSchema(disk), ident' = RebuiltIdentity(disk), batch' = {},
         writer' = NoWriter, ReaderOK', UNCHANGED <<disk, puts>>,
         faults' \subseteq {"orphan", "vectors", "forget", "compact"}
  PROVE  Sound'
<1>1. SoundParts
  BY SoundMeans
<1>2. reg' \in [shapes : SUBSET Colls, space : Nat] /\ reg'.space = disk.spaces /\ disk.spaces \in Nat
  BY <1>1, EngineFacts DEF SoundParts, RebuiltSchema
<1>3. /\ ident' \in [Slots -> EntryType]
      /\ \A s \in Slots :
           /\ KeyedFrames(disk, s) = {} => ident'[s] = NoEntry
           /\ KeyedFrames(disk, s) # {} =>
                /\ ident'[s].committed
                /\ ident'[s].frame \in KeyedFrames(disk, s)
                /\ ident'[s].vectors \subseteq ActiveVectors(disk)
  BY <1>1, RebuiltFacts DEF SoundParts
<1>4. Types'
  BY <1>1, <1>2, <1>3 DEF Types, SoundParts, WriterOK
<1>5. Entries'
  <2> SUFFICES ASSUME NEW s \in Slots
               PROVE  /\ ident'[s] # NoEntry => RecordOf(disk, ident'[s].frame, s)
                      /\ ident'[s].vectors \subseteq DOMAIN disk.vectors
    BY DEF Entries
  <2>1. CASE KeyedFrames(disk, s) = {}
    BY <1>3, <2>1, NoEntryFacts
  <2>2. CASE KeyedFrames(disk, s) # {}
    <3>1. ident'[s].frame \in KeyedFrames(disk, s) /\ ident'[s].vectors \subseteq ActiveVectors(disk)
      BY <1>3, <2>2
    <3> QED
      BY <3>1 DEF KeyedFrames, ActiveFrames, ActiveVectors, RecordOf
  <2> QED
    BY <2>1, <2>2
<1>6. StagedOK'
  BY DEF StagedOK, NoWriter
<1>7. BatchOK'
  <2>1. \A s \in Slots : ident'[s] # NoEntry => ident'[s].committed
    BY <1>3
  <2> QED
    BY <2>1 DEF BatchOK, NoWriter
<1> QED
  BY <1>4, <1>5, <1>6, <1>7 DEF Sound

LEMMA PinnedFacts ==
  ASSUME ReaderOK
  PROVE  /\ reader.pc = "idle" => Pinned(reader) = reader
         /\ reader.pc = "looked" /\ reader.held # <<>> => Pinned(reader) = reader
         /\ reader.pc = "looked" /\ reader.held = <<>> =>
              Pinned(reader) = [pc |-> "looked", slot |-> reader.slot, entry |-> reader.entry,
                                space |-> reader.space, held |-> <<eng>>]
<1>1. ASSUME reader.pc = "looked", reader.held = <<>>
      PROVE  Pinned(reader) = [pc |-> "looked", slot |-> reader.slot, entry |-> reader.entry,
                                space |-> reader.space, held |-> <<eng>>]
  <2>1. reader = [pc |-> "looked", slot |-> reader.slot, entry |-> reader.entry,
                  space |-> reader.space, held |-> reader.held]
    BY <1>1 DEF ReaderOK, IdleReader
  <2>2. Pinned(reader) = [reader EXCEPT !.held = <<eng>>]
    BY <1>1 DEF Pinned
  <2>3. PICK a, b, c, d : reader = [pc |-> "looked", slot |-> a, entry |-> b, space |-> c, held |-> d]
    BY <2>1
  <2> QED
    BY <2>2, <2>3
<1> QED
  BY <1>1 DEF Pinned

LEMMA PinnedOK ==
  ASSUME ReaderOK, reader' = Pinned(reader)
  PROVE  ReaderOK'
<1>1. CASE reader = IdleReader
  <2>1. reader' = reader
    BY <1>1, PinnedFacts DEF IdleReader
  <2> QED
    BY <1>1, <2>1 DEF ReaderOK
<1>2. CASE reader # IdleReader
  <2>1. reader.pc = "looked" /\ reader.slot \in Slots
        /\ reader = [pc |-> "looked", slot |-> reader.slot, entry |-> reader.entry,
                     space |-> reader.space, held |-> reader.held]
    BY <1>2 DEF ReaderOK
  <2>2. CASE reader.held = <<>>
    <3>1. reader' = [pc |-> "looked", slot |-> reader.slot, entry |-> reader.entry,
                     space |-> reader.space, held |-> <<eng>>]
      BY <2>1, <2>2, PinnedFacts
    <3>2. reader' = [pc |-> "looked", slot |-> reader'.slot, entry |-> reader'.entry,
                     space |-> reader'.space, held |-> reader'.held] /\ reader'.slot = reader.slot
      BY <3>1
    <3> QED
      BY <2>1, <3>2 DEF ReaderOK
  <2>3. CASE reader.held # <<>>
    <3>1. reader' = reader
      BY <2>1, <2>3, PinnedFacts
    <3> QED
      BY <3>1, ReaderKept
  <2> QED
    BY <2>2, <2>3
<1> QED
  BY <1>1, <1>2

LEMMA CompactPublishSound ==
  ASSUME Sound, CompactPublish
  PROVE  Sound'
<1>1. SoundParts
  BY SoundMeans
<1>2. /\ eng' = disk /\ reg' = RebuiltSchema(disk) /\ ident' = RebuiltIdentity(disk) /\ batch' = {}
      /\ writer' = NoWriter /\ reader' = Pinned(reader) /\ UNCHANGED <<disk, puts>>
      /\ faults' \subseteq faults \cup {"compact"}
  BY DEF CompactPublish, bounds
<1>3. ReaderOK'
  BY <1>1, <1>2, PinnedOK DEF SoundParts
<1>4. faults' \subseteq {"orphan", "vectors", "forget", "compact"}
  BY <1>1, <1>2 DEF SoundParts
<1> QED
  BY <1>2, <1>3, <1>4, LoadSound

LEMMA ReopenSound ==
  ASSUME Sound, Reopen
  PROVE  Sound'
<1>1. SoundParts
  BY SoundMeans
<1>2. /\ eng' = disk /\ reg' = RebuiltSchema(disk) /\ ident' = RebuiltIdentity(disk) /\ batch' = {}
      /\ writer' = NoWriter /\ reader' = IdleReader /\ UNCHANGED <<disk, puts, faults>>
  BY DEF Reopen
<1>3. ReaderOK'
  BY <1>2 DEF ReaderOK
<1> QED
  BY <1>1, <1>2, <1>3, LoadSound DEF SoundParts

LEMMA WriterKept ==
  ASSUME Sound, UNCHANGED <<eng, reg, ident, batch, writer, disk, puts, faults>>, ReaderOK'
  PROVE  Sound'
<1>1. SoundParts
  BY SoundMeans
<1>2. WriterSound'
  BY <1>1 DEF SoundParts, WriterSound, WriterOK, StagedOK, BatchOK
<1> QED
  BY <1>1, <1>2, PublishedKept DEF SoundParts

LEMMA GetSound ==
  ASSUME Sound, GetLookup \/ GetMaterialize
  PROVE  Sound'
<1>1. UNCHANGED <<eng, reg, ident, batch, writer, disk, puts, faults>>
  BY DEF GetLookup, GetMaterialize, published, bounds, history
<1>2. ReaderOK'
  <2>1. CASE GetLookup
    <3>1. PICK s \in Slots : reader' = [pc |-> "looked", slot |-> s, entry |-> ident[s],
                                        space |-> reg.space, held |-> <<>>]
      BY <2>1 DEF GetLookup
    <3>2. reader' = [pc |-> "looked", slot |-> reader'.slot, entry |-> reader'.entry,
                     space |-> reader'.space, held |-> reader'.held] /\ reader'.slot = s
      BY <3>1
    <3> QED
      BY <3>2 DEF ReaderOK
  <2>2. CASE GetMaterialize
    BY <2>2 DEF GetMaterialize, ReaderOK
  <2> QED
    BY <2>1, <2>2
<1> QED
  BY <1>1, <1>2, WriterKept

LEMMA PutIntoFacts ==
  ASSUME Sound, PutInto
  PROVE  /\ Sound'
         /\ UNCHANGED <<disk, reader, failures, sessions, acked, attempts, faults>>
         /\ \E s \in Slots, vec \in BOOLEAN : \E f :
              /\ PutEngine(s, vec, f, NewVectors) /\ PutWriter(s, vec, f)
              /\ MayPut(s) /\ ~Rejected(ident[s]) /\ puts' = puts + 1
<1>1. PICK k \in Keys, t \in Times, vec \in BOOLEAN :
        StartPut(<<Period(t), k>>) /\ Put(<<Period(t), k>>, t, vec)
  BY DEF PutInto
<1>2. UNCHANGED <<disk, reader, failures, sessions, acked, attempts, faults>>
  BY DEF PutInto, history
<1>3. PICK s \in Slots : s = <<Period(t), k>>
  BY PutSlot
<1>4. StartPut(s) /\ Put(s, t, vec)
  BY <1>1, <1>3
<1>5. Sound' /\ \E f : PutEngine(s, vec, f, NewVectors) /\ PutWriter(s, vec, f)
  BY <1>2, <1>4, PutSound
<1> QED
  BY <1>2, <1>4, <1>5 DEF StartPut

LEMMA PutIntoErrFacts ==
  ASSUME Sound, PutIntoErr
  PROVE  /\ Sound'
         /\ UNCHANGED <<disk, ident, batch, writer, reader, sessions, acked, attempts>>
         /\ faults' = faults \cup {"orphan"}
         /\ \E s \in Slots : \E f : FailEngine(s, f)
<1>1. PICK k \in Keys, t \in Times, vec \in BOOLEAN :
        StartPut(<<Period(t), k>>) /\ PutFails(<<Period(t), k>>, t, vec)
  BY DEF PutIntoErr
<1>2. PICK s \in Slots : s = <<Period(t), k>>
  BY PutSlot
<1>3. StartPut(s) /\ PutFails(s, t, vec)
  BY <1>1, <1>2
<1>4. /\ UNCHANGED <<disk, ident, batch, writer, reader, sessions, acked, attempts>>
      /\ faults' = faults \cup {"orphan"}
  BY <1>3 DEF PutIntoErr, PutFails
<1>5. puts' \in Nat
  BY <1>3 DEF StartPut, Sound, Types
<1>6. FailEngine(s, WrittenFrame(eng, reg, s))
  BY <1>3, <1>5, FailFacts
<1>7. s[1] \in Colls
  BY DEF Slots
<1>8. faults' \subseteq {"orphan", "vectors", "forget", "compact"}
  BY <1>4 DEF Sound, Types
<1>9. Sound'
  BY <1>4, <1>5, <1>6, <1>7, <1>8, GrowSound DEF FailEngine
<1> QED
  BY <1>4, <1>6, <1>9

LEMMA DeclareSound ==
  ASSUME Sound, Declare
  PROVE  Sound'
<1>1. PICK c \in Colls \ reg.shapes : DeclareEngine(c)
  BY DeclareFacts
<1>2. UNCHANGED <<disk, ident, batch, writer, reader, puts, faults>>
  BY DEF Declare, bounds, history
<1>3. puts \in Nat /\ faults \subseteq {"orphan", "vectors", "forget", "compact"}
  BY DEF Sound, Types
<1> QED
  BY <1>1, <1>2, <1>3, GrowSound DEF DeclareEngine

(* Nothing happens.                                                        *)
LEMMA SoundStutter ==
  ASSUME Sound, UNCHANGED vars
  PROVE  Sound'
<1>1. UNCHANGED <<eng, reg, ident, batch, writer, disk, puts, faults, reader>>
  BY DEF vars
<1>2. ReaderOK'
  BY <1>1, ReaderKept DEF Sound, Types
<1> QED
  BY <1>1, <1>2, WriterKept

LEMMA SoundStep ==
  ASSUME Sound, [Next]_vars
  PROVE  Sound'
<1>1. CASE OpenWriter
  BY <1>1, OpenWriterSound
<1>2. CASE StartBulk
  BY <1>2, StartBulkSound
<1>3. CASE DropWriter
  BY <1>3, DropWriterSound
<1>4. CASE PutInto
  BY <1>4, PutIntoFacts
<1>5. CASE PutIntoErr
  BY <1>5, PutIntoErrFacts
<1>6. CASE Delete
  BY <1>6, DeleteSound
<1>7. CASE Declare
  BY <1>7, DeclareSound
<1>8. CASE FlushDeferred
  BY <1>8, FlushSound
<1>9. CASE FlushDeferredErr
  BY <1>9, FlushErrSound
<1>10. CASE EngineCommit
  BY <1>10, EngineCommitSound
<1>11. CASE CommitRefused
  BY <1>11, CommitErrSound DEF CommitRefused, published, bounds
<1>12. CASE CommitErr
  BY <1>12, CommitErrSound DEF CommitErr, published
<1>13. CASE MarkCommitted \/ ForgetRemove
  BY <1>13, MarkSound
<1>14. CASE ForgetBefore
  BY <1>14, ForgetSound
<1>15. CASE CompactBuild
  BY <1>15, CompactBuildSound
<1>16. CASE CompactRename
  BY <1>16, CompactRenameSound
<1>17. CASE CompactPublish
  BY <1>17, CompactPublishSound
<1>18. CASE GetLookup \/ GetMaterialize
  BY <1>18, GetSound
<1>19. CASE Reopen
  BY <1>19, ReopenSound
<1>20. CASE UNCHANGED vars
  BY <1>20, SoundStutter
<1> QED
  BY <1>1, <1>2, <1>3, <1>4, <1>5, <1>6, <1>7, <1>8, <1>9, <1>10, <1>11, <1>12, <1>13,
     <1>14, <1>15, <1>16, <1>17, <1>18, <1>19, <1>20 DEF Next

LEMMA SpecSound == Spec => []Sound
<1>1. Init => Sound
  BY SoundInit
<1>2. Sound /\ [Next]_vars => Sound'
  BY SoundStep
<1> QED
  BY <1>1, <1>2, PTL DEF Spec

(***************************************************************************)
(* What follows from Sound.                                                *)
(***************************************************************************)

(* Every variable of the store keeps its shape; in particular a vector     *)
(* belongs to a frame of the catalog and an entry names rows that exist.   *)
THEOREM TypeCorrect == Spec => []TypeOK
<1>1. Sound => TypeOK
  <2> SUFFICES ASSUME Sound PROVE TypeOK
    OBVIOUS
  <2>1. SoundParts
    BY SoundMeans
  <2>2. \A e : EngineOK(e) =>
          /\ DOMAIN e = {"frames", "vectors", "spaces", "colls"}
          /\ e.colls \subseteq Colls /\ e.spaces \in Nat
          /\ \A v \in DOMAIN e.vectors :
               /\ e.vectors[v].owner \in DOMAIN e.frames
               /\ e.vectors[v].space \in 1..e.spaces
    <3> SUFFICES ASSUME NEW e, EngineOK(e)
                 PROVE  /\ DOMAIN e = {"frames", "vectors", "spaces", "colls"}
                        /\ e.colls \subseteq Colls /\ e.spaces \in Nat
                        /\ \A v \in DOMAIN e.vectors :
                             /\ e.vectors[v].owner \in DOMAIN e.frames
                             /\ e.vectors[v].space \in 1..e.spaces
      OBVIOUS
    <3>1. DOMAIN e = {"frames", "vectors", "spaces", "colls"}
      BY DEF EngineOK, EngineType
    <3>2. e.colls \subseteq Colls /\ e.spaces \in Nat
      BY EngineFacts
    <3> QED
      BY <3>1, <3>2 DEF EngineOK
  <2>3. reg \in [shapes : SUBSET Colls, space : 0..eng.spaces]
    <3>1. eng.spaces \in Nat /\ reg.space \in Nat /\ reg.space <= eng.spaces
      BY <2>1, EngineFacts DEF SoundParts
    <3>2. reg.space \in 0..eng.spaces
      BY <3>1
    <3> QED
      BY <2>1, <3>2 DEF SoundParts
  <2>4. \A s \in Slots : /\ ident[s].frame \in {0} \cup DOMAIN eng.frames
                         /\ ident[s].vectors \subseteq DOMAIN eng.vectors
    BY <2>1, NoEntryFacts DEF SoundParts, Entries, RecordOf
  <2>5. writer.by \in {"none", "app", "bulk", "forget", "compact"}
    BY <2>1, WriterKinds DEF SoundParts
  <2>6. reader.pc \in {"idle", "looked"}
    <3>1. IdleReader.pc = "idle"
      BY DEF IdleReader
    <3>2. reader = IdleReader \/ reader.pc = "looked"
      BY <2>1 DEF SoundParts, ReaderOK
    <3> QED
      BY <3>1, <3>2
  <2> QED
    BY <2>1, <2>2, <2>3, <2>4, <2>5, <2>6 DEF TypeOK, SoundParts
<1> QED
  BY <1>1, SpecSound, PTL

(* put and delete take a tombstoned frame's deferred vectors off the list: *)
(* the writer never holds one back for a dead frame.                       *)
THEOREM StagedLive == Spec => []StagedOwnersLive
<1>1. Sound => StagedOwnersLive
  BY DEF Sound, StagedOK, StagedOwnersLive
<1> QED
  BY <1>1, SpecSound, PTL

(* Bulk never meets a key whose uncommitted vectors bar it from being put  *)
(* again, if none were left over when it took the writer.                  *)
THEOREM BulkNeverRefused == Spec => []BulkAccepts
<1>1. Sound => BulkAccepts
  <2>1. ASSUME Sound, writer.by = "bulk", writer.fresh, NEW s \in Slots \ writer.seen, Rejected(ident[s])
        PROVE  FALSE
    <3>1. ident[s] # NoEntry /\ ~ident[s].committed
      BY <2>1, NoEntryFacts DEF Rejected
    <3>2. s \in batch /\ batch \subseteq writer.seen
      BY <2>1, <3>1 DEF Sound, BatchOK
    <3> QED
      BY <2>1, <3>2
  <2> QED
    BY <2>1 DEF BulkAccepts
<1> QED
  BY <1>1, SpecSound, PTL

-----------------------------------------------------------------------------
(***************************************************************************)
(* What KeyedStore promises across commits, compactions and reopens: each  *)
(* invariant below is inductive given Sound and the ones before it.        *)
(***************************************************************************)

(* Every shape has its document; the file a compaction is building has the *)
(* stored ones, which are all unless a collection was declared meanwhile.  *)
Target == IF writer.pc = "rename" THEN writer.temp ELSE disk
ShapeDocs == \A c \in reg.shapes : c \in eng.colls /\ DocsOf(eng, c) # {}
Copies ==
  writer.by = "compact" =>
    /\ Len(writer.source.frames) <= Len(eng.frames)
    /\ writer.source.colls \subseteq eng.colls
    /\ Target.colls = writer.source.colls
    /\ \A c \in Colls : FindDoc(writer.source, c) => FindDoc(Target, c)
    /\ eng = writer.source /\ "compact" \notin faults =>
         \A c \in reg.shapes : c \in Target.colls /\ FindDoc(Target, c)
Docs == ShapeDocs /\ Copies

(* A key that no forget_before is dropping.                                *)
Unexpired(s) == writer.by = "forget" => s[1] \notin writer.expired
Marking == writer.by \in {"app", "bulk", "forget"} /\ writer.pc = "mark"
Renaming == writer.by = "compact" /\ writer.pc = "rename"

(* The version an entry names is active, and once committed it is on disk. *)
Live ==
  "forget" \notin faults =>
    \A s \in Slots :
      ident[s] # NoEntry /\ Unexpired(s) =>
        /\ ident[s].frame \in ActiveFrames(eng)
        /\ ident[s].committed \/ Marking =>
             eng.frames[ident[s].frame].stored /\ KeyedFrames(disk, s) # {}
        /\ Renaming /\ ident[s].committed => KeyedFrames(writer.temp, s) # {}

(* There is no other version.                                              *)
Single(e) ==
  \A f, g \in ActiveFrames(e), s \in Slots :
    RecordOf(e, f, s) /\ RecordOf(e, g, s) => f = g
Unique ==
  faults \cap {"orphan", "forget"} = {} =>
    /\ \A f \in ActiveFrames(eng), s \in Slots :
         RecordOf(eng, f, s) /\ Unexpired(s) => f = ident[s].frame
    /\ writer.by = "forget" =>
         \A f \in ActiveFrames(eng) :
           eng.frames[f].kind = "record" => eng.frames[f].coll \notin writer.expired
    /\ Single(disk)
    /\ Renaming => Single(writer.temp)

(* The vectors of an entry, and of an entry a reader has looked up, are    *)
(* those of its frame.                                                     *)
EntryIn(e, en, s) ==
  /\ RecordOf(e, en.frame, s)
  /\ \A v \in en.vectors : v \in DOMAIN e.vectors /\ e.vectors[v].owner = en.frame
Owners ==
  faults \cap {"orphan", "forget"} = {} =>
    /\ \A s \in Slots : ident[s] # NoEntry => EntryIn(eng, ident[s], s)
    /\ reader.pc = "looked" =>
         /\ EngineOK(ReaderEngine)
         /\ EntryIn(ReaderEngine, reader.entry, reader.slot)

(* What open() would find is what was acknowledged or attempted; a commit  *)
(* and a compaction agree with it on the way.                              *)
Views ==
  faults \cap {"orphan", "forget", "compact"} = {} =>
    /\ DiskView \in {acked} \cup attempts
    /\ Marking => DiskView = Intended
    /\ Renaming => View(writer.temp, RebuiltIdentity(writer.temp)) = DiskView

(* Vectors are where the records are.                                      *)
Has(e, f) == \E v \in ActiveVectors(e) : e.vectors[v].owner = f
Follow(e) ==
  \A f \in DOMAIN e.frames :
    /\ e.frames[f].active /\ e.frames[f].vec <=> Has(e, f)
    /\ e.frames[f].active /\ e.frames[f].vec => e.frames[f].kind = "record"
Staged(f) ==
  /\ writer.by \in {"app", "bulk"}
  /\ \E i \in DOMAIN writer.staged : writer.staged[i].owner = f
Vecs ==
  faults = {} =>
    /\ \A v \in ActiveVectors(eng) :
         LET o == eng.vectors[v].owner IN
         /\ eng.frames[o].active /\ eng.frames[o].vec /\ eng.frames[o].kind = "record"
         /\ eng.frames[o].stored => eng.vectors[v].stored
         /\ \A s \in Slots : ident[s].frame = o => v \in ident[s].vectors
    /\ \A f \in ActiveFrames(eng) :
         eng.frames[f].vec => Has(eng, f) \/ Staged(f)
    /\ \A f \in DOMAIN eng.frames : Staged(f) => ~eng.frames[f].stored
    /\ Follow(disk)
    /\ Renaming => Follow(writer.temp)

(***************************************************************************)
(* What each step does, in the terms of these invariants.                  *)
(***************************************************************************)
Quiet ==
  /\ UNCHANGED <<disk, eng, reg, ident, acked, attempts>>
  /\ \/ writer' = writer
     \/ /\ writer'.by \in {"none", "app", "bulk"} /\ ~Marking' /\ writer.by # "compact"
        /\ writer.by = "forget" => "forget" \in faults'
  /\ faults' = {} => \A f : Staged(f)' <=> Staged(f)
  /\ reader' = reader \/ reader' = IdleReader \/ GetLookup

PutStep ==
  /\ UNCHANGED <<disk, reader, acked, attempts, faults>>
  /\ \E s \in Slots, vec \in BOOLEAN : \E f :
       PutEngine(s, vec, f, NewVectors) /\ PutWriter(s, vec, f) /\ ~Rejected(ident[s])

FailStep ==
  /\ UNCHANGED <<disk, ident, writer, reader, acked, attempts>>
  /\ "orphan" \in faults'
  /\ \E s \in Slots : \E f : FailEngine(s, f)

DeclareStep ==
  /\ UNCHANGED <<disk, ident, writer, reader, acked, attempts, faults>>
  /\ \E c \in Colls \ reg.shapes : DeclareEngine(c) /\ eng' = Declared(eng, c, reg)

DeleteStep ==
  /\ UNCHANGED <<disk, reg, reader, acked, attempts, faults>>
  /\ \E s \in Slots : DeleteEngine(s)

FlushStep ==
  /\ UNCHANGED <<disk, reader, acked, attempts, faults>>
  /\ FlushEngine /\ FlushWriter /\ writer.pc \in {"idle", "full"}

FlushErrStep ==
  /\ UNCHANGED <<disk, reg, ident, reader, acked, attempts>>
  /\ "vectors" \in faults'
  /\ Kept(eng, eng', {}, {}) /\ eng'.frames = eng.frames /\ eng'.colls = eng.colls
  /\ writer'.by \in {"app", "bulk", "forget"} /\ writer'.by = writer.by
  /\ writer'.pc = "idle" /\ writer'.expired = writer.expired

(* A commit of the engine, whatever it returns.                            *)
WrittenOut ==
  /\ disk' = Image(eng) /\ CommitImage(eng, disk')
  /\ attempts' = attempts \cup {Intended}
Committer ==
  /\ writer \in CoreType /\ (writer.by # "forget" => writer.expired = {})
  /\ \A f : ~Staged(f) /\ ~Staged(f)'
CommitStep ==
  /\ UNCHANGED <<reg, ident, reader, acked, faults>>
  /\ WrittenOut /\ eng' = disk' /\ Committer /\ writer.pc = "commit"
  /\ writer' = [writer EXCEPT !.pc = "mark"] /\ writer'.by = writer.by
  /\ writer'.pc = "mark" /\ writer'.expired = writer.expired

CommitErrStep ==
  /\ UNCHANGED <<eng, reg, ident, reader, acked>>
  /\ UNCHANGED <<disk, attempts>> \/ WrittenOut
  /\ Committer /\ writer.pc = "commit" /\ writer'.by \in {"none", "app", "bulk"} /\ ~Marking'
  /\ writer.by = "forget" => "forget" \in faults'

MarkStep ==
  /\ UNCHANGED <<disk, eng, reg, reader, faults>>
  /\ acked' = Intended /\ attempts' = {}
  /\ Marking /\ Committer /\ writer'.by \in {"none", "app", "bulk"} /\ ~Marking'
  /\ \A s \in Slots :
       /\ ~Unexpired(s) => ident'[s] = NoEntry
       /\ Unexpired(s) =>
            /\ ident'[s].frame = ident[s].frame /\ ident'[s].vectors = ident[s].vectors
            /\ ident'[s] = NoEntry <=> ident[s] = NoEntry

ForgetStep ==
  /\ UNCHANGED <<disk, reg, ident, reader, acked, attempts>>
  /\ \E gone : ForgetEngine(gone)

BuildStep ==
  /\ UNCHANGED <<disk, eng, reg, ident, reader, acked, attempts>>
  /\ writer = NoWriter /\ writer'.by = "compact" /\ writer'.pc = "rename"
  /\ writer'.source = eng /\ writer'.temp = Image(Compacted(eng))
  /\ eng # disk => "compact" \in faults'

RenameStep ==
  /\ UNCHANGED <<eng, reg, ident, reader, acked, attempts, faults>>
  /\ Renaming /\ disk' = writer.temp
  /\ writer'.by = "compact" /\ writer'.pc = "publish" /\ writer'.source = writer.source

LoadStep ==
  /\ disk' = disk /\ eng' = disk /\ reg' = RebuiltSchema(disk) /\ ident' = RebuiltIdentity(disk)
  /\ writer' = NoWriter
  /\ reader' = IdleReader \/ reader' = Pinned(reader)
  /\ UNCHANGED <<acked, attempts>> \/ (acked' = DiskView /\ attempts' = {})

AnyStep ==
  /\ faults \subseteq faults'
  /\ \/ Quiet \/ PutStep \/ FailStep \/ DeclareStep \/ DeleteStep \/ FlushStep \/ FlushErrStep
     \/ CommitStep \/ CommitErrStep \/ MarkStep \/ ForgetStep
     \/ BuildStep \/ RenameStep \/ LoadStep

LEMMA NotStaged ==
  ASSUME writer.by \notin {"app", "bulk"} \/ writer.staged = <<>>, NEW f
  PROVE  ~Staged(f)
  BY DEF Staged

LEMMA NoMarking ==
  ASSUME writer = NoWriter
  PROVE  /\ ~Marking /\ ~Renaming /\ writer.by = "none"
         /\ \A f : ~Staged(f)
         /\ \A s : Unexpired(s)
  BY DEF NoWriter, Marking, Renaming, Staged, Unexpired

LEMMA QuietWriters ==
  ASSUME Sound, OpenWriter \/ StartBulk \/ DropWriter
  PROVE  AnyStep
<1>1. SoundParts
  BY SoundMeans
<1>2. CASE OpenWriter
  <2>1. /\ writer = NoWriter /\ writer' = WriterCore("app")
        /\ UNCHANGED <<disk, eng, reg, ident, acked, attempts, reader, faults>>
    BY <1>2 DEF OpenWriter, Acquire, published, history
  <2>2. writer'.by = "app" /\ writer'.pc = "idle" /\ writer'.staged = <<>>
    BY <2>1, FreshCore
  <2>3. \A f : Staged(f)' <=> Staged(f)
    BY <2>1, <2>2, NoMarking DEF Staged
  <2> QED
    BY <2>1, <2>2, <2>3, NoMarking DEF AnyStep, Quiet, Marking
<1>3. CASE StartBulk
  <2>1. /\ writer' = [writer EXCEPT !.by = "bulk", !.seen = {}, !.pending = 0, !.fresh = batch = {}]
        /\ writer.by = "app" /\ writer.pc = "idle"
        /\ UNCHANGED <<disk, eng, reg, ident, acked, attempts, reader, faults>>
    BY <1>3 DEF StartBulk, published, history
  <2>2. writer \in CoreType
    BY <1>1, <2>1, WriterKinds DEF SoundParts
  <2>3. writer'.by = "bulk" /\ writer'.pc = "idle" /\ writer'.staged = writer.staged
    BY <2>1, <2>2 DEF CoreType
  <2>4. \A f : Staged(f)' <=> Staged(f)
    BY <2>1, <2>3 DEF Staged
  <2> QED
    BY <2>1, <2>3, <2>4 DEF AnyStep, Quiet, Marking
<1>4. CASE DropWriter
  <2>1. /\ writer' = NoWriter /\ writer.by \in {"app", "bulk"}
        /\ faults' = faults \cup (IF writer.staged # <<>> THEN {"vectors"} ELSE {})
        /\ UNCHANGED <<disk, eng, reg, ident, acked, attempts, reader>>
    BY <1>4 DEF DropWriter, App, published
  <2>2. ~Marking' /\ writer'.by = "none" /\ \A f : ~Staged(f)'
    BY <2>1 DEF NoWriter, Marking, Staged
  <2>3. faults' = {} => writer.staged = <<>>
    BY <2>1
  <2>4. faults' = {} => \A f : Staged(f)' <=> Staged(f)
    BY <2>2, <2>3 DEF Staged
  <2> QED
    BY <2>1, <2>2, <2>4 DEF AnyStep, Quiet
<1> QED
  BY <1>2, <1>3, <1>4

LEMMA QuietOthers ==
  ASSUME Sound, GetLookup \/ GetMaterialize \/ UNCHANGED vars
  PROVE  AnyStep
<1>1. UNCHANGED <<disk, eng, reg, ident, acked, attempts, writer, faults>>
  BY DEF GetLookup, GetMaterialize, published, history, bounds, vars
<1>2. reader' = reader \/ reader' = IdleReader \/ GetLookup
  BY DEF GetMaterialize, vars
<1>3. \A f : Staged(f)' <=> Staged(f)
  BY <1>1 DEF Staged
<1> QED
  BY <1>1, <1>2, <1>3 DEF AnyStep, Quiet

LEMMA PutSteps ==
  ASSUME Sound, PutInto \/ PutIntoErr \/ Delete \/ Declare
  PROVE  AnyStep
<1>1. CASE PutInto
  BY <1>1, PutIntoFacts DEF AnyStep, PutStep
<1>2. CASE PutIntoErr
  BY <1>2, PutIntoErrFacts DEF AnyStep, FailStep
<1>3. CASE Delete
  <2>1. UNCHANGED <<disk, reg, reader, acked, attempts, faults>>
    BY <1>3 DEF Delete, history
  <2> QED
    BY <1>3, <2>1, DeleteFacts DEF AnyStep, DeleteStep
<1>4. CASE Declare
  <2>1. UNCHANGED <<disk, ident, writer, reader, acked, attempts, faults>>
    BY <1>4 DEF Declare, history
  <2> QED
    BY <1>4, <2>1, DeclareFacts DEF AnyStep, DeclareStep
<1> QED
  BY <1>1, <1>2, <1>3, <1>4

LEMMA FlushSteps ==
  ASSUME Sound, FlushDeferred \/ FlushDeferredErr
  PROVE  AnyStep
<1>1. CASE FlushDeferred
  <2>1. UNCHANGED <<disk, reader, acked, attempts, faults>> /\ writer.pc \in {"idle", "full"}
    BY <1>1 DEF FlushDeferred, history, CommitStart
  <2> QED
    BY <1>1, <2>1, FlushFacts, FlushWriterFacts DEF AnyStep, FlushStep
<1>2. CASE FlushDeferredErr
  <2>1. UNCHANGED <<disk, reg, ident, reader, acked, attempts>> /\ faults' = faults \cup {"vectors"}
    BY <1>2 DEF FlushDeferredErr
  <2>2. /\ Kept(eng, eng', {}, {}) /\ eng'.frames = eng.frames /\ eng'.colls = eng.colls
        /\ writer \in CoreType /\ writer' \in CoreType /\ writer' = [writer EXCEPT !.pc = "idle"]
    BY <1>2, FlushErrFacts
  <2>3. writer'.by \in {"app", "bulk", "forget"} /\ writer'.by = writer.by
        /\ writer'.pc = "idle" /\ writer'.expired = writer.expired
    BY <2>2 DEF CoreType
  <2> QED
    BY <2>1, <2>2, <2>3 DEF AnyStep, FlushErrStep
<1> QED
  BY <1>1, <1>2

LEMMA CommitSteps ==
  ASSUME Sound, EngineCommit \/ CommitRefused \/ CommitErr
  PROVE  AnyStep
<1>1. SoundParts
  BY SoundMeans
<1>2. writer.by \in {"app", "bulk", "forget"} /\ writer.pc = "commit"
  BY DEF EngineCommit, CommitRefused, CommitErr
<1>3. writer \in CoreType /\ (writer.by # "forget" => writer.expired = {}) /\ writer.staged = <<>>
  BY <1>2, Committing
<1>4. CommitImage(eng, Image(eng))
  BY <1>1, CommitImageFacts DEF SoundParts
<1>5. \A f : ~Staged(f)
  BY <1>3, NotStaged
<1>6. CASE EngineCommit
  <2>1. /\ disk' = Image(eng) /\ eng' = Image(eng) /\ attempts' = attempts \cup {Intended}
        /\ writer' = [writer EXCEPT !.pc = "mark"]
        /\ UNCHANGED <<reg, ident, reader, acked, faults>>
    BY <1>6 DEF EngineCommit
  <2>2. writer'.by = writer.by /\ writer'.pc = "mark" /\ writer'.expired = writer.expired
        /\ writer'.staged = <<>>
    BY <1>3, <2>1 DEF CoreType
  <2>3. \A f : ~Staged(f)'
    BY <2>2 DEF Staged
  <2>4. CommitStep
    BY <1>2, <1>3, <1>4, <1>5, <2>1, <2>2, <2>3 DEF CommitStep, WrittenOut, Committer
  <2> QED
    BY <2>1, <2>4 DEF AnyStep
<1>7. ASSUME CommitReturnsErr
      PROVE  /\ writer'.by \in {"none", "app", "bulk"} /\ ~Marking' /\ \A f : ~Staged(f)'
             /\ faults \subseteq faults' /\ (writer.by = "forget" => "forget" \in faults')
  <2>1. CASE writer.by = "forget"
    <3>1. writer' = NoWriter
      BY <1>7, <2>1 DEF CommitReturnsErr
    <3>2. ~Marking' /\ writer'.by = "none" /\ \A f : ~Staged(f)'
      BY <3>1 DEF NoWriter, Marking, Staged
    <3> QED
      BY <1>7, <2>1, <3>2 DEF CommitReturnsErr
  <2>2. CASE writer.by # "forget"
    <3>1. writer' = [writer EXCEPT !.pc = "idle"] /\ faults' = faults
      BY <1>7, <2>2 DEF CommitReturnsErr
    <3>2. writer'.by = writer.by /\ writer'.pc = "idle" /\ writer'.staged = <<>>
      BY <1>3, <3>1 DEF CoreType
    <3>3. ~Marking' /\ \A f : ~Staged(f)'
      BY <3>2 DEF Marking, Staged
    <3> QED
      BY <1>2, <2>2, <3>1, <3>2, <3>3
  <2> QED
    BY <2>1, <2>2
<1>8. CASE CommitRefused
  <2>1. CommitReturnsErr /\ UNCHANGED <<disk, eng, reg, ident, reader, acked, attempts>>
    BY <1>8 DEF CommitRefused, published
  <2> QED
    BY <1>2, <1>3, <1>5, <1>7, <2>1 DEF AnyStep, CommitErrStep, Committer
<1>9. CASE CommitErr
  <2>1. /\ CommitReturnsErr /\ UNCHANGED <<eng, reg, ident, reader, acked>>
        /\ \/ UNCHANGED <<disk, attempts>>
           \/ disk' = Image(eng) /\ attempts' = attempts \cup {Intended}
    BY <1>9 DEF CommitErr, published
  <2>2. UNCHANGED <<disk, attempts>> \/ WrittenOut
    BY <1>4, <2>1 DEF WrittenOut
  <2> QED
    BY <1>2, <1>3, <1>5, <1>7, <2>1, <2>2 DEF AnyStep, CommitErrStep, Committer
<1> QED
  BY <1>6, <1>8, <1>9

LEMMA MarkSteps ==
  ASSUME Sound, MarkCommitted \/ ForgetRemove
  PROVE  AnyStep
<1>1. SoundParts
  BY SoundMeans
<1>2. /\ writer.by \in {"app", "bulk", "forget"} /\ writer.pc = "mark"
      /\ UNCHANGED <<disk, eng, reg, reader, faults>> /\ acked' = Intended /\ attempts' = {}
  BY DEF MarkCommitted, ForgetRemove
<1>3. writer \in CoreType /\ (writer.by # "forget" => writer.expired = {}) /\ writer.staged = <<>>
  BY <1>2, Committing
<1>4. \A f : ~Staged(f)
  BY <1>3, NotStaged
<1>5. \A s \in Slots :
        /\ Marked(batch)[s].frame = ident[s].frame /\ Marked(batch)[s].vectors = ident[s].vectors
        /\ Marked(batch)[s] = NoEntry <=> ident[s] = NoEntry
  BY <1>1, MarkedFacts DEF SoundParts
<1>6. CASE MarkCommitted
  <2>1. /\ writer' = [writer EXCEPT !.pc = "idle", !.seen = {}, !.pending = 0, !.fresh = TRUE]
        /\ writer.by # "forget" /\ ident' = Marked(batch)
    BY <1>6 DEF MarkCommitted
  <2>2. writer'.by = writer.by /\ writer'.pc = "idle" /\ writer'.staged = <<>>
    BY <1>3, <2>1 DEF CoreType
  <2>3. ~Marking' /\ \A f : ~Staged(f)'
    BY <2>2 DEF Marking, Staged
  <2>4. \A s : Unexpired(s)
    BY <2>1 DEF Unexpired
  <2>5. MarkStep
    BY <1>2, <1>3, <1>4, <1>5, <2>1, <2>2, <2>3, <2>4 DEF MarkStep, Committer, Marking
  <2> QED
    BY <1>2, <2>5 DEF AnyStep
<1>7. CASE ForgetRemove
  <2>1. /\ writer' = NoWriter /\ writer.by = "forget"
        /\ ident' = [s \in Slots |->
                 IF s[1] \in writer.expired THEN NoEntry ELSE Marked(batch)[s]]
    BY <1>7 DEF ForgetRemove
  <2>2. ~Marking' /\ writer'.by = "none" /\ \A f : ~Staged(f)'
    BY <2>1 DEF NoWriter, Marking, Staged
  <2>3. \A s \in Slots : /\ ~Unexpired(s) => ident'[s] = NoEntry
                         /\ Unexpired(s) => ident'[s] = Marked(batch)[s]
    BY <2>1 DEF Unexpired
  <2>4. MarkStep
    BY <1>2, <1>3, <1>4, <1>5, <2>1, <2>2, <2>3 DEF MarkStep, Committer, Marking
  <2> QED
    BY <1>2, <2>4 DEF AnyStep
<1> QED
  BY <1>6, <1>7

LEMMA OtherSteps ==
  ASSUME Sound, ForgetBefore \/ CompactBuild \/ CompactRename \/ CompactPublish \/ Reopen
  PROVE  AnyStep
<1>1. SoundParts
  BY SoundMeans
<1>2. CASE ForgetBefore
  <2>1. UNCHANGED <<disk, reg, ident, reader, acked, attempts>>
    BY <1>2 DEF ForgetBefore
  <2>2. PICK gone : ForgetEngine(gone)
    BY <1>2, ForgetFacts
  <2>3. faults \subseteq faults'
    BY <2>2 DEF ForgetEngine
  <2> QED
    BY <2>1, <2>2, <2>3 DEF AnyStep, ForgetStep
<1>3. CASE CompactBuild
  <2>1. /\ writer' = [by |-> "compact", pc |-> "rename", source |-> eng, temp |-> Image(Compacted(eng))]
        /\ faults' = faults \cup (IF eng # disk THEN {"compact"} ELSE {})
        /\ UNCHANGED <<disk, eng, reg, ident, reader, acked, attempts>> /\ writer = NoWriter
    BY <1>3 DEF CompactBuild, published, Acquire, Dirty
  <2> QED
    BY <2>1 DEF AnyStep, BuildStep
<1>4. CASE CompactRename
  <2>1. /\ writer.by = "compact" /\ writer.pc = "rename" /\ disk' = writer.temp
        /\ writer' = [writer EXCEPT !.pc = "publish"]
        /\ UNCHANGED <<eng, reg, ident, reader, acked, attempts, faults>>
    BY <1>4 DEF CompactRename, published, history
  <2>2. writer = [by |-> "compact", pc |-> writer.pc, source |-> writer.source, temp |-> writer.temp]
    BY <1>1, <2>1, WriterKinds DEF SoundParts
  <2>3. writer' = [by |-> "compact", pc |-> "publish", source |-> writer.source, temp |-> writer.temp]
    BY <2>1, <2>2
  <2> QED
    BY <2>1, <2>3 DEF AnyStep, RenameStep, Renaming
<1>5. CASE CompactPublish
  BY <1>5 DEF CompactPublish, AnyStep, LoadStep
<1>6. CASE Reopen
  BY <1>6 DEF Reopen, AnyStep, LoadStep, DiskView
<1> QED
  BY <1>2, <1>3, <1>4, <1>5, <1>6

LEMMA StepCases ==
  ASSUME Sound, [Next]_vars
  PROVE  AnyStep
  BY QuietWriters, QuietOthers, PutSteps, FlushSteps, CommitSteps, MarkSteps, OtherSteps DEF Next

(***************************************************************************)
(* Live: the version an entry names is active, and on disk once committed. *)
(***************************************************************************)
LEMMA KeyedIn ==
  ASSUME NEW e, NEW s \in Slots, NEW f
  PROVE  f \in KeyedFrames(e, s) <=> f \in ActiveFrames(e) /\ RecordOf(e, f, s) /\ e.frames[f].stored
<1>1. s = <<s[1], s[2]>>
  BY DEF Slots
<1>2. \A a, b : <<a, b>> = s <=> a = s[1] /\ b = s[2]
  BY <1>1
<1> QED
  BY <1>2 DEF KeyedFrames, ActiveFrames, RecordOf

LEMMA KeyedImage ==
  ASSUME NEW e, NEW d, CommitImage(e, d), NEW s \in Slots, NEW f
  PROVE  f \in KeyedFrames(d, s) <=> f \in ActiveFrames(e) /\ RecordOf(e, f, s)
<1>1. f \in ActiveFrames(d) <=> f \in ActiveFrames(e)
  BY DEF CommitImage, ActiveFrames
<1>2. RecordOf(d, f, s) <=> RecordOf(e, f, s)
  BY DEF CommitImage, RecordOf
<1>3. f \in ActiveFrames(d) => d.frames[f].stored
  BY DEF CommitImage, AllStored, ActiveFrames
<1> QED
  BY <1>1, <1>2, <1>3, KeyedIn

(* The copy that a compaction writes has the stored active records.        *)
LEMMA KeyedTemp ==
  ASSUME NEW e, EngineOK(e), NEW s \in Slots
  PROVE  LET d == Image(Compacted(e)) IN
         /\ \A f \in KeyedFrames(e, s) : Rank(ActiveFrames(e), f) \in KeyedFrames(d, s)
         /\ \A n \in KeyedFrames(d, s) :
              \E f \in KeyedFrames(e, s) : n = Rank(ActiveFrames(e), f)
         /\ \A f \in ActiveFrames(e) : d.frames[Rank(ActiveFrames(e), f)].val = e.frames[f].val
         /\ EngineOK(d) /\ AllStored(d)
<1> DEFINE d == Image(Compacted(e))
           A == ActiveFrames(e)
<1>1. /\ EngineOK(d) /\ AllStored(d)
      /\ \A f \in A :
              /\ Rank(A, f) \in DOMAIN d.frames
              /\ d.frames[Rank(A, f)].kind = Survives(e, f)
              /\ d.frames[Rank(A, f)].coll = e.frames[f].coll
              /\ d.frames[Rank(A, f)].key = e.frames[f].key
              /\ d.frames[Rank(A, f)].val = e.frames[f].val
              /\ d.frames[Rank(A, f)].active
      /\ \A n \in DOMAIN d.frames : \E f \in A : n = Rank(A, f)
  BY TempFacts
<1> HIDE DEF d
<1>2. \A f \in A : Survives(e, f) = "record" <=> e.frames[f].kind = "record" /\ e.frames[f].stored
  BY DEF Survives
<1>3. \A f \in A : RecordOf(d, Rank(A, f), s) <=> RecordOf(e, f, s) /\ e.frames[f].stored
  BY <1>1, <1>2 DEF RecordOf, ActiveFrames
<1>4. \A f \in A : Rank(A, f) \in ActiveFrames(d) /\ d.frames[Rank(A, f)].stored
  BY <1>1 DEF ActiveFrames, AllStored
<1>5. \A f \in KeyedFrames(e, s) : Rank(A, f) \in KeyedFrames(d, s)
  BY <1>3, <1>4, KeyedIn
<1>6. \A n \in KeyedFrames(d, s) : \E f \in KeyedFrames(e, s) : n = Rank(A, f)
  <2> SUFFICES ASSUME NEW n \in KeyedFrames(d, s)
               PROVE  \E f \in KeyedFrames(e, s) : n = Rank(A, f)
    OBVIOUS
  <2>1. n \in DOMAIN d.frames /\ RecordOf(d, n, s)
    BY KeyedIn DEF ActiveFrames
  <2>2. PICK f \in A : n = Rank(A, f)
    BY <1>1, <2>1
  <2> QED
    BY <1>3, <2>1, <2>2, KeyedIn
<1> QED
  BY <1>1, <1>5, <1>6 DEF d

LiveAt(s) ==
  /\ ident[s].frame \in ActiveFrames(eng)
  /\ ident[s].committed \/ Marking =>
       eng.frames[ident[s].frame].stored /\ KeyedFrames(disk, s) # {}
  /\ Renaming /\ ident[s].committed => KeyedFrames(writer.temp, s) # {}

LEMMA LiveInit == Init => Live
<1> SUFFICES ASSUME Init, NEW s \in Slots PROVE ident[s] = NoEntry
  BY DEF Live
<1>1. KeyedFrames(EmptyEngine, s) = {}
  BY DEF KeyedFrames, ActiveFrames, EmptyEngine
<1> QED
  BY <1>1 DEF Init, RebuiltIdentity

(* The catalog grows or loses rows; the entry s is not one of them.        *)
LEMMA LiveKept ==
  ASSUME Sound, NEW fs, NEW vs, Kept(eng, eng', fs, vs), disk' = disk, NEW s \in Slots,
         ident'[s].frame = ident[s].frame, ident'[s].committed = ident[s].committed,
         LiveAt(s), ident[s].frame \notin fs,
         writer' = writer \/ (~Marking' /\ ~Renaming')
  PROVE  LiveAt(s)'
<1>1. EngineOK(eng)
  BY SoundMeans DEF SoundParts
<1>2. ident[s].frame \in ActiveFrames(eng')
      /\ eng'.frames[ident[s].frame].stored = eng.frames[ident[s].frame].stored
  BY <1>1, KeptFields DEF LiveAt, ActiveFrames
<1>3. CASE writer' = writer
  BY <1>2, <1>3 DEF LiveAt, Marking, Renaming
<1>4. CASE ~Marking' /\ ~Renaming'
  BY <1>2, <1>4 DEF LiveAt
<1> QED
  BY <1>3, <1>4

(* Another entry is that of another frame.                                 *)
LEMMA OtherFrame ==
  ASSUME Sound, NEW s \in Slots, NEW r \in Slots, r # s, ident[r] # NoEntry
  PROVE  ident[r].frame \notin DeadFrames(ident[s])
<1>1. ident[r] # NoEntry => RecordOf(eng, ident[r].frame, r)
  BY SoundMeans DEF SoundParts, Entries
<1>2. ident[s] # NoEntry => RecordOf(eng, ident[s].frame, s)
  BY SoundMeans DEF SoundParts, Entries
<1> QED
  BY <1>1, <1>2, SlotEq DEF DeadFrames

LEMMA LivePut ==
  ASSUME Sound, PutStep, NEW r \in Slots, ident[r] # NoEntry => LiveAt(r), ident'[r] # NoEntry
  PROVE  LiveAt(r)'
<1>1. PICK s \in Slots, vec \in BOOLEAN : \E f :
        PutEngine(s, vec, f, NewVectors) /\ PutWriter(s, vec, f) /\ ~Rejected(ident[s])
  BY DEF PutStep
<1>2. PICK f : PutEngine(s, vec, f, NewVectors) /\ PutWriter(s, vec, f)
  BY <1>1
<1>3. ~Marking' /\ ~Renaming' /\ disk' = disk
  BY <1>2 DEF PutWriter, Marking, Renaming, PutStep
<1>4. ident' = [ident EXCEPT ![s] = Entry(f, NewVectors, FALSE)] /\ ident \in [Slots -> EntryType]
  BY <1>2, SoundMeans DEF PutEngine, SoundParts
<1>5. CASE r = s
  <2>1. ident'[s] = Entry(f, NewVectors, FALSE)
    BY <1>4
  <2>2. ident'[s].frame = f /\ ~ident'[s].committed
    BY <2>1 DEF Entry
  <2>3. f \in ActiveFrames(eng')
    BY <1>2 DEF PutEngine, NewFrames, ActiveFrames
  <2> QED
    BY <1>3, <1>5, <2>2, <2>3 DEF LiveAt
<1>6. CASE r # s
  <2>1. ident'[r] = ident[r]
    BY <1>4, <1>6
  <2>2. ident[r].frame \notin DeadFrames(ident[s])
    BY <1>6, <2>1, OtherFrame
  <2> QED
    BY <1>2, <1>3, <2>1, <2>2, LiveKept DEF PutEngine
<1> QED
  BY <1>5, <1>6

LEMMA LiveDelete ==
  ASSUME Sound, DeleteStep, NEW r \in Slots, ident[r] # NoEntry => LiveAt(r), ident'[r] # NoEntry
  PROVE  LiveAt(r)'
<1>1. PICK s \in Slots : DeleteEngine(s)
  BY DEF DeleteStep
<1>2. writer'.by = "app" /\ writer'.pc = "idle" /\ disk' = disk
  BY <1>1 DEF DeleteEngine, DeleteStep, CoreType
<1>3. ~Marking' /\ ~Renaming'
  BY <1>2 DEF Marking, Renaming
<1>4. ident' = [ident EXCEPT ![s] = NoEntry] /\ ident \in [Slots -> EntryType]
  BY <1>1, SoundMeans DEF DeleteEngine, SoundParts
<1>5. r # s /\ ident'[r] = ident[r]
  BY <1>4
<1>6. ident[r].frame \notin DeadFrames(ident[s])
  BY <1>5, OtherFrame
<1> QED
  BY <1>1, <1>2, <1>3, <1>5, <1>6, LiveKept DEF DeleteEngine

LEMMA LiveForget ==
  ASSUME Sound, ForgetStep, NEW s \in Slots, ident[s] # NoEntry, LiveAt(s), Unexpired(s)'
  PROVE  LiveAt(s)'
<1>1. PICK gone : ForgetEngine(gone)
  BY DEF ForgetStep
<1> DEFINE fs == UNION {MemberFrames(eng, c) : c \in gone}
           vs == UNION {MemberVectors(eng, c) : c \in gone}
<1>2. /\ Kept(eng, eng', fs, vs)
      /\ writer'.by = "forget" /\ writer'.pc = "idle" /\ writer'.expired = gone
      /\ UNCHANGED <<disk, ident>>
  BY <1>1 DEF ForgetEngine, ForgetStep
<1>3. s[1] \notin gone
  BY <1>2 DEF Unexpired
<1>4. RecordOf(eng, ident[s].frame, s)
  BY SoundMeans DEF SoundParts, Entries
<1>5. ident[s].frame \notin fs
  BY <1>3, <1>4 DEF MemberFrames, RecordOf
<1>6. ~Marking' /\ ~Renaming'
  BY <1>2 DEF Marking, Renaming
<1> HIDE DEF fs, vs
<1> QED
  BY <1>2, <1>5, <1>6, LiveKept

LEMMA LiveCommit ==
  ASSUME Sound, WrittenOut, NEW s \in Slots, ident[s] # NoEntry, LiveAt(s)
  PROVE  ident[s].frame \in KeyedFrames(disk', s)
<1>1. RecordOf(eng, ident[s].frame, s)
  BY SoundMeans DEF SoundParts, Entries
<1> QED
  BY <1>1, KeyedImage DEF WrittenOut, LiveAt

LEMMA LiveLoad ==
  ASSUME Sound, LoadStep, NEW s \in Slots, ident'[s] # NoEntry
  PROVE  LiveAt(s)' /\ ident'[s].frame \in KeyedFrames(disk, s)
<1>1. EngineOK(disk) /\ ident' = RebuiltIdentity(disk) /\ eng' = disk /\ disk' = disk /\ writer' = NoWriter
  BY SoundMeans DEF SoundParts, LoadStep
<1>2. KeyedFrames(disk, s) # {} /\ ident'[s].frame \in KeyedFrames(disk, s)
  BY <1>1, RebuiltFacts
<1>3. ident'[s].frame \in ActiveFrames(disk) /\ disk.frames[ident'[s].frame].stored
  BY <1>2, KeyedIn
<1>4. ~Marking' /\ ~Renaming'
  BY <1>1 DEF NoWriter, Marking, Renaming
<1> QED
  BY <1>1, <1>2, <1>3, <1>4 DEF LiveAt

LEMMA LiveStep ==
  ASSUME Sound, Live, AnyStep
  PROVE  Live'
<1> SUFFICES ASSUME "forget" \notin faults', NEW s \in Slots, ident'[s] # NoEntry, Unexpired(s)'
             PROVE  LiveAt(s)'
  BY DEF Live, LiveAt
<1>1. "forget" \notin faults
  BY DEF AnyStep
<1>2. ident[s] # NoEntry /\ Unexpired(s) => LiveAt(s)
  BY <1>1 DEF Live, LiveAt
<1>3. EngineOK(eng)
  BY SoundMeans DEF SoundParts
<1>4. CASE Quiet
  <2>1. UNCHANGED <<eng, disk, ident>> /\ Kept(eng, eng', {}, {})
    BY <1>3, <1>4, KeptRefl DEF Quiet
  <2>2. writer' = writer \/ (~Marking' /\ ~Renaming' /\ writer.by # "forget")
    BY <1>4 DEF Quiet, Renaming
  <2>3. Unexpired(s)
    BY <2>2 DEF Unexpired
  <2> QED
    BY <1>2, <2>1, <2>2, <2>3, LiveKept
<1>5. CASE PutStep
  <2>1. Unexpired(s)
    BY <1>5 DEF PutStep, PutWriter, Unexpired
  <2> QED
    BY <1>2, <1>5, <2>1, LivePut
<1>6. CASE FailStep
  <2>1. Unexpired(s)
    BY <1>6 DEF FailStep, Unexpired
  <2> QED
    BY <1>2, <1>6, <2>1, LiveKept DEF FailStep, FailEngine
<1>7. CASE DeclareStep
  <2>1. Unexpired(s)
    BY <1>7 DEF DeclareStep, Unexpired
  <2> QED
    BY <1>2, <1>7, <2>1, LiveKept DEF DeclareStep, DeclareEngine
<1>8. CASE DeleteStep
  <2>1. Unexpired(s)
    BY <1>8 DEF DeleteStep, DeleteEngine, Unexpired
  <2> QED
    BY <1>2, <1>8, <2>1, LiveDelete
<1>9. CASE FlushStep
  <2>1. Unexpired(s) /\ ~Marking' /\ ~Renaming'
    BY <1>9, CoreFacts DEF FlushStep, FlushWriter, Unexpired, Marking, Renaming
  <2>2. /\ Kept(eng, eng', {}, {}) /\ disk' = disk /\ ident[s] # NoEntry
        /\ ident'[s].frame = ident[s].frame /\ ident'[s].committed = ident[s].committed
    BY <1>9 DEF FlushStep, FlushEngine
  <2> QED
    BY <1>2, <2>1, <2>2, LiveKept
<1>10. CASE FlushErrStep
  <2>1. Unexpired(s) /\ ~Marking' /\ ~Renaming'
    BY <1>10 DEF FlushErrStep, Unexpired, Marking, Renaming
  <2> QED
    BY <1>2, <1>10, <2>1, LiveKept DEF FlushErrStep
<1>11. CASE CommitStep
  <2>1. /\ ident' = ident /\ WrittenOut /\ eng' = disk'
        /\ writer'.by = writer.by /\ writer'.pc = "mark" /\ writer'.expired = writer.expired
        /\ writer.by \in {"app", "bulk", "forget"}
    BY <1>11, CoreFacts DEF CommitStep, Committer
  <2>2. Unexpired(s) /\ ~Renaming'
    BY <2>1 DEF Unexpired, Renaming
  <2>3. ident[s].frame \in KeyedFrames(disk', s)
    BY <1>2, <2>1, <2>2, LiveCommit
  <2>4. ident[s].frame \in ActiveFrames(eng') /\ eng'.frames[ident[s].frame].stored
    BY <2>1, <2>3, KeyedIn
  <2> QED
    BY <2>1, <2>2, <2>3, <2>4 DEF LiveAt
<1>12. CASE CommitErrStep
  <2>1. /\ ident' = ident /\ eng' = eng /\ (disk' = disk \/ WrittenOut) /\ ~Marking'
        /\ writer'.by # "compact" /\ writer.by # "forget"
    BY <1>12 DEF CommitErrStep
  <2>2. Unexpired(s) /\ ~Renaming'
    BY <2>1 DEF Unexpired, Renaming
  <2>3. LiveAt(s)
    BY <1>2, <2>1, <2>2
  <2>4. WrittenOut => KeyedFrames(disk', s) # {}
    BY <2>1, <2>3, LiveCommit
  <2> QED
    BY <2>1, <2>2, <2>3, <2>4 DEF LiveAt
<1>13. CASE MarkStep
  <2>1. Unexpired(s) /\ ident'[s].frame = ident[s].frame /\ ident[s] # NoEntry
    BY <1>13 DEF MarkStep
  <2>2. LiveAt(s) /\ Marking /\ ~Marking' /\ writer'.by # "compact" /\ UNCHANGED <<disk, eng>>
    BY <1>2, <1>13, <2>1 DEF MarkStep
  <2>3. ~Renaming'
    BY <2>2 DEF Renaming
  <2> QED
    BY <2>1, <2>2, <2>3 DEF LiveAt
<1>14. CASE ForgetStep
  <2>1. ident' = ident /\ writer = NoWriter
    BY <1>14 DEF ForgetStep, ForgetEngine
  <2>2. Unexpired(s)
    BY <2>1, NoMarking
  <2> QED
    BY <1>2, <1>14, <2>1, <2>2, LiveForget
<1>15. CASE BuildStep
  <2>1. /\ UNCHANGED <<disk, eng, ident>> /\ writer = NoWriter /\ writer'.by = "compact"
        /\ writer'.temp = Image(Compacted(eng))
    BY <1>15 DEF BuildStep
  <2>2. LiveAt(s) /\ ~Marking'
    BY <1>2, <2>1, NoMarking DEF Marking
  <2>3. ident[s].committed => ident[s].frame \in KeyedFrames(eng, s)
    <3>1. RecordOf(eng, ident[s].frame, s)
      BY <2>1, SoundMeans DEF SoundParts, Entries
    <3> QED
      BY <2>2, <3>1, KeyedIn DEF LiveAt
  <2>4. ident[s].committed => KeyedFrames(writer'.temp, s) # {}
    BY <1>3, <2>1, <2>3, KeyedTemp
  <2> QED
    BY <2>1, <2>2, <2>4 DEF LiveAt
<1>16. CASE RenameStep
  <2>1. /\ UNCHANGED <<eng, ident>> /\ disk' = writer.temp /\ Renaming
        /\ writer'.by = "compact" /\ writer'.pc = "publish"
    BY <1>16 DEF RenameStep
  <2>2. Unexpired(s) /\ ~Marking' /\ ~Renaming'
    BY <2>1 DEF Unexpired, Marking, Renaming
  <2> QED
    BY <1>2, <2>1, <2>2 DEF LiveAt
<1>17. CASE LoadStep
  BY <1>17, LiveLoad
<1> QED
  BY <1>4, <1>5, <1>6, <1>7, <1>8, <1>9, <1>10, <1>11, <1>12, <1>13, <1>14, <1>15, <1>16, <1>17
     DEF AnyStep

LEMMA SpecLive == Spec => [](Sound /\ Live)
<1>1. Init => Sound /\ Live
  BY SoundInit, LiveInit
<1>2. Sound /\ Live /\ [Next]_vars => (Sound /\ Live)'
  BY SoundStep, StepCases, LiveStep
<1> QED
  BY <1>1, <1>2, PTL DEF Spec

(* committed_keys shows only records that are on disk, whatever put,       *)
(* delete, commit, compaction and reopen came before.                      *)
THEOREM CommittedKeysDurable == Spec => []KeysDurable
<1>1. Sound /\ Live => KeysDurable
  <2> SUFFICES ASSUME Sound, Live, "forget" \notin faults, NEW s \in Slots, ident[s].committed, Unexpired(s)
               PROVE  KeyedFrames(disk, s) # {}
    BY DEF KeysDurable, Unexpired
  <2>1. ident[s] # NoEntry
    BY NoEntryFacts
  <2> QED
    BY <2>1 DEF Live
<1> QED
  BY <1>1, SpecLive, PTL

(***************************************************************************)
(* Unique: there is no other active version.                               *)
(***************************************************************************)
UniqueRows ==
  \A f \in ActiveFrames(eng), s \in Slots :
    RecordOf(eng, f, s) /\ Unexpired(s) => f = ident[s].frame
ForgottenGone ==
  writer.by = "forget" =>
    \A f \in ActiveFrames(eng) :
      eng.frames[f].kind = "record" => eng.frames[f].coll \notin writer.expired

LEMMA UniqueMeans ==
  Unique <=> (faults \cap {"orphan", "forget"} = {} =>
                UniqueRows /\ ForgottenGone /\ Single(disk) /\ (Renaming => Single(writer.temp)))
  BY DEF Unique, UniqueRows, ForgottenGone

LEMMA EntryFrame ==
  ASSUME Sound, NEW s \in Slots
  PROVE  /\ ident[s] # NoEntry <=> ident[s].frame # 0
         /\ ident[s] # NoEntry => RecordOf(eng, ident[s].frame, s) /\ ident[s].frame \in DOMAIN eng.frames
         /\ 0 \notin DOMAIN eng.frames
<1>1. EngineOK(eng) /\ Entries
  BY SoundMeans DEF SoundParts
<1>2. 0 \notin DOMAIN eng.frames
  BY <1>1, EngineFacts
<1>3. ident[s] # NoEntry => RecordOf(eng, ident[s].frame, s)
  BY <1>1 DEF Entries
<1> QED
  BY <1>2, <1>3, NoEntryFacts DEF RecordOf

LEMMA UniqueInit == Init => Unique
<1> SUFFICES ASSUME Init PROVE Unique
  OBVIOUS
<1>1. ActiveFrames(EmptyEngine) = {}
  BY DEF ActiveFrames, EmptyEngine
<1>2. writer.by = "none"
  BY DEF Init, NoWriter
<1> QED
  BY <1>1, <1>2 DEF Init, Unique, Single, Renaming

(* Which rows of the old catalog are active records in the new one.        *)
LEMMA OldRecord ==
  ASSUME NEW e, EngineOK(e), NEW d, NEW fs, NEW vs, Kept(e, d, fs, vs),
         NEW g \in ActiveFrames(d), g \in DOMAIN e.frames
  PROVE  /\ g \in ActiveFrames(e) /\ g \notin fs
         /\ d.frames[g].kind = e.frames[g].kind /\ d.frames[g].coll = e.frames[g].coll
         /\ \A s : RecordOf(d, g, s) <=> RecordOf(e, g, s)
  BY KeptFields DEF ActiveFrames, RecordOf

(* A step that adds no record.                                             *)
LEMMA UniqueKept ==
  ASSUME Sound, NEW fs, NEW vs, Kept(eng, eng', fs, vs),
         \A g \in NewFrames : eng'.frames[g].kind # "record",
         \A s \in Slots : ident'[s].frame = ident[s].frame,
         \A s \in Slots : Unexpired(s)' => Unexpired(s),
         UniqueRows
  PROVE  UniqueRows'
<1> SUFFICES ASSUME NEW f \in ActiveFrames(eng'), NEW s \in Slots, RecordOf(eng', f, s), Unexpired(s)'
             PROVE  f = ident'[s].frame
  BY DEF UniqueRows
<1>1. EngineOK(eng)
  BY SoundMeans DEF SoundParts
<1>2. f \in DOMAIN eng.frames
  BY DEF NewFrames, ActiveFrames, RecordOf
<1> QED
  BY <1>1, <1>2, OldRecord DEF UniqueRows

LEMMA UniquePut ==
  ASSUME Sound, PutStep, UniqueRows
  PROVE  UniqueRows' /\ ForgottenGone' /\ disk' = disk /\ ~Renaming'
<1>1. PICK s \in Slots, vec \in BOOLEAN : \E f : PutEngine(s, vec, f, NewVectors) /\ PutWriter(s, vec, f)
  BY DEF PutStep
<1>2. PICK f : PutEngine(s, vec, f, NewVectors) /\ PutWriter(s, vec, f)
  BY <1>1
<1>3. ident' = [ident EXCEPT ![s] = Entry(f, NewVectors, FALSE)] /\ ident \in [Slots -> EntryType]
      /\ EngineOK(eng)
  BY <1>2, SoundMeans DEF PutEngine, SoundParts
<1>4. ident'[s].frame = f
  <2>1. ident'[s] = Entry(f, NewVectors, FALSE)
    BY <1>3
  <2> QED
    BY <2>1 DEF Entry
<1>5. writer'.by # "forget" /\ ~Renaming' /\ disk' = disk /\ writer.by # "forget"
  BY <1>2 DEF PutWriter, PutStep, Renaming
<1>6. ASSUME NEW g \in ActiveFrames(eng'), NEW r \in Slots, RecordOf(eng', g, r)
      PROVE  g = ident'[r].frame
  <2>1. CASE g \in NewFrames
    <3>1. g = f
      BY <1>2, <1>6, <2>1 DEF PutEngine, IsDoc, RecordOf
    <3>2. r = s
      BY <1>2, <1>6, <3>1, SlotEq DEF PutEngine
    <3> QED
      BY <1>4, <3>1, <3>2
  <2>2. CASE g \in DOMAIN eng.frames
    <3>1. g \in ActiveFrames(eng) /\ g \notin DeadFrames(ident[s]) /\ RecordOf(eng, g, r)
      BY <1>2, <1>3, <1>6, <2>2, OldRecord DEF PutEngine
    <3>2. g = ident[r].frame
      BY <1>5, <3>1 DEF UniqueRows, Unexpired
    <3>3. r # s
      BY <2>2, <3>1, <3>2, EntryFrame DEF DeadFrames
    <3> QED
      BY <1>3, <3>2, <3>3
  <2> QED
    BY <1>6, <2>1, <2>2 DEF NewFrames, ActiveFrames
<1> QED
  BY <1>5, <1>6 DEF UniqueRows, ForgottenGone

LEMMA UniqueDelete ==
  ASSUME Sound, DeleteStep, UniqueRows
  PROVE  UniqueRows' /\ ForgottenGone' /\ disk' = disk /\ ~Renaming'
<1>1. PICK s \in Slots : DeleteEngine(s)
  BY DEF DeleteStep
<1>2. ident' = [ident EXCEPT ![s] = NoEntry] /\ ident \in [Slots -> EntryType] /\ EngineOK(eng)
  BY <1>1, SoundMeans DEF DeleteEngine, SoundParts
<1>3. writer'.by = "app" /\ ~Renaming' /\ disk' = disk /\ writer.by # "forget"
  BY <1>1 DEF DeleteEngine, DeleteStep, Renaming, CoreType
<1>4. ASSUME NEW g \in ActiveFrames(eng'), NEW r \in Slots, RecordOf(eng', g, r)
      PROVE  g = ident'[r].frame
  <2>1. g \in DOMAIN eng.frames
    BY <1>1 DEF DeleteEngine, NewFrames, ActiveFrames
  <2>2. g \in ActiveFrames(eng) /\ g \notin DeadFrames(ident[s]) /\ RecordOf(eng, g, r)
    BY <1>1, <1>2, <1>4, <2>1, OldRecord DEF DeleteEngine
  <2>3. g = ident[r].frame
    BY <1>3, <2>2 DEF UniqueRows, Unexpired
  <2>4. r # s
    BY <2>1, <2>2, <2>3, EntryFrame DEF DeadFrames
  <2> QED
    BY <1>2, <2>3, <2>4
<1> QED
  BY <1>3, <1>4 DEF UniqueRows, ForgottenGone

LEMMA UniqueForget ==
  ASSUME Sound, ForgetStep, UniqueRows, "forget" \notin faults'
  PROVE  UniqueRows' /\ ForgottenGone' /\ disk' = disk /\ ~Renaming'
<1>1. PICK gone : ForgetEngine(gone)
  BY DEF ForgetStep
<1> DEFINE fs == UNION {MemberFrames(eng, c) : c \in gone}
           vs == UNION {MemberVectors(eng, c) : c \in gone}
<1>2. /\ Kept(eng, eng', fs, vs) /\ NewFrames = {} /\ writer = NoWriter
      /\ writer'.by = "forget" /\ writer'.pc = "idle" /\ writer'.expired = gone
      /\ UNCHANGED <<disk, ident>> /\ EngineOK(eng)
  BY <1>1, SoundMeans DEF ForgetEngine, ForgetStep, SoundParts
<1>3. \A f \in ActiveFrames(eng) : eng.frames[f].kind = "record" /\ eng.frames[f].coll \in gone
                                     => eng.frames[f].stored
  BY <1>1 DEF ForgetEngine
<1>4. \A f \in ActiveFrames(eng) : eng.frames[f].kind = "record" /\ eng.frames[f].coll \in gone => f \in fs
  BY <1>3 DEF MemberFrames, ActiveFrames
<1> HIDE DEF fs, vs
<1>5. ForgottenGone'
  <2> SUFFICES ASSUME NEW f \in ActiveFrames(eng'), eng'.frames[f].kind = "record",
                      eng'.frames[f].coll \in gone
               PROVE  FALSE
    BY <1>2 DEF ForgottenGone
  <2>1. f \in DOMAIN eng.frames
    BY <1>2 DEF NewFrames, ActiveFrames
  <2>2. f \in ActiveFrames(eng) /\ f \notin fs
        /\ eng.frames[f].kind = "record" /\ eng.frames[f].coll \in gone
    BY <1>2, <2>1, OldRecord
  <2> QED
    BY <1>4, <2>2
<1>6. UniqueRows'
  <2>1. \A s \in Slots : Unexpired(s)
    BY <1>2, NoMarking
  <2> QED
    BY <1>2, <2>1, UniqueKept
<1> QED
  BY <1>2, <1>5, <1>6 DEF Renaming

LEMMA UniqueCommit ==
  ASSUME Sound, WrittenOut, UniqueRows, ForgottenGone
  PROVE  Single(disk')
<1> SUFFICES ASSUME NEW f \in ActiveFrames(disk'), NEW g \in ActiveFrames(disk'), NEW s \in Slots,
                    RecordOf(disk', f, s), RecordOf(disk', g, s)
             PROVE  f = g
  BY DEF Single
<1>1. /\ f \in ActiveFrames(eng) /\ RecordOf(eng, f, s)
      /\ g \in ActiveFrames(eng) /\ RecordOf(eng, g, s)
  BY DEF WrittenOut, CommitImage, ActiveFrames, RecordOf
<1>2. CASE Unexpired(s)
  BY <1>1, <1>2 DEF UniqueRows
<1>3. CASE ~Unexpired(s)
  BY <1>1, <1>3 DEF ForgottenGone, Unexpired, RecordOf
<1> QED
  BY <1>2, <1>3

LEMMA SingleTemp ==
  ASSUME NEW e, EngineOK(e), NEW d, d = Image(Compacted(e)),
         \A f, g \in ActiveFrames(e), s \in Slots : RecordOf(e, f, s) /\ RecordOf(e, g, s) => f = g
  PROVE  Single(d)
<1> SUFFICES ASSUME NEW m \in ActiveFrames(d), NEW n \in ActiveFrames(d), NEW s \in Slots,
                    RecordOf(d, m, s), RecordOf(d, n, s)
             PROVE  m = n
  BY DEF Single
<1>1. /\ AllStored(d)
      /\ \A i \in KeyedFrames(d, s) : \E f \in KeyedFrames(e, s) : i = Rank(ActiveFrames(e), f)
  BY KeyedTemp
<1>2. m \in KeyedFrames(d, s) /\ n \in KeyedFrames(d, s)
  BY <1>1, KeyedIn DEF AllStored, ActiveFrames
<1>3. PICK f \in KeyedFrames(e, s), g \in KeyedFrames(e, s) :
        m = Rank(ActiveFrames(e), f) /\ n = Rank(ActiveFrames(e), g)
  BY <1>1, <1>2
<1>4. f = g
  BY <1>3, KeyedIn
<1> QED
  BY <1>3, <1>4

LEMMA UniqueLoad ==
  ASSUME Sound, LoadStep, Single(disk)
  PROVE  UniqueRows' /\ ForgottenGone' /\ ~Renaming'
<1>1. EngineOK(disk) /\ AllStored(disk) /\ ident' = RebuiltIdentity(disk) /\ eng' = disk /\ writer' = NoWriter
  BY SoundMeans DEF SoundParts, LoadStep
<1>2. writer'.by = "none"
  BY <1>1 DEF NoWriter
<1>3. ASSUME NEW f \in ActiveFrames(disk), NEW s \in Slots, RecordOf(disk, f, s)
      PROVE  f = ident'[s].frame
  <2>1. f \in KeyedFrames(disk, s)
    BY <1>1, <1>3, KeyedIn DEF AllStored, ActiveFrames
  <2>2. ident'[s].frame \in KeyedFrames(disk, s)
    BY <1>1, <2>1, RebuiltFacts
  <2>3. ident'[s].frame \in ActiveFrames(disk) /\ RecordOf(disk, ident'[s].frame, s)
    BY <2>2, KeyedIn
  <2> QED
    BY <1>3, <2>3 DEF Single
<1> QED
  BY <1>1, <1>2, <1>3 DEF UniqueRows, ForgottenGone, Renaming

LEMMA UniqueStep ==
  ASSUME Sound, Unique, AnyStep
  PROVE  Unique'
<1> SUFFICES ASSUME faults' \cap {"orphan", "forget"} = {}
             PROVE  UniqueRows' /\ ForgottenGone' /\ Single(disk') /\ (Renaming' => Single(writer'.temp))
  BY DEF Unique, UniqueRows, ForgottenGone
<1>1. faults \cap {"orphan", "forget"} = {} /\ "forget" \notin faults' /\ "orphan" \notin faults'
  BY DEF AnyStep
<1>2. UniqueRows /\ ForgottenGone /\ Single(disk) /\ (Renaming => Single(writer.temp))
  BY <1>1, UniqueMeans
<1>3. EngineOK(eng)
  BY SoundMeans DEF SoundParts
<1>4. CASE Quiet
  <2>1. UNCHANGED <<eng, disk, ident>> /\ Kept(eng, eng', {}, {}) /\ NewFrames = {}
    BY <1>3, <1>4, KeptRefl DEF Quiet, NewFrames
  <2>2. writer' = writer \/ (writer'.by \notin {"forget", "compact"} /\ writer.by # "forget")
    BY <1>1, <1>4 DEF Quiet
  <2>3. \A s : Unexpired(s)' => Unexpired(s)
    BY <2>2 DEF Unexpired
  <2>4. UniqueRows'
    BY <1>2, <2>1, <2>3, UniqueKept
  <2>5. ForgottenGone' /\ (Renaming' => Single(writer'.temp))
    BY <1>2, <2>1, <2>2 DEF ForgottenGone, Renaming
  <2> QED
    BY <1>2, <2>1, <2>4, <2>5
<1>5. CASE PutStep
  BY <1>2, <1>5, UniquePut
<1>6. CASE FailStep
  BY <1>1, <1>6 DEF FailStep
<1>7. CASE DeclareStep
  <2>1. /\ Kept(eng, eng', {}, {}) /\ UNCHANGED <<disk, ident, writer>>
        /\ \A g \in NewFrames : eng'.frames[g].kind # "record"
    BY <1>7 DEF DeclareStep, DeclareEngine, IsDoc
  <2>2. \A s : Unexpired(s)' => Unexpired(s)
    BY <2>1 DEF Unexpired
  <2>3. UniqueRows'
    BY <1>2, <2>1, <2>2, UniqueKept
  <2>4. ForgottenGone'
    <3> SUFFICES ASSUME writer.by = "forget", NEW f \in ActiveFrames(eng'), eng'.frames[f].kind = "record",
                        eng'.frames[f].coll \in writer.expired
                 PROVE  FALSE
      BY <2>1 DEF ForgottenGone
    <3>1. f \in DOMAIN eng.frames
      BY <2>1 DEF NewFrames, ActiveFrames
    <3>2. f \in ActiveFrames(eng) /\ eng.frames[f].kind = "record" /\ eng.frames[f].coll \in writer.expired
      BY <1>3, <2>1, <3>1, OldRecord
    <3> QED
      BY <1>2, <3>2 DEF ForgottenGone
  <2> QED
    BY <1>2, <2>1, <2>3, <2>4 DEF Renaming
<1>8. CASE DeleteStep
  BY <1>2, <1>8, UniqueDelete
<1>9. ASSUME eng'.frames = eng.frames, Kept(eng, eng', {}, {}), disk' = disk,
             \A s \in Slots : ident'[s].frame = ident[s].frame,
             writer'.by = writer.by, writer'.by # "compact", writer'.expired = writer.expired
      PROVE  UniqueRows' /\ ForgottenGone' /\ Single(disk') /\ (Renaming' => Single(writer'.temp))
  <2>1. NewFrames = {} /\ ActiveFrames(eng') = ActiveFrames(eng)
    BY <1>9 DEF NewFrames, ActiveFrames
  <2>2. \A s : Unexpired(s)' => Unexpired(s)
    BY <1>9 DEF Unexpired
  <2>3. UniqueRows'
    BY <1>2, <1>9, <2>1, <2>2, UniqueKept
  <2>4. ForgottenGone'
    BY <1>2, <1>9, <2>1 DEF ForgottenGone
  <2> QED
    BY <1>2, <1>9, <2>3, <2>4 DEF Renaming
<1>10. CASE FlushStep
  <2>1. writer'.by # "compact"
    BY <1>10, CoreFacts DEF FlushStep, FlushWriter
  <2> QED
    BY <1>9, <1>10, <2>1 DEF FlushStep, FlushEngine, FlushWriter
<1>11. CASE FlushErrStep
  BY <1>9, <1>11 DEF FlushErrStep
<1>12. CASE CommitStep
  <2>1. /\ ident' = ident /\ WrittenOut /\ eng' = disk' /\ CommitImage(eng, eng')
        /\ writer'.by = writer.by /\ writer'.expired = writer.expired /\ writer.by # "compact"
    BY <1>12, CoreFacts DEF CommitStep, Committer, WrittenOut
  <2>2. ActiveFrames(eng') = ActiveFrames(eng) /\ \A f, s : RecordOf(eng', f, s) <=> RecordOf(eng, f, s)
    BY <2>1 DEF CommitImage, ActiveFrames, RecordOf
  <2>3. UniqueRows'
    BY <1>2, <2>1, <2>2 DEF UniqueRows, Unexpired
  <2>4. ForgottenGone'
    BY <1>2, <2>1, <2>2 DEF ForgottenGone, CommitImage, ActiveFrames
  <2> QED
    BY <1>2, <2>1, <2>3, <2>4, UniqueCommit DEF Renaming
<1>13. CASE CommitErrStep
  <2>1. /\ ident' = ident /\ eng' = eng /\ (disk' = disk \/ WrittenOut)
        /\ writer'.by \notin {"forget", "compact"} /\ writer.by # "forget"
    BY <1>1, <1>13 DEF CommitErrStep
  <2> QED
    BY <1>2, <2>1, UniqueCommit DEF UniqueRows, ForgottenGone, Unexpired, Renaming
<1>14. CASE MarkStep
  <2>1. /\ UNCHANGED <<disk, eng>> /\ writer'.by \notin {"forget", "compact"}
        /\ \A s \in Slots : Unexpired(s) => ident'[s].frame = ident[s].frame
    BY <1>14 DEF MarkStep
  <2>2. ASSUME NEW f \in ActiveFrames(eng), NEW s \in Slots, RecordOf(eng, f, s)
        PROVE  Unexpired(s)
    BY <1>2, <2>2 DEF ForgottenGone, Unexpired, RecordOf
  <2>3. UniqueRows'
    BY <1>2, <2>1, <2>2 DEF UniqueRows
  <2> QED
    BY <1>2, <2>1, <2>3 DEF ForgottenGone, Renaming
<1>15. CASE ForgetStep
  BY <1>1, <1>2, <1>15, UniqueForget
<1>16. CASE BuildStep
  <2>1. /\ UNCHANGED <<disk, eng, ident>> /\ writer = NoWriter /\ writer'.by = "compact"
        /\ writer'.temp = Image(Compacted(eng))
    BY <1>16 DEF BuildStep
  <2>2. \A s : Unexpired(s)
    BY <2>1, NoMarking
  <2>3. \A f, g \in ActiveFrames(eng), s \in Slots : RecordOf(eng, f, s) /\ RecordOf(eng, g, s) => f = g
    BY <1>2, <2>2 DEF UniqueRows
  <2>4. Single(writer'.temp)
    BY <1>3, <2>1, <2>3, SingleTemp
  <2> QED
    BY <1>2, <2>1, <2>2, <2>4 DEF UniqueRows, ForgottenGone
<1>17. CASE RenameStep
  <2>1. /\ UNCHANGED <<eng, ident>> /\ disk' = writer.temp /\ Renaming
        /\ writer'.by = "compact" /\ writer'.pc = "publish"
    BY <1>17 DEF RenameStep
  <2>2. (\A s : Unexpired(s)) /\ ~Renaming'
    BY <2>1 DEF Unexpired, Renaming
  <2> QED
    BY <1>2, <2>1, <2>2 DEF UniqueRows, ForgottenGone
<1>18. CASE LoadStep
  BY <1>2, <1>18, UniqueLoad DEF LoadStep
<1> QED
  BY <1>4, <1>5, <1>6, <1>7, <1>8, <1>10, <1>11, <1>12, <1>13, <1>14, <1>15, <1>16, <1>17, <1>18
     DEF AnyStep

LEMMA SpecUnique == Spec => [](Sound /\ Live /\ Unique)
<1>1. Init => Sound /\ Live /\ Unique
  BY SoundInit, LiveInit, UniqueInit
<1>2. Sound /\ Live /\ Unique /\ [Next]_vars => (Sound /\ Live /\ Unique)'
  BY SoundStep, StepCases, LiveStep, UniqueStep
<1> QED
  BY <1>1, <1>2, PTL DEF Spec

(* A key has exactly one active frame, the one its entry names, through    *)
(* updates, deletes, forgets, compactions and reopens, as long as no put   *)
(* failed half way and no forget ran over or into an uncommitted batch.    *)
THEOREM OneActiveVersion == Spec => []OneVersion
<1>1. Sound /\ Live /\ Unique => OneVersion
  <2> SUFFICES ASSUME Sound, Live, Unique, faults \cap {"orphan", "forget"} = {},
                      NEW s \in Slots, Unexpired(s)
               PROVE  {f \in ActiveFrames(eng) :
                         /\ eng.frames[f].kind = "record"
                         /\ <<eng.frames[f].coll, eng.frames[f].key>> = s} = {ident[s].frame} \ {0}
    BY DEF OneVersion, Unexpired
  <2>1. \A f \in ActiveFrames(eng) :
          (eng.frames[f].kind = "record" /\ <<eng.frames[f].coll, eng.frames[f].key>> = s)
            <=> RecordOf(eng, f, s)
    <3>1. s = <<s[1], s[2]>>
      BY DEF Slots
    <3>2. \A a, b : <<a, b>> = s <=> a = s[1] /\ b = s[2]
      BY <3>1
    <3> QED
      BY <3>2 DEF RecordOf, ActiveFrames
  <2>2. \A f \in ActiveFrames(eng) : RecordOf(eng, f, s) => f = ident[s].frame /\ f # 0
    BY EntryFrame DEF Unique, ActiveFrames
  <2>3. ident[s].frame # 0 => ident[s].frame \in ActiveFrames(eng) /\ RecordOf(eng, ident[s].frame, s)
    BY EntryFrame DEF Live
  <2> QED
    BY <2>1, <2>2, <2>3
<1> QED
  BY <1>1, SpecUnique, PTL

(***************************************************************************)
(* Owners: the vectors of an entry are those of its frame.                 *)
(***************************************************************************)
IdentOwners == \A s \in Slots : ident[s] # NoEntry => EntryIn(eng, ident[s], s)
ReaderOwner ==
  reader.pc = "looked" =>
    EngineOK(ReaderEngine) /\ EntryIn(ReaderEngine, reader.entry, reader.slot)

(* What a frame and a vector are does not change from e to d.              *)
Same(e, d) ==
  /\ \A f, s : RecordOf(e, f, s) => RecordOf(d, f, s)
  /\ \A v \in DOMAIN e.vectors : v \in DOMAIN d.vectors /\ d.vectors[v].owner = e.vectors[v].owner

LEMMA SameFacts ==
  ASSUME NEW e, EngineOK(e), NEW d
  PROVE  /\ \A fs, vs : Kept(e, d, fs, vs) => Same(e, d)
         /\ CommitImage(e, d) => Same(e, d)
         /\ Same(e, e)
<1>1. \A fs, vs : Kept(e, d, fs, vs) => Same(e, d)
  BY KeptFields DEF Same
<1>2. CommitImage(e, d) => Same(e, d)
  BY DEF Same, CommitImage, RecordOf
<1> QED
  BY <1>1, <1>2 DEF Same

LEMMA SameEntry ==
  ASSUME NEW e, NEW d, Same(e, d), NEW en, NEW s, EntryIn(e, en, s)
  PROVE  EntryIn(d, en, s)
  BY DEF Same, EntryIn

LEMMA OwnersInit == Init => Owners
<1>1. Init => \A s \in Slots : ident[s] = NoEntry
  <2> SUFFICES ASSUME Init, NEW s \in Slots PROVE ident[s] = NoEntry
    OBVIOUS
  <2>1. KeyedFrames(EmptyEngine, s) = {}
    BY DEF KeyedFrames, ActiveFrames, EmptyEngine
  <2> QED
    BY <2>1 DEF Init, RebuiltIdentity
<1>2. Init => reader.pc = "idle"
  BY DEF Init, IdleReader
<1> QED
  BY <1>1, <1>2 DEF Owners

LEMMA IdentOwnersKept ==
  ASSUME IdentOwners, Same(eng, eng'), NEW s \in Slots, ident[s] # NoEntry,
         ident'[s].frame = ident[s].frame, ident'[s].vectors = ident[s].vectors
  PROVE  EntryIn(eng', ident'[s], s)
<1>1. EntryIn(eng', ident[s], s)
  BY SameEntry DEF IdentOwners
<1> QED
  BY <1>1 DEF EntryIn

LEMMA ReaderOwnerKept ==
  ASSUME EngineOK(eng'), Same(eng, eng'), reader' = reader, ReaderOwner
  PROVE  ReaderOwner'
<1> SUFFICES ASSUME reader.pc = "looked"
             PROVE  EngineOK(ReaderEngine') /\ EntryIn(ReaderEngine', reader.entry, reader.slot)
  BY DEF ReaderOwner
<1>1. EngineOK(ReaderEngine) /\ EntryIn(ReaderEngine, reader.entry, reader.slot)
  BY DEF ReaderOwner
<1>2. CASE reader.held = <<>>
  BY <1>1, <1>2, SameEntry DEF ReaderEngine
<1>3. CASE reader.held # <<>>
  BY <1>1, <1>3 DEF ReaderEngine
<1> QED
  BY <1>2, <1>3

LEMMA OwnersPut ==
  ASSUME Sound, PutStep, IdentOwners
  PROVE  IdentOwners' /\ Same(eng, eng')
<1>1. PICK s \in Slots, vec \in BOOLEAN : \E f : PutEngine(s, vec, f, NewVectors)
  BY DEF PutStep
<1>2. PICK f : PutEngine(s, vec, f, NewVectors)
  BY <1>1
<1>3. ident' = [ident EXCEPT ![s] = Entry(f, NewVectors, FALSE)] /\ ident \in [Slots -> EntryType]
      /\ EngineOK(eng)
  BY <1>2, SoundMeans DEF PutEngine, SoundParts
<1>4. Same(eng, eng')
  BY <1>2, <1>3, SameFacts DEF PutEngine
<1>5. EntryIn(eng', ident'[s], s)
  <2>1. ident'[s] = Entry(f, NewVectors, FALSE)
    BY <1>3
  <2>2. ident'[s].frame = f /\ ident'[s].vectors = NewVectors
    BY <2>1 DEF Entry
  <2>3. \A v \in NewVectors : v \in DOMAIN eng'.vectors
    BY DEF NewVectors
  <2> QED
    BY <1>2, <2>2, <2>3 DEF PutEngine, EntryIn
<1>6. \A r \in Slots : r # s => ident'[r] = ident[r]
  BY <1>3
<1>7. IdentOwners'
  BY <1>4, <1>5, <1>6, IdentOwnersKept DEF IdentOwners
<1> QED
  BY <1>4, <1>7

LEMMA OwnersDelete ==
  ASSUME Sound, DeleteStep, IdentOwners
  PROVE  IdentOwners' /\ Same(eng, eng')
<1>1. PICK s \in Slots : DeleteEngine(s)
  BY DEF DeleteStep
<1>2. ident' = [ident EXCEPT ![s] = NoEntry] /\ ident \in [Slots -> EntryType] /\ EngineOK(eng)
  BY <1>1, SoundMeans DEF DeleteEngine, SoundParts
<1>3. Same(eng, eng')
  BY <1>1, <1>2, SameFacts DEF DeleteEngine
<1>4. \A r \in Slots : ident'[r] # NoEntry => ident'[r] = ident[r]
  BY <1>2
<1>5. IdentOwners'
  BY <1>3, <1>4, IdentOwnersKept DEF IdentOwners
<1> QED
  BY <1>3, <1>5

LEMMA OwnersFlush ==
  ASSUME Sound, FlushStep, IdentOwners
  PROVE  IdentOwners' /\ Same(eng, eng')
<1>1. FlushEngine /\ EngineOK(eng)
  BY SoundMeans DEF FlushStep, SoundParts
<1>2. Same(eng, eng')
  BY <1>1, SameFacts DEF FlushEngine
<1>3. ASSUME NEW s \in Slots, ident'[s] # NoEntry
      PROVE  EntryIn(eng', ident'[s], s)
  <2>1. /\ ident'[s].frame = ident[s].frame /\ ident[s] # NoEntry
        /\ \A v \in ident'[s].vectors \ ident[s].vectors :
             v \in NewVectors /\ eng'.vectors[v].owner = ident[s].frame
    BY <1>1, <1>3 DEF FlushEngine
  <2>2. EntryIn(eng', ident[s], s)
    BY <1>2, <2>1, SameEntry DEF IdentOwners
  <2> QED
    BY <2>1, <2>2 DEF EntryIn, NewVectors
<1> QED
  BY <1>2, <1>3 DEF IdentOwners

LEMMA OwnersMark ==
  ASSUME Sound, MarkStep, IdentOwners
  PROVE  IdentOwners' /\ Same(eng, eng')
<1>1. Same(eng, eng')
  BY SameFacts, SoundMeans DEF MarkStep, SoundParts
<1>2. \A s \in Slots : ident'[s] # NoEntry =>
        ident'[s].frame = ident[s].frame /\ ident'[s].vectors = ident[s].vectors /\ ident[s] # NoEntry
  BY DEF MarkStep
<1> QED
  BY <1>1, <1>2, IdentOwnersKept DEF IdentOwners

LEMMA OwnersLoad ==
  ASSUME Sound, LoadStep, Single(disk)
  PROVE  IdentOwners'
<1>1. EngineOK(disk) /\ ident' = RebuiltIdentity(disk) /\ eng' = disk
  BY SoundMeans DEF SoundParts, LoadStep
<1>2. ASSUME NEW s \in Slots, ident'[s] # NoEntry
      PROVE  EntryIn(disk, ident'[s], s)
  <2>1. /\ ident'[s].frame \in KeyedFrames(disk, s)
        /\ ident'[s].vectors = {v \in ActiveVectors(disk) : disk.vectors[v].owner \in KeyedFrames(disk, s)}
    BY <1>1, <1>2, RebuiltFacts
  <2>2. \A f \in KeyedFrames(disk, s) : f = ident'[s].frame
    BY <2>1, KeyedIn DEF Single
  <2>3. RecordOf(disk, ident'[s].frame, s)
    BY <2>1, KeyedIn
  <2>4. \A v \in ident'[s].vectors : v \in DOMAIN disk.vectors /\ disk.vectors[v].owner = ident'[s].frame
    BY <2>1, <2>2 DEF ActiveVectors
  <2> QED
    BY <2>3, <2>4 DEF EntryIn
<1> QED
  BY <1>1, <1>2 DEF IdentOwners

LEMMA ReaderLoad ==
  ASSUME Sound, LoadStep, ReaderOwner
  PROVE  ReaderOwner'
<1>1. CASE reader' = IdleReader
  BY <1>1 DEF ReaderOwner, IdleReader
<1>2. CASE reader' = Pinned(reader)
  <2>0. ReaderOK
    BY SoundMeans DEF SoundParts
  <2>1. CASE reader.pc = "looked" /\ reader.held = <<>>
    <3>1. reader' = [pc |-> "looked", slot |-> reader.slot, entry |-> reader.entry,
                     space |-> reader.space, held |-> <<eng>>]
      BY <1>2, <2>0, <2>1, PinnedFacts
    <3>2. /\ reader'.slot = reader.slot /\ reader'.entry = reader.entry
          /\ reader'.held = <<eng>>
      BY <3>1
    <3>3. ReaderEngine' = eng /\ ReaderEngine = eng
      BY <2>1, <3>2 DEF ReaderEngine
    <3> QED
      BY <2>1, <3>2, <3>3 DEF ReaderOwner
  <2>2. CASE reader.pc = "looked" /\ reader.held # <<>>
    <3>1. reader' = reader
      BY <1>2, <2>0, <2>2, PinnedFacts
    <3>2. ReaderEngine' = ReaderEngine
      BY <2>2, <3>1 DEF ReaderEngine
    <3> QED
      BY <3>1, <3>2 DEF ReaderOwner
  <2>3. CASE reader.pc # "looked"
    <3>1. reader' = reader
      BY <1>2, <2>3 DEF Pinned
    <3> QED
      BY <2>3, <3>1 DEF ReaderOwner
  <2> QED
    BY <2>1, <2>2, <2>3
<1> QED
  BY <1>1, <1>2 DEF LoadStep

LEMMA ReaderQuiet ==
  ASSUME Sound, Quiet, IdentOwners, ReaderOwner
  PROVE  ReaderOwner'
<1>1. UNCHANGED <<eng, ident>> /\ EngineOK(eng)
  BY SoundMeans DEF SoundParts, Quiet
<1>2. CASE reader' = reader
  BY <1>1, <1>2, SameFacts, ReaderOwnerKept
<1>3. CASE reader' = IdleReader
  BY <1>3 DEF ReaderOwner, IdleReader
<1>4. CASE GetLookup
  <2>1. PICK s \in Slots :
          /\ ident[s] # NoEntry
          /\ reader' = [pc |-> "looked", slot |-> s, entry |-> ident[s], space |-> reg.space, held |-> <<>>]
    BY <1>4 DEF GetLookup
  <2>2. reader'.slot = s /\ reader'.entry = ident[s] /\ reader'.held = <<>>
    BY <2>1
  <2>3. ReaderEngine' = eng
    BY <1>1, <2>2 DEF ReaderEngine
  <2> QED
    BY <1>1, <2>1, <2>2, <2>3 DEF ReaderOwner, IdentOwners
<1> QED
  BY <1>2, <1>3, <1>4 DEF Quiet

LEMMA OwnersStep ==
  ASSUME Sound, Sound', Unique, Owners, AnyStep
  PROVE  Owners'
<1> SUFFICES ASSUME faults' \cap {"orphan", "forget"} = {}
             PROVE  IdentOwners' /\ ReaderOwner'
  BY DEF Owners, IdentOwners, ReaderOwner
<1>1. faults \cap {"orphan", "forget"} = {} /\ "orphan" \notin faults'
  BY DEF AnyStep
<1>2. IdentOwners /\ ReaderOwner /\ Single(disk)
  BY <1>1, UniqueMeans DEF Owners, IdentOwners, ReaderOwner
<1>3. EngineOK(eng) /\ EngineOK(eng')
  BY SoundMeans DEF Sound, Types
<1>4. CASE Quiet
  <2>1. Same(eng, eng') /\ ident' = ident
    BY <1>3, <1>4, SameFacts DEF Quiet
  <2> QED
    BY <1>2, <1>4, <2>1, IdentOwnersKept, ReaderQuiet DEF IdentOwners
<1>5. CASE PutStep
  BY <1>2, <1>3, <1>5, OwnersPut, ReaderOwnerKept DEF PutStep
<1>6. CASE FailStep
  BY <1>1, <1>6 DEF FailStep
<1>7. CASE DeleteStep
  BY <1>2, <1>3, <1>7, OwnersDelete, ReaderOwnerKept DEF DeleteStep
<1>8. CASE FlushStep
  BY <1>2, <1>3, <1>8, OwnersFlush, ReaderOwnerKept DEF FlushStep
<1>9. CASE MarkStep
  BY <1>2, <1>3, <1>9, OwnersMark, ReaderOwnerKept DEF MarkStep
<1>10. ASSUME Same(eng, eng'), ident' = ident, reader' = reader
       PROVE  IdentOwners' /\ ReaderOwner'
  BY <1>2, <1>3, <1>10, IdentOwnersKept, ReaderOwnerKept DEF IdentOwners
<1>11. CASE DeclareStep
  BY <1>3, <1>10, <1>11, SameFacts DEF DeclareStep, DeclareEngine
<1>12. CASE FlushErrStep
  BY <1>3, <1>10, <1>12, SameFacts DEF FlushErrStep
<1>13. CASE CommitStep
  BY <1>3, <1>10, <1>13, SameFacts DEF CommitStep, WrittenOut
<1>14. CASE CommitErrStep
  BY <1>3, <1>10, <1>14, SameFacts DEF CommitErrStep
<1>15. CASE ForgetStep
  BY <1>3, <1>10, <1>15, SameFacts DEF ForgetStep, ForgetEngine
<1>16. CASE BuildStep
  BY <1>3, <1>10, <1>16, SameFacts DEF BuildStep
<1>17. CASE RenameStep
  BY <1>3, <1>10, <1>17, SameFacts DEF RenameStep
<1>18. CASE LoadStep
  BY <1>2, <1>18, OwnersLoad, ReaderLoad
<1> QED
  BY <1>4, <1>5, <1>6, <1>7, <1>8, <1>9, <1>11, <1>12, <1>13, <1>14, <1>15, <1>16, <1>17, <1>18
     DEF AnyStep

LEMMA SpecOwners == Spec => [](Sound /\ Live /\ Unique /\ Owners)
<1>1. Init => Sound /\ Live /\ Unique /\ Owners
  BY SoundInit, LiveInit, UniqueInit, OwnersInit
<1>2. Sound /\ Live /\ Unique /\ Owners /\ [Next]_vars => (Sound /\ Live /\ Unique /\ Owners)'
  BY SoundStep, StepCases, LiveStep, UniqueStep, OwnersStep
<1> QED
  BY <1>1, <1>2, PTL DEF Spec

(* Reader::get returns the fields of one put of its key, whatever commits, *)
(* compactions and updates run between its lookup and its reads.           *)
THEOREM GetReadsOnePut == Spec => []ReadOnePut
<1>1. Sound /\ Owners => ReadOnePut
  <2> SUFFICES ASSUME Sound, Owners, faults \cap {"orphan", "forget"} = {}, reader.pc = "looked"
               PROVE  LET fr == ReaderEngine.frames[reader.entry.frame] IN
                      /\ <<fr.coll, fr.key>> = reader.slot
                      /\ {ReaderEngine.vectors[v].val : v \in ReaderVectors} \subseteq {fr.val}
    BY DEF ReadOnePut
  <2> DEFINE fr == ReaderEngine.frames[reader.entry.frame]
  <2>1. EngineOK(ReaderEngine) /\ EntryIn(ReaderEngine, reader.entry, reader.slot)
    BY DEF Owners
  <2>2. reader.slot = <<reader.slot[1], reader.slot[2]>>
    <3>1. ReaderOK
      BY SoundMeans DEF SoundParts
    <3>2. reader.slot \in Slots
      BY <3>1 DEF ReaderOK, IdleReader
    <3> QED
      BY <3>2 DEF Slots
  <2>3. fr.coll = reader.slot[1] /\ fr.key = reader.slot[2]
    BY <2>1 DEF EntryIn, RecordOf
  <2>4. \A v \in ReaderVectors : ReaderEngine.vectors[v].val = fr.val
    BY <2>1 DEF ReaderVectors, EntryIn, EngineOK
  <2> HIDE DEF fr
  <2>5. <<fr.coll, fr.key>> = reader.slot
    BY <2>2, <2>3
  <2>6. {ReaderEngine.vectors[v].val : v \in ReaderVectors} \subseteq {fr.val}
    BY <2>4
  <2> QED
    BY <2>5, <2>6 DEF fr
<1> QED
  BY <1>1, SpecOwners, PTL

(***************************************************************************)
(* Views: what open() would find is what was acknowledged or attempted.    *)
(***************************************************************************)
OnFile(e) == View(e, RebuiltIdentity(e))

LEMMA OnFileFacts ==
  ASSUME NEW e, EngineOK(e), Single(e), NEW s \in Slots
  PROVE  /\ KeyedFrames(e, s) = {} => OnFile(e)[s] = 0
         /\ \A f \in KeyedFrames(e, s) : OnFile(e)[s] = e.frames[f].val
<1> DEFINE i == RebuiltIdentity(e)
<1>1. /\ KeyedFrames(e, s) = {} => i[s] = NoEntry
      /\ KeyedFrames(e, s) # {} => i[s] # NoEntry /\ i[s].frame \in KeyedFrames(e, s)
  BY RebuiltFacts
<1> HIDE DEF i
<1>2. OnFile(e)[s] = IF i[s] = NoEntry THEN 0 ELSE e.frames[i[s].frame].val
  BY DEF OnFile, View, i
<1>3. \A f, g \in KeyedFrames(e, s) : f = g
  BY KeyedIn DEF Single
<1> QED
  BY <1>1, <1>2, <1>3

LEMMA SameViews ==
  ASSUME NEW v, NEW w, v = [s \in Slots |-> v[s]], w = [s \in Slots |-> w[s]],
         \A s \in Slots : v[s] = w[s]
  PROVE  v = w
  OBVIOUS

LEMMA OnFileFn ==
  ASSUME NEW e
  PROVE  OnFile(e) = [s \in Slots |-> OnFile(e)[s]]
  BY DEF OnFile, View

LEMMA IntendedAt ==
  /\ Intended = [s \in Slots |-> Intended[s]]
  /\ \A s \in Slots :
       Intended[s] = IF s[1] \in writer.expired THEN 0
                     ELSE IF ident[s] = NoEntry THEN 0 ELSE eng.frames[ident[s].frame].val
  BY DEF Intended, View

(* A commit writes what its caller intended.                               *)
LEMMA CommitView ==
  ASSUME Sound, Live, Unique, WrittenOut, writer \in CoreType, writer.by # "forget" => writer.expired = {},
         faults \cap {"orphan", "forget"} = {}
  PROVE  OnFile(disk') = Intended
<1>1. UniqueRows /\ ForgottenGone
  BY UniqueMeans
<1>2. CommitImage(eng, disk') /\ EngineOK(disk') /\ Single(disk')
  BY <1>1, UniqueCommit DEF WrittenOut, CommitImage
<1>3. ASSUME NEW s \in Slots
      PROVE  OnFile(disk')[s] = Intended[s]
  <2>1. CASE s[1] \in writer.expired
    <3>1. writer.by = "forget"
      BY <2>1
    <3>2. KeyedFrames(disk', s) = {}
      <4> SUFFICES ASSUME NEW f \in KeyedFrames(disk', s) PROVE FALSE
        OBVIOUS
      <4>1. f \in ActiveFrames(eng) /\ RecordOf(eng, f, s)
        BY <1>2, KeyedImage
      <4> QED
        BY <1>1, <2>1, <3>1, <4>1 DEF ForgottenGone, RecordOf
    <3> QED
      BY <1>2, <2>1, <3>2, OnFileFacts, IntendedAt
  <2>2. CASE s[1] \notin writer.expired /\ ident[s] = NoEntry
    <3>1. KeyedFrames(disk', s) = {}
      <4> SUFFICES ASSUME NEW f \in KeyedFrames(disk', s) PROVE FALSE
        OBVIOUS
      <4>1. f \in ActiveFrames(eng) /\ RecordOf(eng, f, s)
        BY <1>2, KeyedImage
      <4>2. f = ident[s].frame
        BY <1>1, <2>2, <4>1 DEF UniqueRows, Unexpired
      <4> QED
        BY <2>2, <4>1, <4>2, EntryFrame DEF RecordOf
    <3> QED
      BY <1>2, <2>2, <3>1, OnFileFacts, IntendedAt
  <2>3. CASE s[1] \notin writer.expired /\ ident[s] # NoEntry
    <3>1. ident[s].frame \in ActiveFrames(eng) /\ RecordOf(eng, ident[s].frame, s)
      BY <2>3, EntryFrame DEF Live, Unexpired
    <3>2. ident[s].frame \in KeyedFrames(disk', s)
      BY <1>2, <3>1, KeyedImage
    <3>3. disk'.frames[ident[s].frame].val = eng.frames[ident[s].frame].val
      BY <1>2, <3>1 DEF CommitImage, ActiveFrames
    <3> QED
      BY <1>2, <2>3, <3>2, <3>3, OnFileFacts, IntendedAt
  <2> QED
    BY <2>1, <2>2, <2>3
<1> QED
  BY <1>3, SameViews, OnFileFn, IntendedAt

(* What follows the commit shows the same.                                 *)
LEMMA IntendedKept ==
  ASSUME Sound, writer'.expired = writer.expired, ident' = ident,
         \A f \in DOMAIN eng.frames : eng'.frames[f].val = eng.frames[f].val
  PROVE  Intended' = Intended
<1>1. \A s \in Slots : ident[s] # NoEntry => ident[s].frame \in DOMAIN eng.frames
  BY EntryFrame
<1>2. View(eng', ident) = View(eng, ident)
  BY <1>1 DEF View
<1> QED
  BY <1>2 DEF Intended

(* A compaction of what is on disk shows the same.                         *)
LEMMA CompactView ==
  ASSUME NEW e, EngineOK(e), Single(e), NEW d, d = Image(Compacted(e))
  PROVE  OnFile(d) = OnFile(e)
<1>1. \A f, g \in ActiveFrames(e), s \in Slots : RecordOf(e, f, s) /\ RecordOf(e, g, s) => f = g
  BY DEF Single
<1>2. Single(d) /\ EngineOK(d)
  <2>1. Single(d)
    BY <1>1, SingleTemp
  <2>2. EngineOK(d)
    BY TempFacts
  <2> QED
    BY <2>1, <2>2
<1>3. ASSUME NEW s \in Slots
      PROVE  OnFile(d)[s] = OnFile(e)[s]
  <2>1. CASE KeyedFrames(e, s) = {}
    <3>1. KeyedFrames(d, s) = {}
      BY <2>1, KeyedTemp
    <3> QED
      BY <1>2, <2>1, <3>1, OnFileFacts
  <2>2. CASE KeyedFrames(e, s) # {}
    <3>1. PICK f \in KeyedFrames(e, s) : TRUE
      BY <2>2
    <3>2. f \in ActiveFrames(e)
      BY <3>1, KeyedIn
    <3>3. /\ Rank(ActiveFrames(e), f) \in KeyedFrames(d, s)
          /\ d.frames[Rank(ActiveFrames(e), f)].val = e.frames[f].val
      BY <3>1, <3>2, KeyedTemp
    <3> QED
      BY <1>2, <3>1, <3>3, OnFileFacts
  <2> QED
    BY <2>1, <2>2
<1> QED
  BY <1>3, SameViews, OnFileFn

LEMMA ViewsMeans ==
  Views <=> (faults \cap {"orphan", "forget", "compact"} = {} =>
               /\ OnFile(disk) \in {acked} \cup attempts
               /\ Marking => OnFile(disk) = Intended
               /\ Renaming => OnFile(writer.temp) = OnFile(disk))
  BY DEF Views, DiskView, OnFile

LEMMA ViewsInit == Init => Views
<1> SUFFICES ASSUME Init PROVE OnFile(disk) = acked /\ ~Marking /\ ~Renaming
  BY ViewsMeans
<1>1. disk = EmptyEngine /\ acked = [s \in Slots |-> 0] /\ writer = NoWriter
  BY DEF Init
<1>2. \A s \in Slots : KeyedFrames(EmptyEngine, s) = {}
  BY DEF KeyedFrames, ActiveFrames, EmptyEngine
<1>3. \A s \in Slots : RebuiltIdentity(EmptyEngine)[s] = NoEntry
  BY <1>2 DEF RebuiltIdentity
<1>4. OnFile(EmptyEngine) = [s \in Slots |-> 0]
  BY <1>3 DEF OnFile, View
<1> QED
  BY <1>1, <1>4, NoMarking

(* A step that touches neither the file nor its history.                   *)
LEMMA ViewsKept ==
  ASSUME Sound, OnFile(disk) \in {acked} \cup attempts, UNCHANGED <<disk, acked, attempts>>,
         ~Marking', ~Renaming'
  PROVE  /\ OnFile(disk') \in {acked'} \cup attempts'
         /\ Marking' => OnFile(disk') = Intended'
         /\ Renaming' => OnFile(writer'.temp) = OnFile(disk')
  OBVIOUS

LEMMA ViewsStep ==
  ASSUME Sound, Live, Unique, Views, AnyStep
  PROVE  Views'
<1> DEFINE Goal == /\ OnFile(disk') \in {acked'} \cup attempts'
                   /\ Marking' => OnFile(disk') = Intended'
                   /\ Renaming' => OnFile(writer'.temp) = OnFile(disk')
<1> SUFFICES ASSUME faults' \cap {"orphan", "forget", "compact"} = {}
             PROVE  Goal
  BY DEF Views, DiskView, OnFile
<1>1. /\ faults \cap {"orphan", "forget", "compact"} = {}
      /\ faults \cap {"orphan", "forget"} = {}
      /\ "forget" \notin faults' /\ "orphan" \notin faults' /\ "compact" \notin faults'
  BY DEF AnyStep
<1>2. /\ OnFile(disk) \in {acked} \cup attempts
      /\ Marking => OnFile(disk) = Intended
      /\ Renaming => OnFile(writer.temp) = OnFile(disk)
  BY <1>1, ViewsMeans
<1>3. EngineOK(eng) /\ EngineOK(disk) /\ AllStored(disk) /\ Single(disk)
  BY <1>1, SoundMeans, UniqueMeans DEF SoundParts
<1>4. ASSUME UNCHANGED <<disk, acked, attempts, writer, ident>>,
             \A f \in DOMAIN eng.frames : eng'.frames[f].val = eng.frames[f].val
      PROVE  Goal
  <2>1. Intended' = Intended
    BY <1>4, IntendedKept
  <2> QED
    BY <1>2, <1>4, <2>1 DEF Marking, Renaming
<1>5. ASSUME UNCHANGED <<disk, acked, attempts>>, ~Marking', ~Renaming'
      PROVE  Goal
  BY <1>2, <1>5, ViewsKept
<1> HIDE DEF Goal
<1>6. CASE Quiet
  <2>1. CASE writer' = writer
    BY <1>4, <1>6, <2>1 DEF Quiet
  <2>2. CASE writer' # writer
    BY <1>5, <1>6, <2>2 DEF Quiet, Renaming
  <2> QED
    BY <2>1, <2>2
<1>7. CASE PutStep
  <2>1. ~Marking' /\ ~Renaming'
    BY <1>7 DEF PutStep, PutWriter, Marking, Renaming
  <2> QED
    BY <1>5, <1>7, <2>1 DEF PutStep
<1>8. CASE FailStep
  BY <1>1, <1>8 DEF FailStep
<1>9. CASE DeclareStep
  <2>1. \A f \in DOMAIN eng.frames : eng'.frames[f].val = eng.frames[f].val
    BY <1>3, <1>9, KeptFields DEF DeclareStep, DeclareEngine
  <2> QED
    BY <1>4, <1>9, <2>1 DEF DeclareStep
<1>10. CASE DeleteStep
  <2>1. ~Marking' /\ ~Renaming'
    BY <1>10 DEF DeleteStep, DeleteEngine, Marking, Renaming, CoreType
  <2> QED
    BY <1>5, <1>10, <2>1 DEF DeleteStep
<1>11. CASE FlushStep
  <2>1. ~Marking' /\ ~Renaming'
    BY <1>11, CoreFacts DEF FlushStep, FlushWriter, Marking, Renaming
  <2> QED
    BY <1>5, <1>11, <2>1 DEF FlushStep
<1>12. CASE FlushErrStep
  <2>1. ~Marking' /\ ~Renaming'
    BY <1>12 DEF FlushErrStep, Marking, Renaming
  <2> QED
    BY <1>5, <1>12, <2>1 DEF FlushErrStep
<1>13. CASE CommitStep
  <2>1. /\ WrittenOut /\ writer \in CoreType /\ (writer.by # "forget" => writer.expired = {})
        /\ writer'.expired = writer.expired /\ ident' = ident /\ eng' = disk'
        /\ writer'.by = writer.by /\ attempts' = attempts \cup {Intended}
    BY <1>13 DEF CommitStep, Committer, WrittenOut
  <2>2. OnFile(disk') = Intended
    BY <1>1, <2>1, CommitView
  <2>3. \A f \in DOMAIN eng.frames : eng'.frames[f].val = eng.frames[f].val
    BY <2>1 DEF WrittenOut, CommitImage
  <2>4. Intended' = Intended
    BY <2>1, <2>3, IntendedKept
  <2>5. ~Renaming'
    BY <2>1, CoreFacts DEF Renaming
  <2> QED
    BY <2>1, <2>2, <2>4, <2>5 DEF Goal
<1>14. CASE CommitErrStep
  <2>1. ~Marking' /\ ~Renaming'
    BY <1>14 DEF CommitErrStep, Renaming
  <2>2. CASE UNCHANGED <<disk, attempts>>
    BY <1>5, <1>14, <2>1, <2>2 DEF CommitErrStep
  <2>3. CASE WrittenOut
    <3>1. writer \in CoreType /\ (writer.by # "forget" => writer.expired = {})
          /\ attempts' = attempts \cup {Intended}
      BY <1>14, <2>3 DEF CommitErrStep, Committer, WrittenOut
    <3>2. OnFile(disk') = Intended
      BY <1>1, <2>3, <3>1, CommitView
    <3> QED
      BY <2>1, <3>1, <3>2 DEF Goal
  <2> QED
    BY <1>14, <2>2, <2>3 DEF CommitErrStep
<1>15. CASE MarkStep
  <2>1. disk' = disk /\ acked' = Intended /\ Marking /\ ~Marking' /\ ~Renaming'
    BY <1>15 DEF MarkStep, Renaming
  <2> QED
    BY <1>2, <2>1 DEF Goal
<1>16. CASE ForgetStep
  <2>1. ~Marking' /\ ~Renaming'
    BY <1>16 DEF ForgetStep, ForgetEngine, Marking, Renaming
  <2> QED
    BY <1>5, <1>16, <2>1 DEF ForgetStep
<1>17. CASE BuildStep
  <2>1. /\ UNCHANGED <<disk, acked, attempts>> /\ writer'.by = "compact"
        /\ writer'.temp = Image(Compacted(disk))
    BY <1>1, <1>17 DEF BuildStep
  <2>2. OnFile(writer'.temp) = OnFile(disk)
    BY <1>3, <2>1, CompactView
  <2> QED
    BY <1>2, <2>1, <2>2 DEF Goal, Marking
<1>18. CASE RenameStep
  <2>1. /\ UNCHANGED <<acked, attempts>> /\ disk' = writer.temp /\ Renaming
        /\ ~Marking' /\ ~Renaming'
    BY <1>18 DEF RenameStep, Marking, Renaming
  <2> QED
    BY <1>2, <2>1 DEF Goal
<1>19. CASE LoadStep
  <2>1. /\ disk' = disk /\ writer' = NoWriter
        /\ UNCHANGED <<acked, attempts>> \/ (acked' = OnFile(disk) /\ attempts' = {})
    BY <1>19 DEF LoadStep, DiskView, OnFile
  <2>2. ~Marking' /\ ~Renaming'
    BY <2>1 DEF NoWriter, Marking, Renaming
  <2> QED
    BY <1>2, <2>1, <2>2 DEF Goal
<1> QED
  BY <1>6, <1>7, <1>8, <1>9, <1>10, <1>11, <1>12, <1>13, <1>14, <1>15, <1>16, <1>17, <1>18, <1>19
     DEF AnyStep

LEMMA SpecViews == Spec => [](Sound /\ Live /\ Unique /\ Views)
<1>1. Init => Sound /\ Live /\ Unique /\ Views
  BY SoundInit, LiveInit, UniqueInit, ViewsInit
<1>2. Sound /\ Live /\ Unique /\ Views /\ [Next]_vars => (Sound /\ Live /\ Unique /\ Views)'
  BY SoundStep, StepCases, LiveStep, UniqueStep, ViewsStep
<1> QED
  BY <1>1, <1>2, PTL DEF Spec

(* Store::open finds the records of the last acknowledged commit, or the   *)
(* complete batch of a commit that has not returned Ok: nothing is lost,   *)
(* nothing deleted or forgotten comes back, and compaction keeps all.      *)
THEOREM AckedRecordsSurvive == Spec => []AckedSurvive
<1>1. Views => AckedSurvive
  BY DEF Views, AckedSurvive
<1> QED
  BY <1>1, SpecViews, PTL

(***************************************************************************)
(* Vecs: every record has its vector, and no vector outlives its record.   *)
(***************************************************************************)
VectorAt(e, i, v) ==
  /\ e.frames[e.vectors[v].owner].active
  /\ e.frames[e.vectors[v].owner].vec
  /\ e.frames[e.vectors[v].owner].kind = "record"
  /\ e.frames[e.vectors[v].owner].stored => e.vectors[v].stored
  /\ \A s \in Slots : i[s].frame = e.vectors[v].owner => v \in i[s].vectors
VectorRows == \A v \in ActiveVectors(eng) : VectorAt(eng, ident, v)
VectorThere ==
  \A f \in ActiveFrames(eng) : eng.frames[f].vec => Has(eng, f) \/ Staged(f)
StagedPending == \A f \in DOMAIN eng.frames : Staged(f) => ~eng.frames[f].stored

LEMMA VecsMeans ==
  Vecs <=> (faults = {} =>
              /\ VectorRows /\ VectorThere /\ StagedPending
              /\ Follow(disk) /\ (Renaming => Follow(writer.temp)))
  BY DEF Vecs, VectorRows, VectorAt, VectorThere, StagedPending

LEMMA VecsInit == Init => Vecs
<1> SUFFICES ASSUME Init PROVE Vecs
  OBVIOUS
<1>1. eng = EmptyEngine /\ disk = EmptyEngine /\ writer = NoWriter
  BY DEF Init
<1>2. DOMAIN EmptyEngine.frames = {} /\ DOMAIN EmptyEngine.vectors = {}
  BY DEF EmptyEngine
<1>3. VectorRows /\ VectorThere /\ StagedPending /\ Follow(disk)
  BY <1>1, <1>2 DEF VectorRows, VectorThere, StagedPending, Follow, ActiveFrames, ActiveVectors
<1> QED
  BY <1>1, <1>3, NoMarking, VecsMeans

(* Rows of the old catalog, seen in the new one.                           *)
OldRows(e, d, fs, vs) ==
  /\ \A f \in DOMAIN e.frames :
       /\ f \in DOMAIN d.frames
       /\ d.frames[f].active <=> e.frames[f].active /\ f \notin fs
       /\ d.frames[f].vec = e.frames[f].vec /\ d.frames[f].stored = e.frames[f].stored
       /\ d.frames[f].kind = e.frames[f].kind /\ d.frames[f].coll = e.frames[f].coll
  /\ \A v \in DOMAIN e.vectors :
       /\ v \in DOMAIN d.vectors
       /\ d.vectors[v].active <=> e.vectors[v].active /\ v \notin vs
       /\ d.vectors[v].owner = e.vectors[v].owner /\ d.vectors[v].stored = e.vectors[v].stored
  /\ \A v \in DOMAIN e.vectors : e.vectors[v].owner \in DOMAIN e.frames
LEMMA OldRowsFacts ==
  ASSUME NEW e, EngineOK(e), NEW d, NEW fs, NEW vs, Kept(e, d, fs, vs)
  PROVE  OldRows(e, d, fs, vs)
<1>1. \A v \in DOMAIN e.vectors : e.vectors[v].owner \in DOMAIN e.frames
  BY DEF EngineOK
<1> QED
  BY <1>1, KeptFields DEF OldRows

LEMMA VectorAtKept ==
  ASSUME NEW e, NEW d, NEW fs, NEW vs, OldRows(e, d, fs, vs), NEW i, NEW j, NEW v \in DOMAIN e.vectors,
         VectorAt(e, i, v), e.vectors[v].owner \notin fs,
         \A s \in Slots : j[s].frame = e.vectors[v].owner =>
                            i[s].frame = e.vectors[v].owner /\ i[s].vectors \subseteq j[s].vectors
  PROVE  VectorAt(d, j, v)
<1>1. PICK o \in DOMAIN e.frames : o = e.vectors[v].owner
  BY DEF OldRows
<1>2. /\ d.vectors[v].owner = o /\ d.vectors[v].stored = e.vectors[v].stored
      /\ d.frames[o].active <=> e.frames[o].active
      /\ d.frames[o].vec = e.frames[o].vec /\ d.frames[o].stored = e.frames[o].stored
      /\ d.frames[o].kind = e.frames[o].kind
  BY <1>1 DEF OldRows
<1> QED
  BY <1>1, <1>2 DEF VectorAt

LEMMA HasKept ==
  ASSUME NEW e, NEW d, NEW fs, NEW vs, OldRows(e, d, fs, vs), NEW f, Has(e, f),
         \A v \in ActiveVectors(e) : v \in vs => e.vectors[v].owner # f
  PROVE  Has(d, f)
  BY DEF Has, OldRows, ActiveVectors

(* put: the prior version goes with its vectors, the new one has its own.  *)
LEMMA VecsPut ==
  ASSUME Sound, IdentOwners, PutStep, VectorRows, VectorThere, StagedPending
  PROVE  VectorRows' /\ VectorThere' /\ StagedPending' /\ ~Renaming'
<1>1. PICK s \in Slots, vec \in BOOLEAN : \E f :
        PutEngine(s, vec, f, NewVectors) /\ PutWriter(s, vec, f) /\ ~Rejected(ident[s])
  BY DEF PutStep
<1>2. PICK f : PutEngine(s, vec, f, NewVectors) /\ PutWriter(s, vec, f)
  BY <1>1
<1>3. ident' = [ident EXCEPT ![s] = Entry(f, NewVectors, FALSE)] /\ ident \in [Slots -> EntryType]
      /\ EngineOK(eng)
  BY <1>2, SoundMeans DEF PutEngine, SoundParts
<1>4. ident'[s].frame = f /\ ident'[s].vectors = NewVectors
  <2>1. ident'[s] = Entry(f, NewVectors, FALSE)
    BY <1>3
  <2> QED
    BY <2>1 DEF Entry
<1>5. \A r \in Slots : r # s => ident'[r] = ident[r]
  BY <1>3
<1> DEFINE fs == DeadFrames(ident[s])
           vs == DeadVectors(ident[s])
<1>6. OldRows(eng, eng', fs, vs)
  BY <1>2, <1>3, OldRowsFacts DEF PutEngine
<1>7. f \in NewFrames /\ f \notin DOMAIN eng.frames /\ f # 0
  <2>1. f \in NewFrames /\ f \notin DOMAIN eng.frames /\ f \in DOMAIN eng'.frames /\ EngineOK(eng')
    BY <1>2 DEF PutEngine, NewFrames, Kept
  <2>2. f # 0
    BY <2>1, EngineFacts
  <2> QED
    BY <2>1, <2>2
<1>8. fs # {} => fs = {ident[s].frame} /\ ident[s] # NoEntry
  BY DEF DeadFrames
<1>9. \A v \in ActiveVectors(eng) : v \notin vs => eng.vectors[v].owner \notin fs
  <2> SUFFICES ASSUME NEW v \in ActiveVectors(eng), v \notin vs, eng.vectors[v].owner \in fs
               PROVE  FALSE
    OBVIOUS
  <2>1. ident[s].frame = eng.vectors[v].owner /\ ident[s] # NoEntry
    BY <1>8
  <2>2. v \in ident[s].vectors
    BY <2>1 DEF VectorRows, VectorAt
  <2> QED
    BY <1>1, <2>1, <2>2 DEF DeadVectors, Rejected
<1>10. \A v \in vs : eng.vectors[v].owner \in fs
  BY DEF DeadVectors, DeadFrames, IdentOwners, EntryIn
<1> HIDE DEF fs, vs
<1>11. VectorRows'
  <2> SUFFICES ASSUME NEW v \in ActiveVectors(eng') PROVE VectorAt(eng', ident', v)
    BY DEF VectorRows
  <2>1. CASE v \in DOMAIN eng.vectors
    <3>1. v \in ActiveVectors(eng) /\ v \notin vs
      BY <1>6, <2>1 DEF OldRows, ActiveVectors
    <3>2. VectorAt(eng, ident, v) /\ eng.vectors[v].owner \notin fs
      BY <1>9, <3>1 DEF VectorRows
    <3>3. eng.vectors[v].owner # f
      BY <1>6, <1>7, <2>1 DEF OldRows
    <3>4. \A r \in Slots : ident'[r].frame = eng.vectors[v].owner => ident'[r] = ident[r]
      BY <1>4, <1>5, <3>3
    <3> QED
      BY <1>6, <2>1, <3>2, <3>4, VectorAtKept
  <2>2. CASE v \in NewVectors
    <3>1. vec /\ eng'.vectors[v].owner = f /\ ~eng'.vectors[v].stored
      BY <1>2, <2>2 DEF PutEngine
    <3>2. eng'.frames[f].active /\ eng'.frames[f].vec /\ eng'.frames[f].kind = "record"
          /\ ~eng'.frames[f].stored
      BY <1>2, <3>1 DEF PutEngine, RecordOf
    <3>3. \A r \in Slots : ident'[r].frame = f => v \in ident'[r].vectors
      BY <1>4, <1>5, <1>7, <2>2, EntryFrame, NoEntryFacts
    <3> QED
      BY <3>1, <3>2, <3>3 DEF VectorAt
  <2> QED
    BY <2>1, <2>2 DEF NewVectors, ActiveVectors
<1>12. VectorThere'
  <2> SUFFICES ASSUME NEW g \in ActiveFrames(eng'), eng'.frames[g].vec
               PROVE  Has(eng', g) \/ Staged(g)'
    BY DEF VectorThere
  <2>1. CASE g \in DOMAIN eng.frames
    <3>1. g \in ActiveFrames(eng) /\ g \notin fs /\ eng.frames[g].vec
      BY <1>6, <2>1 DEF OldRows, ActiveFrames
    <3>2. CASE Has(eng, g)
      <4>1. \A v \in ActiveVectors(eng) : v \in vs => eng.vectors[v].owner # g
        BY <1>10, <3>1
      <4> QED
        BY <1>6, <3>2, <4>1, HasKept
    <3>3. CASE Staged(g)
      <4>1. PICK i \in DOMAIN writer.staged : writer.staged[i].owner = g
        BY <3>3 DEF Staged
      <4>2. \E j \in DOMAIN writer'.staged : writer'.staged[j] = writer.staged[i]
        BY <1>2, <3>1, <4>1 DEF PutWriter, fs
      <4> QED
        BY <1>2, <4>1, <4>2 DEF Staged, PutWriter
    <3> QED
      BY <3>1, <3>2, <3>3 DEF VectorThere
  <2>2. CASE g \in NewFrames
    <3>1. g = f /\ vec
      BY <1>2, <2>2 DEF PutEngine, IsDoc
    <3>2. CASE reg.space # 0
      <4>1. PICK v \in NewVectors : eng'.vectors[v].owner = f /\ eng'.vectors[v].active
        BY <1>2, <3>1, <3>2 DEF PutEngine
      <4> QED
        BY <3>1, <4>1 DEF Has, ActiveVectors, NewVectors
    <3>3. CASE reg.space = 0
      BY <1>2, <3>1, <3>3 DEF PutWriter, Staged
    <3> QED
      BY <3>2, <3>3
  <2> QED
    BY <2>1, <2>2 DEF NewFrames, ActiveFrames
<1>13. StagedPending'
  <2> SUFFICES ASSUME NEW g \in DOMAIN eng'.frames, Staged(g)' PROVE ~eng'.frames[g].stored
    BY DEF StagedPending
  <2>1. PICK j \in DOMAIN writer'.staged : writer'.staged[j].owner = g
    BY DEF Staged
  <2>2. CASE \E i \in DOMAIN writer.staged : writer'.staged[j] = writer.staged[i]
    <3>1. PICK i \in DOMAIN writer.staged : writer.staged[i].owner = g
      BY <2>1, <2>2
    <3>2. Staged(g)
      BY <1>2, <3>1 DEF Staged, PutWriter
    <3>3. g \in DOMAIN eng.frames
      BY <1>2, <3>1, CoreFacts, SoundMeans DEF PutWriter, SoundParts, StagedOK, ActiveFrames
    <3> QED
      BY <1>6, <3>2, <3>3 DEF StagedPending, OldRows
  <2>3. CASE writer'.staged[j] = [slot |-> s, owner |-> f, val |-> puts']
    <3>1. g = f
      BY <2>1, <2>3
    <3> QED
      BY <1>2, <3>1 DEF PutEngine
  <2> QED
    BY <1>2, <2>2, <2>3 DEF PutWriter
<1>14. ~Renaming'
  BY <1>2 DEF PutWriter, Renaming
<1> QED
  BY <1>11, <1>12, <1>13, <1>14

LEMMA VecsDelete ==
  ASSUME Sound, IdentOwners, DeleteStep, VectorRows, VectorThere, StagedPending
  PROVE  VectorRows' /\ VectorThere' /\ StagedPending' /\ ~Renaming'
<1>1. PICK s \in Slots : DeleteEngine(s)
  BY DEF DeleteStep
<1>2. ident' = [ident EXCEPT ![s] = NoEntry] /\ ident \in [Slots -> EntryType] /\ EngineOK(eng)
      /\ ident[s] # NoEntry /\ NewFrames = {} /\ NewVectors = {}
  BY <1>1, SoundMeans DEF DeleteEngine, SoundParts
<1>3. ident'[s] = NoEntry /\ \A r \in Slots : r # s => ident'[r] = ident[r]
  BY <1>2
<1> DEFINE fs == DeadFrames(ident[s])
           vs == DeadVectors(ident[s])
<1>4. OldRows(eng, eng', fs, vs)
  BY <1>1, <1>2, OldRowsFacts DEF DeleteEngine
<1>5. fs = {ident[s].frame}
  BY <1>2 DEF DeadFrames
<1>6. \A v \in ActiveVectors(eng) : v \notin vs => eng.vectors[v].owner \notin fs
  <2> SUFFICES ASSUME NEW v \in ActiveVectors(eng), v \notin vs, eng.vectors[v].owner \in fs
               PROVE  FALSE
    OBVIOUS
  <2>1. ident[s].frame = eng.vectors[v].owner
    BY <1>5
  <2>2. v \in ident[s].vectors
    BY <2>1 DEF VectorRows, VectorAt
  <2> QED
    BY <1>1, <1>2, <2>1, <2>2 DEF DeadVectors, Rejected, DeleteEngine
<1>7. \A v \in vs : eng.vectors[v].owner \in fs
  BY <1>2, <1>5 DEF DeadVectors, IdentOwners, EntryIn
<1>8. /\ writer.by = "app" /\ writer'.by = "app" /\ writer'.pc = "idle"
      /\ WithoutOK(writer.staged, ident[s].frame, writer'.staged)
  BY <1>1 DEF DeleteEngine, CoreType
<1> HIDE DEF fs, vs
<1>9. VectorRows'
  <2> SUFFICES ASSUME NEW v \in ActiveVectors(eng') PROVE VectorAt(eng', ident', v)
    BY DEF VectorRows
  <2>1. v \in DOMAIN eng.vectors
    BY <1>2 DEF NewVectors, ActiveVectors
  <2>2. v \in ActiveVectors(eng) /\ v \notin vs
    BY <1>4, <2>1 DEF OldRows, ActiveVectors
  <2>3. VectorAt(eng, ident, v) /\ eng.vectors[v].owner \notin fs
    BY <1>6, <2>2 DEF VectorRows
  <2>4. eng.vectors[v].owner # 0
    <3>1. eng.vectors[v].owner \in DOMAIN eng.frames
      BY <1>4, <2>1 DEF OldRows
    <3> QED
      BY <1>2, <3>1, EngineFacts
  <2>5. \A r \in Slots : ident'[r].frame = eng.vectors[v].owner => ident'[r] = ident[r]
    BY <1>3, <2>4, NoEntryFacts
  <2> QED
    BY <1>4, <2>1, <2>3, <2>5, VectorAtKept
<1>10. VectorThere'
  <2> SUFFICES ASSUME NEW g \in ActiveFrames(eng'), eng'.frames[g].vec
               PROVE  Has(eng', g) \/ Staged(g)'
    BY DEF VectorThere
  <2>1. g \in DOMAIN eng.frames
    BY <1>2 DEF NewFrames, ActiveFrames
  <2>2. g \in ActiveFrames(eng) /\ g \notin fs /\ eng.frames[g].vec
    BY <1>4, <2>1 DEF OldRows, ActiveFrames
  <2>3. CASE Has(eng, g)
    <3>1. \A v \in ActiveVectors(eng) : v \in vs => eng.vectors[v].owner # g
      BY <1>7, <2>2
    <3> QED
      BY <1>4, <2>3, <3>1, HasKept
  <2>4. CASE Staged(g)
    <3>1. PICK i \in DOMAIN writer.staged : writer.staged[i].owner = g
      BY <2>4 DEF Staged
    <3>2. \E j \in DOMAIN writer'.staged : writer'.staged[j] = writer.staged[i]
      BY <1>5, <1>8, <2>2, <3>1 DEF WithoutOK
    <3> QED
      BY <1>8, <3>1, <3>2 DEF Staged
  <2> QED
    BY <2>2, <2>3, <2>4 DEF VectorThere
<1>11. StagedPending'
  <2> SUFFICES ASSUME NEW g \in DOMAIN eng'.frames, Staged(g)' PROVE ~eng'.frames[g].stored
    BY DEF StagedPending
  <2>1. PICK j \in DOMAIN writer'.staged : writer'.staged[j].owner = g
    BY DEF Staged
  <2>2. PICK i \in DOMAIN writer.staged : writer'.staged[j] = writer.staged[i]
    BY <1>8 DEF WithoutOK
  <2>3. Staged(g) /\ g \in DOMAIN eng.frames
    BY <1>2, <1>8, <2>1, <2>2 DEF Staged, NewFrames
  <2> QED
    BY <1>4, <2>3 DEF StagedPending, OldRows
<1>12. ~Renaming'
  BY <1>8 DEF Renaming
<1> QED
  BY <1>9, <1>10, <1>11, <1>12

(* flush_deferred: a staged vector joins the active frame that is waiting. *)
LEMMA StagedFrame ==
  ASSUME Sound, NEW i \in DOMAIN writer.staged, writer \in CoreType
  PROVE  LET o == writer.staged[i].owner IN
         /\ o \in ActiveFrames(eng) /\ o # 0
         /\ eng.frames[o].vec /\ eng.frames[o].kind = "record" /\ Staged(o)
<1> DEFINE o == writer.staged[i].owner
           s == writer.staged[i].slot
<1>1. writer.by \in {"app", "bulk", "forget"} /\ StagedOK
  BY SoundMeans DEF SoundParts, CoreType
<1>2. /\ ident[s].frame = o /\ o \in ActiveFrames(eng) /\ eng.frames[o].vec
      /\ writer.by # "forget"
  BY <1>1 DEF StagedOK
<1>3. s \in Slots
  <2>1. writer.staged \in Seq(StagedType)
    BY DEF CoreType
  <2>2. writer.staged[i] \in StagedType
    BY <2>1
  <2> QED
    BY <2>2 DEF StagedType
<1>4. o \in DOMAIN eng.frames /\ o # 0
  BY <1>2, <1>3, EntryFrame DEF ActiveFrames
<1>5. eng.frames[o].kind = "record"
  BY <1>2, <1>3, <1>4, EntryFrame DEF RecordOf
<1>6. Staged(o)
  BY <1>1, <1>2 DEF Staged
<1> QED
  BY <1>2, <1>4, <1>5, <1>6

LEMMA VecsFlush ==
  ASSUME Sound, FlushStep, VectorRows, VectorThere, StagedPending
  PROVE  VectorRows' /\ VectorThere' /\ StagedPending' /\ ~Renaming'
<1>1. FlushEngine /\ FlushWriter /\ EngineOK(eng)
  BY SoundMeans DEF FlushStep, SoundParts
<1>2. OldRows(eng, eng', {}, {}) /\ eng'.frames = eng.frames
  BY <1>1, OldRowsFacts DEF FlushEngine
<1>3. writer \in CoreType /\ writer'.staged = <<>> /\ writer'.pc = "commit"
  BY <1>1 DEF FlushWriter
<1>4. VectorRows'
  <2> SUFFICES ASSUME NEW v \in ActiveVectors(eng') PROVE VectorAt(eng', ident', v)
    BY DEF VectorRows
  <2>1. CASE v \in DOMAIN eng.vectors
    <3>1. v \in ActiveVectors(eng)
      BY <1>2, <2>1 DEF OldRows, ActiveVectors
    <3>2. VectorAt(eng, ident, v)
      BY <3>1 DEF VectorRows
    <3>3. \A s \in Slots : ident'[s].frame = ident[s].frame /\ ident[s].vectors \subseteq ident'[s].vectors
      BY <1>1 DEF FlushEngine
    <3> QED
      BY <1>2, <2>1, <3>2, <3>3, VectorAtKept
  <2>2. CASE v \in NewVectors
    <3>1. PICK i \in DOMAIN writer.staged : eng'.vectors[v].owner = writer.staged[i].owner
      BY <1>1, <2>2 DEF FlushEngine
    <3>2. PICK o : o = writer.staged[i].owner
      OBVIOUS
    <3>3. /\ o \in ActiveFrames(eng) /\ o # 0
          /\ eng.frames[o].vec /\ eng.frames[o].kind = "record" /\ Staged(o)
      BY <1>3, <3>2, StagedFrame
    <3>4. ~eng.frames[o].stored /\ eng.frames[o].active
      BY <3>3 DEF StagedPending, ActiveFrames
    <3>5. \A r \in Slots : ident'[r].frame = o => v \in ident'[r].vectors
      <4> SUFFICES ASSUME NEW r \in Slots, ident'[r].frame = o PROVE v \in ident'[r].vectors
        OBVIOUS
      <4>1. ident[r].frame = o
        BY <1>1 DEF FlushEngine
      <4>2. ident[r] # NoEntry
        BY <3>3, <4>1, NoEntryFacts
      <4> QED
        BY <1>1, <2>2, <3>1, <3>2, <4>1, <4>2 DEF FlushEngine
    <3> QED
      BY <1>2, <3>1, <3>2, <3>3, <3>4, <3>5 DEF VectorAt
  <2> QED
    BY <2>1, <2>2 DEF NewVectors, ActiveVectors
<1>5. VectorThere'
  <2> SUFFICES ASSUME NEW g \in ActiveFrames(eng'), eng'.frames[g].vec
               PROVE  Has(eng', g)
    BY DEF VectorThere
  <2>1. g \in ActiveFrames(eng) /\ eng.frames[g].vec
    BY <1>2 DEF ActiveFrames
  <2>2. CASE Has(eng, g)
    BY <1>2, <2>2, HasKept
  <2>3. CASE Staged(g)
    <3>1. PICK i \in DOMAIN writer.staged : writer.staged[i].owner = g
      BY <2>3 DEF Staged
    <3>2. PICK v \in NewVectors : eng'.vectors[v].owner = g /\ eng'.vectors[v].active
      BY <1>1, <3>1 DEF FlushEngine
    <3> QED
      BY <3>2 DEF Has, ActiveVectors, NewVectors
  <2> QED
    BY <2>1, <2>2, <2>3 DEF VectorThere
<1>6. StagedPending'
  BY <1>3 DEF StagedPending, Staged
<1> QED
  BY <1>3, <1>4, <1>5, <1>6 DEF Renaming

(* forget_before: the members of a partition are its records and their     *)
(* vectors, when no record of it is pending.                               *)
LEMMA VecsForget ==
  ASSUME Sound, ForgetStep, VectorRows, VectorThere, "forget" \notin faults'
  PROVE  VectorRows' /\ VectorThere' /\ StagedPending' /\ ~Renaming'
<1>1. PICK gone : ForgetEngine(gone)
  BY DEF ForgetStep
<1>2. EngineOK(eng) /\ NewFrames = {} /\ NewVectors = {} /\ ident' = ident
      /\ writer = NoWriter /\ writer'.by = "forget"
  BY <1>1, SoundMeans DEF ForgetEngine, SoundParts, ForgetStep
<1> DEFINE fs == UNION {MemberFrames(eng, c) : c \in gone}
           vs == UNION {MemberVectors(eng, c) : c \in gone}
<1>3. OldRows(eng, eng', fs, vs)
  BY <1>1, <1>2, OldRowsFacts DEF ForgetEngine
<1>4. \A f \in ActiveFrames(eng) :
        eng.frames[f].kind = "record" /\ eng.frames[f].coll \in gone => eng.frames[f].stored
  BY <1>1 DEF ForgetEngine
<1>5. ASSUME NEW v \in ActiveVectors(eng)
      PROVE  v \in vs <=> eng.vectors[v].owner \in fs
  <2>1. PICK o : o = eng.vectors[v].owner
    OBVIOUS
  <2>2. /\ o \in DOMAIN eng.frames /\ o \in ActiveFrames(eng) /\ eng.frames[o].kind = "record"
        /\ eng.frames[o].stored => eng.vectors[v].stored
    BY <1>2, <1>3, <2>1 DEF VectorRows, VectorAt, OldRows, ActiveVectors, ActiveFrames
  <2>3. v \in vs => eng.frames[o].coll \in gone
    BY <2>1 DEF MemberVectors
  <2>4. o \in fs => eng.frames[o].coll \in gone
    BY DEF MemberFrames
  <2>5. ASSUME eng.frames[o].coll \in gone
        PROVE  v \in vs /\ o \in fs
    <3>1. eng.frames[o].stored /\ eng.vectors[v].stored
      BY <1>4, <2>2, <2>5
    <3>2. v \in MemberVectors(eng, eng.frames[o].coll)
      BY <2>1, <3>1 DEF MemberVectors, ActiveVectors
    <3>3. o \in MemberFrames(eng, eng.frames[o].coll)
      BY <2>2, <3>1 DEF MemberFrames
    <3> QED
      BY <2>5, <3>2, <3>3
  <2> QED
    BY <2>1, <2>3, <2>4, <2>5
<1> HIDE DEF fs, vs
<1>6. VectorRows'
  <2> SUFFICES ASSUME NEW v \in ActiveVectors(eng') PROVE VectorAt(eng', ident, v)
    BY <1>2 DEF VectorRows
  <2>1. v \in DOMAIN eng.vectors
    BY <1>2 DEF NewVectors, ActiveVectors
  <2>2. v \in ActiveVectors(eng) /\ v \notin vs
    BY <1>3, <2>1 DEF OldRows, ActiveVectors
  <2>3. VectorAt(eng, ident, v) /\ eng.vectors[v].owner \notin fs
    BY <1>5, <2>2 DEF VectorRows
  <2> QED
    BY <1>3, <2>1, <2>3, VectorAtKept
<1>7. VectorThere'
  <2> SUFFICES ASSUME NEW g \in ActiveFrames(eng'), eng'.frames[g].vec
               PROVE  Has(eng', g)
    BY DEF VectorThere
  <2>1. g \in DOMAIN eng.frames
    BY <1>2 DEF NewFrames, ActiveFrames
  <2>2. g \in ActiveFrames(eng) /\ g \notin fs /\ eng.frames[g].vec
    BY <1>3, <2>1 DEF OldRows, ActiveFrames
  <2>3. Has(eng, g)
    BY <1>2, <2>2, NoMarking DEF VectorThere
  <2>4. \A v \in ActiveVectors(eng) : v \in vs => eng.vectors[v].owner # g
    BY <1>5, <2>2
  <2> QED
    BY <1>3, <2>3, <2>4, HasKept
<1>8. StagedPending' /\ ~Renaming'
  BY <1>2 DEF StagedPending, Staged, Renaming
<1> QED
  BY <1>6, <1>7, <1>8

(* What a commit writes, and what a compaction makes of it.                *)
LEMMA FollowImage ==
  ASSUME Sound, VectorRows, VectorThere, \A f : ~Staged(f), NEW d, CommitImage(eng, d)
  PROVE  Follow(d)
<1>1. /\ DOMAIN d.frames = DOMAIN eng.frames /\ DOMAIN d.vectors = DOMAIN eng.vectors
      /\ \A f \in DOMAIN eng.frames :
           /\ d.frames[f].kind = eng.frames[f].kind
           /\ d.frames[f].vec = eng.frames[f].vec /\ d.frames[f].active = eng.frames[f].active
      /\ \A v \in DOMAIN eng.vectors :
           d.vectors[v].owner = eng.vectors[v].owner /\ d.vectors[v].active = eng.vectors[v].active
  BY DEF CommitImage
<1>2. SUFFICES ASSUME NEW f \in DOMAIN d.frames
               PROVE  /\ d.frames[f].active /\ d.frames[f].vec <=> Has(d, f)
                      /\ d.frames[f].active /\ d.frames[f].vec => d.frames[f].kind = "record"
  BY DEF Follow
<1>3. Has(d, f) <=> Has(eng, f)
  BY <1>1 DEF Has, ActiveVectors
<1>4. ASSUME Has(eng, f)
      PROVE  eng.frames[f].active /\ eng.frames[f].vec /\ eng.frames[f].kind = "record"
  BY <1>4 DEF Has, VectorRows, VectorAt
<1>5. eng.frames[f].active /\ eng.frames[f].vec => Has(eng, f)
  BY <1>1, <1>2 DEF VectorThere, ActiveFrames
<1> QED
  BY <1>1, <1>2, <1>3, <1>4, <1>5

LEMMA FollowTemp ==
  ASSUME NEW e, EngineOK(e), AllStored(e), Follow(e), NEW d, d = Image(Compacted(e))
  PROVE  Follow(d)
<1> DEFINE A == ActiveFrames(e)
           R(f) == Rank(A, f)
<1>1. /\ \A f \in A :
           /\ R(f) \in DOMAIN d.frames
           /\ d.frames[R(f)].kind = Survives(e, f)
           /\ d.frames[R(f)].vec = e.frames[f].vec
           /\ d.frames[R(f)].active
      /\ \A n \in DOMAIN d.frames : \E f \in A : n = R(f)
      /\ \A v \in ActiveVectors(e) : e.vectors[v].owner \in A =>
           \E m \in ActiveVectors(d) : d.vectors[m].owner = R(e.vectors[v].owner)
      /\ \A m \in DOMAIN d.vectors : \E v \in ActiveVectors(e) :
           /\ e.vectors[v].owner \in A
           /\ d.vectors[m].owner = R(e.vectors[v].owner)
  BY TempFacts
<1>1a. \A f, g \in A : R(f) = R(g) => f = g
  BY TempFacts
<1> HIDE DEF R
<1>2. SUFFICES ASSUME NEW n \in DOMAIN d.frames
               PROVE  /\ d.frames[n].active /\ d.frames[n].vec <=> Has(d, n)
                      /\ d.frames[n].active /\ d.frames[n].vec => d.frames[n].kind = "record"
  BY DEF Follow
<1>3. PICK f \in A : n = R(f)
  BY <1>1
<1>4. f \in DOMAIN e.frames /\ e.frames[f].active /\ e.frames[f].stored
  BY <1>3 DEF ActiveFrames, AllStored
<1>5. /\ e.frames[f].vec <=> Has(e, f)
      /\ e.frames[f].vec => e.frames[f].kind = "record"
  BY <1>4 DEF Follow
<1>6. ASSUME Has(e, f) PROVE Has(d, n)
  <2>1. PICK v \in ActiveVectors(e) : e.vectors[v].owner = f
    BY <1>6 DEF Has
  <2> QED
    BY <1>1, <1>3, <2>1 DEF Has
<1>7. ASSUME Has(d, n) PROVE Has(e, f)
  <2>1. PICK m \in ActiveVectors(d) : d.vectors[m].owner = n
    BY <1>7 DEF Has
  <2>2. m \in DOMAIN d.vectors
    BY <2>1 DEF ActiveVectors
  <2>3. PICK v \in ActiveVectors(e) : e.vectors[v].owner \in A /\ d.vectors[m].owner = R(e.vectors[v].owner)
    BY <1>1, <2>2
  <2>4. PICK g \in A : g = e.vectors[v].owner
    BY <2>3
  <2>5. R(g) = R(f)
    BY <1>3, <2>1, <2>3, <2>4
  <2>6. g = f
    BY <1>1a, <1>3, <2>4, <2>5
  <2> QED
    BY <2>4, <2>6 DEF Has
<1> QED
  BY <1>1, <1>3, <1>4, <1>5, <1>6, <1>7 DEF Survives

(* The engine becomes what is on disk.                                     *)
LEMMA VecsLoaded ==
  ASSUME NEW d, EngineOK(d), AllStored(d), Follow(d), eng' = d,
         \A v \in ActiveVectors(d), s \in Slots :
           ident'[s].frame = d.vectors[v].owner => v \in ident'[s].vectors
  PROVE  VectorRows' /\ VectorThere'
<1>1. VectorRows'
  <2> SUFFICES ASSUME NEW v \in ActiveVectors(d) PROVE VectorAt(d, ident', v)
    BY DEF VectorRows
  <2>1. PICK o : o = d.vectors[v].owner
    OBVIOUS
  <2>2. o \in DOMAIN d.frames /\ d.vectors[v].stored
    BY <2>1 DEF EngineOK, AllStored, ActiveVectors
  <2>3. Has(d, o)
    BY <2>1 DEF Has
  <2>4. d.frames[o].active /\ d.frames[o].vec /\ d.frames[o].kind = "record"
    BY <2>2, <2>3 DEF Follow
  <2> QED
    BY <2>1, <2>2, <2>4 DEF VectorAt
<1>2. VectorThere'
  BY DEF VectorThere, Follow, ActiveFrames
<1> QED
  BY <1>1, <1>2

LEMMA VecsLoad ==
  ASSUME Sound, LoadStep, Follow(disk)
  PROVE  VectorRows' /\ VectorThere' /\ StagedPending' /\ ~Renaming'
<1>1. EngineOK(disk) /\ AllStored(disk) /\ eng' = disk /\ ident' = RebuiltIdentity(disk)
      /\ writer' = NoWriter
  BY SoundMeans DEF SoundParts, LoadStep
<1>2. ASSUME NEW v \in ActiveVectors(disk), NEW s \in Slots, ident'[s].frame = disk.vectors[v].owner
      PROVE  v \in ident'[s].vectors
  <2>1. disk.vectors[v].owner # 0
    <3>1. disk.vectors[v].owner \in DOMAIN disk.frames
      BY <1>1 DEF EngineOK, ActiveVectors
    <3> QED
      BY <1>1, <3>1, EngineFacts
  <2>2. KeyedFrames(disk, s) # {}
    BY <1>1, <1>2, <2>1, RebuiltFacts, NoEntryFacts
  <2>3. /\ ident'[s].frame \in KeyedFrames(disk, s)
        /\ ident'[s].vectors = {w \in ActiveVectors(disk) : disk.vectors[w].owner \in KeyedFrames(disk, s)}
    BY <1>1, <2>2, RebuiltFacts
  <2> QED
    BY <1>2, <2>3
<1>3. VectorRows' /\ VectorThere'
  BY <1>1, <1>2, VecsLoaded
<1>4. StagedPending' /\ ~Renaming'
  BY <1>1 DEF StagedPending, Staged, Renaming, NoWriter
<1> QED
  BY <1>3, <1>4

LEMMA VecsCommit ==
  ASSUME Sound, CommitStep, VectorRows, VectorThere
  PROVE  VectorRows' /\ VectorThere' /\ StagedPending' /\ ~Renaming' /\ Follow(disk')
<1>1. /\ CommitImage(eng, disk') /\ eng' = disk' /\ ident' = ident
      /\ \A f : ~Staged(f) /\ ~Staged(f)'
      /\ writer'.pc = "mark"
  BY DEF CommitStep, WrittenOut, Committer
<1>2. EngineOK(disk') /\ AllStored(disk')
  BY <1>1 DEF CommitImage
<1>3. Follow(disk')
  BY <1>1, FollowImage
<1>4. ASSUME NEW v \in ActiveVectors(disk'), NEW s \in Slots, ident'[s].frame = disk'.vectors[v].owner
      PROVE  v \in ident'[s].vectors
  <2>1. v \in ActiveVectors(eng) /\ eng.vectors[v].owner = disk'.vectors[v].owner
    BY <1>1 DEF CommitImage, ActiveVectors
  <2> QED
    BY <1>1, <1>4, <2>1 DEF VectorRows, VectorAt
<1>5. VectorRows' /\ VectorThere'
  BY <1>1, <1>2, <1>3, <1>4, VecsLoaded
<1> QED
  BY <1>1, <1>3, <1>5 DEF StagedPending, Renaming

(* The catalog only grows by rows without a vector, or not at all.         *)
LEMMA VecsKept ==
  ASSUME Sound, VectorRows, VectorThere, StagedPending, OldRows(eng, eng', {}, {}), NewVectors = {},
         \A g \in NewFrames : ~eng'.frames[g].vec /\ ~Staged(g),
         \A f : Staged(f)' <=> Staged(f),
         \A s \in Slots : /\ ident'[s].frame = ident[s].frame \/ ident'[s] = NoEntry
                          /\ ident'[s] = NoEntry \/ ident'[s].vectors = ident[s].vectors
  PROVE  VectorRows' /\ VectorThere' /\ StagedPending'
<1>1. VectorRows'
  <2> SUFFICES ASSUME NEW v \in ActiveVectors(eng') PROVE VectorAt(eng', ident', v)
    BY DEF VectorRows
  <2>1. v \in DOMAIN eng.vectors
    BY DEF NewVectors, ActiveVectors
  <2>2. v \in ActiveVectors(eng)
    BY <2>1 DEF OldRows, ActiveVectors
  <2>3. eng.vectors[v].owner # 0
    <3>1. eng.vectors[v].owner \in DOMAIN eng.frames
      BY <2>1 DEF OldRows
    <3> QED
      BY <3>1, SoundMeans, EngineFacts DEF SoundParts
  <2>4. VectorAt(eng, ident, v)
    BY <2>2 DEF VectorRows
  <2>5. \A s \in Slots : ident'[s].frame = eng.vectors[v].owner =>
          ident[s].frame = eng.vectors[v].owner /\ ident[s].vectors \subseteq ident'[s].vectors
    BY <2>3, NoEntryFacts
  <2> QED
    BY <2>1, <2>4, <2>5, VectorAtKept
<1>2. VectorThere'
  <2> SUFFICES ASSUME NEW g \in ActiveFrames(eng'), eng'.frames[g].vec
               PROVE  Has(eng', g) \/ Staged(g)
    BY DEF VectorThere
  <2>1. g \in DOMAIN eng.frames
    BY DEF NewFrames, ActiveFrames
  <2>2. g \in ActiveFrames(eng) /\ eng.frames[g].vec
    BY <2>1 DEF OldRows, ActiveFrames
  <2> QED
    BY <2>2, HasKept DEF VectorThere
<1>3. StagedPending'
  BY DEF StagedPending, OldRows, NewFrames
<1> QED
  BY <1>1, <1>2, <1>3

LEMMA VecsStep ==
  ASSUME Sound, Unique, Owners, Vecs, AnyStep
  PROVE  Vecs'
<1> DEFINE Goal == /\ VectorRows' /\ VectorThere' /\ StagedPending' /\ Follow(disk')
                   /\ Renaming' => Follow(writer'.temp)
<1> SUFFICES ASSUME faults' = {}
             PROVE  Goal
  BY DEF Vecs, VectorRows, VectorAt, VectorThere, StagedPending
<1>1. faults = {}
  BY DEF AnyStep
<1>2. /\ VectorRows /\ VectorThere /\ StagedPending /\ Follow(disk)
      /\ Renaming => Follow(writer.temp)
  BY <1>1, VecsMeans
<1>3. EngineOK(eng) /\ EngineOK(disk) /\ AllStored(disk) /\ IdentOwners /\ StagedOK
  BY <1>1, SoundMeans DEF SoundParts, Owners, IdentOwners
<1>4. OldRows(eng, eng, {}, {})
  BY <1>3, KeptRefl, OldRowsFacts
<1>5. ASSUME eng' = eng, \A f : Staged(f)' <=> Staged(f),
             \A s \in Slots : /\ ident'[s].frame = ident[s].frame \/ ident'[s] = NoEntry
                              /\ ident'[s] = NoEntry \/ ident'[s].vectors = ident[s].vectors
      PROVE  VectorRows' /\ VectorThere' /\ StagedPending'
  <2>1. NewFrames = {} /\ NewVectors = {} /\ OldRows(eng, eng', {}, {})
    BY <1>4, <1>5 DEF NewFrames, NewVectors
  <2> QED
    BY <1>2, <1>5, <2>1, VecsKept
<1>6. ASSUME VectorRows', VectorThere', StagedPending', ~Renaming', disk' = disk
      PROVE  Goal
  BY <1>2, <1>6
<1> HIDE DEF Goal
<1>7. CASE Quiet
  <2>1. VectorRows' /\ VectorThere' /\ StagedPending'
    BY <1>5, <1>7 DEF Quiet
  <2>2. Renaming' => Renaming /\ writer' = writer
    BY <1>7 DEF Quiet, Renaming
  <2> QED
    BY <1>2, <1>7, <2>1, <2>2 DEF Goal, Quiet
<1>8. CASE PutStep
  BY <1>2, <1>3, <1>6, <1>8, VecsPut DEF PutStep
<1>9. CASE FailStep \/ FlushErrStep
  BY <1>9 DEF FailStep, FlushErrStep
<1>10. CASE DeclareStep
  <2>1. PICK c : DeclareEngine(c)
    BY <1>10 DEF DeclareStep
  <2>2. disk' = disk /\ ident' = ident /\ writer' = writer
    BY <1>10 DEF DeclareStep
  <2>3. OldRows(eng, eng', {}, {}) /\ NewVectors = {} /\ \A g \in NewFrames : ~eng'.frames[g].vec
    BY <1>3, <2>1, OldRowsFacts DEF DeclareEngine, NewVectors, IsDoc
  <2>4. \A g \in NewFrames : ~Staged(g)
    BY <1>3 DEF StagedOK, Staged, ActiveFrames, NewFrames
  <2>5. \A f : Staged(f)' <=> Staged(f)
    BY <2>2 DEF Staged
  <2>6. VectorRows' /\ VectorThere' /\ StagedPending'
    BY <1>2, <2>2, <2>3, <2>4, <2>5, VecsKept
  <2> QED
    BY <1>2, <2>2, <2>6 DEF Goal, Renaming
<1>11. CASE DeleteStep
  BY <1>2, <1>3, <1>6, <1>11, VecsDelete DEF DeleteStep
<1>12. CASE FlushStep
  BY <1>2, <1>6, <1>12, VecsFlush DEF FlushStep
<1>13. CASE CommitStep
  BY <1>2, <1>13, VecsCommit DEF Goal
<1>14. CASE CommitErrStep
  <2>1. /\ eng' = eng /\ ident' = ident /\ writer'.by \in {"none", "app", "bulk"}
        /\ \A f : ~Staged(f) /\ ~Staged(f)'
        /\ disk' = disk \/ CommitImage(eng, disk')
    BY <1>14 DEF CommitErrStep, Committer, WrittenOut
  <2>2. VectorRows' /\ VectorThere' /\ StagedPending'
    BY <1>5, <2>1
  <2>3. Follow(disk')
    BY <1>2, <2>1, FollowImage
  <2> QED
    BY <2>1, <2>2, <2>3 DEF Goal, Renaming
<1>15. CASE MarkStep
  <2>1. /\ eng' = eng /\ disk' = disk /\ writer'.by \in {"none", "app", "bulk"}
        /\ \A f : ~Staged(f) /\ ~Staged(f)'
        /\ \A s \in Slots : /\ ident'[s].frame = ident[s].frame \/ ident'[s] = NoEntry
                            /\ ident'[s] = NoEntry \/ ident'[s].vectors = ident[s].vectors
    BY <1>15 DEF MarkStep, Committer
  <2>2. VectorRows' /\ VectorThere' /\ StagedPending'
    BY <1>5, <2>1
  <2> QED
    BY <1>6, <2>1, <2>2 DEF Renaming
<1>16. CASE ForgetStep
  BY <1>2, <1>6, <1>16, VecsForget DEF ForgetStep
<1>17. CASE BuildStep
  <2>1. /\ eng' = eng /\ disk' = disk /\ eng = disk /\ ident' = ident
        /\ writer = NoWriter /\ writer'.by = "compact" /\ writer'.temp = Image(Compacted(disk))
    BY <1>17 DEF BuildStep
  <2>2. \A f : ~Staged(f) /\ ~Staged(f)'
    BY <2>1, NoMarking DEF Staged
  <2>3. VectorRows' /\ VectorThere' /\ StagedPending'
    BY <1>5, <2>1, <2>2
  <2>4. Follow(writer'.temp)
    BY <1>2, <1>3, <2>1, FollowTemp
  <2> QED
    BY <1>2, <2>1, <2>3, <2>4 DEF Goal
<1>18. CASE RenameStep
  <2>1. /\ eng' = eng /\ disk' = writer.temp /\ ident' = ident
        /\ Renaming /\ writer'.by = "compact" /\ writer'.pc = "publish"
    BY <1>18 DEF RenameStep
  <2>2. \A f : ~Staged(f) /\ ~Staged(f)'
    BY <2>1 DEF Staged, Renaming
  <2>3. VectorRows' /\ VectorThere' /\ StagedPending'
    BY <1>5, <2>1, <2>2
  <2> QED
    BY <1>2, <2>1, <2>3 DEF Goal, Renaming
<1>19. CASE LoadStep
  BY <1>2, <1>6, <1>19, VecsLoad DEF LoadStep
<1> QED
  BY <1>7, <1>8, <1>9, <1>10, <1>11, <1>12, <1>13, <1>14, <1>15, <1>16, <1>17, <1>18, <1>19
     DEF AnyStep

LEMMA SpecVecs == Spec => [](Sound /\ Live /\ Unique /\ Owners /\ Vecs)
<1>1. Init => Sound /\ Live /\ Unique /\ Owners /\ Vecs
  BY SoundInit, LiveInit, UniqueInit, OwnersInit, VecsInit
<1>2. Sound /\ Live /\ Unique /\ Owners /\ Vecs /\ [Next]_vars
        => (Sound /\ Live /\ Unique /\ Owners /\ Vecs)'
  BY SoundStep, StepCases, LiveStep, UniqueStep, OwnersStep, VecsStep
<1> QED
  BY <1>1, <1>2, PTL DEF Spec

(* On disk a record has exactly the vector it was put with: deferred       *)
(* calibration gives each vector to the frame that waits for it, and       *)
(* put, delete and forget_before take the vectors of a version along.      *)
THEOREM VectorsGoWithRecords == Spec => []VectorsFollow
<1>1. Sound /\ Vecs => VectorsFollow
  <2> SUFFICES ASSUME Sound, Vecs, faults = {}, NEW f \in DOMAIN disk.frames
               PROVE  {disk.vectors[v].val :
                         v \in {w \in ActiveVectors(disk) : disk.vectors[w].owner = f}}
                        = IF disk.frames[f].active /\ disk.frames[f].vec
                          THEN {disk.frames[f].val} ELSE {}
    BY DEF VectorsFollow
  <2> DEFINE own == {w \in ActiveVectors(disk) : disk.vectors[w].owner = f}
  <2>1. EngineOK(disk) /\ Follow(disk)
    BY SoundMeans, VecsMeans DEF SoundParts
  <2>2. \A v \in own : disk.vectors[v].val = disk.frames[f].val
    BY <2>1 DEF EngineOK, ActiveVectors
  <2>3. own # {} <=> disk.frames[f].active /\ disk.frames[f].vec
    BY <2>1 DEF Follow, Has
  <2> HIDE DEF own
  <2>4. {disk.vectors[v].val : v \in own}
          = IF disk.frames[f].active /\ disk.frames[f].vec THEN {disk.frames[f].val} ELSE {}
    <3>1. CASE own = {}
      BY <2>3, <3>1
    <3>2. CASE own # {}
      BY <2>2, <2>3, <3>2
    <3> QED
      BY <3>1, <3>2
  <2> QED
    BY <2>4 DEF own
<1> QED
  BY <1>1, SpecVecs, PTL

(***************************************************************************)
(* Docs: the schema documents keep up with the registry.                   *)
(***************************************************************************)
LEMMA DocsKept ==
  ASSUME NEW e, EngineOK(e), NEW d, NEW fs, NEW vs, Kept(e, d, fs, vs),
         \A f \in fs : f \in DOMAIN e.frames => e.frames[f].kind = "record",
         NEW c, c \in e.colls, DocsOf(e, c) # {}
  PROVE  c \in d.colls /\ DocsOf(d, c) # {}
<1>1. PICK f \in ActiveFrames(e) : e.frames[f].kind = "doc" /\ e.frames[f].coll = c
  BY DEF DocsOf
<1>2. f \in DOMAIN e.frames /\ e.frames[f].active /\ f \notin fs
  BY <1>1 DEF ActiveFrames
<1>3. f \in DOMAIN d.frames /\ d.frames[f].kind = "doc" /\ d.frames[f].coll = c /\ d.frames[f].active
  BY <1>1, <1>2, KeptFields
<1>4. f \in DocsOf(d, c)
  BY <1>3 DEF DocsOf, ActiveFrames
<1> QED
  BY <1>4 DEF Kept

LEMMA DocsInit == Init => Docs
<1> SUFFICES ASSUME Init PROVE Docs
  OBVIOUS
<1>1. reg = RebuiltSchema(EmptyEngine) /\ writer = NoWriter
  BY DEF Init
<1>2. reg.shapes = {}
  BY <1>1 DEF RebuiltSchema, EmptyEngine
<1> QED
  BY <1>1, <1>2, NoMarking DEF Docs, ShapeDocs, Copies

(* Documents are never tombstoned, and a new shape brings its document.    *)
LEMMA ShapesKept ==
  ASSUME Sound, ShapeDocs, NEW fs, NEW vs, Kept(eng, eng', fs, vs),
         \A f \in fs : f \in DOMAIN eng.frames => eng.frames[f].kind = "record",
         \A c \in reg'.shapes : c \in reg.shapes \/ (c \in eng'.colls /\ DocsOf(eng', c) # {})
  PROVE  ShapeDocs'
<1>1. EngineOK(eng)
  BY SoundMeans DEF SoundParts
<1>2. \A c \in reg.shapes : c \in eng'.colls /\ DocsOf(eng', c) # {}
  BY <1>1, DocsKept DEF ShapeDocs
<1> QED
  BY <1>2 DEF ShapeDocs

LEMMA BoundShapes ==
  ASSUME Sound, NEW c \in Colls, reg' = Bound(reg, c)
  PROVE  reg'.shapes = reg.shapes \cup {c}
  BY SoundMeans, BoundFacts DEF SoundParts, Types

LEMMA ShapesPut ==
  ASSUME Sound, ShapeDocs, PutStep \/ FailStep \/ DeclareStep \/ DeleteStep \/ ForgetStep
  PROVE  ShapeDocs'
<1>1. Entries /\ EngineOK(eng)
  BY SoundMeans DEF SoundParts
<1>2. ASSUME NEW s \in Slots
      PROVE  \A f \in DeadFrames(ident[s]) : f \in DOMAIN eng.frames => eng.frames[f].kind = "record"
  BY <1>1 DEF DeadFrames, Entries, RecordOf
<1>3. \A s \in Slots : s[1] \in Colls
  BY DEF Slots
<1>4. CASE PutStep
  <2>1. PICK s \in Slots, vec \in BOOLEAN : \E f : PutEngine(s, vec, f, NewVectors)
    BY <1>4 DEF PutStep
  <2>2. /\ Kept(eng, eng', DeadFrames(ident[s]), DeadVectors(ident[s]))
        /\ s[1] \notin reg.shapes => s[1] \in eng'.colls /\ DocsOf(eng', s[1]) # {}
        /\ reg' = Bound(reg, s[1])
    BY <2>1 DEF PutEngine
  <2>3. reg'.shapes = reg.shapes \cup {s[1]}
    BY <1>3, <2>2, BoundShapes
  <2> QED
    BY <1>2, <2>2, <2>3, ShapesKept
<1>5. CASE FailStep
  <2>1. PICK s \in Slots : \E f : FailEngine(s, f)
    BY <1>5 DEF FailStep
  <2>2. /\ Kept(eng, eng', {}, {})
        /\ s[1] \notin reg.shapes => s[1] \in eng'.colls /\ DocsOf(eng', s[1]) # {}
        /\ reg' = Bound(reg, s[1])
    BY <2>1 DEF FailEngine
  <2>3. reg'.shapes = reg.shapes \cup {s[1]}
    BY <1>3, <2>2, BoundShapes
  <2> QED
    BY <2>2, <2>3, ShapesKept
<1>6. CASE DeclareStep
  <2>1. PICK c \in Colls : DeclareEngine(c)
    BY <1>6 DEF DeclareStep
  <2>2. /\ Kept(eng, eng', {}, {}) /\ c \in eng'.colls /\ DocsOf(eng', c) # {}
        /\ reg'.shapes = reg.shapes \cup {c}
    BY <2>1, BoundShapes DEF DeclareEngine
  <2> QED
    BY <2>2, ShapesKept
<1>7. CASE DeleteStep
  <2>1. PICK s \in Slots : DeleteEngine(s)
    BY <1>7 DEF DeleteStep
  <2>2. Kept(eng, eng', DeadFrames(ident[s]), DeadVectors(ident[s])) /\ reg' = reg
    BY <1>7, <2>1 DEF DeleteEngine, DeleteStep
  <2> QED
    BY <1>2, <2>2, ShapesKept
<1>8. CASE ForgetStep
  <2>1. PICK gone : ForgetEngine(gone)
    BY <1>8 DEF ForgetStep
  <2> DEFINE fs == UNION {MemberFrames(eng, c) : c \in gone}
             vs == UNION {MemberVectors(eng, c) : c \in gone}
  <2>2. Kept(eng, eng', fs, vs) /\ reg' = reg
    BY <1>8, <2>1 DEF ForgetEngine, ForgetStep
  <2>3. \A f \in fs : eng.frames[f].kind = "record"
    BY DEF MemberFrames
  <2> HIDE DEF fs, vs
  <2> QED
    BY <2>2, <2>3, ShapesKept
<1> QED
  BY <1>4, <1>5, <1>6, <1>7, <1>8

(* A commit and a reload keep the documents of the catalog.                *)
LEMMA ShapesCommit ==
  ASSUME ShapeDocs, NEW d, CommitImage(eng, d), eng' = d, reg' = reg
  PROVE  ShapeDocs'
<1>1. \A c : DocsOf(d, c) = DocsOf(eng, c)
  BY DEF CommitImage, DocsOf, ActiveFrames
<1>2. d.colls = eng.colls
  BY DEF CommitImage
<1> QED
  BY <1>1, <1>2 DEF ShapeDocs

LEMMA ShapesLoad ==
  ASSUME LoadStep
  PROVE  ShapeDocs'
<1>1. eng' = disk /\ reg' = RebuiltSchema(disk)
  BY DEF LoadStep
<1>2. reg'.shapes = {c \in disk.colls : FindDoc(disk, c)}
  BY <1>1 DEF RebuiltSchema
<1> QED
  BY <1>1, <1>2 DEF ShapeDocs, FindDoc

LEMMA Longer ==
  ASSUME NEW e, EngineOK(e), NEW d, EngineOK(d), DOMAIN e.frames \subseteq DOMAIN d.frames
  PROVE  /\ Len(e.frames) <= Len(d.frames)
         /\ DOMAIN e.frames # DOMAIN d.frames => Len(e.frames) < Len(d.frames)
<1>1. /\ Len(e.frames) \in Nat /\ DOMAIN e.frames = 1..Len(e.frames)
      /\ Len(d.frames) \in Nat /\ DOMAIN d.frames = 1..Len(d.frames)
  BY EngineFacts
<1>2. PICK m \in Nat, n \in Nat : m = Len(e.frames) /\ n = Len(d.frames)
  BY <1>1
<1>3. 1..m \subseteq 1..n
  BY <1>1, <1>2
<1>4. m <= n
  <2>1. CASE m = 0
    BY <2>1
  <2>2. CASE m # 0
    <3>1. m \in 1..m
      BY <2>2
    <3>2. m \in 1..n
      BY <1>3, <3>1
    <3> QED
      BY <3>2
  <2> QED
    BY <2>1, <2>2
<1> QED
  BY <1>1, <1>2, <1>4

(* The compacted file has the documents that are on disk.                  *)
LEMMA TempDocs ==
  ASSUME NEW e, EngineOK(e), NEW d, d = Image(Compacted(e)), NEW c, FindDoc(e, c)
  PROVE  FindDoc(d, c)
<1>1. PICK f \in ActiveFrames(e) :
        e.frames[f].kind = "doc" /\ e.frames[f].coll = c /\ e.frames[f].stored
  BY DEF FindDoc, DocsOf
<1>2. PICK n : n = Rank(ActiveFrames(e), f)
  OBVIOUS
<1>3. /\ n \in DOMAIN d.frames /\ d.frames[n].kind = Survives(e, f)
      /\ d.frames[n].coll = e.frames[f].coll /\ d.frames[n].active /\ AllStored(d)
  BY <1>2, TempFacts
<1>4. d.frames[n].kind = "doc" /\ d.frames[n].coll = c /\ d.frames[n].stored
  BY <1>1, <1>3 DEF Survives, AllStored
<1> QED
  BY <1>3, <1>4 DEF FindDoc, DocsOf, ActiveFrames

(* A collection declared while a compaction runs changes the catalog, or   *)
(* finds its document among those that are copied.                         *)
LEMMA CopiesDeclare ==
  ASSUME Sound, Copies, DeclareStep
  PROVE  Copies'
<1>1. PICK c \in Colls \ reg.shapes : DeclareEngine(c) /\ eng' = Declared(eng, c, reg)
  BY DEF DeclareStep
<1>2. UNCHANGED <<disk, writer, faults>>
  BY DEF DeclareStep
<1>3. EngineOK(eng) /\ EngineOK(eng') /\ DOMAIN eng.frames \subseteq DOMAIN eng'.frames
      /\ eng.colls \subseteq eng'.colls
  BY <1>1, SoundMeans DEF SoundParts, DeclareEngine, Kept
<1>4. SUFFICES ASSUME writer.by = "compact"
               PROVE  /\ Len(writer.source.frames) <= Len(eng'.frames)
                      /\ writer.source.colls \subseteq eng'.colls
                      /\ eng' = writer.source /\ "compact" \notin faults =>
                           \A k \in reg'.shapes : k \in Target.colls /\ FindDoc(Target, k)
  BY <1>2 DEF Copies, Target
<1>5. EngineOK(writer.source)
  BY <1>4, SoundMeans, WriterKinds DEF SoundParts
<1>6. /\ Len(writer.source.frames) <= Len(eng.frames) /\ writer.source.colls \subseteq eng.colls
      /\ Target.colls = writer.source.colls
      /\ \A k \in Colls : FindDoc(writer.source, k) => FindDoc(Target, k)
      /\ eng = writer.source /\ "compact" \notin faults =>
           \A k \in reg.shapes : k \in Target.colls /\ FindDoc(Target, k)
  BY <1>4 DEF Copies
<1>7. /\ Len(writer.source.frames) \in Nat /\ Len(eng.frames) \in Nat /\ Len(eng'.frames) \in Nat
  BY <1>3, <1>5, EngineFacts
<1>8. Len(writer.source.frames) <= Len(eng'.frames) /\ writer.source.colls \subseteq eng'.colls
  <2>1. Len(eng.frames) <= Len(eng'.frames)
    BY <1>3, Longer
  <2> QED
    BY <1>3, <1>6, <1>7, <2>1
<1>9. ASSUME eng' = writer.source, "compact" \notin faults, NEW k \in reg'.shapes
      PROVE  k \in Target.colls /\ FindDoc(Target, k)
  <2>1. Len(eng'.frames) <= Len(eng.frames) /\ eng'.colls \subseteq eng.colls
    BY <1>6, <1>9
  <2>2. PICK a, b, x, y : eng = [frames |-> a, vectors |-> b, spaces |-> x, colls |-> y]
    BY <1>3, EngineFacts
  <2>3. eng.frames = a /\ eng.colls = y
    BY <2>2
  <2> DEFINE doc == DocFrame(eng, c)
             fr == IF FindDoc(eng, c) THEN a ELSE Append(a, doc)
  <2>4. eng' = [eng EXCEPT !.colls = eng.colls \cup {c}, !.frames = fr]
    BY <1>1, <2>3 DEF Declared, DocFrame
  <2> HIDE DEF fr
  <2>5. eng' = [frames |-> fr, vectors |-> b, spaces |-> x, colls |-> y \cup {c}]
    BY <2>2, <2>3, <2>4
  <2>6. eng'.frames = fr /\ eng'.colls = y \cup {c}
    BY <2>5
  <2>7. FindDoc(eng, c)
    <3>1. SUFFICES ASSUME ~FindDoc(eng, c) PROVE FALSE
      OBVIOUS
    <3>2. fr = Append(a, doc)
      BY <3>1 DEF fr
    <3> HIDE DEF doc
    <3>3. a \in Seq(FrameType) /\ Len(a) \in Nat
      BY <1>3, <2>3, EngineFacts
    <3>4. Len(fr) = Len(a) + 1
      BY <3>2, <3>3
    <3> QED
      BY <2>1, <2>3, <2>6, <3>3, <3>4
  <2>8. fr = a /\ y \cup {c} = y
    BY <2>1, <2>3, <2>6, <2>7 DEF fr
  <2>9. eng' = eng /\ c \in eng.colls
    BY <2>2, <2>3, <2>5, <2>8
  <2>10. c \in Target.colls /\ FindDoc(Target, c)
    BY <1>6, <1>9, <2>7, <2>9
  <2>11. reg'.shapes = reg.shapes \cup {c}
    BY <1>1, BoundShapes DEF DeclareEngine
  <2> QED
    BY <1>6, <1>9, <2>9, <2>10, <2>11
<1> QED
  BY <1>8, <1>9

LEMMA CopiesFail ==
  ASSUME Sound, Copies, FailStep
  PROVE  Copies'
<1>1. PICK s \in Slots : \E f : FailEngine(s, f)
  BY DEF FailStep
<1>2. PICK f : f \in NewFrames /\ Kept(eng, eng', {}, {})
  BY <1>1 DEF FailEngine
<1>3. UNCHANGED <<disk, writer>>
  BY DEF FailStep
<1>4. EngineOK(eng) /\ EngineOK(eng') /\ DOMAIN eng.frames \subseteq DOMAIN eng'.frames
      /\ DOMAIN eng.frames # DOMAIN eng'.frames /\ eng.colls \subseteq eng'.colls
  BY <1>2, SoundMeans DEF SoundParts, Kept, NewFrames
<1>5. Len(eng.frames) < Len(eng'.frames) /\ Len(eng.frames) \in Nat /\ Len(eng'.frames) \in Nat
  BY <1>4, Longer, EngineFacts
<1>6. SUFFICES ASSUME writer.by = "compact"
               PROVE  /\ Len(writer.source.frames) <= Len(eng'.frames)
                      /\ writer.source.colls \subseteq eng'.colls
                      /\ eng' # writer.source
  BY <1>3 DEF Copies, Target
<1>7. Len(writer.source.frames) <= Len(eng.frames) /\ writer.source.colls \subseteq eng.colls
  BY <1>6 DEF Copies
<1>8. EngineOK(writer.source)
  BY <1>6, SoundMeans, WriterKinds DEF SoundParts
<1>9. Len(writer.source.frames) \in Nat
  BY <1>8, EngineFacts
<1>10. Len(writer.source.frames) < Len(eng'.frames)
  BY <1>5, <1>7, <1>9
<1> QED
  BY <1>4, <1>5, <1>7, <1>9, <1>10

LEMMA CopiesBuild ==
  ASSUME Sound, ShapeDocs, BuildStep
  PROVE  Copies'
<1>1. /\ UNCHANGED <<disk, eng, reg>> /\ writer'.by = "compact" /\ writer'.pc = "rename"
      /\ writer'.source = eng /\ writer'.temp = Image(Compacted(eng))
      /\ "compact" \notin faults' => eng = disk
  BY DEF BuildStep
<1>2. EngineOK(eng) /\ AllStored(disk)
  BY SoundMeans DEF SoundParts
<1>3. PICK d : d = Image(Compacted(eng))
  OBVIOUS
<1>4. d.colls = eng.colls
  BY <1>2, <1>3, TempFacts
<1>5. \A c : FindDoc(eng, c) => FindDoc(d, c)
  BY <1>2, <1>3, TempDocs
<1>6. ASSUME eng = disk, NEW c \in reg.shapes
      PROVE  c \in d.colls /\ FindDoc(d, c)
  <2>1. c \in eng.colls /\ DocsOf(eng, c) # {}
    BY DEF ShapeDocs
  <2>2. FindDoc(eng, c)
    BY <1>2, <1>6, <2>1 DEF FindDoc, AllStored, DocsOf, ActiveFrames
  <2> QED
    BY <1>4, <1>5, <2>1, <2>2
<1>7. Len(eng.frames) <= Len(eng.frames)
  BY <1>2, EngineFacts
<1>8. Target' = d
  BY <1>1, <1>3 DEF Target
<1> QED
  BY <1>1, <1>4, <1>5, <1>6, <1>7, <1>8 DEF Copies

LEMMA DocsStep ==
  ASSUME Sound, Docs, AnyStep
  PROVE  Docs'
<1>1. ShapeDocs /\ Copies /\ faults \subseteq faults'
  BY DEF Docs, AnyStep
<1>2. ASSUME writer'.by # "compact"
      PROVE  Copies'
  BY <1>2 DEF Copies
<1>3. ASSUME UNCHANGED <<disk, eng, reg, writer>>
      PROVE  Copies'
  BY <1>1, <1>3 DEF Copies, Target
<1>4. ASSUME UNCHANGED <<eng, reg>>
      PROVE  ShapeDocs'
  BY <1>1, <1>4 DEF ShapeDocs
<1>5. CASE Quiet
  <2>1. writer' = writer => Copies'
    BY <1>3, <1>5 DEF Quiet
  <2>2. writer' # writer => writer'.by # "compact"
    BY <1>5 DEF Quiet
  <2> QED
    BY <1>2, <1>4, <1>5, <2>1, <2>2 DEF Docs, Quiet
<1>6. CASE PutStep
  <2>1. writer'.by # "compact"
    BY <1>6 DEF PutStep, PutWriter
  <2> QED
    BY <1>1, <1>2, <1>6, <2>1, ShapesPut DEF Docs
<1>7. CASE FailStep
  BY <1>1, <1>7, ShapesPut, CopiesFail DEF Docs
<1>8. CASE DeclareStep
  BY <1>1, <1>8, ShapesPut, CopiesDeclare DEF Docs
<1>9. CASE DeleteStep
  <2>1. writer'.by # "compact"
    BY <1>9 DEF DeleteStep, DeleteEngine, CoreType
  <2> QED
    BY <1>1, <1>2, <1>9, <2>1, ShapesPut DEF Docs
<1>10. CASE FlushStep
  <2>1. writer'.by # "compact"
    BY <1>10 DEF FlushStep, FlushWriter, CoreType
  <2>2. /\ eng'.frames = eng.frames /\ eng'.colls = eng.colls
        /\ reg'.shapes = reg.shapes
    BY <1>10 DEF FlushStep, FlushEngine
  <2>3. ShapeDocs'
    BY <1>1, <2>2 DEF ShapeDocs, DocsOf, ActiveFrames
  <2> QED
    BY <1>2, <2>1, <2>3 DEF Docs
<1>11. CASE FlushErrStep
  <2>1. writer'.by # "compact"
    BY <1>11 DEF FlushErrStep
  <2>2. eng'.frames = eng.frames /\ eng'.colls = eng.colls /\ reg' = reg
    BY <1>11 DEF FlushErrStep
  <2>3. ShapeDocs'
    BY <1>1, <2>2 DEF ShapeDocs, DocsOf, ActiveFrames
  <2> QED
    BY <1>2, <2>1, <2>3 DEF Docs
<1>12. CASE CommitStep
  <2>1. writer'.by # "compact"
    BY <1>12 DEF CommitStep, Committer, CoreType
  <2>2. CommitImage(eng, disk') /\ eng' = disk' /\ reg' = reg
    BY <1>12 DEF CommitStep, WrittenOut
  <2> QED
    BY <1>1, <1>2, <2>1, <2>2, ShapesCommit DEF Docs
<1>13. CASE CommitErrStep
  BY <1>2, <1>4, <1>13 DEF Docs, CommitErrStep
<1>14. CASE MarkStep
  BY <1>2, <1>4, <1>14 DEF Docs, MarkStep
<1>15. CASE ForgetStep
  <2>1. writer'.by # "compact"
    BY <1>15 DEF ForgetStep, ForgetEngine
  <2> QED
    BY <1>1, <1>2, <1>15, <2>1, ShapesPut DEF Docs
<1>16. CASE BuildStep
  BY <1>1, <1>4, <1>16, CopiesBuild DEF Docs, BuildStep
<1>17. CASE RenameStep
  <2>1. UNCHANGED <<eng, reg, faults>> /\ Target' = Target /\ writer.by = "compact"
        /\ writer'.source = writer.source
    BY <1>17 DEF RenameStep, Renaming, Target
  <2>2. Copies'
    BY <1>1, <2>1 DEF Copies
  <2> QED
    BY <1>4, <2>1, <2>2 DEF Docs
<1>18. CASE LoadStep
  <2>1. writer'.by # "compact"
    BY <1>18 DEF LoadStep, NoWriter
  <2> QED
    BY <1>2, <1>18, <2>1, ShapesLoad DEF Docs
<1> QED
  BY <1>5, <1>6, <1>7, <1>8, <1>9, <1>10, <1>11, <1>12, <1>13, <1>14, <1>15, <1>16, <1>17, <1>18
     DEF AnyStep

(* Every operation of the process adds to the registry or leaves it;       *)
(* compaction replaces it.                                                 *)
LEMMA ShapesGrow ==
  ASSUME Sound, Docs, [Next]_vars, ~Reopen, "compact" \notin faults'
  PROVE  reg.shapes \subseteq reg'.shapes
<1>0. /\ reg.shapes \subseteq Colls /\ \A s \in Slots : s[1] \in Colls
      /\ \A k \in Keys, t \in Times : <<Period(t), k>> \in Slots
  BY SoundMeans DEF SoundParts, Types, Slots, Colls
<1>1. CASE PutInto \/ PutIntoErr
  <2>1. PICK s \in Slots : reg' = Bound(reg, s[1])
    <3>1. PICK k \in Keys, t \in Times, vec \in BOOLEAN :
            Put(<<Period(t), k>>, t, vec) \/ PutFails(<<Period(t), k>>, t, vec)
      BY <1>1 DEF PutInto, PutIntoErr
    <3>2. PICK s \in Slots : s = <<Period(t), k>>
      BY <1>0
    <3>3. Put(s, t, vec) \/ PutFails(s, t, vec)
      BY <3>1, <3>2
    <3>4. reg' = Bound(reg, s[1])
      BY <3>3 DEF Put, PutFails
    <3> QED
      BY <3>4
  <2> QED
    BY <1>0, <2>1, BoundShapes
<1>2. CASE Declare
  <2>1. PICK c \in Colls : reg' = Bound(reg, c)
    BY <1>2 DEF Declare
  <2> QED
    BY <2>1, BoundShapes
<1>3. CASE FlushDeferred
  BY <1>3, FlushFacts DEF FlushEngine
<1>4. CASE CompactPublish
  <2>1. /\ reg' = RebuiltSchema(disk) /\ writer.by = "compact" /\ writer.pc = "publish"
        /\ eng = writer.source /\ "compact" \notin faults
    BY <1>4 DEF CompactPublish
  <2>2. Target = disk
    BY <2>1 DEF Target
  <2>3. \A c \in reg.shapes : c \in disk.colls /\ FindDoc(disk, c)
    BY <2>1, <2>2 DEF Docs, Copies
  <2>4. reg'.shapes = {c \in disk.colls : FindDoc(disk, c)}
    BY <2>1 DEF RebuiltSchema
  <2> QED
    BY <2>3, <2>4
<1>5. CASE \/ OpenWriter \/ StartBulk \/ DropWriter \/ Delete \/ FlushDeferredErr
           \/ EngineCommit \/ CommitRefused \/ CommitErr \/ MarkCommitted
           \/ ForgetBefore \/ ForgetRemove \/ CompactBuild \/ CompactRename
           \/ GetLookup \/ GetMaterialize \/ UNCHANGED vars
  <2>1. reg' = reg
    BY <1>5 DEF OpenWriter, StartBulk, DropWriter, Delete, FlushDeferredErr, EngineCommit,
         CommitRefused, CommitErr, MarkCommitted, ForgetBefore, ForgetRemove, CompactBuild,
         CompactRename, GetLookup, GetMaterialize, vars, published
  <2> QED
    BY <2>1
<1> QED
  BY <1>1, <1>2, <1>3, <1>4, <1>5 DEF Next

(* No collection loses its shape while the process lives: the rebuild of a *)
(* compaction finds every schema document among the copied frames, for     *)
(* forget_before and put never tombstone one.                              *)
THEOREM ShapesAreKept == Spec => ShapesStay
<1>1. Init => Sound /\ Docs
  BY SoundInit, DocsInit
<1>2. Sound /\ Docs /\ [Next]_vars => (Sound /\ Docs)'
  BY SoundStep, StepCases, DocsStep
<1>3. Sound /\ Docs /\ [Next]_vars =>
        [~Reopen /\ "compact" \notin faults' => reg.shapes \subseteq reg'.shapes]_vars
  BY ShapesGrow
<1> QED
  BY <1>1, <1>2, <1>3, PTL DEF Spec, ShapesStay

=============================================================================
