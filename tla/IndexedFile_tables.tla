------------------------- MODULE IndexedFile_tables -------------------------
(***************************************************************************)
(* Proofs about the tables of IndexedFile, for any documents, any number   *)
(* of edits, commits, refused commits and openings of the file: each table *)
(* is in id order below its allocator, and the segment registry says where *)
(* the segments are (TypeOK).  What opening takes from the roots of the    *)
(* footer is as good as what the handle had when they were written,        *)
(* because a delta of a catalog reads back as it was (CatalogReadsBack).   *)
(***************************************************************************)
EXTENDS IndexedFile_proof

-----------------------------------------------------------------------------
(* The chains of the catalog tables.                                       *)

CatTables == {"CollectionCatalog", "VectorCatalog", "SegmentRegistry"}

(* A row as it may be read: of the registry, one that says where its       *)
(* segment is.                                                             *)
RowGood(table, f, lim, r) ==
  /\ "id" \in DOMAIN r /\ r.id \in Nat
  /\ table = "SegmentRegistry" => r.id < lim /\ r.off \in DOMAIN f /\ f[r.off].id = r.id
RowsGood(table, f, lim, rows) ==
  IsSeq(rows) /\ \A i \in DOMAIN rows : RowGood(table, f, lim, rows[i])

CatSegment(f, table, lim, A, C, k) ==
  \E prev \in Roots(A, C) : \E rs :
    RowsGood(table, f, lim, rs) /\ f[k].payload = EncodeCatalogDelta(table, prev, rs)
CatClosed(f, table, lim, A, C) == \A k \in C : CatSegment(f, table, lim, A, C, k)
CatOK(f, table, lim, root) ==
  \E A : \E C \in SUBSET DOMAIN f : root \in Roots(A, C) /\ CatClosed(f, table, lim, A, C)

(* A delta with any rows decodes, if its previous root is one of Roots.    *)
LEMMA CatDecodes ==
  ASSUME NEW A, NEW C, NEW table, NEW prev \in Roots(A, C), NEW rs, IsSeq(rs)
  PROVE  DecodeCatalogDelta(table, EncodeCatalogDelta(table, prev, rs))
           = Ok([prev |-> prev, rows |-> rs], <<>>)
<1>1. PICK S : rs \in Seq(S)
  BY DEF IsSeq
<1> DEFINE B == A \cup C \cup S \cup {0, 1, 3, "VLCC", table, Len(rs)}
<1>2. prev \in Refs(B)
  BY DEF Roots, Refs
<1>3. {0, 1, 3, "VLCC"} \subseteq B /\ table \in B /\ Len(rs) \in B /\ S \subseteq B
  OBVIOUS
<1> HIDE DEF B
<1>4. rs \in Seq(B)
  BY <1>1, <1>3, SeqMonotonic
<1> QED
  BY <1>2, <1>3, <1>4, CatalogReadsBack

(* Good rows stay good as the file grows and the allocator moves on.       *)
LEMMA RowsKept ==
  ASSUME NEW f, NEW g, Grown(f, g), NEW lim \in Nat, NEW up \in Nat, lim <= up,
         NEW table, NEW rows, RowsGood(table, f, lim, rows)
  PROVE  RowsGood(table, g, up, rows)
<1> SUFFICES ASSUME NEW i \in DOMAIN rows PROVE RowGood(table, g, up, rows[i])
  BY DEF RowsGood
<1>1. RowGood(table, f, lim, rows[i])
  BY DEF RowsGood
<1>2. PICK r : r = rows[i]
  OBVIOUS
<1>3. r.id \in Nat /\ (r.id < lim => r.id < up)
  BY <1>1, <1>2 DEF RowGood
<1> QED
  BY <1>1, <1>2, <1>3 DEF RowGood, Grown

(* So does what a root leads to.                                           *)
LEMMA CatKept ==
  ASSUME NEW f, NEW g, Grown(f, g), NEW lim \in Nat, NEW up \in Nat, lim <= up,
         NEW table, NEW root, CatOK(f, table, lim, root)
  PROVE  CatOK(g, table, up, root)
<1>1. PICK A : \E C \in SUBSET DOMAIN f :
         root \in Roots(A, C) /\ CatClosed(f, table, lim, A, C)
  BY DEF CatOK
<1>2. PICK C \in SUBSET DOMAIN f : root \in Roots(A, C) /\ CatClosed(f, table, lim, A, C)
  BY <1>1
<1>3. C \in SUBSET DOMAIN g
  BY DEF Grown
<1>4. ASSUME NEW k \in C PROVE CatSegment(g, table, up, A, C, k)
  <2>0. PICK prev \in Roots(A, C) : \E rs :
          RowsGood(table, f, lim, rs) /\ f[k].payload = EncodeCatalogDelta(table, prev, rs)
    BY <1>2 DEF CatClosed, CatSegment
  <2>1. PICK rs : RowsGood(table, f, lim, rs) /\ f[k].payload = EncodeCatalogDelta(table, prev, rs)
    BY <2>0
  <2>2. g[k] = f[k]
    BY <1>2 DEF Grown
  <2>3. RowsGood(table, g, up, rs)
    BY <2>1, RowsKept
  <2> QED
    BY <2>1, <2>2, <2>3 DEF CatSegment
<1> QED
  BY <1>2, <1>3, <1>4 DEF CatOK, CatClosed

(* A delta chained to a root and put at the end of the file becomes one.   *)
LEMMA CatAppended ==
  ASSUME NEW f, IsSeq(f), NEW lim \in Nat, NEW table, NEW root, CatOK(f, table, lim, root),
         NEW rs, RowsGood(table, f, lim, rs), NEW seg, NEW id,
         seg.payload = EncodeCatalogDelta(table, root, rs)
  PROVE  CatOK(Append(f, seg), table, lim, <<id, Len(f) + 1>>)
<1>1. PICK A0 : \E C \in SUBSET DOMAIN f :
         root \in Roots(A0, C) /\ CatClosed(f, table, lim, A0, C)
  BY DEF CatOK
<1>2. PICK C \in SUBSET DOMAIN f : root \in Roots(A0, C) /\ CatClosed(f, table, lim, A0, C)
  BY <1>1
<1> DEFINE A == A0 \cup {id}
           m == Len(f) + 1
           C1 == C \cup {m}
           g == Append(f, seg)
<1>3. Grown(f, g) /\ m \in DOMAIN g /\ g[m] = seg
  BY AppendGrown
<1>4. A0 \subseteq A /\ id \in A
  OBVIOUS
<1> HIDE DEF A, g, m
<1>5. Roots(A0, C) \subseteq Roots(A, C1)
  BY <1>4 DEF Roots
<1>6. lim <= lim
  OBVIOUS
<1>7. ASSUME NEW k \in C1 PROVE CatSegment(g, table, lim, A, C1, k)
  <2>1. CASE k = m
    <3>1. RowsGood(table, g, lim, rs)
      BY <1>3, <1>6, RowsKept
    <3>2. root \in Roots(A, C1)
      BY <1>2, <1>5
    <3> QED
      BY <1>3, <2>1, <3>1, <3>2 DEF CatSegment
  <2>2. CASE k \in C
    <3>0. PICK prev \in Roots(A0, C) : \E ss :
            RowsGood(table, f, lim, ss) /\ f[k].payload = EncodeCatalogDelta(table, prev, ss)
      BY <1>2, <2>2 DEF CatClosed, CatSegment
    <3>1. PICK ss : RowsGood(table, f, lim, ss) /\ f[k].payload = EncodeCatalogDelta(table, prev, ss)
      BY <3>0
    <3>2. RowsGood(table, g, lim, ss)
      BY <1>3, <1>6, <3>1, RowsKept
    <3>3. g[k] = f[k]
      BY <1>2, <1>3, <2>2 DEF Grown
    <3> QED
      BY <1>5, <3>1, <3>2, <3>3 DEF CatSegment
  <2> QED
    BY <2>1, <2>2
<1>8. C1 \in SUBSET DOMAIN g
  BY <1>2, <1>3 DEF Grown
<1>9. <<id, m>> \in Roots(A, C1)
  BY <1>4 DEF Roots
<1> QED
  BY <1>7, <1>8, <1>9 DEF CatOK, CatClosed, g, m

-----------------------------------------------------------------------------
(* The walk along such a chain.                                            *)

DeltasGood(table, f, lim, ds) ==
  IsSeq(ds) /\ \A j \in DOMAIN ds : RowsGood(table, f, lim, ds[j].rows)
Onward(root, table, f, lim, A, C) ==
  table \in CatTables => root \in Roots(A, C) /\ CatClosed(f, table, lim, A, C)
Walking(table, f, lim, A, C, acc) ==
  /\ {"ok", "next", "deltas"} \subseteq DOMAIN acc
  /\ acc.ok => Onward(acc.next, table, f, lim, A, C) /\ DeltasGood(table, f, lim, acc.deltas)

(* A delta read is added to those read before it.                          *)
LEMMA DeltaMore ==
  ASSUME NEW table, NEW f, NEW lim, NEW ds, DeltasGood(table, f, lim, ds), NEW x,
         RowsGood(table, f, lim, x.rows)
  PROVE  DeltasGood(table, f, lim, Append(ds, x))
<1>1. IsSeq(ds) /\ \A j \in DOMAIN ds : RowsGood(table, f, lim, ds[j].rows)
  BY DEF DeltasGood
<1>2. /\ Grown(ds, Append(ds, x)) /\ Len(Append(ds, x)) = Len(ds) + 1
      /\ Append(ds, x)[Len(ds) + 1] = x
  BY <1>1, AppendGrown
<1>3. /\ Len(ds) \in Nat /\ DOMAIN ds = 1..Len(ds) /\ DOMAIN Append(ds, x) = 1..Len(ds) + 1
  BY <1>1, <1>2, SeqFacts DEF Grown
<1>4. ASSUME NEW j \in DOMAIN Append(ds, x) PROVE RowsGood(table, f, lim, Append(ds, x)[j].rows)
  <2>1. CASE j \in DOMAIN ds
    BY <1>1, <1>2, <2>1 DEF Grown
  <2>2. CASE j = Len(ds) + 1
    BY <1>2, <2>2
  <2> QED
    BY <1>3, <2>1, <2>2
<1> QED
  BY <1>2, <1>4 DEF DeltasGood, Grown

(* What a step of the walk decodes.                                        *)
LEMMA WalkFurther ==
  ASSUME NEW table, NEW f, NEW lim, NEW A, NEW C, NEW acc, Walking(table, f, lim, A, C, acc),
         \A s : DecodeDelta(table, s).ok /\ acc.ok /\ acc.next # <<>>
                  /\ ReadSegment(f, acc.next, table) = Ok(s, <<>>)
                => LET v == DecodeDelta(table, s).val IN
                   Onward(v.prev, table, f, lim, A, C) /\ RowsGood(table, f, lim, v.rows)
  PROVE  Walking(table, f, lim, A, C, TypedStep(f, table, acc))
<1> DEFINE new == TypedStep(f, table, acc)
           r == ReadSegment(f, acc.next, table)
           d == IF r.ok THEN DecodeDelta(table, r.val) ELSE Err
<1>1. CASE ~acc.ok \/ acc.next = <<>>
  BY <1>1 DEF TypedStep, ChainStep
<1>2. CASE ~(~acc.ok \/ acc.next = <<>>) /\ ~d.ok
  <2>1. new = [acc EXCEPT !.ok = FALSE]
    BY <1>2 DEF TypedStep, ChainStep
  <2> HIDE DEF new
  <2>2. {"ok", "next", "deltas"} \subseteq DOMAIN new /\ new.ok = FALSE
    BY <2>1 DEF Walking
  <2> QED
    BY <2>2 DEF Walking, new
<1>3. CASE ~(~acc.ok \/ acc.next = <<>>) /\ d.ok
  <2>1. new = [ok |-> TRUE, next |-> d.val.prev, deltas |-> Append(acc.deltas, d.val)]
    BY <1>3 DEF TypedStep, ChainStep
  <2>2. r.ok /\ d = DecodeDelta(table, r.val)
    BY <1>3 DEF Err
  <2>3. r = Ok(r.val, <<>>)
    BY <2>2 DEF ReadSegment, Ok, Err
  <2>4. PICK s : s = r.val
    OBVIOUS
  <2>5. DecodeDelta(table, s).ok /\ ReadSegment(f, acc.next, table) = Ok(s, <<>>)
    BY <1>3, <2>2, <2>3, <2>4
  <2>6. /\ Onward(d.val.prev, table, f, lim, A, C)
        /\ RowsGood(table, f, lim, d.val.rows)
    BY <1>3, <2>2, <2>4, <2>5
  <2> HIDE DEF d, r, new
  <2>7. PICK x, ds : x = d.val /\ ds = acc.deltas
    OBVIOUS
  <2>8. DeltasGood(table, f, lim, Append(ds, x))
    BY <1>3, <2>6, <2>7, DeltaMore DEF Walking
  <2>9. {"ok", "next", "deltas"} \subseteq DOMAIN new /\ new.next = x.prev
        /\ new.deltas = Append(ds, x)
    BY <2>1, <2>7
  <2>10. Walking(table, f, lim, A, C, new)
    BY <2>6, <2>7, <2>8, <2>9 DEF Walking
  <2> QED
    BY <2>10 DEF new
<1> QED
  BY <1>1, <1>2, <1>3

(* In a catalog with a good root, every step of the walk reads a good      *)
(* delta.                                                                  *)
LEMMA CatFurther ==
  ASSUME NEW table \in CatTables, NEW f, NEW lim, NEW A, NEW C \in SUBSET DOMAIN f, NEW acc,
         Walking(table, f, lim, A, C, acc)
  PROVE  Walking(table, f, lim, A, C, TypedStep(f, table, acc))
<1>1. ASSUME NEW s, DecodeDelta(table, s).ok, acc.ok, acc.next # <<>>,
             ReadSegment(f, acc.next, table) = Ok(s, <<>>)
      PROVE  LET v == DecodeDelta(table, s).val IN
             Onward(v.prev, table, f, lim, A, C) /\ RowsGood(table, f, lim, v.rows)
  <2>1. acc.next \in Roots(A, C) /\ CatClosed(f, table, lim, A, C)
    BY <1>1 DEF Walking, Onward
  <2>2. PICK a \in A, o \in C : acc.next = <<a, o>>
    BY <1>1, <2>1 DEF Roots
  <2>3. s = f[o].payload
    BY <1>1, <2>2 DEF ReadSegment, Ok, Err
  <2>10. PICK prev \in Roots(A, C) : \E rs :
          RowsGood(table, f, lim, rs) /\ f[o].payload = EncodeCatalogDelta(table, prev, rs)
    BY <2>1, <2>2 DEF CatClosed, CatSegment
  <2>4. PICK rs : RowsGood(table, f, lim, rs) /\ f[o].payload = EncodeCatalogDelta(table, prev, rs)
    BY <2>10
  <2>5. IsSeq(rs)
    BY <2>4 DEF RowsGood
  <2>6. DecodeDelta(table, s) = DecodeCatalogDelta(table, s)
    BY DEF DecodeDelta, CatTables
  <2>7. DecodeDelta(table, s) = Ok([prev |-> prev, rows |-> rs], <<>>)
    BY <2>3, <2>4, <2>5, <2>6, CatDecodes
  <2>8. DecodeDelta(table, s).val.prev = prev /\ DecodeDelta(table, s).val.rows = rs
    BY <2>7 DEF Ok
  <2> QED
    BY <2>1, <2>4, <2>8 DEF Onward
<1> QED
  BY <1>1, WalkFurther

(* A chain walked with any steps that go on so ends with good deltas.      *)
LEMMA WalkEnds ==
  ASSUME NEW table, NEW f, NEW lim, NEW A, NEW C, NEW n \in Nat, NEW root,
         Onward(root, table, f, lim, A, C),
         \A acc : Walking(table, f, lim, A, C, acc)
                    => Walking(table, f, lim, A, C, TypedStep(f, table, acc)),
         NEW r, WalkOf(f, table, root, n, r), Arrived(r[n]).ok
  PROVE  DeltasGood(table, f, lim, Arrived(r[n]).val)
<1> DEFINE K == {i \in Nat : i <= n => Walking(table, f, lim, A, C, r[i])}
<1>1. 0 \in K
  <2>1. r[0].ok /\ r[0].next = root /\ r[0].deltas = <<>>
        /\ {"ok", "next", "deltas"} \subseteq DOMAIN r[0]
    BY DEF Begin, WalkOf
  <2>2. <<>> \in Seq({}) /\ DOMAIN <<>> = {}
    BY EmptySeq
  <2>3. DeltasGood(table, f, lim, <<>>)
    BY <2>2 DEF DeltasGood, IsSeq
  <2> QED
    BY <2>1, <2>3 DEF Walking
<1>2. \A i \in Nat : i \in K => i + 1 \in K
  <2> SUFFICES ASSUME NEW i \in Nat, i \in K, i + 1 <= n
               PROVE  Walking(table, f, lim, A, C, r[i + 1])
    OBVIOUS
  <2>1. i + 1 \in 1..n /\ (i + 1) - 1 = i /\ Walking(table, f, lim, A, C, r[i])
    OBVIOUS
  <2>2. r[i + 1] = TypedStep(f, table, r[i])
    BY <2>1 DEF WalkOf
  <2> QED
    BY <2>1, <2>2
<1> HIDE DEF K
<1>3. n \in K
  BY <1>1, <1>2, Dicts!SetInduction
<1>4. Walking(table, f, lim, A, C, r[n])
  BY <1>3 DEF K
<1>5. r[n].ok /\ Arrived(r[n]).val = r[n].deltas
  BY DEF Arrived, Ok, Err
<1> QED
  BY <1>4, <1>5 DEF Walking

(* The chain of a catalog is a walk of such steps.                         *)
LEMMA CatChainWalks ==
  ASSUME NEW f, NEW n \in Nat, DOMAIN f = 1..n, NEW head, NEW table \in CatTables
  PROVE  \E r : /\ WalkOf(f, table, head, n, r)
               /\ Chain(f, head, table, LAMBDA d : DecodeCatalogDelta(table, d)) = Arrived(r[n])
<1> DEFINE s == [k \in DOMAIN f |-> k]
<1>1. DOMAIN s = 1..n
  OBVIOUS
<1>2. Chain(f, head, table, LAMBDA d : DecodeCatalogDelta(table, d))
        = Arrived(RowChains!Fold(f, table, Begin(head), s))
  BY Zenon DEF Chain, Arrived, RowChains!Fold, RowStep, Begin, FoldLeft, MapThenFoldSet, Max,
         RowChains!FoldLeft, RowChains!MapThenFoldSet, RowChains!Max
<1> HIDE DEF s
<1>3. PICK r : /\ r[0] = Begin(head)
               /\ \A i \in 1..n : r[i] = RowStep(f, table, r[i - 1], s[i])
               /\ RowChains!Fold(f, table, Begin(head), s) = r[n]
  BY <1>1, RowChains!FoldSteps
<1>4. ASSUME NEW acc, NEW k PROVE RowStep(f, table, acc, k) = TypedStep(f, table, acc)
  BY DEF RowStep, TypedStep, ChainStep, DecodeDelta, CatTables
<1>5. \A i \in 1..n : r[i] = TypedStep(f, table, r[i - 1])
  BY <1>3, <1>4
<1> QED
  BY <1>2, <1>3, <1>5 DEF WalkOf

-----------------------------------------------------------------------------
(* The rows of a delta of the frame catalog have ids.                      *)

UvarStep(c, d, acc, i) ==
  Then(acc, LAMBDA vs, rest :
    Then(ReadUvarint(rest), LAMBDA v, more : Ok(Append(vs, v), more)))
Uvars == INSTANCE Folding WITH Op <- UvarStep

(* A loop over varints decodes as many as it was asked for.                *)
LEMMA ManyUvarints ==
  ASSUME NEW n \in Nat, NEW s, ReadMany(n, ReadUvarint, s).ok
  PROVE  IsSeq(ReadMany(n, ReadUvarint, s).val) /\ Len(ReadMany(n, ReadUvarint, s).val) = n
<1> DEFINE ix == [i \in 1..n |-> i]
           end == Uvars!Fold(0, 0, Ok(<<>>, s), ix)
<1>1. ReadMany(n, ReadUvarint, s) = end
  BY Zenon DEF ReadMany, UvarStep, FoldLeft, MapThenFoldSet, Max, Uvars!Fold, Uvars!FoldLeft,
         Uvars!MapThenFoldSet, Uvars!Max
<1>2. DOMAIN ix = 1..n
  OBVIOUS
<1> HIDE DEF ix
<1>3. PICK r : /\ r[0] = Ok(<<>>, s)
               /\ \A i \in 1..n : r[i] = UvarStep(0, 0, r[i - 1], ix[i])
               /\ end = r[n]
  BY <1>2, Uvars!FoldSteps
<1> DEFINE K == {i \in Nat : i <= n /\ r[i].ok => IsSeq(r[i].val) /\ Len(r[i].val) = i}
<1>4. 0 \in K
  <2>1. <<>> \in Seq({}) /\ Len(<<>>) = 0
    BY EmptySeq
  <2>2. r[0].val = <<>>
    BY <1>3 DEF Ok
  <2> QED
    BY <2>1, <2>2 DEF IsSeq
<1>5. \A i \in Nat : i \in K => i + 1 \in K
  <2> SUFFICES ASSUME NEW i \in Nat, i \in K, i + 1 <= n, r[i + 1].ok
               PROVE  IsSeq(r[i + 1].val) /\ Len(r[i + 1].val) = i + 1
    OBVIOUS
  <2>1. i + 1 \in 1..n /\ (i + 1) - 1 = i
        /\ (r[i].ok => IsSeq(r[i].val) /\ Len(r[i].val) = i)
    OBVIOUS
  <2>2. r[i + 1] = UvarStep(0, 0, r[i], ix[i + 1])
    BY <1>3, <2>1
  <2>3. PICK a, x : a = r[i] /\ x = ReadUvarint(a.rest)
    OBVIOUS
  <2>4. UvarStep(0, 0, a, ix[i + 1])
          = IF a.ok THEN IF x.ok THEN Ok(Append(a.val, x.val), x.rest) ELSE Err ELSE Err
    BY <2>3 DEF UvarStep, Then
  <2>5. ~Err.ok
    BY DEF Err
  <2>6. a.ok /\ r[i + 1].val = Append(a.val, x.val)
    BY <2>2, <2>3, <2>4, <2>5 DEF Ok
  <2>7. PICK v : v = a.val /\ IsSeq(v) /\ Len(v) = i
    BY <2>1, <2>3, <2>6
  <2> QED
    BY <2>6, <2>7, AppendGrown DEF Grown
<1> HIDE DEF K
<1>6. n \in K
  BY <1>4, <1>5, Uvars!SetInduction
<1> QED
  BY <1>1, <1>3, <1>6 DEF K

SumStep(c, d, acc, x) == Append(acc, Last(acc) + x)
Sums == INSTANCE Folding WITH Op <- SumStep

(* The running sums of differences are as many as the differences.         *)
LEMMA RunningSumsLength ==
  ASSUME NEW first, NEW ds, IsSeq(ds)
  PROVE  IsSeq(RunningSums(first, ds)) /\ Len(RunningSums(first, ds)) = Len(ds) + 1
<1>1. PICK n \in Nat : n = Len(ds) /\ DOMAIN ds = 1..n
  BY SeqFacts
<1>2. RunningSums(first, ds) = Sums!Fold(0, 0, <<first>>, ds)
  BY Zenon DEF RunningSums, SumStep, FoldLeft, MapThenFoldSet, Max, Sums!Fold, Sums!FoldLeft,
         Sums!MapThenFoldSet, Sums!Max
<1>3. PICK r : /\ r[0] = <<first>>
               /\ \A i \in 1..n : r[i] = SumStep(0, 0, r[i - 1], ds[i])
               /\ Sums!Fold(0, 0, <<first>>, ds) = r[n]
  BY <1>1, Sums!FoldSteps
<1> DEFINE K == {i \in Nat : i <= n => IsSeq(r[i]) /\ Len(r[i]) = i + 1}
<1>4. 0 \in K
  <2>1. <<first>> \in Seq({first}) /\ Len(<<first>>) = 1
    OBVIOUS
  <2>2. IsSeq(<<first>>)
    BY <2>1 DEF IsSeq
  <2>3. 0 + 1 = 1
    OBVIOUS
  <2> QED
    BY <1>3, <2>1, <2>2, <2>3
<1>5. \A i \in Nat : i \in K => i + 1 \in K
  <2> SUFFICES ASSUME NEW i \in Nat, i \in K, i + 1 <= n
               PROVE  IsSeq(r[i + 1]) /\ Len(r[i + 1]) = i + 2
    OBVIOUS
  <2>1. i + 1 \in 1..n /\ (i + 1) - 1 = i /\ IsSeq(r[i]) /\ Len(r[i]) = i + 1
    OBVIOUS
  <2>2. PICK v, x : v = r[i] /\ x = Last(v) + ds[i + 1]
    OBVIOUS
  <2>3. r[i + 1] = Append(v, x)
    BY <1>3, <2>1, <2>2 DEF SumStep
  <2>4. IsSeq(Append(v, x)) /\ Len(Append(v, x)) = Len(v) + 1
    BY <2>1, <2>2, AppendGrown DEF Grown
  <2> QED
    BY <2>1, <2>2, <2>3, <2>4
<1> HIDE DEF K
<1>6. n \in K
  BY <1>4, <1>5, Sums!SetInduction
<1> QED
  BY <1>1, <1>2, <1>3, <1>6 DEF K

(* The ids a frame delta decodes to are numbers, one for each row.         *)
LEMMA IdsDecoded ==
  ASSUME NEW n \in Nat, n # 0, NEW s, DecodeIds(n, s).ok
  PROVE  \A i \in 1..n : DecodeIds(n, s).val[i] \in Nat
<1> DEFINE c == ReadCell(s)
           m == ReadMany(n - 1, ReadUvarint, c.rest)
           ids == RunningSums(c.val, m.val)
<1>1. DecodeIds(n, s)
        = IF c.ok THEN IF m.ok THEN IF Range(ids) \subseteq U64 THEN Ok(ids, m.rest)
          ELSE Err ELSE Err ELSE Err
  BY DEF DecodeIds, Then
<1>2. m.ok => IsSeq(m.val) /\ Len(m.val) = n - 1
  <2>1. PICK k \in Nat : k = n - 1
    OBVIOUS
  <2>2. PICK t : t = c.rest
    OBVIOUS
  <2> QED
    BY <2>1, <2>2, ManyUvarints
<1> HIDE DEF c, m
<1>3. m.ok => IsSeq(ids) /\ Len(ids) = n
  <2>1. PICK x, v : x = c.val /\ v = m.val
    OBVIOUS
  <2>2. IsSeq(v) => IsSeq(RunningSums(x, v)) /\ Len(RunningSums(x, v)) = Len(v) + 1
    BY RunningSumsLength
  <2> QED
    BY <1>2, <2>1, <2>2
<1> HIDE DEF ids
<1>4. m.ok /\ Range(ids) \subseteq U64 /\ DecodeIds(n, s).val = ids
  BY <1>1 DEF Ok, Err
<1>5. \A x \in U64 : x \in Nat
  BY SegmentCodecsAssumption DEF U64
<1>6. \A i \in 1..n : ids[i] \in Range(ids)
  BY <1>3, <1>4, SeqFacts DEF Range
<1> QED
  BY <1>4, <1>5, <1>6

(* The first cell of a concatenation.                                      *)
LEMMA FirstOfConcat ==
  ASSUME NEW s, IsSeq(s), NEW t, IsSeq(t), 1 \in DOMAIN s
  PROVE  IsSeq(s \o t) /\ 1 \in DOMAIN (s \o t) /\ (s \o t)[1] = s[1]
<1>1. PICK S : s \in Seq(S)
  BY DEF IsSeq
<1>2. PICK T : t \in Seq(T)
  BY DEF IsSeq
<1> DEFINE U == S \cup T
<1>3. S \subseteq U /\ T \subseteq U
  OBVIOUS
<1> HIDE DEF U
<1>4. s \in Seq(U) /\ t \in Seq(U)
  BY <1>1, <1>2, <1>3, SeqMonotonic
<1>5. /\ s \o t \in Seq(U) /\ Len(s \o t) = Len(s) + Len(t)
      /\ \A i \in 1..Len(s) + Len(t) : (s \o t)[i] = IF i <= Len(s) THEN s[i] ELSE t[i - Len(s)]
  BY <1>4, ConcatProperties
<1>6. /\ Len(s) \in Nat /\ Len(t) \in Nat /\ DOMAIN s = 1..Len(s)
      /\ DOMAIN (s \o t) = 1..Len(s \o t)
  BY <1>4, <1>5, LenProperties
<1>7. 1 \in 1..Len(s) + Len(t) /\ 1 <= Len(s)
  BY <1>6
<1> QED
  BY <1>5, <1>6, <1>7 DEF IsSeq

(* The id column is the first of the columns.                              *)
LEMMA IdColumn ==
  ASSUME NEW n, NEW b
  PROVE  1 \in DOMAIN ReadColumns(n, b) /\ ReadColumns(n, b)[1] = DecodeIds(n, b[1])
<1>1. PICK c1, c2, c3, c4, c5, c6, c7, c8 :
        /\ c1 = DecodeIds(n, b[1])
        /\ ReadColumns(n, b)
             = <<c1, c2, c3, c4, c5, c6, c7, c8>>
               \o [j \in 1..4 |-> DecodeMetadataColumn(n, b[8 + 2 * j], b[9 + 2 * j])]
               \o [j \in 1..3 |-> DecodeIntegerColumn(n, b[16 + 2 * j], b[17 + 2 * j])]
  BY Zenon DEF ReadColumns
<1> DEFINE s == <<c1, c2, c3, c4, c5, c6, c7, c8>>
           t == [j \in 1..4 |-> DecodeMetadataColumn(n, b[8 + 2 * j], b[9 + 2 * j])]
           u == [j \in 1..3 |-> DecodeIntegerColumn(n, b[16 + 2 * j], b[17 + 2 * j])]
<1>2. IsSeq(t) /\ IsSeq(u)
  <2>1. t = [j \in 1..4 |-> t[j]] /\ u = [j \in 1..3 |-> u[j]]
    OBVIOUS
  <2>2. PICK k \in Nat, l \in Nat : k = 4 /\ l = 3
    OBVIOUS
  <2> HIDE DEF t, u
  <2> QED
    BY <2>1, <2>2, SeqOfFn
<1>3. IsSeq(s) /\ 1 \in DOMAIN s /\ s[1] = c1
  <2>1. s \in Seq({c1, c2, c3, c4, c5, c6, c7, c8})
    OBVIOUS
  <2>2. 1 \in DOMAIN s /\ s[1] = c1
    OBVIOUS
  <2> QED
    BY <2>1, <2>2 DEF IsSeq
<1>4. ReadColumns(n, b) = (s \o t) \o u
  BY <1>1
<1> HIDE DEF s, t, u
<1>5. IsSeq(s \o t) /\ 1 \in DOMAIN (s \o t) /\ (s \o t)[1] = c1
  BY <1>2, <1>3, FirstOfConcat
<1> DEFINE v == s \o t
<1> HIDE DEF v
<1>6. 1 \in DOMAIN (v \o u) /\ (v \o u)[1] = c1
  BY <1>2, <1>5, FirstOfConcat DEF v
<1> QED
  BY <1>1, <1>4, <1>6 DEF v

(* The rows of a frame delta that decodes have ids.                        *)
LEMMA FrameRowsGood ==
  ASSUME NEW s, DecodeFrameCatalog(s).ok, NEW f, NEW lim
  PROVE  RowsGood("FrameCatalog", f, lim, DecodeFrameCatalog(s).val.rows)
<1>1. ~Err.ok
  BY DEF Err
<1> DEFINE p == FrameCatalogPrevious(s)
           n == p.val.count
           b == ReadMany(23, ReadBlob, p.rest)
           rows == DecodeFrameColumns(n, b.val)
<1>2. DecodeFrameCatalog(s)
        = IF p.ok THEN IF n = 0 THEN Ok([prev |-> p.val.prev, rows |-> <<>>], p.rest)
          ELSE IF b.ok THEN IF rows.ok THEN Ok([prev |-> p.val.prev, rows |-> rows.val], b.rest)
          ELSE Err ELSE Err ELSE Err
  BY DEF DecodeFrameCatalog, Then
<1>3. p.ok => n \in Nat
  <2> DEFINE m == ReadMagic("VLF2", s)
             c == ReadCount(m.rest)
             r == ReadRef(c.rest)
             x == ReadCell(r.rest)
             y == ReadCell(m.rest)
  <2>1. p = IF m.ok THEN IF c.ok THEN IF r.ok THEN IF x.ok
            THEN Ok([prev |-> r.val, count |-> c.val], x.rest)
            ELSE Err ELSE Err ELSE Err ELSE Err
    BY DEF FrameCatalogPrevious, Then
  <2>2. c = IF y.ok THEN IF y.val \in Nat THEN Ok(y.val, y.rest) ELSE Err ELSE Err
    BY DEF ReadCount, Then
  <2> HIDE DEF p, m, c, r, x, y
  <2>3. c.ok => c.val \in Nat
    BY <1>1, <2>2 DEF Ok
  <2>4. p.ok => c.ok /\ p.val = [prev |-> r.val, count |-> c.val]
    BY <1>1, <2>1 DEF Ok
  <2> QED
    BY <2>3, <2>4
<1> HIDE DEF n, b
<1>4. rows.ok /\ n \in Nat /\ n # 0
        => IsSeq(rows.val) /\ \A i \in DOMAIN rows.val :
             "id" \in DOMAIN rows.val[i] /\ rows.val[i].id \in Nat
  <2>1. ASSUME rows.ok, n \in Nat, n # 0
        PROVE IsSeq(rows.val) /\ \A i \in DOMAIN rows.val :
                "id" \in DOMAIN rows.val[i] /\ rows.val[i].id \in Nat
    <3> DEFINE cols == ReadColumns(n, b.val)
               col(x) == CHOOSE j \in DOMAIN FrameFields : FrameFields[j] = x
               g == [i \in 1..n |-> [x \in Range(FrameFields) |-> cols[col(x)].val[i]]]
    <3>1. rows = FrameRows(n, cols)
      BY DEF DecodeFrameColumns
    <3>2. 1 \in DOMAIN cols /\ cols[1] = DecodeIds(n, b.val[1])
      <4>1. PICK v : v = b.val
        OBVIOUS
      <4> QED
        BY <4>1, IdColumn
    <3> HIDE DEF cols
    <3>3. rows = Ok(g, <<>>) /\ \A j \in DOMAIN cols : cols[j].ok
      BY <1>1, <2>1, <3>1 DEF FrameRows
    <3>4. g = [i \in 1..n |-> g[i]] /\ DOMAIN g = 1..n
      OBVIOUS
    <3>5. "id" \in Range(FrameFields) /\ col("id") = 1
      BY DEF FrameFields, Range
    <3>6. \A i \in 1..n : "id" \in DOMAIN g[i] /\ g[i].id = cols[1].val[i]
      BY <3>5
    <3>7. \A i \in 1..n : cols[1].val[i] \in Nat
      <4>1. PICK t : t = b.val[1]
        OBVIOUS
      <4>2. DecodeIds(n, t).ok
        BY <3>2, <3>3, <4>1
      <4>3. \A i \in 1..n : DecodeIds(n, t).val[i] \in Nat
        BY <2>1, <4>2, IdsDecoded
      <4> QED
        BY <3>2, <4>1, <4>3
    <3> HIDE DEF g, rows
    <3>8. rows.val = g
      BY <3>3 DEF Ok
    <3> QED
      BY <2>1, <3>4, <3>6, <3>7, <3>8, SeqOfFn
  <2> QED
    BY <2>1
<1>5. IsSeq(<<>>) /\ DOMAIN <<>> = {}
  <2>1. <<>> \in Seq({}) /\ DOMAIN <<>> = {}
    BY EmptySeq
  <2> QED
    BY <2>1 DEF IsSeq
<1> HIDE DEF p, rows
<1>6. LET rs == DecodeFrameCatalog(s).val.rows IN
      IsSeq(rs) /\ \A i \in DOMAIN rs : "id" \in DOMAIN rs[i] /\ rs[i].id \in Nat
  BY <1>1, <1>2, <1>3, <1>4, <1>5 DEF Ok
<1> QED
  BY <1>6 DEF RowsGood, RowGood

-----------------------------------------------------------------------------
(* What a chain of deltas adds up to: rows of the deltas, in id order.     *)

Sorted(rows) == \A i, j \in DOMAIN rows : i < j => rows[i].id < rows[j].id

(* The newest version of each row is one of the rows, and they are in id   *)
(* order.                                                                  *)
LEMMA LatestGood ==
  ASSUME NEW table, NEW f, NEW lim, NEW ds, DeltasGood(table, f, lim, ds)
  PROVE  RowsGood(table, f, lim, LatestRows(ds)) /\ Sorted(LatestRows(ds))
<1> DEFINE n == Len(ds)
           ss == [i \in DOMAIN ds |-> ds[i].rows]
           V == UNION {{ds[i].rows[k] : k \in DOMAIN ds[i].rows} : i \in DOMAIN ds}
           rows == FlattenSeq(ss)
           S == {rows[k].id : k \in DOMAIN rows}
           ids == InOrder(S)
           at(x) == {k \in DOMAIN rows : rows[k].id = x}
           latest == LatestRows(ds)
<1>1. IsSeq(ds) /\ n \in Nat /\ DOMAIN ds = 1..n
  BY SeqFacts DEF DeltasGood
<1>2. ASSUME NEW i \in 1..n PROVE ds[i].rows \in Seq(V)
  <2>1. PICK q : q = ds[i].rows
    OBVIOUS
  <2>2. IsSeq(q)
    BY <1>1, <2>1 DEF DeltasGood, RowsGood
  <2>3. Len(q) \in Nat /\ DOMAIN q = 1..Len(q)
    BY <2>2, SeqFacts
  <2>4. \A k \in DOMAIN q : q[k] \in V
    BY <1>1, <2>1
  <2>5. PICK T : q \in Seq(T)
    BY <2>2 DEF IsSeq
  <2>6. q = [k \in 1..Len(q) |-> q[k]]
    BY <2>5
  <2> HIDE DEF V
  <2>7. q \in [1..Len(q) -> V]
    BY <2>3, <2>4, <2>6
  <2>8. q \in Seq(V)
    BY <2>3, <2>7, Cells!FnIsSeq
  <2> QED
    BY <2>1, <2>8
<1>3. \A x \in V : RowGood(table, f, lim, x)
  BY DEF DeltasGood, RowsGood
<1> HIDE DEF V, n
<1>4. ss \in [1..n -> Seq(V)]
  BY <1>1, <1>2
<1>5. latest = [i \in DOMAIN ids |-> rows[Min(at(ids[i]))]]
  BY DEF LatestRows
<1> HIDE DEF ss, latest
<1>6. rows \in Seq(V)
  BY <1>1, <1>4, FlattenHas
<1> HIDE DEF rows
<1>7. Len(rows) \in Nat /\ DOMAIN rows = 1..Len(rows) /\ \A k \in DOMAIN rows : rows[k] \in V
  BY <1>6, LenProperties, ElementOfSeq
<1>8. S \in SUBSET Nat
  BY <1>3, <1>7 DEF RowGood
<1>9. IsFiniteSet(S)
  <2> DEFINE g == [k \in 1..Len(rows) |-> rows[k].id]
  <2>1. DOMAIN g = 1..Len(rows) /\ S = {g[k] : k \in 1..Len(rows)}
    BY <1>7
  <2> HIDE DEF g, S
  <2> QED
    BY <1>7, <2>1, FiniteImage
<1>10. \A x \in S : at(x) # {}
  OBVIOUS
<1>11. ASSUME NEW x \in S PROVE Min(at(x)) \in DOMAIN rows /\ rows[Min(at(x))].id = x
  <2> DEFINE P == at(x)
  <2>1. P \in SUBSET (1..Len(rows)) /\ P # {}
    BY <1>7, <1>10
  <2>2. IsFiniteSet(1..Len(rows)) /\ 1..Len(rows) \in SUBSET Nat
    BY <1>7, FS_Interval
  <2> HIDE DEF P
  <2>3. IsFiniteSet(P) /\ P \in SUBSET Nat
    BY <2>1, <2>2, FS_Subset
  <2>4. Min(P) \in P
    BY <2>1, <2>3, MaxMin
  <2> QED
    BY <2>4 DEF P
<1> HIDE DEF S, at
<1>12. Cardinality(S) \in Nat /\ Lists(ids, S)
  BY <1>8, <1>9, InOrderLists
<1> DEFINE m == Cardinality(S)
<1> HIDE DEF ids
<1>13. DOMAIN ids = 1..m /\ \A i \in 1..m : ids[i] \in S
  BY <1>12 DEF Lists
<1> HIDE DEF m
<1>14. /\ latest = [i \in 1..m |-> latest[i]]
       /\ \A i \in 1..m : latest[i] \in V /\ latest[i].id = ids[i]
  BY <1>5, <1>7, <1>11, <1>13
<1>15. IsSeq(latest) /\ DOMAIN latest = 1..m
  BY <1>12, <1>14, SeqOfFn DEF m
<1>16. Sorted(latest)
  <2> SUFFICES ASSUME NEW i \in 1..m, NEW j \in 1..m, i < j
               PROVE  latest[i].id < latest[j].id
    BY <1>15 DEF Sorted
  <2>1. ids[i] < ids[j]
    BY <1>12, <1>13 DEF Lists
  <2> QED
    BY <1>14, <2>1
<1>17. RowsGood(table, f, lim, latest)
  BY <1>3, <1>14, <1>15 DEF RowsGood
<1> QED
  BY <1>16, <1>17 DEF latest

(* read_frame_catalog_chain and read_catalog_chain_dedup, when they return.*)
LEMMA FramesGood ==
  ASSUME NEW f, IsSeq(f), NEW lim, NEW head, ReadFrameChain(f, head).ok
  PROVE  LET rows == ReadFrameChain(f, head).val IN
         RowsGood("FrameCatalog", f, lim, rows) /\ Sorted(rows)
<1> DEFINE c == Chain(f, head, "FrameCatalog", DecodeFrameCatalog)
<1>1. ReadFrameChain(f, head) = IF c.ok THEN Ok(LatestRows(c.val), c.rest) ELSE Err
  BY Zenon DEF ReadFrameChain, Then
<1>2. PICK n \in Nat : DOMAIN f = 1..n
  BY SeqFacts
<1>3. PICK r : WalkOf(f, "FrameCatalog", head, n, r) /\ c = Arrived(r[n])
  BY <1>2, FrameChainWalks
<1> HIDE DEF c
<1>4. c.ok /\ ReadFrameChain(f, head).val = LatestRows(c.val)
  BY <1>1 DEF Ok, Err
<1>5. \A root : Onward(root, "FrameCatalog", f, lim, {}, {})
  BY DEF Onward, CatTables
<1>6. ASSUME NEW acc, Walking("FrameCatalog", f, lim, {}, {}, acc)
      PROVE  Walking("FrameCatalog", f, lim, {}, {}, TypedStep(f, "FrameCatalog", acc))
  <2>1. ASSUME NEW s, DecodeDelta("FrameCatalog", s).ok
        PROVE  RowsGood("FrameCatalog", f, lim, DecodeDelta("FrameCatalog", s).val.rows)
    <3>1. DecodeDelta("FrameCatalog", s) = DecodeFrameCatalog(s)
      BY DEF DecodeDelta
    <3> QED
      BY <2>1, <3>1, FrameRowsGood
  <2> QED
    BY <1>5, <1>6, <2>1, WalkFurther
<1>7. DeltasGood("FrameCatalog", f, lim, Arrived(r[n]).val)
  BY <1>3, <1>4, <1>5, <1>6, WalkEnds
<1>8. PICK ds : ds = c.val
  OBVIOUS
<1> QED
  BY <1>3, <1>4, <1>7, <1>8, LatestGood

(* The same for a catalog that is read from a good root.                   *)
LEMMA CatalogGood ==
  ASSUME NEW f, IsSeq(f), NEW lim, NEW table \in CatTables, NEW head,
         CatOK(f, table, lim, head), ReadCatalogChain(f, head, table).ok
  PROVE  LET rows == ReadCatalogChain(f, head, table).val IN
         RowsGood(table, f, lim, rows) /\ Sorted(rows)
<1> DEFINE c == Chain(f, head, table, LAMBDA d : DecodeCatalogDelta(table, d))
<1>1. ReadCatalogChain(f, head, table) = IF c.ok THEN Ok(LatestRows(c.val), c.rest) ELSE Err
  BY Zenon DEF ReadCatalogChain, Then
<1>2. PICK n \in Nat : DOMAIN f = 1..n
  BY SeqFacts
<1>3. PICK r : WalkOf(f, table, head, n, r) /\ c = Arrived(r[n])
  BY <1>2, CatChainWalks
<1> HIDE DEF c
<1>4. c.ok /\ ReadCatalogChain(f, head, table).val = LatestRows(c.val)
  BY <1>1 DEF Ok, Err
<1>5. PICK A : \E C \in SUBSET DOMAIN f :
         head \in Roots(A, C) /\ CatClosed(f, table, lim, A, C)
  BY DEF CatOK
<1>6. PICK C \in SUBSET DOMAIN f : head \in Roots(A, C) /\ CatClosed(f, table, lim, A, C)
  BY <1>5
<1>7. Onward(head, table, f, lim, A, C)
  BY <1>6 DEF Onward
<1>8. \A acc : Walking(table, f, lim, A, C, acc)
                 => Walking(table, f, lim, A, C, TypedStep(f, table, acc))
  BY CatFurther
<1>9. DeltasGood(table, f, lim, Arrived(r[n]).val)
  BY <1>3, <1>4, <1>7, <1>8, WalkEnds
<1>10. PICK ds : ds = c.val
  OBVIOUS
<1> QED
  BY <1>3, <1>4, <1>9, <1>10, LatestGood

-----------------------------------------------------------------------------
(* A segment registry and an allocator that agree with the file.           *)

RegOK(f, registry, lim) ==
  \A id \in DOMAIN registry :
    /\ id \in Nat /\ id < lim
    /\ registry[id] \in DOMAIN f /\ f[registry[id]].id = id

(* The registry that is read from a good root agrees with the file.        *)
LEMMA RegistryLoads ==
  ASSUME NEW f, IsSeq(f), NEW lim, NEW root, CatOK(f, "SegmentRegistry", lim, root),
         LoadRegistry(f, root).ok
  PROVE  RegOK(f, LoadRegistry(f, root).val, lim)
<1> DEFINE c == ReadCatalogChain(f, root, "SegmentRegistry")
           rows == c.val
           registry == [id \in RowIds(rows) |-> RowOf(rows, id).off]
<1>1. LoadRegistry(f, root) = IF c.ok THEN Ok(registry, c.rest) ELSE Err
  BY Zenon DEF LoadRegistry, Then
<1> HIDE DEF registry
<1>2. c.ok /\ LoadRegistry(f, root).val = registry
  BY <1>1 DEF Ok, Err
<1>3. RowsGood("SegmentRegistry", f, lim, rows)
  BY <1>2, CatalogGood DEF CatTables
<1> HIDE DEF c
<1>4. DOMAIN registry = RowIds(rows)
  BY DEF registry
<1>5. ASSUME NEW id \in RowIds(rows)
      PROVE  /\ id \in Nat /\ id < lim
             /\ registry[id] \in DOMAIN f /\ f[registry[id]].id = id
  <2>1. registry[id] = RowOf(rows, id).off
    BY DEF registry
  <2>2. PICK i \in DOMAIN rows : RowOf(rows, id) = rows[i] /\ rows[i].id = id
    BY DEF RowIds, RowOf
  <2>3. RowGood("SegmentRegistry", f, lim, rows[i])
    BY <1>3 DEF RowsGood
  <2> QED
    BY <2>1, <2>2, <2>3 DEF RowGood
<1> QED
  BY <1>2, <1>4, <1>5 DEF RegOK

(* A table in id order below the number the next row gets.                 *)
TableOK(rows, next) ==
  /\ IsSeq(rows) /\ Sorted(rows) /\ next \in Nat
  /\ \A i \in DOMAIN rows :
       "id" \in DOMAIN rows[i] /\ rows[i].id \in Nat /\ rows[i].id < next

(* observe_catalog_ids.                                                    *)
LEMMA ObserveOK ==
  ASSUME NEW next \in Nat, NEW table, NEW f, NEW lim, NEW rows,
         RowsGood(table, f, lim, rows), Sorted(rows)
  PROVE  TableOK(rows, Observe(next, rows))
<1> DEFINE n == Len(rows)
           g == [i \in 1..n |-> rows[i].id + 1]
           T == {g[i] : i \in 1..n}
           U == {next} \cup T
<1>1. IsSeq(rows) /\ n \in Nat /\ DOMAIN rows = 1..n
  BY SeqFacts DEF RowsGood
<1>2. \A i \in 1..n : "id" \in DOMAIN rows[i] /\ rows[i].id \in Nat
  BY <1>1 DEF RowsGood, RowGood
<1> HIDE DEF n
<1>3. IsFiniteSet(T)
  <2>1. DOMAIN g = 1..n
    OBVIOUS
  <2> HIDE DEF g
  <2> QED
    BY <1>1, <2>1, FiniteImage
<1>4. U \in SUBSET Nat
  BY <1>2
<1>5. {id + 1 : id \in RowIds(rows)} = T
  BY <1>1 DEF RowIds
<1>6. \A i \in 1..n : rows[i].id + 1 \in U
  OBVIOUS
<1> HIDE DEF T
<1>7. IsFiniteSet(U)
  BY <1>3, FS_Singleton, FS_Union
<1>8. next \in U
  OBVIOUS
<1> HIDE DEF U
<1>9. Max(U) \in Nat /\ \A y \in U : y <= Max(U)
  BY <1>4, <1>7, <1>8, MaxMin
<1>10. Observe(next, rows) = Max(U)
  BY <1>5 DEF Observe, U
<1>11. PICK m \in Nat : m = Max(U)
  BY <1>9
<1>12. \A i \in 1..n : rows[i].id < m
  BY <1>2, <1>6, <1>9, <1>11
<1> QED
  BY <1>1, <1>2, <1>10, <1>11, <1>12 DEF TableOK

-----------------------------------------------------------------------------
(* Rows picked from a table, and rows put into it.                         *)

PickedBy(at, s, P) ==
  /\ Lists(at, P) /\ Pick(s, P) = [k \in 1..Cardinality(P) |-> s[at[k]]]

(* The rows at some places of a table, in the order of the places.         *)
LEMMA PickFacts ==
  ASSUME NEW s, IsSeq(s), NEW P \in SUBSET DOMAIN s
  PROVE  /\ Cardinality(P) \in Nat /\ IsSeq(Pick(s, P))
         /\ DOMAIN Pick(s, P) = 1..Cardinality(P)
         /\ \E at : PickedBy(at, s, P)
<1>1. PICK n \in Nat : DOMAIN s = 1..n
  BY SeqFacts
<1>2. IsFiniteSet(P) /\ P \in SUBSET Nat
  <2>1. IsFiniteSet(1..n)
    BY <1>1, FS_Interval
  <2>2. P \in SUBSET (1..n)
    BY <1>1
  <2> QED
    BY <2>1, <2>2, FS_Subset
<1>3. Cardinality(P) \in Nat /\ Lists(InOrder(P), P)
  BY <1>2, InOrderLists
<1>4. DOMAIN InOrder(P) = 1..Cardinality(P)
  BY DEF InOrder
<1>5. Pick(s, P) = [k \in 1..Cardinality(P) |-> s[InOrder(P)[k]]]
  BY <1>4 DEF Pick
<1>6. PickedBy(InOrder(P), s, P)
  BY <1>3, <1>5 DEF PickedBy
<1> QED
  BY <1>3, <1>5, <1>6, PickSeq

Around(w, s, x, t) ==
  /\ IsSeq(w) /\ DOMAIN w = 1..Len(s) + 1 + Len(t)
  /\ \A i \in 1..Len(s) : w[i] = s[i]
  /\ w[Len(s) + 1] = x
  /\ \A i \in 1..Len(t) : w[Len(s) + 1 + i] = t[i]

(* Rows, one row and more rows, one after the other.                       *)
LEMMA ThreeParts ==
  ASSUME NEW s, IsSeq(s), NEW x, NEW t, IsSeq(t)
  PROVE  Around(s \o <<x>> \o t, s, x, t)
<1>1. PICK S : s \in Seq(S)
  BY DEF IsSeq
<1>2. PICK T : t \in Seq(T)
  BY DEF IsSeq
<1> DEFINE U == S \cup T \cup {x}
           v == s \o <<x>>
           w == v \o t
<1>3. S \subseteq U /\ T \subseteq U /\ x \in U
  OBVIOUS
<1> HIDE DEF U
<1>4. s \in Seq(U) /\ t \in Seq(U)
  BY <1>1, <1>2, <1>3, SeqMonotonic
<1>5. <<x>> \in Seq(U) /\ Len(<<x>>) = 1 /\ <<x>>[1] = x
  BY <1>3
<1>6. Len(s) \in Nat /\ Len(t) \in Nat
  BY <1>4, LenProperties
<1>7. /\ v \in Seq(U) /\ Len(v) = Len(s) + 1
      /\ \A i \in 1..Len(s) + 1 : v[i] = IF i <= Len(s) THEN s[i] ELSE <<x>>[i - Len(s)]
  BY <1>4, <1>5, ConcatProperties
<1>8. (\A i \in 1..Len(s) : v[i] = s[i]) /\ v[Len(s) + 1] = x
  BY <1>5, <1>6, <1>7
<1> HIDE DEF v
<1>9. /\ w \in Seq(U) /\ Len(w) = Len(s) + 1 + Len(t)
      /\ \A i \in 1..Len(v) + Len(t) : w[i] = IF i <= Len(v) THEN v[i] ELSE t[i - Len(v)]
  <2>1. /\ w \in Seq(U) /\ Len(w) = Len(v) + Len(t)
        /\ \A i \in 1..Len(v) + Len(t) : w[i] = IF i <= Len(v) THEN v[i] ELSE t[i - Len(v)]
    <3>1. v \in Seq(U) /\ t \in Seq(U)
      BY <1>4, <1>7
    <3> QED
      BY <3>1, ConcatProperties, Zenon
  <2> QED
    BY <1>7, <2>1
<1>10. DOMAIN w = 1..Len(w)
  BY <1>9, LenProperties
<1> HIDE DEF w
<1>11. ASSUME NEW i \in 1..Len(t) PROVE w[Len(s) + 1 + i] = t[i]
  <2>1. /\ Len(s) + 1 + i \in 1..Len(v) + Len(t) /\ ~(Len(s) + 1 + i <= Len(v))
        /\ (Len(s) + 1 + i) - Len(v) = i
    BY <1>6, <1>7
  <2> QED
    BY <1>9, <2>1
<1>12. /\ \A i \in 1..Len(s) : w[i] = s[i]
       /\ w[Len(s) + 1] = x
  BY <1>6, <1>7, <1>8, <1>9
<1> QED
  BY <1>9, <1>10, <1>11, <1>12 DEF w, v, IsSeq, Around

(* upsert_*: the table stays in order, and only the row's id is new.       *)
LEMMA UpsertOK ==
  ASSUME NEW rows, NEW next, TableOK(rows, next), NEW row, "id" \in DOMAIN row,
         row.id \in Nat, NEW up \in Nat, row.id < up, next <= up
  PROVE  /\ TableOK(Upsert(rows, row), up)
         /\ RowIds(Upsert(rows, row)) = RowIds(rows) \cup {row.id}
<1> DEFINE P == {i \in DOMAIN rows : rows[i].id < row.id}
           Q == {i \in DOMAIN rows : rows[i].id > row.id}
           s == Pick(rows, P)
           t == Pick(rows, Q)
           w == s \o <<row>> \o t
           a == Cardinality(P)
           b == Cardinality(Q)
<1>1. Upsert(rows, row) = w
  BY DEF Upsert
<1>2. P \in SUBSET DOMAIN rows /\ Q \in SUBSET DOMAIN rows
  OBVIOUS
<1>3. /\ \A i \in P : rows[i].id < row.id
      /\ \A i \in Q : row.id < rows[i].id
      /\ \A i \in DOMAIN rows : i \in P \/ i \in Q \/ rows[i].id = row.id
  BY DEF TableOK
<1> HIDE DEF P, Q
<1>4. PICK p : PickedBy(p, rows, P)
  BY <1>2, PickFacts, Zenon DEF TableOK
<1>5. PICK q : PickedBy(q, rows, Q)
  BY <1>2, PickFacts DEF TableOK
<1>6. /\ a \in Nat /\ IsSeq(s) /\ DOMAIN s = 1..a
      /\ b \in Nat /\ IsSeq(t) /\ DOMAIN t = 1..b
  BY <1>2, PickFacts DEF TableOK
<1>7. Len(s) = a /\ Len(t) = b
  <2>1. Len(s) \in Nat /\ DOMAIN s = 1..Len(s) /\ Len(t) \in Nat /\ DOMAIN t = 1..Len(t)
    BY <1>6, SeqFacts
  <2> HIDE DEF s, t, a, b
  <2>2. \A m, n \in Nat : 1..m = 1..n => m = n
    OBVIOUS
  <2> QED
    BY <1>6, <2>1, <2>2
<1>8. /\ \A k \in 1..a : p[k] \in P /\ s[k] = rows[p[k]]
      /\ \A k \in 1..b : q[k] \in Q /\ t[k] = rows[q[k]]
      /\ \A i \in P : \E k \in 1..a : p[k] = i
      /\ \A i \in Q : \E k \in 1..b : q[k] = i
      /\ \A j, k \in 1..a : j < k => p[j] < p[k]
      /\ \A j, k \in 1..b : j < k => q[j] < q[k]
  BY <1>4, <1>5 DEF PickedBy, Lists
<1>9. /\ IsSeq(w) /\ DOMAIN w = 1..a + 1 + b
      /\ \A i \in 1..a : w[i] = s[i]
      /\ w[a + 1] = row
      /\ \A i \in 1..b : w[a + 1 + i] = t[i]
  <2> HIDE DEF s, t, a, b
  <2>1. Around(w, s, row, t)
    BY <1>6, ThreeParts
  <2> HIDE DEF w
  <2> QED
    BY <1>7, <2>1 DEF Around
<1> HIDE DEF a, b, s, t, w
<1>10. \A i \in 1..a + 1 + b : i \in 1..a \/ i = a + 1 \/ \E k \in 1..b : i = a + 1 + k
  <2> SUFFICES ASSUME NEW i \in 1..a + 1 + b, ~(i \in 1..a), i # a + 1
               PROVE  \E k \in 1..b : i = a + 1 + k
    OBVIOUS
  <2>1. i - (a + 1) \in 1..b /\ i = a + 1 + (i - (a + 1))
    BY <1>6
  <2> QED
    BY <2>1
<1>11. \A i \in DOMAIN rows : "id" \in DOMAIN rows[i] /\ rows[i].id \in Nat /\ rows[i].id < next
  BY DEF TableOK
<1>12. next \in Nat
  BY DEF TableOK
<1>13. ASSUME NEW i \in DOMAIN w
       PROVE  "id" \in DOMAIN w[i] /\ w[i].id \in Nat /\ w[i].id < up
  <2>1. w[i] = row \/ \E j \in DOMAIN rows : w[i] = rows[j]
    BY <1>2, <1>8, <1>9, <1>10
  <2> QED
    BY <1>11, <1>12, <2>1
<1>14. /\ \A i \in 1..a : w[i] = rows[p[i]] /\ p[i] \in P
       /\ \A i \in 1..b : w[a + 1 + i] = rows[q[i]] /\ q[i] \in Q
  BY <1>8, <1>9
<1>15. ASSUME NEW i \in DOMAIN w, NEW j \in DOMAIN w, i < j PROVE w[i].id < w[j].id
  <2>1. \A x, y \in DOMAIN rows : x < y => rows[x].id < rows[y].id
    BY DEF TableOK, Sorted
  <2>2. CASE i \in 1..a /\ j \in 1..a
    <3>1. p[i] < p[j] /\ p[i] \in DOMAIN rows /\ p[j] \in DOMAIN rows
      BY <1>2, <1>8, <1>15, <2>2
    <3> QED
      BY <1>14, <2>1, <2>2, <3>1
  <2>3. CASE i \in 1..a /\ j = a + 1
    BY <1>3, <1>9, <1>14, <2>3
  <2>4. CASE i \in 1..a /\ j \notin 1..a /\ j # a + 1
    <3>1. PICK k \in 1..b : j = a + 1 + k
      BY <1>9, <1>10, <2>4
    <3>2. w[i].id < row.id /\ row.id < w[j].id
      BY <1>3, <1>14, <2>4, <3>1
    <3>3. w[i].id \in Nat /\ w[j].id \in Nat
      BY <1>13
    <3> QED
      BY <3>2, <3>3
  <2>5. CASE i = a + 1
    <3>1. PICK k \in 1..b : j = a + 1 + k
      BY <1>6, <1>9, <1>10, <1>15, <2>5
    <3> QED
      BY <1>3, <1>9, <1>14, <2>5, <3>1
  <2>6. CASE i \notin 1..a /\ i # a + 1
    <3>1. PICK k \in 1..b : i = a + 1 + k
      BY <1>9, <1>10, <2>6
    <3>2. j \notin 1..a /\ j # a + 1
      BY <1>6, <1>15, <3>1
    <3>3. PICK l \in 1..b : j = a + 1 + l
      BY <1>9, <1>10, <3>2
    <3>4. k < l
      BY <1>6, <1>15, <3>1, <3>3
    <3>5. q[k] < q[l] /\ q[k] \in DOMAIN rows /\ q[l] \in DOMAIN rows
      BY <1>2, <1>8, <3>4
    <3> QED
      BY <1>14, <2>1, <3>1, <3>3, <3>5
  <2> QED
    BY <1>9, <1>10, <2>2, <2>3, <2>4, <2>5, <2>6
<1>16. RowIds(w) \subseteq RowIds(rows) \cup {row.id}
  <2> SUFFICES ASSUME NEW i \in DOMAIN w PROVE w[i].id \in RowIds(rows) \cup {row.id}
    BY DEF RowIds
  <2>1. w[i] = row \/ \E j \in DOMAIN rows : w[i] = rows[j]
    BY <1>2, <1>8, <1>9, <1>10
  <2> QED
    BY <2>1 DEF RowIds
<1>17. RowIds(rows) \cup {row.id} \subseteq RowIds(w)
  <2>1. a + 1 \in DOMAIN w /\ w[a + 1].id = row.id
    BY <1>6, <1>9
  <2>2. ASSUME NEW i \in DOMAIN rows PROVE \E j \in DOMAIN w : w[j].id = rows[i].id
    <3>1. CASE i \in P
      <4>1. PICK k \in 1..a : p[k] = i
        BY <1>8, <3>1
      <4>2. k \in DOMAIN w
        BY <1>6, <1>9
      <4> QED
        BY <1>14, <4>1, <4>2
    <3>2. CASE i \in Q
      <4>1. PICK k \in 1..b : q[k] = i
        BY <1>8, <3>2
      <4>2. a + 1 + k \in DOMAIN w
        BY <1>6, <1>9
      <4> QED
        BY <1>14, <4>1, <4>2
    <3> QED
      BY <1>3, <2>1, <3>1, <3>2
  <2> QED
    BY <2>1, <2>2 DEF RowIds
<1>18. TableOK(w, up)
  BY <1>9, <1>13, <1>15 DEF TableOK, Sorted
<1> QED
  BY <1>1, <1>16, <1>17, <1>18

(* dirty_records: rows of the table.                                       *)
LEMMA DirtyGood ==
  ASSUME NEW rows, NEW next, TableOK(rows, next), NEW ids, NEW table, NEW f, NEW lim,
         table # "SegmentRegistry"
  PROVE  RowsGood(table, f, lim, DirtyRecords(rows, ids))
<1> DEFINE P == {i \in DOMAIN rows : rows[i].id \in ids}
           s == Pick(rows, P)
<1>1. P \in SUBSET DOMAIN rows
  OBVIOUS
<1>2. DirtyRecords(rows, ids) = s
  BY DEF DirtyRecords
<1> HIDE DEF P
<1>3. PICK p : PickedBy(p, rows, P)
  BY <1>1, PickFacts DEF TableOK
<1>4. IsSeq(s) /\ DOMAIN s = 1..Cardinality(P)
  BY <1>1, PickFacts DEF TableOK
<1>5. \A k \in 1..Cardinality(P) : s[k] = rows[p[k]] /\ p[k] \in DOMAIN rows
  BY <1>1, <1>3 DEF PickedBy, Lists
<1> HIDE DEF s
<1>6. \A k \in DOMAIN s : "id" \in DOMAIN s[k] /\ s[k].id \in Nat
  BY <1>4, <1>5 DEF TableOK
<1> QED
  BY <1>2, <1>4, <1>6 DEF RowsGood, RowGood

-----------------------------------------------------------------------------
(* The buffers: each frame that waits in one is in the table, and waits    *)
(* there once.                                                             *)

BufOK(b, ids) ==
  /\ IsSeq(b.frames) /\ {"buf", "frames"} \subseteq DOMAIN b
  /\ \A i \in DOMAIN b.frames : b.frames[i].frame \in ids
  /\ \A i, j \in DOMAIN b.frames : b.frames[i].frame = b.frames[j].frame => i = j

(* Nothing waits in an empty buffer.                                       *)
LEMMA EmptyBufOK == ASSUME NEW ids PROVE BufOK(EmptyBuf, ids)
<1>1. <<>> \in Seq({}) /\ DOMAIN <<>> = {}
  BY EmptySeq
<1> QED
  BY <1>1 DEF BufOK, EmptyBuf, IsSeq

(* The bytes of a frame that is new to the table join the buffer.          *)
LEMMA AddBytesOK ==
  ASSUME NEW b, NEW ids, BufOK(b, ids), NEW f, f \notin ids, NEW bytes
  PROVE  BufOK(AddBytes(b, f, bytes), ids \cup {f})
<1> DEFINE fs == b.frames
           n == Len(fs)
           e == [frame |-> f, off |-> Len(b.buf), len |-> Len(bytes)]
           v == AddBytes(b, f, bytes)
           gs == Append(fs, e)
<1>1. v.frames = gs /\ DOMAIN v = {"buf", "frames"}
  BY DEF AddBytes
<1>2. e.frame = f
  OBVIOUS
<1> HIDE DEF v, e
<1>3. /\ IsSeq(fs) /\ n \in Nat /\ DOMAIN fs = 1..n
      /\ Grown(fs, gs) /\ Len(gs) = n + 1 /\ gs[n + 1] = e
  BY AppendGrown, SeqFacts DEF BufOK
<1>4. IsSeq(gs) /\ DOMAIN gs = 1..n + 1 /\ \A i \in 1..n : gs[i] = fs[i]
  BY <1>3, SeqFacts DEF Grown
<1> HIDE DEF gs
<1>5. \A i \in 1..n : fs[i].frame \in ids
  BY <1>3 DEF BufOK
<1>6. \A i, j \in 1..n : fs[i].frame = fs[j].frame => i = j
  BY <1>3 DEF BufOK
<1> HIDE DEF fs, n
<1>7. \A i \in 1..n + 1 : i \in 1..n \/ i = n + 1
  BY <1>3
<1>8. \A i \in DOMAIN gs : gs[i].frame \in ids \cup {f}
  BY <1>2, <1>3, <1>4, <1>5, <1>7
<1>9. \A i, j \in DOMAIN gs : gs[i].frame = gs[j].frame => i = j
  BY <1>2, <1>3, <1>4, <1>5, <1>6, <1>7
<1>10. BufOK(v, ids \cup {f})
  BY <1>1, <1>4, <1>8, <1>9 DEF BufOK
<1> QED
  BY <1>10 DEF v

-----------------------------------------------------------------------------
(* A writer whose tables, registry and roots are in order.  low is an      *)
(* allocator of segments that a footer still has.                          *)

PlaceOK(w, low) ==
  /\ low \in Nat /\ w.h.alloc.segment \in Nat /\ low <= w.h.alloc.segment
  /\ RegOK(w.file, w.h.registry, w.h.alloc.segment)
  /\ w.h.dirty.segment \subseteq DOMAIN w.h.registry /\ IsFiniteSet(w.h.dirty.segment)
  /\ w.h.batch # <<>> =>
       /\ "seg" \in DOMAIN w.h.batch[1] /\ w.h.batch[1].seg \in Nat
       /\ w.h.batch[1].seg < w.h.alloc.segment
  /\ w.h.mapped \in Nat /\ w.h.mapped <= Len(w.file)
RowsOK(hd) ==
  /\ TableOK(hd.collections, hd.alloc.collection)
  /\ TableOK(hd.frames, hd.alloc.frame)
  /\ TableOK(hd.vectors, hd.alloc.vector)
  /\ hd.dirty.frame \subseteq RowIds(hd.frames)
  /\ hd.dirty.vector \subseteq RowIds(hd.vectors)
  /\ BufOK(hd.payloads, RowIds(hd.frames)) /\ BufOK(hd.uris, RowIds(hd.frames))
RootsOK(f, body, lim) ==
  /\ CatOK(f, "CollectionCatalog", lim, body.collection)
  /\ CatOK(f, "VectorCatalog", lim, body.vector)
  /\ CatOK(f, "SegmentRegistry", lim, body.segments)
Safe(w, low) ==
  /\ WriterShape(w) /\ PlaceOK(w, low) /\ RowsOK(w.h)
  /\ RootsOK(w.file, w.body, w.h.alloc.segment)

(* What leaves each of them as it is.                                      *)
PlaceSame(w, v) ==
  /\ v.file = w.file /\ v.h.registry = w.h.registry
  /\ v.h.alloc.segment = w.h.alloc.segment /\ v.h.dirty.segment = w.h.dirty.segment
  /\ v.h.batch = w.h.batch /\ v.h.mapped = w.h.mapped
RowsSame(a, b) ==
  /\ b.collections = a.collections /\ b.frames = a.frames /\ b.vectors = a.vectors
  /\ b.payloads = a.payloads /\ b.uris = a.uris
  /\ b.alloc.collection = a.alloc.collection /\ b.alloc.frame = a.alloc.frame
  /\ b.alloc.vector = a.alloc.vector
  /\ b.dirty.frame = a.dirty.frame /\ b.dirty.vector = a.dirty.vector
RootsSame(a, b) ==
  b.collection = a.collection /\ b.vector = a.vector /\ b.segments = a.segments

(* Tables that are the same are as good.                                   *)
LEMMA RowsKeptOK ==
  ASSUME NEW a, NEW b, RowsOK(a), RowsSame(a, b) PROVE RowsOK(b)
  BY DEF RowsOK, RowsSame

(* A writer that differs in its rows only is as good as they are.          *)
LEMMA SafeSame ==
  ASSUME NEW w, NEW low, Safe(w, low), NEW v, WriterShape(v),
         PlaceSame(w, v), RowsOK(v.h), RootsSame(w.body, v.body)
  PROVE  Safe(v, low)
  BY DEF Safe, PlaceOK, PlaceSame, RootsOK, RootsSame

(* Roots stay good as the file grows and the allocator moves on.           *)
LEMMA RootsGrown ==
  ASSUME NEW f, NEW g, Grown(f, g), NEW lim \in Nat, NEW up \in Nat, lim <= up,
         NEW body, RootsOK(f, body, lim)
  PROVE  RootsOK(g, body, up)
<1>1. PICK x, y, z : x = body.collection /\ y = body.vector /\ z = body.segments
  OBVIOUS
<1>2. /\ CatOK(f, "CollectionCatalog", lim, x) /\ CatOK(f, "VectorCatalog", lim, y)
      /\ CatOK(f, "SegmentRegistry", lim, z)
  BY <1>1 DEF RootsOK
<1>3. /\ CatOK(g, "CollectionCatalog", up, x) /\ CatOK(g, "VectorCatalog", up, y)
      /\ CatOK(g, "SegmentRegistry", up, z)
  BY <1>2, CatKept
<1> QED
  BY <1>1, <1>3 DEF RootsOK

(* And so does the registry.                                               *)
LEMMA RegGrown ==
  ASSUME NEW f, NEW g, Grown(f, g), NEW lim \in Nat, NEW up \in Nat, lim <= up,
         NEW reg, RegOK(f, reg, lim)
  PROVE  RegOK(g, reg, up)
  BY DEF RegOK, Grown

(* append_segment_at_end and register_segment, of an id that was taken.    *)
LEMMA AppendSegmentSafe ==
  ASSUME NEW w, NEW low, Safe(w, low), NEW id \in Nat, id < w.h.alloc.segment,
         NEW type, NEW payload
  PROVE  LET v == AppendSegment(w, id, type, payload) IN
         /\ Safe(v, low) /\ RowsSame(w.h, v.h) /\ v.body = w.body
         /\ v.h.alloc = w.h.alloc /\ v.h.batch = w.h.batch
<1> DEFINE v == AppendSegment(w, id, type, payload)
           seg == [id |-> id, type |-> type, payload |-> payload]
           lim == w.h.alloc.segment
           m == Len(w.file) + 1
<1>1. WriterShape(w) /\ IsSeq(w.file) /\ lim \in Nat /\ Len(w.file) \in Nat
  BY SeqFacts DEF Safe, WriterShape, PlaceOK
<1>2. WriterShape(v)
  BY <1>1, AppendSegmentQuiet DEF Quiet
<1>3. /\ v.file = Append(w.file, seg) /\ v.body = w.body
      /\ v.h.alloc = w.h.alloc /\ v.h.batch = w.h.batch /\ v.h.mapped = w.h.mapped
      /\ v.h.registry = Insert(w.h.registry, id, m)
      /\ v.h.dirty.segment = w.h.dirty.segment \cup {id}
      /\ v.h.dirty.frame = w.h.dirty.frame /\ v.h.dirty.vector = w.h.dirty.vector
      /\ v.h.collections = w.h.collections /\ v.h.frames = w.h.frames
      /\ v.h.vectors = w.h.vectors /\ v.h.payloads = w.h.payloads /\ v.h.uris = w.h.uris
  BY <1>1 DEF AppendSegment, WriterShape, HandleShape, HandleFields, Tables
<1>4. seg.id = id
  OBVIOUS
<1> HIDE DEF v, seg, lim, m
<1>5. /\ Grown(w.file, v.file) /\ Len(v.file) = Len(w.file) + 1
      /\ m \in DOMAIN v.file /\ v.file[m] = seg
  BY <1>1, <1>3, AppendGrown DEF m
<1>6. RowsSame(w.h, v.h)
  BY <1>3 DEF RowsSame
<1>7. RowsOK(v.h)
  <2>1. PICK a, b : a = w.h /\ b = v.h
    OBVIOUS
  <2> QED
    BY <1>6, <2>1, RowsKeptOK DEF Safe
<1>8. lim <= lim
  BY <1>1
<1>9. RootsOK(v.file, v.body, lim)
  <2>1. RootsOK(w.file, w.body, lim)
    BY DEF Safe, lim
  <2>2. PICK g : g = v.file
    OBVIOUS
  <2>3. PICK f, body : f = w.file /\ body = w.body
    OBVIOUS
  <2> QED
    BY <1>1, <1>3, <1>5, <1>8, <2>1, <2>2, <2>3, RootsGrown
<1>10. RegOK(v.file, v.h.registry, lim)
  <2>1. RegOK(w.file, w.h.registry, lim)
    BY DEF Safe, PlaceOK, lim
  <2>2. RegOK(v.file, w.h.registry, lim)
    <3>1. PICK g, f, reg : g = v.file /\ f = w.file /\ reg = w.h.registry
      OBVIOUS
    <3>2. PICK l \in Nat : l = lim
      BY <1>1
    <3>3. RegOK(f, reg, l) /\ Grown(f, g) /\ l <= l
      BY <1>5, <2>1, <3>1, <3>2
    <3>4. RegOK(g, reg, l)
      BY <3>3, RegGrown
    <3> QED
      BY <3>1, <3>2, <3>4
  <2>3. DOMAIN v.h.registry = DOMAIN w.h.registry \cup {id}
    BY <1>3 DEF Insert
  <2>4. \A x \in DOMAIN v.h.registry :
          v.h.registry[x] = IF x = id THEN m ELSE w.h.registry[x]
    BY <1>3 DEF Insert
  <2> QED
    BY <1>4, <1>5, <2>2, <2>3, <2>4 DEF RegOK, lim
<1>11. PlaceOK(v, low)
  <2>1. /\ v.h.dirty.segment \subseteq DOMAIN v.h.registry
        /\ IsFiniteSet(v.h.dirty.segment)
    <3>1. DOMAIN v.h.registry = DOMAIN w.h.registry \cup {id}
      BY <1>3 DEF Insert
    <3>2. w.h.dirty.segment \subseteq DOMAIN w.h.registry /\ IsFiniteSet(w.h.dirty.segment)
      BY DEF Safe, PlaceOK
    <3>3. IsFiniteSet({id})
      BY FS_Singleton
    <3>4. PICK S : S = w.h.dirty.segment
      OBVIOUS
    <3>5. IsFiniteSet(S \cup {id})
      BY <3>2, <3>3, <3>4, FS_Union
    <3> QED
      BY <1>3, <3>1, <3>2, <3>4, <3>5
  <2>2. v.h.mapped \in Nat /\ v.h.mapped <= Len(v.file)
    BY <1>1, <1>3, <1>5 DEF Safe, PlaceOK
  <2> QED
    BY <1>3, <1>10, <2>1, <2>2 DEF Safe, PlaceOK, lim
<1>12. Safe(v, low)
  BY <1>2, <1>3, <1>7, <1>9, <1>11 DEF Safe, lim
<1> QED
  BY <1>3, <1>6, <1>12 DEF v

(* append_registered_segment, of whatever an encoder returned.             *)
LEMMA AppendRegisteredSafe ==
  ASSUME NEW w, NEW low, Safe(w, low), NEW type, NEW encoded
  PROVE  LET v == AppendRegistered(w, type, encoded) IN
         /\ Safe(v, low) /\ RowsSame(w.h, v.h) /\ v.body = w.body
         /\ v.h.batch = w.h.batch
         /\ encoded.ok => v.h.alloc.segment = w.h.alloc.segment + 1
<1>1. CASE ~encoded.ok
  <2> DEFINE v == [w EXCEPT !.ok = FALSE]
  <2>1. AppendRegistered(w, type, encoded) = v
    BY <1>1 DEF AppendRegistered
  <2>2. v.file = w.file /\ v.h = w.h /\ v.body = w.body /\ DOMAIN v = DOMAIN w
    BY DEF Safe, WriterShape
  <2> HIDE DEF v
  <2>3. WriterShape(v) /\ PlaceSame(w, v) /\ RowsOK(v.h) /\ RootsSame(w.body, v.body)
    BY <2>2 DEF Safe, WriterShape, PlaceSame, RootsSame
  <2>4. Safe(v, low) /\ RowsSame(w.h, v.h)
    BY <2>2, <2>3, SafeSame DEF RowsSame
  <2> QED
    BY <1>1, <2>1, <2>2, <2>4
<1>2. CASE encoded.ok
  <2> DEFINE u == [w EXCEPT !.h.alloc.segment = @ + 1]
             id == w.h.alloc.segment
             v == AppendSegment(u, id, type, encoded.val)
  <2>1. AppendRegistered(w, type, encoded) = v
    BY <1>2 DEF AppendRegistered
  <2>2. /\ DOMAIN u = DOMAIN w /\ DOMAIN u.h = DOMAIN w.h
        /\ DOMAIN u.h.alloc = DOMAIN w.h.alloc /\ u.h.dirty = w.h.dirty
        /\ u.file = w.file /\ u.body = w.body
        /\ u.h.batch = w.h.batch /\ u.h.mapped = w.h.mapped
        /\ u.h.registry = w.h.registry /\ u.h.alloc.segment = id + 1
        /\ u.h.alloc.collection = w.h.alloc.collection
        /\ u.h.alloc.frame = w.h.alloc.frame /\ u.h.alloc.vector = w.h.alloc.vector
        /\ u.h.collections = w.h.collections /\ u.h.frames = w.h.frames
        /\ u.h.vectors = w.h.vectors /\ u.h.payloads = w.h.payloads /\ u.h.uris = w.h.uris
    BY DEF Safe, WriterShape, HandleShape, HandleFields, Tables
  <2> HIDE DEF u
  <2>3. WriterShape(u)
    BY <2>2 DEF Safe, WriterShape, HandleShape
  <2>4. id \in Nat /\ id + 1 \in Nat /\ id <= id + 1 /\ id < id + 1
    BY DEF Safe, PlaceOK
  <2>5. RowsSame(w.h, u.h)
    BY <2>2 DEF RowsSame
  <2>6. RowsOK(u.h)
    <3>1. PICK a, b : a = w.h /\ b = u.h
      OBVIOUS
    <3> QED
      BY <2>5, <3>1, RowsKeptOK DEF Safe
  <2>7. Grown(w.file, w.file)
    BY DEF Grown, Safe, WriterShape
  <2>8. RootsOK(w.file, w.body, id + 1) /\ RegOK(w.file, w.h.registry, id + 1)
    <3>1. PICK f, body, reg : f = w.file /\ body = w.body /\ reg = w.h.registry
      OBVIOUS
    <3>2. RootsOK(f, body, id) /\ RegOK(f, reg, id)
      BY <3>1 DEF Safe, PlaceOK
    <3>3. PICK lim \in Nat : lim = id
      BY <2>4
    <3>4. PICK up \in Nat : up = id + 1
      BY <2>4
    <3> HIDE DEF id
    <3>5. RootsOK(f, body, up) /\ RegOK(f, reg, up)
      BY <2>4, <2>7, <3>1, <3>2, <3>3, <3>4, RootsGrown, RegGrown
    <3> QED
      BY <3>1, <3>4, <3>5
  <2>9. PlaceOK(u, low)
    BY <2>2, <2>4, <2>8 DEF Safe, PlaceOK
  <2>10. Safe(u, low)
    BY <2>2, <2>3, <2>6, <2>8, <2>9 DEF Safe
  <2>11. /\ Safe(v, low) /\ RowsSame(u.h, v.h) /\ v.body = u.body
         /\ v.h.alloc = u.h.alloc /\ v.h.batch = u.h.batch
    <3>1. PICK i \in Nat : i = id
      BY <2>4
    <3>2. PICK payload : payload = encoded.val
      OBVIOUS
    <3>3. i < u.h.alloc.segment
      BY <2>2, <2>4, <3>1
    <3> HIDE DEF id
    <3> QED
      BY <2>10, <3>1, <3>2, <3>3, AppendSegmentSafe
  <2> HIDE DEF v, id
  <2>12. RowsSame(w.h, v.h)
    BY <2>5, <2>11 DEF RowsSame
  <2> QED
    BY <2>1, <2>2, <2>11, <2>12 DEF id
<1> QED
  BY <1>1, <1>2

-----------------------------------------------------------------------------
(* The stages of a commit keep a writer in order.                          *)

(* A table whose rows change but for their ids.                            *)
LEMMA SameIdsOK ==
  ASSUME NEW rows, NEW next, TableOK(rows, next), NEW g, IsSeq(g), DOMAIN g = DOMAIN rows,
         \A i \in DOMAIN rows : "id" \in DOMAIN g[i] /\ g[i].id = rows[i].id
  PROVE  TableOK(g, next) /\ RowIds(g) = RowIds(rows)
<1>1. TableOK(g, next)
  BY DEF TableOK, Sorted
<1>2. RowIds(g) = RowIds(rows)
  BY DEF RowIds
<1> QED
  BY <1>1, <1>2

(* flush_pending_payloads: the rows keep their ids, the buffers are empty. *)
LEMMA FlushPayloadsSafe ==
  ASSUME NEW w, NEW low, Safe(w, low) PROVE Safe(FlushPayloads(w), low)
<1>1. CASE w.h.payloads.frames = <<>>
  BY <1>1 DEF FlushPayloads
<1>2. CASE w.h.payloads.frames # <<>>
  <2> DEFINE p == w.h.payloads
             u == w.h.uris
             seg == w.h.alloc.segment
             w1 == AppendRegistered(w, "Payload", Ok(p.buf, <<>>))
             useg == w1.h.alloc.segment
             w2 == IF u.frames = <<>> THEN w1
                   ELSE AppendRegistered(w1, "Metadata", Ok(u.buf, <<>>))
             set(r) ==
               [r EXCEPT
                 !.payload = IF r.id \in InBuffer(p) THEN BufferRef(p, seg, r.id)
                             ELSE @,
                 !.uri = IF r.id \in InBuffer(u) THEN BufferRef(u, useg, r.id)
                         ELSE @]
             g == [i \in DOMAIN w2.h.frames |-> set(w2.h.frames[i])]
             v == [w2 EXCEPT !.h.frames = [i \in DOMAIN @ |-> set(@[i])],
                             !.h.dirty.frame = @ \cup InBuffer(p) \cup InBuffer(u),
                             !.h.payloads = EmptyBuf, !.h.uris = EmptyBuf]
  <2>1. FlushPayloads(w) = v
    BY <1>2, Zenon DEF FlushPayloads
  <2>2. Safe(w1, low) /\ RowsSame(w.h, w1.h)
    BY AppendRegisteredSafe
  <2> HIDE DEF w1
  <2>3. Safe(w2, low) /\ RowsSame(w.h, w2.h)
    <3>1. /\ Safe(AppendRegistered(w1, "Metadata", Ok(u.buf, <<>>)), low)
          /\ RowsSame(w1.h, AppendRegistered(w1, "Metadata", Ok(u.buf, <<>>)).h)
      BY <2>2, AppendRegisteredSafe
    <3> QED
      BY <2>2, <3>1 DEF RowsSame
  <2> HIDE DEF w2, seg, useg
  <2>4. WriterShape(w2) /\ RowsOK(w2.h)
    BY <2>3 DEF Safe
  <2>5. InBuffer(p) \subseteq RowIds(w2.h.frames) /\ InBuffer(u) \subseteq RowIds(w2.h.frames)
    BY <2>3 DEF Safe, RowsOK, BufOK, InBuffer, RowsSame
  <2> HIDE DEF p, u
  <2>6. /\ IsSeq(w2.h.frames) /\ DOMAIN g = DOMAIN w2.h.frames
        /\ \A i \in DOMAIN w2.h.frames :
             "id" \in DOMAIN g[i] /\ g[i].id = w2.h.frames[i].id
    BY <2>4, Zenon DEF RowsOK, TableOK
  <2>7. IsSeq(g)
    <3> DEFINE n == Len(w2.h.frames)
    <3>1. n \in Nat /\ DOMAIN w2.h.frames = 1..n
      BY <2>6, SeqFacts, Zenon
    <3> HIDE DEF set, n
    <3>2. g = [i \in 1..n |-> g[i]]
      BY <3>1
    <3> HIDE DEF g
    <3> QED
      BY <3>1, <3>2, SeqOfFn
  <2>8. /\ DOMAIN v = DOMAIN w2 /\ v.file = w2.file /\ v.body = w2.body
        /\ DOMAIN v.h = DOMAIN w2.h /\ v.h.alloc = w2.h.alloc
        /\ DOMAIN v.h.dirty = DOMAIN w2.h.dirty /\ v.h.frames = g
        /\ v.h.vectors = w2.h.vectors /\ v.h.collections = w2.h.collections
        /\ v.h.registry = w2.h.registry /\ v.h.batch = w2.h.batch
        /\ v.h.mapped = w2.h.mapped /\ v.h.dirty.segment = w2.h.dirty.segment
        /\ v.h.dirty.vector = w2.h.dirty.vector
        /\ v.h.dirty.frame = w2.h.dirty.frame \cup InBuffer(p) \cup InBuffer(u)
        /\ v.h.payloads = EmptyBuf /\ v.h.uris = EmptyBuf
    <3> HIDE DEF set
    <3> QED
      BY <2>4, Zenon DEF WriterShape, HandleShape, HandleFields, Tables
  <2> HIDE DEF v, set, g
  <2>9. TableOK(g, w2.h.alloc.frame) /\ RowIds(g) = RowIds(w2.h.frames)
    <3>1. PICK rows, next, k : rows = w2.h.frames /\ next = w2.h.alloc.frame /\ k = g
      OBVIOUS
    <3>2. TableOK(rows, next)
      BY <2>4, <3>1 DEF RowsOK
    <3>3. TableOK(k, next) /\ RowIds(k) = RowIds(rows)
      BY <2>6, <2>7, <3>1, <3>2, SameIdsOK
    <3> QED
      BY <3>1, <3>3
  <2>10. WriterShape(v)
    BY <2>4, <2>7, <2>8 DEF WriterShape, HandleShape
  <2>11. RowsOK(v.h)
    BY <2>4, <2>5, <2>8, <2>9, EmptyBufOK DEF RowsOK
  <2>12. PlaceSame(w2, v) /\ RootsSame(w2.body, v.body)
    BY <2>8 DEF PlaceSame, RootsSame
  <2>13. Safe(v, low)
    BY <2>3, <2>10, <2>11, <2>12, SafeSame
  <2> QED
    BY <2>1, <2>13
<1> QED
  BY <1>1, <1>2

(* flush_pending_vector_batches: the segment has the id the batch took.    *)
LEMMA FlushVectorsSafe ==
  ASSUME NEW w, NEW low, Safe(w, low) PROVE Safe(FlushVectors(w), low)
<1>1. CASE w.h.batch = <<>>
  BY <1>1 DEF FlushVectors
<1>2. CASE w.h.batch # <<>>
  <2> DEFINE seg == w.h.batch[1].seg
             rows == w.h.batch[1].rows
             u == AppendSegment(w, seg, "VectorData", rows)
             v == [u EXCEPT !.h.batch = <<>>]
  <2>1. FlushVectors(w) = v
    BY <1>2 DEF FlushVectors
  <2>2. Safe(u, low)
    <3>1. seg \in Nat /\ seg < w.h.alloc.segment
      BY <1>2 DEF Safe, PlaceOK
    <3> HIDE DEF seg, rows
    <3> QED
      BY <3>1, AppendSegmentSafe
  <2> HIDE DEF u
  <2>3. /\ DOMAIN v = DOMAIN u /\ v.file = u.file /\ v.body = u.body
        /\ DOMAIN v.h = DOMAIN u.h /\ v.h.alloc = u.h.alloc /\ v.h.dirty = u.h.dirty
        /\ v.h.frames = u.h.frames /\ v.h.vectors = u.h.vectors
        /\ v.h.collections = u.h.collections /\ v.h.payloads = u.h.payloads
        /\ v.h.uris = u.h.uris /\ v.h.registry = u.h.registry
        /\ v.h.mapped = u.h.mapped /\ v.h.batch = <<>>
    BY <2>2 DEF Safe, WriterShape, HandleShape, HandleFields
  <2> HIDE DEF v
  <2>4. WriterShape(v)
    BY <2>2, <2>3 DEF Safe, WriterShape, HandleShape
  <2>5. RowsOK(v.h)
    <3>1. PICK a, b : a = u.h /\ b = v.h
      OBVIOUS
    <3>2. RowsOK(a) /\ RowsSame(a, b)
      BY <2>2, <2>3, <3>1 DEF Safe, RowsSame
    <3> QED
      BY <3>1, <3>2, RowsKeptOK
  <2>6. PlaceOK(v, low)
    BY <2>2, <2>3 DEF Safe, PlaceOK
  <2>7. Safe(v, low)
    BY <2>2, <2>3, <2>4, <2>5, <2>6 DEF Safe
  <2> QED
    BY <2>1, <2>7
<1> QED
  BY <1>1, <1>2

(* The text and its segments.                                              *)
LEMMA AppendTextSafe ==
  ASSUME NEW w, NEW low, Safe(w, low), NEW out PROVE Safe(AppendText(w, out), low)
<1> DEFINE w0 == [w EXCEPT !.h.pending = <<>>, !.h.text = out.state]
           w1 == AppendRegistered(w0, "TermDictionary", out.terms)
           w2 == AppendRegistered(w1, "Postings", out.postings)
           w3 == AppendRegistered(w2, "DocStats", out.stats)
           r0 == [w0 EXCEPT !.ok = FALSE]
           v == [w3 EXCEPT !.body.terms = NextRef(w0), !.body.postings = NextRef(w1),
                           !.body.stats = NextRef(w2)]
<1>1. AppendText(w, out) = IF ~(out.terms.ok /\ out.postings.ok /\ out.stats.ok)
                           THEN r0 ELSE v
  BY DEF AppendText
<1>2. Safe(w0, low)
  <2>1. /\ DOMAIN w0 = DOMAIN w /\ w0.file = w.file /\ w0.body = w.body
        /\ DOMAIN w0.h = DOMAIN w.h /\ w0.h.alloc = w.h.alloc /\ w0.h.dirty = w.h.dirty
        /\ w0.h.frames = w.h.frames /\ w0.h.vectors = w.h.vectors
        /\ w0.h.collections = w.h.collections /\ w0.h.payloads = w.h.payloads
        /\ w0.h.uris = w.h.uris /\ w0.h.registry = w.h.registry
        /\ w0.h.mapped = w.h.mapped /\ w0.h.batch = w.h.batch
    BY DEF Safe, WriterShape, HandleShape, HandleFields
  <2> HIDE DEF w0
  <2>2. WriterShape(w0) /\ PlaceSame(w, w0) /\ RootsSame(w.body, w0.body)
    BY <2>1 DEF Safe, WriterShape, HandleShape, PlaceSame, RootsSame
  <2>3. RowsOK(w0.h)
    <3>1. PICK a, b : a = w.h /\ b = w0.h
      OBVIOUS
    <3>2. RowsOK(a) /\ RowsSame(a, b)
      BY <2>1, <3>1 DEF Safe, RowsSame
    <3> QED
      BY <3>1, <3>2, RowsKeptOK
  <2> QED
    BY <2>2, <2>3, SafeSame
<1> HIDE DEF w0
<1>3. Safe(r0, low)
  <2>1. r0.file = w0.file /\ r0.h = w0.h /\ r0.body = w0.body /\ DOMAIN r0 = DOMAIN w0
    BY <1>2 DEF Safe, WriterShape
  <2> HIDE DEF r0
  <2>2. WriterShape(r0) /\ PlaceSame(w0, r0) /\ RowsOK(r0.h) /\ RootsSame(w0.body, r0.body)
    BY <1>2, <2>1 DEF Safe, WriterShape, PlaceSame, RootsSame
  <2> QED
    BY <1>2, <2>2, SafeSame
<1> HIDE DEF r0
<1>4. Safe(w1, low)
  <2>1. PICK e : e = out.terms
    OBVIOUS
  <2> QED
    BY <1>2, <2>1, AppendRegisteredSafe
<1> HIDE DEF w1
<1>5. Safe(w2, low)
  <2>1. PICK e : e = out.postings
    OBVIOUS
  <2> QED
    BY <1>4, <2>1, AppendRegisteredSafe
<1> HIDE DEF w2
<1>6. Safe(w3, low)
  <2>1. PICK e : e = out.stats
    OBVIOUS
  <2> QED
    BY <1>5, <2>1, AppendRegisteredSafe
<1> HIDE DEF w3
<1>7. /\ DOMAIN v = DOMAIN w3 /\ v.file = w3.file /\ v.h = w3.h
      /\ DOMAIN v.body = DOMAIN w3.body /\ v.body.collection = w3.body.collection
      /\ v.body.vector = w3.body.vector /\ v.body.segments = w3.body.segments
  BY <1>6 DEF Safe, WriterShape, BodyFields
<1> HIDE DEF v
<1>8. WriterShape(v) /\ PlaceSame(w3, v) /\ RowsOK(v.h) /\ RootsSame(w3.body, v.body)
  BY <1>6, <1>7 DEF Safe, WriterShape, PlaceSame, RootsSame
<1>9. Safe(v, low)
  BY <1>6, <1>8, SafeSame
<1> QED
  BY <1>1, <1>3, <1>9

(* flush_pending_text_indexes, whether or not the encoders refuse.         *)
LEMMA FlushTextSafe ==
  ASSUME NEW w, NEW low, Safe(w, low) PROVE Safe(FlushText(w), low)
<1>1. PICK out : out = FlushOutput(w.h.text, w.h.pending, w.body)
  OBVIOUS
<1>2. Safe(AppendText(w, out), low)
  BY AppendTextSafe
<1> QED
  BY <1>1, <1>2 DEF FlushText

(* The delta that a root now leads to, and the id it took.                 *)
LEMMA RootAppended ==
  ASSUME NEW f, IsSeq(f), NEW lim \in Nat, NEW table, NEW root, CatOK(f, table, lim, root),
         NEW rs, RowsGood(table, f, lim, rs), NEW seg,
         seg.payload = EncodeCatalogDelta(table, root, rs)
  PROVE  CatOK(Append(f, seg), table, lim + 1, <<lim, Len(f) + 1>>)
<1>1. CatOK(Append(f, seg), table, lim, <<lim, Len(f) + 1>>)
  BY CatAppended
<1>2. PICK g : g = Append(f, seg)
  OBVIOUS
<1>3. PICK r : r = <<lim, Len(f) + 1>>
  OBVIOUS
<1>4. Grown(g, g)
  <2>1. IsSeq(g)
    BY <1>2, AppendGrown DEF Grown
  <2> QED
    BY <2>1 DEF Grown
<1>5. PICK up \in Nat : up = lim + 1
  OBVIOUS
<1>6. lim <= up
  BY <1>5
<1>7. CatOK(g, table, up, r)
  BY <1>1, <1>2, <1>3, <1>4, <1>6, CatKept
<1> QED
  BY <1>2, <1>3, <1>5, <1>7

(* flush_catalog_table: the new root leads to the new delta and the old    *)
(* ones.                                                                   *)
LEMMA FlushTableSafe ==
  ASSUME NEW w, NEW low, Safe(w, low), NEW key, NEW type,
         \/ key = "collection" /\ type = "CollectionCatalog"
         \/ key = "vector" /\ type = "VectorCatalog",
         NEW rows, NEW next, TableOK(rows, next), NEW ids
  PROVE  Safe(FlushTable(w, key, type, rows, ids), low)
<1> DEFINE rs == DirtyRecords(rows, ids)
           delta == EncodeCatalogDelta(type, w.body[key], rs)
           enc == Ok(delta, <<>>)
           u == AppendRegistered(w, type, enc)
           lim == w.h.alloc.segment
           seg == [id |-> lim, type |-> type, payload |-> delta]
           ref == <<lim, Len(w.file) + 1>>
           v == [u EXCEPT !.body[key] = ref]
<1>1. FlushTable(w, key, type, rows, ids) = IF ids = {} THEN w ELSE v
  BY DEF FlushTable, NextRef, RefAtEnd
<1>2. enc.ok /\ enc.val = delta
  BY DEF Ok
<1>3. WriterShape(w) /\ IsSeq(w.file) /\ lim \in Nat
  BY DEF Safe, WriterShape, PlaceOK
<1>4. seg.payload = delta
  OBVIOUS
<1> HIDE DEF delta, enc
<1>5. /\ Safe(u, low) /\ u.body = w.body /\ u.h.alloc.segment = lim + 1
      /\ u.file = Append(w.file, seg)
  BY <1>2, <1>3, AppendRegisteredSafe, AppendRegisteredQuiet
<1>6. CatOK(u.file, type, lim + 1, ref)
  <2>1. PICK f, root, s, l : f = w.file /\ root = w.body[key] /\ s = seg /\ l = lim
    OBVIOUS
  <2>2. RowsGood(type, f, l, rs)
    BY DirtyGood
  <2>3. CatOK(f, type, l, root)
    BY <2>1 DEF Safe, RootsOK
  <2>4. l \in Nat /\ IsSeq(f)
    BY <1>3, <2>1
  <2>5. PICK d : d = rs
    OBVIOUS
  <2>6. s.payload = EncodeCatalogDelta(type, root, d)
    BY <1>4, <2>1, <2>5 DEF delta
  <2> HIDE DEF rs, seg, lim
  <2>7. CatOK(Append(f, s), type, l + 1, <<l, Len(f) + 1>>)
    BY <2>2, <2>3, <2>4, <2>5, <2>6, RootAppended
  <2> QED
    BY <1>5, <2>1, <2>7
<1> HIDE DEF u, ref, seg
<1>7. /\ DOMAIN v = DOMAIN u /\ v.file = u.file /\ v.h = u.h
      /\ DOMAIN v.body = DOMAIN u.body /\ v.body[key] = ref
      /\ \A x \in {"collection", "vector", "segments"} \ {key} : v.body[x] = u.body[x]
  BY <1>5 DEF Safe, WriterShape, BodyFields
<1> HIDE DEF v
<1>8. WriterShape(v) /\ PlaceOK(v, low) /\ RowsOK(v.h)
  BY <1>5, <1>7 DEF Safe, WriterShape, PlaceOK
<1>9. RootsOK(v.file, v.body, v.h.alloc.segment)
  <2>1. RootsOK(u.file, u.body, lim + 1)
    BY <1>5 DEF Safe
  <2>2. v.body.segments = u.body.segments
    BY <1>7
  <2>3. CASE key = "collection" /\ type = "CollectionCatalog"
    <3>1. v.body.vector = u.body.vector /\ v.body.collection = ref
      BY <1>7, <2>3
    <3> QED
      BY <1>5, <1>6, <1>7, <2>1, <2>2, <2>3, <3>1 DEF RootsOK
  <2>4. CASE key = "vector" /\ type = "VectorCatalog"
    <3>1. v.body.collection = u.body.collection /\ v.body.vector = ref
      BY <1>7, <2>4
    <3> QED
      BY <1>5, <1>6, <1>7, <2>1, <2>2, <2>4, <3>1 DEF RootsOK
  <2> QED
    BY <2>3, <2>4
<1>10. Safe(v, low)
  BY <1>8, <1>9 DEF Safe
<1> QED
  BY <1>1, <1>10

(* Other roots, and caches beside them.                                    *)
LEMMA SafeCached ==
  ASSUME NEW w, NEW low, Safe(w, low), NEW v, v.file = w.file,
         {"file", "h", "body", "ok"} \subseteq DOMAIN v,
         BodyFields \subseteq DOMAIN v.body, RootsSame(w.body, v.body),
         DOMAIN v.h = DOMAIN w.h,
         \A key \in HandleFields \ {"filters", "times"} : v.h[key] = w.h[key]
  PROVE  Safe(v, low)
<1>1. /\ v.h.alloc = w.h.alloc /\ v.h.dirty = w.h.dirty
      /\ v.h.frames = w.h.frames /\ v.h.vectors = w.h.vectors
      /\ v.h.collections = w.h.collections /\ v.h.payloads = w.h.payloads
      /\ v.h.uris = w.h.uris /\ v.h.registry = w.h.registry
      /\ v.h.mapped = w.h.mapped /\ v.h.batch = w.h.batch
  BY DEF HandleFields
<1>2. WriterShape(v) /\ PlaceSame(w, v)
  BY <1>1 DEF Safe, WriterShape, HandleShape, PlaceSame
<1>3. RowsOK(v.h)
  <2>1. PICK a, b : a = w.h /\ b = v.h
    OBVIOUS
  <2>2. RowsOK(a) /\ RowsSame(a, b)
    BY <1>1, <2>1 DEF Safe, RowsSame
  <2> QED
    BY <2>1, <2>2, RowsKeptOK
<1> QED
  BY <1>2, <1>3, SafeSame

(* flush_frame_catalog_columnar.                                           *)
LEMMA FlushFramesSafe ==
  ASSUME NEW w, NEW low, Safe(w, low) PROVE Safe(FlushFrames(w), low)
<1> DEFINE enc == EncodeFrameCatalog(w.body.frame,
                    DirtyRecords(w.h.frames, w.h.dirty.frame))
           u == AppendRegistered(w, "FrameCatalog", enc)
           ref == NextRef(w)
           v == [u EXCEPT !.body.frame = ref]
<1>1. Safe(u, low)
  BY AppendRegisteredSafe
<1>2. FlushFrames(w) = IF w.h.dirty.frame = {} THEN w ELSE IF u.ok THEN v ELSE u
  BY DEF FlushFrames, AppendRoot
<1> HIDE DEF u, ref
<1>3. /\ DOMAIN v = DOMAIN u /\ v.file = u.file /\ v.h = u.h
      /\ DOMAIN v.body = DOMAIN u.body /\ RootsSame(u.body, v.body)
  BY <1>1 DEF Safe, WriterShape, BodyFields, RootsSame
<1> HIDE DEF v
<1>4. Safe(v, low)
  BY <1>1, <1>3, SafeCached DEF Safe, WriterShape
<1> QED
  BY <1>1, <1>2, <1>4

(* write_time_index_segment.                                               *)
LEMMA FlushTimesSafe ==
  ASSUME NEW w, NEW low, Safe(w, low) PROVE Safe(FlushTimes(w), low)
<1> DEFINE es == TimeEntries(w.h.frames)
           enc == EncodeTimeIndex(w.body.time, es)
           u == AppendRegistered(w, "TimeIndex", enc)
           ref == NextRef(w)
           v == [u EXCEPT !.body.time = ref, !.h.times = es]
<1>1. Safe(u, low)
  BY AppendRegisteredSafe
<1>2. FlushTimes(w) = IF w.h.dirty.frame = {} THEN w ELSE IF u.ok THEN v ELSE u
  BY DEF FlushTimes, AppendRoot
<1> HIDE DEF u, ref, es
<1>3. /\ DOMAIN v = DOMAIN u /\ v.file = u.file /\ DOMAIN v.body = DOMAIN u.body
      /\ RootsSame(u.body, v.body) /\ DOMAIN v.h = DOMAIN u.h
      /\ \A key \in HandleFields \ {"filters", "times"} : v.h[key] = u.h[key]
  BY <1>1 DEF Safe, WriterShape, HandleShape, HandleFields, BodyFields, RootsSame
<1> HIDE DEF v
<1>4. Safe(v, low)
  BY <1>1, <1>3, SafeCached DEF Safe, WriterShape
<1> QED
  BY <1>1, <1>2, <1>4

(* write_collection_filter_segment, of one collection.                     *)
LEMMA FlushFilterSafe ==
  ASSUME NEW w, NEW low, Safe(w, low), NEW c PROVE Safe(FlushFilter(w, c), low)
<1> DEFINE s == Filter(w.h, c)
           enc == EncodeCollectionFilter(At(w.body.filters, c, <<>>), c, s.frames,
                                s.vectors)
           u == AppendRegistered(w, "CollectionFilter", enc)
           ref == NextRef(w)
           v == [u EXCEPT !.body.filters = Insert(@, c, ref),
                          !.h.filters = Insert(@, c, s)]
<1>1. Safe(u, low)
  BY AppendRegisteredSafe
<1>2. FlushFilter(w, c) = IF ~w.ok THEN w ELSE IF u.ok THEN v ELSE u
  BY DEF FlushFilter, AppendRoot
<1> HIDE DEF u, ref, s
<1>3. /\ DOMAIN v = DOMAIN u /\ v.file = u.file /\ DOMAIN v.body = DOMAIN u.body
      /\ RootsSame(u.body, v.body) /\ DOMAIN v.h = DOMAIN u.h
      /\ \A key \in HandleFields \ {"filters", "times"} : v.h[key] = u.h[key]
  BY <1>1 DEF Safe, WriterShape, HandleShape, HandleFields, BodyFields, RootsSame
<1> HIDE DEF v
<1>4. Safe(v, low)
  BY <1>1, <1>3, SafeCached DEF Safe, WriterShape
<1> QED
  BY <1>1, <1>2, <1>4

(* And of all collections whose members changed.                           *)
LEMMA FlushFiltersSafe ==
  ASSUME NEW w, NEW low, Safe(w, low) PROVE Safe(FlushFilters(w), low)
<1> DEFINE s == DirtyFilters(w.h)
<1>1. PICK n \in Nat : DOMAIN s = 1..n
  BY DirtyFiltersList DEF Safe, WriterShape
<1>2. FlushFilters(w) = Filtering!Fold(0, 0, w, s)
  BY DEF FlushFilters, FStep, FoldLeft, MapThenFoldSet, Max, Filtering!Fold,
         Filtering!FoldLeft, Filtering!MapThenFoldSet, Filtering!Max
<1> HIDE DEF s
<1>3. PICK r : /\ r[0] = w
               /\ \A i \in 1..n : r[i] = FStep(0, 0, r[i - 1], s[i])
               /\ Filtering!Fold(0, 0, w, s) = r[n]
  BY <1>1, Filtering!FoldSteps
<1> DEFINE K == {i \in Nat : i <= n => Safe(r[i], low)}
<1>4. 0 \in K
  BY <1>3
<1>5. \A i \in Nat : i \in K => i + 1 \in K
  <2> SUFFICES ASSUME NEW i \in Nat, i \in K, i + 1 <= n
               PROVE  Safe(r[i + 1], low)
    OBVIOUS
  <2>1. i + 1 \in 1..n /\ (i + 1) - 1 = i /\ Safe(r[i], low)
    OBVIOUS
  <2>2. r[i + 1] = FlushFilter(r[i], s[i + 1])
    BY <1>3, <2>1 DEF FStep
  <2>3. PICK v, c : v = r[i] /\ c = s[i + 1]
    OBVIOUS
  <2>4. Safe(FlushFilter(v, c), low)
    BY <2>1, <2>3, FlushFilterSafe
  <2> QED
    BY <2>2, <2>3, <2>4
<1> HIDE DEF K
<1>6. n \in K
  BY <1>4, <1>5, Filtering!SetInduction
<1> QED
  BY <1>2, <1>3, <1>6 DEF K

(* The registry delta: the registered segments are where it says.          *)
LEMMA RegistryRows ==
  ASSUME NEW f, NEW reg, NEW lim, RegOK(f, reg, lim),
         NEW S \in SUBSET DOMAIN reg, IsFiniteSet(S)
  PROVE  LET ids == InOrder(S) IN
         RowsGood("SegmentRegistry", f, lim,
                  [i \in DOMAIN ids |-> [id |-> ids[i], off |-> reg[ids[i]]]])
<1> DEFINE ids == InOrder(S)
           m == Cardinality(S)
           g == [i \in DOMAIN ids |-> [id |-> ids[i], off |-> reg[ids[i]]]]
<1>1. \A x \in DOMAIN reg : x \in Nat
  BY DEF RegOK
<1>2. m \in Nat /\ Lists(ids, S)
  BY <1>1, InOrderLists
<1> HIDE DEF ids, m
<1>3. DOMAIN ids = 1..m /\ \A i \in 1..m : ids[i] \in DOMAIN reg
  BY <1>2 DEF Lists, m
<1>4. /\ DOMAIN g = 1..m /\ g = [i \in 1..m |-> g[i]]
      /\ \A i \in 1..m : "id" \in DOMAIN g[i] /\ g[i].id = ids[i] /\ g[i].off = reg[ids[i]]
  BY <1>3
<1> HIDE DEF g
<1>5. IsSeq(g)
  BY <1>2, <1>4, SeqOfFn
<1>6. \A i \in 1..m : RowGood("SegmentRegistry", f, lim, g[i])
  BY <1>3, <1>4 DEF RegOK, RowGood
<1>7. RowsGood("SegmentRegistry", f, lim, g)
  BY <1>4, <1>5, <1>6 DEF RowsGood
<1> QED
  BY <1>7 DEF g, ids

(* The registry delta lists segments that are where it says.               *)
LEMMA FlushRegistrySafe ==
  ASSUME NEW w, NEW low, Safe(w, low) PROVE Safe(FlushRegistry(w), low)
<1>1. CASE w.h.dirty.segment = {}
  BY <1>1 DEF FlushRegistry
<1>2. CASE w.h.dirty.segment # {}
  <2> DEFINE ids == InOrder(w.h.dirty.segment)
             lim == w.h.alloc.segment
             rows == [i \in DOMAIN ids |->
                        [id |-> ids[i], off |-> w.h.registry[ids[i]]]]
             delta == EncodeCatalogDelta("SegmentRegistry", w.body.segments, rows)
             seg == [id |-> lim, type |-> "SegmentRegistry", payload |-> delta]
             ref == <<lim, Len(w.file) + 1>>
             g == Append(w.file, seg)
             v == [w EXCEPT !.file = Append(@, seg), !.h.alloc.segment = @ + 1,
                            !.body.segments = ref]
  <2>1. FlushRegistry(w) = v
    BY <1>2 DEF FlushRegistry, RefAtEnd
  <2>2. /\ WriterShape(w) /\ IsSeq(w.file) /\ lim \in Nat /\ Len(w.file) \in Nat
        /\ RegOK(w.file, w.h.registry, lim)
        /\ w.h.dirty.segment \subseteq DOMAIN w.h.registry /\ IsFiniteSet(w.h.dirty.segment)
        /\ CatOK(w.file, "SegmentRegistry", lim, w.body.segments)
        /\ RootsOK(w.file, w.body, lim)
    BY SeqFacts DEF Safe, WriterShape, PlaceOK, RootsOK
  <2>3. RowsGood("SegmentRegistry", w.file, lim, rows)
    <3>1. PICK f, reg, S, l : /\ f = w.file /\ reg = w.h.registry
                              /\ S = w.h.dirty.segment /\ l = lim
      OBVIOUS
    <3>2. RegOK(f, reg, l) /\ S \in SUBSET DOMAIN reg /\ IsFiniteSet(S)
      BY <2>2, <3>1
    <3>3. RowsGood("SegmentRegistry", f, l,
                   [i \in DOMAIN InOrder(S) |->
                      [id |-> InOrder(S)[i], off |-> reg[InOrder(S)[i]]]])
      BY <3>2, RegistryRows
    <3> QED
      BY <3>1, <3>3
  <2>4. seg.payload = delta
    OBVIOUS
  <2>5. CatOK(g, "SegmentRegistry", lim + 1, ref)
    <3>1. PICK f, root, s, l : f = w.file /\ root = w.body.segments /\ s = seg /\ l = lim
      OBVIOUS
    <3>2. PICK d : d = rows
      OBVIOUS
    <3>3. s.payload = EncodeCatalogDelta("SegmentRegistry", root, d)
      BY <2>4, <3>1, <3>2
    <3> HIDE DEF rows, seg, lim
    <3>4. CatOK(Append(f, s), "SegmentRegistry", l + 1, <<l, Len(f) + 1>>)
      BY <2>2, <2>3, <3>1, <3>2, <3>3, RootAppended
    <3> QED
      BY <3>1, <3>4
  <2> HIDE DEF seg, delta, rows, ids, ref
  <2>6. /\ DOMAIN v = DOMAIN w /\ v.file = g /\ DOMAIN v.body = DOMAIN w.body
        /\ v.body.collection = w.body.collection /\ v.body.vector = w.body.vector
        /\ v.body.segments = ref
        /\ DOMAIN v.h = DOMAIN w.h /\ DOMAIN v.h.alloc = DOMAIN w.h.alloc
        /\ v.h.alloc.segment = lim + 1 /\ v.h.alloc.collection = w.h.alloc.collection
        /\ v.h.alloc.frame = w.h.alloc.frame /\ v.h.alloc.vector = w.h.alloc.vector
        /\ v.h.dirty = w.h.dirty /\ v.h.frames = w.h.frames /\ v.h.vectors = w.h.vectors
        /\ v.h.collections = w.h.collections /\ v.h.payloads = w.h.payloads
        /\ v.h.uris = w.h.uris /\ v.h.registry = w.h.registry
        /\ v.h.mapped = w.h.mapped /\ v.h.batch = w.h.batch
    BY <2>2 DEF WriterShape, HandleShape, HandleFields, BodyFields, Tables
  <2>7. Grown(w.file, g) /\ Len(g) = Len(w.file) + 1
    BY <2>2, AppendGrown
  <2> HIDE DEF v, g
  <2>8. WriterShape(v)
    BY <2>2, <2>6, <2>7 DEF WriterShape, HandleShape, Grown
  <2>9. RowsOK(v.h)
    <3>1. PICK a, b : a = w.h /\ b = v.h
      OBVIOUS
    <3>2. RowsOK(a) /\ RowsSame(a, b)
      BY <2>6, <3>1 DEF Safe, RowsSame
    <3> QED
      BY <3>1, <3>2, RowsKeptOK
  <2>10. RootsOK(g, w.body, lim + 1) /\ RegOK(g, w.h.registry, lim + 1)
    <3>1. PICK f, body, reg, k : f = w.file /\ body = w.body /\ reg = w.h.registry /\ k = g
      OBVIOUS
    <3>2. PICK l \in Nat : l = lim
      BY <2>2
    <3>3. PICK up \in Nat : up = l + 1
      OBVIOUS
    <3>4. l <= up
      BY <3>3
    <3>5. RootsOK(k, body, up) /\ RegOK(k, reg, up)
      BY <2>2, <2>7, <3>1, <3>2, <3>4, RootsGrown, RegGrown
    <3> QED
      BY <3>1, <3>2, <3>3, <3>5
  <2>11. RootsOK(v.file, v.body, v.h.alloc.segment)
    BY <2>5, <2>6, <2>10 DEF RootsOK
  <2>12. PlaceOK(v, low)
    BY <2>2, <2>6, <2>7, <2>10 DEF Safe, PlaceOK
  <2>13. Safe(v, low)
    BY <2>8, <2>9, <2>11, <2>12 DEF Safe
  <2> QED
    BY <2>1, <2>13
<1> QED
  BY <1>1, <1>2

(* Every stage of a commit.                                                *)
LEMMA StageSafe ==
  ASSUME NEW w, NEW low, Safe(w, low), NEW n \in StageNames
  PROVE  Safe(Stage(w, n), low)
<1>1. TableOK(w.h.collections, w.h.alloc.collection) /\ TableOK(w.h.vectors, w.h.alloc.vector)
  BY DEF Safe, RowsOK
<1>2. CASE n = "payloads"
  BY <1>2, FlushPayloadsSafe DEF Stage
<1>3. CASE n = "vectors"
  BY <1>3, FlushVectorsSafe DEF Stage
<1>4. CASE n = "text"
  BY <1>4, FlushTextSafe DEF Stage
<1>5. CASE n = "collections"
  <2>1. PICK rows, next, ids : /\ rows = w.h.collections /\ next = w.h.alloc.collection
                               /\ ids = w.h.dirty.collection
    OBVIOUS
  <2>2. Safe(FlushTable(w, "collection", "CollectionCatalog", rows, ids), low)
    BY <1>1, <2>1, FlushTableSafe
  <2> QED
    BY <1>5, <2>1, <2>2 DEF Stage, FlushCollections
<1>6. CASE n = "frames"
  BY <1>6, FlushFramesSafe DEF Stage
<1>7. CASE n = "vector_rows"
  <2>1. PICK rows, next, ids : /\ rows = w.h.vectors /\ next = w.h.alloc.vector
                               /\ ids = w.h.dirty.vector
    OBVIOUS
  <2>2. Safe(FlushTable(w, "vector", "VectorCatalog", rows, ids), low)
    BY <1>1, <2>1, FlushTableSafe
  <2> QED
    BY <1>7, <2>1, <2>2 DEF Stage, FlushVectorTable
<1>8. CASE n = "filters"
  BY <1>8, FlushFiltersSafe DEF Stage
<1>9. CASE n = "times"
  BY <1>9, FlushTimesSafe DEF Stage
<1>10. CASE n = "registry"
  BY <1>10, FlushRegistrySafe DEF Stage
<1> QED
  BY <1>2, <1>3, <1>4, <1>5, <1>6, <1>7, <1>8, <1>9, <1>10 DEF StageNames

(* All that a commit writes, refused or not; the body takes the allocator  *)
(* over.                                                                   *)
LEMMA CommitWritesSafe ==
  ASSUME NEW low, Safe(Writer(h), low)
  PROVE  Safe(CommitWrites, low) /\ CommitWrites.body.alloc = CommitWrites.h.alloc
<1> DEFINE w == Writer(h)
           end == Staging!Fold(0, 0, w, Stages)
<1>1. CommitWrites = WithAlloc(end)
  BY DEF CommitWrites, Writer, WStep, FoldLeft, MapThenFoldSet, Max, Staging!Fold,
         Staging!FoldLeft, Staging!MapThenFoldSet, Staging!Max
<1> HIDE DEF w
<1>2. PICK r : /\ r[0] = w
               /\ \A i \in 1..9 : r[i] = WStep(0, 0, r[i - 1], Stages[i])
               /\ end = r[9]
  <2>1. PICK m \in Nat : m = 9
    OBVIOUS
  <2>2. DOMAIN Stages = 1..m
    BY <2>1, StagesList
  <2>3. \E r : /\ r[0] = w
               /\ \A i \in 1..m : r[i] = WStep(0, 0, r[i - 1], Stages[i])
               /\ end = r[m]
    BY <2>2, Staging!FoldSteps
  <2> QED
    BY <2>1, <2>3
<1> DEFINE K == {i \in Nat : i <= 9 => Safe(r[i], low)}
<1>3. 0 \in K
  BY <1>2 DEF w
<1>4. \A i \in Nat : i \in K => i + 1 \in K
  <2> SUFFICES ASSUME NEW i \in Nat, i \in K, i + 1 <= 9
               PROVE  Safe(r[i + 1], low)
    OBVIOUS
  <2>1. i + 1 \in 1..9 /\ (i + 1) - 1 = i /\ Safe(r[i], low)
    OBVIOUS
  <2>2. r[i + 1] = NextStage(r[i], Stages[i + 1])
    BY <1>2, <2>1 DEF WStep
  <2>3. PICK v : v = r[i]
    OBVIOUS
  <2>4. PICK n \in StageNames : n = Stages[i + 1]
    BY <2>1, StagesList
  <2>5. Safe(Stage(v, n), low)
    BY <2>1, <2>3, StageSafe
  <2> QED
    BY <2>1, <2>2, <2>3, <2>4, <2>5 DEF NextStage
<1> HIDE DEF K
<1>5. 9 \in K
  BY <1>3, <1>4, Staging!SetInduction
<1>6. Safe(end, low)
  BY <1>2, <1>5 DEF K
<1> HIDE DEF end
<1> DEFINE v == WithAlloc(end)
<1>7. /\ DOMAIN v = DOMAIN end /\ v.file = end.file /\ v.h = end.h
      /\ DOMAIN v.body = DOMAIN end.body /\ RootsSame(end.body, v.body)
      /\ v.body.alloc = v.h.alloc
  BY <1>6 DEF WithAlloc, Safe, WriterShape, BodyFields, RootsSame
<1> HIDE DEF v
<1>8. Safe(v, low)
  BY <1>6, <1>7, SafeCached DEF Safe, WriterShape
<1> QED
  BY <1>1, <1>7, <1>8 DEF v

-----------------------------------------------------------------------------
(* The tables of the handle, the registry and what the footer leads to.    *)

TablesOK(f, ft, hd) ==
  /\ RootsOK(f, ft, ft.alloc.segment)
  /\ ft.alloc.collection \in Nat /\ ft.alloc.frame \in Nat /\ ft.alloc.vector \in Nat
  /\ PlaceOK([file |-> f, h |-> hd], ft.alloc.segment) /\ RowsOK(hd)
TablesInv == TablesOK(file, footer, h)

(* A file has grown from itself.                                           *)
LEMMA GrownRefl == ASSUME NEW f, IsSeq(f) PROVE Grown(f, f)
  BY DEF Grown

(* From the invariant to the writer a flush starts with, and back.         *)
LEMMA HandleSafe ==
  ASSUME TermInv, TablesInv, NEW hd, HandleShape(hd), RowsOK(hd),
         PlaceOK([file |-> file, h |-> hd], footer.alloc.segment)
  PROVE  Safe(Writer(hd), footer.alloc.segment)
<1> DEFINE w == Writer(hd)
           p == [file |-> file, h |-> hd]
<1>1. /\ DOMAIN w = {"file", "h", "body", "ok"} /\ w.file = file /\ w.h = hd
      /\ w.body = footer /\ p.file = file /\ p.h = hd
  BY DEF Writer
<1>2. PlaceOK(p, footer.alloc.segment)
  OBVIOUS
<1> HIDE DEF w, p
<1>3. WriterShape(w)
  BY <1>1 DEF WriterShape, TermInv
<1>4. PlaceOK(w, footer.alloc.segment)
  BY <1>1, <1>2 DEF PlaceOK
<1>5. RootsOK(file, footer, hd.alloc.segment)
  <2>1. PICK lim, up : lim = footer.alloc.segment /\ up = hd.alloc.segment
    OBVIOUS
  <2>2. lim \in Nat /\ up \in Nat /\ lim <= up
    BY <1>1, <1>4, <2>1 DEF PlaceOK
  <2>3. Grown(file, file) /\ RootsOK(file, footer, lim)
    BY <2>1, GrownRefl DEF TermInv, TablesInv, TablesOK
  <2>4. RootsOK(file, footer, up)
    BY <2>2, <2>3, RootsGrown
  <2> QED
    BY <2>1, <2>4
<1>6. Safe(w, footer.alloc.segment)
  BY <1>1, <1>3, <1>4, <1>5 DEF Safe
<1> QED
  BY <1>6 DEF w

(* A writer that is in order leaves tables that are, under the footer of   *)
(* before: what a refused commit does.                                     *)
LEMMA SafeTables ==
  ASSUME TermInv, TablesInv, NEW w, Safe(w, footer.alloc.segment), Grown(file, w.file),
         NEW hd, RowsSame(w.h, hd), PlaceSame(w, [file |-> w.file, h |-> hd])
  PROVE  TablesOK(w.file, footer, hd)
<1> DEFINE p == [file |-> w.file, h |-> hd]
<1>1. p.file = w.file /\ p.h = hd /\ PlaceSame(w, p)
  OBVIOUS
<1> HIDE DEF p
<1>2. PlaceOK(p, footer.alloc.segment)
  BY <1>1 DEF Safe, PlaceOK, PlaceSame
<1>3. RowsOK(hd)
  <2>1. PICK a : a = w.h
    OBVIOUS
  <2>2. RowsOK(a) /\ RowsSame(a, hd)
    BY <2>1 DEF Safe
  <2> QED
    BY <2>2, RowsKeptOK
<1>4. RootsOK(w.file, footer, footer.alloc.segment)
  <2>1. PICK lim, g : lim = footer.alloc.segment /\ g = w.file
    OBVIOUS
  <2>2. lim \in Nat /\ lim <= lim
    BY <1>2, <2>1 DEF PlaceOK
  <2>3. Grown(file, g) /\ RootsOK(file, footer, lim)
    BY <2>1 DEF TablesInv, TablesOK
  <2>4. RootsOK(g, footer, lim)
    BY <2>2, <2>3, RootsGrown
  <2> QED
    BY <2>1, <2>4
<1> QED
  BY <1>2, <1>3, <1>4 DEF TablesOK, TablesInv, p

(* What an edit changes, without writing.                                  *)
LEMMA EditTables ==
  ASSUME TermInv, TablesInv, UNCHANGED <<file, footer>>, RowsOK(h'),
         h'.registry = h.registry, h'.dirty.segment = h.dirty.segment,
         h'.mapped = h.mapped, h'.batch = h.batch,
         h'.alloc.segment = h.alloc.segment
  PROVE  TablesInv'
<1> DEFINE p == [file |-> file, h |-> h]
           q == [file |-> file, h |-> h']
<1>1. p.file = file /\ p.h = h /\ q.file = file /\ q.h = h'
  OBVIOUS
<1>2. PlaceOK(p, footer.alloc.segment)
  BY DEF TablesInv, TablesOK
<1> HIDE DEF p, q
<1>3. PlaceOK(q, footer.alloc.segment)
  BY <1>1, <1>2 DEF PlaceOK
<1> QED
  BY <1>3 DEF TablesInv, TablesOK, q

-----------------------------------------------------------------------------
(* The steps.                                                              *)

(* An empty file, and an empty handle.                                     *)
LEMMA NothingStored ==
  ASSUME NEW table, NEW lim PROVE CatOK(<<>>, table, lim, <<>>)
<1>1. {} \in SUBSET DOMAIN <<>> /\ <<>> \in Roots({}, {})
  BY DEF Roots
<1>2. CatClosed(<<>>, table, lim, {}, {})
  BY DEF CatClosed
<1> QED
  BY <1>1, <1>2 DEF CatOK

(* A table with no rows.                                                   *)
LEMMA NoRows == TableOK(<<>>, 1) /\ RowIds(<<>>) = {}
<1>1. <<>> \in Seq({}) /\ DOMAIN <<>> = {}
  BY EmptySeq
<1> QED
  BY <1>1 DEF TableOK, RowIds, IsSeq, Sorted

(* A file that was just created.                                           *)
LEMMA InitTables == Init => TablesInv
<1> SUFFICES ASSUME Init PROVE TablesInv
  OBVIOUS
<1>1. file = <<>> /\ footer = EmptyFooter /\ h = EmptyHandle
  BY DEF Init
<1>2. /\ footer.alloc = EmptyAlloc /\ footer.collection = <<>> /\ footer.vector = <<>>
      /\ footer.segments = <<>>
  BY <1>1 DEF EmptyFooter
<1>3. /\ h.alloc = EmptyAlloc /\ h.dirty = NoDirty /\ h.collections = <<>>
      /\ h.frames = <<>> /\ h.vectors = <<>> /\ h.registry = <<>> /\ h.batch = <<>>
      /\ h.payloads = EmptyBuf /\ h.uris = EmptyBuf /\ h.mapped = 0
  BY <1>1 DEF EmptyHandle
<1>4. RootsOK(file, footer, footer.alloc.segment)
  BY <1>1, <1>2, NothingStored DEF RootsOK
<1>5. RowsOK(h)
  BY <1>3, NoRows, EmptyBufOK DEF RowsOK, EmptyAlloc, NoDirty
<1> DEFINE p == [file |-> file, h |-> h]
<1>6. PlaceOK(p, footer.alloc.segment)
  <2>1. p.file = <<>> /\ p.h = h
    BY <1>1
  <2>2. Len(<<>>) = 0 /\ DOMAIN <<>> = {}
    OBVIOUS
  <2>3. IsFiniteSet({})
    BY FS_EmptySet
  <2> HIDE DEF p
  <2>4. /\ footer.alloc.segment = 1 /\ p.h.alloc.segment = 1
        /\ p.h.dirty.segment = {} /\ p.h.registry = <<>>
    BY <1>2, <1>3, <2>1 DEF EmptyAlloc, NoDirty
  <2>5. RegOK(p.file, p.h.registry, p.h.alloc.segment)
    BY <2>2, <2>4 DEF RegOK
  <2>6. p.h.mapped = 0 /\ Len(p.file) = 0 /\ p.h.batch = <<>>
    BY <1>3, <2>1, <2>2
  <2> QED
    BY <2>3, <2>4, <2>5, <2>6 DEF PlaceOK
<1> QED
  BY <1>2, <1>4, <1>5, <1>6 DEF TablesInv, TablesOK, EmptyAlloc

(* A buffer stays good as the table grows.                                 *)
LEMMA BufGrows ==
  ASSUME NEW b, NEW ids, BufOK(b, ids), NEW more, ids \subseteq more PROVE BufOK(b, more)
  BY DEF BufOK

(* create_collection_at: the id is the allocator's, which moves on.        *)
LEMMA CreateCollectionTables ==
  ASSUME TermInv, TablesInv, NEW n \in Names, CreateCollection(n) PROVE TablesInv'
<1> DEFINE id == h.alloc.collection
           row == [id |-> id, name |-> n]
<1>1. /\ h'.collections = Upsert(h.collections, row)
      /\ h'.alloc.collection = id + 1 /\ h'.alloc.frame = h.alloc.frame
      /\ h'.alloc.vector = h.alloc.vector /\ h'.alloc.segment = h.alloc.segment
      /\ h'.frames = h.frames /\ h'.vectors = h.vectors
      /\ h'.payloads = h.payloads /\ h'.uris = h.uris
      /\ h'.dirty.frame = h.dirty.frame /\ h'.dirty.vector = h.dirty.vector
      /\ h'.dirty.segment = h.dirty.segment /\ h'.registry = h.registry
      /\ h'.mapped = h.mapped /\ h'.batch = h.batch /\ UNCHANGED <<file, footer>>
  BY DEF CreateCollection, TermInv, HandleShape, HandleFields, Tables
<1>2. RowsOK(h)
  BY DEF TablesInv, TablesOK
<1>3. TableOK(h'.collections, h'.alloc.collection)
  <2>1. PICK rows, next, up, r : /\ rows = h.collections /\ next = id
                                 /\ up = id + 1 /\ r = row
    OBVIOUS
  <2>2. TableOK(rows, next)
    BY <1>2, <2>1 DEF RowsOK
  <2>3. "id" \in DOMAIN r /\ r.id = id /\ id \in Nat /\ up \in Nat /\ id < up /\ next <= up
    BY <2>1, <2>2 DEF TableOK
  <2>4. TableOK(Upsert(rows, r), up)
    BY <2>2, <2>3, UpsertOK
  <2> QED
    BY <1>1, <2>1, <2>4
<1>4. RowsOK(h')
  BY <1>1, <1>2, <1>3 DEF RowsOK
<1> QED
  BY <1>1, <1>4, EditTables

(* The row of an id that a table has, changed but for the id.              *)
LEMMA RowPut ==
  ASSUME NEW rows, NEW next, TableOK(rows, next), NEW id \in RowIds(rows), NEW row,
         "id" \in DOMAIN row, row.id = RowOf(rows, id).id
  PROVE  TableOK(Upsert(rows, row), next) /\ RowIds(Upsert(rows, row)) = RowIds(rows)
<1>1. PICK i \in DOMAIN rows : RowOf(rows, id) = rows[i] /\ rows[i].id = id
  BY DEF RowIds, RowOf
<1>2. next \in Nat /\ row.id = id /\ id \in Nat /\ id < next /\ next <= next
  BY <1>1 DEF TableOK
<1>3. /\ TableOK(Upsert(rows, row), next)
      /\ RowIds(Upsert(rows, row)) = RowIds(rows) \cup {row.id}
  BY <1>2, UpsertOK
<1> QED
  BY <1>2, <1>3

(* A row found by its id has it.                                           *)
LEMMA RowHasId ==
  ASSUME NEW rows, NEW next, TableOK(rows, next), NEW id \in RowIds(rows)
  PROVE  "id" \in DOMAIN RowOf(rows, id) /\ RowOf(rows, id).id = id
<1>1. PICK i \in DOMAIN rows : RowOf(rows, id) = rows[i] /\ rows[i].id = id
  BY DEF RowIds, RowOf
<1> QED
  BY <1>1 DEF TableOK

(* delete_vector replaces a row the table has.                             *)
LEMMA DeleteVectorTables ==
  ASSUME TermInv, TablesInv, NEW v \in RowIds(h.vectors), DeleteVector(v)
  PROVE  TablesInv'
<1> DEFINE row == [RowOf(h.vectors, v) EXCEPT !.status = "Tombstoned"]
<1>1. /\ h'.vectors = Upsert(h.vectors, row)
      /\ h'.alloc = h.alloc
      /\ h'.frames = h.frames /\ h'.collections = h.collections
      /\ h'.payloads = h.payloads /\ h'.uris = h.uris
      /\ h'.dirty.frame = h.dirty.frame /\ h'.dirty.vector = h.dirty.vector \cup {v}
      /\ h'.dirty.segment = h.dirty.segment /\ h'.registry = h.registry
      /\ h'.mapped = h.mapped /\ h'.batch = h.batch /\ UNCHANGED <<file, footer>>
  BY DEF DeleteVector, TermInv, HandleShape, HandleFields, Tables
<1>2. RowsOK(h)
  BY DEF TablesInv, TablesOK
<1>3. TableOK(h'.vectors, h'.alloc.vector) /\ RowIds(h'.vectors) = RowIds(h.vectors)
  <2>1. PICK rows, next : rows = h.vectors /\ next = h.alloc.vector
    OBVIOUS
  <2>2. TableOK(rows, next) /\ v \in RowIds(rows)
    BY <1>2, <2>1 DEF RowsOK
  <2>3. "id" \in DOMAIN row /\ row.id = RowOf(rows, v).id
    BY <2>1, <2>2, RowHasId
  <2>4. PICK r : r = row
    OBVIOUS
  <2> HIDE DEF row
  <2>5. TableOK(Upsert(rows, r), next) /\ RowIds(Upsert(rows, r)) = RowIds(rows)
    BY <2>2, <2>3, <2>4, RowPut
  <2> QED
    BY <1>1, <2>1, <2>4, <2>5
<1>4. RowsOK(h')
  BY <1>1, <1>2, <1>3 DEF RowsOK
<1> QED
  BY <1>1, <1>4, EditTables

(* delete_frame too.                                                       *)
LEMMA DeleteFrameTables ==
  ASSUME TermInv, TablesInv, NEW f \in RowIds(h.frames), DeleteFrame(f)
  PROVE  TablesInv'
<1> DEFINE row == [RowOf(h.frames, f) EXCEPT !.status = "Tombstoned",
                                             !.role = "Tombstone", !.updated = Now]
<1>1. /\ h'.frames = Upsert(h.frames, row)
      /\ h'.alloc = h.alloc
      /\ h'.vectors = h.vectors /\ h'.collections = h.collections
      /\ h'.payloads = h.payloads /\ h'.uris = h.uris
      /\ h'.dirty.vector = h.dirty.vector /\ h'.dirty.frame = h.dirty.frame \cup {f}
      /\ h'.dirty.segment = h.dirty.segment /\ h'.registry = h.registry
      /\ h'.mapped = h.mapped /\ h'.batch = h.batch /\ UNCHANGED <<file, footer>>
  BY DEF DeleteFrame, TermInv, HandleShape, HandleFields, Tables
<1>2. RowsOK(h)
  BY DEF TablesInv, TablesOK
<1>3. TableOK(h'.frames, h'.alloc.frame) /\ RowIds(h'.frames) = RowIds(h.frames)
  <2>1. PICK rows, next : rows = h.frames /\ next = h.alloc.frame
    OBVIOUS
  <2>2. TableOK(rows, next) /\ f \in RowIds(rows)
    BY <1>2, <2>1 DEF RowsOK
  <2>3. "id" \in DOMAIN row /\ row.id = RowOf(rows, f).id
    BY <2>1, <2>2, RowHasId
  <2>4. PICK r : r = row
    OBVIOUS
  <2> HIDE DEF row
  <2>5. TableOK(Upsert(rows, r), next) /\ RowIds(Upsert(rows, r)) = RowIds(rows)
    BY <2>2, <2>3, <2>4, RowPut
  <2> QED
    BY <1>1, <2>1, <2>4, <2>5
<1>4. RowsOK(h')
  BY <1>1, <1>2, <1>3 DEF RowsOK
<1> QED
  BY <1>1, <1>4, EditTables

(* put_vector: a new row, and a segment id for a new batch.                *)
LEMMA PutVectorTables ==
  ASSUME TermInv, TablesInv, NEW f, PutVector(f) PROVE TablesInv'
<1> DEFINE id == h.alloc.vector
           batch == IF h.batch # <<>> THEN h.batch[1]
                    ELSE [seg |-> h.alloc.segment, rows |-> <<>>]
           val == past.puts[f].dist
           row == [id |-> id, frame |-> f, coll |-> RowOf(h.frames, f).coll,
                   seg |-> batch.seg, ord |-> Len(batch.rows),
                   status |-> "Active"]
           new == [batch EXCEPT !.rows = Append(@, [id |-> id, val |-> val])]
<1>1. /\ h'.vectors = Upsert(h.vectors, row)
      /\ h'.alloc.collection = h.alloc.collection /\ h'.alloc.frame = h.alloc.frame
      /\ h'.alloc.vector = id + 1
      /\ h'.alloc.segment = IF h.batch = <<>> THEN h.alloc.segment + 1
                            ELSE h.alloc.segment
      /\ h'.batch = <<new>>
      /\ h'.frames = h.frames /\ h'.collections = h.collections
      /\ h'.payloads = h.payloads /\ h'.uris = h.uris
      /\ h'.dirty.frame = h.dirty.frame /\ h'.dirty.vector = h.dirty.vector \cup {id}
      /\ h'.dirty.segment = h.dirty.segment /\ h'.registry = h.registry
      /\ h'.mapped = h.mapped /\ UNCHANGED <<file, footer>>
  <2> HIDE DEF batch, row, new
  <2>1. h' = [h EXCEPT !.alloc.vector = @ + 1,
                       !.alloc.segment = IF h.batch = <<>> THEN @ + 1 ELSE @,
                       !.batch = <<new>>,
                       !.vectors = Upsert(@, row),
                       !.dirty.vector = @ \cup {id},
                       !.changed = TRUE]
        /\ UNCHANGED <<file, footer>>
    BY Zenon DEF PutVector, batch, row, new
  <2> QED
    BY <2>1 DEF TermInv, HandleShape, HandleFields, Tables
<1>2. RowsOK(h)
  BY DEF TablesInv, TablesOK
<1>3. row.id = id /\ "id" \in DOMAIN row
  OBVIOUS
<1>4. "seg" \in DOMAIN batch => "seg" \in DOMAIN new /\ new.seg = batch.seg
  <2> HIDE DEF batch
  <2> QED
    OBVIOUS
<1> DEFINE p == [file |-> file, h |-> h]
           q == [file |-> file, h |-> h']
<1>5. p.file = file /\ p.h = h /\ q.file = file /\ q.h = h'
  OBVIOUS
<1>6. PlaceOK(p, footer.alloc.segment)
  BY DEF TablesInv, TablesOK
<1> HIDE DEF p, q, row, new
<1>7. /\ h.alloc.segment \in Nat /\ h'.alloc.segment \in Nat
      /\ h.alloc.segment <= h'.alloc.segment
      /\ "seg" \in DOMAIN batch /\ batch.seg \in Nat /\ batch.seg < h'.alloc.segment
  <2>1. CASE h.batch = <<>>
    BY <1>1, <1>5, <1>6, <2>1 DEF PlaceOK
  <2>2. CASE h.batch # <<>>
    BY <1>1, <1>5, <1>6, <2>2 DEF PlaceOK
  <2> QED
    BY <2>1, <2>2
<1> HIDE DEF batch
<1>8. TableOK(h'.vectors, h'.alloc.vector) /\ RowIds(h'.vectors) = RowIds(h.vectors) \cup {id}
  <2>1. PICK rows, next, up, r : /\ rows = h.vectors /\ next = id
                                 /\ up = id + 1 /\ r = row
    OBVIOUS
  <2>2. TableOK(rows, next)
    BY <1>2, <2>1 DEF RowsOK
  <2>3. "id" \in DOMAIN r /\ r.id = id /\ id \in Nat /\ up \in Nat /\ id < up /\ next <= up
    BY <1>3, <2>1, <2>2 DEF TableOK
  <2>4. TableOK(Upsert(rows, r), up) /\ RowIds(Upsert(rows, r)) = RowIds(rows) \cup {r.id}
    BY <2>2, <2>3, UpsertOK
  <2> QED
    BY <1>1, <2>1, <2>3, <2>4
<1>9. RowsOK(h')
  BY <1>1, <1>2, <1>8 DEF RowsOK
<1>10. RegOK(file, h.registry, h'.alloc.segment)
  <2>1. PICK lim, up, reg : lim = h.alloc.segment /\ up = h'.alloc.segment /\ reg = h.registry
    OBVIOUS
  <2>2. lim \in Nat /\ up \in Nat /\ lim <= up /\ RegOK(file, reg, lim)
    BY <1>5, <1>6, <1>7, <2>1 DEF PlaceOK
  <2>3. Grown(file, file)
    BY GrownRefl DEF TermInv
  <2>4. RegOK(file, reg, up)
    BY <2>2, <2>3, RegGrown
  <2> QED
    BY <2>1, <2>4
<1>11. h'.batch[1] = new
  BY <1>1
<1>12. PlaceOK(q, footer.alloc.segment)
  BY <1>1, <1>4, <1>5, <1>6, <1>7, <1>10, <1>11 DEF PlaceOK
<1> QED
  BY <1>1, <1>9, <1>12 DEF TablesInv, TablesOK, q

(* The handle a put leaves has one frame more, which waits in the buffers. *)
LEMMA PutRows ==
  ASSUME TermInv, TablesInv, NEW d \in Docs
  PROVE  LET hd == PutHandle(d, h.alloc.frame) IN
         /\ RowsOK(hd) /\ HandleShape(hd)
         /\ PlaceOK([file |-> file, h |-> hd], footer.alloc.segment)
<1> DEFINE id == h.alloc.frame
           hd == PutHandle(d, id)
           row == FrameRow(id, d)
           p == [file |-> file, h |-> h]
           q == [file |-> file, h |-> hd]
<1>1. /\ DOMAIN hd = DOMAIN h /\ DOMAIN hd.alloc = DOMAIN h.alloc
      /\ DOMAIN hd.dirty = DOMAIN h.dirty
      /\ hd.frames = Upsert(h.frames, row) /\ hd.alloc.frame = id + 1
      /\ hd.alloc.collection = h.alloc.collection /\ hd.alloc.vector = h.alloc.vector
      /\ hd.alloc.segment = h.alloc.segment
      /\ hd.vectors = h.vectors /\ hd.collections = h.collections
      /\ hd.payloads = AddBytes(h.payloads, id, d.tokens)
      /\ hd.uris = IF d.uri = <<>> THEN h.uris ELSE AddBytes(h.uris, id, d.uri[1])
      /\ hd.dirty.vector = h.dirty.vector /\ hd.dirty.frame = h.dirty.frame \cup {id}
      /\ hd.dirty.segment = h.dirty.segment /\ hd.registry = h.registry
      /\ hd.mapped = h.mapped /\ hd.batch = h.batch
  BY DEF PutHandle, TermInv, HandleShape, HandleFields, Tables
<1>2. row.id = id /\ "id" \in DOMAIN row
  BY DEF FrameRow
<1>3. RowsOK(h) /\ PlaceOK(p, footer.alloc.segment)
  BY DEF TablesInv, TablesOK
<1> HIDE DEF row, hd
<1>4. /\ TableOK(hd.frames, hd.alloc.frame)
      /\ RowIds(hd.frames) = RowIds(h.frames) \cup {id} /\ id \notin RowIds(h.frames)
  <2>1. PICK rows, next, up, r : /\ rows = h.frames /\ next = id
                                 /\ up = id + 1 /\ r = row
    OBVIOUS
  <2>2. TableOK(rows, next)
    BY <1>3, <2>1 DEF RowsOK
  <2>3. "id" \in DOMAIN r /\ r.id = id /\ id \in Nat /\ up \in Nat /\ id < up /\ next <= up
    BY <1>2, <2>1, <2>2 DEF TableOK
  <2>4. TableOK(Upsert(rows, r), up) /\ RowIds(Upsert(rows, r)) = RowIds(rows) \cup {r.id}
    BY <2>2, <2>3, UpsertOK
  <2>5. next \notin RowIds(rows)
    BY <2>2 DEF TableOK, RowIds
  <2> QED
    BY <1>1, <2>1, <2>3, <2>4, <2>5
<1>5. BufOK(hd.payloads, RowIds(hd.frames)) /\ BufOK(hd.uris, RowIds(hd.frames))
  <2>1. PICK ids, more, b, u, t, x, i : /\ ids = RowIds(h.frames) /\ more = RowIds(hd.frames)
                                 /\ b = h.payloads /\ u = h.uris
                                 /\ t = d.tokens /\ x = d.uri[1] /\ i = id
    OBVIOUS
  <2>2. BufOK(b, ids) /\ BufOK(u, ids) /\ more = ids \cup {i} /\ i \notin ids
    BY <1>3, <1>4, <2>1 DEF RowsOK
  <2>3. /\ BufOK(AddBytes(b, i, t), ids \cup {i}) /\ BufOK(AddBytes(u, i, x), ids \cup {i})
    BY <2>2, AddBytesOK
  <2>4. BufOK(u, more)
    BY <2>2, BufGrows
  <2> QED
    BY <1>1, <2>1, <2>2, <2>3, <2>4
<1>6. RowsOK(hd)
  BY <1>1, <1>3, <1>4, <1>5 DEF RowsOK
<1>7. HandleShape(hd)
  BY <1>1, UpsertSeq DEF TermInv, HandleShape
<1>8. p.file = file /\ p.h = h /\ q.file = file /\ q.h = hd
  OBVIOUS
<1> HIDE DEF p, q
<1>9. PlaceOK(q, footer.alloc.segment)
  BY <1>1, <1>3, <1>8 DEF PlaceOK
<1> QED
  BY <1>6, <1>7, <1>9 DEF hd, q

(* put_text_frames_batch, whether or not it flushes the payloads.          *)
LEMMA PutFrameTables ==
  ASSUME TermInv, TablesInv, NEW d \in Docs, PutFrame(d) PROVE TablesInv'
<1> DEFINE id == h.alloc.frame
           h1 == PutHandle(d, id)
           w == Writer(h1)
           w1 == IF Len(h1.payloads.buf) >= BatchLimit THEN FlushPayloads(w) ELSE w
           low == footer.alloc.segment
<1>1. /\ file' = w1.file
      /\ h' = [w1.h EXCEPT !.pending = Insert(@, id, FromTokens(d.coll, d.tokens))]
      /\ footer' = footer
  BY DEF PutFrame, PutHandle, Writer
<1>2. RowsOK(h1) /\ HandleShape(h1) /\ PlaceOK([file |-> file, h |-> h1], low)
  BY PutRows
<1> HIDE DEF h1
<1>3. Safe(w, low)
  BY <1>2, HandleSafe
<1> HIDE DEF w
<1>4. Safe(w1, low)
  BY <1>3, FlushPayloadsSafe
<1>5. Grown(file, file')
  BY PutFrameTerms
<1> HIDE DEF w1
<1>6. /\ h'.alloc = w1.h.alloc /\ h'.dirty = w1.h.dirty /\ h'.batch = w1.h.batch
      /\ h'.vectors = w1.h.vectors /\ h'.frames = w1.h.frames
      /\ h'.collections = w1.h.collections /\ h'.payloads = w1.h.payloads
      /\ h'.uris = w1.h.uris /\ h'.registry = w1.h.registry /\ h'.mapped = w1.h.mapped
  BY <1>1, <1>4 DEF Safe, WriterShape, HandleShape, HandleFields
<1>7. RowsSame(w1.h, h')
  BY <1>6 DEF RowsSame
<1>8. PlaceSame(w1, [file |-> w1.file, h |-> h'])
  BY <1>6 DEF PlaceSame
<1>9. PICK hd : hd = h'
  OBVIOUS
<1>10. TablesOK(w1.file, footer, hd)
  BY <1>1, <1>4, <1>5, <1>7, <1>8, <1>9, SafeTables
<1> QED
  BY <1>1, <1>9, <1>10 DEF TablesInv

(* What a published handle keeps of the writer's.                          *)
PublishedOf(w, hd) ==
  /\ hd.alloc = w.h.alloc /\ hd.dirty = NoDirty /\ hd.mapped = Len(w.file)
  /\ hd.frames = w.h.frames /\ hd.vectors = w.h.vectors
  /\ hd.collections = w.h.collections /\ hd.payloads = w.h.payloads
  /\ hd.uris = w.h.uris /\ hd.registry = w.h.registry /\ hd.batch = w.h.batch

(* commit_phase_publish keeps tables, registry and allocator.              *)
LEMMA PublishedKeeps ==
  ASSUME NEW w, WriterShape(w) PROVE PublishedOf(w, Published(w))
<1> DEFINE h1 == [w.h EXCEPT !.dirty = NoDirty, !.changed = FALSE,
                             !.mapped = Len(w.file)]
           base == VectorBase(w.file, h1)
           x == ActiveById(h1.vectors)
           y == IF base.ok THEN <<base.val>> ELSE h1.base
           a == [h1 EXCEPT !.base = <<>>]
           b == [h1 EXCEPT !.byId = x, !.base = y]
<1>1. Published(w) = IF w.h.dirty.vector = {} THEN a ELSE b
  BY Zenon DEF Published
<1>2. PublishedOf(w, h1)
  BY DEF WriterShape, HandleShape, HandleFields, PublishedOf
<1> HIDE DEF h1, x, y
<1>3. PublishedOf(w, a)
  BY <1>2 DEF PublishedOf
<1>4. PublishedOf(w, b)
  BY <1>2 DEF PublishedOf
<1> QED
  BY <1>1, <1>3, <1>4

(* A commit starts with a writer in order.                                 *)
LEMMA WriterSafe == ASSUME TermInv, TablesInv PROVE Safe(Writer(h), footer.alloc.segment)
<1>1. PICK hd : hd = h
  OBVIOUS
<1>2. /\ HandleShape(hd) /\ RowsOK(hd)
      /\ PlaceOK([file |-> file, h |-> hd], footer.alloc.segment)
  BY <1>1 DEF TermInv, TablesInv, TablesOK
<1> QED
  BY <1>1, <1>2, HandleSafe

(* A commit: the new footer leads to what the writer had.                  *)
LEMMA CommitTables == ASSUME TermInv, TablesInv, Commit PROVE TablesInv'
<1> DEFINE w == CommitWrites
           low == footer.alloc.segment
           q == [file |-> file', h |-> h']
<1>1. file' = w.file /\ footer' = w.body /\ h' = Published(w)
  BY DEF Commit
<1>2. Safe(w, low) /\ w.body.alloc = w.h.alloc
  BY WriterSafe, CommitWritesSafe
<1> HIDE DEF w, low
<1>3. PublishedOf(w, h')
  BY <1>1, <1>2, PublishedKeeps DEF Safe
<1>4. RowsOK(h')
  BY <1>2, <1>3 DEF PublishedOf, Safe, RowsOK, NoDirty
<1>5. q.file = w.file /\ q.h = h'
  BY <1>1
<1> HIDE DEF q
<1>6. PlaceOK(q, w.h.alloc.segment)
  <2>1. IsFiniteSet({})
    BY FS_EmptySet
  <2>2. h'.dirty.segment = {} /\ h'.mapped \in Nat /\ h'.mapped <= Len(w.file)
    BY <1>2, <1>3, SeqFacts DEF PublishedOf, NoDirty, Safe, WriterShape
  <2>3. PlaceOK(w, low) /\ w.h.alloc.segment \in Nat
    BY <1>2 DEF Safe, PlaceOK
  <2>4. /\ h'.alloc = w.h.alloc /\ h'.registry = w.h.registry /\ h'.batch = w.h.batch
    BY <1>3 DEF PublishedOf
  <2> QED
    BY <1>5, <2>1, <2>2, <2>3, <2>4 DEF PlaceOK
<1>7. RootsOK(w.file, w.body, w.h.alloc.segment)
  BY <1>2 DEF Safe
<1>8. footer'.alloc = w.h.alloc
  BY <1>1, <1>2
<1>9. /\ footer'.alloc.collection \in Nat /\ footer'.alloc.frame \in Nat
      /\ footer'.alloc.vector \in Nat
  BY <1>2, <1>8 DEF Safe, RowsOK, TableOK
<1> QED
  BY <1>1, <1>4, <1>6, <1>7, <1>8, <1>9 DEF TablesInv, TablesOK, q

(* A refused commit: the old footer leads where it led.                    *)
LEMMA CommitRefusedTables == ASSUME TermInv, TablesInv, CommitRefused PROVE TablesInv'
<1> DEFINE w == CommitWrites
<1>1. file' = w.file /\ footer' = footer /\ h' = w.h
  BY DEF CommitRefused
<1>2. Safe(w, footer.alloc.segment)
  BY WriterSafe, CommitWritesSafe
<1>3. Grown(file, file')
  BY CommitRefusedTerms
<1> HIDE DEF w
<1>4. PICK hd : hd = w.h
  OBVIOUS
<1>5. RowsSame(w.h, hd) /\ PlaceSame(w, [file |-> w.file, h |-> hd])
  BY <1>4 DEF RowsSame, PlaceSame
<1>6. TablesOK(w.file, footer, hd)
  BY <1>1, <1>2, <1>3, <1>5, SafeTables
<1> QED
  BY <1>1, <1>4, <1>6 DEF TablesInv

(* Opening the file: tables and registry are read from the roots, and the  *)
(* allocators go on above the ids that were read.                          *)
LEMMA ReopenTables == ASSUME TermInv, TablesInv, Reopen PROVE TablesInv'
<1> DEFINE colls == ReadCatalogChain(file, footer.collection, "CollectionCatalog")
           frames == ReadFrameChain(file, footer.frame)
           vectors == ReadCatalogChain(file, footer.vector, "VectorCatalog")
           text == Rebuild(file, footer)
           filters == LoadFilters(file, footer.filters)
           times == LoadTimes(file, footer.time)
           registry == LoadRegistry(file, footer.segments)
           r == Opened(file, footer, colls, frames, vectors, text, filters, times, registry)
           al == footer.alloc
<1>1. r.ok /\ h' = r.val /\ UNCHANGED <<file, footer>>
  BY DEF Reopen, Load
<1> HIDE DEF colls, frames, vectors, text, filters, times, registry
<1>2. colls.ok /\ frames.ok /\ vectors.ok /\ registry.ok
  BY <1>1 DEF Opened, Err
<1>3. /\ h'.alloc = [collection |-> Observe(al.collection, colls.val),
                     frame |-> Observe(al.frame, frames.val),
                     vector |-> Observe(al.vector, vectors.val),
                     segment |-> al.segment]
      /\ h'.collections = colls.val /\ h'.frames = frames.val
      /\ h'.vectors = vectors.val /\ h'.registry = registry.val
      /\ h'.dirty = NoDirty /\ h'.payloads = EmptyBuf /\ h'.uris = EmptyBuf
      /\ h'.batch = <<>> /\ h'.mapped = Len(file)
  BY <1>1, ZenonT(30) DEF Opened, Err, Ok, EmptyHandle
<1> HIDE DEF r
<1>4. /\ RootsOK(file, footer, al.segment)
      /\ al.collection \in Nat /\ al.frame \in Nat /\ al.vector \in Nat
      /\ al.segment \in Nat
  BY DEF TablesInv, TablesOK, PlaceOK
<1>5. PICK lim, hd : lim = al.segment /\ hd = footer
  OBVIOUS
<1>6. /\ IsSeq(file) /\ CatOK(file, "CollectionCatalog", lim, hd.collection)
      /\ CatOK(file, "VectorCatalog", lim, hd.vector)
      /\ CatOK(file, "SegmentRegistry", lim, hd.segments)
  BY <1>4, <1>5 DEF TermInv, RootsOK
<1>7. PICK x, y, z, u : /\ x = hd.collection /\ y = hd.vector
                        /\ z = hd.segments /\ u = hd.frame
  OBVIOUS
<1>8. RowsGood("CollectionCatalog", file, lim, colls.val) /\ Sorted(colls.val)
  <2>1. colls = ReadCatalogChain(file, x, "CollectionCatalog")
    BY <1>5, <1>7 DEF colls
  <2>2. "CollectionCatalog" \in CatTables
    BY DEF CatTables
  <2> QED
    BY <1>2, <1>6, <1>7, <2>1, <2>2, CatalogGood
<1>9. RowsGood("VectorCatalog", file, lim, vectors.val) /\ Sorted(vectors.val)
  <2>1. vectors = ReadCatalogChain(file, y, "VectorCatalog")
    BY <1>5, <1>7 DEF vectors
  <2>2. "VectorCatalog" \in CatTables
    BY DEF CatTables
  <2> QED
    BY <1>2, <1>6, <1>7, <2>1, <2>2, CatalogGood
<1>10. RowsGood("FrameCatalog", file, lim, frames.val) /\ Sorted(frames.val)
  <2>1. frames = ReadFrameChain(file, u)
    BY <1>5, <1>7 DEF frames
  <2> QED
    BY <1>2, <1>6, <2>1, FramesGood
<1>11. RegOK(file, registry.val, lim)
  <2>1. registry = LoadRegistry(file, z)
    BY <1>5, <1>7 DEF registry
  <2> QED
    BY <1>2, <1>6, <1>7, <2>1, RegistryLoads
<1>12. /\ TableOK(colls.val, Observe(al.collection, colls.val))
       /\ TableOK(frames.val, Observe(al.frame, frames.val))
       /\ TableOK(vectors.val, Observe(al.vector, vectors.val))
  <2>1. PICK a, b, c : a = colls.val /\ b = frames.val /\ c = vectors.val
    OBVIOUS
  <2>2. PICK i \in Nat : i = al.collection
    BY <1>4
  <2>3. PICK j \in Nat : j = al.frame
    BY <1>4
  <2>4. PICK k \in Nat : k = al.vector
    BY <1>4
  <2>5. TableOK(a, Observe(i, a)) /\ TableOK(b, Observe(j, b)) /\ TableOK(c, Observe(k, c))
    BY <1>8, <1>9, <1>10, <2>1, ObserveOK
  <2> QED
    BY <2>1, <2>2, <2>3, <2>4, <2>5
<1>13. /\ h'.alloc.collection = Observe(al.collection, colls.val)
       /\ h'.alloc.frame = Observe(al.frame, frames.val)
       /\ h'.alloc.vector = Observe(al.vector, vectors.val)
       /\ h'.alloc.segment = al.segment
  BY <1>3
<1>14. RowsOK(h')
  BY <1>3, <1>12, <1>13, EmptyBufOK DEF RowsOK, NoDirty
<1> DEFINE q == [file |-> file', h |-> h']
<1>15. q.file = file /\ q.h = h'
  BY <1>1
<1> HIDE DEF q
<1>16. PlaceOK(q, lim)
  <2>1. IsFiniteSet({}) /\ lim <= lim /\ Len(file) \in Nat /\ Len(file) <= Len(file)
    BY <1>4, <1>5, SeqFacts, FS_EmptySet DEF TermInv
  <2>2. h'.dirty.segment = {}
    BY <1>3 DEF NoDirty
  <2> QED
    BY <1>3, <1>4, <1>5, <1>11, <1>13, <1>15, <2>1, <2>2 DEF PlaceOK
<1> QED
  BY <1>1, <1>4, <1>5, <1>14, <1>16 DEF TablesInv, TablesOK, q

(* Queries change caches only.                                             *)
LEMMA QueryTables == ASSUME TermInv, TablesInv, NEW t, Query(t) PROVE TablesInv'
<1> DEFINE st == IF DOMAIN h.pending # {} THEN h.text
                 ELSE WarmCosine(WarmBm25(h.text, Dead(h), <<t>>), Dead(h), <<t>>)
           base == LoadedBase(file, h)
<1>1. /\ h' = [h EXCEPT !.text = st, !.base = IF base.ok THEN <<base.val>> ELSE @]
      /\ UNCHANGED <<file, footer>>
  BY DEF Query
<1> HIDE DEF st, base
<1>2. /\ h'.alloc = h.alloc /\ h'.dirty = h.dirty /\ h'.batch = h.batch
      /\ h'.vectors = h.vectors /\ h'.frames = h.frames
      /\ h'.collections = h.collections /\ h'.payloads = h.payloads
      /\ h'.uris = h.uris /\ h'.registry = h.registry /\ h'.mapped = h.mapped
  BY <1>1 DEF TermInv, HandleShape, HandleFields
<1>3. RowsOK(h')
  BY <1>2 DEF TablesInv, TablesOK, RowsOK
<1> QED
  BY <1>1, <1>2, <1>3, EditTables

(* No step leaves a table out of order, an id at or above its allocator, a *)
(* registered segment elsewhere than the registry says, or a footer that   *)
(* leads to deltas of which one of these would be read.                    *)
THEOREM NextTables == TermInv /\ TablesInv /\ [Next]_vars => TablesInv'
<1> SUFFICES ASSUME TermInv, TablesInv, [Next]_vars PROVE TablesInv'
  OBVIOUS
<1>1. CASE Next
  BY <1>1, CreateCollectionTables, PutFrameTables, PutVectorTables, DeleteVectorTables,
     DeleteFrameTables, CommitTables, CommitRefusedTables, ReopenTables, QueryTables
     DEF Next
<1>2. CASE UNCHANGED vars
  BY <1>2 DEF vars, TablesInv
<1> QED
  BY <1>1, <1>2

(* Every table is in id order below the allocator that numbers it, every   *)
(* registered segment is where the registry says, and a frame waits in a   *)
(* buffer once: after any puts and deletions, commits and refused commits  *)
(* (which keep the ids they took), and openings of the file (which take    *)
(* the allocator of the footer, below the ids of segments already in it).  *)
THEOREM SpecTypeOK == Spec => []TypeOK
<1>1. TablesInv => TypeOK
  <2> SUFFICES ASSUME TablesInv PROVE TypeOK
    OBVIOUS
  <2>1. RowsOK(h) /\ PlaceOK([file |-> file, h |-> h], footer.alloc.segment)
    BY DEF TablesInv, TablesOK
  <2>2. ASSUME NEW rows, NEW next, TableOK(rows, next)
        PROVE  SortedById(rows) /\ \A id \in RowIds(rows) : id < next
    <3> DEFINE n == Len(rows)
    <3>1. n \in Nat /\ DOMAIN rows = 1..n
      BY <2>2, SeqFacts DEF TableOK
    <3> HIDE DEF n
    <3> DEFINE vs == Ids(rows)
    <3>2. DOMAIN vs = 1..n /\ \A i \in 1..n : vs[i] = rows[i].id
      BY <3>1 DEF Ids
    <3>3. vs = [i \in 1..n |-> vs[i]]
      BY <3>1 DEF Ids
    <3> HIDE DEF vs
    <3>4. IsSeq(vs)
      BY <3>1, <3>3, SeqOfFn
    <3>5. Len(vs) = n
      <4>1. Len(vs) \in Nat /\ DOMAIN vs = 1..Len(vs)
        BY <3>4, SeqFacts
      <4>2. \A a, b \in Nat : 1..a = 1..b => a = b
        OBVIOUS
      <4> QED
        BY <3>1, <3>2, <4>1, <4>2
    <3>6. ASSUME NEW i \in 1..n - 1 PROVE vs[i] < vs[i + 1]
      <4>1. i \in 1..n /\ i + 1 \in 1..n /\ i < i + 1
        BY <3>1
      <4> QED
        BY <2>2, <3>1, <3>2, <4>1 DEF TableOK, Sorted
    <3>7. SortedById(rows)
      BY <3>5, <3>6 DEF SortedById, StrictlyAscending, vs
    <3> QED
      BY <2>2, <3>7 DEF TableOK, RowIds
  <2>3. /\ SortedById(h.collections) /\ SortedById(h.frames) /\ SortedById(h.vectors)
        /\ \A id \in RowIds(h.collections) : id < h.alloc.collection
        /\ \A id \in RowIds(h.frames) : id < h.alloc.frame
        /\ \A id \in RowIds(h.vectors) : id < h.alloc.vector
    BY <2>1, <2>2 DEF RowsOK
  <2>4. IsInjective(h.payloads.frames)
    BY <2>1 DEF RowsOK, BufOK, IsInjective
  <2>5. /\ \A id \in DOMAIN h.registry : /\ id < h.alloc.segment
                                        /\ file[h.registry[id]].id = id
        /\ h.mapped <= Len(file)
    BY <2>1 DEF PlaceOK, RegOK
  <2> QED
    BY <2>1, <2>3, <2>4, <2>5 DEF TypeOK, RowsOK
<1> QED
  BY <1>1, InitTerms, InitTables, NextTerms, NextTables, PTL DEF Spec
=============================================================================
