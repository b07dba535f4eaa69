------------------------- MODULE IndexedFile_proof --------------------------
(***************************************************************************)
(* Proofs about IndexedFile for any documents, any number of edits,        *)
(* commits, refused commits and openings of the file.  The term ids in     *)
(* memory and those on disk never part (TermIdsStable): what the           *)
(* dictionary root leads to reads back as what was written, every stage of *)
(* a commit keeps it, and opening the file takes its ids from there.       *)
(* And no step moves or overwrites a segment that was written before it    *)
(* (SpecFileGrows).  A delta of any other catalog reads back the same way  *)
(* (CatalogReadsBack).                                                     *)
(***************************************************************************)
EXTENDS IndexedFile, SequenceTheorems, FiniteSetTheorems, TLAPS

CellStep(c, d, acc, i) ==
  Then(acc, LAMBDA vs, rest :
    Then(ReadCell(rest), LAMBDA v, more : Ok(Append(vs, v), more)))
Cells == INSTANCE Folding WITH Op <- CellStep

-----------------------------------------------------------------------------
(* Cells.                                                                  *)

LEMMA ConsReads ==
  ASSUME NEW C, NEW x \in C, NEW s \in Seq(C)
  PROVE  <<x>> \o s \in Seq(C) /\ ReadCell(<<x>> \o s) = Ok(x, s)
<1>1. <<x>> \in Seq(C) /\ Len(<<x>>) = 1 /\ <<x>>[1] = x
  OBVIOUS
<1>2. /\ <<x>> \o s \in Seq(C)
      /\ Len(<<x>> \o s) = 1 + Len(s)
      /\ (<<x>> \o s)[1] = x
      /\ \A i \in 1..Len(s) : (<<x>> \o s)[i + 1] = s[i]
  <2>1. \A i \in 1..(1 + Len(s)) :
          (<<x>> \o s)[i] = IF i <= 1 THEN <<x>>[i] ELSE s[i - 1]
    BY <1>1, ConcatProperties
  <2>2. Len(s) \in Nat
    BY LenProperties
  <2>3. \A i \in 1..Len(s) : i + 1 \in 1..(1 + Len(s)) /\ ~(i + 1 <= 1) /\ (i + 1) - 1 = i
    BY <2>2
  <2>4. \A i \in 1..Len(s) : (<<x>> \o s)[i + 1] = s[i]
    BY <2>1, <2>3
  <2>5. 1 \in 1..(1 + Len(s))
    BY <2>2
  <2>6. (<<x>> \o s)[1] = x
    BY <1>1, <2>1, <2>5
  <2> QED
    BY <1>1, <2>4, <2>6, ConcatProperties
<1> DEFINE q == <<x>> \o s
<1> HIDE DEF q
<1>3. q \in Seq(C) /\ Len(q) = 1 + Len(s) /\ q[1] = x /\ \A i \in 1..Len(s) : q[i + 1] = s[i]
  BY <1>2 DEF q
<1>4. Len(s) \in Nat
  BY LenProperties
<1>5. q # <<>>
  <2>1. Len(q) # 0
    BY <1>3, <1>4
  <2> QED
    BY <2>1, EmptySeq
<1>6. Head(q) = x
  BY <1>3, <1>5, HeadTailProperties
<1>7. Tail(q) \in Seq(C) /\ Len(Tail(q)) = Len(s)
      /\ \A i \in 1..Len(s) : Tail(q)[i] = s[i]
  BY <1>3, <1>4, <1>5, HeadTailProperties
<1>8. Tail(q) = s
  BY <1>7, SeqEqual
<1>9. ReadCell(q) = Ok(x, s)
  BY <1>5, <1>6, <1>8 DEF ReadCell
<1>10. ReadCell(<<x>> \o s) = Ok(x, s)
  BY <1>9 DEF q
<1> QED
  BY <1>2, <1>10

LEMMA ConsConcat ==
  ASSUME NEW C, NEW x \in C, NEW s \in Seq(C), NEW t \in Seq(C)
  PROVE  (<<x>> \o s) \o t = <<x>> \o (s \o t) /\ s \o t \in Seq(C)
<1>1. <<x>> \in Seq(C)
  OBVIOUS
<1> QED
  BY <1>1, ConcatAssociative, ConcatProperties

LEMMA Two ==
  ASSUME NEW C, NEW x \in C, NEW y \in C
  PROVE  <<x, y>> = <<x>> \o <<y>> /\ <<y>> \in Seq(C)
<1>1. <<x>> \in Seq(C) /\ <<y>> \in Seq(C) /\ <<x, y>> \in Seq(C)
  OBVIOUS
<1>2. /\ <<x>> \o <<y>> \in Seq(C) /\ Len(<<x>> \o <<y>>) = 2
      /\ (<<x>> \o <<y>>)[1] = x /\ (<<x>> \o <<y>>)[2] = y
  BY <1>1, ConcatProperties
<1>3. Len(<<x, y>>) = 2 /\ <<x, y>>[1] = x /\ <<x, y>>[2] = y
  OBVIOUS
<1>4. \A i \in 1..2 : (<<x>> \o <<y>>)[i] = <<x, y>>[i]
  BY <1>2, <1>3
<1> QED
  BY <1>1, <1>2, <1>3, <1>4, SeqEqual

LEMMA PairReads ==
  ASSUME NEW C, NEW x \in C, NEW y \in C, NEW rest \in Seq(C)
  PROVE  /\ <<x, y>> \o rest = <<x>> \o (<<y>> \o rest)
         /\ <<x, y>> \o rest \in Seq(C) /\ <<y>> \o rest \in Seq(C)
<1>1. <<x, y>> = <<x>> \o <<y>> /\ <<y>> \in Seq(C)
  BY Two
<1>2. (<<x>> \o <<y>>) \o rest = <<x>> \o (<<y>> \o rest)
  BY <1>1, ConsConcat
<1>3. <<y>> \o rest \in Seq(C)
  BY <1>1, ConcatProperties
<1>4. <<x>> \o (<<y>> \o rest) \in Seq(C)
  BY <1>3, ConsReads
<1> QED
  BY <1>1, <1>2, <1>3, <1>4

(* Two elements in front of a sequence are put there one after the other.  *)
PairsSplit(C) == \A x, y \in C, t \in Seq(C) : <<x, y>> \o t = <<x>> \o (<<y>> \o t)
LEMMA PairsRead == \A C : PairsSplit(C)
BY PairReads DEF PairsSplit

(* Places behind p of those before.                                        *)
LEMMA PlacesBehind ==
  \A p, q \in Nat : \A k \in 1..q :
    p + k \in 1..p + q /\ ~(p + k <= p) /\ (p + k) - p = k
OBVIOUS

(* What is before and what is after the place where two sequences join.    *)
LEMMA HalvesOf ==
  ASSUME NEW C, NEW s \in Seq(C), NEW t \in Seq(C)
  PROVE  /\ SubSeq(s \o t, 1, Len(s)) = s
         /\ SubSeq(s \o t, Len(s) + 1, Len(s \o t)) = t
<1> DEFINE q == s \o t
           m == Len(s)
           n == Len(t)
           l == Len(q)
<1>1. m \in Nat /\ n \in Nat
  BY LenProperties
<1>2. q \in Seq(C) /\ l = m + n
      /\ \A i \in 1..m + n : q[i] = IF i <= m THEN s[i] ELSE t[i - m]
  BY ConcatProperties
<1>3. \A i \in 1..m + n : q[i] \in C
  BY <1>1, <1>2, ElementOfSeq
<1> HIDE DEF q, m, n, l
<1> DEFINE a == SubSeq(q, 1, m)
           b == SubSeq(q, m + 1, l)
<1>4. a = s
  <2>1. \A i \in 1..m : q[i] \in C
    BY <1>1, <1>3
  <2>2. a \in Seq(C) /\ Len(a) = (IF 1 <= m THEN m - 1 + 1 ELSE 0)
        /\ \A i \in 1..m - 1 + 1 : a[i] = q[1 + i - 1]
    BY <1>1, <2>1, SubSeqProperties
  <2>3. Len(a) = m /\ \A i \in 1..m : a[i] = q[i]
    BY <1>1, <2>2
  <2>4. \A i \in 1..m : a[i] = s[i]
    BY <1>1, <1>2, <2>3
  <2> HIDE DEF a
  <2> QED
    BY <2>2, <2>3, <2>4, SeqEqual DEF m
<1>5. b = t
  <2>1. \A i \in m + 1..l : q[i] \in C
    BY <1>1, <1>2, <1>3
  <2>2. b \in Seq(C) /\ Len(b) = (IF m + 1 <= l THEN l - (m + 1) + 1 ELSE 0)
        /\ \A i \in 1..l - (m + 1) + 1 : b[i] = q[(m + 1) + i - 1]
    BY <1>1, <1>2, <2>1, SubSeqProperties
  <2>3. Len(b) = n /\ \A i \in 1..n : b[i] = q[m + i]
    BY <1>1, <1>2, <2>2
  <2>4. \A i \in 1..n : b[i] = t[i]
    <3>1. ASSUME NEW i \in 1..n PROVE b[i] = t[i]
      <4>1. m + i \in 1..m + n /\ ~(m + i <= m) /\ (m + i) - m = i
        BY <1>1
      <4> QED
        BY <1>2, <2>3, <4>1
    <3> QED
      BY <3>1
  <2> HIDE DEF b
  <2> QED
    BY <2>2, <2>3, <2>4, SeqEqual DEF n
<1> QED
  BY <1>4, <1>5 DEF a, b, q, m, l

LEMMA BlobReads ==
  ASSUME NEW C, NEW b \in Seq(C), Len(b) \in C, NEW rest \in Seq(C)
  PROVE  /\ WriteBlob(b) \in Seq(C) /\ WriteBlob(b) \o rest \in Seq(C)
         /\ ReadBlob(WriteBlob(b) \o rest) = Ok(b, rest)
<1>1. b \o rest \in Seq(C) /\ Len(b \o rest) = Len(b) + Len(rest)
  BY ConcatProperties
<1>2. WriteBlob(b) \in Seq(C) /\ WriteBlob(b) \o rest = <<Len(b)>> \o (b \o rest)
  BY ConsReads, ConsConcat DEF WriteBlob
<1>3. /\ <<Len(b)>> \o (b \o rest) \in Seq(C)
      /\ ReadCell(<<Len(b)>> \o (b \o rest)) = Ok(Len(b), b \o rest)
  BY <1>1, ConsReads
<1>4. Len(b) \in Nat /\ Len(rest) \in Nat
  BY LenProperties
<1>5. ~(Len(b) > Len(b \o rest))
  BY <1>1, <1>4
<1>6. /\ SubSeq(b \o rest, 1, Len(b)) = b
      /\ SubSeq(b \o rest, Len(b) + 1, Len(b \o rest)) = rest
  BY HalvesOf
<1>7. ReadBlob(<<Len(b)>> \o (b \o rest)) = Ok(b, rest)
  <2> DEFINE q == <<Len(b)>> \o (b \o rest)
             r == b \o rest
             m == Len(b)
  <2>a. ReadCell(q) = Ok(m, r)
    BY <1>3
  <2>b. ~(m > Len(r)) /\ SubSeq(r, 1, m) = b /\ SubSeq(r, m + 1, Len(r)) = rest
    BY <1>5, <1>6
  <2> HIDE DEF q, r, m
  <2>1. /\ ReadCell(q).ok /\ ReadCell(q).val = m /\ ReadCell(q).rest = r
        /\ ~(m > Len(r)) /\ SubSeq(r, 1, m) = b /\ SubSeq(r, m + 1, Len(r)) = rest
    BY <2>a, <2>b DEF Ok
  <2>2. ReadBlob(q) = Ok(b, rest)
    BY <2>1, Zenon DEF ReadBlob, Then
  <2> QED
    BY <2>2 DEF q
<1> QED
  BY <1>2, <1>3, <1>7

LEMMA SameFlatten == ASSUME NEW w PROVE FlattenSeq(w) = Cells!FlattenSeq(w)
BY DEF FlattenSeq, Cells!FlattenSeq

(* n cells one after the other are n reads of a cell.                      *)
LEMMA SinglesJoin ==
  ASSUME NEW C, NEW n \in Nat, NEW vs \in [1..n -> C]
  PROVE  FlattenSeq([i \in 1..n |-> <<vs[i]>>]) = vs
<1> DEFINE w == [i \in 1..n |-> <<vs[i]>>]
<1>1. w \in [1..n -> Seq(C)]
  OBVIOUS
<1> HIDE DEF w
<1>2. PICK f \in [0..n -> Seq(C)] : Cells!Joins(f, w, n) /\ Cells!FlattenSeq(w) = f[n]
  BY <1>1, Cells!FlattenSteps
<1> DEFINE K == {k \in Nat : k <= n => f[k] = Cells!First(vs, k)}
<1>3. 0 \in K
  <2>1. Cells!First(vs, 0) \in [1..0 -> C]
    BY DEF Cells!First
  <2>2. Cells!First(vs, 0) = <<>>
    BY <2>1, Cells!FnIsSeq, EmptySeq
  <2> QED
    BY <1>2, <2>2 DEF Cells!Joins
<1>4. \A k \in Nat : k \in K => k + 1 \in K
  <2> SUFFICES ASSUME NEW k \in Nat, k \in K, k + 1 <= n
               PROVE  f[k + 1] = Cells!First(vs, k + 1)
    OBVIOUS
  <2>1. k <= n /\ k + 1 \in 1..n /\ (k + 1) - 1 = k
    OBVIOUS
  <2>2. f[k] = Cells!First(vs, k)
    BY <2>1
  <2>3. f[k + 1] = f[k] \o <<vs[k + 1]>>
    BY <1>2, <2>1 DEF Cells!Joins, w
  <2>4. Cells!First(vs, k) \in Seq(C) /\ Cells!Grows(vs, k)
    BY <2>1, Cells!FirstGrows
  <2>5. vs[k + 1] \in C
    BY <2>1
  <2> HIDE DEF K
  <2>6. Append(Cells!First(vs, k), vs[k + 1]) = Cells!First(vs, k) \o <<vs[k + 1]>>
    BY <2>4, <2>5, AppendIsConcat
  <2> QED
    BY <2>2, <2>3, <2>4, <2>6 DEF Cells!Grows
<1>5. f[n] = Cells!First(vs, n)
  <2> HIDE DEF K
  <2>1. n \in K
    BY <1>3, <1>4, Cells!SetInduction
  <2> QED
    BY <2>1 DEF K
<1>6. Cells!First(vs, n) = vs
  BY DEF Cells!First
<1> QED
  BY <1>2, <1>5, <1>6, SameFlatten DEF w

LEMMA CellsRead ==
  ASSUME NEW C, NEW n \in Nat, NEW vs \in [1..n -> C], NEW rest \in Seq(C)
  PROVE  ReadMany(n, ReadCell, vs \o rest) = Ok(vs, rest)
<1> DEFINE w == [i \in 1..n |-> <<vs[i]>>]
<1>1. w \in [1..n -> Seq(C)]
  OBVIOUS
<1>2. Cells!Inverts(0, 0, C, C, vs, w)
  <2> SUFFICES ASSUME NEW i \in DOMAIN vs, NEW us \in Seq(C), NEW r \in Seq(C)
               PROVE  CellStep(0, 0, Cells!Read(us, w[i] \o r), i)
                        = Cells!Read(Append(us, vs[i]), r)
    BY DEF Cells!Inverts
  <2>1. PICK x \in C : x = vs[i] /\ w[i] = <<x>>
    OBVIOUS
  <2> DEFINE q == <<x>> \o r
  <2>2. ReadCell(q) = Ok(x, r)
    BY ConsReads
  <2>4. ReadCell(q).ok /\ ReadCell(q).val = x /\ ReadCell(q).rest = r
    BY <2>2 DEF Ok
  <2> HIDE DEF q
  <2>3. CellStep(0, 0, Cells!Read(us, q), i) = Cells!Read(Append(us, x), r)
    BY <2>4 DEF CellStep, Then, Ok, Cells!Read
  <2> QED
    BY <2>1, <2>3 DEF q
<1>3. FlattenSeq(w) = vs
  BY SinglesJoin
<1> HIDE DEF w
<1>4. Cells!Fold(0, 0, Cells!Read(<<>>, Cells!FlattenSeq(w) \o rest), Cells!UpTo(n))
        = Cells!Read(vs, rest)
  BY <1>1, <1>2, Cells!ReadsBack
<1>5. Cells!FlattenSeq(w) = vs
  BY <1>3, SameFlatten
<1> DEFINE q == vs \o rest
<1>6. ReadMany(n, ReadCell, q) = Cells!Fold(0, 0, Cells!Read(<<>>, q), Cells!UpTo(n))
  <2> HIDE DEF q
  <2> QED
    BY Zenon DEF ReadMany, CellStep, Ok, FoldLeft, MapThenFoldSet, Max, Cells!Read, Cells!Fold,
           Cells!UpTo, Cells!FoldLeft, Cells!MapThenFoldSet, Cells!Max
<1> QED
  BY <1>4, <1>5, <1>6 DEF Ok, Cells!Read

-----------------------------------------------------------------------------
(* References.                                                             *)

LEMMA PairOfCells ==
  ASSUME NEW C, NEW x \in C, NEW y \in C, NEW rest \in Seq(C)
  PROVE  /\ <<x, y>> \o rest \in Seq(C)
         /\ ReadMany(2, ReadCell, <<x, y>> \o rest) = Ok(<<x, y>>, rest)
<1>1. PICK v \in [1..2 -> C] : v = <<x, y>> /\ v \in Seq(C)
  <2>1. <<x, y>> \in [1..2 -> C] /\ <<x, y>> \in Seq(C)
    OBVIOUS
  <2> QED
    BY <2>1
<1>2. 2 \in Nat
  OBVIOUS
<1>3. ReadMany(2, ReadCell, v \o rest) = Ok(v, rest)
  BY <1>2, CellsRead
<1>4. v \o rest \in Seq(C)
  BY <1>1, ConcatProperties
<1> QED
  BY <1>1, <1>3, <1>4

(* A root is absent or an id and an offset.                                *)
Refs(C) == {<<>>} \cup (C \X C)

LEMMA RefReads ==
  ASSUME NEW C, 0 \in C, 1 \in C, NEW prev \in Refs(C), NEW rest \in Seq(C)
  PROVE  /\ WriteRef(prev) \in Seq(C) /\ WriteRef(prev) \o rest \in Seq(C)
         /\ ReadRef(WriteRef(prev) \o rest) = Ok(prev, rest)
<1>1. CASE prev = <<>>
  <2>1. WriteRef(prev) = <<0>> /\ <<0>> \in Seq(C)
    BY <1>1 DEF WriteRef
  <2> DEFINE q == <<0>> \o rest
  <2>2. q \in Seq(C) /\ ReadCell(q) = Ok(0, rest)
    BY ConsReads
  <2>3. ReadCell(q).ok /\ ReadCell(q).val = 0 /\ ReadCell(q).rest = rest
    BY <2>2 DEF Ok
  <2> HIDE DEF q
  <2>4. ReadRef(q) = Ok(<<>>, rest)
    BY <2>3 DEF ReadRef, Then
  <2> QED
    BY <1>1, <2>1, <2>2, <2>4 DEF q
<1>2. CASE prev # <<>>
  <2>1. PICK a \in C, b \in C : prev = <<a, b>>
    BY <1>2 DEF Refs
  <2>2. <<a, b>> \in [1..2 -> C] /\ <<a, b>> \in Seq(C)
    OBVIOUS
  <2>3. WriteRef(prev) = <<1>> \o <<a, b>>
    BY <1>2, <2>1 DEF WriteRef
  <2> DEFINE r == <<a, b>> \o rest
             q == <<1>> \o r
  <2>4. r \in Seq(C) /\ ReadMany(2, ReadCell, r) = Ok(<<a, b>>, rest)
    BY PairOfCells
  <2>5. (<<1>> \o <<a, b>>) \o rest = q /\ <<1>> \o <<a, b>> \in Seq(C)
    BY <2>2, ConsConcat, ConsReads
  <2> HIDE DEF r
  <2>6. q \in Seq(C) /\ ReadCell(q) = Ok(1, r)
    BY <2>4, ConsReads
  <2>7. ReadCell(q).ok /\ ReadCell(q).val = 1 /\ ReadCell(q).rest = r
    BY <2>6 DEF Ok
  <2> HIDE DEF q
  <2>8. ReadRef(q) = ReadMany(2, ReadCell, r)
    BY <2>7 DEF ReadRef, Then
  <2> QED
    BY <2>1, <2>3, <2>4, <2>5, <2>6, <2>8
<1> QED
  BY <1>1, <1>2

(* What a magic number is followed by.                                     *)
LEMMA MagicReads ==
  ASSUME NEW C, NEW m \in C, NEW rest \in Seq(C)
  PROVE  <<m>> \o rest \in Seq(C) /\ ReadMagic(m, <<m>> \o rest) = Ok(m, rest)
<1> DEFINE q == <<m>> \o rest
<1>1. q \in Seq(C) /\ ReadCell(q) = Ok(m, rest)
  BY ConsReads
<1>2. ReadCell(q).ok /\ ReadCell(q).val = m /\ ReadCell(q).rest = rest
  BY <1>1 DEF Ok
<1> HIDE DEF q
<1>3. ReadMagic(m, q) = Ok(m, rest)
  BY <1>2 DEF ReadMagic, Then
<1> QED
  BY <1>1, <1>3 DEF q

-----------------------------------------------------------------------------
(* The term dictionary.                                                    *)

TermRow(A) == [term : A, bytes : A, cf : A, df : A]
TermCells(r) == <<r.term>> \o WriteBlob(<<r.bytes>>) \o <<r.cf, r.df>>

TermsCells(n, rs) == FlattenSeq([i \in 1..n |-> TermCells(rs[i])])

LEMMA TermReads ==
  ASSUME NEW C, 1 \in C, NEW r \in TermRow(C), NEW rest \in Seq(C)
  PROVE  /\ TermCells(r) \in Seq(C) /\ TermCells(r) \o rest \in Seq(C)
         /\ ReadTermRecord(TermCells(r) \o rest) = Ok(r, rest)
<1>1. PICK t \in C, b \in C, x \in C, y \in C :
        r = [term |-> t, bytes |-> b, cf |-> x, df |-> y]
  BY DEF TermRow
<1>2. r.term = t /\ r.bytes = b /\ r.cf = x /\ r.df = y
  BY <1>1
<1>3. <<x, y>> \in [1..2 -> C] /\ <<x, y>> \in Seq(C) /\ <<b>> \in Seq(C)
      /\ Len(<<b>>) = 1 /\ <<b>>[1] = b /\ <<x, y>>[1] = x /\ <<x, y>>[2] = y
  OBVIOUS
<1> DEFINE s3 == <<x, y>> \o rest
           blob == WriteBlob(<<b>>)
           s2 == blob \o s3
           s1 == <<t>> \o s2
<1>4. s3 \in Seq(C) /\ ReadMany(2, ReadCell, s3) = Ok(<<x, y>>, rest)
  BY PairOfCells
<1> HIDE DEF s3
<1>5. blob \in Seq(C) /\ s2 \in Seq(C) /\ ReadBlob(s2) = Ok(<<b>>, s3)
  BY <1>3, <1>4, BlobReads
<1> HIDE DEF s2, blob
<1>6. s1 \in Seq(C) /\ ReadCell(s1) = Ok(t, s2)
  BY <1>5, ConsReads
<1>7. /\ ReadCell(s1).ok /\ ReadCell(s1).val = t /\ ReadCell(s1).rest = s2
      /\ ReadBlob(s2).ok /\ ReadBlob(s2).val = <<b>> /\ ReadBlob(s2).rest = s3
  BY <1>5, <1>6 DEF Ok
<1>8. /\ ReadMany(2, ReadCell, s3).ok
      /\ ReadMany(2, ReadCell, s3).val = <<x, y>>
      /\ ReadMany(2, ReadCell, s3).rest = rest
  BY <1>4 DEF Ok
<1>9. TermCells(r) \in Seq(C) /\ TermCells(r) \o rest = s1
  <2>1. TermCells(r) = (<<t>> \o blob) \o <<x, y>>
    BY <1>2 DEF TermCells, blob
  <2>2. <<t>> \o blob \in Seq(C) /\ (<<t>> \o blob) \o <<x, y>> \in Seq(C)
    BY <1>3, <1>5, ConsReads, ConcatProperties
  <2>3. ((<<t>> \o blob) \o <<x, y>>) \o rest = (<<t>> \o blob) \o s3
    BY <1>3, <2>2, ConcatAssociative DEF s3
  <2>4. (<<t>> \o blob) \o s3 = s1
    BY <1>4, <1>5, ConsConcat DEF s2
  <2> QED
    BY <2>1, <2>2, <2>3, <2>4
<1> HIDE DEF s1
<1>10. ReadTermRecord(s1) = Ok(r, rest)
  BY <1>1, <1>3, <1>7, <1>8 DEF ReadTermRecord, Then
<1> QED
  BY <1>6, <1>9, <1>10

TermStep(c, d, acc, i) ==
  Then(acc, LAMBDA vs, rest :
    Then(ReadTermRecord(rest), LAMBDA v, more : Ok(Append(vs, v), more)))
Terms == INSTANCE Folding WITH Op <- TermStep

LEMMA TermsRead ==
  ASSUME NEW C, 1 \in C, NEW n \in Nat, NEW rs \in [1..n -> TermRow(C)],
         NEW rest \in Seq(C)
  PROVE  /\ TermsCells(n, rs) \in Seq(C)
         /\ ReadMany(n, ReadTermRecord, TermsCells(n, rs) \o rest) = Ok(rs, rest)
<1> DEFINE w == [i \in 1..n |-> TermCells(rs[i])]
<1>1. w \in [1..n -> Seq(C)]
  <2>1. ASSUME NEW i \in 1..n PROVE TermCells(rs[i]) \in Seq(C)
    <3>1. PICK r \in TermRow(C) : r = rs[i]
      OBVIOUS
    <3>2. <<>> \in Seq(C)
      OBVIOUS
    <3> QED
      BY <3>1, <3>2, TermReads
  <2> QED
    BY <2>1
<1>2. Terms!Inverts(0, 0, C, TermRow(C), rs, w)
  <2> SUFFICES ASSUME NEW i \in DOMAIN rs, NEW us \in Seq(TermRow(C)), NEW t \in Seq(C)
               PROVE  TermStep(0, 0, Terms!Read(us, w[i] \o t), i)
                        = Terms!Read(Append(us, rs[i]), t)
    BY DEF Terms!Inverts
  <2>1. PICK x \in TermRow(C) : x = rs[i] /\ w[i] = TermCells(x)
    OBVIOUS
  <2> DEFINE q == TermCells(x) \o t
  <2>2. ReadTermRecord(q) = Ok(x, t)
    BY TermReads
  <2>3. /\ ReadTermRecord(q).ok /\ ReadTermRecord(q).val = x
        /\ ReadTermRecord(q).rest = t
    BY <2>2 DEF Ok
  <2> HIDE DEF q
  <2>4. TermStep(0, 0, Terms!Read(us, q), i) = Terms!Read(Append(us, x), t)
    BY <2>3 DEF TermStep, Then, Ok, Terms!Read
  <2> QED
    BY <2>1, <2>4 DEF q
<1> HIDE DEF w
<1>3. Terms!Fold(0, 0, Terms!Read(<<>>, Terms!FlattenSeq(w) \o rest), Terms!UpTo(n))
        = Terms!Read(rs, rest)
  BY <1>1, <1>2, Terms!ReadsBack
<1>4. FlattenSeq(w) = Terms!FlattenSeq(w)
  BY DEF FlattenSeq, Terms!FlattenSeq
<1>5. FlattenSeq(w) \in Seq(C)
  <2>1. PICK f \in [0..n -> Seq(C)] : Terms!Joins(f, w, n) /\ Terms!FlattenSeq(w) = f[n]
    BY <1>1, Terms!FlattenSteps
  <2> QED
    BY <1>4, <2>1
<1> DEFINE q == FlattenSeq(w) \o rest
<1>6. ReadMany(n, ReadTermRecord, q)
        = Terms!Fold(0, 0, Terms!Read(<<>>, q), Terms!UpTo(n))
  <2> HIDE DEF q
  <2> QED
    BY Zenon DEF ReadMany, TermStep, Ok, FoldLeft, MapThenFoldSet, Max, Terms!Read, Terms!Fold,
           Terms!UpTo, Terms!FoldLeft, Terms!MapThenFoldSet, Terms!Max
<1>7. ReadMany(n, ReadTermRecord, q) = Ok(rs, rest)
  BY <1>3, <1>4, <1>6 DEF Ok, Terms!Read
<1> QED
  BY <1>5, <1>7 DEF w, TermsCells

(* What a flush writes of the dictionary is what opening the file reads:   *)
(* decode_term_dictionary_segment inverts encode_term_dictionary_segment.   *)
THEOREM DictionaryReadsBack ==
  ASSUME NEW C, {0, 1, "VLTD"} \subseteq C, NEW prev \in Refs(C),
         NEW rs \in Seq(TermRow(C)), Len(rs) \in C
  PROVE  DecodeTermDictionary(EncodeTermDictionary(prev, rs))
           = Ok([prev |-> prev, rows |-> rs], <<>>)
<1>1. /\ Len(rs) \in Nat /\ rs \in [1..Len(rs) -> TermRow(C)]
      /\ DOMAIN rs = 1..Len(rs)
  BY LenProperties
<1>14. <<>> \in Seq(C)
  OBVIOUS
<1>2. PICK n \in Nat : n = Len(rs) /\ n \in C /\ DOMAIN rs = 1..n /\ rs \in [1..n -> TermRow(C)]
  BY <1>1, Zenon
<1> DEFINE w == TermsCells(n, rs)
<1>3. w \in Seq(C) /\ ReadMany(n, ReadTermRecord, w \o <<>>) = Ok(rs, <<>>)
  BY <1>14, <1>2, TermsRead
<1>4. EncodeTermDictionary(prev, rs) = (<<"VLTD", n>> \o WriteRef(prev)) \o w
  BY <1>2 DEF EncodeTermDictionary, TermCells, TermsCells
<1> HIDE DEF w
<1>5. w \o <<>> = w
  BY <1>3, ConcatEmptySeq
<1> DEFINE s3 == WriteRef(prev) \o w
           s2 == <<n>> \o s3
           s1 == <<"VLTD">> \o s2
<1>6. WriteRef(prev) \in Seq(C) /\ s3 \in Seq(C) /\ ReadRef(s3) = Ok(prev, w)
  BY <1>3, RefReads
<1>7. EncodeTermDictionary(prev, rs) = s1
  <2>1. <<"VLTD", n>> \in Seq(C)
    BY <1>2
  <2>2. (<<"VLTD", n>> \o WriteRef(prev)) \o w = <<"VLTD", n>> \o s3
    BY <1>3, <1>6, <2>1, ConcatAssociative
  <2> HIDE DEF s3
  <2>3. <<"VLTD", n>> \o s3 = <<"VLTD">> \o (<<n>> \o s3)
    <3>1. PairsSplit(C)
      BY PairsRead
    <3>2. "VLTD" \in C /\ n \in C /\ s3 \in Seq(C)
      BY <1>2, <1>6
    <3> QED
      BY <3>1, <3>2, Zenon DEF PairsSplit
  <2> QED
    BY <1>4, <2>2, <2>3 DEF s3
<1> HIDE DEF s3
<1>8. s2 \in Seq(C) /\ ReadCell(s2) = Ok(n, s3)
  BY <1>2, <1>6, ConsReads
<1> HIDE DEF s2
<1>9. ReadMagic("VLTD", s1) = Ok("VLTD", s2)
  BY <1>8, MagicReads
<1> HIDE DEF s1
<1>10. /\ ReadMagic("VLTD", s1).ok /\ ReadMagic("VLTD", s1).rest = s2
       /\ ReadCell(s2).ok /\ ReadCell(s2).val = n /\ ReadCell(s2).rest = s3
       /\ ReadRef(s3).ok /\ ReadRef(s3).val = prev /\ ReadRef(s3).rest = w
  BY <1>6, <1>8, <1>9 DEF Ok
<1>11. /\ ReadMany(n, ReadTermRecord, w).ok /\ ReadMany(n, ReadTermRecord, w).val = rs
       /\ ReadMany(n, ReadTermRecord, w).rest = <<>>
  BY <1>3, <1>5 DEF Ok
<1>13. ReadCount(s2).ok /\ ReadCount(s2).val = n /\ ReadCount(s2).rest = s3
  BY <1>2, <1>10 DEF ReadCount, Then, Ok
<1>12. DecodeTermDictionary(s1) = Ok([prev |-> prev, rows |-> rs], <<>>)
  BY <1>10, <1>11, <1>13 DEF DecodeTermDictionary, Then, Whole, Ok
<1> QED
  BY <1>7, <1>12

Lower(S, x) == {y \in S : y < x}

LEMMA BelowFacts ==
  ASSUME NEW S \in SUBSET Nat, IsFiniteSet(S)
  PROVE  /\ Cardinality(S) \in Nat
         /\ \A x \in S : Cardinality(Lower(S, x)) \in 0..(Cardinality(S) - 1)
         /\ \A x, y \in S : x < y => Cardinality(Lower(S, x)) < Cardinality(Lower(S, y))
<1> DEFINE c == Cardinality(S)
<1>1. c \in Nat
  BY FS_CardinalityType
<1>2. ASSUME NEW x \in S
      PROVE  /\ IsFiniteSet(Lower(S, x))
             /\ Cardinality(Lower(S, x)) \in 0..(c - 1)
  <2>1. Lower(S, x) \in SUBSET S /\ x \in S /\ x \notin Lower(S, x)
    BY DEF Lower
  <2>2. IsFiniteSet(Lower(S, x)) /\ Cardinality(Lower(S, x)) <= c /\ Cardinality(Lower(S, x)) # c
    BY <2>1, FS_Subset
  <2>3. Cardinality(Lower(S, x)) \in Nat
    BY <2>2, FS_CardinalityType
  <2> QED
    BY <1>1, <2>2, <2>3
<1>3. ASSUME NEW x \in S, NEW y \in S, x < y
      PROVE  Cardinality(Lower(S, x)) < Cardinality(Lower(S, y))
  <2>1. \A z \in Lower(S, x) : z \in Lower(S, y)
    BY <1>3 DEF Lower
  <2>2. x \in Lower(S, y) /\ x \notin Lower(S, x)
    BY <1>3 DEF Lower
  <2>3. Lower(S, x) \in SUBSET Lower(S, y)
    BY <2>1
  <2>4. /\ Cardinality(Lower(S, x)) <= Cardinality(Lower(S, y))
        /\ Cardinality(Lower(S, x)) # Cardinality(Lower(S, y))
    BY <2>2, <2>3, <1>2, FS_Subset
  <2> QED
    BY <1>1, <1>2, <2>4
<1> QED
  BY <1>1, <1>2, <1>3

(* InOrder lists a finite set of numbers, each once, ascending.            *)
Lists(s, S) ==
  /\ s \in [1..Cardinality(S) -> S]
  /\ \A x \in S : \E k \in DOMAIN s : s[k] = x
  /\ \A j, k \in DOMAIN s : j < k => s[j] < s[k]

LEMMA InOrderLists ==
  ASSUME NEW S \in SUBSET Nat, IsFiniteSet(S)
  PROVE  Cardinality(S) \in Nat /\ InOrder(S) \in Seq(S)
         /\ Len(InOrder(S)) = Cardinality(S) /\ Lists(InOrder(S), S)
<1> DEFINE c == Cardinality(S)
           r == [x \in S |-> Cardinality(Lower(S, x)) + 1]
<1>1. c \in Nat /\ \A x \in S : r[x] \in 1..c
  BY BelowFacts
<1>2. \A x, y \in S : r[x] = r[y] => x = y
  <2> SUFFICES ASSUME NEW x \in S, NEW y \in S, x # y PROVE r[x] # r[y]
    OBVIOUS
  <2>1. x < y \/ y < x
    OBVIOUS
  <2>2. \A u, v \in S : u < v => r[u] < r[v]
    BY BelowFacts
  <2>3. r[x] \in Nat /\ r[y] \in Nat
    BY <1>1
  <2> HIDE DEF r
  <2> QED
    BY <2>1, <2>2, <2>3
<1>3. r \in Injection(S, 1..c)
  BY <1>1, <1>2 DEF Injection, IsInjective
<1>4. IsFiniteSet(1..c) /\ Cardinality(1..c) = c
  BY <1>1, FS_Interval
<1>5. r \in Surjection(S, 1..c)
  BY <1>3, <1>4, FS_Injection
<1>6. \A n \in 1..c : \E x \in S : r[x] = n
  BY <1>5 DEF Surjection
<1> DEFINE s == InOrder(S)
<1>7. ASSUME NEW n \in 1..c PROVE s[n] \in S /\ r[s[n]] = n
  <2>1. s[n] = CHOOSE x \in S : Cardinality(Lower(S, x)) = n - 1
    BY DEF InOrder, Lower
  <2>2. PICK x \in S : Cardinality(Lower(S, x)) + 1 = n
    BY <1>6
  <2>3. \A y \in S : Cardinality(Lower(S, y)) \in Nat
    BY <1>1, BelowFacts
  <2>4. Cardinality(Lower(S, x)) = n - 1
    BY <2>2, <2>3
  <2>5. s[n] \in S /\ Cardinality(Lower(S, s[n])) = n - 1
    BY <2>1, <2>4
  <2> HIDE DEF s
  <2> QED
    BY <1>1, <2>5
<1>8. DOMAIN s = 1..c /\ s \in [1..c -> S]
  <2>1. DOMAIN s = 1..c /\ s = [n \in 1..c |-> s[n]]
    BY SMTT(30) DEF InOrder
  <2> HIDE DEF s
  <2> QED
    BY <1>7, <2>1
<1>9. \A x \in S : \E k \in DOMAIN s : s[k] = x
  <2> HIDE DEF r, s
  <2> QED
    BY <1>1, <1>2, <1>7, <1>8
<1>10. ASSUME NEW j \in 1..c, NEW k \in 1..c, j < k PROVE s[j] < s[k]
  <2>1. s[j] \in S /\ s[k] \in S /\ r[s[j]] = j /\ r[s[k]] = k
    BY <1>7
  <2>2. \A u, v \in S : u < v => r[u] < r[v]
    BY BelowFacts
  <2> HIDE DEF r, s
  <2>4. c \in Nat /\ j \in Nat /\ k \in Nat /\ ~(k < j) /\ j # k
    BY <1>1, <1>10
  <2>5. s[j] # s[k]
    BY <2>1, <2>4
  <2>6. s[k] < s[j] => k < j
    BY <2>1, <2>2
  <2>3. s[j] \in Nat /\ s[k] \in Nat /\ s[j] # s[k] /\ ~(s[k] < s[j])
    BY <2>1, <2>4, <2>5, <2>6
  <2> QED
    BY <2>3
<1>11. Lists(s, S)
  <2> HIDE DEF s
  <2> QED
    BY <1>8, <1>9, <1>10 DEF Lists
<1>12. s \in Seq(S) /\ Len(s) = c
  <2> HIDE DEF s
  <2> QED
    BY <1>1, <1>8, Cells!FnIsSeq
<1> QED
  BY <1>1, <1>11, <1>12

LEMMA MaxMin ==
  ASSUME NEW S \in SUBSET Nat, IsFiniteSet(S), S # {}
  PROVE  /\ Max(S) \in S /\ \A y \in S : y <= Max(S)
         /\ Min(S) \in S /\ \A y \in S : Min(S) <= y
<1> DEFINE s == InOrder(S)
           n == Cardinality(S)
<1>1. n \in Nat /\ n # 0
  BY FS_CardinalityType, FS_EmptySet
<1>2. Lists(s, S)
  BY InOrderLists
<1> HIDE DEF s
<1>3. \A y \in S : y <= s[n] /\ s[1] <= y
  <2> SUFFICES ASSUME NEW y \in S PROVE y <= s[n] /\ s[1] <= y
    OBVIOUS
  <2>1. DOMAIN s = 1..n /\ \A k \in 1..n : s[k] \in S
    BY <1>2 DEF Lists
  <2>2. PICK k \in 1..n : s[k] = y
    BY <1>2, <2>1 DEF Lists
  <2>3. n \in 1..n /\ 1 \in 1..n /\ (k = n \/ k < n) /\ (k = 1 \/ 1 < k)
    BY <1>1
  <2>4. (k < n => s[k] < s[n]) /\ (1 < k => s[1] < s[k])
    BY <1>2, <2>1, <2>3 DEF Lists
  <2>5. s[1] \in Nat /\ s[n] \in Nat /\ y \in Nat
    BY <2>1, <2>3
  <2> QED
    BY <2>2, <2>3, <2>4, <2>5
<1>4. s[n] \in S /\ s[1] \in S
  <2>1. n \in 1..n /\ 1 \in 1..n
    BY <1>1
  <2> QED
    BY <1>2, <2>1 DEF Lists
<1> QED
  BY <1>3, <1>4 DEF Max, Min

-----------------------------------------------------------------------------
(* The term ids of a text state.                                           *)

Known(st) == InsertAll(st.sorted, st.ids)
TextFields == {"sorted", "ids", "next", "df", "cf", "postings", "segs", "stats",
               "cache"}

(* TermIdsStable, of any text state.                                       *)
TextOK(st) ==
  /\ TextFields \subseteq DOMAIN st
  /\ st.next \in Nat
  /\ \A b \in DOMAIN st.ids : st.ids[b] \in Nat /\ st.ids[b] < st.next
  /\ \A b \in DOMAIN st.sorted : st.sorted[b] \in Nat /\ st.sorted[b] < st.next
  /\ DOMAIN st.sorted \cap DOMAIN st.ids = {}
  /\ \A a, b \in DOMAIN Known(st) : Known(st)[a] = Known(st)[b] => a = b

Extends(k1, k2) == \A b \in DOMAIN k1 : b \in DOMAIN k2 /\ k2[b] = k1[b]

LEMMA KnownFacts ==
  ASSUME NEW st
  PROVE  /\ DOMAIN Known(st) = DOMAIN st.ids \cup DOMAIN st.sorted
         /\ \A b \in DOMAIN st.ids : Known(st)[b] = st.ids[b]
         /\ \A b \in DOMAIN st.sorted : b \notin DOMAIN st.ids => Known(st)[b] = st.sorted[b]
  BY DEF Known, InsertAll

LEMMA EmptyTextOK == TextOK(EmptyText) /\ DOMAIN Known(EmptyText) = {}
<1>1. EmptyText.sorted = <<>> /\ EmptyText.ids = <<>> /\ EmptyText.next = 0
      /\ TextFields \subseteq DOMAIN EmptyText
  BY DEF EmptyText, TextFields
<1>2. DOMAIN <<>> = {}
  OBVIOUS
<1>3. DOMAIN Known(EmptyText) = {}
  BY <1>1, <1>2, KnownFacts
<1> QED
  BY <1>1, <1>2, <1>3 DEF TextOK

(* The term ids are the same in two states.                                *)
SameTerms(s, t) ==
  /\ TextFields \subseteq DOMAIN t
  /\ t.ids = s.ids /\ t.sorted = s.sorted /\ t.next = s.next

LEMMA SameTermsOK ==
  ASSUME NEW s, NEW t, TextOK(s), SameTerms(s, t)
  PROVE  TextOK(t) /\ Known(t) = Known(s)
<1>1. Known(t) = Known(s)
  BY DEF Known, SameTerms
<1> QED
  BY <1>1 DEF TextOK, SameTerms

LEMMA LookupFacts ==
  ASSUME NEW st, NEW b
  PROVE  LookupTerm(st, b) = <<>> <=> b \notin DOMAIN Known(st)
<1>1. \A x : <<x>> # <<>>
  OBVIOUS
<1> QED
  BY <1>1, KnownFacts DEF LookupTerm

(* A flush numbers new terms from next on.                                 *)
LEMMA AssignFacts ==
  ASSUME NEW st, TextOK(st), NEW S \in SUBSET Nat, IsFiniteSet(S),
         S \cap DOMAIN Known(st) = {}
  PROVE  LET st1 == AssignTerms(st, InOrder(S)) IN
         /\ TextOK(st1) /\ Extends(Known(st), Known(st1))
         /\ S \subseteq DOMAIN st1.ids
<1> DEFINE new == InOrder(S)
           st1 == AssignTerms(st, new)
           n == Cardinality(S)
           at(b) == CHOOSE i \in DOMAIN new : new[i] = b
           g == [b \in Range(new) |-> st.next + at(b) - 1]
<1>1. n \in Nat /\ Len(new) = n /\ Lists(new, S)
  BY InOrderLists
<1>2. /\ TextFields \subseteq DOMAIN st1
      /\ st1.ids = InsertAll(st.ids, g)
      /\ st1.next = st.next + Len(new)
      /\ st1.sorted = st.sorted
  BY DEF AssignTerms, TextOK, TextFields
<1> HIDE DEF new, st1
<1>3. DOMAIN new = 1..n /\ Range(new) = S
  BY <1>1 DEF Lists, Range
<1>4. ASSUME NEW b \in S PROVE at(b) \in 1..n /\ new[at(b)] = b
  BY <1>1, <1>3 DEF Lists
<1> HIDE DEF at
<1>5. st.next \in Nat
  BY DEF TextOK
<1>6. ASSUME NEW b \in S
      PROVE  g[b] \in Nat /\ g[b] >= st.next /\ g[b] < st.next + n /\ g[b] = st.next + at(b) - 1
  <2>1. g[b] = st.next + at(b) - 1
    BY <1>3
  <2> HIDE DEF g
  <2>2. at(b) \in 1..n
    BY <1>4
  <2> QED
    BY <1>1, <1>5, <2>1, <2>2
<1>7. DOMAIN g = S
  BY <1>3
<1> HIDE DEF g
<1>8. /\ DOMAIN st1.ids = S \cup DOMAIN st.ids
      /\ \A b \in S : st1.ids[b] = g[b]
      /\ \A b \in DOMAIN st.ids : b \notin S /\ st1.ids[b] = st.ids[b]
  <2>1. \A b \in DOMAIN st.ids : b \notin S
    BY KnownFacts
  <2> QED
    BY <1>2, <1>7, <2>1 DEF InsertAll
<1>9. /\ DOMAIN Known(st1) = S \cup DOMAIN Known(st)
      /\ \A b \in S : Known(st1)[b] = g[b]
      /\ \A b \in DOMAIN Known(st) : Known(st1)[b] = Known(st)[b]
  <2>1. DOMAIN Known(st) = DOMAIN st.ids \cup DOMAIN st.sorted
        /\ DOMAIN Known(st1) = DOMAIN st1.ids \cup DOMAIN st1.sorted
    BY KnownFacts
  <2>2. \A b \in DOMAIN st1.ids : Known(st1)[b] = st1.ids[b]
    BY KnownFacts
  <2>3. ASSUME NEW b \in DOMAIN st.sorted
        PROVE  Known(st)[b] = st.sorted[b] /\ Known(st1)[b] = st.sorted[b]
    <3>1. b \notin DOMAIN st.ids /\ b \notin S
      BY <2>1 DEF TextOK
    <3>2. Known(st)[b] = st.sorted[b]
      BY <3>1, KnownFacts
    <3>3. b \in DOMAIN st1.sorted /\ b \notin DOMAIN st1.ids
      BY <1>2, <1>8, <3>1
    <3>4. Known(st1)[b] = st1.sorted[b]
      BY <3>3, KnownFacts
    <3> QED
      BY <1>2, <3>2, <3>4
  <2>4. \A b \in DOMAIN st.ids : Known(st)[b] = st.ids[b]
    BY KnownFacts
  <2> QED
    BY <1>2, <1>8, <2>1, <2>2, <2>3, <2>4
<1>10. \A b \in DOMAIN Known(st) : Known(st)[b] \in Nat /\ Known(st)[b] < st.next
  BY KnownFacts DEF TextOK
<1>11. ASSUME NEW a \in DOMAIN Known(st1), NEW b \in DOMAIN Known(st1),
              Known(st1)[a] = Known(st1)[b]
       PROVE  a = b
  <2>1. CASE a \in S /\ b \in S
    <3>1. at(a) = at(b)
      BY <1>1, <1>4, <1>5, <1>6, <1>9, <1>11, <2>1
    <3> QED
      BY <1>4, <2>1, <3>1
  <2>2. CASE a \in S /\ b \notin S
    BY <1>5, <1>6, <1>9, <1>10, <1>11, <2>2
  <2>3. CASE a \notin S /\ b \in S
    BY <1>5, <1>6, <1>9, <1>10, <1>11, <2>3
  <2>4. CASE a \notin S /\ b \notin S
    <3>1. a \in DOMAIN Known(st) /\ b \in DOMAIN Known(st)
      BY <1>9, <2>4
    <3>2. Known(st)[a] = Known(st)[b]
      BY <1>9, <1>11, <3>1
    <3> QED
      BY <3>1, <3>2 DEF TextOK
  <2> QED
    BY <2>1, <2>2, <2>3, <2>4
<1>12. /\ st1.next \in Nat /\ st.next <= st1.next
       /\ \A b \in DOMAIN st1.ids : st1.ids[b] \in Nat /\ st1.ids[b] < st1.next
       /\ \A b \in DOMAIN st1.sorted : st1.sorted[b] \in Nat /\ st1.sorted[b] < st1.next
  <2>1. st1.next = st.next + n /\ st1.next \in Nat /\ st.next <= st1.next
    BY <1>1, <1>2, <1>5
  <2>2. ASSUME NEW b \in DOMAIN st1.ids PROVE st1.ids[b] \in Nat /\ st1.ids[b] < st1.next
    <3>1. CASE b \in S
      BY <1>6, <1>8, <2>1, <3>1
    <3>2. CASE b \in DOMAIN st.ids
      <4>1. st.ids[b] \in Nat /\ st.ids[b] < st.next /\ st1.ids[b] = st.ids[b]
        BY <1>8, <3>2 DEF TextOK
      <4> QED
        BY <1>5, <2>1, <4>1
    <3> QED
      BY <1>8, <3>1, <3>2
  <2>3. ASSUME NEW b \in DOMAIN st1.sorted PROVE st1.sorted[b] \in Nat /\ st1.sorted[b] < st1.next
    <3>1. st1.sorted[b] \in Nat /\ st1.sorted[b] < st.next
      BY <1>2 DEF TextOK
    <3> QED
      BY <1>5, <2>1, <3>1
  <2> QED
    BY <2>1, <2>2, <2>3
<1>13. DOMAIN st1.sorted \cap DOMAIN st1.ids = {}
  <2>1. S \cap DOMAIN st.sorted = {}
    BY KnownFacts
  <2> QED
    BY <1>2, <1>8, <2>1 DEF TextOK
<1>14. TextOK(st1)
  BY <1>2, <1>11, <1>12, <1>13 DEF TextOK
<1>15. Extends(Known(st), Known(st1)) /\ S \subseteq DOMAIN st1.ids
  BY <1>8, <1>9 DEF Extends
<1> QED
  BY <1>14, <1>15 DEF st1, new

-----------------------------------------------------------------------------
(* What a flush of the pending text does to the terms.                     *)

LEMMA AddListSame ==
  ASSUME NEW s, NEW l, TextFields \subseteq DOMAIN s
  PROVE  SameTerms(s, AddList(s, l))
  BY DEF SameTerms, AddList, TextFields

LEMMA RecordSame ==
  ASSUME NEW s, NEW rs, TextFields \subseteq DOMAIN s
  PROVE  SameTerms(s, RecordDocStats(s, rs))
  BY DEF SameTerms, RecordDocStats, TextFields

AddStep(c, d, acc, l) == AddList(acc, l)
Adding == INSTANCE Folding WITH Op <- AddStep

LEMMA AddListsSame ==
  ASSUME NEW st, TextFields \subseteq DOMAIN st, NEW n \in Nat,
         NEW lists, DOMAIN lists = 1..n
  PROVE  SameTerms(st, AddLists(st, lists))
<1>1. AddLists(st, lists) = Adding!Fold(0, 0, st, lists)
  BY DEF AddLists, AddStep, FoldLeft, MapThenFoldSet, Max, Adding!Fold,
         Adding!FoldLeft, Adding!MapThenFoldSet, Adding!Max
<1>2. PICK r : /\ r[0] = st
               /\ \A i \in 1..n : r[i] = AddStep(0, 0, r[i - 1], lists[i])
               /\ Adding!Fold(0, 0, st, lists) = r[n]
  BY Adding!FoldSteps
<1> DEFINE K == {i \in Nat : i <= n => SameTerms(st, r[i])}
<1>3. 0 \in K
  BY <1>2 DEF SameTerms
<1>4. \A i \in Nat : i \in K => i + 1 \in K
  <2> SUFFICES ASSUME NEW i \in Nat, i \in K, i + 1 <= n
               PROVE  SameTerms(st, r[i + 1])
    OBVIOUS
  <2>1. i + 1 \in 1..n /\ (i + 1) - 1 = i /\ SameTerms(st, r[i])
    OBVIOUS
  <2>2. r[i + 1] = AddList(r[i], lists[i + 1])
    BY <1>2, <2>1 DEF AddStep
  <2>3. SameTerms(r[i], AddList(r[i], lists[i + 1]))
    BY <2>1, AddListSame DEF SameTerms
  <2> QED
    BY <2>1, <2>2, <2>3 DEF SameTerms
<1> HIDE DEF K
<1>5. n \in K
  BY <1>3, <1>4, Adding!SetInduction
<1> QED
  BY <1>1, <1>2, <1>5 DEF K

(* The tokens of what is pending are numbers below a bound.                *)
PendingTokens(p) == UNION {DOMAIN p[f].counts : f \in DOMAIN p}
PendingOK(p) == \E m \in Nat : PendingTokens(p) \subseteq 0..m

(* The rows of a dictionary that agree with a map from terms to ids.       *)
DictRow(A, known) ==
  {r \in [term : {known[b] : b \in DOMAIN known}, bytes : DOMAIN known, cf : A, df : A] :
     r.term = known[r.bytes]}

FlushedOK(st, root, out) ==
  /\ TextOK(out.state) /\ Extends(Known(st), Known(out.state))
  /\ \E A : \E rs \in Seq(DictRow(A, Known(out.state))) :
       out.terms = Ok(EncodeTermDictionary(root, rs), <<>>)

LEMMA FlushOutputFacts ==
  ASSUME NEW st, TextOK(st), NEW p, PendingOK(p), NEW roots
  PROVE  FlushedOK(st, roots.terms, FlushOutput(st, p, roots))
<1> DEFINE T == PendingTokens(p)
           S == {b \in T : LookupTerm(st, b) = <<>>}
           new == NewTerms(st, p)
           st1 == AssignTerms(st, new)
           lists == FlushLists(st1, p)
           records == DocRecords(p)
           out == FlushOutput(st, p, roots)
<1>1. PICK m \in Nat : T \subseteq 0..m
  BY DEF PendingOK
<1>2. S \in SUBSET Nat /\ IsFiniteSet(S)
  <2>1. S \in SUBSET Nat /\ \A b \in S : b <= m
    BY <1>1
  <2> QED
    BY <2>1, FS_BoundedSetOfNaturals
<1>3. S \cap DOMAIN Known(st) = {}
  BY LookupFacts
<1>4. new = InOrder(S)
  BY DEF NewTerms, PendingTokens
<1>5. TextOK(st1) /\ Extends(Known(st), Known(st1)) /\ S \subseteq DOMAIN st1.ids
  BY <1>2, <1>3, <1>4, AssignFacts
<1>6. T \subseteq DOMAIN Known(st1)
  <2>1. ASSUME NEW b \in T, b \notin S PROVE b \in DOMAIN Known(st)
    BY <2>1, LookupFacts
  <2>2. S \subseteq DOMAIN Known(st1)
    BY <1>5, KnownFacts
  <2> QED
    BY <1>5, <2>1, <2>2 DEF Extends
<1>7. \E n \in Nat : DOMAIN lists = 1..n
  <2> DEFINE ids == {LookupTerm(st1, b)[1] : b \in T}
  <2>1. \A b \in T : LookupTerm(st1, b)[1] \in Nat /\ LookupTerm(st1, b)[1] <= st1.next
    <3> SUFFICES ASSUME NEW b \in T
                 PROVE  LookupTerm(st1, b)[1] \in Nat /\ LookupTerm(st1, b)[1] <= st1.next
      OBVIOUS
    <3>1. b \in DOMAIN st1.sorted \/ b \in DOMAIN st1.ids
      BY <1>6, KnownFacts
    <3>2. CASE b \in DOMAIN st1.sorted
      <4>1. LookupTerm(st1, b)[1] = st1.sorted[b]
        BY <3>2 DEF LookupTerm
      <4> QED
        BY <1>5, <3>2, <4>1 DEF TextOK
    <3>3. CASE b \notin DOMAIN st1.sorted
      <4>1. LookupTerm(st1, b)[1] = st1.ids[b]
        BY <3>1, <3>3 DEF LookupTerm
      <4> QED
        BY <1>5, <3>1, <3>3, <4>1 DEF TextOK
    <3> QED
      BY <3>2, <3>3
  <2>2. ids \in SUBSET Nat /\ (\A x \in ids : x <= st1.next) /\ st1.next \in Nat
    BY <1>5, <2>1 DEF TextOK
  <2>3. IsFiniteSet(ids)
    BY <2>2, FS_BoundedSetOfNaturals
  <2>4. Cardinality(ids) \in Nat
    <3> HIDE DEF ids
    <3> QED
      BY <2>3, FS_CardinalityType
  <2>5. DOMAIN lists = 1..Cardinality(ids)
    BY Zenon DEF FlushLists, InOrder, PendingTokens
  <2> QED
    BY <2>4, <2>5
<1>8. SameTerms(st1, out.state)
  <2>1. out.state = RecordDocStats(AddLists(st1, lists), records)
    BY DEF FlushOutput
  <2>2. TextFields \subseteq DOMAIN st1
    BY <1>5 DEF TextOK
  <2> HIDE DEF st1, lists, records, out
  <2>3. SameTerms(st1, AddLists(st1, lists))
    BY <1>7, <2>2, AddListsSame
  <2>4. SameTerms(AddLists(st1, lists), RecordDocStats(AddLists(st1, lists), records))
    BY <2>3, RecordSame DEF SameTerms
  <2> QED
    BY <2>1, <2>3, <2>4 DEF SameTerms
<1>9. TextOK(out.state) /\ Known(out.state) = Known(st1)
  BY <1>5, <1>8, SameTermsOK
<1> DEFINE rs == TermRecords(st1, new, lists)
           A == {rs[i].cf : i \in DOMAIN rs} \cup {rs[i].df : i \in DOMAIN rs}
           V == DictRow(A, Known(st1))
<1>10. rs \in Seq(V)
  <2> DEFINE n == Cardinality(S)
  <2>1. n \in Nat /\ DOMAIN new = 1..n /\ \A i \in 1..n : new[i] \in S
    <3>1. Lists(InOrder(S), S) /\ n \in Nat
      BY <1>2, InOrderLists
    <3> QED
      BY <1>4, <3>1 DEF Lists
  <2> HIDE DEF n, S
  <2>2. ASSUME NEW i \in 1..n
        PROVE  /\ rs[i] = [term |-> st1.ids[new[i]], cf |-> rs[i].cf, df |-> rs[i].df,
                           bytes |-> new[i]]
               /\ i \in DOMAIN rs
    BY <2>1 DEF TermRecords
  <2>3. DOMAIN rs = 1..n
    BY <2>1 DEF TermRecords
  <2>7. rs = [i \in 1..n |-> rs[i]]
    BY <2>1 DEF TermRecords
  <2> HIDE DEF rs, new, st1
  <2>4. ASSUME NEW i \in 1..n PROVE rs[i] \in V
    <3>1. new[i] \in DOMAIN st1.ids
      BY <1>5, <2>1
    <3>2. new[i] \in DOMAIN Known(st1) /\ Known(st1)[new[i]] = st1.ids[new[i]]
      BY <3>1, KnownFacts
    <3>3. rs[i].cf \in A /\ rs[i].df \in A
      BY <2>2
    <3> HIDE DEF A
    <3>4. PICK b, x, y : b = new[i] /\ x = rs[i].cf /\ y = rs[i].df
      OBVIOUS
    <3>5. rs[i] = [term |-> Known(st1)[b], cf |-> x, df |-> y, bytes |-> b]
      BY <2>2, <3>2, <3>4
    <3> QED
      BY <3>2, <3>3, <3>4, <3>5 DEF DictRow
  <2> HIDE DEF V
  <2>5. rs \in [1..n -> V]
    BY <2>4, <2>7
  <2> QED
    BY <2>1, <2>5, Adding!FnIsSeq
<1>11. out.terms = Ok(EncodeTermDictionary(roots.terms, rs), <<>>)
  BY DEF FlushOutput
<1> HIDE DEF rs, A, out, st1
<1>12. \E B : \E ss \in Seq(DictRow(B, Known(out.state))) :
         out.terms = Ok(EncodeTermDictionary(roots.terms, ss), <<>>)
  BY <1>9, <1>10, <1>11
<1>13. Extends(Known(st), Known(out.state))
  BY <1>5, <1>9
<1>14. FlushedOK(st, roots.terms, out)
  BY <1>9, <1>12, <1>13 DEF FlushedOK
<1> QED
  BY <1>14 DEF out

(* What a sequence of sequences flattens to.                               *)
Occurs(x, s) == \E k \in DOMAIN s : s[k] = x

LEMMA FlattenHas ==
  ASSUME NEW V, NEW n \in Nat, NEW ss \in [1..n -> Seq(V)]
  PROVE  /\ FlattenSeq(ss) \in Seq(V)
         /\ \A i \in 1..n : \A j \in DOMAIN ss[i] : Occurs(ss[i][j], FlattenSeq(ss))
<1>1. FlattenSeq(ss) = Cells!FlattenSeq(ss)
  BY SameFlatten
<1>2. PICK f \in [0..n -> Seq(V)] : Cells!Joins(f, ss, n) /\ Cells!FlattenSeq(ss) = f[n]
  BY Cells!FlattenSteps
<1> DEFINE Has(m) == \A i \in 1..n : i <= m => \A j \in DOMAIN ss[i] : Occurs(ss[i][j], f[m])
           K == {m \in Nat : m <= n => Has(m)}
<1>3. 0 \in K
  OBVIOUS
<1>4. \A m \in Nat : m \in K => m + 1 \in K
  <2> HIDE DEF Has
  <2> SUFFICES ASSUME NEW m \in Nat, m \in K, m + 1 <= n
               PROVE  Has(m + 1)
    OBVIOUS
  <2>1. m + 1 \in 1..n /\ (m + 1) - 1 = m /\ m \in 0..n /\ Has(m)
    OBVIOUS
  <2> HIDE DEF K
  <2> SUFFICES ASSUME NEW i \in 1..n, i <= m + 1, NEW j \in DOMAIN ss[i]
               PROVE  Occurs(ss[i][j], f[m + 1])
    BY DEF Has
  <2>2. PICK a \in Seq(V), b \in Seq(V) : a = f[m] /\ b = ss[m + 1]
    BY <2>1
  <2>3. f[m + 1] = a \o b
    BY <1>2, <2>1, <2>2 DEF Cells!Joins
  <2>4. /\ DOMAIN a = 1..Len(a) /\ DOMAIN b = 1..Len(b) /\ Len(a) \in Nat /\ Len(b) \in Nat
        /\ DOMAIN (a \o b) = 1..Len(a) + Len(b)
    BY LenProperties, ConcatProperties
  <2>5. ASSUME NEW k \in DOMAIN a PROVE k \in DOMAIN (a \o b) /\ (a \o b)[k] = a[k]
    <3>1. k \in 1..Len(a) + Len(b) /\ k <= Len(a)
      BY <2>4
    <3> QED
      BY <2>4, <3>1, ConcatProperties
  <2>6. ASSUME NEW k \in DOMAIN b
        PROVE  Len(a) + k \in DOMAIN (a \o b) /\ (a \o b)[Len(a) + k] = b[k]
    <3>1. PICK p \in Nat, q \in Nat : p = Len(a) /\ q = Len(b)
      BY <2>4
    <3>2. k \in 1..q
      BY <2>4, <3>1
    <3>3. p + k \in 1..p + q /\ ~(p + k <= p) /\ (p + k) - p = k
      BY <3>2, PlacesBehind, Zenon
    <3>4. \A l \in 1..p + q : (a \o b)[l] = IF l <= p THEN a[l] ELSE b[l - p]
      BY <3>1, ConcatProperties
    <3>5. (a \o b)[p + k] = b[k]
      BY <3>3, <3>4
    <3> QED
      BY <2>4, <3>1, <3>3, <3>5
  <2>7. CASE i <= m
    <3>1. Occurs(ss[i][j], a)
      BY <2>1, <2>2, <2>7 DEF Has
    <3> QED
      BY <2>3, <2>5, <3>1 DEF Occurs
  <2>8. CASE i = m + 1
    BY <2>2, <2>3, <2>6, <2>8 DEF Occurs
  <2> QED
    BY <2>7, <2>8
<1> HIDE DEF K
<1>5. n \in K
  BY <1>3, <1>4, Cells!SetInduction
<1>6. Has(n)
  BY <1>5 DEF K
<1> QED
  BY <1>1, <1>2, <1>6

-----------------------------------------------------------------------------
(* The dictionary chain.                                                   *)

Roots(A, C) == {<<>>} \cup (A \X C)

(* A segment holds a delta of the dictionary whose rows agree with a map.  *)
DictSegment(f, A, C, known, k) ==
  \E prev \in Roots(A, C) : \E rs \in Seq(DictRow(A, known)) :
    f[k].payload = EncodeTermDictionary(prev, rs)

(* A root leads to such segments only.                                     *)
DictClosed(f, A, C, known) == \A k \in C : DictSegment(f, A, C, known, k)
DictOK(f, root, known) ==
  \E A : \E C \in SUBSET DOMAIN f :
    root \in Roots(A, C) /\ DictClosed(f, A, C, known)

LEMMA DictDecodes ==
  ASSUME NEW A, NEW C, NEW known, NEW prev \in Roots(A, C),
         NEW rs \in Seq(DictRow(A, known))
  PROVE  DecodeTermDictionary(EncodeTermDictionary(prev, rs))
           = Ok([prev |-> prev, rows |-> rs], <<>>)
<1> DEFINE B == A \cup C \cup DOMAIN known \cup {known[b] : b \in DOMAIN known}
                  \cup {0, 1, "VLTD", Len(rs)}
<1>1. DictRow(A, known) \subseteq TermRow(B)
  BY DEF DictRow, TermRow
<1>2. prev \in Refs(B)
  BY DEF Roots, Refs
<1>3. {0, 1, "VLTD"} \subseteq B /\ Len(rs) \in B
  OBVIOUS
<1> HIDE DEF B
<1>4. rs \in Seq(TermRow(B))
  BY <1>1, SeqMonotonic
<1> QED
  BY <1>2, <1>3, <1>4, DictionaryReadsBack

(* A walk along a chain, r[i] after i steps.                               *)
DecodeDelta(type, s) ==
  CASE type = "FrameCatalog"   -> DecodeFrameCatalog(s)
    [] type = "TermDictionary" -> DecodeTermDictionary(s)
    [] OTHER                   -> DecodeCatalogDelta(type, s)
TypedStep(f, type, acc) == ChainStep(f, type, LAMBDA s : DecodeDelta(type, s), acc)
Begin(head) == [ok |-> TRUE, next |-> head, deltas |-> <<>>]
WalkOf(f, type, head, n, r) ==
  r[0] = Begin(head) /\ \A i \in 1..n : r[i] = TypedStep(f, type, r[i - 1])
Arrived(acc) ==
  IF acc.ok /\ acc.next = <<>> THEN Ok(acc.deltas, <<>>) ELSE Err

DictStep(f, d, acc, k) == ChainStep(f, "TermDictionary", DecodeTermDictionary, acc)
Dicts == INSTANCE Folding WITH Op <- DictStep
FrameStep(f, d, acc, k) == ChainStep(f, "FrameCatalog", DecodeFrameCatalog, acc)
FrameChains == INSTANCE Folding WITH Op <- FrameStep
RowStep(f, table, acc, k) ==
  ChainStep(f, table, LAMBDA s : DecodeCatalogDelta(table, s), acc)
RowChains == INSTANCE Folding WITH Op <- RowStep

LEMMA DictChainWalks ==
  ASSUME NEW f, NEW n \in Nat, DOMAIN f = 1..n, NEW head
  PROVE  \E r : /\ WalkOf(f, "TermDictionary", head, n, r)
               /\ Chain(f, head, "TermDictionary", DecodeTermDictionary) = Arrived(r[n])
<1> DEFINE s == [k \in DOMAIN f |-> k]
<1>1. DOMAIN s = 1..n
  OBVIOUS
<1>2. Chain(f, head, "TermDictionary", DecodeTermDictionary)
        = Arrived(Dicts!Fold(f, 0, Begin(head), s))
  BY Zenon DEF Chain, Arrived, Dicts!Fold, DictStep, Begin, FoldLeft, MapThenFoldSet, Max,
         Dicts!FoldLeft, Dicts!MapThenFoldSet, Dicts!Max
<1> HIDE DEF s
<1>3. PICK r : /\ r[0] = Begin(head)
               /\ \A i \in 1..n : r[i] = DictStep(f, 0, r[i - 1], s[i])
               /\ Dicts!Fold(f, 0, Begin(head), s) = r[n]
  BY <1>1, Dicts!FoldSteps
<1>4. ASSUME NEW acc, NEW k PROVE DictStep(f, 0, acc, k) = TypedStep(f, "TermDictionary", acc)
  BY DEF DictStep, TypedStep, ChainStep, DecodeDelta
<1>5. \A i \in 1..n : r[i] = TypedStep(f, "TermDictionary", r[i - 1])
  BY <1>3, <1>4
<1> QED
  BY <1>2, <1>3, <1>5 DEF WalkOf

DictDelta(A, C, known) == [prev : Roots(A, C), rows : Seq(DictRow(A, known))]

(* The segments W were visited; the walk goes on at next.                  *)
Visited(f, A, W, root, acc) ==
  /\ root \in Roots(A, W) \cup {acc.next}
  /\ \A k \in W : \E prev \in Roots(A, W) \cup {acc.next} : \E j \in DOMAIN acc.deltas :
       f[k].payload = EncodeTermDictionary(prev, acc.deltas[j].rows)
Walked(f, A, C, known, root, acc) ==
  /\ {"ok", "next", "deltas"} \subseteq DOMAIN acc
  /\ acc.ok => /\ acc.next \in Roots(A, C)
               /\ acc.deltas \in Seq(DictDelta(A, C, known))
               /\ \E W \in SUBSET C : Visited(f, A, W, root, acc)

LEMMA WalkedFurther ==
  ASSUME NEW f, NEW A, NEW C \in SUBSET DOMAIN f, NEW known, DictClosed(f, A, C, known),
         NEW root, NEW acc, Walked(f, A, C, known, root, acc)
  PROVE  Walked(f, A, C, known, root, TypedStep(f, "TermDictionary", acc))
<1> DEFINE new == TypedStep(f, "TermDictionary", acc)
<1>1. CASE ~acc.ok \/ acc.next = <<>>
  BY <1>1 DEF TypedStep, ChainStep
<1>2. CASE acc.ok /\ acc.next # <<>>
  <2>1. PICK a \in A, o \in C : acc.next = <<a, o>>
    BY <1>2 DEF Walked, Roots
  <2> DEFINE r == ReadSegment(f, acc.next, "TermDictionary")
             d == IF r.ok THEN DecodeDelta("TermDictionary", r.val) ELSE Err
  <2>2. CASE ~d.ok
    <3>1. new = [acc EXCEPT !.ok = FALSE]
      BY <1>2, <2>2 DEF TypedStep, ChainStep
    <3> HIDE DEF new
    <3>2. {"ok", "next", "deltas"} \subseteq DOMAIN new /\ new.ok = FALSE
      BY <3>1 DEF Walked
    <3> QED
      BY <3>2 DEF Walked, new
  <2>3. CASE d.ok
    <3>1. r.ok
      BY <2>3 DEF Err
    <3>2. r.val = f[o].payload
      BY <2>1, <3>1 DEF ReadSegment, Ok, Err
    <3>3. PICK prev \in Roots(A, C) : \E rs \in Seq(DictRow(A, known)) :
            f[o].payload = EncodeTermDictionary(prev, rs)
      BY DEF DictClosed, DictSegment
    <3>4. PICK rs \in Seq(DictRow(A, known)) : f[o].payload = EncodeTermDictionary(prev, rs)
      BY <3>3
    <3>5. DecodeTermDictionary(f[o].payload) = Ok([prev |-> prev, rows |-> rs], <<>>)
      BY <3>4, DictDecodes
    <3>6. d.val = [prev |-> prev, rows |-> rs]
      BY <3>1, <3>2, <3>5 DEF DecodeDelta, Ok
    <3> DEFINE delta == [prev |-> prev, rows |-> rs]
    <3>7. new = [ok |-> TRUE, next |-> prev, deltas |-> Append(acc.deltas, delta)]
      <4>1. new = [ok |-> TRUE, next |-> d.val.prev, deltas |-> Append(acc.deltas, d.val)]
        BY <1>2, <2>3 DEF TypedStep, ChainStep
      <4> HIDE DEF new, d
      <4> QED
        BY <3>6, <4>1
    <3>8. delta \in DictDelta(A, C, known)
      BY DEF DictDelta
    <3>9. acc.deltas \in Seq(DictDelta(A, C, known))
      BY <1>2 DEF Walked
    <3>10. PICK W \in SUBSET C : Visited(f, A, W, root, acc)
      BY <1>2 DEF Walked
    <3> DEFINE W1 == W \cup {o}
               ds == Append(acc.deltas, delta)
               m == Len(acc.deltas)
    <3>11. /\ ds \in Seq(DictDelta(A, C, known)) /\ m \in Nat
           /\ DOMAIN ds = 1..m + 1 /\ DOMAIN acc.deltas = 1..m
           /\ \A j \in 1..m : ds[j] = acc.deltas[j]
           /\ ds[m + 1] = delta
      BY <3>8, <3>9, AppendProperties, LenProperties
    <3> HIDE DEF new, ds, m
    <3>12. Roots(A, W) \cup {acc.next} \subseteq Roots(A, W1)
      BY <2>1 DEF Roots
    <3>13. root \in Roots(A, W1)
      BY <3>10, <3>12 DEF Visited
    <3>14. ASSUME NEW k \in W1
           PROVE  \E q \in Roots(A, W1) \cup {prev} : \E j \in DOMAIN ds :
                    f[k].payload = EncodeTermDictionary(q, ds[j].rows)
      <4>1. CASE k = o
        <5>1. m + 1 \in DOMAIN ds /\ ds[m + 1].rows = rs
          BY <3>11
        <5> QED
          BY <3>4, <4>1, <5>1
      <4>2. CASE k \in W
        <5>1. PICK q \in Roots(A, W) \cup {acc.next}, j \in DOMAIN acc.deltas :
                f[k].payload = EncodeTermDictionary(q, acc.deltas[j].rows)
          BY <3>10, <4>2 DEF Visited
        <5>2. j \in DOMAIN ds /\ ds[j] = acc.deltas[j]
          BY <3>11
        <5> QED
          BY <3>12, <5>1, <5>2
      <4> QED
        BY <4>1, <4>2
    <3>15. new.ok /\ new.next = prev /\ new.deltas = ds
           /\ {"ok", "next", "deltas"} \subseteq DOMAIN new
      BY <3>7 DEF ds
    <3>16. Visited(f, A, W1, root, new)
      BY <3>13, <3>14, <3>15 DEF Visited
    <3>17. W1 \in SUBSET C
      OBVIOUS
    <3> HIDE DEF W1, delta
    <3> QED
      BY <3>11, <3>15, <3>16, <3>17 DEF Walked, new
  <2> QED
    BY <2>2, <2>3
<1> QED
  BY <1>1, <1>2

LEMMA DictWalked ==
  ASSUME NEW f, NEW n \in Nat,
         NEW A, NEW C \in SUBSET DOMAIN f, NEW known, DictClosed(f, A, C, known),
         NEW root \in Roots(A, C), NEW r, WalkOf(f, "TermDictionary", root, n, r)
  PROVE  Walked(f, A, C, known, root, r[n])
<1> DEFINE K == {i \in Nat : i <= n => Walked(f, A, C, known, root, r[i])}
<1>3. 0 \in K
  <2>1. r[0].ok /\ r[0].next = root /\ r[0].deltas = <<>>
        /\ {"ok", "next", "deltas"} \subseteq DOMAIN r[0]
    BY DEF Begin, WalkOf
  <2>2. <<>> \in Seq(DictDelta(A, C, known))
    BY EmptySeq
  <2>3. {} \in SUBSET C /\ Visited(f, A, {}, root, r[0])
    BY <2>1 DEF Visited
  <2> QED
    BY <2>1, <2>2, <2>3 DEF Walked
<1>4. \A i \in Nat : i \in K => i + 1 \in K
  <2> SUFFICES ASSUME NEW i \in Nat, i \in K, i + 1 <= n
               PROVE  Walked(f, A, C, known, root, r[i + 1])
    OBVIOUS
  <2>1. i + 1 \in 1..n /\ (i + 1) - 1 = i /\ Walked(f, A, C, known, root, r[i])
    OBVIOUS
  <2>2. r[i + 1] = TypedStep(f, "TermDictionary", r[i])
    BY <2>1 DEF WalkOf
  <2> QED
    BY <2>1, <2>2, WalkedFurther
<1> HIDE DEF K
<1>5. n \in K
  BY <1>3, <1>4, Dicts!SetInduction
<1> QED
  BY <1>5 DEF K

-----------------------------------------------------------------------------
(* What opening the file makes of the chain.                               *)

LEMMA FiniteImage ==
  ASSUME NEW n \in Nat, NEW g, DOMAIN g = 1..n
  PROVE  IsFiniteSet({g[i] : i \in 1..n})
<1> DEFINE T == {g[i] : i \in 1..n}
           e == [i \in 1..n |-> g[i]]
<1>1. e \in Surjection(1..n, T)
  BY DEF Surjection
<1>2. IsFiniteSet(1..n)
  BY FS_Interval
<1> QED
  BY <1>1, <1>2, FS_Surjection

LEMMA OldestFirstHas ==
  ASSUME NEW V, NEW P, NEW ds \in Seq([prev : P, rows : Seq(V)])
  PROVE  /\ OldestFirst(ds) \in Seq(V)
         /\ \A j \in DOMAIN ds : \A i \in DOMAIN ds[j].rows :
              Occurs(ds[j].rows[i], OldestFirst(ds))
<1> DEFINE n == Len(ds)
           rs == [i \in DOMAIN ds |-> ds[i].rows]
           ss == Reverse(rs)
<1>1. n \in Nat /\ DOMAIN ds = 1..n /\ \A i \in 1..n : ds[i].rows \in Seq(V)
  <2>1. n \in Nat /\ DOMAIN ds = 1..n /\ \A i \in 1..n : ds[i] \in [prev : P, rows : Seq(V)]
    BY LenProperties
  <2> QED
    BY <2>1
<1> HIDE DEF n
<1>2. rs \in [1..n -> Seq(V)]
  BY <1>1
<1>3. Len(rs) = n
  BY <1>1, <1>2, Cells!FnIsSeq
<1>4. ss = [i \in 1..n |-> rs[(n - i) + 1]]
  BY <1>3 DEF Reverse
<1> HIDE DEF ss
<1>5. ss \in [1..n -> Seq(V)]
  <2>1. \A i \in 1..n : (n - i) + 1 \in 1..n
    BY <1>1
  <2> HIDE DEF rs
  <2> QED
    BY <1>2, <1>4, <2>1
<1>6. FlattenSeq(ss) \in Seq(V)
      /\ \A i \in 1..n : \A j \in DOMAIN ss[i] : Occurs(ss[i][j], FlattenSeq(ss))
  BY <1>1, <1>5, FlattenHas
<1>7. OldestFirst(ds) = FlattenSeq(ss)
  BY DEF OldestFirst, ss
<1>8. ASSUME NEW j \in DOMAIN ds, NEW i \in DOMAIN ds[j].rows
      PROVE  Occurs(ds[j].rows[i], FlattenSeq(ss))
  <2>1. PICK k \in 1..n : k = (n - j) + 1 /\ (n - k) + 1 = j
    BY <1>1
  <2>2. ss[k] = ds[j].rows
    BY <1>1, <1>4, <2>1
  <2> QED
    BY <1>6, <2>2
<1> QED
  BY <1>6, <1>7, <1>8

KnownOK(known) ==
  /\ \A b \in DOMAIN known : known[b] \in Nat
  /\ \A a, b \in DOMAIN known : known[a] = known[b] => a = b

LEMMA TextKnown ==
  ASSUME NEW st, TextOK(st) PROVE KnownOK(Known(st))
<1>1. \A b \in DOMAIN Known(st) : Known(st)[b] \in Nat
  BY KnownFacts DEF TextOK
<1> QED
  BY <1>1 DEF TextOK, KnownOK

LEMMA TextFromFacts ==
  ASSUME NEW A, NEW known, KnownOK(known), NEW dict \in Seq(DictRow(A, known)),
         NEW segs, NEW docs
  PROVE  LET st == TextFrom(dict, segs, docs) IN
         /\ TextOK(st) /\ Extends(Known(st), known)
         /\ \A i \in DOMAIN dict : dict[i].bytes \in DOMAIN Known(st)
<1> DEFINE n == Len(dict)
           B == {dict[i].bytes : i \in DOMAIN dict}
           T == {dict[i].term : i \in DOMAIN dict}
           at(b) == CHOOSE i \in DOMAIN dict : dict[i].bytes = b
           srt == [b \in B |-> dict[at(b)].term]
           nxt == IF dict = <<>> THEN 0 ELSE Max(T) + 1
           st == TextFrom(dict, segs, docs)
<1>1. n \in Nat /\ DOMAIN dict = 1..n /\ \A i \in 1..n : dict[i] \in DictRow(A, known)
  BY LenProperties
<1>2. ASSUME NEW i \in 1..n
      PROVE  dict[i].bytes \in DOMAIN known /\ dict[i].term = known[dict[i].bytes]
             /\ dict[i].term \in Nat
  BY <1>1 DEF DictRow, KnownOK
<1>3. /\ TextFields \subseteq DOMAIN st
      /\ st.sorted = srt /\ st.ids = <<>> /\ st.next = nxt
  BY DEF TextFrom, RecordDocStats, EmptyText, TextFields
<1>4. ASSUME NEW b \in B PROVE srt[b] = known[b] /\ b \in DOMAIN known /\ srt[b] \in T
  <2>1. at(b) \in 1..n /\ dict[at(b)].bytes = b
    BY <1>1
  <2>2. srt[b] = dict[at(b)].term
    OBVIOUS
  <2> HIDE DEF at, srt
  <2> QED
    BY <1>1, <1>2, <2>1, <2>2
<1>5. DOMAIN srt = B
  OBVIOUS
<1>6. nxt \in Nat /\ \A t \in T : t \in Nat /\ t < nxt
  <2>1. T \in SUBSET Nat
    BY <1>1, <1>2
  <2>2. CASE dict = <<>>
    <3>1. T = {}
      BY <2>2
    <3> QED
      BY <2>2, <3>1
  <2>3. CASE dict # <<>>
    <3>1. n # 0
      BY <2>3, EmptySeq
    <3>2. T # {}
      <4>1. 1 \in DOMAIN dict
        BY <1>1, <3>1
      <4> QED
        BY <4>1
    <3>3. IsFiniteSet(T)
      <4> DEFINE g == [i \in 1..n |-> dict[i].term]
      <4>1. IsFiniteSet({g[i] : i \in 1..n})
        BY <1>1, FiniteImage
      <4>2. {g[i] : i \in 1..n} = T
        BY <1>1
      <4> QED
        BY <4>1, <4>2
    <3> HIDE DEF T
    <3>4. Max(T) \in T /\ \A t \in T : t <= Max(T)
      BY <2>1, <3>2, <3>3, MaxMin
    <3>5. \A t \in T : t \in Nat
      BY <2>1
    <3> QED
      BY <2>3, <3>4, <3>5
  <2> QED
    BY <2>2, <2>3
<1> HIDE DEF srt, nxt, st, T, at
<1>7. DOMAIN st.ids = {}
  BY <1>3
<1>8. DOMAIN Known(st) = B /\ \A b \in B : Known(st)[b] = srt[b]
  BY <1>3, <1>5, <1>7, KnownFacts
<1>9. Extends(Known(st), known)
  BY <1>4, <1>8 DEF Extends
<1>10. \A a, b \in DOMAIN Known(st) : Known(st)[a] = Known(st)[b] => a = b
  BY <1>4, <1>8 DEF KnownOK
<1>11. TextOK(st)
  BY <1>3, <1>4, <1>5, <1>6, <1>7, <1>10 DEF TextOK
<1>12. \A i \in DOMAIN dict : dict[i].bytes \in DOMAIN Known(st)
  BY <1>8
<1> QED
  BY <1>9, <1>11, <1>12 DEF st

(* Reopening finds the ids of the terms the dictionary has.                *)
LEMMA RebuildFacts ==
  ASSUME NEW f, NEW n \in Nat, DOMAIN f = 1..n, NEW roots, NEW known,
         KnownOK(known), DictOK(f, roots.terms, known), Rebuild(f, roots).ok
  PROVE  LET st == Rebuild(f, roots).val IN
         TextOK(st) /\ DictOK(f, roots.terms, Known(st))
<1> DEFINE root == roots.terms
           c == Chain(f, root, "TermDictionary", DecodeTermDictionary)
           st == Rebuild(f, roots).val
<1>1. PICK A : \E C \in SUBSET DOMAIN f : root \in Roots(A, C) /\ DictClosed(f, A, C, known)
  BY DEF DictOK
<1>2. PICK C \in SUBSET DOMAIN f : root \in Roots(A, C) /\ DictClosed(f, A, C, known)
  BY <1>1
<1>16. PICK r : WalkOf(f, "TermDictionary", root, n, r) /\ c = Arrived(r[n])
  <2>1. PICK x : x = root
    OBVIOUS
  <2>2. \E r : /\ WalkOf(f, "TermDictionary", x, n, r)
              /\ Chain(f, x, "TermDictionary", DecodeTermDictionary) = Arrived(r[n])
    BY DictChainWalks
  <2> QED
    BY <2>1, <2>2
<1> DEFINE walk == r[n]
           ds == walk.deltas
           dict == OldestFirst(ds)
<1>3. Walked(f, A, C, known, root, walk)
  BY <1>2, <1>16, DictWalked
<1>4. c.ok
  BY DEF Rebuild, RebuildFrom, Err
<1> HIDE DEF c
<1>5. walk.ok /\ walk.next = <<>> /\ c.val = ds
  BY <1>4, <1>16 DEF Arrived, Ok, Err
<1>6. \E segs, docs : st = TextFrom(dict, segs, docs)
  <2>1. st = TextFrom(OldestFirst(c.val),
                      Reverse(Chain(f, roots.postings, "Postings",
                                    DecodePostingsDirectory).val),
                      OldestFirst(Chain(f, roots.stats, "DocStats", DecodeDocStats).val))
    BY Zenon DEF Rebuild, RebuildFrom, Err, Ok, c
  <2> QED
    BY <1>5, <2>1
<1> HIDE DEF walk, st
<1>7. ds \in Seq(DictDelta(A, C, known))
  BY <1>3, <1>5 DEF Walked
<1>8. PICK W \in SUBSET C : Visited(f, A, W, root, walk)
  BY <1>3, <1>5 DEF Walked
<1>9. /\ dict \in Seq(DictRow(A, known))
      /\ \A j \in DOMAIN ds : \A i \in DOMAIN ds[j].rows : Occurs(ds[j].rows[i], dict)
  BY <1>7, OldestFirstHas DEF DictDelta
<1> HIDE DEF dict
<1>10. /\ TextOK(st) /\ Extends(Known(st), known)
       /\ \A i \in DOMAIN dict : dict[i].bytes \in DOMAIN Known(st)
  BY <1>6, <1>9, TextFromFacts
<1>11. Roots(A, W) \cup {walk.next} = Roots(A, W)
  BY <1>5 DEF Roots
<1>12. ASSUME NEW k \in W PROVE DictSegment(f, A, W, Known(st), k)
  <2>1. PICK q \in Roots(A, W), j \in DOMAIN ds :
          f[k].payload = EncodeTermDictionary(q, ds[j].rows)
    BY <1>8, <1>11 DEF Visited
  <2> DEFINE rs == ds[j].rows
  <2>2. rs \in Seq(DictRow(A, known)) /\ \A i \in DOMAIN rs : Occurs(rs[i], dict)
    <3>1. ds[j] \in DictDelta(A, C, known)
      BY <1>7, LenProperties
    <3> QED
      BY <1>9, <3>1 DEF DictDelta
  <2> HIDE DEF rs
  <2>3. /\ Len(rs) \in Nat /\ DOMAIN rs = 1..Len(rs) /\ rs \in [1..Len(rs) -> DictRow(A, known)]
    BY <2>2, LenProperties
  <2>4. ASSUME NEW i \in 1..Len(rs) PROVE rs[i] \in DictRow(A, Known(st))
    <3>1. PICK row \in DictRow(A, known) : row = rs[i]
      BY <2>3
    <3>2. row.bytes \in DOMAIN Known(st)
      BY <1>10, <2>2, <2>3, <3>1 DEF Occurs
    <3>3. Known(st)[row.bytes] = known[row.bytes]
      BY <1>10, <3>2 DEF Extends
    <3>4. PICK b \in DOMAIN known, x \in A, y \in A, t \in {known[e] : e \in DOMAIN known} :
            row = [term |-> t, bytes |-> b, cf |-> x, df |-> y] /\ t = known[b]
      BY DEF DictRow
    <3>5. b \in DOMAIN Known(st) /\ t = Known(st)[b]
      BY <3>2, <3>3, <3>4
    <3>6. row \in DictRow(A, Known(st))
      BY <3>4, <3>5 DEF DictRow
    <3> QED
      BY <3>1, <3>6
  <2>5. rs \in [1..Len(rs) -> DictRow(A, Known(st))]
    BY <2>3, <2>4
  <2>6. rs \in Seq(DictRow(A, Known(st)))
    BY <2>3, <2>5, Cells!FnIsSeq
  <2> QED
    BY <2>1, <2>6 DEF DictSegment, rs
<1>13. root \in Roots(A, W)
  BY <1>8, <1>11 DEF Visited
<1>14. W \in SUBSET DOMAIN f
  BY <1>2
<1>15. DictOK(f, root, Known(st))
  BY <1>12, <1>13, <1>14 DEF DictOK, DictClosed
<1> QED
  BY <1>10, <1>15 DEF st

IsSeq(s) == \E S : s \in Seq(S)

LEMMA SeqFacts ==
  ASSUME NEW s, IsSeq(s)
  PROVE  Len(s) \in Nat /\ DOMAIN s = 1..Len(s)
<1>1. PICK S : s \in Seq(S)
  BY DEF IsSeq
<1> QED
  BY <1>1, LenProperties

LEMMA SeqOfFn ==
  ASSUME NEW n \in Nat, NEW g, g = [i \in 1..n |-> g[i]]
  PROVE  IsSeq(g) /\ Len(g) = n
<1> DEFINE T == {g[i] : i \in 1..n}
<1>1. g \in [1..n -> T]
  <2>1. \A i \in 1..n : g[i] \in T
    OBVIOUS
  <2> HIDE DEF T
  <2> QED
    BY <2>1
<1> HIDE DEF T
<1> QED
  BY <1>1, Cells!FnIsSeq DEF IsSeq

(* A file that another begins with.                                        *)
Grown(f, g) ==
  /\ IsSeq(g)
  /\ \A k \in DOMAIN f : k \in DOMAIN g /\ g[k] = f[k]

LEMMA AppendGrown ==
  ASSUME NEW f, IsSeq(f), NEW x
  PROVE  /\ Grown(f, Append(f, x)) /\ Len(Append(f, x)) = Len(f) + 1
         /\ Len(f) + 1 \in DOMAIN Append(f, x)
         /\ Append(f, x)[Len(f) + 1] = x
<1>1. PICK S : f \in Seq(S)
  BY DEF IsSeq
<1> DEFINE T == S \cup {x}
<1>2. f \in Seq(T)
  BY <1>1, SeqMonotonic
<1>3. x \in T
  OBVIOUS
<1> HIDE DEF T
<1>4. /\ Append(f, x) \in Seq(T) /\ Len(Append(f, x)) = Len(f) + 1
      /\ \A i \in 1..Len(f) : Append(f, x)[i] = f[i]
      /\ Append(f, x)[Len(f) + 1] = x
  BY <1>2, <1>3, AppendProperties
<1>5. /\ Len(f) \in Nat /\ DOMAIN f = 1..Len(f)
      /\ DOMAIN Append(f, x) = 1..Len(Append(f, x))
  BY <1>2, <1>4, LenProperties
<1> QED
  BY <1>4, <1>5 DEF Grown, IsSeq

LEMMA GrownAgain ==
  ASSUME NEW f, NEW g, NEW k, Grown(f, g), Grown(g, k) PROVE Grown(f, k)
  BY DEF Grown

(* What a chain of the dictionary leads to stays as the file grows and the *)
(* map from terms to ids is extended.                                      *)
LEMMA DictKept ==
  ASSUME NEW f, NEW g, Grown(f, g), NEW root, NEW k1, NEW k2, Extends(k1, k2),
         DictOK(f, root, k1)
  PROVE  DictOK(g, root, k2)
<1>1. PICK A : \E C \in SUBSET DOMAIN f : root \in Roots(A, C) /\ DictClosed(f, A, C, k1)
  BY DEF DictOK
<1>2. PICK C \in SUBSET DOMAIN f : root \in Roots(A, C) /\ DictClosed(f, A, C, k1)
  BY <1>1
<1>3. DictRow(A, k1) \subseteq DictRow(A, k2)
  BY DEF DictRow, Extends
<1>4. C \in SUBSET DOMAIN g
  BY DEF Grown
<1>5. ASSUME NEW k \in C PROVE DictSegment(g, A, C, k2, k)
  <2>1. PICK prev \in Roots(A, C) : \E rs \in Seq(DictRow(A, k1)) :
          f[k].payload = EncodeTermDictionary(prev, rs)
    BY <1>2 DEF DictClosed, DictSegment
  <2>2. PICK rs \in Seq(DictRow(A, k1)) : f[k].payload = EncodeTermDictionary(prev, rs)
    BY <2>1
  <2>3. g[k] = f[k]
    BY <1>2 DEF Grown
  <2>4. rs \in Seq(DictRow(A, k2))
    BY <1>3, SeqMonotonic
  <2> QED
    BY <2>2, <2>3, <2>4 DEF DictSegment
<1> QED
  BY <1>2, <1>4, <1>5 DEF DictOK, DictClosed

LEMMA RowsMore ==
  ASSUME NEW A, NEW B, A \subseteq B, NEW known PROVE DictRow(A, known) \subseteq DictRow(B, known)
  BY DEF DictRow

(* A delta at the end of the file that is chained to a root becomes one.   *)
LEMMA DictAppended ==
  ASSUME NEW f, IsSeq(f), NEW root, NEW known, DictOK(f, root, known),
         NEW A0, NEW rs \in Seq(DictRow(A0, known)), NEW seg, NEW id,
         seg.payload = EncodeTermDictionary(root, rs)
  PROVE  DictOK(Append(f, seg), <<id, Len(f) + 1>>, known)
<1>1. PICK A1 : \E C \in SUBSET DOMAIN f : root \in Roots(A1, C) /\ DictClosed(f, A1, C, known)
  BY DEF DictOK
<1>2. PICK C \in SUBSET DOMAIN f : root \in Roots(A1, C) /\ DictClosed(f, A1, C, known)
  BY <1>1
<1> DEFINE A == A0 \cup A1 \cup {id}
           m == Len(f) + 1
           C1 == C \cup {m}
           g == Append(f, seg)
<1>3. Grown(f, g) /\ m \in DOMAIN g /\ g[m] = seg
  BY AppendGrown
<1>4. A0 \subseteq A /\ A1 \subseteq A /\ id \in A
  OBVIOUS
<1> HIDE DEF A, g, m
<1>5. Roots(A1, C) \subseteq Roots(A, C1)
  BY <1>4 DEF Roots
<1>6. DictRow(A0, known) \subseteq DictRow(A, known) /\ DictRow(A1, known) \subseteq DictRow(A, known)
  BY <1>4, RowsMore
<1>7. ASSUME NEW k \in C1 PROVE DictSegment(g, A, C1, known, k)
  <2>1. CASE k = m
    <3>1. rs \in Seq(DictRow(A, known))
      BY <1>6, SeqMonotonic
    <3>2. root \in Roots(A, C1)
      BY <1>2, <1>5
    <3> QED
      BY <1>3, <2>1, <3>1, <3>2 DEF DictSegment
  <2>2. CASE k \in C
    <3>1. PICK prev \in Roots(A1, C) : \E ss \in Seq(DictRow(A1, known)) :
            f[k].payload = EncodeTermDictionary(prev, ss)
      BY <1>2, <2>2 DEF DictClosed, DictSegment
    <3>2. PICK ss \in Seq(DictRow(A1, known)) : f[k].payload = EncodeTermDictionary(prev, ss)
      BY <3>1
    <3>3. ss \in Seq(DictRow(A, known))
      BY <1>6, SeqMonotonic
    <3>4. g[k] = f[k]
      BY <1>2, <1>3, <2>2 DEF Grown
    <3> QED
      BY <1>5, <3>2, <3>3, <3>4 DEF DictSegment
  <2> QED
    BY <2>1, <2>2
<1>8. C1 \in SUBSET DOMAIN g
  BY <1>2, <1>3 DEF Grown
<1>9. <<id, m>> \in Roots(A, C1)
  BY <1>4 DEF Roots
<1> QED
  BY <1>7, <1>8, <1>9 DEF DictOK, DictClosed, g, m

-----------------------------------------------------------------------------
(* The shape of the handle and of the footer.                              *)

HandleFields ==
  {"alloc", "collections", "frames", "vectors", "dirty", "changed", "registry",
   "payloads", "uris", "batch", "pending", "text", "filters", "times", "byId",
   "base", "mapped"}
Tables == {"collection", "frame", "vector", "segment"}
BodyFields ==
  {"alloc", "collection", "frame", "vector", "filters", "time", "segments",
   "terms", "postings", "stats"}
HandleShape(hd) ==
  /\ HandleFields \subseteq DOMAIN hd
  /\ Tables \subseteq DOMAIN hd.alloc
  /\ Tables \subseteq DOMAIN hd.dirty
  /\ IsSeq(hd.frames) /\ IsSeq(hd.vectors)
WriterShape(w) ==
  /\ {"file", "h", "body", "ok"} \subseteq DOMAIN w
  /\ HandleShape(w.h) /\ BodyFields \subseteq DOMAIN w.body /\ IsSeq(w.file)

(* A stage that appends to the file and leaves the text alone.             *)
Quiet(w, v) ==
  /\ WriterShape(v) /\ Grown(w.file, v.file)
  /\ v.h.text = w.h.text /\ v.h.pending = w.h.pending
  /\ v.body.terms = w.body.terms

LEMMA QuietAgain ==
  ASSUME NEW u, NEW v, NEW w, Quiet(u, v), Quiet(v, w) PROVE Quiet(u, w)
  BY GrownAgain DEF Quiet

LEMMA QuietRefl == ASSUME NEW w, WriterShape(w) PROVE Quiet(w, w)
  BY DEF Quiet, Grown, WriterShape

(* The same file, handle and body but for fields that do not matter here.  *)
LEMMA QuietBody ==
  ASSUME NEW u, NEW w, Quiet(u, w), NEW x, NEW key, key # "terms"
  PROVE  Quiet(u, [w EXCEPT !.body[key] = x])
  BY DEF Quiet, WriterShape, BodyFields, Grown

LEMMA AppendSegmentQuiet ==
  ASSUME NEW w, WriterShape(w), NEW id, NEW type, NEW payload
  PROVE  /\ Quiet(w, AppendSegment(w, id, type, payload))
         /\ AppendSegment(w, id, type, payload).file
              = Append(w.file, [id |-> id, type |-> type, payload |-> payload])
         /\ AppendSegment(w, id, type, payload).ok = w.ok
         /\ AppendSegment(w, id, type, payload).body = w.body
<1> DEFINE v == AppendSegment(w, id, type, payload)
           seg == [id |-> id, type |-> type, payload |-> payload]
<1>1. Grown(w.file, Append(w.file, seg))
  BY AppendGrown DEF WriterShape
<1> HIDE DEF seg
<1>2. /\ DOMAIN v = DOMAIN w /\ v.file = Append(w.file, seg)
      /\ v.ok = w.ok /\ v.body = w.body
      /\ DOMAIN v.h = DOMAIN w.h
      /\ v.h.text = w.h.text /\ v.h.pending = w.h.pending /\ v.h.alloc = w.h.alloc
      /\ v.h.frames = w.h.frames /\ v.h.vectors = w.h.vectors
      /\ DOMAIN v.h.dirty = DOMAIN w.h.dirty
  BY DEF AppendSegment, WriterShape, HandleShape, HandleFields, Tables, seg
<1> HIDE DEF v
<1>3. HandleShape(v.h)
  BY <1>2 DEF WriterShape, HandleShape
<1>4. WriterShape(v)
  BY <1>1, <1>2, <1>3 DEF WriterShape, Grown
<1> QED
  BY <1>1, <1>2, <1>4 DEF Quiet, v, seg

LEMMA AppendRegisteredQuiet ==
  ASSUME NEW w, WriterShape(w), NEW type, NEW encoded
  PROVE  /\ Quiet(w, AppendRegistered(w, type, encoded))
         /\ AppendRegistered(w, type, encoded).body = w.body
         /\ encoded.ok => AppendRegistered(w, type, encoded).file
              = Append(w.file, [id |-> w.h.alloc.segment, type |-> type,
                                payload |-> encoded.val])
<1>1. CASE ~encoded.ok
  <2>1. AppendRegistered(w, type, encoded) = [w EXCEPT !.ok = FALSE]
    BY <1>1 DEF AppendRegistered
  <2>2. Quiet(w, [w EXCEPT !.ok = FALSE]) /\ [w EXCEPT !.ok = FALSE].body = w.body
    BY DEF Quiet, WriterShape, Grown
  <2> QED
    BY <1>1, <2>1, <2>2
<1>2. CASE encoded.ok
  <2> DEFINE u == [w EXCEPT !.h.alloc.segment = @ + 1]
  <2>1. AppendRegistered(w, type, encoded)
          = AppendSegment(u, w.h.alloc.segment, type, encoded.val)
    BY <1>2 DEF AppendRegistered
  <2>2. /\ u.file = w.file /\ u.body = w.body
        /\ u.h.text = w.h.text /\ u.h.pending = w.h.pending
        /\ WriterShape(u)
    BY DEF WriterShape, HandleShape, HandleFields, Tables
  <2> HIDE DEF u
  <2>3. Quiet(w, u)
    BY <2>2 DEF Quiet, Grown, WriterShape
  <2>4. Quiet(u, AppendSegment(u, w.h.alloc.segment, type, encoded.val))
    BY <2>2, AppendSegmentQuiet
  <2> QED
    BY <2>1, <2>2, <2>3, <2>4, AppendSegmentQuiet, QuietAgain, SMTT(30)
<1> QED
  BY <1>1, <1>2

(* What the stages change of the handle beside the text.                   *)
LEMMA QuietFields ==
  ASSUME NEW u, NEW w, Quiet(u, w), NEW v,
         {"file", "h", "body", "ok"} \subseteq DOMAIN v,
         v.file = w.file, v.body = w.body,
         DOMAIN w.h \subseteq DOMAIN v.h,
         v.h.text = w.h.text, v.h.pending = w.h.pending,
         Tables \subseteq DOMAIN v.h.alloc, Tables \subseteq DOMAIN v.h.dirty,
         IsSeq(v.h.frames), IsSeq(v.h.vectors)
  PROVE  Quiet(u, v)
<1>1. HandleShape(v.h)
  BY DEF Quiet, WriterShape, HandleShape
<1> QED
  BY <1>1 DEF Quiet, WriterShape

LEMMA FlushPayloadsQuiet ==
  ASSUME NEW w, WriterShape(w) PROVE Quiet(w, FlushPayloads(w))
<1>1. CASE w.h.payloads.frames = <<>>
  BY <1>1, QuietRefl DEF FlushPayloads
<1>2. CASE w.h.payloads.frames # <<>>
  <2> DEFINE p == w.h.payloads
             u == w.h.uris
             seg == w.h.alloc.segment
             w1 == AppendRegistered(w, "Payload", Ok(p.buf, <<>>))
             useg == w1.h.alloc.segment
             w2 == IF u.frames = <<>> THEN w1
                   ELSE AppendRegistered(w1, "Metadata", Ok(u.buf, <<>>))
             set(r) ==
               [r EXCEPT
                 !.payload = IF r.id \in InBuffer(p) THEN BufferRef(p, seg, r.id)
                             ELSE @,
                 !.uri = IF r.id \in InBuffer(u) THEN BufferRef(u, useg, r.id)
                         ELSE @]
             v == [w2 EXCEPT !.h.frames = [i \in DOMAIN @ |-> set(@[i])],
                             !.h.dirty.frame = @ \cup InBuffer(p) \cup InBuffer(u),
                             !.h.payloads = EmptyBuf, !.h.uris = EmptyBuf]
  <2>1. FlushPayloads(w) = v
    BY <1>2, Zenon DEF FlushPayloads
  <2>2. Quiet(w, w1)
    BY AppendRegisteredQuiet
  <2> HIDE DEF w1
  <2>3. Quiet(w, w2)
    <3>1. WriterShape(w1)
      BY <2>2 DEF Quiet
    <3>2. Quiet(w1, AppendRegistered(w1, "Metadata", Ok(u.buf, <<>>)))
      BY <3>1, AppendRegisteredQuiet
    <3> QED
      BY <2>2, <3>2, QuietAgain
  <2> HIDE DEF w2, p, u, seg, useg
  <2>4. WriterShape(w2)
    BY <2>3 DEF Quiet
  <2>5. IsSeq([i \in DOMAIN w2.h.frames |-> set(w2.h.frames[i])])
    <3> DEFINE g == [i \in DOMAIN w2.h.frames |-> set(w2.h.frames[i])]
               n == Len(w2.h.frames)
    <3>1. n \in Nat /\ DOMAIN w2.h.frames = 1..n
      BY <2>4, SeqFacts DEF WriterShape, HandleShape
    <3> HIDE DEF set, n
    <3>2. g = [i \in 1..n |-> g[i]]
      BY <3>1
    <3> HIDE DEF g
    <3>3. IsSeq(g)
      BY <3>1, <3>2, SeqOfFn
    <3> QED
      BY <3>3 DEF g
  <2>6. /\ DOMAIN v = DOMAIN w2 /\ v.file = w2.file /\ v.body = w2.body
        /\ DOMAIN v.h = DOMAIN w2.h /\ v.h.text = w2.h.text
        /\ v.h.pending = w2.h.pending /\ v.h.alloc = w2.h.alloc
        /\ DOMAIN v.h.dirty = DOMAIN w2.h.dirty
        /\ v.h.frames = [i \in DOMAIN w2.h.frames |-> set(w2.h.frames[i])]
        /\ v.h.vectors = w2.h.vectors
    <3> HIDE DEF set
    <3> QED
      BY <2>4 DEF WriterShape, HandleShape, HandleFields, Tables
  <2> HIDE DEF v, set
  <2>7. Quiet(w, v)
    BY <2>3, <2>4, <2>5, <2>6, QuietFields, SMTT(30) DEF WriterShape, HandleShape
  <2> QED
    BY <2>1, <2>7
<1> QED
  BY <1>1, <1>2

LEMMA FlushVectorsQuiet ==
  ASSUME NEW w, WriterShape(w) PROVE Quiet(w, FlushVectors(w))
<1>1. CASE w.h.batch = <<>>
  BY <1>1, QuietRefl DEF FlushVectors
<1>2. CASE w.h.batch # <<>>
  <2> DEFINE u == AppendSegment(w, w.h.batch[1].seg, "VectorData", w.h.batch[1].rows)
             v == [u EXCEPT !.h.batch = <<>>]
  <2>1. FlushVectors(w) = v
    BY <1>2 DEF FlushVectors
  <2>2. Quiet(w, u)
    BY AppendSegmentQuiet
  <2> HIDE DEF u
  <2>3. /\ DOMAIN v = DOMAIN u /\ v.file = u.file /\ v.body = u.body
        /\ DOMAIN v.h = DOMAIN u.h /\ v.h.text = u.h.text
        /\ v.h.pending = u.h.pending /\ v.h.alloc = u.h.alloc
        /\ v.h.dirty = u.h.dirty
        /\ v.h.frames = u.h.frames
        /\ v.h.vectors = u.h.vectors
    BY <2>2 DEF Quiet, WriterShape, HandleShape, HandleFields
  <2> HIDE DEF v
  <2>4. Quiet(w, v)
    BY <2>2, <2>3, QuietFields DEF Quiet, WriterShape, HandleShape
  <2> QED
    BY <2>1, <2>4
<1> QED
  BY <1>1, <1>2

LEMMA FlushTableQuiet ==
  ASSUME NEW w, WriterShape(w), NEW key, key # "terms", NEW type, NEW rows, NEW ids
  PROVE  Quiet(w, FlushTable(w, key, type, rows, ids))
<1> DEFINE enc == Ok(EncodeCatalogDelta(type, w.body[key], DirtyRecords(rows, ids)), <<>>)
           u == AppendRegistered(w, type, enc)
<1>1. Quiet(w, u)
  BY AppendRegisteredQuiet
<1>2. FlushTable(w, key, type, rows, ids)
        = IF ids = {} THEN w ELSE [u EXCEPT !.body[key] = NextRef(w)]
  BY DEF FlushTable
<1> HIDE DEF u
<1> QED
  BY <1>1, <1>2, QuietRefl, QuietBody

(* What sets a root, and a cache beside it.                                *)
LEMMA QuietCached ==
  ASSUME NEW u, NEW w, Quiet(u, w), NEW v, v.file = w.file,
         {"file", "h", "body", "ok"} \subseteq DOMAIN v,
         BodyFields \subseteq DOMAIN v.body, v.body.terms = w.body.terms,
         DOMAIN v.h = DOMAIN w.h,
         \A key \in HandleFields \ {"filters", "times"} : v.h[key] = w.h[key]
  PROVE  Quiet(u, v)
<1>1. /\ v.h.text = w.h.text /\ v.h.pending = w.h.pending
      /\ v.h.alloc = w.h.alloc /\ v.h.dirty = w.h.dirty
      /\ v.h.frames = w.h.frames /\ v.h.vectors = w.h.vectors
  BY DEF HandleFields
<1>2. HandleShape(v.h)
  BY <1>1 DEF Quiet, WriterShape, HandleShape
<1> QED
  BY <1>1, <1>2 DEF Quiet, WriterShape

LEMMA FlushFramesQuiet ==
  ASSUME NEW w, WriterShape(w) PROVE Quiet(w, FlushFrames(w))
<1> DEFINE enc == EncodeFrameCatalog(w.body.frame,
                    DirtyRecords(w.h.frames, w.h.dirty.frame))
           u == AppendRegistered(w, "FrameCatalog", enc)
           ref == NextRef(w)
<1>1. Quiet(w, u)
  BY AppendRegisteredQuiet
<1>2. FlushFrames(w) = IF w.h.dirty.frame = {} THEN w
                       ELSE IF u.ok THEN [u EXCEPT !.body.frame = ref] ELSE u
  BY DEF FlushFrames, AppendRoot
<1> HIDE DEF u, ref
<1>3. Quiet(w, [u EXCEPT !.body["frame"] = ref])
  BY <1>1, QuietBody
<1> QED
  BY <1>1, <1>2, <1>3, QuietRefl

LEMMA FlushTimesQuiet ==
  ASSUME NEW w, WriterShape(w) PROVE Quiet(w, FlushTimes(w))
<1> DEFINE es == TimeEntries(w.h.frames)
           enc == EncodeTimeIndex(w.body.time, es)
           u == AppendRegistered(w, "TimeIndex", enc)
           ref == NextRef(w)
           v == [u EXCEPT !.body.time = ref, !.h.times = es]
<1>1. Quiet(w, u)
  BY AppendRegisteredQuiet
<1>2. FlushTimes(w) = IF w.h.dirty.frame = {} THEN w ELSE IF u.ok THEN v ELSE u
  BY DEF FlushTimes, AppendRoot
<1> HIDE DEF u, ref, es
<1>3. /\ DOMAIN v = DOMAIN u /\ v.file = u.file /\ DOMAIN v.body = DOMAIN u.body
      /\ v.body.terms = u.body.terms /\ DOMAIN v.h = DOMAIN u.h
      /\ \A key \in HandleFields \ {"filters", "times"} : v.h[key] = u.h[key]
  BY <1>1 DEF Quiet, WriterShape, HandleShape, HandleFields, BodyFields
<1> HIDE DEF v
<1>4. Quiet(w, v)
  BY <1>1, <1>3, QuietCached DEF Quiet, WriterShape
<1> QED
  BY <1>1, <1>2, <1>4, QuietRefl

LEMMA FlushFilterQuiet ==
  ASSUME NEW w, WriterShape(w), NEW c PROVE Quiet(w, FlushFilter(w, c))
<1> DEFINE s == Filter(w.h, c)
           enc == EncodeCollectionFilter(At(w.body.filters, c, <<>>), c, s.frames,
                                s.vectors)
           u == AppendRegistered(w, "CollectionFilter", enc)
           ref == NextRef(w)
           v == [u EXCEPT !.body.filters = Insert(@, c, ref),
                          !.h.filters = Insert(@, c, s)]
<1>1. Quiet(w, u)
  BY AppendRegisteredQuiet
<1>2. FlushFilter(w, c) = IF ~w.ok THEN w ELSE IF u.ok THEN v ELSE u
  BY DEF FlushFilter, AppendRoot
<1> HIDE DEF u, ref, s
<1>3. /\ DOMAIN v = DOMAIN u /\ v.file = u.file /\ DOMAIN v.body = DOMAIN u.body
      /\ v.body.terms = u.body.terms /\ DOMAIN v.h = DOMAIN u.h
      /\ \A key \in HandleFields \ {"filters", "times"} : v.h[key] = u.h[key]
  BY <1>1 DEF Quiet, WriterShape, HandleShape, HandleFields, BodyFields
<1> HIDE DEF v
<1>4. Quiet(w, v)
  BY <1>1, <1>3, QuietCached DEF Quiet, WriterShape
<1> QED
  BY <1>1, <1>2, <1>4, QuietRefl

(* The collections to flush are a list.                                    *)
LEMMA DirtyFiltersList ==
  ASSUME NEW hd, HandleShape(hd)
  PROVE  \E n \in Nat : DOMAIN DirtyFilters(hd) = 1..n
<1> DEFINE touched(rows, ids) ==
             {rows[i].coll : i \in {k \in DOMAIN rows : rows[k].id \in ids}}
           S == touched(hd.frames, hd.dirty.frame) \cup touched(hd.vectors, hd.dirty.vector)
<1>1. ASSUME NEW rows, IsSeq(rows), NEW ids PROVE IsFiniteSet(touched(rows, ids))
  <2> DEFINE n == Len(rows)
             g == [i \in 1..n |-> rows[i].coll]
             T == {g[i] : i \in 1..n}
  <2>1. n \in Nat /\ DOMAIN rows = 1..n
    BY <1>1, SeqFacts
  <2> HIDE DEF n
  <2>2. IsFiniteSet(T)
    <3>1. DOMAIN g = 1..n
      OBVIOUS
    <3> HIDE DEF g
    <3> QED
      BY <2>1, <3>1, FiniteImage
  <2>3. touched(rows, ids) \in SUBSET T
    BY <2>1
  <2> QED
    BY <2>2, <2>3, FS_Subset
<1>2. IsFiniteSet(S)
  BY <1>1, FS_Union DEF HandleShape
<1>3. DirtyFilters(hd) = InOrder(S)
  BY DEF DirtyFilters
<1> HIDE DEF S
<1>4. Cardinality(S) \in Nat
  BY <1>2, FS_CardinalityType
<1> QED
  BY <1>3, <1>4 DEF InOrder

FStep(c, d, acc, x) == FlushFilter(acc, x)
Filtering == INSTANCE Folding WITH Op <- FStep

LEMMA FlushFiltersQuiet ==
  ASSUME NEW w, WriterShape(w) PROVE Quiet(w, FlushFilters(w))
<1> DEFINE s == DirtyFilters(w.h)
<1>1. PICK n \in Nat : DOMAIN s = 1..n
  BY DirtyFiltersList DEF WriterShape
<1>2. FlushFilters(w) = Filtering!Fold(0, 0, w, s)
  BY DEF FlushFilters, FStep, FoldLeft, MapThenFoldSet, Max, Filtering!Fold,
         Filtering!FoldLeft, Filtering!MapThenFoldSet, Filtering!Max
<1> HIDE DEF s
<1>3. PICK r : /\ r[0] = w
               /\ \A i \in 1..n : r[i] = FStep(0, 0, r[i - 1], s[i])
               /\ Filtering!Fold(0, 0, w, s) = r[n]
  BY <1>1, Filtering!FoldSteps
<1> DEFINE K == {i \in Nat : i <= n => Quiet(w, r[i])}
<1>4. 0 \in K
  BY <1>3, QuietRefl
<1>5. \A i \in Nat : i \in K => i + 1 \in K
  <2> SUFFICES ASSUME NEW i \in Nat, i \in K, i + 1 <= n
               PROVE  Quiet(w, r[i + 1])
    OBVIOUS
  <2>1. i + 1 \in 1..n /\ (i + 1) - 1 = i /\ Quiet(w, r[i])
    OBVIOUS
  <2>2. r[i + 1] = FlushFilter(r[i], s[i + 1])
    BY <1>3, <2>1 DEF FStep
  <2>3. PICK v, c : v = r[i] /\ c = s[i + 1]
    OBVIOUS
  <2>4. Quiet(v, FlushFilter(v, c))
    BY <2>1, <2>3, FlushFilterQuiet DEF Quiet
  <2> QED
    BY <2>1, <2>2, <2>3, <2>4, QuietAgain
<1> HIDE DEF K
<1>6. n \in K
  BY <1>4, <1>5, Filtering!SetInduction
<1> QED
  BY <1>2, <1>3, <1>6 DEF K

LEMMA FlushRegistryQuiet ==
  ASSUME NEW w, WriterShape(w) PROVE Quiet(w, FlushRegistry(w))
<1>1. CASE w.h.dirty.segment = {}
  BY <1>1, QuietRefl DEF FlushRegistry
<1>2. CASE w.h.dirty.segment # {}
  <2>1. PICK seg, ref :
          FlushRegistry(w) = [w EXCEPT !.file = Append(@, seg),
                                       !.h.alloc.segment = @ + 1,
                                       !.body.segments = ref]
    <3> DEFINE ids == InOrder(w.h.dirty.segment)
               id == w.h.alloc.segment
               rows == [i \in DOMAIN ids |->
                          [id |-> ids[i], off |-> w.h.registry[ids[i]]]]
               delta == EncodeCatalogDelta("SegmentRegistry", w.body.segments, rows)
    <3>1. FlushRegistry(w) = [w EXCEPT !.file = Append(@, [id |-> id,
                                         type |-> "SegmentRegistry", payload |-> delta]),
                                       !.h.alloc.segment = @ + 1,
                                       !.body.segments = RefAtEnd(w, id)]
      BY <1>2 DEF FlushRegistry
    <3> HIDE DEF delta, id
    <3> QED
      BY <3>1, Zenon
  <2> DEFINE v == [w EXCEPT !.file = Append(@, seg), !.h.alloc.segment = @ + 1,
                            !.body.segments = ref]
  <2>2. Grown(w.file, Append(w.file, seg))
    BY AppendGrown DEF WriterShape
  <2>3. /\ DOMAIN v = DOMAIN w /\ v.file = Append(w.file, seg)
        /\ DOMAIN v.body = DOMAIN w.body /\ v.body.terms = w.body.terms
        /\ DOMAIN v.h = DOMAIN w.h /\ DOMAIN v.h.alloc = DOMAIN w.h.alloc
        /\ v.h.dirty = w.h.dirty /\ v.h.text = w.h.text /\ v.h.pending = w.h.pending
        /\ v.h.frames = w.h.frames /\ v.h.vectors = w.h.vectors
    BY DEF WriterShape, HandleShape, HandleFields, BodyFields, Tables
  <2> HIDE DEF v
  <2>4. WriterShape(v)
    BY <2>2, <2>3 DEF WriterShape, HandleShape, Grown
  <2>5. Quiet(w, v)
    BY <2>2, <2>3, <2>4 DEF Quiet
  <2> QED
    BY <2>1, <2>5 DEF v
<1> QED
  BY <1>1, <1>2

(* The dictionary of the text, of the file and of a writer: what a root    *)
(* leads to agrees with the ids in memory, and no segment of old moved.    *)
Held(w, root, old) ==
  /\ Grown(old, w.file)
  /\ WriterShape(w) /\ TextOK(w.h.text) /\ PendingOK(w.h.pending)
  /\ DictOK(w.file, root, Known(w.h.text))
  /\ DictOK(w.file, w.body.terms, Known(w.h.text))

LEMMA QuietHeld ==
  ASSUME NEW w, NEW root, NEW old, Held(w, root, old), NEW v, Quiet(w, v)
  PROVE  Held(v, root, old)
<1>1. Extends(Known(w.h.text), Known(w.h.text))
  BY DEF Extends
<1> QED
  BY <1>1, DictKept, GrownAgain DEF Held, Quiet

(* A writer whose text has taken new terms and has no text pending.        *)
Taken(w, st) == [w EXCEPT !.h.pending = <<>>, !.h.text = st]

LEMMA TakenHeld ==
  ASSUME NEW w, NEW root, NEW old, Held(w, root, old), NEW st, TextOK(st),
         Extends(Known(w.h.text), Known(st))
  PROVE  /\ Held(Taken(w, st), root, old) /\ Taken(w, st).body = w.body
         /\ Taken(w, st).h.text = st /\ Taken(w, st).h.alloc = w.h.alloc
<1> DEFINE v == Taken(w, st)
<1>1. /\ DOMAIN v = DOMAIN w /\ v.file = w.file /\ v.body = w.body
      /\ DOMAIN v.h = DOMAIN w.h /\ v.h.alloc = w.h.alloc
      /\ v.h.dirty = w.h.dirty /\ v.h.text = st /\ v.h.pending = <<>>
      /\ v.h.frames = w.h.frames /\ v.h.vectors = w.h.vectors
  BY DEF Held, WriterShape, HandleShape, HandleFields, Taken
<1> HIDE DEF v
<1>2. WriterShape(v)
  BY <1>1 DEF Held, WriterShape, HandleShape
<1>3. PendingOK(v.h.pending)
  <2>1. DOMAIN <<>> = {}
    OBVIOUS
  <2>2. PendingTokens(<<>>) = {}
    BY <2>1 DEF PendingTokens
  <2> QED
    BY <1>1, <2>2 DEF PendingOK
<1>4. Grown(w.file, w.file)
  BY DEF Grown, Held, WriterShape
<1>5. DictOK(w.file, root, Known(st)) /\ DictOK(w.file, w.body.terms, Known(st))
  BY <1>4, DictKept DEF Held
<1> QED
  BY <1>1, <1>2, <1>3, <1>5 DEF Held, v

LEMMA AppendTextHeld ==
  ASSUME NEW w, NEW root, NEW old, Held(w, root, old), NEW out,
         FlushedOK(w.h.text, w.body.terms, out)
  PROVE  Held(AppendText(w, out), root, old)
<1> DEFINE w0 == [w EXCEPT !.h.pending = <<>>, !.h.text = out.state]
           w1 == AppendRegistered(w0, "TermDictionary", out.terms)
           w2 == AppendRegistered(w1, "Postings", out.postings)
           w3 == AppendRegistered(w2, "DocStats", out.stats)
           known == Known(out.state)
<1>1. /\ Held(w0, root, old) /\ w0.body = w.body /\ w0.h.text = out.state
      /\ w0.h.alloc = w.h.alloc
  <2>1. PICK st : st = out.state
    OBVIOUS
  <2>2. TextOK(st) /\ Extends(Known(w.h.text), Known(st))
    BY <2>1 DEF FlushedOK
  <2>4. /\ Held(Taken(w, st), root, old) /\ Taken(w, st).body = w.body
        /\ Taken(w, st).h.text = st /\ Taken(w, st).h.alloc = w.h.alloc
    BY <2>2, TakenHeld
  <2>5. Taken(w, st) = w0
    BY <2>1 DEF Taken
  <2> QED
    BY <2>1, <2>4, <2>5
<1>2. WriterShape(w0)
  BY <1>1 DEF Held
<1>3. /\ AppendText(w, out) =
           IF ~(out.terms.ok /\ out.postings.ok /\ out.stats.ok)
           THEN [w0 EXCEPT !.ok = FALSE]
           ELSE [w3 EXCEPT !.body.terms = NextRef(w0), !.body.postings = NextRef(w1),
                           !.body.stats = NextRef(w2)]
  BY DEF AppendText
<1> HIDE DEF w0
<1>4. Held([w0 EXCEPT !.ok = FALSE], root, old)
  BY <1>1 DEF Held, WriterShape
<1>5. PICK A : \E rs \in Seq(DictRow(A, known)) :
         out.terms = Ok(EncodeTermDictionary(w.body.terms, rs), <<>>)
  BY DEF FlushedOK
<1>6. PICK rs \in Seq(DictRow(A, known)) :
         out.terms = Ok(EncodeTermDictionary(w.body.terms, rs), <<>>)
  BY <1>5
<1> DEFINE seg == [id |-> w0.h.alloc.segment, type |-> "TermDictionary",
                   payload |-> EncodeTermDictionary(w.body.terms, rs)]
           ref == <<w0.h.alloc.segment, Len(w0.file) + 1>>
<1>7. /\ out.terms.ok
      /\ out.terms.val = EncodeTermDictionary(w.body.terms, rs)
  BY <1>6 DEF Ok
<1>8. Quiet(w0, w1) /\ w1.file = Append(w0.file, seg) /\ w1.body = w0.body
  BY <1>2, <1>7, AppendRegisteredQuiet
<1>9. IsSeq(w0.file) /\ DictOK(w0.file, w.body.terms, known)
  BY <1>1 DEF Held, WriterShape
<1>10. DictOK(Append(w0.file, seg), ref, known)
  <2>1. seg.payload = EncodeTermDictionary(w.body.terms, rs)
    OBVIOUS
  <2> DEFINE id == w0.h.alloc.segment
  <2>2. PICK s : s = seg
    OBVIOUS
  <2>3. PICK i : i = id
    OBVIOUS
  <2> HIDE DEF seg, id
  <2>4. DictOK(Append(w0.file, s), <<i, Len(w0.file) + 1>>, known)
    BY <1>9, <2>1, <2>2, DictAppended
  <2> QED
    BY <2>2, <2>3, <2>4 DEF id
<1>11. NextRef(w0) = ref
  BY DEF NextRef, RefAtEnd
<1> HIDE DEF w1, seg, ref
<1>12. Quiet(w1, w2)
  <2>1. WriterShape(w1)
    BY <1>8 DEF Quiet
  <2>2. PICK e : e = out.postings
    OBVIOUS
  <2> QED
    BY <2>1, <2>2, AppendRegisteredQuiet
<1> HIDE DEF w2
<1>13. Quiet(w2, w3)
  <2>1. WriterShape(w2)
    BY <1>12 DEF Quiet
  <2>2. PICK e : e = out.stats
    OBVIOUS
  <2> QED
    BY <2>1, <2>2, AppendRegisteredQuiet
<1> HIDE DEF w3
<1>14. Quiet(w1, w3) /\ Quiet(w0, w3)
  BY <1>8, <1>12, <1>13, QuietAgain
<1>15. Held(w3, root, old)
  BY <1>1, <1>14, QuietHeld
<1>16. DictOK(w3.file, ref, known)
  <2>1. Grown(w1.file, w3.file) /\ DictOK(w1.file, ref, known)
    BY <1>8, <1>10, <1>14 DEF Quiet
  <2>2. Extends(known, known)
    BY DEF Extends
  <2> HIDE DEF known
  <2> QED
    BY <2>1, <2>2, DictKept
<1>17. w3.h.text = out.state
  BY <1>1, <1>14 DEF Quiet
<1> DEFINE v == [w3 EXCEPT !.body.terms = NextRef(w0), !.body.postings = NextRef(w1),
                           !.body.stats = NextRef(w2)]
<1>18. /\ DOMAIN v = DOMAIN w3 /\ v.file = w3.file /\ v.h = w3.h
       /\ DOMAIN v.body = DOMAIN w3.body /\ v.body.terms = NextRef(w0)
  BY <1>15 DEF Held, WriterShape, BodyFields
<1> HIDE DEF v
<1>19. Held(v, root, old)
  BY <1>11, <1>15, <1>16, <1>17, <1>18 DEF Held, WriterShape
<1> QED
  BY <1>3, <1>4, <1>19 DEF v

LEMMA FlushTextHeld ==
  ASSUME NEW w, NEW root, NEW old, Held(w, root, old) PROVE Held(FlushText(w), root, old)
<1>1. FlushedOK(w.h.text, w.body.terms, FlushOutput(w.h.text, w.h.pending, w.body))
  BY FlushOutputFacts DEF Held
<1>2. Held(AppendText(w, FlushOutput(w.h.text, w.h.pending, w.body)), root, old)
  BY <1>1, AppendTextHeld
<1> QED
  BY <1>2 DEF FlushText

-----------------------------------------------------------------------------
(* A commit's stages.                                                      *)

StageNames == {"payloads", "vectors", "text", "collections", "frames",
               "vector_rows", "filters", "times", "registry"}

LEMMA StageHeld ==
  ASSUME NEW w, NEW root, NEW old, Held(w, root, old), NEW n \in StageNames
  PROVE  Held(Stage(w, n), root, old)
<1>1. WriterShape(w)
  BY DEF Held
<1>2. CASE n = "payloads"
  BY <1>1, <1>2, FlushPayloadsQuiet, QuietHeld DEF Stage
<1>3. CASE n = "vectors"
  BY <1>1, <1>3, FlushVectorsQuiet, QuietHeld DEF Stage
<1>4. CASE n = "text"
  BY <1>4, FlushTextHeld DEF Stage
<1>5. CASE n = "collections"
  <2>1. Quiet(w, FlushCollections(w))
    BY <1>1, FlushTableQuiet DEF FlushCollections
  <2> QED
    BY <1>5, <2>1, QuietHeld DEF Stage
<1>6. CASE n = "frames"
  BY <1>1, <1>6, FlushFramesQuiet, QuietHeld DEF Stage
<1>7. CASE n = "vector_rows"
  <2>1. Quiet(w, FlushVectorTable(w))
    BY <1>1, FlushTableQuiet DEF FlushVectorTable
  <2> QED
    BY <1>7, <2>1, QuietHeld DEF Stage
<1>8. CASE n = "filters"
  BY <1>1, <1>8, FlushFiltersQuiet, QuietHeld DEF Stage
<1>9. CASE n = "times"
  BY <1>1, <1>9, FlushTimesQuiet, QuietHeld DEF Stage
<1>10. CASE n = "registry"
  BY <1>1, <1>10, FlushRegistryQuiet, QuietHeld DEF Stage
<1> QED
  BY <1>2, <1>3, <1>4, <1>5, <1>6, <1>7, <1>8, <1>9, <1>10 DEF StageNames

WStep(c, d, acc, n) == NextStage(acc, n)
Staging == INSTANCE Folding WITH Op <- WStep

LEMMA StagesList ==
  DOMAIN Stages = 1..9 /\ \A i \in 1..9 : Stages[i] \in StageNames
<1>1. Stages \in [1..9 -> StageNames]
  BY DEF Stages, StageNames
<1> QED
  BY <1>1

LEMMA CommitWritesHeld ==
  ASSUME Held([file |-> file, h |-> h, body |-> footer, ok |-> TRUE], footer.terms, file)
  PROVE  Held(CommitWrites, footer.terms, file)
<1> DEFINE w == [file |-> file, h |-> h, body |-> footer, ok |-> TRUE]
           root == footer.terms
           base == file
           end == Staging!Fold(0, 0, w, Stages)
<1>1. CommitWrites = WithAlloc(end)
  BY DEF CommitWrites, WStep, FoldLeft, MapThenFoldSet, Max, Staging!Fold,
         Staging!FoldLeft, Staging!MapThenFoldSet, Staging!Max
<1> HIDE DEF w, root, base
<1>2. PICK r : /\ r[0] = w
               /\ \A i \in 1..9 : r[i] = WStep(0, 0, r[i - 1], Stages[i])
               /\ end = r[9]
  <2>1. PICK m \in Nat : m = 9
    OBVIOUS
  <2>2. DOMAIN Stages = 1..m
    BY <2>1, StagesList
  <2>3. \E r : /\ r[0] = w
               /\ \A i \in 1..m : r[i] = WStep(0, 0, r[i - 1], Stages[i])
               /\ end = r[m]
    BY <2>2, Staging!FoldSteps
  <2> QED
    BY <2>1, <2>3
<1> DEFINE K == {i \in Nat : i <= 9 => Held(r[i], root, base)}
<1>3. 0 \in K
  BY <1>2 DEF w, root, base
<1>4. \A i \in Nat : i \in K => i + 1 \in K
  <2> SUFFICES ASSUME NEW i \in Nat, i \in K, i + 1 <= 9
               PROVE  Held(r[i + 1], root, base)
    OBVIOUS
  <2>1. i + 1 \in 1..9 /\ (i + 1) - 1 = i /\ Held(r[i], root, base)
    OBVIOUS
  <2>2. r[i + 1] = NextStage(r[i], Stages[i + 1])
    BY <1>2, <2>1 DEF WStep
  <2>3. PICK v : v = r[i]
    OBVIOUS
  <2>4. PICK n \in StageNames : n = Stages[i + 1]
    BY <2>1, StagesList
  <2>5. Held(Stage(v, n), root, base)
    BY <2>1, <2>3, StageHeld
  <2> QED
    BY <2>1, <2>2, <2>3, <2>4, <2>5 DEF NextStage
<1> HIDE DEF K
<1>5. 9 \in K
  BY <1>3, <1>4, Staging!SetInduction
<1>6. Held(end, root, base)
  BY <1>2, <1>5 DEF K
<1> HIDE DEF end
<1> DEFINE v == WithAlloc(end)
<1>7. /\ DOMAIN v = DOMAIN end /\ v.file = end.file /\ v.h = end.h
      /\ DOMAIN v.body = DOMAIN end.body /\ v.body.terms = end.body.terms
  BY <1>6 DEF WithAlloc, Held, WriterShape, BodyFields
<1> HIDE DEF v
<1>8. Held(v, root, base)
  BY <1>6, <1>7 DEF Held, WriterShape
<1> QED
  BY <1>1, <1>8 DEF v, root, base

-----------------------------------------------------------------------------
(* The rows of a delta are a sequence.                                     *)

RecStep(table, d, acc, i) ==
  Then(acc, LAMBDA vs, rest :
    Then(ReadRecord(table, rest), LAMBDA v, more : Ok(Append(vs, v), more)))
Recs == INSTANCE Folding WITH Op <- RecStep

ReadRecords(table, n, s) == ReadMany(n, LAMBDA r : ReadRecord(table, r), s)

LEMMA RecordsAreSeq ==
  ASSUME NEW table, NEW n \in Nat, NEW s, ReadRecords(table, n, s).ok
  PROVE  IsSeq(ReadRecords(table, n, s).val)
<1> DEFINE ix == [i \in 1..n |-> i]
           end == Recs!Fold(table, 0, Ok(<<>>, s), ix)
<1>1. ReadRecords(table, n, s) = end
  BY Zenon DEF ReadRecords, ReadMany, RecStep, FoldLeft, MapThenFoldSet, Max, Recs!Fold, Recs!FoldLeft,
         Recs!MapThenFoldSet, Recs!Max
<1>2. DOMAIN ix = 1..n
  OBVIOUS
<1> HIDE DEF ix
<1>3. PICK r : /\ r[0] = Ok(<<>>, s)
               /\ \A i \in 1..n : r[i] = RecStep(table, 0, r[i - 1], ix[i])
               /\ end = r[n]
  BY <1>2, Recs!FoldSteps
<1> DEFINE K == {i \in Nat : i <= n /\ r[i].ok => IsSeq(r[i].val)}
<1>4. 0 \in K
  <2>1. <<>> \in Seq({})
    BY EmptySeq
  <2>2. r[0].val = <<>>
    BY <1>3 DEF Ok
  <2> QED
    BY <2>1, <2>2 DEF IsSeq
<1>5. \A i \in Nat : i \in K => i + 1 \in K
  <2> SUFFICES ASSUME NEW i \in Nat, i \in K, i + 1 <= n, r[i + 1].ok
               PROVE  IsSeq(r[i + 1].val)
    OBVIOUS
  <2>1. i + 1 \in 1..n /\ (i + 1) - 1 = i /\ (r[i].ok => IsSeq(r[i].val))
    OBVIOUS
  <2>2. r[i + 1] = RecStep(table, 0, r[i], ix[i + 1])
    BY <1>3, <2>1
  <2>3. PICK a, x : a = r[i] /\ x = ReadRecord(table, a.rest)
    OBVIOUS
  <2>4. RecStep(table, 0, a, ix[i + 1])
          = IF a.ok THEN IF x.ok THEN Ok(Append(a.val, x.val), x.rest) ELSE Err ELSE Err
    BY <2>3 DEF RecStep, Then
  <2>5. ~Err.ok
    BY DEF Err
  <2>6. a.ok /\ r[i + 1].val = Append(a.val, x.val)
    BY <2>2, <2>3, <2>4, <2>5 DEF Ok
  <2>7. IsSeq(a.val)
    BY <2>1, <2>3, <2>6
  <2> QED
    BY <2>6, <2>7, AppendGrown DEF Grown
<1> HIDE DEF K
<1>6. n \in K
  BY <1>4, <1>5, Recs!SetInduction
<1> QED
  BY <1>1, <1>3, <1>6 DEF K

LEMMA CatalogRowsSeq ==
  ASSUME NEW table, NEW s, DecodeCatalogDelta(table, s).ok
  PROVE  IsSeq(DecodeCatalogDelta(table, s).val.rows)
<1>1. ~Err.ok
  BY DEF Err
<1> DEFINE a == ReadMagic("VLCC", s)
           b == ReadMagic(table, a.rest)
           c == ReadCount(b.rest)
           d == ReadRecords(table, c.val, c.rest)
           e == ReadPreviousSuffix(d.rest)
<1>2. /\ a.ok /\ b.ok /\ c.ok /\ d.ok /\ e.ok
      /\ DecodeCatalogDelta(table, s).val = [prev |-> e.val, rows |-> d.val]
  <2>1. DecodeCatalogDelta(table, s)
          = IF a.ok THEN IF b.ok THEN IF c.ok THEN IF d.ok THEN IF e.ok
            THEN Ok([prev |-> e.val, rows |-> d.val], e.rest)
            ELSE Err ELSE Err ELSE Err ELSE Err ELSE Err
    BY DEF DecodeCatalogDelta, Then, ReadRecords
  <2> HIDE DEF a, b, c, d, e
  <2> QED
    BY <1>1, <2>1, SMTT(30) DEF Ok
<1>3. c.val \in Nat
  <2> HIDE DEF b
  <2> DEFINE x == ReadCell(b.rest)
  <2>1. c = IF x.ok THEN IF x.val \in Nat THEN Ok(x.val, x.rest) ELSE Err ELSE Err
    BY DEF ReadCount, Then
  <2> HIDE DEF x
  <2> QED
    BY <1>1, <1>2, <2>1 DEF Ok
<1> HIDE DEF c
<1>4. IsSeq(d.val)
  BY <1>2, <1>3, RecordsAreSeq
<1> HIDE DEF d, e
<1> QED
  BY <1>2, <1>4

LEMMA FrameRowsSeq ==
  ASSUME NEW s, DecodeFrameCatalog(s).ok
  PROVE  IsSeq(DecodeFrameCatalog(s).val.rows)
<1>1. ~Err.ok
  BY DEF Err
<1> DEFINE p == FrameCatalogPrevious(s)
           n == p.val.count
           b == ReadMany(23, ReadBlob, p.rest)
           rows == DecodeFrameColumns(n, b.val)
<1>2. DecodeFrameCatalog(s)
        = IF p.ok THEN IF n = 0 THEN Ok([prev |-> p.val.prev, rows |-> <<>>], p.rest)
          ELSE IF b.ok THEN IF rows.ok THEN Ok([prev |-> p.val.prev, rows |-> rows.val], b.rest)
          ELSE Err ELSE Err ELSE Err
  BY DEF DecodeFrameCatalog, Then
<1>3. p.ok => n \in Nat
  <2> DEFINE m == ReadMagic("VLF2", s)
             c == ReadCount(m.rest)
             r == ReadRef(c.rest)
             x == ReadCell(r.rest)
             y == ReadCell(m.rest)
  <2>1. p = IF m.ok THEN IF c.ok THEN IF r.ok THEN IF x.ok
            THEN Ok([prev |-> r.val, count |-> c.val], x.rest)
            ELSE Err ELSE Err ELSE Err ELSE Err
    BY DEF FrameCatalogPrevious, Then
  <2>2. c = IF y.ok THEN IF y.val \in Nat THEN Ok(y.val, y.rest) ELSE Err ELSE Err
    BY DEF ReadCount, Then
  <2> HIDE DEF p, m, c, r, x, y
  <2>3. c.ok => c.val \in Nat
    BY <1>1, <2>2 DEF Ok
  <2>4. p.ok => c.ok /\ p.val = [prev |-> r.val, count |-> c.val]
    BY <1>1, <2>1 DEF Ok
  <2> QED
    BY <2>3, <2>4
<1> HIDE DEF n, b
<1>4. rows.ok /\ n \in Nat => IsSeq(rows.val)
  <2>1. ASSUME rows.ok, n \in Nat PROVE IsSeq(rows.val)
    <3> DEFINE cols == ReadColumns(n, b.val)
               g == [i \in 1..n |->
                      [f \in Range(FrameFields) |->
                         cols[CHOOSE j \in DOMAIN FrameFields : FrameFields[j] = f].val[i]]]
    <3>1. rows = FrameRows(n, cols)
      BY DEF DecodeFrameColumns
    <3> HIDE DEF cols
    <3>2. rows = Ok(g, <<>>)
      BY <1>1, <2>1, <3>1 DEF FrameRows
    <3>3. g = [i \in 1..n |-> g[i]]
      OBVIOUS
    <3> HIDE DEF g, rows
    <3>4. rows.val = g
      BY <3>2 DEF Ok
    <3> QED
      BY <2>1, <3>3, <3>4, SeqOfFn
  <2> QED
    BY <2>1
<1>5. IsSeq(<<>>)
  <2>1. <<>> \in Seq({})
    BY EmptySeq
  <2> QED
    BY <2>1 DEF IsSeq
<1> HIDE DEF p, rows
<1> QED
  BY <1>1, <1>2, <1>3, <1>4, <1>5 DEF Ok

-----------------------------------------------------------------------------
(* The catalogs that are read along a chain are sequences.                 *)

RowTables == {"FrameCatalog", "VectorCatalog"}
RowsListed(acc) ==
  /\ {"ok", "next", "deltas"} \subseteq DOMAIN acc
  /\ acc.ok => /\ IsSeq(acc.deltas)
               /\ \A j \in DOMAIN acc.deltas : IsSeq(acc.deltas[j].rows)

LEMMA RowsListedFurther ==
  ASSUME NEW f, NEW type \in RowTables, NEW acc, RowsListed(acc)
  PROVE  RowsListed(TypedStep(f, type, acc))
<1> DEFINE new == TypedStep(f, type, acc)
           r == ReadSegment(f, acc.next, type)
           d == IF r.ok THEN DecodeDelta(type, r.val) ELSE Err
<1>1. CASE ~acc.ok \/ acc.next = <<>>
  BY <1>1 DEF TypedStep, ChainStep
<1>2. CASE ~(~acc.ok \/ acc.next = <<>>) /\ ~d.ok
  <2>1. new = [acc EXCEPT !.ok = FALSE]
    BY <1>2 DEF TypedStep, ChainStep
  <2> HIDE DEF new
  <2>2. {"ok", "next", "deltas"} \subseteq DOMAIN new /\ new.ok = FALSE
    BY <2>1 DEF RowsListed
  <2> QED
    BY <2>2 DEF RowsListed, new
<1>3. CASE ~(~acc.ok \/ acc.next = <<>>) /\ d.ok
  <2>1. new = [ok |-> TRUE, next |-> d.val.prev, deltas |-> Append(acc.deltas, d.val)]
    BY <1>3 DEF TypedStep, ChainStep
  <2>2. r.ok /\ d = DecodeDelta(type, r.val)
    BY <1>3 DEF Err
  <2>3. IsSeq(d.val.rows)
    <3>1. CASE type = "FrameCatalog"
      <4>1. d = DecodeFrameCatalog(r.val)
        BY <2>2, <3>1 DEF DecodeDelta
      <4> HIDE DEF d, r
      <4> QED
        BY <1>3, <4>1, FrameRowsSeq
    <3>2. CASE type = "VectorCatalog"
      <4>1. d = DecodeCatalogDelta("VectorCatalog", r.val)
        BY <2>2, <3>2 DEF DecodeDelta
      <4> HIDE DEF d, r
      <4> QED
        BY <1>3, <4>1, CatalogRowsSeq
    <3> QED
      BY <3>1, <3>2 DEF RowTables
  <2> HIDE DEF d, new
  <2>4. PICK a, x : a = acc.deltas /\ x = d.val
    OBVIOUS
  <2>5. IsSeq(a) /\ \A j \in DOMAIN a : IsSeq(a[j].rows)
    BY <1>3, <2>4 DEF RowsListed
  <2>6. /\ Grown(a, Append(a, x)) /\ Len(Append(a, x)) = Len(a) + 1
        /\ Append(a, x)[Len(a) + 1] = x
    BY <2>5, AppendGrown
  <2>7. /\ Len(a) \in Nat /\ DOMAIN a = 1..Len(a) /\ DOMAIN Append(a, x) = 1..Len(a) + 1
    BY <2>5, <2>6, SeqFacts DEF Grown
  <2>8. \A j \in DOMAIN Append(a, x) : IsSeq(Append(a, x)[j].rows)
    <3> SUFFICES ASSUME NEW j \in DOMAIN Append(a, x) PROVE IsSeq(Append(a, x)[j].rows)
      OBVIOUS
    <3>1. CASE j \in DOMAIN a
      BY <2>5, <2>6, <3>1 DEF Grown
    <3>2. CASE j = Len(a) + 1
      BY <2>3, <2>4, <2>6, <3>2
    <3> QED
      BY <2>7, <3>1, <3>2
  <2>9. new.deltas = Append(a, x) /\ {"ok", "next", "deltas"} \subseteq DOMAIN new
    BY <2>1, <2>4
  <2>10. RowsListed(new)
    BY <2>6, <2>8, <2>9 DEF RowsListed, Grown
  <2> QED
    BY <2>10 DEF new
<1> QED
  BY <1>1, <1>2, <1>3

LEMMA FrameChainWalks ==
  ASSUME NEW f, NEW n \in Nat, DOMAIN f = 1..n, NEW head
  PROVE  \E r : /\ WalkOf(f, "FrameCatalog", head, n, r)
               /\ Chain(f, head, "FrameCatalog", DecodeFrameCatalog) = Arrived(r[n])
<1> DEFINE s == [k \in DOMAIN f |-> k]
<1>1. DOMAIN s = 1..n
  OBVIOUS
<1>2. Chain(f, head, "FrameCatalog", DecodeFrameCatalog)
        = Arrived(FrameChains!Fold(f, 0, Begin(head), s))
  BY Zenon DEF Chain, Arrived, FrameChains!Fold, FrameStep, Begin, FoldLeft, MapThenFoldSet, Max,
         FrameChains!FoldLeft, FrameChains!MapThenFoldSet, FrameChains!Max
<1> HIDE DEF s
<1>3. PICK r : /\ r[0] = Begin(head)
               /\ \A i \in 1..n : r[i] = FrameStep(f, 0, r[i - 1], s[i])
               /\ FrameChains!Fold(f, 0, Begin(head), s) = r[n]
  BY <1>1, FrameChains!FoldSteps
<1>4. ASSUME NEW acc, NEW k PROVE FrameStep(f, 0, acc, k) = TypedStep(f, "FrameCatalog", acc)
  BY DEF FrameStep, TypedStep, ChainStep, DecodeDelta
<1>5. \A i \in 1..n : r[i] = TypedStep(f, "FrameCatalog", r[i - 1])
  BY <1>3, <1>4
<1> QED
  BY <1>2, <1>3, <1>5 DEF WalkOf

LEMMA RowChainWalks ==
  ASSUME NEW f, NEW n \in Nat, DOMAIN f = 1..n, NEW head
  PROVE  \E r : /\ WalkOf(f, "VectorCatalog", head, n, r)
               /\ Chain(f, head, "VectorCatalog", LAMBDA d : DecodeCatalogDelta("VectorCatalog", d)) = Arrived(r[n])
<1> DEFINE s == [k \in DOMAIN f |-> k]
<1>1. DOMAIN s = 1..n
  OBVIOUS
<1>2. Chain(f, head, "VectorCatalog", LAMBDA d : DecodeCatalogDelta("VectorCatalog", d))
        = Arrived(RowChains!Fold(f, "VectorCatalog", Begin(head), s))
  BY Zenon DEF Chain, Arrived, RowChains!Fold, RowStep, Begin, FoldLeft, MapThenFoldSet, Max,
         RowChains!FoldLeft, RowChains!MapThenFoldSet, RowChains!Max
<1> HIDE DEF s
<1>3. PICK r : /\ r[0] = Begin(head)
               /\ \A i \in 1..n : r[i] = RowStep(f, "VectorCatalog", r[i - 1], s[i])
               /\ RowChains!Fold(f, "VectorCatalog", Begin(head), s) = r[n]
  BY <1>1, RowChains!FoldSteps
<1>4. ASSUME NEW acc, NEW k PROVE RowStep(f, "VectorCatalog", acc, k) = TypedStep(f, "VectorCatalog", acc)
  BY DEF RowStep, TypedStep, ChainStep, DecodeDelta
<1>5. \A i \in 1..n : r[i] = TypedStep(f, "VectorCatalog", r[i - 1])
  BY <1>3, <1>4
<1> QED
  BY <1>2, <1>3, <1>5 DEF WalkOf

LEMMA ChainRowsListed ==
  ASSUME NEW f, NEW n \in Nat, NEW type \in RowTables, NEW head, NEW r,
         WalkOf(f, type, head, n, r), Arrived(r[n]).ok
  PROVE  LET ds == Arrived(r[n]).val IN
         IsSeq(ds) /\ \A j \in DOMAIN ds : IsSeq(ds[j].rows)
<1> DEFINE K == {i \in Nat : i <= n => RowsListed(r[i])}
<1>3. 0 \in K
  <2>1. r[0].ok /\ r[0].deltas = <<>> /\ {"ok", "next", "deltas"} \subseteq DOMAIN r[0]
    BY DEF Begin, WalkOf
  <2>2. <<>> \in Seq({}) /\ DOMAIN <<>> = {}
    BY EmptySeq
  <2> QED
    BY <2>1, <2>2 DEF RowsListed, IsSeq
<1>4. \A i \in Nat : i \in K => i + 1 \in K
  <2> SUFFICES ASSUME NEW i \in Nat, i \in K, i + 1 <= n
               PROVE  RowsListed(r[i + 1])
    OBVIOUS
  <2>1. i + 1 \in 1..n /\ (i + 1) - 1 = i /\ RowsListed(r[i])
    OBVIOUS
  <2>2. r[i + 1] = TypedStep(f, type, r[i])
    BY <2>1 DEF WalkOf
  <2> QED
    BY <2>1, <2>2, RowsListedFurther
<1> HIDE DEF K
<1>5. n \in K
  BY <1>3, <1>4, Dicts!SetInduction
<1>6. RowsListed(r[n])
  BY <1>5 DEF K
<1>8. r[n].ok /\ Arrived(r[n]).val = r[n].deltas
  BY DEF Arrived, Ok, Err
<1> QED
  BY <1>6, <1>8 DEF RowsListed

LEMMA LatestRowsSeq ==
  ASSUME NEW ds, IsSeq(ds), \A j \in DOMAIN ds : IsSeq(ds[j].rows)
  PROVE  IsSeq(LatestRows(ds))
<1> DEFINE n == Len(ds)
           ss == [i \in DOMAIN ds |-> ds[i].rows]
           V == UNION {{ds[i].rows[k] : k \in DOMAIN ds[i].rows} : i \in DOMAIN ds}
           rows == FlattenSeq(ss)
           S == {rows[k].id : k \in DOMAIN rows}
           ids == InOrder(S)
<1>1. n \in Nat /\ DOMAIN ds = 1..n
  BY SeqFacts
<1>2. ASSUME NEW i \in 1..n PROVE ds[i].rows \in Seq(V)
  <2>1. PICK q : q = ds[i].rows
    OBVIOUS
  <2>2. IsSeq(q)
    BY <1>1, <2>1
  <2>3. Len(q) \in Nat /\ DOMAIN q = 1..Len(q)
    BY <2>2, SeqFacts
  <2>4. \A k \in DOMAIN q : q[k] \in V
    BY <1>1, <2>1
  <2>5. PICK T : q \in Seq(T)
    BY <2>2 DEF IsSeq
  <2>6. q = [k \in 1..Len(q) |-> q[k]]
    BY <2>5
  <2> HIDE DEF V
  <2>7. q \in [1..Len(q) -> V]
    BY <2>3, <2>4, <2>6
  <2>8. q \in Seq(V)
    BY <2>3, <2>7, Cells!FnIsSeq
  <2> QED
    BY <2>1, <2>8
<1> HIDE DEF V, n
<1>3. ss \in [1..n -> Seq(V)]
  BY <1>1, <1>2
<1> HIDE DEF ss
<1>4. rows \in Seq(V)
  BY <1>1, <1>3, FlattenHas
<1> HIDE DEF rows
<1>5. Len(rows) \in Nat /\ DOMAIN rows = 1..Len(rows)
  BY <1>4, LenProperties
<1>6. IsFiniteSet(S)
  <2> DEFINE g == [k \in 1..Len(rows) |-> rows[k].id]
  <2>1. DOMAIN g = 1..Len(rows) /\ S = {g[k] : k \in 1..Len(rows)}
    BY <1>5
  <2> HIDE DEF g, S
  <2> QED
    BY <1>5, <2>1, FiniteImage
<1> DEFINE m == Cardinality(S)
<1>7. m \in Nat
  BY <1>6, FS_CardinalityType
<1>8. DOMAIN ids = 1..m
  BY DEF InOrder
<1> DEFINE g == [i \in DOMAIN ids |-> rows[Min({k \in DOMAIN rows : rows[k].id = ids[i]})]]
<1>9. LatestRows(ds) = g
  BY DEF LatestRows, rows, ss
<1> HIDE DEF ids, m, S
<1>10. g = [i \in 1..m |-> g[i]]
  BY <1>8
<1> HIDE DEF g
<1> QED
  BY <1>7, <1>9, <1>10, SeqOfFn

LEMMA FramesAreSeq ==
  ASSUME NEW f, NEW n \in Nat, DOMAIN f = 1..n, NEW head, ReadFrameChain(f, head).ok
  PROVE  IsSeq(ReadFrameChain(f, head).val)
<1> DEFINE c == Chain(f, head, "FrameCatalog", DecodeFrameCatalog)
<1>1. ReadFrameChain(f, head) = IF c.ok THEN Ok(LatestRows(c.val), c.rest) ELSE Err
  BY Zenon DEF ReadFrameChain, Then
<1>2. PICK r : WalkOf(f, "FrameCatalog", head, n, r) /\ c = Arrived(r[n])
  BY FrameChainWalks
<1> HIDE DEF c
<1>3. c.ok /\ ReadFrameChain(f, head).val = LatestRows(c.val)
  BY <1>1 DEF Ok, Err
<1>4. "FrameCatalog" \in RowTables
  BY DEF RowTables
<1>5. IsSeq(c.val) /\ \A j \in DOMAIN c.val : IsSeq(c.val[j].rows)
  BY <1>2, <1>3, <1>4, ChainRowsListed
<1> QED
  BY <1>3, <1>5, LatestRowsSeq

LEMMA VectorsAreSeq ==
  ASSUME NEW f, NEW n \in Nat, DOMAIN f = 1..n, NEW head, ReadCatalogChain(f, head, "VectorCatalog").ok
  PROVE  IsSeq(ReadCatalogChain(f, head, "VectorCatalog").val)
<1> DEFINE c == Chain(f, head, "VectorCatalog", LAMBDA d : DecodeCatalogDelta("VectorCatalog", d))
<1>1. ReadCatalogChain(f, head, "VectorCatalog") = IF c.ok THEN Ok(LatestRows(c.val), c.rest) ELSE Err
  BY Zenon DEF ReadCatalogChain, Then
<1>2. PICK r : WalkOf(f, "VectorCatalog", head, n, r) /\ c = Arrived(r[n])
  BY RowChainWalks
<1> HIDE DEF c
<1>3. c.ok /\ ReadCatalogChain(f, head, "VectorCatalog").val = LatestRows(c.val)
  BY <1>1 DEF Ok, Err
<1>4. "VectorCatalog" \in RowTables
  BY DEF RowTables
<1>5. IsSeq(c.val) /\ \A j \in DOMAIN c.val : IsSeq(c.val[j].rows)
  BY <1>2, <1>3, <1>4, ChainRowsListed
<1> QED
  BY <1>3, <1>5, LatestRowsSeq

-----------------------------------------------------------------------------
(* A delta of a catalog table.                                             *)

RecordCells(table, r) == <<table>> \o WriteBlob(<<r>>)
RecordsCells(table, n, rs) == FlattenSeq([i \in 1..n |-> RecordCells(table, rs[i])])

(* The decoder of a record reads back the cells of one, whatever follows.  *)
LEMMA RecordReads ==
  ASSUME NEW C, 1 \in C, NEW table \in C, NEW r \in C, NEW rest \in Seq(C)
  PROVE  /\ RecordCells(table, r) \in Seq(C) /\ RecordCells(table, r) \o rest \in Seq(C)
         /\ ReadRecord(table, RecordCells(table, r) \o rest) = Ok(r, rest)
<1>1. <<r>> \in Seq(C) /\ Len(<<r>>) = 1 /\ <<r>>[1] = r
  OBVIOUS
<1> DEFINE blob == WriteBlob(<<r>>)
           s2 == blob \o rest
           s1 == <<table>> \o s2
<1>2. blob \in Seq(C) /\ s2 \in Seq(C) /\ ReadBlob(s2) = Ok(<<r>>, rest)
  BY <1>1, BlobReads
<1>3. s1 \in Seq(C) /\ ReadCell(s1) = Ok(table, s2)
  BY <1>2, ConsReads
<1>4. RecordCells(table, r) \in Seq(C) /\ RecordCells(table, r) \o rest = s1
  BY <1>2, ConsReads, ConsConcat DEF RecordCells
<1> HIDE DEF s1, s2, blob
<1>5. /\ ReadCell(s1).ok /\ ReadCell(s1).val = table /\ ReadCell(s1).rest = s2
      /\ ReadBlob(s2).ok /\ ReadBlob(s2).val = <<r>> /\ ReadBlob(s2).rest = rest
  BY <1>2, <1>3 DEF Ok
<1>6. ReadRecord(table, s1) = Ok(r, rest)
  BY <1>1, <1>5 DEF ReadRecord, Then
<1> QED
  BY <1>3, <1>4, <1>6

(* A loop of it reads back the records of a whole delta.                   *)
LEMMA RecordsRead ==
  ASSUME NEW C, 1 \in C, NEW table \in C, NEW n \in Nat, NEW rs \in [1..n -> C],
         NEW rest \in Seq(C)
  PROVE  /\ RecordsCells(table, n, rs) \in Seq(C)
         /\ ReadRecords(table, n, RecordsCells(table, n, rs) \o rest) = Ok(rs, rest)
<1> DEFINE w == [i \in 1..n |-> RecordCells(table, rs[i])]
<1>1. w \in [1..n -> Seq(C)]
  <2>1. ASSUME NEW i \in 1..n PROVE RecordCells(table, rs[i]) \in Seq(C)
    <3>1. PICK r \in C : r = rs[i]
      OBVIOUS
    <3>2. <<>> \in Seq(C)
      OBVIOUS
    <3> QED
      BY <3>1, <3>2, RecordReads
  <2> QED
    BY <2>1
<1>2. Recs!Inverts(table, 0, C, C, rs, w)
  <2> SUFFICES ASSUME NEW i \in DOMAIN rs, NEW us \in Seq(C), NEW t \in Seq(C)
               PROVE  RecStep(table, 0, Recs!Read(us, w[i] \o t), i)
                        = Recs!Read(Append(us, rs[i]), t)
    BY DEF Recs!Inverts
  <2>1. PICK x \in C : x = rs[i] /\ w[i] = RecordCells(table, x)
    OBVIOUS
  <2> DEFINE q == RecordCells(table, x) \o t
  <2>2. ReadRecord(table, q) = Ok(x, t)
    BY RecordReads
  <2>3. /\ ReadRecord(table, q).ok /\ ReadRecord(table, q).val = x
        /\ ReadRecord(table, q).rest = t
    BY <2>2 DEF Ok
  <2> HIDE DEF q
  <2>4. RecStep(table, 0, Recs!Read(us, q), i) = Recs!Read(Append(us, x), t)
    BY <2>3 DEF RecStep, Then, Ok, Recs!Read
  <2> QED
    BY <2>1, <2>4 DEF q
<1> HIDE DEF w
<1>3. Recs!Fold(table, 0, Recs!Read(<<>>, Recs!FlattenSeq(w) \o rest), Recs!UpTo(n))
        = Recs!Read(rs, rest)
  BY <1>1, <1>2, Recs!ReadsBack
<1>4. FlattenSeq(w) = Recs!FlattenSeq(w)
  BY DEF FlattenSeq, Recs!FlattenSeq
<1>5. FlattenSeq(w) \in Seq(C)
  <2>1. PICK f \in [0..n -> Seq(C)] : Recs!Joins(f, w, n) /\ Recs!FlattenSeq(w) = f[n]
    BY <1>1, Recs!FlattenSteps
  <2> QED
    BY <1>4, <2>1
<1> DEFINE q == FlattenSeq(w) \o rest
<1>6. ReadRecords(table, n, q)
        = Recs!Fold(table, 0, Recs!Read(<<>>, q), Recs!UpTo(n))
  <2> HIDE DEF q
  <2> QED
    BY Zenon DEF ReadRecords, ReadMany, RecStep, Ok, FoldLeft, MapThenFoldSet, Max, Recs!Read,
           Recs!Fold, Recs!UpTo, Recs!FoldLeft, Recs!MapThenFoldSet, Recs!Max
<1>7. ReadRecords(table, n, q) = Ok(rs, rest)
  BY <1>3, <1>4, <1>6 DEF Ok, Recs!Read
<1> QED
  BY <1>5, <1>7 DEF w, RecordsCells

(* The suffix that names the previous root.                                *)
LEMMA SuffixReads ==
  ASSUME NEW C, {0, 1, 3} \subseteq C, NEW prev \in Refs(C)
  PROVE  /\ WriteBlob(WriteRef(prev)) \in Seq(C)
         /\ ReadPreviousSuffix(WriteBlob(WriteRef(prev))) = Ok(prev, <<>>)
<1> DEFINE r == WriteRef(prev)
           b == WriteBlob(r)
<1>1. <<>> \in Seq(C)
  OBVIOUS
<1>2. r \in Seq(C) /\ r \o <<>> = r /\ ReadRef(r \o <<>>) = Ok(prev, <<>>)
  <2>1. WriteRef(prev) \in Seq(C) /\ ReadRef(WriteRef(prev) \o <<>>) = Ok(prev, <<>>)
    BY <1>1, RefReads
  <2> QED
    BY <2>1, ConcatEmptySeq
<1>3. Len(r) \in {1, 3}
  <2>1. CASE prev = <<>>
    BY <2>1 DEF WriteRef
  <2>2. CASE prev # <<>>
    <3>1. PICK x \in C, y \in C : prev = <<x, y>>
      BY <2>2 DEF Refs
    <3>2. r = <<1>> \o <<x, y>>
      BY <2>2, <3>1 DEF WriteRef
    <3>3. <<1>> \in Seq(C) /\ <<x, y>> \in Seq(C) /\ Len(<<1>>) = 1 /\ Len(<<x, y>>) = 2
      OBVIOUS
    <3>4. Len(<<1>> \o <<x, y>>) = 1 + 2
      BY <3>3, ConcatProperties
    <3> QED
      BY <3>2, <3>4
  <2> QED
    BY <2>1, <2>2
<1> HIDE DEF r
<1>4. b \in Seq(C) /\ b \o <<>> = b /\ ReadBlob(b \o <<>>) = Ok(r, <<>>)
  <2>1. b \in Seq(C) /\ ReadBlob(WriteBlob(r) \o <<>>) = Ok(r, <<>>)
    BY <1>1, <1>2, <1>3, BlobReads
  <2> QED
    BY <2>1, ConcatEmptySeq
<1>5. b # <<>>
  <2>1. b = <<Len(r)>> \o r
    BY DEF WriteBlob
  <2>2. PICK m \in C : m = Len(r) /\ m \in Nat
    BY <1>3
  <2>3. <<m>> \in Seq(C) /\ Len(<<m>>) = 1
    OBVIOUS
  <2>4. Len(<<m>> \o r) = 1 + m
    BY <1>2, <2>2, <2>3, ConcatProperties
  <2>5. Len(b) = 1 + m
    BY <2>1, <2>2, <2>4
  <2> QED
    BY <2>2, <2>5, EmptySeq
<1> HIDE DEF b
<1>6. /\ ReadRef(r).ok /\ ReadRef(r).val = prev /\ ReadRef(r).rest = <<>>
      /\ ReadBlob(b).ok /\ ReadBlob(b).val = r /\ ReadBlob(b).rest = <<>>
      /\ ReadRef(r) = Ok(prev, <<>>)
  BY <1>2, <1>4 DEF Ok
<1>7. ReadPreviousSuffix(b) = Ok(prev, <<>>)
  BY <1>5, <1>6 DEF ReadPreviousSuffix, Then, Whole, Ok
<1> QED
  BY <1>4, <1>7 DEF b, r

(* decode_catalog_delta inverts encode_catalog_delta, for the rows of any  *)
(* table and any previous root: the deltas that a chain is walked along    *)
(* are the ones the commits wrote.                                         *)
THEOREM CatalogReadsBack ==
  ASSUME NEW C, {0, 1, 3, "VLCC"} \subseteq C, NEW table \in C, NEW prev \in Refs(C),
         NEW rs \in Seq(C), Len(rs) \in C
  PROVE  DecodeCatalogDelta(table, EncodeCatalogDelta(table, prev, rs))
           = Ok([prev |-> prev, rows |-> rs], <<>>)
<1>1. /\ Len(rs) \in Nat /\ rs \in [1..Len(rs) -> C] /\ DOMAIN rs = 1..Len(rs)
  BY LenProperties
<1>2. PICK n \in Nat : n = Len(rs) /\ n \in C /\ DOMAIN rs = 1..n /\ rs \in [1..n -> C]
  BY <1>1, Zenon
<1> DEFINE w == RecordsCells(table, n, rs)
           b == WriteBlob(WriteRef(prev))
           s3 == w \o b
           s2 == <<n>> \o s3
           s1 == <<table>> \o s2
           s0 == <<"VLCC">> \o s1
<1>3. b \in Seq(C) /\ ReadPreviousSuffix(b) = Ok(prev, <<>>)
  BY SuffixReads
<1>4. EncodeCatalogDelta(table, prev, rs) = (<<"VLCC", table, n>> \o w) \o b
  <2>1. \A r : EncodeRecord(table, r) = RecordCells(table, r)
    BY DEF EncodeRecord, RecordCells
  <2>2. w = FlattenSeq([i \in DOMAIN rs |-> EncodeRecord(table, rs[i])])
    BY <1>2, <2>1 DEF RecordsCells
  <2> HIDE DEF w, b
  <2> QED
    BY <1>2, <2>2 DEF EncodeCatalogDelta, b
<1> HIDE DEF b
<1>5. w \in Seq(C) /\ ReadRecords(table, n, s3) = Ok(rs, b)
  BY <1>2, <1>3, RecordsRead
<1> HIDE DEF w
<1>6. s3 \in Seq(C)
  BY <1>3, <1>5, ConcatProperties
<1>7. EncodeCatalogDelta(table, prev, rs) = s0
  <2>1. <<"VLCC", table, n>> \in Seq(C)
    BY <1>2
  <2>2. (<<"VLCC", table, n>> \o w) \o b = <<"VLCC", table, n>> \o s3
    BY <1>3, <1>5, <2>1, ConcatAssociative
  <2>3. "VLCC" \in C /\ n \in C
    BY <1>2
  <2>4. \A x, y, z \in C : <<x, y, z>> = <<x>> \o <<y, z>>
    <3> SUFFICES ASSUME NEW x \in C, NEW y \in C, NEW z \in C
                 PROVE  <<x, y, z>> = <<x>> \o <<y, z>>
      OBVIOUS
    <3>1. <<x>> \in Seq(C) /\ <<y, z>> \in Seq(C) /\ <<x, y, z>> \in Seq(C)
      OBVIOUS
    <3>2. /\ <<x>> \o <<y, z>> \in Seq(C) /\ Len(<<x>> \o <<y, z>>) = 3
          /\ (<<x>> \o <<y, z>>)[1] = x /\ (<<x>> \o <<y, z>>)[2] = y
          /\ (<<x>> \o <<y, z>>)[3] = z
      BY <3>1, ConcatProperties
    <3>3. Len(<<x, y, z>>) = 3 /\ <<x, y, z>>[1] = x /\ <<x, y, z>>[2] = y /\ <<x, y, z>>[3] = z
      OBVIOUS
    <3>4. \A i \in 1..3 : (<<x>> \o <<y, z>>)[i] = <<x, y, z>>[i]
      BY <3>2, <3>3
    <3> QED
      BY <3>1, <3>2, <3>3, <3>4, SeqEqual
  <2>5. <<table, n>> \in Seq(C) /\ <<"VLCC">> \in Seq(C)
    BY <2>3
  <2> HIDE DEF s3
  <2>6. <<"VLCC", table, n>> \o s3 = <<"VLCC">> \o (<<table, n>> \o s3)
    <3>1. \A x \in C, s, t \in Seq(C) : (<<x>> \o s) \o t = <<x>> \o (s \o t)
      BY ConsConcat
    <3>2. <<"VLCC", table, n>> = <<"VLCC">> \o <<table, n>>
      BY <2>3, <2>4
    <3>3. (<<"VLCC">> \o <<table, n>>) \o s3 = <<"VLCC">> \o (<<table, n>> \o s3)
      BY <1>6, <2>3, <2>5, <3>1, Zenon
    <3> QED
      BY <3>2, <3>3, Zenon
  <2>7. <<table, n>> \o s3 = <<table>> \o (<<n>> \o s3)
    <3>1. PairsSplit(C)
      BY PairsRead
    <3> QED
      BY <1>6, <2>3, <3>1, Zenon DEF PairsSplit
  <2> QED
    BY <1>4, <2>2, <2>6, <2>7 DEF s3
<1> HIDE DEF s3
<1>8. s2 \in Seq(C) /\ ReadCell(s2) = Ok(n, s3)
  BY <1>2, <1>6, ConsReads
<1> HIDE DEF s2
<1>9. s1 \in Seq(C) /\ ReadMagic(table, s1) = Ok(table, s2)
  BY <1>8, MagicReads
<1> HIDE DEF s1
<1>10. ReadMagic("VLCC", s0) = Ok("VLCC", s1)
  BY <1>9, MagicReads
<1> HIDE DEF s0
<1>11. /\ ReadMagic("VLCC", s0).ok /\ ReadMagic("VLCC", s0).rest = s1
       /\ ReadMagic(table, s1).ok /\ ReadMagic(table, s1).rest = s2
       /\ ReadCell(s2).ok /\ ReadCell(s2).val = n /\ ReadCell(s2).rest = s3
  BY <1>8, <1>9, <1>10 DEF Ok
<1>12. ReadCount(s2).ok /\ ReadCount(s2).val = n /\ ReadCount(s2).rest = s3
  BY <1>2, <1>11 DEF ReadCount, Then, Ok
<1>13. /\ ReadRecords(table, n, s3).ok /\ ReadRecords(table, n, s3).val = rs
       /\ ReadRecords(table, n, s3).rest = b
       /\ ReadPreviousSuffix(b).ok /\ ReadPreviousSuffix(b).val = prev
       /\ ReadPreviousSuffix(b).rest = <<>>
  BY <1>3, <1>5 DEF Ok
<1>14. DecodeCatalogDelta(table, s0)
         = LET r == ReadRecords(table, ReadCount(s2).val, ReadCount(s2).rest)
               e == ReadPreviousSuffix(r.rest) IN
           IF r.ok THEN IF e.ok THEN Ok([prev |-> e.val, rows |-> r.val], e.rest)
           ELSE Err ELSE Err
  BY <1>11, <1>12 DEF DecodeCatalogDelta, Then, ReadRecords
<1>15. DecodeCatalogDelta(table, s0) = Ok([prev |-> prev, rows |-> rs], <<>>)
  BY <1>12, <1>13, <1>14
<1> QED
  BY <1>7, <1>15

(* A row is put into a table that stays a sequence.                        *)
LEMMA PickSeq ==
  ASSUME NEW s, IsSeq(s), NEW P \in SUBSET DOMAIN s PROVE IsSeq(Pick(s, P))
<1> DEFINE n == Len(s)
           m == Cardinality(P)
           g == Pick(s, P)
<1>1. n \in Nat /\ DOMAIN s = 1..n
  BY SeqFacts
<1>2. IsFiniteSet(P)
  <2> HIDE DEF n
  <2>1. IsFiniteSet(1..n)
    BY <1>1, FS_Interval
  <2>2. P \in SUBSET (1..n)
    BY <1>1
  <2> QED
    BY <2>1, <2>2, FS_Subset
<1>3. m \in Nat
  BY <1>2, FS_CardinalityType
<1>4. g = [k \in DOMAIN InOrder(P) |-> s[InOrder(P)[k]]]
  BY DEF Pick
<1>5. DOMAIN InOrder(P) = 1..m
  BY DEF InOrder
<1> HIDE DEF m, g
<1>6. g = [k \in 1..m |-> g[k]]
  BY <1>4, <1>5
<1>7. IsSeq(g)
  BY <1>3, <1>6, SeqOfFn
<1> QED
  BY <1>7 DEF g

LEMMA ConcatSeq ==
  ASSUME NEW s, IsSeq(s), NEW t, IsSeq(t) PROVE IsSeq(s \o t)
<1>1. PICK S : s \in Seq(S)
  BY DEF IsSeq
<1>2. PICK T : t \in Seq(T)
  BY DEF IsSeq
<1> DEFINE U == S \cup T
<1>3. S \subseteq U /\ T \subseteq U
  OBVIOUS
<1> HIDE DEF U
<1>4. s \in Seq(U) /\ t \in Seq(U)
  BY <1>1, <1>2, <1>3, SeqMonotonic
<1>5. s \o t \in Seq(U)
  BY <1>4, ConcatProperties
<1> QED
  BY <1>5 DEF IsSeq

LEMMA UpsertSeq ==
  ASSUME NEW rows, IsSeq(rows), NEW row PROVE IsSeq(Upsert(rows, row))
<1> DEFINE P == {i \in DOMAIN rows : rows[i].id < row.id}
           Q == {i \in DOMAIN rows : rows[i].id > row.id}
<1>1. Upsert(rows, row) = Pick(rows, P) \o <<row>> \o Pick(rows, Q)
  BY DEF Upsert
<1>2. P \in SUBSET DOMAIN rows /\ Q \in SUBSET DOMAIN rows
  OBVIOUS
<1> HIDE DEF P, Q
<1>3. IsSeq(Pick(rows, P)) /\ IsSeq(Pick(rows, Q))
  BY <1>2, PickSeq
<1>4. IsSeq(<<row>>)
  <2>1. <<row>> \in Seq({row})
    OBVIOUS
  <2> QED
    BY <2>1 DEF IsSeq
<1> QED
  BY <1>1, <1>3, <1>4, ConcatSeq

(* The text of one document more is pending.                               *)
LEMMA PendingMore ==
  ASSUME NEW p, PendingOK(p), NEW id, NEW coll, NEW tokens \in Seq(Nat)
  PROVE  PendingOK(Insert(p, id, FromTokens(coll, tokens)))
<1> DEFINE x == FromTokens(coll, tokens)
           T == Range(tokens)
           n == Len(tokens)
           q == Insert(p, id, x)
<1>1. n \in Nat /\ DOMAIN tokens = 1..n /\ \A i \in 1..n : tokens[i] \in Nat
  BY LenProperties, ElementOfSeq
<1>2. T \in SUBSET Nat
  BY <1>1 DEF Range
<1>3. IsFiniteSet(T)
  <2>1. T = {tokens[i] : i \in 1..n}
    BY <1>1 DEF Range
  <2> HIDE DEF T
  <2> QED
    BY <1>1, <2>1, FiniteImage
<1>4. PICK a \in Nat : T \subseteq 0..a
  <2> HIDE DEF T
  <2>1. CASE T = {}
    BY <2>1
  <2>2. CASE T # {}
    <3>1. Max(T) \in T /\ \A y \in T : y <= Max(T)
      BY <1>2, <1>3, <2>2, MaxMin
    <3>2. PICK a \in Nat : a = Max(T)
      BY <1>2, <3>1
    <3>3. \A y \in T : y \in Nat /\ y <= a
      BY <1>2, <3>1, <3>2
    <3>4. T \subseteq 0..a
      BY <3>3
    <3> QED
      BY <3>4
  <2> QED
    BY <2>1, <2>2
<1>5. PICK b \in Nat : PendingTokens(p) \subseteq 0..b
  BY DEF PendingOK
<1>6. DOMAIN x.counts = T
  BY DEF FromTokens
<1> HIDE DEF x, T
<1>7. PendingTokens(q) \subseteq PendingTokens(p) \cup T
  <2> SUFFICES ASSUME NEW f \in DOMAIN q, NEW t \in DOMAIN q[f].counts
               PROVE  t \in PendingTokens(p) \cup T
    BY DEF PendingTokens
  <2>1. CASE f = id
    <3>1. q[f] = x
      BY <2>1 DEF Insert
    <3> QED
      BY <1>6, <3>1
  <2>2. CASE f # id
    <3>1. f \in DOMAIN p /\ q[f] = p[f]
      BY <2>2 DEF Insert
    <3> QED
      BY <3>1 DEF PendingTokens
  <2> QED
    BY <2>1, <2>2
<1> HIDE DEF q
<1>8. PICK c \in Nat : c = IF a < b THEN b ELSE a
  OBVIOUS
<1>9. 0..a \subseteq 0..c /\ 0..b \subseteq 0..c
  BY <1>8
<1>10. PendingTokens(q) \subseteq 0..c
  BY <1>4, <1>5, <1>7, <1>9
<1> QED
  BY <1>10 DEF PendingOK, q, x

-----------------------------------------------------------------------------
(* The term ids in memory and those on disk.                               *)

TermInv ==
  /\ IsSeq(file) /\ BodyFields \subseteq DOMAIN footer
  /\ HandleShape(h) /\ TextOK(h.text) /\ PendingOK(h.pending)
  /\ DictOK(file, footer.terms, Known(h.text))

Writer(hd) == [file |-> file, h |-> hd, body |-> footer, ok |-> TRUE]

LEMMA WriterHeld ==
  ASSUME TermInv, NEW hd, HandleShape(hd), hd.text = h.text, PendingOK(hd.pending)
  PROVE  Held(Writer(hd), footer.terms, file)
<1>1. Writer(hd).file = file /\ Writer(hd).h = hd /\ Writer(hd).body = footer
      /\ DOMAIN Writer(hd) = {"file", "h", "body", "ok"}
  BY DEF Writer
<1> QED
  BY <1>1 DEF TermInv, Held, WriterShape, Grown

LEMMA InitTerms == Init => TermInv
<1> SUFFICES ASSUME Init PROVE TermInv
  OBVIOUS
<1>1. /\ IsSeq(<<>>) /\ DOMAIN <<>> = {}
  <2>1. <<>> \in Seq({})
    BY EmptySeq
  <2> QED
    BY <2>1 DEF IsSeq
<1>2. BodyFields \subseteq DOMAIN EmptyFooter /\ EmptyFooter.terms = <<>>
  BY DEF EmptyFooter, BodyFields
<1>3. /\ HandleFields \subseteq DOMAIN EmptyHandle
      /\ EmptyHandle.alloc = EmptyAlloc /\ EmptyHandle.dirty = NoDirty
      /\ EmptyHandle.frames = <<>> /\ EmptyHandle.vectors = <<>>
      /\ EmptyHandle.text = EmptyText /\ EmptyHandle.pending = <<>>
  BY DEF EmptyHandle, HandleFields
<1>4. Tables \subseteq DOMAIN EmptyAlloc /\ Tables \subseteq DOMAIN NoDirty
  BY DEF EmptyAlloc, NoDirty, Tables
<1>5. HandleShape(EmptyHandle)
  BY <1>1, <1>3, <1>4 DEF HandleShape
<1>6. PendingOK(<<>>)
  <2>1. PendingTokens(<<>>) = {}
    BY <1>1 DEF PendingTokens
  <2> QED
    BY <2>1 DEF PendingOK
<1>7. DictOK(<<>>, <<>>, Known(EmptyText))
  <2>1. {} \in SUBSET DOMAIN <<>> /\ <<>> \in Roots({}, {})
    BY DEF Roots
  <2>2. DictClosed(<<>>, {}, {}, Known(EmptyText))
    BY DEF DictClosed
  <2> QED
    BY <2>1, <2>2 DEF DictOK
<1> QED
  BY <1>1, <1>2, <1>3, <1>5, <1>6, <1>7, EmptyTextOK DEF Init, TermInv

(* What leaves the file, the terms and the pending text alone.             *)
LEMMA SameTermsKept ==
  ASSUME TermInv, HandleShape(h'), SameTerms(h.text, h.text'), PendingOK(h'.pending),
         UNCHANGED <<file, footer>>
  PROVE  TermInv'
<1>1. TextOK(h'.text) /\ Known(h'.text) = Known(h.text)
  BY SameTermsOK DEF TermInv
<1> QED
  BY <1>1 DEF TermInv

LEMMA EditTerms ==
  ASSUME TermInv, UNCHANGED <<file, footer>>, DOMAIN h' = DOMAIN h,
         h'.text = h.text, h'.pending = h.pending,
         DOMAIN h'.alloc = DOMAIN h.alloc, DOMAIN h'.dirty = DOMAIN h.dirty,
         IsSeq(h'.frames), IsSeq(h'.vectors)
  PROVE  TermInv'
<1>1. HandleShape(h')
  BY DEF TermInv, HandleShape
<1>2. SameTerms(h.text, h.text') /\ PendingOK(h'.pending)
  BY DEF TermInv, SameTerms, TextOK
<1> QED
  BY <1>1, <1>2, SameTermsKept

LEMMA CreateCollectionTerms ==
  ASSUME TermInv, NEW n \in Names, CreateCollection(n) PROVE TermInv'
<1>1. /\ DOMAIN h' = DOMAIN h /\ h'.text = h.text /\ h'.pending = h.pending
      /\ DOMAIN h'.alloc = DOMAIN h.alloc /\ DOMAIN h'.dirty = DOMAIN h.dirty
      /\ h'.frames = h.frames /\ h'.vectors = h.vectors /\ UNCHANGED <<file, footer>>
  BY DEF CreateCollection, TermInv, HandleShape, HandleFields, Tables
<1> QED
  BY <1>1, EditTerms DEF TermInv, HandleShape

LEMMA PutVectorTerms ==
  ASSUME TermInv, NEW f, PutVector(f) PROVE TermInv'
<1>1. PICK row : h'.vectors = Upsert(h.vectors, row)
  BY DEF PutVector, TermInv, HandleShape, HandleFields
<1>2. /\ DOMAIN h' = DOMAIN h /\ h'.text = h.text /\ h'.pending = h.pending
      /\ DOMAIN h'.alloc = DOMAIN h.alloc /\ DOMAIN h'.dirty = DOMAIN h.dirty
      /\ h'.frames = h.frames /\ UNCHANGED <<file, footer>>
  BY DEF PutVector, TermInv, HandleShape, HandleFields, Tables
<1>3. IsSeq(h'.vectors)
  BY <1>1, UpsertSeq DEF TermInv, HandleShape
<1> QED
  BY <1>2, <1>3, EditTerms DEF TermInv, HandleShape

LEMMA DeleteVectorTerms ==
  ASSUME TermInv, NEW v, DeleteVector(v) PROVE TermInv'
<1>1. PICK row : h'.vectors = Upsert(h.vectors, row)
  BY DEF DeleteVector, TermInv, HandleShape, HandleFields
<1>2. /\ DOMAIN h' = DOMAIN h /\ h'.text = h.text /\ h'.pending = h.pending
      /\ DOMAIN h'.alloc = DOMAIN h.alloc /\ DOMAIN h'.dirty = DOMAIN h.dirty
      /\ h'.frames = h.frames /\ UNCHANGED <<file, footer>>
  BY DEF DeleteVector, TermInv, HandleShape, HandleFields, Tables
<1>3. IsSeq(h'.vectors)
  BY <1>1, UpsertSeq DEF TermInv, HandleShape
<1> QED
  BY <1>2, <1>3, EditTerms DEF TermInv, HandleShape

LEMMA DeleteFrameTerms ==
  ASSUME TermInv, NEW f, DeleteFrame(f) PROVE TermInv'
<1>1. PICK row : h'.frames = Upsert(h.frames, row)
  BY DEF DeleteFrame, TermInv, HandleShape, HandleFields
<1>2. /\ DOMAIN h' = DOMAIN h /\ h'.text = h.text /\ h'.pending = h.pending
      /\ DOMAIN h'.alloc = DOMAIN h.alloc /\ DOMAIN h'.dirty = DOMAIN h.dirty
      /\ h'.vectors = h.vectors /\ UNCHANGED <<file, footer>>
  BY DEF DeleteFrame, TermInv, HandleShape, HandleFields, Tables
<1>3. IsSeq(h'.frames)
  BY <1>1, UpsertSeq DEF TermInv, HandleShape
<1> QED
  BY <1>2, <1>3, EditTerms DEF TermInv, HandleShape

(* The handle a put leaves before the text joins what is pending.          *)
PutHandle(d, id) ==
  [h EXCEPT
    !.alloc.frame = @ + 1,
    !.payloads = AddBytes(@, id, d.tokens),
    !.uris = IF d.uri = <<>> THEN @ ELSE AddBytes(@, id, d.uri[1]),
    !.frames = Upsert(@, FrameRow(id, d)),
    !.dirty.frame = @ \cup {id},
    !.changed = TRUE]

LEMMA PutFrameTerms ==
  ASSUME TermInv, NEW d \in Docs, PutFrame(d)
  PROVE  TermInv' /\ Grown(file, file')
<1> DEFINE id == h.alloc.frame
           h1 == PutHandle(d, id)
           w == Writer(h1)
           w1 == IF Len(h1.payloads.buf) >= BatchLimit THEN FlushPayloads(w) ELSE w
<1>1. /\ file' = w1.file
      /\ h' = [w1.h EXCEPT !.pending = Insert(@, id, FromTokens(d.coll, d.tokens))]
      /\ footer' = footer
  BY DEF PutFrame, PutHandle, Writer
<1>2. /\ DOMAIN h1 = DOMAIN h /\ h1.text = h.text /\ h1.pending = h.pending
      /\ DOMAIN h1.alloc = DOMAIN h.alloc /\ DOMAIN h1.dirty = DOMAIN h.dirty
      /\ h1.vectors = h.vectors /\ h1.frames = Upsert(h.frames, FrameRow(id, d))
  BY DEF PutHandle, TermInv, HandleShape, HandleFields, Tables
<1> HIDE DEF h1
<1>3. HandleShape(h1)
  BY <1>2, UpsertSeq DEF TermInv, HandleShape
<1>4. Held(w, footer.terms, file)
  BY <1>2, <1>3, WriterHeld DEF TermInv
<1> HIDE DEF w
<1>5. WriterShape(w)
  BY <1>4 DEF Held
<1>6. Quiet(w, w1)
  BY <1>5, QuietRefl, FlushPayloadsQuiet
<1> HIDE DEF w1
<1>7. Held(w1, footer.terms, file)
  BY <1>4, <1>6, QuietHeld
<1>8. d.tokens \in Seq(Nat)
  BY IndexedFileAssumption
<1>9. PendingOK(Insert(w1.h.pending, id, FromTokens(d.coll, d.tokens)))
  <2>1. PICK ts \in Seq(Nat) : ts = d.tokens
    BY <1>8
  <2>2. PICK p, c, i : p = w1.h.pending /\ c = d.coll /\ i = id
    OBVIOUS
  <2>3. PendingOK(Insert(p, i, FromTokens(c, ts)))
    BY <1>7, <2>2, PendingMore DEF Held
  <2> QED
    BY <2>1, <2>2, <2>3
<1>10. /\ DOMAIN h' = DOMAIN w1.h /\ h'.text = w1.h.text
       /\ h'.pending = Insert(w1.h.pending, id, FromTokens(d.coll, d.tokens))
       /\ h'.alloc = w1.h.alloc /\ h'.dirty = w1.h.dirty
       /\ h'.vectors = w1.h.vectors /\ h'.frames = w1.h.frames
  BY <1>1, <1>7 DEF Held, WriterShape, HandleShape, HandleFields
<1>11. HandleShape(h')
  BY <1>7, <1>10 DEF Held, WriterShape, HandleShape
<1>12. PendingOK(h'.pending)
  BY <1>9, <1>10
<1> QED
  BY <1>1, <1>7, <1>10, <1>11, <1>12 DEF TermInv, Held, WriterShape

LEMMA PublishedFacts ==
  ASSUME NEW w, NEW root, NEW old, Held(w, root, old)
  PROVE  /\ HandleShape(Published(w)) /\ Published(w).text = w.h.text
         /\ Published(w).pending = w.h.pending
<1> DEFINE h1 == [w.h EXCEPT !.dirty = NoDirty, !.changed = FALSE,
                             !.mapped = Len(w.file)]
           base == VectorBase(w.file, h1)
<1>1. /\ DOMAIN h1 = DOMAIN w.h /\ h1.text = w.h.text /\ h1.pending = w.h.pending
      /\ h1.alloc = w.h.alloc /\ h1.dirty = NoDirty
      /\ h1.vectors = w.h.vectors /\ h1.frames = w.h.frames
  BY DEF Held, WriterShape, HandleShape, HandleFields
<1>2. Published(w) = IF w.h.dirty.vector = {} THEN [h1 EXCEPT !.base = <<>>]
                     ELSE [h1 EXCEPT !.byId = ActiveById(h1.vectors),
                                     !.base = IF base.ok THEN <<base.val>> ELSE @]
  BY DEF Published
<1> HIDE DEF h1, base
<1>3. HandleShape(h1)
  <2>1. Tables \subseteq DOMAIN NoDirty
    BY DEF Tables, NoDirty
  <2> QED
    BY <1>1, <2>1 DEF Held, WriterShape, HandleShape
<1>4. ASSUME NEW k \in {"base", "byId"}, NEW x, NEW y
      PROVE  /\ HandleShape([h1 EXCEPT ![k] = x, !.base = y])
             /\ [h1 EXCEPT ![k] = x, !.base = y].text = h1.text
             /\ [h1 EXCEPT ![k] = x, !.base = y].pending = h1.pending
  BY <1>3 DEF HandleShape, HandleFields
<1>5. CASE w.h.dirty.vector = {}
  <2>1. Published(w) = [h1 EXCEPT !["base"] = <<>>, !.base = <<>>]
    BY <1>2, <1>5, Zenon
  <2> QED
    BY <1>1, <1>4, <2>1, ZenonT(30)
<1>6. CASE w.h.dirty.vector # {}
  <2> DEFINE y == IF base.ok THEN <<base.val>> ELSE h1.base
             x == ActiveById(h1.vectors)
  <2>1. Published(w) = [h1 EXCEPT !["byId"] = x, !.base = y]
    BY <1>2, <1>6, Zenon
  <2> HIDE DEF x, y
  <2>2. PICK k \in {"base", "byId"} : k = "byId"
    OBVIOUS
  <2>3. PICK a, b : a = x /\ b = y
    OBVIOUS
  <2>4. Published(w) = [h1 EXCEPT ![k] = a, !.base = b]
    BY <2>1, <2>2, <2>3, Zenon
  <2>5. HandleShape([h1 EXCEPT ![k] = a, !.base = b])
    BY <1>4, ZenonT(30)
  <2>6. /\ [h1 EXCEPT ![k] = a, !.base = b].text = h1.text
        /\ [h1 EXCEPT ![k] = a, !.base = b].pending = h1.pending
    BY <1>4, ZenonT(30)
  <2> QED
    BY <1>1, <2>4, <2>5, <2>6, Zenon
<1> QED
  BY <1>5, <1>6

LEMMA CommitTerms == ASSUME TermInv, Commit PROVE TermInv' /\ Grown(file, file')
<1> DEFINE w == CommitWrites
<1>1. file' = w.file /\ footer' = w.body /\ h' = Published(w)
  BY DEF Commit
<1>2. Held(Writer(h), footer.terms, file)
  BY WriterHeld DEF TermInv
<1>3. Held(w, footer.terms, file)
  BY <1>2, CommitWritesHeld DEF Writer
<1> HIDE DEF w
<1>4. /\ HandleShape(h') /\ h'.text = w.h.text /\ h'.pending = w.h.pending
  BY <1>1, <1>3, PublishedFacts
<1> QED
  BY <1>1, <1>3, <1>4 DEF TermInv, Held, WriterShape

LEMMA CommitRefusedTerms ==
  ASSUME TermInv, CommitRefused PROVE TermInv' /\ Grown(file, file')
<1> DEFINE w == CommitWrites
<1>1. file' = w.file /\ footer' = footer /\ h' = w.h
  BY DEF CommitRefused
<1>2. Held(Writer(h), footer.terms, file)
  BY WriterHeld DEF TermInv
<1>3. Held(w, footer.terms, file)
  BY <1>2, CommitWritesHeld DEF Writer
<1> HIDE DEF w
<1> QED
  BY <1>1, <1>3 DEF TermInv, Held, WriterShape

LEMMA ReopenTerms == ASSUME TermInv, Reopen PROVE TermInv'
<1> DEFINE colls == ReadCatalogChain(file, footer.collection, "CollectionCatalog")
           frames == ReadFrameChain(file, footer.frame)
           vectors == ReadCatalogChain(file, footer.vector, "VectorCatalog")
           text == Rebuild(file, footer)
           filters == LoadFilters(file, footer.filters)
           times == LoadTimes(file, footer.time)
           registry == LoadRegistry(file, footer.segments)
           r == Opened(file, footer, colls, frames, vectors, text, filters, times, registry)
<1>1. r.ok /\ h' = r.val /\ UNCHANGED <<file, footer>>
  BY DEF Reopen, Load
<1> HIDE DEF colls, frames, vectors, text, filters, times, registry
<1>2. frames.ok /\ vectors.ok /\ text.ok
  BY <1>1 DEF Opened, Err
<1>3. /\ DOMAIN h' = DOMAIN EmptyHandle
      /\ Tables \subseteq DOMAIN h'.alloc
      /\ h'.dirty = NoDirty /\ h'.text = text.val
      /\ h'.frames = frames.val /\ h'.vectors = vectors.val /\ h'.pending = <<>>
  BY <1>1, ZenonT(30) DEF Opened, Err, Ok, EmptyHandle, Tables
<1> HIDE DEF r
<1>4. Len(file) \in Nat /\ DOMAIN file = 1..Len(file)
  BY SeqFacts DEF TermInv
<1>5. IsSeq(frames.val) /\ IsSeq(vectors.val)
  BY <1>2, <1>4, FramesAreSeq, VectorsAreSeq DEF frames, vectors
<1>6. HandleShape(h')
  <2>1. HandleFields \subseteq DOMAIN EmptyHandle /\ Tables \subseteq DOMAIN NoDirty
    BY DEF HandleFields, EmptyHandle, NoDirty, Tables
  <2> QED
    BY <1>3, <1>5, <2>1 DEF HandleShape
<1>7. KnownOK(Known(h.text))
  BY TextKnown DEF TermInv
<1>8. TextOK(text.val) /\ DictOK(file, footer.terms, Known(text.val))
  BY <1>2, <1>4, <1>7, RebuildFacts DEF TermInv, text
<1>9. PendingOK(h'.pending)
  <2>1. DOMAIN <<>> = {}
    OBVIOUS
  <2>2. PendingTokens(<<>>) = {}
    BY <2>1 DEF PendingTokens
  <2> QED
    BY <1>3, <2>2 DEF PendingOK
<1> QED
  BY <1>1, <1>3, <1>6, <1>8, <1>9 DEF TermInv

LEMMA CacheSame ==
  ASSUME NEW st, TextOK(st), NEW dead, NEW q
  PROVE  /\ SameTerms(st, WarmBm25(st, dead, q)) /\ SameTerms(st, WarmCosine(st, dead, q))
  BY DEF WarmBm25, WarmCosine, SameTerms, TextOK, TextFields

LEMMA QueryTerms == ASSUME TermInv, NEW t, Query(t) PROVE TermInv'
<1> DEFINE st == IF DOMAIN h.pending # {} THEN h.text
                 ELSE WarmCosine(WarmBm25(h.text, Dead(h), <<t>>), Dead(h), <<t>>)
           base == LoadedBase(file, h)
<1>1. /\ h' = [h EXCEPT !.text = st, !.base = IF base.ok THEN <<base.val>> ELSE @]
      /\ UNCHANGED <<file, footer>>
  BY DEF Query
<1>2. SameTerms(h.text, st)
  <2> DEFINE a == WarmBm25(h.text, Dead(h), <<t>>)
  <2>1. PICK x, dead, q : x = h.text /\ dead = Dead(h) /\ q = <<t>>
    OBVIOUS
  <2>2. TextOK(x)
    BY <2>1 DEF TermInv
  <2>3. SameTerms(x, WarmBm25(x, dead, q))
    BY <2>2, CacheSame
  <2>4. TextOK(WarmBm25(x, dead, q))
    BY <2>2, <2>3, SameTermsOK
  <2>5. SameTerms(WarmBm25(x, dead, q), WarmCosine(WarmBm25(x, dead, q), dead, q))
    BY <2>4, CacheSame
  <2>6. SameTerms(x, x)
    BY <2>2 DEF SameTerms, TextOK
  <2>7. SameTerms(x, WarmCosine(WarmBm25(x, dead, q), dead, q))
    BY <2>3, <2>5 DEF SameTerms
  <2> QED
    BY <2>1, <2>6, <2>7
<1> HIDE DEF st, base
<1>3. /\ DOMAIN h' = DOMAIN h /\ h'.text = st /\ h'.pending = h.pending
      /\ h'.alloc = h.alloc /\ h'.dirty = h.dirty
      /\ h'.vectors = h.vectors /\ h'.frames = h.frames
  BY <1>1 DEF TermInv, HandleShape, HandleFields
<1>4. HandleShape(h')
  BY <1>3 DEF TermInv, HandleShape
<1> QED
  BY <1>1, <1>2, <1>3, <1>4, SameTermsKept DEF TermInv

(* No step of IndexedFile parts the ids in memory from those the           *)
(* dictionary on disk gives, a commit refused after build_flush_output     *)
(* gave out ids included.                                                  *)
THEOREM NextTerms == TermInv /\ [Next]_vars => TermInv'
<1> SUFFICES ASSUME TermInv, [Next]_vars PROVE TermInv'
  OBVIOUS
<1>1. CASE Next
  BY <1>1, CreateCollectionTerms, PutFrameTerms, PutVectorTerms, DeleteVectorTerms,
     DeleteFrameTerms, CommitTerms, CommitRefusedTerms, ReopenTerms, QueryTerms DEF Next
<1>2. CASE UNCHANGED vars
  BY <1>2 DEF vars, TermInv
<1> QED
  BY <1>1, <1>2

(* A term id stands for one term, whatever was put, committed, refused and *)
(* opened again: build_flush_output gives out ids that no term in memory   *)
(* or on disk has.                                                         *)
THEOREM SpecTermIdsStable == Spec => []TermIdsStable
<1>1. TermInv => TermIdsStable
  <2> SUFFICES ASSUME TermInv PROVE TermIdsStable
    OBVIOUS
  <2>1. TextOK(h.text)
    BY DEF TermInv
  <2>2. \A b \in DOMAIN Known(h.text) : Known(h.text)[b] < h.text.next
    BY <2>1, KnownFacts DEF TextOK
  <2> QED
    BY <2>1, <2>2 DEF TermIdsStable, TextOK, Known
<1> QED
  BY <1>1, InitTerms, NextTerms, PTL DEF Spec

(* A segment, once written, is never moved or overwritten, by a commit, a  *)
(* refused commit, a batch written early or the opening of the file: every *)
(* root of every footer before this one still leads where it led, which is *)
(* what the reader of an older snapshot relies on.                         *)
THEOREM SpecFileGrows == Spec => [][Grown(file, file')]_vars
<1>1. TermInv /\ [Next]_vars => [Grown(file, file')]_vars
  <2> SUFFICES ASSUME TermInv, Next PROVE Grown(file, file')
    OBVIOUS
  <2>1. ASSUME UNCHANGED file PROVE Grown(file, file')
    BY <2>1 DEF Grown, TermInv
  <2>2. ASSUME NEW d \in Docs, PutFrame(d) PROVE Grown(file, file')
    BY <2>2, PutFrameTerms
  <2>3. ASSUME Commit \/ CommitRefused PROVE Grown(file, file')
    BY <2>3, CommitTerms, CommitRefusedTerms
  <2>4. ASSUME \/ Reopen \/ Query(1) \/ \E n \in Names : CreateCollection(n)
               \/ \E f \in RowIds(h.frames) : PutVector(f) \/ DeleteFrame(f)
               \/ \E v \in RowIds(h.vectors) : DeleteVector(v)
        PROVE  UNCHANGED file
    BY <2>4 DEF Reopen, Query, CreateCollection, PutVector, DeleteFrame, DeleteVector
  <2> QED
    BY <2>1, <2>2, <2>3, <2>4, Zenon DEF Next
<1> QED
  BY <1>1, InitTerms, NextTerms, PTL DEF Spec
=============================================================================
