------------------------------ MODULE Folding ------------------------------
(***************************************************************************)
(* What FoldLeft and FlattenSeq give, for any operator folded and any      *)
(* length.  Op takes two parameters that a fold does not change, what was  *)
(* accumulated and the next element; a module that proves something about  *)
(* a fold takes this one with its own operator for Op.                     *)
(***************************************************************************)
EXTENDS Integers, Sequences, SequencesExt, FiniteSetsExt, SequenceTheorems,
        WellFoundedInduction, TLAPS

CONSTANT Op(_, _, _, _)

Fold(c, d, base, s) == FoldLeft(LAMBDA a, x : Op(c, d, a, x), base, s)

(* A set that has 0 and is closed under successor has every natural        *)
(* number.                                                                 *)
LEMMA SetInduction ==
  ASSUME NEW K, 0 \in K, \A k \in Nat : k \in K => k + 1 \in K
  PROVE  \A k \in Nat : k \in K
<1> DEFINE U == Nat \ K
<1>1. ASSUME U # {} PROVE FALSE
  <2>1. U \subseteq Nat
    OBVIOUS
  <2>2. \A x, y \in Nat : <<y, x>> \in OpToRel(<, Nat) <=> y < x
    BY DEF OpToRel
  <2>3. PICK u \in U : \A y \in U : ~ (<<y, u>> \in OpToRel(<, Nat))
    BY <1>1, <2>1, NatLessThanWellFounded, WFMin
  <2>4. \A y \in U : ~(y < u)
    BY <2>1, <2>2, <2>3, Zenon
  <2>5. u \in Nat /\ u # 0 /\ u \notin K
    OBVIOUS
  <2>6. u - 1 \in Nat /\ u - 1 < u /\ (u - 1) + 1 = u
    BY <2>5
  <2> QED
    BY <2>4, <2>5, <2>6
<1> QED
  BY <1>1

-----------------------------------------------------------------------------
(* FoldLeft.                                                               *)

LEMMA MaxOfInterval ==
  ASSUME NEW k \in Nat, NEW t \in SUBSET (1..k + 1), k + 1 \in t
  PROVE  Max(t) = k + 1
<1>1. \A y \in t : y \in Nat /\ y <= k + 1
  OBVIOUS
<1>2. \A x \in t : (\A y \in t : x >= y) => x = k + 1
  BY <1>1
<1> QED
  BY <1>1, <1>2 DEF Max

(* g folds s over every set of places among the first k.                   *)
IsIter(g, c, d, base, s, k) ==
  g = [t \in SUBSET (1..k) |->
         IF t = {} THEN base ELSE Op(c, d, g[t \ {Max(t)}], s[Max(t)])]

LEMMA IterExists ==
  ASSUME NEW c, NEW d, NEW base, NEW s
  PROVE  \A k \in Nat : \E g : IsIter(g, c, d, base, s, k)
<1>1. \E g : IsIter(g, c, d, base, s, 0)
  <2>1. 1..0 = {}
    OBVIOUS
  <2>2. IsIter([t \in SUBSET (1..0) |-> base], c, d, base, s, 0)
    BY <2>1 DEF IsIter
  <2> QED
    BY <2>2
<1>2. ASSUME NEW k \in Nat, NEW g, IsIter(g, c, d, base, s, k)
      PROVE  \E gg : IsIter(gg, c, d, base, s, k + 1)
  <2> DEFINE gg == [t \in SUBSET (1..k + 1) |->
                      IF k + 1 \in t THEN Op(c, d, g[t \ {k + 1}], s[k + 1])
                      ELSE g[t]]
             hh == [t \in SUBSET (1..k + 1) |->
                      IF t = {} THEN base
                      ELSE Op(c, d, gg[t \ {Max(t)}], s[Max(t)])]
  <2>1. ASSUME NEW t \in SUBSET (1..k + 1) PROVE gg[t] = hh[t]
    <3>1. CASE k + 1 \in t
      <4>1. Max(t) = k + 1
        BY <3>1, MaxOfInterval
      <4>2. t \ {k + 1} \in SUBSET (1..k + 1) /\ k + 1 \notin t \ {k + 1}
        OBVIOUS
      <4>3. gg[t \ {k + 1}] = g[t \ {k + 1}]
        BY <4>2
      <4> QED
        BY <3>1, <4>1, <4>3
    <3>2. CASE k + 1 \notin t
      <4>1. t \in SUBSET (1..k)
        BY <3>2
      <4>2. gg[t] = g[t] /\ gg[t \ {Max(t)}] = g[t \ {Max(t)}]
        BY <3>2
      <4>3. g[t] = IF t = {} THEN base
                   ELSE Op(c, d, g[t \ {Max(t)}], s[Max(t)])
        BY <1>2, <4>1 DEF IsIter
      <4> QED
        BY <4>2, <4>3
    <3> QED
      BY <3>1, <3>2
  <2>2. gg = hh
    <3>1. DOMAIN gg = DOMAIN hh
      OBVIOUS
    <3> QED
      BY <2>1, <3>1
  <2> QED
    BY <2>2 DEF IsIter
<1> DEFINE K == {k \in Nat : \E g : IsIter(g, c, d, base, s, k)}
<1>3. 0 \in K
  BY <1>1
<1>4. \A k \in Nat : k \in K => k + 1 \in K
  BY <1>2
<1> HIDE DEF K
<1>5. \A k \in Nat : k \in K
  BY <1>3, <1>4, SetInduction
<1> QED
  BY <1>5 DEF K

(* A fold is what a chain of steps from the base leads to.                 *)
LEMMA FoldSteps ==
  ASSUME NEW c, NEW d, NEW base, NEW n \in Nat, NEW s, DOMAIN s = 1..n
  PROVE  \E r : /\ r[0] = base
                /\ \A i \in 1..n : r[i] = Op(c, d, r[i - 1], s[i])
                /\ Fold(c, d, base, s) = r[n]
<1> DEFINE it == CHOOSE g : IsIter(g, c, d, base, s, n)
<1>1. IsIter(it, c, d, base, s, n)
  BY IterExists
<1>2. Fold(c, d, base, s) = it[1..n]
  BY DEF Fold, FoldLeft, MapThenFoldSet, IsIter
<1> HIDE DEF it
<1> DEFINE r == [i \in 0..n |-> it[1..i]]
<1>3. r[0] = base
  BY <1>1 DEF IsIter
<1>4. ASSUME NEW i \in 1..n PROVE r[i] = Op(c, d, r[i - 1], s[i])
  <2>1. 1..i \in SUBSET (1..n) /\ 1..i # {}
    OBVIOUS
  <2>2. (1..i) \ {i} = 1..(i - 1)
    OBVIOUS
  <2>3. Max(1..i) = i
    <3>1. /\ i - 1 \in Nat /\ (i - 1) + 1 = i
          /\ 1..i \in SUBSET (1..((i - 1) + 1)) /\ (i - 1) + 1 \in 1..i
      OBVIOUS
    <3> QED
      BY <3>1, MaxOfInterval
  <2>4. it[1..i] = Op(c, d, it[(1..i) \ {i}], s[i])
    BY <1>1, <2>1, <2>3 DEF IsIter
  <2>5. r[i] = it[1..i] /\ r[i - 1] = it[1..(i - 1)]
    <3>1. i \in 0..n /\ i - 1 \in 0..n
      OBVIOUS
    <3> QED
      BY <3>1
  <2> QED
    BY <2>2, <2>4, <2>5
<1>5. Fold(c, d, base, s) = r[n]
  BY <1>2
<1> HIDE DEF r
<1> QED
  BY <1>3, <1>4, <1>5

(* The same, of a fold that counts from 1 to n.                            *)
UpTo(n) == [i \in 1..n |-> i]
Steps(c, d, r, n) == \A i \in 1..n : r[i] = Op(c, d, r[i - 1], i)

Counts(c, d, base, r, n) ==
  r[0] = base /\ Steps(c, d, r, n) /\ Fold(c, d, base, UpTo(n)) = r[n]

LEMMA CountSteps ==
  ASSUME NEW c, NEW d, NEW base, NEW n \in Nat
  PROVE  \E r : Counts(c, d, base, r, n)
<1> DEFINE ix == UpTo(n)
<1>1. DOMAIN ix = 1..n /\ \A i \in 1..n : ix[i] = i
  BY DEF UpTo
<1> HIDE DEF ix
<1>2. PICK r : /\ r[0] = base
               /\ \A i \in 1..n : r[i] = Op(c, d, r[i - 1], ix[i])
               /\ Fold(c, d, base, ix) = r[n]
  BY <1>1, FoldSteps
<1>3. Steps(c, d, r, n)
  BY <1>1, <1>2 DEF Steps
<1> QED
  BY <1>2, <1>3 DEF ix, Counts

-----------------------------------------------------------------------------
(* FlattenSeq.                                                             *)

(* A function on 1..n is a sequence of length n.                           *)
LEMMA FnIsSeq ==
  ASSUME NEW T, NEW n \in Nat, NEW g \in [1..n -> T]
  PROVE  g \in Seq(T) /\ Len(g) = n /\ DOMAIN g = 1..n
<1>1. g \in Seq(T)
  BY IsASeq, \A i \in 1..n : g[i] \in T
<1> QED
  BY <1>1, LenProperties

IsFlatten(f, ss, n) ==
  f = [i \in 1..n |-> IF i = 1 THEN ss[i] ELSE f[i - 1] \o ss[i]]

LEMMA FlattenExists ==
  ASSUME NEW ss
  PROVE  \A n \in Nat : \E f : IsFlatten(f, ss, n)
<1>1. \E f : IsFlatten(f, ss, 0)
  <2>1. 1..0 = {}
    OBVIOUS
  <2>2. IsFlatten([i \in 1..0 |-> ss[i]], ss, 0)
    BY <2>1 DEF IsFlatten
  <2> QED
    BY <2>2
<1>2. ASSUME NEW k \in Nat, NEW f, IsFlatten(f, ss, k)
      PROVE  \E g : IsFlatten(g, ss, k + 1)
  <2> DEFINE g == [i \in 1..k + 1 |->
                     IF i <= k THEN f[i]
                     ELSE IF i = 1 THEN ss[i] ELSE f[i - 1] \o ss[i]]
             hh == [i \in 1..k + 1 |->
                     IF i = 1 THEN ss[i] ELSE g[i - 1] \o ss[i]]
  <2>1. ASSUME NEW i \in 1..k + 1 PROVE g[i] = hh[i]
    <3>1. i # 1 => g[i - 1] = f[i - 1]
      <4>1. i # 1 => i - 1 \in 1..k + 1 /\ i - 1 <= k
        OBVIOUS
      <4> QED
        BY <4>1
    <3>2. i <= k => f[i] = IF i = 1 THEN ss[i] ELSE f[i - 1] \o ss[i]
      <4>1. i <= k => i \in 1..k
        OBVIOUS
      <4>2. \A j \in 1..k :
              f[j] = IF j = 1 THEN ss[j] ELSE f[j - 1] \o ss[j]
        BY <1>2 DEF IsFlatten
      <4> QED
        BY <4>1, <4>2
    <3> QED
      BY <3>1, <3>2
  <2>2. g = hh
    <3>1. DOMAIN g = DOMAIN hh
      OBVIOUS
    <3> QED
      BY <2>1, <3>1
  <2> QED
    BY <2>2 DEF IsFlatten
<1> DEFINE K == {k \in Nat : \E f : IsFlatten(f, ss, k)}
<1>3. 0 \in K
  BY <1>1
<1>4. \A k \in Nat : k \in K => k + 1 \in K
  BY <1>2
<1> HIDE DEF K
<1>5. \A k \in Nat : k \in K
  BY <1>3, <1>4, SetInduction
<1> QED
  BY <1>5 DEF K

Joins(f, ss, n) == f[0] = <<>> /\ \A i \in 1..n : f[i] = f[i - 1] \o ss[i]

(* Flattening a sequence of sequences appends them one after the other.    *)
LEMMA FlattenSteps ==
  ASSUME NEW C, NEW n \in Nat, NEW ss \in [1..n -> Seq(C)]
  PROVE  \E f \in [0..n -> Seq(C)] : Joins(f, ss, n) /\ FlattenSeq(ss) = f[n]
<1>1. Len(ss) = n /\ ss \in Seq(Seq(C))
  BY FnIsSeq
<1> DEFINE fl == CHOOSE f : IsFlatten(f, ss, n)
<1>2. IsFlatten(fl, ss, n)
  BY FlattenExists
<1>3. n # 0 => FlattenSeq(ss) = fl[n]
  BY <1>1 DEF FlattenSeq, IsFlatten
<1>4. n = 0 => FlattenSeq(ss) = <<>>
  BY <1>1, EmptySeq DEF FlattenSeq
<1> HIDE DEF fl
<1> DEFINE f == [i \in 0..n |-> IF i = 0 THEN <<>> ELSE fl[i]]
<1>5. ASSUME NEW i \in 1..n, f[i - 1] \in Seq(C)
      PROVE  f[i] = f[i - 1] \o ss[i] /\ f[i] \in Seq(C)
  <2>1. fl[i] = IF i = 1 THEN ss[i] ELSE fl[i - 1] \o ss[i]
    BY <1>2 DEF IsFlatten
  <2>2. i \in 0..n /\ i - 1 \in 0..n
    OBVIOUS
  <2>3. f[i] = fl[i] /\ f[i - 1] = IF i = 1 THEN <<>> ELSE fl[i - 1]
    BY <2>2
  <2>4. ss[i] \in Seq(C)
    OBVIOUS
  <2>5. <<>> \o ss[i] = ss[i]
    BY <2>4, ConcatEmptySeq
  <2>6. f[i] = f[i - 1] \o ss[i]
    BY <2>1, <2>3, <2>5
  <2> HIDE DEF f
  <2> QED
    BY <1>5, <2>4, <2>6, ConcatProperties
<1> DEFINE K == {i \in Nat : i <= n => f[i] \in Seq(C)}
<1>6. \A i \in Nat : i \in K
  <2>1. 0 \in K
    <3>1. f[0] = <<>>
      OBVIOUS
    <3> QED
      BY <3>1, EmptySeq
  <2>2. \A k \in Nat : k \in K => k + 1 \in K
    <3> SUFFICES ASSUME NEW k \in Nat, k \in K, k + 1 <= n
                 PROVE  f[k + 1] \in Seq(C)
      OBVIOUS
    <3>1. k + 1 \in 1..n /\ (k + 1) - 1 = k
      OBVIOUS
    <3>2. f[k] \in Seq(C)
      BY <3>1
    <3> HIDE DEF f
    <3> QED
      BY <1>5, <3>1, <3>2
  <2> HIDE DEF K
  <2> QED
    BY <2>1, <2>2, SetInduction
<1>7. \A i \in 0..n : f[i] \in Seq(C)
  <2>1. \A i \in 0..n : i \in Nat /\ i <= n
    OBVIOUS
  <2> HIDE DEF f
  <2> QED
    BY <1>6, <2>1
<1>8. f \in [0..n -> Seq(C)]
  BY <1>7
<1>9. FlattenSeq(ss) = f[n] /\ f[0] = <<>>
  BY <1>3, <1>4
<1>10. \A i \in 1..n : f[i] = f[i - 1] \o ss[i]
  <2>1. \A i \in 1..n : i - 1 \in 0..n
    OBVIOUS
  <2> HIDE DEF f
  <2> QED
    BY <1>5, <1>7, <2>1
<1> HIDE DEF f
<1> QED
  BY <1>8, <1>9, <1>10 DEF Joins

-----------------------------------------------------------------------------
(* Readers.  A reader that takes the value vs[i] from the front of any     *)
(* cells that begin with its encoding w[i], for every i, reads all of them *)
(* from the encodings one after the other, and leaves what follows.        *)
Read(v, rest) == [ok |-> TRUE, val |-> v, rest |-> rest]

Inverts(c, d, C, V, vs, w) ==
  \A i \in DOMAIN vs, us \in Seq(V), rest \in Seq(C) :
    Op(c, d, Read(us, w[i] \o rest), i) = Read(Append(us, vs[i]), rest)

First(vs, i) == [k \in 1..i |-> vs[k]]

Grows(vs, i) == Append(First(vs, i), vs[i + 1]) = First(vs, i + 1)

LEMMA FirstGrows ==
  ASSUME NEW V, NEW n \in Nat, NEW vs \in [1..n -> V], NEW i \in Nat, i + 1 <= n
  PROVE  First(vs, i) \in Seq(V) /\ Grows(vs, i)
<1>1. /\ First(vs, i) \in [1..i -> V]
      /\ First(vs, i + 1) \in [1..i + 1 -> V]
      /\ vs[i + 1] \in V
  BY DEF First
<1>2. /\ First(vs, i) \in Seq(V) /\ Len(First(vs, i)) = i
      /\ First(vs, i + 1) \in Seq(V) /\ Len(First(vs, i + 1)) = i + 1
  BY <1>1, FnIsSeq
<1>3. /\ Append(First(vs, i), vs[i + 1]) \in Seq(V)
      /\ Len(Append(First(vs, i), vs[i + 1])) = i + 1
  BY <1>1, <1>2, AppendProperties
<1>4. ASSUME NEW k \in 1..i + 1
      PROVE  Append(First(vs, i), vs[i + 1])[k] = First(vs, i + 1)[k]
  <2>1. First(vs, i + 1)[k] = vs[k] /\ (k # i + 1 => First(vs, i)[k] = vs[k])
    BY DEF First
  <2>2. CASE k = i + 1
    BY <1>1, <1>2, <2>1, <2>2, AppendProperties
  <2>3. CASE k # i + 1
    <3>1. k \in 1..i
      BY <2>3
    <3> QED
      BY <1>1, <1>2, <2>1, <3>1, <2>3, AppendProperties
  <2> QED
    BY <2>2, <2>3
<1>5. \A a, b \in Seq(V) :
        Len(a) = Len(b) /\ (\A k \in 1..Len(a) : a[k] = b[k]) => a = b
  BY SeqEqual
<1> QED
  BY <1>2, <1>3, <1>4, <1>5 DEF Grows

Reads(c, d, C, vs, f, i) ==
  \A r : \A t \in Seq(C) :
    r[0] = Read(<<>>, f[i] \o t) /\ Steps(c, d, r, i) => r[i] = Read(First(vs, i), t)

LEMMA ReadsMore ==
  ASSUME NEW c, NEW d, NEW C, NEW V, NEW n \in Nat,
         NEW vs \in [1..n -> V], NEW w \in [1..n -> Seq(C)],
         Inverts(c, d, C, V, vs, w),
         NEW f \in [0..n -> Seq(C)], Joins(f, w, n),
         NEW i \in Nat, i + 1 <= n, Reads(c, d, C, vs, f, i)
  PROVE  Reads(c, d, C, vs, f, i + 1)
<1>1. i + 1 \in 1..n /\ (i + 1) - 1 = i /\ i \in 0..n /\ DOMAIN vs = 1..n
  OBVIOUS
<1>2. w[i + 1] \in Seq(C) /\ f[i] \in Seq(C)
  BY <1>1
<1>3. \A t \in Seq(C) : (f[i] \o w[i + 1]) \o t = f[i] \o (w[i + 1] \o t)
  <2> TAKE t \in Seq(C)
  <2>1. PICK x \in Seq(C), y \in Seq(C) : x = f[i] /\ y = w[i + 1]
    BY <1>2
  <2>2. (x \o y) \o t = x \o (y \o t)
    BY ConcatAssociative, SMTT(30)
  <2> QED
    BY <2>1, <2>2
<1>4. First(vs, i) \in Seq(V) /\ Grows(vs, i)
  BY FirstGrows
<1> SUFFICES ASSUME NEW t \in Seq(C), NEW r,
                    r[0] = Read(<<>>, f[i + 1] \o t),
                    Steps(c, d, r, i + 1)
             PROVE  r[i + 1] = Read(First(vs, i + 1), t)
  BY DEF Reads
<1>5. f[i + 1] \o t = f[i] \o (w[i + 1] \o t)
  <2>1. f[i + 1] = f[i] \o w[i + 1]
    BY <1>1 DEF Joins
  <2> QED
    BY <1>3, <2>1
<1>6. w[i + 1] \o t \in Seq(C)
  BY <1>2, ConcatProperties
<1>7. Steps(c, d, r, i) /\ r[i + 1] = Op(c, d, r[i], i + 1)
  <2>1. \A k \in 1..i : k \in 1..i + 1
    OBVIOUS
  <2>2. i + 1 \in 1..i + 1
    OBVIOUS
  <2> QED
    BY <1>1, <2>1, <2>2 DEF Steps
<1>8. r[i] = Read(First(vs, i), w[i + 1] \o t)
  BY <1>5, <1>6, <1>7 DEF Reads
<1>9. Op(c, d, Read(First(vs, i), w[i + 1] \o t), i + 1)
        = Read(Append(First(vs, i), vs[i + 1]), t)
  BY <1>1, <1>4 DEF Inverts
<1> QED
  BY <1>4, <1>7, <1>8, <1>9 DEF Grows

(* The loop over the readers undoes the concatenation of the encodings.    *)
LEMMA ReadsBack ==
  ASSUME NEW c, NEW d, NEW C, NEW V, NEW n \in Nat,
         NEW vs \in [1..n -> V], NEW w \in [1..n -> Seq(C)], NEW tail \in Seq(C),
         Inverts(c, d, C, V, vs, w)
  PROVE  Fold(c, d, Read(<<>>, FlattenSeq(w) \o tail), UpTo(n)) = Read(vs, tail)
<1>1. PICK f \in [0..n -> Seq(C)] : Joins(f, w, n) /\ FlattenSeq(w) = f[n]
  BY FlattenSteps
<1> DEFINE K == {i \in Nat : i <= n => Reads(c, d, C, vs, f, i)}
<1>2. 0 \in K
  <2>1. First(vs, 0) = <<>>
    <3>1. First(vs, 0) \in [1..0 -> V]
      BY DEF First
    <3> QED
      BY <3>1, FnIsSeq, EmptySeq
  <2>2. \A t \in Seq(C) : f[0] \o t = t
    BY <1>1, ConcatEmptySeq DEF Joins
  <2> QED
    BY <2>1, <2>2 DEF Reads
<1>3. \A i \in Nat : i \in K => i + 1 \in K
  <2> SUFFICES ASSUME NEW i \in Nat, i \in K, i + 1 <= n
               PROVE  Reads(c, d, C, vs, f, i + 1)
    OBVIOUS
  <2>1. i <= n /\ i \in 0..n /\ i + 1 \in 1..n /\ (i + 1) - 1 = i
    OBVIOUS
  <2>2. Reads(c, d, C, vs, f, i)
    BY <2>1
  <2> HIDE DEF K
  <2> QED
    BY <1>1, <2>2, ReadsMore
<1>4. Reads(c, d, C, vs, f, n)
  <2> HIDE DEF K
  <2>1. n \in K
    BY <1>2, <1>3, SetInduction
  <2> QED
    BY <2>1 DEF K
<1> DEFINE base == Read(<<>>, FlattenSeq(w) \o tail)
<1> HIDE DEF base, K
<1>5. PICK r : Counts(c, d, base, r, n)
  BY CountSteps
<1>6. First(vs, n) = vs
  BY DEF First
<1>7. r[n] = Read(First(vs, n), tail)
  <2>1. r[0] = Read(<<>>, f[n] \o tail)
    BY <1>1, <1>5 DEF base, Counts
  <2> QED
    BY <1>4, <1>5, <2>1 DEF Counts, Reads
<1> QED
  BY <1>5, <1>6, <1>7 DEF base, Counts
=============================================================================
