------------------------ MODULE MetadataCodecProofs ------------------------
(***************************************************************************)
(* Proofs about module MetadataCodec: what is encoded decodes to itself,   *)
(* and is as long as it says.                                              *)
(***************************************************************************)
EXTENDS MetadataCodec, Selection, TLAPS, FiniteSetTheorems, SequenceTheorems,
        WellFoundedInduction

-----------------------------------------------------------------------------
(* Sequences, selections of their elements, and recursive functions.  The  *)
(* chunks of a file and its records share no set that is small enough to   *)
(* name, so these are about all functions that are sequences.              *)

\* A non-empty set of naturals has a least element.
LEMMA LeastNat ==
    ASSUME NEW T \in SUBSET Nat, T # {}
    PROVE  \E x \in T : \A y \in T : x <= y
<1> DEFINE R == {ss \in Nat \X Nat : ss[1] < ss[2]}
<1>1. IsWellFoundedOn(R, Nat)
  BY NatLessThanWellFounded, Zenon DEF OpToRel
<1>2. \E x \in T : \A y \in T : ~ (<<y, x>> \in R)
  <2> HIDE DEF R
  <2> QED BY <1>1, WFMin, Zenon
<1>3. PICK x \in T : \A y \in T : ~ (<<y, x>> \in R)
  BY <1>2
<1>4. ASSUME NEW y \in T PROVE x <= y
  <2>1. x \in Nat /\ y \in Nat
    OBVIOUS
  <2>2. y < x => <<y, x>> \in R
    BY <2>1
  <2> QED BY <1>3, <2>1, <2>2
<1> QED BY <1>4

-----------------------------------------------------------------------------
(* Sequences of whatever their elements are. *)

IsSeq(s) == s \in Seq({s[i] : i \in DOMAIN s})

\* A sequence over some set is a sequence.
LEMMA SeqIsSeq ==
    ASSUME NEW S, NEW s \in Seq(S)
    PROVE  IsSeq(s)
<1>1. Len(s) \in Nat /\ DOMAIN s = 1..Len(s)
  OBVIOUS
<1>2. s \in [1..Len(s) -> {s[i] : i \in DOMAIN s}]
  BY <1>1, LenProperties
<1> QED BY <1>1, <1>2, SeqDef DEF IsSeq

\* Sequences put together have the elements of the one before those of the other.
LEMMA IsSeqConcat ==
    ASSUME NEW s, IsSeq(s), NEW t, IsSeq(t)
    PROVE  /\ IsSeq(s \o t)
           /\ Len(s) \in Nat /\ DOMAIN s = 1..Len(s)
           /\ Len(t) \in Nat /\ DOMAIN t = 1..Len(t)
           /\ Len(s \o t) = Len(s) + Len(t) /\ DOMAIN (s \o t) = 1..(Len(s) + Len(t))
           /\ \A i \in 1..Len(s) : (s \o t)[i] = s[i]
           /\ \A i \in 1..Len(t) : (s \o t)[Len(s) + i] = t[i]
<1> DEFINE S == {s[i] : i \in DOMAIN s} \cup {t[i] : i \in DOMAIN t}
<1>1. s \in Seq(S) /\ t \in Seq(S)
  BY SeqMonotonic DEF IsSeq
<1> HIDE DEF S
<1>2. /\ s \o t \in Seq(S) /\ Len(s \o t) = Len(s) + Len(t)
      /\ \A i \in 1 .. Len(s) + Len(t) :
           (s \o t)[i] = IF i <= Len(s) THEN s[i] ELSE t[i - Len(s)]
  BY <1>1, ConcatProperties
<1>3. Len(s) \in Nat /\ Len(t) \in Nat /\ DOMAIN s = 1..Len(s) /\ DOMAIN t = 1..Len(t)
  BY <1>1
<1>4. IsSeq(s \o t) /\ DOMAIN (s \o t) = 1..(Len(s) + Len(t))
  BY <1>2, SeqIsSeq, LenProperties
<1>5. \A i \in 1..Len(s) : (s \o t)[i] = s[i]
  BY <1>2, <1>3
<1>6. ASSUME NEW i \in 1..Len(t) PROVE (s \o t)[Len(s) + i] = t[i]
  <2>1. Len(s) + i \in 1 .. Len(s) + Len(t) /\ ~ (Len(s) + i <= Len(s)) /\ (Len(s) + i) - Len(s) = i
    BY <1>3
  <2> QED BY <1>2, <2>1
<1> QED BY <1>2, <1>3, <1>4, <1>5, <1>6

\* The empty sequence adds nothing.
LEMMA IsSeqEmpty ==
    ASSUME NEW s, IsSeq(s)
    PROVE  IsSeq(<<>>) /\ s \o <<>> = s /\ <<>> \o s = s
<1>1. <<>> \in Seq({})
  OBVIOUS
<1> DEFINE S == {s[i] : i \in DOMAIN s}
<1>2. s \in Seq(S)
  BY DEF IsSeq
<1> HIDE DEF S
<1> QED BY <1>1, <1>2, SeqIsSeq, ConcatEmptySeq

\* It does not matter which are put together first.
LEMMA IsSeqAssociative ==
    ASSUME NEW s, IsSeq(s), NEW t, IsSeq(t), NEW u, IsSeq(u)
    PROVE  (s \o t) \o u = s \o (t \o u)
<1> DEFINE S == {s[i] : i \in DOMAIN s} \cup {t[i] : i \in DOMAIN t} \cup {u[i] : i \in DOMAIN u}
<1>1. s \in Seq(S) /\ t \in Seq(S) /\ u \in Seq(S)
  BY SeqMonotonic DEF IsSeq
<1> HIDE DEF S
<1> QED BY <1>1, ConcatAssociative

-----------------------------------------------------------------------------
(* Selections. *)

\* A position counts for itself and for those after it.
LEMMA RankStep ==
    ASSUME NEW I, IsFiniteSet(I), I \subseteq Nat, NEW i \in I
    PROVE  /\ Rank(I, i) \in 1..Cardinality(I)
           /\ \A j \in I : i < j => Rank(I, i) < Rank(I, j)
<1>1. ASSUME NEW j \in I, i < j PROVE Rank(I, i) < Rank(I, j)
  <2> DEFINE A == {k \in I : k <= i}
             B == {k \in I : k <= j}
  <2>1. IsFiniteSet(A) /\ IsFiniteSet(B) /\ Cardinality(A) \in Nat /\ Cardinality(B) \in Nat
    BY FS_Subset, FS_CardinalityType
  <2>0. i \in Nat /\ j \in Nat /\ \A k \in I : k \in Nat
    OBVIOUS
  <2>2. A \subseteq B /\ j \in B /\ j \notin A
    <3>1. \A k \in I : k <= i => k <= j
      BY <2>0, <1>1
    <3>2. j <= j /\ ~ (j <= i)
      BY <2>0, <1>1
    <3> QED BY <3>1, <3>2
  <2>3. Cardinality(A) <= Cardinality(B) /\ Cardinality(A) # Cardinality(B)
    BY <2>1, <2>2, FS_Subset
  <2> QED BY <2>1, <2>3 DEF Rank
<1>2. Rank(I, i) \in 1..Cardinality(I)
  <2> DEFINE A == {k \in I : k <= i}
  <2>1. A \subseteq I /\ i \in A
    OBVIOUS
  <2>2. /\ IsFiniteSet(A) /\ Cardinality(A) \in Nat /\ Cardinality(I) \in Nat
        /\ Cardinality(A) <= Cardinality(I)
    BY <2>1, FS_Subset, FS_CardinalityType
  <2>3. Cardinality(A) # 0
    BY <2>1, <2>2, FS_EmptySet
  <2> QED BY <2>2, <2>3 DEF Rank
<1> QED BY <1>1, <1>2

\* Every number up to the number of positions is the rank of one of them.
LEMMA RankOnto ==
    ASSUME NEW I, IsFiniteSet(I), I \subseteq Nat, NEW n \in 1..Cardinality(I)
    PROVE  \E i \in I : Rank(I, i) = n
<1> DEFINE f == [i \in I |-> Rank(I, i)]
<1>1. f \in [I -> 1..Cardinality(I)]
  BY RankStep
<1>2. ASSUME NEW i \in I, NEW j \in I, f[i] = f[j] PROVE i = j
  <2>1. f[i] \in Nat /\ f[j] \in Nat /\ i \in Nat /\ j \in Nat
    BY <1>1, FS_CardinalityType
  <2>2. (i < j => f[i] < f[j]) /\ (j < i => f[j] < f[i])
    BY RankStep
  <2> QED BY <1>2, <2>1, <2>2
<1>3. f \in Injection(I, 1..Cardinality(I))
  BY <1>1, <1>2 DEF Injection, IsInjective
<1>4. /\ Cardinality(I) \in Nat /\ IsFiniteSet(1..Cardinality(I))
      /\ Cardinality(1..Cardinality(I)) = Cardinality(I)
  BY FS_CardinalityType, FS_Interval
<1>5. f \in Surjection(I, 1..Cardinality(I))
  <2> HIDE DEF f
  <2> QED BY <1>3, <1>4, FS_Injection
<1> QED BY <1>5 DEF Surjection

\* The n-th element of a selection is the one at the position of rank n.
LEMMA SelectedAt ==
    ASSUME NEW I, IsFiniteSet(I), I \subseteq Nat, NEW s, NEW i \in I
    PROVE  /\ Rank(I, i) \in 1..Cardinality(I)
           /\ Selected(s, I)[Rank(I, i)] = s[i]
<1>1. Rank(I, i) \in 1..Cardinality(I)
  BY RankStep
<1>2. \A j \in I : Rank(I, j) = Rank(I, i) => j = i
  <2> SUFFICES ASSUME NEW j \in I, Rank(I, j) = Rank(I, i) PROVE j = i
    OBVIOUS
  <2>1. Rank(I, i) \in Nat /\ i \in Nat /\ j \in Nat
    BY <1>1, FS_CardinalityType
  <2>2. (i < j => Rank(I, i) < Rank(I, j)) /\ (j < i => Rank(I, j) < Rank(I, i))
    BY RankStep
  <2> QED BY <2>1, <2>2
<1>3. (CHOOSE j \in I : Rank(I, j) = Rank(I, i)) = i
  BY <1>2
<1> QED BY <1>1, <1>3 DEF Selected

\* A selection is a sequence of as many elements as there are positions, each of which is
\* at one of them.
LEMMA SelectedSeq ==
    ASSUME NEW I, IsFiniteSet(I), I \subseteq Nat, NEW s
    PROVE  /\ Cardinality(I) \in Nat
           /\ DOMAIN Selected(s, I) = 1..Cardinality(I)
           /\ Len(Selected(s, I)) = Cardinality(I)
           /\ \A S : (\A i \in I : s[i] \in S) => Selected(s, I) \in Seq(S)
           /\ \A n \in 1..Cardinality(I) :
                 \E i \in I : Rank(I, i) = n /\ Selected(s, I)[n] = s[i]
<1>1. Cardinality(I) \in Nat
  BY FS_CardinalityType
<1>2. \A n \in 1..Cardinality(I) : \E i \in I : Rank(I, i) = n /\ Selected(s, I)[n] = s[i]
  BY RankOnto, SelectedAt
<1>3. DOMAIN Selected(s, I) = 1..Cardinality(I)
  BY DEF Selected
<1>4. Len(Selected(s, I)) = Cardinality(I)
  BY <1>1, <1>3
<1>5. ASSUME NEW S, \A i \in I : s[i] \in S PROVE Selected(s, I) \in Seq(S)
  <2>1. \A n \in 1..Cardinality(I) : Selected(s, I)[n] \in S
    BY <1>2, <1>5
  <2>2. Selected(s, I) \in [1..Cardinality(I) -> S]
    BY <2>1, Zenon DEF Selected
  <2> QED BY <1>1, <2>2, SeqDef
<1> QED BY <1>1, <1>2, <1>3, <1>4, <1>5

\* A selection depends on the elements at its positions only.
LEMMA SelectedEqual ==
    ASSUME NEW I, IsFiniteSet(I), I \subseteq Nat, NEW s, NEW t, \A i \in I : s[i] = t[i]
    PROVE  Selected(s, I) = Selected(t, I)
<1>1. \A n \in 1..Cardinality(I) : Selected(s, I)[n] = Selected(t, I)[n]
  <2> SUFFICES ASSUME NEW n \in 1..Cardinality(I)
               PROVE  Selected(s, I)[n] = Selected(t, I)[n]
    OBVIOUS
  <2>1. PICK i \in I : Rank(I, i) = n
    BY RankOnto
  <2>2. Selected(s, I)[n] = s[i] /\ Selected(t, I)[n] = t[i]
    BY <2>1, SelectedAt
  <2> QED BY <2>2
<1> QED BY <1>1 DEF Selected

\* The positions up to some point keep their ranks.
LEMMA RankPrefix ==
    ASSUME NEW I, I \subseteq Nat, NEW p \in Nat, NEW i \in I, i <= p
    PROVE  Rank({j \in I : j <= p}, i) = Rank(I, i)
<1>1. \A k \in I : k <= i => k <= p
  <2>1. i \in Nat /\ \A k \in I : k \in Nat
    OBVIOUS
  <2> QED BY <2>1
<1>2. {k \in {j \in I : j <= p} : k <= i} = {k \in I : k <= i}
  BY <1>1
<1> QED BY <1>2 DEF Rank

\* What is selected up to some point is the beginning of all that is selected.
LEMMA SelectedPrefix ==
    ASSUME NEW I, IsFiniteSet(I), I \subseteq Nat, NEW s, NEW p \in Nat
    PROVE  LET Q == {j \in I : j <= p}
           IN  /\ IsFiniteSet(Q) /\ Cardinality(Q) \in Nat
               /\ Cardinality(Q) <= Cardinality(I)
               /\ \A n \in 1..Cardinality(Q) : Selected(s, Q)[n] = Selected(s, I)[n]
<1> DEFINE Q == {j \in I : j <= p}
<1>1. IsFiniteSet(Q) /\ Cardinality(Q) \in Nat /\ Cardinality(Q) <= Cardinality(I)
  BY FS_Subset, FS_CardinalityType
<1>2. ASSUME NEW n \in 1..Cardinality(Q) PROVE Selected(s, Q)[n] = Selected(s, I)[n]
  <2>1. PICK i \in Q : Rank(Q, i) = n
    BY <1>1, RankOnto
  <2>2. Rank(I, i) = n
    BY <2>1, RankPrefix
  <2>3. Selected(s, Q)[n] = s[i]
    <3>1. Q \subseteq Nat
      OBVIOUS
    <3> HIDE DEF Q
    <3> QED BY <1>1, <2>1, <3>1, SelectedAt
  <2>4. Selected(s, I)[n] = s[i]
    BY <2>2, SelectedAt
  <2> QED BY <2>3, <2>4
<1> QED BY <1>1, <1>2

\* A position after all the others is selected last.
LEMMA SelectedExtend ==
    ASSUME NEW I, IsFiniteSet(I), I \subseteq Nat, NEW s,
           NEW k \in Nat, \A i \in I : i < k
    PROVE  /\ IsFiniteSet(I \cup {k})
           /\ Cardinality(I \cup {k}) = Cardinality(I) + 1
           /\ Selected(s, I \cup {k}) = Append(Selected(s, I), s[k])
<1> DEFINE J == I \cup {k}
           S == {s[i] : i \in J}
<1>1. k \notin I
  OBVIOUS
<1>2. /\ IsFiniteSet(J) /\ J \subseteq Nat /\ Cardinality(I) \in Nat
      /\ Cardinality(J) = Cardinality(I) + 1
  BY <1>1, FS_AddElement, FS_CardinalityType
<1>3. ASSUME NEW i \in I PROVE Rank(J, i) = Rank(I, i)
  <2>1. {j \in J : j <= i} = {j \in I : j <= i}
    <3>1. i \in Nat /\ i < k
      OBVIOUS
    <3> QED BY <3>1
  <2> QED BY <2>1 DEF Rank
<1>4. Rank(J, k) = Cardinality(J)
  <2>1. \A j \in J : j <= k
    <3>1. k <= k /\ \A i \in I : i \in Nat
      OBVIOUS
    <3>2. \A i \in I : i <= k
      BY <3>1
    <3> QED BY <3>1, <3>2
  <2>2. {j \in J : j <= k} = J
    BY <2>1
  <2> QED BY <2>2 DEF Rank
<1>5. Selected(s, I) \in Seq(S) /\ Len(Selected(s, I)) = Cardinality(I)
  BY SelectedSeq
<1>6. Selected(s, J) \in Seq(S) /\ Len(Selected(s, J)) = Cardinality(I) + 1
  <2> HIDE DEF J
  <2>1. \A i \in J : s[i] \in S
    OBVIOUS
  <2> HIDE DEF S
  <2> QED BY <1>2, <2>1, SelectedSeq
<1>7. ASSUME NEW n \in 1..Cardinality(I) PROVE Selected(s, J)[n] = Selected(s, I)[n]
  <2>1. PICK i \in I : Rank(I, i) = n
    BY RankOnto
  <2>2. Selected(s, I)[n] = s[i]
    BY <2>1, SelectedAt
  <2>3. i \in J /\ Rank(J, i) = n
    BY <1>3, <2>1
  <2>4. Selected(s, J)[n] = s[i]
    <3> HIDE DEF J
    <3> QED BY <1>2, <2>3, SelectedAt
  <2> QED BY <2>2, <2>4
<1>8. Selected(s, J)[Cardinality(I) + 1] = s[k]
  <2>1. k \in J /\ Rank(J, k) = Cardinality(I) + 1
    BY <1>2, <1>4
  <2>2. Selected(s, J)[Rank(J, k)] = s[k]
    <3> HIDE DEF J
    <3> QED BY <1>2, <2>1, SelectedAt
  <2> QED BY <2>1, <2>2
<1>9. Append(Selected(s, I), s[k]) = Selected(s, J)
  <2>1. s[k] \in S
    OBVIOUS
  <2> HIDE DEF S, J
  <2> QED BY <1>2, <1>5, <1>6, <1>7, <1>8, <2>1, AppendProperties, SeqEqual
<1> QED BY <1>2, <1>9
-----------------------------------------------------------------------------
(* Induction and recursion over the naturals, for sets and functions. *)

\* A set of naturals that has 0, and with a number the next one, has them all.
LEMMA SetInduction ==
    ASSUME NEW T, 0 \in T, \A n \in Nat : n \in T => n + 1 \in T
    PROVE  \A n \in Nat : n \in T
<1> DEFINE out == {n \in Nat : n \notin T}
<1> SUFFICES ASSUME out # {} PROVE FALSE
  OBVIOUS
<1>1. PICK x \in out : \A y \in out : x <= y
  BY LeastNat
<1>2. x \in Nat \ {0} /\ x - 1 \in Nat
  OBVIOUS
<1>3. x - 1 \in T
  BY <1>1, <1>2
<1>4. (x - 1) + 1 \in T
  BY <1>2, <1>3
<1> QED BY <1>2, <1>4

\* The values of f up to n are computed by g, each from the one before it.
Computes(g, a, f, n) == f[0] = a /\ \A i \in 1..n : f[i] = g[<<f[i - 1], i>>]

\* A sequence of values each of which is computed from the one before it exists.
LEMMA Recursion ==
    ASSUME NEW S, NEW a \in S, NEW g \in [S \X Nat -> S]
    PROVE  \A n \in Nat : \E f \in [0..n -> S] : Computes(g, a, f, n)
<1> USE DEF Computes
<1> DEFINE Good(n, f) == f[0] = a /\ \A i \in 1..n : f[i] = g[<<f[i - 1], i>>]
           T == {n \in Nat : \E f \in [0..n -> S] : Good(n, f)}
<1>1. 0 \in T
  <2>1. [i \in 0..0 |-> a] \in [0..0 -> S] /\ Good(0, [i \in 0..0 |-> a])
    OBVIOUS
  <2> QED BY <2>1
<1>2. ASSUME NEW n \in Nat, n \in T PROVE n + 1 \in T
  <2>1. PICK f \in [0..n -> S] : Good(n, f)
    BY <1>2
  <2> DEFINE h == [i \in 0..(n + 1) |-> IF i <= n THEN f[i] ELSE g[<<f[n], n + 1>>]]
  <2>2. f[n] \in S /\ g[<<f[n], n + 1>>] \in S
    OBVIOUS
  <2>3. h \in [0..(n + 1) -> S]
    BY <2>2
  <2>4. h[0] = a
    BY <2>1
  <2>5. ASSUME NEW i \in 1..(n + 1) PROVE h[i] = g[<<h[i - 1], i>>]
    <3>1. CASE i <= n
      <4>1. i \in 1..n /\ i - 1 \in 0..n /\ i \in 0..(n + 1) /\ i - 1 \in 0..(n + 1)
            /\ i - 1 <= n
        BY <3>1
      <4>2. h[i] = f[i] /\ h[i - 1] = f[i - 1]
        BY <3>1, <4>1
      <4> QED BY <2>1, <4>1, <4>2
    <3>2. CASE ~ (i <= n)
      <4>1. i = n + 1 /\ i - 1 = n /\ n \in 0..(n + 1) /\ i \in 0..(n + 1)
        BY <3>2
      <4>2. h[i] = g[<<f[n], n + 1>>] /\ h[i - 1] = f[n]
        BY <3>2, <4>1
      <4> QED BY <4>1, <4>2
    <3> QED BY <3>1, <3>2
  <2>6. Good(n + 1, h)
    BY <2>4, <2>5
  <2>7. \E x \in [0..(n + 1) -> S] : Good(n + 1, x)
    <3> HIDE DEF h, Good
    <3> QED BY <2>3, <2>6
  <2>8. n + 1 \in Nat
    OBVIOUS
  <2> HIDE DEF Good
  <2> QED BY <2>7, <2>8
<1>3. \A n \in Nat : n \in T
  <2> HIDE DEF T
  <2> QED BY <1>1, <1>2, SetInduction
<1> QED BY <1>3

-----------------------------------------------------------------------------
(* FlattenSeq *)

\* What there is after each of the sequences, one after the other.
LEMMA FlattenParts ==
    ASSUME NEW C, NEW seqs \in Seq(Seq(C))
    PROVE  \E f \in [0..Len(seqs) -> Seq(C)] :
             /\ f[0] = <<>>
             /\ \A i \in 1..Len(seqs) : f[i] = f[i - 1] \o seqs[i]
             /\ FlattenSeq(seqs) = f[Len(seqs)]
<1> DEFINE n == Len(seqs)
           g == [x \in Seq(C) \X Nat |-> IF x[2] \in 1..n THEN x[1] \o seqs[x[2]] ELSE x[1]]
<1>1. n \in Nat /\ \A i \in 1..n : seqs[i] \in Seq(C)
  OBVIOUS
<1>2. g \in [Seq(C) \X Nat -> Seq(C)]
  BY <1>1
<1>3. <<>> \in Seq(C)
  OBVIOUS
<1>4. PICK f \in [0..n -> Seq(C)] : f[0] = <<>> /\ \A i \in 1..n : f[i] = g[<<f[i - 1], i>>]
  <2> DEFINE S == Seq(C)
             a == <<>>
  <2>1. a \in S /\ g \in [S \X Nat -> S]
    BY <1>2, <1>3
  <2> HIDE DEF S, a, g
  <2>2. \A m \in Nat : \E f \in [0..m -> S] : Computes(g, a, f, m)
    BY <2>1, Recursion
  <2>3. \E f \in [0..n -> S] : Computes(g, a, f, n)
    BY <1>1, <2>2
  <2> QED BY <2>3 DEF S, a, Computes
<1>5. ASSUME NEW i \in 1..n PROVE f[i] = f[i - 1] \o seqs[i] /\ f[i - 1] \in Seq(C)
  <2>1. i - 1 \in 0..n /\ i \in Nat
    OBVIOUS
  <2>2. f[i - 1] \in Seq(C)
    BY <2>1
  <2> QED BY <1>4, <2>1, <2>2
<1>6. CASE n = 0
  BY <1>4, <1>5, <1>6 DEF FlattenSeq
<1>7. CASE n # 0
  <2> DEFINE Eq(h) == h = [i \in 1..n |-> IF i = 1 THEN seqs[i] ELSE h[i - 1] \o seqs[i]]
             F == [i \in 1..n |-> f[i]]
             G == CHOOSE h : Eq(h)
  <2>1. Eq(F)
    <3>1. ASSUME NEW i \in 1..n
          PROVE  f[i] = IF i = 1 THEN seqs[i] ELSE F[i - 1] \o seqs[i]
      <4>1. CASE i = 1
        <5>0. 1 - 1 = 0 /\ 1 \in 1..n
          BY <4>1
        <5>1. f[1] = f[1 - 1] \o seqs[1] /\ seqs[1] \in Seq(C)
          BY <1>1, <1>5, <5>0
        <5>2. f[0] = <<>>
          BY <1>4
        <5>3. <<>> \o seqs[1] = seqs[1]
          BY <5>1, ConcatEmptySeq
        <5>4. f[1] = seqs[1]
          BY <5>0, <5>1, <5>2, <5>3
        <5> QED BY <4>1, <5>4
      <4>2. CASE i # 1
        <5>1. i - 1 \in 1..n
          BY <4>2
        <5> QED BY <1>5, <4>2, <5>1
      <4> QED BY <4>1, <4>2
    <3> QED BY <3>1, Zenon
  <2>2. Eq(G)
    BY <2>1, Zenon
  <2>3. DOMAIN G = 1..n
    BY <2>2, Zenon
  <2>4. \A i \in 1..n : G[i] = IF i = 1 THEN seqs[i] ELSE G[i - 1] \o seqs[i]
    <3> HIDE DEF G
    <3>1. ASSUME NEW i \in 1..n
          PROVE  G[i] = IF i = 1 THEN seqs[i] ELSE G[i - 1] \o seqs[i]
      BY <2>2, Zenon
    <3> QED BY <3>1
  <2>5. \A i \in Nat : i \in 1..n => G[i] = f[i]
    <3> HIDE DEF G
    <3> DEFINE T == {i \in Nat : i \in 1..n => G[i] = f[i]}
    <3>1. 0 \in T
      OBVIOUS
    <3>2. ASSUME NEW i \in Nat, i \in T PROVE i + 1 \in T
      <4> SUFFICES ASSUME i + 1 \in 1..n PROVE G[i + 1] = f[i + 1]
        OBVIOUS
      <4>1. G[i + 1] = IF i + 1 = 1 THEN seqs[i + 1] ELSE G[(i + 1) - 1] \o seqs[i + 1]
        BY <2>4
      <4>2. (i + 1) - 1 = i
        OBVIOUS
      <4>3. f[i + 1] = f[i] \o seqs[i + 1] /\ seqs[i + 1] \in Seq(C)
        BY <1>1, <1>5, <4>2
      <4>4. CASE i = 0
        <5>1. f[0] \o seqs[i + 1] = seqs[i + 1]
          BY <1>4, <4>3, ConcatEmptySeq
        <5> QED BY <4>1, <4>3, <4>4, <5>1
      <4>5. CASE i # 0
        <5>1. i \in 1..n /\ i + 1 # 1
          BY <4>5, <1>1
        <5>2. G[i] = f[i]
          BY <3>2, <5>1
        <5> HIDE DEF F, g, T, n
        <5> QED BY <4>1, <4>2, <4>3, <5>1, <5>2
      <4> QED BY <4>4, <4>5
    <3>3. \A i \in Nat : i \in T
      <4> HIDE DEF T
      <4> QED BY <3>1, <3>2, SetInduction
    <3> QED BY <3>3
  <2>6. FlattenSeq(seqs) = G[n]
    BY <1>7, Zenon DEF FlattenSeq
  <2>7. G[n] = f[n]
    <3>1. n \in 1..n
      BY <1>1, <1>7
    <3> HIDE DEF G, g, F, n
    <3> QED BY <1>1, <2>5, <3>1
  <2> HIDE DEF G
  <2> QED BY <1>4, <1>5, <2>6, <2>7
<1> QED BY <1>1, <1>6, <1>7

\* A sequence of sequences, one after the other, is a sequence of their elements.
LEMMA FlattenSeqType ==
    ASSUME NEW C, NEW seqs \in Seq(Seq(C))
    PROVE  FlattenSeq(seqs) \in Seq(C)
<1>1. Len(seqs) \in 0..Len(seqs)
  OBVIOUS
<1>2. PICK f \in [0..Len(seqs) -> Seq(C)] : FlattenSeq(seqs) = f[Len(seqs)]
  BY FlattenParts, Zenon
<1> QED BY <1>1, <1>2

-----------------------------------------------------------------------------
(* The codec. *)

(* A chunk of encoded metadata has a width. *)
Width == Nat \ {0}
Value == Int \cup Text \cup {"DBN"}
Chunk == [n : Width, k : {"int", "text"}, v : Value]

-----------------------------------------------------------------------------
(* Where chunks are. *)

Sized(s) == IsSeq(s) /\ \A i \in DOMAIN s : s[i].n \in Nat

\* Chunks have a width.
LEMMA ChunksSized ==
    ASSUME NEW s \in Seq(Chunk)
    PROVE  Sized(s)
<1>1. \A c \in Chunk : c.n \in Nat
  BY DEF Chunk, Width
<1> QED BY <1>1, SeqIsSeq DEF Sized

\* Sized parts make a sized whole.
LEMMA SizedConcat ==
    ASSUME NEW s, Sized(s), NEW t, Sized(t)
    PROVE  Sized(s \o t)
<1>1. /\ IsSeq(s \o t)
      /\ DOMAIN (s \o t) = 1..(Len(s) + Len(t)) /\ Len(s) \in Nat /\ Len(t) \in Nat
      /\ DOMAIN s = 1..Len(s) /\ DOMAIN t = 1..Len(t)
      /\ \A i \in 1..Len(s) : (s \o t)[i] = s[i]
      /\ \A i \in 1..Len(t) : (s \o t)[Len(s) + i] = t[i]
  BY IsSeqConcat DEF Sized
<1>2. ASSUME NEW i \in 1..(Len(s) + Len(t)) PROVE (s \o t)[i].n \in Nat
  <2>1. CASE i \in 1..Len(s)
    BY <1>1, <2>1 DEF Sized
  <2>2. CASE i \notin 1..Len(s)
    <3>1. i - Len(s) \in 1..Len(t) /\ Len(s) + (i - Len(s)) = i
      BY <1>1, <2>2
    <3>2. (s \o t)[i] = t[i - Len(s)]
      BY <1>1, <3>1
    <3> QED BY <1>1, <3>1, <3>2 DEF Sized
  <2> QED BY <2>1, <2>2
<1> QED BY <1>1, <1>2 DEF Sized

\* Starts satisfies the equations that define it.
LEMMA StartsSteps ==
    ASSUME NEW s, Sized(s)
    PROVE  /\ Len(s) \in Nat /\ DOMAIN s = 1..Len(s)
           /\ Starts(s) \in [1..(Len(s) + 1) -> Nat]
           /\ Starts(s)[1] = 0
           /\ \A i \in 1..Len(s) : Starts(s)[i + 1] = Starts(s)[i] + s[i].n
<1> DEFINE n == Len(s)
           g == [x \in Nat \X Nat |-> IF x[2] \in 1..n THEN x[1] + s[x[2]].n ELSE x[1]]
<1>1. n \in Nat /\ DOMAIN s = 1..n
  BY LenProperties DEF Sized, IsSeq
<1>2. \A i \in 1..n : s[i].n \in Nat
  BY <1>1 DEF Sized
<1>3. g \in [Nat \X Nat -> Nat]
  BY <1>2
<1>4. PICK f \in [0..n -> Nat] : f[0] = 0 /\ \A i \in 1..n : f[i] = g[<<f[i - 1], i>>]
  <2> DEFINE S == Nat
             a == 0
  <2>1. a \in S /\ g \in [S \X Nat -> S]
    BY <1>3
  <2> HIDE DEF S, a, g, n
  <2>2. \A m \in Nat : \E f \in [0..m -> S] : Computes(g, a, f, m)
    BY <2>1, Recursion
  <2>3. \E f \in [0..n -> S] : Computes(g, a, f, n)
    BY <1>1, <2>2
  <2> QED BY <2>3 DEF S, a, Computes
<1>5. ASSUME NEW i \in 1..n PROVE f[i] = f[i - 1] + s[i].n
  <2>1. i - 1 \in 0..n /\ i \in Nat
    BY <1>1
  <2> QED BY <1>4, <2>1
<1> DEFINE Eq(h) == h = [i \in 1..(Len(s) + 1) |-> IF i = 1 THEN 0 ELSE h[i - 1] + s[i - 1].n]
           F == [i \in 1..(Len(s) + 1) |-> f[i - 1]]
           G == CHOOSE h : Eq(h)
<1>6. Eq(F)
  <2>1. ASSUME NEW i \in 1..(Len(s) + 1)
        PROVE  f[i - 1] = IF i = 1 THEN 0 ELSE F[i - 1] + s[i - 1].n
    <3>1. CASE i = 1
      BY <1>4, <3>1
    <3>2. CASE i # 1
      <4>1. i - 1 \in 1..n /\ i - 1 \in 1..(Len(s) + 1)
        BY <1>1, <3>2
      <4>2. f[i - 1] = f[(i - 1) - 1] + s[i - 1].n
        BY <1>5, <4>1
      <4> QED BY <3>2, <4>1, <4>2
    <3> QED BY <3>1, <3>2
  <2> QED BY <2>1, Zenon
<1>7. Eq(G)
  BY <1>6, Zenon
<1>8. DOMAIN G = 1..(Len(s) + 1)
  BY <1>7, Zenon
<1>9. \A i \in 1..(Len(s) + 1) : G[i] = IF i = 1 THEN 0 ELSE G[i - 1] + s[i - 1].n
  <2> HIDE DEF G
  <2>1. ASSUME NEW i \in 1..(Len(s) + 1)
        PROVE  G[i] = IF i = 1 THEN 0 ELSE G[i - 1] + s[i - 1].n
    BY <1>7, Zenon
  <2> QED BY <2>1
<1>10. Starts(s) = G
  BY Zenon DEF Starts
<1> HIDE DEF G, g, F
<1>11. G[1] = 0
  BY <1>1, <1>9
<1>12. ASSUME NEW i \in 1..n PROVE G[i + 1] = G[i] + s[i].n
  <2>1. i + 1 \in 1..(Len(s) + 1) /\ i + 1 # 1 /\ (i + 1) - 1 = i
    BY <1>1
  <2> QED BY <1>9, <2>1
<1>13. \A i \in Nat : i \in 1..(n + 1) => G[i] \in Nat
  <2> DEFINE T == {i \in Nat : i \in 1..(n + 1) => G[i] \in Nat}
  <2>1. 0 \in T
    OBVIOUS
  <2>2. ASSUME NEW i \in Nat, i \in T PROVE i + 1 \in T
    <3> SUFFICES ASSUME i + 1 \in 1..(n + 1) PROVE G[i + 1] \in Nat
      OBVIOUS
    <3>1. CASE i = 0
      BY <1>11, <3>1
    <3>2. CASE i # 0
      <4>1. i \in 1..n /\ i \in 1..(n + 1)
        BY <1>1, <3>2
      <4>2. G[i] \in Nat /\ s[i].n \in Nat
        BY <1>2, <2>2, <4>1
      <4> QED BY <1>12, <4>1, <4>2
    <3> QED BY <3>1, <3>2
  <2>3. \A i \in Nat : i \in T
    <3> HIDE DEF T
    <3> QED BY <2>1, <2>2, SetInduction
  <2> QED BY <2>3
<1>14. G \in [1..(n + 1) -> Nat]
  <2>1. \A i \in 1..(n + 1) : G[i] \in Nat
    BY <1>1, <1>13
  <2>2. G = [i \in 1..(Len(s) + 1) |-> G[i]]
    <3> DEFINE E == [i \in 1..(Len(s) + 1) |-> IF i = 1 THEN 0 ELSE G[i - 1] + s[i - 1].n]
    <3>1. G = E
      BY <1>7, Zenon
    <3>2. E = [i \in DOMAIN E |-> E[i]] /\ DOMAIN E = 1..(Len(s) + 1)
      BY Zenon
    <3> HIDE DEF E
    <3> QED BY <3>1, <3>2
  <2> QED BY <2>1, <2>2
<1> QED BY <1>1, <1>10, <1>11, <1>12, <1>14

\* The number of bytes is a number.
LEMMA BytesType ==
    ASSUME NEW s, Sized(s)
    PROVE  Bytes(s) \in Nat /\ Bytes(s) = Starts(s)[Len(s) + 1]
<1>1. Starts(s) \in [1..(Len(s) + 1) -> Nat] /\ Len(s) + 1 \in 1..(Len(s) + 1)
  BY StartsSteps
<1> QED BY <1>1 DEF Bytes

\* Chunks that are put after others start where those end.
LEMMA StartsConcat ==
    ASSUME NEW s, Sized(s), NEW t, Sized(t)
    PROVE  /\ \A i \in 1..(Len(s) + 1) : Starts(s \o t)[i] = Starts(s)[i]
           /\ \A i \in 1..(Len(t) + 1) : Starts(s \o t)[Len(s) + i] = Bytes(s) + Starts(t)[i]
           /\ Bytes(s \o t) = Bytes(s) + Bytes(t)
<1> DEFINE A == Starts(s)
           B == Starts(t)
           C == Starts(s \o t)
           n == Len(s)
           k == Len(t)
<1>1. /\ Sized(s \o t) /\ n \in Nat /\ k \in Nat /\ Len(s \o t) = n + k
      /\ \A i \in 1..n : (s \o t)[i] = s[i]
      /\ \A i \in 1..k : (s \o t)[n + i] = t[i]
  <2>1. Sized(s \o t) /\ IsSeq(s) /\ IsSeq(t)
    BY SizedConcat DEF Sized
  <2>2. /\ Len(s) \in Nat /\ Len(t) \in Nat /\ Len(s \o t) = Len(s) + Len(t)
        /\ \A i \in 1..Len(s) : (s \o t)[i] = s[i]
        /\ \A i \in 1..Len(t) : (s \o t)[Len(s) + i] = t[i]
    BY ONLY <2>1, IsSeqConcat
  <2> QED BY <2>1, <2>2
<1>2. /\ A \in [1..(n + 1) -> Nat] /\ A[1] = 0
      /\ \A i \in 1..n : A[i + 1] = A[i] + s[i].n
  BY StartsSteps
<1>3. /\ B \in [1..(k + 1) -> Nat] /\ B[1] = 0
      /\ \A i \in 1..k : B[i + 1] = B[i] + t[i].n
  BY StartsSteps
<1>4. /\ C \in [1..(n + k + 1) -> Nat] /\ C[1] = 0
      /\ \A i \in 1..(n + k) : C[i + 1] = C[i] + (s \o t)[i].n
  <2>1. /\ Starts(s \o t) \in [1..(Len(s \o t) + 1) -> Nat] /\ Starts(s \o t)[1] = 0
        /\ \A i \in 1..Len(s \o t) : Starts(s \o t)[i + 1] = Starts(s \o t)[i] + (s \o t)[i].n
    BY <1>1, StartsSteps
  <2> QED BY <1>1, <2>1
<1>5. Bytes(s) = A[n + 1] /\ Bytes(t) = B[k + 1] /\ Bytes(s \o t) = C[n + k + 1]
  BY <1>1 DEF Bytes
<1> HIDE DEF A, B, C, n, k
<1>6. \A i \in Nat : i \in 1..(n + 1) => C[i] = A[i]
  <2> DEFINE T == {i \in Nat : i \in 1..(n + 1) => C[i] = A[i]}
  <2>1. 0 \in T
    OBVIOUS
  <2>2. ASSUME NEW i \in Nat, i \in T PROVE i + 1 \in T
    <3> SUFFICES ASSUME i + 1 \in 1..(n + 1) PROVE C[i + 1] = A[i + 1]
      OBVIOUS
    <3>1. CASE i = 0
      BY <1>2, <1>4, <3>1
    <3>2. CASE i # 0
      <4>1. i \in 1..n /\ i \in 1..(n + 1) /\ i \in 1..(n + k)
        BY <1>1, <3>2
      <4>2. C[i] = A[i] /\ (s \o t)[i] = s[i]
        BY <1>1, <2>2, <4>1
      <4> QED BY <1>2, <1>4, <4>1, <4>2
    <3> QED BY <3>1, <3>2
  <2>3. \A i \in Nat : i \in T
    <3> HIDE DEF T
    <3> QED BY <2>1, <2>2, SetInduction
  <2> QED BY <2>3
<1>7. \A i \in Nat : i \in 1..(k + 1) => C[n + i] = A[n + 1] + B[i]
  <2> DEFINE T == {i \in Nat : i \in 1..(k + 1) => C[n + i] = A[n + 1] + B[i]}
  <2>1. 0 \in T
    OBVIOUS
  <2>2. ASSUME NEW i \in Nat, i \in T PROVE i + 1 \in T
    <3> SUFFICES ASSUME i + 1 \in 1..(k + 1) PROVE C[n + (i + 1)] = A[n + 1] + B[i + 1]
      OBVIOUS
    <3>0. n + 1 \in 1..(n + 1) /\ n + 1 \in Nat /\ A[n + 1] \in Nat
      BY <1>1, <1>2
    <3>1. CASE i = 0
      <4>1. C[n + 1] = A[n + 1]
        BY <1>6, <3>0
      <4> QED BY <1>3, <3>0, <3>1, <4>1
    <3>2. CASE i # 0
      <4>1. i \in 1..k /\ i \in 1..(k + 1) /\ n + i \in 1..(n + k) /\ (n + i) + 1 = n + (i + 1)
        BY <1>1, <3>2
      <4>2. C[n + i] = A[n + 1] + B[i] /\ (s \o t)[n + i] = t[i]
        BY <1>1, <2>2, <4>1
      <4>3. C[n + (i + 1)] = C[n + i] + (s \o t)[n + i].n
        BY <1>4, <4>1
      <4>4. B[i] \in Nat /\ B[i + 1] \in Nat /\ B[i + 1] = B[i] + t[i].n /\ t[i].n \in Nat
        <5>1. t[i].n \in Nat
          BY <4>1, StartsSteps DEF Sized, k
        <5> QED BY <1>3, <4>1, <5>1
      <4> QED BY <3>0, <4>2, <4>3, <4>4
    <3> QED BY <3>1, <3>2
  <2>3. \A i \in Nat : i \in T
    <3> HIDE DEF T
    <3> QED BY <2>1, <2>2, SetInduction
  <2> QED BY <2>3
<1>8. Bytes(s \o t) = Bytes(s) + Bytes(t)
  <2>1. k + 1 \in Nat /\ k + 1 \in 1..(k + 1) /\ n + (k + 1) = n + k + 1
    BY <1>1
  <2> QED BY <1>5, <1>7, <2>1
<1>9. ASSUME NEW i \in 1..(n + 1) PROVE C[i] = A[i]
  BY <1>1, <1>6
<1>10. ASSUME NEW i \in 1..(k + 1) PROVE C[n + i] = Bytes(s) + B[i]
  BY <1>1, <1>5, <1>7
<1> QED BY <1>8, <1>9, <1>10 DEF A, B, C, n, k

\* Chunks start one after the other.
LEMMA StartsGrow ==
    ASSUME NEW s, Sized(s)
    PROVE  \A i, j \in 1..(Len(s) + 1) : i <= j => Starts(s)[i] <= Starts(s)[j]
<1> DEFINE A == Starts(s)
           n == Len(s)
<1>1. /\ n \in Nat /\ A \in [1..(n + 1) -> Nat]
      /\ \A i \in 1..n : A[i + 1] = A[i] + s[i].n
      /\ \A i \in 1..n : s[i].n \in Nat
  BY StartsSteps DEF Sized
<1> HIDE DEF A, n
<1>2. SUFFICES ASSUME NEW i \in 1..(n + 1) PROVE \A j \in 1..(n + 1) : i <= j => A[i] <= A[j]
  BY DEF A, n
<1> DEFINE T == {d \in Nat : i + d \in 1..(n + 1) => A[i] <= A[i + d]}
<1>3. 0 \in T
  BY <1>1
<1>4. ASSUME NEW d \in Nat, d \in T PROVE d + 1 \in T
  <2> SUFFICES ASSUME i + (d + 1) \in 1..(n + 1) PROVE A[i] <= A[i + (d + 1)]
    OBVIOUS
  <2>1. i + d \in 1..n /\ i + d \in 1..(n + 1) /\ (i + d) + 1 = i + (d + 1)
    BY <1>1
  <2>2. A[i] <= A[i + d] /\ A[i + (d + 1)] = A[i + d] + s[i + d].n
    BY <1>1, <1>4, <2>1
  <2>3. A[i] \in Nat /\ A[i + d] \in Nat /\ s[i + d].n \in Nat
    BY <1>1, <2>1
  <2> QED BY <2>2, <2>3
<1>5. \A d \in Nat : d \in T
  <2> HIDE DEF T
  <2> QED BY <1>3, <1>4, SetInduction
<1>6. ASSUME NEW j \in 1..(n + 1), i <= j PROVE A[i] <= A[j]
  <2>1. j - i \in Nat /\ i + (j - i) = j
    BY <1>1, <1>6
  <2>2. j - i \in T
    BY <1>5, <2>1
  <2> QED BY <2>1, <2>2
<1> QED BY <1>6

-----------------------------------------------------------------------------
(* Chunks in the middle of others. *)

\* The chunks s are in b, from the byte p on.
LiesAt(b, p, s) ==
  \E pre, post \in Seq(Chunk) : b = (pre \o s) \o post /\ p = Bytes(pre)

\* What lies in b begins and ends within it.
LEMMA LiesTyped ==
    ASSUME NEW b, NEW p, NEW s \in Seq(Chunk), LiesAt(b, p, s)
    PROVE  /\ b \in Seq(Chunk) /\ p \in Nat /\ Bytes(b) \in Nat /\ Bytes(s) \in Nat
           /\ p + Bytes(s) <= Bytes(b)
<1>1. PICK pre \in Seq(Chunk), post \in Seq(Chunk) : b = (pre \o s) \o post /\ p = Bytes(pre)
  BY DEF LiesAt
<1>2. pre \o s \in Seq(Chunk) /\ (pre \o s) \o post \in Seq(Chunk)
  BY ConcatProperties
<1>3. Sized(pre) /\ Sized(s) /\ Sized(post) /\ Sized(pre \o s)
  BY <1>2, ChunksSized
<1>4. Bytes(pre) \in Nat /\ Bytes(s) \in Nat /\ Bytes(post) \in Nat
  BY <1>3, BytesType
<1>5. Bytes(pre \o s) = Bytes(pre) + Bytes(s)
      /\ Bytes((pre \o s) \o post) = Bytes(pre \o s) + Bytes(post)
  BY <1>3, StartsConcat
<1> QED BY <1>1, <1>2, <1>4, <1>5

\* Nothing takes no bytes.
LEMMA NoBytes == Bytes(<<>>) = 0
<1>1. <<>> \in Seq(Chunk)
  OBVIOUS
<1>2. Sized(<<>>) /\ Len(<<>>) = 0
  BY <1>1, ChunksSized
<1> QED BY <1>2, StartsSteps DEF Bytes

\* All of a sequence lies at its beginning.
LEMMA LiesAll ==
    ASSUME NEW s \in Seq(Chunk)
    PROVE  LiesAt(s, 0, s)
<1>1. <<>> \in Seq(Chunk)
  OBVIOUS
<1>2. s = (<<>> \o s) \o <<>>
  BY <1>1, ConcatEmptySeq
<1> QED BY <1>1, <1>2, NoBytes DEF LiesAt

\* The two parts of what lies somewhere.
LEMMA LiesSplit ==
    ASSUME NEW b, NEW p, NEW s \in Seq(Chunk), NEW t \in Seq(Chunk), LiesAt(b, p, s \o t)
    PROVE  LiesAt(b, p, s) /\ LiesAt(b, p + Bytes(s), t)
<1>1. PICK pre \in Seq(Chunk), post \in Seq(Chunk) :
             b = (pre \o (s \o t)) \o post /\ p = Bytes(pre)
  BY DEF LiesAt
<1>2. pre \o s \in Seq(Chunk) /\ t \o post \in Seq(Chunk)
  BY ConcatProperties
<1>3. pre \o (s \o t) = (pre \o s) \o t
  BY ConcatAssociative
<1>4. ((pre \o s) \o t) \o post = (pre \o s) \o (t \o post)
  <2> DEFINE x == pre \o s
  <2>1. x \in Seq(Chunk)
    BY <1>2
  <2> HIDE DEF x
  <2>2. (x \o t) \o post = x \o (t \o post)
    BY <2>1, ConcatAssociative
  <2> QED BY <2>2 DEF x
<1>5. LiesAt(b, p, s)
  BY <1>1, <1>2, <1>3, <1>4 DEF LiesAt
<1>6. Bytes(pre \o s) = p + Bytes(s)
  BY <1>1, ChunksSized, StartsConcat
<1>7. LiesAt(b, p + Bytes(s), t)
  BY <1>1, <1>2, <1>3, <1>6 DEF LiesAt
<1> QED BY <1>5, <1>7

\* The place of each of the chunks s, which stand between others.
LEMMA Middle ==
    ASSUME NEW pre \in Seq(Chunk), NEW s \in Seq(Chunk), NEW post \in Seq(Chunk),
           NEW j \in 1..Len(s)
    PROVE  LET b == (pre \o s) \o post
           IN  /\ Len(pre) + j \in 1..Len(b) /\ b[Len(pre) + j] = s[j]
               /\ Starts(b)[Len(pre) + j] = Bytes(pre) + Starts(s)[j]
<1> DEFINE q == pre \o s
           b == (pre \o s) \o post
<1>1. Sized(pre) /\ Sized(s) /\ Sized(post) /\ IsSeq(pre) /\ IsSeq(s) /\ IsSeq(post)
  BY ChunksSized DEF Sized
<1>2. q \in Seq(Chunk)
  BY ConcatProperties
<1>3. /\ Len(q) = Len(pre) + Len(s) /\ Len(pre) \in Nat /\ Len(s) \in Nat
      /\ q[Len(pre) + j] = s[j]
  BY <1>1, IsSeqConcat
<1>4. Starts(q)[Len(pre) + j] = Bytes(pre) + Starts(s)[j]
  <2>1. \A i \in 1..(Len(s) + 1) : Starts(pre \o s)[Len(pre) + i] = Bytes(pre) + Starts(s)[i]
    BY <1>1, StartsConcat
  <2>2. j \in 1..(Len(s) + 1)
    BY <1>3
  <2> QED BY <2>1, <2>2
<1>5. b = q \o post
  OBVIOUS
<1> HIDE DEF q, b
<1>6. Sized(q) /\ IsSeq(q)
  BY <1>2, ChunksSized DEF Sized
<1>7. /\ Len(q \o post) = Len(q) + Len(post) /\ Len(post) \in Nat
      /\ \A i \in 1..Len(q) : (q \o post)[i] = q[i]
  BY <1>1, <1>6, IsSeqConcat
<1>8. \A i \in 1..(Len(q) + 1) : Starts(q \o post)[i] = Starts(q)[i]
  BY <1>1, <1>6, StartsConcat
<1>9. /\ Len(pre) + j \in 1..Len(q) /\ Len(pre) + j \in 1..(Len(q) + 1)
      /\ Len(pre) + j \in 1..(Len(q) + Len(post))
  BY <1>3, <1>7
<1>10. (q \o post)[Len(pre) + j] = s[j]
  BY <1>3, <1>7, <1>9
<1>11. Starts(q \o post)[Len(pre) + j] = Bytes(pre) + Starts(s)[j]
  BY <1>4, <1>8, <1>9
<1>12. Len(pre) + j \in 1..Len(q \o post)
  BY <1>7, <1>9
<1> QED BY <1>5, <1>10, <1>11, <1>12 DEF b

\* A chunk that lies somewhere is what is read there.
LEMMA LiesRead ==
    ASSUME NEW b, NEW p, NEW c \in Chunk, LiesAt(b, p, <<c>>)
    PROVE  /\ c.k = "int" => ReadInt(Placed(b), p, c.n) = c.v
           /\ c.k = "text" => ReadText(Placed(b), p, c.n) = c.v
<1>1. PICK pre \in Seq(Chunk), post \in Seq(Chunk) :
             b = (pre \o <<c>>) \o post /\ p = Bytes(pre)
  BY DEF LiesAt
<1>2. <<c>> \in Seq(Chunk) /\ Len(<<c>>) = 1 /\ <<c>>[1] = c
  OBVIOUS
<1>3. b \in Seq(Chunk) /\ pre \o <<c>> \in Seq(Chunk)
  BY <1>1, <1>2, ConcatProperties
<1> DEFINE A == Starts(b)
           n == Len(b)
           i == Len(pre) + 1
<1>4. /\ n \in Nat /\ DOMAIN b = 1..n /\ A \in [1..(n + 1) -> Nat]
      /\ \A j \in 1..n : A[j + 1] = A[j] + b[j].n
  BY <1>3, ChunksSized, StartsSteps
<1>5. i \in 1..n /\ b[i] = c /\ A[i] = p
  <2> DEFINE o == <<c>>
  <2>1. o \in Seq(Chunk) /\ 1 \in 1..Len(o) /\ o[1] = c /\ b = (pre \o o) \o post
    BY <1>1, <1>2
  <2>2. Starts(o)[1] = 0
    <3> HIDE DEF o
    <3> QED BY <2>1, ChunksSized, StartsSteps
  <2> HIDE DEF o, A, n, i
  <2>3. /\ Len(pre) + 1 \in 1..Len(b) /\ b[Len(pre) + 1] = o[1]
        /\ Starts(b)[Len(pre) + 1] = Bytes(pre) + Starts(o)[1]
    <3>1. \A j \in 1..Len(o) :
            /\ Len(pre) + j \in 1..Len(b) /\ b[Len(pre) + j] = o[j]
            /\ Starts(b)[Len(pre) + j] = Bytes(pre) + Starts(o)[j]
      BY <2>1, Middle
    <3> QED BY <2>1, <3>1
  <2> USE DEF A, n, i
  <2>4. Bytes(pre) \in Nat
    BY ChunksSized, BytesType
  <2> QED BY <1>1, <2>1, <2>2, <2>3, <2>4
<1>6. \A j \in 1..n : b[j] \in Chunk /\ b[j].n \in Nat /\ b[j].n > 0
  <2>1. \A x \in Chunk : x.n \in Nat /\ x.n > 0
    BY DEF Chunk, Width
  <2>2. \A j \in 1..n : b[j] \in Chunk
    BY <1>3
  <2> QED BY <2>1, <2>2
<1>7. ASSUME NEW j \in 1..n, A[j] = p PROVE j = i
  <2>1. \A x, y \in 1..(n + 1) : x <= y => A[x] <= A[y]
    BY <1>3, ChunksSized, StartsGrow
  <2> HIDE DEF A, n, i
  <2>2. ASSUME NEW x \in 1..n, NEW y \in 1..n, A[x] = A[y] PROVE ~ (x < y)
    <3> SUFFICES ASSUME x < y PROVE FALSE
      OBVIOUS
    <3>1. x + 1 \in 1..(n + 1) /\ y \in 1..(n + 1) /\ x + 1 <= y /\ x \in 1..(n + 1)
      BY <1>4
    <3>2. A[x + 1] <= A[y] /\ A[x + 1] = A[x] + b[x].n
      BY <1>4, <2>1, <3>1
    <3>3. A[x] \in Nat /\ A[y] \in Nat /\ b[x].n \in Nat /\ b[x].n > 0
      BY <1>4, <1>6, <3>1
    <3> QED BY <2>2, <3>2, <3>3
  <2>3. ~ (j < i) /\ ~ (i < j)
    BY <1>5, <1>7, <2>2
  <2>4. i \in Int /\ j \in Int
    BY <1>4, <1>5
  <2> QED BY <2>3, <2>4
<1> DEFINE P == Placed(b)
<1>8. /\ DOMAIN P = 1..n
      /\ \A j \in 1..n : P[j] = [n |-> b[j].n, k |-> b[j].k, v |-> b[j].v, at |-> A[j]]
  BY <1>4 DEF Placed
<1> HIDE DEF A, n, i, P
<1>9. \A j \in 1..n : P[j].n = b[j].n /\ P[j].k = b[j].k /\ P[j].v = b[j].v /\ P[j].at = A[j]
  BY <1>8
<1>10. \A k : k = c.k => Exactly(P, p, c.n, k) = {i}
  BY <1>5, <1>7, <1>8, <1>9 DEF Exactly
<1>11. \A k : k = c.k => P[CHOOSE j \in Exactly(P, p, c.n, k) : TRUE].v = c.v
  BY <1>5, <1>9, <1>10
<1>12. c.k = "int" => ReadInt(P, p, c.n) = c.v
  BY <1>10, <1>11 DEF ReadInt
<1>13. c.k = "text" => ReadText(P, p, c.n) = c.v
  BY <1>10, <1>11 DEF ReadText
<1> QED BY <1>12, <1>13 DEF P

\* The size of the placed chunks is the number of their bytes.
LEMMA SizePlaced ==
    ASSUME NEW b \in Seq(Chunk)
    PROVE  Size(Placed(b)) = Bytes(b)
<1> DEFINE A == Starts(b)
           n == Len(b)
           P == Placed(b)
<1>1. /\ n \in Nat /\ DOMAIN b = 1..n /\ A \in [1..(n + 1) -> Nat] /\ A[1] = 0
      /\ \A j \in 1..n : A[j + 1] = A[j] + b[j].n
  BY ChunksSized, StartsSteps
<1>2. /\ DOMAIN P = 1..n /\ Len(P) = n
      /\ \A j \in 1..n : P[j] = [n |-> b[j].n, k |-> b[j].k, v |-> b[j].v, at |-> A[j]]
  BY <1>1 DEF Placed
<1>3. Bytes(b) = A[n + 1]
  BY DEF Bytes
<1> HIDE DEF A, n, P
<1>4. CASE n = 0
  <2>1. P = <<>>
    <3>1. b = <<>>
      BY <1>4, EmptySeq DEF n
    <3> QED BY <1>1, <1>4, <3>1 DEF P, Placed
  <2> QED BY <1>1, <1>3, <1>4, <2>1 DEF Size, P
<1>5. CASE n # 0
  <2>1. n \in 1..n
    BY <1>1, <1>5
  <2>2. P # <<>>
    BY <1>2, <2>1
  <2>3. P[n].at = A[n] /\ P[n].n = b[n].n
    BY <1>2, <2>1
  <2> QED BY <1>1, <1>2, <1>3, <2>1, <2>2, <2>3 DEF Size, P
<1> QED BY <1>4, <1>5

\* Each of the chunks that lie somewhere.
LEMMA LiesElement ==
    ASSUME NEW b, NEW p, NEW s \in Seq(Chunk), LiesAt(b, p, s), NEW j \in 1..Len(s)
    PROVE  LiesAt(b, p + Starts(s)[j], <<s[j]>>)
<1> DEFINE x == SubSeq(s, 1, j - 1)
           o == <<s[j]>>
           y == SubSeq(s, j + 1, Len(s))
<1>1. Len(s) \in Nat /\ \A i \in 1..Len(s) : s[i] \in Chunk
  OBVIOUS
<1>2. x \in Seq(Chunk) /\ Len(x) = j - 1 /\ \A i \in 1..(j - 1) : x[i] = s[i]
  <2>1. \A i \in 1..(j - 1) : s[i] \in Chunk
    BY <1>1
  <2>2. /\ SubSeq(s, 1, j - 1) \in Seq(Chunk)
        /\ Len(SubSeq(s, 1, j - 1)) = IF 1 <= j - 1 THEN (j - 1) - 1 + 1 ELSE 0
        /\ \A i \in 1..((j - 1) - 1 + 1) : SubSeq(s, 1, j - 1)[i] = s[1 + i - 1]
    BY <1>1, <2>1, SubSeqProperties
  <2> QED BY <1>1, <2>2
<1>3. y \in Seq(Chunk) /\ Len(y) = Len(s) - j /\ \A i \in 1..(Len(s) - j) : y[i] = s[j + i]
  <2>1. \A i \in (j + 1)..Len(s) : s[i] \in Chunk
    BY <1>1
  <2>2. /\ SubSeq(s, j + 1, Len(s)) \in Seq(Chunk)
        /\ Len(SubSeq(s, j + 1, Len(s))) = IF j + 1 <= Len(s) THEN Len(s) - (j + 1) + 1 ELSE 0
        /\ \A i \in 1..(Len(s) - (j + 1) + 1) : SubSeq(s, j + 1, Len(s))[i] = s[(j + 1) + i - 1]
    BY <1>1, <2>1, SubSeqProperties
  <2> QED BY <1>1, <2>2
<1>4. o \in Seq(Chunk) /\ Len(o) = 1 /\ o[1] = s[j]
  BY <1>1
<1> HIDE DEF x, o, y
<1>5. x \o o \in Seq(Chunk) /\ (x \o o) \o y \in Seq(Chunk)
  BY <1>2, <1>3, <1>4, ConcatProperties
<1>6. s = (x \o o) \o y
  <2> DEFINE q == x \o o
  <2>1. /\ q \in Seq(Chunk) /\ Len(q) = j
        /\ \A i \in 1..j : q[i] = s[i]
    <3>1. /\ Len(x \o o) = Len(x) + Len(o)
          /\ \A i \in 1..(Len(x) + Len(o)) :
               (x \o o)[i] = IF i <= Len(x) THEN x[i] ELSE o[i - Len(x)]
      BY <1>2, <1>4, ConcatProperties
    <3>2. \A i \in 1..j : i <= j - 1 \/ i = j
      BY <1>1
    <3>3. \A i \in 1..j : (x \o o)[i] = s[i]
      BY <1>1, <1>2, <1>4, <3>1, <3>2
    <3> QED BY <1>1, <1>2, <1>4, <1>5, <3>1, <3>3
  <2> HIDE DEF q
  <2>2. /\ q \o y \in Seq(Chunk) /\ Len(q \o y) = Len(q) + Len(y)
        /\ \A i \in 1..(Len(q) + Len(y)) :
             (q \o y)[i] = IF i <= Len(q) THEN q[i] ELSE y[i - Len(q)]
    BY <1>3, <2>1, ConcatProperties
  <2>3. Len(q \o y) = Len(s)
    BY <1>1, <1>3, <2>1, <2>2
  <2>4. ASSUME NEW i \in 1..Len(s) PROVE (q \o y)[i] = s[i]
    <3>1. CASE i <= j
      BY <1>1, <1>3, <2>1, <2>2, <3>1
    <3>2. CASE ~ (i <= j)
      <4>1. i - j \in 1..(Len(s) - j) /\ j + (i - j) = i
        BY <1>1, <3>2
      <4> QED BY <1>1, <1>3, <2>1, <2>2, <3>2, <4>1
    <3> QED BY <3>1, <3>2
  <2>5. q \o y = s
    BY <2>2, <2>3, <2>4, SeqEqual
  <2> QED BY <2>5 DEF q
<1>7. LiesAt(b, p, (x \o o) \o y)
  BY <1>6
<1>8. LiesAt(b, p, x \o o)
  <2> DEFINE q == x \o o
  <2>1. q \in Seq(Chunk) /\ LiesAt(b, p, q \o y)
    BY <1>5, <1>7
  <2> HIDE DEF q
  <2>2. LiesAt(b, p, q)
    BY <1>3, <2>1, LiesSplit
  <2> QED BY <2>2 DEF q
<1>9. LiesAt(b, p + Bytes(x), o)
  BY <1>2, <1>4, <1>8, LiesSplit
<1>10. Bytes(x) = Starts(s)[j]
  <2>1. Starts((x \o o) \o y)[Len(x) + 1] = Bytes(x) + Starts(o)[1]
    <3>1. \A i \in 1..Len(o) :
            Starts((x \o o) \o y)[Len(x) + i] = Bytes(x) + Starts(o)[i]
      BY <1>2, <1>3, <1>4, Middle
    <3> QED BY <1>4, <3>1
  <2>2. Starts(o)[1] = 0 /\ Bytes(x) \in Nat
    BY <1>2, <1>4, ChunksSized, StartsSteps, BytesType
  <2>3. Len(x) + 1 = j
    BY <1>1, <1>2
  <2> QED BY <1>6, <2>1, <2>2, <2>3
<1> QED BY <1>9, <1>10 DEF o

\* Chunks in a row, written out.
LEMMA LiesOne ==
    ASSUME NEW a \in Chunk
    PROVE  <<a>> \in Seq(Chunk) /\ Bytes(<<a>>) = a.n
<1> DEFINE s == <<a>>
<1>1. s \in Seq(Chunk) /\ Len(s) = 1 /\ s[1] = a
  OBVIOUS
<1>2. a.n \in Nat
  BY DEF Chunk, Width
<1> HIDE DEF s
<1>3. Starts(s)[1] = 0 /\ \A i \in 1..1 : Starts(s)[i + 1] = Starts(s)[i] + s[i].n
  BY <1>1, ChunksSized, StartsSteps
<1>4. Bytes(s) = a.n
  BY <1>1, <1>2, <1>3 DEF Bytes
<1> QED BY <1>1, <1>4 DEF s

\* Two chunks lie one behind the other.
LEMMA LiesTwo ==
    ASSUME NEW a \in Chunk, NEW b \in Chunk
    PROVE  /\ <<a, b>> \in Seq(Chunk) /\ Bytes(<<a, b>>) = a.n + b.n
           /\ \A w, p : p \in Nat /\ LiesAt(w, p, <<a, b>>) =>
                          LiesAt(w, p, <<a>>) /\ LiesAt(w, p + a.n, <<b>>)
<1> DEFINE s == <<a, b>>
<1>1. s \in Seq(Chunk) /\ Len(s) = 2 /\ s[1] = a /\ s[2] = b
  OBVIOUS
<1>2. a.n \in Nat /\ b.n \in Nat
  BY DEF Chunk, Width
<1> HIDE DEF s
<1>3. Starts(s)[1] = 0 /\ \A i \in 1..2 : Starts(s)[i + 1] = Starts(s)[i] + s[i].n
  BY <1>1, ChunksSized, StartsSteps
<1>4. Starts(s)[2] = a.n /\ Starts(s)[3] = a.n + b.n
  <2>1. Starts(s)[1 + 1] = Starts(s)[1] + s[1].n
    BY <1>3
  <2>2. Starts(s)[2 + 1] = Starts(s)[2] + s[2].n
    BY <1>3
  <2> QED BY <1>1, <1>2, <1>3, <2>1, <2>2
<1>5. Bytes(s) = a.n + b.n
  BY <1>1, <1>4 DEF Bytes
<1>6. ASSUME NEW w, NEW p, p \in Nat, LiesAt(w, p, s)
      PROVE  LiesAt(w, p, <<a>>) /\ LiesAt(w, p + a.n, <<b>>)
  <2>1. 1 \in 1..Len(s) /\ 2 \in 1..Len(s)
    BY <1>1
  <2>2. LiesAt(w, p + Starts(s)[1], <<s[1]>>) /\ LiesAt(w, p + Starts(s)[2], <<s[2]>>)
    BY <1>1, <1>6, <2>1, LiesElement
  <2>3. p + Starts(s)[1] = p
    BY <1>3, <1>6
  <2> QED BY <1>1, <1>4, <2>2, <2>3
<1> QED BY <1>1, <1>5, <1>6 DEF s

\* Three chunks lie one behind the other.
LEMMA LiesThree ==
    ASSUME NEW a \in Chunk, NEW b \in Chunk, NEW c \in Chunk
    PROVE  /\ <<a, b, c>> \in Seq(Chunk) /\ Bytes(<<a, b, c>>) = a.n + b.n + c.n
           /\ \A w, p : p \in Nat /\ LiesAt(w, p, <<a, b, c>>) =>
                          /\ LiesAt(w, p, <<a>>) /\ LiesAt(w, p + a.n, <<b>>)
                          /\ LiesAt(w, p + a.n + b.n, <<c>>)
<1> DEFINE s == <<a, b, c>>
<1>1. s \in Seq(Chunk) /\ Len(s) = 3 /\ s[1] = a /\ s[2] = b /\ s[3] = c
  OBVIOUS
<1>2. a.n \in Nat /\ b.n \in Nat /\ c.n \in Nat
  BY DEF Chunk, Width
<1> HIDE DEF s
<1>3. Starts(s)[1] = 0 /\ \A i \in 1..3 : Starts(s)[i + 1] = Starts(s)[i] + s[i].n
  BY <1>1, ChunksSized, StartsSteps
<1>4. Starts(s)[2] = a.n /\ Starts(s)[3] = a.n + b.n /\ Starts(s)[4] = a.n + b.n + c.n
  <2>1. Starts(s)[1 + 1] = Starts(s)[1] + s[1].n
    BY <1>3
  <2>2. Starts(s)[2 + 1] = Starts(s)[2] + s[2].n
    BY <1>3
  <2>3. Starts(s)[3 + 1] = Starts(s)[3] + s[3].n
    BY <1>3
  <2> QED BY <1>1, <1>2, <1>3, <2>1, <2>2, <2>3
<1>5. Bytes(s) = a.n + b.n + c.n
  BY <1>1, <1>4 DEF Bytes
<1>6. ASSUME NEW w, NEW p, p \in Nat, LiesAt(w, p, s)
      PROVE  /\ LiesAt(w, p, <<a>>) /\ LiesAt(w, p + a.n, <<b>>)
             /\ LiesAt(w, p + a.n + b.n, <<c>>)
  <2>1. 1 \in 1..Len(s) /\ 2 \in 1..Len(s) /\ 3 \in 1..Len(s)
    BY <1>1
  <2>2. /\ LiesAt(w, p + Starts(s)[1], <<s[1]>>) /\ LiesAt(w, p + Starts(s)[2], <<s[2]>>)
        /\ LiesAt(w, p + Starts(s)[3], <<s[3]>>)
    BY <1>1, <1>6, <2>1, LiesElement
  <2>3. p + Starts(s)[1] = p /\ p + (a.n + b.n) = p + a.n + b.n
    BY <1>2, <1>3, <1>6
  <2> QED BY <1>1, <1>4, <2>2, <2>3
<1> QED BY <1>1, <1>5, <1>6 DEF s

\* Chunks of one width.
LEMMA UniformStarts ==
    ASSUME NEW s \in Seq(Chunk), NEW w \in Nat, \A i \in 1..Len(s) : s[i].n = w
    PROVE  /\ \A i \in 1..Len(s) : Starts(s)[i] = (i - 1) * w
           /\ Bytes(s) = Len(s) * w
<1> DEFINE A == Starts(s)
           n == Len(s)
<1>1. /\ n \in Nat /\ A \in [1..(n + 1) -> Nat] /\ A[1] = 0
      /\ \A i \in 1..n : A[i + 1] = A[i] + w
  BY ChunksSized, StartsSteps
<1>2. Bytes(s) = A[n + 1]
  BY DEF Bytes
<1> HIDE DEF A, n
<1> DEFINE T == {i \in Nat : i \in 0..n => A[i + 1] = i * w}
<1>3. 0 \in T
  BY <1>1
<1>4. ASSUME NEW i \in Nat, i \in T PROVE i + 1 \in T
  <2> SUFFICES ASSUME i + 1 \in 0..n PROVE A[(i + 1) + 1] = (i + 1) * w
    OBVIOUS
  <2>1. i \in 0..n /\ i + 1 \in 1..n
    BY <1>1
  <2>2. A[i + 1] = i * w /\ A[(i + 1) + 1] = A[i + 1] + w
    BY <1>1, <1>4, <2>1
  <2>3. (i + 1) * w = i * w + w
    OBVIOUS
  <2> QED BY <2>2, <2>3
<1>5. \A i \in Nat : i \in T
  <2> HIDE DEF T
  <2> QED BY <1>3, <1>4, SetInduction
<1>6. ASSUME NEW i \in 1..n PROVE A[i] = (i - 1) * w
  <2>1. i - 1 \in Nat /\ i - 1 \in 0..n /\ (i - 1) + 1 = i
    BY <1>1
  <2>2. i - 1 \in T
    BY <1>5, <2>1
  <2> QED BY <2>1, <2>2
<1>7. A[n + 1] = n * w
  <2>1. n \in T /\ n \in 0..n
    BY <1>1, <1>5
  <2> QED BY <2>1
<1> QED BY <1>2, <1>6, <1>7 DEF A, n

\* A product of sizes is a size.
LEMMA Product ==
    ASSUME NEW x \in Nat, NEW y \in Nat
    PROVE  x * y \in Nat
OBVIOUS

\* Numbers and texts make chunks.
LEMMA ChunkTypes ==
    ASSUME NEW n \in Width
    PROVE  /\ \A v \in Int : /\ U(n, v) \in Chunk /\ U(n, v).n = n /\ U(n, v).v = v
                             /\ U(n, v).k = "int"
           /\ \A v \in Text : /\ Cstr(n, v) \in Chunk /\ Cstr(n, v).n = n
                              /\ Cstr(n, v).v = v /\ Cstr(n, v).k = "text"
BY DEF U, Cstr, Chunk, Value

\* A number, and a text, read where it lies.
LEMMA LiesInt ==
    ASSUME NEW n \in Width, NEW v \in Int, NEW b, NEW p, LiesAt(b, p, <<U(n, v)>>)
    PROVE  ReadInt(Placed(b), p, n) = v
<1> DEFINE c == U(n, v)
<1>1. c \in Chunk /\ c.n = n /\ c.v = v /\ c.k = "int"
  BY ChunkTypes
<1> HIDE DEF c
<1> QED BY <1>1, LiesRead DEF c

\* A text is read where it lies.
LEMMA LiesText ==
    ASSUME NEW n \in Width, NEW v \in Text, NEW b, NEW p, LiesAt(b, p, <<Cstr(n, v)>>)
    PROVE  ReadText(Placed(b), p, n) = v
<1> DEFINE c == Cstr(n, v)
<1>1. c \in Chunk /\ c.n = n /\ c.v = v /\ c.k = "text"
  BY ChunkTypes
<1> HIDE DEF c
<1> QED BY <1>1, LiesRead DEF c

-----------------------------------------------------------------------------
(* The parts that repeat. *)

\* The length of a list of symbols, as encoded.
LEMMA SymbolsEncoded ==
    ASSUME NEW len \in Width, NEW symbols \in Seq(Text)
    PROVE  LET f == [i \in DOMAIN symbols |-> Cstr(len, symbols[i])]
               e == encode_repeated_symbol_cstr(len, symbols)
           IN  /\ f \in Seq(Chunk) /\ Len(f) = Len(symbols) /\ Bytes(f) = Len(symbols) * len
               /\ \A i \in 1..Len(symbols) : Starts(f)[i] = (i - 1) * len
               /\ e = <<U(4, Len(symbols))>> \o f
               /\ e \in Seq(Chunk) /\ Bytes(e) = 4 + Len(symbols) * len
<1> DEFINE f == [i \in DOMAIN symbols |-> Cstr(len, symbols[i])]
           e == encode_repeated_symbol_cstr(len, symbols)
           n == Len(symbols)
           h == U(4, n)
<1>1. n \in Nat /\ DOMAIN symbols = 1..n /\ \A i \in 1..n : symbols[i] \in Text
  OBVIOUS
<1>2. \A i \in 1..n : Cstr(len, symbols[i]) \in Chunk /\ Cstr(len, symbols[i]).n = len
  BY <1>1, ChunkTypes
<1>3. f \in Seq(Chunk) /\ Len(f) = n /\ \A i \in 1..n : f[i].n = len
  <2>1. f \in [1..n -> Chunk]
    BY <1>1, <1>2
  <2> QED BY <1>1, <1>2, <2>1, SeqDef
<1>4. e = <<h>> \o f
  BY DEF encode_repeated_symbol_cstr
<1>5. h \in Chunk /\ h.n = 4
  <2>1. 4 \in Width /\ n \in Int
    BY <1>1 DEF Width
  <2> QED BY <2>1, ChunkTypes
<1> HIDE DEF f, e, h, n
<1>6. len \in Nat
  BY DEF Width
<1>7. Bytes(f) = n * len /\ \A i \in 1..n : Starts(f)[i] = (i - 1) * len
  BY <1>3, <1>6, UniformStarts
<1>8. <<h>> \in Seq(Chunk) /\ Bytes(<<h>>) = 4
  BY <1>5, LiesOne
<1>9. e \in Seq(Chunk) /\ Bytes(e) = 4 + n * len
  <2> DEFINE o == <<h>>
  <2>1. o \in Seq(Chunk) /\ Bytes(o) = 4 /\ e = o \o f
    BY <1>4, <1>8
  <2> HIDE DEF o
  <2>2. o \o f \in Seq(Chunk)
    BY <1>3, <2>1, ConcatProperties
  <2>3. Bytes(o \o f) = Bytes(o) + Bytes(f)
    BY <1>3, <2>1, ChunksSized, StartsConcat
  <2> QED BY <1>7, <2>1, <2>2, <2>3
<1> QED BY <1>3, <1>4, <1>7, <1>9 DEF f, e, h, n

\* decode_metadata_repeated_symbol_cstr reads what encode_repeated_symbol_cstr wrote.
LEMMA SymbolsDecoded ==
    ASSUME NEW len \in Width, NEW symbols \in Seq(Text), NEW b, NEW p,
           LiesAt(b, p, encode_repeated_symbol_cstr(len, symbols))
    PROVE  decode_metadata_repeated_symbol_cstr(Placed(b), len, p) =
             Decoding(p + 4 + Len(symbols) * len, symbols, TRUE)
<1> DEFINE f == [i \in DOMAIN symbols |-> Cstr(len, symbols[i])]
           e == encode_repeated_symbol_cstr(len, symbols)
           n == Len(symbols)
           o == <<U(4, n)>>
           w == n * len
<1>0. 4 \in Width /\ n \in Nat /\ n \in Int /\ len \in Nat /\ DOMAIN symbols = 1..n
  BY DEF Width
<1>1. /\ f \in Seq(Chunk) /\ Len(f) = n
      /\ \A i \in 1..n : Starts(f)[i] = (i - 1) * len
      /\ e = o \o f /\ e \in Seq(Chunk) /\ Bytes(e) = 4 + w
  BY SymbolsEncoded
<1>2. o \in Seq(Chunk) /\ Bytes(o) = 4
  <2> DEFINE c == U(4, n)
  <2>1. c \in Chunk /\ c.n = 4
    BY <1>0, ChunkTypes
  <2> HIDE DEF c
  <2>2. <<c>> \in Seq(Chunk) /\ Bytes(<<c>>) = 4
    BY <2>1, LiesOne
  <2> QED BY <2>2 DEF c
<1>3. \A i \in 1..n : f[i] = Cstr(len, symbols[i]) /\ symbols[i] \in Text
  BY <1>0
<1>3a. w \in Nat
  BY <1>0
<1> HIDE DEF f, e, o, w
<1>4. LiesAt(b, p, e) /\ LiesAt(b, p, o) /\ LiesAt(b, p + 4, f)
  <2>1. LiesAt(b, p, o \o f)
    BY <1>1 DEF e
  <2>2. LiesAt(b, p, o) /\ LiesAt(b, p + Bytes(o), f)
    BY <1>1, <1>2, <2>1, LiesSplit
  <2> QED BY <1>2, <2>2 DEF e
<1>5. p \in Nat /\ Bytes(b) \in Nat /\ p + (4 + w) <= Bytes(b) /\ b \in Seq(Chunk)
  BY <1>1, <1>4, LiesTyped
<1>6. Size(Placed(b)) = Bytes(b)
  BY <1>5, SizePlaced
<1>7. ReadInt(Placed(b), p, 4) = n
  BY <1>0, <1>4, LiesInt DEF o
<1>8. ASSUME NEW i \in 1..n
      PROVE  ReadText(Placed(b), p + 4 + (i - 1) * len, len) = symbols[i]
  <2> DEFINE q == (i - 1) * len
  <2>1. i \in 1..Len(f) /\ Starts(f)[i] = q /\ f[i] = Cstr(len, symbols[i]) /\ symbols[i] \in Text
    BY <1>1, <1>3
  <2> HIDE DEF q
  <2>2. LiesAt(b, p + 4 + q, <<f[i]>>)
    BY <1>1, <1>4, <2>1, LiesElement
  <2>3. ReadText(Placed(b), p + 4 + q, len) = symbols[i]
    BY <2>1, <2>2, LiesText
  <2> QED BY <2>3 DEF q
<1>9. [i \in 1..n |-> ReadText(Placed(b), p + 4 + (i - 1) * len, len)] = symbols
  <2>1. [i \in 1..n |-> ReadText(Placed(b), p + 4 + (i - 1) * len, len)] = [i \in 1..n |-> symbols[i]]
    BY <1>8, Zenon
  <2>2. symbols = [i \in 1..n |-> symbols[i]]
    BY <1>0
  <2> QED BY <2>1, <2>2
<1>10. /\ p + 4 <= Size(Placed(b)) /\ n # Garbage /\ p + 4 + n * len <= Size(Placed(b))
  BY <1>0, <1>3a, <1>5, <1>6 DEF Garbage, w
<1> DEFINE P == Placed(b)
<1> HIDE DEF P, n
<1>11. decode_metadata_repeated_symbol_cstr(P, len, p) =
         Decoding(p + 4 + n * len,
                  [i \in 1..n |-> ReadText(P, p + 4 + (i - 1) * len, len)], TRUE)
  BY <1>7, <1>10, Zenon DEF decode_metadata_repeated_symbol_cstr, P
<1> QED BY <1>9, <1>11 DEF P, n

\* Where the parts are that were put one after the other.
LEMMA FlattenLies ==
    ASSUME NEW seqs \in Seq(Seq(Chunk))
    PROVE  \E at \in [0..Len(seqs) -> Nat] :
             /\ at[0] = 0 /\ at[Len(seqs)] = Bytes(FlattenSeq(seqs))
             /\ \A i \in 1..Len(seqs) : at[i] = at[i - 1] + Bytes(seqs[i])
             /\ \A b, p : LiesAt(b, p, FlattenSeq(seqs)) =>
                            \A i \in 1..Len(seqs) : LiesAt(b, p + at[i - 1], seqs[i])
<1> DEFINE n == Len(seqs)
<1>1. n \in Nat /\ \A i \in 1..n : seqs[i] \in Seq(Chunk)
  OBVIOUS
<1>2. PICK f \in [0..n -> Seq(Chunk)] :
             /\ f[0] = <<>>
             /\ \A i \in 1..n : f[i] = f[i - 1] \o seqs[i]
             /\ FlattenSeq(seqs) = f[n]
  BY FlattenParts
<1> HIDE DEF n
<1>3. \A i \in 0..n : f[i] \in Seq(Chunk) /\ Bytes(f[i]) \in Nat
  BY ChunksSized, BytesType
<1> DEFINE at == [i \in 0..n |-> Bytes(f[i])]
<1>4. at \in [0..n -> Nat]
  BY <1>3
<1>5. at[0] = 0
  <2>1. Bytes(f[0]) = 0
    BY <1>2, NoBytes
  <2> QED BY <1>1, <2>1
<1>6. ASSUME NEW i \in 1..n
      PROVE  at[i] = at[i - 1] + Bytes(seqs[i])
  <2>1. i - 1 \in 0..n /\ i \in 0..n
    BY <1>1
  <2>2. f[i - 1] \in Seq(Chunk) /\ seqs[i] \in Seq(Chunk) /\ f[i] = f[i - 1] \o seqs[i]
    BY <1>1, <1>2, <2>1
  <2>3. Bytes(f[i]) = Bytes(f[i - 1]) + Bytes(seqs[i])
    BY <2>2, ChunksSized, StartsConcat
  <2> QED BY <2>1, <2>3
<1>7. at[n] = Bytes(FlattenSeq(seqs))
  BY <1>1, <1>2
<1>8. ASSUME NEW b, NEW p, LiesAt(b, p, FlattenSeq(seqs)), NEW i \in 1..n
      PROVE  LiesAt(b, p + at[i - 1], seqs[i])
  <2> DEFINE T == {j \in Nat : j \in 0..n => LiesAt(b, p, f[n - j])}
  <2>1. 0 \in T
    BY <1>1, <1>2, <1>8
  <2>2. ASSUME NEW j \in Nat, j \in T PROVE j + 1 \in T
    <3> SUFFICES ASSUME j + 1 \in 0..n PROVE LiesAt(b, p, f[n - (j + 1)])
      OBVIOUS
    <3>1. j \in 0..n /\ n - j \in 1..n /\ (n - j) - 1 = n - (j + 1) /\ n - (j + 1) \in 0..n
      BY <1>1
    <3>2. f[n - j] = f[n - (j + 1)] \o seqs[n - j] /\ f[n - (j + 1)] \in Seq(Chunk)
          /\ seqs[n - j] \in Seq(Chunk)
      BY <1>1, <1>2, <3>1
    <3>3. LiesAt(b, p, f[n - (j + 1)] \o seqs[n - j])
      BY <2>2, <3>1, <3>2
    <3> QED BY <3>2, <3>3, LiesSplit
  <2>3. \A j \in Nat : j \in T
    <3> HIDE DEF T
    <3> QED BY <2>1, <2>2, SetInduction
  <2>4. n - i \in Nat /\ n - i \in 0..n /\ n - (n - i) = i /\ i - 1 \in 0..n
    BY <1>1
  <2>5. n - i \in T
    BY <2>3, <2>4
  <2>6. LiesAt(b, p, f[i])
    BY <2>4, <2>5
  <2>7. f[i - 1] \in Seq(Chunk) /\ seqs[i] \in Seq(Chunk) /\ f[i] = f[i - 1] \o seqs[i]
    BY <1>1, <1>2, <2>4
  <2>8. LiesAt(b, p + Bytes(f[i - 1]), seqs[i])
    <3>1. LiesAt(b, p, f[i - 1] \o seqs[i])
      BY <2>6, <2>7
    <3> QED BY <2>7, <3>1, LiesSplit
  <2> QED BY <2>4, <2>8
<1> HIDE DEF at
<1> QED BY <1>4, <1>5, <1>6, <1>7, <1>8 DEF n

\* Parts of one width.
LEMMA UniformLies ==
    ASSUME NEW seqs \in Seq(Seq(Chunk)), NEW w \in Nat,
           \A i \in 1..Len(seqs) : Bytes(seqs[i]) = w
    PROVE  /\ Bytes(FlattenSeq(seqs)) = Len(seqs) * w
           /\ \A b, p : LiesAt(b, p, FlattenSeq(seqs)) =>
                          \A i \in 1..Len(seqs) : LiesAt(b, p + (i - 1) * w, seqs[i])
<1> DEFINE n == Len(seqs)
<1>1. n \in Nat
  OBVIOUS
<1>2. PICK at \in [0..n -> Nat] :
             /\ at[0] = 0 /\ at[n] = Bytes(FlattenSeq(seqs))
             /\ \A i \in 1..n : at[i] = at[i - 1] + Bytes(seqs[i])
             /\ \A b, p : LiesAt(b, p, FlattenSeq(seqs)) =>
                            \A i \in 1..n : LiesAt(b, p + at[i - 1], seqs[i])
  BY FlattenLies
<1>3. \A i \in 1..n : at[i] = at[i - 1] + w
  BY <1>2
<1> HIDE DEF n
<1> DEFINE T == {i \in Nat : i \in 0..n => at[i] = i * w}
<1>4. 0 \in T
  BY <1>2
<1>5. ASSUME NEW i \in Nat, i \in T PROVE i + 1 \in T
  <2> SUFFICES ASSUME i + 1 \in 0..n PROVE at[i + 1] = (i + 1) * w
    OBVIOUS
  <2>1. i \in 0..n /\ i + 1 \in 1..n /\ (i + 1) - 1 = i
    BY <1>1
  <2>2. at[i] = i * w /\ at[i + 1] = at[i] + w
    BY <1>3, <1>5, <2>1
  <2>3. (i + 1) * w = i * w + w
    OBVIOUS
  <2> QED BY <2>2, <2>3
<1>6. \A i \in Nat : i \in T
  <2> HIDE DEF T
  <2> QED BY <1>4, <1>5, SetInduction
<1>7. \A i \in 0..n : at[i] = i * w
  BY <1>1, <1>6
<1>8. n \in 0..n /\ \A i \in 1..n : i - 1 \in 0..n
  BY <1>1
<1>9. at[n] = n * w /\ \A i \in 1..n : at[i - 1] = (i - 1) * w
  BY <1>7, <1>8
<1> QED BY <1>2, <1>9 DEF n

-----------------------------------------------------------------------------
(* Dates. *)

\* A date survives encode_date and decode_iso8601, and is valid.
LEMMA DateDecoded ==
    ASSUME NEW d \in Date
    PROVE  \E raw \in Int : /\ encode_date(d) = U(4, raw)
                            /\ decode_iso8601(raw) = d /\ ValidDate(raw)
<1> DEFINE y == d[1]
           mo == d[2]
           da == d[3]
           raw == y * 10000 + mo * 100 + da
<1>1. y \in Nat /\ mo \in 1..12 /\ da \in 1..31 /\ d = <<y, mo, da>>
  BY DEF Date
<1>2. encode_date(d) = U(4, raw)
  BY DEF encode_date
<1> HIDE DEF y, mo, da
<1>3. /\ raw \in Int /\ raw # Garbage /\ raw \div 10000 = y
      /\ (raw % 10000) \div 100 = mo /\ raw % 100 = da
  <2>1. raw \in Nat
    BY <1>1
  <2>2. mo * 100 + da \in 0..9999 /\ da \in 0..99
    BY <1>1
  <2>3. raw \div 10000 = y /\ raw % 10000 = mo * 100 + da
    BY <1>1, <2>2
  <2>4. (mo * 100 + da) \div 100 = mo
    BY <1>1, <2>2
  <2>5. raw % 100 = da
    BY <1>1, <2>2
  <2> QED BY <2>1, <2>3, <2>4, <2>5 DEF Garbage
<1> HIDE DEF raw
<1>4. decode_iso8601(raw) = <<y, mo, da>>
  BY <1>3 DEF decode_iso8601
<1>5. ValidDate(raw)
  <2>1. decode_iso8601(raw)[2] = mo /\ decode_iso8601(raw)[3] = da
    BY <1>4
  <2> QED BY <1>1, <1>3, <2>1 DEF ValidDate
<1> QED BY <1>1, <1>2, <1>3, <1>4, <1>5

-----------------------------------------------------------------------------
(* Symbol mappings. *)

EncodedInterval(len, int) ==
  << encode_date(int.start_date), encode_date(int.end_date), Cstr(len, int.symbol) >>

\* The dates and the symbol of an interval are read where it lies.
LEMMA IntervalDecoded ==
    ASSUME NEW len \in Width, NEW int \in Interval
    PROVE  /\ EncodedInterval(len, int) \in Seq(Chunk)
           /\ Bytes(EncodedInterval(len, int)) = 2 * 4 + len
           /\ \A b, p : LiesAt(b, p, EncodedInterval(len, int)) =>
                /\ p \in Nat
                /\ ValidDate(ReadInt(Placed(b), p, 4)) /\ ValidDate(ReadInt(Placed(b), p + 4, 4))
                /\ decode_iso8601(ReadInt(Placed(b), p, 4)) = int.start_date
                /\ decode_iso8601(ReadInt(Placed(b), p + 4, 4)) = int.end_date
                /\ ReadText(Placed(b), p + 8, len) = int.symbol
<1>0. int.start_date \in Date /\ int.end_date \in Date /\ int.symbol \in Text /\ len \in Nat
      /\ 4 \in Width
  BY DEF Interval, Width
<1>1. PICK from \in Int : /\ encode_date(int.start_date) = U(4, from)
                          /\ decode_iso8601(from) = int.start_date /\ ValidDate(from)
  BY <1>0, DateDecoded
<1>2. PICK to \in Int : /\ encode_date(int.end_date) = U(4, to)
                        /\ decode_iso8601(to) = int.end_date /\ ValidDate(to)
  BY <1>0, DateDecoded
<1> DEFINE x == U(4, from)
           y == U(4, to)
           z == Cstr(len, int.symbol)
<1>3. x \in Chunk /\ y \in Chunk /\ z \in Chunk /\ x.n = 4 /\ y.n = 4 /\ z.n = len
  BY <1>0, ChunkTypes
<1>4. EncodedInterval(len, int) = <<x, y, z>>
  BY <1>1, <1>2 DEF EncodedInterval
<1> HIDE DEF x, y, z
<1>5. <<x, y, z>> \in Seq(Chunk) /\ Bytes(<<x, y, z>>) = 2 * 4 + len
  <2>1. <<x, y, z>> \in Seq(Chunk) /\ Bytes(<<x, y, z>>) = x.n + y.n + z.n
    BY <1>3, LiesThree
  <2> QED BY <1>0, <1>3, <2>1
<1>6. ASSUME NEW b, NEW p, LiesAt(b, p, <<x, y, z>>)
      PROVE  /\ p \in Nat
             /\ ReadInt(Placed(b), p, 4) = from /\ ReadInt(Placed(b), p + 4, 4) = to
             /\ ReadText(Placed(b), p + 8, len) = int.symbol
  <2>1. p \in Nat
    BY <1>5, <1>6, LiesTyped
  <2>2. /\ LiesAt(b, p, <<x>>) /\ LiesAt(b, p + x.n, <<y>>)
        /\ LiesAt(b, p + x.n + y.n, <<z>>)
    BY <1>3, <1>6, <2>1, LiesThree
  <2>3. p + x.n = p + 4 /\ p + x.n + y.n = p + 8
    BY <1>3, <2>1
  <2>4. LiesAt(b, p, <<U(4, from)>>) /\ LiesAt(b, p + 4, <<U(4, to)>>)
        /\ LiesAt(b, p + 8, <<Cstr(len, int.symbol)>>)
    BY <2>2, <2>3 DEF x, y, z
  <2> QED BY <1>0, <2>1, <2>4, LiesInt, LiesText
<1> QED BY <1>1, <1>2, <1>4, <1>5, <1>6

EncodedIntervals(len, ints) == [i \in DOMAIN ints |-> EncodedInterval(len, ints[i])]

\* The intervals of a mapping all take as many bytes.
LEMMA IntervalsEncoded ==
    ASSUME NEW len \in Width, NEW ints \in Seq(Interval)
    PROVE  /\ EncodedIntervals(len, ints) \in Seq(Seq(Chunk))
           /\ Len(EncodedIntervals(len, ints)) = Len(ints)
           /\ \A i \in 1..Len(ints) :
                /\ EncodedIntervals(len, ints)[i] = EncodedInterval(len, ints[i])
                /\ ints[i] \in Interval
                /\ Bytes(EncodedIntervals(len, ints)[i]) = 2 * 4 + len
           /\ FlattenSeq(EncodedIntervals(len, ints)) \in Seq(Chunk)
           /\ Bytes(FlattenSeq(EncodedIntervals(len, ints))) = Len(ints) * (2 * 4 + len)
<1> DEFINE e == EncodedIntervals(len, ints)
           n == Len(ints)
           w == 2 * 4 + len
<1>1. n \in Nat /\ DOMAIN ints = 1..n /\ \A i \in 1..n : ints[i] \in Interval
  OBVIOUS
<1>2. \A i \in 1..n : EncodedInterval(len, ints[i]) \in Seq(Chunk)
                      /\ Bytes(EncodedInterval(len, ints[i])) = w
  BY <1>1, IntervalDecoded
<1>3. /\ e \in Seq(Seq(Chunk)) /\ Len(e) = n
      /\ \A i \in 1..n : e[i] = EncodedInterval(len, ints[i])
  <2>1. e \in [1..n -> Seq(Chunk)] /\ \A i \in 1..n : e[i] = EncodedInterval(len, ints[i])
    BY <1>1, <1>2 DEF EncodedIntervals
  <2>2. \A f \in [1..n -> Seq(Chunk)] : f \in Seq(Seq(Chunk)) /\ Len(f) = n
    BY <1>1, SeqDef
  <2> HIDE DEF e
  <2> QED BY <2>1, <2>2
<1>4. w \in Nat
  BY DEF Width
<1> HIDE DEF e, n, w
<1>5. \A i \in 1..n : Bytes(e[i]) = w
  BY <1>2, <1>3
<1>6. FlattenSeq(e) \in Seq(Chunk)
  BY <1>3, FlattenSeqType
<1>7. Bytes(FlattenSeq(e)) = Len(e) * w
  BY <1>3, <1>4, <1>5, UniformLies
<1> QED BY <1>1, <1>3, <1>5, <1>6, <1>7 DEF e, n, w

\* The length of a mapping, as encoded.
LEMMA MappingEncoded ==
    ASSUME NEW len \in Width, NEW m \in Mapping
    PROVE  LET e == encode_symbol_mapping(len, m)
               h == << Cstr(len, m.raw_symbol), U(4, Len(m.intervals)) >>
           IN  /\ e = h \o FlattenSeq(EncodedIntervals(len, m.intervals))
               /\ h \in Seq(Chunk) /\ Bytes(h) = len + 4
               /\ e \in Seq(Chunk) /\ Bytes(e) = len + 4 + Len(m.intervals) * (2 * 4 + len)
<1> DEFINE x == Cstr(len, m.raw_symbol)
           y == U(4, Len(m.intervals))
           h == <<x, y>>
           f == FlattenSeq(EncodedIntervals(len, m.intervals))
           e == encode_symbol_mapping(len, m)
           w == Len(m.intervals) * (2 * 4 + len)
<1>1. m.raw_symbol \in Text /\ m.intervals \in Seq(Interval)
  BY DEF Mapping
<1>2. Len(m.intervals) \in Nat /\ 4 \in Width /\ len \in Nat /\ Len(m.intervals) \in Int
  BY <1>1 DEF Width
<1>3. x \in Chunk /\ y \in Chunk /\ x.n = len /\ y.n = 4
  BY <1>1, <1>2, ChunkTypes
<1>4. e = h \o f
  BY DEF encode_symbol_mapping, EncodedIntervals, EncodedInterval
<1>5. f \in Seq(Chunk) /\ Bytes(f) = w
  BY <1>1, IntervalsEncoded
<1>6. w \in Nat
  <2>1. 2 * 4 + len \in Nat
    BY <1>2
  <2> QED BY <1>2, <2>1, Product
<1> HIDE DEF x, y, f, e, w
<1>7. h \in Seq(Chunk) /\ Bytes(h) = len + 4
  BY <1>3, LiesTwo
<1> HIDE DEF h
<1>8. h \o f \in Seq(Chunk)
  BY <1>5, <1>7, ConcatProperties
<1>9. Bytes(h \o f) = Bytes(h) + Bytes(f)
  BY <1>5, <1>7, ChunksSized, StartsConcat
<1>10. Bytes(e) = len + 4 + w
  BY <1>4, <1>5, <1>7, <1>9
<1> QED BY <1>4, <1>7, <1>8, <1>10 DEF x, y, h, f, e, w

\* decode_metadata_symbol_mapping reads what encode_symbol_mapping wrote.
LEMMA MappingDecoded ==
    ASSUME NEW len \in Width, NEW m \in Mapping, NEW b, NEW p,
           LiesAt(b, p, encode_symbol_mapping(len, m))
    PROVE  decode_metadata_symbol_mapping(Placed(b), len, p) =
             Decoding(p + len + 4 + Len(m.intervals) * (2 * 4 + len), m, TRUE)
<1> DEFINE e == encode_symbol_mapping(len, m)
           x == Cstr(len, m.raw_symbol)
           y == U(4, Len(m.intervals))
           h == <<x, y>>
           ints == m.intervals
           n == Len(ints)
           s == EncodedIntervals(len, ints)
           f == FlattenSeq(s)
           w == 2 * 4 + len
           P == Placed(b)
           first == p + len + 4
           At(i) == first + (i - 1) * w
<1>1. m.raw_symbol \in Text /\ ints \in Seq(Interval)
      /\ m = [raw_symbol |-> m.raw_symbol, intervals |-> ints]
  BY DEF Mapping
<1>2. n \in Nat /\ n \in Int /\ 4 \in Width /\ len \in Nat /\ w \in Nat /\ DOMAIN ints = 1..n
  BY <1>1 DEF Width
<1>3. x \in Chunk /\ y \in Chunk /\ x.n = len /\ y.n = 4
  BY <1>1, <1>2, ChunkTypes
<1>4. /\ e = h \o f /\ h \in Seq(Chunk) /\ Bytes(h) = len + 4
      /\ e \in Seq(Chunk) /\ Bytes(e) = len + 4 + n * w
  BY MappingEncoded
<1>5. /\ s \in Seq(Seq(Chunk)) /\ Len(s) = n /\ f \in Seq(Chunk)
      /\ \A i \in 1..n : /\ s[i] = EncodedInterval(len, ints[i]) /\ ints[i] \in Interval
                         /\ Bytes(s[i]) = w
  BY <1>1, IntervalsEncoded
<1>6. LiesAt(b, p, e)
  OBVIOUS
<1> HIDE DEF e, x, y, ints, n, s, f, w, P
<1>6a. n * w \in Nat
  BY <1>2, Product
<1>7. LiesAt(b, p, h) /\ LiesAt(b, p + (len + 4), f)
  <2>1. LiesAt(b, p, h \o f)
    BY <1>4, <1>6
  <2> HIDE DEF h
  <2>2. LiesAt(b, p, h) /\ LiesAt(b, p + Bytes(h), f)
    BY <1>4, <1>5, <2>1, LiesSplit
  <2> QED BY <1>4, <2>2
<1>8. p \in Nat /\ Bytes(b) \in Nat /\ p + (len + 4 + n * w) <= Bytes(b) /\ b \in Seq(Chunk)
  BY <1>4, <1>6, LiesTyped
<1>9. Size(P) = Bytes(b)
  BY <1>8, SizePlaced DEF P
<1>10. LiesAt(b, p, <<x>>) /\ LiesAt(b, p + len, <<y>>)
  BY <1>3, <1>7, <1>8, LiesTwo
<1>11. ReadText(P, p, len) = m.raw_symbol
  BY <1>1, <1>10, LiesText DEF x, P
<1>12. ReadInt(P, p + len, 4) = n
  BY <1>2, <1>10, LiesInt DEF y, P, n, ints
<1>13. first <= Size(P) /\ n # Garbage /\ first + n * w <= Size(P)
  <2> DEFINE nw == n * w
  <2>1. nw \in Nat /\ p + (len + 4 + nw) <= Bytes(b)
    BY <1>6a, <1>8
  <2> HIDE DEF nw
  <2>2. first <= Size(P) /\ n # Garbage /\ first + nw <= Size(P)
    BY <1>2, <1>8, <1>9, <2>1 DEF Garbage
  <2> QED BY <2>2 DEF nw
<1>14. ASSUME NEW i \in 1..n
       PROVE  /\ At(i) \in Nat
              /\ ValidDate(ReadInt(P, At(i), 4)) /\ ValidDate(ReadInt(P, At(i) + 4, 4))
              /\ decode_iso8601(ReadInt(P, At(i), 4)) = ints[i].start_date
              /\ decode_iso8601(ReadInt(P, At(i) + 4, 4)) = ints[i].end_date
              /\ ReadText(P, At(i) + 8, len) = ints[i].symbol
  <2> DEFINE q == (i - 1) * w
  <2>1. LiesAt(b, (p + (len + 4)) + q, s[i])
    <3>1. LiesAt(b, p + (len + 4), FlattenSeq(s))
      BY <1>7 DEF f
    <3>2. \A j \in 1..Len(s) : LiesAt(b, (p + (len + 4)) + (j - 1) * w, s[j])
      BY <1>2, <1>5, <3>1, UniformLies
    <3> QED BY <1>5, <3>2
  <2>2. q \in Int
    BY <1>2
  <2>3. At(i) = first + q
    OBVIOUS
  <2> HIDE DEF q, At
  <2>4. (p + (len + 4)) + q = At(i)
    BY <1>2, <1>8, <2>2, <2>3
  <2>5. LiesAt(b, At(i), EncodedInterval(len, ints[i])) /\ ints[i] \in Interval
    BY <1>5, <2>1, <2>4
  <2> QED BY <2>5, IntervalDecoded DEF P
<1> DEFINE c == ReadInt(P, p + len, 4)
           read == [i \in 1..c |-> [start_date |-> decode_iso8601(ReadInt(P, At(i), 4)),
                                    end_date   |-> decode_iso8601(ReadInt(P, At(i) + 4, 4)),
                                    symbol     |-> ReadText(P, At(i) + 8, len)]]
           valid == \A i \in 1..c : \A j \in {0, 4} : ValidDate(ReadInt(P, At(i) + j, 4))
<1>15. c = n
  BY <1>12
<1>16. decode_metadata_symbol_mapping(P, len, p) =
         IF (first <= Size(P) /\ c # Garbage /\ first + c * w <= Size(P))
            /\ valid
         THEN Decoding(first + c * w,
                       [raw_symbol |-> ReadText(P, p, len), intervals |-> read], TRUE)
         ELSE Decoding(p, <<>>, FALSE)
  BY Zenon DEF decode_metadata_symbol_mapping, w
<1> HIDE DEF c, At
<1>17. read = ints
  <2>1. ASSUME NEW i \in 1..c
        PROVE  [start_date |-> decode_iso8601(ReadInt(P, At(i), 4)),
                end_date   |-> decode_iso8601(ReadInt(P, At(i) + 4, 4)),
                symbol     |-> ReadText(P, At(i) + 8, len)] = ints[i]
    <3>1. ints[i] = [start_date |-> ints[i].start_date, end_date |-> ints[i].end_date,
                     symbol |-> ints[i].symbol]
      <4>1. ints[i] \in Interval
        BY <1>5, <1>15
      <4> QED BY <4>1 DEF Interval
    <3> QED BY <1>14, <1>15, <3>1
  <2>2. read = [i \in 1..c |-> ints[i]]
    BY <2>1, Zenon
  <2>3. ints = [i \in 1..c |-> ints[i]]
    BY <1>1, <1>2, <1>15
  <2> QED BY <2>2, <2>3
<1>18. valid
  <2> SUFFICES ASSUME NEW i \in 1..c, NEW j \in {0, 4} PROVE ValidDate(ReadInt(P, At(i) + j, 4))
    OBVIOUS
  <2>1. At(i) \in Nat /\ ValidDate(ReadInt(P, At(i), 4)) /\ ValidDate(ReadInt(P, At(i) + 4, 4))
    BY <1>14, <1>15
  <2>2. CASE j = 0
    <3>1. At(i) + 0 = At(i)
      BY <2>1
    <3> QED BY <2>1, <2>2, <3>1
  <2>3. CASE j = 4
    BY <2>1, <2>3
  <2> QED BY <2>2, <2>3
<1> HIDE DEF read, valid
<1>19. decode_metadata_symbol_mapping(P, len, p) =
         Decoding(first + n * w, [raw_symbol |-> m.raw_symbol, intervals |-> ints], TRUE)
  BY <1>11, <1>13, <1>15, <1>16, <1>17, <1>18, Zenon
<1> QED BY <1>1, <1>19 DEF P, n, ints, w

\* A prefix and the next element.
LEMMA PrefixGrows ==
    ASSUME NEW S, NEW s \in Seq(S), NEW i \in 1..Len(s)
    PROVE  /\ SubSeq(s, 1, i) = Append(SubSeq(s, 1, i - 1), s[i])
           /\ SubSeq(s, 1, 0) = <<>> /\ SubSeq(s, 1, i) \in Seq(S)
<1>1. Len(s) \in Nat /\ \A j \in 1..Len(s) : s[j] \in S
  OBVIOUS
<1>2. ASSUME NEW k \in 0..Len(s)
      PROVE  /\ SubSeq(s, 1, k) \in Seq(S) /\ Len(SubSeq(s, 1, k)) = k
             /\ \A j \in 1..k : SubSeq(s, 1, k)[j] = s[j]
  <2>1. \A j \in 1..k : s[j] \in S
    BY <1>1
  <2>2. /\ SubSeq(s, 1, k) \in Seq(S)
        /\ Len(SubSeq(s, 1, k)) = IF 1 <= k THEN k - 1 + 1 ELSE 0
        /\ \A j \in 1..(k - 1 + 1) : SubSeq(s, 1, k)[j] = s[1 + j - 1]
    BY <1>1, <2>1, SubSeqProperties
  <2> QED BY <1>1, <2>2
<1> DEFINE a == SubSeq(s, 1, i - 1)
           c == SubSeq(s, 1, i)
<1>3. /\ a \in Seq(S) /\ Len(a) = i - 1 /\ (\A j \in 1..(i - 1) : a[j] = s[j])
      /\ c \in Seq(S) /\ Len(c) = i /\ (\A j \in 1..i : c[j] = s[j])
  <2>1. i - 1 \in 0..Len(s) /\ i \in 0..Len(s)
    BY <1>1
  <2> QED BY <1>2, <2>1
<1>4. SubSeq(s, 1, 0) = <<>>
  <2>1. 0 \in 0..Len(s)
    BY <1>1
  <2>2. SubSeq(s, 1, 0) \in Seq(S) /\ Len(SubSeq(s, 1, 0)) = 0
    BY <1>2, <2>1
  <2> QED BY <2>2, EmptySeq
<1> HIDE DEF a, c
<1>5. /\ Append(a, s[i]) \in Seq(S) /\ Len(Append(a, s[i])) = Len(a) + 1
      /\ \A j \in 1..Len(a) : Append(a, s[i])[j] = a[j]
      /\ Append(a, s[i])[Len(a) + 1] = s[i]
  BY <1>1, <1>3, AppendProperties
<1>6. \A j \in 1..i : Append(a, s[i])[j] = c[j]
  <2>1. \A j \in 1..i : j \in 1..(i - 1) \/ j = i
    BY <1>1
  <2> QED BY <1>1, <1>3, <1>5, <2>1
<1>7. c = Append(a, s[i])
  BY <1>1, <1>3, <1>5, <1>6, SeqEqual
<1> QED BY <1>3, <1>4, <1>7 DEF a, c

EncodedMappings(len, mappings) ==
  [i \in DOMAIN mappings |-> encode_symbol_mapping(len, mappings[i])]

\* The list of mappings, as encoded.
LEMMA MappingsEncoded ==
    ASSUME NEW len \in Width, NEW mappings \in Seq(Mapping)
    PROVE  LET e == encode_symbol_mappings(len, mappings)
               s == EncodedMappings(len, mappings)
           IN  /\ s \in Seq(Seq(Chunk)) /\ Len(s) = Len(mappings)
               /\ \A i \in 1..Len(mappings) :
                    /\ s[i] = encode_symbol_mapping(len, mappings[i])
                    /\ Bytes(s[i]) = len + 4 + Len(mappings[i].intervals) * (2 * 4 + len)
                    /\ mappings[i] \in Mapping
               /\ FlattenSeq(s) \in Seq(Chunk)
               /\ e = <<U(4, Len(mappings))>> \o FlattenSeq(s)
               /\ e \in Seq(Chunk) /\ Bytes(e) = 4 + Bytes(FlattenSeq(s))
<1> DEFINE e == encode_symbol_mappings(len, mappings)
           s == EncodedMappings(len, mappings)
           n == Len(mappings)
           c == U(4, n)
           o == <<c>>
           f == FlattenSeq(s)
<1>1. n \in Nat /\ n \in Int /\ 4 \in Width /\ DOMAIN mappings = 1..n
      /\ \A i \in 1..n : mappings[i] \in Mapping
  BY DEF Width
<1>2. \A i \in 1..n :
        /\ encode_symbol_mapping(len, mappings[i]) \in Seq(Chunk)
        /\ Bytes(encode_symbol_mapping(len, mappings[i]))
             = len + 4 + Len(mappings[i].intervals) * (2 * 4 + len)
  BY <1>1, MappingEncoded
<1>3. /\ s \in Seq(Seq(Chunk)) /\ Len(s) = n
      /\ \A i \in 1..n : s[i] = encode_symbol_mapping(len, mappings[i])
  <2>1. /\ s \in [1..n -> Seq(Chunk)]
        /\ \A i \in 1..n : s[i] = encode_symbol_mapping(len, mappings[i])
    BY <1>1, <1>2 DEF EncodedMappings
  <2>2. \A g \in [1..n -> Seq(Chunk)] : g \in Seq(Seq(Chunk)) /\ Len(g) = n
    BY <1>1, SeqDef
  <2> HIDE DEF s
  <2> QED BY <2>1, <2>2
<1>4. e = o \o f
  BY DEF encode_symbol_mappings, EncodedMappings
<1>5. c \in Chunk /\ c.n = 4
  BY <1>1, ChunkTypes
<1> HIDE DEF e, s, n, c, f
<1>6. f \in Seq(Chunk)
  BY <1>3, FlattenSeqType DEF f
<1>7. o \in Seq(Chunk) /\ Bytes(o) = 4
  BY <1>5, LiesOne
<1> HIDE DEF o
<1>8. o \o f \in Seq(Chunk)
  BY <1>6, <1>7, ConcatProperties
<1>9. Bytes(o \o f) = Bytes(o) + Bytes(f)
  BY <1>6, <1>7, ChunksSized, StartsConcat
<1>10. /\ s \in Seq(Seq(Chunk)) /\ Len(s) = n
       /\ \A i \in 1..n :
             /\ s[i] = encode_symbol_mapping(len, mappings[i])
             /\ Bytes(s[i]) = len + 4 + Len(mappings[i].intervals) * (2 * 4 + len)
             /\ mappings[i] \in Mapping
  BY <1>1, <1>2, <1>3
<1>11. e \in Seq(Chunk) /\ Bytes(e) = 4 + Bytes(f)
  BY <1>4, <1>7, <1>8, <1>9
<1> QED BY <1>4, <1>6, <1>10, <1>11 DEF e, s, n, c, o, f

\* decode_metadata_symbol_mappings reads what encode_symbol_mappings wrote.
LEMMA MappingsDecoded ==
    ASSUME NEW len \in Width, NEW mappings \in Seq(Mapping), NEW b, NEW p,
           LiesAt(b, p, encode_symbol_mappings(len, mappings))
    PROVE  decode_metadata_symbol_mappings(Placed(b), len, p) =
             Decoding(p + Bytes(encode_symbol_mappings(len, mappings)), mappings, TRUE)
<1> DEFINE e == encode_symbol_mappings(len, mappings)
           s == EncodedMappings(len, mappings)
           n == Len(mappings)
           x == U(4, n)
           o == <<x>>
           f == FlattenSeq(s)
           P == Placed(b)
<1>1. n \in Nat /\ n \in Int /\ 4 \in Width /\ len \in Nat
  BY DEF Width
<1>2. /\ s \in Seq(Seq(Chunk)) /\ Len(s) = n
      /\ \A i \in 1..n : /\ s[i] = encode_symbol_mapping(len, mappings[i])
                         /\ Bytes(s[i]) = len + 4 + Len(mappings[i].intervals) * (2 * 4 + len)
                         /\ mappings[i] \in Mapping
      /\ f \in Seq(Chunk) /\ e = o \o f /\ e \in Seq(Chunk) /\ Bytes(e) = 4 + Bytes(f)
  BY MappingsEncoded
<1>3. x \in Chunk /\ x.n = 4
  BY <1>1, ChunkTypes
<1>4. LiesAt(b, p, e)
  OBVIOUS
<1> HIDE DEF e, s, n, x, f, P
<1>5. o \in Seq(Chunk) /\ Bytes(o) = 4
  BY <1>3, LiesOne
<1>6. LiesAt(b, p, o) /\ LiesAt(b, p + 4, f)
  <2> HIDE DEF o
  <2>1. LiesAt(b, p, o) /\ LiesAt(b, p + Bytes(o), f)
    BY <1>2, <1>4, <1>5, LiesSplit
  <2> QED BY <1>5, <2>1
<1>7. p \in Nat /\ Bytes(b) \in Nat /\ p + 4 <= Bytes(b) /\ b \in Seq(Chunk)
  BY <1>5, <1>6, LiesTyped
<1>8. Size(P) = Bytes(b)
  BY <1>7, SizePlaced DEF P
<1> DEFINE c == ReadInt(P, p, 4)
<1>9. c = n
  BY <1>1, <1>6, LiesInt DEF x, P, n
<1>10. PICK at \in [0..n -> Nat] :
             /\ at[0] = 0 /\ at[n] = Bytes(f)
             /\ \A i \in 1..n : at[i] = at[i - 1] + Bytes(s[i])
             /\ \A i \in 1..n : LiesAt(b, (p + 4) + at[i - 1], s[i])
  <2>1. LiesAt(b, p + 4, FlattenSeq(s))
    BY <1>6 DEF f
  <2> QED BY <1>2, <2>1, FlattenLies DEF f
<1> DEFINE Eq(h) == h = [i \in 0..c |-> IF i = 0 THEN Decoding(p + 4, <<>>, TRUE)
                                        ELSE NextMapping(P, len, h[i - 1])]
           F == [i \in 0..c |-> Decoding((p + 4) + at[i], SubSeq(mappings, 1, i), TRUE)]
           G == CHOOSE h : Eq(h)
<1>11. decode_metadata_symbol_mappings(P, len, p) =
         IF p + 4 > Size(P) \/ c = Garbage THEN Decoding(p, <<>>, FALSE) ELSE G[c]
  BY Zenon DEF decode_metadata_symbol_mappings
<1> HIDE DEF c
<1>12. ASSUME NEW i \in 1..n
       PROVE  NextMapping(P, len, Decoding((p + 4) + at[i - 1], SubSeq(mappings, 1, i - 1), TRUE))
                = Decoding((p + 4) + at[i], SubSeq(mappings, 1, i), TRUE)
  <2> DEFINE q == (p + 4) + at[i - 1]
             w == Len(mappings[i].intervals) * (2 * 4 + len)
             st == Decoding(q, SubSeq(mappings, 1, i - 1), TRUE)
             one == Decoding(q + len + 4 + w, mappings[i], TRUE)
  <2>1. st.pos = q /\ st.res = SubSeq(mappings, 1, i - 1) /\ st.ok = TRUE
        /\ one.pos = q + len + 4 + w /\ one.res = mappings[i] /\ one.ok = TRUE
    BY DEF Decoding
  <2>2. i - 1 \in 0..n /\ i \in 0..n
    BY <1>1
  <2>3. at[i - 1] \in Nat /\ at[i] \in Nat /\ at[i] = at[i - 1] + (len + 4 + w)
    BY <1>2, <1>10, <2>2
  <2>4. w \in Nat
    <3>1. mappings[i].intervals \in Seq(Interval)
      BY <1>2 DEF Mapping
    <3>2. Len(mappings[i].intervals) \in Nat /\ 2 * 4 + len \in Nat
      BY <1>1, <3>1
    <3> QED BY <3>2, Product
  <2>5. decode_metadata_symbol_mapping(P, len, q) = one
    <3>1. LiesAt(b, q, encode_symbol_mapping(len, mappings[i])) /\ mappings[i] \in Mapping
      BY <1>2, <1>10
    <3> HIDE DEF q
    <3> QED BY <3>1, MappingDecoded DEF P
  <2> HIDE DEF w, st, one
  <2>6. q + len + 4 + w = (p + 4) + at[i]
    <3> DEFINE a == at[i - 1]
               z == at[i]
    <3>1. a \in Nat /\ z = a + (len + 4 + w) /\ q = (p + 4) + a
      BY <2>3
    <3> HIDE DEF a, z, q
    <3>2. q + len + 4 + w = (p + 4) + z
      BY ONLY <1>1, <1>7, <2>4, <3>1
    <3> QED BY <3>2 DEF z
  <2> HIDE DEF q
  <2>7. Then(st, one) = Decoding((p + 4) + at[i], Append(SubSeq(mappings, 1, i - 1), mappings[i]), TRUE)
    BY <2>1, <2>6 DEF Then
  <2>8. SubSeq(mappings, 1, i) = Append(SubSeq(mappings, 1, i - 1), mappings[i])
    BY PrefixGrows DEF n
  <2>9. NextMapping(P, len, st) = Then(st, one)
    BY <2>1, <2>5 DEF NextMapping
  <2> QED BY <2>7, <2>8, <2>9 DEF st, q
<1>13. Decoding((p + 4) + at[0], SubSeq(mappings, 1, 0), TRUE) = Decoding(p + 4, <<>>, TRUE)
  <2>1. (p + 4) + at[0] = p + 4
    BY <1>7, <1>10
  <2>2. SubSeq(mappings, 1, 0) = <<>>
    <3>1. /\ SubSeq(mappings, 1, 0) \in Seq(Mapping)
          /\ Len(SubSeq(mappings, 1, 0)) = IF 1 <= 0 THEN 0 - 1 + 1 ELSE 0
      <4>1. \A j \in 1..0 : mappings[j] \in Mapping
        OBVIOUS
      <4> QED BY <4>1, SubSeqProperties
    <3> QED BY <3>1, EmptySeq
  <2> QED BY <2>1, <2>2
<1>14. Eq(F)
  <2>1. ASSUME NEW i \in 0..c
        PROVE  Decoding((p + 4) + at[i], SubSeq(mappings, 1, i), TRUE) =
                 IF i = 0 THEN Decoding(p + 4, <<>>, TRUE) ELSE NextMapping(P, len, F[i - 1])
    <3>1. CASE i = 0
      BY <1>13, <3>1
    <3>2. CASE i # 0
      <4>1. i \in 1..n /\ i - 1 \in 0..c
        BY <1>1, <1>9, <3>2
      <4>2. F[i - 1] = Decoding((p + 4) + at[i - 1], SubSeq(mappings, 1, i - 1), TRUE)
        BY <4>1
      <4> HIDE DEF F
      <4> QED BY <1>12, <3>2, <4>1, <4>2
    <3> QED BY <3>1, <3>2
  <2> QED BY <2>1, Zenon
<1>15. Eq(G)
  BY <1>14, Zenon
<1> HIDE DEF G, F
<1>16. \A i \in 0..c : G[i] = IF i = 0 THEN Decoding(p + 4, <<>>, TRUE)
                              ELSE NextMapping(P, len, G[i - 1])
  <2>1. ASSUME NEW i \in 0..c
        PROVE  G[i] = IF i = 0 THEN Decoding(p + 4, <<>>, TRUE)
                      ELSE NextMapping(P, len, G[i - 1])
    BY <1>15, Zenon
  <2> QED BY <2>1
<1>17. \A i \in Nat : i \in 0..n => G[i] = Decoding((p + 4) + at[i], SubSeq(mappings, 1, i), TRUE)
  <2> DEFINE D(i) == Decoding((p + 4) + at[i], SubSeq(mappings, 1, i), TRUE)
             T == {i \in Nat : i \in 0..n => G[i] = D(i)}
  <2>1. 0 \in T
    BY <1>9, <1>13, <1>16
  <2>2. ASSUME NEW i \in Nat, i \in T PROVE i + 1 \in T
    <3>1. ASSUME i + 1 \in 0..n PROVE G[i + 1] = D(i + 1)
      <4>1. i \in 0..n /\ i + 1 \in 1..n /\ i + 1 \in 0..c /\ i + 1 # 0 /\ (i + 1) - 1 = i
        BY <1>1, <1>9, <3>1
      <4>2. G[i] = D(i)
        BY <2>2, <4>1
      <4>3. G[i + 1] = NextMapping(P, len, G[i])
        BY <1>16, <4>1
      <4>4. NextMapping(P, len, D(i)) = D(i + 1)
        BY <1>12, <4>1
      <4> QED BY <4>2, <4>3, <4>4
    <3>2. i + 1 \in Nat
      OBVIOUS
    <3> HIDE DEF D
    <3> QED BY <3>1, <3>2
  <2>3. \A i \in Nat : i \in T
    <3> HIDE DEF T
    <3> QED BY <2>1, <2>2, SetInduction
  <2> QED BY <2>3
<1>18. G[c] = Decoding((p + 4) + at[n], SubSeq(mappings, 1, n), TRUE)
  BY <1>1, <1>9, <1>17
<1>19. SubSeq(mappings, 1, n) = mappings
  <2>1. /\ SubSeq(mappings, 1, n) \in Seq(Mapping)
        /\ Len(SubSeq(mappings, 1, n)) = IF 1 <= n THEN n - 1 + 1 ELSE 0
        /\ \A j \in 1..(n - 1 + 1) : SubSeq(mappings, 1, n)[j] = mappings[1 + j - 1]
    <3>1. \A j \in 1..n : mappings[j] \in Mapping
      BY <1>2
    <3> QED BY <1>1, <3>1, SubSeqProperties
  <2>2. Len(SubSeq(mappings, 1, n)) = Len(mappings)
        /\ \A j \in 1..Len(mappings) : SubSeq(mappings, 1, n)[j] = mappings[j]
    BY <1>1, <2>1 DEF n
  <2> QED BY <2>1, <2>2, SeqEqual
<1>20. ~ (p + 4 > Size(P) \/ c = Garbage)
  BY <1>1, <1>7, <1>8, <1>9 DEF Garbage
<1>21. (p + 4) + at[n] = p + Bytes(e)
  <2> DEFINE z == at[n]
             y == Bytes(e)
  <2>1. z \in Nat /\ y = 4 + z
    BY <1>1, <1>2, <1>10
  <2> HIDE DEF z, y
  <2>2. (p + 4) + z = p + y
    BY ONLY <1>7, <2>1
  <2> QED BY <2>2 DEF z, y
<1>22. decode_metadata_symbol_mappings(P, len, p) = Decoding((p + 4) + at[n], mappings, TRUE)
  BY <1>11, <1>18, <1>19, <1>20
<1> QED BY <1>21, <1>22 DEF P, e

-----------------------------------------------------------------------------
(* The whole of the metadata. *)

\* The sums of calc_length add up to the bytes of the mappings.
LEMMA MappedLength ==
    ASSUME NEW len \in Width, NEW mappings \in Seq(Mapping),
           NEW G, G = CHOOSE h : h = [i \in 0..Len(mappings) |->
                        IF i = 0 THEN 0
                        ELSE h[i - 1] + len + 4 + Len(mappings[i].intervals) * (2 * 4 + len)]
    PROVE  4 + G[Len(mappings)] = Bytes(encode_symbol_mappings(len, mappings))
           /\ G[Len(mappings)] \in Nat
<1> DEFINE s == EncodedMappings(len, mappings)
           n == Len(mappings)
           W(i) == Len(mappings[i].intervals) * (2 * 4 + len)
           Eq(h) == h = [i \in 0..n |-> IF i = 0 THEN 0 ELSE h[i - 1] + len + 4 + W(i)]
<1>1. /\ s \in Seq(Seq(Chunk)) /\ Len(s) = n
      /\ \A i \in 1..n : Bytes(s[i]) = len + 4 + W(i) /\ mappings[i] \in Mapping
      /\ Bytes(encode_symbol_mappings(len, mappings)) = 4 + Bytes(FlattenSeq(s))
  BY MappingsEncoded
<1>2. PICK at \in [0..n -> Nat] : /\ at[0] = 0 /\ at[n] = Bytes(FlattenSeq(s))
                                  /\ \A i \in 1..n : at[i] = at[i - 1] + Bytes(s[i])
  <2> HIDE DEF s
  <2> QED BY <1>1, FlattenLies
<1>3. n \in Nat /\ len \in Nat
  BY DEF Width
<1>4. G = CHOOSE h : Eq(h)
  BY Zenon
<1>5. \A i \in 1..n : W(i) \in Nat
  <2> TAKE i \in 1..n
  <2>1. Len(mappings[i].intervals) \in Nat /\ 2 * 4 + len \in Nat
    BY <1>1, <1>3 DEF Mapping
  <2> QED BY <2>1, Product
<1> HIDE DEF n, W, s
<1>6. Eq(at)
  <2>1. ASSUME NEW i \in 0..n
        PROVE  at[i] = IF i = 0 THEN 0 ELSE at[i - 1] + len + 4 + W(i)
    <3>1. CASE i = 0
      BY <1>2, <3>1
    <3>2. CASE i # 0
      <4> DEFINE a == at[i - 1]
                 z == at[i]
                 w == W(i)
      <4>1. i \in 1..n /\ i - 1 \in 0..n
        BY <1>3, <3>2
      <4>2. a \in Nat /\ w \in Nat /\ z = a + (len + 4 + w)
        BY <1>1, <1>2, <1>5, <4>1
      <4> HIDE DEF a, z, w
      <4>3. z = a + len + 4 + w
        BY ONLY <1>3, <4>2
      <4> QED BY <3>2, <4>3 DEF a, z, w
    <3> QED BY <3>1, <3>2
  <2> DEFINE t == [i \in 0..n |-> IF i = 0 THEN 0 ELSE at[i - 1] + len + 4 + W(i)]
  <2>2. \A i \in 0..n : at[i] = t[i]
    BY <2>1
  <2>3. DOMAIN t = 0..n /\ DOMAIN at = 0..n
    BY <1>2
  <2>4. at = [i \in 0..n |-> at[i]]
    BY <1>2
  <2>5. at = t
    BY <2>1, <2>4, Zenon
  <2> QED BY <2>5, Zenon
<1>7. Eq(G)
  BY <1>4, <1>6, Zenon
<1>8. \A i \in 0..n : G[i] = IF i = 0 THEN 0 ELSE G[i - 1] + len + 4 + W(i)
  <2>1. ASSUME NEW i \in 0..n
        PROVE  G[i] = IF i = 0 THEN 0 ELSE G[i - 1] + len + 4 + W(i)
    BY <1>7, Zenon
  <2> QED BY <2>1
<1>9. \A i \in 0..n : at[i] = IF i = 0 THEN 0 ELSE at[i - 1] + len + 4 + W(i)
  <2>1. ASSUME NEW i \in 0..n
        PROVE  at[i] = IF i = 0 THEN 0 ELSE at[i - 1] + len + 4 + W(i)
    BY <1>6, Zenon
  <2> QED BY <2>1
<1> HIDE DEF Eq
<1> DEFINE T == {i \in Nat : i \in 0..n => G[i] = at[i]}
<1>10. 0 \in T
  BY <1>8, <1>9
<1>11. ASSUME NEW i \in Nat, i \in T PROVE i + 1 \in T
  <2>1. ASSUME i + 1 \in 0..n PROVE G[i + 1] = at[i + 1]
    <3>1. i \in 0..n /\ i + 1 # 0 /\ (i + 1) - 1 = i
      BY <1>3, <2>1
    <3>2. G[i] = at[i]
      BY <1>11, <3>1
    <3> QED BY <1>8, <1>9, <2>1, <3>1, <3>2
  <2> QED BY <2>1
<1>12. \A i \in Nat : i \in T
  <2> HIDE DEF T
  <2> QED BY <1>10, <1>11, SetInduction
<1>13. G[n] = at[n] /\ at[n] \in Nat
  <2>1. n \in 0..n
    BY ONLY <1>3
  <2>2. n \in 0..n => G[n] = at[n]
    BY ONLY <1>3, <1>12
  <2> QED BY ONLY <1>2, <2>1, <2>2
<1> QED BY <1>1, <1>2, <1>13 DEF n

\* The bytes of what repeats, as the encoder writes it.
Repeated(m) ==
  Bytes(encode_repeated_symbol_cstr(m.symbol_cstr_len, m.symbols))
    + Bytes(encode_repeated_symbol_cstr(m.symbol_cstr_len, m.partial))
    + Bytes(encode_repeated_symbol_cstr(m.symbol_cstr_len, m.not_found))
    + Bytes(encode_symbol_mappings(m.symbol_cstr_len, m.mappings))

\* Multiplication distributes.
LEMMA ThreeProducts ==
    ASSUME NEW x \in Nat, NEW y \in Nat, NEW z \in Nat, NEW w \in Nat
    PROVE  (x + y + z) * w = x * w + y * w + z * w
OBVIOUS

\* calc_length is the length of the fixed fields, of what repeats and of the padding.
LEMMA LengthCalculated ==
    ASSUME NEW m \in Metadata
    PROVE  /\ Repeated(m) \in Nat
           /\ \E pad \in 0..7 :
                calc_length(m) = [length |-> 104 + Repeated(m) + pad, padding |-> pad]
<1> DEFINE len == m.symbol_cstr_len
           map == m.mappings
           G == CHOOSE h : h = [i \in 0..Len(map) |->
                        IF i = 0 THEN 0
                        ELSE h[i - 1] + len + 4 + Len(map[i].intervals) * (2 * 4 + len)]
           needed == FIXED_LEN + 5 * 4
                     + (Len(m.symbols) + Len(m.partial) + Len(m.not_found)) * len
                     + G[Len(map)]
           padding == IF m.version < 3 THEN 0 ELSE (8 - (needed % 8)) % 8
<1>1. calc_length(m) = [length |-> needed + padding, padding |-> padding]
  BY Zenon DEF calc_length
<1>2. /\ len \in Width /\ map \in Seq(Mapping) /\ m.symbols \in Seq(Text)
      /\ m.partial \in Seq(Text) /\ m.not_found \in Seq(Text) /\ m.version \in 0..3
  BY DEF Metadata, Width, CURRENT_VERSION
<1>3. 4 + G[Len(map)] = Bytes(encode_symbol_mappings(len, map)) /\ G[Len(map)] \in Nat
  <2> HIDE DEF len, map
  <2> QED BY <1>2, MappedLength
<1>4. /\ Bytes(encode_repeated_symbol_cstr(len, m.symbols)) = 4 + Len(m.symbols) * len
      /\ Bytes(encode_repeated_symbol_cstr(len, m.partial)) = 4 + Len(m.partial) * len
      /\ Bytes(encode_repeated_symbol_cstr(len, m.not_found)) = 4 + Len(m.not_found) * len
  BY <1>2, SymbolsEncoded
<1> DEFINE g == G[Len(map)]
           x == Len(m.symbols)
           y == Len(m.partial)
           z == Len(m.not_found)
<1>5. x \in Nat /\ y \in Nat /\ z \in Nat /\ len \in Nat /\ g \in Nat
  BY <1>2, <1>3 DEF Width
<1>6. Repeated(m) = (4 + x * len) + (4 + y * len) + (4 + z * len) + (4 + g)
  BY <1>3, <1>4 DEF Repeated
<1>7. needed = 100 + 5 * 4 + (x + y + z) * len + g
  BY DEF FIXED_LEN
<1> HIDE DEF G, needed, g, x, y, z, len
<1>8. /\ (x + y + z) * len = x * len + y * len + z * len
      /\ x * len \in Nat /\ y * len \in Nat /\ z * len \in Nat
  BY <1>5, Product, ThreeProducts
<1>9. needed = 104 + Repeated(m) /\ Repeated(m) \in Nat
  <2> DEFINE xl == x * len
             yl == y * len
             zl == z * len
             rep == Repeated(m)
             sum == (x + y + z) * len
  <2>1. /\ xl \in Nat /\ yl \in Nat /\ zl \in Nat /\ sum = xl + yl + zl
        /\ rep = (4 + xl) + (4 + yl) + (4 + zl) + (4 + g)
        /\ needed = 100 + 5 * 4 + sum + g
    BY <1>6, <1>7, <1>8
  <2> HIDE DEF xl, yl, zl, rep, sum
  <2>2. needed = 104 + rep /\ rep \in Nat
    BY ONLY <1>5, <2>1
  <2> QED BY <2>2 DEF rep
<1>10. padding \in 0..7
  <2>1. needed \in Nat
    BY <1>9
  <2> QED BY <1>2, <2>1
<1> HIDE DEF padding
<1> QED BY <1>1, <1>9, <1>10

-----------------------------------------------------------------------------
(* The parts of the layout, in their order. *)

RawSchema(m) == IF m.schema = "None" THEN NULL_SCHEMA ELSE Schema[m.schema]
RawIn(m)     == IF m.stype_in = "None" THEN NULL_STYPE ELSE SType[m.stype_in]

ThePrelude(m) == << U(1, IF m.version = 0 THEN 1 ELSE m.version), U(4, calc_length(m).length) >>
TheNames(m)   == << Cstr(DATASET_CSTR_LEN, m.dataset), U(2, RawSchema(m)) >>
TheRange(m)   == encode_range_and_counts(m.version, m.start, m.end, m.limit)
TheStypes(m)  == << U(1, RawIn(m)), U(1, SType[m.stype_out]), U(1, IF m.ts_out THEN 1 ELSE 0) >>
TheLen(m)     == IF m.version > 1 THEN << U(2, m.symbol_cstr_len) >> ELSE <<>>
TheRest(m)    == << U(IF m.version = 1 THEN RESERVED_LEN_V1 ELSE RESERVED_LEN, 0), U(4, 0) >>
TheSymbols(m) == encode_repeated_symbol_cstr(m.symbol_cstr_len, m.symbols)
ThePartial(m) == encode_repeated_symbol_cstr(m.symbol_cstr_len, m.partial)
TheMissing(m) == encode_repeated_symbol_cstr(m.symbol_cstr_len, m.not_found)
TheMapped(m)  == encode_symbol_mappings(m.symbol_cstr_len, m.mappings)
ThePadding(m) == IF calc_length(m).padding = 0 THEN <<>>
                 ELSE << U(calc_length(m).padding, 0) >>

\* What follows the prelude.
Body(m) == TheNames(m) \o TheRange(m) \o TheStypes(m) \o TheLen(m) \o TheRest(m)
           \o TheSymbols(m) \o ThePartial(m) \o TheMissing(m) \o TheMapped(m) \o ThePadding(m)

\* The values of the tables of numbers.
LEMMA RawNumbers ==
    ASSUME NEW m \in Metadata
    PROVE  RawSchema(m) \in Int /\ RawIn(m) \in Int /\ SType[m.stype_out] \in Int
<1>1. \A x \in DOMAIN Schema : Schema[x] \in Int
  BY DEF Schema
<1>2. \A x \in DOMAIN SType : SType[x] \in Int
  BY DEF SType
<1>3. m.schema \in DOMAIN Schema \cup {"None"} /\ m.stype_in \in DOMAIN SType \cup {"None"}
      /\ m.stype_out \in DOMAIN SType
  BY DEF Metadata
<1> QED BY <1>1, <1>2, <1>3 DEF RawSchema, RawIn, NULL_SCHEMA, NULL_STYPE

\* Every part is made of chunks, and the parts before what repeats take 104 bytes.
LEMMA PartsTyped ==
    ASSUME NEW m \in Metadata
    PROVE  /\ ThePrelude(m) \in Seq(Chunk)
           /\ TheNames(m) \in Seq(Chunk) /\ Bytes(TheNames(m)) = 18
           /\ TheRange(m) \in Seq(Chunk)
           /\ Bytes(TheRange(m)) = IF m.version = 1 THEN 32 ELSE 24
           /\ TheStypes(m) \in Seq(Chunk) /\ Bytes(TheStypes(m)) = 3
           /\ TheLen(m) \in Seq(Chunk) /\ Bytes(TheLen(m)) = IF m.version > 1 THEN 2 ELSE 0
           /\ TheRest(m) \in Seq(Chunk)
           /\ Bytes(TheRest(m)) = IF m.version = 1 THEN 51 ELSE 57
           /\ TheSymbols(m) \in Seq(Chunk) /\ ThePartial(m) \in Seq(Chunk)
           /\ TheMissing(m) \in Seq(Chunk) /\ TheMapped(m) \in Seq(Chunk)
           /\ ThePadding(m) \in Seq(Chunk) /\ Bytes(ThePadding(m)) = calc_length(m).padding
<1>1. /\ m.symbol_cstr_len \in Width /\ m.mappings \in Seq(Mapping)
      /\ m.symbols \in Seq(Text) /\ m.partial \in Seq(Text) /\ m.not_found \in Seq(Text)
      /\ m.version \in 0..3 /\ m.dataset \in Text /\ m.start \in Nat
      /\ m.end \in Nat \cup {-1} /\ m.limit \in Nat \cup {-1} /\ m.symbol_cstr_len \in Int
  BY DEF Metadata, Width, CURRENT_VERSION, OptionalTime, OptionalNum, None
<1>2. \A k \in {1, 2, 4, 8, 16, 47, 53} : k \in Width
  BY DEF Width
<1>3. PICK pad \in 0..7 : /\ Repeated(m) \in Nat
                          /\ calc_length(m) = [length |-> 104 + Repeated(m) + pad, padding |-> pad]
  BY LengthCalculated
<1>4. calc_length(m).length \in Int /\ calc_length(m).padding = pad
  BY <1>3
<1>5. \A a, b, c \in Chunk :
         /\ <<a, b>> \in Seq(Chunk) /\ Bytes(<<a, b>>) = a.n + b.n
         /\ <<a, b, c>> \in Seq(Chunk) /\ Bytes(<<a, b, c>>) = a.n + b.n + c.n
         /\ <<a>> \in Seq(Chunk) /\ Bytes(<<a>>) = a.n
  BY LiesOne, LiesTwo, LiesThree
<1>6. \A n \in Width : \A v \in Int : U(n, v) \in Chunk /\ U(n, v).n = n
  BY ChunkTypes
<1>7. \A n \in Width : \A v \in Text : Cstr(n, v) \in Chunk /\ Cstr(n, v).n = n
  BY ChunkTypes
<1>8. <<>> \in Seq(Chunk) /\ Bytes(<<>>) = 0
  BY NoBytes
<1>9. ThePrelude(m) \in Seq(Chunk)
  <2> DEFINE v == IF m.version = 0 THEN 1 ELSE m.version
             a == U(1, v)
             b == U(4, calc_length(m).length)
  <2>1. v \in Int
    BY <1>1
  <2> HIDE DEF v
  <2>2. a \in Chunk /\ b \in Chunk
    BY <1>2, <1>4, <1>6, <2>1
  <2>3. ThePrelude(m) = <<a, b>>
    BY DEF ThePrelude, v
  <2> HIDE DEF a, b
  <2> QED BY <1>5, <2>2, <2>3
<1>10. TheNames(m) \in Seq(Chunk) /\ Bytes(TheNames(m)) = 18
  <2> DEFINE a == Cstr(16, m.dataset)
             b == U(2, RawSchema(m))
  <2>1. a \in Chunk /\ b \in Chunk /\ a.n = 16 /\ b.n = 2
    BY <1>1, <1>2, <1>6, <1>7, RawNumbers
  <2>2. TheNames(m) = <<a, b>>
    BY DEF TheNames, DATASET_CSTR_LEN
  <2> HIDE DEF a, b
  <2>3. <<a, b>> \in Seq(Chunk) /\ Bytes(<<a, b>>) = a.n + b.n
    BY <2>1, LiesTwo
  <2> QED BY <2>1, <2>2, <2>3
<1>11. TheRange(m) \in Seq(Chunk) /\ Bytes(TheRange(m)) = IF m.version = 1 THEN 32 ELSE 24
  <2> DEFINE e == IF m.end = None THEN UNDEF_TS ELSE m.end
             l == IF m.limit = None THEN NULL_LIMIT ELSE m.limit
             a == U(8, m.start)
             b == U(8, e)
             c == U(8, l)
             d == U(8, UNDEF_TS)
             t == IF m.version = 1 THEN <<d>> ELSE <<>>
             s == <<a, b, c>>
  <2>1. e \in Int /\ l \in Int /\ UNDEF_TS \in Int
    BY <1>1 DEF UNDEF_TS, NULL_LIMIT, None
  <2>2. TheRange(m) = s \o t
    BY DEF TheRange, encode_range_and_counts
  <2> HIDE DEF e, l
  <2>3. /\ a \in Chunk /\ b \in Chunk /\ c \in Chunk /\ d \in Chunk
        /\ a.n = 8 /\ b.n = 8 /\ c.n = 8 /\ d.n = 8
    BY <1>1, <1>2, <1>6, <2>1
  <2> HIDE DEF a, b, c, d
  <2>4. s \in Seq(Chunk) /\ Bytes(s) = 24
    <3>1. s \in Seq(Chunk) /\ Bytes(s) = a.n + b.n + c.n
      BY <2>3, LiesThree
    <3> HIDE DEF s
    <3> QED BY <2>3, <3>1
  <2>5. t \in Seq(Chunk) /\ Bytes(t) = IF m.version = 1 THEN 8 ELSE 0
    BY <1>5, <1>8, <2>3
  <2> HIDE DEF s, t
  <2>6. s \o t \in Seq(Chunk) /\ Bytes(s \o t) = Bytes(s) + Bytes(t)
    BY <2>4, <2>5, ChunksSized, StartsConcat
  <2> QED BY <2>2, <2>4, <2>5, <2>6
<1>12. TheStypes(m) \in Seq(Chunk) /\ Bytes(TheStypes(m)) = 3
  <2> DEFINE t == IF m.ts_out THEN 1 ELSE 0
             a == U(1, RawIn(m))
             b == U(1, SType[m.stype_out])
             c == U(1, t)
  <2>1. t \in Int
    OBVIOUS
  <2>2. TheStypes(m) = <<a, b, c>>
    BY DEF TheStypes
  <2> HIDE DEF t
  <2>3. a \in Chunk /\ b \in Chunk /\ c \in Chunk /\ a.n = 1 /\ b.n = 1 /\ c.n = 1
    BY <1>2, <1>6, <2>1, RawNumbers
  <2> HIDE DEF a, b, c
  <2>4. <<a, b, c>> \in Seq(Chunk) /\ Bytes(<<a, b, c>>) = a.n + b.n + c.n
    BY <2>3, LiesThree
  <2> QED BY <2>2, <2>3, <2>4
<1>13. TheLen(m) \in Seq(Chunk) /\ Bytes(TheLen(m)) = IF m.version > 1 THEN 2 ELSE 0
  <2> DEFINE a == U(2, m.symbol_cstr_len)
  <2>1. a \in Chunk /\ a.n = 2
    BY <1>1, <1>2, <1>6
  <2>2. TheLen(m) = IF m.version > 1 THEN <<a>> ELSE <<>>
    BY DEF TheLen
  <2> HIDE DEF a
  <2> QED BY <1>5, <1>8, <2>1, <2>2
<1>14. TheRest(m) \in Seq(Chunk) /\ Bytes(TheRest(m)) = IF m.version = 1 THEN 51 ELSE 57
  <2> DEFINE r == IF m.version = 1 THEN RESERVED_LEN_V1 ELSE RESERVED_LEN
             a == U(r, 0)
             b == U(4, 0)
  <2>1. r \in Width /\ r = IF m.version = 1 THEN 47 ELSE 53
    BY <1>2 DEF RESERVED_LEN, RESERVED_LEN_V1
  <2>2. TheRest(m) = <<a, b>>
    BY DEF TheRest
  <2> HIDE DEF r
  <2>3. a \in Chunk /\ b \in Chunk /\ a.n = r /\ b.n = 4
    BY <1>2, <1>6, <2>1
  <2> HIDE DEF a, b
  <2>4. <<a, b>> \in Seq(Chunk) /\ Bytes(<<a, b>>) = a.n + b.n
    BY <2>3, LiesTwo
  <2> QED BY <2>1, <2>2, <2>3, <2>4
<1>15. /\ TheSymbols(m) \in Seq(Chunk) /\ ThePartial(m) \in Seq(Chunk)
       /\ TheMissing(m) \in Seq(Chunk) /\ TheMapped(m) \in Seq(Chunk)
  BY <1>1, SymbolsEncoded, MappingsEncoded
     DEF TheSymbols, ThePartial, TheMissing, TheMapped
<1>16. ThePadding(m) \in Seq(Chunk) /\ Bytes(ThePadding(m)) = calc_length(m).padding
  <2> DEFINE a == U(pad, 0)
  <2>1. ThePadding(m) = IF pad = 0 THEN <<>> ELSE <<a>>
    BY <1>4 DEF ThePadding
  <2>2. pad # 0 => a \in Chunk /\ a.n = pad
    <3>1. pad # 0 => pad \in Width
      BY DEF Width
    <3> QED BY <1>6, <3>1
  <2> HIDE DEF a
  <2> QED BY <1>4, <1>5, <1>8, <2>1, <2>2
<1> QED BY <1>9, <1>10, <1>11, <1>12, <1>13, <1>14, <1>15, <1>16

\* The same for chunks.
LEMMA SeqAssociative ==
    ASSUME NEW h \in Seq(Chunk), NEW t \in Seq(Chunk), NEW u \in Seq(Chunk)
    PROVE  t \o u \in Seq(Chunk) /\ (h \o t) \o u = h \o (t \o u)
<1>1. IsSeq(h) /\ IsSeq(t) /\ IsSeq(u)
  BY SeqIsSeq
<1>2. (h \o t) \o u = h \o (t \o u)
  BY <1>1, IsSeqAssociative
<1> QED BY <1>2

\* What two sequences of chunks are together.
LEMMA SeqJoined ==
    ASSUME NEW s \in Seq(Chunk), NEW t \in Seq(Chunk)
    PROVE  /\ s \o t \in Seq(Chunk) /\ Len(s) \in Nat /\ Len(t) \in Nat
           /\ Len(s \o t) = Len(s) + Len(t)
           /\ \A i \in 1..Len(s) : (s \o t)[i] = s[i]
           /\ \A i \in 1..Len(t) : (s \o t)[Len(s) + i] = t[i]
<1>1. IsSeq(s) /\ IsSeq(t)
  BY SeqIsSeq
<1> QED BY <1>1, IsSeqConcat

\* Four chunks are two and two.
LEMMA FourSplit ==
    ASSUME NEW p \in Seq(Chunk), Len(p) = 2, NEW q \in Seq(Chunk), Len(q) = 2,
           NEW f \in Seq(Chunk), Len(f) = 4,
           f[1] = p[1], f[2] = p[2], f[3] = q[1], f[4] = q[2]
    PROVE  f = p \o q
<1>1. /\ p \o q \in Seq(Chunk) /\ Len(p \o q) = 2 + 2
      /\ \A i \in 1..2 : (p \o q)[i] = p[i]
      /\ \A i \in 1..2 : (p \o q)[2 + i] = q[i]
  <2>1. /\ p \o q \in Seq(Chunk) /\ Len(p \o q) = Len(p) + Len(q)
        /\ \A i \in 1..Len(p) : (p \o q)[i] = p[i]
        /\ \A i \in 1..Len(q) : (p \o q)[Len(p) + i] = q[i]
    BY SeqJoined
  <2> QED BY <2>1, Zenon
<1>2. \A i \in 1..4 : (p \o q)[i] = f[i]
  <2> TAKE i \in 1..4
  <2>1. /\ i = 1 \/ i = 2 \/ i = 2 + 1 \/ i = 2 + 2
        /\ 1 \in 1..2 /\ 2 \in 1..2 /\ 2 + 1 = 3 /\ 2 + 2 = 4
    OBVIOUS
  <2> QED BY <1>1, <2>1
<1> QED BY <1>1, <1>2, SeqEqual

\* The layout is the prelude and the body.
LEMMA LayoutParts ==
    ASSUME NEW m \in Metadata
    PROVE  /\ Layout(m) = ThePrelude(m) \o Body(m)
           /\ Body(m) \in Seq(Chunk) /\ Layout(m) \in Seq(Chunk)
<1> DEFINE h  == ThePrelude(m)
           a  == TheNames(m)
           y1 == a \o TheRange(m)
           y2 == y1 \o TheStypes(m)
           y3 == y2 \o TheLen(m)
           y4 == y3 \o TheRest(m)
           y5 == y4 \o TheSymbols(m)
           y6 == y5 \o ThePartial(m)
           y7 == y6 \o TheMissing(m)
           y8 == y7 \o TheMapped(m)
           y9 == y8 \o ThePadding(m)
           x1 == U(1, IF m.version = 0 THEN 1 ELSE m.version)
           x2 == U(4, calc_length(m).length)
           x3 == Cstr(DATASET_CSTR_LEN, m.dataset)
           x4 == U(2, RawSchema(m))
<1>1. Layout(m) = <<x1, x2, x3, x4>> \o TheRange(m) \o TheStypes(m) \o TheLen(m)
                  \o TheRest(m) \o TheSymbols(m) \o ThePartial(m) \o TheMissing(m)
                  \o TheMapped(m) \o ThePadding(m)
  BY Zenon DEF Layout, TheRange, TheStypes, TheLen, TheRest, TheSymbols, ThePartial,
               TheMissing, TheMapped, ThePadding, RawSchema, RawIn
<1>2. h = <<x1, x2>> /\ a = <<x3, x4>>
  BY DEF ThePrelude, TheNames
<1>3. Body(m) = y9
  BY DEF Body
<1>4. x1 \in Chunk /\ x2 \in Chunk /\ x3 \in Chunk /\ x4 \in Chunk
  <2>1. h \in Seq(Chunk) /\ a \in Seq(Chunk)
    BY PartsTyped
  <2> HIDE DEF x1, x2, x3, x4
  <2>2. /\ <<x1, x2>>[1] = x1 /\ <<x1, x2>>[2] = x2 /\ Len(<<x1, x2>>) = 2
        /\ <<x3, x4>>[1] = x3 /\ <<x3, x4>>[2] = x4 /\ Len(<<x3, x4>>) = 2
    OBVIOUS
  <2>3. \A s \in Seq(Chunk) : Len(s) = 2 => s[1] \in Chunk /\ s[2] \in Chunk
    BY ElementOfSeq
  <2>4. <<x1, x2>> \in Seq(Chunk) /\ <<x3, x4>> \in Seq(Chunk)
    BY <1>2, <2>1
  <2> QED BY <2>2, <2>3, <2>4
<1>5. <<x1, x2, x3, x4>> = h \o a
  <2> HIDE DEF x1, x2, x3, x4
  <2> HIDE DEF h, a
  <2> DEFINE f == <<x1, x2, x3, x4>>
  <2>1. f \in Seq(Chunk) /\ Len(f) = 4 /\ f[1] = x1 /\ f[2] = x2 /\ f[3] = x3 /\ f[4] = x4
    BY <1>4
  <2>2. /\ h \in Seq(Chunk) /\ Len(h) = 2 /\ h[1] = x1 /\ h[2] = x2
        /\ a \in Seq(Chunk) /\ Len(a) = 2 /\ a[1] = x3 /\ a[2] = x4
    BY <1>2, <1>4
  <2> HIDE DEF f
  <2>3. f = h \o a
    BY <2>1, <2>2, FourSplit
  <2> QED BY <2>3 DEF f
<1> HIDE DEF x1, x2, x3, x4, h, a
<1> DEFINE r == TheRange(m)
           s == TheStypes(m)
           l == TheLen(m)
           d == TheRest(m)
           e1 == TheSymbols(m)
           e2 == ThePartial(m)
           e3 == TheMissing(m)
           e4 == TheMapped(m)
           p == ThePadding(m)
<1>6. /\ h \in Seq(Chunk) /\ a \in Seq(Chunk) /\ r \in Seq(Chunk) /\ s \in Seq(Chunk)
      /\ l \in Seq(Chunk) /\ d \in Seq(Chunk) /\ e1 \in Seq(Chunk) /\ e2 \in Seq(Chunk)
      /\ e3 \in Seq(Chunk) /\ e4 \in Seq(Chunk) /\ p \in Seq(Chunk)
  BY PartsTyped DEF h, a
<1>7. \A t, u \in Seq(Chunk) : /\ t \o u \in Seq(Chunk)
                               /\ (h \o t) \o u = h \o (t \o u)
  <2> TAKE t, u \in Seq(Chunk)
  <2>1. h \in Seq(Chunk)
    BY <1>6
  <2> QED BY <2>1, SeqAssociative
<1>8. Layout(m) = (((((((((h \o a) \o r) \o s) \o l) \o d) \o e1) \o e2) \o e3) \o e4) \o p
  BY <1>1, <1>5
<1> HIDE DEF r, s, l, d, e1, e2, e3, e4, p
<1>9. y1 = a \o r /\ y2 = y1 \o s /\ y3 = y2 \o l /\ y4 = y3 \o d /\ y5 = y4 \o e1
      /\ y6 = y5 \o e2 /\ y7 = y6 \o e3 /\ y8 = y7 \o e4 /\ y9 = y8 \o p
  BY DEF r, s, l, d, e1, e2, e3, e4, p
<1> HIDE DEF y1, y2, y3, y4, y5, y6, y7, y8, y9
<1>10. /\ y1 \in Seq(Chunk) /\ y2 \in Seq(Chunk) /\ y3 \in Seq(Chunk) /\ y4 \in Seq(Chunk)
       /\ y5 \in Seq(Chunk) /\ y6 \in Seq(Chunk) /\ y7 \in Seq(Chunk) /\ y8 \in Seq(Chunk)
       /\ y9 \in Seq(Chunk)
  BY <1>6, <1>7, <1>9
<1>11. /\ (h \o a) \o r = h \o y1 /\ (h \o y1) \o s = h \o y2 /\ (h \o y2) \o l = h \o y3
       /\ (h \o y3) \o d = h \o y4 /\ (h \o y4) \o e1 = h \o y5 /\ (h \o y5) \o e2 = h \o y6
       /\ (h \o y6) \o e3 = h \o y7 /\ (h \o y7) \o e4 = h \o y8 /\ (h \o y8) \o p = h \o y9
  <2>1. (h \o a) \o r = h \o (a \o r) /\ (h \o y1) \o s = h \o (y1 \o s)
        /\ (h \o y2) \o l = h \o (y2 \o l) /\ (h \o y3) \o d = h \o (y3 \o d)
        /\ (h \o y4) \o e1 = h \o (y4 \o e1) /\ (h \o y5) \o e2 = h \o (y5 \o e2)
        /\ (h \o y6) \o e3 = h \o (y6 \o e3) /\ (h \o y7) \o e4 = h \o (y7 \o e4)
        /\ (h \o y8) \o p = h \o (y8 \o p)
    BY <1>6, <1>7, <1>10, Zenon
  <2> QED BY <1>9, <2>1, Zenon
<1>12. Layout(m) = h \o y9
  BY <1>8, <1>11, Zenon
<1>13. h \o y9 \in Seq(Chunk)
  BY <1>6, <1>7, <1>10
<1> QED BY <1>3, <1>10, <1>12, <1>13 DEF h

\* Without the first three chunks.
LEMMA DropThree ==
    ASSUME NEW x \in Chunk, NEW h \in Seq(Chunk), Len(h) = 2, NEW y \in Seq(Chunk)
    PROVE  LET b == <<x>> \o (h \o y) IN SubSeq(b, 4, Len(b)) = y
<1> DEFINE o == <<x>>
           z == h \o y
           b == o \o z
           n == Len(y)
           t == SubSeq(b, 4, Len(b))
<1>1. o \in Seq(Chunk) /\ Len(o) = 1 /\ n \in Nat
  OBVIOUS
<1>2. /\ z \in Seq(Chunk) /\ Len(z) = 2 + n
      /\ \A i \in 1..n : z[2 + i] = y[i]
  <2>1. /\ z \in Seq(Chunk) /\ Len(z) = Len(h) + Len(y)
        /\ \A i \in 1..Len(y) : z[Len(h) + i] = y[i]
    BY SeqJoined
  <2> HIDE DEF z
  <2> QED BY <2>1
<1> HIDE DEF o, z
<1>3. /\ b \in Seq(Chunk) /\ Len(b) = 3 + n
      /\ \A i \in 1..(2 + n) : b[1 + i] = z[i]
  <2>1. /\ b \in Seq(Chunk) /\ Len(b) = Len(o) + Len(z)
        /\ \A i \in 1..Len(z) : b[Len(o) + i] = z[i]
    BY <1>1, <1>2, SeqJoined
  <2> HIDE DEF b
  <2> QED BY <1>1, <1>2, <2>1
<1> HIDE DEF b
<1>4. \A i \in 1..n : b[i + 3] = y[i]
  <2> TAKE i \in 1..n
  <2>1. 2 + i \in 1..(2 + n) /\ i + 3 = 1 + (2 + i)
    BY <1>1
  <2> QED BY <1>2, <1>3, <2>1
<1>5. /\ t \in Seq(Chunk) /\ Len(t) = IF 4 <= Len(b) THEN Len(b) - 4 + 1 ELSE 0
      /\ \A i \in 1..(Len(b) - 4 + 1) : t[i] = b[4 + i - 1]
  <2>1. \A i \in 4..Len(b) : b[i] \in Chunk
    BY <1>1, <1>3, ElementOfSeq
  <2>2. 4 \in Int /\ Len(b) \in Int
    BY <1>1, <1>3
  <2> QED BY <2>1, <2>2, SubSeqProperties
<1>6. Len(t) = Len(y) /\ \A i \in 1..Len(y) : t[i] = y[i]
  <2>1. Len(t) = n
    BY <1>1, <1>3, <1>5
  <2>2. ASSUME NEW i \in 1..n PROVE t[i] = y[i]
    <3>1. i \in 1..(Len(b) - 4 + 1) /\ 4 + i - 1 = i + 3
      BY <1>1, <1>3
    <3> QED BY <1>4, <1>5, <3>1
  <2> QED BY <2>1, <2>2
<1> HIDE DEF t
<1>7. t = y
  BY <1>5, <1>6, SeqEqual
<1> QED BY <1>7 DEF t, b, o, z

\* What encode writes, whole or up to the text that it refuses.
LEMMA Encoded ==
    ASSUME NEW m \in Metadata
    PROVE  /\ encode(m).bytes \in Seq(Chunk)
           /\ encode(m).ok => encode(m).bytes = <<Cstr(3, "DBN")>> \o Layout(m)
<1> DEFINE body == Layout(m)
           x == Cstr(3, "DBN")
           o == <<x>>
           bad == {i \in DOMAIN body : Refused(body[i])}
           last == IF bad = {} THEN Len(body) ELSE Min(bad) - 1
           cut == SubSeq(body, 1, last)
           good == bad = {}
<1>1. encode(m) = [ok |-> good, bytes |-> o \o cut]
  <2>1. ~ (m.version > CURRENT_VERSION)
    BY DEF Metadata, CURRENT_VERSION
  <2> QED BY <2>1, Zenon DEF encode, EncodedUntilRefused, EncodedTo
<1> DEFINE written == o \o cut
<1>2. encode(m).ok = good /\ encode(m).bytes = written
  <2>1. encode(m) = [ok |-> good, bytes |-> written]
    BY <1>1
  <2> HIDE DEF good, written
  <2> QED BY ONLY <2>1
<1> HIDE DEF good, written
<1>3. body \in Seq(Chunk)
  BY LayoutParts
<1> HIDE DEF body
<1>4. DOMAIN body = 1..Len(body) /\ Len(body) \in Nat
  BY <1>3
<1>5. last \in 0..Len(body) /\ last \in Int
  <2>1. CASE bad = {}
    BY <1>4, <2>1
  <2>2. CASE bad # {}
    <3>1. bad \subseteq Nat
      BY <1>4
    <3>2. \E i \in bad : \A j \in bad : i <= j
      BY <2>2, <3>1, LeastNat
    <3> HIDE DEF bad
    <3>3. Min(bad) \in bad
      BY <3>2 DEF Min
    <3>4. Min(bad) \in 1..Len(body)
      BY <1>4, <3>3 DEF bad
    <3> QED BY <1>4, <2>2, <3>4
  <2> QED BY <2>1, <2>2
<1> HIDE DEF bad
<1>6. x \in Chunk
  <2>1. 3 \in Width /\ "DBN" \in Value
    BY DEF Width, Value
  <2> QED BY <2>1 DEF Chunk, Cstr
<1>7. o \in Seq(Chunk)
  <2> HIDE DEF x
  <2> QED BY <1>6
<1>8. /\ cut \in Seq(Chunk) /\ Len(cut) = IF 1 <= last THEN last - 1 + 1 ELSE 0
      /\ \A i \in 1..(last - 1 + 1) : cut[i] = body[1 + i - 1]
  <2> HIDE DEF last
  <2>1. \A i \in 1..last : body[i] \in Chunk
    BY <1>3, <1>4, <1>5, ElementOfSeq
  <2> QED BY <1>5, <2>1, SubSeqProperties
<1>9. o \o cut \in Seq(Chunk)
  <2> HIDE DEF o, cut
  <2> QED BY <1>7, <1>8
<1>10. ASSUME good PROVE cut = body
  <2>1. last = Len(body)
    BY <1>10 DEF good
  <2>2. Len(cut) = Len(body) /\ \A i \in 1..Len(body) : cut[i] = body[i]
    BY <1>4, <1>8, <2>1
  <2> HIDE DEF cut
  <2> QED BY <1>3, <1>8, <2>2, SeqEqual
<1> HIDE DEF cut, o
<1> QED BY <1>2, <1>9, <1>10 DEF o, body, written

\* The length that the prelude announces is the length of what follows it: a
\* reader that skips so many bytes is at the first record.
LEMMA LengthWritten ==
    ASSUME NEW m \in Metadata
    PROVE  /\ Bytes(Body(m)) \in Nat
           /\ m.version # 0 => Bytes(Body(m)) = calc_length(m).length
<1> DEFINE a  == TheNames(m)
           r == TheRange(m)
           s == TheStypes(m)
           l == TheLen(m)
           d == TheRest(m)
           e1 == TheSymbols(m)
           e2 == ThePartial(m)
           e3 == TheMissing(m)
           e4 == TheMapped(m)
           p == ThePadding(m)
<1>1. /\ a \in Seq(Chunk) /\ r \in Seq(Chunk) /\ s \in Seq(Chunk)
      /\ l \in Seq(Chunk) /\ d \in Seq(Chunk) /\ e1 \in Seq(Chunk) /\ e2 \in Seq(Chunk)
      /\ e3 \in Seq(Chunk) /\ e4 \in Seq(Chunk) /\ p \in Seq(Chunk)
  BY PartsTyped
<1>2. /\ Bytes(a) = 18 /\ Bytes(r) = (IF m.version = 1 THEN 32 ELSE 24) /\ Bytes(s) = 3
      /\ Bytes(l) = (IF m.version > 1 THEN 2 ELSE 0)
      /\ Bytes(d) = (IF m.version = 1 THEN 51 ELSE 57)
      /\ Bytes(p) = calc_length(m).padding
  BY PartsTyped
<1>3. Repeated(m) = Bytes(e1) + Bytes(e2) + Bytes(e3) + Bytes(e4)
  BY DEF Repeated, TheSymbols, ThePartial, TheMissing, TheMapped
<1>4. Body(m) = ((((((((a \o r) \o s) \o l) \o d) \o e1) \o e2) \o e3) \o e4) \o p
  BY DEF Body
<1>5. \A t, u \in Seq(Chunk) : /\ t \o u \in Seq(Chunk) /\ Bytes(t) \in Nat
                               /\ Bytes(t \o u) = Bytes(t) + Bytes(u)
  BY ChunksSized, StartsConcat, BytesType
<1> HIDE DEF a, r, s, l, d, e1, e2, e3, e4, p
<1>6. Bytes(Body(m)) = Bytes(a) + Bytes(r) + Bytes(s) + Bytes(l) + Bytes(d)
                       + Bytes(e1) + Bytes(e2) + Bytes(e3) + Bytes(e4) + Bytes(p)
  <2>1. a \o r \in Seq(Chunk) /\ Bytes(a \o r) = Bytes(a) + Bytes(r)
    BY <1>1, <1>5
  <2> DEFINE y1 == a \o r
  <2> HIDE DEF y1
  <2>2. y1 \o s \in Seq(Chunk) /\ Bytes(y1 \o s) = Bytes(a) + Bytes(r) + Bytes(s)
    BY <1>1, <1>5, <2>1 DEF y1
  <2> DEFINE y2 == y1 \o s
  <2> HIDE DEF y2
  <2>3. y2 \o l \in Seq(Chunk) /\ Bytes(y2 \o l) = Bytes(y2) + Bytes(l)
    BY <1>1, <1>5, <2>2 DEF y2
  <2> DEFINE y3 == y2 \o l
  <2> HIDE DEF y3
  <2>4. y3 \o d \in Seq(Chunk) /\ Bytes(y3 \o d) = Bytes(y3) + Bytes(d)
    BY <1>1, <1>5, <2>3 DEF y3
  <2> DEFINE y4 == y3 \o d
  <2> HIDE DEF y4
  <2>5. y4 \o e1 \in Seq(Chunk) /\ Bytes(y4 \o e1) = Bytes(y4) + Bytes(e1)
    BY <1>1, <1>5, <2>4 DEF y4
  <2> DEFINE y5 == y4 \o e1
  <2> HIDE DEF y5
  <2>6. y5 \o e2 \in Seq(Chunk) /\ Bytes(y5 \o e2) = Bytes(y5) + Bytes(e2)
    BY <1>1, <1>5, <2>5 DEF y5
  <2> DEFINE y6 == y5 \o e2
  <2> HIDE DEF y6
  <2>7. y6 \o e3 \in Seq(Chunk) /\ Bytes(y6 \o e3) = Bytes(y6) + Bytes(e3)
    BY <1>1, <1>5, <2>6 DEF y6
  <2> DEFINE y7 == y6 \o e3
  <2> HIDE DEF y7
  <2>8. y7 \o e4 \in Seq(Chunk) /\ Bytes(y7 \o e4) = Bytes(y7) + Bytes(e4)
    BY <1>1, <1>5, <2>7 DEF y7
  <2> DEFINE y8 == y7 \o e4
  <2> HIDE DEF y8
  <2>9. Bytes(y8 \o p) = Bytes(y8) + Bytes(p)
    BY <1>1, <1>5, <2>8 DEF y8
  <2>10. Body(m) = y8 \o p
    BY <1>4 DEF y8, y7, y6, y5, y4, y3, y2, y1
  <2> QED BY <2>1, <2>2, <2>3, <2>4, <2>5, <2>6, <2>7, <2>8, <2>9, <2>10
          DEF y8, y7, y6, y5, y4, y3, y2
<1>7. PICK pad \in 0..7 : /\ Repeated(m) \in Nat
                          /\ calc_length(m) = [length |-> 104 + Repeated(m) + pad, padding |-> pad]
  BY LengthCalculated
<1>8. calc_length(m).padding = pad /\ calc_length(m).length = 104 + Repeated(m) + pad
  BY <1>7
<1>9. /\ Bytes(e1) \in Nat /\ Bytes(e2) \in Nat /\ Bytes(e3) \in Nat /\ Bytes(e4) \in Nat
      /\ m.version \in 0..3
  BY <1>1, <1>5 DEF Metadata, CURRENT_VERSION
<1> DEFINE n1 == Bytes(e1)
           n2 == Bytes(e2)
           n3 == Bytes(e3)
           n4 == Bytes(e4)
           all == Bytes(Body(m))
           total == calc_length(m).length
           v == m.version
<1>10. /\ n1 \in Nat /\ n2 \in Nat /\ n3 \in Nat /\ n4 \in Nat /\ v \in 0..3
       /\ all = 18 + (IF v = 1 THEN 32 ELSE 24) + 3 + (IF v > 1 THEN 2 ELSE 0)
                + (IF v = 1 THEN 51 ELSE 57) + n1 + n2 + n3 + n4 + pad
       /\ total = 104 + (n1 + n2 + n3 + n4) + pad
  BY <1>2, <1>3, <1>6, <1>8, <1>9
<1> HIDE DEF n1, n2, n3, n4, all, total, v
<1>11. all \in Nat /\ (v # 0 => all = total)
  BY ONLY <1>10, pad \in 0..7
<1> QED BY <1>11 DEF all, total, v

\* Where each part of the body lies.
LEMMA BodyLies ==
    ASSUME NEW m \in Metadata, m.version # 0
    PROVE  LET Y == Body(m)
               v1 == m.version = 1
               n1 == Bytes(TheSymbols(m))
               n2 == Bytes(ThePartial(m))
               n3 == Bytes(TheMissing(m))
           IN  /\ LiesAt(Y, 0, TheNames(m))
               /\ LiesAt(Y, 18, TheRange(m))
               /\ LiesAt(Y, IF v1 THEN 50 ELSE 42, TheStypes(m))
               /\ LiesAt(Y, IF v1 THEN 53 ELSE 45, TheLen(m))
               /\ LiesAt(Y, IF v1 THEN 53 ELSE 47, TheRest(m))
               /\ LiesAt(Y, 104, TheSymbols(m))
               /\ LiesAt(Y, 104 + n1, ThePartial(m))
               /\ LiesAt(Y, 104 + n1 + n2, TheMissing(m))
               /\ LiesAt(Y, 104 + n1 + n2 + n3, TheMapped(m))
<1> DEFINE a  == TheNames(m)
           r == TheRange(m)
           s == TheStypes(m)
           l == TheLen(m)
           d == TheRest(m)
           e1 == TheSymbols(m)
           e2 == ThePartial(m)
           e3 == TheMissing(m)
           e4 == TheMapped(m)
           p == ThePadding(m)
           Y == Body(m)
           y1 == a \o r
           y2 == y1 \o s
           y3 == y2 \o l
           y4 == y3 \o d
           y5 == y4 \o e1
           y6 == y5 \o e2
           y7 == y6 \o e3
           y8 == y7 \o e4
           v == m.version
           n1 == Bytes(e1)
           n2 == Bytes(e2)
           n3 == Bytes(e3)
<1>1. /\ a \in Seq(Chunk) /\ r \in Seq(Chunk) /\ s \in Seq(Chunk)
      /\ l \in Seq(Chunk) /\ d \in Seq(Chunk) /\ e1 \in Seq(Chunk) /\ e2 \in Seq(Chunk)
      /\ e3 \in Seq(Chunk) /\ e4 \in Seq(Chunk) /\ p \in Seq(Chunk)
  BY PartsTyped
<1>2. /\ Bytes(a) = 18 /\ Bytes(r) = (IF v = 1 THEN 32 ELSE 24) /\ Bytes(s) = 3
      /\ Bytes(l) = (IF v > 1 THEN 2 ELSE 0) /\ Bytes(d) = (IF v = 1 THEN 51 ELSE 57)
  BY PartsTyped
<1>3. Y = y8 \o p /\ Y \in Seq(Chunk)
  BY LayoutParts DEF Body
<1>4. v \in 1..3
  BY DEF Metadata, CURRENT_VERSION
<1>5. \A t, u \in Seq(Chunk) : /\ t \o u \in Seq(Chunk) /\ Bytes(t) \in Nat
                               /\ Bytes(t \o u) = Bytes(t) + Bytes(u)
  BY ChunksSized, StartsConcat, BytesType
<1>6. \A t, u \in Seq(Chunk) : LiesAt(Y, 0, t \o u) => /\ LiesAt(Y, 0, t)
                                                       /\ LiesAt(Y, 0 + Bytes(t), u)
  BY LiesSplit
<1>7. /\ y1 = a \o r /\ y2 = y1 \o s /\ y3 = y2 \o l /\ y4 = y3 \o d /\ y5 = y4 \o e1
      /\ y6 = y5 \o e2 /\ y7 = y6 \o e3 /\ y8 = y7 \o e4
  OBVIOUS
<1>8. LiesAt(Y, 0, y8 \o p)
  <2>1. LiesAt(Y, 0, Y)
    <3> HIDE DEF Y
    <3> QED BY <1>3, LiesAll
  <2> HIDE DEF Y, y8
  <2> QED BY <1>3, <2>1
<1> HIDE DEF a, r, s, l, d, e1, e2, e3, e4, p, Y, y1, y2, y3, y4, y5, y6, y7, y8, v
<1>9. y1 \in Seq(Chunk) /\ Bytes(y1) = Bytes(a) + Bytes(r)
  BY <1>1, <1>5, <1>7
<1>10. y2 \in Seq(Chunk) /\ Bytes(y2) = Bytes(y1) + Bytes(s)
  BY <1>1, <1>5, <1>7, <1>9
<1>11. y3 \in Seq(Chunk) /\ Bytes(y3) = Bytes(y2) + Bytes(l)
  BY <1>1, <1>5, <1>7, <1>10
<1>12. y4 \in Seq(Chunk) /\ Bytes(y4) = Bytes(y3) + Bytes(d)
  BY <1>1, <1>5, <1>7, <1>11
<1>13. y5 \in Seq(Chunk) /\ Bytes(y5) = Bytes(y4) + Bytes(e1)
  BY <1>1, <1>5, <1>7, <1>12
<1>14. y6 \in Seq(Chunk) /\ Bytes(y6) = Bytes(y5) + Bytes(e2)
  BY <1>1, <1>5, <1>7, <1>13
<1>15. y7 \in Seq(Chunk) /\ Bytes(y7) = Bytes(y6) + Bytes(e3)
  BY <1>1, <1>5, <1>7, <1>14
<1>16. y8 \in Seq(Chunk)
  BY <1>1, <1>5, <1>7, <1>15
<1>17. LiesAt(Y, 0, y8)
  BY <1>1, <1>6, <1>8, <1>16
<1>18. LiesAt(Y, 0, y7) /\ LiesAt(Y, 0 + Bytes(y7), e4)
  BY <1>1, <1>6, <1>7, <1>15, <1>17
<1>19. LiesAt(Y, 0, y6) /\ LiesAt(Y, 0 + Bytes(y6), e3)
  BY <1>1, <1>6, <1>7, <1>14, <1>18
<1>20. LiesAt(Y, 0, y5) /\ LiesAt(Y, 0 + Bytes(y5), e2)
  BY <1>1, <1>6, <1>7, <1>13, <1>19
<1>21. LiesAt(Y, 0, y4) /\ LiesAt(Y, 0 + Bytes(y4), e1)
  BY <1>1, <1>6, <1>7, <1>12, <1>20
<1>22. LiesAt(Y, 0, y3) /\ LiesAt(Y, 0 + Bytes(y3), d)
  BY <1>1, <1>6, <1>7, <1>11, <1>21
<1>23. LiesAt(Y, 0, y2) /\ LiesAt(Y, 0 + Bytes(y2), l)
  BY <1>1, <1>6, <1>7, <1>10, <1>22
<1>24. LiesAt(Y, 0, y1) /\ LiesAt(Y, 0 + Bytes(y1), s)
  BY <1>1, <1>6, <1>7, <1>9, <1>23
<1>25. LiesAt(Y, 0, a) /\ LiesAt(Y, 0 + Bytes(a), r)
  BY <1>1, <1>6, <1>7, <1>24
<1>26. n1 \in Nat /\ n2 \in Nat /\ n3 \in Nat
  BY <1>1, <1>5
<1> HIDE DEF n1, n2, n3
<1>27. /\ 0 + Bytes(a) = 18
       /\ 0 + Bytes(y1) = (IF v = 1 THEN 50 ELSE 42)
       /\ 0 + Bytes(y2) = (IF v = 1 THEN 53 ELSE 45)
       /\ 0 + Bytes(y3) = (IF v = 1 THEN 53 ELSE 47)
       /\ 0 + Bytes(y4) = 104
       /\ 0 + Bytes(y5) = 104 + n1
       /\ 0 + Bytes(y6) = 104 + n1 + n2
       /\ 0 + Bytes(y7) = 104 + n1 + n2 + n3
  <2>1. /\ Bytes(y1) = (IF v = 1 THEN 50 ELSE 42)
        /\ Bytes(y2) = (IF v = 1 THEN 53 ELSE 45)
        /\ Bytes(y3) = (IF v = 1 THEN 53 ELSE 47)
        /\ Bytes(y4) = 104
    BY <1>2, <1>4, <1>9, <1>10, <1>11, <1>12
  <2>2. Bytes(y5) = 104 + n1
    BY <1>13, <2>1 DEF n1
  <2>3. Bytes(y6) = 104 + n1 + n2
    BY <1>14, <2>2 DEF n2
  <2>4. Bytes(y7) = 104 + n1 + n2 + n3
    BY <1>15, <2>3 DEF n3
  <2> QED BY <1>2, <1>4, <1>26, <2>1, <2>2, <2>3, <2>4
<1> QED BY <1>18, <1>19, <1>20, <1>21, <1>22, <1>23, <1>24, <1>25, <1>27
       DEF a, r, s, l, d, e1, e2, e3, e4, Y, v, n1, n2, n3

-----------------------------------------------------------------------------
(* Reading the fields. *)

\* A number stands for one variant.
LEMMA Inverts ==
    ASSUME NEW e, NEW x \in DOMAIN e, \A y \in DOMAIN e : e[y] = e[x] => y = x
    PROVE  try_from(e, e[x]) = x
<1> DEFINE found == {v \in DOMAIN e : e[v] = e[x]}
<1>1. found = {x}
  OBVIOUS
<1>2. try_from(e, e[x]) = IF found = {} THEN "Err" ELSE CHOOSE v \in found : TRUE
  BY Zenon DEF try_from
<1> HIDE DEF found
<1> QED BY <1>1, <1>2

\* Every schema is read back from its number.
LEMMA SchemaInverts ==
    ASSUME NEW x \in DOMAIN Schema
    PROVE  /\ try_from(Schema, Schema[x]) = x
           /\ Schema[x] # NULL_SCHEMA /\ x # "Err" /\ x # "None"
<1>1. \A y \in DOMAIN Schema : Schema[y] = Schema[x] => y = x
  BY DEF Schema
<1>2. Schema[x] # NULL_SCHEMA /\ x # "Err" /\ x # "None"
  BY DEF Schema, NULL_SCHEMA
<1> QED BY <1>1, <1>2, Inverts

\* Every symbology type is read back from its number.
LEMMA STypeInverts ==
    ASSUME NEW x \in DOMAIN SType
    PROVE  /\ try_from(SType, SType[x]) = x
           /\ SType[x] # NULL_STYPE /\ x # "Err" /\ x # "None"
<1>1. \A y \in DOMAIN SType : SType[y] = SType[x] => y = x
  BY DEF SType
<1>2. SType[x] # NULL_STYPE /\ x # "Err" /\ x # "None"
  BY DEF SType, NULL_STYPE
<1> QED BY <1>1, <1>2, Inverts

\* What stands for a number that may be absent.
RawEnd(m)   == IF m.end = None THEN UNDEF_TS ELSE m.end
RawLimit(m) == IF m.limit = None THEN NULL_LIMIT ELSE m.limit
RawOut(m)   == IF m.ts_out THEN 1 ELSE 0

\* Every field is where the decoder looks for it.
LEMMA FieldsRead ==
    ASSUME NEW m \in Metadata, m.version # 0
    PROVE  LET b == Placed(Body(m))
               st == IF m.version = 1 THEN 50 ELSE 42
           IN  /\ ReadText(b, 0, 16) = m.dataset /\ ReadInt(b, 16, 2) = RawSchema(m)
               /\ ReadInt(b, 18, 8) = m.start /\ ReadInt(b, 26, 8) = RawEnd(m)
               /\ ReadInt(b, 34, 8) = RawLimit(m)
               /\ ReadInt(b, st, 1) = RawIn(m) /\ ReadInt(b, st + 1, 1) = SType[m.stype_out]
               /\ ReadInt(b, st + 2, 1) = RawOut(m)
               /\ m.version # 1 => ReadInt(b, 45, 2) = m.symbol_cstr_len
               /\ ReadInt(b, 100, 4) = 0
<1> DEFINE Y == Body(m)
           b == Placed(Y)
           st == IF m.version = 1 THEN 50 ELSE 42
<1>1. /\ LiesAt(Y, 0, TheNames(m)) /\ LiesAt(Y, 18, TheRange(m))
      /\ LiesAt(Y, st, TheStypes(m))
      /\ LiesAt(Y, IF m.version = 1 THEN 53 ELSE 45, TheLen(m))
      /\ LiesAt(Y, IF m.version = 1 THEN 53 ELSE 47, TheRest(m))
  BY BodyLies
<1>2. /\ m.version \in 1..3 /\ m.dataset \in Text /\ m.start \in Nat
      /\ m.end \in Nat \cup {-1} /\ m.limit \in Nat \cup {-1} /\ m.symbol_cstr_len \in Int
  BY DEF Metadata, CURRENT_VERSION, OptionalTime, OptionalNum, None
<1>3. \A k \in {1, 2, 4, 8, 16, 47, 53} : k \in Width
  BY DEF Width
<1>4. \A n \in Width : \A v \in Int : U(n, v) \in Chunk /\ U(n, v).n = n
  BY ChunkTypes
<1>5. \A n \in Width : \A v \in Text : Cstr(n, v) \in Chunk /\ Cstr(n, v).n = n
  BY ChunkTypes
<1>6. \A n \in Width : \A v \in Int : \A p : LiesAt(Y, p, <<U(n, v)>>) => ReadInt(b, p, n) = v
  BY LiesInt
<1>7. \A n \in Width : \A v \in Text : \A p : LiesAt(Y, p, <<Cstr(n, v)>>) => ReadText(b, p, n) = v
  BY LiesText
<1> HIDE DEF Y, b
<1>8. ReadText(b, 0, 16) = m.dataset /\ ReadInt(b, 16, 2) = RawSchema(m)
  <2> DEFINE x == Cstr(16, m.dataset)
             y == U(2, RawSchema(m))
  <2>1. x \in Chunk /\ y \in Chunk /\ x.n = 16 /\ RawSchema(m) \in Int
    BY <1>2, <1>3, <1>4, <1>5, RawNumbers
  <2>2. TheNames(m) = <<x, y>>
    BY DEF TheNames, DATASET_CSTR_LEN
  <2>3. LiesAt(Y, 0, <<x>>) /\ LiesAt(Y, 0 + 16, <<y>>)
    <3> HIDE DEF x, y
    <3> QED BY <1>1, <2>1, <2>2, LiesTwo
  <2>4. 0 + 16 = 16
    OBVIOUS
  <2> QED BY <1>2, <1>3, <1>6, <1>7, <2>1, <2>3, <2>4
<1>9. /\ ReadInt(b, 18, 8) = m.start /\ ReadInt(b, 26, 8) = RawEnd(m)
      /\ ReadInt(b, 34, 8) = RawLimit(m)
  <2> DEFINE x == U(8, m.start)
             y == U(8, RawEnd(m))
             z == U(8, RawLimit(m))
             d == U(8, UNDEF_TS)
             s == <<x, y, z>>
             t == IF m.version = 1 THEN <<d>> ELSE <<>>
  <2>1. RawEnd(m) \in Int /\ RawLimit(m) \in Int /\ UNDEF_TS \in Int /\ m.start \in Int
    BY <1>2 DEF RawEnd, RawLimit, UNDEF_TS, NULL_LIMIT, None
  <2>2. x \in Chunk /\ y \in Chunk /\ z \in Chunk /\ d \in Chunk /\ x.n = 8 /\ y.n = 8
    BY <1>3, <1>4, <2>1
  <2>3. TheRange(m) = s \o t
    BY DEF TheRange, encode_range_and_counts, RawEnd, RawLimit
  <2> HIDE DEF d
  <2>4. t \in Seq(Chunk)
    BY <2>2
  <2> HIDE DEF x, y, z, t
  <2>5. s \in Seq(Chunk)
    BY <2>2
  <2>6. LiesAt(Y, 18, s)
    <3> HIDE DEF s
    <3> QED BY <1>1, <2>3, <2>4, <2>5, LiesSplit
  <2>7. LiesAt(Y, 18, <<x>>) /\ LiesAt(Y, 18 + 8, <<y>>) /\ LiesAt(Y, 18 + 8 + 8, <<z>>)
    BY <2>2, <2>6, LiesThree
  <2>8. 18 + 8 = 26 /\ 18 + 8 + 8 = 34
    OBVIOUS
  <2> QED BY <1>3, <1>6, <2>1, <2>7, <2>8 DEF x, y, z
<1>10. /\ ReadInt(b, st, 1) = RawIn(m) /\ ReadInt(b, st + 1, 1) = SType[m.stype_out]
       /\ ReadInt(b, st + 2, 1) = RawOut(m)
  <2> DEFINE x == U(1, RawIn(m))
             y == U(1, SType[m.stype_out])
             z == U(1, RawOut(m))
  <2>1. RawIn(m) \in Int /\ SType[m.stype_out] \in Int /\ RawOut(m) \in Int
    BY RawNumbers DEF RawOut
  <2>2. x \in Chunk /\ y \in Chunk /\ z \in Chunk /\ x.n = 1 /\ y.n = 1
    BY <1>3, <1>4, <2>1
  <2>3. TheStypes(m) = <<x, y, z>>
    BY DEF TheStypes, RawOut
  <2>4. st \in Nat
    OBVIOUS
  <2> HIDE DEF st
  <2>5. LiesAt(Y, st, <<x>>) /\ LiesAt(Y, st + 1, <<y>>) /\ LiesAt(Y, st + 1 + 1, <<z>>)
    <3> HIDE DEF x, y, z
    <3> QED BY <1>1, <2>2, <2>3, <2>4, LiesThree
  <2>6. st + 1 + 1 = st + 2
    BY <2>4
  <2> QED BY <1>3, <1>6, <2>1, <2>5, <2>6
<1>11. m.version # 1 => ReadInt(b, 45, 2) = m.symbol_cstr_len
  <2> SUFFICES ASSUME m.version # 1 PROVE ReadInt(b, 45, 2) = m.symbol_cstr_len
    OBVIOUS
  <2>1. m.version > 1
    BY <1>2
  <2>2. LiesAt(Y, 45, <<U(2, m.symbol_cstr_len)>>)
    BY <1>1, <2>1 DEF TheLen
  <2> QED BY <1>2, <1>3, <1>6, <2>2
<1>12. ReadInt(b, 100, 4) = 0
  <2> DEFINE r == IF m.version = 1 THEN RESERVED_LEN_V1 ELSE RESERVED_LEN
             p == IF m.version = 1 THEN 53 ELSE 47
             x == U(r, 0)
             y == U(4, 0)
  <2>1. r \in Width /\ r = (IF m.version = 1 THEN 47 ELSE 53) /\ 0 \in Int /\ 4 \in Width
    BY <1>3 DEF RESERVED_LEN_V1, RESERVED_LEN
  <2>2. TheRest(m) = <<x, y>>
    BY DEF TheRest
  <2>3. p \in Nat /\ p + r = 100
    BY <2>1
  <2>4. LiesAt(Y, p, TheRest(m))
    BY <1>1
  <2> HIDE DEF r, p
  <2>5. x \in Chunk /\ y \in Chunk /\ x.n = r
    BY <1>4, <2>1
  <2>6. LiesAt(Y, p + r, <<y>>)
    <3> HIDE DEF x, y
    <3>1. LiesAt(Y, p, <<x, y>>)
      BY <2>2, <2>4
    <3>2. \A w, q : q \in Nat /\ LiesAt(w, q, <<x, y>>) => LiesAt(w, q + x.n, <<y>>)
      BY <2>5, LiesTwo
    <3>3. LiesAt(Y, p + x.n, <<y>>)
      BY <2>3, <3>1, <3>2
    <3> QED BY <2>5, <3>3
  <2> QED BY <1>6, <2>1, <2>3, <2>6
<1> QED BY <1>8, <1>9, <1>10, <1>11, <1>12 DEF b, Y

\* Every part that repeats is read where it lies, up to where the next one begins.
LEMMA RepeatedRead ==
    ASSUME NEW m \in Metadata, m.version # 0
    PROVE  LET b == Placed(Body(m))
               len == m.symbol_cstr_len
               q1  == 104 + Bytes(TheSymbols(m))
               q2  == 104 + Bytes(TheSymbols(m)) + Bytes(ThePartial(m))
               q3  == 104 + Bytes(TheSymbols(m)) + Bytes(ThePartial(m)) + Bytes(TheMissing(m))
               q4  == q3 + Bytes(TheMapped(m))
           IN  /\ decode_metadata_repeated_symbol_cstr(b, len, 104) = Decoding(q1, m.symbols, TRUE)
               /\ decode_metadata_repeated_symbol_cstr(b, len, q1) = Decoding(q2, m.partial, TRUE)
               /\ decode_metadata_repeated_symbol_cstr(b, len, q2) = Decoding(q3, m.not_found, TRUE)
               /\ decode_metadata_symbol_mappings(b, len, q3) = Decoding(q4, m.mappings, TRUE)
<1> DEFINE Y == Body(m)
           len == m.symbol_cstr_len
           n1 == Bytes(TheSymbols(m))
           n2 == Bytes(ThePartial(m))
           n3 == Bytes(TheMissing(m))
           q1 == 104 + n1
           q2 == 104 + n1 + n2
           q3 == 104 + n1 + n2 + n3
<1>1. /\ LiesAt(Y, 104, TheSymbols(m)) /\ LiesAt(Y, q1, ThePartial(m))
      /\ LiesAt(Y, q2, TheMissing(m)) /\ LiesAt(Y, q3, TheMapped(m))
  BY BodyLies
<1>2. /\ len \in Width /\ m.mappings \in Seq(Mapping) /\ m.symbols \in Seq(Text)
      /\ m.partial \in Seq(Text) /\ m.not_found \in Seq(Text)
  BY DEF Metadata, Width
<1>3. /\ n1 = 4 + Len(m.symbols) * len /\ n2 = 4 + Len(m.partial) * len
      /\ n3 = 4 + Len(m.not_found) * len
  BY <1>2, SymbolsEncoded DEF TheSymbols, ThePartial, TheMissing
<1>4. /\ Len(m.symbols) * len \in Nat /\ Len(m.partial) * len \in Nat
      /\ Len(m.not_found) * len \in Nat
  <2>1. /\ Len(m.symbols) \in Nat /\ Len(m.partial) \in Nat /\ Len(m.not_found) \in Nat
        /\ len \in Nat
    BY <1>2 DEF Width
  <2> QED BY <2>1, Product
<1>5. /\ 104 + 4 + Len(m.symbols) * len = q1 /\ q1 + 4 + Len(m.partial) * len = q2
      /\ q2 + 4 + Len(m.not_found) * len = q3
  <2> DEFINE x == Len(m.symbols) * len
             y == Len(m.partial) * len
             z == Len(m.not_found) * len
  <2>1. x \in Nat /\ y \in Nat /\ z \in Nat /\ n1 = 4 + x /\ n2 = 4 + y /\ n3 = 4 + z
    BY <1>3, <1>4
  <2> HIDE DEF x, y, z, n1, n2, n3
  <2>2. 104 + 4 + x = q1 /\ q1 + 4 + y = q2 /\ q2 + 4 + z = q3
    BY ONLY <2>1
  <2> QED BY <2>2 DEF x, y, z
<1> HIDE DEF Y, len, q1, q2, q3
<1> DEFINE b == Placed(Y)
<1>6. /\ LiesAt(Y, 104, encode_repeated_symbol_cstr(len, m.symbols))
      /\ LiesAt(Y, q1, encode_repeated_symbol_cstr(len, m.partial))
      /\ LiesAt(Y, q2, encode_repeated_symbol_cstr(len, m.not_found))
      /\ LiesAt(Y, q3, encode_symbol_mappings(len, m.mappings))
  BY <1>1 DEF TheSymbols, ThePartial, TheMissing, TheMapped, len
<1>7. decode_metadata_repeated_symbol_cstr(b, len, 104) = Decoding(q1, m.symbols, TRUE)
  BY <1>2, <1>5, <1>6, SymbolsDecoded
<1>8. decode_metadata_repeated_symbol_cstr(b, len, q1) = Decoding(q2, m.partial, TRUE)
  BY <1>2, <1>5, <1>6, SymbolsDecoded
<1>9. decode_metadata_repeated_symbol_cstr(b, len, q2) = Decoding(q3, m.not_found, TRUE)
  BY <1>2, <1>5, <1>6, SymbolsDecoded
<1>10. decode_metadata_symbol_mappings(b, len, q3) =
         Decoding(q3 + Bytes(TheMapped(m)), m.mappings, TRUE)
  <2> DEFINE maps == m.mappings
  <2>1. maps \in Seq(Mapping) /\ LiesAt(Y, q3, encode_symbol_mappings(len, maps))
    BY <1>2, <1>6
  <2> HIDE DEF maps
  <2>2. decode_metadata_symbol_mappings(Placed(Y), len, q3) =
          Decoding(q3 + Bytes(encode_symbol_mappings(len, maps)), maps, TRUE)
    BY <1>2, <2>1, MappingsDecoded
  <2> QED BY <2>2 DEF maps, TheMapped, len
<1> QED BY <1>7, <1>8, <1>9, <1>10 DEF len, Y, q1, q2, q3

\* The body decodes to the metadata that was encoded.
LEMMA BodyDecoded ==
    ASSUME NEW m \in Metadata, m.version # 0
    PROVE  decode_metadata_impl(m.version, Body(m)) = [ok |-> TRUE, meta |-> m]
<1> DEFINE version    == m.version
           buffer     == Body(m)
           b          == Placed(buffer)
           raw_schema == ReadInt(b, DATASET_CSTR_LEN, 2)
           range      == DATASET_CSTR_LEN + 2
           end        == ReadInt(b, range + 8, 8)
           limit      == ReadInt(b, range + 16, 8)
           stypes     == range + 24 + (IF version = 1 THEN 8 ELSE 0)
           raw_in     == ReadInt(b, stypes, 1)
           raw_out    == ReadInt(b, stypes + 1, 1)
           len        == IF version = 1 THEN version_symbol_cstr_len(1)
                         ELSE ReadInt(b, stypes + 3, 2)
           definition == stypes + 3 + (IF version = 1 THEN RESERVED_LEN_V1 ELSE 2 + RESERVED_LEN)
           symbols    == decode_metadata_repeated_symbol_cstr(b, len, definition + 4)
           partial    == decode_metadata_repeated_symbol_cstr(b, len, symbols.pos)
           not_found  == decode_metadata_repeated_symbol_cstr(b, len, partial.pos)
           mappings   == decode_metadata_symbol_mappings(b, len, not_found.pos)
           readable   == /\ raw_schema = NULL_SCHEMA \/ try_from(Schema, raw_schema) # "Err"
                         /\ raw_in = NULL_STYPE \/ try_from(SType, raw_in) # "Err"
                         /\ try_from(SType, raw_out) # "Err"
                         /\ ReadInt(b, definition, 4) = 0
                         /\ symbols.ok /\ partial.ok /\ not_found.ok /\ mappings.ok
           f1 == ReadText(b, 0, DATASET_CSTR_LEN)
           f2 == IF raw_schema = NULL_SCHEMA THEN "None" ELSE try_from(Schema, raw_schema)
           f3 == IF raw_in = NULL_STYPE THEN "None" ELSE try_from(SType, raw_in)
           f4 == try_from(SType, raw_out)
           f5 == ReadInt(b, range, 8)
           f6 == IF end \in {UNDEF_TS, 0} THEN None ELSE end
           f7 == IF limit = 0 THEN None ELSE limit
           f8 == ReadInt(b, stypes + 2, 1) # 0
           meta == [version |-> version, dataset |-> f1, schema |-> f2, stype_in |-> f3,
                    stype_out |-> f4, start |-> f5, end |-> f6, limit |-> f7, ts_out |-> f8,
                    symbol_cstr_len |-> len, symbols |-> symbols.res, partial |-> partial.res,
                    not_found |-> not_found.res, mappings |-> mappings.res]
<1>1. decode_metadata_impl(version, buffer) =
        IF ~readable THEN [ok |-> FALSE] ELSE [ok |-> TRUE, meta |-> meta]
  BY Zenon DEF decode_metadata_impl
<1>2. /\ m.version \in 1..3 /\ m.schema \in DOMAIN Schema \cup {"None"}
      /\ m.stype_in \in DOMAIN SType \cup {"None"} /\ m.stype_out \in DOMAIN SType
      /\ m.end \in (Nat \ {0, UNDEF_TS}) \cup {None} /\ m.limit \in (Nat \ {0}) \cup {None}
      /\ m.ts_out \in BOOLEAN
      /\ m.version < 2 => m.symbol_cstr_len = version_symbol_cstr_len(1)
  BY DEF Metadata, CURRENT_VERSION, OptionalTime, OptionalNum
<1>3. m = [version |-> m.version, dataset |-> m.dataset, schema |-> m.schema,
           stype_in |-> m.stype_in, stype_out |-> m.stype_out, start |-> m.start,
           end |-> m.end, limit |-> m.limit, ts_out |-> m.ts_out,
           symbol_cstr_len |-> m.symbol_cstr_len, symbols |-> m.symbols,
           partial |-> m.partial, not_found |-> m.not_found, mappings |-> m.mappings]
  BY DEF Metadata
<1> DEFINE st == IF m.version = 1 THEN 50 ELSE 42
<1>4. /\ DATASET_CSTR_LEN = 16 /\ range = 18 /\ range + 8 = 26 /\ range + 16 = 34
      /\ stypes = st /\ (m.version # 1 => stypes + 3 = 45) /\ definition = 100
      /\ definition + 4 = 104
  BY <1>2 DEF DATASET_CSTR_LEN, RESERVED_LEN_V1, RESERVED_LEN
<1>5. /\ ReadText(b, 0, 16) = m.dataset /\ ReadInt(b, 16, 2) = RawSchema(m)
      /\ ReadInt(b, 18, 8) = m.start /\ ReadInt(b, 26, 8) = RawEnd(m)
      /\ ReadInt(b, 34, 8) = RawLimit(m)
      /\ ReadInt(b, st, 1) = RawIn(m) /\ ReadInt(b, st + 1, 1) = SType[m.stype_out]
      /\ ReadInt(b, st + 2, 1) = RawOut(m)
      /\ m.version # 1 => ReadInt(b, 45, 2) = m.symbol_cstr_len
      /\ ReadInt(b, 100, 4) = 0
  BY FieldsRead
<1> HIDE DEF b, range, stypes, definition, st
<1>6. /\ f1 = m.dataset /\ raw_schema = RawSchema(m) /\ f5 = m.start /\ end = RawEnd(m)
      /\ limit = RawLimit(m) /\ raw_in = RawIn(m) /\ raw_out = SType[m.stype_out]
      /\ ReadInt(b, stypes + 2, 1) = RawOut(m) /\ ReadInt(b, definition, 4) = 0
  BY <1>4, <1>5
<1>7. len = m.symbol_cstr_len
  <2>1. CASE m.version = 1
    BY <1>2, <2>1
  <2>2. CASE m.version # 1
    BY <1>4, <1>5, <2>2
  <2> QED BY <2>1, <2>2
<1> HIDE DEF raw_schema, raw_in, raw_out, end, limit, len, f1, f5
<1> DEFINE p1 == 104 + Bytes(TheSymbols(m))
           p2 == 104 + Bytes(TheSymbols(m)) + Bytes(ThePartial(m))
           p3 == 104 + Bytes(TheSymbols(m)) + Bytes(ThePartial(m)) + Bytes(TheMissing(m))
           p4 == p3 + Bytes(TheMapped(m))
<1>8. /\ decode_metadata_repeated_symbol_cstr(b, len, 104) = Decoding(p1, m.symbols, TRUE)
      /\ decode_metadata_repeated_symbol_cstr(b, len, p1) = Decoding(p2, m.partial, TRUE)
      /\ decode_metadata_repeated_symbol_cstr(b, len, p2) = Decoding(p3, m.not_found, TRUE)
      /\ decode_metadata_symbol_mappings(b, len, p3) = Decoding(p4, m.mappings, TRUE)
  <2> DEFINE len1 == m.symbol_cstr_len
  <2>1. /\ decode_metadata_repeated_symbol_cstr(b, len1, 104) = Decoding(p1, m.symbols, TRUE)
        /\ decode_metadata_repeated_symbol_cstr(b, len1, p1) = Decoding(p2, m.partial, TRUE)
        /\ decode_metadata_repeated_symbol_cstr(b, len1, p2) = Decoding(p3, m.not_found, TRUE)
        /\ decode_metadata_symbol_mappings(b, len1, p3) = Decoding(p4, m.mappings, TRUE)
    BY RepeatedRead DEF b
  <2>2. len1 = len
    BY <1>7
  <2> HIDE DEF len1, p1, p2, p3, p4
  <2> QED BY <2>1, <2>2, Zenon
<1> HIDE DEF p1, p2, p3, p4
<1>9. /\ symbols = Decoding(p1, m.symbols, TRUE) /\ partial = Decoding(p2, m.partial, TRUE)
      /\ not_found = Decoding(p3, m.not_found, TRUE) /\ mappings = Decoding(p4, m.mappings, TRUE)
  <2>0. \A p, r : Decoding(p, r, TRUE).pos = p
    BY DEF Decoding
  <2> HIDE DEF readable, f2, f3, f4, f6, f7, f8, meta
  <2>1. symbols = Decoding(p1, m.symbols, TRUE)
    <3>1. definition + 4 = 104
      BY <1>4
    <3> QED BY <1>8, <3>1, Zenon
  <2> HIDE DEF symbols
  <2>2. symbols.pos = p1
    BY <2>0, <2>1
  <2>3. partial = Decoding(p2, m.partial, TRUE)
    BY <1>8, <2>2, Zenon
  <2> HIDE DEF partial
  <2>4. partial.pos = p2
    BY <2>0, <2>3
  <2>5. not_found = Decoding(p3, m.not_found, TRUE)
    BY <1>8, <2>4, Zenon
  <2> HIDE DEF not_found
  <2>6. not_found.pos = p3
    BY <2>0, <2>5
  <2>7. mappings = Decoding(p4, m.mappings, TRUE)
    BY <1>8, <2>6, Zenon
  <2> QED BY <2>1, <2>3, <2>5, <2>7
<1> HIDE DEF symbols, partial, not_found, mappings
<1>10. /\ symbols.res = m.symbols /\ partial.res = m.partial /\ not_found.res = m.not_found
       /\ mappings.res = m.mappings
       /\ symbols.ok = TRUE /\ partial.ok = TRUE /\ not_found.ok = TRUE /\ mappings.ok = TRUE
  <2>1. \A p, r : Decoding(p, r, TRUE).res = r /\ Decoding(p, r, TRUE).ok = TRUE
    BY DEF Decoding
  <2> QED BY <1>9, <2>1
<1>11. f2 = m.schema /\ (raw_schema = NULL_SCHEMA \/ try_from(Schema, raw_schema) # "Err")
  <2>1. CASE m.schema = "None"
    BY <1>6, <2>1 DEF RawSchema
  <2>2. CASE m.schema # "None"
    <3>1. m.schema \in DOMAIN Schema /\ raw_schema = Schema[m.schema]
      BY <1>2, <1>6, <2>2 DEF RawSchema
    <3> QED BY <3>1, SchemaInverts
  <2> QED BY <2>1, <2>2
<1>12. f3 = m.stype_in /\ (raw_in = NULL_STYPE \/ try_from(SType, raw_in) # "Err")
  <2>1. CASE m.stype_in = "None"
    BY <1>6, <2>1 DEF RawIn
  <2>2. CASE m.stype_in # "None"
    <3>1. m.stype_in \in DOMAIN SType /\ raw_in = SType[m.stype_in]
      BY <1>2, <1>6, <2>2 DEF RawIn
    <3> QED BY <3>1, STypeInverts
  <2> QED BY <2>1, <2>2
<1>13. f4 = m.stype_out /\ try_from(SType, raw_out) # "Err"
  BY <1>2, <1>6, STypeInverts
<1>14. f6 = m.end /\ f7 = m.limit
  BY <1>2, <1>6 DEF RawEnd, RawLimit, UNDEF_TS, NULL_LIMIT, None
<1>15. f8 = m.ts_out
  BY <1>2, <1>6 DEF RawOut
<1>16. readable
  BY <1>6, <1>10, <1>11, <1>12, <1>13
<1> HIDE DEF f2, f3, f4, f6, f7, f8, readable
<1>17. meta = m
  BY <1>3, <1>6, <1>7, <1>10, <1>11, <1>12, <1>13, <1>14, <1>15, Zenon
<1> QED BY <1>1, <1>16, <1>17

\* Round trip of the metadata: what MetadataEncoder::encode wrote without an
\* error, DbnFsm::decode_metadata reads back, field by field, at every length
\* of symbols and any number of symbols, mappings and intervals.
THEOREM MetadataRoundTrip ==
    ASSUME NEW m \in Metadata, m.version # 0, encode(m).ok
    PROVE  /\ decode_after_prelude(m.version, encode(m).bytes) = [ok |-> TRUE, meta |-> m]
           /\ Bytes(encode(m).bytes) = PRELUDE_LEN + calc_length(m).length
<1> DEFINE x == Cstr(3, "DBN")
           h == ThePrelude(m)
           y == Body(m)
           b == <<x>> \o (h \o y)
<1>1. encode(m).bytes = b
  BY Encoded, LayoutParts
<1>2. h \in Seq(Chunk) /\ y \in Seq(Chunk) /\ Len(h) = 2
  BY PartsTyped, LayoutParts DEF ThePrelude
<1>3. x \in Chunk /\ x.n = 3
  BY DEF Chunk, Width, Value, Cstr
<1>4. SubSeq(b, 4, Len(b)) = y
  <2> HIDE DEF x, h, y
  <2> QED BY <1>2, <1>3, DropThree
<1>5. decode_metadata_impl(m.version, y) = [ok |-> TRUE, meta |-> m]
  BY BodyDecoded
<1>6. Bytes(b) = 8 + calc_length(m).length
  <2>1. Bytes(y) \in Nat /\ Bytes(y) = calc_length(m).length
    BY LengthWritten
  <2>2. Bytes(h) = 5
    <3> DEFINE v == IF m.version = 0 THEN 1 ELSE m.version
               c == U(1, v)
               d == U(4, calc_length(m).length)
    <3>1. v \in Int /\ calc_length(m).length \in Int /\ 1 \in Width /\ 4 \in Width
      BY <2>1 DEF Metadata, CURRENT_VERSION, Width
    <3>2. h = <<c, d>>
      BY DEF ThePrelude
    <3> HIDE DEF v
    <3>3. c \in Chunk /\ d \in Chunk /\ c.n = 1 /\ d.n = 4
      BY <3>1, ChunkTypes
    <3> HIDE DEF c, d, h
    <3>4. Bytes(<<c, d>>) = c.n + d.n
      BY <3>3, LiesTwo
    <3> QED BY <3>2, <3>3, <3>4
  <2> HIDE DEF x, h, y
  <2>3. <<x>> \in Seq(Chunk) /\ Bytes(<<x>>) = 3
    BY <1>3, LiesOne
  <2>4. h \o y \in Seq(Chunk) /\ Bytes(h \o y) = 5 + Bytes(y)
    BY <1>2, <2>2, ChunksSized, StartsConcat
  <2> DEFINE o == <<x>>
             z == h \o y
  <2> HIDE DEF o, z
  <2>5. Bytes(o \o z) = Bytes(o) + Bytes(z)
    BY <2>3, <2>4, ChunksSized, StartsConcat DEF o, z
  <2>6. Bytes(o \o z) = 3 + (5 + Bytes(y))
    BY <2>3, <2>4, <2>5 DEF o, z
  <2> QED BY <2>1, <2>6 DEF o, z
<1> HIDE DEF b, y
<1>7. decode_after_prelude(m.version, encode(m).bytes) = [ok |-> TRUE, meta |-> m]
  BY <1>1, <1>4, <1>5 DEF decode_after_prelude
<1> QED BY <1>1, <1>6, <1>7 DEF PRELUDE_LEN
=============================================================================
