-------------------------- MODULE TranscoderProofs --------------------------
(***************************************************************************)
(* Proofs about module Pipeline: the files that the command writes, that   *)
(* are updated in place and that a Transcoder reads.  What the command     *)
(* itself does is proved in module PipelineProofs.                         *)
(***************************************************************************)
EXTENDS PipelineProofs

-----------------------------------------------------------------------------
(* Sequences. *)

\* A function on 1..n is a sequence.
LEMMA FunctionIsSeq ==
    ASSUME NEW n \in Nat, NEW f, f = [i \in 1..n |-> f[i]]
    PROVE  IsSeq(f) /\ Len(f) = n /\ DOMAIN f = 1..n
<1>1. DOMAIN f = 1..n
  OBVIOUS
<1>2. f \in [1..n -> {f[i] : i \in DOMAIN f}]
  BY <1>1
<1>3. f \in Seq({f[i] : i \in DOMAIN f})
  BY <1>2, SeqDef
<1> QED BY <1>1, <1>3 DEF IsSeq

\* Sequences that agree at every position are equal.
LEMMA IsSeqEqual ==
    ASSUME NEW s, IsSeq(s), NEW t, IsSeq(t), Len(s) = Len(t),
           \A i \in 1..Len(s) : s[i] = t[i]
    PROVE  s = t
<1> DEFINE S == {s[i] : i \in DOMAIN s}
           T == {t[i] : i \in DOMAIN t}
<1>1. s \in Seq(S) /\ t \in Seq(T)
  BY DEF IsSeq
<1> HIDE DEF S, T
<1>2. s = [i \in 1..Len(s) |-> s[i]] /\ t = [i \in 1..Len(t) |-> t[i]]
  BY <1>1, LenProperties
<1> QED BY <1>2

\* The beginning of what was put together is what was put first.
LEMMA FirstOfTwo ==
    ASSUME NEW s, IsSeq(s), NEW t, IsSeq(t)
    PROVE  SubSeq(s \o t, 1, Len(s)) = s
<1> DEFINE w == s \o t
           x == SubSeq(w, 1, Len(s))
           S == {s[i] : i \in DOMAIN s}
<1>1. Len(s) \in Nat /\ \A i \in 1..Len(s) : w[i] = s[i]
  BY IsSeqConcat
<1>2. s \in Seq(S) /\ \A i \in 1..Len(s) : s[i] \in S
  BY <1>1, IsSeqConcat DEF IsSeq
<1> HIDE DEF w, S
<1>3. /\ x \in Seq(S) /\ Len(x) = (IF 1 <= Len(s) THEN Len(s) - 1 + 1 ELSE 0)
      /\ \A i \in 1..(Len(s) - 1 + 1) : x[i] = w[1 + i - 1]
  <2>1. 1 \in Int /\ Len(s) \in Int /\ \A i \in 1..Len(s) : w[i] \in S
    BY <1>1, <1>2
  <2> QED BY <2>1, SubSeqProperties
<1>4. Len(x) = Len(s)
  BY <1>1, <1>3
<1>5. \A i \in 1..Len(s) : x[i] = s[i]
  <2> TAKE i \in 1..Len(s)
  <2>1. i \in 1..(Len(s) - 1 + 1) /\ 1 + i - 1 = i
    BY <1>1
  <2> QED BY <1>1, <1>3, <2>1
<1> QED BY <1>2, <1>3, <1>4, <1>5, SeqEqual DEF w

\* One element put behind a sequence.
LEMMA AddedOne ==
    ASSUME NEW s, IsSeq(s), NEW c
    PROVE  /\ IsSeq(s \o <<c>>) /\ Len(s) \in Nat /\ DOMAIN s = 1..Len(s)
           /\ Len(s \o <<c>>) = Len(s) + 1 /\ DOMAIN (s \o <<c>>) = 1..(Len(s) + 1)
           /\ \A i \in 1..Len(s) : (s \o <<c>>)[i] = s[i]
           /\ (s \o <<c>>)[Len(s) + 1] = c
<1> DEFINE o == <<c>>
<1>1. o \in Seq({c}) /\ Len(o) = 1 /\ o[1] = c
  OBVIOUS
<1>2. IsSeq(o)
  BY <1>1, SeqIsSeq
<1> HIDE DEF o
<1>3. /\ IsSeq(s \o o)
      /\ Len(s) \in Nat /\ DOMAIN s = 1..Len(s)
      /\ Len(s \o o) = Len(s) + Len(o) /\ DOMAIN (s \o o) = 1..(Len(s) + Len(o))
      /\ \A i \in 1..Len(s) : (s \o o)[i] = s[i]
      /\ \A i \in 1..Len(o) : (s \o o)[Len(s) + i] = o[i]
  BY <1>2, IsSeqConcat
<1>4. 1 \in 1..Len(o)
  BY <1>1
<1> QED BY <1>1, <1>3, <1>4 DEF o

\* There are n positions up to n.
LEMMA FirstCount ==
    ASSUME NEW n \in Nat
    PROVE  Cardinality(1..n) = n
<1>1. Cardinality(1..n) = IF 1 > n THEN 0 ELSE n - 1 + 1
  BY FS_Interval
<1> QED BY <1>1

\* What is selected at the first positions is the beginning.
LEMMA SelectedFirst ==
    ASSUME NEW s, NEW n \in Nat
    PROVE  /\ IsSeq(Selected(s, 1..n)) /\ Len(Selected(s, 1..n)) = n
           /\ \A i \in 1..n : Selected(s, 1..n)[i] = s[i]
<1> DEFINE I == 1..n
<1>1. IsFiniteSet(I) /\ I \subseteq Nat /\ Cardinality(I) = n
  BY FS_Interval
<1>2. ASSUME NEW i \in I PROVE Selected(s, I)[i] = s[i]
  <2>1. {j \in I : j <= i} = 1..i /\ i \in Nat
    OBVIOUS
  <2>2. Rank(I, i) = i
    BY <2>1, FirstCount DEF Rank
  <2> HIDE DEF I
  <2>3. Selected(s, I)[Rank(I, i)] = s[i]
    BY <1>1, SelectedAt
  <2> QED BY <2>2, <2>3
<1> HIDE DEF I
<1>3. Selected(s, I) \in Seq({s[i] : i \in I}) /\ Len(Selected(s, I)) = Cardinality(I)
  BY <1>1, SelectedSeq
<1>4. IsSeq(Selected(s, I))
  BY <1>3, SeqIsSeq
<1> QED BY <1>1, <1>2, <1>3, <1>4 DEF I

-----------------------------------------------------------------------------
(* Writing over the middle of a file. *)

Whole(c) == c = [n |-> c.n, k |-> c.k, v |-> c.v]

\* Overwriting chunks by as many bytes leaves what is before and behind them.
LEMMA OverwriteMiddle ==
    ASSUME NEW a \in Seq(Chunk), NEW r \in Seq(Chunk), NEW new \in Seq(Chunk),
           Bytes(r) = Bytes(new), NEW t, Sized(t), Len(t) # 0, t[1].n > 0,
           \A i \in 1..Len(t) : Whole(t[i])
    PROVE  Overwrite((a \o r) \o t, Bytes(a), new) = (a \o new) \o t
<1> DEFINE f == a \o r
           w == f \o t
           S == Starts(w)
           P == Placed(w)
           k == Len(f)
           na == Len(a)
           nt == Len(t)
           end == Bytes(a) + Bytes(new)
<1>1. /\ f \in Seq(Chunk) /\ na \in Nat /\ Len(r) \in Nat /\ k = na + Len(r)
      /\ \A i \in 1..na : f[i] = a[i]
  BY SeqJoined
<1>2. Sized(a) /\ Sized(r) /\ Sized(f) /\ Sized(new) /\ Sized(w)
  BY <1>1, ChunksSized, SizedConcat
<1> HIDE DEF f
<1>3. /\ IsSeq(f) /\ IsSeq(t) /\ k \in Nat /\ nt \in Nat /\ nt # 0 /\ Len(w) = k + nt
      /\ DOMAIN w = 1..(k + nt)
      /\ \A i \in 1..k : w[i] = f[i]
      /\ \A i \in 1..nt : w[k + i] = t[i]
  <2>1. IsSeq(f) /\ IsSeq(t)
    BY <1>2 DEF Sized
  <2> QED BY <2>1, IsSeqConcat
<1>4. /\ S \in [1..(k + nt + 1) -> Nat]
      /\ \A i \in 1..(k + nt) : S[i + 1] = S[i] + w[i].n /\ w[i].n \in Nat
      /\ \A i, j \in 1..(k + nt + 1) : i <= j => S[i] <= S[j]
  BY <1>2, <1>3, StartsSteps, StartsGrow DEF Sized
<1>5. Bytes(a) \in Nat /\ Bytes(r) \in Nat /\ end = Bytes(a) + Bytes(r) /\ end \in Nat
  BY <1>2, BytesType
<1>6. S[na + 1] = Bytes(a) /\ S[k + 1] = end
  <2>1. Starts(f)[na + 1] = Starts(a)[na + 1] /\ Bytes(f) = Bytes(a) + Bytes(r)
    <3>1. /\ \A i \in 1..(Len(a) + 1) : Starts(a \o r)[i] = Starts(a)[i]
          /\ Bytes(a \o r) = Bytes(a) + Bytes(r)
      BY <1>2, StartsConcat
    <3>2. na + 1 \in 1..(Len(a) + 1)
      BY <1>1
    <3> QED BY <3>1, <3>2 DEF f
  <2>2. S[na + 1] = Starts(f)[na + 1] /\ S[k + 1] = Starts(f)[k + 1]
    <3>1. \A i \in 1..(Len(f) + 1) : Starts(f \o t)[i] = Starts(f)[i]
      BY <1>2, StartsConcat
    <3>2. na + 1 \in 1..(Len(f) + 1) /\ k + 1 \in 1..(Len(f) + 1)
      BY <1>1, <1>3
    <3> QED BY <3>1, <3>2
  <2>3. Starts(a)[na + 1] = Bytes(a) /\ Starts(f)[k + 1] = Bytes(f)
    BY DEF Bytes
  <2> QED BY <1>5, <2>1, <2>2, <2>3
<1>7. /\ DOMAIN P = 1..(k + nt)
      /\ \A i \in 1..(k + nt) : P[i] = [n |-> w[i].n, k |-> w[i].k, v |-> w[i].v, at |-> S[i]]
  BY <1>3 DEF Placed
<1>8. \A i \in 1..na : w[i].n > 0
  <2> TAKE i \in 1..na
  <2>1. a[i] \in Chunk /\ w[i] = a[i]
    BY <1>1, <1>3
  <2> QED BY <2>1 DEF Chunk, Width
<1>9. w[k + 1] = t[1] /\ 1 \in 1..nt /\ k + 1 \in 1..(k + nt)
  BY <1>3
<1>10. \A i \in 1..nt : w[k + i] = [n |-> w[k + i].n, k |-> w[k + i].k, v |-> w[k + i].v]
  BY <1>3 DEF Whole
<1> DEFINE Left(c) == IF c.at >= end THEN [n |-> c.n, k |-> c.k, v |-> c.v]
                      ELSE U(c.at + c.n - end, IF IsZero(c) THEN 0 ELSE Garbage)
           before == {i \in DOMAIN P : P[i].at < Bytes(a)}
           gone == {i \in DOMAIN P : P[i].at + P[i].n <= end}
<1>11. /\ Len(P) = k + nt
       /\ Overwrite(w, Bytes(a), new) =
            SubSeq(w, 1, Cardinality(before)) \o new
              \o [i \in 1..(Len(P) - Cardinality(gone)) |-> Left(P[Cardinality(gone) + i])]
  <2>1. Len(P) = Len(w)
    <3>1. P = [i \in 1..(k + nt) |-> P[i]]
      BY <1>3 DEF Placed
    <3> HIDE DEF P
    <3> QED BY <1>3, <3>1, FunctionIsSeq
  <2> QED BY <1>3, <2>1 DEF Overwrite
<1>a. /\ na \in Nat /\ k \in Nat /\ nt \in Nat /\ nt # 0 /\ na <= k
      /\ before = {i \in 1..(k + nt) : S[i] < S[na + 1]}
      /\ gone = {i \in 1..(k + nt) : S[i] + w[i].n <= S[k + 1]}
      /\ w[k + 1].n \in Nat /\ w[k + 1].n > 0
  <2>1. na \in Nat /\ k \in Nat /\ nt \in Nat /\ nt # 0 /\ na <= k
    BY <1>1, <1>3
  <2>2. w[k + 1].n \in Nat /\ w[k + 1].n > 0
    BY <1>3, <1>9 DEF Sized
  <2>3. \A i \in 1..(k + nt) : P[i].at = S[i] /\ P[i].n = w[i].n
    BY <1>7
  <2>4. before = {i \in 1..(k + nt) : S[i] < S[na + 1]}
    BY <1>6, <1>7, <2>3
  <2>5. gone = {i \in 1..(k + nt) : S[i] + w[i].n <= S[k + 1]}
    BY <1>6, <1>7, <2>3
  <2> QED BY <2>1, <2>2, <2>4, <2>5
<1>b. SubSeq(w, 1, na) = a
  <2>1. IsSeq(a) /\ IsSeq(r) /\ IsSeq(t)
    BY <1>2 DEF Sized
  <2>2. IsSeq(r \o t) /\ (a \o r) \o t = a \o (r \o t)
    <3>1. IsSeq(r \o t)
      BY <2>1, IsSeqConcat
    <3>2. (a \o r) \o t = a \o (r \o t)
      BY <2>1, IsSeqAssociative
    <3> QED BY <3>1, <3>2
  <2> DEFINE q == r \o t
  <2> HIDE DEF q
  <2>3. SubSeq(a \o q, 1, Len(a)) = a
    BY <2>1, <2>2, FirstOfTwo DEF q
  <2> QED BY <2>2, <2>3 DEF q, f
<1> HIDE DEF S, P, w, na, nt, k, end, before, gone
<1>12. before = 1..na
  <2>1. ASSUME NEW i \in 1..(k + nt) PROVE S[i] < S[na + 1] <=> i <= na
    <3>1. /\ i + 1 \in 1..(k + nt + 1) /\ i \in 1..(k + nt + 1)
          /\ na + 1 \in 1..(k + nt + 1)
      BY <1>a
    <3>2. /\ S[i] \in Nat /\ S[i + 1] \in Nat /\ S[na + 1] \in Nat /\ w[i].n \in Nat
          /\ S[i + 1] = S[i] + w[i].n
          /\ i + 1 <= na + 1 => S[i + 1] <= S[na + 1]
          /\ na + 1 <= i => S[na + 1] <= S[i]
      BY <1>4, <3>1
    <3>3. i <= na => w[i].n > 0
      BY <1>8, <1>a
    <3> DEFINE x == S[i]
               y == S[i + 1]
               z == S[na + 1]
               l == w[i].n
    <3> HIDE DEF x, y, z, l
    <3>4. /\ x \in Nat /\ y \in Nat /\ z \in Nat /\ l \in Nat /\ y = x + l
          /\ (i + 1 <= na + 1 => y <= z) /\ (na + 1 <= i => z <= x) /\ (i <= na => l > 0)
      BY <3>2, <3>3 DEF x, y, z, l
    <3>5. x < z <=> i <= na
      BY ONLY <3>4, <1>a, i \in 1..(k + nt)
    <3> QED BY <3>5 DEF x, z
  <2> QED BY <1>a, <2>1
<1>13. gone = 1..k
  <2>1. ASSUME NEW i \in 1..(k + nt) PROVE S[i] + w[i].n <= S[k + 1] <=> i <= k
    <3>1. /\ i + 1 \in 1..(k + nt + 1) /\ i \in 1..(k + nt + 1) /\ (k + 1) + 1 = k + 2
          /\ k + 1 \in 1..(k + nt) /\ k + 1 \in 1..(k + nt + 1) /\ k + 2 \in 1..(k + nt + 1)
      BY <1>a
    <3>2. /\ S[i + 1] \in Nat /\ S[k + 1] \in Nat /\ S[k + 2] \in Nat
          /\ S[i + 1] = S[i] + w[i].n /\ S[k + 2] = S[k + 1] + w[k + 1].n
          /\ i + 1 <= k + 1 => S[i + 1] <= S[k + 1]
          /\ k + 2 <= i + 1 => S[k + 2] <= S[i + 1]
      BY <1>4, <3>1
    <3> DEFINE x == S[i + 1]
               y == S[k + 1]
               z == S[k + 2]
               l == w[k + 1].n
    <3> HIDE DEF x, y, z, l
    <3>4. /\ x \in Nat /\ y \in Nat /\ z \in Nat /\ l \in Nat /\ l > 0 /\ z = y + l
          /\ (i + 1 <= k + 1 => x <= y) /\ (k + 2 <= i + 1 => z <= x)
      BY <1>a, <3>2 DEF x, y, z, l
    <3>5. x <= y <=> i <= k
      BY ONLY <3>4, <1>a, i \in 1..(k + nt)
    <3> QED BY <3>2, <3>5 DEF x, y
  <2> QED BY <1>a, <2>1
<1>14. Cardinality(before) = na /\ Cardinality(gone) = k
  <2>1. \A x \in Nat : Cardinality(1..x) = x
    BY FirstCount
  <2>2. Cardinality(1..na) = na /\ Cardinality(1..k) = k
    BY <1>a, <2>1
  <2> QED BY <1>12, <1>13, <2>2
<1>16. [i \in 1..nt |-> Left(P[k + i])] = t
  <2> DEFINE z == [i \in 1..nt |-> Left(P[k + i])]
  <2>1. ASSUME NEW i \in 1..nt PROVE Left(P[k + i]) = t[i]
    <3>1. k + i \in 1..(k + nt) /\ k + 1 \in 1..(k + nt + 1) /\ k + i \in 1..(k + nt + 1)
          /\ k + 1 <= k + i
      BY <1>3
    <3>2. S[k + 1] <= S[k + i]
      BY <1>4, <3>1
    <3>3. P[k + i] = [n |-> w[k + i].n, k |-> w[k + i].k, v |-> w[k + i].v, at |-> S[k + i]]
      BY <1>7, <3>1
    <3>4. P[k + i].at >= end
      BY <1>4, <1>6, <3>1, <3>2, <3>3
    <3>5. w[k + i] = t[i]
      BY <1>3
    <3>6. Left(P[k + i]) = [n |-> w[k + i].n, k |-> w[k + i].k, v |-> w[k + i].v]
      BY <3>3, <3>4
    <3> QED BY <1>10, <3>5, <3>6
  <2>2. z = [i \in 1..nt |-> z[i]] /\ \A i \in 1..nt : z[i] = t[i]
    BY <2>1
  <2> HIDE DEF z
  <2>3. IsSeq(z) /\ Len(z) = nt
    BY <1>a, <2>2, FunctionIsSeq
  <2> QED BY <1>3, <2>2, <2>3, IsSeqEqual DEF z, nt
<1>17. Len(P) - Cardinality(gone) = nt
  BY <1>3, <1>11, <1>14
<1>18. Overwrite(w, Bytes(a), new) = (a \o new) \o t
  BY <1>11, <1>14, <1>b, <1>16, <1>17
<1> QED BY <1>18 DEF w, f

-----------------------------------------------------------------------------
(* The metadata in a file and its parts: what is before the range that     *)
(* update_encoded writes, the range, and what is behind it.                *)

DbnTag       == <<Cstr(3, "DBN")>>
TheHead(m)   == DbnTag \o (ThePrelude(m) \o TheNames(m))
TheTail(m)   == TheStypes(m) \o TheLen(m) \o TheRest(m) \o TheSymbols(m) \o ThePartial(m)
                  \o TheMissing(m) \o TheMapped(m) \o ThePadding(m)

\* It does not matter which parts are put together first.
LEMMA Associative ==
    \A x \in Seq(Chunk) : \A t, u \in Seq(Chunk) :
        t \o u \in Seq(Chunk) /\ (x \o t) \o u = x \o (t \o u)
<1> TAKE x \in Seq(Chunk)
<1> TAKE t, u \in Seq(Chunk)
<1> QED BY SeqAssociative

\* The parts, and where the range is.
LEMMA HeadAndTail ==
    ASSUME NEW m \in Metadata
    PROVE  /\ TheHead(m) \in Seq(Chunk) /\ Bytes(TheHead(m)) = 26 /\ Len(TheHead(m)) = 5
           /\ TheRange(m) \in Seq(Chunk)
           /\ TheTail(m) \in Seq(Chunk) /\ Len(TheTail(m)) # 0
           /\ TheHead(m)[2] = U(1, IF m.version = 0 THEN 1 ELSE m.version)
           /\ DbnTag \o Layout(m) = (TheHead(m) \o TheRange(m)) \o TheTail(m)
<1> DEFINE x == DbnTag
           p == ThePrelude(m)
           n == TheNames(m)
           r == TheRange(m)
           t == TheTail(m)
<1>1. /\ p \in Seq(Chunk) /\ n \in Seq(Chunk) /\ Bytes(n) = 18 /\ r \in Seq(Chunk)
      /\ TheStypes(m) \in Seq(Chunk) /\ TheLen(m) \in Seq(Chunk) /\ TheRest(m) \in Seq(Chunk)
      /\ TheSymbols(m) \in Seq(Chunk) /\ ThePartial(m) \in Seq(Chunk)
      /\ TheMissing(m) \in Seq(Chunk) /\ TheMapped(m) \in Seq(Chunk)
      /\ ThePadding(m) \in Seq(Chunk)
  BY PartsTyped
<1>2. x \in Seq(Chunk) /\ Bytes(x) = 3 /\ Len(x) = 1
  <2> DEFINE c == Cstr(3, "DBN")
  <2>1. c \in Chunk /\ c.n = 3
    BY DEF Chunk, Width, Value, Cstr
  <2> HIDE DEF c
  <2>2. <<c>> \in Seq(Chunk) /\ Bytes(<<c>>) = 3 /\ Len(<<c>>) = 1
    BY <2>1, LiesOne
  <2> QED BY <2>2 DEF DbnTag, c
<1>3. Bytes(p) = 5 /\ Len(p) = 2 /\ p[1] = U(1, IF m.version = 0 THEN 1 ELSE m.version)
  <2> DEFINE v == IF m.version = 0 THEN 1 ELSE m.version
             c == U(1, v)
             d == U(4, calc_length(m).length)
  <2>1. PICK pad \in 0..7 : /\ Repeated(m) \in Nat
                            /\ calc_length(m) = [length |-> 104 + Repeated(m) + pad,
                                                 padding |-> pad]
    BY LengthCalculated
  <2>2. v \in Int /\ calc_length(m).length \in Int /\ 1 \in Width /\ 4 \in Width
    BY <2>1 DEF Metadata, CURRENT_VERSION, Width
  <2>3. p = <<c, d>>
    BY DEF ThePrelude
  <2> HIDE DEF v
  <2>4. c \in Chunk /\ d \in Chunk /\ c.n = 1 /\ d.n = 4
    BY <2>2, ChunkTypes
  <2> HIDE DEF c, d, p
  <2>5. Bytes(<<c, d>>) = c.n + d.n
    BY <2>4, LiesTwo
  <2>6. p[1] = c /\ Len(p) = 2 /\ Bytes(p) = 5
    BY <2>3, <2>4, <2>5
  <2> QED BY <2>6 DEF c, v
<1>4. Len(n) = 2
  BY DEF TheNames
<1> HIDE DEF x, p, n, r
<1>5. t \in Seq(Chunk) /\ Body(m) = (n \o r) \o t
  <2> DEFINE h == n \o r
  <2>1. h \in Seq(Chunk)
    BY <1>1, SeqJoined
  <2> HIDE DEF h
  <2>2. /\ t \in Seq(Chunk)
        /\ h \o TheStypes(m) \o TheLen(m) \o TheRest(m) \o TheSymbols(m) \o ThePartial(m)
             \o TheMissing(m) \o TheMapped(m) \o ThePadding(m) = h \o t
    <3> DEFINE e1 == TheStypes(m)
               e2 == TheLen(m)
               e3 == TheRest(m)
               e4 == TheSymbols(m)
               e5 == ThePartial(m)
               e6 == TheMissing(m)
               e7 == TheMapped(m)
               e8 == ThePadding(m)
    <3>1. t = e1 \o e2 \o e3 \o e4 \o e5 \o e6 \o e7 \o e8
      BY DEF TheTail
    <3>2. /\ e1 \in Seq(Chunk) /\ e2 \in Seq(Chunk) /\ e3 \in Seq(Chunk)
          /\ e4 \in Seq(Chunk) /\ e5 \in Seq(Chunk) /\ e6 \in Seq(Chunk)
          /\ e7 \in Seq(Chunk) /\ e8 \in Seq(Chunk)
      BY <1>1
    <3> HIDE DEF e1, e2, e3, e4, e5, e6, e7, e8, t
    <3> DEFINE a1 == e1 \o e2
               a2 == a1 \o e3
               a3 == a2 \o e4
               a4 == a3 \o e5
               a5 == a4 \o e6
               a6 == a5 \o e7
               a7 == a6 \o e8
    <3>0. \A u, v \in Seq(Chunk) : u \o v \in Seq(Chunk) /\ (h \o u) \o v = h \o (u \o v)
      BY <2>1, Associative, Zenon
    <3>a1. a1 \in Seq(Chunk) /\ (h \o e1) \o e2 = h \o a1
      BY <3>0, <3>2, Zenon
    <3> HIDE DEF a1
    <3>a2. a2 \in Seq(Chunk) /\ (h \o a1) \o e3 = h \o a2
      BY <3>0, <3>2, <3>a1, Zenon
    <3> HIDE DEF a2
    <3>a3. a3 \in Seq(Chunk) /\ (h \o a2) \o e4 = h \o a3
      BY <3>0, <3>2, <3>a2, Zenon
    <3> HIDE DEF a3
    <3>a4. a4 \in Seq(Chunk) /\ (h \o a3) \o e5 = h \o a4
      BY <3>0, <3>2, <3>a3, Zenon
    <3> HIDE DEF a4
    <3>a5. a5 \in Seq(Chunk) /\ (h \o a4) \o e6 = h \o a5
      BY <3>0, <3>2, <3>a4, Zenon
    <3> HIDE DEF a5
    <3>a6. a6 \in Seq(Chunk) /\ (h \o a5) \o e7 = h \o a6
      BY <3>0, <3>2, <3>a5, Zenon
    <3> HIDE DEF a6
    <3>a7. a7 \in Seq(Chunk) /\ (h \o a6) \o e8 = h \o a7
      BY <3>0, <3>2, <3>a6, Zenon
    <3> HIDE DEF a7
    <3>3. h \o e1 \o e2 \o e3 \o e4 \o e5 \o e6 \o e7 \o e8 = h \o a7
      BY <3>a1, <3>a2, <3>a3, <3>a4, <3>a5, <3>a6, <3>a7, Zenon
    <3>4. t = a7
      BY <3>1, Zenon DEF a1, a2, a3, a4, a5, a6, a7
    <3> QED BY <3>a7, <3>3, <3>4 DEF e1, e2, e3, e4, e5, e6, e7, e8
  <2> QED BY <2>2 DEF Body, h, n, r
<1>6. Len(t) # 0
  <2> DEFINE b == TheLen(m) \o TheRest(m)
  <2>1. Len(TheStypes(m)) = 3
    BY DEF TheStypes
  <2> DEFINE s == TheStypes(m)
             a1 == s \o TheLen(m)
             a2 == a1 \o TheRest(m)
             a3 == a2 \o TheSymbols(m)
             a4 == a3 \o ThePartial(m)
             a5 == a4 \o TheMissing(m)
             a6 == a5 \o TheMapped(m)
             a7 == a6 \o ThePadding(m)
  <2>2. t = a7
    BY DEF TheTail
  <2>3. s \in Seq(Chunk) /\ Len(s) >= 3
    BY <1>1, <2>1
  <2> HIDE DEF s
  <2>4. a1 \in Seq(Chunk) /\ Len(a1) >= 3
    BY <1>1, <2>3, SeqJoined
  <2> HIDE DEF a1
  <2>5. a2 \in Seq(Chunk) /\ Len(a2) >= 3
    BY <1>1, <2>4, SeqJoined
  <2> HIDE DEF a2
  <2>6. a3 \in Seq(Chunk) /\ Len(a3) >= 3
    BY <1>1, <2>5, SeqJoined
  <2> HIDE DEF a3
  <2>7. a4 \in Seq(Chunk) /\ Len(a4) >= 3
    BY <1>1, <2>6, SeqJoined
  <2> HIDE DEF a4
  <2>8. a5 \in Seq(Chunk) /\ Len(a5) >= 3
    BY <1>1, <2>7, SeqJoined
  <2> HIDE DEF a5
  <2>9. a6 \in Seq(Chunk) /\ Len(a6) >= 3
    BY <1>1, <2>8, SeqJoined
  <2> HIDE DEF a6
  <2>10. Len(a7) >= 3
    BY <1>1, <2>9, SeqJoined
  <2> HIDE DEF a7, t
  <2> QED BY <2>2, <2>10
<1> HIDE DEF t
<1> DEFINE pn == p \o n
           h == x \o pn
<1>7. /\ pn \in Seq(Chunk) /\ Len(pn) = 4 /\ pn[1] = p[1]
      /\ Bytes(pn) = 23
  <2>1. pn \in Seq(Chunk) /\ Len(pn) = Len(p) + Len(n) /\ \A i \in 1..Len(p) : pn[i] = p[i]
    BY <1>1, SeqJoined
  <2>2. Bytes(pn) = Bytes(p) + Bytes(n)
    BY <1>1, ChunksSized, StartsConcat
  <2> QED BY <1>1, <1>3, <1>4, <2>1, <2>2
<1> HIDE DEF pn
<1>8. h \in Seq(Chunk) /\ Len(h) = 5 /\ h[2] = pn[1] /\ Bytes(h) = 26
  <2>1. h \in Seq(Chunk) /\ Len(h) = Len(x) + Len(pn) /\ \A i \in 1..Len(pn) : h[Len(x) + i] = pn[i]
    BY <1>2, <1>7, SeqJoined
  <2>2. Bytes(h) = Bytes(x) + Bytes(pn)
    BY <1>2, <1>7, ChunksSized, StartsConcat
  <2>3. 1 \in 1..Len(pn) /\ Len(x) + 1 = 2
    BY <1>2, <1>7
  <2> QED BY <1>2, <1>7, <2>1, <2>2, <2>3
<1>9. x \o (p \o ((n \o r) \o t)) = (h \o r) \o t
  <2>0. /\ p \in Seq(Chunk) /\ n \in Seq(Chunk) /\ r \in Seq(Chunk)
        /\ t \in Seq(Chunk) /\ h \in Seq(Chunk)
    BY <1>1, <1>5, <1>8
  <2>1. (n \o r) \o t = n \o (r \o t) /\ r \o t \in Seq(Chunk)
    BY ONLY <2>0, SeqAssociative
  <2> DEFINE z == r \o t
  <2>2. z \in Seq(Chunk)
    BY <2>1
  <2> HIDE DEF z
  <2>3. p \o (n \o z) = pn \o z
    <3>1. (p \o n) \o z = p \o (n \o z)
      <4>1. \A b, c \in Seq(Chunk) : (p \o b) \o c = p \o (b \o c)
        <5>1. p \in Seq(Chunk)
          BY <2>0
        <5> QED BY <5>1, Associative, Zenon
      <4> QED BY <2>0, <2>2, <4>1, Zenon
    <3> QED BY <3>1 DEF pn
  <2>4. x \o (pn \o z) = h \o z
    BY <1>2, <1>7, <2>2, SeqAssociative
  <2> HIDE DEF h
  <2>5. h \o (r \o t) = (h \o r) \o t
    BY ONLY <2>0, SeqAssociative
  <2> QED BY <2>1, <2>3, <2>4, <2>5 DEF z
<1>10. TheHead(m) = h
  BY DEF TheHead, h, pn, x, p, n
<1>11. Layout(m) = p \o Body(m)
  BY LayoutParts DEF p
<1> HIDE DEF h
<1> QED BY <1>1, <1>3, <1>5, <1>6, <1>7, <1>8, <1>9, <1>10, <1>11 DEF t, r, x

ThreeParts(a, b, c) ==
  LET w == (a \o b) \o c
  IN /\ Len(a) \in Nat /\ Len(b) \in Nat /\ Len(c) \in Nat
     /\ w \in Seq(Chunk) /\ Len(w) = Len(a) + Len(b) + Len(c)
     /\ \A i \in 1..Len(a) : w[i] = a[i]
     /\ \A i \in 1..Len(b) : w[Len(a) + i] = b[i]
     /\ \A i \in 1..Len(c) : w[Len(a) + Len(b) + i] = c[i]

\* Where each of three parts is in the whole.
LEMMA ThreeAt == \A a, b, c \in Seq(Chunk) : ThreeParts(a, b, c)
<1> TAKE a, b, c \in Seq(Chunk)
<1> DEFINE f == a \o b
<1>1. /\ f \in Seq(Chunk) /\ Len(a) \in Nat /\ Len(b) \in Nat /\ Len(f) = Len(a) + Len(b)
      /\ \A i \in 1..Len(a) : f[i] = a[i] /\ i \in 1..Len(f)
      /\ \A i \in 1..Len(b) : f[Len(a) + i] = b[i] /\ Len(a) + i \in 1..Len(f)
  BY SeqJoined
<1> HIDE DEF f
<1>2. /\ f \o c \in Seq(Chunk) /\ Len(c) \in Nat /\ Len(f \o c) = Len(f) + Len(c)
      /\ \A i \in 1..Len(f) : (f \o c)[i] = f[i]
      /\ \A i \in 1..Len(c) : (f \o c)[Len(f) + i] = c[i]
  BY <1>1, SeqJoined
<1> QED BY <1>1, <1>2 DEF f, ThreeParts

\* The range is three numbers, or four.
LEMMA RangeChunks ==
    ASSUME NEW m \in Metadata
    PROVE  /\ Len(TheRange(m)) = IF m.version = 1 THEN 4 ELSE 3
           /\ \A i \in 1..Len(TheRange(m)) : TheRange(m)[i].k = "int"
<1> DEFINE a == U(8, m.start)
           b == U(8, IF m.end = None THEN UNDEF_TS ELSE m.end)
           c == U(8, IF m.limit = None THEN NULL_LIMIT ELSE m.limit)
           d == U(8, UNDEF_TS)
<1>1. a.k = "int" /\ b.k = "int" /\ c.k = "int" /\ d.k = "int"
  BY DEF U
<1>2. TheRange(m) = <<a, b, c>> \o (IF m.version = 1 THEN <<d>> ELSE <<>>)
  BY DEF TheRange, encode_range_and_counts
<1> HIDE DEF a, b, c, d
<1> DEFINE S == {a, b, c, d}
<1>3. <<a, b, c>> \in Seq(S) /\ <<d>> \in Seq(S) /\ <<>> \in Seq(S)
  OBVIOUS
<1>4. CASE m.version = 1
  <2>1. TheRange(m) = <<a, b, c>> \o <<d>>
    BY <1>2, <1>4
  <2>2. TheRange(m) \in Seq(S) /\ Len(TheRange(m)) = 4
    BY <1>3, <2>1
  <2>3. \A i \in 1..4 : TheRange(m)[i] \in S
    BY <2>2
  <2>4. \A i \in 1..4 : TheRange(m)[i].k = "int"
    BY <1>1, <2>3
  <2>5. Len(TheRange(m)) = IF m.version = 1 THEN 4 ELSE 3
    BY <1>4, <2>2
  <2> QED BY <2>2, <2>4, <2>5, Zenon
<1>5. CASE m.version # 1
  <2>1. TheRange(m) = <<a, b, c>>
    BY <1>2, <1>3, <1>5
  <2>2. Len(TheRange(m)) = 3 /\ \A i \in 1..3 : TheRange(m)[i] \in S
    BY <2>1
  <2>3. \A i \in 1..3 : TheRange(m)[i].k = "int"
    BY <1>1, <2>2
  <2>4. Len(TheRange(m)) = IF m.version = 1 THEN 4 ELSE 3
    BY <1>5, <2>2
  <2> QED BY <2>2, <2>3, <2>4, Zenon
<1> QED BY <1>4, <1>5

\* encode goes to the end unless a text is refused.
LEMMA EncodesWhen ==
    ASSUME NEW m \in Metadata
    PROVE  encode(m).ok <=> \A i \in DOMAIN Layout(m) : ~Refused(Layout(m)[i])
<1>1. ~ (m.version > CURRENT_VERSION)
  BY DEF Metadata, CURRENT_VERSION
<1>2. encode(m).ok <=> {i \in DOMAIN Layout(m) : Refused(Layout(m)[i])} = {}
  BY <1>1 DEF encode, EncodedUntilRefused, EncodedTo
<1> QED BY <1>2

-----------------------------------------------------------------------------
(* Metadata with another range. *)

Reranged(m, u) == [m EXCEPT !.start = u.start, !.end = u.end, !.limit = u.limit]

\* calc_length looks at the lengths only.
CalcOf(len, mappings, names, version) ==
  LET mapped[i \in 0..Len(mappings)] ==
        IF i = 0 THEN 0
        ELSE mapped[i - 1] + len + 4 + Len(mappings[i].intervals) * (2 * 4 + len)
      needed == FIXED_LEN + 5 * 4 + names * len + mapped[Len(mappings)]
      padding == IF version < 3 THEN 0 ELSE (8 - (needed % 8)) % 8
  IN [length |-> needed + padding, padding |-> padding]

\* It is the length of all metadata with these lengths.
LEMMA CalcLength ==
    ASSUME NEW m
    PROVE  calc_length(m) = CalcOf(m.symbol_cstr_len, m.mappings,
                                   Len(m.symbols) + Len(m.partial) + Len(m.not_found), m.version)
BY Zenon DEF calc_length, CalcOf

\* A new range changes nothing else.
LEMMA RerangedParts ==
    ASSUME NEW m \in Metadata, NEW u \in [start : Nat, end : OptionalTime, limit : OptionalNum]
    PROVE  /\ Reranged(m, u) \in Metadata /\ Reranged(m, u).version = m.version
           /\ Reranged(m, u).ts_out = m.ts_out
           /\ TheHead(Reranged(m, u)) = TheHead(m) /\ TheTail(Reranged(m, u)) = TheTail(m)
           /\ TheRange(Reranged(m, u)) =
                encode_range_and_counts(m.version, u.start, u.end, u.limit)
<1> DEFINE q == Reranged(m, u)
<1>1. q \in Metadata
  BY DEF Reranged, Metadata
<1>2. /\ q.version = m.version /\ q.dataset = m.dataset /\ q.schema = m.schema
      /\ q.stype_in = m.stype_in /\ q.stype_out = m.stype_out /\ q.ts_out = m.ts_out
      /\ q.symbol_cstr_len = m.symbol_cstr_len /\ q.symbols = m.symbols
      /\ q.partial = m.partial /\ q.not_found = m.not_found /\ q.mappings = m.mappings
      /\ q.start = u.start /\ q.end = u.end /\ q.limit = u.limit
  BY DEF Reranged, Metadata
<1> HIDE DEF q
<1>3. calc_length(q) = calc_length(m)
  <2>1. /\ calc_length(q) = CalcOf(q.symbol_cstr_len, q.mappings,
                                   Len(q.symbols) + Len(q.partial) + Len(q.not_found), q.version)
        /\ calc_length(m) = CalcOf(m.symbol_cstr_len, m.mappings,
                                   Len(m.symbols) + Len(m.partial) + Len(m.not_found), m.version)
    BY CalcLength, Zenon
  <2> QED BY <1>2, <2>1, Zenon
<1>4. ThePrelude(q) = ThePrelude(m) /\ TheNames(q) = TheNames(m)
  BY <1>2, <1>3, Zenon DEF ThePrelude, TheNames, RawSchema
<1>5. TheStypes(q) = TheStypes(m) /\ TheLen(q) = TheLen(m) /\ TheRest(q) = TheRest(m)
  BY <1>2, Zenon DEF TheStypes, TheLen, TheRest, RawIn
<1>6. /\ TheSymbols(q) = TheSymbols(m) /\ ThePartial(q) = ThePartial(m)
      /\ TheMissing(q) = TheMissing(m) /\ TheMapped(q) = TheMapped(m)
      /\ ThePadding(q) = ThePadding(m)
  BY <1>2, <1>3, Zenon DEF TheSymbols, ThePartial, TheMissing, TheMapped, ThePadding
<1>7. TheRange(q) = encode_range_and_counts(m.version, u.start, u.end, u.limit)
  BY <1>2, Zenon DEF TheRange
<1>8. TheHead(q) = TheHead(m) /\ TheTail(q) = TheTail(m)
  BY <1>4, <1>5, <1>6, Zenon DEF TheHead, TheTail
<1> QED BY <1>1, <1>2, <1>7, <1>8 DEF q

PlacedIn(n, k, w, l, h, r, t) ==
  /\ n \in Nat /\ k \in Nat
  /\ \A i \in 1..5 : w[i] = h[i]
  /\ \A i \in 1..n : w[5 + i] = r[i]
  /\ \A i \in 1..k : w[5 + n + i] = t[i]
  /\ \A i \in 1..(4 + n + k) : w[1 + i] = l[i]

AlikeIn(n, k, l, h, r, t) ==
  (\A i \in 1..(4 + n + k) : ~Refused(l[i])) <=>
    /\ \A i \in 2..5 : ~Refused(h[i])
    /\ \A i \in 1..n : ~Refused(r[i])
    /\ \A i \in 1..k : ~Refused(t[i])

\* Something that refuses an element of the whole refuses one of a part.
LEMMA RefusedIn ==
    ASSUME NEW n, NEW k, NEW w, NEW l, NEW h, NEW r, NEW t, PlacedIn(n, k, w, l, h, r, t)
    PROVE  AlikeIn(n, k, l, h, r, t)
<1>0. /\ n \in Nat /\ k \in Nat
      /\ \A i \in 1..5 : w[i] = h[i]
      /\ \A i \in 1..n : w[5 + i] = r[i]
      /\ \A i \in 1..k : w[5 + n + i] = t[i]
      /\ \A i \in 1..(4 + n + k) : w[1 + i] = l[i]
  BY DEF PlacedIn
<1>1. ASSUME \A i \in 1..(4 + n + k) : ~Refused(l[i])
      PROVE  /\ \A i \in 2..5 : ~Refused(h[i])
             /\ \A i \in 1..n : ~Refused(r[i])
             /\ \A i \in 1..k : ~Refused(t[i])
  <2>1. ASSUME NEW i \in 2..5 PROVE ~Refused(h[i])
    <3>1. i - 1 \in 1..(4 + n + k) /\ 1 + (i - 1) = i /\ i \in 1..5
      BY <1>0
    <3> QED BY <1>0, <1>1, <3>1
  <2>2. ASSUME NEW i \in 1..n PROVE ~Refused(r[i])
    <3>1. 4 + i \in 1..(4 + n + k) /\ 1 + (4 + i) = 5 + i
      BY <1>0
    <3>2. w[5 + i] = l[4 + i] /\ w[5 + i] = r[i] /\ ~Refused(l[4 + i])
      BY <1>0, <1>1, <3>1
    <3> QED BY <1>0, <3>2
  <2>3. ASSUME NEW i \in 1..k PROVE ~Refused(t[i])
    <3>1. 4 + n + i \in 1..(4 + n + k) /\ 1 + (4 + n + i) = 5 + n + i
      BY <1>0
    <3>2. w[5 + n + i] = l[4 + n + i] /\ w[5 + n + i] = t[i] /\ ~Refused(l[4 + n + i])
      BY <1>0, <1>1, <3>1
    <3> QED BY <1>0, <3>2
  <2> QED BY <1>0, <2>1, <2>2, <2>3
<1>2. ASSUME /\ \A i \in 2..5 : ~Refused(h[i])
             /\ \A i \in 1..n : ~Refused(r[i])
             /\ \A i \in 1..k : ~Refused(t[i]),
             NEW i \in 1..(4 + n + k)
      PROVE  ~Refused(l[i])
  <2>1. w[1 + i] = l[i]
    BY <1>0
  <2>2. CASE i <= 4
    <3>1. 1 + i \in 2..5 /\ 1 + i \in 1..5
      BY <1>0, <2>2
    <3>2. w[1 + i] = h[1 + i] /\ ~Refused(h[1 + i])
      BY <1>0, <1>2, <3>1
    <3> QED BY <1>0, <2>1, <3>2
  <2>3. CASE 4 < i /\ i <= 4 + n
    <3>1. i - 4 \in 1..n /\ 5 + (i - 4) = 1 + i
      BY <1>0, <2>3
    <3>2. w[5 + (i - 4)] = r[i - 4] /\ ~Refused(r[i - 4])
      BY <1>0, <1>2, <3>1
    <3> QED BY <1>0, <2>1, <3>1, <3>2
  <2>4. CASE 4 + n < i
    <3>1. i - 4 - n \in 1..k /\ 5 + n + (i - 4 - n) = 1 + i
      BY <1>0, <2>4
    <3>2. w[5 + n + (i - 4 - n)] = t[i - 4 - n] /\ ~Refused(t[i - 4 - n])
      BY <1>0, <1>2, <3>1
    <3> QED BY <1>0, <2>1, <3>1, <3>2
  <2> QED BY <1>0, <2>2, <2>3, <2>4
<1> QED BY <1>1, <1>2 DEF AlikeIn

Alike(l, h, r, t) ==
  (\A i \in 1..Len(l) : ~Refused(l[i])) <=>
    /\ \A i \in 2..5 : ~Refused(h[i])
    /\ \A i \in 1..Len(r) : ~Refused(r[i])
    /\ \A i \in 1..Len(t) : ~Refused(t[i])

PutTogether(l, h, r, t) ==
  /\ l \in Seq(Chunk) /\ h \in Seq(Chunk) /\ r \in Seq(Chunk) /\ t \in Seq(Chunk)
  /\ Len(h) = 5 /\ DbnTag \o l = (h \o r) \o t

\* The same for what is put together of a head, a range and a tail.
LEMMA RefusedParts ==
    ASSUME NEW l, NEW h, NEW r, NEW t, PutTogether(l, h, r, t)
    PROVE  Alike(l, h, r, t)
<1> DEFINE x == DbnTag
           w == (h \o r) \o t
           n == Len(r)
           k == Len(t)
           j == Len(l)
<1>1. x \in Seq(Chunk) /\ Len(x) = 1
  BY DEF DbnTag, Chunk, Width, Value, Cstr
<1>2. l \in Seq(Chunk) /\ Len(h) = 5 /\ x \o l = w /\ ThreeParts(h, r, t)
  BY ThreeAt, Zenon DEF PutTogether
<1>3. /\ n \in Nat /\ k \in Nat /\ Len(w) = 5 + n + k
      /\ \A i \in 1..5 : w[i] = h[i]
      /\ \A i \in 1..n : w[5 + i] = r[i]
      /\ \A i \in 1..k : w[5 + n + i] = t[i]
  BY <1>2 DEF ThreeParts
<1> HIDE DEF x, w
<1>4. j \in Nat /\ Len(x \o l) = 1 + j /\ \A i \in 1..j : (x \o l)[1 + i] = l[i]
  <2>1. /\ Len(x \o l) = Len(x) + Len(l) /\ Len(l) \in Nat
        /\ \A i \in 1..Len(l) : (x \o l)[Len(x) + i] = l[i]
    BY <1>1, <1>2, SeqJoined
  <2> QED BY ONLY <1>1, <2>1
<1> HIDE DEF n, k, j
<1>5. j = 4 + n + k
  BY <1>2, <1>3, <1>4
<1>6. PlacedIn(n, k, w, l, h, r, t)
  BY <1>2, <1>3, <1>4, <1>5 DEF PlacedIn
<1>7. AlikeIn(n, k, l, h, r, t)
  BY <1>6, RefusedIn
<1> QED BY <1>5, <1>7, Zenon DEF n, k, j, AlikeIn, Alike

\* It can be encoded as well.
LEMMA RerangedEncodes ==
    ASSUME NEW m \in Metadata, NEW u \in [start : Nat, end : OptionalTime, limit : OptionalNum],
           encode(m).ok
    PROVE  encode(Reranged(m, u)).ok
<1> DEFINE q == Reranged(m, u)
           h == TheHead(m)
           t == TheTail(m)
           r == TheRange(m)
           s == TheRange(q)
           x == DbnTag
           lm == Layout(m)
           lq == Layout(q)
<1>1. q \in Metadata /\ q.version = m.version /\ TheHead(q) = h /\ TheTail(q) = t
  BY RerangedParts
<1> HIDE DEF q
<1>2. /\ h \in Seq(Chunk) /\ Len(h) = 5 /\ r \in Seq(Chunk) /\ s \in Seq(Chunk)
      /\ t \in Seq(Chunk)
      /\ x \o lm = (h \o r) \o t /\ x \o lq = (h \o s) \o t
  BY <1>1, HeadAndTail
<1>3. \A i \in 1..Len(s) : ~Refused(s[i])
  BY <1>1, RangeChunks DEF Refused
<1>4. lm \in Seq(Chunk) /\ lq \in Seq(Chunk)
  BY <1>1, LayoutParts
<1>5. \A i \in 1..Len(lm) : ~Refused(lm[i])
  BY <1>4, EncodesWhen
<1>6. PutTogether(lm, h, r, t) /\ PutTogether(lq, h, s, t)
  BY <1>2, <1>4, Zenon DEF PutTogether
<1> HIDE DEF h, t, r, s, x, lm, lq
<1>7. Alike(lm, h, r, t) /\ Alike(lq, h, s, t)
  BY <1>6, RefusedParts, Zenon
<1>8. \A i \in 1..Len(lq) : ~Refused(lq[i])
  BY <1>3, <1>5, <1>7, Zenon DEF Alike
<1>9. DOMAIN lq = 1..Len(lq)
  BY <1>4
<1>10. encode(q).ok
  BY <1>1, <1>8, <1>9, EncodesWhen DEF lq
<1> QED BY <1>10 DEF q

-----------------------------------------------------------------------------
(* A file: encoded metadata, and records behind it. *)

\* A record, with the length of one of its layouts when the inputs have such.
IsRecord(c, ts) ==
  c.k = "rec" /\ c.v \in AnyRecord /\ (WellSizedInputs => WellSized(c.v, ts))

AreRecs(recs, ts) == IsSeq(recs) /\ \A i \in 1..Len(recs) : IsRecord(recs[i], ts)

IsFile(out, m) ==
  encode(m).ok /\ \E recs : AreRecs(recs, m.ts_out) /\ out = encode(m).bytes \o recs

AreChunks(out) == IsSeq(out) /\ \A i \in DOMAIN out : out[i].n \in Nat /\ Whole(out[i])

\* What encode wrote is the head, the range and the tail.
LEMMA EncodedParts ==
    ASSUME NEW m \in Metadata, encode(m).ok
    PROVE  /\ encode(m).bytes = (TheHead(m) \o TheRange(m)) \o TheTail(m)
           /\ encode(m).bytes \in Seq(Chunk) /\ IsSeq(encode(m).bytes)
           /\ Len(encode(m).bytes) \in Nat /\ Len(encode(m).bytes) >= 5
           /\ encode(m).bytes[2].v = IF m.version = 0 THEN 1 ELSE m.version
<1> DEFINE b == encode(m).bytes
           h == TheHead(m)
           r == TheRange(m)
           t == TheTail(m)
           v == IF m.version = 0 THEN 1 ELSE m.version
<1>1. b \in Seq(Chunk) /\ b = DbnTag \o Layout(m)
  BY Encoded DEF DbnTag
<1>2. /\ h \in Seq(Chunk) /\ Len(h) = 5 /\ r \in Seq(Chunk) /\ t \in Seq(Chunk)
      /\ h[2] = U(1, v) /\ DbnTag \o Layout(m) = (h \o r) \o t
  BY HeadAndTail
<1>3. U(1, v).v = v
  BY DEF U
<1> HIDE DEF b, h, r, t, v
<1>4. b = (h \o r) \o t
  BY <1>1, <1>2
<1>5. ThreeParts(h, r, t)
  BY <1>2, ThreeAt, Zenon
<1>6. /\ Len(b) = 5 + Len(r) + Len(t) /\ Len(r) \in Nat /\ Len(t) \in Nat
      /\ \A i \in 1..5 : b[i] = h[i]
  BY <1>2, <1>4, <1>5 DEF ThreeParts
<1>7. Len(b) \in Nat /\ Len(b) >= 5 /\ b[2].v = v
  BY <1>2, <1>3, <1>6
<1>8. IsSeq(b)
  BY <1>1, SeqIsSeq
<1> QED BY <1>1, <1>4, <1>7, <1>8 DEF b, h, r, t, v

\* The length in the prelude is that of the metadata.
LEMMA PreludeRead ==
    ASSUME NEW m \in Metadata, encode(m).ok
    PROVE  ReadInt(Placed(encode(m).bytes), 4, 4) = calc_length(m).length
<1> DEFINE b == encode(m).bytes
           x == DbnTag
           p == ThePrelude(m)
           y == Body(m)
           v == IF m.version = 0 THEN 1 ELSE m.version
           l == calc_length(m).length
           c == U(1, v)
           d == U(4, l)
<1>1. b \in Seq(Chunk) /\ b = x \o (p \o y)
  BY Encoded, LayoutParts DEF DbnTag
<1>2. p \in Seq(Chunk) /\ y \in Seq(Chunk) /\ p = <<c, d>>
  BY PartsTyped, LayoutParts DEF ThePrelude
<1>3. v \in Int /\ l \in Int /\ 1 \in Width /\ 4 \in Width
  <2>1. PICK pad \in 0..7 : /\ Repeated(m) \in Nat
                            /\ calc_length(m) = [length |-> 104 + Repeated(m) + pad,
                                                 padding |-> pad]
    BY LengthCalculated
  <2> QED BY <2>1 DEF Metadata, CURRENT_VERSION, Width
<1>4. x \in Seq(Chunk) /\ Bytes(x) = 3
  <2> DEFINE e == Cstr(3, "DBN")
  <2>1. e \in Chunk /\ e.n = 3
    BY DEF Chunk, Width, Value, Cstr
  <2> HIDE DEF e
  <2>2. <<e>> \in Seq(Chunk) /\ Bytes(<<e>>) = 3
    BY <2>1, LiesOne
  <2> QED BY <2>2 DEF DbnTag, e
<1> HIDE DEF v, l, x, y, b, p
<1>5. c \in Chunk /\ d \in Chunk /\ c.n = 1
  BY <1>3, ChunkTypes
<1>6. p \o y \in Seq(Chunk)
  BY <1>2, SeqJoined
<1>7. LiesAt(b, 0, x \o (p \o y))
  BY <1>1, LiesAll
<1> DEFINE z == p \o y
<1>8. LiesAt(b, 0 + Bytes(x), z)
  <2> HIDE DEF z
  <2> QED BY <1>4, <1>6, <1>7, LiesSplit DEF z
<1>9. LiesAt(b, 3, p)
  <2>1. 0 + Bytes(x) = 3
    BY <1>4
  <2>2. LiesAt(b, 3, p \o y)
    BY <1>8, <2>1
  <2> QED BY <1>2, <2>2, LiesSplit
<1> HIDE DEF c, d
<1>10. LiesAt(b, 3 + c.n, <<d>>)
  BY <1>2, <1>5, <1>9, LiesTwo
<1>11. LiesAt(b, 4, <<U(4, l)>>)
  BY <1>5, <1>10 DEF d
<1>12. ReadInt(Placed(b), 4, 4) = l
  BY <1>3, <1>11, LiesInt
<1> QED BY <1>12 DEF b, l

\* A file that has no record yet.
LEMMA FileBegun ==
    ASSUME NEW m \in Metadata, encode(m).ok
    PROVE  IsFile(encode(m).bytes, m) /\ AreChunks(encode(m).bytes)
<1> DEFINE b == encode(m).bytes
<1>1. b \in Seq(Chunk) /\ IsSeq(b)
  BY EncodedParts
<1> HIDE DEF b
<1>2. IsSeq(<<>>) /\ b = b \o <<>> /\ Len(<<>>) = 0
  BY <1>1, IsSeqEmpty
<1>3. AreRecs(<<>>, m.ts_out)
  BY <1>2 DEF AreRecs
<1>4. \A c \in Chunk : c.n \in Nat /\ Whole(c)
  BY DEF Chunk, Width, Whole
<1>5. AreChunks(b)
  BY <1>1, <1>4 DEF AreChunks
<1> QED BY <1>2, <1>3, <1>5 DEF IsFile, b

\* A record behind records makes records.
LEMMA RecsGrown ==
    ASSUME NEW ts, NEW recs, AreRecs(recs, ts), NEW c, IsRecord(c, ts)
    PROVE  AreRecs(recs \o <<c>>, ts)
<1>1. IsSeq(recs) /\ \A i \in 1..Len(recs) : IsRecord(recs[i], ts)
  BY DEF AreRecs
<1> DEFINE more == recs \o <<c>>
<1>2. /\ IsSeq(more) /\ Len(recs) \in Nat /\ Len(more) = Len(recs) + 1
      /\ \A i \in 1..Len(recs) : more[i] = recs[i]
      /\ more[Len(recs) + 1] = c
  BY <1>1, AddedOne
<1> HIDE DEF more
<1>3. ASSUME NEW i \in 1..Len(more) PROVE IsRecord(more[i], ts)
  <2>1. i \in 1..Len(recs) \/ i = Len(recs) + 1
    BY <1>2
  <2> QED BY <1>1, <1>2, <2>1
<1>4. AreRecs(more, ts)
  BY <1>2, <1>3 DEF AreRecs
<1> QED BY <1>4 DEF more

\* Whole chunks and one more.
LEMMA ChunksGrown ==
    ASSUME NEW out, AreChunks(out), NEW c, c.n \in Nat, Whole(c)
    PROVE  AreChunks(out \o <<c>>)
<1>1. IsSeq(out) /\ \A i \in DOMAIN out : out[i].n \in Nat /\ Whole(out[i])
  BY DEF AreChunks
<1> DEFINE w == out \o <<c>>
<1>2. /\ IsSeq(w) /\ Len(out) \in Nat /\ DOMAIN out = 1..Len(out)
      /\ DOMAIN w = 1..(Len(out) + 1)
      /\ \A i \in 1..Len(out) : w[i] = out[i]
      /\ w[Len(out) + 1] = c
  BY <1>1, AddedOne
<1> HIDE DEF w
<1>3. ASSUME NEW i \in DOMAIN w PROVE w[i].n \in Nat /\ Whole(w[i])
  <2>1. i \in 1..Len(out) \/ i = Len(out) + 1
    BY <1>2
  <2> QED BY <1>1, <1>2, <2>1
<1> QED BY <1>2, <1>3 DEF AreChunks, w

\* A record behind a file makes a file.
LEMMA FileGrown ==
    ASSUME NEW m \in Metadata, NEW out, IsFile(out, m), NEW c, IsRecord(c, m.ts_out)
    PROVE  IsFile(out \o <<c>>, m)
<1> DEFINE b == encode(m).bytes
           o == <<c>>
<1>1. PICK recs : AreRecs(recs, m.ts_out) /\ out = b \o recs
  BY DEF IsFile
<1>2. IsSeq(o)
  <2>1. o \in Seq({c})
    OBVIOUS
  <2> QED BY <2>1, SeqIsSeq
<1>3. encode(m).ok /\ IsSeq(b)
  BY EncodedParts DEF IsFile
<1>4. AreRecs(recs \o o, m.ts_out)
  BY <1>1, RecsGrown
<1> HIDE DEF b, o
<1>5. IsSeq(recs)
  BY <1>1 DEF AreRecs
<1>6. out \o o = b \o (recs \o o)
  BY <1>1, <1>2, <1>3, <1>5, IsSeqAssociative
<1>7. IsFile(out \o o, m)
  BY <1>3, <1>4, <1>6 DEF IsFile, b
<1> QED BY <1>7 DEF o

\* What is selected as records are records.
LEMMA RecordsSelected ==
    ASSUME NEW ts, NEW out, IsSeq(out),
           \A i \in DOMAIN out : IsRec(out[i]) => IsRecord(out[i], ts)
    PROVE  AreRecs(RecordsIn(out), ts)
<1> DEFINE I == {i \in DOMAIN out : IsRec(out[i])}
           R == Selected(out, I)
<1>1. IsFiniteSet(I) /\ I \subseteq Nat /\ \A i \in I : IsRecord(out[i], ts)
  <2>0. Len(out) \in Nat /\ DOMAIN out = 1..Len(out)
    BY LenProperties DEF IsSeq
  <2>1. IsFiniteSet(1..Len(out))
    BY <2>0, FS_Interval
  <2>2. I \subseteq 1..Len(out) /\ \A i \in I : IsRecord(out[i], ts)
    BY <2>0
  <2>3. \A i \in 1..Len(out) : i \in Nat
    BY <2>0
  <2> HIDE DEF I
  <2>4. IsFiniteSet(I)
    BY <2>1, <2>2, FS_Subset
  <2> QED BY <2>2, <2>3, <2>4
<1> HIDE DEF I
<1>2. /\ R \in Seq({out[i] : i \in I})
      /\ \A j \in 1..Len(R) : \E i \in I : R[j] = out[i]
  <2>1. /\ Len(R) = Cardinality(I)
        /\ \A S : (\A i \in I : out[i] \in S) => R \in Seq(S)
        /\ \A j \in 1..Cardinality(I) : \E i \in I : R[j] = out[i]
    <3>1. IsFiniteSet(I) /\ I \subseteq Nat
      BY <1>1
    <3>2. Len(R) = Cardinality(I)
      BY ONLY <3>1, SelectedSeq
    <3>3. \A S : (\A i \in I : out[i] \in S) => R \in Seq(S)
      BY ONLY <3>1, SelectedSeq, Zenon
    <3>4. ASSUME NEW j \in 1..Cardinality(I) PROVE \E i \in I : R[j] = out[i]
      <4>1. PICK i \in I : Rank(I, i) = j
        BY <3>1, RankOnto
      <4>2. Selected(out, I)[Rank(I, i)] = out[i]
        BY <3>1, SelectedAt
      <4> QED BY <4>1, <4>2
    <3> QED BY <3>2, <3>3, <3>4
  <2>2. \A i \in I : out[i] \in {out[j] : j \in I}
    OBVIOUS
  <2> HIDE DEF R
  <2>3. R \in Seq({out[i] : i \in I})
    BY <2>1, <2>2
  <2> QED BY <2>1, <2>3
<1> HIDE DEF R
<1>3. AreRecs(R, ts)
  BY <1>1, <1>2, SeqIsSeq DEF AreRecs
<1> QED BY <1>3 DEF RecordsIn, R, I

\* What is selected of a file as metadata is what encode wrote, and the rest are records.
LEMMA FileMetadata ==
    ASSUME NEW m \in Metadata, NEW out, IsFile(out, m)
    PROVE  /\ MetadataIn(out) = encode(m).bytes
           /\ AreRecs(RecordsIn(out), m.ts_out)
<1> DEFINE b == encode(m).bytes
           n == Len(b)
<1>1. PICK recs : AreRecs(recs, m.ts_out) /\ out = b \o recs
  BY DEF IsFile
<1>2. encode(m).ok /\ b \in Seq(Chunk) /\ IsSeq(b) /\ n \in Nat
  BY EncodedParts DEF IsFile
<1>3. \A i \in 1..n : b[i].k # "rec"
  <2>1. \A c \in Chunk : c.k # "rec"
    BY DEF Chunk
  <2> HIDE DEF b
  <2> QED BY <1>2, <2>1
<1> HIDE DEF b
<1>4. IsSeq(recs) /\ \A i \in 1..Len(recs) : IsRecord(recs[i], m.ts_out)
  BY <1>1 DEF AreRecs
<1>5. /\ DOMAIN out = 1..(n + Len(recs)) /\ Len(recs) \in Nat
      /\ \A i \in 1..n : out[i] = b[i]
      /\ \A i \in 1..Len(recs) : out[n + i] = recs[i]
  <2>1. IsSeq(b) /\ IsSeq(recs) /\ out = b \o recs
    BY <1>1, <1>2, <1>4
  <2> QED BY ONLY <2>1, IsSeqConcat
<1> HIDE DEF n
<1>6. {i \in DOMAIN out : ~IsRec(out[i])} = 1..n
  <2>1. ASSUME NEW i \in 1..(n + Len(recs)) PROVE ~IsRec(out[i]) <=> i \in 1..n
    <3>1. CASE i \in 1..n
      BY <1>3, <1>5, <3>1 DEF IsRec
    <3>2. CASE ~ (i \in 1..n)
      <4>1. i - n \in 1..Len(recs) /\ n + (i - n) = i
        BY <1>2, <1>5, <3>2
      <4>2. out[i] = recs[i - n] /\ IsRecord(recs[i - n], m.ts_out)
        BY <1>4, <1>5, <4>1
      <4> QED BY <3>2, <4>2 DEF IsRec, IsRecord
    <3> QED BY <3>1, <3>2
  <2>2. \A i \in 1..n : i \in 1..(n + Len(recs))
    BY <1>2, <1>5
  <2> QED BY <1>5, <2>1, <2>2
<1>7. MetadataIn(out) = b
  <2> DEFINE w == Selected(out, 1..n)
  <2>1. IsSeq(w) /\ Len(w) = n /\ \A i \in 1..n : w[i] = out[i]
    BY <1>2, SelectedFirst
  <2>2. MetadataIn(out) = w
    BY <1>6 DEF MetadataIn
  <2> HIDE DEF w
  <2>3. Len(w) = Len(b) /\ \A i \in 1..Len(w) : w[i] = b[i]
    BY <1>5, <2>1 DEF n
  <2>4. w = b
    BY <1>2, <2>1, <2>3, IsSeqEqual
  <2> QED BY <2>2, <2>4
<1>8. ASSUME NEW i \in DOMAIN out, IsRec(out[i]) PROVE IsRecord(out[i], m.ts_out)
  <2>1. i \in 1..(n + Len(recs)) /\ ~ (i \in 1..n)
    BY <1>5, <1>6, <1>8
  <2>2. i - n \in 1..Len(recs) /\ n + (i - n) = i
    BY <1>2, <1>5, <2>1 DEF n
  <2>3. out[i] = recs[i - n]
    BY <1>5, <2>2
  <2> QED BY <1>4, <2>2, <2>3
<1>9. AreRecs(RecordsIn(out), m.ts_out)
  <2>1. IsSeq(out)
    BY <1>1, <1>2, <1>4, IsSeqConcat
  <2> QED BY <1>8, <2>1, RecordsSelected
<1> QED BY <1>7, <1>9 DEF b

\* A file reads as its metadata, by MetadataRoundTrip.
LEMMA FileReads ==
    ASSUME NEW m \in Metadata, m.version # 0, NEW out, IsFile(out, m)
    PROVE  /\ ReadsAs(out, m)
           /\ MetadataIn(out)[2].v = m.version
           /\ decode_after_prelude(m.version, MetadataIn(out)) = [ok |-> TRUE, meta |-> m]
<1> DEFINE b == encode(m).bytes
<1>1. encode(m).ok
  BY DEF IsFile
<1>2. MetadataIn(out) = b
  BY FileMetadata
<1>3. Len(b) \in Nat /\ Len(b) >= 5 /\ b[2].v = m.version
  BY <1>1, EncodedParts
<1>4. /\ decode_after_prelude(m.version, b) = [ok |-> TRUE, meta |-> m]
      /\ Bytes(b) = PRELUDE_LEN + calc_length(m).length
  BY <1>1, MetadataRoundTrip
<1>5. ReadInt(Placed(b), 4, 4) = calc_length(m).length
  BY <1>1, PreludeRead
<1>6. calc_length(m).length \in Nat
  <2>1. PICK pad \in 0..7 : /\ Repeated(m) \in Nat
                            /\ calc_length(m) = [length |-> 104 + Repeated(m) + pad,
                                                 padding |-> pad]
    BY LengthCalculated
  <2> QED BY <2>1
<1> HIDE DEF b
<1>7. ~ (Len(b) < 3) /\ ReadInt(Placed(b), 4, 4) = Bytes(b) - PRELUDE_LEN
  BY <1>3, <1>4, <1>5, <1>6 DEF PRELUDE_LEN
<1>8. ReadFrom(b) = [ok |-> TRUE, meta |-> m]
  BY <1>3, <1>4, <1>7 DEF ReadFrom
<1> QED BY <1>2, <1>3, <1>4, <1>8 DEF ReadsAs, ReadFile

\* Chunks and chunks are chunks.
LEMMA ChunksJoined ==
    ASSUME NEW s, IsSeq(s), NEW t, IsSeq(t)
    PROVE  AreChunks(s \o t) <=> AreChunks(s) /\ AreChunks(t)
<1> DEFINE w == s \o t
<1>1. /\ IsSeq(w) /\ Len(s) \in Nat /\ Len(t) \in Nat /\ DOMAIN s = 1..Len(s)
      /\ DOMAIN t = 1..Len(t) /\ DOMAIN w = 1..(Len(s) + Len(t))
      /\ \A i \in 1..Len(s) : w[i] = s[i]
      /\ \A i \in 1..Len(t) : w[Len(s) + i] = t[i]
  <2>1. /\ IsSeq(s \o t)
        /\ Len(s) \in Nat /\ DOMAIN s = 1..Len(s)
        /\ Len(t) \in Nat /\ DOMAIN t = 1..Len(t)
        /\ Len(s \o t) = Len(s) + Len(t) /\ DOMAIN (s \o t) = 1..(Len(s) + Len(t))
        /\ \A i \in 1..Len(s) : (s \o t)[i] = s[i]
        /\ \A i \in 1..Len(t) : (s \o t)[Len(s) + i] = t[i]
    BY IsSeqConcat
  <2> QED BY ONLY <2>1
<1> DEFINE Fine(c) == c.n \in Nat /\ Whole(c)
<1> HIDE DEF w, Fine
<1>2. ASSUME \A i \in DOMAIN w : Fine(w[i])
      PROVE  (\A i \in DOMAIN s : Fine(s[i])) /\ (\A i \in DOMAIN t : Fine(t[i]))
  <2>1. ASSUME NEW i \in 1..Len(s) PROVE Fine(s[i])
    <3>1. i \in 1..(Len(s) + Len(t))
      BY <1>1
    <3> QED BY <1>1, <1>2, <3>1
  <2>2. ASSUME NEW i \in 1..Len(t) PROVE Fine(t[i])
    <3>1. Len(s) + i \in 1..(Len(s) + Len(t))
      BY <1>1
    <3> QED BY <1>1, <1>2, <3>1
  <2> QED BY <1>1, <2>1, <2>2
<1>3. ASSUME \A i \in DOMAIN s : Fine(s[i]), \A i \in DOMAIN t : Fine(t[i]), NEW i \in DOMAIN w
      PROVE  Fine(w[i])
  <2>1. CASE i \in 1..Len(s)
    BY <1>1, <1>3, <2>1
  <2>2. CASE ~ (i \in 1..Len(s))
    <3>1. i - Len(s) \in 1..Len(t) /\ Len(s) + (i - Len(s)) = i
      BY <1>1, <1>3, <2>2
    <3>2. w[i] = t[i - Len(s)]
      BY <1>1, <3>1
    <3> QED BY <1>1, <1>3, <3>1, <3>2
  <2> QED BY <2>1, <2>2
<1> QED BY <1>1, <1>2, <1>3 DEF AreChunks, w, Fine

\* update_encoded changes the range of a file and nothing else.
LEMMA FileUpdated ==
    ASSUME NEW m \in Metadata, m.version # 0, NEW out, IsFile(out, m), AreChunks(out),
           NEW u \in [start : Nat, end : OptionalTime, limit : OptionalNum]
    PROVE  LET new == update_encoded(out, out[2].v, u.start, u.end, u.limit)
           IN  IsFile(new, Reranged(m, u)) /\ AreChunks(new)
<1> DEFINE b == encode(m).bytes
           q == Reranged(m, u)
           h == TheHead(m)
           r == TheRange(m)
           s == TheRange(q)
           t == TheTail(m)
<1>1. PICK recs : AreRecs(recs, m.ts_out) /\ out = b \o recs
  BY DEF IsFile
<1>2. encode(m).ok
  BY DEF IsFile
<1>3. q \in Metadata /\ q.version = m.version /\ TheHead(q) = h /\ TheTail(q) = t
      /\ q.ts_out = m.ts_out
      /\ s = encode_range_and_counts(m.version, u.start, u.end, u.limit)
  BY RerangedParts
<1>4. encode(q).ok
  BY <1>2, RerangedEncodes
<1> HIDE DEF q
<1>5. /\ b = (h \o r) \o t /\ IsSeq(b) /\ Len(b) \in Nat /\ Len(b) >= 5
      /\ b[2].v = m.version
  BY <1>2, EncodedParts
<1>6. encode(q).bytes = (h \o s) \o t /\ IsSeq(encode(q).bytes)
  BY <1>3, <1>4, EncodedParts
<1>7. /\ h \in Seq(Chunk) /\ Bytes(h) = 26 /\ r \in Seq(Chunk) /\ s \in Seq(Chunk)
      /\ t \in Seq(Chunk) /\ Len(t) # 0
  BY <1>3, HeadAndTail
<1>8. Bytes(r) = Bytes(s)
  <2>1. /\ Bytes(r) = IF m.version = 1 THEN 32 ELSE 24
        /\ Bytes(s) = IF q.version = 1 THEN 32 ELSE 24
    BY <1>3, PartsTyped
  <2> QED BY <1>3, <2>1
<1> HIDE DEF b, h, r, s, t
<1>9. IsSeq(recs)
  BY <1>1 DEF AreRecs
<1>10. out[2].v = m.version
  <2>1. \A i \in 1..Len(b) : out[i] = b[i]
    <3>1. IsSeq(b) /\ out = b \o recs
      BY <1>1, <1>5
    <3> QED BY ONLY <1>9, <3>1, IsSeqConcat
  <2>2. 2 \in 1..Len(b)
    BY <1>5
  <2> QED BY <1>5, <2>1, <2>2
<1>11. AreChunks(recs)
  BY <1>1, <1>5, <1>9, ChunksJoined
<1>12. IsSeq(h) /\ IsSeq(r) /\ IsSeq(s) /\ IsSeq(t)
  BY <1>7, SeqIsSeq
<1>13. AreChunks(t)
  <2>1. \A c \in Chunk : c.n \in Nat /\ Whole(c)
    BY DEF Chunk, Width, Whole
  <2> QED BY <1>7, <1>12, <2>1 DEF AreChunks
<1> DEFINE w == t \o recs
<1>14. IsSeq(w) /\ Len(w) # 0 /\ w[1].n > 0 /\ DOMAIN w = 1..Len(w)
  <2>1. /\ IsSeq(w) /\ Len(t) \in Nat /\ Len(recs) \in Nat /\ Len(w) = Len(t) + Len(recs)
        /\ DOMAIN w = 1..(Len(t) + Len(recs)) /\ \A i \in 1..Len(t) : w[i] = t[i]
    BY <1>9, <1>12, IsSeqConcat
  <2>2. 1 \in 1..Len(t)
    BY <1>7, <2>1
  <2>3. t[1] \in Chunk
    BY <1>7, <2>2
  <2>4. t[1].n > 0
    BY <2>3 DEF Chunk, Width
  <2> HIDE DEF w
  <2> QED BY <1>7, <2>1, <2>2, <2>4
<1>15. AreChunks(w)
  BY <1>9, <1>11, <1>12, <1>13, ChunksJoined
<1> HIDE DEF w
<1>16. Sized(w) /\ \A i \in 1..Len(w) : Whole(w[i])
  BY <1>14, <1>15 DEF AreChunks, Sized
<1>17. Overwrite((h \o r) \o w, Bytes(h), s) = (h \o s) \o w
  <2>1. h \in Seq(Chunk) /\ r \in Seq(Chunk) /\ s \in Seq(Chunk)
    BY <1>7
  <2>2. Len(w) # 0 /\ w[1].n > 0
    BY <1>14
  <2> QED BY ONLY <1>8, <1>16, <2>1, <2>2, OverwriteMiddle
<1>18. out = (h \o r) \o w
  <2> DEFINE f == h \o r
  <2>1. IsSeq(f)
    BY <1>12, IsSeqConcat
  <2> HIDE DEF f
  <2>2. (f \o t) \o recs = f \o (t \o recs)
    <3>1. IsSeq(t)
      BY <1>12
    <3> QED BY ONLY <1>9, <2>1, <3>1, IsSeqAssociative
  <2> QED BY <1>1, <1>5, <2>2 DEF f, w
<1>19. (h \o s) \o w = encode(q).bytes \o recs
  <2> DEFINE f == h \o s
  <2>1. IsSeq(f)
    BY <1>12, IsSeqConcat
  <2> HIDE DEF f
  <2>2. (f \o t) \o recs = f \o (t \o recs)
    <3>1. IsSeq(t)
      BY <1>12
    <3> QED BY ONLY <1>9, <2>1, <3>1, IsSeqAssociative
  <2> QED BY <1>6, <2>2 DEF f, w
<1>20. update_encoded(out, out[2].v, u.start, u.end, u.limit) = encode(q).bytes \o recs
  <2>1. START_OFFSET = Bytes(h)
    BY <1>7 DEF START_OFFSET, DATASET_CSTR_LEN
  <2> QED BY <1>3, <1>10, <1>17, <1>18, <1>19, <2>1 DEF update_encoded
<1>21. AreChunks(encode(q).bytes \o recs)
  <2>1. AreChunks(encode(q).bytes)
    BY <1>3, <1>4, FileBegun
  <2> QED BY <1>6, <1>9, <1>11, <2>1, ChunksJoined
<1>22. IsFile(encode(q).bytes \o recs, q)
  BY <1>1, <1>3, <1>4 DEF IsFile
<1> QED BY <1>20, <1>21, <1>22 DEF q

Accepted(s) == IsSeq(s) /\ \A i \in 1..Len(s) : ~Refused(s[i])

\* What is accepted in parts is accepted together.
LEMMA AcceptedJoined == \A s, t : Accepted(s) /\ Accepted(t) => Accepted(s \o t)
<1> SUFFICES ASSUME NEW s, NEW t, Accepted(s), Accepted(t) PROVE Accepted(s \o t)
  OBVIOUS
<1> DEFINE w == s \o t
<1>1. /\ IsSeq(s) /\ \A i \in 1..Len(s) : ~Refused(s[i])
      /\ IsSeq(t) /\ \A i \in 1..Len(t) : ~Refused(t[i])
  BY DEF Accepted
<1>2. /\ IsSeq(s \o t) /\ Len(s) \in Nat /\ Len(t) \in Nat
      /\ Len(s \o t) = Len(s) + Len(t)
      /\ \A i \in 1..Len(s) : (s \o t)[i] = s[i]
      /\ \A i \in 1..Len(t) : (s \o t)[Len(s) + i] = t[i]
  BY ONLY <1>1, IsSeqConcat
<1>3. ASSUME NEW i \in 1..Len(w) PROVE ~Refused(w[i])
  <2>1. CASE i \in 1..Len(s)
    BY <1>1, <1>2, <2>1
  <2>2. CASE ~ (i \in 1..Len(s))
    <3>1. i - Len(s) \in 1..Len(t) /\ Len(s) + (i - Len(s)) = i
      BY <1>2, <2>2
    <3>2. w[i] = t[i - Len(s)]
      BY <1>2, <3>1
    <3> QED BY <1>1, <3>1, <3>2
  <2> QED BY <2>1, <2>2
<1> QED BY <1>2, <1>3 DEF Accepted

\* Numbers are accepted.
LEMMA NumbersAccepted ==
    /\ Accepted(<<>>)
    /\ \A n, x : Accepted(<<U(n, x)>>)
    /\ \A a, b : ~Refused(a) /\ ~Refused(b) => Accepted(<<a, b>>)
    /\ \A a, b, c : ~Refused(a) /\ ~Refused(b) /\ ~Refused(c) => Accepted(<<a, b, c>>)
    /\ \A n, x : ~Refused(U(n, x))
<1>1. \A n, x : ~Refused(U(n, x))
  BY DEF Refused, U
<1>2. Accepted(<<>>)
  <2>1. IsSeq(<<>>)
    BY NothingWritten DEF NoRows
  <2>2. \A i \in 1..Len(<<>>) : ~Refused(<<>>[i])
    <3>1. Len(<<>>) = 0 /\ \A i \in 1..0 : FALSE
      OBVIOUS
    <3> QED BY <3>1
  <2> QED BY <2>1, <2>2 DEF Accepted
<1>3. ASSUME NEW a, ~Refused(a) PROVE Accepted(<<a>>)
  <2>1. <<a>> \in Seq({a}) /\ Len(<<a>>) = 1 /\ \A i \in 1..1 : <<a>>[i] = a
    OBVIOUS
  <2> QED BY <1>3, <2>1, SeqIsSeq DEF Accepted
<1>4. ASSUME NEW a, NEW b, ~Refused(a), ~Refused(b) PROVE Accepted(<<a, b>>)
  <2>1. /\ <<a, b>> \in Seq({a, b}) /\ Len(<<a, b>>) = 2
        /\ \A i \in 1..2 : <<a, b>>[i] \in {a, b}
    OBVIOUS
  <2> QED BY <1>4, <2>1, SeqIsSeq DEF Accepted
<1>5. ASSUME NEW a, NEW b, NEW c, ~Refused(a), ~Refused(b), ~Refused(c)
      PROVE  Accepted(<<a, b, c>>)
  <2>1. /\ <<a, b, c>> \in Seq({a, b, c}) /\ Len(<<a, b, c>>) = 3
        /\ \A i \in 1..3 : <<a, b, c>>[i] \in {a, b, c}
    OBVIOUS
  <2> QED BY <1>5, <2>1, SeqIsSeq DEF Accepted
<1> QED BY <1>1, <1>2, <1>3, <1>4, <1>5

\* encode_from_frag's metadata can be written.
LEMMA DummyEncodes == encode(DummyMetadata).ok
<1> DEFINE m == DummyMetadata
<1>1. /\ m.version = 3 /\ m.dataset = "" /\ m.symbols = <<>> /\ m.partial = <<>>
      /\ m.not_found = <<>> /\ m.mappings = <<>>
  BY DEF DummyMetadata, CURRENT_VERSION
<1>2. m \in Metadata
  BY DummyIsMetadata
<1> HIDE DEF m
<1>3. ~Refused(Cstr(DATASET_CSTR_LEN, ""))
  BY DEF Refused, Cstr, IsAscii, StrLen, OddText, LongText, DATASET_CSTR_LEN
<1>4. Accepted(ThePrelude(m)) /\ Accepted(TheNames(m))
  BY <1>1, <1>3, NumbersAccepted DEF ThePrelude, TheNames
<1>5. Accepted(TheRange(m))
  <2>1. TheRange(m) \in Seq(Chunk) /\ \A i \in 1..Len(TheRange(m)) : TheRange(m)[i].k = "int"
    BY <1>2, PartsTyped, RangeChunks
  <2> QED BY <2>1, SeqIsSeq DEF Accepted, Refused
<1>6. Accepted(TheStypes(m)) /\ Accepted(TheLen(m)) /\ Accepted(TheRest(m))
  BY NumbersAccepted DEF TheStypes, TheLen, TheRest
<1>7. Accepted(TheSymbols(m)) /\ Accepted(ThePartial(m)) /\ Accepted(TheMissing(m))
  <2> DEFINE len == m.symbol_cstr_len
             f == [i \in DOMAIN <<>> |-> Cstr(len, <<>>[i])]
  <2>1. encode_repeated_symbol_cstr(len, <<>>) = <<U(4, Len(<<>>))>> \o f
    BY DEF encode_repeated_symbol_cstr
  <2>2. f = <<>>
    OBVIOUS
  <2>3. Accepted(<<U(4, Len(<<>>))>>) /\ Accepted(<<>>)
    BY NumbersAccepted
  <2> HIDE DEF f, len
  <2>4. Accepted(encode_repeated_symbol_cstr(len, <<>>))
    BY <2>1, <2>2, <2>3, AcceptedJoined, Zenon
  <2> QED BY <1>1, <2>4 DEF TheSymbols, ThePartial, TheMissing, len
<1>8. Accepted(TheMapped(m))
  <2> DEFINE len == m.symbol_cstr_len
             f == [i \in DOMAIN <<>> |-> encode_symbol_mapping(len, <<>>[i])]
  <2>1. encode_symbol_mappings(len, <<>>) = <<U(4, Len(<<>>))>> \o FlattenSeq(f)
    BY DEF encode_symbol_mappings
  <2>2. f = <<>> /\ <<>> \in Seq(Seq(Chunk)) /\ Len(<<>>) = 0
    OBVIOUS
  <2>3. FlattenSeq(<<>>) = <<>>
    <3> DEFINE e == <<>>
    <3>1. e \in Seq(Seq(Chunk)) /\ Len(e) = 0
      BY <2>2
    <3> HIDE DEF e
    <3>2. PICK g \in [0..Len(e) -> Seq(Chunk)] : g[0] = <<>> /\ FlattenSeq(e) = g[Len(e)]
      BY <3>1, FlattenParts
    <3> QED BY <3>1, <3>2 DEF e
  <2>4. Accepted(<<U(4, Len(<<>>))>>) /\ Accepted(<<>>)
    BY NumbersAccepted
  <2> HIDE DEF f, len
  <2>5. Accepted(encode_symbol_mappings(len, <<>>))
    BY <2>1, <2>2, <2>3, <2>4, AcceptedJoined, Zenon
  <2> QED BY <1>1, <2>5 DEF TheMapped, len
<1>9. Accepted(ThePadding(m))
  BY NumbersAccepted DEF ThePadding
<1>10. Accepted(Layout(m))
  <2>1. Layout(m) = ThePrelude(m) \o Body(m)
    BY <1>2, LayoutParts
  <2> QED BY <1>4, <1>5, <1>6, <1>7, <1>8, <1>9, <2>1, AcceptedJoined, Zenon DEF Body
<1>11. DOMAIN Layout(m) = 1..Len(Layout(m))
  BY <1>2, LayoutParts
<1> QED BY <1>2, <1>10, <1>11, EncodesWhen DEF m, Accepted

-----------------------------------------------------------------------------
(* The records that the command writes. *)

\* Every type that an rtype is dispatched to has that rtype.
TypesOf(rt, types) ==
    /\ types \in Seq(RecordTypes) /\ Len(types) \in 1..3
    /\ \A i \in 1..Len(types) : rt \in has_rtype[types[i]]
    /\ rt \notin LengthChecked => Len(types) = 1

LEMMA TypesNamed == \A rt \in DOMAIN DispatchTypes : TypesOf(rt, DispatchTypes[rt])
<1>1. DOMAIN DispatchTypes = {"MBP_0", "MBP_1", "MBP_10", "OHLCV_DEPRECATED", "OHLCV_1S",
      "OHLCV_1M", "OHLCV_1H", "OHLCV_1D", "OHLCV_EOD", "IMBALANCE",
      "STATUS", "INSTRUMENT_DEF", "SYMBOL_MAPPING", "ERROR", "SYSTEM",
      "STATISTICS", "MBO", "CMBP_1", "TCBBO", "BBO_1S",
      "BBO_1M", "CBBO_1S", "CBBO_1M"}
  BY DEF DispatchTypes
<1>2. {"BboMsg", "CbboMsg", "Cmbp1Msg", "ErrorMsg",
      "ErrorMsgV1", "ImbalanceMsg", "InstrumentDefMsg", "InstrumentDefMsgV1",
      "InstrumentDefMsgV2", "MboMsg", "Mbp10Msg", "Mbp1Msg",
      "OhlcvMsg", "StatMsg", "StatMsgV1", "StatusMsg",
      "SymbolMappingMsg", "SymbolMappingMsgV1", "SystemMsg", "SystemMsgV1",
      "TradeMsg"} \subseteq RecordTypes
  BY DEF RecordTypes, has_rtype
<1>3. ASSUME NEW rt, NEW t \in RecordTypes, rt \in has_rtype[t] PROVE TypesOf(rt, <<t>>)
  BY <1>3 DEF TypesOf
<1>4. /\ DispatchTypes["MBP_0"] = <<"TradeMsg">> /\ "MBP_0" \in has_rtype["TradeMsg"]
      /\ DispatchTypes["MBP_1"] = <<"Mbp1Msg">> /\ "MBP_1" \in has_rtype["Mbp1Msg"]
      /\ DispatchTypes["MBP_10"] = <<"Mbp10Msg">> /\ "MBP_10" \in has_rtype["Mbp10Msg"]
  BY DEF DispatchTypes, has_rtype
<1>5. /\ TypesOf("MBP_0", DispatchTypes["MBP_0"])
      /\ TypesOf("MBP_1", DispatchTypes["MBP_1"])
      /\ TypesOf("MBP_10", DispatchTypes["MBP_10"])
  BY <1>2, <1>3, <1>4
<1>6. /\ DispatchTypes["OHLCV_DEPRECATED"] = <<"OhlcvMsg">>
      /\ "OHLCV_DEPRECATED" \in has_rtype["OhlcvMsg"]
      /\ DispatchTypes["OHLCV_1S"] = <<"OhlcvMsg">> /\ "OHLCV_1S" \in has_rtype["OhlcvMsg"]
      /\ DispatchTypes["OHLCV_1M"] = <<"OhlcvMsg">> /\ "OHLCV_1M" \in has_rtype["OhlcvMsg"]
  BY DEF DispatchTypes, has_rtype
<1>7. /\ TypesOf("OHLCV_DEPRECATED", DispatchTypes["OHLCV_DEPRECATED"])
      /\ TypesOf("OHLCV_1S", DispatchTypes["OHLCV_1S"])
      /\ TypesOf("OHLCV_1M", DispatchTypes["OHLCV_1M"])
  BY <1>2, <1>3, <1>6
<1>8. /\ DispatchTypes["OHLCV_1H"] = <<"OhlcvMsg">> /\ "OHLCV_1H" \in has_rtype["OhlcvMsg"]
      /\ DispatchTypes["OHLCV_1D"] = <<"OhlcvMsg">> /\ "OHLCV_1D" \in has_rtype["OhlcvMsg"]
      /\ DispatchTypes["OHLCV_EOD"] = <<"OhlcvMsg">> /\ "OHLCV_EOD" \in has_rtype["OhlcvMsg"]
  BY DEF DispatchTypes, has_rtype
<1>9. /\ TypesOf("OHLCV_1H", DispatchTypes["OHLCV_1H"])
      /\ TypesOf("OHLCV_1D", DispatchTypes["OHLCV_1D"])
      /\ TypesOf("OHLCV_EOD", DispatchTypes["OHLCV_EOD"])
  BY <1>2, <1>3, <1>8
<1>10. /\ DispatchTypes["IMBALANCE"] = <<"ImbalanceMsg">>
       /\ "IMBALANCE" \in has_rtype["ImbalanceMsg"]
      /\ DispatchTypes["STATUS"] = <<"StatusMsg">> /\ "STATUS" \in has_rtype["StatusMsg"]
      /\ DispatchTypes["MBO"] = <<"MboMsg">> /\ "MBO" \in has_rtype["MboMsg"]
  BY DEF DispatchTypes, has_rtype
<1>11. /\ TypesOf("IMBALANCE", DispatchTypes["IMBALANCE"])
      /\ TypesOf("STATUS", DispatchTypes["STATUS"])
      /\ TypesOf("MBO", DispatchTypes["MBO"])
  BY <1>2, <1>3, <1>10
<1>12. /\ DispatchTypes["CMBP_1"] = <<"Cmbp1Msg">> /\ "CMBP_1" \in has_rtype["Cmbp1Msg"]
      /\ DispatchTypes["TCBBO"] = <<"Cmbp1Msg">> /\ "TCBBO" \in has_rtype["Cmbp1Msg"]
      /\ DispatchTypes["BBO_1S"] = <<"BboMsg">> /\ "BBO_1S" \in has_rtype["BboMsg"]
  BY DEF DispatchTypes, has_rtype
<1>13. /\ TypesOf("CMBP_1", DispatchTypes["CMBP_1"])
      /\ TypesOf("TCBBO", DispatchTypes["TCBBO"])
      /\ TypesOf("BBO_1S", DispatchTypes["BBO_1S"])
  BY <1>2, <1>3, <1>12
<1>14. /\ DispatchTypes["BBO_1M"] = <<"BboMsg">> /\ "BBO_1M" \in has_rtype["BboMsg"]
      /\ DispatchTypes["CBBO_1S"] = <<"CbboMsg">> /\ "CBBO_1S" \in has_rtype["CbboMsg"]
      /\ DispatchTypes["CBBO_1M"] = <<"CbboMsg">> /\ "CBBO_1M" \in has_rtype["CbboMsg"]
  BY DEF DispatchTypes, has_rtype
<1>15. /\ TypesOf("BBO_1M", DispatchTypes["BBO_1M"])
      /\ TypesOf("CBBO_1S", DispatchTypes["CBBO_1S"])
      /\ TypesOf("CBBO_1M", DispatchTypes["CBBO_1M"])
  BY <1>2, <1>3, <1>14
<1>16. TypesOf("INSTRUMENT_DEF", DispatchTypes["INSTRUMENT_DEF"])
  <2>1. DispatchTypes["INSTRUMENT_DEF"] =
            <<"InstrumentDefMsgV1", "InstrumentDefMsgV2", "InstrumentDefMsg">>
    BY DEF DispatchTypes
  <2>2. /\ "INSTRUMENT_DEF" \in has_rtype["InstrumentDefMsgV1"]
        /\ "INSTRUMENT_DEF" \in has_rtype["InstrumentDefMsgV2"]
        /\ "INSTRUMENT_DEF" \in has_rtype["InstrumentDefMsg"]
    BY DEF has_rtype
  <2>3. "INSTRUMENT_DEF" \in LengthChecked
    BY DEF LengthChecked
  <2> QED BY <1>2, <2>1, <2>2, <2>3 DEF TypesOf
<1>17. TypesOf("SYMBOL_MAPPING", DispatchTypes["SYMBOL_MAPPING"])
  <2>1. DispatchTypes["SYMBOL_MAPPING"] = <<"SymbolMappingMsgV1", "SymbolMappingMsg">>
    BY DEF DispatchTypes
  <2>2. /\ "SYMBOL_MAPPING" \in has_rtype["SymbolMappingMsgV1"]
        /\ "SYMBOL_MAPPING" \in has_rtype["SymbolMappingMsg"]
    BY DEF has_rtype
  <2>3. "SYMBOL_MAPPING" \in LengthChecked
    BY DEF LengthChecked
  <2> QED BY <1>2, <2>1, <2>2, <2>3 DEF TypesOf
<1>18. TypesOf("ERROR", DispatchTypes["ERROR"])
  <2>1. DispatchTypes["ERROR"] = <<"ErrorMsgV1", "ErrorMsg">>
    BY DEF DispatchTypes
  <2>2. /\ "ERROR" \in has_rtype["ErrorMsgV1"]
        /\ "ERROR" \in has_rtype["ErrorMsg"]
    BY DEF has_rtype
  <2>3. "ERROR" \in LengthChecked
    BY DEF LengthChecked
  <2> QED BY <1>2, <2>1, <2>2, <2>3 DEF TypesOf
<1>19. TypesOf("SYSTEM", DispatchTypes["SYSTEM"])
  <2>1. DispatchTypes["SYSTEM"] = <<"SystemMsgV1", "SystemMsg">>
    BY DEF DispatchTypes
  <2>2. /\ "SYSTEM" \in has_rtype["SystemMsgV1"]
        /\ "SYSTEM" \in has_rtype["SystemMsg"]
    BY DEF has_rtype
  <2>3. "SYSTEM" \in LengthChecked
    BY DEF LengthChecked
  <2> QED BY <1>2, <2>1, <2>2, <2>3 DEF TypesOf
<1>20. TypesOf("STATISTICS", DispatchTypes["STATISTICS"])
  <2>1. DispatchTypes["STATISTICS"] = <<"StatMsgV1", "StatMsg">>
    BY DEF DispatchTypes
  <2>2. /\ "STATISTICS" \in has_rtype["StatMsgV1"]
        /\ "STATISTICS" \in has_rtype["StatMsg"]
    BY DEF has_rtype
  <2>3. "STATISTICS" \in LengthChecked
    BY DEF LengthChecked
  <2> QED BY <1>2, <2>1, <2>2, <2>3 DEF TypesOf
<1> QED BY <1>1, <1>5, <1>7, <1>9, <1>11, <1>13, <1>15, <1>16, <1>17, <1>18, <1>19, <1>20

\* And is no error.
LEMMA TypesAreTypes == \A t \in RecordTypes : t \notin {Err, Panic, "None"}
BY DEF RecordTypes, has_rtype, Err, Panic

\* The sizes of the types that changed.
LEMMA ChangedSizes ==
    /\ SizeOf("InstrumentDefMsgV1") = 360 /\ SizeOf("InstrumentDefMsgV2") = 400
    /\ SizeOf("InstrumentDefMsg") = 520
    /\ SizeOf("StatMsgV1") = 64 /\ SizeOf("StatMsg") = 80
    /\ SizeOf("SymbolMappingMsgV1") = 80 /\ SizeOf("SymbolMappingMsg") = 176
    /\ SizeOf("ErrorMsgV1") = 80 /\ SizeOf("ErrorMsg") = 320
    /\ SizeOf("SystemMsgV1") = 80 /\ SizeOf("SystemMsg") = 320
<1>1. /\ RecSizes["INSTRUMENT_DEF"] = <<360, 400, 520>>
      /\ RecSizes["STATISTICS"] = <<64, 64, 80>>
      /\ RecSizes["SYMBOL_MAPPING"] = <<80, 176, 176>>
      /\ RecSizes["ERROR"] = <<80, 320, 320>>
      /\ RecSizes["SYSTEM"] = <<80, 320, 320>>
  BY DEF RecSizes
<1>2. \A a, b, c, x, y, z : <<a, b, c>> = <<x, y, z>> => a = x /\ b = y /\ c = z
  OBVIOUS
<1>3. /\ <<360, 400, 520>> = <<SizeOf("InstrumentDefMsgV1"), SizeOf("InstrumentDefMsgV2"),
                               SizeOf("InstrumentDefMsg")>>
      /\ <<64, 64, 80>> = <<SizeOf("StatMsgV1"), SizeOf("StatMsgV1"), SizeOf("StatMsg")>>
      /\ <<80, 176, 176>> = <<SizeOf("SymbolMappingMsgV1"), SizeOf("SymbolMappingMsg"),
                              SizeOf("SymbolMappingMsg")>>
      /\ <<80, 320, 320>> = <<SizeOf("ErrorMsgV1"), SizeOf("ErrorMsg"), SizeOf("ErrorMsg")>>
      /\ <<80, 320, 320>> = <<SizeOf("SystemMsgV1"), SizeOf("SystemMsg"), SizeOf("SystemMsg")>>
  BY <1>1, RecSizesAssumption
<1> QED BY <1>2, <1>3

\* VersionOf takes the last type that the record is not shorter than.
LEMMA VersionTaken ==
    ASSUME NEW r, NEW types, Len(types) \in Nat \ {0}
    PROVE  \E m \in 1..Len(types) : /\ VersionOf(r, types) = types[m]
                                    /\ \A i \in 2..m : ~Shorter(r, types[i])
<1> DEFINE S == {i \in 2..Len(types) : Shorter(r, types[i])} \cup {Len(types) + 1}
           n == Min(S)
<1>1. S \in SUBSET Nat /\ S # {} /\ \A i \in S : 2 <= i /\ i <= Len(types) + 1
  OBVIOUS
<1>2. \E x \in S : \A y \in S : x <= y
  <2> HIDE DEF S
  <2> QED BY <1>1, LeastNat
<1>3. n \in S /\ \A y \in S : n <= y
  <2> HIDE DEF S
  <2> QED BY <1>2 DEF Min
<1>4. VersionOf(r, types) = types[n - 1]
  BY DEF VersionOf
<1>5. n - 1 \in 1..Len(types)
  <2> HIDE DEF S, n
  <2> QED BY <1>1, <1>3
<1>6. ASSUME NEW i \in 2..(n - 1) PROVE ~Shorter(r, types[i])
  <2>1. i \in 2..Len(types) /\ i < n /\ i \in Nat /\ n \in Nat
    <3> HIDE DEF S, n
    <3> QED BY <1>1, <1>3, <1>5
  <2>2. i \notin S
    <3> HIDE DEF S, n
    <3> QED BY <1>3, <2>1
  <2> HIDE DEF n
  <2> QED BY <2>1, <2>2
<1> HIDE DEF n
<1> QED BY <1>4, <1>5, <1>6

\* So the type that a record of one of these sizes is taken for is not longer than the record.
LEMMA Dispatched ==
    ASSUME NEW r, r.length \in Nat, NEW ts, WellSized(r, ts)
    PROVE  /\ r.rtype \notin DOMAIN DispatchTypes => rtype_dispatch(r, ts) = Err
           /\ r.rtype \in DOMAIN DispatchTypes => rtype_dispatch(r, ts) \notin {Err, Panic}
<1>1. ASSUME r.rtype \notin DOMAIN DispatchTypes PROVE rtype_dispatch(r, ts) = Err
  BY <1>1 DEF rtype_dispatch, rtype_dispatch_base, Handled
<1>2. ASSUME r.rtype \in DOMAIN DispatchTypes
      PROVE  rtype_dispatch(r, ts) \notin {Err, Panic}
  <2> DEFINE rt == r.rtype
             types == DispatchTypes[rt]
             extra == VU!TsOutLen(ts)
             size == record_size(r)
             t == VersionOf(r, types)
  <2>1. /\ types \in Seq(RecordTypes) /\ Len(types) \in 1..3
        /\ \A i \in 1..Len(types) : rt \in has_rtype[types[i]]
        /\ rt \notin LengthChecked => Len(types) = 1
    <3> HIDE DEF rt
    <3> QED BY <1>2, TypesNamed DEF rt, TypesOf
  <2>2. extra \in {0, 8} /\ extra = (IF ts THEN 8 ELSE 0)
    BY DEF VU!TsOutLen
  <2>3. size \in Nat
    BY DEF record_size, LENGTH_MULTIPLIER
  <2>4. PICK j \in 1..Len(types) : size = SizeOf(types[j]) + extra
    <3>1. DOMAIN types = 1..Len(types)
      <4> HIDE DEF types
      <4> QED BY <2>1
    <3> QED BY <1>2, <3>1 DEF WellSized
  <2>5. PICK m \in 1..Len(types) : t = types[m] /\ \A i \in 2..m : ~Shorter(r, types[i])
    <3> HIDE DEF types
    <3>1. Len(types) \in Nat \ {0}
      BY <2>1
    <3> QED BY <3>1, VersionTaken
  <2>6. \A i \in 2..m : ~ (size < SizeOf(types[i]))
    BY <2>5 DEF Shorter
  <2> HIDE DEF extra, size
  <2>7. size >= SizeOf(types[m]) + extra
    <3>1. CASE rt \notin LengthChecked
      <4>1. m = 1 /\ j = 1
        <5> HIDE DEF types, rt
        <5>1. Len(types) = 1
          BY <2>1, <3>1
        <5> QED BY <2>4, <2>5, <5>1
      <4>2. SizeOf(types[m]) + extra = size
        BY <2>4, <4>1
      <4> HIDE DEF types, rt
      <4> QED BY <2>3, <4>2
    <3>2. CASE rt = "INSTRUMENT_DEF"
      <4>1. types = <<"InstrumentDefMsgV1", "InstrumentDefMsgV2", "InstrumentDefMsg">>
        BY <3>2 DEF DispatchTypes
      <4> HIDE DEF types, rt
      <4> QED BY <2>2, <2>3, <2>4, <2>5, <2>6, <4>1, ChangedSizes
    <3>3. CASE rt = "STATISTICS"
      <4>1. types = <<"StatMsgV1", "StatMsg">>
        BY <3>3 DEF DispatchTypes
      <4> HIDE DEF types, rt
      <4> QED BY <2>2, <2>3, <2>4, <2>5, <2>6, <4>1, ChangedSizes
    <3>4. CASE rt = "ERROR"
      <4>1. types = <<"ErrorMsgV1", "ErrorMsg">>
        BY <3>4 DEF DispatchTypes
      <4> HIDE DEF types, rt
      <4> QED BY <2>2, <2>3, <2>4, <2>5, <2>6, <4>1, ChangedSizes
    <3>5. CASE rt = "SYMBOL_MAPPING"
      <4>1. types = <<"SymbolMappingMsgV1", "SymbolMappingMsg">>
        BY <3>5 DEF DispatchTypes
      <4> HIDE DEF types, rt
      <4> QED BY <2>2, <2>3, <2>4, <2>5, <2>6, <4>1, ChangedSizes
    <3>6. CASE rt = "SYSTEM"
      <4>1. types = <<"SystemMsgV1", "SystemMsg">>
        BY <3>6 DEF DispatchTypes
      <4> HIDE DEF types, rt
      <4> QED BY <2>2, <2>3, <2>4, <2>5, <2>6, <4>1, ChangedSizes
    <3> HIDE DEF types, rt
    <3> QED BY <3>1, <3>2, <3>3, <3>4, <3>5, <3>6 DEF LengthChecked
  <2>8. t \in RecordTypes /\ rt \in has_rtype[t]
    <3> HIDE DEF types, rt, t
    <3> QED BY <2>1, <2>5
  <2>9. t \notin {Err, Panic, "None"}
    <3> HIDE DEF t
    <3> QED BY <2>8, TypesAreTypes
  <2>10. Fits(r, t, ts) /\ has(r, t)
    <3>1. size >= SizeOf(t) + (IF ts THEN 8 ELSE 0)
      <4> HIDE DEF t, types
      <4> QED BY <2>2, <2>5, <2>7
    <3> HIDE DEF t
    <3> QED BY <2>8, <3>1 DEF Fits, has, size, rt
  <2>11. rtype_dispatch(r, ts) = Handled(r, t, ts)
    BY <1>2 DEF rtype_dispatch, rtype_dispatch_base
  <2> HIDE DEF t
  <2>12. Handled(r, t, ts) = t
    BY <2>9, <2>10 DEF Handled, get, Unwrap
  <2> QED BY <2>9, <2>11, <2>12
<1> QED BY <1>1, <1>2

\* The sizes that a conversion writes are those of a type of the rtype.
LEMMA ConvertedSizes ==
    ASSUME NEW rt \in LengthChecked, NEW v \in {2, 3}
    PROVE  /\ RecSizes[rt][v] \in Nat /\ RecSizes[rt][v] % 4 = 0
           /\ rt \in DOMAIN DispatchTypes
           /\ \E i \in DOMAIN DispatchTypes[rt] : RecSizes[rt][v] = SizeOf(DispatchTypes[rt][i])
<1>1. CASE rt = "INSTRUMENT_DEF"
  <2>1. RecSizes[rt] = <<360, 400, 520>>
    BY <1>1 DEF RecSizes
  <2>2. /\ rt \in DOMAIN DispatchTypes
        /\ DispatchTypes[rt] = <<"InstrumentDefMsgV1", "InstrumentDefMsgV2", "InstrumentDefMsg">>
    BY <1>1 DEF DispatchTypes
  <2>3. v = 2 => RecSizes[rt][v] = 400 /\ SizeOf(DispatchTypes[rt][2]) = 400
    BY <2>1, <2>2, ChangedSizes
  <2>4. v = 3 => RecSizes[rt][v] = 520 /\ SizeOf(DispatchTypes[rt][3]) = 520
    BY <2>1, <2>2, ChangedSizes
  <2>5. 2 \in DOMAIN DispatchTypes[rt] /\ 3 \in DOMAIN DispatchTypes[rt]
    BY <2>2
  <2> QED BY <2>2, <2>3, <2>4, <2>5
<1>2. CASE rt = "STATISTICS"
  <2>1. RecSizes[rt] = <<64, 64, 80>>
    BY <1>2 DEF RecSizes
  <2>2. rt \in DOMAIN DispatchTypes /\ DispatchTypes[rt] = <<"StatMsgV1", "StatMsg">>
    BY <1>2 DEF DispatchTypes
  <2>3. v = 2 => RecSizes[rt][v] = 64 /\ SizeOf(DispatchTypes[rt][1]) = 64
    BY <2>1, <2>2, ChangedSizes
  <2>4. v = 3 => RecSizes[rt][v] = 80 /\ SizeOf(DispatchTypes[rt][2]) = 80
    BY <2>1, <2>2, ChangedSizes
  <2>5. 1 \in DOMAIN DispatchTypes[rt] /\ 2 \in DOMAIN DispatchTypes[rt]
    BY <2>2
  <2> QED BY <2>2, <2>3, <2>4, <2>5
<1>3. CASE rt = "SYMBOL_MAPPING"
  <2>1. RecSizes[rt] = <<80, 176, 176>>
    BY <1>3 DEF RecSizes
  <2>2. /\ rt \in DOMAIN DispatchTypes
        /\ DispatchTypes[rt] = <<"SymbolMappingMsgV1", "SymbolMappingMsg">>
    BY <1>3 DEF DispatchTypes
  <2>3. RecSizes[rt][v] = 176 /\ SizeOf(DispatchTypes[rt][2]) = 176
    BY <2>1, <2>2, ChangedSizes
  <2>4. 2 \in DOMAIN DispatchTypes[rt]
    BY <2>2
  <2> QED BY <2>2, <2>3, <2>4
<1>4. CASE rt = "ERROR"
  <2>1. RecSizes[rt] = <<80, 320, 320>>
    BY <1>4 DEF RecSizes
  <2>2. rt \in DOMAIN DispatchTypes /\ DispatchTypes[rt] = <<"ErrorMsgV1", "ErrorMsg">>
    BY <1>4 DEF DispatchTypes
  <2>3. RecSizes[rt][v] = 320 /\ SizeOf(DispatchTypes[rt][2]) = 320
    BY <2>1, <2>2, ChangedSizes
  <2>4. 2 \in DOMAIN DispatchTypes[rt]
    BY <2>2
  <2> QED BY <2>2, <2>3, <2>4
<1>5. CASE rt = "SYSTEM"
  <2>1. RecSizes[rt] = <<80, 320, 320>>
    BY <1>5 DEF RecSizes
  <2>2. rt \in DOMAIN DispatchTypes /\ DispatchTypes[rt] = <<"SystemMsgV1", "SystemMsg">>
    BY <1>5 DEF DispatchTypes
  <2>3. RecSizes[rt][v] = 320 /\ SizeOf(DispatchTypes[rt][2]) = 320
    BY <2>1, <2>2, ChangedSizes
  <2>4. 2 \in DOMAIN DispatchTypes[rt]
    BY <2>2
  <2> QED BY <2>2, <2>3, <2>4
<1> QED BY <1>1, <1>2, <1>3, <1>4, <1>5 DEF LengthChecked

\* A record that was upgraded is one, has the length of one of its layouts if it had before,
\* and is otherwise as it was.
LEMMA UpgradedLength ==
    ASSUME NEW r \in AnyRecord, NEW version, NEW policy, NEW ts,
           WellSizedInputs => WellSized(r, ts)
    PROVE  LET x == Upgraded(r, version, policy, ts)
               c == RecordChunk(x)
           IN  /\ c.n \in Nat /\ IsRecord(c, ts) /\ Whole(c)
               /\ x.id = r.id /\ x.rtype = r.rtype
<1> DEFINE u == UpgradeOf(r, version, policy)
           rt == UpgradeType(r)
           x == UpgradedBy(u, r, ts)
           size == VU!UpgradedSize(u, rt, ts)
           len == size \div 4
<1>1. u.to \in {0, 2, 3} /\ (u.to # 0 => rt \in LengthChecked)
  BY DEF UpgradeOf, VU!UpgradeRecord, VU!DetectVersion, VU!UpgradeWithVersion, VU!Convert,
         VU!AsItIs, LengthChecked
<1>2. rt \in LengthChecked => r.rtype = rt
  BY DEF UpgradeType, LengthChecked
<1> HIDE DEF u, rt
<1>3. ASSUME u.to # 0
      PROVE  size \in Nat /\ 4 * len = size /\ len \in Nat
             /\ \E i \in DOMAIN DispatchTypes[rt] :
                  size = SizeOf(DispatchTypes[rt][i]) + VU!TsOutLen(ts)
  <2> DEFINE b == RecSizes[rt][u.to]
  <2>1. /\ b \in Nat /\ b % 4 = 0
        /\ \E i \in DOMAIN DispatchTypes[rt] : b = SizeOf(DispatchTypes[rt][i])
    BY <1>1, <1>3, ConvertedSizes
  <2>2. VU!TsOutLen(ts) \in {0, 8}
    BY DEF VU!TsOutLen
  <2>3. size = b + VU!TsOutLen(ts)
    BY <1>3 DEF VU!UpgradedSize, VU!EncodedSize
  <2> HIDE DEF b, size
  <2>4. size \in Nat /\ 4 * (size \div 4) = size /\ size \div 4 \in Nat
    <3>1. \A n \in Nat : n % 4 = 0 => /\ 4 * ((n + 0) \div 4) = n + 0
                                     /\ 4 * ((n + 8) \div 4) = n + 8
      OBVIOUS
    <3>2. size \in Nat /\ (size = b + 0 \/ size = b + 8)
      BY <2>1, <2>2, <2>3
    <3>3. 4 * (size \div 4) = size
      BY <2>1, <3>1, <3>2
    <3> QED BY <3>2, <3>3
  <2> QED BY <2>1, <2>3, <2>4
<1> HIDE DEF size, len
<1>4. CASE u.to = 0
  <2>1. x = r
    BY <1>4 DEF UpgradedBy
  <2>2. record_size(r) \in Nat
    BY DEF record_size, LENGTH_MULTIPLIER, AnyRecord
  <2>3. Upgraded(r, version, policy, ts) = r
    BY <2>1 DEF Upgraded, u
  <2> QED BY <2>2, <2>3 DEF RecordChunk, Whole, IsRecord
<1>5. CASE u.to # 0
  <2>1. x = [r EXCEPT !.length = len]
    BY <1>5 DEF UpgradedBy, len, size, rt
  <2>2. len \in Nat /\ 4 * len = size
    BY <1>3, <1>5
  <2>3. x \in AnyRecord /\ x.length = len /\ x.rtype = r.rtype /\ x.id = r.id
    BY <2>1, <2>2 DEF AnyRecord
  <2> HIDE DEF x
  <2>4. record_size(x) = size /\ record_size(x) \in Nat
    BY <2>2, <2>3 DEF record_size, LENGTH_MULTIPLIER
  <2>5. x.rtype = rt
    BY <1>1, <1>2, <1>5, <2>3
  <2>6. WellSized(x, ts)
    BY <1>3, <1>5, <2>4, <2>5 DEF WellSized
  <2>7. Upgraded(r, version, policy, ts) = x
    BY DEF Upgraded, u, x
  <2> QED BY <2>3, <2>4, <2>6, <2>7 DEF RecordChunk, Whole, IsRecord
<1> QED BY <1>4, <1>5

\* A DBN encoder writes a record as it is, or stops.
LEMMA DbnRecordWritten ==
    ASSUME IsEncoder(enc), enc.out = <<>>, enc.kind = "Dbn", NEW r, EncodeOne(r).res = "ok"
    PROVE  EncodeOne(r).out = <<RecordChunk(r)>> /\ EncodeOne(r).kind = "Dbn"
<1> DEFINE c == RecordChunk(r)
           p == Put(enc, c)
           q == Stopped(enc, "err")
           s == Stopped(enc, "panic")
<1>1. \A t, ts, sym : encode_record(enc, t, r, ts, sym) \in {p, q, s}
  BY DEF encode_record, dbn_encode_record
<1>2. \A ts : encode_record_ref_ts_out(enc, r, ts) = p
  BY DEF encode_record_ref_ts_out, dbn_encode_record
<1>3. EncodeOne(r) \in {p, q, s}
  <2>1. \A ts, sym : encode_ref_ts_out_with_sym(enc, r, ts, sym) \in {p, q, s}
    BY <1>1 DEF encode_ref_ts_out_with_sym
  <2>2. encode_decoded(enc, meta, r) = p
    BY <1>2 DEF encode_decoded
  <2>3. dbn_encode_record(enc, r) = p
    BY DEF dbn_encode_record
  <2> HIDE DEF p, q, s
  <2> QED BY <1>2, <2>1, <2>2, <2>3 DEF EncodeOne
<1> HIDE DEF c
<1>4. p = [kind |-> enc.kind, out |-> <<c>>, has_written_header |-> enc.has_written_header,
           width |-> enc.width, res |-> enc.res]
  <2>1. Append(enc.out, c) = <<c>>
    BY AppendShort
  <2>2. [enc EXCEPT !.out = Append(enc.out, c)] =
          [kind |-> enc.kind, out |-> Append(enc.out, c),
           has_written_header |-> enc.has_written_header,
           width |-> enc.width, res |-> enc.res]
    BY EncoderFields
  <2> QED BY <2>1, <2>2 DEF Put
<1>5. q.res = "err" /\ s.res = "panic"
  BY EncoderFields DEF Stopped
<1> HIDE DEF p, q, s
<1>6. EncodeOne(r) = p
  BY <1>3, <1>5
<1> QED BY <1>4, <1>6 DEF c

ToFile  == infer_encoding = "Dbn" /\ ~IsFragment
TheMeta == IF input.kind = "frag" THEN DummyMetadata ELSE meta

\* What the DBN encoder wrote when it was made.
LEMMA DbnEncoderBuilt ==
    ASSUME ToFile, input.kind # "frag" => meta \in Metadata
    PROVE  /\ TheMeta \in Metadata
           /\ NewEncoder.kind = "Dbn" /\ NewEncoder.out = encode(TheMeta).bytes
           /\ NewEncoder.res = IF encode(TheMeta).ok THEN "ok" ELSE "err"
<1> DEFINE m == TheMeta
           b == <<>> \o encode(m).bytes
           r == IF encode(m).ok THEN "ok" ELSE "err"
           e == Encoder("Dbn", b)
           x == Stopped(e, r)
           w == infer_encoding # "Csv" \/ ~args.write_header
<1>1. m \in Metadata
  BY DummyIsMetadata DEF TheMeta
<1>2. b = encode(m).bytes
  <2>1. encode(m).bytes \in Seq(Chunk)
    BY <1>1, Encoded
  <2> QED BY <2>1
<1>3. \A h, s : DynEncoder_build(infer_encoding, m, h, s) = x
  BY DEF ToFile, DynEncoder_build, MetadataEncoder
<1>4. NewEncoder = x \/ NewEncoder = [x EXCEPT !.has_written_header = w]
  <2> HIDE DEF x, w
  <2>1. CASE input.kind = "frag"
    BY <1>3, <2>1 DEF NewEncoder, LateHeader, ToFile, TheMeta, w
  <2>2. CASE input.kind # "frag"
    BY <1>3, <2>2 DEF NewEncoder, ToFile, TheMeta
  <2> QED BY <2>1, <2>2
<1>5. IsEncoder(e) /\ e.out = b /\ e.kind = "Dbn"
  BY DEF IsEncoder, Encoder
<1> HIDE DEF e, b, r, w, m
<1>6. IsEncoder(x) /\ x.out = b /\ x.kind = "Dbn" /\ x.res = r
  <2>1. [e EXCEPT !.res = r] =
          [kind |-> e.kind, out |-> e.out, has_written_header |-> e.has_written_header,
           width |-> e.width, res |-> r]
    BY <1>5, EncoderFields
  <2> QED BY <1>5, <2>1 DEF IsEncoder, Stopped
<1> HIDE DEF x
<1>7. LET y == [x EXCEPT !.has_written_header = w]
      IN  y.out = x.out /\ y.kind = x.kind /\ y.res = x.res
  <2>1. [x EXCEPT !.has_written_header = w] =
          [kind |-> x.kind, out |-> x.out, has_written_header |-> w,
           width |-> x.width, res |-> x.res]
    BY <1>6, EncoderFields
  <2> QED BY <2>1
<1>8. NewEncoder.out = b /\ NewEncoder.kind = "Dbn" /\ NewEncoder.res = r
  BY <1>4, <1>6, <1>7
<1> QED BY <1>1, <1>2, <1>8 DEF m, r

-----------------------------------------------------------------------------
(* The file while the command runs, and when it has ended. *)

\* Only a DBZ file that is not upgraded gives a metadata of version 0.
MetaOk ==
  /\ meta \in Metadata /\ (meta.version = 0 => input.kind = "dbz" /\ ~args.upgrade)
  /\ Decoded(input).ok /\ meta.ts_out = Decoded(input).meta.ts_out

EndedWell == pc = "exit" /\ status = "ok"

ToDbn == infer_encoding = "Dbn"

\* A fragment, or a file with the metadata of the command.
IsOutput(out) ==
  AreChunks(out) /\ (IF IsFragment THEN AreRecs(out, ts_out) ELSE IsFile(out, TheMeta))

\* That is what is on disk and in the buffer together, and at the end on disk.
WrittenInv ==
  /\ pc \in {"encode", "run"} \/ EndedWell => (input.kind # "frag" => MetaOk)
  /\ pc = "run" /\ ToDbn => enc.kind = "Dbn" /\ IsOutput(disk \o pend)
  /\ EndedWell /\ ~faulty /\ ToDbn => IsOutput(disk)

\* The metadata of the file says whether the records carry a send timestamp.
LEMMA TheMetaTs == TheMeta.ts_out = ts_out
BY DEF TheMeta, ts_out, DummyMetadata, FRAG_TS_OUT

\* A record is put behind either.
LEMMA OutputGrown ==
    ASSUME TheMeta \in Metadata, NEW out, IsOutput(out),
           NEW c, c.n \in Nat, Whole(c), IsRecord(c, ts_out)
    PROVE  IsOutput(out \o <<c>>)
<1>1. AreChunks(out \o <<c>>)
  BY ChunksGrown DEF IsOutput
<1>2. CASE IsFragment
  <2>1. AreRecs(out \o <<c>>, ts_out)
    BY <1>2, RecsGrown DEF IsOutput
  <2> QED BY <1>1, <1>2, <2>1 DEF IsOutput
<1>3. CASE ~IsFragment
  <2>0. TheMeta.ts_out = ts_out
    BY TheMetaTs
  <2>1. IsFile(out \o <<c>>, TheMeta)
    BY <1>3, <2>0, FileGrown DEF IsOutput
  <2> QED BY <1>1, <1>3, <2>1 DEF IsOutput
<1> QED BY <1>2, <1>3

\* An upgrade of the metadata keeps ts_out.
LEMMA UpgradeKeepsTs ==
    ASSUME NEW m \in Metadata, NEW policy
    PROVE  upgrade(m, policy).ts_out = m.ts_out
<1>1. /\ \A x, y : [m EXCEPT !.version = x, !.symbol_cstr_len = y].ts_out = m.ts_out
      /\ \A x : [m EXCEPT !.version = x].ts_out = m.ts_out
      /\ \A x : [m EXCEPT !.symbol_cstr_len = x].ts_out = m.ts_out
  BY DEF Metadata
<1> QED BY <1>1 DEF upgrade

\* The filters and the upgrade keep the version, or raise it.
LEMMA OpenedMeta ==
    ASSUME NEW m \in Metadata, IsArgs(args)
    PROVE  LET w == wrap(upgrade(m, upgrade_policy))
           IN  /\ w \in Metadata /\ (w.version = 0 => m.version = 0 /\ ~args.upgrade)
               /\ w.ts_out = m.ts_out
<1> DEFINE q == upgrade(m, upgrade_policy)
<1>1. q \in Metadata
  BY UpgradedMetadata
<1>2. q.version = 0 => m.version = 0 /\ ~args.upgrade
  <2>1. m.version \in 0..3
    BY DEF Metadata, CURRENT_VERSION
  <2>2. /\ \A x, y : [m EXCEPT !.version = x, !.symbol_cstr_len = y].version = x
        /\ \A x : [m EXCEPT !.version = x].version = x
        /\ \A x : [m EXCEPT !.symbol_cstr_len = x].version = m.version
    BY DEF Metadata
  <2>3. CASE args.upgrade
    <3>1. upgrade_policy = "UpgradeToV3"
      BY <2>3 DEF upgrade_policy
    <3>2. q.version = 3
      BY <2>1, <2>2, <3>1 DEF upgrade
    <3> QED BY <3>2
  <2>4. CASE ~args.upgrade
    <3>1. upgrade_policy = "AsIs"
      BY <2>4 DEF upgrade_policy
    <3>2. q.version = m.version
      BY <2>1, <2>2, <3>1 DEF upgrade
    <3> QED BY <2>4, <3>2
  <2> QED BY <2>3, <2>4
<1> HIDE DEF q
<1>3. wrap(q) \in Metadata
  BY <1>1, WrapType
<1>4. wrap(q).version = q.version /\ wrap(q).ts_out = q.ts_out
  BY <1>1 DEF wrap, Metadata
<1>5. q.ts_out = m.ts_out
  BY UpgradeKeepsTs DEF q
<1> QED BY <1>1, <1>2, <1>3, <1>4, <1>5 DEF q

\* The metadata of the decoder is of version 0 only in a DBZ file.
LEMMA DecodedVersion ==
    ASSUME NEW i, IsInput(i), i.kind # "frag", Decoded(i).ok
    PROVE  Decoded(i).meta \in Metadata /\ (Decoded(i).meta.version = 0 => i.kind = "dbz")
<1>1. Decoded(i).meta \in Metadata
  BY DecodedType
<1>2. CASE i.kind = "dbz"
  BY <1>1, <1>2
<1>3. CASE i.kind = "dbn"
  <2>1. i.meta \in Metadata /\ i.meta.version = i.version /\ encode(i.meta).ok /\ i.version # 0
    BY <1>3 DEF IsInput
  <2>2. Decoded(i) = [ok |-> TRUE, meta |-> i.meta]
    BY <1>3, <2>1, MetadataRoundTrip DEF Decoded
  <2> QED BY <1>1, <2>1, <2>2
<1>4. CASE i.kind \notin {"dbz", "dbn"}
  BY <1>4 DEF Decoded
<1> QED BY <1>2, <1>3, <1>4

\* A command that ends with an error promises nothing.
LEMMA FailedWritten ==
    ASSUME pc' = "exit", status' # "ok"
    PROVE  WrittenInv'
BY DEF WrittenInv, EndedWell

\* A write failed, and the command may still end well.
LEMMA FaultyWritten ==
    ASSUME WrittenInv, pc = "run", faulty, pc' = "exit", UNCHANGED <<input, args, meta, faulty>>
    PROVE  WrittenInv'
<1>1. input.kind # "frag" => MetaOk
  BY DEF WrittenInv
<1>2. MetaOk' = MetaOk
  BY DEF MetaOk
<1> QED BY <1>1, <1>2 DEF WrittenInv

\* Opening the input.
LEMMA OpenWritten ==
    ASSUME CliInv, OpenInput
    PROVE  WrittenInv'
<1>0. pc = "open" /\ Running /\ IsInput(input) /\ IsArgs(args)
  <2>1. pc = "open" /\ Running
    BY DEF OpenInput, Running
  <2> QED BY <2>1, CliInputs
<1>1. /\ pc' = "encode" /\ Decoded(input).ok
      /\ UNCHANGED <<input, args>>
      /\ input.kind # "frag" => meta' = wrap(upgrade(Decoded(input).meta, upgrade_policy))
  BY DEF OpenInput
<1>2. ASSUME input.kind # "frag" PROVE MetaOk'
  <2> DEFINE m == Decoded(input).meta
             w == wrap(upgrade(m, upgrade_policy))
  <2>1. m \in Metadata /\ (m.version = 0 => input.kind = "dbz")
    BY <1>0, <1>1, <1>2, DecodedVersion
  <2>2. meta' = w
    BY <1>1, <1>2
  <2>3. /\ w \in Metadata /\ (w.version = 0 => m.version = 0 /\ ~args.upgrade)
        /\ w.ts_out = m.ts_out
    <3> HIDE DEF m
    <3> QED BY <1>0, <2>1, OpenedMeta
  <2>4. Decoded(input)'.ok /\ Decoded(input)'.meta = m
    BY <1>1
  <2> HIDE DEF m, w
  <2> QED BY <1>1, <2>1, <2>2, <2>3, <2>4 DEF MetaOk
<1> QED BY <1>1, <1>2 DEF WrittenInv, EndedWell

\* The ways to end before there is an encoder.
LEMMA OutputWritten ==
    ASSUME WrittenInv, OutputExists \/ NotInferred \/ EncodeMetadata
    PROVE  WrittenInv'
<1>1. CASE OutputExists
  BY <1>1, FailedWritten DEF OutputExists, Exit
<1>2. CASE NotInferred
  BY <1>2, FailedWritten DEF NotInferred
<1>3. CASE EncodeMetadata
  <2>1. /\ pc = "encode" /\ pc' = "exit" /\ infer_encoding = "Json"
        /\ UNCHANGED <<input, args, meta>>
    BY <1>3 DEF EncodeMetadata, Opened
  <2>2. ~ToDbn'
    BY <2>1 DEF ToDbn, infer_encoding, ByExtension
  <2>3. MetaOk' = MetaOk
    BY <2>1 DEF MetaOk
  <2> QED BY <2>1, <2>2, <2>3 DEF WrittenInv
<1> QED BY <1>1, <1>2, <1>3

\* A step that leaves the command line and the metadata alone.
LEMMA SameFile ==
    ASSUME UNCHANGED <<input, args, meta>>
    PROVE  /\ MetaOk' = MetaOk /\ ToDbn' = ToDbn
           /\ TheMeta' = TheMeta /\ IsFragment' = IsFragment /\ ts_out' = ts_out
BY DEF MetaOk, ToDbn, infer_encoding, ByExtension, IsFragment, TheMeta, ts_out

\* Building an encoder begins a file.
LEMMA BuildWritten ==
    ASSUME CliInv, WrittenInv, Build
    PROVE  WrittenInv'
<1> DEFINE e == NewEncoder
<1>1. /\ pc = "encode" /\ enc' = [e EXCEPT !.out = <<>>]
      /\ UNCHANGED <<input, args, meta>>
      /\ \/ pc' = "exit" /\ status' = "err"
         \/ ~NotStarted(e) /\ pc' = "run" /\ pend' = e.out /\ disk' = <<>>
  BY DEF Build, Opened
<1>2. (input.kind # "frag" => MetaOk) /\ MetaOk' = MetaOk /\ ToDbn' = ToDbn
      /\ TheMeta' = TheMeta /\ IsFragment' = IsFragment /\ ts_out' = ts_out
  BY <1>1, SameFile DEF WrittenInv
<1>3. CASE pc' = "exit" /\ status' = "err"
  BY <1>3, FailedWritten
<1>4. CASE ~NotStarted(e) /\ pc' = "run" /\ pend' = e.out /\ disk' = <<>>
  <2>0. input.kind # "frag" => meta \in Metadata
    BY <1>2 DEF MetaOk
  <2>1. ASSUME ToDbn PROVE e.kind = "Dbn" /\ IsSeq(e.out) /\ IsOutput(e.out)
    <3>1. CASE IsFragment
      <4>1. e.out = <<>> /\ e.kind = "Dbn"
        BY <3>1 DEF NewEncoder, Encoder
      <4>2. <<>> \in Seq({}) /\ Len(<<>>) = 0 /\ DOMAIN <<>> = {}
        OBVIOUS
      <4>3. IsSeq(<<>>)
        BY <4>2, SeqIsSeq
      <4>4. AreRecs(<<>>, ts_out) /\ AreChunks(<<>>)
        BY <4>2, <4>3 DEF AreRecs, AreChunks
      <4> QED BY <3>1, <4>1, <4>3, <4>4 DEF IsOutput
    <3>2. CASE ~IsFragment
      <4>1. ToFile
        BY <2>1, <3>2 DEF ToDbn, ToFile
      <4>2. /\ TheMeta \in Metadata
            /\ e.kind = "Dbn" /\ e.out = encode(TheMeta).bytes
            /\ e.res = IF encode(TheMeta).ok THEN "ok" ELSE "err"
        BY <2>0, <4>1, DbnEncoderBuilt
      <4>3. encode(TheMeta).ok
        <5>1. CASE input.kind = "frag"
          BY <5>1, DummyEncodes DEF TheMeta
        <5>2. CASE input.kind # "frag"
          BY <1>4, <3>2, <4>2, <5>2 DEF NotStarted
        <5> QED BY <5>1, <5>2
      <4>4. IsFile(e.out, TheMeta) /\ AreChunks(e.out)
        BY <4>2, <4>3, FileBegun
      <4> HIDE DEF e
      <4> QED BY <3>2, <4>2, <4>4 DEF IsOutput, AreChunks
    <3> QED BY <3>1, <3>2
  <2>2. IsEncoder(e)
    BY <2>0, NewEncoderWithoutRows
  <2> HIDE DEF e
  <2>3. ASSUME ToDbn PROVE (enc.kind = "Dbn" /\ IsOutput(disk \o pend))'
    <3>1. disk' \o pend' = e.out
      BY <1>4, <2>1, <2>3, IsSeqEmpty
    <3>2. enc'.kind = e.kind
      BY <1>1, <2>2, EncoderFields
    <3> QED BY <1>2, <2>1, <2>3, <3>1, <3>2 DEF IsOutput
  <2> QED BY <1>1, <1>2, <1>4, <2>3 DEF WrittenInv, EndedWell
<1> QED BY <1>1, <1>3, <1>4

\* A record is added to the file.
LEMMA EncodeNextWritten ==
    ASSUME CliInv, WrittenInv, EncodeNext
    PROVE  WrittenInv'
<1>0. /\ pc = "run" /\ IsInput(input) /\ pos \in Nat /\ IsSeq(disk) /\ IsSeq(pend)
      /\ input \in Inputs
      /\ IsEncoder(enc) /\ enc.out = <<>>
      /\ (input.kind # "frag" => MetaOk)
  <2>1. pc = "run" /\ Running
    BY DEF EncodeNext, Running
  <2> QED BY <2>1, CliInputs DEF CliInv, CliTyped, WrittenInv
<1> DEFINE o == input.recs[NextAt]
           r == Upgraded(o, input.version, upgrade_policy, ts_out)
           e == EncodeOne(r)
<1>1. /\ ~NoMore /\ pos' = NextAt /\ o # BadRecord
      /\ enc' = [e EXCEPT !.out = <<>>]
      /\ UNCHANGED <<input, args, meta, faulty>>
      /\ \/ e.res = "ok" /\ pend' = pend \o e.out /\ UNCHANGED <<pc, status, disk>>
         \/ e.res # "ok" /\ Exit(e.res, pend \o e.out)
  BY DEF EncodeNext
<1>2. MetaOk' = MetaOk /\ ToDbn' = ToDbn /\ TheMeta' = TheMeta /\ IsFragment' = IsFragment
      /\ ts_out' = ts_out
  BY <1>1, SameFile
<1>3. CASE e.res # "ok"
  BY <1>1, <1>3, FailedWritten DEF Exit
<1>4. CASE e.res = "ok"
  <2>0. pend' = pend \o e.out /\ UNCHANGED <<pc, status, disk>>
    BY <1>1, <1>4
  <2>1. ASSUME ToDbn PROVE (enc.kind = "Dbn" /\ IsOutput(disk \o pend))'
    <3> DEFINE c == RecordChunk(r)
               f == disk \o pend
    <3>1. enc.kind = "Dbn" /\ IsOutput(f)
      BY <1>0, <2>1 DEF WrittenInv
    <3>2. TheMeta \in Metadata
      BY <1>0, DummyIsMetadata DEF TheMeta, MetaOk
    <3>3. o \in AnyRecord /\ NextAt \in DOMAIN input.recs
      <4>1. input.recs \in Seq(AnyRecord \cup {BadRecord})
        BY <1>0 DEF IsInput
      <4>2. Candidates # {}
        BY <1>1 DEF NoMore
      <4>3. NextAt \in 1..Len(input.recs)
        BY <1>0, <4>2, NextIsFirst
      <4> QED BY <1>1, <4>1, <4>3
    <3>4. c.n \in Nat /\ IsRecord(c, ts_out) /\ Whole(c)
      <4>1. WellSizedInputs => WellSized(o, ts_out)
        <5>1. input \in Inputs /\ Decoded(input).ok /\ TsOutOf(input) = ts_out
          BY <1>0 DEF MetaOk, Decoded, TsOutOf, ts_out
        <5>2. NextAt \in DOMAIN input.recs
          BY <3>3
        <5> QED BY <1>1, <5>1, <5>2 DEF WellSizedInputs
      <4> HIDE DEF o
      <4> QED BY <3>3, <4>1, UpgradedLength
    <3>5. e.out = <<c>> /\ e.kind = "Dbn"
      <4> HIDE DEF r
      <4> QED BY <1>0, <1>4, <3>1, DbnRecordWritten
    <3>6. IsEncoder(e)
      <4> HIDE DEF r
      <4> QED BY <1>0, EncodeOneWritten DEF Wrote
    <3> HIDE DEF c, e
    <3>7. enc'.kind = "Dbn"
      BY <1>1, <3>5, <3>6, EncoderFields
    <3>8. IsOutput(f \o <<c>>)
      <4> HIDE DEF f
      <4> QED BY <3>1, <3>2, <3>4, OutputGrown
    <3>9. disk \o (pend \o <<c>>) = f \o <<c>>
      <4>1. <<c>> \in Seq({c})
        OBVIOUS
      <4>2. IsSeq(<<c>>)
        BY <4>1, SeqIsSeq
      <4> QED BY <1>0, <4>2, IsSeqAssociative
    <3>10. disk' \o pend' = f \o <<c>>
      <4> HIDE DEF f
      <4>1. disk' = disk /\ pend' = pend \o <<c>>
        BY <2>0, <3>5
      <4> QED BY ONLY <3>9, <4>1
    <3> HIDE DEF f
    <3> QED BY <1>2, <3>7, <3>8, <3>10 DEF IsOutput
  <2> HIDE DEF e
  <2> QED BY <1>0, <1>1, <1>2, <2>0, <2>1 DEF WrittenInv, EndedWell
<1> QED BY <1>3, <1>4

\* Writing out the buffer moves the file.
LEMMA SpillWritten ==
    ASSUME CliInv, WrittenInv, Spill
    PROVE  WrittenInv'
<1>0. pc = "run" /\ IsSeq(disk) /\ IsSeq(pend)
  <2>1. pc = "run" /\ Running
    BY DEF Spill, Running
  <2> QED BY <2>1, CliInputs
<1>1. UNCHANGED <<input, args, meta, enc, faulty>>
  BY DEF Spill
<1>2. MetaOk' = MetaOk /\ ToDbn' = ToDbn /\ TheMeta' = TheMeta /\ IsFragment' = IsFragment
      /\ ts_out' = ts_out
  BY <1>1, SameFile
<1>3. CASE faulty
  <2>1. WriteFails
    BY <1>3 DEF Spill
  <2>2. pc' = "exit"
    BY <2>1 DEF WriteFails, Exit
  <2> QED BY <1>0, <1>1, <1>3, <2>2, FaultyWritten
<1>4. CASE ~faulty
  <2>1. disk' = disk \o pend /\ pend' = <<>> /\ UNCHANGED <<pc, status>>
    BY <1>4 DEF Spill
  <2>2. disk' \o pend' = disk \o pend
    <3>1. IsSeq(disk \o pend)
      BY <1>0, IsSeqConcat
    <3> QED BY <2>1, <3>1, IsSeqEmpty
  <2> QED BY <1>0, <1>1, <1>2, <2>1, <2>2 DEF WrittenInv, EndedWell, IsOutput
<1> QED BY <1>3, <1>4

\* A command that ends well leaves the file.
LEMMA FinishWritten ==
    ASSUME WrittenInv, Finish
    PROVE  WrittenInv'
<1>1. pc = "run" /\ UNCHANGED <<input, args, meta, enc, faulty>>
  BY DEF Finish
<1>2. MetaOk' = MetaOk /\ ToDbn' = ToDbn /\ TheMeta' = TheMeta /\ IsFragment' = IsFragment
      /\ ts_out' = ts_out
  BY <1>1, SameFile
<1>3. CASE faulty
  <2>1. pc' = "exit"
    BY DEF Finish, WriteFails, Exit
  <2> QED BY <1>1, <1>3, <2>1, FaultyWritten
<1>4. CASE ~faulty
  <2>1. pc' = "exit" /\ disk' = disk \o pend
    BY <1>4 DEF Finish, Exit
  <2> QED BY <1>1, <1>2, <2>1 DEF WrittenInv, EndedWell, IsOutput
<1> QED BY <1>3, <1>4

\* The other steps.
LEMMA SinkFailsWritten ==
    ASSUME WrittenInv, SinkFails
    PROVE  WrittenInv'
<1>1. /\ pc \in {"encode", "run"}
      /\ UNCHANGED <<input, args, pc, status, meta, enc, disk, pend>>
  BY DEF SinkFails
<1>2. MetaOk' = MetaOk /\ ToDbn' = ToDbn /\ TheMeta' = TheMeta /\ IsFragment' = IsFragment
      /\ ts_out' = ts_out
  BY <1>1, SameFile
<1> QED BY <1>1, <1>2 DEF WrittenInv, EndedWell, IsOutput

\* Whatever leaves the command alone.
LEMMA AloneWritten ==
    ASSUME WrittenInv, UNCHANGED cliVars
    PROVE  WrittenInv'
<1>1. UNCHANGED <<input, args, pc, status, meta, pos, count, enc, disk, pend, faulty>>
  BY DEF cliVars
<1>2. MetaOk' = MetaOk /\ ToDbn' = ToDbn /\ TheMeta' = TheMeta /\ IsFragment' = IsFragment
      /\ ts_out' = ts_out
  BY <1>1, SameFile
<1> QED BY <1>1, <1>2 DEF WrittenInv, EndedWell, IsOutput

\* Once the process is gone.
LEMMA GoneWritten ==
    ASSUME pc' \in {"left", "refused"}
    PROVE  WrittenInv'
BY DEF WrittenInv, EndedWell

\* Every step keeps what the command has written.
LEMMA WrittenKept ==
    ASSUME CliInv, WrittenInv, [Next]_vars
    PROVE  WrittenInv'
<1>1. ASSUME OpenFails PROVE WrittenInv'
  BY <1>1, FailedWritten DEF OpenFails, Exit
<1>2. ASSUME DecodeFails PROVE WrittenInv'
  BY <1>2, FailedWritten DEF DecodeFails, Exit
<1>3. ASSUME Cli PROVE WrittenInv'
  <2>1. ASSUME OpenInput PROVE WrittenInv'
    BY <2>1, OpenWritten
  <2>2. ASSUME OutputExists \/ NotInferred \/ EncodeMetadata PROVE WrittenInv'
    BY <2>2, OutputWritten
  <2>3. ASSUME Build PROVE WrittenInv'
    BY <2>3, BuildWritten
  <2>4. ASSUME EncodeNext PROVE WrittenInv'
    BY <2>4, EncodeNextWritten
  <2>5. ASSUME Spill PROVE WrittenInv'
    BY <2>5, SpillWritten
  <2>6. ASSUME Finish PROVE WrittenInv'
    BY <2>6, FinishWritten
  <2>7. ASSUME SinkFails PROVE WrittenInv'
    BY <2>7, SinkFailsWritten
  <2> QED BY <1>1, <1>2, <1>3, <2>1, <2>2, <2>3, <2>4, <2>5, <2>6, <2>7 DEF Cli, CliNext
<1>4. ASSUME Leave PROVE WrittenInv'
  BY <1>4, GoneWritten DEF Leave
<1>5. ASSUME Transcode PROVE WrittenInv'
  BY <1>5, AloneWritten DEF Transcode, cliVars
<1>6. ASSUME NEW u \in Updates, UpdateEncodedMetadata(u) PROVE WrittenInv'
  BY <1>6, GoneWritten DEF UpdateEncodedMetadata
<1>7. ASSUME NEW o \in Options, StartTranscoder(o) PROVE WrittenInv'
  <2>1. pc' \in {"left", "refused"}
    BY <1>7 DEF StartTranscoder
  <2> QED BY <2>1, GoneWritten
<1>8. ASSUME UNCHANGED vars PROVE WrittenInv'
  BY <1>8, AloneWritten DEF vars, cliVars
<1> QED BY <1>3, <1>4, <1>5, <1>6, <1>7, <1>8 DEF Next

\* The command starts without a file.
LEMMA WrittenInitially == Init => WrittenInv
<1> SUFFICES ASSUME Init PROVE WrittenInv
  OBVIOUS
<1>1. pc = "open"
  BY DEF Init, CliInit
<1> QED BY <1>1 DEF WrittenInv, EndedWell

-----------------------------------------------------------------------------
(* The calls of a Transcoder. *)

IsTc(t) ==
  DOMAIN t = {"opts", "map_symbols", "map", "schema", "version", "ts_out", "out", "held", "fed",
              "done", "lost", "res", "failed"}

\* A transcoder that has consumed as much.
Same(x, t) ==
  /\ IsTc(x) /\ x.opts = t.opts /\ x.fed = t.fed /\ x.done = t.done /\ x.ts_out = t.ts_out
  /\ x.held = t.held /\ x.lost = t.lost

\* Assigning to a field of a transcoder: its result,
LEMMA TcResult ==
    ASSUME NEW t, IsTc(t), NEW a
    PROVE  LET x == [t EXCEPT !.res = a]
           IN  Same(x, t) /\ x.out = t.out /\ x.res = a /\ x.failed = t.failed
BY DEF IsTc, Same

\* its symbol map,
LEMMA TcMap ==
    ASSUME NEW t, IsTc(t), NEW a
    PROVE  LET x == [t EXCEPT !.map = a]
           IN  Same(x, t) /\ x.out = t.out /\ x.res = t.res /\ x.failed = t.failed
BY DEF IsTc, Same

\* its schema,
LEMMA TcSchema ==
    ASSUME NEW t, IsTc(t), NEW a
    PROVE  LET x == [t EXCEPT !.schema = a]
           IN  Same(x, t) /\ x.out = t.out /\ x.res = t.res /\ x.failed = t.failed
BY DEF IsTc, Same

\* and how many pieces it was given.
LEMMA TcFed ==
    ASSUME NEW t, IsTc(t), NEW a
    PROVE  LET x == [t EXCEPT !.fed = a]
           IN  /\ IsTc(x) /\ x.opts = t.opts /\ x.fed = a /\ x.done = t.done
               /\ x.out = t.out /\ x.res = t.res /\ x.failed = t.failed
               /\ x.held = t.held /\ x.lost = t.lost
               /\ x.schema = t.schema /\ x.ts_out = t.ts_out
               /\ x.map_symbols = t.map_symbols /\ x.map = t.map
BY DEF IsTc

\* A call that fails has consumed no more.
LEMMA FailingSame ==
    ASSUME NEW t, IsTc(t)
    PROVE  /\ Same(Failing(t), t) /\ Failing(t).res = "err" /\ Failing(t).failed = TRUE
           /\ Failing(t).out = t.out
<1> DEFINE b == TRUE
           r == "err"
           x == [t EXCEPT !.res = r, !.failed = b]
<1>1. Failing(t) = x
  BY DEF Failing
<1> HIDE DEF b, r
<1>2. Same(x, t) /\ x.res = r /\ x.failed = b /\ x.out = t.out
  BY DEF IsTc, Same
<1> HIDE DEF x
<1> QED BY <1>1, <1>2 DEF b, r

\* Writing consumes no more.
LEMMA WrittenSame ==
    ASSUME NEW t, IsTc(t), NEW e
    PROVE  /\ Same(Written(t, e), t) /\ Written(t, e).res = e.res /\ Written(t, e).out = e.out
           /\ Written(t, e).failed = (t.failed \/ e.res = "err")
<1> DEFINE f == t.failed \/ e.res = "err"
           o == e.out
           r == e.res
           x == [t EXCEPT !.out = o, !.res = r, !.failed = f]
<1>1. Written(t, e) = x
  BY DEF Written
<1> HIDE DEF f, o, r
<1>2. Same(x, t) /\ x.out = o /\ x.res = r /\ x.failed = f
  BY DEF IsTc, Same
<1> HIDE DEF x
<1> QED BY <1>1, <1>2 DEF f, o, r

\* The same goes for a header, and what is taken from the metadata.
LEMMA HeaderSame ==
    ASSUME NEW t, IsTc(t)
    PROVE  Same(encode_header_if_csv(t), t)
<1>1. Same(t, t)
  BY DEF Same
<1>2. Same(Failing(t), t)
  BY FailingSame
<1>3. \A e : Same(Written(t, e), t)
  BY WrittenSame
<1> QED BY <1>1, <1>2, <1>3 DEF encode_header_if_csv

\* Same is transitive.
LEMMA SameAs ==
    ASSUME NEW x, NEW y, NEW z, Same(x, y), Same(y, z)
    PROVE  Same(x, z)
BY DEF Same

\* Metadata, once it is read.
LEMMA MetadataSame ==
    ASSUME NEW t, IsTc(t), NEW m
    PROVE  /\ Same(encode_metadata(t, m), t)
           /\ t.opts.encoding = "Dbn" =>
                LET x == encode_metadata(t, m)
                IN  /\ x.out = t.out \o encode(m).bytes
                    /\ x.res = IF encode(m).ok THEN "ok" ELSE "err"
                    /\ x.failed = (t.failed \/ ~encode(m).ok)
<1> DEFINE s == WithSchema(t, m)
           w == WithMap(s, m)
           e == MetadataEncoder(t.out, encode(m))
<1>1. Same(s, t) /\ s.failed = t.failed
  <2> DEFINE a == IF t.schema = "None" THEN m.schema ELSE t.schema
  <2>1. s = [t EXCEPT !.schema = a]
    BY DEF WithSchema
  <2> HIDE DEF a
  <2> QED BY <2>1, TcSchema
<1>2. IsTc(s)
  BY <1>1 DEF Same
<1>3. s.out = t.out
  <2> DEFINE a == IF t.schema = "None" THEN m.schema ELSE t.schema
  <2>1. s = [t EXCEPT !.schema = a]
    BY DEF WithSchema
  <2> HIDE DEF a
  <2> QED BY <2>1, TcSchema
<1> HIDE DEF s
<1>4. Same(w, s)
  <2>1. Same(s, s)
    BY <1>2 DEF Same
  <2>2. \A a : Same([s EXCEPT !.map = a], s)
    BY <1>2, TcMap
  <2>3. Same(Failing(s), s)
    BY <1>2, FailingSame
  <2> QED BY <2>1, <2>2, <2>3 DEF WithMap
<1>5. IsTc(w)
  BY <1>4 DEF Same
<1> HIDE DEF w
<1>6. Same(HeaderUnlessFailed(w), w)
  <2>1. Same(w, w)
    BY <1>5 DEF Same
  <2>2. Same(encode_header_if_csv(w), w)
    BY <1>5, HeaderSame
  <2> QED BY <2>1, <2>2 DEF HeaderUnlessFailed
<1>7. Same(HeaderUnlessFailed(w), t)
  <2>1. Same(w, t)
    BY <1>1, <1>4, SameAs
  <2> QED BY <1>6, <2>1, SameAs
<1>8. Same(Written(s, e), t)
  <2>1. Same(Written(s, e), s)
    BY <1>2, WrittenSame
  <2> QED BY <1>1, <2>1, SameAs
<1>9. encode_metadata(t, m) = IF t.opts.encoding = "Dbn" THEN Written(s, e)
                              ELSE HeaderUnlessFailed(w)
  BY DEF encode_metadata, s, w
<1>10. Same(encode_metadata(t, m), t)
  BY <1>7, <1>8, <1>9
<1>11. e.out = t.out \o encode(m).bytes /\ e.res = IF encode(m).ok THEN "ok" ELSE "err"
  <2> DEFINE b == t.out \o encode(m).bytes
             r == IF encode(m).ok THEN "ok" ELSE "err"
             d == Encoder("Dbn", b)
  <2>1. e = [d EXCEPT !.res = r]
    BY DEF MetadataEncoder, Stopped
  <2>2. IsEncoder(d) /\ d.out = b
    BY DEF IsEncoder, Encoder
  <2> HIDE DEF b, r, d
  <2>3. [d EXCEPT !.res = r].out = b /\ [d EXCEPT !.res = r].res = r
    BY <2>2, EncoderFields
  <2> QED BY <2>1, <2>3 DEF b, r
<1>12. Written(s, e).out = e.out /\ Written(s, e).res = e.res
       /\ Written(s, e).failed = (s.failed \/ e.res = "err")
  BY <1>2, WrittenSame
<1> HIDE DEF e
<1> QED BY <1>1, <1>9, <1>10, <1>11, <1>12

\* A turn consumes one item, or none when it fails.
StepOf(x, t) ==
  /\ IsTc(x) /\ x.opts = t.opts /\ x.fed = t.fed
  /\ x.done = t.done \/ x.done = t.done + 1
  /\ x.res = "ok" => x.done = t.done + 1

\* The turn that reads the metadata.
LEMMA MetadataStep ==
    ASSUME NEW t, IsTc(t), t.done \in Nat, NEW chunks
    PROVE  LET x    == process_metadata(t, chunks)
               read == decode_after_prelude(chunks[2].v, chunks)
               m    == upgrade(read.meta, t.opts.upgrade_policy)
           IN  /\ StepOf(x, t) /\ x.held = t.held /\ x.lost = t.lost
               /\ x.done = t.done => x.failed /\ x.out = t.out
               /\ t.opts.encoding = "Dbn" /\ x.done # t.done =>
                    /\ read.ok /\ x.done = t.done + 1
                    /\ x.out = t.out \o encode(m).bytes
                    /\ x.failed = (t.failed \/ ~encode(m).ok)
<1> DEFINE x == process_metadata(t, chunks)
           v == chunks[2].v
           read == decode_after_prelude(v, chunks)
           ts == read.meta.ts_out
           m == upgrade(read.meta, t.opts.upgrade_policy)
           d == t.done + 1
           y == [t EXCEPT !.version = v, !.ts_out = ts, !.done = d]
           z == encode_metadata(y, m)
           bad == PreludeRefused(chunks, t.opts.upgrade_policy) \/ ~read.ok
<1>1. x = IF bad THEN Failing(t) ELSE z
  BY DEF process_metadata, MetadataRead
<1>2. /\ IsTc(y) /\ y.opts = t.opts /\ y.fed = t.fed /\ y.done = d
      /\ y.out = t.out /\ y.failed = t.failed /\ y.held = t.held /\ y.lost = t.lost
  <2> HIDE DEF v, ts, d
  <2> QED BY DEF IsTc
<1> HIDE DEF y
<1>3. /\ Same(z, y)
      /\ y.opts.encoding = "Dbn" =>
           /\ z.out = y.out \o encode(m).bytes
           /\ z.failed = (y.failed \/ ~encode(m).ok)
  <2> HIDE DEF m
  <2> QED BY <1>2, MetadataSame
<1>4. /\ IsTc(z) /\ z.opts = t.opts /\ z.fed = t.fed /\ z.done = d
      /\ z.held = t.held /\ z.lost = t.lost
      /\ t.opts.encoding = "Dbn" =>
           /\ z.out = t.out \o encode(m).bytes
           /\ z.failed = (t.failed \/ ~encode(m).ok)
  <2> HIDE DEF z, m
  <2> QED BY <1>2, <1>3 DEF Same
<1>5. /\ Same(Failing(t), t) /\ Failing(t).res = "err" /\ Failing(t).failed = TRUE
      /\ Failing(t).out = t.out
  BY FailingSame
<1>6. bad => x = Failing(t)
  BY <1>1
<1>7. ~bad => x = z /\ read.ok
  BY <1>1
<1> HIDE DEF x, z, bad, m, read
<1>8. ASSUME bad
      PROVE  /\ StepOf(x, t) /\ x.done = t.done /\ x.failed /\ x.out = t.out
             /\ x.held = t.held /\ x.lost = t.lost
  BY <1>5, <1>6, <1>8 DEF StepOf, Same
<1>9. ASSUME ~bad, x.done = t.done
      PROVE  FALSE
  <2>1. t.done = t.done + 1
    BY <1>4, <1>7, <1>9 DEF d
  <2> QED BY <2>1
<1>10. ASSUME ~bad
       PROVE  /\ StepOf(x, t) /\ read.ok /\ x.done = t.done + 1
              /\ x.held = t.held /\ x.lost = t.lost
              /\ t.opts.encoding = "Dbn" =>
                   /\ x.out = t.out \o encode(m).bytes
                   /\ x.failed = (t.failed \/ ~encode(m).ok)
  BY <1>4, <1>7, <1>10 DEF StepOf, d
<1> QED BY <1>8, <1>9, <1>10 DEF x, read, m, v

\* What keeps the schema, and does not forget a failure.
Kept(x, t) == x.opts = t.opts /\ x.schema = t.schema /\ (t.failed => x.failed)

\* The steps of an encoding are such.
LEMMA KeptSteps ==
    ASSUME NEW t, IsTc(t)
    PROVE  /\ Kept(t, t) /\ Kept(Failing(t), t) /\ Kept(encode_header_if_csv(t), t)
           /\ \A e : Kept(Written(t, e), t)
           /\ \A a : Kept([t EXCEPT !.map = a], t)
           /\ \A a : Kept([t EXCEPT !.res = a], t)
<1>1. Kept(t, t) /\ (\A a : Kept([t EXCEPT !.map = a], t))
      /\ (\A a : Kept([t EXCEPT !.res = a], t))
  BY DEF Kept, IsTc
<1>2. Kept(Failing(t), t)
  <2> DEFINE b == TRUE
             r == "err"
             x == [t EXCEPT !.res = r, !.failed = b]
  <2>1. Failing(t) = x
    BY DEF Failing
  <2> HIDE DEF b, r
  <2>2. x.opts = t.opts /\ x.schema = t.schema /\ x.failed = b
    BY DEF IsTc
  <2> HIDE DEF x
  <2> QED BY <2>1, <2>2 DEF Kept, b
<1>3. ASSUME NEW e PROVE Kept(Written(t, e), t)
  <2> DEFINE f == t.failed \/ e.res = "err"
             o == e.out
             r == e.res
             x == [t EXCEPT !.out = o, !.res = r, !.failed = f]
  <2>1. Written(t, e) = x
    BY DEF Written
  <2> HIDE DEF f, o, r
  <2>2. x.opts = t.opts /\ x.schema = t.schema /\ x.failed = f
    BY DEF IsTc
  <2> HIDE DEF x
  <2>3. t.failed => f
    BY DEF f
  <2> QED BY <2>1, <2>2, <2>3 DEF Kept
<1>4. Kept(encode_header_if_csv(t), t)
  BY <1>1, <1>2, <1>3 DEF encode_header_if_csv
<1> QED BY <1>1, <1>2, <1>3, <1>4

\* One after the other.
LEMMA KeptAs ==
    ASSUME NEW x, NEW y, NEW z, Kept(x, y), Kept(y, z)
    PROVE  Kept(x, z)
BY DEF Kept

\* At most one line that is no row.
AddsLine(out, before) ==
  out = before \/ \E h : h.k \in {"header", "partial"} /\ out = Append(before, h)

\* On its own it makes no row.
LEMMA LineAdded ==
    ASSUME NEW out, AddsLine(out, <<>>)
    PROVE  IsSeq(out) /\ Rows(out) = {}
<1>1. IsSeq(<<>>) /\ Rows(<<>>) = {}
  BY NothingWritten DEF NoRows
<1>2. ASSUME NEW h, h.k \in {"header", "partial"} PROVE IsSeq(<<h>>) /\ Rows(<<h>>) = {}
  <2>1. <<h>> \in Seq({h}) /\ DOMAIN <<h>> = {1} /\ <<h>>[1] = h
    OBVIOUS
  <2>2. ~HasRow(h)
    BY <1>2 DEF HasRow
  <2> QED BY <2>1, <2>2, SeqIsSeq DEF Rows
<1>3. CASE out = <<>>
  BY <1>1, <1>3
<1>4. CASE out # <<>>
  <2>1. PICK h : h.k \in {"header", "partial"} /\ out = Append(<<>>, h)
    BY <1>4 DEF AddsLine
  <2>2. out = <<h>>
    BY <2>1, AppendShort
  <2> QED BY <1>2, <2>1, <2>2
<1> QED BY <1>3, <1>4

\* A header is such.
LEMMA HeaderLine ==
    ASSUME NEW t, IsTc(t), t.res = "ok"
    PROVE  LET x == encode_header_if_csv(t)
           IN  x.res \in {"ok", "err"} /\ x.schema = t.schema /\ AddsLine(x.out, t.out)
<1> DEFINE x == encode_header_if_csv(t)
           k == Encoder("Csv", t.out)
           ty == HeaderType(VU!OutputVersion(t.opts.upgrade_policy, t.version), t.schema)
           e == encode_header(k, ty, t.ts_out, Symbol(t))
<1>1. x \in {t, Failing(t), Written(t, e)}
  BY Zenon DEF encode_header_if_csv, encode_header_for_schema
<1>2. /\ Failing(t).res = "err" /\ Failing(t).out = t.out
      /\ Written(t, e).res = e.res /\ Written(t, e).out = e.out
  <2>1. Failing(t).res = "err" /\ Failing(t).out = t.out
    BY FailingSame
  <2> HIDE DEF e
  <2>2. Written(t, e).res = e.res /\ Written(t, e).out = e.out
    BY WrittenSame
  <2> QED BY <2>1, <2>2
<1>3. IsEncoder(k) /\ k.out = t.out /\ k.res = "ok"
  BY DEF IsEncoder, Encoder
<1>4. \A a, b, c, d : Line(a, b, c, 0, d).k = a
  BY DEF Line
<1>5. e.res \in {"ok", "err"} /\ AddsLine(e.out, t.out)
  <2> HIDE DEF k, ty
  <2> DEFINE sym == Symbol(t)
             ts == t.ts_out
  <2>1. \/ e.res = "ok" /\ e.out = Append(t.out, Line("header", ty, ts, 0, sym))
        \/ e.res = "err" /\ e.out = Append(t.out, Line("partial", ty, ts, 0, sym))
    BY <1>3, EncodeHeaderShape
  <2> HIDE DEF e, sym, ts
  <2> QED BY <1>4, <2>1 DEF AddsLine
<1>6. x.schema = t.schema
  BY KeptSteps DEF Kept
<1> HIDE DEF e, x
<1>7. x.res \in {"ok", "err"} /\ AddsLine(x.out, t.out)
  BY <1>1, <1>2, <1>5 DEF AddsLine
<1> QED BY <1>6, <1>7 DEF x

\* So is what is written to text when the metadata is read, and nothing panics then.
LEMMA MetadataAddsLine ==
    ASSUME NEW t, IsTc(t), t.res = "ok", NEW m
    PROVE  LET x == encode_metadata(t, m)
           IN  /\ x.res \in {"ok", "err"} /\ x.schema \in {t.schema, m.schema}
               /\ t.opts.encoding # "Dbn" => AddsLine(x.out, t.out)
<1> DEFINE a == IF t.schema = "None" THEN m.schema ELSE t.schema
           s == [t EXCEPT !.schema = a]
           w == WithMap(s, m)
           e == MetadataEncoder(t.out, encode(m))
           x == encode_metadata(t, m)
<1>1. x = IF t.opts.encoding = "Dbn" THEN Written(s, e) ELSE HeaderUnlessFailed(w)
  BY DEF encode_metadata, WithSchema
<1>2. a \in {t.schema, m.schema}
  OBVIOUS
<1> HIDE DEF a
<1>3. IsTc(s) /\ s.schema = a /\ s.res = "ok" /\ s.out = t.out
  BY DEF IsTc
<1> HIDE DEF s
<1>4. IsTc(w) /\ w.schema = a /\ w.res \in {"ok", "err"} /\ w.out = t.out
  <2>1. ASSUME NEW b
        PROVE  LET z == [s EXCEPT !.map = b]
               IN  IsTc(z) /\ z.schema = a /\ z.res = "ok" /\ z.out = t.out
    BY <1>3 DEF IsTc
  <2>2. /\ IsTc(Failing(s)) /\ Failing(s).schema = a /\ Failing(s).res = "err"
        /\ Failing(s).out = t.out
    BY <1>3, FailingSame, KeptSteps DEF Same, Kept
  <2>3. w = s \/ w = Failing(s) \/ \E b : w = [s EXCEPT !.map = b]
    BY DEF WithMap
  <2> HIDE DEF w
  <2> QED BY <1>3, <2>1, <2>2, <2>3
<1> HIDE DEF w
<1>5. LET h == HeaderUnlessFailed(w)
      IN  h.res \in {"ok", "err"} /\ h.schema = a /\ AddsLine(h.out, t.out)
  <2>1. w.res = "ok" => LET h == encode_header_if_csv(w)
                        IN  h.res \in {"ok", "err"} /\ h.schema = a /\ AddsLine(h.out, t.out)
    BY <1>4, HeaderLine
  <2> QED BY <1>4, <2>1 DEF HeaderUnlessFailed, AddsLine
<1>6. Written(s, e).res \in {"ok", "err"} /\ Written(s, e).schema = a
  <2> DEFINE b == t.out \o encode(m).bytes
             r == IF encode(m).ok THEN "ok" ELSE "err"
             d == Encoder("Dbn", b)
  <2>1. e = [d EXCEPT !.res = r] /\ r \in {"ok", "err"}
    BY DEF MetadataEncoder, Stopped
  <2>2. IsEncoder(d)
    BY DEF IsEncoder, Encoder
  <2> HIDE DEF b, r, d, e
  <2>3. [d EXCEPT !.res = r].res = r
    BY <2>2, EncoderFields
  <2>4. Written(s, e).res = e.res /\ Kept(Written(s, e), s)
    BY <1>3, WrittenSame, KeptSteps
  <2> QED BY <1>3, <2>1, <2>3, <2>4 DEF Kept
<1> HIDE DEF x, e
<1>7. x.res \in {"ok", "err"} /\ x.schema = a
      /\ (t.opts.encoding # "Dbn" => AddsLine(x.out, t.out))
  BY <1>1, <1>5, <1>6
<1> QED BY <1>2, <1>7 DEF x

\* What the turn that reads the metadata learns from it.
LEMMA MetadataTurn ==
    ASSUME NEW t, IsTc(t), t.res = "ok", t.done \in Nat, NEW chunks
    PROVE  LET x    == process_metadata(t, chunks)
               read == decode_after_prelude(chunks[2].v, chunks)
               m    == upgrade(read.meta, t.opts.upgrade_policy)
           IN  /\ x.res \in {"ok", "err"}
               /\ x.done = t.done => x.schema = t.schema /\ x.ts_out = t.ts_out
               /\ x.done # t.done =>
                    /\ x.ts_out = read.meta.ts_out /\ x.schema \in {t.schema, m.schema}
                    /\ t.opts.encoding # "Dbn" => AddsLine(x.out, t.out)
<1> DEFINE x == process_metadata(t, chunks)
           v == chunks[2].v
           read == decode_after_prelude(v, chunks)
           ts == read.meta.ts_out
           m == upgrade(read.meta, t.opts.upgrade_policy)
           d == t.done + 1
           y == [t EXCEPT !.version = v, !.ts_out = ts, !.done = d]
           z == encode_metadata(y, m)
<1>1. x = Failing(t) \/ x = z
  BY DEF process_metadata, MetadataRead
<1>2. /\ IsTc(y) /\ y.opts = t.opts /\ y.done = d /\ y.ts_out = ts
      /\ y.out = t.out /\ y.schema = t.schema /\ y.res = "ok"
  <2> HIDE DEF v, ts, d
  <2> QED BY DEF IsTc
<1> HIDE DEF y
<1>3. /\ Same(z, y) /\ z.res \in {"ok", "err"} /\ z.schema \in {y.schema, m.schema}
      /\ y.opts.encoding # "Dbn" => AddsLine(z.out, y.out)
  <2> HIDE DEF m
  <2> QED BY <1>2, MetadataSame, MetadataAddsLine
<1>4. z.done = t.done + 1 /\ z.done # t.done /\ z.ts_out = ts
  <2> HIDE DEF z, ts
  <2>1. z.done = t.done + 1 /\ z.ts_out = ts
    BY <1>2, <1>3 DEF Same, d
  <2> QED BY <2>1
<1>5. /\ Same(Failing(t), t) /\ Failing(t).res = "err" /\ Failing(t).schema = t.schema
  BY FailingSame, KeptSteps DEF Kept
<1> HIDE DEF x, z, m, ts, d
<1>6. CASE x = Failing(t)
  BY <1>5, <1>6 DEF Same, x, m
<1>7. CASE x = z
  BY <1>2, <1>3, <1>4, <1>7 DEF x, m, ts
<1> QED BY <1>1, <1>6, <1>7

\* Rows and objects consume no more.
LEMMA TextSame ==
    ASSUME NEW t, IsTc(t), NEW r
    PROVE  Same(encode_csv(t, r), t) /\ Same(encode_json(t, r), t)
<1> DEFINE s == OnRecord(t, r)
<1>1. Same(s, t)
  <2> DEFINE a == update_live(t.map, r)
  <2>1. s = IF t.map_symbols THEN [t EXCEPT !.map = a] ELSE t
    BY DEF OnRecord
  <2> HIDE DEF a
  <2>2. Same([t EXCEPT !.map = a], t)
    BY TcMap
  <2>3. Same(t, t)
    BY DEF Same
  <2> QED BY <2>1, <2>2, <2>3
<1>2. IsTc(s)
  BY <1>1 DEF Same
<1> HIDE DEF s
<1>3. \A k : Same(encode_text(s, k, r), s)
  <2>1. \A e : Same(Written(s, e), s)
    BY <1>2, WrittenSame
  <2> QED BY <2>1 DEF encode_text
<1>4. Same(IfOfSchema(s, r), s)
  <2>1. Same(s, s)
    BY <1>2 DEF Same
  <2>2. Same([s EXCEPT !.res = "panic"], s)
    BY <1>2, TcResult
  <2> QED BY <1>3, <2>1, <2>2 DEF IfOfSchema
<1>5. Same(IfOfSchema(s, r), t) /\ Same(encode_text(s, "Json", r), t)
  BY <1>1, <1>3, <1>4, SameAs
<1> QED BY <1>5 DEF encode_csv, encode_json, s

\* A turn that takes a record.
LEMMA RecordStep ==
    ASSUME NEW t, IsTc(t), NEW r
    PROVE  LET x == process_record(t, r)
               u == UpgradeOf(r, t.version, t.opts.upgrade_policy)
           IN  /\ IsTc(x) /\ x.opts = t.opts /\ x.fed = t.fed /\ x.done = t.done + 1
               /\ x.ts_out = t.ts_out /\ x.held = t.held /\ x.lost = t.lost
               /\ t.opts.encoding = "Dbn" =>
                    /\ x.out = Append(t.out, RecordChunk(UpgradedBy(u, r, t.ts_out)))
                    /\ x.res = "ok" /\ (t.failed => x.failed)
<1> DEFINE u == UpgradeOf(r, t.version, t.opts.upgrade_policy)
           q == UpgradedBy(u, r, t.ts_out)
           d == t.done + 1
           v == u.version
           y == [t EXCEPT !.done = d, !.version = v]
           e == dbn_encode_record(Encoder("Dbn", y.out), q)
           x == process_record(t, r)
<1>1. x = encode_upgraded(y, q)
  BY DEF process_record, process_upgraded
<1>2. /\ IsTc(y) /\ y.opts = t.opts /\ y.fed = t.fed /\ y.done = d
      /\ y.out = t.out /\ y.failed = t.failed /\ y.ts_out = t.ts_out
      /\ y.held = t.held /\ y.lost = t.lost
  <2> HIDE DEF v, d
  <2> QED BY DEF IsTc
<1> HIDE DEF y, q
<1>3. e.out = Append(y.out, RecordChunk(q)) /\ e.res = "ok"
  <2> DEFINE c == RecordChunk(q)
             o == y.out
             k == Encoder("Dbn", o)
  <2>1. IsEncoder(k) /\ k.out = o /\ k.res = "ok"
    BY DEF IsEncoder, Encoder
  <2>2. e = [k EXCEPT !.out = Append(k.out, c)]
    BY DEF dbn_encode_record, Put
  <2> HIDE DEF k, c, o
  <2>3. LET z == [k EXCEPT !.out = Append(k.out, c)]
        IN  z.out = Append(k.out, c) /\ z.res = k.res
    BY <2>1, EncoderFields
  <2> QED BY <2>1, <2>2, <2>3 DEF c, o
<1>4. /\ Same(Written(y, e), y) /\ Written(y, e).res = e.res /\ Written(y, e).out = e.out
      /\ Written(y, e).failed = (y.failed \/ e.res = "err")
  <2> HIDE DEF e
  <2> QED BY <1>2, WrittenSame
<1>5. Same(encode_csv(y, q), y) /\ Same(encode_json(y, q), y)
  BY <1>2, TextSame
<1>6. t.opts.encoding = "Dbn" => x = Written(y, e)
  BY <1>1, <1>2 DEF encode_upgraded
<1>7. x \in {Written(y, e), encode_csv(y, q), encode_json(y, q)}
  BY <1>1, <1>2 DEF encode_upgraded
<1> HIDE DEF e, x
<1>8. Same(x, y)
  BY <1>4, <1>5, <1>7
<1>9. /\ IsTc(x) /\ x.opts = t.opts /\ x.fed = t.fed /\ x.done = t.done + 1
      /\ x.ts_out = t.ts_out /\ x.held = t.held /\ x.lost = t.lost
  BY <1>2, <1>8 DEF Same, d
<1>10. ASSUME t.opts.encoding = "Dbn"
       PROVE  x.out = Append(t.out, RecordChunk(q)) /\ x.res = "ok" /\ (y.failed => x.failed)
  <2>1. x = Written(y, e)
    BY <1>6, <1>10
  <2>2. x.out = Append(t.out, RecordChunk(q)) /\ x.res = "ok"
    BY <1>2, <1>3, <1>4, <2>1
  <2>3. y.failed => x.failed
    BY <1>4, <2>1
  <2> QED BY <2>2, <2>3
<1> QED BY <1>2, <1>9, <1>10 DEF x, q

\* An encoder of text writes one row for a record of a type, and nothing for one of none.
LEMMA LineWritten ==
    ASSUME NEW kind \in {"Csv", "Json"}, NEW out, NEW ty, NEW r, NEW ts, NEW sym
    PROVE  LET e == encode_record(Encoder(kind, out), ty, r, ts, sym)
           IN  /\ ty = Err => e.res = "err" /\ e.out = out
               /\ ty = Panic => e.out = out
               /\ ty \notin {Err, Panic} =>
                    /\ e.res = "ok"
                    /\ \E c : /\ c.k \in {"row", "object"} /\ c.id = r.id /\ c.sym = sym
                            /\ e.out = Append(out, c)
<1> DEFINE k == Encoder(kind, out)
           e == encode_record(k, ty, r, ts, sym)
           a == Line("row", ty, ts, r.id, sym)
           b == Line("object", ty, ts, r.id, sym)
           n == Len(Columns(a))
<1>1. /\ IsEncoder(k) /\ k.kind = kind /\ k.out = out /\ k.res = "ok"
      /\ k.width = None /\ k.has_written_header = TRUE
  BY DEF IsEncoder, Encoder
<1>2. /\ a.k = "row" /\ a.id = r.id /\ a.sym = sym
      /\ b.k = "object" /\ b.id = r.id /\ b.sym = sym
  BY DEF Line
<1>3. csv_encode_record(k, ty, r, ts, sym) = [Put(k, a) EXCEPT !.width = n]
  BY <1>1 DEF csv_encode_record, UnlessStopped, end_line, end_line_of
<1> HIDE DEF k, a, b, n
<1>4. ASSUME NEW c PROVE IsEncoder(Put(k, c)) /\ Put(k, c).out = Append(out, c)
                         /\ Put(k, c).res = "ok"
  BY <1>1, EncoderFields DEF Put, IsEncoder
<1>5. LET z == [Put(k, a) EXCEPT !.width = n] IN z.out = Append(out, a) /\ z.res = "ok"
  <2> DEFINE p == Put(k, a)
  <2>1. IsEncoder(p) /\ p.out = Append(out, a) /\ p.res = "ok"
    BY <1>4
  <2> HIDE DEF p
  <2>2. LET z == [p EXCEPT !.width = n] IN z.out = p.out /\ z.res = p.res
    BY <2>1, EncoderFields
  <2> QED BY <2>1, <2>2 DEF p
<1>6. ASSUME ty = Err PROVE e.res = "err" /\ e.out = out
  <2>1. e = [k EXCEPT !.res = "err"]
    BY <1>6 DEF encode_record, Stopped
  <2>2. [k EXCEPT !.res = "err"].res = "err" /\ [k EXCEPT !.res = "err"].out = k.out
    BY <1>1, EncoderFields
  <2> QED BY <1>1, <2>1, <2>2
<1>7. ASSUME ty \notin {Err, Panic}
      PROVE  /\ e.res = "ok"
             /\ \E c : /\ c.k \in {"row", "object"} /\ c.id = r.id /\ c.sym = sym
                     /\ e.out = Append(out, c)
  <2>1. CASE kind = "Csv"
    <3>1. e = [Put(k, a) EXCEPT !.width = n]
      BY <1>1, <1>3, <1>7, <2>1 DEF encode_record
    <3>2. e.res = "ok" /\ e.out = Append(out, a)
      BY <1>5, <3>1
    <3> QED BY <1>2, <3>2
  <2>2. CASE kind = "Json"
    <3>1. e = Put(k, b)
      BY <1>1, <1>7, <2>2 DEF encode_record, json_encode_record, b
    <3>2. e.res = "ok" /\ e.out = Append(out, b)
      BY <1>4, <3>1
    <3> QED BY <1>2, <3>2
  <2> QED BY <2>1, <2>2
<1>8. ASSUME ty = Panic PROVE e.out = out
  <2>1. e \in {[k EXCEPT !.res = "err"], [k EXCEPT !.res = "panic"]}
    BY <1>8 DEF encode_record, Stopped
  <2>2. \A z : [k EXCEPT !.res = z].out = k.out
    BY <1>1, EncoderFields
  <2> QED BY <1>1, <2>1, <2>2
<1> QED BY <1>6, <1>7, <1>8 DEF k

\* The symbol that a Transcoder writes with a record.
SymbolWith(t, r) == IF t.map_symbols THEN get_for_rec(t.map, r) ELSE NoSymbol

\* The same goes for a Transcoder.
LEMMA TextWritten ==
    ASSUME NEW t, IsTc(t), NEW kind \in {"Csv", "Json"}, NEW r
    PROVE  LET x  == encode_text(t, kind, r)
               ty == rtype_dispatch(r, t.ts_out)
           IN  /\ ty = Err => x.res = "err" /\ x.out = t.out
               /\ ty = Panic => x.out = t.out
               /\ ty \notin {Err, Panic} =>
                    /\ x.res = "ok"
                    /\ \E c : /\ c.k \in {"row", "object"} /\ c.id = r.id
                            /\ c.sym = SymbolWith(t, r) /\ x.out = Append(t.out, c)
<1> DEFINE ty == rtype_dispatch(r, t.ts_out)
           sym == SymbolWith(t, r)
           e == encode_record(Encoder(kind, t.out), ty, r, t.ts_out, sym)
           x == encode_text(t, kind, r)
<1>1. x = Written(t, e)
  <2>1. Encoder(kind, t.out).kind # "Dbn"
    BY DEF Encoder
  <2>2. t.map_symbols => x = Written(t, e)
    BY DEF encode_text, encode_ref_ts_out_with_sym, SymbolWith
  <2>3. ~t.map_symbols => x = Written(t, e)
    BY <2>1 DEF encode_text, encode_record_ref_ts_out, SymbolWith
  <2> QED BY <2>2, <2>3
<1>2. /\ ty = Err => e.res = "err" /\ e.out = t.out
      /\ ty = Panic => e.out = t.out
      /\ ty \notin {Err, Panic} =>
           /\ e.res = "ok"
           /\ \E c : /\ c.k \in {"row", "object"} /\ c.id = r.id /\ c.sym = sym
                   /\ e.out = Append(t.out, c)
  <2> HIDE DEF ty, sym
  <2> QED BY LineWritten
<1> HIDE DEF e
<1>3. Written(t, e).res = e.res /\ Written(t, e).out = e.out
  BY WrittenSame
<1> HIDE DEF ty, x, sym
<1>4. /\ ty = Err => x.res = "err" /\ x.out = t.out
      /\ ty = Panic => x.out = t.out
      /\ ty \notin {Err, Panic} =>
           /\ x.res = "ok"
           /\ \E c : /\ c.k \in {"row", "object"} /\ c.id = r.id /\ c.sym = sym
                   /\ x.out = Append(t.out, c)
  BY <1>1, <1>2, <1>3
<1> QED BY <1>4 DEF ty, x, sym

\* Every schema has an rtype among the constants.
LEMMA SchemaRTypes == \A s \in DOMAIN Schema : RTypeOf(s) \in DOMAIN RTypeConsts
<1> DEFINE Has(s) == \E c \in DOMAIN RTypeConsts : RTypeConsts[c] = RTypeFromSchema[s]
<1>1. DOMAIN Schema = {"Mbo", "Mbp1", "Tbbo", "Mbp10", "Trades", "Ohlcv1S", "Ohlcv1M", "Ohlcv1H",
                       "Ohlcv1D",
      "OhlcvEod", "Definition", "Statistics", "Status", "Imbalance", "Cmbp1", "Cbbo1S",
      "Cbbo1M", "Tcbbo", "Bbo1S", "Bbo1M"}
  BY DEF Schema
<1>2. /\ "MBO" \in DOMAIN RTypeConsts /\ RTypeConsts["MBO"] = RTypeFromSchema["Mbo"]
      /\ "MBP_1" \in DOMAIN RTypeConsts /\ RTypeConsts["MBP_1"] = RTypeFromSchema["Mbp1"]
      /\ "MBP_1" \in DOMAIN RTypeConsts /\ RTypeConsts["MBP_1"] = RTypeFromSchema["Tbbo"]
      /\ "MBP_10" \in DOMAIN RTypeConsts /\ RTypeConsts["MBP_10"] = RTypeFromSchema["Mbp10"]
  BY DEF RTypeConsts, RTypeFromSchema
<1>3. Has("Mbo") /\ Has("Mbp1") /\ Has("Tbbo") /\ Has("Mbp10")
  BY <1>2
<1>4. /\ "MBP_0" \in DOMAIN RTypeConsts /\ RTypeConsts["MBP_0"] = RTypeFromSchema["Trades"]
      /\ "OHLCV_1S" \in DOMAIN RTypeConsts /\ RTypeConsts["OHLCV_1S"] = RTypeFromSchema["Ohlcv1S"]
      /\ "OHLCV_1M" \in DOMAIN RTypeConsts /\ RTypeConsts["OHLCV_1M"] = RTypeFromSchema["Ohlcv1M"]
      /\ "OHLCV_1H" \in DOMAIN RTypeConsts /\ RTypeConsts["OHLCV_1H"] = RTypeFromSchema["Ohlcv1H"]
  BY DEF RTypeConsts, RTypeFromSchema
<1>5. Has("Trades") /\ Has("Ohlcv1S") /\ Has("Ohlcv1M") /\ Has("Ohlcv1H")
  BY <1>4
<1>6. /\ "OHLCV_1D" \in DOMAIN RTypeConsts /\ RTypeConsts["OHLCV_1D"] = RTypeFromSchema["Ohlcv1D"]
      /\ "OHLCV_EOD" \in DOMAIN RTypeConsts
      /\ RTypeConsts["OHLCV_EOD"] = RTypeFromSchema["OhlcvEod"]
      /\ "INSTRUMENT_DEF" \in DOMAIN RTypeConsts
      /\ RTypeConsts["INSTRUMENT_DEF"] = RTypeFromSchema["Definition"]
      /\ "STATISTICS" \in DOMAIN RTypeConsts
      /\ RTypeConsts["STATISTICS"] = RTypeFromSchema["Statistics"]
  BY DEF RTypeConsts, RTypeFromSchema
<1>7. Has("Ohlcv1D") /\ Has("OhlcvEod") /\ Has("Definition") /\ Has("Statistics")
  BY <1>6
<1>8. /\ "STATUS" \in DOMAIN RTypeConsts /\ RTypeConsts["STATUS"] = RTypeFromSchema["Status"]
      /\ "IMBALANCE" \in DOMAIN RTypeConsts
      /\ RTypeConsts["IMBALANCE"] = RTypeFromSchema["Imbalance"]
      /\ "CMBP_1" \in DOMAIN RTypeConsts /\ RTypeConsts["CMBP_1"] = RTypeFromSchema["Cmbp1"]
      /\ "CBBO_1S" \in DOMAIN RTypeConsts /\ RTypeConsts["CBBO_1S"] = RTypeFromSchema["Cbbo1S"]
  BY DEF RTypeConsts, RTypeFromSchema
<1>9. Has("Status") /\ Has("Imbalance") /\ Has("Cmbp1") /\ Has("Cbbo1S")
  BY <1>8
<1>10. /\ "CBBO_1M" \in DOMAIN RTypeConsts /\ RTypeConsts["CBBO_1M"] = RTypeFromSchema["Cbbo1M"]
      /\ "TCBBO" \in DOMAIN RTypeConsts /\ RTypeConsts["TCBBO"] = RTypeFromSchema["Tcbbo"]
      /\ "BBO_1S" \in DOMAIN RTypeConsts /\ RTypeConsts["BBO_1S"] = RTypeFromSchema["Bbo1S"]
      /\ "BBO_1M" \in DOMAIN RTypeConsts /\ RTypeConsts["BBO_1M"] = RTypeFromSchema["Bbo1M"]
  BY DEF RTypeConsts, RTypeFromSchema
<1>11. Has("Cbbo1M") /\ Has("Tcbbo") /\ Has("Bbo1S") /\ Has("Bbo1M")
  BY <1>10
<1> HIDE DEF Has
<1>12. \A s \in DOMAIN Schema : Has(s)
  BY <1>1, <1>3, <1>5, <1>7, <1>9, <1>11
<1> QED BY <1>12 DEF Has, RTypeOf

\* The schemas and the rtypes have the same names wherever they are listed.
LEMMA SameNames ==
    DOMAIN schema_dispatch_base = DOMAIN Schema /\ DOMAIN RTypeConsts = DOMAIN DispatchTypes
<1>1. DOMAIN Schema = {"Mbo", "Mbp1", "Tbbo", "Mbp10", "Trades", "Ohlcv1S", "Ohlcv1M", "Ohlcv1H",
                       "Ohlcv1D",
      "OhlcvEod", "Definition", "Statistics", "Status", "Imbalance", "Cmbp1", "Cbbo1S",
      "Cbbo1M", "Tcbbo", "Bbo1S", "Bbo1M"}
  BY DEF Schema
<1>2. DOMAIN schema_dispatch_base = {"Mbo", "Mbp1", "Tbbo", "Mbp10", "Trades", "Ohlcv1S",
                                     "Ohlcv1M", "Ohlcv1H", "Ohlcv1D",
      "OhlcvEod", "Definition", "Statistics", "Status", "Imbalance", "Cmbp1", "Cbbo1S",
      "Cbbo1M", "Tcbbo", "Bbo1S", "Bbo1M"}
  BY DEF schema_dispatch_base
<1>3. DOMAIN RTypeConsts = {"MBP_0", "MBP_1", "MBP_10", "OHLCV_DEPRECATED", "OHLCV_1S",
                            "OHLCV_1M", "OHLCV_1H",
      "OHLCV_1D", "OHLCV_EOD", "STATUS", "INSTRUMENT_DEF", "IMBALANCE", "ERROR",
      "SYMBOL_MAPPING", "SYSTEM", "STATISTICS", "MBO", "CMBP_1", "CBBO_1S", "CBBO_1M",
      "TCBBO", "BBO_1S", "BBO_1M"}
  BY DEF RTypeConsts
<1>4. DOMAIN DispatchTypes = {"MBP_0", "MBP_1", "MBP_10", "OHLCV_DEPRECATED", "OHLCV_1S",
                              "OHLCV_1M", "OHLCV_1H",
      "OHLCV_1D", "OHLCV_EOD", "STATUS", "INSTRUMENT_DEF", "IMBALANCE", "ERROR",
      "SYMBOL_MAPPING", "SYSTEM", "STATISTICS", "MBO", "CMBP_1", "CBBO_1S", "CBBO_1M",
      "TCBBO", "BBO_1S", "BBO_1M"}
  BY DEF DispatchTypes
<1> QED BY <1>1, <1>2, <1>3, <1>4

Schemas == DOMAIN Schema \cup {"None"}

\* A turn of a Transcoder to text writes a row for a record that is wanted, and no row for
\* another; and it panics only for want of a schema.
LEMMA TextTurn ==
    ASSUME NEW t, IsTc(t), t.res = "ok", t.opts.encoding \in {"Csv", "Json"},
           t.schema \in Schemas, NEW r, NEW q, q.length \in Nat, WellSized(q, t.ts_out),
           q = UpgradedBy(UpgradeOf(r, t.version, t.opts.upgrade_policy), r, t.ts_out)
    PROVE  LET x == process_record(t, r)
           IN  /\ WantedBy(t, q) =>
                    \E c : /\ c.k \in {"row", "object"} /\ c.id = q.id
                          /\ x.out = Append(t.out, c)
               /\ ~WantedBy(t, q) => x.out = t.out
               /\ x.res = "panic" => t.opts.encoding = "Csv" /\ t.schema = "None"
<1> DEFINE u == UpgradeOf(r, t.version, t.opts.upgrade_policy)
           d == t.done + 1
           v == u.version
           y == [t EXCEPT !.done = d, !.version = v]
           a == update_live(y.map, q)
           s == IF y.map_symbols THEN [y EXCEPT !.map = a] ELSE y
           x == process_record(t, r)
           ty == rtype_dispatch(q, s.ts_out)
           row(z) == \E c : /\ c.k \in {"row", "object"} /\ c.id = q.id
                            /\ z.out = Append(t.out, c)
<1>1. x = encode_upgraded(y, q) /\ s = OnRecord(y, q)
  BY DEF process_record, process_upgraded, OnRecord
<1>2. /\ IsTc(y) /\ y.opts = t.opts /\ y.out = t.out /\ y.schema = t.schema
      /\ y.ts_out = t.ts_out /\ y.res = "ok"
  <2> HIDE DEF v, d
  <2> QED BY DEF IsTc
<1> HIDE DEF y, a
<1>3. /\ IsTc(s) /\ s.out = t.out /\ s.schema = t.schema /\ s.ts_out = t.ts_out
      /\ s.res = "ok"
  <2>1. LET z == [y EXCEPT !.map = a]
        IN  IsTc(z) /\ z.out = y.out /\ z.schema = y.schema /\ z.ts_out = y.ts_out
            /\ z.res = y.res
    BY <1>2 DEF IsTc
  <2> QED BY <1>2, <2>1
<1>4. x = IF t.opts.encoding = "Csv" THEN IfOfSchema(s, q) ELSE encode_text(s, "Json", q)
  BY <1>1, <1>2 DEF encode_upgraded, encode_csv, encode_json
<1> HIDE DEF s, x
<1>5. /\ q.rtype \in DOMAIN RTypeConsts => ty \notin {Err, Panic}
      /\ q.rtype \notin DOMAIN RTypeConsts => ty = Err
  BY <1>3, Dispatched, SameNames
<1>6. ASSUME NEW kind \in {"Csv", "Json"}
      PROVE  LET z == encode_text(s, kind, q)
             IN  /\ q.rtype \in DOMAIN RTypeConsts => z.res = "ok" /\ row(z)
                 /\ q.rtype \notin DOMAIN RTypeConsts => z.res = "err" /\ z.out = t.out
  BY <1>3, <1>5, TextWritten
<1> HIDE DEF ty
<1>7. CASE t.opts.encoding = "Json"
  <2>1. WantedBy(t, q) = (q.rtype \in DOMAIN RTypeConsts)
    BY <1>7 DEF WantedBy
  <2>2. x = encode_text(s, "Json", q)
    BY <1>4, <1>7
  <2> QED BY <1>6, <2>1, <2>2 DEF x
<1>8. CASE t.opts.encoding = "Csv"
  <2>1. WantedBy(t, q) = (t.schema # "None" /\ q.rtype = RTypeOf(t.schema))
    BY <1>8 DEF WantedBy
  <2>2. t.schema # "None" => RTypeOf(t.schema) \in DOMAIN RTypeConsts
    BY SchemaRTypes DEF Schemas
  <2>3. x = IfOfSchema(s, q)
    BY <1>4, <1>8
  <2>4. [s EXCEPT !.res = "panic"].out = t.out
    BY <1>3 DEF IsTc
  <2>5. CASE q.rtype \notin DOMAIN RTypeConsts
    <3>1. x = s /\ ~WantedBy(t, q)
      BY <2>1, <2>2, <2>3, <2>5 DEF IfOfSchema
    <3> QED BY <1>3, <3>1 DEF x
  <2>6. CASE q.rtype \in DOMAIN RTypeConsts /\ t.schema = "None"
    <3>1. x = [s EXCEPT !.res = "panic"] /\ ~WantedBy(t, q)
      BY <1>3, <2>1, <2>3, <2>6 DEF IfOfSchema
    <3> QED BY <1>8, <2>4, <2>6, <3>1 DEF x
  <2>7. CASE q.rtype \in DOMAIN RTypeConsts /\ t.schema # "None" /\ q.rtype # RTypeOf(t.schema)
    <3>1. x = s /\ ~WantedBy(t, q)
      BY <1>3, <2>1, <2>3, <2>7 DEF IfOfSchema
    <3> QED BY <1>3, <3>1 DEF x
  <2>8. CASE q.rtype \in DOMAIN RTypeConsts /\ t.schema # "None" /\ q.rtype = RTypeOf(t.schema)
    <3>1. x = encode_text(s, "Csv", q) /\ WantedBy(t, q)
      BY <1>3, <2>1, <2>3, <2>8 DEF IfOfSchema
    <3> QED BY <1>6, <2>8, <3>1 DEF x
  <2> QED BY <2>5, <2>6, <2>7, <2>8
<1> QED BY <1>7, <1>8

-----------------------------------------------------------------------------
(* What the output makes of a turn. *)

\* But for what was written, and how that ended, it is the turn.
Beside(y, x) ==
  /\ y.opts = x.opts /\ y.map_symbols = x.map_symbols /\ y.map = x.map /\ y.schema = x.schema
  /\ y.version = x.version /\ y.ts_out = x.ts_out /\ y.fed = x.fed /\ y.done = x.done

\* All of it was written, or a part.
HeldAfter(h, t, x) ==
  \/ h = 0
  \/ h = t.held + Added(t, x) /\ HasRoom(t, x)
  \/ h = 1 + ((t.held + Added(t, x) - 1) % BUF_CAPACITY)

AllWritten(y, t, x) ==
  /\ y.out = x.out /\ y.lost = x.lost /\ y.res = x.res /\ y.failed = x.failed
  /\ HeldAfter(y.held, t, x)

PartWritten(y, t, x) ==
  /\ ~HasRoom(t, x) /\ y.held = BUF_CAPACITY
  /\ y.out = SubSeq(x.out, 1, Len(t.out) + BUF_CAPACITY - t.held)
  /\ y.lost = x.lost \cup {x.done}
  /\ x.failed => y.failed
  /\ IF t.opts.encoding = "Csv" THEN y.res = x.res ELSE y.res = "err" /\ y.failed

\* There is nothing else that it does.
LEMMA OutputShape ==
    ASSUME NEW t, NEW x, IsTc(x), NEW fails
    PROVE  LET y == Output(t, x, fails)
           IN  IsTc(y) /\ Beside(y, x) /\ (AllWritten(y, t, x) \/ PartWritten(y, t, x))
<1> DEFINE y == Output(t, x, fails)
           c == Cut(t, x)
           part == SubSeq(x.out, 1, Len(t.out) + BUF_CAPACITY - t.held)
           more == x.lost \cup {x.done}
<1>1. ASSUME NEW h, HeldAfter(h, t, x)
      PROVE  LET z == [x EXCEPT !.held = h] IN IsTc(z) /\ Beside(z, x) /\ AllWritten(z, t, x)
  <2> DEFINE z == [x EXCEPT !.held = h]
  <2>1. /\ IsTc(z) /\ Beside(z, x) /\ z.held = h
        /\ z.out = x.out /\ z.lost = x.lost /\ z.res = x.res /\ z.failed = x.failed
    BY DEF IsTc, Beside
  <2> HIDE DEF z
  <2>2. AllWritten(z, t, x)
    BY <1>1, <2>1 DEF AllWritten
  <2> QED BY <2>1, <2>2 DEF z
<1>2. /\ IsTc(c) /\ Beside(c, x) /\ c.out = part /\ c.lost = more /\ c.held = BUF_CAPACITY
      /\ c.res = x.res /\ c.failed = x.failed
  <2>1. c = [x EXCEPT !.out = part, !.held = BUF_CAPACITY, !.lost = more]
    BY DEF Cut
  <2> HIDE DEF part, more, c
  <2> QED BY <2>1 DEF IsTc, Beside
<1> HIDE DEF c
<1>3. /\ IsTc(Failing(c)) /\ Beside(Failing(c), c) /\ Failing(c).out = part
      /\ Failing(c).lost = more /\ Failing(c).held = BUF_CAPACITY
      /\ Failing(c).res = "err" /\ Failing(c).failed = TRUE
  <2> DEFINE b == TRUE
             r == "err"
             z == [c EXCEPT !.res = r, !.failed = b]
  <2>1. Failing(c) = z
    BY DEF Failing
  <2> HIDE DEF b, r, part, more
  <2>2. IsTc(z) /\ Beside(z, c) /\ z.out = c.out /\ z.lost = c.lost /\ z.held = c.held
        /\ z.res = r /\ z.failed = b
    BY <1>2 DEF IsTc, Beside
  <2> HIDE DEF z
  <2> QED BY <1>2, <2>1, <2>2 DEF b, r
<1>4. CASE t.opts.encoding = "Csv"
  <2>1. \/ \E h : HeldAfter(h, t, x) /\ y = [x EXCEPT !.held = h]
        \/ ~HasRoom(t, x) /\ y = c
    BY <1>4 DEF Output, DropCsv, HeldAfter, c
  <2>2. ASSUME ~HasRoom(t, x), y = c PROVE PartWritten(y, t, x)
    <3> HIDE DEF y
    <3> QED BY <1>2, <1>4, <2>2 DEF PartWritten
  <2> HIDE DEF y
  <2> QED BY <1>1, <1>2, <2>1, <2>2 DEF y
<1>5. CASE t.opts.encoding # "Csv"
  <2>1. \/ \E h : HeldAfter(h, t, x) /\ y = [x EXCEPT !.held = h]
        \/ ~HasRoom(t, x) /\ y = Failing(c)
    BY <1>5 DEF Output, WriteAll, HeldAfter, c
  <2>2. ASSUME ~HasRoom(t, x), y = Failing(c) PROVE PartWritten(y, t, x)
    <3> HIDE DEF y
    <3> QED BY <1>3, <1>5, <2>2 DEF PartWritten
  <2>3. Beside(Failing(c), x)
    BY <1>2, <1>3 DEF Beside
  <2> HIDE DEF y
  <2> QED BY <1>1, <1>3, <2>1, <2>2, <2>3 DEF y
<1> QED BY <1>4, <1>5

\* A remainder is less than what it is divided by.
LEMMA Remainder ==
    ASSUME NEW n \in Nat \ {0}, NEW a \in Int
    PROVE  a % n \in 0..(n - 1)
OBVIOUS

\* The BufWriter holds no more than it can.
LEMMA OutputHeld ==
    ASSUME NEW t, NEW x, NEW y, AllWritten(y, t, x) \/ PartWritten(y, t, x),
           t.held \in 0..BUF_CAPACITY, Added(t, x) \in Nat
    PROVE  y.held \in 0..BUF_CAPACITY
<1> DEFINE a == Added(t, x)
           m == (t.held + a - 1) % BUF_CAPACITY
<1>1. BUF_CAPACITY \in Nat \ {0}
  BY TranscoderAssumption
<1> HIDE DEF a
<1>2. m \in 0..(BUF_CAPACITY - 1)
  <2>1. t.held + a - 1 \in Int
    BY DEF a
  <2> QED BY <1>1, <2>1, Remainder
<1>3. \/ y.held \in {0, BUF_CAPACITY, 1 + m}
      \/ y.held = t.held + a /\ t.held + a <= BUF_CAPACITY
  BY DEF AllWritten, PartWritten, HeldAfter, HasRoom, a
<1> HIDE DEF m
<1> QED BY <1>1, <1>2, <1>3 DEF a

\* Whichever item a turn is given.
LEMMA TurnStep ==
    ASSUME NEW t, IsTc(t), t.done \in Nat, NEW item, NEW fails
    PROVE  /\ t.res # "ok" => Turn(t, item, fails) = t
           /\ t.res = "ok" => StepOf(Turn(t, item, fails), t)
<1> DEFINE a == process_metadata(t, item.v)
           b == process_record(t, item.v)
           x == process(t, item)
           y == Output(t, x, fails)
<1>1. x = IF item.k = "metadata" THEN a ELSE b
  BY DEF process
<1>2. StepOf(a, t)
  BY MetadataStep
<1>3. StepOf(b, t)
  <2>1. IsTc(b) /\ b.opts = t.opts /\ b.fed = t.fed /\ b.done = t.done + 1
    BY RecordStep
  <2> HIDE DEF b
  <2> QED BY <2>1 DEF StepOf
<1> HIDE DEF a, b, x
<1>4. StepOf(x, t)
  BY <1>1, <1>2, <1>3
<1>5. IsTc(y) /\ Beside(y, x) /\ (AllWritten(y, t, x) \/ PartWritten(y, t, x))
  BY <1>4, OutputShape DEF StepOf
<1> HIDE DEF y
<1>6. StepOf(y, t)
  BY <1>4, <1>5 DEF StepOf, Beside, AllWritten, PartWritten
<1> QED BY <1>6 DEF Turn, x, y

-----------------------------------------------------------------------------
(* The loop of Inner::encode. *)

\* f is what the transcoder is after each turn, from the item after d on, when the file fails
\* at the items in F.
Runs(f, n, a, d, F) ==
  /\ f = [i \in 0..n |-> f[i]] /\ f[0] = a
  /\ \A i \in 1..n : f[i] = Turn(f[i - 1], stream[d + i], d + i \in F)

\* There are such turns, however many.
LEMMA RunsExist ==
    ASSUME NEW a, NEW d, NEW F
    PROVE  \A n \in Nat : \E f : Runs(f, n, a, d, F)
<1> DEFINE T == {n \in Nat : \E f : Runs(f, n, a, d, F)}
<1>1. 0 \in T
  <2> DEFINE f == [i \in 0..0 |-> a]
  <2>1. Runs(f, 0, a, d, F)
    BY DEF Runs
  <2> QED BY <2>1
<1>2. ASSUME NEW n \in Nat, n \in T PROVE n + 1 \in T
  <2>1. PICK f : Runs(f, n, a, d, F)
    BY <1>2
  <2> DEFINE last == Turn(f[n], stream[d + (n + 1)], d + (n + 1) \in F)
             g == [i \in 0..(n + 1) |-> IF i = n + 1 THEN last ELSE f[i]]
  <2>2. f[0] = a /\ \A i \in 1..n : f[i] = Turn(f[i - 1], stream[d + i], d + i \in F)
    BY <2>1 DEF Runs
  <2>3. g = [i \in 0..(n + 1) |-> g[i]] /\ g[0] = a
    BY <2>2
  <2>4. ASSUME NEW i \in 1..(n + 1) PROVE g[i] = Turn(g[i - 1], stream[d + i], d + i \in F)
    <3>1. CASE i = n + 1
      <4>1. g[i] = last /\ g[i - 1] = f[n]
        BY <3>1
      <4> QED BY <3>1, <4>1
    <3>2. CASE i # n + 1
      <4>1. i \in 1..n /\ i \in 0..(n + 1) /\ i - 1 \in 0..(n + 1) /\ i - 1 # n + 1
        BY <3>2
      <4>2. g[i] = f[i] /\ g[i - 1] = f[i - 1]
        BY <3>2, <4>1
      <4> HIDE DEF g
      <4> QED BY <2>2, <4>1, <4>2
    <3> QED BY <3>1, <3>2
  <2>5. Runs(g, n + 1, a, d, F)
    <3> HIDE DEF g
    <3> QED BY <2>3, <2>4 DEF Runs
  <2> HIDE DEF g
  <2> QED BY <2>5
<1> HIDE DEF T
<1>3. \A n \in Nat : n \in T
  BY <1>1, <1>2, SetInduction
<1> QED BY <1>3 DEF T

\* The loop is made of turns.
LEMMA LoopRuns ==
    ASSUME NEW t, NEW F, Complete(t.fed) - t.done \in Nat
    PROVE  \E f : /\ Runs(f, Complete(t.fed) - t.done, [t EXCEPT !.res = "ok"], t.done,
                          F)
                  /\ Inner_encode(t, F) = f[Complete(t.fed) - t.done]
<1> DEFINE n == Complete(t.fed) - t.done
           a == [t EXCEPT !.res = "ok"]
           d == t.done
           Eq(h) == h = [i \in 0..n |-> IF i = 0 THEN a
                                         ELSE Turn(h[i - 1], stream[d + i], d + i \in F)]
           G == CHOOSE h : Eq(h)
<1>1. Inner_encode(t, F) = G[n]
  BY DEF Inner_encode
<1> HIDE DEF n, a, d
<1>2. PICK g : Runs(g, n, a, d, F)
  BY RunsExist DEF n
<1>3. Eq(g)
  <2>1. /\ g = [i \in 0..n |-> g[i]] /\ g[0] = a
        /\ \A i \in 1..n : g[i] = Turn(g[i - 1], stream[d + i], d + i \in F)
    BY <1>2 DEF Runs
  <2>2. \A i \in 0..n : i = 0 \/ i \in 1..n
    BY DEF n
  <2>3. \A i \in 0..n : g[i] = IF i = 0 THEN a ELSE Turn(g[i - 1], stream[d + i], d + i \in F)
    BY <2>1, <2>2
  <2> QED BY <2>1, <2>3
<1>4. Eq(G)
  <2> HIDE DEF Eq
  <2> QED BY <1>3
<1> HIDE DEF G
<1>5. Runs(G, n, a, d, F)
  <2>1. G = [i \in 0..n |-> G[i]]
    BY <1>4
  <2>2. G[0] = a
    <3>1. 0 \in 0..n
      BY DEF n
    <3> QED BY <1>4, <3>1
  <2>3. \A i \in 1..n : i \in 0..n /\ i # 0
    BY DEF n
  <2>4. \A i \in 1..n : G[i] = Turn(G[i - 1], stream[d + i], d + i \in F)
    BY <1>4, <2>3
  <2> HIDE DEF Eq
  <2> QED BY <2>1, <2>2, <2>4 DEF Runs
<1> QED BY <1>1, <1>5 DEF n, a, d

-----------------------------------------------------------------------------
(* What a Transcoder writes of what the command left. *)

\* The rows are those of the items, one by one and in order.
Carries(rows, items) ==
  Len(rows) = Len(items) /\ \A n \in 1..Len(items) : RowId(rows[n]) = items[n].v.id

\* The output has a row for each of these items of the stream, in order, and no other.
Passed(out, I) == Carries(RowsOf(out), Selected(stream, I))

\* To DBN these are the records consumed that the output had room for; there is no metadata
\* until it was read, and then it is a file with that metadata upgraded.
Unlost(t) == (Pieces + 1 .. t.done) \ t.lost

Good(t) ==
  /\ IsSeq(t.out) /\ Passed(t.out, Unlost(t))
  /\ t.done < Pieces => t.out = <<>>
  /\ ~source.frag /\ t.done > 0 /\ ~t.failed =>
       IsFile(t.out, upgrade(told, t.opts.upgrade_policy))

\* To text they are those that are wanted, if all have the length of a layout.
Wanted(t) == {k \in Unlost(t) : WantedBy(t, stream[k].v)}

Rowed(t) ==
  WellSizedInputs => /\ IsSeq(t.out) /\ Passed(t.out, Wanted(t))
                     /\ t.done < Pieces => t.out = <<>>

\* What the transcoder is given: a file, or a fragment.
SourceTs   == IF source.frag THEN source.ts_out ELSE told.ts_out
FileLeft   == told \in Metadata /\ told.version # 0 /\ IsFile(disk, told)
SourceLeft == IF source.frag THEN AreRecs(disk, source.ts_out) ELSE FileLeft

\* The metadata is the first item of a file, and the records follow.
ItemAt(item, d) ==
  /\ d < Pieces => item = [k |-> "metadata", v |-> MetadataIn(disk)]
  /\ d >= Pieces => IsRecord(item, SourceTs)

\* What the transcoder knows of it.
Informed(t) ==
  /\ t.opts.encoding \in {"Dbn", "Csv", "Json"} /\ t.schema \in Schemas
  /\ t.done >= Pieces => t.ts_out = SourceTs

\* Appending is putting one more behind.
LEMMA AppendOne ==
    ASSUME NEW s, IsSeq(s), NEW c
    PROVE  Append(s, c) = s \o <<c>>
<1> DEFINE S == {s[i] : i \in DOMAIN s} \cup {c}
<1>1. s \in Seq(S) /\ c \in S
  BY SeqMonotonic DEF IsSeq
<1> HIDE DEF S
<1>2. /\ Append(s, c) \in Seq(S) /\ Len(Append(s, c)) = Len(s) + 1
      /\ \A i \in 1..Len(s) : Append(s, c)[i] = s[i]
      /\ Append(s, c)[Len(s) + 1] = c
  BY <1>1, AppendProperties
<1>3. /\ IsSeq(s \o <<c>>) /\ Len(s) \in Nat /\ Len(s \o <<c>>) = Len(s) + 1
      /\ \A i \in 1..Len(s) : (s \o <<c>>)[i] = s[i]
      /\ (s \o <<c>>)[Len(s) + 1] = c
  BY AddedOne
<1> DEFINE a == Append(s, c)
           b == s \o <<c>>
<1>4. IsSeq(a)
  BY <1>2, SeqIsSeq
<1> HIDE DEF a, b
<1>5. \A i \in 1..Len(a) : a[i] = b[i]
  <2>1. \A i \in 1..(Len(s) + 1) : i \in 1..Len(s) \/ i = Len(s) + 1
    BY <1>3
  <2> QED BY <1>2, <1>3, <2>1 DEF a, b
<1>6. Len(a) = Len(b) /\ IsSeq(b)
  BY <1>2, <1>3 DEF a, b
<1> QED BY <1>4, <1>5, <1>6, IsSeqEqual DEF a, b

\* No rows are those of no items.
LEMMA CarriesNone ==
    ASSUME NEW out, Rows(out) = {}, NEW s
    PROVE  Carries(RowsOf(out), Selected(s, {}))
<1>1. IsFiniteSet({}) /\ Cardinality({}) = 0 /\ {} \subseteq Nat
  BY FS_EmptySet
<1>2. \A x : Len(Selected(x, {})) = 0
  BY <1>1, SelectedSeq
<1>3. Len(Selected(out, {})) = 0 /\ Len(Selected(s, {})) = 0 /\ 1..0 = {}
  BY <1>2
<1> QED BY <1>3 DEF Carries, RowsOf

\* Before the first record there are no rows, and after the metadata there are none either.
LEMMA PassedNone ==
    ASSUME NEW out, Rows(out) = {}, NEW d \in Nat, d <= Pieces, NEW I, I \subseteq Pieces + 1 .. d
    PROVE  Passed(out, I)
<1>1. Pieces + 1 .. d = {}
  BY DEF Pieces
<1>2. I = {}
  BY <1>1
<1> QED BY <1>2, CarriesNone DEF Passed

\* A row and an item that belong together may be added.
LEMMA CarriesMore ==
    ASSUME NEW S, NEW rows \in Seq(S), NEW x \in S, NEW T, NEW items \in Seq(T), NEW y \in T,
           Carries(rows, items), RowId(x) = y.v.id
    PROVE  Carries(Append(rows, x), Append(items, y))
<1>1. /\ Len(Append(rows, x)) = Len(rows) + 1 /\ Len(Append(items, y)) = Len(items) + 1
      /\ \A n \in 1..Len(rows) : Append(rows, x)[n] = rows[n]
      /\ \A n \in 1..Len(items) : Append(items, y)[n] = items[n]
      /\ Append(rows, x)[Len(rows) + 1] = x /\ Append(items, y)[Len(items) + 1] = y
  BY AppendProperties
<1>2. Len(rows) = Len(items) /\ Len(items) \in Nat
  BY DEF Carries
<1>3. ASSUME NEW n \in 1..(Len(items) + 1)
      PROVE  RowId(Append(rows, x)[n]) = Append(items, y)[n].v.id
  <2>1. n \in 1..Len(items) \/ n = Len(items) + 1
    BY <1>2
  <2>2. CASE n \in 1..Len(items)
    BY <1>1, <1>2, <2>2 DEF Carries
  <2>3. CASE n = Len(items) + 1
    BY <1>1, <1>2, <2>3
  <2> QED BY <2>1, <2>2, <2>3
<1> QED BY <1>1, <1>2, <1>3 DEF Carries

\* So the row of the next item may be written.
LEMMA PassedMore ==
    ASSUME NEW out, IsSeq(out), NEW d \in Nat, NEW I, IsFiniteSet(I), I \subseteq Nat,
           \A i \in I : i < d + 1, Passed(out, I),
           NEW c, HasRow(c), RowId(c) = stream[d + 1].v.id
    PROVE  Passed(out \o <<c>>, I \cup {d + 1})
<1> DEFINE o == <<c>>
           y == stream[d + 1]
           R == RowsOf(out)
           W == Selected(stream, I)
<1>1. IsSeq(o) /\ DOMAIN o = {1} /\ o[1] = c /\ Rows(o) = {1}
  <2>1. o \in Seq({c}) /\ DOMAIN o = {1} /\ o[1] = c
    OBVIOUS
  <2>2. IsSeq(o)
    BY <2>1, SeqIsSeq
  <2> HIDE DEF o
  <2>3. Rows(o) = {1}
    BY <2>1 DEF Rows
  <2> QED BY <2>1, <2>2, <2>3
<1>2. RowsOf(out \o o) = Append(R, c)
  <2> HIDE DEF o
  <2>1. 1 \in DOMAIN o
    BY <1>1
  <2>2. RowsOf(out \o o) = Append(RowsOf(out), o[1])
    BY <1>1, <2>1, RowsAfterOne
  <2> QED BY <1>1, <2>2
<1>3. Selected(stream, I \cup {d + 1}) = Append(W, y)
  <2>1. d + 1 \in Nat
    OBVIOUS
  <2> QED BY <2>1, SelectedExtend
<1>4. IsFiniteSet(Rows(out)) /\ Rows(out) \subseteq Nat
  BY RowsFinite
<1> DEFINE S == {out[i] : i \in Rows(out)} \cup {c}
           T == {stream[i] : i \in I} \cup {y}
<1>5. R \in Seq(S) /\ c \in S
  <2>1. \A i \in Rows(out) : out[i] \in S
    OBVIOUS
  <2> HIDE DEF S
  <2>2. Selected(out, Rows(out)) \in Seq(S)
    BY <1>4, <2>1, SelectedSeq
  <2> QED BY <2>2 DEF RowsOf, S
<1>6. W \in Seq(T) /\ y \in T
  <2>1. \A i \in I : stream[i] \in T
    OBVIOUS
  <2>2. y \in T
    OBVIOUS
  <2> HIDE DEF T, y
  <2>3. Selected(stream, I) \in Seq(T)
    BY <2>1, SelectedSeq
  <2> QED BY <2>2, <2>3
<1>7. Carries(R, W) /\ RowId(c) = y.v.id
  BY DEF Passed
<1> HIDE DEF S, T, R, W, y
<1>8. Carries(Append(R, c), Append(W, y))
  BY <1>5, <1>6, <1>7, CarriesMore
<1> QED BY <1>2, <1>3, <1>8 DEF Passed, o

\* The items so far are finitely many, and before the next.
LEMMA ItemsFinite ==
    ASSUME NEW d \in Nat, NEW I, I \subseteq Pieces + 1 .. d
    PROVE  IsFiniteSet(I) /\ I \subseteq Nat /\ \A i \in I : i < d + 1
<1>1. Pieces + 1 \in Nat
  BY DEF Pieces
<1>2. IsFiniteSet(Pieces + 1 .. d)
  BY <1>1, FS_Interval
<1>3. \A i \in Pieces + 1 .. d : i \in Nat /\ i < d + 1
  BY <1>1
<1> QED BY <1>2, <1>3, FS_Subset

\* The first item of a file is read as the metadata that the file should have.
LEMMA GoodMetadata ==
    ASSUME FileLeft, ~source.frag, NEW t, IsTc(t), t.done = 0, t.opts.encoding = "Dbn", Good(t)
    PROVE  Good(process_metadata(t, MetadataIn(disk)))
<1> DEFINE c == MetadataIn(disk)
           x == process_metadata(t, c)
           p == t.opts.upgrade_policy
           q == upgrade(told, p)
           read == decode_after_prelude(c[2].v, c)
           m == upgrade(read.meta, p)
<1>0. Pieces = 1 /\ t.out = <<>>
  <2>1. Pieces = 1
    BY DEF Pieces
  <2>2. t.done < Pieces
    BY <2>1
  <2> QED BY <2>1, <2>2 DEF Good
<1>1. read = [ok |-> TRUE, meta |-> told]
  BY FileReads DEF FileLeft
<1>2. m = q /\ q \in Metadata
  <2>1. read.meta = told
    BY <1>1
  <2> HIDE DEF read
  <2> QED BY <2>1, UpgradedMetadata DEF FileLeft
<1>3. /\ StepOf(x, t) /\ x.lost = t.lost
      /\ x.done = t.done => x.failed /\ x.out = t.out
      /\ t.opts.encoding = "Dbn" /\ x.done # t.done =>
           /\ x.done = t.done + 1
           /\ x.out = t.out \o encode(m).bytes
           /\ x.failed = (t.failed \/ ~encode(m).ok)
  <2> HIDE DEF c
  <2>1. t.done \in Nat
    OBVIOUS
  <2>2. StepOf(x, t) /\ x.lost = t.lost /\ (x.done = t.done => x.failed /\ x.out = t.out)
    BY <2>1, MetadataStep, Zenon
  <2>3. t.opts.encoding = "Dbn" /\ x.done # t.done =>
           /\ read.ok /\ x.done = t.done + 1
           /\ x.out = t.out \o encode(m).bytes
           /\ x.failed = (t.failed \/ ~encode(m).ok)
    BY <2>1, MetadataStep, Zenon
  <2> QED BY <2>2, <2>3, Zenon
<1>4. x.opts = t.opts
  BY <1>3 DEF StepOf
<1>5. CASE x.done = t.done
  <2> HIDE DEF x
  <2>1. x.done = t.done /\ x.out = t.out /\ Unlost(x) = Unlost(t) /\ ~ (x.done > 0)
    BY <1>3, <1>5 DEF Unlost
  <2>2. /\ IsSeq(t.out) /\ Passed(t.out, Unlost(t))
        /\ t.done < Pieces => t.out = <<>>
    BY DEF Good
  <2>3. Good(x)
    BY ONLY <2>1, <2>2 DEF Good
  <2> QED BY <2>3 DEF x
<1>6. CASE x.done # t.done
  <2> HIDE DEF x, m
  <2>1. /\ x.done = t.done + 1 /\ x.out = t.out \o encode(m).bytes
        /\ x.failed = (t.failed \/ ~encode(m).ok)
    BY ONLY <1>3, <1>6, t.opts.encoding = "Dbn"
  <2>2. ~encode(q).ok => x.failed
    BY ONLY <1>2, <2>1
  <2>3. x.done = 1 /\ x.out = <<>> \o encode(q).bytes
    BY <1>0, <1>2, <2>1
  <2> HIDE DEF q
  <2>4. NoRows(encode(q).bytes)
    BY <1>2, MetadataWritten
  <2>5. x.out = encode(q).bytes /\ IsSeq(x.out) /\ Rows(x.out) = {}
    BY <2>3, <2>4, IsSeqEmpty DEF NoRows
  <2>6. Passed(x.out, Unlost(x))
    BY <1>0, <2>3, <2>5, PassedNone DEF Unlost
  <2>7. ~x.failed => IsFile(x.out, q)
    BY <1>2, <2>2, <2>5, FileBegun
  <2>8. ~ (x.done < Pieces)
    BY <1>0, <2>3
  <2>9. Good(x)
    BY <1>4, <2>5, <2>6, <2>7, <2>8 DEF Good, q
  <2> QED BY <2>9 DEF x
<1> QED BY <1>5, <1>6

\* A turn that takes a record keeps the schema, and does not forget a failure.
LEMMA KeptRecord ==
    ASSUME NEW t, IsTc(t), NEW r
    PROVE  Kept(process_record(t, r), t)
<1> DEFINE u == UpgradeOf(r, t.version, t.opts.upgrade_policy)
           q == UpgradedBy(u, r, t.ts_out)
           d == t.done + 1
           v == u.version
           y == [t EXCEPT !.done = d, !.version = v]
           s == OnRecord(y, q)
           a == update_live(y.map, q)
<1>1. process_record(t, r) = encode_upgraded(y, q)
  BY DEF process_record, process_upgraded
<1>2. IsTc(y) /\ Kept(y, t)
  <2> HIDE DEF v, d
  <2> QED BY DEF IsTc, Kept
<1> HIDE DEF y, q
<1>3. s = IF y.map_symbols THEN [y EXCEPT !.map = a] ELSE y
  BY DEF OnRecord
<1> HIDE DEF a
<1>4. Kept(s, y) /\ IsTc(s)
  <2>1. Same([y EXCEPT !.map = a], y)
    BY <1>2, TcMap
  <2>2. Kept([y EXCEPT !.map = a], y) /\ Kept(y, y)
    BY <1>2, KeptSteps
  <2> QED BY <1>2, <1>3, <2>1, <2>2 DEF Same
<1> HIDE DEF s
<1>5. /\ \A k : Kept(encode_text(s, k, q), s)
      /\ Kept(IfOfSchema(s, q), s)
  <2>1. Kept(s, s) /\ (\A e : Kept(Written(s, e), s)) /\ Kept([s EXCEPT !.res = "panic"], s)
    BY <1>4, KeptSteps
  <2>2. \A k : Kept(encode_text(s, k, q), s)
    BY <2>1 DEF encode_text
  <2> QED BY <2>1, <2>2 DEF IfOfSchema
<1>6. Kept(encode_csv(y, q), y) /\ Kept(encode_json(y, q), y)
  <2>1. Kept(IfOfSchema(s, q), y) /\ Kept(encode_text(s, "Json", q), y)
    BY <1>4, <1>5, KeptAs
  <2> QED BY <2>1 DEF encode_csv, encode_json, s
<1>7. \A e : Kept(Written(y, e), y)
  BY <1>2, KeptSteps
<1>8. Kept(encode_upgraded(y, q), y)
  BY <1>6, <1>7 DEF encode_upgraded
<1> QED BY <1>1, <1>2, <1>8, KeptAs

\* What a turn makes of a record.
LEMMA UpgradedInTurn ==
    ASSUME NEW t, t.done \in Nat, t.done >= Pieces, Informed(t),
           NEW item, IsRecord(item, SourceTs)
    PROVE  LET q == UpgradedBy(UpgradeOf(item.v, t.version, t.opts.upgrade_policy), item.v,
                               t.ts_out)
               c == RecordChunk(q)
           IN  /\ IsRecord(c, t.ts_out) /\ t.ts_out = SourceTs /\ HasRow(c) /\ RowId(c) = q.id
               /\ q.id = item.v.id /\ q.rtype = item.v.rtype /\ q.length \in Nat
               /\ WellSizedInputs => WellSized(q, t.ts_out)
<1> DEFINE r == item.v
           p == t.opts.upgrade_policy
           q == Upgraded(r, t.version, p, t.ts_out)
           c == RecordChunk(q)
<1>1. t.ts_out = SourceTs
  BY DEF Informed
<1>2. r \in AnyRecord /\ (WellSizedInputs => WellSized(r, t.ts_out))
  BY <1>1 DEF IsRecord
<1> HIDE DEF r, p
<1>3. IsRecord(c, t.ts_out) /\ q.id = r.id /\ q.rtype = r.rtype
  BY <1>2, UpgradedLength
<1>4. q = UpgradedBy(UpgradeOf(r, t.version, p), r, t.ts_out)
  BY DEF Upgraded
<1> HIDE DEF q
<1>5. c.k = "rec" /\ c.v = q
  BY DEF RecordChunk
<1>6. q \in AnyRecord /\ (WellSizedInputs => WellSized(q, t.ts_out))
  BY <1>3, <1>5 DEF IsRecord
<1>7. HasRow(c) /\ RowId(c) = q.id
  BY <1>5 DEF HasRow, RowId
<1>8. q.length \in Nat
  BY <1>6 DEF AnyRecord
<1> QED BY <1>1, <1>3, <1>4, <1>6, <1>7, <1>8 DEF r, p

\* The next item is one that there is room for, or one that there is not.
LEMMA TakenMore ==
    ASSUME NEW t, t.done \in Nat, t.done >= Pieces, t.lost \subseteq 1..t.done,
           NEW x, x.done = t.done + 1
    PROVE  /\ x.lost = t.lost => Unlost(x) = Unlost(t) \cup {t.done + 1}
           /\ x.lost = t.lost \cup {t.done + 1} => Unlost(x) = Unlost(t)
<1> DEFINE d == t.done
<1>1. Pieces + 1 .. d + 1 = (Pieces + 1 .. d) \cup {d + 1}
  BY DEF Pieces
<1>2. d + 1 \notin t.lost /\ d + 1 \notin Pieces + 1 .. d
  BY DEF Pieces
<1> QED BY <1>1, <1>2 DEF Unlost

\* A record is put behind what there is.
LEMMA GoodRecord ==
    ASSUME SourceLeft, NEW t, IsTc(t), t.done \in Nat, t.done >= Pieces, Informed(t),
           t.opts.encoding = "Dbn", Good(t), IsRecord(stream[t.done + 1], SourceTs),
           t.lost \subseteq 1..t.done
    PROVE  Good(process_record(t, stream[t.done + 1].v))
<1> DEFINE item == stream[t.done + 1]
           r == item.v
           x == process_record(t, r)
           z == UpgradedBy(UpgradeOf(r, t.version, t.opts.upgrade_policy), r, t.ts_out)
           c == RecordChunk(z)
           q == upgrade(told, t.opts.upgrade_policy)
           I == Unlost(t)
<1>1. /\ x.opts = t.opts /\ x.done = t.done + 1 /\ x.lost = t.lost
      /\ x.out = Append(t.out, c) /\ (t.failed => x.failed)
  <2> HIDE DEF r
  <2> QED BY RecordStep
<1>2. IsRecord(c, t.ts_out) /\ t.ts_out = SourceTs /\ HasRow(c) /\ RowId(c) = item.v.id
  <2> HIDE DEF item
  <2>1. IsRecord(item, SourceTs)
    BY DEF item
  <2> QED BY <2>1, UpgradedInTurn
<1> HIDE DEF x, c, r
<1>3. IsSeq(t.out) /\ Passed(t.out, I)
  BY DEF Good
<1>4. x.out = t.out \o <<c>>
  BY <1>1, <1>3, AppendOne
<1>5. IsSeq(x.out)
  BY <1>3, <1>4, AddedOne
<1>6. Passed(x.out, Unlost(x))
  <2>1. Unlost(x) = I \cup {t.done + 1}
    BY <1>1, TakenMore
  <2>2. IsFiniteSet(I) /\ I \subseteq Nat /\ \A i \in I : i < t.done + 1
    BY ItemsFinite DEF Unlost
  <2> HIDE DEF I
  <2>3. Passed(t.out \o <<c>>, I \cup {t.done + 1})
    BY <1>2, <1>3, <2>2, PassedMore
  <2> QED BY <1>1, <1>4, <2>1, <2>3
<1>7. Pieces \in {0, 1} /\ (~source.frag => Pieces = 1)
  BY DEF Pieces
<1>8. ASSUME ~source.frag, ~x.failed PROVE IsFile(x.out, q)
  <2>1. t.done > 0 /\ ~t.failed
    BY <1>1, <1>7, <1>8
  <2>2. IsFile(t.out, q) /\ told \in Metadata
    BY <1>8, <2>1 DEF Good, SourceLeft, FileLeft
  <2>3. q \in Metadata /\ q.ts_out = told.ts_out
    BY <2>2, UpgradedMetadata, UpgradeKeepsTs
  <2>4. IsRecord(c, q.ts_out)
    BY <1>2, <1>8, <2>3 DEF SourceTs
  <2> HIDE DEF q
  <2>5. IsFile(t.out \o <<c>>, q)
    BY <2>2, <2>3, <2>4, FileGrown
  <2> QED BY <1>4, <2>5
<1>9. ~ (x.done < Pieces)
  BY <1>1, <1>7
<1>10. Good(x)
  BY <1>1, <1>5, <1>6, <1>8, <1>9 DEF Good
<1> QED BY <1>10 DEF x, r

\* To text, the metadata makes no row,
LEMMA RowedMetadata ==
    ASSUME ~source.frag, NEW t, IsTc(t), t.done = 0, t.res = "ok", t.opts.encoding # "Dbn",
           Rowed(t), NEW chunks
    PROVE  Rowed(process_metadata(t, chunks))
<1> DEFINE x == process_metadata(t, chunks)
<1>0. Pieces = 1 /\ t.done \in Nat
  BY DEF Pieces
<1>1. /\ x.done = t.done \/ x.done = t.done + 1
      /\ x.done = t.done => x.out = t.out
  <2>1. StepOf(x, t) /\ (x.done = t.done => x.out = t.out)
    BY <1>0, MetadataStep, Zenon
  <2> QED BY <2>1 DEF StepOf
<1>2. x.done # t.done => AddsLine(x.out, t.out)
  BY <1>0, MetadataTurn
<1> HIDE DEF x
<1> SUFFICES ASSUME WellSizedInputs PROVE Rowed(x)
  BY DEF x, Rowed
<1>3. t.out = <<>>
  BY <1>0 DEF Rowed
<1>4. AddsLine(x.out, <<>>)
  BY <1>1, <1>2, <1>3 DEF AddsLine
<1>5. IsSeq(x.out) /\ Rows(x.out) = {}
  BY <1>4, LineAdded
<1>6. x.done \in Nat /\ x.done <= Pieces /\ (x.done < Pieces => x.done = t.done)
  BY <1>0, <1>1
<1>7. Passed(x.out, Wanted(x))
  <2>1. Wanted(x) \subseteq Pieces + 1 .. x.done
    BY DEF Wanted, Unlost
  <2> QED BY <1>5, <1>6, <2>1, PassedNone
<1> QED BY <1>1, <1>3, <1>5, <1>6, <1>7 DEF Rowed

\* and a record makes one if it is wanted.
LEMMA RowedRecord ==
    ASSUME NEW t, IsTc(t), t.done \in Nat, t.done >= Pieces, Informed(t), t.res = "ok",
           t.opts.encoding # "Dbn", Rowed(t), IsRecord(stream[t.done + 1], SourceTs),
           t.lost \subseteq 1..t.done
    PROVE  LET x == process_record(t, stream[t.done + 1].v)
           IN  /\ Rowed(x)
               /\ WellSizedInputs => (x.res = "panic" => /\ t.opts.encoding = "Csv"
                                                         /\ t.schema = "None")
<1> DEFINE item == stream[t.done + 1]
           r == item.v
           x == process_record(t, r)
           q == UpgradedBy(UpgradeOf(r, t.version, t.opts.upgrade_policy), r, t.ts_out)
           d == t.done + 1
<1> SUFFICES ASSUME WellSizedInputs
             PROVE  /\ Rowed(x)
                    /\ x.res = "panic" => t.opts.encoding = "Csv" /\ t.schema = "None"
  BY DEF Rowed
<1>1. x.opts = t.opts /\ x.done = d /\ x.lost = t.lost
  <2> HIDE DEF r
  <2> QED BY RecordStep
<1>2. x.schema = t.schema
  <2> HIDE DEF r
  <2> QED BY KeptRecord DEF Kept
<1>3. /\ q.id = r.id /\ q.rtype = r.rtype /\ q.length \in Nat /\ WellSized(q, t.ts_out)
  <2> HIDE DEF item
  <2>1. IsRecord(item, SourceTs)
    BY DEF item
  <2> QED BY <2>1, UpgradedInTurn
<1>4. /\ WantedBy(t, q) =>
           \E c : c.k \in {"row", "object"} /\ c.id = q.id /\ x.out = Append(t.out, c)
      /\ ~WantedBy(t, q) => x.out = t.out
      /\ x.res = "panic" => t.opts.encoding = "Csv" /\ t.schema = "None"
  <2>1. t.opts.encoding \in {"Csv", "Json"} /\ t.schema \in Schemas
    BY DEF Informed
  <2> HIDE DEF r
  <2> QED BY <1>3, <2>1, TextTurn
<1>5. WantedBy(t, q) = WantedBy(t, r)
  <2> HIDE DEF q, r
  <2> QED BY <1>3 DEF WantedBy
<1> HIDE DEF x, q
<1>6. \A k : WantedBy(x, stream[k].v) = WantedBy(t, stream[k].v)
  BY <1>1, <1>2 DEF WantedBy
<1>7. Unlost(x) = Unlost(t) \cup {d}
  BY <1>1, TakenMore
<1>8. IsSeq(t.out) /\ Passed(t.out, Wanted(t))
  BY DEF Rowed
<1>9. IsFiniteSet(Wanted(t)) /\ Wanted(t) \subseteq Nat /\ \A i \in Wanted(t) : i < t.done + 1
  <2>1. Wanted(t) \subseteq Pieces + 1 .. t.done
    BY DEF Wanted, Unlost
  <2> QED BY <2>1, ItemsFinite
<1>10. ~ (x.done < Pieces)
  BY <1>1 DEF Pieces
<1>11. CASE WantedBy(t, r)
  <2>1. Wanted(x) = Wanted(t) \cup {t.done + 1}
    BY <1>6, <1>7, <1>11 DEF Wanted
  <2>2. PICK c : c.k \in {"row", "object"} /\ c.id = q.id /\ x.out = Append(t.out, c)
    BY <1>4, <1>5, <1>11
  <2>3. HasRow(c) /\ RowId(c) = stream[t.done + 1].v.id
    BY <1>3, <2>2 DEF HasRow, RowId
  <2>4. x.out = t.out \o <<c>>
    BY <1>8, <2>2, AppendOne
  <2>5. IsSeq(x.out)
    BY <1>8, <2>4, AddedOne
  <2>6. Passed(t.out \o <<c>>, Wanted(t) \cup {t.done + 1})
    BY <1>8, <1>9, <2>3, PassedMore
  <2> QED BY <1>4, <1>10, <2>1, <2>4, <2>5, <2>6 DEF Rowed
<1>12. CASE ~WantedBy(t, r)
  <2>1. Wanted(x) = Wanted(t)
    BY <1>6, <1>7, <1>12 DEF Wanted
  <2>2. x.out = t.out
    BY <1>4, <1>5, <1>12
  <2> QED BY <1>4, <1>8, <1>10, <2>1, <2>2 DEF Rowed
<1> QED BY <1>11, <1>12

-----------------------------------------------------------------------------
(* The symbols that a Transcoder writes. *)

\* What keeps the symbol map.
Mapped(x, t) == x.map_symbols = t.map_symbols /\ x.map = t.map

\* Only metadata and records change it.
LEMMA MappedSteps ==
    ASSUME NEW t, IsTc(t)
    PROVE  /\ Mapped(t, t) /\ Mapped(Failing(t), t) /\ Mapped(encode_header_if_csv(t), t)
           /\ \A e : Mapped(Written(t, e), t)
           /\ \A a : Mapped([t EXCEPT !.res = a], t)
<1>1. Mapped(t, t) /\ \A a : Mapped([t EXCEPT !.res = a], t)
  BY DEF Mapped, IsTc
<1>2. Mapped(Failing(t), t)
  <2> DEFINE b == TRUE
             r == "err"
             x == [t EXCEPT !.res = r, !.failed = b]
  <2>1. Failing(t) = x
    BY DEF Failing
  <2> HIDE DEF b, r
  <2>2. x.map_symbols = t.map_symbols /\ x.map = t.map
    BY DEF IsTc
  <2> HIDE DEF x
  <2> QED BY <2>1, <2>2 DEF Mapped
<1>3. ASSUME NEW e PROVE Mapped(Written(t, e), t)
  <2> DEFINE f == t.failed \/ e.res = "err"
             o == e.out
             r == e.res
             x == [t EXCEPT !.out = o, !.res = r, !.failed = f]
  <2>1. Written(t, e) = x
    BY DEF Written
  <2> HIDE DEF f, o, r
  <2>2. x.map_symbols = t.map_symbols /\ x.map = t.map
    BY DEF IsTc
  <2> HIDE DEF x
  <2> QED BY <2>1, <2>2 DEF Mapped
<1>4. Mapped(encode_header_if_csv(t), t)
  BY <1>1, <1>2, <1>3 DEF encode_header_if_csv
<1> QED BY <1>1, <1>2, <1>3, <1>4

\* The map that metadata makes of the one there was.
MapWith(map, m) ==
  IF m.schema = "None" THEN Live(<<>>) ELSE IF is_empty(map) THEN Historical(m) ELSE map

MapFrom(x, t, m) ==
  x.map_symbols = t.map_symbols /\ (t.map_symbols => x.map = MapWith(t.map, m))

\* Unless that fails.
LEMMA MetadataMaps ==
    ASSUME NEW t, IsTc(t), t.res = "ok", t.opts.encoding # "Dbn", NEW m
    PROVE  LET x == encode_metadata(t, m)
           IN  (t.failed => x.failed) /\ (~x.failed => MapFrom(x, t, m))
<1> DEFINE a == IF t.schema = "None" THEN m.schema ELSE t.schema
           s == [t EXCEPT !.schema = a]
           w == WithMap(s, m)
           x == encode_metadata(t, m)
<1>1. x = HeaderUnlessFailed(w)
  BY DEF encode_metadata, WithSchema
<1> HIDE DEF a
<1>2. IsTc(s) /\ Mapped(s, t) /\ s.failed = t.failed
  BY DEF IsTc, Mapped
<1> HIDE DEF s
<1>3. ASSUME NEW b
      PROVE  LET z == [s EXCEPT !.map = b]
             IN  IsTc(z) /\ z.map = b /\ z.map_symbols = s.map_symbols /\ z.failed = s.failed
  BY <1>2 DEF IsTc
<1>4. IsTc(Failing(s)) /\ Failing(s).failed = TRUE
  BY <1>2, FailingSame DEF Same
<1>5. IsTc(w) /\ (t.failed => w.failed) /\ (~w.failed => MapFrom(w, t, m))
  <2>1. CASE ~s.map_symbols
    <3>1. w = s
      BY <2>1 DEF WithMap
    <3> QED BY <1>2, <2>1, <3>1 DEF Mapped, MapFrom
  <2>2. CASE s.map_symbols /\ m.schema = "None"
    <3>1. w = [s EXCEPT !.map = Live(<<>>)]
      BY <2>2 DEF WithMap
    <3>2. MapWith(t.map, m) = Live(<<>>)
      BY <2>2 DEF MapWith
    <3>3. /\ IsTc(w) /\ w.map = Live(<<>>) /\ w.map_symbols = s.map_symbols
          /\ w.failed = s.failed
      BY <1>3, <3>1
    <3> QED BY <1>2, <3>2, <3>3 DEF Mapped, MapFrom
  <2>3. CASE s.map_symbols /\ m.schema # "None" /\ ~is_empty(s.map)
    <3>1. w = s
      BY <2>3 DEF WithMap
    <3>2. MapWith(t.map, m) = t.map
      BY <1>2, <2>3 DEF MapWith, Mapped
    <3> QED BY <1>2, <3>1, <3>2 DEF Mapped, MapFrom
  <2>4. CASE s.map_symbols /\ m.schema # "None" /\ is_empty(s.map) /\ HasSymbolMap(m)
    <3>1. w = [s EXCEPT !.map = Historical(m)]
      BY <2>4 DEF WithMap
    <3>2. MapWith(t.map, m) = Historical(m)
      BY <1>2, <2>4 DEF MapWith, Mapped
    <3>3. /\ IsTc(w) /\ w.map = Historical(m) /\ w.map_symbols = s.map_symbols
          /\ w.failed = s.failed
      BY <1>3, <3>1
    <3> QED BY <1>2, <3>2, <3>3 DEF Mapped, MapFrom
  <2>5. CASE s.map_symbols /\ m.schema # "None" /\ is_empty(s.map) /\ ~HasSymbolMap(m)
    <3>1. w = Failing(s)
      BY <2>5 DEF WithMap
    <3> QED BY <1>4, <3>1
  <2> QED BY <2>1, <2>2, <2>3, <2>4, <2>5
<1> HIDE DEF w
<1>6. Mapped(x, w) /\ (w.failed => x.failed)
  <2>1. Mapped(w, w) /\ Mapped(encode_header_if_csv(w), w) /\ Kept(encode_header_if_csv(w), w)
    BY <1>5, MappedSteps, KeptSteps
  <2> QED BY <1>1, <2>1 DEF HeaderUnlessFailed, Kept
<1> HIDE DEF x
<1>7. t.failed => x.failed
  BY <1>5, <1>6
<1>8. ~x.failed => MapFrom(x, t, m)
  BY <1>5, <1>6 DEF Mapped, MapFrom
<1> QED BY <1>7, <1>8 DEF x

\* So does the turn that reads it.
LEMMA MetadataMapped ==
    ASSUME NEW t, IsTc(t), t.res = "ok", t.opts.encoding # "Dbn", NEW chunks
    PROVE  LET x    == process_metadata(t, chunks)
               read == decode_after_prelude(chunks[2].v, chunks)
               m    == upgrade(read.meta, t.opts.upgrade_policy)
           IN  (t.failed => x.failed) /\ (~x.failed => MapFrom(x, t, m))
<1> DEFINE x == process_metadata(t, chunks)
           ver == chunks[2].v
           read == decode_after_prelude(ver, chunks)
           ts == read.meta.ts_out
           d == t.done + 1
           m == upgrade(read.meta, t.opts.upgrade_policy)
           y == [t EXCEPT !.version = ver, !.ts_out = ts, !.done = d]
           z == encode_metadata(y, m)
<1>1. x = Failing(t) \/ x = z
  BY DEF process_metadata, MetadataRead
<1>2. /\ IsTc(y) /\ y.opts = t.opts /\ y.res = "ok" /\ y.failed = t.failed
      /\ y.map_symbols = t.map_symbols /\ y.map = t.map
  <2> HIDE DEF ver, ts, d
  <2> QED BY DEF IsTc
<1> HIDE DEF y, m
<1>3. (y.failed => z.failed) /\ (~z.failed => MapFrom(z, y, m))
  BY <1>2, MetadataMaps
<1> HIDE DEF z
<1>4. ~z.failed => MapFrom(z, t, m)
  BY <1>2, <1>3 DEF MapFrom
<1>5. Failing(t).failed = TRUE
  BY FailingSame
<1> HIDE DEF x
<1>6. t.failed => x.failed
  BY <1>1, <1>2, <1>3, <1>5
<1>7. ~x.failed => MapFrom(x, t, m)
  BY <1>1, <1>4, <1>5
<1> QED BY <1>6, <1>7 DEF x, m

\* A turn of a record updates the map, and writes at most one row, with the symbol that the map
\* then has.
LEMMA NamedTurn ==
    ASSUME NEW t, IsTc(t), t.opts.encoding \in {"Csv", "Json"}, NEW r, NEW q,
           q = UpgradedBy(UpgradeOf(r, t.version, t.opts.upgrade_policy), r, t.ts_out)
    PROVE  LET x == process_record(t, r)
           IN  /\ x.map_symbols = t.map_symbols
               /\ t.map_symbols => x.map = update_live(t.map, q)
               /\ \/ x.out = t.out
                  \/ \E c : /\ c.k \in {"row", "object"} /\ c.id = q.id
                            /\ c.sym = SymbolWith(x, q) /\ x.out = Append(t.out, c)
<1> DEFINE u == UpgradeOf(r, t.version, t.opts.upgrade_policy)
           d == t.done + 1
           v == u.version
           y == [t EXCEPT !.done = d, !.version = v]
           a == update_live(y.map, q)
           s == IF y.map_symbols THEN [y EXCEPT !.map = a] ELSE y
           x == process_record(t, r)
<1>1. x = encode_upgraded(y, q) /\ s = OnRecord(y, q)
  BY DEF process_record, process_upgraded, OnRecord
<1>2. /\ IsTc(y) /\ y.opts = t.opts /\ y.out = t.out
      /\ y.map_symbols = t.map_symbols /\ y.map = t.map
  <2> HIDE DEF v, d
  <2> QED BY DEF IsTc
<1>3. a = update_live(t.map, q)
  BY <1>2
<1> HIDE DEF y, a
<1>4. /\ IsTc(s) /\ s.out = t.out /\ s.map_symbols = t.map_symbols
      /\ t.map_symbols => s.map = a
  <2>1. LET z == [y EXCEPT !.map = a]
        IN  IsTc(z) /\ z.out = y.out /\ z.map_symbols = y.map_symbols /\ z.map = a
    BY <1>2 DEF IsTc
  <2>2. CASE y.map_symbols
    <3>1. s = [y EXCEPT !.map = a]
      BY <2>2
    <3> HIDE DEF s
    <3> QED BY <1>2, <2>1, <3>1
  <2>3. CASE ~y.map_symbols
    <3>1. s = y
      BY <2>3
    <3> HIDE DEF s
    <3> QED BY <1>2, <2>3, <3>1
  <2> QED BY <2>2, <2>3
<1>5. x \in {IfOfSchema(s, q), encode_text(s, "Csv", q), encode_text(s, "Json", q)}
  BY <1>1, <1>2 DEF encode_upgraded, encode_csv, encode_json
<1> HIDE DEF s, x
<1>6. x \in {s, [s EXCEPT !.res = "panic"], encode_text(s, "Csv", q), encode_text(s, "Json", q)}
  BY <1>5 DEF IfOfSchema
<1> DEFINE row(z) == \E c : /\ c.k \in {"row", "object"} /\ c.id = q.id
                            /\ c.sym = SymbolWith(s, q) /\ z.out = Append(s.out, c)
<1>7. ASSUME NEW kind \in {"Csv", "Json"}
      PROVE  LET z == encode_text(s, kind, q)
             IN  Mapped(z, s) /\ (z.out = s.out \/ row(z))
  <2>1. Mapped(encode_text(s, kind, q), s)
    <3>1. \A e : Mapped(Written(s, e), s)
      BY <1>4, MappedSteps
    <3> QED BY <3>1 DEF encode_text
  <2> DEFINE ty == rtype_dispatch(q, s.ts_out)
             z == encode_text(s, kind, q)
             sym == SymbolWith(s, q)
             line == \E c : /\ c.k \in {"row", "object"} /\ c.id = q.id
                            /\ c.sym = sym /\ z.out = Append(s.out, c)
  <2>2. IsTc(s)
    BY <1>4
  <2>3. /\ ty \in {Err, Panic} => z.out = s.out
        /\ ty \notin {Err, Panic} => line
    BY <2>2, TextWritten
  <2> HIDE DEF ty, line
  <2>4. z.out = s.out \/ line
    BY <2>3
  <2>5. line => row(z)
    BY DEF line
  <2> HIDE DEF z
  <2>6. z.out = s.out \/ row(z)
    BY <2>4, <2>5
  <2> HIDE DEF row
  <2> QED BY <2>1, <2>6 DEF z
<1>8. LET z == [s EXCEPT !.res = "panic"] IN Mapped(z, s) /\ z.out = s.out
  BY <1>4, MappedSteps, TcResult
<1>9. Mapped(s, s)
  BY <1>4, MappedSteps
<1> HIDE DEF row
<1>10. Mapped(x, s) /\ (x.out = s.out \/ row(x))
  BY <1>6, <1>7, <1>8, <1>9
<1>11. SymbolWith(x, q) = SymbolWith(s, q)
  BY <1>10 DEF Mapped, SymbolWith
<1>12. x.map_symbols = t.map_symbols /\ (t.map_symbols => x.map = update_live(t.map, q))
  BY <1>3, <1>4, <1>10 DEF Mapped
<1>13. \/ x.out = t.out
       \/ \E c : /\ c.k \in {"row", "object"} /\ c.id = q.id
                 /\ c.sym = SymbolWith(x, q) /\ x.out = Append(t.out, c)
  BY <1>4, <1>10, <1>11 DEF row
<1> QED BY <1>12, <1>13 DEF x

\* The mappings that the items of s after the first p give an instrument, up to item d, and the
\* latest of some items.
Mappings(s, p, x, d) ==
  {j \in p + 1 .. d : /\ IsRec(s[j]) /\ s[j].v.rtype = "SYMBOL_MAPPING"
                      /\ s[j].v.iid = x /\ IsAscii(s[j].v.sym)}

IsLatest(j, J) == j \in J /\ \A i \in J : i <= j

\* A live map has the latest symbol of each instrument that was mapped.
LiveSyms(s, p, syms, d) ==
  \A x : /\ x \in DOMAIN syms <=> Mappings(s, p, x, d) # {}
         /\ x \in DOMAIN syms =>
              \E j : IsLatest(j, Mappings(s, p, x, d)) /\ syms[x] = s[j].v.sym

LatestOf(s, p, x, d) ==
  LET J == Mappings(s, p, x, d)
  IN  IF J = {} THEN Unmapped ELSE s[CHOOSE j \in J : \A i \in J : i <= j].v.sym

\* Before there are records there are no mappings.
LEMMA LiveNone ==
    ASSUME NEW s, NEW p \in Nat, NEW d \in Nat, d <= p
    PROVE  LiveSyms(s, p, <<>>, d)
<1>1. DOMAIN <<>> = {}
  OBVIOUS
<1>2. \A x : Mappings(s, p, x, d) = {}
  BY DEF Mappings
<1> QED BY <1>1, <1>2 DEF LiveSyms

\* One more item is a mapping, or is none.
LEMMA MappingsMore ==
    ASSUME NEW s, NEW p \in Nat, NEW d \in Nat, d >= p, NEW x
    PROVE  LET e == d + 1
               r == s[e].v
           IN  IF /\ IsRec(s[e]) /\ r.rtype = "SYMBOL_MAPPING" /\ r.iid = x /\ IsAscii(r.sym)
               THEN /\ Mappings(s, p, x, e) = Mappings(s, p, x, d) \cup {e}
                    /\ IsLatest(e, Mappings(s, p, x, e))
               ELSE Mappings(s, p, x, e) = Mappings(s, p, x, d)
<1> DEFINE e == d + 1
           ok(j) == /\ IsRec(s[j]) /\ s[j].v.rtype = "SYMBOL_MAPPING"
                    /\ s[j].v.iid = x /\ IsAscii(s[j].v.sym)
           M(k) == Mappings(s, p, x, k)
<1>1. \A k, j : j \in M(k) <=> j \in p + 1 .. k /\ ok(j)
  BY DEF Mappings
<1> HIDE DEF ok, M
<1>2. \A j : j \in p + 1 .. e <=> j \in p + 1 .. d \/ j = e
  OBVIOUS
<1>3. \A j \in p + 1 .. e : j <= e
  OBVIOUS
<1>4. ok(e) => M(e) = M(d) \cup {e} /\ IsLatest(e, M(e))
  <2>1. ok(e) => \A j : j \in M(e) <=> j \in M(d) \/ j = e
    BY <1>1, <1>2
  <2> QED BY <1>1, <1>3, <2>1 DEF IsLatest
<1>5. ~ok(e) => M(e) = M(d)
  <2>1. ~ok(e) => \A j : j \in M(e) <=> j \in M(d)
    BY <1>1, <1>2
  <2> QED BY <2>1
<1> QED BY <1>4, <1>5 DEF ok, M

\* update_live keeps up with the stream: it is given a record as it was upgraded.
LEMMA LiveMore ==
    ASSUME NEW s, NEW p \in Nat, NEW d \in Nat, d >= p, NEW syms, LiveSyms(s, p, syms, d),
           IsRec(s[d + 1]), NEW q, q.rtype = s[d + 1].v.rtype, q.iid = s[d + 1].v.iid,
           q.sym = s[d + 1].v.sym
    PROVE  \E more : update_live(Live(syms), q) = Live(more) /\ LiveSyms(s, p, more, d + 1)
<1> DEFINE e == d + 1
           M(x) == Mappings(s, p, x, d)
           N(x) == Mappings(s, p, x, e)
<1>1. \A x : /\ x \in DOMAIN syms <=> M(x) # {}
             /\ x \in DOMAIN syms => \E j : IsLatest(j, M(x)) /\ syms[x] = s[j].v.sym
  BY DEF LiveSyms
<1>2. Live(syms).kind = "Live" /\ Live(syms).syms = syms
  BY DEF Live
<1>3. CASE q.rtype = "SYMBOL_MAPPING" /\ IsAscii(q.sym)
  <2> DEFINE more == [i \in DOMAIN syms \cup {q.iid} |-> IF i = q.iid THEN q.sym ELSE syms[i]]
  <2>1. update_live(Live(syms), q) = Live(more)
    BY <1>2, <1>3 DEF update_live
  <2>2. /\ N(q.iid) = M(q.iid) \cup {e} /\ IsLatest(e, N(q.iid))
        /\ \A x : x # q.iid => N(x) = M(x)
    BY <1>3, MappingsMore
  <2> HIDE DEF M, N
  <2>3. DOMAIN more = DOMAIN syms \cup {q.iid} /\ more[q.iid] = q.sym
        /\ \A x \in DOMAIN syms : x # q.iid => more[x] = syms[x]
    OBVIOUS
  <2> HIDE DEF more
  <2>4. ASSUME NEW x
        PROVE  /\ x \in DOMAIN more <=> N(x) # {}
               /\ x \in DOMAIN more => \E j : IsLatest(j, N(x)) /\ more[x] = s[j].v.sym
    <3>1. CASE x = q.iid
      <4>1. more[x] = s[e].v.sym /\ IsLatest(e, N(x)) /\ x \in DOMAIN more /\ N(x) # {}
        BY <2>2, <2>3, <3>1
      <4> QED BY <4>1
    <3>2. CASE x # q.iid
      <4>1. N(x) = M(x) /\ (x \in DOMAIN more <=> x \in DOMAIN syms)
            /\ (x \in DOMAIN syms => more[x] = syms[x])
        BY <2>2, <2>3, <3>2
      <4> QED BY <1>1, <4>1
    <3> QED BY <3>1, <3>2
  <2>5. LiveSyms(s, p, more, e)
    BY <2>4 DEF LiveSyms, N
  <2> QED BY <2>1, <2>5
<1>4. CASE ~ (q.rtype = "SYMBOL_MAPPING" /\ IsAscii(q.sym))
  <2>1. update_live(Live(syms), q) = Live(syms)
    BY <1>4 DEF update_live
  <2>2. \A x : N(x) = M(x)
    BY <1>4, MappingsMore
  <2> HIDE DEF M, N
  <2>3. LiveSyms(s, p, syms, e)
    BY <1>1, <2>2 DEF LiveSyms, N
  <2> QED BY <2>1, <2>3
<1> QED BY <1>3, <1>4

\* So looking an instrument up in it gives its latest symbol.
LEMMA LiveLookup ==
    ASSUME NEW s, NEW p \in Nat, NEW d \in Nat, NEW syms, LiveSyms(s, p, syms, d), NEW q
    PROVE  get_for_rec(Live(syms), q) = LatestOf(s, p, q.iid, d)
<1> DEFINE x == q.iid
           J == Mappings(s, p, x, d)
<1>1. /\ x \in DOMAIN syms <=> J # {}
      /\ x \in DOMAIN syms => \E j : IsLatest(j, J) /\ syms[x] = s[j].v.sym
  BY DEF LiveSyms
<1>2. get_for_rec(Live(syms), q) = IF x \in DOMAIN syms THEN syms[x] ELSE Unmapped
  BY DEF get_for_rec, Live
<1>3. J \subseteq Nat
  BY DEF Mappings
<1>4. LatestOf(s, p, x, d) =
        IF J = {} THEN Unmapped ELSE s[CHOOSE j \in J : \A i \in J : i <= j].v.sym
  BY DEF LatestOf
<1> HIDE DEF J, x
<1>5. ASSUME NEW j, IsLatest(j, J) PROVE (CHOOSE a \in J : \A i \in J : i <= a) = j
  <2>1. j \in J /\ \A i \in J : i <= j
    BY <1>5 DEF IsLatest
  <2>2. \A a \in J : (\A i \in J : i <= a) => a = j
    BY <1>3, <2>1
  <2> QED BY <2>1, <2>2
<1>6. get_for_rec(Live(syms), q) = LatestOf(s, p, x, d)
  BY <1>1, <1>2, <1>4, <1>5
<1> QED BY <1>6 DEF x

\* The map that the user gave, the metadata or the map that names the instruments of historical
\* data, and the symbol of record k of s, which has m for metadata unless it is a fragment.
UserMap(o)  == Given(o.symbol_interval_map)
Before(src) == IF src.frag THEN 0 ELSE 1

NamesFor(o, src, m) ==
  IF src.frag \/ ~is_empty(Historical(UserMap(o))) THEN UserMap(o) ELSE m

NameOf(o, k, s, src, m) ==
  IF ~src.frag /\ m.schema = "None" THEN LatestOf(s, Before(src), s[k].v.iid, k)
  ELSE HistoricalSymbol(NamesFor(o, src, m), s[k].v)

SymbolFor(o, mapped, k, s, src, m) == IF mapped THEN NameOf(o, k, s, src, m) ELSE NoSymbol

\* The map of a transcoder that has come so far gives these symbols.
MapCurrent(map, o, d, s, src, m) ==
  IF d < Before(src) THEN map = Historical(UserMap(o))
  ELSE IF ~src.frag /\ m.schema = "None"
  THEN \E syms : map = Live(syms) /\ LiveSyms(s, Before(src), syms, d)
  ELSE \E h : map = Historical(h) /\ Names(h) = Names(NamesFor(o, src, m))

\* Every row has the symbol of its record.
RowNamed(c, o, mapped, d, s, src, m) ==
  c.k \in {"row", "object"} =>
    \E k \in Before(src) + 1 .. d : /\ IsRec(s[k]) /\ s[k].v.id = c.id
                                    /\ c.sym = SymbolFor(o, mapped, k, s, src, m)

SymbolsOf(t, s, src, m) ==
  ~t.failed =>
    /\ IsSeq(t.out) /\ (t.done < Before(src) => t.out = <<>>)
    /\ \A i \in DOMAIN t.out :
         RowNamed(t.out[i], t.opts, t.map_symbols, t.done, s, src, m)
    /\ t.map_symbols /\ t.opts.encoding # "Dbn" =>
         MapCurrent(t.map, t.opts, t.done, s, src, m)

Symbolled(t) == SymbolsOf(t, stream, source, told)

\* Upgrading metadata changes none of its names.
LEMMA UpgradeNames ==
    ASSUME NEW m \in Metadata, NEW policy
    PROVE  LET u == upgrade(m, policy)
           IN  u.schema = m.schema /\ Names(u) = Names(m)
<1> DEFINE u == upgrade(m, policy)
<1>1. \A a, b : LET w == [m EXCEPT !.version = a, !.symbol_cstr_len = b]
                IN  /\ w.schema = m.schema /\ w.stype_out = m.stype_out
                    /\ w.mappings = m.mappings
  BY DEF Metadata
<1>2. \A a : LET w == [m EXCEPT !.version = a]
             IN  w.schema = m.schema /\ w.stype_out = m.stype_out /\ w.mappings = m.mappings
  BY DEF Metadata
<1>3. \A a : LET w == [m EXCEPT !.symbol_cstr_len = a]
             IN  w.schema = m.schema /\ w.stype_out = m.stype_out /\ w.mappings = m.mappings
  BY DEF Metadata
<1>4. u.schema = m.schema /\ u.stype_out = m.stype_out /\ u.mappings = m.mappings
  BY <1>1, <1>2, <1>3 DEF upgrade
<1> HIDE DEF u
<1>5. IsInverse(u) = IsInverse(m)
  BY <1>4 DEF IsInverse
<1>6. \A x, int : Named(u, x, int) = Named(m, x, int)
  BY <1>5 DEF Named
<1>7. Names(u) = Names(m)
  <2> DEFINE of(w, x) == {Named(w, x, int) : int \in {i \in ToSet(x.intervals) : i.symbol # ""}}
             X == ToSet(m.mappings)
  <2>1. \A x : of(u, x) = of(m, x)
    BY <1>6
  <2>2. Names(m) = UNION {of(m, x) : x \in X} /\ Names(u) = UNION {of(u, x) : x \in X}
    BY <1>4 DEF Names
  <2> HIDE DEF of, X
  <2>3. {of(u, x) : x \in X} = {of(m, x) : x \in X}
    BY <2>1
  <2> QED BY <2>2, <2>3
<1> QED BY <1>4, <1>7 DEF u

\* The symbol of historical data is a matter of the names, and of the record's instrument and
\* day.
LEMMA SameSymbol ==
    ASSUME NEW h, NEW g, Names(h) = Names(g), NEW q, NEW r, q.iid = r.iid, q.day = r.day
    PROVE  HistoricalSymbol(h, q) = HistoricalSymbol(g, r)
BY DEF HistoricalSymbol

\* Upgrading a record changes neither, nor what a mapping maps.
LEMMA UpgradeKeepsRecord ==
    ASSUME NEW r \in AnyRecord, NEW u, NEW ts
    PROVE  LET q == UpgradedBy(u, r, ts)
           IN  /\ q.rtype = r.rtype /\ q.id = r.id /\ q.iid = r.iid /\ q.day = r.day
               /\ q.sym = r.sym
<1>1. \A a : LET q == [r EXCEPT !.length = a]
             IN  /\ q.rtype = r.rtype /\ q.id = r.id /\ q.iid = r.iid /\ q.day = r.day
                 /\ q.sym = r.sym
  BY DEF AnyRecord
<1> QED BY <1>1 DEF UpgradedBy

\* The map keeps up with a record, and then has its symbol.
LEMMA MapKeepsUp ==
    ASSUME NEW map, NEW o, NEW d \in Nat, NEW s, NEW src, NEW m, d >= Before(src),
           MapCurrent(map, o, d, s, src, m), NEW e, e = d + 1, IsRec(s[e]), NEW q,
           q.rtype = s[e].v.rtype, q.iid = s[e].v.iid, q.day = s[e].v.day,
           q.sym = s[e].v.sym
    PROVE  LET after == update_live(map, q)
           IN  /\ MapCurrent(after, o, e, s, src, m)
               /\ get_for_rec(after, q) = NameOf(o, e, s, src, m)
<1> DEFINE after == update_live(map, q)
           p == Before(src)
<1>1. p \in Nat /\ ~ (d < p) /\ e \in Nat /\ ~ (e < p)
  BY DEF Before
<1> HIDE DEF p
<1>2. CASE ~src.frag /\ m.schema = "None"
  <2>1. PICK syms : map = Live(syms) /\ LiveSyms(s, p, syms, d)
    BY <1>1, <1>2 DEF MapCurrent, p
  <2>2. PICK more : after = Live(more) /\ LiveSyms(s, p, more, e)
    <3>1. \E more : update_live(Live(syms), q) = Live(more) /\ LiveSyms(s, p, more, d + 1)
      BY <1>1, <2>1, LiveMore DEF p
    <3> QED BY <2>1, <3>1
  <2> HIDE DEF after
  <2>3. get_for_rec(after, q) = LatestOf(s, p, q.iid, e)
    BY <1>1, <2>2, LiveLookup
  <2>4. get_for_rec(after, q) = NameOf(o, e, s, src, m)
    BY <1>2, <2>3 DEF NameOf, p
  <2>5. MapCurrent(after, o, e, s, src, m)
    BY <1>1, <1>2, <2>2 DEF MapCurrent, p
  <2> QED BY <2>4, <2>5 DEF after
<1>3. CASE ~ (~src.frag /\ m.schema = "None")
  <2>1. PICK h : map = Historical(h) /\ Names(h) = Names(NamesFor(o, src, m))
    BY <1>1, <1>3 DEF MapCurrent, p
  <2>2. Historical(h).kind = "Historical" /\ Historical(h).of = h
    BY DEF Historical
  <2>3. after = Historical(h)
    BY <2>1, <2>2 DEF update_live
  <2> HIDE DEF after
  <2>4. MapCurrent(after, o, e, s, src, m)
    BY <1>1, <1>3, <2>1, <2>3 DEF MapCurrent, p
  <2>5. get_for_rec(after, q) = HistoricalSymbol(h, q)
    BY <2>2, <2>3 DEF get_for_rec
  <2>6. HistoricalSymbol(h, q) = HistoricalSymbol(NamesFor(o, src, m), s[e].v)
    BY <2>1, SameSymbol
  <2>7. get_for_rec(after, q) = NameOf(o, e, s, src, m)
    BY <1>3, <2>5, <2>6 DEF NameOf
  <2> QED BY <2>4, <2>7 DEF after
<1> QED BY <1>2, <1>3

\* A transcoder that has written the same, with the same map, has the same symbols.
LEMMA SymbolledAs ==
    ASSUME NEW t, Symbolled(t), NEW x, x.failed = t.failed, x.out = t.out, x.done = t.done,
           x.opts = t.opts, x.map_symbols = t.map_symbols, x.map = t.map
    PROVE  Symbolled(x)
BY DEF Symbolled, SymbolsOf

\* A row that has its record's symbol keeps it, and more rows may follow.
LEMMA RowsStay ==
    ASSUME NEW out, IsSeq(out), NEW o, NEW mapped, NEW d \in Nat, NEW s, NEW src, NEW m,
           \A i \in DOMAIN out : RowNamed(out[i], o, mapped, d, s, src, m)
    PROVE  /\ \A i \in DOMAIN out : RowNamed(out[i], o, mapped, d + 1, s, src, m)
           /\ \A c : RowNamed(c, o, mapped, d + 1, s, src, m) =>
                LET w == Append(out, c)
                IN  IsSeq(w) /\ \A i \in DOMAIN w : RowNamed(w[i], o, mapped, d + 1, s, src, m)
<1> DEFINE N(c, k) == RowNamed(c, o, mapped, k, s, src, m)
<1>1. \A c : N(c, d) => N(c, d + 1)
  <2>1. \A k \in Before(src) + 1 .. d : k \in Before(src) + 1 .. (d + 1)
    BY DEF Before
  <2> QED BY <2>1 DEF RowNamed
<1>2. \A i \in DOMAIN out : N(out[i], d + 1)
  <2> HIDE DEF N
  <2>1. \A i \in DOMAIN out : N(out[i], d)
    BY DEF N
  <2> QED BY <1>1, <2>1
<1>3. ASSUME NEW c, N(c, d + 1)
      PROVE  LET w == Append(out, c) IN IsSeq(w) /\ \A i \in DOMAIN w : N(w[i], d + 1)
  <2> DEFINE w == out \o <<c>>
  <2>1. Append(out, c) = w
    BY AppendOne
  <2>2. /\ IsSeq(w) /\ Len(out) \in Nat /\ DOMAIN out = 1..Len(out)
        /\ DOMAIN w = 1..(Len(out) + 1)
        /\ \A i \in 1..Len(out) : w[i] = out[i]
        /\ w[Len(out) + 1] = c
    BY AddedOne
  <2> HIDE DEF w, N
  <2>3. ASSUME NEW i \in DOMAIN w PROVE N(w[i], d + 1)
    <3>1. i \in 1..Len(out) \/ i = Len(out) + 1
      BY <2>2
    <3> QED BY <1>2, <1>3, <2>2, <3>1
  <2> QED BY <2>1, <2>2, <2>3
<1> QED BY <1>2, <1>3

\* What is no row needs no symbol.
LEMMA NoRowNamed ==
    ASSUME NEW c, c.k \notin {"row", "object"}, NEW o, NEW mapped, NEW d, NEW s, NEW src, NEW m
    PROVE  RowNamed(c, o, mapped, d, s, src, m)
BY DEF RowNamed

\* The turn that reads the metadata of the file leaves the map that is to be used.
LEMMA SymbolledMetadata ==
    ASSUME FileLeft, ~source.frag, NEW t, IsTc(t), t.done = 0, t.res = "ok", Symbolled(t)
    PROVE  Symbolled(process_metadata(t, MetadataIn(disk)))
<1> DEFINE c == MetadataIn(disk)
           x == process_metadata(t, c)
           p == t.opts.upgrade_policy
           read == decode_after_prelude(c[2].v, c)
           m == upgrade(read.meta, p)
<1>0. Before(source) = 1 /\ t.done \in Nat
  BY DEF Before
<1>1. /\ StepOf(x, t) /\ (x.done = t.done => x.failed)
      /\ t.opts.encoding = "Dbn" /\ x.done # t.done =>
           x.out = t.out \o encode(m).bytes /\ x.failed = (t.failed \/ ~encode(m).ok)
  <2> HIDE DEF c
  <2>1. StepOf(x, t) /\ (x.done = t.done => x.failed)
    BY <1>0, MetadataStep, Zenon
  <2>2. t.opts.encoding = "Dbn" /\ x.done # t.done =>
           /\ read.ok /\ x.done = t.done + 1
           /\ x.out = t.out \o encode(m).bytes
           /\ x.failed = (t.failed \/ ~encode(m).ok)
    BY <1>0, MetadataStep, Zenon
  <2> QED BY <2>1, <2>2, Zenon
<1>2. x.done # t.done /\ t.opts.encoding # "Dbn" => AddsLine(x.out, t.out)
  <2> HIDE DEF c
  <2> QED BY <1>0, MetadataTurn
<1>3. t.opts.encoding # "Dbn" =>
        (t.failed => x.failed) /\ (~x.failed => MapFrom(x, t, m))
  <2> HIDE DEF c
  <2> QED BY MetadataMapped
<1>4. read.meta = told /\ told \in Metadata
  <2>1. read = [ok |-> TRUE, meta |-> told]
    BY FileReads DEF FileLeft
  <2> HIDE DEF read
  <2> QED BY <2>1 DEF FileLeft
<1>5. m \in Metadata /\ m.schema = told.schema /\ Names(m) = Names(told)
  BY <1>4, UpgradedMetadata, UpgradeNames
<1> HIDE DEF x, m
<1> SUFFICES ASSUME ~x.failed PROVE Symbolled(x)
  BY DEF x, Symbolled, SymbolsOf
<1>6. ~t.failed /\ x.opts = t.opts /\ x.done = 1
  <2>1. x.opts = t.opts /\ x.done = 1 /\ x.done # t.done
    BY <1>1 DEF StepOf
  <2>2. CASE t.opts.encoding = "Dbn"
    <3>1. x.failed = (t.failed \/ ~encode(m).ok)
      BY <1>1, <2>1, <2>2
    <3>2. ~t.failed
      BY <3>1, Zenon
    <3> QED BY <2>1, <3>2
  <2>3. CASE t.opts.encoding # "Dbn"
    BY <1>3, <2>1, <2>3
  <2> QED BY <2>2, <2>3
<1>7. /\ t.out = <<>>
      /\ t.map_symbols /\ t.opts.encoding # "Dbn" => t.map = Historical(UserMap(t.opts))
  BY <1>0, <1>6 DEF Symbolled, SymbolsOf, MapCurrent
<1>8. IsSeq(x.out) /\ Rows(x.out) = {}
  <2>1. CASE t.opts.encoding = "Dbn"
    <3> DEFINE b == encode(m).bytes
    <3>1. IsSeq(b) /\ Rows(b) = {}
      BY <1>5, MetadataWritten DEF NoRows
    <3> HIDE DEF b
    <3>2. x.out = <<>> \o b
      BY <1>1, <1>6, <1>7, <2>1 DEF b
    <3>3. x.out = b
      BY <3>1, <3>2, IsSeqEmpty
    <3> QED BY <3>1, <3>3
  <2>2. CASE t.opts.encoding # "Dbn"
    <3>1. AddsLine(x.out, <<>>)
      BY <1>2, <1>6, <1>7, <2>2
    <3> QED BY <3>1, LineAdded
  <2> QED BY <2>1, <2>2
<1>9. \A i \in DOMAIN x.out :
        RowNamed(x.out[i], x.opts, x.map_symbols, x.done, stream, source, told)
  <2>1. \A i \in DOMAIN x.out : x.out[i].k \notin {"row", "object"}
    BY <1>8 DEF Rows, HasRow
  <2> QED BY <2>1, NoRowNamed
<1>10. ASSUME x.map_symbols, x.opts.encoding # "Dbn"
       PROVE  MapCurrent(x.map, x.opts, x.done, stream, source, told)
  <2>1. t.opts.encoding # "Dbn" /\ t.map_symbols /\ x.map = MapWith(t.map, m)
    BY <1>3, <1>6, <1>10 DEF MapFrom
  <2>2. t.map = Historical(UserMap(t.opts))
    BY <1>7, <2>1
  <2>3. ~ (x.done < Before(source))
    BY <1>0, <1>6
  <2>4. CASE told.schema = "None"
    <3>1. x.map = Live(<<>>)
      BY <1>5, <2>1, <2>4 DEF MapWith
    <3>2. LiveSyms(stream, 1, <<>>, 1)
      BY LiveNone
    <3> QED BY <1>0, <1>6, <2>3, <2>4, <3>1, <3>2 DEF MapCurrent
  <2>5. CASE told.schema # "None"
    <3> DEFINE h == IF is_empty(t.map) THEN m ELSE UserMap(t.opts)
    <3>1. x.map = Historical(h)
      BY <1>5, <2>1, <2>2, <2>5 DEF MapWith
    <3>2. Names(h) = Names(NamesFor(x.opts, source, told))
      BY <1>5, <1>6, <2>2 DEF NamesFor
    <3> HIDE DEF h
    <3> QED BY <2>3, <2>5, <3>1, <3>2 DEF MapCurrent
  <2> QED BY <2>4, <2>5
<1>11. x.done < Before(source) => x.out = <<>>
  BY <1>0, <1>6
<1> QED BY <1>8, <1>9, <1>10, <1>11 DEF Symbolled, SymbolsOf

\* To DBN, a record does not change whether there is a map.
LEMMA DbnMapped ==
    ASSUME NEW t, IsTc(t), t.opts.encoding = "Dbn", NEW r
    PROVE  process_record(t, r).map_symbols = t.map_symbols
<1> DEFINE x == process_record(t, r)
           u == UpgradeOf(r, t.version, t.opts.upgrade_policy)
           q == UpgradedBy(u, r, t.ts_out)
           a == u.version
           b == t.done + 1
           z == [t EXCEPT !.done = b, !.version = a]
<1>1. x = encode_upgraded(z, q)
  BY DEF process_record, process_upgraded
<1>2. IsTc(z) /\ z.opts = t.opts /\ z.map_symbols = t.map_symbols
  <2> HIDE DEF a, b
  <2> QED BY DEF IsTc
<1> HIDE DEF z, q
<1>3. \E e : x = Written(z, e)
  BY <1>1, <1>2 DEF encode_upgraded
<1>4. \A e : Written(z, e).map_symbols = z.map_symbols
  BY <1>2, MappedSteps DEF Mapped
<1> HIDE DEF x
<1>5. x.map_symbols = t.map_symbols
  BY <1>2, <1>3, <1>4
<1> QED BY <1>5 DEF x

\* And every record's row gets its symbol.
LEMMA SymbolledRecord ==
    ASSUME NEW t, IsTc(t), t.done \in Nat, t.done >= Pieces, Informed(t), Symbolled(t),
           IsRecord(stream[t.done + 1], SourceTs)
    PROVE  Symbolled(process_record(t, stream[t.done + 1].v))
<1> DEFINE d == t.done
           r == stream[d + 1].v
           x == process_record(t, r)
           u == UpgradeOf(r, t.version, t.opts.upgrade_policy)
           q == UpgradedBy(u, r, t.ts_out)
           y == update_live(t.map, q)
           named(c, k) == RowNamed(c, t.opts, t.map_symbols, k, stream, source, told)
<1>1. /\ x.opts = t.opts /\ x.done = d + 1
      /\ t.opts.encoding = "Dbn" => x.out = Append(t.out, RecordChunk(q))
  <2> HIDE DEF r
  <2> QED BY RecordStep
<1>2. t.failed => x.failed
  <2> HIDE DEF r
  <2> QED BY KeptRecord DEF Kept
<1>3. t.opts.encoding = "Dbn" => x.map_symbols = t.map_symbols
  <2> HIDE DEF r
  <2> QED BY DbnMapped
<1>4. t.opts.encoding # "Dbn" =>
        /\ x.map_symbols = t.map_symbols
        /\ t.map_symbols => x.map = y
        /\ \/ x.out = t.out
           \/ \E c : /\ c.k \in {"row", "object"} /\ c.id = q.id
                     /\ c.sym = SymbolWith(x, q) /\ x.out = Append(t.out, c)
  <2>1. t.opts.encoding # "Dbn" => t.opts.encoding \in {"Csv", "Json"}
    BY DEF Informed
  <2> HIDE DEF r
  <2> QED BY <2>1, NamedTurn
<1>5. IsRec(stream[d + 1]) /\ r \in AnyRecord /\ d >= Before(source) /\ d \in Nat
  BY DEF IsRecord, IsRec, Pieces, Before
<1>6. /\ q.rtype = r.rtype /\ q.id = r.id /\ q.iid = r.iid /\ q.day = r.day
      /\ q.sym = r.sym
  <2> HIDE DEF r, u
  <2> QED BY <1>5, UpgradeKeepsRecord
<1> SUFFICES ASSUME ~x.failed PROVE Symbolled(x)
  BY DEF Symbolled, SymbolsOf
<1> HIDE DEF x, q, y
<1>7. /\ ~t.failed /\ IsSeq(t.out) /\ \A i \in DOMAIN t.out : named(t.out[i], d)
      /\ t.map_symbols /\ t.opts.encoding # "Dbn" =>
           MapCurrent(t.map, t.opts, d, stream, source, told)
  BY <1>2 DEF Symbolled, SymbolsOf
<1>8. /\ \A i \in DOMAIN t.out : named(t.out[i], d + 1)
      /\ \A c : named(c, d + 1) =>
           LET w == Append(t.out, c) IN IsSeq(w) /\ \A i \in DOMAIN w : named(w[i], d + 1)
  BY <1>5, <1>7, RowsStay
<1>9. t.map_symbols /\ t.opts.encoding # "Dbn" =>
        /\ MapCurrent(y, t.opts, d + 1, stream, source, told)
        /\ get_for_rec(y, q) = NameOf(t.opts, d + 1, stream, source, told)
  <2> DEFINE e == d + 1
  <2>1. ASSUME MapCurrent(t.map, t.opts, d, stream, source, told)
        PROVE  LET after == update_live(t.map, q)
               IN  /\ MapCurrent(after, t.opts, e, stream, source, told)
                   /\ get_for_rec(after, q) = NameOf(t.opts, e, stream, source, told)
    <3>1. /\ q.rtype = stream[e].v.rtype /\ q.iid = stream[e].v.iid /\ q.day = stream[e].v.day
          /\ q.sym = stream[e].v.sym /\ IsRec(stream[e]) /\ d \in Nat /\ d >= Before(source)
          /\ e = d + 1
      BY <1>5, <1>6
    <3> HIDE DEF e
    <3> QED BY <2>1, <3>1, MapKeepsUp
  <2>2. y = update_live(t.map, q)
    BY DEF y
  <2> QED BY <1>7, <2>1, <2>2
<1>10. IsSeq(x.out) /\ \A i \in DOMAIN x.out : named(x.out[i], d + 1)
  <2>1. CASE t.opts.encoding = "Dbn"
    <3>1. RecordChunk(q).k \notin {"row", "object"}
      BY DEF RecordChunk
    <3>2. named(RecordChunk(q), d + 1)
      BY <3>1, NoRowNamed
    <3> HIDE DEF named
    <3> QED BY <1>1, <1>8, <2>1, <3>2
  <2>2. CASE t.opts.encoding # "Dbn" /\ x.out = t.out
    <3> HIDE DEF named
    <3> QED BY <1>7, <1>8, <2>2
  <2>3. CASE t.opts.encoding # "Dbn" /\ x.out # t.out
    <3>1. PICK c : /\ c.k \in {"row", "object"} /\ c.id = q.id
                   /\ c.sym = SymbolWith(x, q) /\ x.out = Append(t.out, c)
      BY <1>4, <2>3
    <3>2. c.sym = SymbolFor(t.opts, t.map_symbols, d + 1, stream, source, told)
      <4>1. CASE t.map_symbols
        <5>1. SymbolWith(x, q) = get_for_rec(y, q)
          BY <1>4, <2>3, <4>1 DEF SymbolWith
        <5>2. get_for_rec(y, q) = NameOf(t.opts, d + 1, stream, source, told)
          BY <1>9, <2>3, <4>1
        <5> QED BY <3>1, <4>1, <5>1, <5>2 DEF SymbolFor
      <4>2. CASE ~t.map_symbols
        BY <1>4, <2>3, <3>1, <4>2 DEF SymbolWith, SymbolFor
      <4> QED BY <4>1, <4>2
    <3>3. d + 1 \in Before(source) + 1 .. (d + 1)
      BY <1>5 DEF Before
    <3>4. named(c, d + 1)
      BY <1>5, <1>6, <3>1, <3>2, <3>3 DEF RowNamed
    <3> HIDE DEF named
    <3> QED BY <1>8, <3>1, <3>4
  <2> QED BY <2>1, <2>2, <2>3
<1>11. ASSUME NEW i \in DOMAIN x.out
       PROVE  RowNamed(x.out[i], x.opts, x.map_symbols, x.done, stream, source, told)
  <2>1. named(x.out[i], d + 1)
    BY <1>10
  <2>2. CASE t.opts.encoding # "Dbn"
    BY <1>1, <1>4, <2>1, <2>2
  <2>3. CASE t.opts.encoding = "Dbn"
    <3> QED BY <1>1, <1>3, <2>1, <2>3
  <2> QED BY <2>2, <2>3
<1>12. x.map_symbols /\ x.opts.encoding # "Dbn" =>
         MapCurrent(x.map, x.opts, x.done, stream, source, told)
  BY <1>1, <1>4, <1>9
<1>13. ~ (x.done < Before(source))
  BY <1>1, <1>5 DEF Before
<1> HIDE DEF named
<1> QED BY <1>10, <1>11, <1>12, <1>13 DEF Symbolled, SymbolsOf

-----------------------------------------------------------------------------
(* A call of a Transcoder takes what is complete, and no more. *)

\* What i turns have made of t.
Turned(x, t, i) ==
  /\ IsTc(x) /\ x.opts = t.opts /\ x.fed = t.fed
  /\ x.done \in Nat /\ t.done <= x.done /\ x.done <= t.done + i
  /\ x.res = "ok" => x.done = t.done + i

\* None have made the transcoder itself, asked anew.
LEMMA TurnedNone ==
    ASSUME NEW t, IsTc(t), t.done \in Nat
    PROVE  Turned([t EXCEPT !.res = "ok"], t, 0)
<1> DEFINE x == [t EXCEPT !.res = "ok"]
<1>1. Same(x, t)
  BY TcResult
<1> HIDE DEF x
<1>2. Turned(x, t, 0)
  BY <1>1 DEF Same, Turned
<1> QED BY <1>2 DEF x

\* And one more turn makes it one more.
LEMMA TurnedOneMore ==
    ASSUME NEW t, t.done \in Nat, NEW i \in Nat, NEW x, Turned(x, t, i), NEW item,
           NEW fails
    PROVE  Turned(Turn(x, item, fails), t, i + 1)
<1> DEFINE y == Turn(x, item, fails)
<1>1. IsTc(x) /\ x.done \in Nat
  BY DEF Turned
<1>2. (x.res # "ok" => y = x) /\ (x.res = "ok" => StepOf(y, x))
  BY <1>1, TurnStep
<1> HIDE DEF y
<1>3. CASE x.res # "ok"
  <2>1. y = x
    BY <1>2, <1>3
  <2> QED BY <1>3, <2>1 DEF Turned, y
<1>4. CASE x.res = "ok"
  <2>1. StepOf(y, x)
    BY <1>2, <1>4
  <2>2. Turned(y, t, i + 1)
    BY <1>4, <2>1 DEF Turned, StepOf
  <2> QED BY <2>2 DEF y
<1> QED BY <1>3, <1>4

\* So do all the turns of a loop.
LEMMA LoopTurned ==
    ASSUME NEW t, IsTc(t), t.done \in Nat, NEW n \in Nat, NEW f, NEW F,
           Runs(f, n, [t EXCEPT !.res = "ok"], t.done, F)
    PROVE  \A i \in 0..n : Turned(f[i], t, i)
<1> DEFINE T == {i \in Nat : i <= n => Turned(f[i], t, i)}
           a == [t EXCEPT !.res = "ok"]
<1>1. 0 \in T
  <2>1. Turned(a, t, 0) /\ f[0] = a
    BY TurnedNone DEF Runs
  <2> HIDE DEF a
  <2> QED BY <2>1
<1>2. ASSUME NEW i \in Nat, i \in T PROVE i + 1 \in T
  <2>1. ASSUME i + 1 <= n PROVE Turned(f[i + 1], t, i + 1)
    <3>1. i <= n /\ i + 1 \in 1..n /\ (i + 1) - 1 = i
      BY <2>1
    <3>2. Turned(f[i], t, i)
      BY <1>2, <3>1
    <3> DEFINE j == t.done + (i + 1)
    <3>3. f[i + 1] = Turn(f[i], stream[j], j \in F)
      BY <3>1 DEF Runs
    <3> HIDE DEF j
    <3> QED BY <3>2, <3>3, TurnedOneMore
  <2> QED BY <2>1
<1> HIDE DEF T
<1>3. \A i \in Nat : i \in T
  BY <1>1, <1>2, SetInduction
<1> QED BY <1>3 DEF T

\* What a transcoder has taken of what it was given.
TookComplete(t) ==
  /\ IsTc(t) /\ t.done \in Nat /\ t.fed \in Nat /\ 2 * t.done <= t.fed

\* A call takes all that is complete, unless it fails, and nothing that is not.
LEMMA LoopCounts ==
    ASSUME NEW t, TookComplete(t), NEW F
    PROVE  LET x == Inner_encode(t, F)
           IN  /\ TookComplete(x) /\ x.opts = t.opts /\ x.fed = t.fed
               /\ x.res = "ok" => 2 * x.done + 1 >= x.fed
<1> DEFINE x == Inner_encode(t, F)
           n == Complete(t.fed) - t.done
<1>1. IsTc(t) /\ t.done \in Nat /\ t.fed \in Nat /\ 2 * t.done <= t.fed
  BY DEF TookComplete
<1>2. /\ n \in Nat /\ 2 * (t.done + n) <= t.fed /\ 2 * (t.done + n) + 1 >= t.fed
  BY <1>1 DEF Complete
<1>3. PICK f : Runs(f, n, [t EXCEPT !.res = "ok"], t.done, F) /\ x = f[n]
  BY <1>2, LoopRuns
<1>4. Turned(x, t, n)
  <2> HIDE DEF x, n
  <2>1. \A i \in 0..n : Turned(f[i], t, i)
    BY <1>1, <1>2, <1>3, LoopTurned
  <2>2. n \in 0..n
    BY <1>2
  <2> QED BY <1>3, <2>1, <2>2
<1> HIDE DEF x, n
<1>5. /\ TookComplete(x) /\ x.opts = t.opts /\ x.fed = t.fed
      /\ (x.res = "ok" => 2 * x.done + 1 >= x.fed)
  BY <1>1, <1>2, <1>4 DEF Turned, TookComplete
<1> QED BY <1>5 DEF x

-----------------------------------------------------------------------------
(* A Transcoder to CSV knows its schema, unless a call failed. *)

SchemaKnown(t) ==
  t.opts.encoding = "Csv" /\ t.done >= Pieces /\ t.schema = "None" => t.failed

\* And the header fails for want of a schema.
LEMMA HeaderNeedsSchema ==
    ASSUME NEW t, IsTc(t), t.opts.encoding = "Csv"
    PROVE  LET x == encode_header_if_csv(t)
           IN  x.schema = "None" => x.failed /\ x.res = "err"
<1> DEFINE x == encode_header_if_csv(t)
<1>1. Kept(x, t)
  BY KeptSteps
<1>2. t.schema = "None" => x = Failing(t)
  BY DEF encode_header_if_csv
<1>3. Failing(t).failed = TRUE /\ Failing(t).res = "err"
  BY FailingSame
<1> HIDE DEF x
<1>4. x.schema = "None" => x.failed /\ x.res = "err"
  BY <1>1, <1>2, <1>3 DEF Kept
<1> QED BY <1>4 DEF x

\* So the schema is known when the metadata was read.
LEMMA MetadataNeedsSchema ==
    ASSUME NEW t, IsTc(t), t.res = "ok", t.opts.encoding = "Csv", NEW chunks
    PROVE  LET x == process_metadata(t, chunks)
           IN  x.schema = "None" => x.failed
<1> DEFINE x == process_metadata(t, chunks)
           ver == chunks[2].v
           read == decode_after_prelude(ver, chunks)
           ts == read.meta.ts_out
           d == t.done + 1
           m == upgrade(read.meta, t.opts.upgrade_policy)
           y == [t EXCEPT !.version = ver, !.ts_out = ts, !.done = d]
<1>1. x = Failing(t) \/ x = encode_metadata(y, m)
  BY DEF process_metadata, MetadataRead
<1> HIDE DEF ver, ts, d
<1>2. IsTc(y) /\ y.opts = t.opts /\ y.res = "ok"
  BY DEF IsTc
<1> HIDE DEF y, m
<1> DEFINE a == IF y.schema = "None" THEN m.schema ELSE y.schema
           s == [y EXCEPT !.schema = a]
           w == WithMap(s, m)
<1>3. encode_metadata(y, m) = HeaderUnlessFailed(w)
  BY <1>2 DEF encode_metadata, WithSchema
<1> HIDE DEF a
<1>4. Same(s, y) /\ s.res = "ok"
  BY <1>2, TcSchema
<1>5. IsTc(s) /\ s.opts = t.opts
  BY <1>2, <1>4 DEF Same
<1> HIDE DEF s
<1>6. IsTc(w) /\ w.opts = t.opts /\ (w.res # "ok" => w.failed)
  <2>1. \A b : Same([s EXCEPT !.map = b], s) /\ [s EXCEPT !.map = b].res = s.res
    BY <1>5, TcMap
  <2>2. Same(Failing(s), s) /\ Failing(s).failed = TRUE
    BY <1>5, FailingSame
  <2>3. w = s \/ w = Failing(s) \/ \E b : w = [s EXCEPT !.map = b]
    BY DEF WithMap
  <2> HIDE DEF w
  <2> QED BY <1>4, <1>5, <2>1, <2>2, <2>3 DEF Same
<1> HIDE DEF w
<1>7. LET h == HeaderUnlessFailed(w) IN h.schema = "None" => h.failed
  <2>1. w.opts.encoding = "Csv"
    BY <1>6
  <2>2. LET h == encode_header_if_csv(w) IN h.schema = "None" => h.failed
    BY <1>6, <2>1, HeaderNeedsSchema
  <2> QED BY <1>6, <2>2 DEF HeaderUnlessFailed
<1>8. Failing(t).failed = TRUE
  BY FailingSame
<1> HIDE DEF x
<1>9. x.schema = "None" => x.failed
  BY <1>1, <1>3, <1>7, <1>8
<1> QED BY <1>9 DEF x

-----------------------------------------------------------------------------
(* All of this together, through the turns of a call. *)

Calm(t) == WellSizedInputs => (t.res = "panic" => t.failed)

\* The output, and what was lost.
OutputFits(t) ==
  /\ IsSeq(t.out) /\ (t.done < Pieces => t.out = <<>>)
  /\ t.held \in 0..BUF_CAPACITY /\ t.lost \subseteq 1..t.done

Sound(t) ==
  /\ t.opts.encoding = "Dbn" => Good(t)
  /\ t.opts.encoding # "Dbn" => Rowed(t)
  /\ SchemaKnown(t) /\ Informed(t) /\ Calm(t) /\ Symbolled(t) /\ OutputFits(t)

\* A transcoder that has come as far, and may have failed since, is as sound.
LEMMA SoundAs ==
    ASSUME NEW t, Sound(t), NEW x, x.opts = t.opts, x.schema = t.schema, x.done = t.done,
           x.ts_out = t.ts_out, x.map_symbols = t.map_symbols, x.map = t.map, x.out = t.out,
           x.lost = t.lost, x.held \in 0..BUF_CAPACITY, t.failed => x.failed,
           x.res = t.res \/ x.res # "panic"
    PROVE  Sound(x)
<1>1. Unlost(x) = Unlost(t)
  BY DEF Unlost
<1>2. Wanted(x) = Wanted(t)
  BY <1>1 DEF Wanted, WantedBy
<1>3. (Good(t) => Good(x)) /\ (Rowed(t) => Rowed(x))
  BY <1>1, <1>2 DEF Good, Rowed
<1>4. SchemaKnown(x) /\ Informed(x) /\ Calm(x)
  BY DEF Sound, SchemaKnown, Informed, Calm
<1>5. Symbolled(x)
  BY DEF Sound, Symbolled, SymbolsOf
<1>6. OutputFits(x)
  BY DEF Sound, OutputFits
<1> QED BY <1>3, <1>4, <1>5, <1>6 DEF Sound

\* What a turn may add: nothing, a record or a line, or at first the metadata or a header.
Extends(x, t) ==
  /\ x.lost = t.lost
  /\ \/ x.out = t.out
     \/ /\ x.done = t.done + 1 /\ t.done >= Pieces /\ x.schema = t.schema
        /\ x.map_symbols = t.map_symbols /\ (t.failed => x.failed)
        /\ \E c : x.out = Append(t.out, c)
     \/ x.done = 1 /\ Pieces = 1 /\ t.out = <<>> /\ IsSeq(x.out) /\ Rows(x.out) = {}

\* The turn that reads the metadata,
LEMMA SoundMetadata ==
    ASSUME FileLeft, ~source.frag, NEW t, IsTc(t), t.done = 0, t.res = "ok", Sound(t)
    PROVE  Sound(process_metadata(t, MetadataIn(disk)))
           /\ Extends(process_metadata(t, MetadataIn(disk)), t)
<1> DEFINE c == MetadataIn(disk)
           x == process_metadata(t, c)
           p == t.opts.upgrade_policy
           read == decode_after_prelude(c[2].v, c)
           m == upgrade(read.meta, p)
<1>0. t.done \in Nat /\ Pieces = 1
  BY DEF Pieces
<1>1. /\ StepOf(x, t) /\ x.held = t.held /\ x.lost = t.lost
      /\ x.done = t.done => x.out = t.out
  BY <1>0, MetadataStep, Zenon
<1>2. /\ x.res \in {"ok", "err"}
      /\ x.done = t.done => x.schema = t.schema
      /\ x.done # t.done =>
           /\ x.ts_out = read.meta.ts_out /\ x.schema \in {t.schema, m.schema}
           /\ t.opts.encoding # "Dbn" => AddsLine(x.out, t.out)
  <2> HIDE DEF c
  <2> QED BY <1>0, MetadataTurn
<1>15. t.opts.encoding = "Dbn" /\ x.done # t.done => x.out = t.out \o encode(m).bytes
  <2> HIDE DEF c
  <2>1. t.opts.encoding = "Dbn" /\ x.done # t.done =>
           /\ read.ok /\ x.done = t.done + 1
           /\ x.out = t.out \o encode(m).bytes
           /\ x.failed = (t.failed \/ ~encode(m).ok)
    BY <1>0, MetadataStep, Zenon
  <2> QED BY <2>1, Zenon
<1>3. read = [ok |-> TRUE, meta |-> told]
  BY FileReads DEF FileLeft
<1>4. read.meta = told
  BY <1>3
<1>5. m \in Metadata /\ m.schema \in Schemas
  <2>1. m \in Metadata
    BY <1>4, UpgradedMetadata DEF FileLeft
  <2> HIDE DEF m
  <2> QED BY <2>1 DEF Metadata, Schemas
<1>6. t.opts.encoding = "Dbn" => Good(x)
  BY GoodMetadata DEF Sound
<1>7. t.opts.encoding # "Dbn" => Rowed(x)
  BY RowedMetadata DEF Sound
<1>8. t.opts.encoding = "Csv" => (x.schema = "None" => x.failed)
  BY MetadataNeedsSchema
<1> HIDE DEF x, m, read
<1>9. x.opts = t.opts /\ (x.done = t.done \/ x.done = t.done + 1)
  BY <1>1 DEF StepOf
<1>10. SchemaKnown(x)
  BY <1>8, <1>9 DEF SchemaKnown
<1>11. Informed(x)
  <2>1. t.opts.encoding \in {"Dbn", "Csv", "Json"} /\ t.schema \in Schemas
    BY DEF Sound, Informed
  <2>2. x.schema \in Schemas
    BY <1>2, <1>5, <2>1
  <2>3. ASSUME x.done >= Pieces PROVE x.ts_out = SourceTs
    <3>1. x.done # t.done
      BY <1>0, <2>3
    <3> QED BY <1>2, <1>4, <3>1 DEF SourceTs
  <2> QED BY <1>9, <2>1, <2>2, <2>3 DEF Informed
<1>12. Calm(x)
  BY <1>2 DEF Calm
<1>13. Symbolled(x)
  BY SymbolledMetadata DEF Sound, x
<1>14. x.done # t.done => t.out = <<>> /\ IsSeq(x.out) /\ Rows(x.out) = {}
  <2> SUFFICES ASSUME x.done # t.done PROVE t.out = <<>> /\ IsSeq(x.out) /\ Rows(x.out) = {}
    OBVIOUS
  <2>1. t.out = <<>>
    BY <1>0 DEF Sound, OutputFits
  <2>2. CASE t.opts.encoding # "Dbn"
    BY <1>2, <2>1, <2>2, LineAdded
  <2>3. CASE t.opts.encoding = "Dbn"
    <3> DEFINE b == encode(m).bytes
    <3>1. IsSeq(b) /\ Rows(b) = {}
      BY <1>5, MetadataWritten DEF NoRows
    <3>2. x.out = <<>> \o b
      BY <1>15, <2>1, <2>3
    <3> HIDE DEF b
    <3>3. x.out = b
      BY <3>1, <3>2, IsSeqEmpty
    <3> QED BY <2>1, <3>1, <3>3
  <2> QED BY <2>2, <2>3
<1>16. OutputFits(x) /\ Extends(x, t)
  <2>1. t.held \in 0..BUF_CAPACITY /\ t.lost = {} /\ IsSeq(t.out) /\ t.out = <<>>
    BY <1>0 DEF Sound, OutputFits
  <2>2. CASE x.done = t.done
    BY <1>1, <2>1, <2>2 DEF OutputFits, Extends
  <2>3. CASE x.done # t.done
    BY <1>0, <1>1, <1>9, <1>14, <2>1, <2>3 DEF OutputFits, Extends
  <2> QED BY <2>2, <2>3
<1>17. Sound(x)
  BY <1>6, <1>7, <1>9, <1>10, <1>11, <1>12, <1>13, <1>16 DEF Sound
<1> QED BY <1>16, <1>17 DEF x

\* a turn that takes a record,
LEMMA SoundRecord ==
    ASSUME SourceLeft, NEW t, IsTc(t), t.done \in Nat, t.done >= Pieces, t.res = "ok", Sound(t),
           IsRecord(stream[t.done + 1], SourceTs)
    PROVE  LET x == process_record(t, stream[t.done + 1].v) IN Sound(x) /\ Extends(x, t)
<1> DEFINE r == stream[t.done + 1].v
           x == process_record(t, r)
           q == UpgradedBy(UpgradeOf(r, t.version, t.opts.upgrade_policy), r, t.ts_out)
<1>0. Informed(t) /\ SchemaKnown(t) /\ OutputFits(t) /\ t.lost \subseteq 1..t.done
  BY DEF Sound, OutputFits
<1>1. /\ x.opts = t.opts /\ x.done = t.done + 1 /\ x.ts_out = t.ts_out
      /\ x.held = t.held /\ x.lost = t.lost
      /\ t.opts.encoding = "Dbn" => x.res = "ok" /\ x.out = Append(t.out, RecordChunk(q))
  <2> HIDE DEF r
  <2> QED BY RecordStep
<1>2. x.schema = t.schema /\ (t.failed => x.failed)
  <2> HIDE DEF r
  <2> QED BY KeptRecord DEF Kept
<1>3. t.opts.encoding = "Dbn" => Good(x)
  BY <1>0, GoodRecord DEF Sound
<1>4. t.opts.encoding # "Dbn" =>
        Rowed(x) /\ (WellSizedInputs => (x.res = "panic" => /\ t.opts.encoding = "Csv"
                                                            /\ t.schema = "None"))
  BY <1>0, RowedRecord DEF Sound
<1>10. /\ x.map_symbols = t.map_symbols
       /\ x.out = t.out \/ \E c : x.out = Append(t.out, c)
  <2>1. CASE t.opts.encoding # "Dbn"
    <3>1. t.opts.encoding \in {"Csv", "Json"}
      BY <1>0, <2>1 DEF Informed
    <3> HIDE DEF r
    <3>2. /\ x.map_symbols = t.map_symbols
          /\ t.map_symbols => x.map = update_live(t.map, q)
          /\ \/ x.out = t.out
             \/ \E c : /\ c.k \in {"row", "object"} /\ c.id = q.id
                       /\ c.sym = SymbolWith(x, q) /\ x.out = Append(t.out, c)
      BY <3>1, NamedTurn
    <3> HIDE DEF x, q
    <3> QED BY <3>2, Zenon
  <2>2. CASE t.opts.encoding = "Dbn"
    <3>1. x.map_symbols = t.map_symbols
      <4> HIDE DEF r
      <4> QED BY <2>2, DbnMapped
    <3> HIDE DEF x
    <3> QED BY <1>1, <2>2, <3>1
  <2> QED BY <2>1, <2>2
<1> HIDE DEF x
<1>11. Extends(x, t)
  BY <1>1, <1>2, <1>10 DEF Extends
<1>12. OutputFits(x)
  <2>1. IsSeq(t.out) /\ t.held \in 0..BUF_CAPACITY
    BY <1>0 DEF OutputFits
  <2>2. IsSeq(x.out)
    <3>1. \A c : Append(t.out, c) = t.out \o <<c>> /\ IsSeq(t.out \o <<c>>)
      BY <2>1, AppendOne, AddedOne
    <3> QED BY <1>10, <2>1, <3>1
  <2>3. ~ (x.done < Pieces) /\ x.lost \subseteq 1..x.done
    BY <1>0, <1>1 DEF Pieces
  <2> QED BY <1>1, <2>1, <2>2, <2>3 DEF OutputFits
<1>5. SchemaKnown(x)
  BY <1>0, <1>1, <1>2 DEF SchemaKnown
<1>6. Informed(x)
  BY <1>0, <1>1, <1>2 DEF Informed
<1>7. Calm(x)
  <2>1. t.opts.encoding = "Csv" /\ t.schema = "None" => t.failed
    BY <1>0 DEF SchemaKnown
  <2>2. WellSizedInputs /\ x.res = "panic" => t.failed
    BY <1>1, <1>4, <2>1
  <2> QED BY <1>2, <2>2 DEF Calm
<1>8. Symbolled(x)
  BY <1>0, SymbolledRecord DEF Sound, x
<1>9. Sound(x)
  BY <1>1, <1>3, <1>4, <1>5, <1>6, <1>7, <1>8, <1>12 DEF Sound
<1> QED BY <1>9, <1>11 DEF x

\* A part of what has no row has none.
LEMMA PrefixHasNoRow ==
    ASSUME NEW s, IsSeq(s), Rows(s) = {}, NEW n \in 0..Len(s)
    PROVE  IsSeq(SubSeq(s, 1, n)) /\ Rows(SubSeq(s, 1, n)) = {}
<1> DEFINE S == {s[i] : i \in DOMAIN s}
           x == SubSeq(s, 1, n)
<1>1. s \in Seq(S) /\ Len(s) \in Nat /\ DOMAIN s = 1..Len(s)
  BY LenProperties DEF IsSeq
<1>2. \A i \in 1..n : s[i] \in S
  BY <1>1
<1> HIDE DEF S
<1>3. /\ x \in Seq(S) /\ Len(x) = (IF 1 <= n THEN n - 1 + 1 ELSE 0)
      /\ \A i \in 1..(n - 1 + 1) : x[i] = s[1 + i - 1]
  <2>1. 1 \in Int /\ n \in Int
    BY <1>1
  <2> QED BY <1>2, <2>1, SubSeqProperties
<1> HIDE DEF x
<1>4. IsSeq(x) /\ DOMAIN x = 1..n
  <2>1. Len(x) = n
    BY <1>1, <1>3
  <2> QED BY <1>3, <2>1, LenProperties, SeqIsSeq
<1>5. ASSUME NEW i \in DOMAIN x PROVE ~HasRow(x[i])
  <2>1. i \in 1..n /\ i \in DOMAIN s /\ 1 + i - 1 = i /\ n - 1 + 1 = n
    BY <1>1, <1>4
  <2>2. x[i] = s[i]
    BY <1>3, <2>1
  <2> QED BY <2>1, <2>2 DEF Rows
<1> QED BY <1>4, <1>5 DEF Rows, x

\* What the output makes of a turn is sound too: a record that there is no room for is not
\* there, and not among those that should be.
LEMMA SoundOutput ==
    ASSUME NEW t, t.done \in Nat, Sound(t), NEW x, Sound(x), Extends(x, t), x.opts = t.opts,
           NEW y, Beside(y, x), AllWritten(y, t, x) \/ PartWritten(y, t, x)
    PROVE  Sound(y)
<1> DEFINE room == Len(t.out) + BUF_CAPACITY - t.held
<1>1. /\ BUF_CAPACITY \in Nat /\ t.held \in 0..BUF_CAPACITY
      /\ IsSeq(t.out) /\ IsSeq(x.out) /\ Len(t.out) \in Nat /\ Len(x.out) \in Nat
  <2>1. IsSeq(t.out) /\ IsSeq(x.out)
    BY DEF Sound, OutputFits
  <2>2. Len(t.out) \in Nat /\ Len(x.out) \in Nat
    BY <2>1, LenProperties DEF IsSeq
  <2> QED BY <2>1, <2>2, TranscoderAssumption DEF Sound, OutputFits
<1>2. \A c : Append(t.out, c) = t.out \o <<c>> /\ Len(t.out \o <<c>>) = Len(t.out) + 1
  BY <1>1, AppendOne, AddedOne
<1>3. Len(<<>>) = 0
  OBVIOUS
<1>4. Added(t, x) \in Nat /\ (x.out = t.out => Added(t, x) = 0)
  BY <1>1, <1>2, <1>3 DEF Added, Extends
<1>5. y.held \in 0..BUF_CAPACITY
  BY <1>1, <1>4, OutputHeld
<1>6. CASE AllWritten(y, t, x)
  BY <1>5, <1>6, SoundAs DEF AllWritten, Beside
<1>7. CASE PartWritten(y, t, x)
  <2>1. /\ ~HasRoom(t, x) /\ y.out = SubSeq(x.out, 1, room) /\ y.lost = t.lost \cup {x.done}
        /\ (x.failed => y.failed) /\ (y.res = x.res \/ y.res = "err")
        /\ (y.opts.encoding # "Csv" => y.failed)
    BY <1>7, Zenon DEF PartWritten, Extends, Beside
  <2>2. t.held + Added(t, x) > BUF_CAPACITY /\ x.out # t.out
    BY <1>1, <1>4, <2>1 DEF HasRoom
  <2>3. SchemaKnown(y) /\ Informed(y) /\ Calm(y)
    BY <2>1 DEF Beside, Sound, SchemaKnown, Informed, Calm
  <2>4. CASE /\ x.done = t.done + 1 /\ t.done >= Pieces /\ x.schema = t.schema
             /\ x.map_symbols = t.map_symbols /\ (t.failed => x.failed)
             /\ \E c : x.out = Append(t.out, c)
    <3>1. PICK c : x.out = t.out \o <<c>> /\ Len(x.out) = Len(t.out) + 1
      BY <1>2, <2>4
    <3>2. room = Len(t.out)
      BY <1>1, <2>2, <3>1 DEF Added
    <3>3. y.out = t.out
      <4>1. IsSeq(<<c>>)
        <5>1. <<c>> \in Seq({c})
          OBVIOUS
        <5> QED BY <5>1, SeqIsSeq
      <4>2. SubSeq(t.out \o <<c>>, 1, Len(t.out)) = t.out
        BY <1>1, <4>1, FirstOfTwo
      <4> QED BY <2>1, <3>1, <3>2, <4>2
    <3>4. /\ y.opts = t.opts /\ y.schema = t.schema /\ y.done = t.done + 1
          /\ y.map_symbols = t.map_symbols /\ y.map = x.map
      BY <2>4 DEF Beside
    <3>5. t.lost \subseteq 1..t.done /\ y.lost = t.lost \cup {t.done + 1}
      BY <2>1, <2>4 DEF Sound, OutputFits
    <3>6. Unlost(y) = Unlost(t)
      BY <2>4, <3>4, <3>5, TakenMore
    <3>7. Wanted(y) = Wanted(t)
      BY <3>4, <3>6 DEF Wanted, WantedBy
    <3>8. ~ (y.done < Pieces)
      BY <2>4, <3>4 DEF Pieces
    <3>9. t.opts.encoding = "Dbn" => Good(y)
      BY <1>1, <2>1, <3>3, <3>4, <3>6, <3>8 DEF Sound, Good
    <3>10. t.opts.encoding # "Dbn" => Rowed(y)
      BY <1>1, <3>3, <3>7, <3>8 DEF Sound, Rowed
    <3>11. OutputFits(y)
      <4>1. y.lost \subseteq 1..y.done
        BY <3>4, <3>5
      <4> QED BY <1>1, <1>5, <3>3, <3>8, <4>1 DEF OutputFits
    <3>12. ASSUME ~y.failed PROVE Symbolled(y)
      <4>1. ~x.failed /\ ~t.failed
        BY <2>1, <2>4, <3>12
      <4>2. \A i \in DOMAIN t.out :
              RowNamed(t.out[i], t.opts, t.map_symbols, t.done, stream, source, told)
        BY <4>1 DEF Sound, Symbolled, SymbolsOf
      <4>3. \A i \in DOMAIN t.out :
              RowNamed(t.out[i], t.opts, t.map_symbols, t.done + 1, stream, source, told)
        BY <1>1, <4>2, RowsStay
      <4>4. x.map_symbols /\ x.opts.encoding # "Dbn" =>
              MapCurrent(x.map, x.opts, x.done, stream, source, told)
        BY <4>1 DEF Sound, Symbolled, SymbolsOf
      <4>5. ~ (y.done < Before(source))
        BY <3>8 DEF Pieces, Before
      <4> QED BY <1>1, <2>4, <3>3, <3>4, <4>3, <4>4, <4>5 DEF Symbolled, SymbolsOf
    <3>13. Symbolled(y)
      BY <3>12 DEF Symbolled, SymbolsOf
    <3> QED BY <2>3, <3>4, <3>9, <3>10, <3>11, <3>13 DEF Sound
  <2>5. CASE x.done = 1 /\ Pieces = 1 /\ t.out = <<>> /\ IsSeq(x.out) /\ Rows(x.out) = {}
    <3>1. room \in 0..Len(x.out)
      BY <1>1, <1>3, <2>2, <2>5 DEF Added
    <3>2. IsSeq(y.out) /\ Rows(y.out) = {}
      <4> HIDE DEF room
      <4> QED BY <2>1, <2>5, <3>1, PrefixHasNoRow
    <3>3. y.opts = t.opts /\ y.done = 1 /\ y.map_symbols = x.map_symbols /\ y.map = x.map
      BY <2>5 DEF Beside
    <3>4. Unlost(y) \subseteq Pieces + 1 .. y.done /\ Wanted(y) \subseteq Pieces + 1 .. y.done
      BY DEF Unlost, Wanted
    <3>5. Passed(y.out, Unlost(y)) /\ Passed(y.out, Wanted(y)) /\ ~ (y.done < Pieces)
      BY <2>5, <3>2, <3>3, <3>4, PassedNone
    <3>6. t.opts.encoding = "Dbn" => Good(y)
      BY <2>1, <3>2, <3>3, <3>5 DEF Good
    <3>7. Rowed(y)
      BY <3>2, <3>5 DEF Rowed
    <3>8. OutputFits(y)
      <4>1. x.lost \subseteq 1..x.done /\ x.lost = t.lost
        BY DEF Sound, OutputFits, Extends
      <4>2. y.lost \subseteq 1..y.done
        BY <2>1, <2>5, <3>3, <4>1
      <4> QED BY <1>5, <3>2, <3>5, <4>2 DEF OutputFits
    <3>9. ASSUME ~y.failed PROVE Symbolled(y)
      <4>1. ~x.failed
        BY <2>1, <3>9
      <4>2. \A i \in DOMAIN y.out : y.out[i].k \notin {"row", "object"}
        BY <3>2 DEF Rows, HasRow
      <4>3. \A i \in DOMAIN y.out :
              RowNamed(y.out[i], y.opts, y.map_symbols, y.done, stream, source, told)
        BY <4>2, NoRowNamed
      <4>4. x.map_symbols /\ x.opts.encoding # "Dbn" =>
              MapCurrent(x.map, x.opts, x.done, stream, source, told)
        BY <4>1 DEF Sound, Symbolled, SymbolsOf
      <4>5. ~ (y.done < Before(source))
        BY <3>5 DEF Pieces, Before
      <4> QED BY <2>5, <3>2, <3>3, <4>3, <4>4, <4>5 DEF Symbolled, SymbolsOf
    <3>10. Symbolled(y)
      BY <3>9 DEF Symbolled, SymbolsOf
    <3> QED BY <2>3, <3>3, <3>6, <3>7, <3>8, <3>10 DEF Sound
  <2> QED BY <2>2, <2>4, <2>5 DEF Extends
<1> QED BY <1>6, <1>7

\* And so every turn leaves the transcoder sound.
LEMMA SoundTurn ==
    ASSUME SourceLeft, NEW t, IsTc(t), t.done \in Nat, Sound(t),
           ItemAt(stream[t.done + 1], t.done), NEW fails
    PROVE  Sound(Turn(t, stream[t.done + 1], fails))
<1> DEFINE item == stream[t.done + 1]
           x == process(t, item)
           y == Output(t, x, fails)
<1>0. /\ Pieces \in {0, 1} /\ (Pieces = 1 => ~source.frag)
      /\ t.done < Pieces \/ t.done >= Pieces
  BY DEF Pieces
<1>1. CASE t.res # "ok"
  BY <1>1 DEF Turn
<1>2. CASE t.res = "ok"
  <2> DEFINE Fine == IsTc(x) /\ x.opts = t.opts /\ Sound(x) /\ Extends(x, t)
  <2>1. ASSUME t.done < Pieces PROVE Fine
    <3> DEFINE c == MetadataIn(disk)
    <3>1. item.k = "metadata" /\ item.v = c
      BY <2>1 DEF ItemAt
    <3>2. t.done = 0 /\ ~source.frag
      BY <1>0, <2>1
    <3>3. FileLeft
      BY <3>2 DEF SourceLeft
    <3>4. Sound(process_metadata(t, c)) /\ Extends(process_metadata(t, c), t)
      BY <1>2, <3>2, <3>3, SoundMetadata, Zenon
    <3> HIDE DEF item, c
    <3>5. x = process_metadata(t, c)
      BY <3>1 DEF process
    <3>6. StepOf(process_metadata(t, c), t)
      BY MetadataStep, Zenon
    <3> HIDE DEF x
    <3>7. IsTc(x) /\ x.opts = t.opts
      BY <3>5, <3>6, Zenon DEF StepOf
    <3> QED BY <3>4, <3>5, <3>7, Zenon
  <2>2. ASSUME t.done >= Pieces PROVE Fine
    <3>1. IsRecord(item, SourceTs)
      BY <2>2 DEF ItemAt
    <3>2. x = process_record(t, item.v)
      BY <3>1 DEF process, IsRecord
    <3>3. Sound(process_record(t, item.v)) /\ Extends(process_record(t, item.v), t)
      BY <1>2, <2>2, <3>1, SoundRecord, Zenon
    <3>4. IsTc(process_record(t, item.v)) /\ process_record(t, item.v).opts = t.opts
      <4> HIDE DEF item
      <4> QED BY RecordStep, Zenon
    <3> HIDE DEF x, item
    <3> QED BY <3>2, <3>3, <3>4, Zenon
  <2>3. IsTc(x) /\ x.opts = t.opts /\ Sound(x) /\ Extends(x, t)
    BY <1>0, <2>1, <2>2
  <2> HIDE DEF x
  <2>4. Beside(y, x) /\ (AllWritten(y, t, x) \/ PartWritten(y, t, x))
    BY <2>3, OutputShape
  <2> HIDE DEF y
  <2>5. Sound(y)
    BY <2>3, <2>4, SoundOutput
  <2>6. Turn(t, item, fails) = y
    BY <1>2 DEF Turn, x, y
  <2> QED BY <2>5, <2>6
<1> QED BY <1>1, <1>2

\* And so does a call.
LEMMA LoopSound ==
    ASSUME SourceLeft, NEW t, TookComplete(t), Sound(t), NEW F,
           \A j \in 1..Complete(t.fed) : ItemAt(stream[j], j - 1)
    PROVE  Sound(Inner_encode(t, F))
<1> DEFINE n == Complete(t.fed) - t.done
           a == [t EXCEPT !.res = "ok"]
<1>1. IsTc(t) /\ t.done \in Nat /\ t.fed \in Nat /\ 2 * t.done <= t.fed
  BY DEF TookComplete
<1>2. n \in Nat /\ Complete(t.fed) = t.done + n
  BY <1>1 DEF Complete
<1>3. PICK f : Runs(f, n, a, t.done, F) /\ Inner_encode(t, F) = f[n]
  BY <1>2, LoopRuns
<1>4. Sound(a)
  <2>1. Same(a, t) /\ a.out = t.out /\ a.failed = t.failed /\ a.res = "ok"
    BY <1>1, TcResult
  <2>2. a.schema = t.schema /\ a.map_symbols = t.map_symbols /\ a.map = t.map
    BY <1>1, KeptSteps, MappedSteps DEF Kept, Mapped
  <2> HIDE DEF a
  <2>3. t.held \in 0..BUF_CAPACITY
    BY DEF Sound, OutputFits
  <2> QED BY <2>1, <2>2, <2>3, SoundAs DEF Same
<1> HIDE DEF n
<1>5. \A i \in 0..n : Turned(f[i], t, i)
  BY <1>1, <1>2, <1>3, LoopTurned
<1> HIDE DEF a
<1> DEFINE T == {i \in Nat : i <= n => Sound(f[i])}
<1>6. 0 \in T
  BY <1>3, <1>4 DEF Runs
<1>7. ASSUME NEW i \in Nat, i \in T PROVE i + 1 \in T
  <2>1. ASSUME i + 1 <= n PROVE Sound(f[i + 1])
    <3> DEFINE j == t.done + (i + 1)
               x == f[i]
    <3>1. /\ i \in 0..n /\ i <= n /\ i + 1 \in 1..n /\ (i + 1) - 1 = i
          /\ j \in 1..(t.done + n) /\ j - 1 = t.done + i
      BY <1>1, <1>2, <2>1
    <3>2. Sound(x) /\ Turned(x, t, i)
      BY <1>5, <1>7, <3>1
    <3>3. f[i + 1] = Turn(x, stream[j], j \in F)
      BY <1>3, <3>1 DEF Runs
    <3>4. ItemAt(stream[j], t.done + i)
      BY <1>2, <3>1
    <3> HIDE DEF x, j
    <3>5. IsTc(x) /\ x.done \in Nat /\ (x.res = "ok" => x.done = t.done + i)
      BY <3>2 DEF Turned
    <3>6. CASE x.res # "ok"
      BY <3>2, <3>3, <3>6 DEF Turn
    <3>7. CASE x.res = "ok"
      <4>1. j = x.done + 1
        BY <1>1, <3>5, <3>7 DEF j
      <4>2. ItemAt(stream[x.done + 1], x.done)
        BY <3>4, <3>5, <3>7, <4>1
      <4>3. Sound(Turn(x, stream[x.done + 1], j \in F))
        BY <3>2, <3>5, <4>2, SoundTurn
      <4> QED BY <3>3, <4>1, <4>3
    <3> QED BY <3>6, <3>7
  <2> QED BY <2>1
<1> HIDE DEF T
<1>8. \A i \in Nat : i \in T
  BY <1>6, <1>7, SetInduction
<1>9. Sound(f[n])
  BY <1>2, <1>8 DEF T
<1> QED BY <1>3, <1>9

-----------------------------------------------------------------------------
(* From the file that was left to what the transcoder has written of it. *)

\* The BufWriter may hold more or less, and nothing else be different.
LEMMA TcHeld ==
    ASSUME NEW t, IsTc(t), NEW h
    PROVE  LET x == [t EXCEPT !.held = h]
           IN  /\ IsTc(x) /\ x.opts = t.opts /\ x.fed = t.fed /\ x.done = t.done
               /\ x.out = t.out /\ x.res = t.res /\ x.failed = t.failed
               /\ x.held = h /\ x.lost = t.lost
               /\ x.schema = t.schema /\ x.ts_out = t.ts_out
               /\ x.map_symbols = t.map_symbols /\ x.map = t.map
BY DEF IsTc

\* A new transcoder has taken nothing, and written at most a header to CSV, which the BufWriter
\* has room for; and if there is no metadata to come, one to CSV was given the schema.
LEMMA NewTaken ==
    ASSUME NEW o, NEW fails
    PROVE  LET x == New(o, fails)
           IN  /\ IsTc(x) /\ x.opts = o /\ x.done = 0 /\ x.fed = 0
               /\ x.schema = o.schema /\ x.ts_out = o.ts_out
               /\ x.map = Historical(UserMap(o))
               /\ AddsLine(x.out, <<>>)
               /\ x.held \in 0..BUF_CAPACITY /\ x.lost = {}
               /\ o.encoding = "Dbn" \/ o.has_metadata => x.out = <<>>
               /\ o.encoding = "Csv" /\ ~o.has_metadata /\ x.res = "ok" => x.schema # "None"
<1> DEFINE n == o.map_symbols # "False"
           g == Historical(Given(o.symbol_interval_map))
           v == o.input_version
           ts == o.ts_out
           t == [opts |-> o, map_symbols |-> n, map |-> g, schema |-> o.schema,
                 version |-> v, ts_out |-> ts, out |-> <<>>,
                 held |-> 0, fed |-> 0, done |-> 0, lost |-> {}, res |-> "ok", failed |-> FALSE]
           z == encode_header_if_csv(t)
           h == IF fails THEN Len(z.out) ELSE 0
           w == [z EXCEPT !.held = h]
           x == New(o, fails)
<1>1. /\ x \in {t, Failing(t), w}
      /\ o.has_metadata => x \in {t, Failing(t)}
      /\ ~o.has_metadata => x \in {Failing(t), w}
  <2>1. x \in {t, Failing(t), HeaderHeld(z, fails)}
    BY Zenon DEF New
  <2>2. ~o.has_metadata => x \in {Failing(t), HeaderHeld(z, fails)}
    BY Zenon DEF New
  <2>3. o.has_metadata => x \in {t, Failing(t)}
    BY Zenon DEF New
  <2>4. HeaderHeld(z, fails) = w
    BY DEF HeaderHeld
  <2> HIDE DEF t, z, w, x
  <2> QED BY <2>1, <2>2, <2>3, <2>4
<1> HIDE DEF n, g, v, ts, x, h
<1>2. /\ IsTc(t) /\ t.opts = o /\ t.done = 0 /\ t.fed = 0 /\ t.out = <<>>
      /\ t.schema = o.schema /\ t.ts_out = ts /\ t.res = "ok" /\ t.map = g
      /\ t.held = 0 /\ t.lost = {}
  BY DEF IsTc
<1> HIDE DEF t
<1>3. Same(t, t) /\ Same(Failing(t), t) /\ Same(z, t)
  BY <1>2, FailingSame, HeaderSame DEF Same
<1>4. Failing(t).out = <<>> /\ Failing(t).schema = t.schema /\ Failing(t).res = "err"
  BY <1>2, FailingSame, KeptSteps DEF Kept
<1>5. z.schema = t.schema /\ AddsLine(z.out, <<>>)
  BY <1>2, HeaderLine
<1>6. z.map = t.map /\ Failing(t).map = t.map
  BY <1>2, MappedSteps DEF Mapped
<1>7. o.encoding = "Dbn" => z = t
  BY <1>2 DEF encode_header_if_csv
<1>8. o.encoding = "Csv" => (z.schema = "None" => z.res = "err")
  BY <1>2, HeaderNeedsSchema
<1> HIDE DEF z
<1>9. /\ IsTc(w) /\ w.opts = z.opts /\ w.fed = z.fed /\ w.done = z.done
      /\ w.out = z.out /\ w.res = z.res /\ w.failed = z.failed
      /\ w.held = h /\ w.lost = z.lost
      /\ w.schema = z.schema /\ w.ts_out = z.ts_out
      /\ w.map_symbols = z.map_symbols /\ w.map = z.map
  <2>1. IsTc(z)
    BY <1>3 DEF Same
  <2> QED BY <2>1, TcHeld
<1> HIDE DEF w
<1>10. h \in 0..BUF_CAPACITY
  <2>1. BUF_CAPACITY \in Nat \ {0}
    BY TranscoderAssumption
  <2>2. Len(z.out) \in 0..1
    <3>1. Len(<<>>) = 0 /\ \A c : Len(Append(<<>>, c)) = 1
      OBVIOUS
    <3>2. CASE z.out = <<>>
      BY <3>1, <3>2
    <3>3. CASE z.out # <<>>
      <4>1. PICK c : z.out = Append(<<>>, c)
        BY <1>5, <3>3 DEF AddsLine
      <4> QED BY <3>1, <4>1
    <3> QED BY <3>2, <3>3
  <2>3. h = Len(z.out) \/ h = 0
    BY Zenon DEF h
  <2>4. Len(z.out) \in 0..BUF_CAPACITY /\ 0 \in 0..BUF_CAPACITY
    BY <2>1, <2>2
  <2> QED BY <2>3, <2>4, Zenon
<1>11. AddsLine(<<>>, <<>>) /\ 0 \in 0..BUF_CAPACITY
  BY TranscoderAssumption DEF AddsLine
<1>12. CASE x = w
  <2>1. /\ IsTc(x) /\ x.opts = o /\ x.done = 0 /\ x.fed = 0
        /\ x.schema = o.schema /\ x.ts_out = ts /\ x.map = g
        /\ AddsLine(x.out, <<>>) /\ x.held \in 0..BUF_CAPACITY /\ x.lost = {}
    BY <1>2, <1>3, <1>5, <1>6, <1>9, <1>10, <1>12 DEF Same
  <2>2. o.encoding = "Dbn" \/ o.has_metadata => x.out = <<>>
    BY <1>1, <1>2, <1>4, <1>7, <1>9, <1>12
  <2>3. o.encoding = "Csv" /\ ~o.has_metadata /\ x.res = "ok" => x.schema # "None"
    BY <1>8, <1>9, <1>12
  <2> QED BY <2>1, <2>2, <2>3 DEF x, g, ts, UserMap
<1>13. CASE x \in {t, Failing(t)}
  <2>1. /\ IsTc(x) /\ x.opts = o /\ x.done = 0 /\ x.fed = 0
        /\ x.schema = o.schema /\ x.ts_out = ts /\ x.map = g
        /\ x.held = 0 /\ x.lost = {} /\ x.out = <<>>
    BY <1>2, <1>3, <1>4, <1>6, <1>13 DEF Same
  <2>2. o.encoding = "Csv" /\ ~o.has_metadata /\ x.res = "ok" => x.schema # "None"
    BY <1>1, <1>4, <1>8, <1>9
  <2> QED BY <1>11, <2>1, <2>2 DEF x, g, ts, UserMap
<1> QED BY <1>1, <1>12, <1>13

\* It has the user's map, and no row without a symbol.
LEMMA NewSymbolled ==
    ASSUME NEW t, NEW s, NEW src, NEW m, t.done = 0, IsSeq(t.out), Rows(t.out) = {},
           ~src.frag => t.out = <<>>, t.map = Historical(UserMap(t.opts))
    PROVE  SymbolsOf(t, s, src, m)
<1>1. \A i \in DOMAIN t.out : t.out[i].k \notin {"row", "object"}
  BY DEF Rows, HasRow
<1>2. \A i \in DOMAIN t.out : RowNamed(t.out[i], t.opts, t.map_symbols, t.done, s, src, m)
  BY <1>1, NoRowNamed
<1>3. t.done < Before(src) => t.out = <<>>
  BY DEF Before
<1>4. MapCurrent(t.map, t.opts, t.done, s, src, m)
  <2>1. CASE src.frag
    BY <2>1 DEF MapCurrent, Before, NamesFor
  <2>2. CASE ~src.frag
    BY <2>2 DEF MapCurrent, Before
  <2> QED BY <2>1, <2>2
<1> QED BY <1>2, <1>3, <1>4 DEF SymbolsOf

\* The stream of a file is its metadata, and then its records, and that of a fragment the
\* records.
SourceStream ==
  stream = (IF source.frag THEN <<>>
            ELSE << [k |-> "metadata", v |-> MetadataIn(disk)] >>) \o RecordsIn(disk)

\* What was left has records.
LEMMA SourceRecords ==
    ASSUME SourceLeft
    PROVE  AreRecs(RecordsIn(disk), SourceTs)
<1>1. CASE source.frag
  <2>1. AreRecs(disk, SourceTs)
    BY <1>1 DEF SourceLeft, SourceTs
  <2>2. IsSeq(disk) /\ DOMAIN disk = 1..Len(disk)
    BY <2>1, LenProperties DEF AreRecs, IsSeq
  <2>3. \A i \in DOMAIN disk : IsRecord(disk[i], SourceTs)
    BY <2>1, <2>2 DEF AreRecs
  <2> QED BY <2>2, <2>3, RecordsSelected
<1>2. CASE ~source.frag
  BY <1>2, FileMetadata DEF SourceLeft, FileLeft, SourceTs
<1> QED BY <1>1, <1>2

\* The items of the stream are in their places.
LEMMA StreamItems ==
    ASSUME SourceLeft, SourceStream
    PROVE  /\ Len(stream) \in Nat /\ DOMAIN stream = 1..Len(stream)
           /\ \A j \in 1..Len(stream) : ItemAt(stream[j], j - 1)
<1> DEFINE c == [k |-> "metadata", v |-> MetadataIn(disk)]
           a == <<c>>
           b == RecordsIn(disk)
<1>1. AreRecs(b, SourceTs)
  BY SourceRecords
<1> HIDE DEF b, c
<1>2. /\ IsSeq(b) /\ Len(b) \in Nat /\ DOMAIN b = 1..Len(b)
      /\ \A i \in 1..Len(b) : IsRecord(b[i], SourceTs)
  BY <1>1, LenProperties DEF AreRecs, IsSeq
<1>3. CASE source.frag
  <2>1. stream = b
    <3>1. stream = <<>> \o b
      BY <1>3 DEF SourceStream, b
    <3>2. <<>> \o b = b
      BY <1>2, IsSeqEmpty
    <3> QED BY <3>1, <3>2
  <2>2. \A j \in 1..Len(stream) : IsRecord(stream[j], SourceTs) /\ ~ (j - 1 < Pieces)
    BY <1>2, <1>3, <2>1 DEF Pieces
  <2> QED BY <1>2, <2>1, <2>2 DEF ItemAt
<1>4. CASE ~source.frag
  <2>1. IsSeq(a) /\ Len(a) = 1 /\ a[1] = c
    <3>1. a \in Seq({c}) /\ Len(a) = 1 /\ a[1] = c
      OBVIOUS
    <3> QED BY <3>1, SeqIsSeq
  <2> HIDE DEF a
  <2>2. stream = a \o b
    BY <1>4 DEF SourceStream, a, b, c
  <2>3. /\ Len(stream) = 1 + Len(b) /\ DOMAIN stream = 1..(1 + Len(b)) /\ stream[1] = c
        /\ \A i \in 1..Len(b) : stream[1 + i] = b[i]
    <3> DEFINE w == a \o b
    <3>1. /\ Len(w) = Len(a) + Len(b) /\ DOMAIN w = 1..(Len(a) + Len(b))
          /\ \A i \in 1..Len(a) : w[i] = a[i]
          /\ \A i \in 1..Len(b) : w[Len(a) + i] = b[i]
      <4>1. IsSeq(a) /\ IsSeq(b)
        BY <1>2, <2>1
      <4> QED BY <4>1, IsSeqConcat, SMTT(40)
    <3> HIDE DEF w
    <3>2. 1 \in 1..Len(a)
      BY <2>1
    <3>3. stream = w
      BY <2>2 DEF w
    <3> QED BY <2>1, <3>1, <3>2, <3>3
  <2>4. Pieces = 1
    BY <1>4 DEF Pieces
  <2>5. ASSUME NEW j \in 1..Len(stream) PROVE ItemAt(stream[j], j - 1)
    <3>1. CASE j = 1
      <4>1. stream[j] = c /\ ~ (j - 1 >= Pieces)
        BY <2>3, <2>4, <3>1
      <4> QED BY <4>1 DEF ItemAt, c
    <3>2. CASE j # 1
      <4>1. j - 1 \in 1..Len(b) /\ 1 + (j - 1) = j /\ ~ (j - 1 < Pieces)
        BY <1>2, <2>3, <2>4, <3>2
      <4>2. IsRecord(stream[j], SourceTs)
        BY <1>2, <2>3, <4>1
      <4> QED BY <4>1, <4>2 DEF ItemAt
    <3> QED BY <3>1, <3>2
  <2> QED BY <1>2, <2>3, <2>5
<1> QED BY <1>3, <1>4

\* A transcoder that was given no more than there is.
FileTaken(t) == t.fed <= 2 * Len(stream) /\ Sound(t)

\* Its next call leaves it so.
LEMMA FileCall ==
    ASSUME SourceLeft, SourceStream, NEW t, TookComplete(t), FileTaken(t), NEW F
    PROVE  FileTaken(Inner_encode(t, F))
<1> DEFINE x == Inner_encode(t, F)
<1>1. x.opts = t.opts /\ x.fed = t.fed
  BY LoopCounts
<1>2. Len(stream) \in Nat /\ \A j \in 1..Len(stream) : ItemAt(stream[j], j - 1)
  BY StreamItems
<1>3. ASSUME NEW j \in 1..Complete(t.fed) PROVE ItemAt(stream[j], j - 1)
  <2>1. t.fed \in Nat /\ t.fed <= 2 * Len(stream)
    BY DEF TookComplete, FileTaken
  <2>2. j \in 1..Len(stream)
    BY <1>2, <2>1 DEF Complete
  <2> QED BY <1>2, <2>2
<1>4. Sound(x)
  BY <1>3, LoopSound DEF FileTaken
<1> HIDE DEF x
<1>5. FileTaken(x)
  BY <1>1, <1>4 DEF FileTaken
<1> QED BY <1>5 DEF x

\* Being given more changes nothing else.
LEMMA GivenMore ==
    ASSUME NEW t, TookComplete(t), NEW n \in Nat
    PROVE  LET x == [t EXCEPT !.fed = @ + n]
           IN  /\ TookComplete(x) /\ x.fed = t.fed + n /\ x.opts = t.opts
               /\ Sound(t) => Sound(x)
<1> DEFINE a == t.fed + n
           x == [t EXCEPT !.fed = a]
<1>1. IsTc(t) /\ t.done \in Nat /\ t.fed \in Nat /\ 2 * t.done <= t.fed
  BY DEF TookComplete
<1>2. a \in Nat /\ 2 * t.done <= a
  BY <1>1
<1> HIDE DEF a
<1>3. /\ IsTc(x) /\ x.opts = t.opts /\ x.fed = a /\ x.done = t.done
      /\ x.out = t.out /\ x.res = t.res /\ x.failed = t.failed
      /\ x.held = t.held /\ x.lost = t.lost
      /\ x.schema = t.schema /\ x.ts_out = t.ts_out
      /\ x.map_symbols = t.map_symbols /\ x.map = t.map
  BY <1>1, TcFed
<1> HIDE DEF x
<1>4. TookComplete(x)
  BY <1>1, <1>2, <1>3 DEF TookComplete
<1>5. ASSUME Sound(t) PROVE Sound(x)
  <2>1. x.held \in 0..BUF_CAPACITY
    BY <1>3, <1>5 DEF Sound, OutputFits
  <2> QED BY <1>3, <1>5, <2>1, SoundAs
<1> QED BY <1>3, <1>4, <1>5 DEF x, a

\* A flush of the output changes how much is held, or fails.
LEMMA FlushKept ==
    ASSUME NEW t, TookComplete(t), NEW b
    PROVE  LET x == Flushed(t, b)
           IN  /\ TookComplete(x) /\ x.fed = t.fed /\ x.done = t.done
               /\ x.res = "ok" => t.res = "ok"
               /\ Sound(t) => Sound(x)
<1> DEFINE x == Flushed(t, b)
           e == [t EXCEPT !.held = 0]
<1>1. IsTc(t) /\ (x = t \/ x = Failing(t) \/ x = e)
  BY Zenon DEF TookComplete, Flushed
<1>2. /\ Same(Failing(t), t) /\ Failing(t).res = "err" /\ Failing(t).failed = TRUE
      /\ Failing(t).out = t.out /\ Failing(t).schema = t.schema
      /\ Failing(t).map_symbols = t.map_symbols /\ Failing(t).map = t.map
  BY <1>1, FailingSame, KeptSteps, MappedSteps DEF Kept, Mapped
<1>3. /\ IsTc(e) /\ e.opts = t.opts /\ e.fed = t.fed /\ e.done = t.done
      /\ e.out = t.out /\ e.res = t.res /\ e.failed = t.failed
      /\ e.held = 0 /\ e.lost = t.lost
      /\ e.schema = t.schema /\ e.ts_out = t.ts_out
      /\ e.map_symbols = t.map_symbols /\ e.map = t.map
  BY <1>1, TcHeld
<1> HIDE DEF x, e
<1>4. /\ IsTc(x) /\ x.opts = t.opts /\ x.fed = t.fed /\ x.done = t.done
      /\ x.out = t.out /\ (x.res = t.res \/ x.res # "panic") /\ (t.failed => x.failed)
      /\ (x.held = t.held \/ x.held = 0) /\ x.lost = t.lost
      /\ x.schema = t.schema /\ x.ts_out = t.ts_out
      /\ x.map_symbols = t.map_symbols /\ x.map = t.map
      /\ (x.res = "ok" => t.res = "ok")
  <2>1. CASE x = t
    BY <1>1, <2>1
  <2>2. CASE x = Failing(t)
    BY <1>2, <2>2 DEF Same
  <2>3. CASE x = e
    BY <1>3, <2>3
  <2> QED BY <1>1, <2>1, <2>2, <2>3
<1>5. TookComplete(x)
  BY <1>4 DEF TookComplete
<1>6. ASSUME Sound(t) PROVE Sound(x)
  <2>1. x.held \in 0..BUF_CAPACITY
    <3>1. t.held \in 0..BUF_CAPACITY
      BY <1>6 DEF Sound, OutputFits
    <3> QED BY <1>4, <3>1, TranscoderAssumption
  <2> QED BY <1>4, <1>6, <2>1, SoundAs
<1>7. /\ TookComplete(x) /\ x.fed = t.fed /\ x.done = t.done
      /\ (x.res = "ok" => t.res = "ok") /\ (Sound(t) => Sound(x))
  BY <1>4, <1>5, <1>6
<1> QED BY <1>7 DEF x

\* What every transcoder has taken, and what one has written of a file.
TcInv ==
  tc # NoTranscoder =>
    pc = "left" /\ TookComplete(tc) /\ (tc.res = "ok" => 2 * tc.done + 1 >= tc.fed)

FileInv ==
  /\ pc = "left" /\ ~source.dbz => SourceLeft /\ AreChunks(disk)
  /\ tc # NoTranscoder => ~source.dbz /\ SourceStream /\ FileTaken(tc)

\* The command has no transcoder.
LEMMA CliLeaves ==
    ASSUME TcInv, Cli
    PROVE  TcInv' /\ FileInv'
<1>1. pc # "left" /\ pc' # "left"
  BY DEF Cli, CliNext, OpenFails, OpenInput, OutputExists, NotInferred, EncodeMetadata, Build,
         EncodeNext, DecodeFails, Spill, Finish, SinkFails, WriteFails, Exit, Opened
<1>2. tc' = NoTranscoder
  BY <1>1 DEF TcInv, Cli
<1> QED BY <1>1, <1>2 DEF TcInv, FileInv

\* What it leaves is a fragment, or a file with its metadata.
LEMMA LeaveFile ==
    ASSUME WrittenInv, TcInv, Leave
    PROVE  TcInv' /\ FileInv'
<1>1. tc' = NoTranscoder
  BY DEF TcInv, Leave
<1>2. ASSUME ~source'.dbz PROVE SourceLeft' /\ AreChunks(disk')
  <2>1. /\ source'.frag = IsFragment /\ source'.dbz = (input.kind = "dbz" /\ ~args.upgrade)
        /\ source'.ts_out = ts_out /\ disk' = disk
    BY DEF Leave
  <2>2. ~ (input.kind = "dbz" /\ ~args.upgrade)
    BY <1>2, <2>1
  <2>3. EndedWell /\ ~faulty /\ ToDbn
    BY DEF Leave, EndedWell, ToDbn
  <2>4. IsOutput(disk) /\ (input.kind # "frag" => MetaOk)
    BY <2>3 DEF WrittenInv
  <2>5. CASE IsFragment
    BY <2>1, <2>4, <2>5 DEF IsOutput, SourceLeft
  <2>6. CASE ~IsFragment
    <3>1. told' = TheMeta
      BY <2>6 DEF Leave, TheMeta
    <3>2. TheMeta \in Metadata /\ TheMeta.version # 0
      <4>1. CASE input.kind = "frag"
        <5>1. TheMeta = DummyMetadata
          BY <4>1 DEF TheMeta
        <5>2. DummyMetadata.version # 0
          BY DEF DummyMetadata, CURRENT_VERSION
        <5> QED BY <5>1, <5>2, DummyIsMetadata
      <4>2. CASE input.kind # "frag"
        BY <2>2, <2>4, <4>2 DEF TheMeta, MetaOk
      <4> QED BY <4>1, <4>2
    <3>3. IsFile(disk, TheMeta) /\ AreChunks(disk)
      BY <2>4, <2>6 DEF IsOutput
    <3>4. FileLeft'
      BY <2>1, <3>1, <3>2, <3>3 DEF FileLeft
    <3> QED BY <2>1, <2>6, <3>3, <3>4 DEF SourceLeft
  <2> QED BY <2>5, <2>6
<1> QED BY <1>1, <1>2 DEF TcInv, FileInv

\* An update leaves a file with its metadata.
LEMMA UpdateFile ==
    ASSUME FileInv, NEW u \in Updates, UpdateEncodedMetadata(u)
    PROVE  TcInv' /\ FileInv'
<1>1. tc' = NoTranscoder /\ source' = source /\ pc' = pc /\ ~source.frag
  BY DEF UpdateEncodedMetadata
<1>2. ASSUME ~source.dbz PROVE FileLeft' /\ AreChunks(disk')
  <2>1. told \in Metadata /\ told.version # 0 /\ IsFile(disk, told) /\ AreChunks(disk)
    BY <1>1, <1>2 DEF FileInv, SourceLeft, FileLeft, UpdateEncodedMetadata
  <2>2. u \in [start : Nat, end : OptionalTime, limit : OptionalNum]
    BY UpdatesAssumption
  <2>3. /\ disk' = update_encoded(disk, disk[2].v, u.start, u.end, u.limit)
        /\ told' = Reranged(told, u)
    BY DEF UpdateEncodedMetadata, Reranged
  <2>4. Reranged(told, u) \in Metadata /\ Reranged(told, u).version = told.version
    BY <2>1, <2>2, RerangedParts
  <2>5. IsFile(disk', told') /\ AreChunks(disk')
    BY <2>1, <2>2, <2>3, FileUpdated
  <2> QED BY <2>1, <2>3, <2>4, <2>5 DEF FileLeft
<1>3. ~source.dbz => SourceLeft' /\ AreChunks(disk')
  BY <1>1, <1>2 DEF SourceLeft
<1> QED BY <1>1, <1>3 DEF TcInv, FileInv

\* A transcoder starts with the stream of what was left.
LEMMA StartFile ==
    ASSUME FileInv, NEW o \in Options, StartTranscoder(o)
    PROVE  TcInv' /\ FileInv'
<1>0. PICK fails \in BOOLEAN :
        LET t == New(o, fails)
        IN  \/ t.res = "ok" /\ tc' = t /\ pc' = pc
            \/ pc' = "refused" /\ tc' = tc
  BY DEF StartTranscoder
<1> DEFINE t == New(o, fails)
<1>1. /\ pc = "left" /\ tc = NoTranscoder /\ ~source.dbz
      /\ source' = source /\ told' = told /\ disk' = disk
      /\ o.has_metadata = ~source.frag /\ (source.frag => o.ts_out = source.ts_out)
      /\ \/ t.res = "ok" /\ tc' = t /\ pc' = pc
         \/ pc' = "refused" /\ tc' = tc
      /\ stream' = (IF source.frag THEN <<>>
                    ELSE << [k |-> "metadata", v |-> MetadataIn(disk)] >>) \o RecordsIn(disk)
  BY <1>0 DEF StartTranscoder, Fit
<1>2. CASE pc' = "refused" /\ tc' = tc
  BY <1>1, <1>2 DEF TcInv, FileInv
<1>3. CASE t.res = "ok" /\ tc' = t /\ pc' = pc
  <2>1. /\ IsTc(t) /\ t.opts = o /\ t.done = 0 /\ t.fed = 0
        /\ t.schema = o.schema /\ t.ts_out = o.ts_out /\ AddsLine(t.out, <<>>)
        /\ t.map = Historical(UserMap(o))
        /\ t.held \in 0..BUF_CAPACITY /\ t.lost = {}
        /\ o.encoding = "Dbn" \/ o.has_metadata => t.out = <<>>
        /\ o.encoding = "Csv" /\ ~o.has_metadata /\ t.res = "ok" => t.schema # "None"
    BY NewTaken
  <2> HIDE DEF t
  <2>2. TookComplete(t) /\ 2 * t.done + 1 >= t.fed
    BY <2>1 DEF TookComplete
  <2>3. TcInv'
    BY <1>1, <1>3, <2>2 DEF TcInv, TookComplete, IsTc
  <2>4. SourceLeft' /\ AreChunks(disk')
    BY <1>1 DEF FileInv, SourceLeft, FileLeft
  <2>5. SourceStream'
    BY <1>1 DEF SourceStream
  <2>6. (Len(stream) \in Nat)'
    BY <2>4, <2>5, StreamItems
  <2>7. IsSeq(t.out) /\ Rows(t.out) = {}
    BY <2>1, LineAdded
  <2>8. /\ (Pieces + 1 .. 0)' = {} /\ (~source.frag => Pieces' = 1)
        /\ (source.frag => Pieces' = 0)
    BY <1>1 DEF Pieces
  <2>9. Carries(RowsOf(t.out), Selected(stream', {}))
    BY <2>7, CarriesNone
  <2>18. (tc.done < Pieces)' => t.out = <<>>
    <3>1. CASE source.frag
      BY <1>1, <1>3, <2>1, <2>8, <3>1
    <3>2. CASE ~source.frag
      <4>1. o.has_metadata
        BY <1>1, <3>2
      <4> QED BY <2>1, <4>1
    <3> QED BY <3>1, <3>2
  <2>19. Unlost(tc)' = {}
    BY <1>3, <2>1, <2>8 DEF Unlost
  <2>10. ASSUME o.encoding = "Dbn" PROVE Good(tc)'
    <3>1. tc'.out = t.out /\ t.out = <<>> /\ tc'.done = 0 /\ ~ (tc'.done > 0)
      BY <1>3, <2>1, <2>10
    <3>2. Passed(tc.out, Unlost(tc))'
      BY <2>9, <2>19, <3>1 DEF Passed
    <3> QED BY <2>7, <3>1, <3>2 DEF Good
  <2>11. Rowed(tc)'
    <3>1. tc'.out = t.out /\ tc'.done = 0
      BY <1>3, <2>1
    <3>2. Wanted(tc)' = {}
      BY <2>19 DEF Wanted
    <3>3. Passed(tc.out, Wanted(tc))'
      BY <2>9, <3>1, <3>2 DEF Passed
    <3> QED BY <2>7, <2>18, <3>1, <3>3 DEF Rowed
  <2>12. SchemaKnown(tc)'
    <3>1. CASE source.frag
      BY <1>1, <1>3, <2>1, <3>1 DEF SchemaKnown
    <3>2. CASE ~source.frag
      <4>1. ~ (tc'.done >= Pieces')
        BY <1>3, <2>1, <2>8, <3>2
      <4> QED BY <4>1 DEF SchemaKnown
    <3> QED BY <3>1, <3>2
  <2>13. Informed(tc)'
    <3>1. IsOptions(o)
      BY TranscoderAssumption
    <3>2. tc'.opts = o /\ o.encoding \in {"Dbn", "Csv", "Json"} /\ tc'.schema \in Schemas
      BY <1>3, <2>1, <3>1, SameNames DEF IsOptions, Schemas
    <3>3. (tc.done >= Pieces)' => (tc.ts_out = SourceTs)'
      <4>1. CASE source.frag
        BY <1>1, <1>3, <2>1, <4>1 DEF SourceTs
      <4>2. CASE ~source.frag
        BY <1>3, <2>1, <2>8, <4>2
      <4> QED BY <4>1, <4>2
    <3> QED BY <3>2, <3>3 DEF Informed
  <2>14. Calm(tc)'
    BY <1>3 DEF Calm
  <2>15. Symbolled(tc)'
    <3>1. ~source.frag => t.out = <<>>
      BY <1>1, <2>1
    <3>2. \A s : SymbolsOf(t, s, source, told)
      BY <2>1, <2>7, <3>1, NewSymbolled
    <3>3. SymbolsOf(tc', stream', source', told')
      BY <1>1, <1>3, <3>2
    <3> QED BY <3>3 DEF Symbolled
  <2>20. OutputFits(tc)'
    BY <1>3, <2>1, <2>7, <2>18 DEF OutputFits
  <2>16. Sound(tc)'
    <3>1. tc'.opts = o
      BY <1>3, <2>1
    <3> QED BY <2>10, <2>11, <2>12, <2>13, <2>14, <2>15, <2>20, <3>1 DEF Sound
  <2>17. FileTaken(tc)'
    BY <1>3, <2>1, <2>6, <2>16 DEF FileTaken
  <2> QED BY <1>1, <1>3, <2>3, <2>4, <2>5, <2>17 DEF FileInv
<1> QED BY <1>1, <1>2, <1>3

\* A call of a transcoder that was given so much.
LEMMA CallKept ==
    ASSUME TcInv, FileInv, tc # NoTranscoder, NEW t, TookComplete(t),
           FileTaken(tc) => FileTaken(t), NEW F, NEW x,
           x = Inner_encode(t, F) \/ \E b : x = Flushed(Inner_encode(t, F), b), tc' = x,
           UNCHANGED <<pc, source, told, disk, stream>>
    PROVE  TcInv' /\ FileInv'
<1> DEFINE y == Inner_encode(t, F)
<1>1. TookComplete(y) /\ (y.res = "ok" => 2 * y.done + 1 >= y.fed)
  BY LoopCounts
<1>2. SourceLeft /\ SourceStream /\ FileTaken(t)
  BY DEF FileInv, TcInv
<1>3. FileTaken(y)
  BY <1>2, FileCall
<1> HIDE DEF y
<1>4. TookComplete(x) /\ (x.res = "ok" => 2 * x.done + 1 >= x.fed) /\ FileTaken(x)
  <2>1. CASE x = y
    BY <1>1, <1>3, <2>1
  <2>2. ASSUME NEW b, x = Flushed(y, b)
        PROVE  TookComplete(x) /\ (x.res = "ok" => 2 * x.done + 1 >= x.fed) /\ FileTaken(x)
    <3>1. /\ TookComplete(x) /\ x.fed = y.fed /\ x.done = y.done
          /\ x.res = "ok" => y.res = "ok"
          /\ Sound(y) => Sound(x)
      BY <1>1, <2>2, FlushKept
    <3> QED BY <1>1, <1>3, <3>1 DEF FileTaken
  <2> QED BY <2>1, <2>2 DEF y
<1>5. TcInv'
  BY <1>4 DEF TcInv, TookComplete
<1>6. FileTaken(tc)'
  BY <1>4 DEF FileTaken, Sound, Good, Rowed, SchemaKnown, Informed, Calm, Passed, Unlost, Wanted,
              WantedBy, OutputFits, Pieces, SourceTs, Symbolled
<1>7. FileInv'
  BY <1>2, <1>6 DEF FileInv, TcInv, SourceLeft, SourceStream, FileLeft
<1> QED BY <1>5, <1>7

\* Both calls are such.
LEMMA TranscodeFile ==
    ASSUME TcInv, FileInv, Transcode
    PROVE  TcInv' /\ FileInv'
<1>1. UNCHANGED <<pc, source, told, disk, stream>> /\ tc # NoTranscoder /\ TookComplete(tc)
  BY DEF Transcode, Write, Flush, Usable, TcInv
<1>2. ASSUME NEW n \in WriteSizes, Write(n) PROVE TcInv' /\ FileInv'
  <2> DEFINE t == [tc EXCEPT !.fed = @ + n]
  <2>1. PICK F : tc.fed + n <= 2 * Len(stream) /\ tc' = Inner_encode(t, F)
    BY <1>2 DEF Write
  <2>2. TookComplete(t) /\ t.fed = tc.fed + n /\ t.opts = tc.opts
        /\ (Sound(tc) => Sound(t))
    <3>1. n \in Nat
      BY TranscoderAssumption
    <3> QED BY <1>1, <3>1, GivenMore
  <2> HIDE DEF t
  <2>3. FileTaken(tc) => FileTaken(t)
    BY <2>1, <2>2 DEF FileTaken
  <2> QED BY <1>1, <2>1, <2>2, <2>3, CallKept
<1>3. ASSUME Flush PROVE TcInv' /\ FileInv'
  <2>1. PICK F : \E b : tc' = Flushed(Inner_encode(tc, F), b)
    BY <1>3 DEF Flush
  <2> QED BY <1>1, <2>1, CallKept
<1> QED BY <1>2, <1>3 DEF Transcode

\* Every step keeps the file, and what is written of it.
LEMMA FilesKept ==
    ASSUME WrittenInv, TcInv, FileInv, [Next]_vars
    PROVE  TcInv' /\ FileInv'
<1>1. ASSUME UNCHANGED vars PROVE TcInv' /\ FileInv'
  BY <1>1 DEF vars, TcInv, FileInv, SourceLeft, FileLeft, SourceStream, FileTaken, Sound, Good,
              Rowed, SchemaKnown, Informed, Calm, Passed, Unlost, Wanted, WantedBy, OutputFits,
              Pieces, SourceTs, Symbolled
<1> QED BY <1>1, CliLeaves, LeaveFile, TranscodeFile, UpdateFile, StartFile DEF Next

\* There is no file yet.
LEMMA FilesInitially == Init => TcInv /\ FileInv
BY DEF Init, CliInit, TcInv, FileInv

\* Upgrading metadata never makes its version 0.
LEMMA UpgradedVersion ==
    ASSUME NEW m \in Metadata, m.version # 0, NEW p
    PROVE  upgrade(m, p).version # 0
<1>1. m.version \in 0..3
  BY DEF Metadata, CURRENT_VERSION
<1>2. /\ \A x, y : [m EXCEPT !.version = x, !.symbol_cstr_len = y].version = x
      /\ \A x : [m EXCEPT !.version = x].version = x
      /\ \A x : [m EXCEPT !.symbol_cstr_len = x].version = m.version
  BY DEF Metadata
<1> QED BY <1>1, <1>2 DEF upgrade

\* The command, the update of a file in place and the transcoder, together.
THEOREM FilesInvariant == Spec => [](CliInv /\ WrittenInv /\ TcInv /\ FileInv)
<1>1. Init => CliInv /\ WrittenInv /\ TcInv /\ FileInv
  BY CliInitially, WrittenInitially, FilesInitially
<1>2. CliInv /\ WrittenInv /\ TcInv /\ FileInv /\ [Next]_vars
        => (CliInv /\ WrittenInv /\ TcInv /\ FileInv)'
  BY CliKept, WrittenKept, FilesKept
<1> QED BY <1>1, <1>2, PTL DEF Spec

\* A DBN file that the command wrote and that was updated in place reads as the metadata it
\* should have, and so does what a Transcoder writes of it in DBN, upgraded.
THEOREM FilesAreReadBack == Spec => []FilesReadBack
<1>1. ASSUME FileInv, pc = "left", ~source.frag, ~source.dbz
      PROVE  /\ ReadsAs(disk, told)
             /\ tc # NoTranscoder =>
                  (tc.opts.encoding = "Dbn" /\ tc.done > 0 /\ ~tc.failed =>
                     ReadsAs(tc.out, upgrade(told, tc.opts.upgrade_policy)))
  <2>1. told \in Metadata /\ told.version # 0 /\ IsFile(disk, told)
    BY <1>1 DEF FileInv, SourceLeft, FileLeft
  <2>2. ReadsAs(disk, told)
    BY <2>1, FileReads
  <2>3. ASSUME tc # NoTranscoder, tc.opts.encoding = "Dbn", tc.done > 0, ~tc.failed
        PROVE  ReadsAs(tc.out, upgrade(told, tc.opts.upgrade_policy))
    <3> DEFINE q == upgrade(told, tc.opts.upgrade_policy)
    <3>1. Good(tc)
      BY <1>1, <2>3 DEF FileInv, FileTaken, Sound
    <3>2. IsFile(tc.out, q)
      BY <1>1, <2>3, <3>1 DEF Good
    <3>3. q \in Metadata /\ q.version # 0
      BY <2>1, UpgradedMetadata, UpgradedVersion
    <3> HIDE DEF q
    <3>4. ReadsAs(tc.out, q)
      BY <3>2, <3>3, FileReads
    <3> QED BY <3>4 DEF q
  <2> QED BY <2>2, <2>3
<1>2. FileInv => FilesReadBack
  BY <1>1 DEF FilesReadBack
<1> QED BY <1>2, FilesInvariant, PTL

\* The part of a stream that a Transcoder has taken, in whatever pieces it came and whatever its
\* encoding: nothing of an item that is not complete, and all that is unless the call failed.
PiecesTaken ==
  tc # NoTranscoder =>
    2 * tc.done <= tc.fed /\ (tc.res = "ok" => 2 * tc.done + 1 >= tc.fed)

\* However a stream is cut, a Transcoder takes just what is complete.
THEOREM CompleteIsTaken == Spec => []PiecesTaken
<1>1. TcInv => PiecesTaken
  BY DEF TcInv, TookComplete, PiecesTaken
<1> QED BY <1>1, FilesInvariant, PTL

\* What was written is what TranscodedExactly asks for.
LEMMA ExactlyPassed ==
    ASSUME TookComplete(tc), IsSeq(tc.out), Passed(tc.out, Wanted(tc)),
           tc.res = "ok" => 2 * tc.done + 1 >= tc.fed
    PROVE  TranscodedExactly
<1> DEFINE I == Wanted(tc)
           W == Selected(stream, I)
           R == RowsOf(tc.out)
<1>1. Carries(R, W)
  BY DEF Passed
<1>2. IsFiniteSet(I) /\ I \subseteq Nat
  <2>1. tc.done \in Nat /\ I \subseteq Pieces + 1 .. tc.done
    BY DEF TookComplete, Unlost, Wanted
  <2> HIDE DEF I
  <2> QED BY <2>1, ItemsFinite
<1> HIDE DEF I
<1>3. DOMAIN W = 1..Len(W)
  BY <1>2, SelectedSeq
<1>4. DOMAIN R = 1..Len(R)
  BY RowsFinite, SelectedSeq DEF RowsOf
<1> HIDE DEF W, R
<1>5. Ids(tc.out) = [i \in DOMAIN R |-> RowId(R[i])]
  BY DEF Ids, R, RowsOf
<1>6. Ids(tc.out) = [i \in DOMAIN W |-> W[i].v.id]
  BY <1>1, <1>3, <1>4, <1>5 DEF Carries
<1>7. {k \in Pieces + 1 .. tc.done : WantedBy(tc, stream[k].v)} \ tc.lost = I
  BY DEF I, Unlost, Wanted
<1> QED BY <1>6, <1>7 DEF TranscodedExactly, W

\* However a stream is cut into writes, and whenever the file fails, a Transcoder to DBN has
\* written each record that it consumed, but for those lost to a full buffer, once and in order.
THEOREM RecordsAreTranscoded ==
    Spec => [](tc # NoTranscoder /\ tc.opts.encoding = "Dbn" => TranscodedExactly)
<1>1. ASSUME TcInv, FileInv, tc # NoTranscoder, tc.opts.encoding = "Dbn"
      PROVE  TranscodedExactly
  <2>1. Wanted(tc) = Unlost(tc)
    BY <1>1 DEF Wanted, WantedBy
  <2>2. /\ TookComplete(tc) /\ Good(tc)
        /\ tc.res = "ok" => 2 * tc.done + 1 >= tc.fed
    BY <1>1 DEF TcInv, FileInv, FileTaken, Sound
  <2>3. IsSeq(tc.out) /\ Passed(tc.out, Wanted(tc))
    BY <2>1, <2>2 DEF Good
  <2> QED BY <2>2, <2>3, ExactlyPassed
<1>2. TcInv /\ FileInv => (tc # NoTranscoder /\ tc.opts.encoding = "Dbn" => TranscodedExactly)
  BY <1>1
<1> QED BY <1>2, FilesInvariant, PTL

\* And when the records have the lengths of their layouts, a Transcoder to CSV or JSON has
\* written a row for each that its encoding and schema take, but for those lost to a full
\* buffer, once and in order.
THEOREM RowsAreTranscoded ==
    ASSUME WellSizedInputs
    PROVE  Spec => []TranscodedExactly
<1>1. ASSUME TcInv, FileInv, tc # NoTranscoder PROVE TranscodedExactly
  <2>1. /\ TookComplete(tc) /\ Sound(tc)
        /\ tc.res = "ok" => 2 * tc.done + 1 >= tc.fed
    BY <1>1 DEF TcInv, FileInv, FileTaken
  <2>2. IsSeq(tc.out) /\ Passed(tc.out, Wanted(tc))
    <3>1. CASE tc.opts.encoding = "Dbn"
      <4>1. Wanted(tc) = Unlost(tc)
        BY <3>1 DEF Wanted, WantedBy
      <4> QED BY <2>1, <3>1, <4>1 DEF Sound, Good
    <3>2. CASE tc.opts.encoding # "Dbn"
      BY <2>1, <3>2 DEF Sound, Rowed
    <3> QED BY <3>1, <3>2
  <2> QED BY <2>1, <2>2, ExactlyPassed
<1>2. TcInv /\ FileInv => TranscodedExactly
  BY <1>1 DEF TranscodedExactly
<1> QED BY <1>2, FilesInvariant, PTL

\* What a call to DBN or JSON may lose, from t to x.
LosesOne(x, t) ==
  x.lost = t.lost \/ (x.res = "err" /\ x.lost = t.lost \cup {x.done})

\* A turn that loses its item returns the error.
LEMMA TurnLoses ==
    ASSUME NEW t, IsTc(t), t.done \in Nat, t.res = "ok", t.opts.encoding # "Csv", NEW item,
           NEW fails
    PROVE  LosesOne(Turn(t, item, fails), t)
<1> DEFINE a == process_metadata(t, item.v)
           b == process_record(t, item.v)
           x == process(t, item)
           y == Output(t, x, fails)
<1>1. x = a \/ x = b
  BY Zenon DEF process
<1>2. IsTc(a) /\ a.lost = t.lost
  <2>1. StepOf(a, t) /\ a.lost = t.lost
    BY MetadataStep
  <2> HIDE DEF a
  <2> QED BY <2>1 DEF StepOf
<1>3. IsTc(b) /\ b.lost = t.lost
  BY RecordStep
<1> HIDE DEF a, b, x
<1>4. Beside(y, x) /\ (AllWritten(y, t, x) \/ PartWritten(y, t, x))
  BY <1>1, <1>2, <1>3, OutputShape
<1> HIDE DEF y
<1>5. y.lost = t.lost \/ (y.res = "err" /\ y.lost = t.lost \cup {y.done})
  BY <1>1, <1>2, <1>3, <1>4 DEF Beside, AllWritten, PartWritten
<1>6. Turn(t, item, fails) = y
  BY DEF Turn, x, y
<1> QED BY <1>5, <1>6 DEF LosesOne

\* And there is no turn after it.
LEMMA LoopLoses ==
    ASSUME NEW t, TookComplete(t), t.opts.encoding # "Csv", NEW F
    PROVE  LosesOne(Inner_encode(t, F), t)
<1> DEFINE n == Complete(t.fed) - t.done
           a == [t EXCEPT !.res = "ok"]
<1>1. IsTc(t) /\ t.done \in Nat /\ t.fed \in Nat /\ 2 * t.done <= t.fed
  BY DEF TookComplete
<1>2. n \in Nat
  BY <1>1 DEF Complete
<1>3. PICK f : Runs(f, n, a, t.done, F) /\ Inner_encode(t, F) = f[n]
  BY <1>2, LoopRuns
<1>4. a.lost = t.lost
  BY <1>1, TcResult DEF Same
<1> HIDE DEF n
<1>5. \A i \in 0..n : Turned(f[i], t, i)
  BY <1>1, <1>2, <1>3, LoopTurned
<1> HIDE DEF a
<1> DEFINE T == {i \in Nat : i <= n => LosesOne(f[i], t)}
<1>6. 0 \in T
  BY <1>3, <1>4 DEF Runs, LosesOne
<1>7. ASSUME NEW i \in Nat, i \in T PROVE i + 1 \in T
  <2>1. ASSUME i + 1 <= n PROVE LosesOne(f[i + 1], t)
    <3> DEFINE j == t.done + (i + 1)
               x == f[i]
               y == f[i + 1]
    <3>1. i \in 0..n /\ i <= n /\ i + 1 \in 1..n /\ (i + 1) - 1 = i
      BY <1>2, <2>1
    <3>2. LosesOne(x, t) /\ Turned(x, t, i)
      BY <1>5, <1>7, <3>1
    <3>3. y = Turn(x, stream[j], j \in F)
      BY <1>3, <3>1 DEF Runs
    <3> HIDE DEF x, y, j
    <3>4. IsTc(x) /\ x.done \in Nat /\ x.opts = t.opts
      BY <3>2 DEF Turned
    <3>5. CASE x.res # "ok"
      <4>1. y = x
        BY <3>3, <3>5 DEF Turn
      <4> QED BY <3>2, <4>1 DEF y
    <3>6. CASE x.res = "ok"
      <4>1. LosesOne(y, x)
        BY <3>3, <3>4, <3>6, TurnLoses
      <4>2. x.lost = t.lost
        BY <3>2, <3>6 DEF LosesOne
      <4>3. LosesOne(y, t)
        BY <4>1, <4>2 DEF LosesOne
      <4> QED BY <4>3 DEF y
    <3> QED BY <3>5, <3>6
  <2> QED BY <2>1
<1> HIDE DEF T
<1>8. \A i \in Nat : i \in T
  BY <1>6, <1>7, SetInduction
<1>9. LosesOne(f[n], t)
  BY <1>2, <1>8 DEF T
<1> QED BY <1>3, <1>9

\* However the stream is cut and whenever the file fails, a call of a Transcoder to DBN or JSON
\* loses at most the item it stops at, and returns the error.
THEOREM LossesEndCalls == Spec => LossEndsCall
<1> DEFINE A == tc # NoTranscoder /\ tc' # NoTranscoder =>
                  (tc.opts.encoding # "Csv" /\ tc'.lost # tc.lost =>
                     tc'.res = "err" /\ tc'.lost = tc.lost \cup {tc'.done})
<1>1. ASSUME TcInv, Transcode, tc # NoTranscoder, tc.opts.encoding # "Csv"
      PROVE  LosesOne(tc', tc)
  <2>1. TookComplete(tc)
    BY <1>1 DEF TcInv
  <2>2. ASSUME NEW n \in WriteSizes, Write(n) PROVE LosesOne(tc', tc)
    <3> DEFINE a == tc.fed + n
               t == [tc EXCEPT !.fed = a]
    <3>1. PICK F : tc' = Inner_encode(t, F)
      BY <2>2 DEF Write
    <3>2. n \in Nat
      BY TranscoderAssumption
    <3>3. TookComplete(t) /\ t.opts = tc.opts
      BY <2>1, <3>2, GivenMore
    <3>4. t.lost = tc.lost
      <4> HIDE DEF a
      <4> QED BY <2>1, TcFed DEF TookComplete
    <3> HIDE DEF t
    <3>5. LosesOne(tc', t)
      BY <1>1, <3>1, <3>3, LoopLoses
    <3> QED BY <3>4, <3>5 DEF LosesOne
  <2>3. ASSUME Flush PROVE LosesOne(tc', tc)
    <3>1. PICK F, b : tc' = Flushed(Inner_encode(tc, F), b)
      BY <2>3 DEF Flush
    <3> DEFINE y == Inner_encode(tc, F)
    <3>2. LosesOne(y, tc) /\ IsTc(y)
      BY <1>1, <2>1, LoopLoses, LoopCounts DEF TookComplete
    <3> HIDE DEF y
    <3>3. /\ y.res # "ok" => tc' = y
          /\ tc' = y \/ tc' = Failing(y) \/ tc' = [y EXCEPT !.held = 0]
      BY <3>1, Zenon DEF Flushed, y
    <3>4. Failing(y).lost = y.lost /\ [y EXCEPT !.held = 0].lost = y.lost
      BY <3>2, FailingSame, TcHeld DEF Same
    <3>5. CASE y.res # "ok"
      BY <3>2, <3>3, <3>5
    <3>6. CASE y.res = "ok"
      <4>1. y.lost = tc.lost
        BY <3>2, <3>6 DEF LosesOne
      <4>2. tc'.lost = y.lost
        BY <3>3, <3>4
      <4> QED BY <4>1, <4>2 DEF LosesOne
    <3> QED BY <3>5, <3>6
  <2> QED BY <1>1, <2>2, <2>3 DEF Transcode
<1>2. TcInv /\ [Next]_vars => [A]_vars
  <2> SUFFICES ASSUME TcInv, Next PROVE A
    OBVIOUS
  <2>1. CASE Transcode
    BY <1>1, <2>1 DEF LosesOne
  <2>2. CASE Cli \/ Leave
    BY <2>2 DEF Cli, Leave
  <2>3. ASSUME NEW u \in Updates, UpdateEncodedMetadata(u) PROVE A
    BY <2>3 DEF UpdateEncodedMetadata
  <2>4. ASSUME NEW o \in Options, StartTranscoder(o) PROVE A
    BY <2>4 DEF StartTranscoder
  <2> QED BY <2>1, <2>2, <2>3, <2>4 DEF Next
<1> QED BY <1>2, FilesInvariant, PTL DEF Spec, LossEndsCall

\* LatestSymbol and SymbolOf are about the same items.
LEMMA SymbolOfIs ==
    ASSUME NEW k
    PROVE  SymbolOf(k) = SymbolFor(tc.opts, tc.map_symbols, k, stream, source, told)
<1>1. Pieces = Before(source)
  BY DEF Pieces, Before
<1>2. LatestSymbol(k) = LatestOf(stream, Before(source), stream[k].v.iid, k)
  BY <1>1 DEF LatestSymbol, LatestOf, Mappings
<1> QED BY <1>2 DEF SymbolOf, SymbolFor, NameOf, NamesFor, UserMap

\* Until a call fails, every row of a Transcoder names its instrument as the stream did when
\* the record came, or as the user's map or the file does on its day.
THEOREM SymbolsAreCurrent == Spec => []SymbolsCurrent
<1>1. ASSUME TcInv, FileInv, tc # NoTranscoder, ~tc.failed,
             NEW i \in DOMAIN tc.out, tc.out[i].k \in {"row", "object"}
      PROVE  \E k \in DOMAIN stream : /\ IsRec(stream[k]) /\ stream[k].v.id = tc.out[i].id
                                      /\ tc.out[i].sym = SymbolOf(k)
  <2>1. /\ Symbolled(tc) /\ SourceLeft /\ SourceStream /\ tc.fed <= 2 * Len(stream)
        /\ TookComplete(tc)
    BY <1>1 DEF FileInv, FileTaken, Sound, TcInv
  <2>2. PICK k \in Before(source) + 1 .. tc.done :
          /\ IsRec(stream[k]) /\ stream[k].v.id = tc.out[i].id
          /\ tc.out[i].sym = SymbolFor(tc.opts, tc.map_symbols, k, stream, source, told)
    BY <1>1, <2>1 DEF Symbolled, SymbolsOf, RowNamed
  <2>3. k \in DOMAIN stream
    <3>1. Len(stream) \in Nat /\ DOMAIN stream = 1..Len(stream)
      BY <2>1, StreamItems
    <3>2. tc.done \in Nat /\ tc.fed \in Nat /\ 2 * tc.done <= tc.fed
      BY <2>1 DEF TookComplete
    <3> QED BY <2>1, <3>1, <3>2 DEF Before
  <2> QED BY <2>2, <2>3, SymbolOfIs
<1>2. TcInv /\ FileInv => SymbolsCurrent
  BY <1>1 DEF SymbolsCurrent
<1> QED BY <1>2, FilesInvariant, PTL

\* encode_csv unwraps the schema of a record's turn.
UnwrapGuarded ==
  tc # NoTranscoder =>
    (tc.opts.encoding = "Csv" /\ tc.done >= Pieces /\ tc.schema = "None" => tc.failed)

\* Until a call fails, a Transcoder to CSV that is at a record has a schema: by then the header
\* was written, and without a schema that fails.
THEOREM SchemaIsKnown == Spec => []UnwrapGuarded
<1>1. FileInv => UnwrapGuarded
  BY DEF FileInv, FileTaken, Sound, SchemaKnown, UnwrapGuarded
<1> QED BY <1>1, FilesInvariant, PTL

\* So with such records the unwrap panics only for a user who goes on after an error, and no
\* dispatch on a record's type panics at all.
THEOREM PanicsOnlyAfterError ==
    ASSUME WellSizedInputs
    PROVE  Spec => []PanicOnlyAfterError
<1>1. FileInv => PanicOnlyAfterError
  BY DEF FileInv, FileTaken, Sound, Calm, PanicOnlyAfterError
<1> QED BY <1>1, FilesInvariant, PTL
=============================================================================
