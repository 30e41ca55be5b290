------------------------- MODULE MergeDecoderProofs -------------------------
(***************************************************************************)
(* Merging any number of streams of any length: the heap agrees with the   *)
(* decoders, MergeDecoder implements MergedStreams and opens streams late. *)
(***************************************************************************)
EXTENDS MergeDecoder, TLAPS, WellFoundedInduction

Heads == [ts : Nat, hint : BOOLEAN, idx : Decoders]

\* The heap and the decoders, whatever call is in progress.
HeapInv ==
    /\ min_heap \subseteq Heads
    /\ pos \in [Decoders -> Nat] /\ current \in [Decoders -> Nat]
    /\ HeadsAreCurrent
    /\ \A h \in min_heap : h.hint => h.idx \in DOMAIN input.hints
                                     /\ h.ts = input.hints[h.idx]
    /\ \A d \in Decoders : pos[d] <= Len(input.ts[d])

\* The first record of the head's stream that was not handed out, unless the head is
\* the one of the record returned last.
Owed(h) == IF h.hint THEN 1 ELSE pos[h.idx]

NoHead(d) == \A h \in min_heap : h.idx # d

JustReturned == pc = "idle" /\ ~is_first /\ answer.tag = "Record"

\* What is still owed to the caller is what the heads say.
FirstInv ==
    /\ first \in [Decoders -> Nat]
    /\ pc \in {"idle", "next"} =>
         \A d \in Decoders : NoHead(d) => first[d] = Len(input.ts[d]) + 1
    /\ pc = "new" => \A d \in Decoders :
         IF d < opening THEN NoHead(d) => first[d] = Len(input.ts[d]) + 1
                        ELSE NoHead(d) /\ first[d] = 1 /\ pos[d] = 0
    /\ pc # "dead" => \A h \in min_heap :
         first[h.idx] = IF JustReturned /\ h = Peek THEN pos[h.idx] + 1 ELSE Owed(h)

\* The order of the calls.
CallInv ==
    /\ pc = "new" => is_first
    /\ pc = "next" => ~is_first
    /\ is_first /\ pc # "dead" => answer = NoAnswer
    /\ JustReturned => min_heap # {} /\ ~Peek.hint
    /\ answer.tag = "Exhausted" /\ pc = "idle" => min_heap = {}
    /\ pc = "idle" /\ ~is_first => answer.tag \in {"Record", "Exhausted", "Err"}

MInv == TypeOK /\ HeapInv /\ FirstInv /\ CallInv

-----------------------------------------------------------------------------
(* The top of the heap. *)

\* A non-empty set of naturals has a least element.
LEMMA LeastNat ==
    ASSUME NEW T \in SUBSET Nat, T # {}
    PROVE  \E x \in T : \A y \in T : x <= y
<1> DEFINE R == {ss \in Nat \X Nat : ss[1] < ss[2]}
<1>1. IsWellFoundedOn(R, Nat)
  BY NatLessThanWellFounded, Zenon DEF OpToRel
<1>2. \E x \in T : \A y \in T : ~ (<<y, x>> \in R)
  <2> HIDE DEF R
  <2> QED BY <1>1, WFMin, Zenon
<1>3. PICK x \in T : \A y \in T : ~ (<<y, x>> \in R)
  BY <1>2
<1>4. \A y \in T : x <= y
  <2>1. SUFFICES ASSUME NEW y \in T PROVE x <= y
    OBVIOUS
  <2>2. x \in Nat /\ y \in Nat
    OBVIOUS
  <2>3. y < x => <<y, x>> \in R
    BY <2>2
  <2>4. ~(y < x)
    BY <1>3, <2>3
  <2> QED BY <2>2, <2>4
<1> QED BY <1>4

\* Heads of different decoders have a first one.
LEMMA MinHead ==
    ASSUME NEW n, NEW S, S \subseteq [ts : Nat, hint : BOOLEAN, idx : 1..n], S # {},
           \A h, g \in S : h.idx = g.idx => h = g
    PROVE  \E h \in S : \A g \in S \ {h} : HeadBefore(h, g)
<1> DEFINE TT == {h.ts : h \in S}
<1>1. PICK t \in TT : \A y \in TT : t <= y
  <2>1. TT \in SUBSET Nat /\ TT # {}
    OBVIOUS
  <2> HIDE DEF TT
  <2> QED BY <2>1, LeastNat
<1> DEFINE II == {h.idx : h \in {g \in S : g.ts = t}}
<1>2. PICK i \in II : \A y \in II : i <= y
  <2>1. II \in SUBSET Nat /\ II # {}
    <3>1. \A h \in S : h.idx \in Nat
      OBVIOUS
    <3> QED BY <3>1
  <2> HIDE DEF II
  <2> QED BY <2>1, LeastNat
<1>3. PICK h \in S : h.ts = t /\ h.idx = i
  OBVIOUS
<1>4. \A g \in S \ {h} : HeadBefore(h, g)
  <2>1. SUFFICES ASSUME NEW g \in S, g # h PROVE HeadBefore(h, g)
    OBVIOUS
  <2>2. h.ts <= g.ts /\ h.ts \in Nat /\ g.ts \in Nat
    BY <1>1, <1>3
  <2>3. g.ts = h.ts => h.idx <= g.idx
    BY <1>2, <1>3
  <2>4. h.idx \in Nat /\ g.idx \in Nat /\ h.idx # g.idx
    BY <2>1
  <2> HIDE DEF TT, II
  <2> QED BY <2>2, <2>3, <2>4 DEF HeadBefore
<1> QED BY <1>4

\* Peek is one of the heads and comes before every other.
LEMMA PeekIsFirst ==
    ASSUME HeapInv, min_heap # {}
    PROVE  /\ Peek \in min_heap
           /\ \A g \in min_heap \ {Peek} : HeadBefore(Peek, g)
<1>1. \E h \in min_heap : \A g \in min_heap \ {h} : HeadBefore(h, g)
  BY MinHead DEF HeapInv, Heads, HeadsAreCurrent, Decoders
<1> QED BY <1>1, Zenon DEF Peek
-----------------------------------------------------------------------------
(* The inputs, and one read of an inner decoder. *)

\* What the proofs use of an input.
LEMMA InputFacts ==
    ASSUME input \in Inputs
    PROVE  /\ Len(input.ts) \in Nat /\ Len(input.ts) > 0
           /\ Decoders \subseteq Nat /\ DOMAIN input.ts = Decoders
           /\ \A d \in Decoders :
                 /\ Len(input.ts[d]) \in Nat
                 /\ \A i \in 1..Len(input.ts[d]) : Ts(d, i) \in Nat
           /\ Len(input.hints) \in Nat /\ DOMAIN input.hints = 1..Len(input.hints)
           /\ input.hints # <<>> => DOMAIN input.hints = Decoders
           /\ input.hints = <<>> => Len(input.hints) = 0
           /\ \A d \in DOMAIN input.hints :
                 /\ d \in Decoders /\ input.hints[d] \in Nat
                 /\ \A i \in 1..Len(input.ts[d]) : input.hints[d] <= Ts(d, i)
<1>1. IsInput(input)
  BY MergeAssumption
<1>2. input.ts \in Seq(Seq(Nat)) /\ input.hints \in Seq(Nat) /\ input.ts # <<>>
  BY <1>1 DEF IsInput
<1>3. Len(input.ts) \in Nat /\ Len(input.ts) > 0 /\ Len(input.hints) \in Nat
  BY <1>2
<1>4. Decoders \subseteq Nat /\ DOMAIN input.ts = Decoders
  BY <1>2, <1>3 DEF Decoders
<1>5. \A d \in Decoders : /\ Len(input.ts[d]) \in Nat
                          /\ \A i \in 1..Len(input.ts[d]) : Ts(d, i) \in Nat
  <2>1. \A d \in Decoders : input.ts[d] \in Seq(Nat)
    BY <1>2 DEF Decoders
  <2> QED BY <2>1 DEF Ts
<1>6. /\ DOMAIN input.hints = 1..Len(input.hints)
      /\ input.hints # <<>> => DOMAIN input.hints = Decoders
      /\ input.hints = <<>> => Len(input.hints) = 0
      /\ \A d \in DOMAIN input.hints : input.hints[d] \in Nat
  BY <1>1, <1>2 DEF IsInput, Decoders
<1>7. \A d \in DOMAIN input.hints : input.hints # <<>>
  BY <1>6
<1>8. \A d \in DOMAIN input.hints :
         /\ d \in Decoders
         /\ \A i \in 1..Len(input.ts[d]) : input.hints[d] <= Ts(d, i)
  BY <1>1, <1>6, <1>7 DEF IsInput, Decoders, Ts
<1> QED BY <1>3, <1>4, <1>5, <1>6, <1>8

Reads(d, rest) == ReadsRecord(d, rest) \/ ReadsNone(d, rest) \/ ReadsErr(d, rest)

\* Whatever a read of decoder d brings, the heap and the decoders agree again, if the
\* other heads were left alone.
LEMMA ReadKeepsHeap ==
    ASSUME TypeOK, HeapInv, input' = input,
           NEW d \in Decoders, NEW rest, rest \subseteq min_heap,
           \A h \in rest : h.idx # d,
           Reads(d, rest)
    PROVE  HeapInv' /\ fails' \in Nat
<1> USE DEF Heads
<1>0. Decoders' = Decoders
  BY DEF Decoders
<1>1. /\ pos \in [Decoders -> Nat] /\ current \in [Decoders -> Nat]
      /\ fails \in Nat /\ input \in Inputs
  BY DEF HeapInv, TypeOK
<1>2. CASE ReadsRecord(d, rest)
  <2>1. pos[d] + 1 \in 1..Len(input.ts[d]) /\ Ts(d, pos[d] + 1) \in Nat
    BY <1>1, <1>2, InputFacts DEF ReadsRecord
  <2>2. /\ pos' \in [Decoders -> Nat] /\ current' \in [Decoders -> Nat]
        /\ pos'[d] = pos[d] + 1 /\ current'[d] = pos[d] + 1
        /\ \A e \in Decoders \ {d} : pos'[e] = pos[e] /\ current'[e] = current[e]
        /\ fails' \in Nat
    BY <1>1, <1>2 DEF ReadsRecord
  <2>3. min_heap' = rest \cup {Real(d, Ts(d, pos[d] + 1))}
    BY <1>2 DEF ReadsRecord
  <2>4. Real(d, Ts(d, pos[d] + 1)) \in Heads
    BY <2>1 DEF Real
  <2>5. min_heap' \subseteq Heads
    BY <2>3, <2>4 DEF HeapInv
  <2>6. \A h \in rest : h \in min_heap /\ h.idx \in Decoders \ {d}
    BY DEF HeapInv
  <2>7. HeadsAreCurrent'
    <3>1. \A h, g \in min_heap' : h.idx = g.idx => h = g
      <4>1. Real(d, Ts(d, pos[d] + 1)).idx = d
        BY DEF Real
      <4>2. \A h, g \in rest : h.idx = g.idx => h = g
        BY <2>6 DEF HeapInv, HeadsAreCurrent
      <4> QED BY <4>1, <4>2, <2>3, <2>6, Zenon
    <3>2. ASSUME NEW h \in min_heap'
          PROVE  IF h.hint THEN pos'[h.idx] = 0
                 ELSE /\ current'[h.idx] = pos'[h.idx] /\ pos'[h.idx] > 0
                      /\ h.ts = input'.ts[h.idx][pos'[h.idx]]
      <4>1. CASE h \in rest
        BY <4>1, <2>2, <2>6 DEF HeapInv, HeadsAreCurrent, Ts
      <4>2. CASE h = Real(d, Ts(d, pos[d] + 1))
        BY <4>2, <2>2, <1>1 DEF Real, Ts
      <4> QED BY <4>1, <4>2, <2>3
    <3> QED BY <3>1, <3>2 DEF HeadsAreCurrent, Ts
  <2>8. \A h \in min_heap' : h.hint => h.idx \in DOMAIN input.hints
                                        /\ h.ts = input.hints[h.idx]
    BY <2>3, <2>6 DEF HeapInv, Real
  <2>9. \A e \in Decoders : pos'[e] <= Len(input.ts[e])
    <3>1. pos'[d] <= Len(input.ts[d])
      BY <2>1, <2>2
    <3>2. \A e \in Decoders \ {d} : pos'[e] <= Len(input.ts[e])
      BY <2>2 DEF HeapInv
    <3> QED BY <3>1, <3>2
  <2> QED BY <1>0, <2>2, <2>5, <2>7, <2>8, <2>9 DEF HeapInv
<1>3. CASE ReadsNone(d, rest) \/ ReadsErr(d, rest)
  <2>2. /\ pos' = pos /\ current' \in [Decoders -> Nat]
        /\ \A e \in Decoders \ {d} : current'[e] = current[e]
        /\ fails' \in Nat
        /\ min_heap' = rest
    BY <1>1, <1>3 DEF ReadsNone, ReadsErr
  <2>6. \A h \in rest : h \in min_heap /\ h.idx \in Decoders \ {d}
    BY DEF HeapInv
  <2>7. HeadsAreCurrent'
    BY <2>2, <2>6 DEF HeapInv, HeadsAreCurrent, Ts
  <2> QED BY <1>0, <1>1, <2>2, <2>6, <2>7 DEF HeapInv
<1> QED BY <1>2, <1>3 DEF Reads
-----------------------------------------------------------------------------
(* MInv is inductive. *)

\* The heap starts with a hint for every decoder, or empty before new() has read.
LEMMA InitInv == Init => MInv
<1> SUFFICES ASSUME Init PROVE MInv
  OBVIOUS
<1> USE DEF Heads
<1>1. input \in Inputs
  BY DEF Init
<1>2. /\ Len(input.ts) \in Nat /\ Len(input.ts) > 0
      /\ \A d \in Decoders : Len(input.ts[d]) \in Nat
  BY <1>1, InputFacts
<1>3. \A h \in min_heap : \E d \in DOMAIN input.hints : h = Hint(d, input.hints[d])
  BY <1>1, InputFacts DEF Init
<1>4. /\ min_heap \subseteq Heads
      /\ \A h \in min_heap : h.hint /\ h.idx \in DOMAIN input.hints
                             /\ h.ts = input.hints[h.idx]
  <2>1. SUFFICES ASSUME NEW h \in min_heap
                 PROVE  /\ h \in Heads /\ h.hint /\ h.idx \in DOMAIN input.hints
                        /\ h.ts = input.hints[h.idx]
    OBVIOUS
  <2>2. PICK d \in DOMAIN input.hints : h = Hint(d, input.hints[d])
    BY <1>3
  <2>3. d \in Decoders /\ input.hints[d] \in Nat
    BY <1>1, InputFacts
  <2> QED BY <2>2, <2>3 DEF Hint
<1>5. \A h, g \in min_heap : h.idx = g.idx => h = g
  <2>1. SUFFICES ASSUME NEW h \in min_heap, NEW g \in min_heap, h.idx = g.idx
                 PROVE  h = g
    OBVIOUS
  <2>2. PICK d \in DOMAIN input.hints : h = Hint(d, input.hints[d])
    BY <1>3
  <2>3. PICK e \in DOMAIN input.hints : g = Hint(e, input.hints[e])
    BY <1>3
  <2>4. h.idx = d /\ g.idx = e
    BY <2>2, <2>3 DEF Hint
  <2> QED BY <2>1, <2>2, <2>3, <2>4
<1>6. /\ pos \in [Decoders -> Nat] /\ current \in [Decoders -> Nat]
      /\ first \in [Decoders -> Nat]
      /\ \A d \in Decoders : pos[d] = 0 /\ first[d] = 1
  BY DEF Init
<1>7. TypeOK
  BY <1>1, <1>2, <1>4, <1>6 DEF TypeOK, Init, NoAnswer, Answer
<1>8. HeapInv
  BY <1>2, <1>4, <1>5, <1>6 DEF HeapInv, HeadsAreCurrent
<1>9. FirstInv
  <2>1. \A h \in min_heap : first[h.idx] = Owed(h)
    BY <1>4, <1>6 DEF Owed
  <2>2. ~JustReturned
    BY DEF JustReturned, Init
  <2>3. CASE input.hints = <<>>
    <3>1. pc = "new" /\ min_heap = {} /\ opening = 1
      BY <1>1, <1>3, <2>3, InputFacts DEF Init
    <3>2. \A d \in Decoders : ~(d < opening)
      BY <3>1 DEF Decoders
    <3> QED BY <1>6, <2>1, <2>2, <3>1, <3>2 DEF FirstInv, NoHead
  <2>4. CASE input.hints # <<>>
    <3>1. pc = "idle" /\ DOMAIN input.hints = Decoders
      BY <1>1, <2>4, InputFacts DEF Init
    <3>2. \A d \in Decoders : Hint(d, input.hints[d]) \in min_heap
      BY <1>1, <3>1, InputFacts DEF Init
    <3>3. \A d \in Decoders : ~NoHead(d)
      BY <3>2 DEF NoHead, Hint
    <3> QED BY <1>6, <2>1, <2>2, <3>1, <3>3 DEF FirstInv
  <2> QED BY <2>3, <2>4
<1>10. CallInv
  BY DEF CallInv, Init, JustReturned, NoAnswer, Answer
<1> QED BY <1>7, <1>8, <1>9, <1>10 DEF MInv

\* Popping the top takes the only head of its decoder off the heap.
LEMMA PopFacts ==
    ASSUME HeapInv, min_heap # {}
    PROVE  /\ Peek \in min_heap /\ Peek.idx \in Decoders
           /\ min_heap \ {Peek} \subseteq min_heap
           /\ \A h \in min_heap \ {Peek} : h.idx # Peek.idx
BY PeekIsFirst DEF HeapInv, HeadsAreCurrent, Heads

\* A step without a read changes neither the heap nor the decoders.
LEMMA NoReadKeepsHeap ==
    ASSUME HeapInv, UNCHANGED <<input, min_heap, pos, current>>
    PROVE  HeapInv'
BY DEF HeapInv, Heads, HeadsAreCurrent, Decoders, Ts

\* new() reads decoders that have no head yet.
LEMMA NewInv == ASSUME MInv, New PROVE MInv'
<1>0. PICK d : d = opening
  OBVIOUS
<1>1. /\ d \in Decoders /\ input' = input /\ Decoders' = Decoders /\ pc = "new"
      /\ Reads(d, min_heap)
  BY <1>0 DEF New, Reads, Decoders
<1>2. NoHead(d) /\ first[d] = 1 /\ pos[d] = 0 /\ d \in Nat /\ input \in Inputs
  BY <1>0, <1>1, InputFacts DEF MInv, TypeOK, FirstInv
<1>3. HeapInv' /\ fails' \in Nat
  BY <1>1, <1>2, ReadKeepsHeap DEF MInv, NoHead
<1>4. TypeOK'
  <2>1. opening' \in 1..Len(input.ts) + 1 /\ pc' \in {"new", "idle"}
    BY <1>0, <1>1, <1>2, InputFacts DEF New, Decoders
  <2> QED BY <1>1, <1>3, <2>1 DEF TypeOK, HeapInv, New, MInv, Heads
<1>5. is_first /\ ~JustReturned /\ ~JustReturned'
  BY <1>1 DEF MInv, CallInv, JustReturned, New
<1>6. FirstInv'
  <2>1. \A e \in Decoders : e # d => (NoHead(e)' <=> NoHead(e))
    BY <1>1 DEF NoHead, Reads, ReadsRecord, ReadsNone, ReadsErr, Real
  <2>2. \A e \in Decoders : e # d => pos'[e] = pos[e]
    BY <1>1 DEF Reads, ReadsRecord, ReadsNone, ReadsErr, MInv, HeapInv
  <2>3. NoHead(d)' => first'[d] = Len(input.ts[d]) + 1
    <3>1. CASE ReadsRecord(d, min_heap)
      <4>1. /\ Real(d, Ts(d, pos[d] + 1)) \in min_heap'
            /\ Real(d, Ts(d, pos[d] + 1)).idx = d
        BY <3>1 DEF ReadsRecord, Real
      <4> QED BY <4>1 DEF NoHead
    <3>2. CASE ReadsNone(d, min_heap)
      BY <3>2, <1>2 DEF ReadsNone, New
    <3> QED BY <1>0, <3>1, <3>2 DEF New
  <2>4. \A h \in min_heap' : first'[h.idx] = Owed(h)'
    <3>1. SUFFICES ASSUME NEW h \in min_heap' PROVE first'[h.idx] = Owed(h)'
      OBVIOUS
    <3>2. CASE h \in min_heap
      <4>1. h.idx \in Decoders /\ h.idx # d
        BY <3>2, <1>2 DEF NoHead, MInv, HeapInv, Heads
      <4>2. first[h.idx] = Owed(h)
        BY <3>2, <1>1, <1>5 DEF MInv, FirstInv
      <4> QED BY <4>1, <4>2, <2>2 DEF Owed, New
    <3>3. CASE h \notin min_heap
      <4>1. h = Real(d, Ts(d, pos[d] + 1)) /\ pos'[d] = 1
        BY <1>0, <3>3, <1>1, <1>2 DEF New, ReadsRecord, ReadsNone, MInv, HeapInv
      <4> QED BY <4>1, <1>2 DEF Owed, Real, New
    <3> QED BY <3>2, <3>3
  <2>5. \A e \in Decoders : e < opening' <=> e < d \/ e = d
    BY <1>0, <1>2, <1>1, InputFacts DEF New
  <2>6. \A e \in Decoders : IF e < opening' THEN NoHead(e)' => first'[e] = Len(input.ts[e]) + 1
                                            ELSE NoHead(e)' /\ first'[e] = 1 /\ pos'[e] = 0
    <3>1. \A e \in Decoders : IF e < d THEN NoHead(e) => first[e] = Len(input.ts[e]) + 1
                                        ELSE NoHead(e) /\ first[e] = 1 /\ pos[e] = 0
      BY <1>0, <1>1 DEF MInv, FirstInv
    <3>2. first' = first
      BY DEF New
    <3> QED BY <3>1, <3>2, <2>1, <2>2, <2>3, <2>5, <1>2
  <2>7. pc' # "new" => \A e \in Decoders : e < opening'
    BY <1>0, <1>1, <1>2, <2>5, InputFacts DEF New, Decoders
  <2>8. first' \in [Decoders -> Nat]
    BY DEF MInv, FirstInv, New
  <2> QED BY <1>1, <1>5, <2>4, <2>6, <2>7, <2>8 DEF FirstInv
<1>7. CallInv'
  BY <1>1, <1>5 DEF CallInv, MInv, New, NoAnswer, Answer
<1> QED BY <1>3, <1>4, <1>6, <1>7 DEF MInv

\* A read that replaces or removes the top leaves FirstInv, if what the decoder has
\* read becomes what it owes, or it is owed nothing more.
LEMMA ReadTopInv ==
    ASSUME MInv, min_heap # {}, pc \in {"idle", "next"}, input' = input,
           NEW d, d = Peek.idx, NEW v,
           \/ ReadsRecord(d, min_heap \ {Peek}) /\ v = pos[d] + 1
           \/ /\ ReadsNone(d, min_heap \ {Peek}) \/ ReadsErr(d, min_heap \ {Peek})
              /\ v = Len(input.ts[d]) + 1,
           first' = [first EXCEPT ![d] = v],
           pc' \in {"idle", "next"}, ~JustReturned'
    PROVE  HeapInv' /\ FirstInv' /\ fails' \in Nat
<1> DEFINE rest == min_heap \ {Peek}
<1>1. /\ Peek \in min_heap /\ d \in Decoders /\ rest \subseteq min_heap
      /\ \A h \in rest : h.idx # d
      /\ Reads(d, rest) /\ Decoders' = Decoders
  BY PopFacts DEF MInv, Reads, Decoders
<1>2. HeapInv' /\ fails' \in Nat
  BY <1>1, ReadKeepsHeap DEF MInv
<1>3. /\ pos \in [Decoders -> Nat] /\ first \in [Decoders -> Nat]
      /\ Len(input.ts[d]) \in Nat
  BY <1>1, InputFacts DEF MInv, HeapInv, FirstInv, TypeOK
<1>4. /\ first' \in [Decoders -> Nat] /\ first'[d] = v
      /\ \A e \in Decoders : e # d => first'[e] = first[e] /\ pos'[e] = pos[e]
  BY <1>1, <1>3 DEF ReadsRecord, ReadsNone, ReadsErr
<1>5. \A h \in rest : first'[h.idx] = Owed(h)'
  <2>1. SUFFICES ASSUME NEW h \in rest PROVE first'[h.idx] = Owed(h)'
    OBVIOUS
  <2>2. h.idx \in Decoders /\ h.idx # d /\ h # Peek /\ h \in min_heap
    BY <1>1 DEF MInv, HeapInv, Heads
  <2>3. first[h.idx] = Owed(h)
    BY <2>2 DEF MInv, FirstInv
  <2> QED BY <1>4, <2>2, <2>3 DEF Owed
<1>6. \A e \in Decoders : NoHead(e)' => first'[e] = Len(input.ts[e]) + 1
  <2>1. SUFFICES ASSUME NEW e \in Decoders, NoHead(e)'
                 PROVE  first'[e] = Len(input.ts[e]) + 1
    OBVIOUS
  <2>2. rest \subseteq min_heap'
    BY DEF ReadsRecord, ReadsNone, ReadsErr
  <2>3. CASE e # d
    <3>1. NoHead(e)
      <4>1. \A h \in min_heap : h = Peek \/ h \in rest
        OBVIOUS
      <4> QED BY <4>1, <2>1, <2>2, <2>3 DEF NoHead
    <3>2. first[e] = Len(input.ts[e]) + 1
      BY <3>1 DEF MInv, FirstInv
    <3> QED BY <3>2, <2>3, <1>4
  <2>4. CASE e = d
    <3>1. ~ReadsRecord(d, rest)
      <4>1. SUFFICES ASSUME ReadsRecord(d, rest) PROVE FALSE
        OBVIOUS
      <4>2. /\ Real(d, Ts(d, pos[d] + 1)) \in min_heap'
            /\ Real(d, Ts(d, pos[d] + 1)).idx = d
        BY <4>1 DEF ReadsRecord, Real
      <4> QED BY <4>2, <2>1, <2>4 DEF NoHead
    <3> QED BY <3>1, <2>4, <1>4
  <2> QED BY <2>3, <2>4
<1>7. \A h \in min_heap' : first'[h.idx] = Owed(h)'
  <2>1. CASE ReadsRecord(d, rest) /\ v = pos[d] + 1
    <3>1. min_heap' = rest \cup {Real(d, Ts(d, pos[d] + 1))} /\ pos'[d] = pos[d] + 1
      BY <2>1, <1>1, <1>3 DEF ReadsRecord
    <3>2. \A h \in min_heap' \ rest : h.idx = d /\ ~h.hint
      BY <3>1 DEF Real
    <3>3. \A h \in min_heap' \ rest : first'[h.idx] = Owed(h)'
      BY <3>1, <3>2, <2>1, <1>4 DEF Owed
    <3> QED BY <3>3, <1>5
  <2>2. CASE ReadsNone(d, rest) \/ ReadsErr(d, rest)
    BY <2>2, <1>5 DEF ReadsNone, ReadsErr
  <2> QED BY <2>1, <2>2
<1>8. FirstInv'
  BY <1>1, <1>4, <1>6, <1>7 DEF FirstInv
<1> QED BY <1>2, <1>8

\* An error in new() gives the merger up.
LEMMA NewErrInv == ASSUME MInv, NewErr PROVE MInv'
<1>0. PICK d : d = opening
  OBVIOUS
<1>1. /\ d \in Decoders /\ input' = input /\ Decoders' = Decoders /\ pc = "new"
      /\ Reads(d, min_heap) /\ input \in Inputs
  BY <1>0 DEF NewErr, Reads, Decoders, MInv, TypeOK
<1>2. NoHead(d) /\ d \in Nat /\ Len(input.ts[d]) \in Nat
  BY <1>0, <1>1, InputFacts DEF MInv, FirstInv
<1>3. HeapInv' /\ fails' \in Nat
  BY <1>1, <1>2, ReadKeepsHeap DEF MInv, NoHead
<1>4. first' \in [Decoders -> Nat]
  BY <1>0, <1>1, <1>2 DEF NewErr, GivenUp, MInv, FirstInv
<1>5. TypeOK'
  BY <1>0, <1>1, <1>2, <1>3, <1>4 DEF TypeOK, HeapInv, NewErr, MInv, Heads, Answer
<1>6. FirstInv' /\ CallInv'
  BY <1>1, <1>4 DEF FirstInv, CallInv, JustReturned, NewErr, Answer
<1> QED BY <1>3, <1>5, <1>6 DEF MInv

\* The first call pops nothing, since nothing was returned yet.
LEMMA CallFirstInv == ASSUME MInv, CallFirst PROVE MInv'
<1>1. HeapInv' /\ Decoders' = Decoders
  BY NoReadKeepsHeap DEF MInv, CallFirst, Decoders
<1>2. TypeOK'
  BY <1>1 DEF MInv, TypeOK, CallFirst, NoAnswer, Answer
<1>3. FirstInv'
  BY <1>1 DEF MInv, FirstInv, CallFirst, JustReturned, NoHead, Owed
<1>4. CallInv'
  BY DEF CallInv, CallFirst, JustReturned
<1> QED BY <1>1, <1>2, <1>3, <1>4 DEF MInv

\* A call that finds the heap empty changes nothing.
LEMMA CallEmptyInv == ASSUME MInv, CallEmpty PROVE MInv'
<1>1. HeapInv' /\ Decoders' = Decoders
  BY NoReadKeepsHeap DEF MInv, CallEmpty, Decoders
<1>2. TypeOK'
  BY <1>1 DEF MInv, TypeOK, CallEmpty, Answer
<1>3. FirstInv'
  BY <1>1 DEF MInv, FirstInv, CallEmpty, NoHead
<1>4. CallInv'
  BY DEF CallInv, CallEmpty, JustReturned, Answer
<1> QED BY <1>1, <1>2, <1>3, <1>4 DEF MInv

\* The decoder of the popped head is read on, and owes what it reads.
LEMMA CallPopInv == ASSUME MInv, CallPop PROVE MInv'
<1>1. PICK d : d = Peek.idx
  OBVIOUS
<1>2. /\ d \in Decoders /\ pos[d] \in Nat /\ input' = input /\ Decoders' = Decoders
      /\ ~JustReturned'
  BY <1>1, PopFacts DEF MInv, HeapInv, CallPop, Decoders, JustReturned
<1>3. HeapInv' /\ FirstInv' /\ fails' \in Nat
  <2>1. ReadsNone(d, min_heap \ {Peek}) => pos[d] = Len(input.ts[d])
    BY DEF ReadsNone
  <2>2. first' = [first EXCEPT ![d] = pos[d] + 1]
    BY <1>1 DEF CallPop
  <2>3. min_heap # {} /\ pc \in {"idle", "next"} /\ pc' \in {"idle", "next"}
    BY DEF CallPop
  <2>4. ReadsRecord(d, min_heap \ {Peek}) \/ ReadsNone(d, min_heap \ {Peek})
    BY <1>1 DEF CallPop
  <2> QED BY <1>1, <1>2, <2>1, <2>2, <2>3, <2>4, ReadTopInv
<1>4. TypeOK'
  BY <1>2, <1>3 DEF MInv, TypeOK, HeapInv, FirstInv, Heads, CallPop, NoAnswer, Answer
<1>5. CallInv'
  BY <1>2 DEF MInv, CallInv, CallPop, NoAnswer, Answer
<1> QED BY <1>3, <1>4, <1>5 DEF MInv

\* A decoder that fails when its head was popped owes nothing more.
LEMMA CallPopErrInv == ASSUME MInv, CallPopErr PROVE MInv'
<1>1. PICK d : d = Peek.idx
  OBVIOUS
<1>2. /\ d \in Decoders /\ d \in Nat /\ input' = input /\ Decoders' = Decoders
      /\ ~JustReturned'
  BY <1>1, PopFacts, InputFacts
     DEF MInv, TypeOK, CallPopErr, Decoders, JustReturned, Answer
<1>3. HeapInv' /\ FirstInv' /\ fails' \in Nat
  <2>1. first' = [first EXCEPT ![d] = Len(input.ts[d]) + 1]
    BY <1>1 DEF CallPopErr, GivenUp
  <2>2. min_heap # {} /\ pc \in {"idle", "next"} /\ pc' \in {"idle", "next"}
    BY DEF CallPopErr
  <2>3. ReadsErr(d, min_heap \ {Peek})
    BY <1>1 DEF CallPopErr
  <2> QED BY <1>1, <1>2, <2>1, <2>2, <2>3, ReadTopInv
<1>4. TypeOK'
  BY <1>1, <1>2, <1>3 DEF MInv, TypeOK, HeapInv, FirstInv, Heads, CallPopErr, Answer
<1>5. CallInv'
  BY <1>2 DEF MInv, CallInv, CallPopErr, Answer
<1> QED BY <1>3, <1>4, <1>5 DEF MInv

\* A hint on top belongs to a decoder that was not read and owes its first record.
LEMMA HintIsUnread ==
    ASSUME MInv, HintOnTop, pc = "next"
    PROVE  /\ Peek.idx \in Decoders /\ pos[Peek.idx] = 0
           /\ first = [first EXCEPT ![Peek.idx] = 1]
<1>1. Peek \in min_heap /\ Peek.hint /\ Peek.idx \in Decoders
  BY PopFacts DEF MInv, HintOnTop
<1>2. pos[Peek.idx] = 0
  BY <1>1 DEF MInv, HeapInv, HeadsAreCurrent
<1>3. first[Peek.idx] = 1
  BY <1>1 DEF MInv, FirstInv, JustReturned, Owed
<1>4. first \in [Decoders -> Nat]
  BY DEF MInv, FirstInv
<1> QED BY <1>1, <1>2, <1>3, <1>4

\* A hint becomes a real head or, for an empty stream, goes away.
LEMMA ResolveHintInv == ASSUME MInv, ResolveHint PROVE MInv'
<1>1. PICK d : d = Peek.idx
  OBVIOUS
<1>2. /\ d \in Decoders /\ pos[d] = 0 /\ first' = [first EXCEPT ![d] = 1]
      /\ input' = input /\ Decoders' = Decoders /\ ~JustReturned'
  BY <1>1, HintIsUnread DEF ResolveHint, Decoders, JustReturned
<1>3. HeapInv' /\ FirstInv' /\ fails' \in Nat
  <2>1. ReadsNone(d, min_heap \ {Peek}) => 1 = Len(input.ts[d]) + 1
    BY <1>2 DEF ReadsNone
  <2>2. ReadsRecord(d, min_heap \ {Peek}) => 1 = pos[d] + 1
    BY <1>2
  <2>3. min_heap # {} /\ pc \in {"idle", "next"} /\ pc' \in {"idle", "next"}
    BY DEF ResolveHint, HintOnTop
  <2>4. ReadsRecord(d, min_heap \ {Peek}) \/ ReadsNone(d, min_heap \ {Peek})
    BY <1>1 DEF ResolveHint
  <2> QED BY <1>1, <1>2, <2>1, <2>2, <2>3, <2>4, ReadTopInv
<1>4. TypeOK'
  BY <1>2, <1>3 DEF MInv, TypeOK, HeapInv, FirstInv, Heads, ResolveHint
<1>5. CallInv'
  BY <1>2 DEF MInv, CallInv, ResolveHint
<1> QED BY <1>3, <1>4, <1>5 DEF MInv

\* A decoder that fails at its first record owes nothing.
LEMMA ResolveHintErrInv == ASSUME MInv, ResolveHintErr PROVE MInv'
<1>1. PICK d : d = Peek.idx
  OBVIOUS
<1>2. /\ d \in Decoders /\ d \in Nat /\ input' = input /\ Decoders' = Decoders
      /\ ~JustReturned'
  BY <1>1, PopFacts, InputFacts
     DEF MInv, TypeOK, ResolveHintErr, HintOnTop, Decoders, JustReturned, Answer
<1>3. HeapInv' /\ FirstInv' /\ fails' \in Nat
  <2>1. first' = [first EXCEPT ![d] = Len(input.ts[d]) + 1]
    BY <1>1 DEF ResolveHintErr, GivenUp
  <2>2. min_heap # {} /\ pc \in {"idle", "next"} /\ pc' \in {"idle", "next"}
    BY DEF ResolveHintErr, HintOnTop
  <2>3. ReadsErr(d, min_heap \ {Peek})
    BY <1>1 DEF ResolveHintErr
  <2> QED BY <1>1, <1>2, <2>1, <2>2, <2>3, ReadTopInv
<1>4. TypeOK'
  BY <1>1, <1>2, <1>3
     DEF MInv, TypeOK, HeapInv, FirstInv, Heads, ResolveHintErr, Answer
<1>5. CallInv'
  BY <1>2 DEF MInv, CallInv, ResolveHintErr, Answer
<1> QED BY <1>3, <1>4, <1>5 DEF MInv

\* None is returned only from an empty heap.
LEMMA ReturnNoneInv == ASSUME MInv, ReturnNone PROVE MInv'
<1>1. HeapInv' /\ Decoders' = Decoders
  BY NoReadKeepsHeap DEF MInv, ReturnNone, Decoders
<1>2. TypeOK'
  BY <1>1 DEF MInv, TypeOK, ReturnNone, Answer
<1>3. FirstInv'
  BY <1>1 DEF MInv, FirstInv, ReturnNone, NoHead
<1>4. CallInv'
  BY DEF MInv, CallInv, ReturnNone, JustReturned, Answer
<1> QED BY <1>1, <1>2, <1>3, <1>4 DEF MInv

\* A real head on top belongs to the record its decoder holds, which is owed.
LEMMA TopIsOwed ==
    ASSUME MInv, pc = "next", min_heap # {}, ~HintOnTop
    PROVE  /\ Peek \in min_heap /\ Peek.idx \in Decoders /\ ~Peek.hint
           /\ current[Peek.idx] = pos[Peek.idx] /\ pos[Peek.idx] \in Nat
           /\ pos[Peek.idx] > 0 /\ pos[Peek.idx] <= Len(input.ts[Peek.idx])
           /\ first[Peek.idx] = pos[Peek.idx]
           /\ Peek.ts = Ts(Peek.idx, pos[Peek.idx])
<1>1. Peek \in min_heap /\ ~Peek.hint /\ Peek.idx \in Decoders
  BY PopFacts DEF MInv, HintOnTop
<1>2. /\ current[Peek.idx] = pos[Peek.idx] /\ pos[Peek.idx] > 0
      /\ Peek.ts = Ts(Peek.idx, pos[Peek.idx])
      /\ pos[Peek.idx] \in Nat /\ pos[Peek.idx] <= Len(input.ts[Peek.idx])
  BY <1>1 DEF MInv, HeapInv, HeadsAreCurrent
<1>3. first[Peek.idx] = pos[Peek.idx]
  BY <1>1 DEF MInv, FirstInv, JustReturned, Owed
<1> QED BY <1>1, <1>2, <1>3

\* Returning a record leaves its head on top for the next call to pop.
LEMMA ReturnRecordInv == ASSUME MInv, ReturnRecord PROVE MInv'
<1>1. PICK d : d = Peek.idx
  OBVIOUS
<1>2. /\ Peek \in min_heap /\ d \in Decoders /\ ~Peek.hint
      /\ current[d] = pos[d] /\ pos[d] \in Nat /\ pos[d] > 0
  BY <1>1, TopIsOwed DEF ReturnRecord
<1>3. /\ HeapInv' /\ Decoders' = Decoders /\ Peek' = Peek /\ d \in Nat
      /\ UNCHANGED <<input, min_heap, pos, is_first>>
  BY <1>2, NoReadKeepsHeap, InputFacts
     DEF MInv, TypeOK, ReturnRecord, Decoders, Peek
<1>4. answer' = Answer("Record", d, pos[d])
  BY <1>1, <1>2 DEF ReturnRecord
<1>5. /\ first' \in [Decoders -> Nat] /\ first'[d] = pos[d] + 1
      /\ \A e \in Decoders : e # d => first'[e] = first[e]
  BY <1>1, <1>2 DEF ReturnRecord, MInv, FirstInv
<1>6. TypeOK'
  BY <1>2, <1>3, <1>4, <1>5 DEF MInv, TypeOK, ReturnRecord, Answer
<1>7. ~is_first' /\ pc' = "idle" /\ pc = "next" /\ JustReturned'
  BY <1>3, <1>4 DEF MInv, CallInv, ReturnRecord, JustReturned, Answer
<1>8. FirstInv'
  <2>1. \A e \in Decoders : NoHead(e)' => first'[e] = Len(input.ts[e]) + 1
    <3>1. ~NoHead(d)
      BY <1>1, <1>2 DEF NoHead
    <3>2. \A e \in Decoders : NoHead(e)' <=> NoHead(e)
      BY <1>3 DEF NoHead
    <3> QED BY <3>1, <3>2, <1>5, <1>7 DEF MInv, FirstInv
  <2>2. \A h \in min_heap : first'[h.idx] = IF h = Peek THEN pos[h.idx] + 1 ELSE Owed(h)
    <3>1. SUFFICES ASSUME NEW h \in min_heap, h # Peek PROVE first'[h.idx] = Owed(h)
      BY <1>1, <1>5
    <3>2. h.idx # d /\ h.idx \in Decoders
      BY <1>1, <3>1, <1>2, PopFacts DEF MInv, HeapInv, Heads
    <3> QED BY <3>1, <3>2, <1>5, <1>7 DEF MInv, FirstInv
  <2>3. \A h \in min_heap : Owed(h)' = Owed(h)
    BY <1>3 DEF Owed
  <2> QED BY <1>3, <1>5, <1>7, <2>1, <2>2, <2>3 DEF FirstInv
<1>9. CallInv'
  BY <1>2, <1>3, <1>4, <1>7 DEF CallInv, Answer
<1> QED BY <1>3, <1>6, <1>8, <1>9 DEF MInv

\* Every step keeps MInv.
LEMMA NextInv == MInv /\ [Next]_vars => MInv'
<1> SUFFICES ASSUME MInv, [Next]_vars PROVE MInv'
  OBVIOUS
<1>1. CASE New
  BY <1>1, NewInv
<1>2. CASE NewErr
  BY <1>2, NewErrInv
<1>3. CASE CallFirst
  BY <1>3, CallFirstInv
<1>4. CASE CallEmpty
  BY <1>4, CallEmptyInv
<1>5. CASE CallPop
  BY <1>5, CallPopInv
<1>6. CASE CallPopErr
  BY <1>6, CallPopErrInv
<1>7. CASE ResolveHint
  BY <1>7, ResolveHintInv
<1>8. CASE ResolveHintErr
  BY <1>8, ResolveHintErrInv
<1>9. CASE ReturnNone
  BY <1>9, ReturnNoneInv
<1>10. CASE ReturnRecord
  BY <1>10, ReturnRecordInv
<1>11. CASE UNCHANGED vars
  <2>1. HeapInv' /\ Decoders' = Decoders /\ Peek' = Peek
    BY <1>11, NoReadKeepsHeap DEF MInv, vars, Decoders, Peek
  <2>2. TypeOK'
    BY <1>11, <2>1 DEF MInv, TypeOK, vars
  <2>3. FirstInv'
    BY <1>11, <2>1 DEF MInv, FirstInv, vars, JustReturned, NoHead, Owed
  <2>4. CallInv'
    BY <1>11, <2>1 DEF MInv, CallInv, vars, JustReturned
  <2> QED BY <2>1, <2>2, <2>3, <2>4 DEF MInv
<1> QED BY <1>1, <1>2, <1>3, <1>4, <1>5, <1>6, <1>7, <1>8, <1>9, <1>10, <1>11 DEF Next

\* The inductive invariant of the merge holds.
THEOREM MergeInvariant == Spec => []MInv
BY InitInv, NextInv, PTL DEF Spec

\* Whatever the streams, their number and the errors of the decoders, each variable
\* of the merge keeps its type: min_heap holds heads of decoders that exist.
THEOREM MergeTypeOK == Spec => []TypeOK
<1>1. MInv => TypeOK
  BY DEF MInv
<1> QED BY <1>1, MergeInvariant, PTL

\* last_record() of the decoder on top of the heap is always the record whose timestamp
\* put it there, for every number of streams and every pattern of errors.
THEOREM MergeHeadsAreCurrent == Spec => []HeadsAreCurrent
<1>1. MInv => HeadsAreCurrent
  BY DEF MInv, HeapInv
<1> QED BY <1>1, MergeInvariant, PTL

-----------------------------------------------------------------------------
(* The refinement. *)

\* The initial states are initial states of the abstract merge.
LEMMA InitMerged == Init => Abstract!Init
BY InputFacts DEF Init, Abstract!Init, NoAnswer, Answer, Abstract!NoAnswer, Abstract!Answer

\* A stream given up is an error of the abstract merge.
LEMMA FailMerged ==
    ASSUME MInv, NEW d \in Decoders, input' = input,
           answer' = Answer("Err", d, 0), first' = GivenUp(first, d)
    PROVE  Abstract!Next
<1>1. d \in DOMAIN input.ts
  BY InputFacts DEF MInv, TypeOK
<1> QED BY <1>1 DEF Abstract!Next, Abstract!Fail, Answer, Abstract!Answer, GivenUp

\* With an empty heap nothing is owed.
LEMMA ExhaustedMerged ==
    ASSUME MInv, pc \in {"idle", "next"}, min_heap = {},
           answer' = Answer("Exhausted", 0, 0), first' = first, input' = input
    PROVE  Abstract!Next
<1>1. DOMAIN input.ts = Decoders /\ \A d \in Decoders : Len(input.ts[d]) \in Nat
  BY InputFacts DEF MInv, TypeOK
<1>2. \A d \in Decoders : first[d] = Len(input.ts[d]) + 1
  BY DEF MInv, FirstInv, NoHead
<1>3. \A d \in DOMAIN input.ts : ~Abstract!Left(d)
  BY <1>1, <1>2 DEF Abstract!Left
<1> QED BY <1>3 DEF Abstract!Next, Abstract!Exhausted, Answer, Abstract!Answer

\* Popping a head loses its record only when the caller has not seen it, which takes
\* an error of the call before.
LEMMA PopMerged == ASSUME MInv, CallPop PROVE Abstract!Next
<1>1. PICK d : d = Peek.idx
  OBVIOUS
<1>2. /\ Peek \in min_heap /\ d \in Decoders /\ d \in DOMAIN input.ts
      /\ pos[d] \in Nat /\ pos[d] <= Len(input.ts[d])
      /\ first \in [Decoders -> Nat] /\ Len(input.ts[d]) \in Nat
  BY <1>1, PopFacts, InputFacts DEF MInv, TypeOK, HeapInv, FirstInv, CallPop
<1>3. /\ answer' = NoAnswer /\ input' = input
      /\ first' = [first EXCEPT ![d] = pos[d] + 1]
  BY <1>1 DEF CallPop
<1>4. first[d] = IF JustReturned THEN pos[d] + 1 ELSE Owed(Peek)
  BY <1>1, <1>2 DEF MInv, FirstInv, CallPop
<1>5. CASE first[d] = pos[d] + 1
  <2>1. first' = first
    BY <1>2, <1>3, <1>5
  <2> QED BY <2>1, <1>3
          DEF Abstract!Next, Abstract!Call, NoAnswer, Answer, Abstract!NoAnswer, Abstract!Answer
<1>6. CASE first[d] # pos[d] + 1
  <2>1. answer.tag = "Err"
    BY <1>4, <1>6 DEF MInv, CallInv, CallPop, JustReturned
  <2>2. first[d] = pos[d]
    BY <1>1, <1>2, <1>4, <1>6 DEF Owed, MInv, HeapInv, HeadsAreCurrent
  <2>3. Abstract!Left(d) /\ first' = [first EXCEPT ![d] = first[d] + 1]
    BY <1>2, <1>3, <2>2 DEF Abstract!Left
  <2> QED BY <1>2, <1>3, <2>1, <2>3
          DEF Abstract!Next, Abstract!Lose, NoAnswer, Answer, Abstract!NoAnswer, Abstract!Answer
<1> QED BY <1>5, <1>6

\* The record returned comes before what any other stream still owes: a head on the
\* heap is no later than the record its stream owes, be it a timestamp or a hint.
LEMMA ReturnMerged == ASSUME MInv, ReturnRecord PROVE Abstract!Next
<1>1. PICK d : d = Peek.idx
  OBVIOUS
<1>2. /\ Peek \in min_heap /\ d \in Decoders /\ Peek.ts = Ts(d, pos[d])
      /\ current[d] = pos[d] /\ pos[d] \in Nat /\ pos[d] > 0
      /\ pos[d] <= Len(input.ts[d]) /\ first[d] = pos[d]
      /\ pc = "next" /\ min_heap # {}
  BY <1>1, TopIsOwed DEF ReturnRecord
<1>3. /\ answer' = Answer("Record", d, first[d]) /\ input' = input
      /\ first' = [first EXCEPT ![d] = first[d] + 1]
  BY <1>1, <1>2 DEF ReturnRecord
<1>4. /\ DOMAIN input.ts = Decoders /\ Decoders \subseteq Nat
      /\ \A e \in Decoders : /\ Len(input.ts[e]) \in Nat
                             /\ \A i \in 1..Len(input.ts[e]) : Ts(e, i) \in Nat
      /\ \A e \in DOMAIN input.hints :
            \A i \in 1..Len(input.ts[e]) : input.hints[e] <= Ts(e, i)
      /\ first \in [Decoders -> Nat]
  BY InputFacts DEF MInv, TypeOK
<1>5. Abstract!Left(d)
  BY <1>2 DEF Abstract!Left
<1>6. ASSUME NEW e \in Decoders, Abstract!Left(e) PROVE Abstract!Before(d, e)
  <2>1. CASE e = d
    BY <2>1, <1>2, <1>4 DEF Abstract!Before
  <2>2. CASE e # d
    <3>1. first[e] <= Len(input.ts[e])
      BY <1>6 DEF Abstract!Left
    <3>2. ~NoHead(e)
      BY <3>1, <1>2, <1>4 DEF MInv, FirstInv
    <3>3. PICK g \in min_heap : g.idx = e
      BY <3>2 DEF NoHead
    <3>4. HeadBefore(Peek, g) /\ g # Peek
      BY <1>1, <1>2, <2>2, <3>3, PeekIsFirst DEF MInv
    <3>5. first[e] = Owed(g) /\ first[e] \in 1..Len(input.ts[e])
      <4>1. first[e] = Owed(g)
        BY <1>2, <3>3, <3>4 DEF MInv, FirstInv, JustReturned
      <4>2. Owed(g) > 0
        BY <3>3 DEF Owed, MInv, HeapInv, HeadsAreCurrent
      <4> QED BY <4>1, <4>2, <3>1, <1>4
    <3>6. g.ts <= Ts(e, first[e])
      <4>1. CASE g.hint
        BY <4>1, <3>3, <3>5, <1>4 DEF MInv, HeapInv
      <4>2. CASE ~g.hint
        BY <4>2, <3>3, <3>5, <1>4 DEF MInv, HeapInv, HeadsAreCurrent, Owed
      <4> QED BY <4>1, <4>2
    <3>7. /\ Peek.ts \in Nat /\ g.ts \in Nat /\ Ts(e, first[e]) \in Nat
          /\ d \in Nat /\ e \in Nat /\ Peek.idx = d
      BY <1>1, <1>2, <1>4, <3>3, <3>5 DEF MInv, HeapInv, Heads
    <3>8. Ts(d, first[d]) < Ts(e, first[e])
          \/ (Ts(d, first[d]) = Ts(e, first[e]) /\ d <= e)
      BY <1>2, <3>3, <3>4, <3>6, <3>7 DEF HeadBefore
    <3> QED BY <3>8 DEF Abstract!Before, Abstract!NextTs, Ts
  <2> QED BY <2>1, <2>2
<1>7. Abstract!Deliver
  <2>1. d \in DOMAIN input.ts /\ \A e \in DOMAIN input.ts : Abstract!Left(e) => Abstract!Before(d, e)
    BY <1>2, <1>4, <1>6
  <2> QED BY <2>1, <1>3, <1>5 DEF Abstract!Deliver, Answer, Abstract!Answer
<1> QED BY <1>3, <1>7 DEF Abstract!Next

\* Every step of the merge is a step of the abstract one or leaves it alone.
LEMMA StepMerged ==
    MInv /\ [Next]_vars => [Abstract!Next]_<<input.ts, first, answer>>
<1> SUFFICES ASSUME MInv, [Next]_vars
             PROVE  Abstract!Next \/ UNCHANGED <<input.ts, first, answer>>
  OBVIOUS
<1>1. CASE New
  BY <1>1 DEF New
<1>2. CASE NewErr
  BY <1>2, FailMerged DEF NewErr
<1>3. CASE CallFirst
  BY <1>3 DEF CallFirst, Abstract!Next, Abstract!Call,
              NoAnswer, Answer, Abstract!NoAnswer, Abstract!Answer
<1>4. CASE CallEmpty
  BY <1>4, ExhaustedMerged DEF CallEmpty
<1>5. CASE CallPop
  BY <1>5, PopMerged
<1>6. CASE CallPopErr
  BY <1>6, FailMerged, PopFacts DEF CallPopErr, MInv
<1>7. CASE ResolveHint
  BY <1>7 DEF ResolveHint
<1>8. CASE ResolveHintErr
  BY <1>8, FailMerged, PopFacts DEF ResolveHintErr, HintOnTop, MInv
<1>9. CASE ReturnNone
  BY <1>9, ExhaustedMerged DEF ReturnNone
<1>10. CASE ReturnRecord
  BY <1>10, ReturnMerged
<1>11. CASE UNCHANGED vars
  BY <1>11 DEF vars
<1> QED BY <1>1, <1>2, <1>3, <1>4, <1>5, <1>6, <1>7, <1>8, <1>9, <1>10, <1>11 DEF Next

\* The heap merge, with or without hints, hands out the records of any number of
\* streams in order of timestamp and place, each at most once, and loses one only
\* with or right after an error.
THEOREM MergeImplements == Spec => ImplementsMergedStreams
BY InitMerged, StepMerged, MergeInvariant, PTL
   DEF Spec, ImplementsMergedStreams, Abstract!Spec

-----------------------------------------------------------------------------
(* Streams with a hint are opened late. *)

\* Only new(), which has no hints, reads the streams up front.
HintsOrNew == pc = "new" => input.hints = <<>>

\* HintsOrNew always holds.
LEMMA StaysHintsOrNew == Spec => []HintsOrNew
<1>1. Init => HintsOrNew
  BY DEF Init, HintsOrNew
<1>2. HintsOrNew /\ [Next]_vars => HintsOrNew'
  BY DEF HintsOrNew, Next, vars, New, NewErr, CallFirst, CallEmpty, CallPop, CallPopErr,
         ResolveHint, ResolveHintErr, ReturnNone, ReturnRecord
<1> QED BY <1>1, <1>2, PTL DEF Spec

\* Where the top of the heap is read and it is a hint, it precedes every record that
\* was read and not handed out: such a record still has its head on the heap.
LEMMA TopPrecedes ==
    ASSUME MInv, pc \in {"idle", "next"}, min_heap # {}, pos[Peek.idx] = 0,
           NEW e \in Decoders, first[e] <= pos[e]
    PROVE  /\ Peek.idx \in DOMAIN input.hints
           /\ input.hints[Peek.idx] <= Ts(e, first[e])
<1>1. /\ Peek \in min_heap /\ Peek.idx \in Decoders
      /\ \A g \in min_heap \ {Peek} : HeadBefore(Peek, g)
  BY PopFacts, PeekIsFirst DEF MInv
<1>2. Peek.hint
  BY <1>1 DEF MInv, HeapInv, HeadsAreCurrent
<1>3. /\ Peek.idx \in DOMAIN input.hints /\ Peek.ts = input.hints[Peek.idx]
      /\ Peek.ts \in Nat
  BY <1>1, <1>2 DEF MInv, HeapInv, Heads
<1>4. /\ pos[e] \in Nat /\ pos[e] <= Len(input.ts[e]) /\ first[e] \in Nat
      /\ Len(input.ts[e]) \in Nat
  BY InputFacts DEF MInv, TypeOK, HeapInv
<1>5. ~NoHead(e)
  BY <1>4 DEF MInv, FirstInv
<1>6. PICK g \in min_heap : g.idx = e
  BY <1>5 DEF NoHead
<1>7. first[e] = Owed(g)
  <2>1. first[e] = Owed(g) \/ first[e] = pos[e] + 1
    BY <1>6 DEF MInv, FirstInv
  <2> QED BY <2>1, <1>4
<1>8. ~g.hint /\ g.ts = Ts(e, first[e]) /\ g.ts \in Nat
  <2>1. g.hint => pos[e] = 0 /\ first[e] = 1
    BY <1>6, <1>7 DEF MInv, HeapInv, HeadsAreCurrent, Owed
  <2>2. ~g.hint
    BY <2>1, <1>4
  <2> QED BY <2>2, <1>6, <1>7 DEF MInv, HeapInv, HeadsAreCurrent, Owed, Heads
<1>9. HeadBefore(Peek, g)
  BY <1>1, <1>2, <1>6, <1>8
<1> QED BY <1>3, <1>8, <1>9 DEF HeadBefore

\* A step that reads the first record of a decoder reads the one on top of the heap.
LEMMA OpensTop ==
    ASSUME MInv, HintsOrNew, [Next]_vars,
           NEW d \in DOMAIN input.hints, pos[d] = 0, pos'[d] = 1
    PROVE  d = Peek.idx /\ min_heap # {} /\ pc \in {"idle", "next"}
<1>1. pos' # pos
  OBVIOUS
<1>2. pc # "new"
  BY InputFacts DEF HintsOrNew, MInv, TypeOK
<1>3. CallPop \/ ResolveHint
  BY <1>1, <1>2 DEF Next, vars, New, NewErr, CallFirst, CallEmpty, CallPopErr, ResolveHintErr,
         ReturnNone, ReturnRecord, ReadsErr
<1>4. min_heap # {} /\ pc \in {"idle", "next"}
  BY <1>3 DEF CallPop, ResolveHint, HintOnTop
<1>5. ReadsRecord(Peek.idx, min_heap \ {Peek})
  BY <1>1, <1>3 DEF CallPop, ResolveHint, ReadsNone
<1>6. pos \in [Decoders -> Nat] /\ d \in Decoders
  BY InputFacts DEF MInv, TypeOK
<1>7. pos' = [pos EXCEPT ![Peek.idx] = @ + 1]
  BY <1>5 DEF ReadsRecord
<1>8. d = Peek.idx
  BY <1>6, <1>7
<1> QED BY <1>4, <1>8

\* However many streams there are and whichever of their decoders fail, with_hints reads
\* a stream only when its hint is no later than any record that was read and not handed
\* out: no stream is opened before it may hold the next record.
THEOREM OpensLazily == Spec => LazyOpening
<1>1. MInv /\ HintsOrNew /\ [Next]_vars =>
        [\A d \in DOMAIN input.hints : pos[d] = 0 /\ pos'[d] = 1 =>
            \A e \in Decoders : first[e] <= pos[e] =>
                input.hints[d] <= Ts(e, first[e])]_vars
  <2> SUFFICES ASSUME MInv, HintsOrNew, [Next]_vars,
                      NEW d \in DOMAIN input.hints, pos[d] = 0, pos'[d] = 1,
                      NEW e \in Decoders, first[e] <= pos[e]
               PROVE  input.hints[d] <= Ts(e, first[e])
    OBVIOUS
  <2>1. d = Peek.idx /\ min_heap # {} /\ pc \in {"idle", "next"}
    BY OpensTop
  <2> QED BY <2>1, TopPrecedes
<1> QED BY <1>1, MergeInvariant, StaysHintsOrNew, PTL DEF Spec, LazyOpening
=============================================================================
