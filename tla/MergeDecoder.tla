---------------------------- MODULE MergeDecoder ----------------------------
(***************************************************************************)
(* decode/merge.rs: RecordDecoder, the k-way merge of several decoders by  *)
(* index timestamp.  A heap holds for each stream its head: the timestamp  *)
(* of the record its decoder decoded last, or only a hint of where the     *)
(* stream starts, so that the stream need not be read before it is needed. *)
(* The record itself stays in its decoder until the decoder is called      *)
(* again, which is why a head is popped one call after its record was      *)
(* returned.  The inner decoders keep the promise of RecordStream.         *)
(***************************************************************************)
EXTENDS Integers, Sequences, FiniteSets

CONSTANTS
    Inputs,     \* the inputs: see IsInput
    MaxFails    \* bound: errors of the inner decoders in one behaviour

(***************************************************************************)
(* An input has the timestamps of each decoder's records and the hints, of *)
(* which there are none when the merger is made by new().  A stream is in  *)
(* order, and "the hint timestamp must be <= raw_index_ts() of the first". *)
(***************************************************************************)
IsInput(in) ==
    /\ in.ts \in Seq(Seq(Nat)) /\ in.ts # <<>>
    /\ in.hints \in Seq(Nat)
    /\ in.hints # <<>> => Len(in.hints) = Len(in.ts)
    /\ \A d \in 1..Len(in.ts) :
          /\ \A i, j \in 1..Len(in.ts[d]) : i <= j => in.ts[d][i] <= in.ts[d][j]
          /\ in.hints # <<>> =>
               \A i \in 1..Len(in.ts[d]) : in.hints[d] <= in.ts[d][i]

ASSUME MergeAssumption == MaxFails \in Nat /\ \A in \in Inputs : IsInput(in)

VARIABLES
    input,
    min_heap,     \* the heads: [ts, hint, idx], at most one for each decoder
    is_first,
    pc,           \* "new": in new(); "idle"; "next": in next_decoder_idx; "dead"
    opening,      \* the decoder new() reads next
    pos,          \* pos[d]: records decoder d has decoded
    current,      \* current[d]: the record its last_record() returns; 0: None
    first,        \* first[d]: the first record of d not handed out or lost
    answer,
    fails

vars == <<input, min_heap, is_first, pc, opening, pos, current, first, answer, fails>>

Decoders == 1..Len(input.ts)
Ts(d, i) == input.ts[d][i]

Answer(tag, d, i) == [tag |-> tag, stream |-> d, rec |-> i]
NoAnswer          == Answer("None", 0, 0)

Real(d, t) == [ts |-> t, hint |-> FALSE, idx |-> d]
Hint(d, t) == [ts |-> t, hint |-> TRUE, idx |-> d]

-----------------------------------------------------------------------------
(* The heap.  StreamHead is ordered by timestamp, be it real or a hint, and *)
(* then by decoder.                                                         *)

\* A slip: ties are resolved by the decoder added last.
HeadBeforeLast(h, g) == h.ts < g.ts \/ (h.ts = g.ts /\ h.idx > g.idx)
\* Another: an order derived for IndexTs, in which hints come before timestamps.
HeadBeforeHint(h, g) ==
    \/ h.hint /\ ~g.hint
    \/ h.hint = g.hint /\ (h.ts < g.ts \/ (h.ts = g.ts /\ h.idx < g.idx))
HeadBefore(h, g)     == h.ts < g.ts \/ (h.ts = g.ts /\ h.idx < g.idx)

Peek == CHOOSE h \in min_heap : \A g \in min_heap \ {h} : HeadBefore(h, g)

\* The decoders whose records are yet to come start in the heap with a hint.
Init ==
    /\ input \in Inputs
    /\ min_heap = {Hint(d, input.hints[d]) : d \in 1..Len(input.hints)}
    /\ pc = IF input.hints = <<>> THEN "new" ELSE "idle"
    /\ opening = 1
    /\ is_first = TRUE
    /\ pos = [d \in Decoders |-> 0]
    /\ current = [d \in Decoders |-> 0]
    /\ first = [d \in Decoders |-> 1]
    /\ answer = NoAnswer
    /\ fails = 0

-----------------------------------------------------------------------------
(* One call of decoders[d].decode_record_ref(), rest being the heap without *)
(* d's head, and what becomes of the head.                                  *)

ReadsRecord(d, rest) ==
    /\ pos[d] < Len(input.ts[d])
    /\ pos' = [pos EXCEPT ![d] = @ + 1]
    /\ current' = [current EXCEPT ![d] = pos[d] + 1]
    /\ min_heap' = rest \cup {Real(d, Ts(d, pos[d] + 1))}
    /\ UNCHANGED fails

\* A slip, here and in ReadsErrKeepsHead: the head is only peeked at before the read.
ReadsNoneKeepsHead(d, rest) ==
    /\ pos[d] = Len(input.ts[d])
    /\ current' = [current EXCEPT ![d] = 0]
    /\ UNCHANGED <<pos, fails, min_heap>>

ReadsNone(d, rest) ==
    /\ pos[d] = Len(input.ts[d])
    /\ current' = [current EXCEPT ![d] = 0]
    /\ min_heap' = rest
    /\ UNCHANGED <<pos, fails>>

ReadsErrKeepsHead(d, rest) ==
    /\ fails < MaxFails
    /\ current' = [current EXCEPT ![d] = 0]
    /\ fails' = fails + 1
    /\ UNCHANGED <<pos, min_heap>>

ReadsErr(d, rest) ==
    /\ fails < MaxFails
    /\ current' = [current EXCEPT ![d] = 0]
    /\ min_heap' = rest
    /\ fails' = fails + 1
    /\ UNCHANGED pos

GivenUp(f, d) == [f EXCEPT ![d] = Len(input.ts[d]) + 1]

-----------------------------------------------------------------------------
(* new(): the first record of every decoder. *)

New ==
    /\ pc = "new" /\ opening \in Decoders
    /\ ReadsRecord(opening, min_heap) \/ ReadsNone(opening, min_heap)
    /\ opening' = opening + 1
    /\ pc' = IF opening = Len(input.ts) THEN "idle" ELSE "new"
    /\ UNCHANGED <<input, is_first, first, answer>>

NewErr ==
    /\ pc = "new" /\ opening \in Decoders
    /\ ReadsErr(opening, min_heap)
    /\ pc' = "dead" /\ answer' = Answer("Err", opening, 0)
    /\ first' = GivenUp(first, opening)
    /\ UNCHANGED <<input, is_first, opening>>

-----------------------------------------------------------------------------
(* decode_record_ref(). *)

CallFirst ==
    /\ pc = "idle" /\ is_first
    /\ is_first' = FALSE
    /\ pc' = "next" /\ answer' = NoAnswer
    /\ UNCHANGED <<input, min_heap, opening, pos, current, first, fails>>

CallEmpty ==
    /\ pc = "idle" /\ ~is_first /\ min_heap = {}
    /\ answer' = Answer("Exhausted", 0, 0)
    /\ UNCHANGED <<input, min_heap, is_first, pc, opening, pos, current, first, fails>>

\* The head of the record returned last is popped and its decoder read.  After an
\* error the head is that of a record nobody has seen yet, which is lost.
CallPop ==
    /\ pc = "idle" /\ ~is_first /\ min_heap # {}
    /\ ReadsRecord(Peek.idx, min_heap \ {Peek}) \/ ReadsNone(Peek.idx, min_heap \ {Peek})
    /\ pc' = "next" /\ answer' = NoAnswer
    /\ first' = [first EXCEPT ![Peek.idx] = pos[Peek.idx] + 1]
    /\ UNCHANGED <<input, is_first, opening>>

CallPopErr ==
    /\ pc = "idle" /\ ~is_first /\ min_heap # {}
    /\ ReadsErr(Peek.idx, min_heap \ {Peek})
    /\ answer' = Answer("Err", Peek.idx, 0)
    /\ first' = GivenUp(first, Peek.idx)
    /\ UNCHANGED <<input, is_first, pc, opening>>

\* next_decoder_idx: a hint at the top of the heap is replaced by a real head.
HintOnTop      == min_heap # {} /\ Peek.hint

ResolveHint ==
    /\ pc = "next" /\ HintOnTop
    /\ ReadsRecord(Peek.idx, min_heap \ {Peek}) \/ ReadsNone(Peek.idx, min_heap \ {Peek})
    /\ UNCHANGED <<input, is_first, pc, opening, first, answer>>

ResolveHintErr ==
    /\ pc = "next" /\ HintOnTop
    /\ ReadsErr(Peek.idx, min_heap \ {Peek})
    /\ pc' = "idle" /\ answer' = Answer("Err", Peek.idx, 0)
    /\ first' = GivenUp(first, Peek.idx)
    /\ UNCHANGED <<input, is_first, opening>>

ReturnNone ==
    /\ pc = "next" /\ min_heap = {}
    /\ pc' = "idle" /\ answer' = Answer("Exhausted", 0, 0)
    /\ UNCHANGED <<input, min_heap, is_first, opening, pos, current, first, fails>>

\* decoders[idx].last_record(), which is None after a decoder returned no record.
ReturnRecord ==
    /\ pc = "next" /\ min_heap # {} /\ ~HintOnTop
    /\ pc' = "idle"
    /\ answer' = IF current[Peek.idx] = 0 THEN Answer("Exhausted", 0, 0)
                 ELSE Answer("Record", Peek.idx, current[Peek.idx])
    /\ first' = [first EXCEPT ![Peek.idx] = current[Peek.idx] + 1]
    /\ UNCHANGED <<input, min_heap, is_first, opening, pos, current, fails>>

-----------------------------------------------------------------------------
Next ==
    \/ New \/ NewErr
    \/ CallFirst \/ CallEmpty \/ CallPop \/ CallPopErr
    \/ ResolveHint \/ ResolveHintErr \/ ReturnNone \/ ReturnRecord

\* The caller keeps calling and the inner decoders answer.
Spec == Init /\ [][Next]_vars /\ WF_vars(Next)

-----------------------------------------------------------------------------
(* Properties. *)

TypeOK ==
    /\ input \in Inputs
    /\ min_heap \subseteq [ts : Nat, hint : BOOLEAN, idx : Decoders]
    /\ is_first \in BOOLEAN
    /\ pc \in {"new", "idle", "next", "dead"}
    /\ opening \in 1..Len(input.ts) + 1
    /\ pos \in [Decoders -> Nat] /\ current \in [Decoders -> Nat]
    /\ first \in [Decoders -> Nat]
    /\ answer \in [tag : {"None", "Record", "Exhausted", "Err"},
                   stream : Nat, rec : Nat]
    /\ fails \in Nat

\* The heap and the decoders agree: a decoder has at most one head, a real head
\* carries the timestamp of the record its decoder still holds, and a decoder with
\* a hint has not been read.  Returned references rest on this.
HeadsAreCurrent ==
    /\ \A h, g \in min_heap : h.idx = g.idx => h = g
    /\ \A h \in min_heap :
          IF h.hint THEN pos[h.idx] = 0
          ELSE /\ current[h.idx] = pos[h.idx] /\ pos[h.idx] > 0
               /\ h.ts = Ts(h.idx, pos[h.idx])

\* with_hints avoids "reading from a decoder before necessary": a stream is opened
\* only when its hint precedes every record that has been read and not handed out.
LazyOpening ==
    [][\A d \in DOMAIN input.hints : pos[d] = 0 /\ pos'[d] = 1 =>
          \A e \in Decoders : first[e] <= pos[e] =>
              input.hints[d] <= Ts(e, first[e])]_vars

Abstract == INSTANCE MergedStreams WITH streams <- input.ts

\* The merge keeps the promise of MergedStreams: records of all streams in order of
\* timestamp and place, whether the heap held hints or timestamps, each once, and
\* none lost before the first error.
ImplementsMergedStreams == Abstract!Spec

\* Unless a decoder fails, every record of every stream is handed out.
AllMerged ==
    <>(fails > 0 \/ \A d \in Decoders : first[d] = Len(input.ts[d]) + 1)
=============================================================================
