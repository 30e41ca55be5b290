---------------------------- MODULE RecordStream ----------------------------
(***************************************************************************)
(* What a DBN decoder promises its caller: each call of decode_record_ref  *)
(* answers with the next record of the input, or that the input is         *)
(* exhausted, which it may say only after the last complete record, or     *)
(* with an error, which loses nothing.  Records may be skipped.            *)
(***************************************************************************)
EXTENDS Integers

VARIABLES
    size,         \* how many complete records the input has
    next,         \* the number of the next record, from 1
    answer        \* [tag, rec]: what the last call answered

Answer(tag, rec) == [tag |-> tag, rec |-> rec]

Init == size \in Nat /\ next = 1 /\ answer = Answer("None", 0)

Deliver ==
    /\ next <= size
    /\ answer' = Answer("Record", next)
    /\ next' = next + 1

SkipSome ==
    /\ next < next' /\ next' <= size + 1
    /\ answer' = Answer("None", 0)

Exhausted ==
    /\ next = size + 1
    /\ answer' = Answer("Exhausted", 0) /\ UNCHANGED next

Fail == answer' = Answer("Err", 0) /\ UNCHANGED next

\* A new call withdraws the last answer, and may be abandoned.
Call == answer' = Answer("None", 0) /\ UNCHANGED next

Next == (Deliver \/ SkipSome \/ Exhausted \/ Fail \/ Call) /\ UNCHANGED size

Spec == Init /\ [][Next]_<<size, next, answer>>
=============================================================================
