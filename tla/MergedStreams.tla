--------------------------- MODULE MergedStreams ---------------------------
(***************************************************************************)
(* What merging promises: the records of all the streams in one order, by  *)
(* timestamp and, where timestamps are equal, by the stream's place.  An   *)
(* error gives the failing stream up for good, and the call after an error *)
(* may lose one record of another stream; without an error nothing is lost.*)
(***************************************************************************)
EXTENDS Integers, Sequences

VARIABLES
    streams,   \* streams[d]: the timestamps of stream d
    first,     \* first[d]: the first record of d neither handed out nor lost
    answer     \* what the last call answered

Answer(tag, d, i) == [tag |-> tag, stream |-> d, rec |-> i]
NoAnswer          == Answer("None", 0, 0)

Left(d)    == first[d] <= Len(streams[d])
NextTs(d)  == streams[d][first[d]]
Before(d, e) == NextTs(d) < NextTs(e) \/ (NextTs(d) = NextTs(e) /\ d <= e)

Init == first = [d \in DOMAIN streams |-> 1] /\ answer = NoAnswer

Deliver ==
    \E d \in DOMAIN streams :
        /\ Left(d) /\ \A e \in DOMAIN streams : Left(e) => Before(d, e)
        /\ answer' = Answer("Record", d, first[d])
        /\ first' = [first EXCEPT ![d] = @ + 1]

Exhausted ==
    /\ \A d \in DOMAIN streams : ~Left(d)
    /\ answer' = Answer("Exhausted", 0, 0) /\ UNCHANGED first

Fail ==
    \E d \in DOMAIN streams :
        /\ answer' = Answer("Err", d, 0)
        /\ first' = [first EXCEPT ![d] = Len(streams[d]) + 1]

Call == answer' = NoAnswer /\ UNCHANGED first

Lose ==
    \E d \in DOMAIN streams :
        /\ answer.tag = "Err" /\ answer' = NoAnswer
        /\ Left(d) /\ first' = [first EXCEPT ![d] = @ + 1]

Next == (Deliver \/ Exhausted \/ Fail \/ Call \/ Lose) /\ UNCHANGED streams

Spec == Init /\ [][Next]_<<streams, first, answer>>
=============================================================================
