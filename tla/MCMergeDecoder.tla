--------------------------- MODULE MCMergeDecoder ---------------------------
(* MergeDecoder on three streams of at most two records. *)
EXTENDS MergeDecoder

CONSTANT MaxTs     \* bound: timestamps are 0..MaxTs

Sorted == {<<>>} \cup {<<t>> : t \in 0..MaxTs}
                 \cup {<<t, u>> : t \in 0..MaxTs, u \in 0..MaxTs}

MCInputs ==
    {in \in [ts : [1..3 -> Sorted], hints : {<<>>} \cup [1..3 -> 0..MaxTs]] : IsInput(in)}
=============================================================================
