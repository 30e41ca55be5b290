--------------------------- MODULE SampleStreams ---------------------------
(* Streams to check DbnFsm and the decoders on, with every size scaled down. *)
EXTENDS DbnFsm

MCRecSize ==
    [rt \in RTypes |->
        CASE rt = "INSTRUMENT_DEF" -> <<3, 5, 7>>
          [] rt = "STATISTICS"     -> <<3, 3, 5>>
          [] rt = "OTHER"          -> <<2, 2, 2>>
          [] OTHER                 -> <<2, 4, 4>>]

MkStream(meta, v, ts, mlen, rtypes, lens, cut) ==
    LET n     == Len(lens)
        start == IF meta THEN METADATA_PRELUDE_LEN + mlen ELSE 0
        at[i \in 1..n + 1] == IF i = 1 THEN start ELSE at[i - 1] + lens[i - 1]
    IN  [meta |-> meta, prefix |-> TRUE, good |-> TRUE, ts_out |-> ts, version |-> v,
         mlen |-> mlen, rtype |-> rtypes, len |-> lens, at |-> at,
         total |-> at[n + 1] - cut]

\* A stream whose records have the sizes of its version, cut short by cut bytes.
Valid(meta, v, ts, mlen, rtypes, cut) ==
    MkStream(meta, v, ts, mlen, rtypes,
             [i \in 1..Len(rtypes) |-> EncodedSize(rtypes[i], v, ts)], cut)
=============================================================================
