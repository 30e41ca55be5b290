------------------------------ MODULE MCDbnFsm ------------------------------
(* DbnFsm on short streams, chosen so that every arm of the loops is taken. *)
EXTENDS SampleStreams

MCCompatSizes == {NONE, 0, MAX_RECORD_LEN}
MCLimits      == {NONE, 1}

MCStreams ==
    { Valid(FALSE, 1, TRUE,  0, <<"STATISTICS", "SYMBOL_MAPPING", "INSTRUMENT_DEF">>, 0),
      Valid(FALSE, 2, FALSE, 0, <<"STATISTICS", "INSTRUMENT_DEF", "STATISTICS">>, 1),
      Valid(TRUE,  1, FALSE, 4, <<"INSTRUMENT_DEF", "OTHER", "INSTRUMENT_DEF">>, 0),
      Valid(TRUE,  3, TRUE,  20, <<"INSTRUMENT_DEF", "OTHER">>, 0),
      Valid(FALSE, 3, FALSE, 0, <<"OTHER", "INSTRUMENT_DEF">>, 0),
      MkStream(TRUE, 2, FALSE, 3, <<"OTHER", "INSTRUMENT_DEF", "OTHER">>, <<2, 5, 1>>, -2),
      Valid(TRUE,  4, FALSE, 4, <<>>, 0),
      Valid(TRUE,  2, FALSE, 1, <<>>, 0),
      [Valid(TRUE, 2, FALSE, 4, <<>>, 0) EXCEPT !.good = FALSE],
      [Valid(TRUE, 2, FALSE, 4, <<>>, 0) EXCEPT !.prefix = FALSE] }

\* The streams and buffers are such as the theorems speak of.
ASSUME HypothesesHold == (\A s \in Streams : WellFormed(s)) /\ RoomyBuffers
=============================================================================
