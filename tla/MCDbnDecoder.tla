---------------------------- MODULE MCDbnDecoder ----------------------------
(* DbnDecoder on short streams, cut and broken in the ways the decoders handle. *)
EXTENDS DbnDecoder, SampleStreams

MCCompatSizes == {0, MAX_RECORD_LEN}

MCStreams ==
    { Valid(FALSE, 1, TRUE,  0, <<"STATISTICS", "INSTRUMENT_DEF", "SYMBOL_MAPPING",
                                  "INSTRUMENT_DEF">>, 1),
      Valid(TRUE,  1, FALSE, 4, <<"INSTRUMENT_DEF", "OTHER", "INSTRUMENT_DEF",
                                  "STATISTICS">>, 0),
      Valid(TRUE,  3, TRUE,  20, <<"INSTRUMENT_DEF", "OTHER", "INSTRUMENT_DEF">>, 0),
      MkStream(TRUE, 2, FALSE, 3, <<"OTHER", "INSTRUMENT_DEF", "OTHER">>, <<2, 5, 1>>, -2),
      Valid(TRUE,  2, FALSE, 4, <<>>, 2),
      MkStream(TRUE, 4, FALSE, 4, <<"OTHER">>, <<2>>, 0),
      [Valid(TRUE, 2, FALSE, 4, <<"OTHER">>, 0) EXCEPT !.good = FALSE] }

\* The buffers are such as the theorems speak of.
ASSUME HypothesisHolds == RoomyBuffers
=============================================================================
