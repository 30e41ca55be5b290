---------------------------- MODULE MCPipeline ----------------------------
(* Small inputs, command lines and options for TLC. *)
EXTENDS Pipeline

Day1 == <<2024, 1, 31>>
Day2 == <<2024, 2, 1>>
Day3 == <<2024, 2, 2>>

NameFor(from, to, sym) == [start_date |-> from, end_date |-> to, symbol |-> sym]
Mapped(raw, ints)      == [raw_symbol |-> raw, intervals |-> ints]

(* Instrument 1 is AA, and BB from the second day on. *)
Mappings == << Mapped("AA", << NameFor(Day1, Day2, "1"), NameFor(Day2, Day3, "") >>),
               Mapped("BB", << NameFor(Day2, Day3, "1") >>) >>

Meta(version, schema, ts, mappings) ==
  [version |-> version, dataset |-> "XNAS", schema |-> schema, stype_in |-> "RawSymbol",
   stype_out |-> "InstrumentId", start |-> 5, end |-> None, limit |-> None, ts_out |-> ts,
   symbol_cstr_len |-> version_symbol_cstr_len(version), symbols |-> <<"AA", "BB">>,
   partial |-> <<>>, not_found |-> <<"CC">>, mappings |-> mappings]

Rec(t, rtype, ts, id, day) == Record(t, rtype, ts, id, "1", day, "")
Map(t, ts, id, sym)        == Record(t, "SYMBOL_MAPPING", ts, id, "1", Day1, sym)

Input(kind, version, m, recs) ==
  [kind |-> kind, several |-> FALSE, version |-> version, meta |-> m, recs |-> recs]

(* Definitions of version 1 over two days. *)
Definitions ==
  Input("dbn", 1, Meta(1, "Definition", FALSE, Mappings),
        << Rec("InstrumentDefMsgV1", "INSTRUMENT_DEF", FALSE, 1, Day1),
           Rec("InstrumentDefMsgV1", "INSTRUMENT_DEF", FALSE, 2, Day2) >>)

(* Live streams of version 2: mappings change, and schemas mix. *)
LiveStream ==
  Input("dbn", 2, Meta(2, "None", TRUE, <<>>),
        << Map("SymbolMappingMsg", TRUE, 1, "AA"), Rec("MboMsg", "MBO", TRUE, 2, Day1),
           Map("SymbolMappingMsg", TRUE, 3, "BB"), Rec("MboMsg", "MBO", TRUE, 4, Day1) >>)

LiveMixed ==
  [LiveStream EXCEPT !.recs =
     << Map("SymbolMappingMsg", TRUE, 1, "AA"), Rec("MboMsg", "UNKNOWN", TRUE, 2, Day1),
        Rec("StatMsgV1", "STATISTICS", TRUE, 3, Day1), Rec("MboMsg", "MBO", TRUE, 4, Day1) >>]

(* Current: a limit, an inverse symbology, a symbol that does not parse. *)
InverseMeta ==
  [Meta(3, "Mbo", FALSE, << Mapped("1", << NameFor(Day1, Day3, LongText) >>) >>) EXCEPT
     !.stype_in = "InstrumentId", !.stype_out = "RawSymbol", !.limit = 7, !.end = 9]

Current ==
  Input("dbn", 3, InverseMeta,
        << Rec("MboMsg", "MBO", FALSE, 1, Day1), Rec("StatMsg", "STATISTICS", FALSE, 2, Day1),
           Rec("MboMsg", "MBO", FALSE, 3, Day2) >>)

Unmappable ==
  Input("dbn", 3, Meta(3, "Mbo", FALSE, << Mapped("AA", << NameFor(Day1, Day2, "BB") >>) >>),
        << Rec("MboMsg", "MBO", FALSE, 1, Day1), BadRecord >>)

Legacy ==
  Input("dbz", 1, [Meta(1, "Mbo", FALSE, Mappings) EXCEPT !.end = 8, !.limit = 0],
        << Rec("MboMsg", "MBO", FALSE, 1, Day1), Rec("MboMsg", "MBO", FALSE, 2, Day2) >>)

Fragment ==
  Input("frag", 2, Nothing,
        << Rec("InstrumentDefMsgV2", "INSTRUMENT_DEF", FALSE, 1, Day1),
           Rec("MboMsg", "MBO", FALSE, 2, Day1) >>)

Fragments == [Fragment EXCEPT !.several = TRUE]

MCInputs == {Definitions, LiveStream, LiveMixed, Current, Unmappable, Legacy, Fragment,
             Fragments, Input("other", 1, Nothing, <<>>)}

(* Command lines: how to encode, with the options each of them takes. *)
Arg(encoding, output, force, metadata, map_symbols, header, input_fragment) ==
  [encoding |-> encoding, output |-> output, force |-> force, upgrade |-> FALSE,
   metadata |-> metadata, map_symbols |-> map_symbols, write_header |-> header,
   input_fragment |-> input_fragment, limit |-> None, schema |-> "None"]

Filters ==
  {[upgrade |-> u, limit |-> l, schema |-> s] :
     u \in BOOLEAN, l \in {None, 1}, s \in {"None", "Mbo", "Definition"}}

Forms ==
  { Arg("infer", ".dbn", FALSE, FALSE, FALSE, TRUE, FALSE),
    Arg("dbn", ".dbn", TRUE, FALSE, FALSE, TRUE, FALSE),
    Arg("fragment", ".frag", TRUE, FALSE, FALSE, TRUE, FALSE),
    Arg("csv", ".csv", FALSE, FALSE, FALSE, TRUE, FALSE),
    Arg("infer", ".tsv", TRUE, FALSE, TRUE, TRUE, FALSE),
    Arg("csv", "stdout", FALSE, FALSE, FALSE, FALSE, FALSE),
    Arg("infer", ".json", FALSE, FALSE, TRUE, TRUE, FALSE),
    Arg("json", "stdout", FALSE, TRUE, FALSE, TRUE, FALSE),
    Arg("infer", ".csv", TRUE, TRUE, FALSE, TRUE, FALSE),
    Arg("infer", ".pb", TRUE, FALSE, FALSE, TRUE, FALSE),
    Arg("infer", ".dbn", TRUE, FALSE, FALSE, TRUE, TRUE),
    Arg("fragment", ".frag", FALSE, FALSE, FALSE, TRUE, TRUE),
    Arg("csv", ".csv", FALSE, FALSE, FALSE, TRUE, TRUE) }

MCArgs == {f @@ a : f \in Filters, a \in Forms}

GivenMap == << Mapped("1", << NameFor(Day1, Day2, "ZZ") >>) >>
BadMap   == << Mapped("1", << NameFor(Day2, Day1, "ZZ") >>) >>

(* map_symbols is the same unset and set, but for DBN, which maps none.    *)
(* Only CSV takes the records of a schema.                                 *)
MCOptions ==
  {o \in {[encoding |-> e[1], map_symbols |-> e[2], has_metadata |-> h, ts_out |-> t,
           symbol_interval_map |-> g, schema |-> s, input_version |-> v,
           upgrade_policy |-> p] :
             e \in {<<"Dbn", "None">>, <<"Dbn", "True">>, <<"Csv", "True">>,
                    <<"Csv", "False">>, <<"Json", "None">>, <<"Json", "False">>},
             h \in BOOLEAN, t \in BOOLEAN, g \in {<<>>, GivenMap, BadMap},
             s \in {"None", "Mbo", "Definition"}, v \in {VU!NONE, 1, 2, 3},
             p \in VU!Policies} :
     /\ o.symbol_interval_map = GivenMap => o.encoding # "Dbn" /\ o.map_symbols # "False"
     /\ o.schema # "None" => o.encoding = "Csv"}

(* What the proofs ask of the inputs. *)
ASSUME HypothesisHolds == WellSizedInputs

MCUpdates == { [start |-> 3, end |-> 9, limit |-> None] }
=============================================================================
