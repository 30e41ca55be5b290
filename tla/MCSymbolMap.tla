---------------------------- MODULE MCSymbolMap ----------------------------
(* SymbolMap on metadata of at most two mappings over three days. *)
EXTENDS SymbolMap

MCRecSize ==
    [rt \in RTypes |->
        CASE rt = "INSTRUMENT_DEF" -> <<3, 5, 7>>
          [] rt = "STATISTICS"     -> <<3, 3, 5>>
          [] rt = "OTHER"          -> <<2, 2, 2>>
          [] OTHER                 -> <<2, 4, 4>>]

\* "01" parses as the same ID as "1".
MCIidOf == [s \in {"1", "01", "2"} |-> IF s = "2" THEN 2 ELSE 1]

Span(a, b, s) == [start_date |-> a, end_date |-> b, symbol |-> s]

Lists(symbols) ==
    {<<Span(1, 3, s)>> : s \in symbols} \cup {<<Span(2, 4, s)>> : s \in symbols}
    \cup {<<Span(1, 2, s), Span(2, 3, t)>> : s \in symbols, t \in symbols}
    \cup {<<Span(1, 1, s), Span(3, 4, t)>> : s \in symbols, t \in symbols}

\* Raw symbols map to IDs, or IDs to symbols.
Forward ==
    {<<[raw_symbol |-> "A", intervals |-> i], [raw_symbol |-> "B", intervals |-> j]>> :
        i \in Lists({"1", "2", ""}), j \in Lists({"1", "01", "X"})}
Backward ==
    {<<[raw_symbol |-> r, intervals |-> i], [raw_symbol |-> "1", intervals |-> j]>> :
        r \in {"2", "01", "X"}, i \in Lists({"A", ""}), j \in Lists({"B", "C"})}
    \cup {<<[raw_symbol |-> "2", intervals |-> <<Span(3, 2, "A")>>]>>}

QueryRange(start, end) == [start |-> start, end |-> end]
Ranges == {QueryRange(2, NONE), QueryRange(3, 5), QueryRange(4, 6), QueryRange(2, 8)}

Meta(in_id, out_id, range, mappings) ==
    [in_id |-> in_id, out_id |-> out_id, start |-> range.start, end |-> range.end,
     mappings |-> mappings]

MCMetas ==
    {Meta(FALSE, TRUE, r, ms) : r \in Ranges, ms \in Forward}
    \cup {Meta(TRUE, FALSE, r, ms) : r \in Ranges, ms \in Backward}
    \cup {Meta(FALSE, FALSE, r, <<>>) : r \in Ranges}

Live(rt, v, ts, iid, s, utf8) ==
    [rtype |-> rt, version |-> v, ts_out |-> ts, iid |-> iid, symbol |-> s, utf8 |-> utf8]

MCRecords ==
    {Live("SYMBOL_MAPPING", 1, TRUE, 1, "P", TRUE), Live("SYMBOL_MAPPING", 2, FALSE, 1, "Q", TRUE),
     Live("INSTRUMENT_DEF", 2, FALSE, 2, "R", TRUE), Live("SYMBOL_MAPPING", 3, TRUE, 2, "S", FALSE),
     Live("OTHER", 3, FALSE, 1, "", TRUE)}
=============================================================================
