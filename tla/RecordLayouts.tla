--------------------------- MODULE RecordLayouts ---------------------------
(***************************************************************************)
(* The record structs of DBN, version by version: their fields in the      *)
(* order of declaration with the #[dbn(...)] attributes the derive macros  *)
(* read, the repr(C) layout the compiler gives them, and the order in      *)
(* which the text encodings and the Python field lists show their fields.  *)
(* A field is abstracted to its name, element type, array length and       *)
(* attributes; a level of a book is shown as the column <<field, level>>.  *)
(***************************************************************************)
EXTENDS Integers, Sequences, SequencesExt, FiniteSets

(* Lengths of the symbol and asset fields of each version. *)
SYMBOL_CSTR_LEN_V1 == 22
SYMBOL_CSTR_LEN_V2 == 71
SYMBOL_CSTR_LEN_V3 == SYMBOL_CSTR_LEN_V2
ASSET_CSTR_LEN_V1 == 7
ASSET_CSTR_LEN_V2 == ASSET_CSTR_LEN_V1
ASSET_CSTR_LEN_V3 == 11

-----------------------------------------------------------------------------
(* Fields.  attr is the serialisation attribute of dbn_attr.rs, order the  *)
(* encode_order (NoOrder without one), hidden says that the name starts    *)
(* with '_' or that the field is #[dbn(skip)].                             *)
NoOrder == -1

Field(name, ty, len, attr) ==
  [name |-> name, ty |-> ty, len |-> len, attr |-> attr,
   order |-> NoOrder, index |-> FALSE, hidden |-> FALSE]

Num(name, ty) == Field(name, ty, 1, "none")
Px(name)      == Field(name, "i64", 1, "fixed_price")
Ts(name)      == Field(name, "u64", 1, "unix_nanos")
Chr(name)     == Field(name, "c_char", 1, "c_char")
Str(name, n)  == Field(name, "str", n, "none")
Flags         == Field("flags", "FlagSet", 1, "none")
Levels(ty, n) == Field("levels", ty, n, "none")
Hd            == Field("hd", "RecordHeader", 1, "none")
Pad(name, n)  == [Field(name, "u8", n, "none") EXCEPT !.hidden = TRUE]
At(k, f)      == [f EXCEPT !.order = k]
IndexTs(name) == [At(0, Ts(name)) EXCEPT !.index = TRUE]

(* find_dbn_attr_args: only the known arguments are accepted. *)
KnownAttrs == {"none", "c_char", "fixed_price", "unix_nanos"}

-----------------------------------------------------------------------------
(* The structs shared by all versions, then those of version 3, 1 and 2.   *)

RecordHeader ==
  << [Num("length", "u8") EXCEPT !.hidden = TRUE], Num("rtype", "u8"),
     Num("publisher_id", "u16"), Num("instrument_id", "u32"), At(0, Ts("ts_event")) >>

MboMsg ==
  << Hd, Num("order_id", "u64"), At(4, Px("price")), At(5, Num("size", "u32")), Flags,
     At(6, Num("channel_id", "u8")), At(2, Chr("action")), At(3, Chr("side")),
     IndexTs("ts_recv"), Num("ts_in_delta", "i32"), Num("sequence", "u32") >>

BidAskPair ==
  << Px("bid_px"), Px("ask_px"), Num("bid_sz", "u32"), Num("ask_sz", "u32"),
     Num("bid_ct", "u32"), Num("ask_ct", "u32") >>

ConsolidatedBidAskPair ==
  << Px("bid_px"), Px("ask_px"), Num("bid_sz", "u32"), Num("ask_sz", "u32"),
     Num("bid_pb", "u16"), Pad("_reserved1", 2), Num("ask_pb", "u16"), Pad("_reserved2", 2) >>

TradeMsg ==
  << Hd, Px("price"), Num("size", "u32"), At(2, Chr("action")), At(3, Chr("side")), Flags,
     At(4, Num("depth", "u8")), IndexTs("ts_recv"), Num("ts_in_delta", "i32"),
     Num("sequence", "u32") >>

Mbp1Msg ==
  << Hd, Px("price"), Num("size", "u32"), At(2, Chr("action")), At(3, Chr("side")), Flags,
     At(4, Num("depth", "u8")), IndexTs("ts_recv"), Num("ts_in_delta", "i32"),
     Num("sequence", "u32"), Levels("BidAskPair", 1) >>

Mbp10Msg ==
  << Hd, Px("price"), Num("size", "u32"), At(2, Chr("action")), At(3, Chr("side")), Flags,
     At(4, Num("depth", "u8")), IndexTs("ts_recv"), Num("ts_in_delta", "i32"),
     Num("sequence", "u32"), Levels("BidAskPair", 10) >>

BboMsg ==
  << Hd, Px("price"), Num("size", "u32"), Pad("_reserved1", 1), At(2, Chr("side")), Flags,
     Pad("_reserved2", 1), IndexTs("ts_recv"), Pad("_reserved3", 4), Num("sequence", "u32"),
     Levels("BidAskPair", 1) >>

Cmbp1Msg ==
  << Hd, Px("price"), Num("size", "u32"), At(2, Chr("action")), At(3, Chr("side")), Flags,
     Pad("_reserved1", 1), IndexTs("ts_recv"), Num("ts_in_delta", "i32"),
     Pad("_reserved2", 4), Levels("ConsolidatedBidAskPair", 1) >>

(* A slip: no padding before the time, which the compiler then adds. *)
CbboMsgUnpadded ==
  << Hd, Px("price"), Num("size", "u32"), Pad("_reserved1", 1), At(2, Chr("side")), Flags,
     IndexTs("ts_recv"), Pad("_reserved3", 8), Levels("ConsolidatedBidAskPair", 1) >>

CbboMsg ==
  << Hd, Px("price"), Num("size", "u32"), Pad("_reserved1", 1), At(2, Chr("side")), Flags,
     Pad("_reserved2", 1), IndexTs("ts_recv"), Pad("_reserved3", 8),
     Levels("ConsolidatedBidAskPair", 1) >>

OhlcvMsg ==
  << Hd, Px("open"), Px("high"), Px("low"), Px("close"), Num("volume", "u64") >>

StatusMsg ==
  << Hd, IndexTs("ts_recv"), Num("action", "u16"), Num("reason", "u16"),
     Num("trading_event", "u16"), Chr("is_trading"), Chr("is_quoting"),
     Chr("is_short_sell_restricted"), Pad("_reserved", 7) >>

InstrumentDefMsgHead ==
  << Hd, IndexTs("ts_recv"), Px("min_price_increment"), Px("display_factor"),
     Ts("expiration"), Ts("activation"), Px("high_limit_price"), Px("low_limit_price"),
     Px("max_price_variation"), Px("unit_of_measure_qty"), Px("min_price_increment_amount"),
     Px("price_ratio"), At(54, Px("strike_price")), At(20, Num("raw_instrument_id", "u64")),
     At(165, Px("leg_price")), At(166, Px("leg_delta")), Num("inst_attrib_value", "i32"),
     Num("underlying_id", "u32"), Num("market_depth_implied", "i32"),
     Num("market_depth", "i32"), Num("market_segment_id", "u32"),
     Num("max_trade_vol", "u32"), Num("min_lot_size", "i32"),
     Num("min_lot_size_block", "i32") >>

InstrumentDefMsgMiddle ==
  << Num("min_lot_size_round_lot", "i32"), Num("min_trade_vol", "u32"),
     Num("contract_multiplier", "i32"), Num("decay_quantity", "i32"),
     Num("original_contract_size", "i32"), At(160, Num("leg_instrument_id", "u32")),
     At(167, Num("leg_ratio_price_numerator", "i32")),
     At(168, Num("leg_ratio_price_denominator", "i32")),
     At(169, Num("leg_ratio_qty_numerator", "i32")),
     At(170, Num("leg_ratio_qty_denominator", "i32")),
     At(171, Num("leg_underlying_id", "u32")), Num("appl_id", "i16"),
     Num("maturity_year", "u16"), Num("decay_start_date", "u16"), Num("channel_id", "u16"),
     At(158, Num("leg_count", "u16")), At(159, Num("leg_index", "u16")), Str("currency", 4),
     Str("settl_currency", 4), Str("secsubtype", 6),
     At(2, Str("raw_symbol", SYMBOL_CSTR_LEN_V3)), Str("group", 21), Str("exchange", 5),
     Str("asset", ASSET_CSTR_LEN_V3), Str("cfi", 7), Str("security_type", 7),
     Str("unit_of_measure", 31), Str("underlying", 21), Str("strike_price_currency", 4),
     At(161, Str("leg_raw_symbol", SYMBOL_CSTR_LEN_V3)), At(4, Chr("instrument_class")),
     Chr("match_algorithm"), Num("main_fraction", "u8"), Num("price_display_format", "u8"),
     Num("sub_fraction", "u8"), Num("underlying_product", "u8") >>

InstrumentDefMsgTail ==
  << At(3, Chr("security_update_action")), Num("maturity_month", "u8"),
     Num("maturity_day", "u8"), Num("maturity_week", "u8"), Chr("user_defined_instrument"),
     Num("contract_multiplier_unit", "i8"), Num("flow_schedule_type", "i8"),
     Num("tick_rule", "u8"), At(163, Chr("leg_instrument_class")), At(164, Chr("leg_side")),
     Pad("_reserved", 17) >>

InstrumentDefMsg == InstrumentDefMsgHead \o InstrumentDefMsgMiddle \o InstrumentDefMsgTail

ImbalanceMsg ==
  << Hd, IndexTs("ts_recv"), Px("ref_price"), Ts("auction_time"), Px("cont_book_clr_price"),
     Px("auct_interest_clr_price"), Px("ssr_filling_price"), Px("ind_match_price"),
     Px("upper_collar"), Px("lower_collar"), Num("paired_qty", "u32"),
     Num("total_imbalance_qty", "u32"), Num("market_imbalance_qty", "u32"),
     Num("unpaired_qty", "u32"), Chr("auction_type"), Chr("side"),
     Num("auction_status", "u8"), Num("freeze_status", "u8"), Num("num_extensions", "u8"),
     Chr("unpaired_side"), Chr("significant_imbalance"), Pad("_reserved", 1) >>

StatMsg ==
  << Hd, IndexTs("ts_recv"), Ts("ts_ref"), Px("price"), Num("quantity", "i64"),
     Num("sequence", "u32"), Num("ts_in_delta", "i32"), Num("stat_type", "u16"),
     Num("channel_id", "u16"), Num("update_action", "u8"), Num("stat_flags", "u8"),
     Pad("_reserved", 18) >>

ErrorMsg ==
  << Hd, Str("err", 302), Num("code", "u8"), Num("is_last", "u8") >>

SymbolMappingMsg ==
  << Hd, Num("stype_in", "u8"), Str("stype_in_symbol", SYMBOL_CSTR_LEN_V3),
     Num("stype_out", "u8"), Str("stype_out_symbol", SYMBOL_CSTR_LEN_V3), Ts("start_ts"),
     Ts("end_ts") >>

SystemMsg ==
  << Hd, Str("msg", 303), Num("code", "u8") >>

ErrorMsgV1 ==
  << Hd, Str("err", 64) >>

InstrumentDefMsgV1Head ==
  << Hd, IndexTs("ts_recv"), Px("min_price_increment"), Px("display_factor"),
     Ts("expiration"), Ts("activation"), Px("high_limit_price"), Px("low_limit_price"),
     Px("max_price_variation"), Px("trading_reference_price"), Px("unit_of_measure_qty"),
     Px("min_price_increment_amount"), Px("price_ratio"), Num("inst_attrib_value", "i32"),
     Num("underlying_id", "u32"), Num("raw_instrument_id", "u32"),
     Num("market_depth_implied", "i32"), Num("market_depth", "i32"),
     Num("market_segment_id", "u32"), Num("max_trade_vol", "u32"),
     Num("min_lot_size", "i32"), Num("min_lot_size_block", "i32"),
     Num("min_lot_size_round_lot", "i32"), Num("min_trade_vol", "u32"), Pad("_reserved2", 4) >>

InstrumentDefMsgV1Middle ==
  << Num("contract_multiplier", "i32"), Num("decay_quantity", "i32"),
     Num("original_contract_size", "i32"), Pad("_reserved3", 4),
     Num("trading_reference_date", "u16"), Num("appl_id", "i16"),
     Num("maturity_year", "u16"), Num("decay_start_date", "u16"), Num("channel_id", "u16"),
     Str("currency", 4), Str("settl_currency", 4), Str("secsubtype", 6),
     At(2, Str("raw_symbol", SYMBOL_CSTR_LEN_V1)), Str("group", 21), Str("exchange", 5),
     Str("asset", ASSET_CSTR_LEN_V1), Str("cfi", 7), Str("security_type", 7),
     Str("unit_of_measure", 31), Str("underlying", 21), Str("strike_price_currency", 4),
     At(4, Chr("instrument_class")), Pad("_reserved4", 2), Px("strike_price"),
     Pad("_reserved5", 6), Chr("match_algorithm"), Num("md_security_trading_status", "u8"),
     Num("main_fraction", "u8"), Num("price_display_format", "u8"),
     Num("settl_price_type", "u8"), Num("sub_fraction", "u8"),
     Num("underlying_product", "u8"),
     At(3, Num("security_update_action", "SecurityUpdateAction")),
     Num("maturity_month", "u8"), Num("maturity_day", "u8"), Num("maturity_week", "u8"),
     Num("user_defined_instrument", "UserDefinedInstrument"),
     Num("contract_multiplier_unit", "i8") >>

InstrumentDefMsgV1Tail ==
  << Num("flow_schedule_type", "i8"), Num("tick_rule", "u8"), Pad("_dummy", 3) >>

InstrumentDefMsgV1 ==
  InstrumentDefMsgV1Head \o InstrumentDefMsgV1Middle \o InstrumentDefMsgV1Tail

StatMsgV1 ==
  << Hd, IndexTs("ts_recv"), Ts("ts_ref"), Px("price"), Num("quantity", "i32"),
     Num("sequence", "u32"), Num("ts_in_delta", "i32"), Num("stat_type", "u16"),
     Num("channel_id", "u16"), Num("update_action", "u8"), Num("stat_flags", "u8"),
     Pad("_reserved", 6) >>

SymbolMappingMsgV1 ==
  << Hd, Str("stype_in_symbol", SYMBOL_CSTR_LEN_V1),
     Str("stype_out_symbol", SYMBOL_CSTR_LEN_V1), Pad("_dummy", 4), Ts("start_ts"),
     Ts("end_ts") >>

SystemMsgV1 ==
  << Hd, Str("msg", 64) >>

InstrumentDefMsgV2Head ==
  << Hd, IndexTs("ts_recv"), Px("min_price_increment"), Px("display_factor"),
     Ts("expiration"), Ts("activation"), Px("high_limit_price"), Px("low_limit_price"),
     Px("max_price_variation"), Px("trading_reference_price"), Px("unit_of_measure_qty"),
     Px("min_price_increment_amount"), Px("price_ratio"), At(46, Px("strike_price")),
     Num("inst_attrib_value", "i32"), Num("underlying_id", "u32"),
     Num("raw_instrument_id", "u32"), Num("market_depth_implied", "i32"),
     Num("market_depth", "i32"), Num("market_segment_id", "u32"),
     Num("max_trade_vol", "u32"), Num("min_lot_size", "i32"),
     Num("min_lot_size_block", "i32"), Num("min_lot_size_round_lot", "i32") >>

InstrumentDefMsgV2Tail ==
  << Num("min_trade_vol", "u32"), Num("contract_multiplier", "i32"),
     Num("decay_quantity", "i32"), Num("original_contract_size", "i32"),
     Num("trading_reference_date", "u16"), Num("appl_id", "i16"),
     Num("maturity_year", "u16"), Num("decay_start_date", "u16"), Num("channel_id", "u16"),
     Str("currency", 4), Str("settl_currency", 4), Str("secsubtype", 6),
     At(2, Str("raw_symbol", SYMBOL_CSTR_LEN_V2)), Str("group", 21), Str("exchange", 5),
     Str("asset", ASSET_CSTR_LEN_V2), Str("cfi", 7), Str("security_type", 7),
     Str("unit_of_measure", 31), Str("underlying", 21), Str("strike_price_currency", 4),
     At(4, Chr("instrument_class")), Chr("match_algorithm"),
     Num("md_security_trading_status", "u8"), Num("main_fraction", "u8"),
     Num("price_display_format", "u8"), Num("settl_price_type", "u8"),
     Num("sub_fraction", "u8"), Num("underlying_product", "u8"),
     At(3, Chr("security_update_action")), Num("maturity_month", "u8"),
     Num("maturity_day", "u8"), Num("maturity_week", "u8"),
     Num("user_defined_instrument", "UserDefinedInstrument"),
     Num("contract_multiplier_unit", "i8"), Num("flow_schedule_type", "i8"),
     Num("tick_rule", "u8"), Pad("_reserved", 10) >>

InstrumentDefMsgV2 == InstrumentDefMsgV2Head \o InstrumentDefMsgV2Tail

-----------------------------------------------------------------------------
(* The structs by name, the record types, and the rtypes each accepts: the *)
(* arguments of its #[dbn_record(...)] attribute.                          *)
Structs ==
  [MboMsg |-> MboMsg, TradeMsg |-> TradeMsg, Mbp1Msg |-> Mbp1Msg, Mbp10Msg |-> Mbp10Msg,
   BboMsg |-> BboMsg, Cmbp1Msg |-> Cmbp1Msg, CbboMsg |-> CbboMsg, OhlcvMsg |-> OhlcvMsg,
   StatusMsg |-> StatusMsg, InstrumentDefMsg |-> InstrumentDefMsg,
   ImbalanceMsg |-> ImbalanceMsg, StatMsg |-> StatMsg, ErrorMsg |-> ErrorMsg,
   SymbolMappingMsg |-> SymbolMappingMsg, SystemMsg |-> SystemMsg,
   ErrorMsgV1 |-> ErrorMsgV1, InstrumentDefMsgV1 |-> InstrumentDefMsgV1,
   StatMsgV1 |-> StatMsgV1, SymbolMappingMsgV1 |-> SymbolMappingMsgV1,
   SystemMsgV1 |-> SystemMsgV1, InstrumentDefMsgV2 |-> InstrumentDefMsgV2]

has_rtype ==
  [MboMsg |-> {"MBO"}, TradeMsg |-> {"MBP_0"}, Mbp1Msg |-> {"MBP_1"},
   Mbp10Msg |-> {"MBP_10"}, BboMsg |-> {"BBO_1S", "BBO_1M"},
   Cmbp1Msg |-> {"CMBP_1", "TCBBO"}, CbboMsg |-> {"CBBO_1S", "CBBO_1M"},
   OhlcvMsg |-> {"OHLCV_1S", "OHLCV_1M", "OHLCV_1H", "OHLCV_1D", "OHLCV_EOD",
                 "OHLCV_DEPRECATED"},
   StatusMsg |-> {"STATUS"}, InstrumentDefMsg |-> {"INSTRUMENT_DEF"},
   ImbalanceMsg |-> {"IMBALANCE"}, StatMsg |-> {"STATISTICS"}, ErrorMsg |-> {"ERROR"},
   SymbolMappingMsg |-> {"SYMBOL_MAPPING"}, SystemMsg |-> {"SYSTEM"},
   ErrorMsgV1 |-> {"ERROR"}, InstrumentDefMsgV1 |-> {"INSTRUMENT_DEF"},
   StatMsgV1 |-> {"STATISTICS"}, SymbolMappingMsgV1 |-> {"SYMBOL_MAPPING"},
   SystemMsgV1 |-> {"SYSTEM"}, InstrumentDefMsgV2 |-> {"INSTRUMENT_DEF"}]

RecordTypes == DOMAIN has_rtype

-----------------------------------------------------------------------------
(* The repr(C) layout: every field at the next multiple of its alignment,  *)
(* the struct padded to a multiple of the largest.                         *)
AlignUp(n, a) == ((n + a - 1) \div a) * a

(* The layout so far, with one more field; the size is padded at the end. *)
Extend(sizes, layout, f) ==
  LET start == AlignUp(layout.size, sizes[f.ty].align)
  IN [size   |-> start + sizes[f.ty].size * f.len,
      align  |-> Max({layout.align, sizes[f.ty].align}),
      offset |-> Append(layout.offset, start)]

LayoutIn(sizes, fields) ==
  LET Step(layout, f) == Extend(sizes, layout, f)
      Padded(layout)  == [layout EXCEPT !.size = AlignUp(@, layout.align)]
  IN Padded(FoldLeft(Step, [size |-> 0, align |-> 1, offset |-> <<>>], fields))

ScalarSizes ==
  LET Of(n) == [size |-> n, align |-> n]
  IN [u8 |-> Of(1), i8 |-> Of(1), c_char |-> Of(1), str |-> Of(1), FlagSet |-> Of(1),
      SecurityUpdateAction |-> Of(1), UserDefinedInstrument |-> Of(1),
      u16 |-> Of(2), i16 |-> Of(2), u32 |-> Of(4), i32 |-> Of(4), u64 |-> Of(8),
      i64 |-> Of(8)]

TypeSizes ==
  ScalarSizes
    @@ [RecordHeader |-> LayoutIn(ScalarSizes, RecordHeader),
        BidAskPair |-> LayoutIn(ScalarSizes, BidAskPair),
        ConsolidatedBidAskPair |-> LayoutIn(ScalarSizes, ConsolidatedBidAskPair)]

Layouts == [t \in RecordTypes |-> LayoutIn(TypeSizes, Structs[t])]

SizeOf(t) == Layouts[t].size

WithTsOutSize(t) == SizeOf(t) + 8

-----------------------------------------------------------------------------
(* get_sorted_fields: the fields with an encode_order are taken out and put *)
(* back at that position, in increasing order.                             *)
get_sorted_fields(fields) ==
  LET Move(seq, f) ==
        LET rest == SelectSeq(seq, LAMBDA g : g.name # f.name)
        IN IF f.order >= Len(rest) THEN Append(rest, f) ELSE InsertAt(rest, f.order + 1, f)
      prioritized == SortSeq(SelectSeq(fields, LAMBDA f : f.order # NoOrder),
                             LAMBDA f, g : f.order < g.order)
  IN FoldLeft(Move, fields, prioritized)

VisibleFields(fields) == SelectSeq(fields, LAMBDA f : ~f.hidden)

(* get_raw_index_ts: the field marked index_ts, else the header's ts_event. *)
raw_index_ts(t) ==
  LET marked == SelectSeq(Structs[t], LAMBDA f : f.index)
  IN IF marked = <<>> THEN "ts_event" ELSE marked[1].name

(* The structs of a level. *)
PairStructs ==
  [BidAskPair |-> BidAskPair, ConsolidatedBidAskPair |-> ConsolidatedBidAskPair]
=============================================================================
