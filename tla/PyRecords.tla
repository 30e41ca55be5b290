----------------------------- MODULE PyRecords -----------------------------
(***************************************************************************)
(* The Python classes of the records: the constructor of each, with the    *)
(* value an omitted argument takes, its properties and setters, and the    *)
(* `pretty_` properties.                                                   *)
(***************************************************************************)
EXTENDS RecordAccess

(* #[new]: rtype is the constant of the class, or "arg" for the classes    *)
(* that take it as an argument; optional gives the default of each.        *)
PyCtor(rtype, required, optional) ==
  [rtype |-> rtype, required |-> required, optional |-> optional]

Each(names, v) == [n \in names |-> v]

(* A slip: unwrap_or_default. *)
UnwrapZero(fields, names) == [n \in names |-> "0"]

(* unwrap_or(T::MAX) *)
UnwrapMax(fields, names) == [n \in names |-> TypeMax[ByName(fields)[n].ty]]

NoOptional == <<>>

PyClass(pretty, getters, setters) ==
  [pretty |-> pretty, getters |-> getters, setters |-> setters]

MboMsgPyNew ==
  PyCtor("MBO",
    {"publisher_id", "instrument_id", "ts_event", "order_id", "price", "size", "action",
     "side", "ts_recv"},
       Each({"ts_in_delta", "sequence"}, "0")
    @@ UnwrapMax(MboMsg, {"channel_id"})
    @@ [flags |-> "0"])

MboMsgClass ==
  PyClass({"price", "ts_recv"}, {"action", "side"}, {"action", "side"})

BidAskPairPyNew ==
  PyCtor("none", {},
       Each({"bid_px", "ask_px"}, UNDEF_PRICE)
    @@ Each({"bid_sz", "ask_sz", "bid_ct", "ask_ct"}, "0"))

BidAskPairClass == PyClass({"bid_px", "ask_px"}, {}, {})

ConsolidatedBidAskPairPyNew ==
  PyCtor("none", {},
       Each({"bid_px", "ask_px"}, UNDEF_PRICE)
    @@ Each({"bid_sz", "ask_sz", "bid_pb", "ask_pb"}, "0"))

ConsolidatedBidAskPairClass == PyClass({"bid_px", "ask_px"}, {}, {})

TradeMsgPyNew ==
  PyCtor("MBP_0",
    {"publisher_id", "instrument_id", "ts_event", "price", "size", "action", "side",
     "depth", "ts_recv"},
       Each({"ts_in_delta", "sequence"}, "0")
    @@ [flags |-> "0"])

TradeMsgClass ==
  PyClass({"price", "ts_recv"}, {"action", "side"}, {"action", "side"})

Mbp1MsgPyNew ==
  PyCtor("MBP_1",
    {"publisher_id", "instrument_id", "ts_event", "price", "size", "action", "side",
     "depth", "ts_recv"},
       Each({"ts_in_delta", "sequence"}, "0")
    @@ [flags |-> "0", levels |-> "default"])

Mbp1MsgClass ==
  PyClass({"price", "ts_recv"}, {"action", "side"}, {"action", "side"})

Mbp10MsgPyNew ==
  PyCtor("MBP_10",
    {"publisher_id", "instrument_id", "ts_event", "price", "size", "action", "side",
     "depth", "ts_recv"},
       Each({"ts_in_delta", "sequence"}, "0")
    @@ [flags |-> "0", levels |-> "default"])

Mbp10MsgClass ==
  PyClass({"price", "ts_recv"}, {"action", "side"}, {"action", "side"})

BboMsgPyNew ==
  PyCtor("arg",
    {"rtype", "publisher_id", "instrument_id", "ts_event", "price", "size", "side",
     "ts_recv"},
       Each({"sequence"}, "0")
    @@ [flags |-> "0", levels |-> "default"])

BboMsgClass ==
  PyClass({"price", "ts_recv"}, {"side"}, {"side"})

Cmbp1MsgPyNew ==
  PyCtor("arg",
    {"rtype", "publisher_id", "instrument_id", "ts_event", "price", "size", "action",
     "side", "ts_recv"},
       Each({"ts_in_delta"}, "0")
    @@ [flags |-> "0", levels |-> "default"])

Cmbp1MsgClass ==
  PyClass({"price", "ts_recv"}, {"action", "side"}, {"action", "side"})

CbboMsgPyNew ==
  PyCtor("arg",
    {"rtype", "publisher_id", "instrument_id", "ts_event", "price", "size", "side",
     "ts_recv"},
    [flags |-> "0", levels |-> "default"])

CbboMsgClass ==
  PyClass({"price", "ts_recv"}, {"side"}, {"side"})

OhlcvMsgPyNew ==
  PyCtor("arg",
    {"rtype", "publisher_id", "instrument_id", "ts_event", "open", "high", "low", "close",
     "volume"},
    NoOptional)

OhlcvMsgClass ==
  PyClass({"open", "high", "low", "close"}, {}, {})

StatusMsgPyNew ==
  PyCtor("STATUS",
    {"publisher_id", "instrument_id", "ts_event", "ts_recv"},
    [action |-> Raw(StatusAction.None), reason |-> Raw(StatusReason.None),
     trading_event |-> Raw(TradingEvent.None), is_trading |-> TriState.NotAvailable,
     is_quoting |-> TriState.NotAvailable,
     is_short_sell_restricted |-> TriState.NotAvailable])

StatusMsgClass ==
  PyClass({"ts_recv"},
    {"action", "reason", "trading_event", "is_trading", "is_quoting",
     "is_short_sell_restricted"},
    {"action", "reason", "trading_event"})

InstrumentDefMsgRequired ==
  {"publisher_id", "instrument_id", "ts_event", "ts_recv", "min_price_increment",
   "display_factor", "raw_symbol", "asset", "security_type", "instrument_class",
   "security_update_action"}

InstrumentDefMsgOptional ==
     Each({"expiration", "activation"}, UNDEF_TIMESTAMP)
  @@ Each({"high_limit_price", "low_limit_price", "max_price_variation",
         "unit_of_measure_qty", "min_price_increment_amount", "price_ratio", "strike_price",
         "leg_price", "leg_delta"}, UNDEF_PRICE)
  @@ Each({"raw_instrument_id", "underlying_id", "leg_instrument_id",
         "leg_ratio_price_numerator", "leg_ratio_price_denominator",
         "leg_ratio_qty_numerator", "leg_ratio_qty_denominator", "leg_underlying_id",
         "leg_count", "leg_index"}, "0")
  @@ Each({"currency", "settl_currency", "secsubtype", "group", "exchange", "cfi",
         "unit_of_measure", "underlying", "strike_price_currency", "leg_raw_symbol"}, "")

InstrumentDefMsgPyNew ==
  PyCtor("INSTRUMENT_DEF", InstrumentDefMsgRequired,
       InstrumentDefMsgOptional
    @@ UnwrapMax(InstrumentDefMsg,
        {"inst_attrib_value", "market_depth_implied", "market_depth", "market_segment_id",
         "max_trade_vol", "min_lot_size", "min_lot_size_block", "min_lot_size_round_lot",
         "min_trade_vol", "contract_multiplier", "decay_quantity", "original_contract_size",
         "appl_id", "maturity_year", "decay_start_date", "channel_id", "main_fraction",
         "price_display_format", "sub_fraction", "underlying_product", "maturity_month",
         "maturity_day", "maturity_week", "contract_multiplier_unit", "flow_schedule_type",
         "tick_rule"})
    @@ [match_algorithm |-> MatchAlgorithm.Undefined,
       user_defined_instrument |-> UserDefinedInstrument.No, leg_instrument_class |-> "NUL",
       leg_side |-> Side.None])

InstrumentDefMsgPretty ==
  {"ts_recv", "min_price_increment", "display_factor", "expiration", "activation",
   "high_limit_price", "low_limit_price", "max_price_variation", "unit_of_measure_qty",
   "min_price_increment_amount", "price_ratio", "strike_price", "leg_price", "leg_delta"}

InstrumentDefMsgTextGetters ==
  {"currency", "settl_currency", "secsubtype", "raw_symbol", "group", "exchange", "asset",
   "cfi", "security_type", "unit_of_measure", "underlying", "strike_price_currency",
   "leg_raw_symbol"}

InstrumentDefMsgClass ==
  PyClass(InstrumentDefMsgPretty,
    InstrumentDefMsgTextGetters
      \cup {"instrument_class", "match_algorithm", "security_update_action",
            "user_defined_instrument", "leg_instrument_class", "leg_side"},
    {"instrument_class", "match_algorithm", "security_update_action",
     "user_defined_instrument", "leg_instrument_class", "leg_side"})

ImbalanceMsgPyNew ==
  PyCtor("IMBALANCE",
    {"publisher_id", "instrument_id", "ts_event", "ts_recv", "ref_price", "auction_time",
     "cont_book_clr_price", "auct_interest_clr_price", "paired_qty", "total_imbalance_qty",
     "auction_type", "side", "significant_imbalance"},
       Each({"ssr_filling_price", "ind_match_price", "upper_collar", "lower_collar"},
            UNDEF_PRICE)
    @@ Each({"market_imbalance_qty", "unpaired_qty"}, UNDEF_ORDER_SIZE)
    @@ Each({"auction_status", "freeze_status", "num_extensions"}, "0")
    @@ [unpaired_side |-> Side.None])

ImbalanceMsgClass ==
  PyClass({"ts_recv", "ref_price", "auction_time", "cont_book_clr_price",
           "auct_interest_clr_price", "ssr_filling_price", "ind_match_price",
           "upper_collar", "lower_collar"},
    {"auction_type", "side", "unpaired_side", "significant_imbalance"},
    {"auction_type", "side", "unpaired_side", "significant_imbalance"})

StatMsgPyNew ==
  PyCtor("STATISTICS",
    {"publisher_id", "instrument_id", "ts_event", "ts_recv", "ts_ref", "price", "quantity",
     "stat_type"},
       Each({"sequence", "ts_in_delta", "stat_flags"}, "0")
    @@ UnwrapMax(StatMsg, {"channel_id"})
    @@ [update_action |-> Raw(StatUpdateAction.New)])

StatMsgClass ==
  PyClass({"ts_recv", "ts_ref", "price"},
    {"stat_type", "update_action"},
    {"stat_type", "update_action"})

ErrorMsgClass ==
  PyClass({}, {"err", "code"}, {"code"})

SymbolMappingMsgPyNew ==
  PyCtor("SYMBOL_MAPPING",
    {"publisher_id", "instrument_id", "ts_event", "stype_in", "stype_in_symbol",
     "stype_out", "stype_out_symbol", "start_ts", "end_ts"},
    NoOptional)

SymbolMappingMsgClass ==
  PyClass({"start_ts", "end_ts"},
    {"stype_in", "stype_in_symbol", "stype_out", "stype_out_symbol"},
    {"stype_in", "stype_out"})

SystemMsgClass ==
  PyClass({}, {"msg", "code"}, {"code"})

ErrorMsgV1Class ==
  PyClass({}, {"err"}, {})

InstrumentDefMsgV1Required ==
  {"publisher_id", "instrument_id", "ts_event", "ts_recv", "min_price_increment",
   "display_factor", "expiration", "activation", "high_limit_price", "low_limit_price",
   "max_price_variation", "trading_reference_price", "unit_of_measure_qty",
   "min_price_increment_amount", "price_ratio", "inst_attrib_value", "underlying_id",
   "raw_instrument_id", "market_depth_implied", "market_depth", "market_segment_id",
   "max_trade_vol", "min_lot_size", "min_lot_size_block", "min_lot_size_round_lot",
   "min_trade_vol", "contract_multiplier", "decay_quantity", "original_contract_size",
   "trading_reference_date", "appl_id", "maturity_year", "decay_start_date", "channel_id",
   "currency", "settl_currency", "secsubtype", "raw_symbol", "group", "exchange", "asset",
   "cfi", "security_type", "unit_of_measure", "underlying", "strike_price_currency",
   "instrument_class", "strike_price", "match_algorithm", "md_security_trading_status",
   "main_fraction", "price_display_format", "settl_price_type", "sub_fraction",
   "underlying_product", "security_update_action", "maturity_month", "maturity_day",
   "maturity_week", "user_defined_instrument", "contract_multiplier_unit",
   "flow_schedule_type", "tick_rule"}

InstrumentDefMsgV1PyNew == PyCtor("INSTRUMENT_DEF", InstrumentDefMsgV1Required, NoOptional)

InstrumentDefMsgV1Pretty ==
  {"ts_recv", "min_price_increment", "display_factor", "expiration", "activation",
   "high_limit_price", "low_limit_price", "max_price_variation", "trading_reference_price",
   "unit_of_measure_qty", "min_price_increment_amount", "price_ratio", "strike_price"}

InstrumentDefMsgV1TextGetters ==
  {"currency", "settl_currency", "secsubtype", "raw_symbol", "group", "exchange", "asset",
   "cfi", "security_type", "unit_of_measure", "underlying", "strike_price_currency"}

InstrumentDefMsgV1Class ==
  PyClass(InstrumentDefMsgV1Pretty,
    InstrumentDefMsgV1TextGetters \cup {"instrument_class", "match_algorithm"},
    {"instrument_class", "match_algorithm"})

StatMsgV1PyNew ==
  PyCtor("STATISTICS",
    {"publisher_id", "instrument_id", "ts_event", "ts_recv", "ts_ref", "price", "quantity",
     "stat_type"},
       Each({"sequence", "ts_in_delta", "stat_flags"}, "0")
    @@ UnwrapMax(StatMsgV1, {"channel_id"})
    @@ [update_action |-> Raw(StatUpdateAction.New)])

StatMsgV1Class ==
  PyClass({"ts_recv", "ts_ref", "price"},
    {"stat_type", "update_action"},
    {"stat_type", "update_action"})

SymbolMappingMsgV1PyNew ==
  PyCtor("SYMBOL_MAPPING",
    {"publisher_id", "instrument_id", "ts_event", "stype_in_symbol", "stype_out_symbol",
     "start_ts", "end_ts"},
    NoOptional)

SymbolMappingMsgV1Class ==
  PyClass({"start_ts", "end_ts"}, {"stype_in_symbol", "stype_out_symbol"}, {})

SystemMsgV1Class ==
  PyClass({}, {"msg"}, {})

InstrumentDefMsgV2Required ==
  {"publisher_id", "instrument_id", "ts_event", "ts_recv", "min_price_increment",
   "display_factor", "expiration", "activation", "high_limit_price", "low_limit_price",
   "max_price_variation", "trading_reference_price", "unit_of_measure_qty",
   "min_price_increment_amount", "price_ratio", "strike_price", "inst_attrib_value",
   "underlying_id", "raw_instrument_id", "market_depth_implied", "market_depth",
   "market_segment_id", "max_trade_vol", "min_lot_size", "min_lot_size_block",
   "min_lot_size_round_lot", "min_trade_vol", "contract_multiplier", "decay_quantity",
   "original_contract_size", "trading_reference_date", "appl_id", "maturity_year",
   "decay_start_date", "channel_id", "currency", "settl_currency", "secsubtype",
   "raw_symbol", "group", "exchange", "asset", "cfi", "security_type", "unit_of_measure",
   "underlying", "strike_price_currency", "instrument_class", "match_algorithm",
   "md_security_trading_status", "main_fraction", "price_display_format",
   "settl_price_type", "sub_fraction", "underlying_product", "security_update_action",
   "maturity_month", "maturity_day", "maturity_week", "user_defined_instrument",
   "contract_multiplier_unit", "flow_schedule_type", "tick_rule"}

InstrumentDefMsgV2PyNew == PyCtor("INSTRUMENT_DEF", InstrumentDefMsgV2Required, NoOptional)

InstrumentDefMsgV2Pretty ==
  {"ts_recv", "min_price_increment", "display_factor", "expiration", "activation",
   "high_limit_price", "low_limit_price", "max_price_variation", "trading_reference_price",
   "unit_of_measure_qty", "min_price_increment_amount", "price_ratio", "strike_price"}

InstrumentDefMsgV2TextGetters ==
  {"currency", "settl_currency", "secsubtype", "raw_symbol", "group", "exchange", "asset",
   "cfi", "security_type", "unit_of_measure", "underlying", "strike_price_currency"}

InstrumentDefMsgV2Class ==
  PyClass(InstrumentDefMsgV2Pretty,
    InstrumentDefMsgV2TextGetters
      \cup {"instrument_class", "match_algorithm", "security_update_action"},
    {"instrument_class", "match_algorithm", "security_update_action"})

(* The classes whose constructor is not that of a control message. *)
PyNew ==
  [MboMsg |-> MboMsgPyNew, TradeMsg |-> TradeMsgPyNew, Mbp1Msg |-> Mbp1MsgPyNew,
   Mbp10Msg |-> Mbp10MsgPyNew, BboMsg |-> BboMsgPyNew, Cmbp1Msg |-> Cmbp1MsgPyNew,
   CbboMsg |-> CbboMsgPyNew, OhlcvMsg |-> OhlcvMsgPyNew, StatusMsg |-> StatusMsgPyNew,
   InstrumentDefMsg |-> InstrumentDefMsgPyNew, ImbalanceMsg |-> ImbalanceMsgPyNew,
   StatMsg |-> StatMsgPyNew, SymbolMappingMsg |-> SymbolMappingMsgPyNew,
   InstrumentDefMsgV1 |-> InstrumentDefMsgV1PyNew, StatMsgV1 |-> StatMsgV1PyNew,
   SymbolMappingMsgV1 |-> SymbolMappingMsgV1PyNew,
   InstrumentDefMsgV2 |-> InstrumentDefMsgV2PyNew]

PyClasses ==
  [MboMsg |-> MboMsgClass, TradeMsg |-> TradeMsgClass, Mbp1Msg |-> Mbp1MsgClass,
   Mbp10Msg |-> Mbp10MsgClass, BboMsg |-> BboMsgClass, Cmbp1Msg |-> Cmbp1MsgClass,
   CbboMsg |-> CbboMsgClass, OhlcvMsg |-> OhlcvMsgClass, StatusMsg |-> StatusMsgClass,
   InstrumentDefMsg |-> InstrumentDefMsgClass, ImbalanceMsg |-> ImbalanceMsgClass,
   StatMsg |-> StatMsgClass, ErrorMsg |-> ErrorMsgClass,
   SymbolMappingMsg |-> SymbolMappingMsgClass, SystemMsg |-> SystemMsgClass,
   ErrorMsgV1 |-> ErrorMsgV1Class, InstrumentDefMsgV1 |-> InstrumentDefMsgV1Class,
   StatMsgV1 |-> StatMsgV1Class, SymbolMappingMsgV1 |-> SymbolMappingMsgV1Class,
   SystemMsgV1 |-> SystemMsgV1Class, InstrumentDefMsgV2 |-> InstrumentDefMsgV2Class]

-----------------------------------------------------------------------------
(* Arguments and properties.  Next to its pymethods a class has the fields *)
(* marked #[pyo3(get, set)]: all but characters and texts.                 *)
PyAttributesOf(named) == {n \in DOMAIN named : named[n].ty \notin {"str", "c_char"}}

PyAttributes(t) == PyAttributesOf(FieldOf[t])

PyReadable(t) == HeaderNames \cup PyAttributes(t) \cup PyClasses[t].getters
PyWritable(t) == HeaderNames \cup PyAttributes(t) \cup PyClasses[t].setters

(* char_to_c_char: only ASCII fits. *)
char_to_c_char(c) == IF c = "wide" THEN Err ELSE c

(* What an argument or an assigned value becomes in the record. *)
PyConvertField(m, f, arg) ==
  CASE EnumOf(m, f) # "none" -> FieldEnums[EnumOf(m, f)][arg]
    [] f.name \in m.options -> TriState[arg]
    [] f.name \in {"auction_type", "significant_imbalance"} -> char_to_c_char(arg)
    [] f.ty = "str" -> str_to_c_chars(f.len, arg)
    [] OTHER -> arg

PyConvert(t, n, arg) ==
  IF n \in HeaderNames THEN arg
  ELSE PyConvertField(RecordMethods[t], FieldOf[t][n], arg)

(* A new record from the arguments args; the rest take their default. *)
PyNewRecord(t, rtype, args) ==
  NewRecord(t, rtype, <<>>,
            [n \in DOMAIN args |-> PyConvert(t, n, args[n])] @@ PyNew[t].optional)

PySet(r, n, arg) == [r EXCEPT !.val[n] = PyConvert(r.ty, n, arg)]

(* Reading a property: an enum property falls back to the raw value, a     *)
(* text that cannot be read raises.                                        *)
PyRead(r, n) ==
  IF n \in HeaderNames \cup RecordMethods[r.ty].parsed THEN r.val[n]
  ELSE IF n \notin RecordMethods[r.ty].texts /\ RustRead(r, n) = Err THEN r.val[n]
  ELSE RustRead(r, n)

(* new_py_timestamp_or_datetime: an undefined time is None. *)
new_py_timestamp_or_datetime(ts) == IF ts = UNDEF_TIMESTAMP THEN "None" ELSE ts

PyPretty(r, n) ==
  IF FieldOf[r.ty][n].attr = "fixed_price" THEN px_to_f64(r.val[n])
  ELSE new_py_timestamp_or_datetime(r.val[n])
=============================================================================
