---------------------------- MODULE RecordAccess ----------------------------
(***************************************************************************)
(* The Rust accessors of the records: for each type the fields read as a   *)
(* price or a time, as a text, as an enum and as an optional boolean.  Any *)
(* other field is read as it is stored.                                    *)
(***************************************************************************)
EXTENDS RecordDefaults

Methods(parsed, texts, enums, options) ==
  [parsed |-> parsed, texts |-> texts, enums |-> enums, options |-> options]

MboMsgMethods ==
  Methods({"price", "ts_recv"}, {}, [action |-> "Action", side |-> "Side"], {})

BidAskPairMethods ==
  Methods({"bid_px", "ask_px"}, {}, <<>>, {})

ConsolidatedBidAskPairMethods ==
  Methods({"bid_px", "ask_px"}, {}, [bid_pb |-> "Publisher", ask_pb |-> "Publisher"], {})

TradeMsgMethods ==
  Methods({"price", "ts_recv"}, {}, [action |-> "Action", side |-> "Side"], {})

Mbp1MsgMethods ==
  Methods({"price", "ts_recv"}, {}, [action |-> "Action", side |-> "Side"], {})

Mbp10MsgMethods ==
  Methods({"price", "ts_recv"}, {}, [action |-> "Action", side |-> "Side"], {})

BboMsgMethods ==
  Methods({"price", "ts_recv"}, {}, [side |-> "Side"], {})

Cmbp1MsgMethods ==
  Methods({"price", "ts_recv"}, {}, [action |-> "Action", side |-> "Side"], {})

CbboMsgMethods ==
  Methods({"price", "ts_recv"}, {}, [side |-> "Side"], {})

OhlcvMsgMethods ==
  Methods({"open", "high", "low", "close"}, {}, <<>>, {})

StatusMsgMethods ==
  Methods({"ts_recv"},
    {},
    [action |-> "StatusAction", reason |-> "StatusReason", trading_event |-> "TradingEvent"],
    {"is_trading", "is_quoting", "is_short_sell_restricted"})

InstrumentDefMsgParsed ==
  {"ts_recv", "min_price_increment", "display_factor", "expiration", "activation",
   "high_limit_price", "low_limit_price", "max_price_variation", "unit_of_measure_qty",
   "min_price_increment_amount", "price_ratio", "strike_price", "leg_price", "leg_delta"}

InstrumentDefMsgTexts ==
  {"currency", "settl_currency", "secsubtype", "raw_symbol", "group", "exchange", "asset",
   "cfi", "security_type", "unit_of_measure", "underlying", "strike_price_currency",
   "leg_raw_symbol"}

InstrumentDefMsgMethods ==
  Methods(InstrumentDefMsgParsed,
    InstrumentDefMsgTexts,
    [instrument_class |-> "InstrumentClass", match_algorithm |-> "MatchAlgorithm",
     security_update_action |-> "SecurityUpdateAction",
     user_defined_instrument |-> "UserDefinedInstrument",
     leg_instrument_class |-> "InstrumentClass", leg_side |-> "Side"],
    {})

ImbalanceMsgMethods ==
  Methods({"ref_price", "cont_book_clr_price", "auct_interest_clr_price", "ssr_filling_price",
     "ind_match_price", "upper_collar", "lower_collar", "ts_recv", "auction_time"},
    {},
    [side |-> "Side", unpaired_side |-> "Side"],
    {})

StatMsgMethods ==
  Methods({"price", "ts_recv", "ts_ref"},
    {},
    [stat_type |-> "StatType", update_action |-> "StatUpdateAction"],
    {})

ErrorMsgMethods ==
  Methods({}, {"err"}, [code |-> "ErrorCode"], {})

SymbolMappingMsgMethods ==
  Methods({"start_ts", "end_ts"},
    {"stype_in_symbol", "stype_out_symbol"},
    [stype_in |-> "SType", stype_out |-> "SType"],
    {})

SystemMsgMethods ==
  Methods({}, {"msg"}, [code |-> "SystemCode"], {})

ErrorMsgV1Methods ==
  Methods({}, {"err"}, <<>>, {})

InstrumentDefMsgV1Parsed ==
  {"ts_recv", "min_price_increment", "display_factor", "expiration", "activation",
   "high_limit_price", "low_limit_price", "max_price_variation", "trading_reference_price",
   "unit_of_measure_qty", "min_price_increment_amount", "price_ratio", "strike_price"}

InstrumentDefMsgV1Texts ==
  {"currency", "settl_currency", "secsubtype", "raw_symbol", "group", "exchange", "asset",
   "cfi", "security_type", "unit_of_measure", "underlying", "strike_price_currency"}

InstrumentDefMsgV1Methods ==
  Methods(InstrumentDefMsgV1Parsed,
    InstrumentDefMsgV1Texts,
    [instrument_class |-> "InstrumentClass", match_algorithm |-> "MatchAlgorithm"],
    {})

StatMsgV1Methods ==
  Methods({"price", "ts_recv", "ts_ref"},
    {},
    [stat_type |-> "StatType", update_action |-> "StatUpdateAction"],
    {})

SymbolMappingMsgV1Methods ==
  Methods({"start_ts", "end_ts"}, {"stype_in_symbol", "stype_out_symbol"}, <<>>, {})

SystemMsgV1Methods ==
  Methods({}, {"msg"}, <<>>, {})

InstrumentDefMsgV2Parsed ==
  {"ts_recv", "min_price_increment", "display_factor", "expiration", "activation",
   "high_limit_price", "low_limit_price", "max_price_variation", "trading_reference_price",
   "unit_of_measure_qty", "min_price_increment_amount", "price_ratio", "strike_price"}

InstrumentDefMsgV2Texts ==
  {"currency", "settl_currency", "secsubtype", "raw_symbol", "group", "exchange", "asset",
   "cfi", "security_type", "unit_of_measure", "underlying", "strike_price_currency"}

InstrumentDefMsgV2Methods ==
  Methods(InstrumentDefMsgV2Parsed,
    InstrumentDefMsgV2Texts,
    [instrument_class |-> "InstrumentClass", match_algorithm |-> "MatchAlgorithm",
     security_update_action |-> "SecurityUpdateAction"],
    {})

RecordMethods ==
  [MboMsg |-> MboMsgMethods, TradeMsg |-> TradeMsgMethods, Mbp1Msg |-> Mbp1MsgMethods,
   Mbp10Msg |-> Mbp10MsgMethods, BboMsg |-> BboMsgMethods, Cmbp1Msg |-> Cmbp1MsgMethods,
   CbboMsg |-> CbboMsgMethods, OhlcvMsg |-> OhlcvMsgMethods, StatusMsg |-> StatusMsgMethods,
   InstrumentDefMsg |-> InstrumentDefMsgMethods, ImbalanceMsg |-> ImbalanceMsgMethods,
   StatMsg |-> StatMsgMethods, ErrorMsg |-> ErrorMsgMethods,
   SymbolMappingMsg |-> SymbolMappingMsgMethods, SystemMsg |-> SystemMsgMethods,
   ErrorMsgV1 |-> ErrorMsgV1Methods, InstrumentDefMsgV1 |-> InstrumentDefMsgV1Methods,
   StatMsgV1 |-> StatMsgV1Methods, SymbolMappingMsgV1 |-> SymbolMappingMsgV1Methods,
   SystemMsgV1 |-> SystemMsgV1Methods, InstrumentDefMsgV2 |-> InstrumentDefMsgV2Methods]

-----------------------------------------------------------------------------
(* The conversions behind the accessors.                                   *)
px_to_f64(px) == IF px = UNDEF_PRICE THEN "NaN" ELSE px

ts_to_dt(ts) == IF ts = UNDEF_TIMESTAMP THEN "None" ELSE ts

(* The raw values of an enum, as fields hold them. *)
RawOf(e) == [v \in DOMAIN e |-> Raw(e[v])]

FieldEnums ==
  [Action |-> Action, Side |-> Side, InstrumentClass |-> InstrumentClass,
   MatchAlgorithm |-> MatchAlgorithm, SecurityUpdateAction |-> SecurityUpdateAction,
   UserDefinedInstrument |-> UserDefinedInstrument, StatusAction |-> RawOf(StatusAction),
   StatusReason |-> RawOf(StatusReason), TradingEvent |-> RawOf(TradingEvent),
   StatType |-> RawOf(StatType), StatUpdateAction |-> RawOf(StatUpdateAction),
   SType |-> RawOf(SType), ErrorCode |-> RawOf(ErrorCode), SystemCode |-> RawOf(SystemCode)]

(* An unknown tri-state reads as None. *)
OptionOf(raw) ==
  LET v == try_from(TriState, raw) IN IF v = Err THEN "None" ELSE OptionBool[v]

(* The enum of a field: of its accessor, or the type of the field itself. *)
EnumOf(m, f) ==
  CASE f.name \in DOMAIN m.enums -> m.enums[f.name]
    [] f.ty \in {"SecurityUpdateAction", "UserDefinedInstrument"} -> f.ty
    [] OTHER -> "none"

ReadField(m, f, v) ==
  CASE f.name \in m.parsed /\ f.attr = "fixed_price" -> px_to_f64(v)
    [] f.name \in m.parsed /\ f.attr = "unix_nanos"  -> ts_to_dt(v)
    [] f.name \in m.texts -> c_chars_to_str(f.len, v)
    [] EnumOf(m, f) # "none" -> try_from(FieldEnums[EnumOf(m, f)], v)
    [] f.name \in m.options -> OptionOf(v)
    [] OTHER -> v

RustRead(r, n) == ReadField(RecordMethods[r.ty], FieldOf[r.ty][n], r.val[n])

(* SystemMsg::is_heartbeat: the code decides, or the text when the code is *)
(* unknown; the message of version 1 has only the text.                    *)
is_heartbeat(r) ==
  IF r.ty = "SystemMsg" /\ RustRead(r, "code") # Err
  THEN RustRead(r, "code") = "Heartbeat"
  ELSE RustRead(r, "msg") = HEARTBEAT
=============================================================================
