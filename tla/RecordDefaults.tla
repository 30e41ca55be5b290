--------------------------- MODULE RecordDefaults ---------------------------
(***************************************************************************)
(* Records as values: what Default, the Rust constructors and the          *)
(* conversions from an older version to a newer one put in every field.    *)
(* A record is its type, the length and rtype of its header, and the value *)
(* of each visible field.  A value is a string: "0", a type's maximum      *)
(* ("i64::MAX"), the raw value of an enum, a text, or the name of the      *)
(* field for the value an application or a publisher gives to it, so that  *)
(* a value in the wrong field shows.  A text of n bytes, at the limit of   *)
(* some field, is the numeral n; "invalid" is not UTF-8.                   *)
(***************************************************************************)
EXTENDS RecordLayouts, RecordEnums

(* The maximum of an integer type marks an undefined value. *)
TypeMax ==
  [u8 |-> "u8::MAX", i8 |-> "i8::MAX", u16 |-> "u16::MAX", i16 |-> "i16::MAX",
   u32 |-> "u32::MAX", i32 |-> "i32::MAX", u64 |-> "u64::MAX", i64 |-> "i64::MAX"]

UNDEF_PRICE            == TypeMax["i64"]
UNDEF_ORDER_SIZE       == TypeMax["u32"]
UNDEF_STAT_QUANTITY    == TypeMax["i64"]
UNDEF_STAT_QUANTITY_V1 == TypeMax["i32"]
UNDEF_TIMESTAMP        == TypeMax["u64"]

(* The value of a field that holds the raw number of an enum. *)
Raw(n) == IF n = 255 THEN TypeMax["u8"] ELSE ToString(n)

-----------------------------------------------------------------------------
(* The fields of a type that carry a value, and a new record.              *)
HeaderNames == {"publisher_id", "instrument_id", "ts_event"}

ValueFields(fields) == SelectSeq(fields, LAMBDA f : ~f.hidden /\ f.name # "hd")

ByName(fields) ==
  [n \in {f.name : f \in ToSet(fields)} |-> CHOOSE f \in ToSet(fields) : f.name = n]

FieldOf == [t \in RecordTypes |-> ByName(ValueFields(Structs[t]))]

FieldNames(t) == DOMAIN FieldOf[t]

LENGTH_MULTIPLIER == 4

NoTsOut == "none"

(* RecordHeader::new: the length follows from the type. *)
NewRecord(t, rtype, hd, values) ==
  [ty |-> t, length |-> SizeOf(t) \div LENGTH_MULTIPLIER, rtype |-> rtype,
   val |-> hd @@ values, ts_out |-> NoTsOut]

HeaderDefault == [publisher_id |-> "0", instrument_id |-> "0", ts_event |-> UNDEF_TIMESTAMP]

record_size(r) == r.length * LENGTH_MULTIPLIER

-----------------------------------------------------------------------------
(* impl Default: prices and timestamps are undefined, texts, flags and     *)
(* levels empty; the fields of zero are 0, those of others as given, and   *)
(* the remaining integers are the maximum of their type.                   *)
Defaulted(fields, zero, others) ==
  LET ByKind(f) == CASE f.attr = "fixed_price" -> UNDEF_PRICE
                     [] f.attr = "unix_nanos" -> UNDEF_TIMESTAMP
                     [] f.ty = "str" -> ""
                     [] f.ty = "FlagSet" -> "0"
                     [] f.name = "levels" -> "default"
                     [] OTHER -> TypeMax[f.ty]
      Kinds(named) ==
        [n \in DOMAIN named \ (zero \cup DOMAIN others) |-> ByKind(named[n])]
  IN others @@ [n \in zero |-> "0"] @@ Kinds(ByName(ValueFields(fields)))

MboMsgDefault ==
  Defaulted(MboMsg,
    {"order_id", "ts_in_delta", "sequence"},
    [action |-> Action.None, side |-> Side.None])

BidAskPairDefault ==
  Defaulted(BidAskPair, {"bid_sz", "ask_sz", "bid_ct", "ask_ct"}, <<>>)

ConsolidatedBidAskPairDefault ==
  Defaulted(ConsolidatedBidAskPair, {"bid_sz", "ask_sz", "bid_pb", "ask_pb"}, <<>>)

TradeMsgDefault ==
  Defaulted(TradeMsg,
    {"depth", "ts_in_delta", "sequence"},
    [action |-> Action.None, side |-> Side.None])

Mbp1MsgDefault ==
  Defaulted(Mbp1Msg,
    {"depth", "ts_in_delta", "sequence"},
    [action |-> Action.None, side |-> Side.None])

Mbp10MsgDefault ==
  Defaulted(Mbp10Msg,
    {"depth", "ts_in_delta", "sequence"},
    [action |-> Action.None, side |-> Side.None])

BboMsgDefault ==
  Defaulted(BboMsg, {"sequence"}, [side |-> Side.None])

Cmbp1MsgDefault ==
  Defaulted(Cmbp1Msg, {"ts_in_delta"}, [action |-> Action.None, side |-> Side.None])

CbboMsgDefault ==
  Defaulted(CbboMsg, {}, [side |-> Side.None])

OhlcvMsgDefault ==
  Defaulted(OhlcvMsg, {"volume"}, <<>>)

StatusMsgDefault ==
  Defaulted(StatusMsg,
    {},
    [action |-> Raw(StatusAction.None), reason |-> Raw(StatusReason.None),
     trading_event |-> Raw(TradingEvent.None), is_trading |-> TriState.NotAvailable,
     is_quoting |-> TriState.NotAvailable,
     is_short_sell_restricted |-> TriState.NotAvailable])

InstrumentDefMsgDefault ==
  Defaulted(InstrumentDefMsg,
    {"raw_instrument_id", "underlying_id", "leg_instrument_id", "leg_ratio_price_numerator",
     "leg_ratio_price_denominator", "leg_ratio_qty_numerator", "leg_ratio_qty_denominator",
     "leg_underlying_id", "leg_count", "leg_index"},
    [instrument_class |-> "NUL", match_algorithm |-> MatchAlgorithm.Undefined,
     security_update_action |-> SecurityUpdateAction.Add,
     user_defined_instrument |-> UserDefinedInstrument.No, leg_instrument_class |-> "NUL",
     leg_side |-> Side.None])

ImbalanceMsgDefault ==
  Defaulted(ImbalanceMsg,
    {"auction_status", "freeze_status", "num_extensions"},
    [auction_type |-> "~", side |-> Side.None, unpaired_side |-> Side.None,
     significant_imbalance |-> "~"])

StatMsgDefault ==
  Defaulted(StatMsg,
    {"sequence", "ts_in_delta", "stat_type", "stat_flags"},
    [update_action |-> Raw(StatUpdateAction.New)])

ErrorMsgDefault ==
  Defaulted(ErrorMsg, {}, [code |-> Raw(ErrorCode.Unset)])

SymbolMappingMsgDefault ==
  Defaulted(SymbolMappingMsg, {}, <<>>)

SystemMsgDefault ==
  Defaulted(SystemMsg, {}, [code |-> Raw(SystemCode.Unset)])

ErrorMsgV1Default ==
  Defaulted(ErrorMsgV1, {}, <<>>)

InstrumentDefMsgV1Default ==
  Defaulted(InstrumentDefMsgV1,
    {"underlying_id", "raw_instrument_id"},
    [instrument_class |-> "NUL", match_algorithm |-> MatchAlgorithm.Undefined,
     security_update_action |-> SecurityUpdateAction.Add,
     user_defined_instrument |-> UserDefinedInstrument.No])

StatMsgV1Default ==
  Defaulted(StatMsgV1,
    {"sequence", "ts_in_delta", "stat_type", "stat_flags"},
    [update_action |-> Raw(StatUpdateAction.New)])

SymbolMappingMsgV1Default ==
  Defaulted(SymbolMappingMsgV1, {}, <<>>)

SystemMsgV1Default ==
  Defaulted(SystemMsgV1, {}, <<>>)

InstrumentDefMsgV2Default ==
  Defaulted(InstrumentDefMsgV2,
    {"underlying_id", "raw_instrument_id"},
    [instrument_class |-> "NUL", match_algorithm |-> MatchAlgorithm.Undefined,
     security_update_action |-> SecurityUpdateAction.Add,
     user_defined_instrument |-> UserDefinedInstrument.No])

Defaults ==
  [MboMsg |-> MboMsgDefault, TradeMsg |-> TradeMsgDefault, Mbp1Msg |-> Mbp1MsgDefault,
   Mbp10Msg |-> Mbp10MsgDefault, BboMsg |-> BboMsgDefault, Cmbp1Msg |-> Cmbp1MsgDefault,
   CbboMsg |-> CbboMsgDefault, OhlcvMsg |-> OhlcvMsgDefault, StatusMsg |-> StatusMsgDefault,
   InstrumentDefMsg |-> InstrumentDefMsgDefault, ImbalanceMsg |-> ImbalanceMsgDefault,
   StatMsg |-> StatMsgDefault, ErrorMsg |-> ErrorMsgDefault,
   SymbolMappingMsg |-> SymbolMappingMsgDefault, SystemMsg |-> SystemMsgDefault,
   ErrorMsgV1 |-> ErrorMsgV1Default, InstrumentDefMsgV1 |-> InstrumentDefMsgV1Default,
   StatMsgV1 |-> StatMsgV1Default, SymbolMappingMsgV1 |-> SymbolMappingMsgV1Default,
   SystemMsgV1 |-> SystemMsgV1Default, InstrumentDefMsgV2 |-> InstrumentDefMsgV2Default]

DefaultRecord(t, rtype) == NewRecord(t, rtype, HeaderDefault, Defaults[t])

-----------------------------------------------------------------------------
(* Texts in fixed-size fields.                                             *)
TextLengths == 1..303

(* The length of a text: only those at a limit matter. *)
LongTexts == [s \in {ToString(n) : n \in TextLengths} |->
                CHOOSE n \in TextLengths : ToString(n) = s]
TextLen(s) == IF s \in DOMAIN LongTexts THEN LongTexts[s] ELSE 1

Err == "Err"

(* str_to_c_chars: one byte is kept for the terminating null. *)
str_to_c_chars(n, s) == IF TextLen(s) > n - 1 THEN Err ELSE s

(* c_chars_to_str: a text without a null in its n bytes is an error. *)
c_chars_to_str(n, s) == IF s = "invalid" \/ TextLen(s) > n - 1 THEN Err ELSE s

(* The loop of ErrorMsg::new: at most n - 1 bytes are kept; cutting a wide *)
(* text may split a character.                                             *)
Truncated(n, s) ==
  IF s = "wide" THEN "invalid" ELSE IF TextLen(s) > n - 1 THEN ToString(n - 1) ELSE s

HEARTBEAT == "Heartbeat"

(* What is_heartbeat and the conversion of SystemMsg look for in a text.   *)
SystemTexts ==
  {"", HEARTBEAT, "End of interval for a", "Subscription request 1 succeeded",
   "Warning: slow reading", "Finished a replay", "invalid", "63", "64"}

-----------------------------------------------------------------------------
(* The constructors of the control messages.                               *)
ControlHeader(instrument_id, ts_event) ==
  [HeaderDefault EXCEPT !.instrument_id = instrument_id, !.ts_event = ts_event]

ErrorMsg_new(ts_event, code, msg, is_last) ==
  NewRecord("ErrorMsg", "ERROR", ControlHeader("0", ts_event),
    [err |-> Truncated(302, msg), is_last |-> IF is_last THEN "1" ELSE "0",
     code |-> IF code = "None" THEN ErrorMsgDefault.code ELSE Raw(ErrorCode[code])])

ErrorMsgV1_new(ts_event, msg) ==
  NewRecord("ErrorMsgV1", "ERROR", ControlHeader("0", ts_event), [err |-> Truncated(64, msg)])

SystemMsg_new(ts_event, code, msg) ==
  NewRecord("SystemMsg", "SYSTEM", ControlHeader("0", ts_event),
    [msg |-> str_to_c_chars(303, msg),
     code |-> IF code = "None" THEN TypeMax["u8"] ELSE Raw(SystemCode[code])])

SystemMsg_heartbeat(ts_event) ==
  NewRecord("SystemMsg", "SYSTEM", ControlHeader("0", ts_event),
    [msg |-> HEARTBEAT, code |-> Raw(SystemCode.Heartbeat)])

SystemMsgV1_new(ts_event, msg) ==
  NewRecord("SystemMsgV1", "SYSTEM", ControlHeader("0", ts_event),
    [msg |-> str_to_c_chars(64, msg)])

SystemMsgV1_heartbeat(ts_event) ==
  NewRecord("SystemMsgV1", "SYSTEM", ControlHeader("0", ts_event), [msg |-> HEARTBEAT])

SymbolMappingMsg_new(instrument_id, ts_event, stype_in, in_sym, stype_out, out_sym, start_ts, end_ts) ==
  NewRecord("SymbolMappingMsg", "SYMBOL_MAPPING", ControlHeader(instrument_id, ts_event),
    [stype_in |-> stype_in, stype_in_symbol |-> str_to_c_chars(SYMBOL_CSTR_LEN_V3, in_sym),
     stype_out |-> stype_out,
     stype_out_symbol |-> str_to_c_chars(SYMBOL_CSTR_LEN_V3, out_sym),
     start_ts |-> start_ts, end_ts |-> end_ts])

SymbolMappingMsgV1_new(instrument_id, ts_event, in_symbol, out_symbol, start_ts, end_ts) ==
  NewRecord("SymbolMappingMsgV1", "SYMBOL_MAPPING", ControlHeader(instrument_id, ts_event),
    [stype_in_symbol |-> str_to_c_chars(SYMBOL_CSTR_LEN_V1, in_symbol),
     stype_out_symbol |-> str_to_c_chars(SYMBOL_CSTR_LEN_V1, out_symbol),
     start_ts |-> start_ts, end_ts |-> end_ts])

(* A constructor that fails returns no record. *)
Failed(r) == \E f \in DOMAIN r.val : r.val[f] = Err

-----------------------------------------------------------------------------
(* Conversions from an older version: the header is rebuilt with the new   *)
(* length, the listed fields are copied and the others are the defaults.   *)
Convert(t, rtype, changed, copied) ==
  [ty |-> t, rtype |-> rtype, changed |-> changed, copied |-> copied]

Converted(old, to) ==
  NewRecord(to.ty, to.rtype, [n \in HeaderNames |-> old.val[n]],
            to.changed @@ [n \in to.copied |-> old.val[n]] @@ Defaults[to.ty])

Unchanged == <<>>

CarriedV1ToV2 ==
  {"ts_recv", "min_price_increment", "display_factor", "expiration", "activation",
   "high_limit_price", "low_limit_price", "max_price_variation", "trading_reference_price",
   "unit_of_measure_qty", "min_price_increment_amount", "price_ratio", "inst_attrib_value",
   "underlying_id", "raw_instrument_id", "market_depth_implied", "market_depth",
   "market_segment_id", "max_trade_vol", "min_lot_size", "min_lot_size_block",
   "min_lot_size_round_lot", "min_trade_vol", "contract_multiplier", "decay_quantity",
   "original_contract_size", "trading_reference_date", "appl_id", "maturity_year",
   "decay_start_date", "channel_id", "currency", "settl_currency", "secsubtype", "group",
   "exchange", "asset", "cfi", "security_type", "unit_of_measure", "underlying",
   "strike_price_currency", "instrument_class", "strike_price", "match_algorithm",
   "md_security_trading_status", "main_fraction", "price_display_format",
   "settl_price_type", "sub_fraction", "underlying_product", "security_update_action",
   "maturity_month", "maturity_day", "maturity_week", "user_defined_instrument",
   "contract_multiplier_unit", "flow_schedule_type", "tick_rule", "raw_symbol"}

(* A slip: a field is forgotten on one of the two paths. *)
InstrumentDefV1ToV2NoStrike ==
  Convert("InstrumentDefMsgV2", "INSTRUMENT_DEF", Unchanged,
          CarriedV1ToV2 \ {"strike_price"})

InstrumentDefV1ToV2 ==
  Convert("InstrumentDefMsgV2", "INSTRUMENT_DEF", Unchanged, CarriedV1ToV2)

CarriedV1ToV3 ==
  {"ts_recv", "min_price_increment", "display_factor", "expiration", "activation",
   "high_limit_price", "low_limit_price", "max_price_variation", "unit_of_measure_qty",
   "min_price_increment_amount", "price_ratio", "inst_attrib_value", "underlying_id",
   "raw_instrument_id", "market_depth_implied", "market_depth", "market_segment_id",
   "max_trade_vol", "min_lot_size", "min_lot_size_block", "min_lot_size_round_lot",
   "min_trade_vol", "contract_multiplier", "decay_quantity", "original_contract_size",
   "appl_id", "maturity_year", "decay_start_date", "channel_id", "currency",
   "settl_currency", "secsubtype", "group", "exchange", "cfi", "security_type",
   "unit_of_measure", "underlying", "strike_price_currency", "instrument_class",
   "strike_price", "match_algorithm", "main_fraction", "price_display_format",
   "sub_fraction", "underlying_product", "security_update_action", "maturity_month",
   "maturity_day", "maturity_week", "user_defined_instrument", "contract_multiplier_unit",
   "flow_schedule_type", "tick_rule", "asset", "raw_symbol"}

InstrumentDefV1ToV3 ==
  Convert("InstrumentDefMsg", "INSTRUMENT_DEF", Unchanged, CarriedV1ToV3)

CarriedV2ToV3 ==
  {"ts_recv", "min_price_increment", "display_factor", "expiration", "activation",
   "high_limit_price", "low_limit_price", "max_price_variation", "unit_of_measure_qty",
   "min_price_increment_amount", "price_ratio", "inst_attrib_value", "underlying_id",
   "raw_instrument_id", "market_depth_implied", "market_depth", "market_segment_id",
   "max_trade_vol", "min_lot_size", "min_lot_size_block", "min_lot_size_round_lot",
   "min_trade_vol", "contract_multiplier", "decay_quantity", "original_contract_size",
   "appl_id", "maturity_year", "decay_start_date", "channel_id", "currency",
   "settl_currency", "secsubtype", "group", "exchange", "cfi", "security_type",
   "unit_of_measure", "underlying", "strike_price_currency", "instrument_class",
   "strike_price", "match_algorithm", "main_fraction", "price_display_format",
   "sub_fraction", "underlying_product", "security_update_action", "maturity_month",
   "maturity_day", "maturity_week", "user_defined_instrument", "contract_multiplier_unit",
   "flow_schedule_type", "tick_rule", "raw_symbol", "asset"}

InstrumentDefV2ToV3 ==
  Convert("InstrumentDefMsg", "INSTRUMENT_DEF", Unchanged, CarriedV2ToV3)

(* A slip: the reference time is not copied. *)
StatV1ToV3NoRef(old) ==
  Convert("StatMsg", "STATISTICS",
    [quantity |-> IF old.val.quantity = UNDEF_STAT_QUANTITY_V1
                  THEN UNDEF_STAT_QUANTITY ELSE old.val.quantity],
    {"ts_recv", "price", "sequence", "ts_in_delta", "stat_type", "channel_id",
     "update_action", "stat_flags"})

StatV1ToV3(old) ==
  Convert("StatMsg", "STATISTICS",
    [quantity |-> IF old.val.quantity = UNDEF_STAT_QUANTITY_V1
                  THEN UNDEF_STAT_QUANTITY ELSE old.val.quantity],
    {"ts_recv", "ts_ref", "price", "sequence", "ts_in_delta", "stat_type", "channel_id",
     "update_action", "stat_flags"})

ErrorV1ToV2 == Convert("ErrorMsg", "ERROR", Unchanged, {"err"})

SymbolMappingV1ToV2 ==
  Convert("SymbolMappingMsg", "SYMBOL_MAPPING", Unchanged,
          {"stype_in_symbol", "stype_out_symbol", "start_ts", "end_ts"})

(* A slip: the new code is left unset. *)
SystemCodeNotTold(msg) == SystemCode.Unset

(* The code is told from the text, when the text can be read. *)
SystemCodeOfText(msg) ==
  CASE msg = HEARTBEAT -> SystemCode.Heartbeat
    [] msg = "End of interval for a" -> SystemCode.EndOfInterval
    [] msg = "Subscription request 1 succeeded" -> SystemCode.SubscriptionAck
    [] msg = "Warning: slow reading" -> SystemCode.SlowReaderWarning
    [] msg = "Finished a replay" -> SystemCode.ReplayCompleted
    [] OTHER -> SystemCode.Unset

SystemV1ToV2(old) ==
  Convert("SystemMsg", "SYSTEM",
          [code |-> Raw(SystemCodeOfText(c_chars_to_str(64, old.val.msg)))], {"msg"})

(* The direct conversions to version 2 and to version 3. *)
ToV2 == {"InstrumentDefMsgV1", "ErrorMsgV1", "SymbolMappingMsgV1", "SystemMsgV1"}
ToV3 == {"InstrumentDefMsgV1", "InstrumentDefMsgV2", "StatMsgV1", "ErrorMsgV1",
         "SymbolMappingMsgV1", "SystemMsgV1"}

IntoV2(r) == CASE r.ty = "InstrumentDefMsgV1" -> InstrumentDefV1ToV2
               [] r.ty = "ErrorMsgV1" -> ErrorV1ToV2
               [] r.ty = "SymbolMappingMsgV1" -> SymbolMappingV1ToV2
               [] r.ty = "SystemMsgV1" -> SystemV1ToV2(r)

IntoV3(r) == CASE r.ty = "InstrumentDefMsgV1" -> InstrumentDefV1ToV3
               [] r.ty = "InstrumentDefMsgV2" -> InstrumentDefV2ToV3
               [] r.ty = "StatMsgV1" -> StatV1ToV3(r)
               [] OTHER -> IntoV2(r)

AsV2(r) == Converted(r, IntoV2(r))
AsV3(r) == Converted(r, IntoV3(r))

(* A slip: the length of the record without the timestamp is kept. *)
WithTsOutKeepsLength(r, ts) == [r EXCEPT !.ts_out = ts]

(* WithTsOut::new: the length grows by the send timestamp. *)
WithTsOut(r, ts) ==
  [r EXCEPT !.length = WithTsOutSize(r.ty) \div LENGTH_MULTIPLIER, !.ts_out = ts]
=============================================================================
