--------------------------- MODULE RecordDispatch ---------------------------
(***************************************************************************)
(* Finding the type of a record again from its header: by rtype and        *)
(* length in the dispatch macros, in RecordRefEnum and in RecordRef, and   *)
(* by schema for the encoders that write one type of record.               *)
(***************************************************************************)
EXTENDS RecordAccess

Panic == "panic"

(* A slip: a record of just the size of the newer version is taken for old. *)
NotLonger(r, t) == record_size(r) <= SizeOf(t)

Shorter(r, t) == record_size(r) < SizeOf(t)

(* The types of an rtype in the order of their versions. *)
DispatchTypes ==
  [MBP_0 |-> <<"TradeMsg">>, MBP_1 |-> <<"Mbp1Msg">>, MBP_10 |-> <<"Mbp10Msg">>,
   OHLCV_DEPRECATED |-> <<"OhlcvMsg">>, OHLCV_1S |-> <<"OhlcvMsg">>,
   OHLCV_1M |-> <<"OhlcvMsg">>, OHLCV_1H |-> <<"OhlcvMsg">>, OHLCV_1D |-> <<"OhlcvMsg">>,
   OHLCV_EOD |-> <<"OhlcvMsg">>, IMBALANCE |-> <<"ImbalanceMsg">>,
   STATUS |-> <<"StatusMsg">>,
   INSTRUMENT_DEF |-> <<"InstrumentDefMsgV1", "InstrumentDefMsgV2", "InstrumentDefMsg">>,
   SYMBOL_MAPPING |-> <<"SymbolMappingMsgV1", "SymbolMappingMsg">>,
   ERROR |-> <<"ErrorMsgV1", "ErrorMsg">>, SYSTEM |-> <<"SystemMsgV1", "SystemMsg">>,
   STATISTICS |-> <<"StatMsgV1", "StatMsg">>, MBO |-> <<"MboMsg">>,
   CMBP_1 |-> <<"Cmbp1Msg">>, TCBBO |-> <<"Cmbp1Msg">>, BBO_1S |-> <<"BboMsg">>,
   BBO_1M |-> <<"BboMsg">>, CBBO_1S |-> <<"CbboMsg">>, CBBO_1M |-> <<"CbboMsg">>]

(* rtype_dispatch_base!: the record of an older version is told from its   *)
(* length, which includes the send timestamp when there is one: it is      *)
(* shorter than the next version.                                          *)
VersionOf(r, types) ==
  LET shorter == {i \in 2..Len(types) : Shorter(r, types[i])} \cup {Len(types) + 1}
  IN types[Min(shorter) - 1]

rtype_dispatch_base(r) ==
  IF r.rtype \in DOMAIN DispatchTypes THEN VersionOf(r, DispatchTypes[r.rtype]) ELSE Err

(* RecordRef::has, get and try_get, for T or WithTsOut<T>. *)
has(r, t) == r.rtype \in has_rtype[t]

Fits(r, t, ts_out) ==
  record_size(r) >= SizeOf(t) + (IF ts_out THEN 8 ELSE 0)

get(r, t, ts_out) ==
  IF ~has(r, t) THEN "None" ELSE IF Fits(r, t, ts_out) THEN t ELSE Panic

try_get(r, t, ts_out) == IF has(r, t) /\ Fits(r, t, ts_out) THEN t ELSE Err

(* rtype_dispatch!: the handler unwraps what get returns. *)
Unwrap(got) == IF got = "None" THEN Panic ELSE got

Handled(r, t, ts_out) == IF t = Err THEN Err ELSE Unwrap(get(r, t, ts_out))

rtype_dispatch(r, ts_out) == Handled(r, rtype_dispatch_base(r), ts_out)

(* RecordRefEnum::try_from: only the current version of a type. *)
RecordRefEnumTypes ==
  [MBO |-> "MboMsg", MBP_0 |-> "TradeMsg", MBP_1 |-> "Mbp1Msg", BBO_1S |-> "BboMsg",
   BBO_1M |-> "BboMsg", MBP_10 |-> "Mbp10Msg", OHLCV_DEPRECATED |-> "OhlcvMsg",
   OHLCV_1S |-> "OhlcvMsg", OHLCV_1M |-> "OhlcvMsg", OHLCV_1H |-> "OhlcvMsg",
   OHLCV_1D |-> "OhlcvMsg", OHLCV_EOD |-> "OhlcvMsg", STATUS |-> "StatusMsg",
   INSTRUMENT_DEF |-> "InstrumentDefMsg", IMBALANCE |-> "ImbalanceMsg",
   STATISTICS |-> "StatMsg", ERROR |-> "ErrorMsg", SYMBOL_MAPPING |-> "SymbolMappingMsg",
   SYSTEM |-> "SystemMsg", CMBP_1 |-> "Cmbp1Msg", TCBBO |-> "Cmbp1Msg",
   CBBO_1S |-> "CbboMsg", CBBO_1M |-> "CbboMsg"]

LengthChecked == {"INSTRUMENT_DEF", "STATISTICS", "ERROR", "SYMBOL_MAPPING", "SYSTEM"}

RecordRefEnum_try_from(r) ==
  IF \/ r.rtype \notin DOMAIN RecordRefEnumTypes
     \/ r.rtype \in LengthChecked /\ Shorter(r, RecordRefEnumTypes[r.rtype])
  THEN Err ELSE RecordRefEnumTypes[r.rtype]

(* schema_dispatch_base!: the type of the records of a schema. *)
schema_dispatch_base ==
  [Mbo |-> "MboMsg", Mbp1 |-> "Mbp1Msg", Tbbo |-> "Mbp1Msg", Bbo1S |-> "BboMsg",
   Bbo1M |-> "BboMsg", Mbp10 |-> "Mbp10Msg", Trades |-> "TradeMsg", Ohlcv1D |-> "OhlcvMsg",
   Ohlcv1H |-> "OhlcvMsg", Ohlcv1M |-> "OhlcvMsg", Ohlcv1S |-> "OhlcvMsg",
   OhlcvEod |-> "OhlcvMsg", Definition |-> "InstrumentDefMsg", Statistics |-> "StatMsg",
   Status |-> "StatusMsg", Imbalance |-> "ImbalanceMsg", Cmbp1 |-> "Cmbp1Msg",
   Tcbbo |-> "Cmbp1Msg", Cbbo1S |-> "CbboMsg", Cbbo1M |-> "CbboMsg"]

(* The names of the constants of mod rtype, and the variant of each. *)
RTypeConsts ==
  [MBP_0 |-> "Mbp0", MBP_1 |-> "Mbp1", MBP_10 |-> "Mbp10",
   OHLCV_DEPRECATED |-> "OhlcvDeprecated", OHLCV_1S |-> "Ohlcv1S", OHLCV_1M |-> "Ohlcv1M",
   OHLCV_1H |-> "Ohlcv1H", OHLCV_1D |-> "Ohlcv1D", OHLCV_EOD |-> "OhlcvEod",
   STATUS |-> "Status", INSTRUMENT_DEF |-> "InstrumentDef", IMBALANCE |-> "Imbalance",
   ERROR |-> "Error", SYMBOL_MAPPING |-> "SymbolMapping", SYSTEM |-> "System",
   STATISTICS |-> "Statistics", MBO |-> "Mbo", CMBP_1 |-> "Cmbp1", CBBO_1S |-> "Cbbo1S",
   CBBO_1M |-> "Cbbo1M", TCBBO |-> "Tcbbo", BBO_1S |-> "Bbo1S", BBO_1M |-> "Bbo1M"]
=============================================================================
