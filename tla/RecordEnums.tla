---------------------------- MODULE RecordEnums ----------------------------
(***************************************************************************)
(* The enumerations of the record fields and of the interface: the raw     *)
(* value of every variant (a byte shown as its character, or a number),    *)
(* their text forms, and the Python classes over them.  A text is its      *)
(* words and the way they are joined: <<"ohlcv 1s", "kebab">> is           *)
(* "ohlcv-1s", "snake" joins with '_' and "SNAKE" is snake in capitals.    *)
(***************************************************************************)
EXTENDS Integers, FiniteSets, Sequences, TLC

(* Raw values, as_str and FromStr. *)

RType ==
  [Mbp0 |-> 0, Mbp1 |-> 1, Mbp10 |-> 10, OhlcvDeprecated |-> 17, Ohlcv1S |-> 32,
   Ohlcv1M |-> 33, Ohlcv1H |-> 34, Ohlcv1D |-> 35, OhlcvEod |-> 36, Status |-> 18,
   InstrumentDef |-> 19, Imbalance |-> 20, Error |-> 21, SymbolMapping |-> 22,
   System |-> 23, Statistics |-> 24, Mbo |-> 160, Cmbp1 |-> 177, Cbbo1S |-> 192,
   Cbbo1M |-> 193, Tcbbo |-> 194, Bbo1S |-> 195, Bbo1M |-> 196]

RType_as_str ==
  [Mbp0 |-> "mbp 0", Mbp1 |-> "mbp 1", Mbp10 |-> "mbp 10",
   OhlcvDeprecated |-> "ohlcv deprecated", Ohlcv1S |-> "ohlcv 1s", Ohlcv1M |-> "ohlcv 1m",
   Ohlcv1H |-> "ohlcv 1h", Ohlcv1D |-> "ohlcv 1d", OhlcvEod |-> "ohlcv eod",
   Status |-> "status", InstrumentDef |-> "instrument def", Imbalance |-> "imbalance",
   Error |-> "error", SymbolMapping |-> "symbol mapping", System |-> "system",
   Statistics |-> "statistics", Mbo |-> "mbo", Cmbp1 |-> "cmbp 1", Cbbo1S |-> "cbbo 1s",
   Cbbo1M |-> "cbbo 1m", Tcbbo |-> "tcbbo", Bbo1S |-> "bbo 1s", Bbo1M |-> "bbo 1m"]

RType_from_str ==
  [Mbp0 |-> {"mbp 0"}, Mbp1 |-> {"mbp 1"}, Mbp10 |-> {"mbp 10"},
   OhlcvDeprecated |-> {"ohlcv deprecated"}, Ohlcv1S |-> {"ohlcv 1s"},
   Ohlcv1M |-> {"ohlcv 1m"}, Ohlcv1H |-> {"ohlcv 1h"}, Ohlcv1D |-> {"ohlcv 1d"},
   OhlcvEod |-> {"ohlcv eod"}, Status |-> {"status"},
   InstrumentDef |-> {"instrument def"}, Imbalance |-> {"imbalance"}, Error |-> {"error"},
   SymbolMapping |-> {"symbol mapping"}, System |-> {"system"},
   Statistics |-> {"statistics"}, Mbo |-> {"mbo"}, Cmbp1 |-> {"cmbp 1"},
   Cbbo1S |-> {"cbbo 1s"}, Cbbo1M |-> {"cbbo 1m"}, Tcbbo |-> {"tcbbo"},
   Bbo1S |-> {"bbo 1s"}, Bbo1M |-> {"bbo 1m"}]

Side == [Ask |-> "A", Bid |-> "B", None |-> "N"]

Action ==
  [Modify |-> "M", Trade |-> "T", Fill |-> "F", Cancel |-> "C", Add |-> "A",
   Clear |-> "R", None |-> "N"]

InstrumentClass ==
  [Bond |-> "B", Call |-> "C", Future |-> "F", Stock |-> "K", MixedSpread |-> "M",
   Put |-> "P", FutureSpread |-> "S", OptionSpread |-> "T", FxSpot |-> "X",
   CommoditySpot |-> "Y"]

MatchAlgorithm ==
  [Undefined |-> " ", Fifo |-> "F", Configurable |-> "K", ProRata |-> "C",
   FifoLmm |-> "T", ThresholdProRata |-> "O", FifoTopLmm |-> "S",
   ThresholdProRataLmm |-> "Q", EurodollarFutures |-> "Y", TimeProRata |-> "P",
   InstitutionalPrioritization |-> "V"]

UserDefinedInstrument == [No |-> "N", Yes |-> "Y"]

SecurityUpdateAction == [Add |-> "A", Modify |-> "M", Delete |-> "D", Invalid |-> "~"]

SType ==
  [InstrumentId |-> 0, RawSymbol |-> 1, Smart |-> 2, Continuous |-> 3, Parent |-> 4,
   NasdaqSymbol |-> 5, CmsSymbol |-> 6, Isin |-> 7, UsCode |-> 8, BbgCompId |-> 9,
   BbgCompTicker |-> 10, Figi |-> 11, FigiTicker |-> 12]

SType_as_str ==
  [InstrumentId |-> "instrument id", RawSymbol |-> "raw symbol", Smart |-> "smart",
   Continuous |-> "continuous", Parent |-> "parent", NasdaqSymbol |-> "nasdaq symbol",
   CmsSymbol |-> "cms symbol", Isin |-> "isin", UsCode |-> "us code",
   BbgCompId |-> "bbg comp id", BbgCompTicker |-> "bbg comp ticker", Figi |-> "figi",
   FigiTicker |-> "figi ticker"]

SType_from_str ==
  [InstrumentId |-> {"instrument id", "product id"},
   RawSymbol |-> {"raw symbol", "native"}, Smart |-> {"smart"},
   Continuous |-> {"continuous"}, Parent |-> {"parent"},
   NasdaqSymbol |-> {"nasdaq symbol", "nasdaq"}, CmsSymbol |-> {"cms symbol", "cms"},
   Isin |-> {"isin"}, UsCode |-> {"us code"}, BbgCompId |-> {"bbg comp id"},
   BbgCompTicker |-> {"bbg comp ticker"}, Figi |-> {"figi"},
   FigiTicker |-> {"figi ticker"}]

Schema ==
  [Mbo |-> 0, Mbp1 |-> 1, Mbp10 |-> 2, Tbbo |-> 3, Trades |-> 4, Ohlcv1S |-> 5,
   Ohlcv1M |-> 6, Ohlcv1H |-> 7, Ohlcv1D |-> 8, Definition |-> 9, Statistics |-> 10,
   Status |-> 11, Imbalance |-> 12, OhlcvEod |-> 13, Cmbp1 |-> 14, Cbbo1S |-> 15,
   Cbbo1M |-> 16, Tcbbo |-> 17, Bbo1S |-> 18, Bbo1M |-> 19]

Schema_as_str ==
  [Mbo |-> "mbo", Mbp1 |-> "mbp 1", Mbp10 |-> "mbp 10", Tbbo |-> "tbbo",
   Trades |-> "trades", Ohlcv1S |-> "ohlcv 1s", Ohlcv1M |-> "ohlcv 1m",
   Ohlcv1H |-> "ohlcv 1h", Ohlcv1D |-> "ohlcv 1d", Definition |-> "definition",
   Statistics |-> "statistics", Status |-> "status", Imbalance |-> "imbalance",
   OhlcvEod |-> "ohlcv eod", Cmbp1 |-> "cmbp 1", Cbbo1S |-> "cbbo 1s",
   Cbbo1M |-> "cbbo 1m", Tcbbo |-> "tcbbo", Bbo1S |-> "bbo 1s", Bbo1M |-> "bbo 1m"]

Schema_from_str ==
  [Mbo |-> {"mbo"}, Mbp1 |-> {"mbp 1"}, Mbp10 |-> {"mbp 10"}, Tbbo |-> {"tbbo"},
   Trades |-> {"trades"}, Ohlcv1S |-> {"ohlcv 1s"}, Ohlcv1M |-> {"ohlcv 1m"},
   Ohlcv1H |-> {"ohlcv 1h"}, Ohlcv1D |-> {"ohlcv 1d"}, Definition |-> {"definition"},
   Statistics |-> {"statistics"}, Status |-> {"status"}, Imbalance |-> {"imbalance"},
   OhlcvEod |-> {"ohlcv eod"}, Cmbp1 |-> {"cmbp 1"}, Cbbo1S |-> {"cbbo 1s"},
   Cbbo1M |-> {"cbbo 1m"}, Tcbbo |-> {"tcbbo"}, Bbo1S |-> {"bbo 1s"},
   Bbo1M |-> {"bbo 1m"}]

Encoding == [Dbn |-> 0, Csv |-> 1, Json |-> 2]

Encoding_as_str == [Dbn |-> "dbn", Csv |-> "csv", Json |-> "json"]

Encoding_from_str == [Dbn |-> {"dbn", "dbz"}, Csv |-> {"csv"}, Json |-> {"json"}]

Compression == [None |-> 0, Zstd |-> 1]

Compression_as_str == [None |-> "none", Zstd |-> "zstd"]

Compression_from_str == [None |-> {"none"}, Zstd |-> {"zstd"}]

StatType ==
  [OpeningPrice |-> 1, IndicativeOpeningPrice |-> 2, SettlementPrice |-> 3,
   TradingSessionLowPrice |-> 4, TradingSessionHighPrice |-> 5, ClearedVolume |-> 6,
   LowestOffer |-> 7, HighestBid |-> 8, OpenInterest |-> 9, FixingPrice |-> 10,
   ClosePrice |-> 11, NetChange |-> 12, Vwap |-> 13, Volatility |-> 14, Delta |-> 15,
   UncrossingPrice |-> 16]

StatUpdateAction == [New |-> 1, Delete |-> 2]

StatusAction ==
  [None |-> 0, PreOpen |-> 1, PreCross |-> 2, Quoting |-> 3, Cross |-> 4, Rotation |-> 5,
   NewPriceIndication |-> 6, Trading |-> 7, Halt |-> 8, Pause |-> 9, Suspend |-> 10,
   PreClose |-> 11, Close |-> 12, PostClose |-> 13, SsrChange |-> 14,
   NotAvailableForTrading |-> 15]

StatusReason ==
  [None |-> 0, Scheduled |-> 1, SurveillanceIntervention |-> 2, MarketEvent |-> 3,
   InstrumentActivation |-> 4, InstrumentExpiration |-> 5, RecoveryInProcess |-> 6,
   Regulatory |-> 10, Administrative |-> 11, NonCompliance |-> 12,
   FilingsNotCurrent |-> 13, SecTradingSuspension |-> 14, NewIssue |-> 15,
   IssueAvailable |-> 16, IssuesReviewed |-> 17, FilingReqsSatisfied |-> 18,
   NewsPending |-> 30, NewsReleased |-> 31, NewsAndResumptionTimes |-> 32,
   NewsNotForthcoming |-> 33, OrderImbalance |-> 40, LuldPause |-> 50, Operational |-> 60,
   AdditionalInformationRequested |-> 70, MergerEffective |-> 80, Etf |-> 90,
   CorporateAction |-> 100, NewSecurityOffering |-> 110, MarketWideHaltLevel1 |-> 120,
   MarketWideHaltLevel2 |-> 121, MarketWideHaltLevel3 |-> 122,
   MarketWideHaltCarryover |-> 123, MarketWideHaltResumption |-> 124,
   QuotationNotAvailable |-> 130]

TradingEvent ==
  [None |-> 0, NoCancel |-> 1, ChangeTradingSession |-> 2, ImpliedMatchingOn |-> 3,
   ImpliedMatchingOff |-> 4]

TriState == [NotAvailable |-> "~", No |-> "N", Yes |-> "Y"]

ErrorCode ==
  [AuthFailed |-> 1, ApiKeyDeactivated |-> 2, ConnectionLimitExceeded |-> 3,
   SymbolResolutionFailed |-> 4, InvalidSubscription |-> 5, InternalError |-> 6,
   Unset |-> 255]

ErrorCode_as_str ==
  [AuthFailed |-> "auth failed", ApiKeyDeactivated |-> "api key deactivated",
   ConnectionLimitExceeded |-> "connection limit exceeded",
   SymbolResolutionFailed |-> "symbol resolution failed",
   InvalidSubscription |-> "invalid subscription", InternalError |-> "internal error",
   Unset |-> "unset"]

ErrorCode_from_str ==
  [AuthFailed |-> {"auth failed"}, ApiKeyDeactivated |-> {"api key deactivated"},
   ConnectionLimitExceeded |-> {"connection limit exceeded"},
   SymbolResolutionFailed |-> {"symbol resolution failed"},
   InvalidSubscription |-> {"invalid subscription"}, InternalError |-> {"internal error"},
   Unset |-> {"unset"}]

SystemCode ==
  [Heartbeat |-> 0, SubscriptionAck |-> 1, SlowReaderWarning |-> 2, ReplayCompleted |-> 3,
   EndOfInterval |-> 4, Unset |-> 255]

SystemCode_as_str ==
  [Heartbeat |-> "heartbeat", SubscriptionAck |-> "subscription ack",
   SlowReaderWarning |-> "slow reader warning", ReplayCompleted |-> "replay completed",
   EndOfInterval |-> "end of interval", Unset |-> "unset"]

SystemCode_from_str ==
  [Heartbeat |-> {"heartbeat"}, SubscriptionAck |-> {"subscription ack"},
   SlowReaderWarning |-> {"slow reader warning"},
   ReplayCompleted |-> {"replay completed"}, EndOfInterval |-> {"end of interval"},
   Unset |-> {"unset"}]

-----------------------------------------------------------------------------
(* Conversions between enumerations (enums/methods.rs).                    *)

RTypeFromSchema ==
  [Mbo |-> "Mbo", Mbp1 |-> "Mbp1", Tbbo |-> "Mbp1", Mbp10 |-> "Mbp10", Trades |-> "Mbp0",
   Ohlcv1S |-> "Ohlcv1S", Ohlcv1M |-> "Ohlcv1M", Ohlcv1H |-> "Ohlcv1H",
   Ohlcv1D |-> "Ohlcv1D", OhlcvEod |-> "OhlcvEod", Definition |-> "InstrumentDef",
   Statistics |-> "Statistics", Status |-> "Status", Imbalance |-> "Imbalance",
   Cmbp1 |-> "Cmbp1", Cbbo1S |-> "Cbbo1S", Cbbo1M |-> "Cbbo1M", Tcbbo |-> "Tcbbo",
   Bbo1S |-> "Bbo1S", Bbo1M |-> "Bbo1M"]

(* None for the rtypes that are not in the domain. *)
try_into_schema ==
  [Mbp0 |-> "Trades", Mbp1 |-> "Mbp1", Mbp10 |-> "Mbp10", Ohlcv1S |-> "Ohlcv1S",
   Ohlcv1M |-> "Ohlcv1M", Ohlcv1H |-> "Ohlcv1H", Ohlcv1D |-> "Ohlcv1D",
   OhlcvEod |-> "OhlcvEod", Status |-> "Status", InstrumentDef |-> "Definition",
   Imbalance |-> "Imbalance", Statistics |-> "Statistics", Mbo |-> "Mbo",
   Cmbp1 |-> "Cmbp1", Cbbo1S |-> "Cbbo1S", Cbbo1M |-> "Cbbo1M", Tcbbo |-> "Tcbbo",
   Bbo1S |-> "Bbo1S", Bbo1M |-> "Bbo1M"]

(* The interval of a subsampled rtype, in seconds. *)
interval ==
  [Ohlcv1S |-> 1, Cbbo1S |-> 1, Bbo1S |-> 1, Ohlcv1M |-> 60, Cbbo1M |-> 60,
   Bbo1M |-> 60, Ohlcv1H |-> 3600, Ohlcv1D |-> 86400, OhlcvEod |-> 86400]

OptionBool == [NotAvailable |-> "None", No |-> "false", Yes |-> "true"]

TriStateFromOption == [None |-> "NotAvailable", false |-> "No", true |-> "Yes"]

(* The variant TryFromPrimitive gives for a raw value, "Err" for an unknown one. *)
try_from(e, raw) ==
  LET found == {v \in DOMAIN e : e[v] = raw}
  IN IF found = {} THEN "Err" ELSE CHOOSE v \in found : TRUE

-----------------------------------------------------------------------------
(* The Python classes.  kind is what py_new takes: one character, an int   *)
(* or a text; text is the style from_str tokenizes to.                     *)
NoText  == "none"
NoTexts == <<>>

PyEnum(kind, raw, text, as_str, from_str, name) ==
  [kind |-> kind, raw |-> raw, text |-> text, as_str |-> as_str, from_str |-> from_str,
   name |-> name]

PyRType ==
  PyEnum("int", RType, "kebab", RType_as_str, RType_from_str,
    [Mbp0 |-> "mbp 0", Mbp1 |-> "mbp 1", Mbp10 |-> "mbp 10",
     OhlcvDeprecated |-> "ohlcv deprecated", Ohlcv1S |-> "ohlcv 1s", Ohlcv1M |-> "ohlcv 1m",
     Ohlcv1H |-> "ohlcv 1h", Ohlcv1D |-> "ohlcv 1d", OhlcvEod |-> "ohlcv eod",
     Status |-> "status", InstrumentDef |-> "instrument def", Imbalance |-> "imbalance",
     Error |-> "error", SymbolMapping |-> "symbol mapping", System |-> "system",
     Statistics |-> "statistics", Mbo |-> "mbo", Cmbp1 |-> "cmbp 1", Cbbo1S |-> "cbbo 1s",
     Cbbo1M |-> "cbbo 1m", Tcbbo |-> "tcbbo", Bbo1S |-> "bbo 1s", Bbo1M |-> "bbo 1m"])

PySide ==
  PyEnum("char", Side, NoText, NoTexts, NoTexts,
    [Ask |-> "ask", Bid |-> "bid", None |-> "none"])

PyAction ==
  PyEnum("char", Action, NoText, NoTexts, NoTexts,
    [Modify |-> "modify", Trade |-> "trade", Fill |-> "fill", Cancel |-> "cancel",
     Add |-> "add", Clear |-> "clear", None |-> "none"])

PyInstrumentClass ==
  PyEnum("char", InstrumentClass, NoText, NoTexts, NoTexts,
    [Bond |-> "bond", Call |-> "call", Future |-> "future", Stock |-> "stock",
     MixedSpread |-> "mixed spread", Put |-> "put", FutureSpread |-> "future spread",
     OptionSpread |-> "option spread", FxSpot |-> "fx spot",
     CommoditySpot |-> "commodity spot"])

PyMatchAlgorithm ==
  PyEnum("char", MatchAlgorithm, NoText, NoTexts, NoTexts,
    [Undefined |-> "undefined", Fifo |-> "fifo", Configurable |-> "configurable",
     ProRata |-> "pro rata", FifoLmm |-> "fifo lmm",
     ThresholdProRata |-> "threshold pro rata", FifoTopLmm |-> "fifo top lmm",
     ThresholdProRataLmm |-> "threshold pro rata lmm",
     EurodollarFutures |-> "eurodollar futures", TimeProRata |-> "time pro rata",
     InstitutionalPrioritization |-> "institutional prioritization"])

PyUserDefinedInstrument ==
  PyEnum("char", UserDefinedInstrument, NoText, NoTexts, NoTexts,
    [No |-> "no", Yes |-> "yes"])

PySecurityUpdateAction ==
  PyEnum("char", SecurityUpdateAction, NoText, NoTexts, NoTexts,
    [Add |-> "add", Modify |-> "modify", Delete |-> "delete", Invalid |-> "invalid"])

PySType ==
  PyEnum("text", SType, "snake", SType_as_str, SType_from_str,
    [InstrumentId |-> "instrument id", RawSymbol |-> "raw symbol", Smart |-> "smart",
     Continuous |-> "continuous", Parent |-> "parent", NasdaqSymbol |-> "nasdaq symbol",
     CmsSymbol |-> "cms symbol", Isin |-> "isin", UsCode |-> "us code",
     BbgCompId |-> "bbg comp id", BbgCompTicker |-> "bbg comp ticker", Figi |-> "figi",
     FigiTicker |-> "figi ticker"])

PySchema ==
  PyEnum("text", Schema, "kebab", Schema_as_str, Schema_from_str,
    [Mbo |-> "mbo", Mbp1 |-> "mbp 1", Mbp10 |-> "mbp 10", Tbbo |-> "tbbo",
     Trades |-> "trades", Ohlcv1S |-> "ohlcv 1s", Ohlcv1M |-> "ohlcv 1m",
     Ohlcv1H |-> "ohlcv 1h", Ohlcv1D |-> "ohlcv 1d", Definition |-> "definition",
     Statistics |-> "statistics", Status |-> "status", Imbalance |-> "imbalance",
     OhlcvEod |-> "ohlcv eod", Cmbp1 |-> "cmbp 1", Cbbo1S |-> "cbbo 1s",
     Cbbo1M |-> "cbbo 1m", Tcbbo |-> "tcbbo", Bbo1S |-> "bbo 1s", Bbo1M |-> "bbo 1m"])

PyEncoding ==
  PyEnum("text", Encoding, "snake", Encoding_as_str, Encoding_from_str,
    [Dbn |-> "dbn", Csv |-> "csv", Json |-> "json"])

PyCompression ==
  PyEnum("text", Compression, "snake", Compression_as_str, Compression_from_str,
    [None |-> "none", Zstd |-> "zstd"])

PyStatType ==
  PyEnum("int", StatType, NoText, NoTexts, NoTexts,
    [OpeningPrice |-> "opening price",
     IndicativeOpeningPrice |-> "indicative opening price",
     SettlementPrice |-> "settlement price",
     TradingSessionLowPrice |-> "trading session low price",
     TradingSessionHighPrice |-> "trading session high price",
     ClearedVolume |-> "cleared volume", LowestOffer |-> "lowest offer",
     HighestBid |-> "highest bid", OpenInterest |-> "open interest",
     FixingPrice |-> "fixing price", ClosePrice |-> "close price",
     NetChange |-> "net change", Vwap |-> "vwap", Volatility |-> "volatility",
     Delta |-> "delta", UncrossingPrice |-> "uncrossing price"])

PyStatUpdateAction ==
  PyEnum("int", StatUpdateAction, NoText, NoTexts, NoTexts,
    [New |-> "new", Delete |-> "delete"])

PyStatusAction ==
  PyEnum("int", StatusAction, NoText, NoTexts, NoTexts,
    [None |-> "none", PreOpen |-> "pre open", PreCross |-> "pre cross",
     Quoting |-> "quoting", Cross |-> "cross", Rotation |-> "rotation",
     NewPriceIndication |-> "new price indication", Trading |-> "trading", Halt |-> "halt",
     Pause |-> "pause", Suspend |-> "suspend", PreClose |-> "pre close", Close |-> "close",
     PostClose |-> "post close", SsrChange |-> "ssr change",
     NotAvailableForTrading |-> "not available for trading"])

PyStatusReason ==
  PyEnum("int", StatusReason, NoText, NoTexts, NoTexts,
    [None |-> "none", Scheduled |-> "scheduled",
     SurveillanceIntervention |-> "surveillance intervention",
     MarketEvent |-> "market event", InstrumentActivation |-> "instrument activation",
     InstrumentExpiration |-> "instrument expiration",
     RecoveryInProcess |-> "recovery in process", Regulatory |-> "regulatory",
     Administrative |-> "administrative", NonCompliance |-> "non compliance",
     FilingsNotCurrent |-> "filings not current",
     SecTradingSuspension |-> "sec trading suspension", NewIssue |-> "new issue",
     IssueAvailable |-> "issue available", IssuesReviewed |-> "issues reviewed",
     FilingReqsSatisfied |-> "filing reqs satisfied", NewsPending |-> "news pending",
     NewsReleased |-> "news released",
     NewsAndResumptionTimes |-> "news and resumption times",
     NewsNotForthcoming |-> "news not forthcoming", OrderImbalance |-> "order imbalance",
     LuldPause |-> "luld pause", Operational |-> "operational",
     AdditionalInformationRequested |-> "additional information requested",
     MergerEffective |-> "merger effective", Etf |-> "etf",
     CorporateAction |-> "corporate action",
     NewSecurityOffering |-> "new security offering",
     MarketWideHaltLevel1 |-> "market wide halt level1",
     MarketWideHaltLevel2 |-> "market wide halt level2",
     MarketWideHaltLevel3 |-> "market wide halt level3",
     MarketWideHaltCarryover |-> "market wide halt carryover",
     MarketWideHaltResumption |-> "market wide halt resumption",
     QuotationNotAvailable |-> "quotation not available"])

PyTradingEvent ==
  PyEnum("int", TradingEvent, NoText, NoTexts, NoTexts,
    [None |-> "none", NoCancel |-> "no cancel",
     ChangeTradingSession |-> "change trading session",
     ImpliedMatchingOn |-> "implied matching on",
     ImpliedMatchingOff |-> "implied matching off"])

PyTriState ==
  PyEnum("char", TriState, NoText, NoTexts, NoTexts,
    [NotAvailable |-> "not available", No |-> "no", Yes |-> "yes"])

PyErrorCode ==
  PyEnum("int", ErrorCode, "snake", ErrorCode_as_str, ErrorCode_from_str,
    [AuthFailed |-> "auth failed", ApiKeyDeactivated |-> "api key deactivated",
     ConnectionLimitExceeded |-> "connection limit exceeded",
     SymbolResolutionFailed |-> "symbol resolution failed",
     InvalidSubscription |-> "invalid subscription", InternalError |-> "internal error",
     Unset |-> "unset"])

PySystemCode ==
  PyEnum("int", SystemCode, "snake", SystemCode_as_str, SystemCode_from_str,
    [Heartbeat |-> "heartbeat", SubscriptionAck |-> "subscription ack",
     SlowReaderWarning |-> "slow reader warning", ReplayCompleted |-> "replay completed",
     EndOfInterval |-> "end of interval", Unset |-> "unset"])

PyEnums ==
  [RType |-> PyRType, Side |-> PySide, Action |-> PyAction,
   InstrumentClass |-> PyInstrumentClass, MatchAlgorithm |-> PyMatchAlgorithm,
   UserDefinedInstrument |-> PyUserDefinedInstrument,
   SecurityUpdateAction |-> PySecurityUpdateAction, SType |-> PySType,
   Schema |-> PySchema, Encoding |-> PyEncoding, Compression |-> PyCompression,
   StatType |-> PyStatType, StatUpdateAction |-> PyStatUpdateAction,
   StatusAction |-> PyStatusAction, StatusReason |-> PyStatusReason,
   TradingEvent |-> PyTradingEvent, TriState |-> PyTriState, ErrorCode |-> PyErrorCode,
   SystemCode |-> PySystemCode]

(* value: the character, the number, or the text of as_str. *)
PyValue(e, v) == IF e.kind = "text" THEN <<e.as_str[v], e.text>> ELSE e.raw[v]

(* A slip: the text is matched as it is. *)
TokenizeNothing(e, text) == text

(* from_str of the classes with texts: separators and case are normalised. *)
Tokenize(e, text) == <<text[1], e.text>>

PyFromText(e, text) ==
  LET t == Tokenize(e, text)
      found == {v \in DOMAIN e.from_str : t[1] \in e.from_str[v] /\ t[2] = e.text}
  IN IF found = {} THEN "Err" ELSE CHOOSE v \in found : TRUE

(* py_new: a text class parses it, the others convert the raw value; the   *)
(* character of a char class is cut to its low byte (`value as u8`), so    *)
(* <<byte, high>> reads as byte whatever high is.                          *)
PyNewEnum(e, x) ==
  CASE e.kind = "text" -> PyFromText(e, x)
    [] e.kind = "char" -> try_from(e.raw, x[1])
    [] e.kind = "int"  -> try_from(e.raw, x)
=============================================================================
