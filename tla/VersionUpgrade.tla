--------------------------- MODULE VersionUpgrade ---------------------------
(***************************************************************************)
(* DBN versions, the version upgrade policies and which record type is     *)
(* converted to which layout: VersionUpgradePolicy and the dispatch of     *)
(* DbnFsm::upgrade_record.  A layout is a record type at a version, and    *)
(* only its size is modelled: the code tells layouts apart by nothing else.*)
(***************************************************************************)
EXTENDS Integers

CONSTANTS
    RecSize,     \* RecSize[rtype][v]: bytes of that record type in DBN version v
    TS_OUT_LEN   \* bytes that WithTsOut appends to a record

DBN_VERSION == 3
Versions    == 1..DBN_VERSION
NONE        == -1          \* Option::None for an Option<DbnVersion>

RTypes == {"INSTRUMENT_DEF", "STATISTICS", "SYMBOL_MAPPING", "ERROR", "SYSTEM", "OTHER"}

Policies == {"AsIs", "UpgradeToV2", "UpgradeToV3"}

\* The sizes never shrink, OTHER record types never change, and two layouts of
\* a type that differ do so by more than the ts_out a record may carry.
ASSUME SizeAssumption ==
    /\ TS_OUT_LEN \in Nat \ {0}
    /\ RecSize \in [RTypes -> [Versions -> Nat \ {0}]]
    /\ \A rt \in RTypes : \A v \in {1, 2} :
          \/ RecSize[rt][v] = RecSize[rt][v + 1]
          \/ RecSize[rt][v] + TS_OUT_LEN < RecSize[rt][v + 1]
    /\ \A rt \in RTypes \ {"INSTRUMENT_DEF"} :
          RecSize[rt][3] <= RecSize["INSTRUMENT_DEF"][3]
    \* Which types changed in which version.
    /\ RecSize["INSTRUMENT_DEF"][1] < RecSize["INSTRUMENT_DEF"][2]
    /\ RecSize["INSTRUMENT_DEF"][2] < RecSize["INSTRUMENT_DEF"][3]
    /\ RecSize["STATISTICS"][1] = RecSize["STATISTICS"][2]
    /\ \A rt \in {"SYMBOL_MAPPING", "ERROR", "SYSTEM"} : RecSize[rt][2] = RecSize[rt][3]
    /\ \A v \in Versions : RecSize["OTHER"][v] = RecSize["OTHER"][1]

TsOutLen(ts) == IF ts THEN TS_OUT_LEN ELSE 0

\* The encoded size of a record of this type in a stream of version v.
EncodedSize(rt, v, ts) == RecSize[rt][v] + TsOutLen(ts)

MAX_RECORD_LEN == RecSize["INSTRUMENT_DEF"][3] + TS_OUT_LEN

ValidVersion(v) == v \in Versions

ValidateCompatibility(policy, v) == ~(v > 2 /\ policy = "UpgradeToV2")

IsUpgradeSituation(policy, v) ==
    \/ policy = "UpgradeToV2" /\ v < 2
    \/ policy = "UpgradeToV3" /\ v < 3

OutputVersion(policy, v) ==
    CASE policy = "AsIs"        -> v
      [] policy = "UpgradeToV2" -> 2
      [] policy = "UpgradeToV3" -> 3

-----------------------------------------------------------------------------
(***************************************************************************)
(* An upgrade reads the record as the layout of version `from` and writes  *)
(* the layout of version `to`; `version` is input_dbn_version afterwards.  *)
(* from = to = 0: the record is handed out as it is.                       *)
(***************************************************************************)
Convert(from, to, version) == [from |-> from, to |-> to, version |-> version]
AsItIs(version)            == Convert(0, 0, version)

UpgradeWithVersion(v, policy, rt) ==
    CASE v = 1 /\ policy = "UpgradeToV2" /\ rt = "INSTRUMENT_DEF" -> Convert(1, 2, v)
      [] v = 1 /\ policy = "UpgradeToV3" /\ rt = "INSTRUMENT_DEF" -> Convert(1, 3, v)
      [] v \in {1, 2} /\ policy = "UpgradeToV3" /\ rt = "STATISTICS" -> Convert(1, 3, v)
      [] v = 1 /\ policy # "AsIs" /\ rt \in {"SYMBOL_MAPPING", "ERROR", "SYSTEM"} ->
            Convert(1, 2, v)
      [] v = 2 /\ policy = "UpgradeToV3" /\ rt = "INSTRUMENT_DEF" -> Convert(2, 3, v)
      [] OTHER -> AsItIs(v)

\* A statistics record below the version 3 size could be of version 1 or 2,
\* so the version stays undecided.  This form decides it: a plausible slip.
DetectVersionEager(policy, rt, size) ==
    CASE rt = "INSTRUMENT_DEF" /\ policy = "UpgradeToV3" /\ size < RecSize[rt][2] ->
            Convert(1, 3, 1)
      [] rt = "INSTRUMENT_DEF" /\ policy = "UpgradeToV3" /\ RecSize[rt][2] <= size
                               /\ size < RecSize[rt][3] -> Convert(2, 3, 2)
      [] rt = "STATISTICS" /\ policy = "UpgradeToV3" /\ size < RecSize[rt][3] ->
            Convert(2, 3, 1)
      [] OTHER -> AsItIs(NONE)

\* The same match with the two INSTRUMENT_DEF arms of UpgradeToV3 in the other order.
DetectVersionSwapped(policy, rt, size) ==
    CASE rt = "INSTRUMENT_DEF" /\ policy = "UpgradeToV2" /\ size < RecSize[rt][2] ->
            Convert(1, 2, 1)
      [] rt = "INSTRUMENT_DEF" /\ policy = "UpgradeToV3" /\ size < RecSize[rt][3] ->
            Convert(2, 3, 2)
      [] OTHER -> AsItIs(NONE)

DetectVersion(policy, rt, size) ==
    CASE rt = "INSTRUMENT_DEF" /\ policy = "UpgradeToV2" /\ size < RecSize[rt][2] ->
            Convert(1, 2, 1)
      [] rt = "INSTRUMENT_DEF" /\ policy = "UpgradeToV3" /\ size < RecSize[rt][2] ->
            Convert(1, 3, 1)
      [] rt = "INSTRUMENT_DEF" /\ policy = "UpgradeToV3" /\ RecSize[rt][2] <= size
                               /\ size < RecSize[rt][3] -> Convert(2, 3, 2)
      [] rt = "STATISTICS" /\ policy = "UpgradeToV3" /\ size < RecSize[rt][3] ->
            Convert(2, 3, NONE)
      [] rt \in {"SYMBOL_MAPPING", "ERROR", "SYSTEM"} /\ policy # "AsIs"
                               /\ size < RecSize[rt][2] -> Convert(1, 2, 1)
      [] OTHER -> AsItIs(NONE)

UpgradeRecord(version, policy, rt, size) ==
    IF version = NONE THEN DetectVersion(policy, rt, size)
                      ELSE UpgradeWithVersion(version, policy, rt)

\* Bytes the conversion u needs of the compat buffer; none without one.
UpgradedSize(u, rt, ts) == IF u.to = 0 THEN 0 ELSE EncodedSize(rt, u.to, ts)

\* RecordRef::get asserts the record is at least as long as the layout read.
ReadsInBounds(u, rt, size, ts) == u.from # 0 => size >= EncodedSize(rt, u.from, ts)
=============================================================================
