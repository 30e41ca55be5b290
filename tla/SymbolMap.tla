----------------------------- MODULE SymbolMap -----------------------------
(***************************************************************************)
(* symbol_map.rs: the two maps from instrument ID to symbol, both made of  *)
(* one metadata.  TsSymbolMap has an entry for every day of every mapping  *)
(* interval; PitSymbolMap has those of one date and is kept current by the *)
(* records of a live stream.  A turn of a loop over the mappings or their  *)
(* intervals is an action; the client first builds the one, then the other.*)
(*                                                                         *)
(* Days are numbers.  A timestamp counts the DAY instants of each day, of  *)
(* which the first is midnight.                                            *)
(***************************************************************************)
EXTENDS VersionUpgrade, Sequences, FiniteSetsExt

CONSTANTS
    DAY,        \* instants in a day
    IidOf,      \* the symbols that parse as an instrument ID, with their value
    Metas,      \* the metadata: see IsMetadata
    Dates,      \* the dates a PitSymbolMap is asked for
    Records,    \* what a live stream brings: see IsRecord
    MaxLive     \* bound: live records in one behaviour

MappingInterval == [start_date : Nat, end_date : Nat, symbol : STRING]
SymbolMapping   == [raw_symbol : STRING, intervals : Seq(MappingInterval)]

(***************************************************************************)
(* Of a metadata: whether stype_in and stype_out are InstrumentId, the     *)
(* query range, and for each raw symbol intervals that do not overlap.     *)
(***************************************************************************)
IsMetadata(md) ==
    /\ md.in_id \in BOOLEAN /\ md.out_id \in BOOLEAN
    /\ md.start \in Nat /\ md.end \in Nat \cup {NONE}
    /\ md.end # NONE => md.start < md.end
    /\ md.mappings \in Seq(SymbolMapping)
    /\ \A m \in 1..Len(md.mappings) :
          LET ints == md.mappings[m].intervals
          IN  \A j, k \in 1..Len(ints) : j < k => ints[j].end_date <= ints[k].start_date

\* A record names an instrument and a symbol, which may not be valid UTF-8.
IsRecord(r) ==
    /\ r.rtype \in RTypes /\ r.version \in Versions /\ r.ts_out \in BOOLEAN
    /\ r.iid \in Nat /\ r.utf8 \in BOOLEAN

ASSUME SymbolMapAssumption ==
    /\ DAY \in Nat \ {0} /\ MaxLive \in Nat /\ Dates \subseteq Nat
    /\ \A s \in DOMAIN IidOf : IidOf[s] \in Nat
    /\ \A md \in Metas : IsMetadata(md)
    /\ \A r \in Records : IsRecord(r)

VARIABLES
    metadata, date,
    ts_map,      \* TsSymbolMap: <<day, instrument ID>> -> symbol
    pit_map,     \* PitSymbolMap: instrument ID -> symbol
    m, k,        \* the mapping and the interval a loop is at
    pc,          \* "ts", "pit" or "live"
    ts_result, pit_result,   \* of the two constructors: "none" yet, "ok" or "err"
    latest,      \* the last symbol the live stream gave each instrument
    live         \* how many records it brought

built == <<metadata, date>>
vars  == <<metadata, date, ts_map, pit_map, m, k, pc, ts_result, pit_result, latest, live>>

\* The symbol of an interval in which a raw symbol maps to nothing.
NoSymbol == ""

Empty == [x \in {} |-> NoSymbol]

\* The entries of f inserted into the map g.
InsertAll(f, g) ==
    [x \in DOMAIN f \cup DOMAIN g |-> IF x \in DOMAIN f THEN f[x] ELSE g[x]]

Parse(s) == IF s \in DOMAIN IidOf THEN IidOf[s] ELSE NONE

\* is_inverse: an error unless one of the two symbol types is InstrumentId.
HasIds    == metadata.in_id \/ metadata.out_id
IsInverse == ~metadata.out_id

Left      == m <= Len(metadata.mappings)
Mapping   == metadata.mappings[m]
Iid(int)  == Parse(IF IsInverse THEN Mapping.raw_symbol ELSE int.symbol)
Text(int) == IF IsInverse THEN int.symbol ELSE Mapping.raw_symbol

Init ==
    /\ metadata \in Metas /\ date \in Dates
    /\ ts_map = Empty /\ pit_map = Empty
    /\ m = 1 /\ k = 1 /\ pc = "ts"
    /\ ts_result = "none" /\ pit_result = "none"
    /\ latest = Empty /\ live = 0

-----------------------------------------------------------------------------
(* TsSymbolMap::try_from(metadata), with insert. *)

\* A slip: the end date is taken to be included.
DaysInclusive(int) == int.start_date .. int.end_date
Days(int)          == int.start_date .. int.end_date - 1

LeftInMapping == k <= Len(Mapping.intervals)
Interval      == Mapping.intervals[k]

TsFails ==
    /\ pc = "ts"
    /\ \/ ~HasIds
       \/ Left /\ IsInverse /\ Parse(Mapping.raw_symbol) = NONE
       \/ /\ Left /\ LeftInMapping /\ Interval.symbol # NoSymbol
          /\ Iid(Interval) = NONE \/ Interval.start_date > Interval.end_date
    /\ ts_result' = "err" /\ ts_map' = Empty
    /\ pc' = "pit" /\ m' = 1 /\ k' = 1
    /\ UNCHANGED <<built, pit_map, pit_result, latest, live>>

\* An interval without a symbol is skipped, one without a day inserts nothing.
TsInterval ==
    /\ pc = "ts" /\ HasIds /\ Left /\ LeftInMapping
    /\ Interval.symbol = NoSymbol \/ Interval.start_date <= Interval.end_date
    /\ IsInverse => Parse(Mapping.raw_symbol) # NONE
    /\ Interval.symbol # NoSymbol => Iid(Interval) # NONE
    /\ ts_map' = IF Interval.symbol = NoSymbol THEN ts_map
                 ELSE InsertAll([x \in Days(Interval) \X {Iid(Interval)} |-> Text(Interval)],
                                ts_map)
    /\ k' = k + 1
    /\ UNCHANGED <<built, pit_map, m, pc, ts_result, pit_result, latest, live>>

TsMapping ==
    /\ pc = "ts" /\ HasIds /\ Left /\ ~LeftInMapping
    /\ IsInverse => Parse(Mapping.raw_symbol) # NONE
    /\ m' = m + 1 /\ k' = 1
    /\ UNCHANGED <<built, ts_map, pit_map, pc, ts_result, pit_result, latest, live>>

TsDone ==
    /\ pc = "ts" /\ HasIds /\ ~Left
    /\ ts_result' = "ok"
    /\ pc' = "pit" /\ m' = 1
    /\ UNCHANGED <<built, ts_map, pit_map, k, pit_result, latest, live>>

-----------------------------------------------------------------------------
(* PitSymbolMap::from_metadata(metadata, date). *)

DateOf(ts)  == ts \div DAY
Midnight(d) == d * DAY

\* A slip: dates are compared, so a range that ends at midnight includes the day after.
InRangeByDate ==
    /\ date >= DateOf(metadata.start)
    /\ metadata.end # NONE => date <= DateOf(metadata.end)
InRange ==
    /\ date >= DateOf(metadata.start)
    /\ metadata.end # NONE => Midnight(date) < metadata.end

\* A slip: the day an interval ends on is taken to be covered.
CoversEnd(int) == date >= int.start_date /\ date <= int.end_date
Covers(int)    == date >= int.start_date /\ date < int.end_date

\* iter().find(..): the first interval that covers the date, if any and not empty.
Found ==
    LET ks == {j \in 1..Len(Mapping.intervals) : Covers(Mapping.intervals[j])}
    IN  IF ks = {} \/ Mapping.intervals[Min(ks)].symbol = NoSymbol THEN {}
        ELSE {Mapping.intervals[Min(ks)]}

PitFails ==
    /\ pc = "pit"
    /\ \/ ~HasIds \/ ~InRange
       \/ Left /\ \E int \in Found : Iid(int) = NONE
    /\ pit_result' = "err" /\ pit_map' = Empty
    /\ pc' = "live"
    /\ UNCHANGED <<built, ts_map, m, k, ts_result, latest, live>>

PitMapping ==
    /\ pc = "pit" /\ HasIds /\ InRange /\ Left
    /\ \A int \in Found : Iid(int) # NONE
    /\ pit_map' = InsertAll([i \in {Iid(int) : int \in Found} |->
                                Text(CHOOSE int \in Found : TRUE)], pit_map)
    /\ m' = m + 1
    /\ UNCHANGED <<built, ts_map, k, pc, ts_result, pit_result, latest, live>>

PitDone ==
    /\ pc = "pit" /\ HasIds /\ InRange /\ ~Left
    /\ pit_result' = "ok"
    /\ pc' = "live"
    /\ UNCHANGED <<built, ts_map, pit_map, m, k, ts_result, latest, live>>

-----------------------------------------------------------------------------
(* PitSymbolMap::on_record, on_symbol_mapping and on_instrument_def. *)

\* on_record tells the layouts of a symbol mapping apart by the size of the record,
\* which may include a ts_out.
LayoutRead(r) ==
    IF EncodedSize(r.rtype, r.version, r.ts_out) >= RecSize[r.rtype][DBN_VERSION]
    THEN DBN_VERSION ELSE 1

\* The symbol found there: another one if the layout is not the record's.
SymbolRead(r) ==
    IF RecSize[r.rtype][LayoutRead(r)] = RecSize[r.rtype][r.version] THEN r.symbol
                                                                     ELSE "misread"

\* Inserts what was read, s, for the record's instrument; invalid UTF-8 is an error.
Insert(r, s) ==
    /\ pc = "live" /\ live < MaxLive
    /\ live' = live + 1
    /\ pit_map' = IF r.utf8 THEN InsertAll([i \in {r.iid} |-> s], pit_map) ELSE pit_map
    /\ latest' = IF r.utf8 THEN InsertAll([i \in {r.iid} |-> r.symbol], latest) ELSE latest
    /\ UNCHANGED <<built, ts_map, m, k, pc, ts_result, pit_result>>

OnRecord(r)        == r.rtype = "SYMBOL_MAPPING" /\ Insert(r, SymbolRead(r))
OnInstrumentDef(r) == r.rtype = "INSTRUMENT_DEF" /\ Insert(r, r.symbol)

\* on_record leaves the map alone for every other record, definitions included.
OnOtherRecord(r) ==
    /\ pc = "live" /\ live < MaxLive
    /\ r.rtype # "SYMBOL_MAPPING"
    /\ live' = live + 1
    /\ UNCHANGED <<built, ts_map, pit_map, m, k, pc, ts_result, pit_result, latest>>

-----------------------------------------------------------------------------
Next ==
    \/ TsFails \/ TsInterval \/ TsMapping \/ TsDone
    \/ PitFails \/ PitMapping \/ PitDone
    \/ \E r \in Records : OnRecord(r) \/ OnInstrumentDef(r) \/ OnOtherRecord(r)

Spec == Init /\ [][Next]_vars

-----------------------------------------------------------------------------
(* Properties. *)

\* The mappings of the metadata that give the instrument a symbol on day d.
Mappings(d, iid) ==
    {i \in 1..Len(metadata.mappings) :
        \E j \in 1..Len(metadata.mappings[i].intervals) :
            LET mp  == metadata.mappings[i]
                int == mp.intervals[j]
            IN  /\ int.symbol # NoSymbol /\ int.start_date <= d /\ d < int.end_date
                /\ iid = Parse(IF IsInverse THEN mp.raw_symbol ELSE int.symbol)}

AllDays == UNION {UNION {{int.start_date, int.end_date - 1, int.end_date} :
              int \in {metadata.mappings[i].intervals[j] :
                         j \in 1..Len(metadata.mappings[i].intervals)}} :
              i \in 1..Len(metadata.mappings)}

\* TsSymbolMap knows an instrument on exactly the days some interval of the metadata
\* covers, first and last day included, whichever way round the metadata maps.
TsCoversIntervals ==
    ts_result = "ok" => \A d \in AllDays, iid \in {IidOf[s] : s \in DOMAIN IidOf} :
        <<d, iid>> \in DOMAIN ts_map <=> Mappings(d, iid) # {}

\* What the timeseries map holds for the date.
SliceOn(d) ==
    [iid \in {x[2] : x \in {y \in DOMAIN ts_map : y[1] = d}} |-> ts_map[<<d, iid>>]]

\* The two maps agree: the point-in-time map of a date is the timeseries map on that
\* date, overridden by what the live stream said last of an instrument, in whichever
\* layout and with or without ts_out its records came.
MapsAgree ==
    pc = "live" /\ ts_result = "ok" /\ pit_result = "ok" =>
        pit_map = InsertAll(latest, SliceOn(date))

\* A date is refused exactly when no instant of it is in the query range, a range that
\* ends at midnight included, unless a symbol cannot be parsed.
RefusedOutsideRange ==
    LET Instants == Midnight(date) .. Midnight(date + 1) - 1
        Queried  == \E t \in Instants : /\ metadata.start <= t
                                        /\ metadata.end # NONE => t < metadata.end
    IN  /\ pit_result = "ok" => Queried
        /\ pit_result = "err" /\ ts_result = "ok" => ~Queried
=============================================================================
