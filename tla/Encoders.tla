------------------------------ MODULE Encoders ------------------------------
(***************************************************************************)
(* The record encoders: what CsvEncoder, JsonEncoder, the DBN encoders and *)
(* DynEncoder write for a record, and the state they keep, which is only   *)
(* the CSV encoder's: whether a header was written, and in the csv crate's *)
(* writer the number of fields of the first line.                          *)
(*                                                                         *)
(* Output is a sequence of the chunks of encoded metadata, of records in   *)
(* DBN, and of lines of text.  A line has the type of record it was written*)
(* for, whether a column ts_out follows and whether a symbol follows; a    *)
(* line of the csv writer that was cut short has no line end.              *)
(***************************************************************************)
EXTENDS RecordText, RecordDispatch, MetadataCodec

(* A record as the tools carry it: its header, its place in the input, and *)
(* what the symbol maps look at.  The fields are those of module Records.  *)
Record(t, rtype, ts_out, id, iid, day, sym) ==
  [rtype |-> rtype, length |-> (IF ts_out THEN WithTsOutSize(t) ELSE SizeOf(t)) \div 4,
   id |-> id, iid |-> iid, day |-> day, sym |-> sym]

AnyRecord ==
  [rtype : Text, length : Nat, id : Nat, iid : Text, day : Date, sym : Text]

NoSymbol == "no symbol"     \* the column or member is not written
Unmapped == "unmapped"      \* written, without a value

Line(k, t, ts_out, id, sym) ==
  [k |-> k, ty |-> t, ts_out |-> ts_out, id |-> id, sym |-> sym]

Header(t, ts_out, sym) == Line("header", t, ts_out, 0, sym)

Columns(line) ==
  serialize_header(line.ty, line.ts_out)
    \o (IF line.sym = NoSymbol THEN <<>> ELSE Single("symbol"))

RecordChunk(r) == [n |-> record_size(r), k |-> "rec", v |-> r]
MetadataLine(m) == [k |-> "metadata", v |-> m]

-----------------------------------------------------------------------------
(* An encoder with what it has written since it was last looked at.        *)
Encoder(kind, out) ==
  [kind |-> kind, out |-> out, has_written_header |-> TRUE, width |-> None, res |-> "ok"]

Stopped(e, res) == [e EXCEPT !.res = res]
Put(e, x)      == [e EXCEPT !.out = Append(@, x)]

(* csv::Writer::write_record at the end of a line: every line must have    *)
(* as many fields as the first.  The fields stay in the writer's buffer.   *)
end_line_of(e, line, n) ==
  IF e.width \in {None, n} THEN [Put(e, line) EXCEPT !.width = n]
  ELSE Stopped(Put(e, [line EXCEPT !.k = "partial"]), "err")

end_line(e, line) == end_line_of(e, line, Len(Columns(line)))

(* CsvEncoder::encode_header *)
HeaderWritten(e) == [e EXCEPT !.has_written_header = @ \/ e.res = "ok"]

encode_header(e, t, ts_out, sym) == HeaderWritten(end_line(e, Header(t, ts_out, sym)))

(* A slip: the definitions of older versions get the current header. *)
HeaderTypeOfCurrent(version, schema) == schema_dispatch_base[schema]

HeaderType(version, schema) ==
  IF version < 3 /\ schema = "Definition" THEN "InstrumentDefMsgV2"
  ELSE schema_dispatch_base[schema]

encode_header_for_schema(e, version, schema, ts_out, sym) ==
  encode_header(e, HeaderType(version, schema), ts_out, sym)

(* EncoderBuilder::build: without a schema the first record decides. *)
csv_build(with_header, version, schema, ts_out, sym) ==
  LET e == Encoder("Csv", <<>>)
  IN IF ~with_header THEN e
     ELSE IF schema = "None" THEN [e EXCEPT !.has_written_header = FALSE]
     ELSE encode_header_for_schema(e, version, schema, ts_out, sym)

(* encode_record and encode_record_with_sym of a record of type t. *)
UnlessStopped(e, line) == IF e.res = "ok" THEN end_line(e, line) ELSE e

csv_encode_record(e, t, r, ts_out, sym) ==
  UnlessStopped(IF e.has_written_header THEN e ELSE encode_header(e, t, ts_out, sym),
                Line("row", t, ts_out, r.id, sym))

json_encode_record(e, t, r, ts_out, sym) == Put(e, Line("object", t, ts_out, r.id, sym))

dbn_encode_record(e, r) == Put(e, RecordChunk(r))

(* DynEncoderImpl::encode_record(_with_sym) on the type a dispatch found. *)
encode_record(e, t, r, ts_out, sym) ==
  IF t = Err THEN Stopped(e, "err")
  ELSE IF t = Panic THEN Stopped(e, "panic")
  ELSE CASE e.kind = "Csv"  -> csv_encode_record(e, t, r, ts_out, sym)
         [] e.kind = "Json" -> json_encode_record(e, t, r, ts_out, sym)
         [] OTHER -> dbn_encode_record(e, r)

(* encode_record_ref(_ts_out): DBN needs no type. *)
encode_record_ref_ts_out(e, r, ts_out) ==
  IF e.kind = "Dbn" THEN dbn_encode_record(e, r)
  ELSE encode_record(e, rtype_dispatch(r, ts_out), r, ts_out, NoSymbol)

encode_ref_ts_out_with_sym(e, r, ts_out, sym) ==
  encode_record(e, rtype_dispatch(r, ts_out), r, ts_out, sym)

(* The rtype of the records of a schema, by the name of its constant. *)
RTypeOf(schema) ==
  CHOOSE c \in DOMAIN RTypeConsts : RTypeConsts[c] = RTypeFromSchema[schema]

(* One turn of the loop of encode_decoded: CSV takes one schema only. *)
encode_decoded(e, meta, r) ==
  IF e.kind = "Csv" /\ r.rtype # RTypeOf(meta.schema) THEN Stopped(e, "err")
  ELSE encode_record_ref_ts_out(e, r, meta.ts_out)

(* A DBN encoder after the metadata m was written through it. *)
MetadataEncoder(out, m) ==
  Stopped(Encoder("Dbn", out \o m.bytes), IF m.ok THEN "ok" ELSE "err")

(* DynEncoderBuilder::build *)
DynEncoder_build(encoding, meta, with_header, sym) ==
  CASE encoding = "Csv" ->
         csv_build(with_header, meta.version, meta.schema, meta.ts_out, sym)
    [] encoding = "Json" -> Encoder("Json", <<>>)
    [] OTHER -> MetadataEncoder(<<>>, encode(meta))

-----------------------------------------------------------------------------
(* Upgrading a record while it is decoded: DbnFsm::upgrade_record.         *)
(* A type that is not converted is as long as MboMsg for all it matters.   *)
RecSizes ==
  LET converted == [INSTRUMENT_DEF |-> <<360, 400, 520>>, STATISTICS |-> <<64, 64, 80>>,
                    SYMBOL_MAPPING |-> <<80, 176, 176>>, ERROR |-> <<80, 320, 320>>,
                    SYSTEM |-> <<80, 320, 320>>]
  IN [rt \in DOMAIN converted \cup {"OTHER"} |->
        IF rt \in DOMAIN converted THEN converted[rt] ELSE <<56, 56, 56>>]

(* They are the sizes of the layouts. *)
ASSUME RecSizesAssumption ==
  LET OfTypes(v1, v2, v3) == <<SizeOf(v1), SizeOf(v2), SizeOf(v3)>>
  IN /\ RecSizes["INSTRUMENT_DEF"] =
          OfTypes("InstrumentDefMsgV1", "InstrumentDefMsgV2", "InstrumentDefMsg")
     /\ RecSizes["STATISTICS"] = OfTypes("StatMsgV1", "StatMsgV1", "StatMsg")
     /\ RecSizes["SYMBOL_MAPPING"] =
          OfTypes("SymbolMappingMsgV1", "SymbolMappingMsg", "SymbolMappingMsg")
     /\ RecSizes["ERROR"] = OfTypes("ErrorMsgV1", "ErrorMsg", "ErrorMsg")
     /\ RecSizes["SYSTEM"] = OfTypes("SystemMsgV1", "SystemMsg", "SystemMsg")
     /\ RecSizes["OTHER"] = OfTypes("MboMsg", "MboMsg", "MboMsg")

VU == INSTANCE VersionUpgrade WITH RecSize <- RecSizes, TS_OUT_LEN <- 8

UpgradeType(r) == IF r.rtype \in VU!RTypes THEN r.rtype ELSE "OTHER"

UpgradeOf(r, version, policy) ==
  VU!UpgradeRecord(version, policy, UpgradeType(r), record_size(r))

UpgradedBy(u, r, ts_out) ==
  IF u.to = 0 THEN r
  ELSE [r EXCEPT !.length = VU!UpgradedSize(u, UpgradeType(r), ts_out) \div 4]

Upgraded(r, version, policy, ts_out) ==
  UpgradedBy(UpgradeOf(r, version, policy), r, ts_out)

-----------------------------------------------------------------------------
(* Symbols.  TsSymbolMap::try_from fails unless one of the symbol types is *)
(* the instrument ID, the symbols of that type parse as one, and no interval*)
(* ends before it starts; an interval without a symbol is skipped.         *)
(* is_inverse: the raw symbols are the IDs.                                *)
IsId(s)       == s \in {"1", "2"}
IsInverse(m)  == m.stype_out # "InstrumentId"
DayNumber(d)  == d[1] * 10000 + d[2] * 100 + d[3]

Named(m, x, int) ==
  [iid    |-> IF IsInverse(m) THEN x.raw_symbol ELSE int.symbol,
   symbol |-> IF IsInverse(m) THEN int.symbol ELSE x.raw_symbol,
   from   |-> DayNumber(int.start_date),
   to     |-> DayNumber(int.end_date)]

(* The names of instruments, with the days they are for. *)
Names(m) ==
  UNION {{Named(m, x, int) : int \in {i \in ToSet(x.intervals) : i.symbol # ""}}
         : x \in ToSet(m.mappings)}

Backwards(name) == name.from > name.to

HasSymbolMap(m) ==
  /\ "InstrumentId" \in {m.stype_in, m.stype_out}
  /\ IsInverse(m) => \A x \in ToSet(m.mappings) : IsId(x.raw_symbol)
  /\ \A n \in Names(m) : IsId(n.iid) /\ ~Backwards(n)

SymbolFrom(found) == IF found = {} THEN Unmapped ELSE (CHOOSE n \in found : TRUE).symbol

(* The intervals of an instrument do not overlap here: see module SymbolMap. *)
HistoricalSymbol(m, r) ==
  SymbolFrom({n \in Names(m) : /\ n.iid = r.iid
                               /\ n.from <= DayNumber(r.day) /\ DayNumber(r.day) < n.to})
=============================================================================
