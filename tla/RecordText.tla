----------------------------- MODULE RecordText -----------------------------
(***************************************************************************)
(* What a record looks like outside of DBN: its CSV header and row, its    *)
(* JSON object, and the field lists and numpy dtypes of its Python class.  *)
(* A column is a field name, with the level for a field of a level.  A     *)
(* cell says which field it was read from and the text written for it.     *)
(***************************************************************************)
EXTENDS PyRecords

(* `{f}_{i:02}` for every level *)
LevelColumns(n, names) ==
  FlattenSeq([i \in 1..n |-> [j \in DOMAIN names |-> <<names[j], i - 1>>]])

NamesOf(fields) == [i \in DOMAIN fields |-> fields[i].name]

-----------------------------------------------------------------------------
(* The CSV header.                                                         *)
BidAskPairHeader == <<"bid_px", "ask_px", "bid_sz", "ask_sz", "bid_ct", "ask_ct">>
ConsolidatedBidAskPairHeader == <<"bid_px", "ask_px", "bid_sz", "ask_sz", "bid_pb", "ask_pb">>

Single(name) == << <<name>> >>

(* The derives show the visible fields in sorted order. *)
Shown(fields) == VisibleFields(get_sorted_fields(fields))
ShownHeader   == Shown(RecordHeader)
ShownFields   == [t \in RecordTypes |-> Shown(Structs[t])]

write_header(f) ==
  CASE f.ty = "RecordHeader" -> [i \in DOMAIN ShownHeader |-> <<ShownHeader[i].name>>]
    [] f.ty = "BidAskPair" -> LevelColumns(f.len, BidAskPairHeader)
    [] f.ty = "ConsolidatedBidAskPair" -> LevelColumns(f.len, ConsolidatedBidAskPairHeader)
    [] OTHER -> Single(f.name)

CsvHeader(shown) == FlattenSeq([i \in DOMAIN shown |-> write_header(shown[i])])

CsvHeaders == [t \in RecordTypes |-> CsvHeader(ShownFields[t])]

serialize_header(t, ts_out) == CsvHeaders[t] \o (IF ts_out THEN Single("ts_out") ELSE <<>>)

-----------------------------------------------------------------------------
(* Cells.  A price, a time or a character may be absent: an empty cell in  *)
(* CSV, null in JSON.  Without the pretty option numbers are always shown. *)
csv_write_px_field(px, pretty) == IF pretty /\ px = UNDEF_PRICE THEN "" ELSE px

(* A slip: the time 0 is shown in one of the two encodings. *)
csv_write_ts_field_or_zero(ts, pretty) ==
  IF pretty /\ ts = UNDEF_TIMESTAMP THEN "" ELSE ts

csv_write_ts_field(ts, pretty) == IF pretty /\ ts \in {"0", UNDEF_TIMESTAMP} THEN "" ELSE ts

(* std::ascii::escape_default; "high" is a byte above 127. *)
escape_default(c) == IF c = "high" THEN "\\xff" ELSE c
csv_write_c_char_field(c) == IF c = "NUL" THEN "" ELSE escape_default(c)

NULL == "null"
json_write_px_field(px, pretty) == IF pretty /\ px = UNDEF_PRICE THEN NULL ELSE px
json_write_ts_field(ts, pretty) == IF pretty /\ ts \in {"0", UNDEF_TIMESTAMP} THEN NULL ELSE ts
json_write_c_char_field(c) == IF c = "NUL" THEN NULL ELSE escape_default(c)

(* A text that cannot be read is written empty. *)
write_text_field(n, s) == IF c_chars_to_str(n, s) = Err THEN "" ELSE s

Cell(col, text) == [col |-> col, text |-> text]

csv_write_field(f, v, pretty) ==
  CASE f.attr = "unix_nanos"  -> csv_write_ts_field(v, pretty)
    [] f.attr = "fixed_price" -> csv_write_px_field(v, pretty)
    [] f.attr = "c_char"      -> csv_write_c_char_field(v)
    [] f.ty = "str"           -> write_text_field(f.len, v)
    [] OTHER -> v

json_write_field(f, v, pretty) ==
  CASE f.attr = "unix_nanos"  -> json_write_ts_field(v, pretty)
    [] f.attr = "fixed_price" -> json_write_px_field(v, pretty)
    [] f.attr = "c_char"      -> json_write_c_char_field(v)
    [] f.ty = "str"           -> write_text_field(f.len, v)
    [] OTHER -> v

(* The value of a field of a level: the default, or as given. *)
LevelValue(r, pair, n) ==
  IF r.val.levels # "default" THEN n
  ELSE IF pair = "BidAskPair" THEN BidAskPairDefault[n] ELSE ConsolidatedBidAskPairDefault[n]

(* A slip: cells grouped by side under a header ordered by field. *)
BidAskPairCellsBySide == <<"bid_px", "bid_sz", "bid_ct", "ask_px", "ask_sz", "ask_ct">>

BidAskPairCells == <<"bid_px", "ask_px", "bid_sz", "ask_sz", "bid_ct", "ask_ct">>
ConsolidatedBidAskPairCells == <<"bid_px", "ask_px", "bid_sz", "ask_sz", "bid_pb", "ask_pb">>

LevelCells(r, f, names, Price(_)) ==
  LET Text(n) == IF n \in {"bid_px", "ask_px"} THEN Price(LevelValue(r, f.ty, n))
                 ELSE LevelValue(r, f.ty, n)
      columns == LevelColumns(f.len, names)
  IN [i \in DOMAIN columns |-> Cell(columns[i], Text(columns[i][1]))]

HeaderValue(r, n) == IF n = "rtype" THEN r.rtype ELSE r.val[n]

-----------------------------------------------------------------------------
(* serialize_to: a CSV row.                                                *)
CsvHeaderCells(r, pretty) ==
  [i \in DOMAIN ShownHeader |->
    LET f == ShownHeader[i]
    IN Cell(<<f.name>>, csv_write_field(f, HeaderValue(r, f.name), pretty))]

CsvFieldCells(r, f, pretty) ==
  LET Price(px) == csv_write_px_field(px, pretty)
  IN CASE f.ty = "RecordHeader" -> CsvHeaderCells(r, pretty)
       [] f.ty = "BidAskPair" -> LevelCells(r, f, BidAskPairCells, Price)
       [] f.ty = "ConsolidatedBidAskPair" ->
            LevelCells(r, f, ConsolidatedBidAskPairCells, Price)
       [] OTHER -> << Cell(<<f.name>>, csv_write_field(f, r.val[f.name], pretty)) >>

CsvCells(r, shown, pretty) ==
  FlattenSeq([i \in DOMAIN shown |-> CsvFieldCells(r, shown[i], pretty)])

serialize_to(r, pretty) ==
  CsvCells(r, ShownFields[r.ty], pretty)
       \o (IF r.ts_out = NoTsOut THEN <<>>
           ELSE << Cell(<<"ts_out">>, csv_write_ts_field(r.ts_out, pretty)) >>)

-----------------------------------------------------------------------------
(* to_json: the members of the object, those of `hd` and `levels` in line. *)
JsonHeader(r, pretty) ==
  << Cell(<<"ts_event">>, json_write_ts_field(r.val.ts_event, pretty)),
     Cell(<<"rtype">>, r.rtype), Cell(<<"publisher_id">>, r.val.publisher_id),
     Cell(<<"instrument_id">>, r.val.instrument_id) >>

BidAskPairJson == <<"bid_px", "ask_px", "bid_sz", "ask_sz", "bid_ct", "ask_ct">>
ConsolidatedBidAskPairJson == <<"bid_px", "ask_px", "bid_sz", "ask_sz", "bid_pb", "ask_pb">>

JsonFieldCells(r, f, pretty) ==
  LET Price(px) == json_write_px_field(px, pretty)
  IN CASE f.ty = "RecordHeader" -> JsonHeader(r, pretty)
       [] f.ty = "BidAskPair" -> LevelCells(r, f, BidAskPairJson, Price)
       [] f.ty = "ConsolidatedBidAskPair" ->
            LevelCells(r, f, ConsolidatedBidAskPairJson, Price)
       [] OTHER -> << Cell(<<f.name>>, json_write_field(f, r.val[f.name], pretty)) >>

JsonCells(r, shown, pretty) ==
  FlattenSeq([i \in DOMAIN shown |-> JsonFieldCells(r, shown[i], pretty)])

to_json(r, pretty) ==
  JsonCells(r, ShownFields[r.ty], pretty)
       \o (IF r.ts_out = NoTsOut THEN <<>>
           ELSE << Cell(<<"ts_out">>, json_write_ts_field(r.ts_out, pretty)) >>)

-----------------------------------------------------------------------------
(* PyFieldDesc: the lists the Python classes give for data frames.         *)
append_level_suffix(n, names) == LevelColumns(n, names)

ordered_fields(f) ==
  CASE f.ty = "RecordHeader" -> [i \in DOMAIN ShownHeader |-> <<ShownHeader[i].name>>]
    [] f.ty \in DOMAIN PairStructs ->
         append_level_suffix(f.len, NamesOf(Shown(PairStructs[f.ty])))
    [] OTHER -> Single(f.name)

OrderedFields(shown) == FlattenSeq([i \in DOMAIN shown |-> ordered_fields(shown[i])])

PyOrderedFields == [t \in RecordTypes |-> OrderedFields(ShownFields[t])]

(* A dtype by its size: an integer "i8" has 8 bytes, a text "S22" has 22.  *)
ScalarDtype(f) ==
  CASE f.attr = "c_char" -> 1
    [] f.ty \in {"i64", "u64"} -> 8
    [] f.ty \in {"i32", "u32"} -> 4
    [] f.ty \in {"i16", "u16"} -> 2
    [] f.ty \in {"FlagSet", "SecurityUpdateAction", "UserDefinedInstrument"} -> 1
    [] f.ty \in {"i8", "u8", "str", "c_char"} -> f.len

ScalarDtypes(fields) == [i \in DOMAIN fields |-> <<fields[i].name, ScalarDtype(fields[i])>>]

field_dtypes(f) ==
  CASE f.ty = "RecordHeader" -> ScalarDtypes(RecordHeader)
    [] f.ty \in DOMAIN PairStructs ->
         FlattenSeq([i \in 1..f.len |-> ScalarDtypes(PairStructs[f.ty])])
    [] OTHER -> ScalarDtypes(<<f>>)

Dtypes(fields) == [i \in DOMAIN fields |-> field_dtypes(fields[i])]

PyDtypes == [t \in RecordTypes |-> Dtypes(Structs[t])]

(* Where numpy puts each field when the dtypes follow one another, and the *)
(* size of the row.                                                        *)
PackedOffsets ==
  LET Size(dtypes) == FoldLeft(LAMBDA sum, d : sum + d[2], 0, dtypes)
      Ends(dtypes) == [i \in 1..Len(dtypes) + 1 |-> Size(FlattenSeq(SubSeq(dtypes, 1, i - 1)))]
  IN [t \in RecordTypes |-> Ends(PyDtypes[t])]
=============================================================================
