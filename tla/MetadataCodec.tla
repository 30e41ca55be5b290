--------------------------- MODULE MetadataCodec ---------------------------
(***************************************************************************)
(* The metadata of a DBN stream and its encoding: MetadataEncoder,         *)
(* DbnFsm::decode_metadata_impl, Metadata::upgrade and the decoder of the  *)
(* legacy DBZ metadata.                                                    *)
(*                                                                         *)
(* Encoded bytes are a sequence of chunks, each with its width, its kind   *)
(* and its value.  A reader asks for so many bytes at a position: what it  *)
(* gets is the chunk that lies there, 0 where all the bytes are zero, and  *)
(* garbage when it reads across the chunks that were written.              *)
(***************************************************************************)
EXTENDS RecordEnums, SequencesExt

None    == -1            \* Option::None
Garbage == -2            \* what a misplaced read of a number gives

UNDEF_TS          == 2147483647     \* u64::MAX, and NULL_RECORD_COUNT
NULL_LIMIT        == 0
NULL_SCHEMA       == 65535
NULL_STYPE        == 255
CURRENT_VERSION   == 3              \* DBN_VERSION
DATASET_CSTR_LEN  == 16
RESERVED_LEN      == 53
RESERVED_LEN_V1   == 47
FIXED_LEN         == 100            \* METADATA_FIXED_LEN
PRELUDE_LEN       == 8

version_symbol_cstr_len(v) == IF v < 2 THEN 22 ELSE 71

(* Texts stand for themselves; two of them cannot be written everywhere. *)
LongText  == "a symbol of 22 letters"
OddText   == "caf\\xe9"
StrLen(s) == IF s = LongText THEN 22 ELSE 4
IsAscii(s) == s # OddText

U(n, v)  == [n |-> n, k |-> "int", v |-> v]
Cstr(n, s) == [n |-> n, k |-> "text", v |-> s]

(* How many bytes there are before each chunk, and before the end. *)
Starts(chunks) ==
  LET at[i \in 1..(Len(chunks) + 1)] == IF i = 1 THEN 0 ELSE at[i - 1] + chunks[i - 1].n
  IN at

Bytes(chunks) == Starts(chunks)[Len(chunks) + 1]

-----------------------------------------------------------------------------
(* A metadata has its fields under the names of the code, None for an      *)
(* absent one, and a date as <<year, month, day>>.  Symbols have the       *)
(* length of the first version until it is upgraded.                       *)

Text         == STRING \cup {""}
Date         == Nat \X (1..12) \X (1..31)
Interval     == [start_date : Date, end_date : Date, symbol : Text]
Mapping      == [raw_symbol : Text, intervals : Seq(Interval)]
OptionalTime == (Nat \ {0, UNDEF_TS}) \cup {None}
OptionalNum  == (Nat \ {0}) \cup {None}

Metadata ==
  {m \in [version : 0..CURRENT_VERSION, dataset : Text, schema : DOMAIN Schema \cup {"None"},
          stype_in : DOMAIN SType \cup {"None"}, stype_out : DOMAIN SType, start : Nat,
          end : OptionalTime, limit : OptionalNum, ts_out : BOOLEAN,
          symbol_cstr_len : Nat \ {0}, symbols : Seq(Text), partial : Seq(Text),
          not_found : Seq(Text), mappings : Seq(Mapping)] :
     m.version < 2 => m.symbol_cstr_len = version_symbol_cstr_len(1)}

-----------------------------------------------------------------------------
(* MetadataEncoder                                                         *)

calc_length(m) ==
  LET len    == m.symbol_cstr_len
      mapped[i \in 0..Len(m.mappings)] ==
        IF i = 0 THEN 0
        ELSE mapped[i - 1] + len + 4 + Len(m.mappings[i].intervals) * (2 * 4 + len)
      needed == FIXED_LEN + 5 * 4
                + (Len(m.symbols) + Len(m.partial) + Len(m.not_found)) * len
                + mapped[Len(m.mappings)]
      padding == IF m.version < 3 THEN 0 ELSE (8 - (needed % 8)) % 8
  IN [length |-> needed + padding, padding |-> padding]

encode_range_and_counts(version, start, end, limit) ==
  << U(8, start), U(8, IF end = None THEN UNDEF_TS ELSE end),
     U(8, IF limit = None THEN NULL_LIMIT ELSE limit) >>
    \o (IF version = 1 THEN << U(8, UNDEF_TS) >> ELSE <<>>)

encode_repeated_symbol_cstr(len, symbols) ==
  << U(4, Len(symbols)) >> \o [i \in DOMAIN symbols |-> Cstr(len, symbols[i])]

encode_date(d) == U(4, d[1] * 10000 + d[2] * 100 + d[3])

encode_symbol_mapping(len, m) ==
  << Cstr(len, m.raw_symbol), U(4, Len(m.intervals)) >>
    \o FlattenSeq([i \in DOMAIN m.intervals |->
         << encode_date(m.intervals[i].start_date), encode_date(m.intervals[i].end_date),
            Cstr(len, m.intervals[i].symbol) >>])

encode_symbol_mappings(len, mappings) ==
  << U(4, Len(mappings)) >>
    \o FlattenSeq([i \in DOMAIN mappings |-> encode_symbol_mapping(len, mappings[i])])

(* encode_fixed_len_cstr refuses a text before it writes anything of it. *)
Refused(c) == c.k = "text" /\ (~IsAscii(c.v) \/ StrLen(c.v) >= c.n)

Layout(m) ==
  LET len == m.symbol_cstr_len
  IN << U(1, IF m.version = 0 THEN 1 ELSE m.version), U(4, calc_length(m).length),
        Cstr(DATASET_CSTR_LEN, m.dataset),
        U(2, IF m.schema = "None" THEN NULL_SCHEMA ELSE Schema[m.schema]) >>
     \o encode_range_and_counts(m.version, m.start, m.end, m.limit)
     \o << U(1, IF m.stype_in = "None" THEN NULL_STYPE ELSE SType[m.stype_in]),
           U(1, SType[m.stype_out]), U(1, IF m.ts_out THEN 1 ELSE 0) >>
     \o (IF m.version > 1 THEN << U(2, len) >> ELSE <<>>)
     \o << U(IF m.version = 1 THEN RESERVED_LEN_V1 ELSE RESERVED_LEN, 0), U(4, 0) >>
     \o encode_repeated_symbol_cstr(len, m.symbols)
     \o encode_repeated_symbol_cstr(len, m.partial)
     \o encode_repeated_symbol_cstr(len, m.not_found)
     \o encode_symbol_mappings(len, m.mappings)
     \o (IF calc_length(m).padding = 0 THEN <<>> ELSE << U(calc_length(m).padding, 0) >>)

(* What encode has written, and whether it got to the end. *)
EncodedTo(prefix, body, bad) ==
  [ok |-> bad = {}, bytes |-> prefix \o SubSeq(body, 1, IF bad = {} THEN Len(body)
                                                       ELSE Min(bad) - 1)]

EncodedUntilRefused(prefix, body) ==
  EncodedTo(prefix, body, {i \in DOMAIN body : Refused(body[i])})

encode(m) ==
  IF m.version > CURRENT_VERSION THEN [ok |-> FALSE, bytes |-> << Cstr(3, "DBN") >>]
  ELSE EncodedUntilRefused(<< Cstr(3, "DBN") >>, Layout(m))

(* A slip: the schema before the start is forgotten. *)
SCHEMA_OFFSET == 8 + DATASET_CSTR_LEN

START_OFFSET == 8 + DATASET_CSTR_LEN + 2

-----------------------------------------------------------------------------
(* Reading at a position, counted from 0.                                  *)

(* The chunks with the position of their first byte. *)
Placed(chunks) ==
  [i \in DOMAIN chunks |-> [n |-> chunks[i].n, k |-> chunks[i].k, v |-> chunks[i].v,
                            at |-> Starts(chunks)[i]]]

Size(b) == IF b = <<>> THEN 0 ELSE b[Len(b)].at + b[Len(b)].n

Under(b, pos, n) == {i \in DOMAIN b : b[i].at < pos + n /\ pos < b[i].at + b[i].n}
IsZero(c)        == c.k = "int" /\ c.v = 0

Exactly(b, pos, n, k) == {i \in DOMAIN b : b[i].at = pos /\ b[i].n = n /\ b[i].k = k}

ReadInt(b, pos, n) ==
  LET exact == Exactly(b, pos, n, "int")
  IN IF exact # {} THEN b[CHOOSE i \in exact : TRUE].v
     ELSE IF pos + n <= Size(b) /\ \A i \in Under(b, pos, n) : IsZero(b[i]) THEN 0
     ELSE Garbage

(* The text without the null bytes that pad it. *)
ReadText(b, pos, n) ==
  LET exact == Exactly(b, pos, n, "text")
  IN IF exact # {} THEN b[CHOOSE i \in exact : TRUE].v
     ELSE IF \A i \in Under(b, pos, n) : IsZero(b[i]) THEN "" ELSE "garbage"

(* Writing over what is there: a chunk that is cut keeps its tail. *)
Overwrite(chunks, pos, new) ==
  LET b       == Placed(chunks)
      end     == pos + Bytes(new)
      before  == Cardinality({i \in DOMAIN b : b[i].at < pos})
      gone    == Cardinality({i \in DOMAIN b : b[i].at + b[i].n <= end})
      Left(c) == IF c.at >= end THEN [n |-> c.n, k |-> c.k, v |-> c.v]
                 ELSE U(c.at + c.n - end, IF IsZero(c) THEN 0 ELSE Garbage)
  IN SubSeq(chunks, 1, before) \o new \o [i \in 1..(Len(b) - gone) |-> Left(b[gone + i])]

update_encoded(bytes, version, start, end, limit) ==
  Overwrite(bytes, START_OFFSET, encode_range_and_counts(version, start, end, limit))
-----------------------------------------------------------------------------
(* DbnFsm::decode_metadata_impl, given the bytes after the prelude.  The   *)
(* parts that repeat carry the position and what was read so far; a count  *)
(* that is garbage is larger than any buffer.                              *)

Decoding(pos, res, ok) == [pos |-> pos, res |-> res, ok |-> ok]

decode_metadata_repeated_symbol_cstr(b, len, pos) ==
  LET count == ReadInt(b, pos, 4)
      fits  == count # Garbage /\ pos + 4 + count * len <= Size(b)
  IN IF pos + 4 <= Size(b) /\ fits
     THEN Decoding(pos + 4 + count * len,
                   [i \in 1..count |-> ReadText(b, pos + 4 + (i - 1) * len, len)], TRUE)
     ELSE Decoding(pos, <<>>, FALSE)

decode_iso8601(raw) ==
  << raw \div 10000, (raw % 10000) \div 100, raw % 100 >>

ValidDate(raw) ==
  raw # Garbage /\ decode_iso8601(raw)[2] \in 1..12 /\ decode_iso8601(raw)[3] \in 1..31

decode_metadata_symbol_mapping(b, len, pos) ==
  LET count  == ReadInt(b, pos + len, 4)
      first  == pos + len + 4
      width  == 2 * 4 + len
      fits   == first <= Size(b) /\ count # Garbage /\ first + count * width <= Size(b)
      At(i)  == first + (i - 1) * width
      valid  == \A i \in 1..count : \A j \in {0, 4} : ValidDate(ReadInt(b, At(i) + j, 4))
  IN IF fits /\ valid
     THEN Decoding(first + count * width,
            [raw_symbol |-> ReadText(b, pos, len),
             intervals  |-> [i \in 1..count |->
               [start_date |-> decode_iso8601(ReadInt(b, At(i), 4)),
                end_date   |-> decode_iso8601(ReadInt(b, At(i) + 4, 4)),
                symbol     |-> ReadText(b, At(i) + 8, len)]]], TRUE)
     ELSE Decoding(pos, <<>>, FALSE)

Then(st, one) ==
  IF ~st.ok \/ ~one.ok THEN Decoding(st.pos, st.res, FALSE)
  ELSE Decoding(one.pos, Append(st.res, one.res), TRUE)

NextMapping(b, len, st) == Then(st, decode_metadata_symbol_mapping(b, len, st.pos))

decode_metadata_symbol_mappings(b, len, pos) ==
  LET count == ReadInt(b, pos, 4)
      after[i \in 0..count] ==
        IF i = 0 THEN Decoding(pos + 4, <<>>, TRUE) ELSE NextMapping(b, len, after[i - 1])
  IN IF pos + 4 > Size(b) \/ count = Garbage THEN Decoding(pos, <<>>, FALSE)
     ELSE after[count]

decode_metadata_impl(version, buffer) ==
  LET b          == Placed(buffer)
      raw_schema == ReadInt(b, DATASET_CSTR_LEN, 2)
      range      == DATASET_CSTR_LEN + 2
      end        == ReadInt(b, range + 8, 8)
      limit      == ReadInt(b, range + 16, 8)
      stypes     == range + 24 + (IF version = 1 THEN 8 ELSE 0)
      raw_in     == ReadInt(b, stypes, 1)
      raw_out    == ReadInt(b, stypes + 1, 1)
      len        == IF version = 1 THEN version_symbol_cstr_len(1)
                    ELSE ReadInt(b, stypes + 3, 2)
      definition == stypes + 3 + (IF version = 1 THEN RESERVED_LEN_V1 ELSE 2 + RESERVED_LEN)
      symbols    == decode_metadata_repeated_symbol_cstr(b, len, definition + 4)
      partial    == decode_metadata_repeated_symbol_cstr(b, len, symbols.pos)
      not_found  == decode_metadata_repeated_symbol_cstr(b, len, partial.pos)
      mappings   == decode_metadata_symbol_mappings(b, len, not_found.pos)
      readable   == /\ raw_schema = NULL_SCHEMA \/ try_from(Schema, raw_schema) # "Err"
                    /\ raw_in = NULL_STYPE \/ try_from(SType, raw_in) # "Err"
                    /\ try_from(SType, raw_out) # "Err"
                    /\ ReadInt(b, definition, 4) = 0
                    /\ symbols.ok /\ partial.ok /\ not_found.ok /\ mappings.ok
  IN IF ~readable THEN [ok |-> FALSE]
     ELSE [ok |-> TRUE, meta |->
       [version |-> version, dataset |-> ReadText(b, 0, DATASET_CSTR_LEN),
        schema |-> IF raw_schema = NULL_SCHEMA THEN "None" ELSE try_from(Schema, raw_schema),
        stype_in |-> IF raw_in = NULL_STYPE THEN "None" ELSE try_from(SType, raw_in),
        stype_out |-> try_from(SType, raw_out), start |-> ReadInt(b, range, 8),
        end |-> IF end \in {UNDEF_TS, 0} THEN None ELSE end,
        limit |-> IF limit = 0 THEN None ELSE limit,
        ts_out |-> ReadInt(b, stypes + 2, 1) # 0, symbol_cstr_len |-> len,
        symbols |-> symbols.res, partial |-> partial.res, not_found |-> not_found.res,
        mappings |-> mappings.res]]

(* All the bytes of the metadata, of which three chunks are the prelude. *)
decode_after_prelude(version, bytes) ==
  decode_metadata_impl(version, SubSeq(bytes, 4, Len(bytes)))

-----------------------------------------------------------------------------
(* dbz::MetadataDecoder::decode: what a DBZ file says, in a metadata of    *)
(* version 0.  Here an undefined end is not told from any other.           *)
dbz_decode(f) ==
  [version |-> 0, dataset |-> f.dataset, schema |-> f.schema, stype_in |-> f.stype_in,
   stype_out |-> f.stype_out, start |-> f.start, end |-> IF f.end = 0 THEN None ELSE f.end,
   limit |-> IF f.limit = 0 THEN None ELSE f.limit, ts_out |-> FALSE,
   symbol_cstr_len |-> version_symbol_cstr_len(1), symbols |-> f.symbols,
   partial |-> f.partial, not_found |-> f.not_found, mappings |-> f.mappings]

(* Metadata::upgrade *)
upgrade(m, policy) ==
  LET to == IF policy = "UpgradeToV2" THEN 2 ELSE 3
  IN IF m.version < 2 /\ policy = "AsIs" THEN [m EXCEPT !.symbol_cstr_len = 22]
     ELSE IF m.version < 2
          THEN [m EXCEPT !.version = to, !.symbol_cstr_len = version_symbol_cstr_len(to)]
     ELSE IF m.version = 2 /\ policy = "UpgradeToV3" THEN [m EXCEPT !.version = 3]
     ELSE m
=============================================================================
