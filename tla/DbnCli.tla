------------------------------- MODULE DbnCli -------------------------------
(***************************************************************************)
(* The dbn command: main.rs, encode.rs, filter.rs and lib.rs.  It opens    *)
(* its input, puts the schema and the limit filter in front of the decoder,*)
(* opens its output, builds an encoder and encodes record by record.  The  *)
(* output goes through a buffer, which is written out when it is full, when*)
(* it is flushed and when it is dropped; the file or the pipe behind it may*)
(* start to fail at any time.                                              *)
(*                                                                         *)
(* Several inputs are one input here, with the metadata and the records    *)
(* that MergeDecoder makes of them (modules MergeDecoder, MetadataMerge).  *)
(* Compression changes no record and is left out.                          *)
(***************************************************************************)
EXTENDS Encoders

CONSTANTS
    Inputs,     \* what there is to read: see IsInput
    Args        \* the command lines that clap accepts: see IsArgs

(* kind is what the first bytes look like: "dbn" (compressed or not), "dbz"*)
(* or "other"; for a "frag" nobody looks.  A record is BadRecord where the *)
(* decoder finds a header it refuses.                                      *)
BadRecord == [rtype |-> "bad", id |-> 0]

IsInput(i) ==
  /\ i.kind \in {"dbn", "dbz", "frag", "other"} /\ i.several \in BOOLEAN
  /\ i.version \in 1..CURRENT_VERSION    \* of the records: DBZ has those of version 1
  /\ i.recs \in Seq(AnyRecord \cup {BadRecord})
  /\ \A k \in DOMAIN i.recs : i.recs[k] # BadRecord => i.recs[k].id = k
  /\ i.kind = "dbn" => /\ i.meta \in Metadata /\ i.meta.version = i.version
                       /\ encode(i.meta).ok
  /\ i.kind = "dbz" => dbz_decode(i.meta) \in Metadata

(* clap's groups and conflicts_with_all. *)
IsArgs(a) ==
  /\ a.encoding \in {"json", "csv", "tsv", "dbn", "fragment", "infer"}
  /\ a.output \in {"stdout", ".dbn", ".csv", ".tsv", ".json", ".frag", ".pb"}
  /\ {a.force, a.upgrade, a.metadata, a.map_symbols, a.write_header, a.input_fragment}
        \subseteq BOOLEAN
  /\ a.limit \in OptionalNum /\ a.schema \in DOMAIN Schema \cup {"None"}
  /\ a.metadata => a.encoding \notin {"csv", "dbn", "fragment"} /\ ~a.input_fragment
  /\ a.map_symbols => a.encoding \notin {"dbn", "fragment"} /\ ~a.input_fragment
  /\ a.input_fragment => a.encoding # "dbn"
  /\ ~a.write_header => a.encoding \notin {"json", "dbn", "fragment"}

ASSUME CliAssumption ==
  /\ \A i \in Inputs : IsInput(i)
  /\ \A a \in Args : IsArgs(a)

VARIABLES
    input, args,
    pc,         \* "open", "encode", "run" or "exit"
    status,     \* how the command ended: "", "ok", "err" or "panic"
    meta,       \* the decoder's metadata, as the filters changed it
    pos,        \* the input records decoded so far
    count,      \* LimitFilter.record_count
    enc,        \* the encoder
    disk,       \* what the output file has, or what the reader of the pipe got
    pend,       \* what is in the buffer
    faulty      \* writing fails from now on

cliVars == <<input, args, pc, status, meta, pos, count, enc, disk, pend, faulty>>

OldContents == << [k |-> "old"] >>
NoMetadata  == [none |-> TRUE]
NoEncoder   == Encoder("none", <<>>)

CliInit ==
  /\ input \in Inputs /\ args \in Args
  /\ args.input_fragment = (input.kind = "frag")
  /\ pc = "open" /\ status = "" /\ meta = NoMetadata /\ pos = 0 /\ count = 0
  /\ enc = NoEncoder /\ pend = <<>> /\ faulty = FALSE
  /\ disk \in IF args.output = "stdout" THEN {<<>>} ELSE {<<>>, OldContents}

(* A buffer that is dropped is written out, and an error is lost then. *)
Exit(how, unwritten) ==
  /\ pc' = "exit" /\ status' = how
  /\ disk' = IF faulty THEN disk ELSE disk \o unwritten
  /\ pend' = <<>>

(* silence_broken_pipe: an error of the pipe is a success. *)
WriteFails == Exit(IF args.output = "stdout" THEN "ok" ELSE "err", <<>>)

-----------------------------------------------------------------------------
(* Opening the input: DynDecoder::inferred_with_buffer, wrap and decode_frag.*)

upgrade_policy == IF args.upgrade THEN "UpgradeToV3" ELSE "AsIs"

(* The metadata of the decoder, from the file's bytes. *)
Decoded(i) ==
  CASE i.kind = "dbz" -> [ok |-> TRUE, meta |-> dbz_decode(i.meta)]
    [] i.kind = "dbn" -> decode_after_prelude(i.version, encode(i.meta).bytes)
    [] OTHER -> [ok |-> i.kind = "frag", meta |-> NoMetadata]

FilteredLimit(m, limit) ==
  IF limit = None THEN m.limit
  ELSE IF m.limit = None \/ limit < m.limit THEN limit ELSE m.limit

(* SchemaFilter::new and LimitFilter::new *)
wrap(m) ==
  [m EXCEPT !.schema = IF args.schema = "None" THEN @ ELSE args.schema,
            !.limit  = FilteredLimit(m, args.limit)]

OpenFails ==
  /\ pc = "open" /\ ~Decoded(input).ok
  /\ Exit("err", <<>>)
  /\ UNCHANGED <<input, args, meta, pos, count, enc, faulty>>

OpenInput ==
  /\ pc = "open"
  /\ \E d \in {Decoded(input)} :
       /\ d.ok
       /\ meta' = IF input.kind = "frag" THEN NoMetadata
                  ELSE wrap(upgrade(d.meta, upgrade_policy))
  /\ pc' = "encode"
  /\ UNCHANGED <<input, args, status, pos, count, enc, disk, pend, faulty>>

-----------------------------------------------------------------------------
(* encode_from_dbn and encode_from_frag up to their loop.                  *)

ByExtension ==
  CASE args.output = ".dbn" -> "Dbn"
    [] args.output \in {".csv", ".tsv"} -> "Csv"
    [] args.output = ".json" -> "Json"
    [] OTHER -> "unknown"

infer_encoding ==
  CASE args.encoding \in {"dbn", "fragment"} -> "Dbn"
    [] args.encoding \in {"csv", "tsv"} -> "Csv"
    [] args.encoding = "json" -> "Json"
    [] args.encoding = "infer" -> ByExtension

(* A slip: the file is opened to be overwritten either way. *)
NeverRefused == FALSE

OutputRefused == disk = OldContents /\ ~args.force

OutputExists ==
  /\ pc = "encode" /\ OutputRefused
  /\ Exit("err", <<>>)
  /\ UNCHANGED <<input, args, meta, pos, count, enc, faulty>>

(* From here on the output file is open, and empty. *)
Opened == pc = "encode" /\ ~OutputRefused

NotInferred ==
  /\ Opened
  /\ \/ infer_encoding = "unknown"
     \/ args.metadata /\ infer_encoding # "Json"
  /\ pc' = "exit" /\ status' = "err" /\ disk' = <<>>
  /\ UNCHANGED <<input, args, meta, pos, count, enc, pend, faulty>>

(* json::Encoder::encode_metadata, which flushes. *)
EncodeMetadata ==
  /\ Opened /\ args.metadata /\ infer_encoding = "Json"
  /\ pc' = "exit"
  /\ status' = IF ~faulty \/ args.output = "stdout" THEN "ok" ELSE "err"
  /\ disk' = IF faulty THEN <<>> ELSE << MetadataLine(meta) >>
  /\ UNCHANGED <<input, args, meta, pos, count, enc, pend, faulty>>

(* The metadata of encode_from_frag's encoder. *)
DummyMetadata ==
  [version |-> CURRENT_VERSION, dataset |-> "", schema |-> "None", stype_in |-> "None",
   stype_out |-> "InstrumentId", start |-> 0, end |-> None, limit |-> None,
   ts_out |-> FALSE, symbol_cstr_len |-> 71, symbols |-> <<>>, partial |-> <<>>,
   not_found |-> <<>>, mappings |-> <<>>]

IsFragment == args.encoding = "fragment"

WithSymbol == IF args.map_symbols THEN "symbol" ELSE NoSymbol

(* A fragment's header waits for the type of the first record. *)
LateHeader(e) ==
  [e EXCEPT !.has_written_header = infer_encoding # "Csv" \/ ~args.write_header]

NewEncoder ==
  IF IsFragment THEN Encoder("Dbn", <<>>)
  ELSE IF input.kind = "frag"
       THEN LateHeader(DynEncoder_build(infer_encoding, DummyMetadata, FALSE, NoSymbol))
  ELSE DynEncoder_build(infer_encoding, meta, args.write_header, WithSymbol)

(* What fails once the encoder is there: symbol_map() for --map-symbols,   *)
(* and a CSV of mixed schemas.                                             *)
NotStarted(e) ==
  /\ input.kind # "frag" /\ ~IsFragment
  /\ \/ e.res # "ok"
     \/ args.map_symbols /\ ~HasSymbolMap(meta)
     \/ ~args.map_symbols /\ e.kind = "Csv" /\ meta.schema = "None"

Build ==
  /\ Opened /\ ~args.metadata /\ infer_encoding # "unknown"
  /\ \E e \in {NewEncoder} :
       /\ enc' = [e EXCEPT !.out = <<>>]
       /\ IF NotStarted(e)
          THEN /\ pc' = "exit" /\ status' = "err" /\ pend' = <<>>
               /\ disk' = IF faulty THEN <<>> ELSE e.out
          ELSE pc' = "run" /\ pend' = e.out /\ disk' = <<>> /\ UNCHANGED status
  /\ UNCHANGED <<input, args, meta, pos, count, faulty>>

-----------------------------------------------------------------------------
(* The loops.                                                              *)

FRAG_TS_OUT == FALSE
ts_out      == IF input.kind = "frag" THEN FRAG_TS_OUT ELSE meta.ts_out

(* The filters are not put in front of several fragments. *)
Filtered == ~(input.several /\ input.kind = "frag")

(* A slip: a limit of n lets record n + 1 through. *)
LimitPassed == args.limit # None /\ count > args.limit

LimitReached == args.limit # None /\ count >= args.limit

(* SchemaFilter compares the raw rtype. *)
Passes(r) == args.schema = "None" \/ ~Filtered \/ r.rtype = RTypeOf(args.schema)

(* The first record from pos on that is not skipped, or an error. *)
Candidates == {k \in pos + 1 .. Len(input.recs) :
                 input.recs[k] = BadRecord \/ Passes(input.recs[k])}
NextAt     == CHOOSE k \in Candidates : \A j \in Candidates : k <= j

NoMore == Candidates = {} \/ (Filtered /\ LimitReached)

EncodeOne(r) ==
  IF IsFragment THEN dbn_encode_record(enc, r)
  ELSE IF input.kind = "frag" THEN encode_record_ref_ts_out(enc, r, FALSE)
  ELSE IF args.map_symbols
       THEN encode_ref_ts_out_with_sym(enc, r, meta.ts_out, HistoricalSymbol(meta, r))
  ELSE encode_decoded(enc, meta, r)

EncodeNext ==
  /\ pc = "run" /\ ~NoMore
  /\ pos' = NextAt /\ count' = count + 1
  /\ input.recs[pos'] # BadRecord
  /\ \E e \in {EncodeOne(Upgraded(input.recs[pos'], input.version, upgrade_policy, ts_out))} :
       /\ enc' = [e EXCEPT !.out = <<>>]
       /\ IF e.res = "ok" THEN pend' = pend \o e.out /\ UNCHANGED <<pc, status, disk>>
          ELSE Exit(e.res, pend \o e.out)
  /\ UNCHANGED <<input, args, meta, faulty>>

DecodeFails ==
  /\ pc = "run" /\ ~NoMore
  /\ input.recs[NextAt] = BadRecord
  /\ Exit("err", pend)
  /\ UNCHANGED <<input, args, meta, pos, count, enc, faulty>>

(* The buffer is full. *)
Spill ==
  /\ pc = "run" /\ pend # <<>>
  /\ IF faulty THEN WriteFails
     ELSE disk' = disk \o pend /\ pend' = <<>> /\ UNCHANGED <<pc, status>>
  /\ UNCHANGED <<input, args, meta, pos, count, enc, faulty>>

(* A slip: the buffer is left to be written out when it is dropped. *)
NeverFlushes == FALSE

(* Only encode_decoded flushes before it returns. *)
Flushes == input.kind # "frag" /\ ~IsFragment /\ ~args.map_symbols

Finish ==
  /\ pc = "run" /\ NoMore
  /\ IF Flushes /\ faulty /\ pend # <<>> THEN WriteFails ELSE Exit("ok", pend)
  /\ UNCHANGED <<input, args, meta, pos, count, enc, faulty>>

(* The disk is full, or the reader of the pipe has gone. *)
SinkFails ==
  /\ pc \in {"encode", "run"} /\ ~faulty
  /\ faulty' = TRUE
  /\ UNCHANGED <<input, args, pc, status, meta, pos, count, enc, disk, pend>>

CliNext ==
  \/ OpenFails \/ OpenInput \/ OutputExists \/ NotInferred \/ EncodeMetadata \/ Build
  \/ EncodeNext \/ DecodeFails \/ Spill \/ Finish \/ SinkFails
=============================================================================
