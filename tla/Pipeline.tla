------------------------------ MODULE Pipeline ------------------------------
(***************************************************************************)
(* What happens to data that goes through the tools: the dbn command       *)
(* writes a DBN file or a fragment, update_encoded_metadata of the Python  *)
(* bindings changes fields of the file in place, and a Transcoder reads it *)
(* as it is, in pieces.  The composition of modules DbnCli, MetadataCodec, *)
(* Encoders and Transcoder.                                                *)
(***************************************************************************)
EXTENDS DbnCli, Transcoder, Selection

CONSTANTS
    Updates,      \* arguments of update_encoded_metadata
    MaxUpdates    \* bound: how often a file is updated

ASSUME UpdatesAssumption ==
  Updates \subseteq [start : Nat, end : OptionalTime, limit : OptionalNum]

VARIABLES
    told,         \* the metadata that the file should have
    source,       \* of the file: [frag, version, ts_out, dbz], to tell the transcoder
    updates

vars == <<input, args, pc, status, meta, pos, count, enc, disk, pend, faulty,
          tc, stream, told, source, updates>>

NoSource == [frag |-> FALSE, version |-> 0, ts_out |-> FALSE, dbz |-> FALSE]

Init ==
  /\ CliInit
  /\ tc = NoTranscoder /\ stream = <<>>
  /\ told = NoMetadata /\ source = NoSource /\ updates = 0

Nothing == [none |-> TRUE]

IsRec(c)        == c.k = "rec"
RecordsIn(out)  == Selected(out, {i \in DOMAIN out : IsRec(out[i])})
MetadataIn(out) == Selected(out, {i \in DOMAIN out : ~IsRec(out[i])})

(* The process is gone and its file is left. *)
Leave ==
  /\ pc = "exit" /\ status = "ok" /\ ~faulty /\ infer_encoding = "Dbn"
  /\ args.output # "stdout"
  /\ pc' = "left"
  /\ LET dummy == input.kind = "frag" /\ ~IsFragment
     IN /\ told' = IF dummy THEN DummyMetadata ELSE IF IsFragment THEN NoMetadata ELSE meta
        /\ source' = [frag |-> IsFragment, dbz |-> input.kind = "dbz" /\ ~args.upgrade,
                      version |-> IF args.upgrade THEN CURRENT_VERSION ELSE input.version,
                      ts_out |-> ts_out]
  /\ input' = Nothing /\ args' = Nothing /\ status' = ""
  /\ meta' = NoMetadata /\ pos' = 0 /\ count' = 0 /\ enc' = NoEncoder
  /\ UNCHANGED <<disk, pend, faulty, tc, stream, updates>>

(* update_encoded_metadata: the version is the file's fourth byte. *)
UpdateEncodedMetadata(u) ==
  /\ pc = "left" /\ tc = NoTranscoder /\ ~source.frag /\ updates < MaxUpdates
  /\ disk' = update_encoded(disk, disk[2].v, u.start, u.end, u.limit)
  /\ told' = [told EXCEPT !.start = u.start, !.end = u.end, !.limit = u.limit]
  /\ updates' = updates + 1
  /\ UNCHANGED <<input, args, pc, status, meta, pos, count, enc, pend, faulty, tc, stream,
                 source>>

(* The options say of the file what it is. *)
Fit(o) ==
  /\ o.has_metadata = ~source.frag
  /\ o.has_metadata => ~o.ts_out /\ o.input_version = VU!NONE
  /\ ~o.has_metadata => /\ o.ts_out = source.ts_out
                        /\ o.input_version \in {VU!NONE, source.version}

StartTranscoder(o) ==
  /\ pc = "left" /\ tc = NoTranscoder /\ ~source.dbz /\ Fit(o)
  /\ \E fails \in BOOLEAN : \E t \in {New(o, fails)} :
       IF t.res = "ok" THEN tc' = t /\ UNCHANGED pc ELSE pc' = "refused" /\ UNCHANGED tc
  /\ stream' = (IF source.frag THEN <<>>
                ELSE << [k |-> "metadata", v |-> MetadataIn(disk)] >>) \o RecordsIn(disk)
  /\ UNCHANGED <<input, args, status, meta, pos, count, enc, disk, pend, faulty, told,
                 source, updates>>

Cli == CliNext /\ UNCHANGED <<tc, stream, told, source, updates>>

Transcode ==
  /\ (\E n \in WriteSizes : Write(n)) \/ Flush
  /\ UNCHANGED <<input, args, pc, status, meta, pos, count, enc, disk, pend, faulty, told,
                 source, updates>>

Next ==
  \/ Cli \/ Leave \/ Transcode
  \/ \E u \in Updates : UpdateEncodedMetadata(u)
  \/ \E o \in Options : StartTranscoder(o)

Spec == Init /\ [][Next]_vars

-----------------------------------------------------------------------------
(* What a file has, read the way the decoder reads it: as many bytes of    *)
(* metadata as the prelude says, and then records.                         *)
ReadFrom(b) ==
  IF Len(b) < 3 \/ ReadInt(Placed(b), 4, 4) # Bytes(b) - PRELUDE_LEN THEN [ok |-> FALSE]
  ELSE decode_after_prelude(b[2].v, b)

ReadFile(out) == ReadFrom(MetadataIn(out))

ReadsAs(out, m) == ReadFile(out) = [ok |-> TRUE, meta |-> m]

(* A DBN file that the command wrote, and whose start, end and limit were  *)
(* updated in place any number of times, reads as the metadata the command *)
(* had with those updates, and what a Transcoder writes of it in DBN reads *)
(* as that metadata upgraded.  Files made of DBZ files are left out: see   *)
(* DbzFilesConvert.                                                        *)
FilesReadBack ==
  pc = "left" /\ ~source.frag /\ ~source.dbz =>
    /\ ReadsAs(disk, told)
    /\ tc # NoTranscoder =>
         (tc.opts.encoding = "Dbn" /\ tc.done > 0 /\ ~tc.failed =>
            ReadsAs(tc.out, upgrade(told, tc.opts.upgrade_policy)))

(* "dbn 20221212.mbo.dbz -o 20221212.dbn.zst": a DBZ file that the command *)
(* converted to DBN reads back.                                            *)
DbzFilesConvert ==
  pc = "left" /\ source.dbz => ReadFile(disk).ok

-----------------------------------------------------------------------------
HasRow(x)  == x.k \in {"rec", "row", "object"}
RowId(x)   == IF x.k = "rec" THEN x.v.id ELSE x.id
Rows(out)  == {i \in DOMAIN out : HasRow(out[i])}
Ids(out)   == LET rows == Selected(out, Rows(out)) IN [i \in DOMAIN rows |-> RowId(rows[i])]
CutTo(s, n) == SubSeq(s, 1, IF n < Len(s) THEN n ELSE Len(s))

OfSchema == {k \in DOMAIN input.recs :
               args.schema = "None" \/ input.recs[k].rtype = RTypeOf(args.schema)}

Asked == LET all == Selected(input.recs, OfSchema)
         IN IF args.limit = None THEN all ELSE CutTo(all, args.limit)

Ended == pc = "exit" /\ status = "ok" /\ ~args.metadata

(* --schema and --limit together: the output is the first records of that  *)
(* schema, in order, however the filters of filter.rs are stacked and      *)
(* whatever the encoding.  Several fragments are left out, which main.rs   *)
(* does not filter.                                                        *)
FiltersHonoured ==
  Ended /\ ~faulty /\ ~(input.kind = "frag" /\ input.several) =>
    Ids(disk) = [i \in DOMAIN Asked |-> Asked[i].id]

(* A command that ends well has written everything, even when the output   *)
(* starts to fail under it.  This is left to encode_decoded's last flush:  *)
(* it does not hold of fragments and of --map-symbols, which do not flush, *)
(* nor of a pipe, whose errors are silenced.                               *)
OkMeansWritten ==
  /\ Ended /\ args.output # "stdout"
  /\ input.kind # "frag" /\ args.encoding # "fragment" /\ ~args.map_symbols
  => Ids(disk) = [i \in DOMAIN Asked |-> Asked[i].id]

OneType    == \A i, j \in DOMAIN Asked : Asked[i].rtype = Asked[j].rtype
IsText(x)  == x.k \in {"header", "row"}
SameColumns(out) ==
  \A i \in DOMAIN out : IsText(out[i]) => Columns(out[i]) = Columns(out[1])

(* The metadata has the version of the records. *)
TellsVersion == source.frag \/ told.version = source.version

(* Every row of a CSV has the columns of the header it stands under, for   *)
(* every DBN version, policy, send timestamp and symbol column, both in    *)
(* the command's files and from the Transcoder until one of its calls      *)
(* fails.  The command with --map-symbols on mixed schemas is left out: it *)
(* does not check the schema, and a row of a type that happens to have as  *)
(* many columns goes under the header of another.  Files that the command  *)
(* made of older fragments are left out too: their metadata is the dummy's,*)
(* of the current version, and the header goes by it.                      *)
RowsUnderHeader ==
  /\ Ended /\ input.kind # "frag" /\ (OneType \/ ~args.map_symbols) => SameColumns(disk)
  /\ tc # NoTranscoder /\ TellsVersion =>
       (tc.opts.encoding = "Csv" /\ tc.out # <<>> /\ ~tc.failed =>
          tc.out[1].k = "header" /\ SameColumns(tc.out))

(* A file that was there before keeps its contents as long as --force was  *)
(* not given, whatever fails and in whichever order.                       *)
ExistingFileKept ==
  [][pc # "left" /\ disk = OldContents /\ ~args.force => disk' = disk]_vars

-----------------------------------------------------------------------------
(* The code knows layouts by their lengths only: a record has the length   *)
(* that one of the types of its rtype has, with the send timestamp.        *)
WellSized(r, ts) ==
  r.rtype \in DOMAIN DispatchTypes =>
    \E i \in DOMAIN DispatchTypes[r.rtype] :
      record_size(r) = SizeOf(DispatchTypes[r.rtype][i]) + VU!TsOutLen(ts)

(* Whether the records of an input carry a send timestamp. *)
TsOutOf(i) == IF i.kind = "frag" THEN FRAG_TS_OUT ELSE Decoded(i).meta.ts_out

(* The inputs are such, which the decoder does not verify. *)
WellSizedInputs ==
  \A i \in Inputs : Decoded(i).ok =>
    \A k \in DOMAIN i.recs : i.recs[k] # BadRecord => WellSized(i.recs[k], TsOutOf(i))

Pieces == IF source.frag THEN 0 ELSE 1      \* items before the records

WantedBy(t, r) ==
  CASE t.opts.encoding = "Dbn"  -> TRUE
    [] t.opts.encoding = "Json" -> r.rtype \in DOMAIN RTypeConsts
    [] OTHER -> t.schema # "None" /\ r.rtype = RTypeOf(t.schema)

(* However the stream is cut into writes, whichever calls fail, and        *)
(* whenever the Python file does: the rows that the Transcoder has given to*)
(* its BufWriter are those of the records it consumed that its encoding and*)
(* schema take, once and in order, but for those whose write found the     *)
(* BufWriter full and the file failing.  A call that returned without an   *)
(* error has left no complete item.                                        *)
TranscodedExactly ==
  tc # NoTranscoder =>
    LET want == Selected(stream, {k \in Pieces + 1 .. tc.done : WantedBy(tc, stream[k].v)}
                                    \ tc.lost)
    IN /\ Ids(tc.out) = [i \in DOMAIN want |-> want[i].v.id]
       /\ tc.res = "ok" => 2 * tc.done + 1 >= tc.fed

(* To DBN and JSON a call loses at most one item to a failing file: the one*)
(* it stopped at, and it returns the error.  To CSV calls go on, and return*)
(* no error.                                                               *)
LossEndsCall ==
  [][tc # NoTranscoder /\ tc' # NoTranscoder =>
       (tc.opts.encoding # "Csv" /\ tc'.lost # tc.lost =>
          tc'.res = "err" /\ tc'.lost = tc.lost \cup {tc'.done})]_vars

(* The latest symbol that the stream gave an instrument by record k. *)
LatestSymbol(k) ==
  LET maps == {j \in Pieces + 1 .. k : /\ IsRec(stream[j])
                                       /\ stream[j].v.rtype = "SYMBOL_MAPPING"
                                       /\ stream[j].v.iid = stream[k].v.iid
                                       /\ IsAscii(stream[j].v.sym)}
  IN IF maps = {} THEN Unmapped
     ELSE stream[CHOOSE j \in maps : \A i \in maps : i <= j].v.sym

SymbolOf(k) ==
  IF ~tc.map_symbols THEN NoSymbol
  ELSE IF ~source.frag /\ told.schema = "None" THEN LatestSymbol(k)
  ELSE IF source.frag \/ ~is_empty(Historical(Given(tc.opts.symbol_interval_map)))
       THEN HistoricalSymbol(Given(tc.opts.symbol_interval_map), stream[k].v)
  ELSE HistoricalSymbol(told, stream[k].v)

(* A row names the instrument as the stream did when the record came: for  *)
(* live data by the latest mapping before it, which the Transcoder must    *)
(* have taken in although the mapping itself is not of the row's schema;   *)
(* for historical data by the user's map if that names any, or else the    *)
(* file's.                                                                 *)
SymbolsCurrent ==
  tc # NoTranscoder /\ ~tc.failed =>
    \A i \in DOMAIN tc.out : tc.out[i].k \in {"row", "object"} =>
      \E k \in DOMAIN stream : /\ IsRec(stream[k]) /\ stream[k].v.id = tc.out[i].id
                               /\ tc.out[i].sym = SymbolOf(k)

(* The unwrap of the schema in encode_csv is reached only by a user who    *)
(* goes on after an error, and never by one who stops there.               *)
PanicOnlyAfterError ==
  tc # NoTranscoder => (tc.res = "panic" => tc.failed)
=============================================================================
