----------------------------- MODULE Transcoder -----------------------------
(***************************************************************************)
(* The Python bindings' Transcoder (src/python/src/transcoder.rs).  Its    *)
(* user writes the bytes of a DBN stream to it in pieces of any size, and  *)
(* it writes what they decode to, in another encoding, to a Python file.   *)
(* Every write, and every flush, encodes all that is complete by then.     *)
(*                                                                         *)
(* The stream is a sequence of items, the metadata (the chunks of module   *)
(* MetadataCodec) and the records; each takes two pieces to arrive, so that*)
(* an item may be there in part.  How DbnFsm holds the bytes is module     *)
(* DbnFsm's matter.                                                        *)
(*                                                                         *)
(* The Python file may raise whenever it is called.  Between it and the    *)
(* encoders is a BufWriter, which keeps what the file has refused and tries*)
(* again later; its capacity is counted in chunks and lines.  A write that *)
(* raises has written nothing.                                             *)
(***************************************************************************)
EXTENDS Encoders

CONSTANTS
    Options,          \* the arguments a Transcoder is made with
    BUF_CAPACITY,     \* what the BufWriter holds
    WriteSizes,       \* bound: how many pieces a write may have
    MaxLost           \* bound: items that the output has no room for when the file fails

IsOptions(o) ==
  /\ o.encoding \in {"Dbn", "Csv", "Json"} /\ o.map_symbols \in {"None", "True", "False"}
  /\ {o.has_metadata, o.ts_out} \subseteq BOOLEAN
  /\ o.schema \in DOMAIN schema_dispatch_base \cup {"None"}
  /\ o.input_version \in VU!Versions \cup {VU!NONE}
  /\ o.upgrade_policy \in VU!Policies

ASSUME TranscoderAssumption ==
  /\ \A o \in Options : IsOptions(o)
  /\ BUF_CAPACITY \in Nat \ {0} /\ MaxLost \in Nat
  /\ WriteSizes \subseteq Nat \ {0}

VARIABLES
    tc,         \* the transcoder: the fields of Inner, and how its calls ended
    stream      \* the items that its user writes to it

NoTranscoder == [none |-> TRUE]

(* SymbolMap::Historical(TsSymbolMap) and SymbolMap::Live(PitSymbolMap).  A*)
(* map given by the user is by instrument ID, like an inverse metadata's.  *)
Historical(m) == [kind |-> "Historical", of |-> m]
Live(syms)    == [kind |-> "Live", syms |-> syms]
Given(map)    == [stype_in |-> "InstrumentId", stype_out |-> "RawSymbol", mappings |-> map]

is_empty(map) ==
  IF map.kind = "Live" THEN DOMAIN map.syms = {}
  ELSE \A n \in Names(map.of) : n.from = n.to

get_for_rec(map, r) ==
  IF map.kind = "Historical" THEN HistoricalSymbol(map.of, r)
  ELSE IF r.iid \in DOMAIN map.syms THEN map.syms[r.iid] ELSE Unmapped

(* PitSymbolMap::on_record, whose errors are ignored. *)
update_live(map, r) ==
  IF map.kind = "Live" /\ r.rtype = "SYMBOL_MAPPING" /\ IsAscii(r.sym)
  THEN Live([i \in DOMAIN map.syms \cup {r.iid} |->
               IF i = r.iid THEN r.sym ELSE map.syms[i]])
  ELSE map

-----------------------------------------------------------------------------
(* Fields of tc besides those of Inner and its DbnFsm: out is what the file*)
(* and the BufWriter have, of which the last held are in the BufWriter; fed*)
(* counts pieces, done the items consumed; lost has those that could not   *)
(* be written; res is the result of the last call, failed whether any call *)
(* returned an error.                                                      *)

Failing(t)  == [t EXCEPT !.res = "err", !.failed = TRUE]
Symbol(t)   == IF t.map_symbols THEN "symbol" ELSE NoSymbol
Written(t, e) == [t EXCEPT !.out = e.out, !.res = e.res, !.failed = @ \/ e.res = "err"]

(* A slip: without a schema there is no header, and no error. *)
header_if_schema(t) ==
  IF t.opts.encoding # "Csv" \/ t.schema = "None" THEN t
  ELSE IF t.version = VU!NONE THEN Failing(t)
  ELSE Written(t, encode_header_for_schema(Encoder("Csv", t.out),
                    VU!OutputVersion(t.opts.upgrade_policy, t.version), t.schema,
                    t.ts_out, Symbol(t)))

encode_header_if_csv(t) ==
  IF t.opts.encoding # "Csv" THEN t
  ELSE IF t.version = VU!NONE \/ t.schema = "None" THEN Failing(t)
  ELSE Written(t, encode_header_for_schema(Encoder("Csv", t.out),
                    VU!OutputVersion(t.opts.upgrade_policy, t.version), t.schema,
                    t.ts_out, Symbol(t)))

(* Transcoder::new and Inner::new.  The symbol map comes first, then what  *)
(* DBN does not take, then the builder of the DbnFsm.  The BufWriter is    *)
(* empty and has room for the header, which it keeps if the file fails.    *)
HeaderHeld(t, fails) == [t EXCEPT !.held = IF fails THEN Len(t.out) ELSE 0]

New(o, fails) ==
  LET t == [opts |-> o, map_symbols |-> o.map_symbols # "False",
            map |-> Historical(Given(o.symbol_interval_map)), schema |-> o.schema,
            version |-> o.input_version, ts_out |-> o.ts_out, out |-> <<>>,
            held |-> 0, fed |-> 0, done |-> 0, lost |-> {}, res |-> "ok", failed |-> FALSE]
  IN IF \/ \E n \in Names(Given(o.symbol_interval_map)) : Backwards(n)
        \/ o.encoding = "Dbn" /\ o.map_symbols = "True"
        \/ ~VU!ValidateCompatibility(o.upgrade_policy, o.input_version)
     THEN Failing(t)
     ELSE IF o.has_metadata THEN t ELSE HeaderHeld(encode_header_if_csv(t), fails)

-----------------------------------------------------------------------------
(* Inner::encode_metadata *)
WithMap(t, m) ==
  IF ~t.map_symbols THEN t
  ELSE IF m.schema = "None" THEN [t EXCEPT !.map = Live(<<>>)]
  ELSE IF ~is_empty(t.map) THEN t
  ELSE IF HasSymbolMap(m) THEN [t EXCEPT !.map = Historical(m)]
  ELSE Failing(t)

WithSchema(t, m) == [t EXCEPT !.schema = IF @ = "None" THEN m.schema ELSE @]

HeaderUnlessFailed(t) == IF t.res = "ok" THEN encode_header_if_csv(t) ELSE t

encode_metadata(t, m) ==
  IF t.opts.encoding = "Dbn"
  THEN Written(WithSchema(t, m), MetadataEncoder(t.out, encode(m)))
  ELSE HeaderUnlessFailed(WithMap(WithSchema(t, m), m))

(* DbnFsm::decode_prelude and decode_metadata: refused, the bytes stay. *)
PreludeRefused(chunks, policy) ==
  LET version == chunks[2].v
  IN \/ version > CURRENT_VERSION
     \/ ~VU!ValidateCompatibility(policy, version)
     \/ chunks[3].v < FIXED_LEN

MetadataRead(t, version, read) ==
  IF ~read.ok THEN Failing(t)
  ELSE encode_metadata([t EXCEPT !.version = version, !.ts_out = read.meta.ts_out,
                                 !.done = @ + 1], upgrade(read.meta, t.opts.upgrade_policy))

process_metadata(t, chunks) ==
  IF PreludeRefused(chunks, t.opts.upgrade_policy) THEN Failing(t)
  ELSE MetadataRead(t, chunks[2].v, decode_after_prelude(chunks[2].v, chunks))

OnRecord(t, r) == IF t.map_symbols THEN [t EXCEPT !.map = update_live(@, r)] ELSE t

(* A row or an object for r, with its symbol where there is a map. *)
encode_text(t, encoding, r) ==
  Written(t, IF t.map_symbols
             THEN encode_ref_ts_out_with_sym(Encoder(encoding, t.out), r, t.ts_out,
                                             get_for_rec(t.map, r))
             ELSE encode_record_ref_ts_out(Encoder(encoding, t.out), r, t.ts_out))

(* A slip: records of other schemas are dropped before the map is updated. *)
encode_csv_filter_first(t, r) ==
  IF r.rtype \notin DOMAIN RTypeConsts THEN t
  ELSE IF t.schema = "None" THEN [t EXCEPT !.res = "panic"]
  ELSE IF r.rtype # RTypeOf(t.schema) THEN t
  ELSE encode_text(OnRecord(t, r), "Csv", r)

(* Inner::encode_csv.  It unwraps the schema. *)
IfOfSchema(t, r) ==
  IF r.rtype \notin DOMAIN RTypeConsts THEN t
  ELSE IF t.schema = "None" THEN [t EXCEPT !.res = "panic"]
  ELSE IF r.rtype # RTypeOf(t.schema) THEN t
  ELSE encode_text(t, "Csv", r)

encode_csv(t, r) == IfOfSchema(OnRecord(t, r), r)

(* Inner::encode_json *)
encode_json(t, r) == encode_text(OnRecord(t, r), "Json", r)

encode_upgraded(t, r) ==
  CASE t.opts.encoding = "Dbn" -> Written(t, dbn_encode_record(Encoder("Dbn", t.out), r))
    [] t.opts.encoding = "Csv" -> encode_csv(t, r)
    [] OTHER -> encode_json(t, r)

process_upgraded(t, r, u) ==
  encode_upgraded([t EXCEPT !.done = @ + 1, !.version = u.version],
                  UpgradedBy(u, r, t.ts_out))

process_record(t, r) ==
  process_upgraded(t, r, UpgradeOf(r, t.version, t.opts.upgrade_policy))

(* The items of which every byte has been written. *)
Complete(fed) == fed \div 2

-----------------------------------------------------------------------------
(* The output.  x is t after an item was encoded, and fails whether the    *)
(* file raises when it is called meanwhile.                                *)
Added(t, x)   == Len(x.out) - Len(t.out)
HasRoom(t, x) == t.held + Added(t, x) <= BUF_CAPACITY

(* A slip: a buffer that the file refuses is emptied. *)
CutEmptied(t, x) ==
  [x EXCEPT !.out = SubSeq(@, 1, Len(t.out) - t.held), !.held = 0, !.lost = @ \cup {x.done}]

(* The file refuses the buffer when it is full: the rest of the item is not*)
(* written, now or later, for the DbnFsm has released it.                  *)
Cut(t, x) ==
  [x EXCEPT !.out = SubSeq(@, 1, Len(t.out) + BUF_CAPACITY - t.held), !.held = BUF_CAPACITY,
            !.lost = @ \cup {x.done}]

(* A slip: the error is noted for later, and the call goes on. *)
WriteAllDeferred(t, x, fails) ==
  IF HasRoom(t, x) THEN [x EXCEPT !.held = t.held + Added(t, x)]
  ELSE IF fails THEN [Cut(t, x) EXCEPT !.failed = TRUE]
  ELSE [x EXCEPT !.held = 1 + ((t.held + Added(t, x) - 1) % BUF_CAPACITY)]

(* BufWriter::write_all, from the encoders of DBN and JSON: a full buffer  *)
(* goes to the file first, whose error is returned.                        *)
WriteAll(t, x, fails) ==
  IF HasRoom(t, x) THEN [x EXCEPT !.held = t.held + Added(t, x)]
  ELSE IF fails THEN Failing(Cut(t, x))
  ELSE [x EXCEPT !.held = 1 + ((t.held + Added(t, x) - 1) % BUF_CAPACITY)]

(* A CsvEncoder is made for every line.  Dropped, its csv::Writer writes   *)
(* the line to the BufWriter and flushes that, and ignores both errors.    *)
DropCsv(t, x, fails) ==
  IF ~fails THEN [x EXCEPT !.held = 0]
  ELSE IF HasRoom(t, x) THEN [x EXCEPT !.held = t.held + Added(t, x)]
  ELSE Cut(t, x)

Output(t, x, fails) ==
  IF t.opts.encoding = "Csv" THEN DropCsv(t, x, fails) ELSE WriteAll(t, x, fails)

process(t, item) ==
  IF item.k = "metadata" THEN process_metadata(t, item.v) ELSE process_record(t, item.v)

(* A turn of the loop of Inner::encode: the next item, unless one failed. *)
Turn(t, item, fails) == IF t.res # "ok" THEN t ELSE Output(t, process(t, item), fails)

(* Inner::encode: until more is needed, or the first error.  The file fails*)
(* at the items in fails.                                                  *)
Inner_encode(t, fails) ==
  LET turns    == Complete(t.fed) - t.done
      after[i \in 0..turns] ==
        IF i = 0 THEN [t EXCEPT !.res = "ok"]
        ELSE Turn(after[i - 1], stream[t.done + i], t.done + i \in fails)
  IN after[turns]

-----------------------------------------------------------------------------
(* The calls.  A flush encodes what an earlier call has left, and then     *)
(* flushes the BufWriter and the file.  After a panic the mutex is         *)
(* poisoned, and every call panics.                                        *)

Usable == tc # NoTranscoder /\ tc.res # "panic"

Failures(fed) == SUBSET (tc.done + 1 .. Complete(fed))

Write(n) ==
  /\ Usable /\ tc.fed + n <= 2 * Len(stream)
  /\ \E fails \in Failures(tc.fed + n) :
       tc' = Inner_encode([tc EXCEPT !.fed = @ + n], fails)
  /\ Cardinality(tc'.lost) <= MaxLost
  /\ UNCHANGED stream

Flushed(t, fails) ==
  IF t.res # "ok" THEN t ELSE IF fails THEN Failing(t) ELSE [t EXCEPT !.held = 0]

Flush ==
  /\ Usable
  /\ \E fails \in Failures(tc.fed), flush_fails \in BOOLEAN :
       tc' = Flushed(Inner_encode(tc, fails), flush_fails)
  /\ Cardinality(tc'.lost) <= MaxLost
  /\ UNCHANGED stream
=============================================================================
