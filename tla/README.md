# A TLA+ model of DBN: decoding, merging, records and tools

DBN (Databento Binary Encoding) is a binary format for market data: a prelude
(prefix, version, length), metadata, and then records of varying length. This
directory models what this repository does with it: the Rust crate `dbn` that turns
bytes into records, several streams into one and records into text; the record
types, enums and their Python classes; the metadata codec and the symbol maps; the
`dbn` command; and the Python `Transcoder`. It checks the models with TLC on small
instances and proves with TLAPS, for instances of any size, the invariants of the
decoding state machine, that the decoders and the merging decoder keep their promises,
what merging metadata and building symbol maps guarantee, that metadata is read back as it
was written, and what the command and the `Transcoder` write.

## Inventory

| Component | State | Operations | Interacts with | What is hard |
|---|---|---|---|---|
| `DbnFsm` (`decode/dbn/fsm.rs`) | state, input buffer, compat buffer, version, policy, `ts_out` | `space`/`fill`, `write_all`, `process`, `process_all`, `process_many`, `skip`, `reset`, setters | driven by every decoder, the Python bindings and the CLI; owns two `oval::Buffer`s | a record is released only by the *next* call; two ways of using the compat buffer; growth; version detection |
| Version upgrades (`enums/methods.rs`, `fsm.rs`) | none | which record type is converted from which layout | called for every record | detection from sizes, `ts_out` changes sizes |
| DBN decoders (`decode/dbn/sync.rs`, `async.rs`) | reader and FSM | `decode` (metadata), `decode_ref`, `skip_bytes` | FSM, a reader | short reads, failing reads, dropped futures, early end of input |
| Merging decoder (`decode/merge.rs`) | decoders, heap of heads, `is_first` | `new`, `with_hints`, `decode_record_ref` | inner decoders through `decode_record_ref`, `last_record` | heads are popped one call late; hints; failing inner decoder |
| Metadata merger (`metadata/merge.rs`) | the metadata merged so far | `merge`, `finalize` | used by the merging decoder | interval lists merged with two cursors, conflicts |
| Metadata codec (`fsm.rs` 516-727, `encode/dbn/*`, `dbz.rs`) | none | encode, length, `update_encoded`, decode, upgrade | FSM, encoders, the Python function that updates a file in place | layout differs by version, and a writer and a reader agree only by position; alignment padding |
| Symbol maps (`symbol_map.rs`) | maps from (date, instrument) to symbol | build from metadata, update on record, look up | metadata, symbol mapping records | interval bounds, inverse mappings, point-in-time restriction |
| Encoders (`encode/*`) | writer, header flags | header, record, record with symbol, flush | decoders, CLI, `Transcoder` | when a header is written and for which version; one schema per CSV |
| Dynamic decoders (`dyn_decoder.rs`, `dyn_reader.rs`, `dbz.rs`, `stream.rs`) | inner decoder | detect, decode, iterate | all decoders | detection from few bytes, lifetimes in `StreamIterDecoder` |
| CLI (`rust/dbn-cli`) | input, filters, encoder, buffered output | one run, from opening the input to the exit | decoders, filters, encoders, files and pipes | order of filters, output that fails after it was buffered, what is checked before a file is truncated |
| Python `Transcoder` (`python/src/transcoder.rs`) | FSM, schema, symbol map, output | `write`, `flush` | FSM, encoders | input in pieces, errors in the middle and a user who goes on, a Python file that raises, live symbol mappings |
| Records and enums (`record.rs`, `record/*`, `enums.rs`, `v1.rs`, `v2.rs`, `compat.rs`, the macros, `python/record.rs`, `python/enums.rs`) | one record | constructors, Python setters, conversions, `WithTsOut`, dispatch, texts | everything | the same field list is written by hand in a dozen places, in several orders |
| `DBNDecoder` (Python), C bindings, proto, publishers, flags | a buffer, or none | | FSM | |

What makes them correct: each record is handed out once, in order and in the
layout the policy promises, wherever the input is cut; nothing is dereferenced
that is not in a buffer; a request to read more can be satisfied; the decoders
recover from failures; merging is by timestamp and loses nothing without an
error; merged metadata says what its inputs say; a record means the same in Rust, in
Python and as a text, before and after it is converted; a file that was written
reads back; a command that ends well has written what was asked for, once, under the
right header and symbol. `PROJECT.json` lists the hazards line by line.

## Modules

| Module | Models |
|---|---|
| `OvalBuffer` | the cursors of `oval::Buffer` (an external crate), from how `fsm.rs` uses it |
| `VersionUpgrade` | policies, `upgrade_record*`: a layout is a record type at a version, and only its size is kept |
| `DbnFsm` | the state machine; every turn of a loop of `process` or `process_multiple` is an action, `call` says which loop runs |
| `RecordStream` | abstract: what a decoder promises its caller |
| `DbnDecoder` | extends `DbnFsm` with the sync and async decoders, the reader and its faults; implements `RecordStream` |
| `MergedStreams` | abstract: what merging promises |
| `MergeDecoder` | the merging decoder over inner decoders that keep `RecordStream`'s promise; implements `MergedStreams` |
| `MetadataMerge` | `MetadataMerger`, each turn of `merge_intervals` an action |
| `SymbolMap` | `TsSymbolMap` and `PitSymbolMap` built from one metadata, and the updates of the latter by live records |
| `RecordLayouts` | the record structs as tables: the fields, their types and attributes, the sizes and offsets `repr(C)` gives them, the orders the macros derive |
| `RecordEnums` | the enums: values, texts, conversions; schema and rtype; how the Python enum classes parse |
| `RecordDefaults` | `Default`, the Rust constructors, the conversions of `v1`, `v2`, `v3` and `compat.rs`, `WithTsOut` |
| `RecordAccess`, `PyRecords` | reading a field through the Rust methods; the Python classes: constructors, properties, `pretty_` ones, setters, dtypes |
| `RecordDispatch` | from rtype and length to a type: `rtype_dispatch!`, `RecordRef::get`, `RecordRefEnum`, `schema_dispatch!` |
| `RecordText` | what a field becomes in CSV, in JSON and as a numpy dtype |
| `Records` | the life of one record, and of one parsed enum; composes the six modules above, and is its own run module |
| `MetadataCodec` | `Metadata` to bytes and back for versions 0 to 3, `update_encoded`, `Metadata::upgrade`, DBZ metadata |
| `Encoders` | the CSV, JSON and DBN encoders and `DynEncoder`; the record sizes it gives `VersionUpgrade` are assumed, and evaluated by TLC, to be those of `RecordLayouts` |
| `DbnCli` | a run of the `dbn` command |
| `Transcoder` | the Python `Transcoder` |
| `Selection` | the elements of a sequence at some of its positions, defined by counting so that it can be reasoned about |
| `Pipeline` | composes the four: the command writes a file, its metadata is updated in place, a `Transcoder` reads it |
| `SampleStreams`, `MC*` | streams and inputs for TLC |
| `DbnFsmProofs`, `DbnDecoderProofs`, `MergeDecoderProofs`, `MetadataMergeProofs`, `SymbolMapProofs`, `MetadataCodecProofs`, `PipelineProofs`, `TranscoderProofs` | theorems, about the module of that name (`PipelineProofs`: the command; `TranscoderProofs`: files and the `Transcoder`, in `Pipeline`) |

### From bytes to numbers

`DbnFsm` does not model bytes. The variable `stream` describes the whole input (has
it metadata, does the metadata parse, the type, length and offset of each
record, and how many bytes ever arrive), and `base` is the stream offset of the
first byte in the buffer. What `data[0]` decodes to is then the length of the
record that starts at that offset. At an offset where no record starts the length
is 0, so a machine that loses its place runs into the error path and into
`ExactlyOnce`. `out`, `pushed`, `skipped` and `setter_calls` are history.

The fields of a record do not matter to the machine, only its type and size do;
the conversion functions of `compat.rs` are reduced to the layout they read and
the layout they write. `RecordRef::get`'s size assertion is kept: failing it sets
`call` to `"panicked"`, as does the `panic!` on an unsupported version.

### Actions

`ConsumeStep`, `ReadMore`, `DecodePrelude(Err)`, `DecodeMetadata(Err)` are arms that
`process` and the first loop of `process_multiple` share. `RecordInvalid`,
`RecordNeedsCompat`, `RecordDecoded` are the `State::Record` arm of `process`;
`BatchStart`, `BatchPush`, `BatchInvalid`, `BatchEnd` are the second loop of
`process_multiple`. `FillSpace`, `WriteAll`, `Skip`, `ResetFsm`, `SetUpgradePolicy`,
`SetInputDbnVersion` and `SetTsOut` are the methods of those names. The client tells
the truth about its stream (a version or `ts_out` it sets is the stream's) and
skips whole records, which is what the callers of `skip` do.

In `DbnDecoder`, `pc` is the place in `decode` or `decode_ref`. A read returns any
number of bytes in `Chunks` that fit. `ReadFails` and `Cancel` happen at reads, the
only await points.

In `MergeDecoder` a call of an inner decoder is one step that yields a record,
nothing or an error. `current[d]` is what `last_record()` of decoder `d` returns.

In `SymbolMap` a turn of a loop over mappings or intervals is an action. `OnRecord`
and `OnOtherRecord` are `PitSymbolMap::on_record` for symbol mappings and for
everything else, `OnInstrumentDef` the method of that name. A symbol mapping read in
the wrong layout yields the symbol `"misread"`. The intervals of one mapping do not
overlap; with those of a merged metadata they may (see `metadata_conflict`), and then
the timeseries map keeps the last and the point-in-time map the first that covers a
day.

### Records

A record is its type, its rtype, its length and a value for every field. The
values are names: the argument an application gives to the field `price` is `"price"`,
so a value that lands in another field, or that a conversion forgets, is told
apart from every other. Where code tells values apart, the name stands for the
class: undefined prices and times, the largest integer, zero, a variant of an enum, a
character that is none, a text of a given length, text that is not UTF-8. The layout of
a type is computed from its field list by the rules of `repr(C)`.

A record starts with one of the actions `Default`, `NewError`, `NewSystem`,
`NewSymbolMapping` (the Rust constructors), `PyNewAction`, `PyNewLongText` (`py_new` with
none, one or all of its optional arguments) or `Receive` (a publisher's record with one
unusual field). Then `PyAssign` sets a property, `AddTsOut` is `WithTsOut::new` and
`UpgradeToV2`, `UpgradeToV3` are the `From` conversions. `given` remembers what each field
should read as. `ParseValue` and `ParseName` are the constructors of the Python enum
classes.

### The tools

Encoded metadata is a sequence of chunks of a width, a kind and a value. A reader asks
for bytes at a position and gets the chunk that lies there, zero inside zero padding,
and garbage across chunks; so a reader that disagrees with the writer about one offset
does not read back what was written, as in the code.

In `DbnCli`, `pc` is the place in `main`; `OpenInput`, `OpenFails`, `OutputExists`,
`NotInferred`, `EncodeMetadata`, `Build`, `EncodeNext`, `DecodeFails` and `Finish` are its
steps with their errors. `disk` is what the file has (or what the reader of the pipe got)
and `pend` what is in the `BufWriter`, which `Spill` may empty at any time; from
`SinkFails` on every write fails. A drop of the writer ignores its error, a flush does
not.

In `Transcoder` an item of the stream (the metadata or a record) takes two pieces to
arrive, so a call finds any number of whole items and perhaps half of one. `Write` is
`write` with what it then encodes, `Flush` is `flush`. The user may go on after an
error; `failed` remembers that one happened.

The output of a `Transcoder` is a `BufWriter` in front of a Python file that may raise at
any call. `out` is what both have, and its last `held` elements are still in the
`BufWriter`, whose capacity `BUF_CAPACITY` is counted in chunks and lines. What does not
fit makes the `BufWriter` call the file. If that raises, the buffer is kept, and the item
just taken from the state machine is cut off and never written: it goes to `lost`. DBN and
JSON return that error (`WriteAll`). A CSV line is written by the drop of the
`csv::Writer`, which also flushes, and ignores both errors (`DropCsv`). `Flush` encodes
what is left and then flushes (`Flushed`), whose error is returned. A call of the file
that raises is taken to have written nothing; so a file that writes and then raises, or
returns something else than a number (`python/src/encode.rs` 79-105), and so gets the
same bytes again, is left out. `compression` is too.

## Runs

| Run | Shows |
|---|---|
| `fsm` | `ExactlyOnce`, `OutputLayout`, `NeverPanics`, `PendingIsBuffered`, `RoomToReadMore`, `CompatGrowsWhenNeeded` and types, for ten streams (with and without metadata, versions 1 to 4, with `ts_out`, cut short, with an impossible length, with broken preludes and metadata), all policies, known and unknown versions |
| `decoder` | the decoders implement `RecordStream` (refinement), deliver every complete record (`AllDelivered`) and do not reach `unreachable!`, if the first read returns the prelude |
| `merge` | `HeadsAreCurrent`, refinement of `MergedStreams`, `LazyOpening`, `AllMerged` for all inputs of three streams with up to two records and all valid hints |
| `metadata_merge` | `MappingsAreUnion`, `MergedInOrder`, `ErrorsAreReal`, `FieldsAreCombined` for all merges of three metadata with one or two intervals over four days and two symbols |
| `symbol_map` | `TsCoversIntervals`, `MapsAgree`, `RefusedOutsideRange` for metadata of up to two mappings in both directions, with symbols that do not parse, parse alike or are empty, four query ranges and live records of each layout |
| `records` | for every record type: what was given is read back from Rust and Python through conversions (`ReadBack`), the rest has defaults however it was made (`UnsetIsDefault`), every dispatch finds the type (`DispatchFindsType`), the two ways from version 1 to 3 agree (`UpgradePathsCommute`), heartbeats stay heartbeats (`HeartbeatKept`), undefined values are absent everywhere (`AbsentAgrees`), headers, rows, JSON members and Python field lists name the same (`TextFormsAgree`), dtypes lie where the compiler puts the fields (`DtypesMatchLayout`), parsed enums parse back (`EnumsRoundTrip`) |
| `pipeline` | a file the command wrote, updated in place and transcoded, reads as what it should (`FilesReadBack`); `--schema` and `--limit` hold in every path (`FiltersHonoured`); a success means that all is written (`OkMeansWritten`); rows stand under their header (`RowsUnderHeader`); a file is not overwritten without `--force` (`ExistingFileKept`); the `Transcoder` writes each record once, however the input is cut, whichever calls fail and whenever its file does, but for the records in `lost` (`TranscodedExactly`); to DBN and JSON such a loss ends the call with an error (`LossEndsCall`); rows are written with the symbol of their time (`SymbolsCurrent`), and a panic comes only after an error (`PanicOnlyAfterError`) |
| `fsm_policy` | violated: `set_upgrade_policy` validates the policy that it replaces |
| `fsm_last_record` | violated: `last_record()` after a batch without upgrades |
| `decoder_short_first_read` | violated: the sync `MetadataDecoder::decode` reaches `unreachable!` when the first read returns less than the prelude |
| `metadata_conflict` | violated: a conflict behind an overlap is accepted |
| `dbz_to_dbn` | violated: a DBZ file converted to DBN without `--upgrade` does not decode; its metadata is two bytes shorter than its length says |

The five violations are disagreements between code and documentation. The
findings in `PROJECT.json` quote both.

### Promises that are weaker than one may expect

The abstract specifications and the properties say where a promise ends:

* `MergedStreams` has the action `Lose`: the first call after an error of an inner
  decoder pops the head of a stream whose record was never handed out. The merging
  decoder may also return `Ok(None)` after such an error though other streams have
  records left, where `decode.rs` 41 says that `None` means that the input is exhausted.
* In `MetadataMerge` an input without an end never prevails, because `Option::max`
  orders `None` first.
* `OkMeansWritten` leaves out fragments, `--map-symbols` and pipes. The first two end
  without a flush, so an error of the last write is lost in the drop of the writer;
  errors of a pipe are silenced on purpose.
* `FiltersHonoured` leaves out several `--input-fragment`s, which `main.rs` (53-90) reads
  without filters.
* `RowsUnderHeader` leaves out `--map-symbols` on mixed schemas: that path does not check
  the schema, and a row goes under the header of another type with as many columns
  (`MboMsg` and `StatMsg` have 14, `Mbp10Msg` and `InstrumentDefMsg` 73), although
  `encode/csv/sync.rs` (329-330) speaks of a single schema. It also ends with the first
  error of a `Transcoder`: if the metadata fails, a user who goes on gets rows without a
  header, or the panic of `PanicOnlyAfterError`. And it leaves out files that
  `--input-fragment -o x.dbn` made of a fragment of an older version (`TellsVersion`): their
  metadata is the dummy one of the current version, so that a `Transcoder` to CSV with the
  schema of the definitions writes the header of version 3 over rows of version 2, and no
  call fails.
* `TranscodedExactly` leaves out the items in `lost`. To DBN and JSON there is at most one
  for each call that returned the error of the file; a user who goes on after that has a
  gap in the output, in DBN perhaps within a record or the metadata. To CSV no call needs
  to fail: the `csv::Writer` made for each record ignores the errors when it is dropped, rows
  pile up in the `BufWriter`, and once that is full each further row is gone, although
  `python/python/databento_dbn/_lib.pyi` 7491 has `write` raise an error "when the write to the
  internal buffer or the output fails". Without its exception for CSV, `LossEndsCall` is
  violated.
* `TranscodedExactly` and `FilesReadBack` speak of what the file and the `BufWriter` have
  together; only a `flush` without an error means that the file has it.
* `ExactlyOnce` counts the records of a batch that ended with an error as not handed out.
  `process_all` leaves the references it had pushed in the caller's `Vec`, and the next
  call hands the same records out again. It cannot push them to that `Vec`, whose type has
  the lifetime of the machine's borrow (`fsm.rs` 355-359), so a caller who keeps to the
  records of calls that succeeded, as the tests do (`fsm.rs` 1197, 1222), has each once.
* `SymbolsCurrent`: the metadata of a live stream replaces a map that the user gave.
* `--force` truncates the old file before the encoding is inferred from its name, which
  can still fail.
* `--input-fragment -o x.dbn` writes the dummy metadata, of which a comment at
  `dbn-cli/src/encode.rs` 86 says that it will not be encoded.

Seen while translating, and outside what the runs state: `CsvEncoder::encode_decoded_with_limit`
writes a header unconditionally and `DynEncoder` does not forward to it; a `RecordEnum`
made from a record with `ts_out` keeps the longer length in its header; the Python enums
of characters take a character above 255 for the one of its low byte; `ErrorMsg::new` may
cut a text inside a UTF-8 character; the Python constructors of the types with several
rtypes accept any rtype; `is_heartbeat` looks at the code only, so a message with the
text "Heartbeat" and another code is none; `write_c_char_field` of JSON escapes
characters above 127 in a way JSON does not know; and `DBNDecoder.decode` drops the
records that it decoded before an error in the same call.

### Bounds

Sizes are scaled down and keep their order: definitions of 3, 5 and 7 bytes,
statistics of 3, 3 and 5, the other versioned types of 2, 4 and 4, `ts_out` 1
byte, headers and preludes 2. `SizeAssumption` states what the argument uses of
the real sizes (360/400/520, 64/64/80, 80/176/176 or 80/320/320, 8): layouts never
shrink, two that differ do so by more than `ts_out`, and definitions grew in both
versions. In a stream (`StreamAssumption`) nothing follows a record without bytes: no
machine gets past one. A buffer of 16
bytes is twice the longest record, as the theorem `RoomForMore` asks; real buffers
hold 64 KiB. Metadata of 20 bytes makes the buffer grow. `Chunks` 1, 5 and 16 split
headers, records and the prelude, and fill the buffer at once. Limits of one record
and none are enough for the batch loop to end for each of its reasons.
`MaxSetterCalls` 1, `MaxFaults` 2, `MaxFails` 2, `MaxTs` 2 and `LastDay` 4 bound what would
otherwise be unbounded; two failures are needed so that a failure can follow one.
In `records` one property is assigned (`MaxSets` 1) and one field of a received record
is unusual: fields do not interact, so pairs add nothing. Every type, field, optional
argument and variant is enumerated.
`MCPipeline` has eight inputs: definitions of version 1 over two days with a symbol that
changes hands, a live stream of version 2 with `ts_out`, changing mappings, mixed schemas
and an unknown rtype, current data with an inverse symbology and other schemas mixed
in, data whose mappings do not parse and whose second record is bad, a DBZ file, one and
several fragments, and a file of another kind. Thirteen forms of the command line, one
per path through `main.rs` and `encode.rs`, are combined with `--upgrade`, limits of one and
none and three schemas, and a `Transcoder` is made with each combination of encoding,
symbols, schema (none, the one of `MboMsg` and the one of definitions), policy and version
that fits the file. Its `BufWriter` holds one chunk or line (`BUF_CAPACITY` 1), so that it
is full after each, the file may raise at every item, and one item may be lost (`MaxLost`
1), after which the user goes on. A limit of one record is met
before, at and after the end of the data; a write brings one piece or three (`WriteSizes`), so it may end
inside an item or between two; a file is updated in place at most once (`MaxUpdates` 1).
In `symbol_map` a day has two instants, midnight and another, so that ranges start and
end at midnight or within a day, and the three `Dates` lie before, in and behind
the intervals and ranges; `MaxLive` 2 lets one live record override another.

### Fairness

`DSpec` assumes weak fairness of the decoder's own steps (its caller keeps calling)
and of `ReadBytes`: a reader that has bytes and is asked for them returns some.
Nothing is assumed of failures, dropped futures or skips, which are bounded. `Spec`
of `MergeDecoder` assumes that the caller keeps calling. `DbnFsm` has no fairness: it
is a passive object. In `merge`, `metadata_merge`, `symbol_map`, `records` and `pipeline`
deadlock is not checked: a constructor that failed, a finished merge, the last live
record, a record that nobody changes and a process that ended are final. The last two
have no fairness, since their properties are about safety only.

## Proofs

Each theorem holds for all values of the constants under the named assumptions of the
component's module (`SizeAssumption`, `LenAssumption`, `StreamAssumption`,
`DecoderAssumption`, `MergeAssumption`, `MetadataAssumption`, `SymbolMapAssumption`,
`CliAssumption`, `TranscoderAssumption`, `UpdatesAssumption`, `RecSizesAssumption`), which
TLC evaluates in the runs of that component. The last four say what inputs, command lines,
options and updates are, that the `BufWriter` of a `Transcoder` holds something and a write
brings something, and that the sizes `VersionUpgrade` is given are those of the
record structs. Some theorems have one of these hypotheses besides, without which the
others hold:

* `RoomyBuffers`: a buffer is at least twice the longest record and not smaller than the
  prelude. Real buffers have 64 KiB and a header cannot announce more than 255 * 4 bytes.
* `WellFormed` streams: the records have the sizes of their types in the stream's version,
  or lengths that are refused. The code knows layouts by their sizes only.
* `MinFirstRead >= METADATA_PRELUDE_LEN`: the first read of the metadata decoder brings the
  prelude. The code does not ensure it; `decoder_short_first_read` shows what happens then.

* `WellSizedInputs`: a record of a file or fragment has the length that one of the layouts
  of its rtype has, with the send timestamp where there is one. The decoder does not verify
  it; a record that is shorter makes the dispatch on its type panic.

`MCDbnFsm` and `MCDbnDecoder` assume the first two (the latter only the first), so TLC
evaluates them on the streams of the runs; `decoder.cfg` satisfies the third, and
`MCPipeline` assumes the fourth.

| Theorem | States |
|---|---|
| `TypeCorrect` | `Spec => []TypeOK` of `DbnFsm` |
| `PendingBuffered` | `Spec => []PendingIsBuffered` |
| `CompatGrowth` | `Spec => CompatGrowsWhenNeeded` |
| `RoomForMore` | `RoomyBuffers`: `Spec => []RoomToReadMore` |
| `DeliveredOnce` | `Spec => []ExactlyOnce`, also for streams that are cut short or malformed |
| `LayoutsArePromised` | `WellFormed`: `Spec => []OutputLayout` |
| `NoPanic` | `WellFormed`: `Spec => []NeverPanics` |
| `DecoderImplements` | `RoomyBuffers`: `DSpec => ImplementsRecordStream` |
| `MetadataDecoderSafe` | `RoomyBuffers` and the first read: `DSpec => []MetadataDecoderNeverPanics` |
| `MergeTypeOK`, `MergeHeadsAreCurrent` | `Spec => []TypeOK`, `Spec => []HeadsAreCurrent` of `MergeDecoder` |
| `MergeImplements` | `Spec => ImplementsMergedStreams`, any number of ordered streams, with or without hints |
| `OpensLazily` | `Spec => LazyOpening` |
| `MergedListsInOrder`, `MergeKeepsMappings`, `MergeCombinesFields`, `MergeFailsForAReason` | `Spec => []MergedInOrder`, `[]MappingsAreUnion`, `[]FieldsAreCombined`, `[]ErrorsAreReal`, any number of metadata with lists of any length |
| `TwoMapsAgree`, `TsMapIsComplete`, `RefusedExactly` | `Spec => []MapsAgree`, `[]TsCoversIntervals`, `[]RefusedOutsideRange`, any metadata, date and live records |
| `MetadataRoundTrip` | every metadata of version 1 to 3 that `encode` accepts is decoded to itself from its chunks, which are as long as its prelude says |
| `FiltersAreHonoured`, `EndedMeansWritten`, `ExistingFileIsKept` | `Spec => []FiltersHonoured`, `[]OkMeansWritten`, `ExistingFileKept` of `Pipeline`, any input and command line |
| `FilesAreReadBack` | `Spec => []FilesReadBack`, any number of updates in place |
| `CompleteIsTaken` | `Spec => []PiecesTaken`: a call of a `Transcoder` takes what is complete and nothing else |
| `RecordsAreTranscoded` | `Spec => []TranscodedExactly` while the encoding is DBN, with a file that may raise at any item and flush |
| `RowsAreTranscoded` | `WellSizedInputs`: `Spec => []TranscodedExactly`, every encoding, with such a file |
| `LossesEndCalls` | `Spec => LossEndsCall`: to DBN and JSON a call loses at most one item, the one it fails at |
| `SymbolsAreCurrent` | `Spec => []SymbolsCurrent` |
| `SchemaIsKnown` | `Spec => []UnwrapGuarded`: the schema that `encode_csv` unwraps is there until a call fails |
| `PanicsOnlyAfterError` | `WellSizedInputs`: `Spec => []PanicOnlyAfterError` |

`RoomForMore` needs its hypothesis: the data of a buffer of one record may start anywhere
in its first half, and `oval` shifts only past the middle. (The tests at `fsm.rs` 1122 use
buffers of `MAX_RECORD_LEN`, for which the comment "Fsm guarantees there's at least `n`
bytes available in `space()`" at `sync.rs` 441 does not hold in general.) It matters to
`DecoderImplements` because a read into an empty slice returns 0, which `decode_ref` takes
for the end of the input.

### The state machine

`PendingIsBuffered` is not inductive. `DbnFsmProofs` strengthens it to `IInv`:

* `TypeOK`, and both buffers `Sound` (cursors in order);
* `PendInv`: outside `State::Consume` nothing is pending and the compat buffer is
  empty; in it the read bytes are data, and the upgraded bytes are either all the
  data of the compat buffer or fit strictly in its free space;
* `BatchInv`: what the running batch has counted so far is covered by the data and
  the free space, so that `BatchEnd` establishes `PendInv`;
* `CompatInv`: a pending wish to expand means that the batch and one more record
  did not fit, which is what `CompatGrowth` needs.

There is one lemma per action, and before them one per operation of `OvalBuffer`.
`RoomForMore` adds `RoomInv`: the prelude is decoded at the front of the memory, the
metadata right behind it in a buffer grown for both, and at most half of the
memory is consumed data in front of a record.

For what is delivered, `DbnFsmProofs` adds to `IInv`

* `OrderInv`: there is an `n` such that the records handed out or skipped are the first `n`,
  the running batch has pushed those that follow, and the bytes consumed, pending or
  counted by the batch end where the next record starts. `ExactlyOnce` alone does not say
  where in the stream the machine is, and so what it will decode next. The lemma behind it
  is that an offset at which a record starts is that of one record only;
* `LayoutInv`: every record handed out or pushed has the promised layout, and `Described`:
  from the prelude on `input_dbn_version` is unknown or the stream's, and from the first
  record on `ts_out` is the stream's. Then a version that is detected from the size of a
  record is one whose layout has that size, even where two versions share it.

### The decoders

`DbnDecoderProofs` shows that each step of `DbnDecoder` is a step of `RecordStream` or
leaves it alone. `DbnDecoder` extends `DbnFsm`, so `IInv` and `RoomInv` carry over; `DInv`
adds

* `WhereInv`: the place in `decode` or `decode_ref` and the state of the machine fit, and a
  call of `process` is in progress only where the decoder waits for it;
* `StreamInv`: what the machine has passed of the stream was there and was valid;
* `NextInv`: every record before the caller's `next` was complete, and the next one starts
  where the bytes owed end, or is the one that `process` has just decoded;
* `WaitInv`: the record decoder reads only when the next record is not complete, so that
  a read of 0 bytes means that no complete record is left.

That `Exhausted` is never said early follows from the last two with the fact that the
decodable records are exactly those before the first one that is incomplete.
`MetadataDecoderSafe` adds `MetaInv`: the bytes that the one `ReadMore` asks for are all
that the second `process` needs.

### The merges and maps

`MergeDecoderProofs` rests on `MInv`, which adds to the types and `HeadsAreCurrent`

* `HeapInv`: a head that is a hint carries the hint of its stream, and no decoder is
  past the end of its stream;
* `FirstInv`: what is owed to the caller is what the heads say. A stream without a head
  owes nothing, and the first record a head's stream owes is the one its decoder
  holds, except that the record returned last is no longer owed while its head is
  still on top;
* `CallInv`: the order of the calls: what the last answer was says whether the top was
  handed out.

That `Peek` exists at all is a lemma: a set of heads with different decoders has a first
one. `ReturnRecord` is then a `Deliver` because every head is no later than what its
stream owes, and `CallPop` a `Lose` only if the answer before was an error. `OpensLazily`
follows because a record that was read and not handed out still has its head on the heap,
and only the decoder on top is read.

`MetadataMergeProofs` rests on `MergeInv`. A merge of lists of any length needs no
induction over data because each turn of `merge_intervals` is an action:

* `ListsInv`: the lists, the rests behind the cursors and `merged_intervals` are in order,
  and nothing left starts before what was pushed;
* `UnionInv`: on each day, what a raw symbol maps to in the merger, in the rests and in
  `merged_intervals` together is what the inputs merged so far map it to;
* `FieldsInv`: the fields combine those of the inputs merged so far;
* `ErrorsAreReal` itself, which a conflict meets because of `UnionInv`.

`MetadataAssumption` asks that the intervals of one input's symbol are in order, do not
overlap and are not empty; merged lists are only in order (see `metadata_conflict`), and
the invariant does not ask more of them.

`SymbolMapProofs` rests on `SymbolMapInv`: while a constructor runs, its map is what the
intervals passed so far say (`TsInv`, `PitInv`), where the last of several mappings that
name an instrument on a day wins; when both have ended, `MapsAgree`, which the live records preserve. The
intervals of one mapping must not overlap (`SymbolMapAssumption`), else the two maps differ.
`RefusedExactly` needs that integer division by the length of a day is monotonic.

### The tools

What these modules compute of lists of any length, by recursive functions, is proved by
induction over the set of the numbers for which it holds: no recursion of the models nests.

`MetadataRoundTrip` (`MetadataCodecProofs`) puts the writer's and the reader's view of the
bytes side by side. The chunks that `encode` writes are laid out by version: where each
part starts is the sum of the widths before it, and a reader at the start of a chunk finds
that chunk. The reader of a list is a chain of positions; that the i-th is where the writer
put the i-th element is shown by induction, first for texts, then for the intervals of a
mapping, then for mappings. The length in the prelude is the sum of all widths because the
padding that `calc_length` adds is the one that is written.

`PipelineProofs` has `CliInv`, about the command:

* `CliTyped`: types, and what the places in `main` say of the buffers;
* `Counted`: while records are encoded, the rows on disk and in the buffer together are
  those of the records `Taken` so far, which are as many as the filters counted. Neither
  `disk` nor `pend` says this alone, since `Spill` may come at any time;
* `FiltersHonoured` and `OkMeansWritten` themselves, which `Finish` meets because of it.

`TranscoderProofs` follows the data from the command to the `Transcoder`:

* `WrittenInv`: disk and buffer together are a DBN file (the chunks of its metadata, then
  records) or a fragment. A record that the command upgraded is still as long as a layout of
  its rtype, which is read off the tables of the dispatch;
* an update in place overwrites a middle part of the metadata by one as long
  (`FileUpdated`), so what is left is the file of the updated metadata;
* `TcInv`: no `Transcoder` has taken more than was complete, and after a call without an
  error it has taken all;
* `FileInv`: the stream is that of the file, and the `Transcoder` is `Sound`. To DBN it has
  written the upgraded metadata and the records (`Good`), to text a row for each record it
  wants (`Rowed`); to CSV it has a schema from the first record on (`SchemaKnown`), unless
  a call failed; it knows whether records carry a send timestamp (`Informed`), without which
  the type of a record is mistaken; it has not panicked (`Calm`); and its rows have their
  symbols (`Symbolled`). `Good` and `Rowed` leave out the items in `lost`. That a failing
  file costs nothing else needs `OutputFits`: the `BufWriter` holds no more than its
  capacity, so a cut takes from the last item only, and what is lost is among the items
  consumed, so no item yet to come is.

`Symbolled` is `SymbolsCurrent` with what the symbol map has at each point of the stream:
before the metadata the user's map; then a live map with the latest mapping of every
instrument among the records taken (`LiveSyms`), or the names of the user's map or of the
file, which an upgrade of the metadata does not change. A call takes any number of items
in the turns of one loop; the loop of `Inner::encode` is a chain of states (`Runs`), and one
lemma for a turn that takes the metadata and one for a turn that takes a record carry
`Sound` along it.

### Only model-checked

* `AllDelivered` and `AllMerged`, which need fairness and `ENABLED`.
* The properties of `records`: they compare finite tables of fields, types and texts without
  a parameter, which TLC enumerates completely, so a proof would add nothing.
* `RowsUnderHeader`: which columns a row has is again a matter of these tables, one
  for each type and version, and `WellSizedInputs` is too weak for it, since it allows a
  record the length of another version's layout than its file's.

## Not modelled

* `publishers.rs` (generated tables), the bits of `flags.rs`, the error type: constants
  without state.
* The C interface, the Python `DBNDecoder` and metadata class: each is a thin layer over
  what is modelled. Protocol buffers: no program.
* The digits of prices and times, the escaping of texts, Debug output: formatting.
* The async encoders, which write as the sync ones do; `encode_records`, `encode_stream` and
  `encode_decoded_with_limit`, loops around what is modelled that the tools here do not use.
* Detection of the kind of an input from its first bytes, `StreamIterDecoder`, zstd.
* `decode_records`, a loop around `decode_ref`; `skip_bytes` that fails inside the reader,
  whose state is the reader's; the alignment of records in memory.

## Plan

1. `DynReader`, DBZ detection and `StreamIterDecoder` in front of `DbnDecoder`;
   `DBNDecoder` over `DbnFsm` with its loss of records at an error.
2. The async encoders with dropped futures.
3. Proofs: `RowsUnderHeader`, for inputs whose records have the layouts of their version.
