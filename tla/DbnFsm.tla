------------------------------- MODULE DbnFsm -------------------------------
(***************************************************************************)
(* DbnFsm, the sans-I/O state machine that every DBN decoder drives.       *)
(* A client copies bytes in (space/fill or write_all), calls process or    *)
(* process_all/process_many until it is told to read more, and may skip,   *)
(* reset or reconfigure the machine between calls.                         *)
(*                                                                         *)
(* The methods take &mut self, so a call runs alone, but it loops: each    *)
(* turn of the loop in process, and of the two loops in process_multiple,  *)
(* is one action, and `call` says which loop is running.                   *)
(*                                                                         *)
(* The bytes are those of `stream`.  base is the stream offset of the byte *)
(* at the buffer's position, so the buffer holds the stream's bytes        *)
(* base .. base + AvailableData(buffer) - 1.                               *)
(***************************************************************************)
EXTENDS OvalBuffer, VersionUpgrade, Sequences, FiniteSets

CONSTANTS
    METADATA_PRELUDE_LEN, HEADER_LEN, METADATA_FIXED_LEN,
    DEFAULT_BUF_SIZE,  \* compat capacity when metadata is skipped, buffer default
    BufferSizes,       \* the buffer_size values given to the builder
    CompatSizes,       \* the compat_size values given to the builder; NONE: not set
    Streams,           \* the inputs: see IsStream
    Chunks,            \* how many bytes a client adds at once
    Limits,            \* limits passed to process_all, lengths of process_many's slice
    MaxSetterCalls     \* bound: calls of reset and of the setters in one behaviour

ASSUME LenAssumption ==
    /\ METADATA_PRELUDE_LEN \in Nat \ {0}
    /\ HEADER_LEN \in Nat \ {0}
    /\ METADATA_FIXED_LEN \in Nat
    /\ DEFAULT_BUF_SIZE \in Nat
    /\ BufferSizes \subseteq Nat
    /\ CompatSizes \subseteq Nat \cup {NONE}
    /\ Chunks \subseteq Nat \ {0}
    /\ Limits \subseteq Nat \cup {NONE}
    /\ MaxSetterCalls \in Nat

(***************************************************************************)
(* A stream is a prelude and metadata (if meta) and then records, the i-th *)
(* at offset at[i].  A record's len is the length its header encodes; one  *)
(* below HEADER_LEN cannot be decoded, and nothing follows one without     *)
(* bytes.  total is the number of bytes that ever arrive: the last record  *)
(* may be cut short.                                                       *)
(***************************************************************************)
IsStream(s) ==
    /\ s.meta \in BOOLEAN /\ s.prefix \in BOOLEAN /\ s.good \in BOOLEAN
    /\ s.ts_out \in BOOLEAN /\ s.version \in Nat /\ s.mlen \in Nat /\ s.total \in Nat
    /\ s.rtype \in Seq(RTypes) /\ s.len \in Seq(Nat) /\ s.at \in Seq(Nat)
    /\ Len(s.len) = Len(s.rtype) /\ Len(s.at) = Len(s.rtype) + 1
    /\ s.at[1] = IF s.meta THEN METADATA_PRELUDE_LEN + s.mlen ELSE 0
    /\ \A i \in 1..Len(s.len) : s.at[i + 1] = s.at[i] + s.len[i]
    /\ \A i \in 1..Len(s.len) : i < Len(s.len) => s.len[i] > 0

ASSUME StreamAssumption == \A s \in Streams : IsStream(s)

\* What some theorems ask of a stream: its records have the sizes their types have in
\* its version, or are too short to be decoded.  Without metadata nothing would tell
\* an unknown version.
WellFormed(s) ==
    /\ s.version # 0
    /\ ~s.meta => s.version \in Versions
    /\ s.version \in Versions =>
         \A i \in 1..Len(s.len) :
            s.len[i] >= HEADER_LEN => s.len[i] = EncodedSize(s.rtype[i], s.version, s.ts_out)

\* What they ask of buffer_size.  The default, 64 KiB, satisfies it: the
\* longest record a header can announce has 255 * 4 bytes.
RoomyBuffers ==
    \A size \in BufferSizes :
        /\ METADATA_PRELUDE_LEN <= size /\ 2 * HEADER_LEN <= size
        /\ \A s \in Streams : \A i \in 1..Len(s.len) : 2 * s.len[i] <= size

VARIABLES
    state,              \* "Prelude", "Metadata", "Record" or "Consume"
    length,             \* State::Metadata's length
    pend,               \* State::Consume's fields
    buffer, compat_buffer,
    input_dbn_version, upgrade_policy, ts_out,
    call,               \* the loop that is running, or "idle"
    batch,              \* locals of process_multiple
    pushed,             \* the records it has pushed so far
    result,             \* what the last call returned
    stream, base,       \* the input, and how much of it has been consumed
    out,                \* the records handed to the client, in order
    skipped,            \* the records it skipped
    setter_calls

config  == <<input_dbn_version, upgrade_policy, ts_out>>
machine == <<state, length, pend, buffer, compat_buffer>>
history == <<stream, base, out, skipped>>
multi   == <<batch, pushed>>
vars    == <<machine, config, call, multi, result, history, setter_calls>>

NoPend  == [read |-> 0, compat |-> 0, compat_fill |-> 0, expand_compat |-> FALSE]
NoBatch == [count |-> 0, read |-> 0, compat |-> 0, limit |-> NONE]

\* What a call returned: a ProcessResult, or the outcome of skip or a setter.
Tags == {"None", "ReadMore", "Metadata", "Record", "Records", "Err", "Skipped",
         "PolicySet", "PolicyRefused", "VersionSet", "VersionRefused"}
Returned(tag, n) == [tag |-> tag, n |-> n]
Nothing          == Returned("None", 0)

Pends   == [read : Nat, compat : Nat, compat_fill : Nat, expand_compat : BOOLEAN]
Batches == [count : Nat, read : Nat, compat : Nat, limit : Nat \cup {NONE}]
Results == [tag : Tags, n : Nat]

\* The record that starts at stream offset o; 0 where none does.
IndexAt(o) ==
    IF \E i \in 1..Len(stream.len) : stream.at[i] = o
    THEN CHOOSE i \in 1..Len(stream.len) : stream.at[i] = o
    ELSE 0

\* Length and type the bytes at offset o claim; off a record's start, nonsense.
LengthAt(o) == IF IndexAt(o) = 0 THEN 0 ELSE stream.len[IndexAt(o)]
RTypeAt(o)  == stream.rtype[IndexAt(o)]

Arrived == base + AvailableData(buffer)

-----------------------------------------------------------------------------
(* DbnFsmBuilder::build, by a client that describes its stream truthfully. *)

CompatCapacity(size, skip_metadata, version, policy) ==
    IF size # NONE THEN size
    ELSE IF skip_metadata /\ (version = NONE \/ IsUpgradeSituation(policy, version))
         THEN DEFAULT_BUF_SIZE ELSE 0

Build(s, policy, version, buffer_size, compat_size) ==
    /\ version # NONE => ValidateCompatibility(policy, version)
    /\ stream = s
    /\ state = IF s.meta THEN "Prelude" ELSE "Record"
    /\ input_dbn_version = version
    /\ upgrade_policy = policy
    /\ ts_out = IF s.meta THEN FALSE ELSE s.ts_out
    /\ buffer = WithCapacity(buffer_size)
    /\ compat_buffer =
         WithCapacity(CompatCapacity(compat_size, ~s.meta, version, policy))

Init ==
    /\ \E s \in Streams, policy \in Policies, version \in Versions \cup {NONE},
          buffer_size \in BufferSizes, compat_size \in CompatSizes :
          /\ version \in {NONE, s.version}
          /\ Build(s, policy, version, buffer_size, compat_size)
    /\ length = 0 /\ pend = NoPend
    /\ call = "idle" /\ batch = NoBatch /\ pushed = <<>> /\ result = Nothing
    /\ base = 0 /\ out = <<>> /\ skipped = {} /\ setter_calls = 0

-----------------------------------------------------------------------------
(* consume: what leaving State::Consume does to both buffers. *)

\* A slip: growing to the size of the largest record, although a record that fills
\* the space exactly is not written.
DoubleCompatOnce(c) == Grow(c, MAX_RECORD_LEN)

DoubleCompat(c) == Grow(c, Most(MAX_RECORD_LEN, 2 * c.capacity))

\* A slip: only the header of the last record is released.
ConsumedBufferHeader == Consume(buffer, HEADER_LEN)
ConsumedBuffer       == Consume(buffer, pend.read)

\* How far the stream is consumed once the buffer has become b.
BaseAfter(b) == Arrived - AvailableData(b)

\* A slip: the upgraded records are never released from the compat buffer.
ConsumedCompatKept ==
    LET filled == IF pend.compat_fill > 0 THEN Fill(compat_buffer, pend.compat_fill)
                                          ELSE compat_buffer
    IN  IF pend.expand_compat THEN DoubleCompat(filled) ELSE filled

ConsumedCompat ==
    LET filled == IF pend.compat_fill > 0 THEN Fill(compat_buffer, pend.compat_fill)
                                          ELSE compat_buffer
        freed  == IF pend.compat > 0 THEN Consume(filled, pend.compat) ELSE filled
    IN  IF pend.expand_compat THEN DoubleCompat(freed) ELSE freed

\* State::Consume in the loops of process and process_multiple.
ConsumeStep ==
    /\ call \in {"process", "multiple"} /\ state = "Consume"
    /\ buffer' = ConsumedBuffer
    /\ compat_buffer' = ConsumedCompat
    /\ base' = BaseAfter(ConsumedBuffer)
    /\ state' = "Record" /\ pend' = NoPend
    /\ UNCHANGED <<length, config, call, multi, result, stream, out, skipped,
                   setter_calls>>

-----------------------------------------------------------------------------
(* Calls between which the machine is idle. *)

\* read into space(), then fill(n).
FillSpace(n) ==
    /\ call = "idle"
    /\ n <= AvailableSpace(buffer) /\ Arrived + n <= stream.total
    /\ buffer' = Fill(buffer, n)
    /\ result' = Nothing
    /\ UNCHANGED <<state, length, pend, compat_buffer, config, call, multi, history,
                   setter_calls>>

WriteAll(n) ==
    LET short    == AvailableSpace(buffer) < n
        consumes == short /\ state = "Consume"
        room     == IF consumes THEN ConsumedBuffer ELSE buffer
        grown    == IF AvailableSpace(room) < n
                    THEN Grow(room, Most(2 * room.capacity, room.capacity + n))
                    ELSE room
    IN  /\ call = "idle" /\ Arrived + n <= stream.total
        /\ buffer' = Fill(grown, n)
        /\ compat_buffer' = IF consumes THEN ConsumedCompat ELSE compat_buffer
        /\ base' = BaseAfter(room)
        /\ state' = IF consumes THEN "Record" ELSE state
        /\ pend' = IF consumes THEN NoPend ELSE pend
        /\ result' = Nothing
        /\ UNCHANGED <<length, config, call, multi, stream, out, skipped, setter_calls>>

\* What skip consumes first: a record handed out but not yet released.
\* The slip: it is not released, so skip starts at the record before.
UnreleasedKept == buffer
Released       == IF state = "Consume" THEN ConsumedBuffer ELSE buffer

\* skip(nbytes) where nbytes is the size of the next k records, all buffered.
Skip(k) ==
    LET i      == IndexAt(base + pend.read)
        nbytes == stream.at[i + k] - stream.at[i]
    IN  /\ call = "idle" /\ state \in {"Record", "Consume"}
        /\ i # 0 /\ i + k <= Len(stream.at)
        /\ nbytes <= AvailableData(buffer) - pend.read
        /\ buffer' = Consume(Released, nbytes)
        /\ compat_buffer' = IF state = "Consume" THEN ConsumedCompat ELSE compat_buffer
        /\ base' = BaseAfter(Released) + nbytes
        /\ state' = "Record" /\ pend' = NoPend
        /\ skipped' = skipped \cup (i .. i + k - 1)
        /\ result' = Returned("Skipped", nbytes)
        /\ UNCHANGED <<length, config, call, multi, stream, out, setter_calls>>

\* reset, after which the client starts over on a stream with metadata.
ResetFsm(s) ==
    /\ call = "idle" /\ setter_calls < MaxSetterCalls
    /\ s.meta
    /\ state' = "Prelude"
    /\ buffer' = Reset(buffer) /\ compat_buffer' = Reset(compat_buffer)
    /\ input_dbn_version' = NONE
    /\ length' = 0 /\ pend' = NoPend
    /\ stream' = s /\ base' = 0 /\ out' = <<>> /\ skipped' = {}
    /\ result' = Nothing
    /\ setter_calls' = setter_calls + 1
    /\ UNCHANGED <<upgrade_policy, ts_out, call, multi>>

\* set_upgrade_policy: the policy it validates is the one being replaced.
SetUpgradePolicy(policy) ==
    LET ok == input_dbn_version # NONE =>
                ValidateCompatibility(upgrade_policy, input_dbn_version)
    IN  /\ call = "idle" /\ setter_calls < MaxSetterCalls
        /\ upgrade_policy' = IF ok THEN policy ELSE upgrade_policy
        /\ result' = Returned(IF ok THEN "PolicySet" ELSE "PolicyRefused", 0)
        /\ setter_calls' = setter_calls + 1
        /\ UNCHANGED <<machine, input_dbn_version, ts_out, call, multi, history>>

\* set_input_dbn_version, with the version the stream really has.
SetInputDbnVersion ==
    LET v  == stream.version
        ok == ValidVersion(v) /\ ValidateCompatibility(upgrade_policy, v)
    IN  /\ call = "idle" /\ setter_calls < MaxSetterCalls
        /\ input_dbn_version' = IF ok THEN v ELSE input_dbn_version
        /\ result' = Returned(IF ok THEN "VersionSet" ELSE "VersionRefused", 0)
        /\ setter_calls' = setter_calls + 1
        /\ UNCHANGED <<machine, upgrade_policy, ts_out, call, multi, history>>

\* set_ts_out, before metadata overrides it or with what the stream has.
SetTsOut(b) ==
    /\ call = "idle" /\ setter_calls < MaxSetterCalls
    /\ state \in {"Record", "Consume"} => b = stream.ts_out
    /\ ts_out' = b
    /\ result' = Nothing
    /\ setter_calls' = setter_calls + 1
    /\ UNCHANGED <<machine, input_dbn_version, upgrade_policy, call, multi, history>>

CallProcess ==
    /\ call = "idle"
    /\ call' = "process" /\ result' = Nothing
    /\ UNCHANGED <<machine, config, multi, history, setter_calls>>

\* process_all (limit NONE: no limit) and process_many (limit: slice length).
CallProcessMultiple(limit) ==
    /\ call = "idle"
    /\ call' = "multiple" /\ result' = Nothing
    /\ batch' = [NoBatch EXCEPT !.limit = limit]
    /\ UNCHANGED <<machine, config, pushed, history, setter_calls>>

-----------------------------------------------------------------------------
(* The part of the loops that process and process_multiple share. *)

Return(tag, n) ==
    /\ call' = "idle" /\ result' = Returned(tag, n)
    /\ batch' = NoBatch

\* What the current state still needs before it can decode, if anything.
Missing ==
    LET data == AvailableData(buffer)
    IN  CASE state = "Prelude"  -> METADATA_PRELUDE_LEN - data
          [] state = "Metadata" -> length - data
          [] state = "Record" /\ data < HEADER_LEN -> HEADER_LEN - data
          [] state = "Record" /\ data >= HEADER_LEN -> LengthAt(base) - data
          [] OTHER -> 0

\* A slip: the metadata's length is taken to include the prelude, which was consumed,
\* and the subtraction underflows when little is missing.
ReadMoreThanLeft ==
    /\ \/ call \in {"process", "multiple"} /\ state \in {"Prelude", "Metadata"}
       \/ /\ call = "process" /\ state = "Record"
          /\ AvailableData(buffer) < HEADER_LEN \/ LengthAt(base) >= HEADER_LEN
    /\ Missing > 0
    /\ Return("ReadMore", Missing - IF state = "Metadata" THEN METADATA_PRELUDE_LEN ELSE 0)
    /\ UNCHANGED <<machine, config, pushed, history, setter_calls>>

ReadMore ==
    /\ \/ call \in {"process", "multiple"} /\ state \in {"Prelude", "Metadata"}
       \/ /\ call = "process" /\ state = "Record"
          /\ AvailableData(buffer) < HEADER_LEN \/ LengthAt(base) >= HEADER_LEN
    /\ Missing > 0
    /\ Return("ReadMore", Missing)
    /\ UNCHANGED <<machine, config, pushed, history, setter_calls>>

\* decode_prelude: input_dbn_version is set before the version is validated.
PreludeValid ==
    /\ stream.version <= DBN_VERSION
    /\ ValidateCompatibility(upgrade_policy, stream.version)
    /\ stream.mlen >= METADATA_FIXED_LEN

DecodePreludeErr ==
    /\ call \in {"process", "multiple"} /\ state = "Prelude" /\ Missing <= 0
    /\ ~(stream.prefix /\ PreludeValid)
    /\ input_dbn_version' = IF stream.prefix THEN stream.version ELSE input_dbn_version
    /\ Return("Err", 0)
    /\ UNCHANGED <<machine, upgrade_policy, ts_out, pushed, history, setter_calls>>

\* A slip: the capacity asked for forgets the prelude still in front.
MetadataCapacityShort == stream.mlen
MetadataCapacity      == stream.mlen + METADATA_PRELUDE_LEN

DecodePrelude ==
    /\ call \in {"process", "multiple"} /\ state = "Prelude" /\ Missing <= 0
    /\ stream.prefix /\ PreludeValid
    /\ input_dbn_version' = stream.version
    /\ compat_buffer' =
         IF IsUpgradeSituation(upgrade_policy, stream.version) /\ compat_buffer.capacity = 0
         THEN DoubleCompat(compat_buffer) ELSE compat_buffer
    /\ state' = "Metadata" /\ length' = stream.mlen
    /\ buffer' = Grow(ConsumeNoshift(buffer, METADATA_PRELUDE_LEN), MetadataCapacity)
    /\ base' = base + METADATA_PRELUDE_LEN
    /\ UNCHANGED <<pend, upgrade_policy, ts_out, call, multi, result, stream, out,
                   skipped, setter_calls>>

\* decode_metadata; a body that does not parse leaves the machine where it is.
DecodeMetadataErr ==
    /\ call \in {"process", "multiple"} /\ state = "Metadata" /\ Missing <= 0
    /\ ~stream.good
    /\ Return("Err", 0)
    /\ UNCHANGED <<machine, config, pushed, history, setter_calls>>

DecodeMetadata ==
    /\ call \in {"process", "multiple"} /\ state = "Metadata" /\ Missing <= 0
    /\ stream.good
    /\ ts_out' = stream.ts_out
    /\ buffer' = Shift(Consume(buffer, length))
    /\ base' = base + length
    /\ state' = "Record" /\ length' = 0
    /\ Return("Metadata", 0)
    /\ UNCHANGED <<pend, compat_buffer, input_dbn_version, upgrade_policy, pushed, stream,
                   out, skipped, setter_calls>>

-----------------------------------------------------------------------------
(* State::Record in process: one record. *)

\* What becomes of the record at offset o under the present configuration.
UpgradeAt(o) ==
    UpgradeRecord(input_dbn_version, upgrade_policy, RTypeAt(o), LengthAt(o))

InBoundsAt(o) == ReadsInBounds(UpgradeAt(o), RTypeAt(o), LengthAt(o), ts_out)

\* The bytes it writes to the compat buffer: none if the size assertion of
\* RecordRef::get fails first.
CompatBytesAt(o) ==
    IF InBoundsAt(o) THEN UpgradedSize(UpgradeAt(o), RTypeAt(o), ts_out) ELSE 0

\* upgrade_record writes only when some space stays free: its test is `>=`.
FitsAt(o, space) == CompatBytesAt(o) > 0 => CompatBytesAt(o) < space

\* What the client is handed for it: the layout it was read as, the size it now has.
DeliveredAt(o) ==
    [rec    |-> IndexAt(o),
     from   |-> UpgradeAt(o).from,
     size   |-> IF UpgradeAt(o).to = 0 THEN LengthAt(o) ELSE CompatBytesAt(o),
     policy |-> upgrade_policy]

\* RecordRef::get panics on a record shorter than the layout it is read as, and
\* upgrade_record_with_version on a version above DBN_VERSION.
AfterReading(o, next) ==
    IF InBoundsAt(o) /\ input_dbn_version <= DBN_VERSION THEN next ELSE "panicked"

RecordReady ==
    /\ call = "process" /\ state = "Record"
    /\ AvailableData(buffer) >= HEADER_LEN /\ Missing <= 0

RecordInvalid ==
    /\ RecordReady /\ LengthAt(base) < HEADER_LEN
    /\ Return("Err", 0)
    /\ UNCHANGED <<machine, config, pushed, history, setter_calls>>

\* upgrade_record returned None: the compat buffer grows and the loop continues.
RecordNeedsCompat ==
    /\ RecordReady /\ LengthAt(base) >= HEADER_LEN
    /\ ~FitsAt(base, AvailableSpace(compat_buffer))
    /\ compat_buffer' = DoubleCompat(compat_buffer)
    /\ input_dbn_version' = UpgradeAt(base).version
    /\ UNCHANGED <<state, length, pend, buffer, upgrade_policy, ts_out, call, multi, result,
                   history, setter_calls>>

RecordDecoded ==
    /\ RecordReady /\ LengthAt(base) >= HEADER_LEN
    /\ FitsAt(base, AvailableSpace(compat_buffer))
    /\ input_dbn_version' = UpgradeAt(base).version
    /\ compat_buffer' = Fill(compat_buffer, CompatBytesAt(base))
    /\ state' = "Consume"
    /\ pend' = [read |-> LengthAt(base), compat |-> CompatBytesAt(base),
                compat_fill |-> 0, expand_compat |-> FALSE]
    /\ out' = Append(out, DeliveredAt(base))
    /\ result' = Returned("Record", 1)
    /\ call' = AfterReading(base, "idle")
    /\ UNCHANGED <<length, buffer, upgrade_policy, ts_out, multi, stream, base, skipped,
                   setter_calls>>

-----------------------------------------------------------------------------
(* The second loop of process_multiple: as many records as fit. *)

BatchStart ==
    /\ call = "multiple" /\ state = "Record"
    /\ call' = "batch"
    /\ UNCHANGED <<machine, config, multi, result, history, setter_calls>>

BatchHasCapacity == batch.limit = NONE \/ batch.count < batch.limit
BatchGoesOn      == BatchHasCapacity /\ batch.read < AvailableData(buffer)
BatchOffset      == base + batch.read
BatchLength      == LengthAt(BatchOffset)
BatchComplete    == BatchLength <= AvailableData(buffer) - batch.read
BatchFits        == FitsAt(BatchOffset, AvailableSpace(compat_buffer) - batch.compat)

\* upgrade_record returned None.  The slip: every early end of the batch counts.
ExpandAlways == BatchGoesOn
ExpandCompat == BatchGoesOn /\ BatchComplete /\ ~BatchFits

\* The error discards what was decoded: nothing is consumed, and no result says
\* how many records were pushed before it.  The references to them stay in the Vec
\* given to process_all, which the borrow of the machine for their lifetime keeps
\* from being given to another call: the next one pushes them to another Vec.
BatchInvalid ==
    /\ call = "batch" /\ BatchGoesOn /\ BatchLength < HEADER_LEN
    /\ Return("Err", 0)
    /\ pushed' = <<>>
    /\ UNCHANGED <<machine, config, history, setter_calls>>

BatchPush ==
    /\ call = "batch" /\ BatchGoesOn /\ BatchLength >= HEADER_LEN /\ BatchComplete
    /\ BatchFits
    /\ call' = AfterReading(BatchOffset, "batch")
    /\ input_dbn_version' = UpgradeAt(BatchOffset).version
    /\ batch' = [count  |-> batch.count + 1,
                 read   |-> batch.read + BatchLength,
                 compat |-> batch.compat + CompatBytesAt(BatchOffset),
                 limit  |-> batch.limit]
    /\ pushed' = Append(pushed, DeliveredAt(BatchOffset))
    /\ UNCHANGED <<machine, upgrade_policy, ts_out, result, history, setter_calls>>

BatchEnd ==
    /\ call = "batch"
    /\ BatchGoesOn => BatchLength >= HEADER_LEN /\ ~(BatchComplete /\ BatchFits)
    /\ input_dbn_version' = IF BatchGoesOn /\ BatchComplete
                            THEN UpgradeAt(BatchOffset).version ELSE input_dbn_version
    /\ state' = "Consume"
    /\ pend' = [read |-> batch.read, compat |-> batch.compat,
                compat_fill |-> batch.compat, expand_compat |-> ExpandCompat]
    /\ out' = out \o pushed /\ pushed' = <<>>
    /\ Return("Records", batch.count)
    /\ UNCHANGED <<length, buffer, compat_buffer, upgrade_policy, ts_out, stream, base,
                   skipped, setter_calls>>

-----------------------------------------------------------------------------
\* One turn of the loop of the call in progress.
LoopStep ==
    \/ ConsumeStep \/ ReadMore
    \/ DecodePrelude \/ DecodePreludeErr \/ DecodeMetadata \/ DecodeMetadataErr
    \/ RecordInvalid \/ RecordNeedsCompat \/ RecordDecoded
    \/ BatchStart \/ BatchInvalid \/ BatchPush \/ BatchEnd

ClientStep ==
    \/ \E n \in Chunks : FillSpace(n) \/ WriteAll(n)
    \/ \E k \in 1..2 : Skip(k)
    \/ \E s \in Streams : ResetFsm(s)
    \/ \E policy \in Policies : SetUpgradePolicy(policy)
    \/ SetInputDbnVersion
    \/ \E b \in BOOLEAN : SetTsOut(b)
    \/ CallProcess
    \/ \E limit \in Limits : CallProcessMultiple(limit)

Next == LoopStep \/ ClientStep

Spec == Init /\ [][Next]_vars

-----------------------------------------------------------------------------
(* What the accessors answer between calls. *)

\* last_record(): the record the returned reference points at.  Its two cases with
\* data, buffer.data() and the compat buffer's, both belong to the record at base.
LastRecordIsSome == state = "Consume" /\ pend.compat_fill = 0
LastRecord       == IndexAt(base)

-----------------------------------------------------------------------------
(* Properties. *)

TypeOK ==
    /\ state \in {"Prelude", "Metadata", "Record", "Consume"}
    /\ length \in Nat
    /\ pend \in Pends
    /\ buffer \in Buffers /\ compat_buffer \in Buffers
    /\ input_dbn_version \in Nat \cup {NONE}
    /\ upgrade_policy \in Policies /\ ts_out \in BOOLEAN
    /\ call \in {"idle", "process", "multiple", "batch", "panicked"}
    /\ batch \in Batches
    /\ result \in Results
    /\ stream \in Streams /\ base \in Nat /\ setter_calls \in Nat

\* What State::Consume still has to release is there: the bytes read are data of
\* the buffer, and the upgraded bytes are all the compat buffer holds (process)
\* or fit in its free space (process_multiple, which leaves filling to consume).
\* Outside State::Consume the compat buffer is empty.  data() and last_record()
\* slice both buffers on the strength of this.
PendingIsBuffered ==
    /\ InOrder(buffer) /\ InOrder(compat_buffer)
    /\ pend.read <= AvailableData(buffer)
    /\ \/ pend.compat_fill = 0 /\ AvailableData(compat_buffer) = pend.compat
       \/ /\ pend.compat_fill = pend.compat /\ AvailableData(compat_buffer) = 0
          /\ pend.compat < AvailableSpace(compat_buffer)

Handed == {out[j].rec : j \in 1..Len(out)} \cup skipped

\* However the bytes were cut into chunks and whichever of process, process_all,
\* process_many and skip was called: the records handed out or skipped are exactly
\* the first ones of the stream, each once and in order, and the bytes released
\* from the buffer are exactly theirs.
ExactlyOnce ==
    /\ Handed = 1..Cardinality(Handed)
    /\ \A j, k \in 1..Len(out) : j < k => out[j].rec < out[k].rec
    /\ state \in {"Record", "Consume"} =>
         base + pend.read = stream.at[Cardinality(Handed) + 1]

\* A record reaches the client in the layout of the version the upgrade policy
\* promises for its type, and it was read as the layout it has in the stream,
\* also before and after the version of a stream without metadata is detected.
OutputLayout ==
    \A j \in 1..Len(out) :
        LET d  == out[j]
            rt == stream.rtype[d.rec]
            v  == Most(stream.version, OutputVersion(d.policy, stream.version))
        IN  /\ d.size = EncodedSize(rt, v, stream.ts_out)
            /\ d.from # 0 => RecSize[rt][d.from] = RecSize[rt][stream.version]

\* upgrade_record never reads a record as a layout longer than the record, however
\* and whenever its version was set or detected, and never meets a version above
\* DBN_VERSION, although a failed prelude leaves one behind.
NeverPanics == call # "panicked"

\* ReadMore(n) is returned with room for the n bytes in space(): a client that
\* reads into space() is never handed an empty slice, which it would take for the
\* end of the input.
RoomToReadMore == result.tag = "ReadMore" => AvailableSpace(buffer) >= result.n

\* set_upgrade_policy: "This function will return an error if the `version` and
\* `upgrade_policy` are incompatible."
PolicyIsValidated ==
    result.tag = "PolicySet" /\ input_dbn_version # NONE =>
        ValidateCompatibility(upgrade_policy, input_dbn_version)

\* last_record: "Returns a reference to the most recently decoded record if exists,
\* otherwise `None`", and the reference is "previously validated as record".
LastRecordIsLatest ==
    call = "idle" /\ LastRecordIsSome =>
        out # <<>> /\ LastRecord = out[Len(out)].rec

\* The compat buffer grows only when the upgraded records of one call and one more
\* need at least half of it, so upgrading a long stream does not grow it for ever.
CompatGrowsWhenNeeded ==
    [][compat_buffer'.capacity > compat_buffer.capacity =>
          compat_buffer.capacity <= 2 * (pend.compat + MAX_RECORD_LEN)]_vars
=============================================================================
