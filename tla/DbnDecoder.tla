----------------------------- MODULE DbnDecoder -----------------------------
(***************************************************************************)
(* The decoders of decode/dbn/sync.rs and decode/dbn/async.rs: the loops   *)
(* that move bytes from a reader into a DbnFsm and turn what the FSM       *)
(* returns into answers to their caller.  The reader may return any part   *)
(* of what it has and may fail; a future of the async decoders may be      *)
(* dropped at its only await point, the read.                              *)
(*                                                                         *)
(* decode(): the metadata, once; then decode_ref() for each record.        *)
(***************************************************************************)
EXTENDS DbnFsm

CONSTANTS
    Flavours,      \* subset of {"sync", "async"}
    MinFirstRead,  \* how many bytes have arrived, at least, after decode()'s first read
    MaxFaults      \* bound: failed reads and dropped futures in one behaviour

ASSUME DecoderAssumption ==
    Flavours \subseteq {"sync", "async"} /\ MinFirstRead \in Nat /\ MaxFaults \in Nat

VARIABLES
    flavour,
    pc,          \* where the decoder is: see the actions
    missing,     \* n of the last ReadMore(n) less what was read since
    next,        \* the number of the record the caller gets next
    answer,      \* what the caller was last answered
    faults

driver == <<flavour, pc, missing, next, answer, faults>>
dvars  == <<vars, driver>>

Answer(tag, rec) == [tag |-> tag, rec |-> rec]
NoAnswer         == Answer("None", 0)

\* MetadataDecoder::new or with_upgrade_policy on a stream with metadata,
\* RecordDecoder::with_version on one without.
DInit ==
    /\ Init
    /\ flavour \in Flavours
    /\ pc = IF stream.meta THEN "meta" ELSE "ready"
    /\ compat_buffer.capacity = IF stream.meta THEN 0 ELSE MAX_RECORD_LEN
    /\ input_dbn_version = IF stream.meta THEN NONE ELSE stream.version
    /\ missing = 0 /\ next = 1 /\ answer = NoAnswer /\ faults = 0

\* One turn of the FSM's loop.
FsmStep == LoopStep /\ UNCHANGED driver

Goto(label) == pc' = label /\ UNCHANGED <<flavour, next, answer, faults>>
Reply(label, a) == pc' = label /\ answer' = a /\ UNCHANGED <<flavour, next, faults>>

\* The reader is at its end, or was handed an empty slice: read returns Ok(0).
ReadsNothing == Arrived >= stream.total \/ AvailableSpace(buffer) = 0

\* A read of n bytes into space() and fill(n).
ReadSome(n) == FillSpace(n)

-----------------------------------------------------------------------------
(* MetadataDecoder::decode and decode_metadata_with_fsm. *)

FirstRead(n) ==
    /\ pc = "meta" /\ call = "idle"
    /\ Arrived + n >= Least(MinFirstRead, stream.total)
    /\ ReadSome(n)
    /\ UNCHANGED missing /\ Goto("meta_call")

FirstReadNothing ==
    /\ pc = "meta" /\ call = "idle" /\ ReadsNothing
    /\ UNCHANGED <<vars, missing>> /\ Goto("meta_call")

MetaCall ==
    /\ pc \in {"meta_call", "meta_again"}
    /\ CallProcess
    /\ UNCHANGED missing
    /\ Goto(IF pc = "meta_call" THEN "meta_wait" ELSE "meta_last")

\* ReadMore(n): read until n bytes have arrived.  The second process() of the sync
\* decoder must not return it: unreachable!("read requested number of bytes").
MetaReadMore ==
    /\ pc \in {"meta_wait", "meta_last"} /\ call = "idle" /\ result.tag = "ReadMore"
    /\ missing' = result.n
    /\ UNCHANGED vars /\ Goto(IF pc = "meta_wait" THEN "meta_read" ELSE "panicked")

\* After those, decode() of the sync decoder calls process() once more, where the
\* async one loops.
AfterReadMore == IF flavour = "sync" THEN "meta_again" ELSE "meta_call"

\* total_read >= n.  The slip: one read is taken to be enough.
OneReadIsEnough(n) == n > 0
ReadEnough(n)      == n >= missing

MetaRead(n) ==
    /\ pc = "meta_read"
    /\ ReadSome(n)
    /\ missing' = IF ReadEnough(n) THEN 0 ELSE missing - n
    /\ Goto(IF ReadEnough(n) THEN AfterReadMore ELSE "meta_read")

MetaEof ==
    /\ pc = "meta_read" /\ ReadsNothing
    /\ UNCHANGED <<vars, missing>> /\ Reply("meta", Answer("Err", 0))

MetaErr ==
    /\ pc \in {"meta_wait", "meta_last"} /\ call = "idle" /\ result.tag = "Err"
    /\ UNCHANGED <<vars, missing>> /\ Reply("meta", Answer("Err", 0))

\* RecordDecoder::from(metadata_decoder) reserves the compat buffer.
MetaDone ==
    /\ pc \in {"meta_wait", "meta_last"} /\ call = "idle" /\ result.tag = "Metadata"
    /\ compat_buffer' =
         IF IsUpgradeSituation(upgrade_policy, input_dbn_version)
         THEN Grow(compat_buffer, DEFAULT_BUF_SIZE) ELSE compat_buffer
    /\ UNCHANGED <<state, length, pend, buffer, config, call, multi, result, history,
                   setter_calls, missing>>
    /\ Goto("ready")

-----------------------------------------------------------------------------
(* RecordDecoder::decode_ref and decode_record_ref_with_fsm. *)

DecodeRef ==
    /\ pc = "ready"
    /\ UNCHANGED <<vars, missing>> /\ Reply("rec_call", NoAnswer)

RecCall ==
    /\ pc = "rec_call"
    /\ CallProcess
    /\ UNCHANGED missing /\ Goto("rec_wait")

RecReadMore ==
    /\ pc = "rec_wait" /\ call = "idle" /\ result.tag = "ReadMore"
    /\ UNCHANGED <<vars, missing>> /\ Goto("rec_read")

RecRead(n) ==
    /\ pc = "rec_read"
    /\ ReadSome(n)
    /\ UNCHANGED missing /\ Goto("rec_call")

\* Ok(0) or UnexpectedEof: the input is taken to be exhausted.
RecEof ==
    /\ pc = "rec_read" /\ ReadsNothing
    /\ UNCHANGED <<vars, missing>> /\ Reply("ready", Answer("Exhausted", 0))

RecErr ==
    /\ pc = "rec_wait" /\ call = "idle" /\ result.tag = "Err"
    /\ UNCHANGED <<vars, missing>> /\ Reply("ready", Answer("Err", 0))

\* ProcessResult::Record: Ok(self.fsm.last_record()).
RecDone ==
    /\ pc = "rec_wait" /\ call = "idle" /\ result.tag = "Record"
    /\ pc' = "ready"
    /\ answer' = IF LastRecordIsSome THEN Answer("Record", LastRecord)
                                     ELSE Answer("Exhausted", 0)
    /\ next' = next + 1
    /\ UNCHANGED <<vars, flavour, missing, faults>>

\* skip_bytes over the next k records: what is buffered is released by fsm.skip, the
\* rest is skipped in the reader.
SkipBytes(k) ==
    LET n_bytes == stream.at[next + k] - stream.at[next]
    IN  /\ pc = "ready" /\ next + k <= Len(stream.at)
        /\ stream.at[next + k] <= stream.total
        /\ \A i \in next .. next + k - 1 : stream.len[i] >= HEADER_LEN
        /\ buffer' = Consume(Released, n_bytes)
        /\ compat_buffer' = IF state = "Consume" THEN ConsumedCompat ELSE compat_buffer
        /\ base' = BaseAfter(Released) + n_bytes
        /\ state' = "Record" /\ pend' = NoPend /\ result' = Nothing
        /\ skipped' = skipped \cup (next .. next + k - 1)
        /\ next' = next + k /\ answer' = NoAnswer
        /\ UNCHANGED <<length, config, call, multi, stream, out, setter_calls, flavour, pc,
                       missing, faults>>

-----------------------------------------------------------------------------
(* Faults. *)

Reading == pc \in {"meta", "meta_read", "rec_read"}

\* Where the caller is once the call in progress is given up.
Abandoned == IF pc = "rec_read" THEN "ready" ELSE "meta"

\* The read fails with another error than UnexpectedEof: the call returns it.
ReadFails ==
    /\ Reading /\ faults < MaxFaults
    /\ faults' = faults + 1
    /\ pc' = Abandoned /\ answer' = Answer("Err", 0)
    /\ UNCHANGED <<vars, flavour, missing, next>>

\* The future is dropped while it waits for the read.
Cancel ==
    /\ flavour = "async" /\ Reading /\ faults < MaxFaults
    /\ faults' = faults + 1
    /\ pc' = Abandoned /\ answer' = NoAnswer
    /\ UNCHANGED <<vars, flavour, missing, next>>

-----------------------------------------------------------------------------
ReadBytes == \E n \in Chunks : FirstRead(n) \/ MetaRead(n) \/ RecRead(n)

DecoderStep ==
    \/ FsmStep
    \/ FirstReadNothing \/ MetaCall \/ MetaReadMore \/ MetaEof
    \/ MetaErr \/ MetaDone
    \/ DecodeRef \/ RecCall \/ RecReadMore \/ RecEof \/ RecErr \/ RecDone

DNext == DecoderStep \/ ReadBytes \/ (\E k \in 1..2 : SkipBytes(k)) \/ ReadFails \/ Cancel

\* The caller keeps calling, the decoder runs, and a reader that has bytes returns
\* some; nothing obliges it to fail, or the caller to drop a future or to skip.
DSpec == DInit /\ [][DNext]_dvars /\ WF_dvars(DecoderStep) /\ WF_dvars(ReadBytes)

-----------------------------------------------------------------------------
(* Properties. *)

\* The complete records, up to the first that cannot be decoded.
Decodable ==
    IF stream.meta /\ ~(stream.prefix /\ PreludeValid /\ stream.good) THEN {}
    ELSE {i \in 1..Len(stream.len) :
             /\ stream.at[i + 1] <= stream.total
             /\ \A j \in 1..i : stream.len[j] >= HEADER_LEN}

Abstract == INSTANCE RecordStream WITH size <- Cardinality(Decodable)

\* The decoders keep the promise of RecordStream whatever pieces the bytes arrive in
\* and whichever reads fail or are abandoned: no record is lost, repeated, reordered
\* or replaced by another, and exhaustion is never reported early.
ImplementsRecordStream == Abstract!Spec

\* Every complete record is eventually handed out (or skipped).
AllDelivered == <>(next = Cardinality(Decodable) + 1)

\* The bytes the metadata promises always suffice: decode() does not run into
\* unreachable!("read requested number of bytes").
MetadataDecoderNeverPanics == pc # "panicked"
=============================================================================
