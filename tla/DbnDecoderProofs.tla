-------------------------- MODULE DbnDecoderProofs --------------------------
(***************************************************************************)
(* The sync and async decoders implement RecordStream, and decode() of the *)
(* metadata does not reach unreachable!, for every stream, every way its   *)
(* reads are cut short, fail or are abandoned, and every skip.             *)
(***************************************************************************)
EXTENDS DbnDecoder, DbnFsmProofs

-----------------------------------------------------------------------------
(* The inductive invariant. *)

MetaPlaces == {"meta", "meta_call", "meta_wait", "meta_read", "meta_again", "meta_last"}
RecPlaces  == {"ready", "rec_call", "rec_wait", "rec_read"}

\* The decoder and its machine are in step: a call of process is in progress only where
\* the decoder waits for it, the metadata decoder sees the machine before the records,
\* until process returns the metadata, and the record decoder sees it behind.
WhereInv ==
    /\ pc \in MetaPlaces \cup RecPlaces \cup {"panicked"}
    /\ call \in {"idle", "process", "panicked"}
    /\ pc \notin {"meta_wait", "meta_last", "rec_wait"} => call = "idle"
    /\ call = "process" => result.tag = "None"
    /\ pc \in MetaPlaces =>
         /\ next = 1
         /\ \/ state \in {"Prelude", "Metadata"} /\ result.tag # "Metadata"
            \/ /\ state = "Record" /\ result.tag = "Metadata"
               /\ call = "idle" /\ pc \in {"meta_wait", "meta_last"}
    /\ pc \in RecPlaces => state \in {"Record", "Consume"}

\* What the machine has passed of the stream was there and was valid.
StreamInv ==
    /\ state = "Prelude" => stream.meta /\ base = 0
    /\ state = "Metadata" => /\ stream.meta /\ base = METADATA_PRELUDE_LEN
                             /\ length = stream.mlen /\ stream.prefix /\ PreludeValid
    /\ state \in {"Record", "Consume"} /\ stream.meta =>
         stream.prefix /\ PreludeValid /\ stream.good
    /\ Arrived <= stream.total
    /\ pend.compat_fill = 0

\* process returned a record that decode_ref has not answered with yet.
Unanswered == pc = "rec_wait" /\ result.tag = "Record"

\* Every record before the caller's next one was complete, and the next one starts where
\* the bytes owed end, or is the one just decoded.
NextInv ==
    /\ next \in 1..Len(stream.len) + 1
    /\ \A i \in 1..Len(stream.len) :
          i < next => stream.len[i] >= HEADER_LEN /\ stream.at[i + 1] <= stream.total
    /\ state \in {"Record", "Consume"} /\ ~Unanswered => base + pend.read = stream.at[next]
    /\ Unanswered => /\ state = "Consume" /\ next <= Len(stream.len) /\ IndexAt(base) = next
                     /\ base = stream.at[next] /\ pend.read = stream.len[next]
                     /\ stream.len[next] >= HEADER_LEN
                     /\ stream.at[next + 1] <= stream.total

\* The record decoder reads only when the next record is not complete.
WaitInv ==
    /\ pc = "rec_read" => result.tag = "ReadMore"
    /\ pc \in {"rec_wait", "rec_read"} /\ result.tag = "ReadMore" =>
         /\ state = "Record" /\ Missing > 0 /\ result.n > 0
         /\ AvailableData(buffer) < HEADER_LEN \/ LengthAt(base) >= HEADER_LEN

\* The metadata decoder calls process with the prelude there, unless the input ends
\* before, and for the last time with all of the metadata.
MetaInv ==
    /\ pc # "panicked"
    /\ pc \in {"meta_call", "meta_wait"} /\ state = "Prelude" =>
         Arrived >= METADATA_PRELUDE_LEN \/ Arrived >= stream.total
    /\ pc \in {"meta_wait", "meta_last"} /\ result.tag = "ReadMore" =>
         result.n = Missing /\ Missing > 0
    /\ pc = "meta_read" =>
         /\ state = "Prelude" => Arrived >= stream.total
         /\ state = "Metadata" => missing = length - AvailableData(buffer)
    /\ pc = "meta_again" => state = "Metadata" /\ AvailableData(buffer) >= length
    /\ pc = "meta_last" =>
         /\ state # "Prelude" /\ result.tag # "ReadMore"
         /\ state = "Metadata" => AvailableData(buffer) >= length

-----------------------------------------------------------------------------
(* The steps of the decoders as steps of the machine. *)

\* Nothing changes the stream or the policy.
LEMMA Static == ASSUME [DNext]_dvars PROVE UNCHANGED <<stream, upgrade_policy>>
<1>1. CASE LoopStep
  BY <1>1 DEF LoopStep, ConsumeStep, ReadMore, DecodePrelude, DecodePreludeErr, DecodeMetadata,
     DecodeMetadataErr, RecordInvalid, RecordNeedsCompat, RecordDecoded, BatchStart,
     BatchInvalid, BatchPush, BatchEnd, Return, config, history
<1>2. CASE \E n \in Chunks : FillSpace(n)
  BY <1>2 DEF FillSpace, config, history
<1>3. CASE CallProcess
  BY <1>3 DEF CallProcess, config, history
<1>4. CASE UNCHANGED vars
  BY <1>4 DEF vars, config, history
<1>5. CASE MetaDone
  BY <1>5 DEF MetaDone, config, history
<1>6. CASE \E k \in 1..2 : SkipBytes(k)
  BY <1>6 DEF SkipBytes, config
<1>7. CASE ReadBytes
  BY <1>2, <1>7 DEF ReadBytes, FirstRead, MetaRead, RecRead, ReadSome
<1>8. CASE DecoderStep
  BY <1>1, <1>3, <1>4, <1>5, <1>8 DEF DecoderStep, FsmStep, FirstReadNothing, MetaCall,
     MetaReadMore, MetaEof, MetaErr, DecodeRef, RecCall, RecReadMore, RecEof, RecErr, RecDone
<1>9. CASE ReadFails \/ Cancel
  BY <1>4, <1>9 DEF ReadFails, Cancel
<1>10. CASE UNCHANGED dvars
  BY <1>4, <1>10 DEF dvars
<1> QED
  BY <1>6, <1>7, <1>8, <1>9, <1>10 DEF DNext

\* What skip_bytes is asked for is a size, and what it has to release first is buffered.
LEMMA SkipFacts ==
    ASSUME NEW k \in 1..2, IInv, WhereInv, NextInv, SkipBytes(k)
    PROVE  LET n == stream.at[next + k] - stream.at[next]
               d == AvailableData(buffer) - pend.read
           IN  /\ n \in Nat /\ d \in Nat /\ next \in 1..Len(stream.len)
               /\ next + k \in 1..Len(stream.len) + 1
               /\ base + pend.read = stream.at[next] /\ base' = stream.at[next + k]
               /\ Sound(buffer') /\ buffer'.capacity = buffer.capacity
               /\ 2 * buffer'.position <= buffer.capacity
               /\ AvailableData(buffer') = d - Least(n, d)
<1> DEFINE n == stream.at[next + k] - stream.at[next]
           d == AvailableData(buffer) - pend.read
<1>1. /\ pc = "ready" /\ next + k <= Len(stream.at)
      /\ buffer' = Consume(Released, n) /\ base' = BaseAfter(Released) + n
  BY DEF SkipBytes
<1>2. stream \in Streams /\ IsStream(stream) /\ base \in Nat /\ pend.read \in Nat
  BY StreamAssumption DEF IInv, TypeOK, Pends
<1>3. /\ Len(stream.len) \in Nat /\ Len(stream.at) = Len(stream.len) + 1
      /\ \A i \in 1..Len(stream.len) + 1 : stream.at[i] \in Nat
  BY <1>2, Offsets
<1>4. next \in 1..Len(stream.len) + 1 /\ next \in Nat
  BY <1>3 DEF NextInv
<1>5. next \in 1..Len(stream.len) /\ next + k \in 1..Len(stream.len) + 1
  BY <1>1, <1>3, <1>4
<1>6. next + k <= Len(stream.len) + 1
  BY <1>5
<1>7. n \in Nat
  BY <1>2, <1>5, <1>6, RecordsSpan
<1>8. base + pend.read = stream.at[next]
  BY <1>1 DEF NextInv, WhereInv, RecPlaces, Unanswered
<1>9. Sound(buffer) /\ AvailableData(buffer) \in Nat /\ pend.read <= AvailableData(buffer)
  BY Available DEF IInv, PendInv
<1>10. d \in Nat
  BY <1>2, <1>9
<1>11. /\ Sound(Released) /\ Released.capacity = buffer.capacity
       /\ AvailableData(Released) = d /\ BaseAfter(Released) = base + pend.read
  <2>1. CASE state = "Consume"
    BY <2>1, ConsumedBufferFacts DEF Released
  <2>2. CASE state # "Consume"
    <3>1. pend.read = 0
      BY <2>2 DEF IInv, PendInv, NoPend
    <3> QED
      BY <1>2, <1>9, <2>2, <3>1 DEF Released, BaseAfter, Arrived
  <2> QED
    BY <2>1, <2>2
<1>12. base' = stream.at[next + k]
  <2>1. stream.at[next] \in Nat /\ stream.at[next + k] \in Nat
    BY <1>3, <1>5
  <2> QED
    BY <1>1, <1>8, <1>11, <2>1
<1>13. /\ Sound(buffer') /\ buffer'.capacity = buffer.capacity
       /\ 2 * buffer'.position <= buffer.capacity
       /\ AvailableData(buffer') = d - Least(n, d)
  <2> HIDE DEF n, d
  <2> QED
    BY <1>1, <1>7, <1>11, ConsumeSound
<1> QED
  BY <1>5, <1>7, <1>8, <1>10, <1>12, <1>13

\* skip_bytes leaves the machine in order.
LEMMA SkipBytesMachine ==
    ASSUME NEW k \in 1..2, IInv, RoomInv, WhereInv, NextInv, SkipBytes(k)
    PROVE  IInv' /\ RoomInv'
<1>1. /\ compat_buffer' = (IF state = "Consume" THEN ConsumedCompat ELSE compat_buffer)
      /\ state' = "Record" /\ pend' = NoPend /\ result' = Nothing
      /\ UNCHANGED <<length, config, call, batch, pushed, stream, setter_calls>>
  BY DEF SkipBytes, multi
<1>2. /\ Sound(buffer') /\ buffer'.capacity = buffer.capacity
      /\ 2 * buffer'.position <= buffer.capacity
  BY SkipFacts
<1>3. base' \in Nat
  <2>1. next + k \in 1..Len(stream.len) + 1 /\ base' = stream.at[next + k]
    BY SkipFacts
  <2>2. stream \in Streams
    BY DEF IInv, TypeOK
  <2> QED
    BY <2>1, <2>2, Offsets
<1>4. /\ Sound(compat_buffer') /\ AvailableData(compat_buffer') = 0
      /\ 2 * compat_buffer'.position <= compat_buffer'.capacity
  <2>1. CASE state = "Consume"
    BY <1>1, <2>1, ConsumedCompatFacts
  <2>2. CASE state # "Consume"
    BY <1>1, <2>2 DEF IInv, PendInv, CompatInv, NoPend
  <2> QED
    BY <2>1, <2>2
<1>5. AvailableData(buffer') \in Nat /\ AvailableSpace(compat_buffer') \in Nat
  BY <1>2, <1>4, Available
<1>6. TypeOK'
  BY <1>1, <1>2, <1>3, <1>4, Typed DEF IInv, TypeOK, config, Sound
<1>7. PendInv'
  BY <1>1, <1>4, <1>5 DEF PendInv, NoPend
<1>8. BatchInv'
  <2>1. call = "idle"
    BY DEF SkipBytes, WhereInv
  <2> QED
    BY <1>1, <1>5, <2>1 DEF IInv, BatchInv
<1>9. CompatInv'
  BY <1>1, <1>4 DEF CompatInv, NoPend
<1>10. IInv'
  BY <1>2, <1>4, <1>6, <1>7, <1>8, <1>9 DEF IInv
<1>11. result'.tag # "ReadMore" /\ buffer.capacity \in Nat
  BY <1>1, Available DEF Nothing, Returned, IInv
<1> QED
  BY <1>1, <1>2, <1>10, <1>11, RoomMoved

\* RecordDecoder::from only adds room for upgraded records.
LEMMA MetaDoneMachine ==
    ASSUME IInv, RoomInv, WhereInv, MetaDone PROVE IInv' /\ RoomInv'
<1>1. /\ UNCHANGED <<state, length, pend, buffer, config, call, batch, pushed, result, stream,
                     base, out, skipped, setter_calls>>
      /\ compat_buffer' = (IF IsUpgradeSituation(upgrade_policy, input_dbn_version)
                           THEN Grow(compat_buffer, DEFAULT_BUF_SIZE) ELSE compat_buffer)
  BY DEF MetaDone, multi, history
<1>2. pend = NoPend /\ call = "idle"
  <2>1. pc \in MetaPlaces /\ call = "idle"
    BY DEF MetaDone, MetaPlaces
  <2>2. state # "Consume"
    BY <2>1 DEF WhereInv
  <2> QED
    BY <2>1, <2>2 DEF IInv, PendInv
<1>3. Sound(compat_buffer) /\ DEFAULT_BUF_SIZE \in Nat
  BY LenAssumption DEF IInv
<1>4. /\ Sound(compat_buffer') /\ compat_buffer'.position = compat_buffer.position
      /\ compat_buffer'.capacity >= compat_buffer.capacity
      /\ AvailableData(compat_buffer') = AvailableData(compat_buffer)
  <2>1. /\ Sound(Grow(compat_buffer, DEFAULT_BUF_SIZE))
        /\ Grow(compat_buffer, DEFAULT_BUF_SIZE).position = compat_buffer.position
        /\ Grow(compat_buffer, DEFAULT_BUF_SIZE).capacity >= compat_buffer.capacity
        /\ AvailableData(Grow(compat_buffer, DEFAULT_BUF_SIZE)) = AvailableData(compat_buffer)
    BY <1>3, GrowSound
  <2>2. compat_buffer.capacity \in Nat
    BY <1>3, Available
  <2> QED
    BY <1>1, <1>3, <2>1, <2>2
<1>5. /\ AvailableData(buffer) \in Nat /\ AvailableSpace(compat_buffer') \in Nat
      /\ compat_buffer.capacity \in Nat /\ compat_buffer.position \in Nat
      /\ compat_buffer'.capacity \in Nat
  BY <1>3, <1>4, Available DEF IInv
<1>6. TypeOK'
  BY <1>1, <1>4 DEF IInv, TypeOK, config, Sound
<1>7. PendInv'
  BY <1>1, <1>2, <1>4 DEF IInv, PendInv, NoPend
<1>8. BatchInv'
  BY <1>1, <1>2, <1>5 DEF IInv, BatchInv
<1>9. CompatInv'
  BY <1>1, <1>2, <1>4, <1>5 DEF IInv, CompatInv, NoPend
<1>10. RoomInv'
  BY <1>1, RoomQuiet
<1> QED
  BY <1>1, <1>4, <1>6, <1>7, <1>8, <1>9, <1>10 DEF IInv

\* So is every step of a decoder.
LEMMA DNextMachine ==
    ASSUME RoomyBuffers, IInv, RoomInv, WhereInv, NextInv, [DNext]_dvars
    PROVE  IInv' /\ RoomInv'
<1>1. CASE [Next]_vars
  BY <1>1, NextIInv, NextRoom
<1>2. CASE ReadBytes
  <2>1. \E n \in Chunks : FillSpace(n)
    BY <1>2 DEF ReadBytes, FirstRead, MetaRead, RecRead, ReadSome
  <2> QED
    BY <1>1, <2>1 DEF Next, ClientStep
<1>3. CASE DecoderStep
  <2>1. LoopStep \/ CallProcess \/ UNCHANGED vars \/ MetaDone
    BY <1>3 DEF DecoderStep, FsmStep, FirstReadNothing, MetaCall, MetaReadMore, MetaEof,
       MetaErr, DecodeRef, RecCall, RecReadMore, RecEof, RecErr, RecDone
  <2> QED
    BY <1>1, <2>1, MetaDoneMachine DEF Next, ClientStep
<1>4. CASE ReadFails \/ Cancel \/ UNCHANGED dvars
  BY <1>1, <1>4 DEF ReadFails, Cancel, dvars
<1> QED
  BY <1>2, <1>3, <1>4, SkipBytesMachine DEF DNext

-----------------------------------------------------------------------------
(* The decoder and its machine stay in step. *)

\* A turn of the loop is one of process: the decoders use no other call.
LEMMA ProcessOnly ==
    ASSUME WhereInv, LoopStep
    PROVE  /\ call = "process" /\ result.tag = "None"
           /\ pc \in {"meta_wait", "meta_last", "rec_wait"}
           /\ pc \in {"meta_wait", "meta_last"} =>
                 state \in {"Prelude", "Metadata"} /\ next = 1
           /\ pc = "rec_wait" => state \in {"Record", "Consume"}
           /\ \/ ConsumeStep \/ ReadMore
              \/ DecodePrelude \/ DecodePreludeErr \/ DecodeMetadata \/ DecodeMetadataErr
              \/ RecordInvalid \/ RecordNeedsCompat \/ RecordDecoded
<1>1. call = "process"
  BY DEF WhereInv, LoopStep, ConsumeStep, ReadMore, DecodePrelude, DecodePreludeErr,
     DecodeMetadata, DecodeMetadataErr, RecordInvalid, RecordNeedsCompat, RecordDecoded,
     RecordReady, BatchStart, BatchInvalid, BatchPush, BatchEnd
<1>2. ~(BatchStart \/ BatchInvalid \/ BatchPush \/ BatchEnd)
  BY <1>1 DEF BatchStart, BatchInvalid, BatchPush, BatchEnd
<1>3. /\ result.tag = "None" /\ pc \in {"meta_wait", "meta_last", "rec_wait"}
  BY <1>1 DEF WhereInv
<1>4. pc \in {"meta_wait", "meta_last"} => state \in {"Prelude", "Metadata"} /\ next = 1
  BY <1>1 DEF WhereInv, MetaPlaces
<1>5. pc = "rec_wait" => state \in {"Record", "Consume"}
  BY DEF WhereInv, RecPlaces
<1> QED
  BY <1>1, <1>2, <1>3, <1>4, <1>5 DEF LoopStep

\* The decoder starts in WhereInv.
LEMMA DInitWhere == ASSUME DInit PROVE WhereInv
<1>1. PICK s \in Streams : stream = s /\ state = IF s.meta THEN "Prelude" ELSE "Record"
  BY DEF DInit, Init, Build
<1>2. call = "idle" /\ result.tag = "None"
  BY DEF DInit, Init, Nothing, Returned
<1> QED
  BY <1>1, <1>2 DEF DInit, WhereInv, MetaPlaces, RecPlaces

\* The steps of its machine keep WhereInv.
LEMMA LoopWhere == ASSUME WhereInv, FsmStep PROVE WhereInv'
<1>1. UNCHANGED <<pc, next>> /\ LoopStep
  BY DEF FsmStep, driver
<1>2. /\ call = "process" /\ result.tag = "None"
      /\ pc \in {"meta_wait", "meta_last", "rec_wait"}
      /\ pc \in {"meta_wait", "meta_last"} => state \in {"Prelude", "Metadata"} /\ next = 1
      /\ pc = "rec_wait" => state \in {"Record", "Consume"}
  BY <1>1, ProcessOnly
<1>3. CASE ConsumeStep
  BY <1>1, <1>2, <1>3 DEF ConsumeStep, WhereInv, MetaPlaces, RecPlaces
<1>4. CASE ReadMore \/ DecodePreludeErr \/ DecodeMetadataErr \/ RecordInvalid
  <2>1. /\ state' = state /\ call' = "idle" /\ result'.tag \in {"ReadMore", "Err"}
    BY <1>4 DEF ReadMore, DecodePreludeErr, DecodeMetadataErr, RecordInvalid, Return,
       Returned, machine
  <2> QED
    BY <1>1, <1>2, <2>1 DEF WhereInv, MetaPlaces, RecPlaces
<1>5. CASE DecodePrelude
  BY <1>1, <1>2, <1>5 DEF DecodePrelude, WhereInv, MetaPlaces, RecPlaces
<1>6. CASE DecodeMetadata
  <2>1. /\ state = "Metadata" /\ state' = "Record" /\ call' = "idle"
        /\ result'.tag = "Metadata"
    BY <1>6 DEF DecodeMetadata, Return, Returned
  <2> QED
    BY <1>1, <1>2, <2>1 DEF WhereInv, MetaPlaces, RecPlaces
<1>7. CASE RecordNeedsCompat
  BY <1>1, <1>2, <1>7 DEF RecordNeedsCompat, WhereInv, MetaPlaces, RecPlaces
<1>8. CASE RecordDecoded
  <2>1. /\ state = "Record" /\ state' = "Consume" /\ call' \in {"idle", "panicked"}
        /\ result'.tag = "Record"
    BY <1>8 DEF RecordDecoded, RecordReady, AfterReading, Returned
  <2> QED
    BY <1>1, <1>2, <2>1 DEF WhereInv, MetaPlaces, RecPlaces
<1> QED
  BY <1>1, <1>3, <1>4, <1>5, <1>6, <1>7, <1>8, ProcessOnly

\* Every step keeps them in step.
LEMMA DNextWhere == ASSUME WhereInv, [DNext]_dvars PROVE WhereInv'
<1>1. CASE ReadBytes
  <2>1. PICK n \in Chunks : FirstRead(n) \/ MetaRead(n) \/ RecRead(n)
    BY <1>1 DEF ReadBytes
  <2>2. /\ UNCHANGED <<state, call, next>> /\ call = "idle" /\ result'.tag = "None"
    BY <2>1 DEF FirstRead, MetaRead, RecRead, ReadSome, FillSpace, Goto, Nothing, Returned
  <2>3. \/ pc \in {"meta", "meta_read"} /\ pc' \in {"meta_call", "meta_again", "meta_read"}
        \/ pc = "rec_read" /\ pc' = "rec_call"
    BY <2>1 DEF FirstRead, MetaRead, RecRead, Goto, AfterReadMore
  <2> QED
    BY <2>2, <2>3 DEF WhereInv, MetaPlaces, RecPlaces
<1>2. CASE MetaCall \/ RecCall
  <2>1. /\ UNCHANGED <<state, next>> /\ call' = "process" /\ result'.tag = "None"
        /\ call = "idle"
    BY <1>2 DEF MetaCall, RecCall, CallProcess, Goto, Nothing, Returned, machine
  <2>2. \/ pc \in {"meta_call", "meta_again"} /\ pc' \in {"meta_wait", "meta_last"}
        \/ pc = "rec_call" /\ pc' = "rec_wait"
    BY <1>2 DEF MetaCall, RecCall, Goto
  <2> QED
    BY <2>1, <2>2 DEF WhereInv, MetaPlaces, RecPlaces
<1>3. CASE FirstReadNothing \/ MetaReadMore \/ MetaEof \/ MetaErr
  <2>1. UNCHANGED <<state, next, call, result>>
    BY <1>3 DEF FirstReadNothing, MetaReadMore, MetaEof, MetaErr, Goto, Reply, vars, machine
  <2>2. \/ pc = "meta" /\ pc' = "meta_call"
        \/ /\ pc \in {"meta_wait", "meta_last"} /\ call = "idle"
           /\ pc' \in {"meta_read", "panicked", "meta"} /\ result.tag \in {"ReadMore", "Err"}
        \/ pc = "meta_read" /\ pc' = "meta"
    BY <1>3 DEF FirstReadNothing, MetaReadMore, MetaEof, MetaErr, Goto, Reply
  <2> QED
    BY <2>1, <2>2 DEF WhereInv, MetaPlaces, RecPlaces
<1>4. CASE MetaDone
  <2>1. /\ UNCHANGED <<state, next, call, result>> /\ pc \in {"meta_wait", "meta_last"}
        /\ call = "idle" /\ result.tag = "Metadata" /\ pc' = "ready"
    BY <1>4 DEF MetaDone, Goto
  <2> QED
    BY <2>1 DEF WhereInv, MetaPlaces, RecPlaces
<1>5. CASE DecodeRef \/ RecReadMore \/ RecEof \/ RecErr \/ RecDone
  <2>1. UNCHANGED <<state, call, result>>
    BY <1>5 DEF DecodeRef, RecReadMore, RecEof, RecErr, RecDone, vars, machine
  <2>2. /\ pc \in RecPlaces /\ call = "idle" /\ pc' \in RecPlaces
    BY <1>5 DEF DecodeRef, RecReadMore, RecEof, RecErr, RecDone, Goto, Reply, WhereInv,
       RecPlaces
  <2> QED
    BY <2>1, <2>2 DEF WhereInv, MetaPlaces, RecPlaces
<1>6. CASE \E k \in 1..2 : SkipBytes(k)
  <2>1. /\ UNCHANGED <<call, pc>> /\ pc = "ready" /\ state' = "Record"
    BY <1>6 DEF SkipBytes
  <2> QED
    BY <2>1 DEF WhereInv, MetaPlaces, RecPlaces
<1>7. CASE ReadFails \/ Cancel
  <2>1. UNCHANGED <<state, call, result, next>>
    BY <1>7 DEF ReadFails, Cancel, vars, machine
  <2>2. \/ pc \in {"meta", "meta_read"} /\ pc' = "meta"
        \/ pc = "rec_read" /\ pc' = "ready"
    BY <1>7 DEF ReadFails, Cancel, Reading, Abandoned
  <2> QED
    BY <2>1, <2>2 DEF WhereInv, MetaPlaces, RecPlaces
<1>8. CASE UNCHANGED dvars
  BY <1>8 DEF dvars, driver, vars, machine, WhereInv
<1> QED
  BY <1>1, <1>2, <1>3, <1>4, <1>5, <1>6, <1>7, <1>8, LoopWhere DEF DNext, DecoderStep

-----------------------------------------------------------------------------
(* What the machine has passed of the stream. *)

\* The decoder starts in StreamInv.
LEMMA DInitStream == ASSUME DInit PROVE StreamInv
<1>1. PICK s \in Streams, size \in BufferSizes :
         /\ stream = s /\ state = (IF s.meta THEN "Prelude" ELSE "Record")
         /\ buffer = WithCapacity(size)
  BY DEF DInit, Init, Build
<1>2. base = 0 /\ pend.compat_fill = 0
  BY DEF DInit, Init, NoPend
<1>3. AvailableData(buffer) = 0
  BY <1>1, WithCapacitySound, LenAssumption
<1>4. IsStream(s)
  BY StreamAssumption
<1>5. Arrived <= stream.total
  BY <1>1, <1>2, <1>3, <1>4 DEF Arrived, IsStream
<1> QED
  BY <1>1, <1>2, <1>5 DEF StreamInv

\* Steps that leave the buffer and the place in the stream alone.
LEMMA StreamQuiet ==
    ASSUME StreamInv, UNCHANGED <<state, length, pend, buffer, base, stream, upgrade_policy>>
    PROVE  StreamInv'
BY DEF StreamInv, PreludeValid, Arrived

\* A turn of the loop releases what it passes.
LEMMA LoopStream ==
    ASSUME IInv, WhereInv, StreamInv, LoopStep, UNCHANGED <<stream, upgrade_policy>>
    PROVE  StreamInv'
<1>1. /\ IsStream(stream) /\ base \in Nat /\ Sound(buffer) /\ AvailableData(buffer) \in Nat
      /\ stream.total \in Nat /\ stream.mlen \in Nat /\ METADATA_PRELUDE_LEN \in Nat
  BY StreamAssumption, LenAssumption, Available DEF IInv, TypeOK, IsStream
<1>2. PreludeValid' <=> PreludeValid
  BY DEF PreludeValid
<1>3. CASE ReadMore \/ DecodePreludeErr \/ DecodeMetadataErr \/ RecordInvalid
  BY <1>3, StreamQuiet DEF ReadMore, DecodePreludeErr, DecodeMetadataErr, RecordInvalid,
     machine, history
<1>4. CASE RecordNeedsCompat
  BY <1>4, StreamQuiet DEF RecordNeedsCompat, history
<1>5. CASE ConsumeStep
  <2>1. /\ state = "Consume" /\ state' = "Record" /\ pend'.compat_fill = 0
        /\ buffer' = ConsumedBuffer /\ base' = BaseAfter(ConsumedBuffer)
    BY <1>5 DEF ConsumeStep, NoPend
  <2>2. Arrived' = Arrived
    <3>1. AvailableData(ConsumedBuffer) \in Nat
      BY ConsumedBufferFacts, Available
    <3> QED
      BY <1>1, <2>1, <3>1 DEF Arrived, BaseAfter
  <2> QED
    BY <1>2, <2>1, <2>2 DEF StreamInv
<1>6. CASE DecodePrelude
  <2> DEFINE rest == ConsumeNoshift(buffer, METADATA_PRELUDE_LEN)
  <2>1. /\ state = "Prelude" /\ state' = "Metadata" /\ length' = stream.mlen
        /\ base' = base + METADATA_PRELUDE_LEN /\ pend' = pend
        /\ stream.prefix /\ PreludeValid /\ Missing <= 0
        /\ buffer' = Grow(rest, MetadataCapacity)
    BY <1>6 DEF DecodePrelude
  <2>2. Missing = METADATA_PRELUDE_LEN - AvailableData(buffer)
    BY <2>1 DEF Missing
  <2>3. Least(METADATA_PRELUDE_LEN, AvailableData(buffer)) = METADATA_PRELUDE_LEN
    BY <1>1, <2>1, <2>2 DEF Least
  <2>4. Sound(rest) /\ AvailableData(rest) = AvailableData(buffer) - METADATA_PRELUDE_LEN
    BY <1>1, <2>3, ConsumeNoshiftSound
  <2> HIDE DEF rest
  <2>5. AvailableData(buffer') = AvailableData(buffer) - METADATA_PRELUDE_LEN
    <3>1. MetadataCapacity \in Nat
      BY <1>1 DEF MetadataCapacity
    <3> QED
      BY <2>1, <2>4, <3>1, GrowSound
  <2>6. Arrived' = Arrived
    BY <1>1, <2>1, <2>5 DEF Arrived
  <2> QED
    BY <1>1, <1>2, <2>1, <2>6 DEF StreamInv
<1>7. CASE DecodeMetadata
  <2>1. /\ state = "Metadata" /\ state' = "Record" /\ base' = base + length /\ pend' = pend
        /\ stream.good /\ Missing <= 0 /\ length = stream.mlen
        /\ buffer' = Shift(Consume(buffer, length))
    BY <1>7 DEF DecodeMetadata, StreamInv
  <2>2. Missing = length - AvailableData(buffer)
    BY <2>1 DEF Missing
  <2>3. Least(length, AvailableData(buffer)) = length
    BY <1>1, <2>1, <2>2 DEF Least
  <2>4. AvailableData(buffer') = AvailableData(buffer) - length
    BY <1>1, <2>1, <2>3, ConsumeSound, ShiftSound
  <2>5. Arrived' = Arrived
    BY <1>1, <2>1, <2>4 DEF Arrived
  <2> QED
    BY <1>2, <2>1, <2>5 DEF StreamInv
<1>8. CASE RecordDecoded
  <2>1. /\ state = "Record" /\ state' = "Consume" /\ pend'.compat_fill = 0
        /\ UNCHANGED <<buffer, base>>
    BY <1>8 DEF RecordDecoded, RecordReady
  <2> QED
    BY <1>2, <2>1 DEF StreamInv, Arrived
<1> QED
  BY <1>3, <1>4, <1>5, <1>6, <1>7, <1>8, ProcessOnly

\* A read adds bytes that the stream has.
LEMMA FillArrived ==
    ASSUME NEW n \in Chunks, IInv, FillSpace(n)
    PROVE  /\ n \in Nat /\ n > 0 /\ Arrived \in Nat
           /\ AvailableData(buffer') = AvailableData(buffer) + n
           /\ Arrived' = Arrived + n /\ Arrived' <= stream.total
<1>1. /\ n \in Nat /\ n > 0 /\ Sound(buffer) /\ base \in Nat
      /\ AvailableData(buffer) \in Nat /\ AvailableSpace(buffer) \in Nat
  BY LenAssumption, Available DEF IInv, TypeOK
<1>2. /\ n <= AvailableSpace(buffer) /\ Arrived + n <= stream.total
      /\ buffer' = Fill(buffer, n) /\ base' = base
  BY DEF FillSpace, history
<1>3. Least(n, AvailableSpace(buffer)) = n
  BY <1>1, <1>2 DEF Least
<1>4. AvailableData(buffer') = AvailableData(buffer) + n
  BY <1>1, <1>2, <1>3, FillSound
<1>5. Arrived' = Arrived + n /\ Arrived \in Nat
  BY <1>1, <1>2, <1>4 DEF Arrived
<1> QED
  BY <1>1, <1>2, <1>4, <1>5

\* skip_bytes does not go past the end of the stream.
LEMMA SkipStream ==
    ASSUME NEW k \in 1..2, IInv, WhereInv, StreamInv, NextInv, SkipBytes(k),
           UNCHANGED <<stream, upgrade_policy>>
    PROVE  StreamInv'
<1> DEFINE n == stream.at[next + k] - stream.at[next]
           d == AvailableData(buffer) - pend.read
<1>1. /\ n \in Nat /\ d \in Nat /\ next \in 1..Len(stream.len)
      /\ next + k \in 1..Len(stream.len) + 1
      /\ base + pend.read = stream.at[next] /\ base' = stream.at[next + k]
      /\ AvailableData(buffer') = d - Least(n, d)
  BY SkipFacts
<1>2. /\ stream.at[next + k] <= stream.total /\ state' = "Record" /\ pend'.compat_fill = 0
      /\ pc = "ready"
  BY DEF SkipBytes, NoPend
<1>3. state \in {"Record", "Consume"}
  BY <1>2 DEF WhereInv, RecPlaces
<1>4. /\ base \in Nat /\ pend.read \in Nat /\ stream \in Streams /\ IsStream(stream)
      /\ AvailableData(buffer) \in Nat
  BY StreamAssumption, Available DEF IInv, TypeOK, Pends
<1>5. stream.at[next] \in Nat /\ stream.at[next + k] \in Nat /\ stream.total \in Nat
  <2>1. next \in 1..Len(stream.len) + 1
    BY <1>4, Offsets DEF NextInv
  <2> QED
    BY <1>1, <1>4, <2>1, Offsets DEF IsStream
<1>6. Arrived' <= stream.total
  <2>1. Arrived' = stream.at[next + k] + (d - Least(n, d))
    BY <1>1 DEF Arrived
  <2>2. Arrived = stream.at[next] + d
    BY <1>1, <1>4 DEF Arrived
  <2>3. CASE n <= d
    BY <1>1, <1>5, <2>1, <2>2, <2>3 DEF Least, StreamInv
  <2>4. CASE ~(n <= d)
    BY <1>1, <1>2, <1>5, <2>1, <2>4 DEF Least
  <2> QED
    BY <2>3, <2>4
<1> QED
  BY <1>2, <1>3, <1>6 DEF StreamInv, PreludeValid

\* Every step keeps StreamInv.
LEMMA DNextStream ==
    ASSUME IInv, WhereInv, StreamInv, NextInv, [DNext]_dvars PROVE StreamInv'
<1>1. UNCHANGED <<stream, upgrade_policy>>
  BY Static
<1>2. CASE ReadBytes
  <2>1. PICK n \in Chunks : FillSpace(n)
    BY <1>2 DEF ReadBytes, FirstRead, MetaRead, RecRead, ReadSome
  <2>2. Arrived' <= stream.total
    BY <2>1, FillArrived
  <2>3. UNCHANGED <<state, length, pend, base>>
    BY <2>1 DEF FillSpace, history
  <2> QED
    BY <1>1, <2>2, <2>3 DEF StreamInv, PreludeValid
<1>3. CASE DecoderStep
  <2>1. LoopStep \/ CallProcess \/ UNCHANGED vars \/ MetaDone
    BY <1>3 DEF DecoderStep, FsmStep, FirstReadNothing, MetaCall, MetaReadMore, MetaEof,
       MetaErr, DecodeRef, RecCall, RecReadMore, RecEof, RecErr, RecDone
  <2>2. CASE CallProcess \/ UNCHANGED vars \/ MetaDone
    BY <1>1, <2>2, StreamQuiet DEF CallProcess, MetaDone, vars, machine, history
  <2> QED
    BY <1>1, <2>1, <2>2, LoopStream
<1>4. CASE ReadFails \/ Cancel \/ UNCHANGED dvars
  BY <1>1, <1>4, StreamQuiet DEF ReadFails, Cancel, dvars, vars, machine, history
<1> QED
  BY <1>1, <1>2, <1>3, <1>4, SkipStream DEF DNext

-----------------------------------------------------------------------------
(* Where the caller's next record starts. *)

\* The decoder starts in NextInv.
LEMMA DInitNext == ASSUME DInit PROVE NextInv
<1>1. PICK s \in Streams : stream = s /\ state = (IF s.meta THEN "Prelude" ELSE "Record")
  BY DEF DInit, Init, Build
<1>2. base = 0 /\ pend.read = 0 /\ next = 1 /\ result.tag = "None"
  BY DEF DInit, Init, NoPend, Nothing, Returned
<1>3. IsStream(s) /\ Len(stream.len) \in Nat
  BY <1>1, StreamAssumption, Offsets
<1>4. ~s.meta => s.at[1] = 0
  BY <1>3 DEF IsStream
<1>5. state \in {"Record", "Consume"} => base + pend.read = stream.at[next]
  BY <1>1, <1>2, <1>4
<1> QED
  BY <1>2, <1>3, <1>5 DEF NextInv, Unanswered

\* Steps that neither move in the stream nor decode or answer with a record.
LEMMA NextQuiet ==
    ASSUME NextInv, UNCHANGED <<state, pend, base, stream, next>>,
           \/ UNCHANGED <<pc, result>>
           \/ ~Unanswered /\ ~Unanswered'
    PROVE  NextInv'
BY DEF NextInv, Unanswered, IndexAt

\* A turn of the loop keeps the place, also when it decodes the next record.
LEMMA LoopNext ==
    ASSUME IInv, WhereInv, StreamInv, NextInv, FsmStep, stream' = stream PROVE NextInv'
<1>1. LoopStep /\ UNCHANGED <<pc, next>>
  BY DEF FsmStep, driver
<1>2. /\ ~Unanswered /\ result.tag = "None"
      /\ pc \in {"meta_wait", "meta_last"} => state \in {"Prelude", "Metadata"} /\ next = 1
      /\ pc \in {"meta_wait", "meta_last", "rec_wait"}
      /\ pc = "rec_wait" => state \in {"Record", "Consume"}
  BY <1>1, ProcessOnly DEF Unanswered
<1>3. /\ stream \in Streams /\ IsStream(stream) /\ base \in Nat /\ pend.read \in Nat
      /\ Sound(buffer) /\ AvailableData(buffer) \in Nat
  BY StreamAssumption, Available DEF IInv, TypeOK, Pends
<1>4. /\ Len(stream.len) \in Nat /\ next \in 1..Len(stream.len) + 1
      /\ \A i \in 1..Len(stream.len) + 1 : stream.at[i] \in Nat
  BY <1>3, Offsets DEF NextInv
<1>5. CASE ReadMore \/ DecodePreludeErr \/ DecodeMetadataErr \/ RecordInvalid
  <2>1. UNCHANGED <<state, pend, base>> /\ result'.tag \in {"ReadMore", "Err"}
    BY <1>5 DEF ReadMore, DecodePreludeErr, DecodeMetadataErr, RecordInvalid, Return,
       Returned, machine, history
  <2> QED
    BY <1>1, <1>2, <2>1, NextQuiet DEF Unanswered
<1>6. CASE RecordNeedsCompat
  BY <1>1, <1>2, <1>6, NextQuiet DEF RecordNeedsCompat, history
<1>7. CASE ConsumeStep
  <2>1. /\ state = "Consume" /\ state' = "Record" /\ pend'.read = 0 /\ result' = result
        /\ base' = base + pend.read
    BY <1>7, ConsumedBufferFacts DEF ConsumeStep, NoPend
  <2>2. base' + pend'.read = stream.at[next]
    BY <1>2, <1>3, <2>1 DEF NextInv
  <2> QED
    BY <1>1, <1>2, <2>1, <2>2 DEF NextInv, Unanswered
<1>8. CASE DecodePrelude
  BY <1>1, <1>2, <1>8 DEF DecodePrelude, NextInv, Unanswered
<1>9. CASE DecodeMetadata
  <2>1. /\ state = "Metadata" /\ base' = base + length /\ pend' = pend
        /\ result'.tag = "Metadata" /\ pend.read = 0
    BY <1>9 DEF DecodeMetadata, Return, Returned, IInv, PendInv, NoPend
  <2>2. base = METADATA_PRELUDE_LEN /\ length = stream.mlen /\ stream.meta
    BY <2>1 DEF StreamInv
  <2>3. base' + pend'.read = stream.at[1]
    BY <1>3, <2>1, <2>2, LenAssumption DEF IsStream
  <2>4. next = 1
    BY <1>2, <2>1
  <2> QED
    BY <1>1, <2>1, <2>3, <2>4 DEF NextInv, Unanswered
<1>10. CASE RecordDecoded
  <2>1. /\ state = "Record" /\ state' = "Consume" /\ LengthAt(base) >= HEADER_LEN
        /\ pend'.read = LengthAt(base) /\ result'.tag = "Record" /\ base' = base
        /\ AvailableData(buffer) >= HEADER_LEN /\ Missing <= 0
    BY <1>10 DEF RecordDecoded, RecordReady, Returned
  <2>2. pend.read = 0 /\ pc = "rec_wait"
    BY <1>2, <2>1 DEF IInv, PendInv, NoPend
  <2>3. base = stream.at[next]
    BY <1>2, <1>3, <2>1, <2>2 DEF NextInv
  <2>4. next - 1 \in 0..Len(stream.len) /\ (next - 1) + 1 = next /\ (next - 1) + 2 = next + 1
    BY <1>4
  <2>5. /\ next - 1 < Len(stream.len) /\ IndexAt(base) = next
        /\ stream.at[next + 1] = base + LengthAt(base)
    BY <1>3, <2>1, <2>3, <2>4, NextReadable
  <2>6. next <= Len(stream.len) /\ LengthAt(base) = stream.len[next] /\ LengthAt(base) \in Nat
    <3>1. IndexAt(base) # 0
      BY <1>4, <2>5
    <3>2. LengthAt(base) = stream.len[next]
      BY <2>5, <3>1 DEF LengthAt
    <3> QED
      BY <1>3, <1>4, <2>5, <3>2, RecordAt
  <2>7. stream.at[next + 1] <= stream.total
    <3>1. HEADER_LEN \in Nat /\ stream.total \in Nat
      BY <1>3, LenAssumption DEF IsStream
    <3>2. ~(AvailableData(buffer) < HEADER_LEN)
      BY <1>3, <2>1, <3>1
    <3>3. Missing = LengthAt(base) - AvailableData(buffer)
      BY <2>1, <3>2 DEF Missing
    <3>4. base + AvailableData(buffer) <= stream.total
      BY DEF StreamInv, Arrived
    <3> QED
      BY <1>3, <2>1, <2>5, <2>6, <3>1, <3>3, <3>4
  <2>8. IndexAt(base)' = IndexAt(base)
    BY <2>1 DEF IndexAt
  <2>9. Unanswered'
    BY <1>1, <2>1, <2>2 DEF Unanswered
  <2> QED
    BY <1>1, <2>1, <2>3, <2>5, <2>6, <2>7, <2>8, <2>9 DEF NextInv
<1> QED
  BY <1>1, <1>5, <1>6, <1>7, <1>8, <1>9, <1>10, ProcessOnly

\* The records that skip_bytes passes are complete.
LEMMA SkipNext ==
    ASSUME NEW k \in 1..2, IInv, WhereInv, NextInv, SkipBytes(k) PROVE NextInv'
<1>1. /\ next \in 1..Len(stream.len) /\ next + k \in 1..Len(stream.len) + 1
      /\ base' = stream.at[next + k]
  BY SkipFacts
<1>2. /\ next' = next + k /\ stream' = stream /\ state' = "Record" /\ pend'.read = 0
      /\ stream.at[next + k] <= stream.total /\ pc' = "ready"
      /\ \A i \in next .. next + k - 1 : stream.len[i] >= HEADER_LEN
  BY DEF SkipBytes, NoPend
<1>3. /\ Len(stream.len) \in Nat /\ HEADER_LEN \in Nat
      /\ \A i \in 1..Len(stream.len) + 1 : stream.at[i] \in Nat
      /\ \A i \in 1..Len(stream.len) : /\ stream.len[i] \in Nat
                                       /\ stream.at[i + 1] = stream.at[i] + stream.len[i]
  BY Offsets, LenAssumption DEF IInv, TypeOK
<1>4. stream.total \in Nat
  BY StreamAssumption DEF IInv, TypeOK, IsStream
<1>5. ASSUME NEW i \in 1..Len(stream.len), i < next + k
      PROVE  stream.len[i] >= HEADER_LEN /\ stream.at[i + 1] <= stream.total
  <2>1. CASE i < next
    BY <2>1 DEF NextInv
  <2>2. CASE i >= next
    <3>1. i \in next .. next + k - 1
      BY <1>1, <1>3, <1>5, <2>2
    <3>2. i + 1 = next + k \/ i + 2 = next + k
      BY <1>1, <1>3, <3>1
    <3>3. CASE i + 1 = next + k
      BY <1>2, <3>1, <3>3
    <3>4. CASE i + 2 = next + k
      <4>1. i + 1 \in 1..Len(stream.len) /\ (i + 1) + 1 = next + k
        BY <1>1, <1>3, <3>4
      <4>2. stream.at[next + k] = stream.at[i + 1] + stream.len[i + 1]
        BY <1>3, <4>1
      <4>3. /\ stream.at[i + 1] \in Nat /\ stream.len[i + 1] \in Nat
            /\ stream.at[next + k] \in Nat
        BY <1>1, <1>3, <4>1
      <4> QED
        BY <1>2, <1>4, <3>1, <4>2, <4>3
    <3> QED
      BY <3>2, <3>3, <3>4
  <2> QED
    BY <1>1, <1>3, <2>1, <2>2
<1>6. base' + pend'.read = stream.at[next + k]
  BY <1>1, <1>2, <1>3
<1> QED
  BY <1>1, <1>2, <1>5, <1>6 DEF NextInv, Unanswered

\* decode_ref answers with the next record, and the one after it starts where it ends.
LEMMA DoneNext == ASSUME IInv, NextInv, RecDone PROVE NextInv'
<1>1. /\ Unanswered /\ ~Unanswered' /\ next' = next + 1
      /\ UNCHANGED <<state, pend, base, stream>>
  BY DEF RecDone, Unanswered, vars, machine, history
<1>2. /\ Len(stream.len) \in Nat
      /\ \A i \in 1..Len(stream.len) : stream.at[i + 1] = stream.at[i] + stream.len[i]
  BY Offsets DEF IInv, TypeOK
<1>3. /\ next \in 1..Len(stream.len) + 1 /\ next <= Len(stream.len)
      /\ base = stream.at[next] /\ pend.read = stream.len[next]
      /\ stream.len[next] >= HEADER_LEN /\ stream.at[next + 1] <= stream.total
  BY <1>1 DEF NextInv
<1>4. next \in 1..Len(stream.len) /\ next + 1 \in 1..Len(stream.len) + 1
  BY <1>2, <1>3
<1>5. base + pend.read = stream.at[next + 1]
  BY <1>2, <1>3, <1>4
<1>6. \A i \in 1..Len(stream.len) : i < next + 1 => i < next \/ i = next
  BY <1>2, <1>4
<1>7. \A i \in 1..Len(stream.len) :
         i < next + 1 => stream.len[i] >= HEADER_LEN /\ stream.at[i + 1] <= stream.total
  BY <1>3, <1>6 DEF NextInv
<1> QED
  BY <1>1, <1>4, <1>5, <1>7 DEF NextInv

\* Every step keeps NextInv.
LEMMA DNextNext ==
    ASSUME IInv, WhereInv, StreamInv, NextInv, [DNext]_dvars PROVE NextInv'
<1>1. stream' = stream
  BY Static
<1>2. CASE ReadBytes
  <2>1. PICK n \in Chunks : FirstRead(n) \/ MetaRead(n) \/ RecRead(n)
    BY <1>2 DEF ReadBytes
  <2>2. UNCHANGED <<state, pend, base, next>>
    BY <2>1 DEF FirstRead, MetaRead, RecRead, ReadSome, FillSpace, Goto, history
  <2>3. ~Unanswered /\ ~Unanswered'
    BY <2>1 DEF FirstRead, MetaRead, RecRead, Goto, AfterReadMore, Unanswered
  <2> QED
    BY <1>1, <2>2, <2>3, NextQuiet
<1>3. CASE MetaCall \/ RecCall
  <2>1. UNCHANGED <<state, pend, base, next>>
    BY <1>3 DEF MetaCall, RecCall, CallProcess, Goto, machine, history
  <2>2. ~Unanswered /\ ~Unanswered'
    BY <1>3 DEF MetaCall, RecCall, CallProcess, Nothing, Returned, Unanswered
  <2> QED
    BY <1>1, <2>1, <2>2, NextQuiet
<1>4. CASE \/ FirstReadNothing \/ MetaReadMore \/ MetaEof \/ MetaErr
           \/ DecodeRef \/ RecReadMore \/ RecEof \/ RecErr \/ ReadFails \/ Cancel
  <2>1. UNCHANGED <<state, pend, base, next>>
    BY <1>4 DEF FirstReadNothing, MetaReadMore, MetaEof, MetaErr, DecodeRef, RecReadMore,
       RecEof, RecErr, ReadFails, Cancel, Goto, Reply, vars, machine, history
  <2>2. ~Unanswered /\ ~Unanswered'
    BY <1>4 DEF FirstReadNothing, MetaReadMore, MetaEof, MetaErr, DecodeRef, RecReadMore,
       RecEof, RecErr, ReadFails, Cancel, Goto, Reply, Reading, Abandoned, Unanswered
  <2> QED
    BY <1>1, <2>1, <2>2, NextQuiet
<1>5. CASE MetaDone
  <2>1. UNCHANGED <<state, pend, base, next>> /\ ~Unanswered /\ ~Unanswered'
    BY <1>5 DEF MetaDone, Goto, history, Unanswered
  <2> QED
    BY <1>1, <2>1, NextQuiet
<1>6. CASE UNCHANGED dvars
  BY <1>6, NextQuiet DEF dvars, vars, driver, machine, history
<1> QED
  BY <1>1, <1>2, <1>3, <1>4, <1>5, <1>6, LoopNext, SkipNext, DoneNext DEF DNext, DecoderStep

-----------------------------------------------------------------------------
(* When the record decoder reads. *)

\* The decoder starts in WaitInv.
LEMMA DInitWait == ASSUME DInit PROVE WaitInv
BY DEF DInit, WaitInv

\* Every step keeps WaitInv.
LEMMA DNextWait ==
    ASSUME WhereInv, WaitInv, [DNext]_dvars PROVE WaitInv'
<1>1. CASE FsmStep
  <2>1. LoopStep /\ pc' = pc
    BY <1>1 DEF FsmStep, driver
  <2>2. /\ result.tag = "None" /\ pc \in {"meta_wait", "meta_last", "rec_wait"}
        /\ pc = "rec_wait" => state \in {"Record", "Consume"}
    BY <2>1, ProcessOnly
  <2>3. CASE ReadMore
    <3>1. /\ Missing > 0 /\ result'.n = Missing
          /\ UNCHANGED <<state, length, buffer, base, stream>>
          /\ state = "Consume" => FALSE
          /\ state = "Record" =>
               AvailableData(buffer) < HEADER_LEN \/ LengthAt(base) >= HEADER_LEN
      BY <2>3 DEF ReadMore, Return, Returned, machine, history
    <3>2. Missing' = Missing /\ LengthAt(base)' = LengthAt(base)
      BY <3>1 DEF Missing, LengthAt, IndexAt
    <3> QED
      BY <2>1, <2>2, <3>1, <3>2 DEF WaitInv
  <2>4. CASE ~ReadMore
    <3>1. result'.tag # "ReadMore"
      BY <2>1, <2>2, <2>4, ProcessOnly DEF ConsumeStep, DecodePrelude, DecodePreludeErr,
         DecodeMetadata, DecodeMetadataErr, RecordInvalid, RecordNeedsCompat, RecordDecoded,
         Return, Returned
    <3> QED
      BY <2>1, <2>2, <3>1 DEF WaitInv
  <2> QED
    BY <2>3, <2>4
<1>2. CASE ReadBytes
  BY <1>2 DEF ReadBytes, FirstRead, MetaRead, RecRead, Goto, AfterReadMore, WaitInv
<1>3. CASE MetaCall \/ RecCall
  BY <1>3 DEF MetaCall, RecCall, CallProcess, Goto, Nothing, Returned, WaitInv
<1>4. CASE RecReadMore \/ UNCHANGED dvars
  <2>1. /\ UNCHANGED <<state, length, buffer, base, stream, result>>
        /\ \/ pc = "rec_wait" /\ pc' = "rec_read" /\ result.tag = "ReadMore"
           \/ pc' = pc
    BY <1>4 DEF RecReadMore, Goto, dvars, driver, vars, machine, history
  <2>2. Missing' = Missing /\ LengthAt(base)' = LengthAt(base)
    BY <2>1 DEF Missing, LengthAt, IndexAt
  <2> QED
    BY <2>1, <2>2 DEF WaitInv
<1>5. CASE \/ FirstReadNothing \/ MetaReadMore \/ MetaEof \/ MetaErr \/ MetaDone
           \/ DecodeRef \/ RecEof \/ RecErr \/ RecDone \/ ReadFails \/ Cancel
  BY <1>5 DEF FirstReadNothing, MetaReadMore, MetaEof, MetaErr, MetaDone, DecodeRef, RecEof,
     RecErr, RecDone, ReadFails, Cancel, Goto, Reply, Abandoned, WaitInv
<1>6. CASE \E k \in 1..2 : SkipBytes(k)
  BY <1>6 DEF SkipBytes, WaitInv
<1> QED
  BY <1>1, <1>2, <1>3, <1>4, <1>5, <1>6 DEF DNext, DecoderStep

-----------------------------------------------------------------------------
(* The refinement. *)

\* The complete records are the first ones of the stream.
LEMMA DecodableIsPrefix ==
    ASSUME stream \in Streams
    PROVE  \E m \in 0..Len(stream.len) : Decodable = 1..m /\ Cardinality(Decodable) = m
<1> DEFINE N == Len(stream.len)
           T == {t \in 1..N + 1 : t \notin Decodable}
<1>1. /\ N \in Nat /\ stream.total \in Nat
      /\ \A i \in 1..N + 1 : stream.at[i] \in Nat
      /\ \A i \in 1..N : stream.len[i] \in Nat /\ stream.at[i + 1] = stream.at[i] + stream.len[i]
  <2>1. IsStream(stream)
    BY StreamAssumption
  <2> QED
    BY <2>1, Offsets DEF IsStream
<1>2. Decodable \subseteq 1..N
  BY DEF Decodable
<1>3. T \in SUBSET Nat /\ N + 1 \in T
  <2>1. N + 1 \notin 1..N
    BY <1>1
  <2> QED
    BY <1>1, <1>2, <2>1
<1>4. PICK t \in T : \A u \in T : t <= u
  <2> HIDE DEF T
  <2> QED
    BY <1>3, LeastNat
<1>5. t \in 1..N + 1 /\ t \notin Decodable
  OBVIOUS
<1>6. ASSUME NEW i \in 1..N, i < t PROVE i \in Decodable
  BY <1>1, <1>4, <1>5, <1>6
<1>7. ASSUME NEW i \in Decodable PROVE i < t
  <2>1. i \in 1..N
    BY <1>2
  <2>2. /\ ~(stream.meta /\ ~(stream.prefix /\ PreludeValid /\ stream.good))
        /\ stream.at[i + 1] <= stream.total
        /\ \A j \in 1..i : stream.len[j] >= HEADER_LEN
    BY DEF Decodable
  <2>3. SUFFICES ASSUME t < i PROVE FALSE
    BY <1>1, <1>5, <2>1
  <2>4. t \in 1..N /\ t + 1 \in 1..N
    BY <1>1, <1>5, <2>1, <2>3
  <2>5. stream.at[t + 1] <= stream.at[i]
    <3>1. CASE t + 1 = i
      BY <1>1, <2>1, <3>1
    <3>2. CASE t + 1 < i
      <4>1. stream.at[t + 1] < stream.at[i]
        BY <2>1, <2>4, <3>2, OffsetsIncrease
      <4> QED
        BY <1>1, <2>1, <2>4, <4>1
    <3> QED
      BY <2>1, <2>3, <2>4, <3>1, <3>2
  <2>6. stream.at[t + 1] <= stream.total
    <3>1. stream.at[i + 1] = stream.at[i] + stream.len[i]
      BY <1>1, <2>1
    <3>2. /\ stream.at[i] \in Nat /\ stream.at[i + 1] \in Nat /\ stream.at[t + 1] \in Nat
          /\ stream.len[i] \in Nat
      BY <1>1, <2>1, <2>4
    <3>3. stream.total \in Nat
      BY <1>1
    <3>4. stream.at[i + 1] <= stream.total
      BY <2>2
    <3> QED
      BY <2>5, <3>1, <3>2, <3>3, <3>4
  <2>7. \A j \in 1..t : stream.len[j] >= HEADER_LEN
    BY <2>1, <2>2, <2>3, <2>4
  <2>8. t \in Decodable
    BY <2>2, <2>4, <2>6, <2>7 DEF Decodable
  <2> QED
    BY <1>5, <2>8
<1>8. Decodable = 1..t - 1
  <2> HIDE DEF T
  <2>1. ASSUME NEW i PROVE i \in Decodable <=> i \in 1..N /\ i < t
    BY <1>2, <1>6, <1>7
  <2>2. ASSUME NEW i PROVE i \in 1..N /\ i < t <=> i \in 1..t - 1
    BY <1>1, <1>5
  <2> QED
    BY <2>1, <2>2
<1>9. t - 1 \in 0..N
  BY <1>1, <1>5
<1>10. Cardinality(1..t - 1) = t - 1
  BY <1>1, <1>9, FS_Interval
<1> QED
  BY <1>8, <1>9, <1>10

\* The bytes of a record that process waits for do not all arrive, or it cannot be
\* decoded: decode_ref reports the end of the input behind the last complete record.
LEMMA EofIsTheEnd ==
    ASSUME RoomyBuffers, IInv, RoomInv, WhereInv, StreamInv, NextInv, WaitInv, RecEof
    PROVE  next \notin Decodable
<1>1. /\ pc = "rec_read" /\ ReadsNothing
  BY DEF RecEof
<1>2. /\ result.tag = "ReadMore" /\ state = "Record" /\ Missing > 0 /\ result.n > 0
      /\ AvailableData(buffer) < HEADER_LEN \/ LengthAt(base) >= HEADER_LEN
  BY <1>1 DEF WaitInv
<1>3. /\ stream \in Streams /\ IsStream(stream) /\ base \in Nat /\ result.n \in Nat
      /\ AvailableData(buffer) \in Nat /\ AvailableSpace(buffer) \in Nat
      /\ HEADER_LEN \in Nat \ {0}
  BY StreamAssumption, LenAssumption, Available DEF IInv, TypeOK, Results
<1>4. Arrived >= stream.total
  <2>1. AvailableSpace(buffer) >= result.n
    BY <1>2 DEF RoomInv, RoomToReadMore
  <2>2. AvailableSpace(buffer) # 0
    BY <1>2, <1>3, <2>1
  <2> QED
    BY <1>1, <2>2 DEF ReadsNothing
<1>5. SUFFICES ASSUME next \in Decodable PROVE FALSE
  OBVIOUS
<1>6. /\ next \in 1..Len(stream.len) /\ stream.at[next + 1] <= stream.total
      /\ \A j \in 1..next : stream.len[j] >= HEADER_LEN
  BY <1>5 DEF Decodable
<1>7. /\ Len(stream.len) \in Nat /\ stream.total \in Nat
      /\ \A i \in 1..Len(stream.len) + 1 : stream.at[i] \in Nat
      /\ \A i \in 1..Len(stream.len) : /\ stream.len[i] \in Nat
                                       /\ stream.at[i + 1] = stream.at[i] + stream.len[i]
  BY <1>3, Offsets DEF IsStream
<1>8. base = stream.at[next]
  <2>1. pend.read = 0
    BY <1>2 DEF IInv, PendInv, NoPend
  <2> QED
    BY <1>1, <1>2, <1>3, <2>1 DEF NextInv, Unanswered
<1>9. stream.len[next] >= HEADER_LEN
  BY <1>6, <1>7
<1>10. base + stream.len[next] <= base + AvailableData(buffer)
  <2>1. stream.at[next + 1] = base + stream.len[next]
    BY <1>6, <1>7, <1>8
  <2>2. stream.len[next] \in Nat
    BY <1>6, <1>7
  <2> QED
    BY <1>3, <1>4, <1>6, <1>7, <2>1, <2>2 DEF Arrived
<1>11. stream.len[next] <= AvailableData(buffer) /\ stream.len[next] \in Nat
  BY <1>3, <1>6, <1>7, <1>10
<1>12. ~(AvailableData(buffer) < HEADER_LEN) /\ AvailableData(buffer) >= HEADER_LEN
  BY <1>3, <1>9, <1>11
<1>13. Missing = LengthAt(base) - AvailableData(buffer) /\ LengthAt(base) >= HEADER_LEN
  BY <1>2, <1>12 DEF Missing
<1>14. LengthAt(base) = stream.len[next]
  <2>1. next - 1 \in 0..Len(stream.len) /\ (next - 1) + 1 = next
    BY <1>6, <1>7
  <2>2. IndexAt(base) = next
    BY <1>3, <1>8, <1>13, <2>1, NextReadable
  <2> QED
    BY <1>6, <1>7, <2>2 DEF LengthAt
<1> QED
  BY <1>2, <1>3, <1>11, <1>13, <1>14

\* The records that the caller has passed are complete ones.
LEMMA PassedIsDecodable ==
    ASSUME IInv, WhereInv, StreamInv, NextInv, pc \in RecPlaces
    PROVE  /\ \A i \in 1..Len(stream.len) : i < next => i \in Decodable
           /\ \A n \in 1..Len(stream.len) :
                 (\A i \in 1..Len(stream.len) : next <= i /\ i <= n =>
                     stream.len[i] >= HEADER_LEN /\ stream.at[i + 1] <= stream.total)
                 => n \in Decodable
<1>1. ~(stream.meta /\ ~(stream.prefix /\ PreludeValid /\ stream.good))
  BY DEF WhereInv, StreamInv, RecPlaces
<1>2. /\ Len(stream.len) \in Nat /\ next \in 1..Len(stream.len) + 1
  BY Offsets DEF IInv, TypeOK, NextInv
<1>3. ASSUME NEW n \in 1..Len(stream.len),
             \A i \in 1..Len(stream.len) :
                i <= n => stream.len[i] >= HEADER_LEN /\ stream.at[i + 1] <= stream.total
      PROVE  n \in Decodable
  <2>1. \A j \in 1..n : j \in 1..Len(stream.len) /\ j <= n
    BY <1>2
  <2>2. n <= n
    BY <1>2
  <2> QED
    BY <1>1, <1>3, <2>1, <2>2 DEF Decodable
<1>4. \A i \in 1..Len(stream.len) :
         i < next => stream.len[i] >= HEADER_LEN /\ stream.at[i + 1] <= stream.total
  BY DEF NextInv
<1>5. ASSUME NEW n \in 1..Len(stream.len), n < next PROVE n \in Decodable
  <2>1. \A i \in 1..Len(stream.len) : i <= n => i < next
    BY <1>2, <1>5
  <2> QED
    BY <1>3, <1>4, <2>1
<1>6. ASSUME NEW n \in 1..Len(stream.len),
             \A i \in 1..Len(stream.len) : next <= i /\ i <= n =>
                stream.len[i] >= HEADER_LEN /\ stream.at[i + 1] <= stream.total
      PROVE  n \in Decodable
  <2>1. \A i \in 1..Len(stream.len) : i < next \/ next <= i
    BY <1>2
  <2> QED
    BY <1>3, <1>4, <1>6, <2>1
<1> QED
  BY <1>5, <1>6

\* A new decoder has answered nothing.
LEMMA DInitImplements == ASSUME DInit PROVE Abstract!Init
<1>1. stream \in Streams
  BY DEF DInit, Init, Build
<1>2. Cardinality(Decodable) \in Nat
  BY <1>1, DecodableIsPrefix
<1> QED
  BY <1>2 DEF DInit, Abstract!Init, NoAnswer, Answer, Abstract!Answer

\* decode_ref returns the next record, which is complete.
LEMMA DoneImplements ==
    ASSUME IInv, WhereInv, StreamInv, NextInv, RecDone,
           Cardinality(Decodable)' = Cardinality(Decodable)
    PROVE  Abstract!Next
<1>1. Unanswered /\ pc \in RecPlaces
  BY DEF RecDone, Unanswered, RecPlaces
<1>2. /\ state = "Consume" /\ pend.compat_fill = 0 /\ IndexAt(base) = next
      /\ next <= Len(stream.len)
      /\ stream.len[next] >= HEADER_LEN /\ stream.at[next + 1] <= stream.total
  BY <1>1 DEF NextInv, StreamInv
<1>3. answer' = Answer("Record", next) /\ next' = next + 1
  BY <1>2 DEF RecDone, LastRecordIsSome, LastRecord
<1>4. /\ Len(stream.len) \in Nat /\ stream \in Streams /\ next \in 1..Len(stream.len)
  BY <1>2, Offsets DEF NextInv, IInv, TypeOK
<1>5. next \in Decodable
  <2>1. \A i \in 1..Len(stream.len) : next <= i /\ i <= next => i = next
    BY <1>4
  <2> QED
    BY <1>1, <1>2, <1>4, <2>1, PassedIsDecodable
<1>6. next <= Cardinality(Decodable)
  BY <1>4, <1>5, DecodableIsPrefix
<1> QED
  BY <1>3, <1>6 DEF Abstract!Next, Abstract!Deliver, Answer, Abstract!Answer

\* It reports the end of the input only when no complete record is left.
LEMMA EofImplements ==
    ASSUME RoomyBuffers, IInv, RoomInv, WhereInv, StreamInv, NextInv, WaitInv, RecEof,
           Cardinality(Decodable)' = Cardinality(Decodable)
    PROVE  Abstract!Next
<1>1. pc \in RecPlaces /\ answer' = Answer("Exhausted", 0) /\ next' = next
  BY DEF RecEof, Reply, RecPlaces
<1>2. next \notin Decodable
  BY EofIsTheEnd
<1>3. /\ Len(stream.len) \in Nat /\ stream \in Streams /\ next \in 1..Len(stream.len) + 1
  BY Offsets DEF NextInv, IInv, TypeOK
<1>4. PICK m \in 0..Len(stream.len) : Decodable = 1..m /\ Cardinality(Decodable) = m
  BY <1>3, DecodableIsPrefix
<1>5. next = m + 1
  <2>1. next > m
    BY <1>2, <1>3, <1>4
  <2>2. ~(m + 1 < next)
    <3>1. m + 1 < next => m + 1 \in 1..Len(stream.len)
      BY <1>3, <1>4
    <3>2. m + 1 < next => m + 1 \in Decodable
      BY <1>1, <3>1, PassedIsDecodable
    <3> QED
      BY <1>4, <3>2
  <2> QED
    BY <1>3, <1>4, <2>1, <2>2
<1> QED
  BY <1>1, <1>4, <1>5 DEF Abstract!Next, Abstract!Exhausted, Answer, Abstract!Answer

\* skip_bytes passes complete records only.
LEMMA SkipImplements ==
    ASSUME NEW k \in 1..2, IInv, WhereInv, StreamInv, NextInv, SkipBytes(k),
           Cardinality(Decodable)' = Cardinality(Decodable)
    PROVE  Abstract!Next
<1>1. /\ pc \in RecPlaces /\ next' = next + k /\ answer' = NoAnswer
      /\ \A i \in next .. next + k - 1 : stream.len[i] >= HEADER_LEN
  BY DEF SkipBytes, RecPlaces
<1>2. /\ next \in 1..Len(stream.len) /\ next + k \in 1..Len(stream.len) + 1
  BY SkipFacts
<1>3. Len(stream.len) \in Nat /\ stream \in Streams
  BY Offsets DEF IInv, TypeOK
<1>4. \A i \in 1..Len(stream.len) :
         i < next + k => stream.len[i] >= HEADER_LEN /\ stream.at[i + 1] <= stream.total
  <2>1. NextInv' /\ stream' = stream
    BY SkipNext DEF SkipBytes
  <2> QED
    BY <1>1, <2>1 DEF NextInv
<1>5. next + k - 1 \in Decodable
  <2>1. /\ next + k - 1 \in 1..Len(stream.len)
        /\ \A i \in 1..Len(stream.len) : i <= next + k - 1 => i < next + k
    BY <1>2, <1>3
  <2> QED
    BY <1>1, <1>4, <2>1, PassedIsDecodable
<1>6. PICK m \in 0..Len(stream.len) : Decodable = 1..m /\ Cardinality(Decodable) = m
  BY <1>3, DecodableIsPrefix
<1>7. next < next' /\ next' <= m + 1
  BY <1>1, <1>2, <1>3, <1>5, <1>6
<1> QED
  BY <1>1, <1>6, <1>7 DEF Abstract!Next, Abstract!SkipSome, NoAnswer, Answer, Abstract!Answer

\* Every other step answers with an error, withdraws the last answer or is unseen.
LEMMA StepImplements ==
    ASSUME RoomyBuffers, IInv, RoomInv, WhereInv, StreamInv, NextInv, WaitInv, [DNext]_dvars
    PROVE  [Abstract!Next]_<<Cardinality(Decodable), next, answer>>
<1>1. Decodable' = Decodable
  BY Static DEF Decodable, PreludeValid
<1>2. Cardinality(Decodable)' = Cardinality(Decodable)
  BY <1>1
<1>3. CASE FsmStep \/ MetaCall \/ MetaReadMore \/ FirstReadNothing \/ MetaDone \/ RecCall
           \/ RecReadMore \/ ReadBytes \/ UNCHANGED dvars
  <2>1. UNCHANGED <<next, answer>>
    BY <1>3 DEF FsmStep, MetaCall, MetaReadMore, FirstReadNothing, MetaDone, RecCall,
       RecReadMore, ReadBytes, FirstRead, MetaRead, RecRead, Goto, driver, dvars
  <2> QED
    BY <1>2, <2>1
<1>4. CASE MetaEof \/ MetaErr \/ RecErr \/ ReadFails
  <2>1. answer' = Answer("Err", 0) /\ next' = next
    BY <1>4 DEF MetaEof, MetaErr, RecErr, ReadFails, Reply
  <2> QED
    BY <1>2, <2>1 DEF Abstract!Next, Abstract!Fail, Answer, Abstract!Answer
<1>5. CASE DecodeRef \/ Cancel
  <2>1. answer' = NoAnswer /\ next' = next
    BY <1>5 DEF DecodeRef, Cancel, Reply
  <2> QED
    BY <1>2, <2>1 DEF Abstract!Next, Abstract!Call, NoAnswer, Answer, Abstract!Answer
<1> QED
  BY <1>2, <1>3, <1>4, <1>5, DoneImplements, EofImplements, SkipImplements
     DEF DNext, DecoderStep

\* The parts of the invariant that do not depend on the first read hold throughout.
DInv == IInv /\ RoomInv /\ WhereInv /\ StreamInv /\ NextInv /\ WaitInv

\* The invariants of the decoder together.
LEMMA DInvAlways == ASSUME RoomyBuffers PROVE DSpec => []DInv
<1>1. DInit => DInv
  <2>1. DInit => Init
    BY DEF DInit
  <2> QED
    BY <2>1, InitIInv, InitRoom, DInitWhere, DInitStream, DInitNext, DInitWait DEF DInv
<1>2. DInv /\ [DNext]_dvars => DInv'
  BY DNextMachine, DNextWhere, DNextStream, DNextNext, DNextWait DEF DInv
<1> QED
  BY <1>1, <1>2, PTL DEF DSpec

\* The decoders of decode/dbn/sync.rs and async.rs keep the promise of RecordStream, for
\* every set of streams, whatever pieces the bytes arrive in, whichever reads fail or
\* are abandoned and whatever is skipped: each answer is the next record of the input, or
\* an error, which loses nothing, or that the input is exhausted, which is said only
\* after the last complete record.  The hypothesis is on buffer_size: a read into an
\* empty slice returns 0, which decode_ref takes for the end of the input.
THEOREM DecoderImplements == ASSUME RoomyBuffers PROVE DSpec => ImplementsRecordStream
<1>1. DInit => Abstract!Init
  BY DInitImplements
<1>2. DInv /\ [DNext]_dvars => [Abstract!Next]_<<Cardinality(Decodable), next, answer>>
  BY StepImplements DEF DInv
<1> QED
  BY <1>1, <1>2, DInvAlways, PTL DEF DSpec, ImplementsRecordStream, Abstract!Spec

-----------------------------------------------------------------------------
(* The metadata decoder. *)

\* What is missing in the two states that it meets.
LEMMA MissingMeta ==
    /\ state = "Prelude" => Missing = METADATA_PRELUDE_LEN - AvailableData(buffer)
    /\ state = "Metadata" => Missing = length - AvailableData(buffer)
BY DEF Missing

\* The steps of the machine keep MetaInv.
LEMMA LoopMeta == ASSUME IInv, WhereInv, MetaInv, FsmStep PROVE MetaInv'
<1>1. LoopStep /\ UNCHANGED <<pc, missing>>
  BY DEF FsmStep, driver
<1>2. /\ result.tag = "None" /\ pc \in {"meta_wait", "meta_last", "rec_wait"}
      /\ pc \in {"meta_wait", "meta_last"} => state \in {"Prelude", "Metadata"}
  BY <1>1, ProcessOnly
<1>3. CASE pc = "rec_wait"
  BY <1>1, <1>3 DEF MetaInv
<1>4. CASE pc \in {"meta_wait", "meta_last"}
  <2>1. state \in {"Prelude", "Metadata"}
    BY <1>2, <1>4
  <2>2. CASE ReadMore
    <3>1. /\ Missing > 0 /\ result'.n = Missing
          /\ UNCHANGED <<state, length, buffer, base, stream>>
      BY <2>2 DEF ReadMore, Return, Returned, machine, history
    <3>2. Missing' = Missing /\ Arrived' = Arrived
      BY <3>1 DEF Missing, Arrived, LengthAt, IndexAt
    <3>3. pc # "meta_last"
      <4>1. AvailableData(buffer) \in Nat /\ length \in Nat
        BY Available DEF IInv, TypeOK
      <4> QED
        BY <2>1, <3>1, <4>1, MissingMeta DEF MetaInv
    <3> QED
      BY <1>1, <1>4, <3>1, <3>2, <3>3 DEF MetaInv
  <2>3. CASE DecodePreludeErr \/ DecodeMetadataErr
    <3>1. /\ result'.tag = "Err" /\ UNCHANGED <<state, length, buffer, base, stream>>
      BY <2>3 DEF DecodePreludeErr, DecodeMetadataErr, Return, Returned, machine, history
    <3> QED
      BY <1>1, <1>4, <3>1 DEF MetaInv, Arrived
  <2>4. CASE DecodePrelude
    <3>1. state = "Prelude" /\ state' = "Metadata" /\ result' = result
      BY <2>4 DEF DecodePrelude
    <3> QED
      BY <1>1, <1>2, <1>4, <3>1 DEF MetaInv
  <2>5. CASE DecodeMetadata
    <3>1. state' = "Record" /\ result'.tag = "Metadata"
      BY <2>5 DEF DecodeMetadata, Return, Returned
    <3> QED
      BY <1>1, <1>4, <3>1 DEF MetaInv
  <2>6. ~(ConsumeStep \/ RecordInvalid \/ RecordNeedsCompat \/ RecordDecoded)
    BY <2>1 DEF ConsumeStep, RecordInvalid, RecordNeedsCompat, RecordDecoded, RecordReady
  <2> QED
    BY <1>1, <2>2, <2>3, <2>4, <2>5, <2>6, ProcessOnly
<1> QED
  BY <1>2, <1>3, <1>4

\* The first read brings the prelude, or all there is of it.
LEMMA FirstReadMeta ==
    ASSUME MinFirstRead >= METADATA_PRELUDE_LEN, NEW n \in Chunks, IInv, FirstRead(n)
    PROVE  MetaInv'
<1>1. /\ pc' = "meta_call" /\ FillSpace(n) /\ stream' = stream
      /\ Arrived + n >= Least(MinFirstRead, stream.total)
  BY DEF FirstRead, ReadSome, FillSpace, Goto, history
<1>2. n \in Nat /\ Arrived \in Nat /\ Arrived' = Arrived + n
  BY <1>1, FillArrived
<1>3. stream.total \in Nat /\ METADATA_PRELUDE_LEN \in Nat /\ MinFirstRead \in Nat
  BY StreamAssumption, LenAssumption, DecoderAssumption DEF IInv, TypeOK, IsStream
<1>4. Arrived' >= METADATA_PRELUDE_LEN \/ Arrived' >= stream.total
  BY <1>1, <1>2, <1>3 DEF Least
<1> QED
  BY <1>1, <1>4 DEF MetaInv

\* A first read that brings nothing: the input has ended, or the buffer is full.
LEMMA FirstReadNothingMeta ==
    ASSUME RoomyBuffers, IInv, RoomInv, StreamInv, FirstReadNothing PROVE MetaInv'
<1>1. /\ pc' = "meta_call" /\ ReadsNothing
      /\ UNCHANGED <<state, length, buffer, base, stream, result>>
  BY DEF FirstReadNothing, Goto, vars, machine, history
<1>2. state = "Prelude" => Arrived >= METADATA_PRELUDE_LEN \/ Arrived >= stream.total
  <2>1. SUFFICES ASSUME state = "Prelude", AvailableSpace(buffer) = 0
                 PROVE  Arrived >= METADATA_PRELUDE_LEN
    BY <1>1 DEF ReadsNothing
  <2>2. buffer.position = 0 /\ base = 0
    BY <2>1 DEF RoomInv, StreamInv
  <2>3. PICK size \in BufferSizes : size <= buffer.capacity
    BY DEF RoomInv
  <2>4. size \in Nat /\ METADATA_PRELUDE_LEN <= size /\ METADATA_PRELUDE_LEN \in Nat
    BY LenAssumption DEF RoomyBuffers
  <2>5. /\ buffer.capacity \in Nat /\ AvailableData(buffer) \in Nat
        /\ AvailableData(buffer) + AvailableSpace(buffer) = buffer.capacity - buffer.position
    BY Available DEF IInv
  <2> QED
    BY <2>1, <2>2, <2>3, <2>4, <2>5 DEF Arrived
<1> QED
  BY <1>1, <1>2 DEF MetaInv, Arrived

\* ReadMore is returned for the metadata, or for a prelude that will not come.
LEMMA MetaReadMoreMeta ==
    ASSUME IInv, WhereInv, StreamInv, MetaInv, MetaReadMore PROVE MetaInv'
<1>1. /\ pc \in {"meta_wait", "meta_last"} /\ result.tag = "ReadMore" /\ missing' = result.n
      /\ UNCHANGED <<state, length, buffer, base, stream, result>>
      /\ pc' = IF pc = "meta_wait" THEN "meta_read" ELSE "panicked"
  BY DEF MetaReadMore, Goto, vars, machine, history
<1>2. pc = "meta_wait" /\ pc' = "meta_read" /\ result.n = Missing /\ Missing > 0
  BY <1>1 DEF MetaInv
<1>3. /\ AvailableData(buffer) \in Nat /\ METADATA_PRELUDE_LEN \in Nat
      /\ stream.total \in Nat
  BY StreamAssumption, LenAssumption, Available DEF IInv, TypeOK, IsStream
<1>4. state = "Prelude" => Arrived >= stream.total
  <2>1. SUFFICES ASSUME state = "Prelude" PROVE Arrived >= stream.total
    OBVIOUS
  <2>2. base = 0 /\ Missing = METADATA_PRELUDE_LEN - AvailableData(buffer)
    BY <2>1, MissingMeta DEF StreamInv
  <2>3. ~(Arrived >= METADATA_PRELUDE_LEN)
    BY <1>2, <1>3, <2>2 DEF Arrived
  <2> QED
    BY <1>2, <2>1, <2>3 DEF MetaInv
<1>5. state = "Metadata" => missing' = length - AvailableData(buffer)
  BY <1>1, <1>2, MissingMeta
<1> QED
  BY <1>1, <1>2, <1>4, <1>5 DEF MetaInv, Arrived

\* The reads after it are counted against what was asked for.
LEMMA MetaReadMeta ==
    ASSUME NEW n \in Chunks, IInv, WhereInv, MetaInv, MetaRead(n) PROVE MetaInv'
<1>1. /\ pc = "meta_read" /\ FillSpace(n) /\ UNCHANGED <<state, length, stream>>
      /\ missing' = (IF ReadEnough(n) THEN 0 ELSE missing - n)
      /\ pc' = (IF ReadEnough(n) THEN AfterReadMore ELSE "meta_read")
  BY DEF MetaRead, ReadSome, FillSpace, Goto, history
<1>2. /\ n \in Nat /\ n > 0 /\ Arrived \in Nat
      /\ AvailableData(buffer') = AvailableData(buffer) + n
      /\ Arrived' = Arrived + n /\ Arrived' <= stream.total
  BY <1>1, FillArrived
<1>3. /\ AvailableData(buffer) \in Nat /\ length \in Nat /\ stream.total \in Nat
  BY StreamAssumption, Available DEF IInv, TypeOK, IsStream
<1>4. state = "Metadata" /\ missing = length - AvailableData(buffer)
  <2>1. state \in {"Prelude", "Metadata"}
    BY <1>1 DEF WhereInv, MetaPlaces
  <2>2. state # "Prelude"
    BY <1>1, <1>2, <1>3 DEF MetaInv
  <2> QED
    BY <1>1, <2>1, <2>2 DEF MetaInv
<1>5. CASE ReadEnough(n)
  <2>1. AvailableData(buffer') >= length'
    BY <1>1, <1>2, <1>3, <1>4, <1>5 DEF ReadEnough
  <2>2. pc' \in {"meta_again", "meta_call"}
    BY <1>1, <1>5 DEF AfterReadMore
  <2> QED
    BY <1>1, <1>4, <2>1, <2>2 DEF MetaInv
<1>6. CASE ~ReadEnough(n)
  <2>1. missing' = length' - AvailableData(buffer')
    BY <1>1, <1>2, <1>3, <1>4, <1>6
  <2> QED
    BY <1>1, <1>4, <1>6, <2>1 DEF MetaInv
<1> QED
  BY <1>5, <1>6

\* Every step keeps MetaInv.
LEMMA DNextMeta ==
    ASSUME RoomyBuffers, MinFirstRead >= METADATA_PRELUDE_LEN,
           DInv, MetaInv, [DNext]_dvars
    PROVE  MetaInv'
<1> USE DEF DInv
<1>1. CASE MetaCall
  <2>1. /\ UNCHANGED <<state, length, buffer, base, stream>> /\ result'.tag = "None"
        /\ \/ pc = "meta_call" /\ pc' = "meta_wait"
           \/ pc = "meta_again" /\ pc' = "meta_last"
    BY <1>1 DEF MetaCall, CallProcess, Goto, Nothing, Returned, machine, history
  <2> QED
    BY <2>1 DEF MetaInv, Arrived
<1>2. CASE UNCHANGED dvars
  <2>1. UNCHANGED <<pc, missing, state, length, buffer, base, stream, result>>
    BY <1>2 DEF dvars, driver, vars, machine, history
  <2>2. Missing' = Missing
    BY <2>1 DEF Missing, LengthAt, IndexAt
  <2> QED
    BY <2>1, <2>2 DEF MetaInv, Arrived
<1>3. CASE ReadBytes
  <2>1. PICK n \in Chunks : FirstRead(n) \/ MetaRead(n) \/ RecRead(n)
    BY <1>3 DEF ReadBytes
  <2>2. CASE RecRead(n)
    BY <2>2 DEF RecRead, Goto, MetaInv
  <2> QED
    BY <2>1, <2>2, FirstReadMeta, MetaReadMeta
<1>4. CASE MetaEof \/ MetaErr \/ MetaDone \/ DecodeRef \/ RecCall \/ RecReadMore \/ RecEof
           \/ RecErr \/ RecDone \/ ReadFails \/ Cancel
  <2>1. pc' \in {"meta", "ready", "rec_call", "rec_wait", "rec_read"}
    BY <1>4 DEF MetaEof, MetaErr, MetaDone, DecodeRef, RecCall, RecReadMore, RecEof, RecErr,
       RecDone, ReadFails, Cancel, Goto, Reply, Abandoned
  <2> QED
    BY <2>1 DEF MetaInv
<1>5. CASE \E k \in 1..2 : SkipBytes(k)
  BY <1>5 DEF SkipBytes, MetaInv
<1> QED
  BY <1>1, <1>2, <1>3, <1>4, <1>5, LoopMeta, FirstReadNothingMeta, MetaReadMoreMeta
     DEF DNext, DecoderStep

\* When the first read brings the prelude, decode() of the sync MetadataDecoder does not
\* run into unreachable!("read requested number of bytes"): the bytes that the one
\* ReadMore asks for are all that the second process() needs, however the reads
\* behind it are cut and however often decode() fails and is called again.  Without the
\* hypothesis on the first read it does.
THEOREM MetadataDecoderSafe ==
    ASSUME RoomyBuffers, MinFirstRead >= METADATA_PRELUDE_LEN
    PROVE  DSpec => []MetadataDecoderNeverPanics
<1>1. DInit => MetaInv
  BY DEF DInit, MetaInv
<1>2. DInv /\ MetaInv /\ [DNext]_dvars => MetaInv'
  BY DNextMeta
<1>3. MetaInv => MetadataDecoderNeverPanics
  BY DEF MetaInv, MetadataDecoderNeverPanics
<1> QED
  BY <1>1, <1>2, <1>3, DInvAlways, PTL DEF DSpec
=============================================================================
