---------------------------- MODULE DbnFsmProofs ----------------------------
(***************************************************************************)
(* Proofs about DbnFsm, for every set of streams, record sizes, buffer     *)
(* sizes and ways of driving it: the buffers it owns, what it owes them,   *)
(* the room it promises, and what it delivers.                             *)
(***************************************************************************)
EXTENDS DbnFsm, TLAPS, SequenceTheorems, FiniteSetTheorems, WellFoundedInduction

-----------------------------------------------------------------------------
(***************************************************************************)
(* What the operations of the buffer preserve and how they move data: the  *)
(* facts the proofs about DbnFsm rest on, once for every capacity.         *)
(***************************************************************************)

\* A buffer whose cursors are in order.
Sound(b) == b \in Buffers /\ InOrder(b)

\* with_capacity makes an empty buffer whose cursors are in order.
LEMMA WithCapacitySound ==
    ASSUME NEW n \in Nat
    PROVE  /\ Sound(WithCapacity(n))
           /\ WithCapacity(n).capacity = n /\ WithCapacity(n).position = 0
           /\ AvailableData(WithCapacity(n)) = 0
BY DEF Sound, WithCapacity, Buffers, InOrder, AvailableData

\* Data and space of a sound buffer are sizes, and they share the memory behind
\* the position.
LEMMA Available ==
    ASSUME NEW b, Sound(b)
    PROVE  /\ b.capacity \in Nat /\ b.position \in Nat /\ b.end \in Nat
           /\ AvailableData(b) \in Nat /\ AvailableSpace(b) \in Nat
           /\ AvailableData(b) + AvailableSpace(b) = b.capacity - b.position
           /\ b.position <= b.capacity
BY DEF Sound, Buffers, InOrder, AvailableData, AvailableSpace

\* shift keeps the data and reclaims what was consumed.
LEMMA ShiftSound ==
    ASSUME NEW b, Sound(b)
    PROVE  /\ Sound(Shift(b))
           /\ Shift(b).capacity = b.capacity /\ Shift(b).position = 0
           /\ AvailableData(Shift(b)) = AvailableData(b)
BY DEF Sound, Shift, Buffers, InOrder, AvailableData

\* reset empties the buffer and keeps its memory.
LEMMA ResetSound ==
    ASSUME NEW b, Sound(b)
    PROVE  /\ Sound(Reset(b))
           /\ Reset(b).capacity = b.capacity /\ Reset(b).position = 0
           /\ AvailableData(Reset(b)) = 0
BY DEF Sound, Reset, WithCapacity, Buffers, InOrder, AvailableData

\* grow only adds memory behind the data.
LEMMA GrowSound ==
    ASSUME NEW b, Sound(b), NEW n \in Nat
    PROVE  /\ Sound(Grow(b, n))
           /\ Grow(b, n).position = b.position
           /\ Grow(b, n).capacity >= b.capacity /\ Grow(b, n).capacity >= n
           /\ AvailableData(Grow(b, n)) = AvailableData(b)
           /\ AvailableSpace(Grow(b, n)) >= AvailableSpace(b)
BY DEF Sound, Grow, Buffers, InOrder, AvailableData, AvailableSpace

\* consume_noshift releases n bytes, or all there are.
LEMMA ConsumeNoshiftSound ==
    ASSUME NEW b, Sound(b), NEW n \in Nat
    PROVE  /\ Sound(ConsumeNoshift(b, n))
           /\ ConsumeNoshift(b, n).capacity = b.capacity
           /\ ConsumeNoshift(b, n).position <= b.position + n
           /\ AvailableData(ConsumeNoshift(b, n))
                = AvailableData(b) - Least(n, AvailableData(b))
BY DEF Sound, ConsumeNoshift, Least, Buffers, InOrder, AvailableData

\* consume does, too, and leaves at most half of the memory in front of the data:
\* that is why a DbnFsm always has room for the rest of a record.
LEMMA ConsumeSound ==
    ASSUME NEW b, Sound(b), NEW n \in Nat
    PROVE  /\ Sound(Consume(b, n))
           /\ Consume(b, n).capacity = b.capacity
           /\ 2 * Consume(b, n).position <= b.capacity
           /\ AvailableData(Consume(b, n))
                = AvailableData(b) - Least(n, AvailableData(b))
<1> DEFINE c == ConsumeNoshift(b, n)
<1>1. Sound(c) /\ c.capacity = b.capacity
      /\ AvailableData(c) = AvailableData(b) - Least(n, AvailableData(b))
  BY ConsumeNoshiftSound
<1>2. CASE c.position > c.capacity \div 2
  <2>1. Consume(b, n) = Shift(c)
    BY <1>2 DEF Consume
  <2>2. b.capacity \in Nat
    BY Available
  <2> QED
    BY <1>1, <2>1, <2>2, ShiftSound
<1>3. CASE ~(c.position > c.capacity \div 2)
  <2>1. Consume(b, n) = c
    BY <1>3 DEF Consume
  <2>2. c.position \in Nat /\ c.capacity \in Nat
    BY <1>1, Available
  <2>3. 2 * c.position <= c.capacity
    BY <1>3, <2>2
  <2> QED
    BY <1>1, <2>1, <2>3
<1> QED
  BY <1>2, <1>3

\* fill adds n bytes of data, or as many as there is space for.
LEMMA FillSound ==
    ASSUME NEW b, Sound(b), NEW n \in Nat
    PROVE  /\ Sound(Fill(b, n))
           /\ Fill(b, n).capacity = b.capacity
           /\ Fill(b, n).position <= b.position
           /\ AvailableData(Fill(b, n))
                = AvailableData(b) + Least(n, AvailableSpace(b))
<1> DEFINE cnt == Least(n, AvailableSpace(b))
           f   == [b EXCEPT !.end = @ + cnt]
<1>1. cnt \in Nat /\ cnt <= AvailableSpace(b)
  BY Available DEF Least
<1>2. /\ Sound(f) /\ f.capacity = b.capacity /\ f.position = b.position
      /\ AvailableData(f) = AvailableData(b) + cnt
  BY <1>1 DEF Sound, Buffers, InOrder, AvailableData, AvailableSpace
<1>3. Fill(b, n) = IF AvailableSpace(f) < AvailableData(f) + cnt THEN Shift(f) ELSE f
  BY DEF Fill
<1>4. b.position \in Nat
  BY Available
<1> HIDE DEF f, cnt
<1>5. /\ Sound(Shift(f)) /\ Shift(f).capacity = f.capacity
      /\ Shift(f).position = 0 /\ AvailableData(Shift(f)) = AvailableData(f)
  BY <1>2, ShiftSound
<1> QED
  BY <1>2, <1>3, <1>4, <1>5 DEF cnt

-----------------------------------------------------------------------------
(***************************************************************************)
(* DbnFsm keeps its buffers and what it owes them in step, for every set   *)
(* of streams, record sizes, buffer sizes and ways of driving it.          *)
(***************************************************************************)

(* The inductive invariant. *)

\* What State::Consume owes the compat buffer, as arithmetic: the upgraded bytes not
\* yet filled in fit, and the others are all the data there is.
PendInv ==
    /\ state # "Consume" => pend = NoPend
    /\ pend.read <= AvailableData(buffer)
    /\ pend.compat_fill = 0 \/ pend.compat_fill = pend.compat
    /\ AvailableData(compat_buffer) = pend.compat - pend.compat_fill
    /\ pend.compat_fill > 0 => pend.compat_fill < AvailableSpace(compat_buffer)

\* The second loop of process_multiple runs in State::Record, and what it has taken
\* so far is there in both buffers.
BatchInv ==
    /\ call = "batch" => state = "Record"
    /\ call \notin {"batch", "panicked"} => batch.read = 0 /\ batch.compat = 0
    /\ batch.read <= AvailableData(buffer)
    /\ batch.compat > 0 => batch.compat < AvailableSpace(compat_buffer)

\* At least half of the compat buffer is not consumed data, and an expansion is
\* pending only when the batch and one more record use up the free space.
CompatInv ==
    /\ 2 * compat_buffer.position <= compat_buffer.capacity
    /\ pend.expand_compat => pend.compat_fill = pend.compat
    /\ pend.expand_compat =>
         AvailableSpace(compat_buffer) <= pend.compat + MAX_RECORD_LEN

IInv ==
    /\ TypeOK
    /\ Sound(buffer) /\ Sound(compat_buffer)
    /\ PendInv /\ BatchInv /\ CompatInv

-----------------------------------------------------------------------------
(* Streams and upgrades. *)

\* A record offset leads to a record of the stream or to none.
LEMMA RecordAt ==
    ASSUME stream \in Streams, NEW o
    PROVE  /\ LengthAt(o) \in Nat
           /\ LengthAt(o) > 0 => RTypeAt(o) \in RTypes
           /\ LengthAt(o) > 0 => \E i \in 1..Len(stream.len) : LengthAt(o) = stream.len[i]
<1>1. /\ stream.rtype \in Seq(RTypes) /\ stream.len \in Seq(Nat)
      /\ Len(stream.len) = Len(stream.rtype)
  BY StreamAssumption DEF IsStream
<1>2. IndexAt(o) # 0 => IndexAt(o) \in 1..Len(stream.len)
  BY DEF IndexAt
<1>3. CASE IndexAt(o) = 0
  BY <1>3 DEF LengthAt
<1>4. CASE IndexAt(o) # 0
  <2>1. LengthAt(o) = stream.len[IndexAt(o)]
    BY <1>4 DEF LengthAt
  <2>2. stream.len[IndexAt(o)] \in Nat /\ stream.rtype[IndexAt(o)] \in RTypes
    BY <1>1, <1>2, <1>4
  <2> QED
    BY <1>2, <1>4, <2>1, <2>2 DEF RTypeAt
<1> QED
  BY <1>3, <1>4

\* An upgrade reads and writes layouts that exist, and the version it leaves behind
\* is one that input_dbn_version can hold.
LEMMA UpgradeType ==
    ASSUME NEW version \in Nat \cup {NONE}, NEW policy, NEW rt, NEW size
    PROVE  LET u == UpgradeRecord(version, policy, rt, size)
           IN  u.from \in 0..3 /\ u.to \in 0..3 /\ u.version \in Nat \cup {NONE}
<1>1. ASSUME NEW v \in Nat
      PROVE  LET u == UpgradeWithVersion(v, policy, rt)
             IN  u.from \in 0..3 /\ u.to \in 0..3 /\ u.version \in Nat \cup {NONE}
  BY DEF UpgradeWithVersion, Convert, AsItIs
<1>2. LET u == DetectVersion(policy, rt, size)
      IN  u.from \in 0..3 /\ u.to \in 0..3 /\ u.version \in Nat \cup {NONE}
  BY DEF DetectVersion, Convert, AsItIs, NONE
<1> QED
  BY <1>1, <1>2 DEF UpgradeRecord, NONE

\* No upgraded record is longer than MAX_RECORD_LEN.
LEMMA UpgradedSizeBound ==
    ASSUME NEW u, u.to \in 0..3, NEW rt \in RTypes, NEW ts \in BOOLEAN
    PROVE  UpgradedSize(u, rt, ts) \in Nat /\ UpgradedSize(u, rt, ts) <= MAX_RECORD_LEN
<1>1. "INSTRUMENT_DEF" \in RTypes
  BY DEF RTypes
<1>2. \A r \in RTypes : \A v \in 1..3 : RecSize[r][v] \in Nat
  BY SizeAssumption DEF Versions, DBN_VERSION
<1>3. TS_OUT_LEN \in Nat
  BY SizeAssumption
<1>4. RecSize[rt][1] <= RecSize[rt][2] /\ RecSize[rt][2] <= RecSize[rt][3]
  <2>1. \A v \in {1, 2} : \/ RecSize[rt][v] = RecSize[rt][v + 1]
                          \/ RecSize[rt][v] + TS_OUT_LEN < RecSize[rt][v + 1]
    BY SizeAssumption
  <2>2. /\ RecSize[rt][1] = RecSize[rt][2] \/ RecSize[rt][1] + TS_OUT_LEN < RecSize[rt][2]
        /\ RecSize[rt][2] = RecSize[rt][3] \/ RecSize[rt][2] + TS_OUT_LEN < RecSize[rt][3]
    BY <2>1
  <2>3. RecSize[rt][1] \in Nat /\ RecSize[rt][2] \in Nat /\ RecSize[rt][3] \in Nat
    BY <1>2
  <2> QED
    BY <1>3, <2>2, <2>3
<1>5. RecSize[rt][3] <= RecSize["INSTRUMENT_DEF"][3]
  <2>1. CASE rt = "INSTRUMENT_DEF"
    BY <1>1, <1>2, <2>1
  <2>2. CASE rt # "INSTRUMENT_DEF"
    BY SizeAssumption, <2>2
  <2> QED
    BY <2>1, <2>2
<1>6. \A v \in 1..3 : RecSize[rt][v] <= RecSize["INSTRUMENT_DEF"][3]
  <2>1. /\ RecSize[rt][1] \in Nat /\ RecSize[rt][2] \in Nat /\ RecSize[rt][3] \in Nat
        /\ RecSize["INSTRUMENT_DEF"][3] \in Nat
    BY <1>1, <1>2
  <2>2. \A v \in 1..3 : v = 1 \/ v = 2 \/ v = 3
    OBVIOUS
  <2> QED
    BY <1>4, <1>5, <2>1, <2>2
<1>7. RecSize["INSTRUMENT_DEF"][3] \in Nat /\ \A v \in 1..3 : RecSize[rt][v] \in Nat
  BY <1>1, <1>2
<1> QED
  BY <1>3, <1>6, <1>7 DEF UpgradedSize, EncodedSize, TsOutLen, MAX_RECORD_LEN

\* The same for the record at an offset of the stream, as the loops use it.
LEMMA UpgradeAtFacts ==
    ASSUME TypeOK, NEW o, LengthAt(o) >= HEADER_LEN
    PROVE  /\ UpgradeAt(o).version \in Nat \cup {NONE}
           /\ CompatBytesAt(o) \in Nat /\ CompatBytesAt(o) <= MAX_RECORD_LEN
<1>1. /\ stream \in Streams /\ input_dbn_version \in Nat \cup {NONE}
      /\ upgrade_policy \in Policies /\ ts_out \in BOOLEAN
  BY DEF TypeOK
<1>2. LengthAt(o) \in Nat /\ RTypeAt(o) \in RTypes
  BY <1>1, RecordAt, LenAssumption
<1>3. UpgradeAt(o).to \in 0..3 /\ UpgradeAt(o).version \in Nat \cup {NONE}
  BY <1>1, UpgradeType DEF UpgradeAt
<1>4. /\ UpgradedSize(UpgradeAt(o), RTypeAt(o), ts_out) \in Nat
      /\ UpgradedSize(UpgradeAt(o), RTypeAt(o), ts_out) <= MAX_RECORD_LEN
  BY <1>1, <1>2, <1>3, UpgradedSizeBound
<1>5. MAX_RECORD_LEN \in Nat
  BY SizeAssumption DEF MAX_RECORD_LEN, RTypes, Versions, DBN_VERSION
<1> QED
  BY <1>3, <1>4, <1>5 DEF CompatBytesAt

-----------------------------------------------------------------------------
(* What consume leaves of the two buffers. *)

\* The buffer loses exactly the bytes that were read.
LEMMA ConsumedBufferFacts ==
    ASSUME IInv
    PROVE  /\ Sound(ConsumedBuffer)
           /\ ConsumedBuffer.capacity = buffer.capacity
           /\ 2 * ConsumedBuffer.position <= buffer.capacity
           /\ AvailableData(ConsumedBuffer) = AvailableData(buffer) - pend.read
           /\ BaseAfter(ConsumedBuffer) = base + pend.read
<1>1. pend.read \in Nat /\ pend.read <= AvailableData(buffer) /\ base \in Nat
  BY DEF IInv, PendInv, TypeOK, Pends
<1>2. Sound(buffer) /\ AvailableData(buffer) \in Nat
  BY Available DEF IInv
<1>3. Least(pend.read, AvailableData(buffer)) = pend.read
  BY <1>1, <1>2 DEF Least
<1>4. /\ Sound(Consume(buffer, pend.read))
      /\ Consume(buffer, pend.read).capacity = buffer.capacity
      /\ 2 * Consume(buffer, pend.read).position <= buffer.capacity
      /\ AvailableData(Consume(buffer, pend.read))
           = AvailableData(buffer) - Least(pend.read, AvailableData(buffer))
  BY <1>1, <1>2, ConsumeSound
<1>5. AvailableData(ConsumedBuffer) = AvailableData(buffer) - pend.read
  BY <1>3, <1>4 DEF ConsumedBuffer
<1>6. BaseAfter(ConsumedBuffer) = base + pend.read
  BY <1>1, <1>2, <1>5 DEF BaseAfter, Arrived
<1> QED
  BY <1>4, <1>5, <1>6 DEF ConsumedBuffer

\* double_compat_buffer only adds free space.
LEMMA DoubleCompatFacts ==
    ASSUME NEW c, Sound(c)
    PROVE  /\ Sound(DoubleCompat(c))
           /\ DoubleCompat(c).position = c.position
           /\ DoubleCompat(c).capacity >= c.capacity
           /\ AvailableData(DoubleCompat(c)) = AvailableData(c)
           /\ AvailableSpace(DoubleCompat(c)) >= AvailableSpace(c)
<1>1. c.capacity \in Nat
  BY Available
<1>2. MAX_RECORD_LEN \in Nat
  BY SizeAssumption DEF MAX_RECORD_LEN, RTypes, Versions, DBN_VERSION
<1>3. Most(MAX_RECORD_LEN, 2 * c.capacity) \in Nat
  BY <1>1, <1>2 DEF Most
<1> QED
  BY <1>3, GrowSound DEF DoubleCompat

\* The compat buffer is empty afterwards, and grows only if that was asked for.
LEMMA ConsumedCompatFacts ==
    ASSUME IInv
    PROVE  /\ Sound(ConsumedCompat)
           /\ AvailableData(ConsumedCompat) = 0
           /\ 2 * ConsumedCompat.position <= ConsumedCompat.capacity
           /\ ConsumedCompat.capacity > compat_buffer.capacity => pend.expand_compat
<1> DEFINE filled == IF pend.compat_fill > 0 THEN Fill(compat_buffer, pend.compat_fill)
                                             ELSE compat_buffer
           freed  == IF pend.compat > 0 THEN Consume(filled, pend.compat) ELSE filled
<1>1. /\ pend.compat \in Nat /\ pend.compat_fill \in Nat /\ pend.expand_compat \in BOOLEAN
      /\ Sound(compat_buffer)
      /\ 2 * compat_buffer.position <= compat_buffer.capacity
      /\ pend.compat_fill = 0 \/ pend.compat_fill = pend.compat
      /\ AvailableData(compat_buffer) = pend.compat - pend.compat_fill
      /\ pend.compat_fill > 0 => pend.compat_fill < AvailableSpace(compat_buffer)
  BY DEF IInv, PendInv, CompatInv, TypeOK, Pends
<1>2. /\ compat_buffer.capacity \in Nat /\ compat_buffer.position \in Nat
      /\ AvailableSpace(compat_buffer) \in Nat
  BY <1>1, Available
<1>3. /\ Sound(filled) /\ filled.capacity = compat_buffer.capacity
      /\ filled.position <= compat_buffer.position
      /\ AvailableData(filled) = pend.compat
  <2>1. CASE pend.compat_fill > 0
    <3>1. Least(pend.compat_fill, AvailableSpace(compat_buffer)) = pend.compat_fill
      BY <1>1, <1>2, <2>1 DEF Least
    <3>2. /\ Sound(Fill(compat_buffer, pend.compat_fill))
          /\ Fill(compat_buffer, pend.compat_fill).capacity = compat_buffer.capacity
          /\ Fill(compat_buffer, pend.compat_fill).position <= compat_buffer.position
          /\ AvailableData(Fill(compat_buffer, pend.compat_fill)) =
                AvailableData(compat_buffer) + pend.compat_fill
      BY <1>1, <3>1, FillSound
    <3> QED
      BY <1>1, <2>1, <3>2
  <2>2. CASE ~(pend.compat_fill > 0)
    BY <1>1, <1>2, <2>2
  <2> QED
    BY <2>1, <2>2
<1> HIDE DEF filled
<1>4. /\ Sound(freed) /\ freed.capacity = compat_buffer.capacity
      /\ 2 * freed.position <= freed.capacity /\ AvailableData(freed) = 0
  <2>1. CASE pend.compat > 0
    <3>1. Least(pend.compat, AvailableData(filled)) = pend.compat
      BY <1>1, <1>3 DEF Least
    <3>2. /\ Sound(Consume(filled, pend.compat))
          /\ Consume(filled, pend.compat).capacity = filled.capacity
          /\ 2 * Consume(filled, pend.compat).position <= filled.capacity
          /\ AvailableData(Consume(filled, pend.compat))
               = AvailableData(filled) - Least(pend.compat, AvailableData(filled))
      BY <1>1, <1>3, ConsumeSound
    <3>3. AvailableData(Consume(filled, pend.compat)) = 0
      BY <1>1, <1>3, <3>1, <3>2
    <3> QED
      BY <1>3, <2>1, <3>2, <3>3
  <2>2. CASE ~(pend.compat > 0)
    <3>1. filled.position \in Nat
      BY <1>3, Available
    <3> QED
      BY <1>1, <1>2, <1>3, <2>2, <3>1
  <2> QED
    BY <2>1, <2>2
<1>5. ConsumedCompat = IF pend.expand_compat THEN DoubleCompat(freed) ELSE freed
  BY DEF ConsumedCompat, filled
<1> HIDE DEF freed
<1>6. /\ Sound(DoubleCompat(freed)) /\ AvailableData(DoubleCompat(freed)) = 0
      /\ 2 * DoubleCompat(freed).position <= DoubleCompat(freed).capacity
  <2>1. /\ Sound(DoubleCompat(freed)) /\ AvailableData(DoubleCompat(freed)) = 0
        /\ DoubleCompat(freed).position = freed.position
        /\ DoubleCompat(freed).capacity >= freed.capacity
    BY <1>4, DoubleCompatFacts
  <2>2. freed.position \in Nat /\ freed.capacity \in Nat /\ DoubleCompat(freed).capacity \in Nat
    BY <1>4, <2>1, Available
  <2> QED
    BY <1>4, <2>1, <2>2
<1>7. CASE pend.expand_compat
  BY <1>5, <1>6, <1>7
<1>8. CASE ~pend.expand_compat
  BY <1>2, <1>4, <1>5, <1>8
<1> QED
  BY <1>7, <1>8

-----------------------------------------------------------------------------
(* The invariant holds initially and is preserved. *)

\* The values the calls start from and the values they return have their types.
LEMMA Typed ==
    /\ NoPend \in Pends /\ NoBatch \in Batches /\ Nothing \in Results
    /\ \A t \in Tags, n \in Nat : Returned(t, n) \in Results
<1>1. NoPend \in Pends
  BY DEF NoPend, Pends
<1>2. NoBatch \in Batches
  BY DEF NoBatch, Batches
<1>3. \A t \in Tags, n \in Nat : Returned(t, n) \in Results
  BY DEF Returned, Results
<1>4. Nothing \in Results
  BY <1>3 DEF Nothing, Tags
<1> QED
  BY <1>1, <1>2, <1>3, <1>4

\* Whatever the builder is given, both buffers start empty.
LEMMA InitIInv == Init => IInv
<1> SUFFICES ASSUME Init PROVE IInv
  OBVIOUS
<1>1. PICK s \in Streams, policy \in Policies, version \in Versions \cup {NONE},
           buffer_size \in BufferSizes, compat_size \in CompatSizes :
           Build(s, policy, version, buffer_size, compat_size)
  BY DEF Init
<1> DEFINE cap == CompatCapacity(compat_size, ~s.meta, version, policy)
<1>2. buffer_size \in Nat /\ cap \in Nat
  BY LenAssumption DEF CompatCapacity
<1>3. buffer = WithCapacity(buffer_size) /\ compat_buffer = WithCapacity(cap)
  BY <1>1 DEF Build
<1> HIDE DEF cap
<1>4. /\ Sound(buffer) /\ AvailableData(buffer) = 0
      /\ Sound(compat_buffer) /\ AvailableData(compat_buffer) = 0
      /\ compat_buffer.position = 0 /\ compat_buffer.capacity \in Nat
  BY <1>2, <1>3, WithCapacitySound
<1>5. IsStream(s)
  BY StreamAssumption
<1>6. TypeOK
  <2>1. version \in Nat \cup {NONE}
    BY DEF Versions, DBN_VERSION
  <2>2. /\ state \in {"Prelude", "Record"} /\ input_dbn_version = version
        /\ upgrade_policy = policy /\ stream = s
        /\ ts_out = (IF s.meta THEN FALSE ELSE s.ts_out)
    BY <1>1 DEF Build
  <2>3. ts_out \in BOOLEAN
    BY <1>5, <2>2 DEF IsStream
  <2>4. pend \in Pends /\ batch \in Batches /\ result \in Results
    BY Typed DEF Init
  <2>5. buffer \in Buffers /\ compat_buffer \in Buffers
    BY <1>4 DEF Sound
  <2> QED
    BY <2>1, <2>2, <2>3, <2>4, <2>5 DEF Init, TypeOK
<1>7. PendInv
  BY <1>1, <1>4 DEF Init, PendInv, NoPend
<1>8. BatchInv
  BY <1>4 DEF Init, BatchInv, NoBatch
<1>9. CompatInv
  BY <1>4 DEF Init, CompatInv, NoPend
<1> QED
  BY <1>4, <1>6, <1>7, <1>8, <1>9 DEF IInv

\* Steps that leave both buffers and both records of what is owed to them alone.
LEMMA QuietStep ==
    ASSUME IInv, TypeOK', UNCHANGED <<state, pend, buffer, compat_buffer>>,
           \/ UNCHANGED <<batch, call>>
           \/ call' # "batch" /\ batch'.read = 0 /\ batch'.compat = 0
    PROVE  IInv'
<1>1. AvailableData(buffer) \in Nat
  BY Available DEF IInv
<1> QED
  BY <1>1 DEF IInv, PendInv, BatchInv, CompatInv

\* consume, in whichever loop, pays everything that is owed.
LEMMA ConsumeStepInv == IInv /\ ConsumeStep => IInv'
<1> SUFFICES ASSUME IInv, ConsumeStep PROVE IInv'
  OBVIOUS
<1>1. buffer' = ConsumedBuffer /\ compat_buffer' = ConsumedCompat
  BY DEF ConsumeStep
<1>2. /\ Sound(buffer') /\ Sound(compat_buffer')
      /\ AvailableData(compat_buffer') = 0
      /\ 2 * compat_buffer'.position <= compat_buffer'.capacity
      /\ base' = base + pend.read
  BY <1>1, ConsumedBufferFacts, ConsumedCompatFacts DEF ConsumeStep
<1>3. /\ AvailableData(buffer') \in Nat /\ AvailableSpace(compat_buffer') \in Nat
  BY <1>2, Available
<1>4. TypeOK'
  <2>1. pend.read \in Nat
    BY DEF IInv, TypeOK, Pends
  <2> QED
    BY <1>2, <2>1, Typed DEF IInv, TypeOK, ConsumeStep, config, multi, Sound
<1>5. PendInv'
  BY <1>2, <1>3 DEF ConsumeStep, PendInv, NoPend
<1>6. BatchInv'
  BY <1>3 DEF IInv, BatchInv, ConsumeStep, multi
<1>7. CompatInv'
  BY <1>2 DEF ConsumeStep, CompatInv, NoPend
<1> QED
  BY <1>2, <1>4, <1>5, <1>6, <1>7 DEF IInv

\* fill adds data behind what is owed.
LEMMA FillSpaceInv == ASSUME NEW n \in Chunks PROVE IInv /\ FillSpace(n) => IInv'
<1> SUFFICES ASSUME IInv, FillSpace(n) PROVE IInv'
  OBVIOUS
<1>1. n \in Nat
  BY LenAssumption
<1>2. /\ AvailableData(buffer) \in Nat /\ AvailableSpace(buffer) \in Nat
      /\ Sound(buffer) /\ Sound(compat_buffer)
  BY Available DEF IInv
<1>3. /\ Sound(buffer')
      /\ AvailableData(buffer') = AvailableData(buffer) + Least(n, AvailableSpace(buffer))
  BY <1>1, <1>2, FillSound DEF FillSpace
<1>4. AvailableData(buffer') \in Nat /\ AvailableData(buffer') >= AvailableData(buffer)
  BY <1>1, <1>2, <1>3 DEF Least
<1>5. TypeOK'
  BY <1>3, Typed DEF IInv, TypeOK, FillSpace, config, multi, history, Sound
<1>6. PendInv'
  <2>1. pend.read \in Nat
    BY DEF IInv, TypeOK, Pends
  <2> QED
    BY <1>2, <1>4, <2>1 DEF IInv, PendInv, FillSpace
<1>7. BatchInv'
  <2>1. batch.read \in Nat
    BY DEF IInv, TypeOK, Batches
  <2> QED
    BY <1>2, <1>4, <2>1 DEF IInv, BatchInv, FillSpace, multi
<1>8. CompatInv'
  BY DEF IInv, CompatInv, FillSpace
<1> QED
  BY <1>2, <1>3, <1>5, <1>6, <1>7, <1>8 DEF IInv, FillSpace

\* write_all pays what is owed first if it needs the room, and grows the buffer if
\* that was not enough.
LEMMA WriteAllInv == ASSUME NEW n \in Chunks PROVE IInv /\ WriteAll(n) => IInv'
<1> SUFFICES ASSUME IInv, WriteAll(n) PROVE IInv'
  OBVIOUS
<1> DEFINE consumes == AvailableSpace(buffer) < n /\ state = "Consume"
           room     == IF consumes THEN ConsumedBuffer ELSE buffer
           grown    == IF AvailableSpace(room) < n
                       THEN Grow(room, Most(2 * room.capacity, room.capacity + n))
                       ELSE room
<1>1. n \in Nat
  BY LenAssumption
<1>2. /\ buffer' = Fill(grown, n)
      /\ compat_buffer' = (IF consumes THEN ConsumedCompat ELSE compat_buffer)
      /\ base' = BaseAfter(room)
      /\ state' = (IF consumes THEN "Record" ELSE state)
      /\ pend' = (IF consumes THEN NoPend ELSE pend)
  BY DEF WriteAll
<1>3. /\ AvailableData(buffer) \in Nat /\ Sound(buffer) /\ Sound(compat_buffer)
      /\ AvailableData(compat_buffer) \in Nat /\ base \in Nat
      /\ pend.read \in Nat /\ pend.read <= AvailableData(buffer)
  BY Available DEF IInv, TypeOK, Pends, PendInv
<1>4. /\ Sound(room)
      /\ AvailableData(room) = AvailableData(buffer) - (IF consumes THEN pend.read ELSE 0)
      /\ base' = base + (IF consumes THEN pend.read ELSE 0)
  <2>1. BaseAfter(buffer) = base
    BY <1>3 DEF BaseAfter, Arrived
  <2> QED
    BY <1>2, <1>3, <2>1, ConsumedBufferFacts
<1> HIDE DEF consumes, room
<1>5. Sound(grown) /\ AvailableData(grown) = AvailableData(room)
  <2>1. room.capacity \in Nat
    BY <1>4, Available
  <2>2. Most(2 * room.capacity, room.capacity + n) \in Nat
    BY <1>1, <2>1 DEF Most
  <2> QED
    BY <1>4, <2>2, GrowSound
<1> HIDE DEF grown
<1>6. Sound(buffer') /\ AvailableData(buffer') >= AvailableData(room)
  <2>1. AvailableSpace(grown) \in Nat /\ AvailableData(grown) \in Nat
    BY <1>5, Available
  <2>2. /\ Sound(buffer')
        /\ AvailableData(buffer') = AvailableData(grown) + Least(n, AvailableSpace(grown))
    BY <1>1, <1>2, <1>5, FillSound
  <2>3. Least(n, AvailableSpace(grown)) \in Nat
    BY <1>1, <2>1 DEF Least
  <2> QED
    BY <1>5, <2>1, <2>2, <2>3
<1>7. AvailableData(buffer') \in Nat
  BY <1>6, Available
<1>8. call = "idle" /\ call' = "idle" /\ batch' = batch /\ batch.read = 0 /\ batch.compat = 0
  BY DEF WriteAll, IInv, BatchInv, multi
<1>9. CASE consumes
  <2>1. /\ Sound(compat_buffer') /\ AvailableData(compat_buffer') = 0
        /\ 2 * compat_buffer'.position <= compat_buffer'.capacity
        /\ pend' = NoPend /\ state' = "Record"
    BY <1>2, <1>9, ConsumedCompatFacts
  <2>2. AvailableSpace(compat_buffer') \in Nat
    BY <2>1, Available
  <2>3. TypeOK'
    BY <1>3, <1>4, <1>6, <1>9, <2>1, Typed DEF IInv, TypeOK, WriteAll, config, multi, Sound
  <2>4. PendInv'
    BY <1>7, <2>1 DEF PendInv, NoPend
  <2>5. BatchInv'
    BY <1>7, <1>8 DEF BatchInv
  <2>6. CompatInv'
    BY <2>1 DEF CompatInv, NoPend
  <2> QED
    BY <1>6, <2>1, <2>3, <2>4, <2>5, <2>6 DEF IInv
<1>10. CASE ~consumes
  <2>1. compat_buffer' = compat_buffer /\ pend' = pend /\ state' = state
    BY <1>2, <1>10
  <2>2. pend.read <= AvailableData(buffer')
    BY <1>3, <1>4, <1>6, <1>7, <1>10
  <2>3. TypeOK'
    BY <1>3, <1>4, <1>6, <1>10, <2>1, Typed DEF IInv, TypeOK, WriteAll, config, multi, Sound
  <2>4. PendInv'
    BY <2>1, <2>2 DEF IInv, PendInv
  <2>5. BatchInv'
    BY <1>7, <1>8 DEF BatchInv
  <2>6. CompatInv'
    BY <2>1 DEF IInv, CompatInv
  <2> QED
    BY <1>3, <1>6, <2>1, <2>3, <2>4, <2>5, <2>6 DEF IInv
<1> QED
  BY <1>9, <1>10

\* The records from the i-th on start one after the other.
LEMMA RecordsSpan ==
    ASSUME NEW s, IsStream(s), NEW i \in 1..Len(s.len), NEW k \in 1..2,
           i + k <= Len(s.len) + 1
    PROVE  s.at[i + k] - s.at[i] \in Nat
<1>1. /\ s.len \in Seq(Nat) /\ s.at \in Seq(Nat)
      /\ Len(s.at) = Len(s.len) + 1
  BY DEF IsStream
<1>2. \A j \in 1..Len(s.len) : s.at[j + 1] = s.at[j] + s.len[j]
  BY DEF IsStream
<1>3. \A j \in 1..Len(s.len) : s.at[j] \in Nat /\ s.len[j] \in Nat
  <2> SUFFICES ASSUME NEW j \in 1..Len(s.len) PROVE s.at[j] \in Nat /\ s.len[j] \in Nat
    OBVIOUS
  <2>1. j \in 1..Len(s.at)
    BY <1>1
  <2>2. s.at[j] \in Nat
    BY <1>1, <2>1, ElementOfSeq
  <2>3. s.len[j] \in Nat
    BY <1>1, ElementOfSeq
  <2> QED
    BY <2>2, <2>3
<1>4. s.at[i] \in Nat /\ s.len[i] \in Nat /\ s.at[i + 1] = s.at[i] + s.len[i]
  BY <1>2, <1>3
<1>5. CASE k = 1
  BY <1>4, <1>5
<1>6. CASE k = 2
  <2>1. i + 1 \in 1..Len(s.len) /\ (i + 1) + 1 = i + 2
    BY <1>1, <1>6
  <2>2. s.len[i + 1] \in Nat /\ s.at[i + 2] = s.at[i + 1] + s.len[i + 1]
    BY <1>2, <1>3, <2>1
  <2> QED
    BY <1>4, <1>6, <2>2
<1> QED
  BY <1>5, <1>6

\* skip pays what is owed and then releases whole records.
LEMMA SkipInv == ASSUME NEW k \in 1..2 PROVE IInv /\ Skip(k) => IInv'
<1> SUFFICES ASSUME IInv, Skip(k) PROVE IInv'
  OBVIOUS
<1> DEFINE i      == IndexAt(base + pend.read)
           nbytes == stream.at[i + k] - stream.at[i]
<1>1. /\ i # 0 /\ i + k <= Len(stream.at)
      /\ buffer' = Consume(Released, nbytes)
      /\ base' = BaseAfter(Released) + nbytes
      /\ compat_buffer' = (IF state = "Consume" THEN ConsumedCompat ELSE compat_buffer)
      /\ state' = "Record" /\ pend' = NoPend
      /\ result' = Returned("Skipped", nbytes)
      /\ state \in {"Record", "Consume"}
  BY DEF Skip
<1>2. nbytes \in Nat
  <2>1. IsStream(stream)
    BY StreamAssumption DEF IInv, TypeOK
  <2>2. i \in 1..Len(stream.len)
    BY <1>1 DEF IndexAt
  <2> HIDE DEF i
  <2>3. i + k <= Len(stream.len) + 1
    BY <1>1, <2>1 DEF IsStream
  <2> QED
    BY <2>1, <2>2, <2>3, RecordsSpan
<1> HIDE DEF i, nbytes
<1>3. /\ AvailableData(buffer) \in Nat /\ Sound(buffer) /\ Sound(compat_buffer)
      /\ pend.read \in Nat /\ base \in Nat
  BY Available DEF IInv, TypeOK, Pends
<1>4. Sound(Released) /\ BaseAfter(Released) \in Nat
  <2>1. BaseAfter(buffer) = base
    BY <1>3 DEF BaseAfter, Arrived
  <2> QED
    BY <1>3, <2>1, ConsumedBufferFacts DEF Released
<1>5. Sound(buffer')
  BY <1>1, <1>2, <1>4, ConsumeSound
<1>6. /\ Sound(compat_buffer') /\ AvailableData(compat_buffer') = 0
      /\ 2 * compat_buffer'.position <= compat_buffer'.capacity
  <2>1. CASE state = "Consume"
    BY <1>1, <2>1, ConsumedCompatFacts
  <2>2. CASE state # "Consume"
    BY <1>1, <2>2 DEF IInv, PendInv, CompatInv, NoPend
  <2> QED
    BY <2>1, <2>2
<1>7. AvailableData(buffer') \in Nat /\ AvailableSpace(compat_buffer') \in Nat
  BY <1>5, <1>6, Available
<1>8. TypeOK'
  <2>1. result' \in Results
    BY <1>1, <1>2, Typed DEF Tags
  <2>2. base' \in Nat
    BY <1>1, <1>2, <1>4
  <2> QED
    BY <1>1, <1>5, <1>6, <2>1, <2>2, Typed DEF IInv, TypeOK, Skip, config, multi, Sound
<1>9. PendInv'
  BY <1>1, <1>6, <1>7 DEF PendInv, NoPend
<1>10. BatchInv'
  BY <1>7 DEF IInv, BatchInv, Skip, multi
<1>11. CompatInv'
  BY <1>1, <1>6 DEF CompatInv, NoPend
<1> QED
  BY <1>5, <1>6, <1>8, <1>9, <1>10, <1>11 DEF IInv

\* reset forgets the data and the debts together.
LEMMA ResetInv == ASSUME NEW s \in Streams PROVE IInv /\ ResetFsm(s) => IInv'
<1> SUFFICES ASSUME IInv, ResetFsm(s) PROVE IInv'
  OBVIOUS
<1>1. Sound(buffer) /\ Sound(compat_buffer)
  BY DEF IInv
<1>2. /\ Sound(buffer') /\ AvailableData(buffer') = 0
      /\ Sound(compat_buffer') /\ AvailableData(compat_buffer') = 0
      /\ compat_buffer'.position = 0
  BY <1>1, ResetSound DEF ResetFsm
<1>3. compat_buffer'.capacity \in Nat
  BY <1>2, Available
<1>4. TypeOK'
  BY <1>2, Typed DEF IInv, TypeOK, ResetFsm, multi, Sound
<1>5. PendInv'
  BY <1>2 DEF ResetFsm, PendInv, NoPend
<1>6. BatchInv'
  BY <1>2 DEF IInv, BatchInv, ResetFsm, multi
<1>7. CompatInv'
  BY <1>2, <1>3 DEF ResetFsm, CompatInv, NoPend
<1> QED
  BY <1>2, <1>4, <1>5, <1>6, <1>7 DEF IInv

\* The setters change the configuration only.
LEMMA SetterInv ==
    /\ \A policy \in Policies : IInv /\ SetUpgradePolicy(policy) => IInv'
    /\ IInv /\ SetInputDbnVersion => IInv'
    /\ \A b \in BOOLEAN : IInv /\ SetTsOut(b) => IInv'
<1>1. ASSUME NEW policy \in Policies, IInv, SetUpgradePolicy(policy) PROVE IInv'
  <2>1. TypeOK'
    BY <1>1, Typed DEF IInv, TypeOK, SetUpgradePolicy, machine, multi, history, Tags
  <2> QED
    BY <1>1, <2>1, QuietStep DEF SetUpgradePolicy, machine, multi
<1>2. ASSUME IInv, SetInputDbnVersion PROVE IInv'
  <2>1. stream.version \in Nat
    BY <1>2, StreamAssumption DEF IInv, TypeOK, IsStream
  <2>2. TypeOK'
    BY <1>2, <2>1, Typed DEF IInv, TypeOK, SetInputDbnVersion, machine, multi, history, Tags
  <2> QED
    BY <1>2, <2>2, QuietStep DEF SetInputDbnVersion, machine, multi
<1>3. ASSUME NEW b \in BOOLEAN, IInv, SetTsOut(b) PROVE IInv'
  <2>1. TypeOK'
    BY <1>3, Typed DEF IInv, TypeOK, SetTsOut, machine, multi, history
  <2> QED
    BY <1>3, <2>1, QuietStep DEF SetTsOut, machine, multi
<1> QED
  BY <1>1, <1>2, <1>3

\* A call starts with nothing taken.
LEMMA CallInv ==
    /\ IInv /\ CallProcess => IInv'
    /\ \A limit \in Limits : IInv /\ CallProcessMultiple(limit) => IInv'
<1>1. ASSUME IInv, CallProcess PROVE IInv'
  <2>1. TypeOK'
    BY <1>1, Typed DEF IInv, TypeOK, CallProcess, machine, config, multi, history
  <2>2. batch'.read = 0 /\ batch'.compat = 0 /\ call' # "batch"
    BY <1>1 DEF IInv, BatchInv, CallProcess, multi
  <2> QED
    BY <1>1, <2>1, <2>2, QuietStep DEF CallProcess, machine
<1>2. ASSUME NEW limit \in Limits, IInv, CallProcessMultiple(limit) PROVE IInv'
  <2>1. /\ batch' \in Batches /\ batch'.read = 0 /\ batch'.compat = 0
        /\ call' # "batch"
    BY <1>2, LenAssumption DEF CallProcessMultiple, NoBatch, Batches
  <2>2. TypeOK'
    BY <1>2, <2>1, Typed DEF IInv, TypeOK, CallProcessMultiple, machine, config, history
  <2> QED
    BY <1>2, <2>1, <2>2, QuietStep DEF CallProcessMultiple, machine
<1> QED
  BY <1>1, <1>2

\* Asking for more bytes and the errors of the loops leave the buffers alone.
LEMMA ReturnInv ==
    IInv /\ (ReadMore \/ DecodePreludeErr \/ DecodeMetadataErr \/ RecordInvalid
              \/ BatchInvalid) => IInv'
<1>0. NoBatch.read = 0 /\ NoBatch.compat = 0 /\ "ReadMore" \in Tags /\ "Err" \in Tags
  BY DEF NoBatch, Tags
<1>1. ASSUME IInv, ReadMore PROVE IInv'
  <2>1. Missing \in Nat
    <3>1. Missing > 0
      BY <1>1 DEF ReadMore
    <3>2. /\ AvailableData(buffer) \in Nat /\ length \in Nat /\ stream \in Streams
      BY <1>1, Available DEF IInv, TypeOK
    <3>3. LengthAt(base) \in Nat
      BY <3>2, RecordAt
    <3>4. METADATA_PRELUDE_LEN \in Nat /\ HEADER_LEN \in Nat
      BY LenAssumption
    <3>5. Missing \in Int
      BY <3>2, <3>3, <3>4 DEF Missing
    <3> QED
      BY <3>1, <3>5
  <2>2. TypeOK'
    BY <1>0, <1>1, <2>1, Typed DEF IInv, TypeOK, ReadMore, Return, machine, config, history
  <2> QED
    BY <1>0, <1>1, <2>2, QuietStep DEF ReadMore, Return, machine
<1>2. ASSUME IInv, DecodePreludeErr PROVE IInv'
  <2>1. stream.version \in Nat
    BY <1>2, StreamAssumption DEF IInv, TypeOK, IsStream
  <2>2. TypeOK'
    BY <1>0, <1>2, <2>1, Typed DEF IInv, TypeOK, DecodePreludeErr, Return, machine, history
  <2> QED
    BY <1>0, <1>2, <2>2, QuietStep DEF DecodePreludeErr, Return, machine
<1>3. ASSUME IInv, DecodeMetadataErr PROVE IInv'
  <2>1. TypeOK'
    BY <1>0, <1>3, Typed DEF IInv, TypeOK, DecodeMetadataErr, Return, machine, config, history
  <2> QED
    BY <1>0, <1>3, <2>1, QuietStep DEF DecodeMetadataErr, Return, machine
<1>4. ASSUME IInv, RecordInvalid PROVE IInv'
  <2>1. TypeOK'
    BY <1>0, <1>4, Typed DEF IInv, TypeOK, RecordInvalid, Return, machine, config, history
  <2> QED
    BY <1>0, <1>4, <2>1, QuietStep DEF RecordInvalid, Return, machine
<1>5. ASSUME IInv, BatchInvalid PROVE IInv'
  <2>1. TypeOK'
    BY <1>0, <1>5, Typed DEF IInv, TypeOK, BatchInvalid, Return, machine, config, history
  <2> QED
    BY <1>0, <1>5, <2>1, QuietStep DEF BatchInvalid, Return, machine
<1> QED
  BY <1>1, <1>2, <1>3, <1>4, <1>5

\* decode_prelude releases the prelude, makes room for the metadata and gives a
\* machine that will upgrade its first compat buffer.
LEMMA DecodePreludeInv == IInv /\ DecodePrelude => IInv'
<1> SUFFICES ASSUME IInv, DecodePrelude PROVE IInv'
  OBVIOUS
<1> DEFINE rest == ConsumeNoshift(buffer, METADATA_PRELUDE_LEN)
<1>1. /\ METADATA_PRELUDE_LEN \in Nat /\ stream.mlen \in Nat /\ stream.version \in Nat
      /\ MetadataCapacity \in Nat
  BY LenAssumption, StreamAssumption DEF IInv, TypeOK, IsStream, MetadataCapacity
<1>2. /\ Sound(buffer) /\ Sound(compat_buffer) /\ pend = NoPend
      /\ AvailableData(compat_buffer) = 0 /\ state' = "Metadata" /\ pend' = pend
      /\ batch.read = 0 /\ batch.compat = 0 /\ batch' = batch /\ call' = call
      /\ call \in {"process", "multiple"}
      /\ 2 * compat_buffer.position <= compat_buffer.capacity
  BY DEF IInv, PendInv, BatchInv, CompatInv, DecodePrelude, multi, NoPend
<1>3. Sound(rest)
  BY <1>1, <1>2, ConsumeNoshiftSound
<1> HIDE DEF rest
<1>4. Sound(buffer')
  BY <1>1, <1>3, GrowSound DEF DecodePrelude, rest
<1>5. /\ Sound(DoubleCompat(compat_buffer))
      /\ DoubleCompat(compat_buffer).position = compat_buffer.position
      /\ DoubleCompat(compat_buffer).capacity >= compat_buffer.capacity
      /\ AvailableData(DoubleCompat(compat_buffer)) = 0
  BY <1>2, DoubleCompatFacts
<1>6. /\ compat_buffer.capacity \in Nat /\ compat_buffer.position \in Nat
      /\ DoubleCompat(compat_buffer).capacity \in Nat
  BY <1>2, <1>5, Available
<1>7. compat_buffer' = compat_buffer \/ compat_buffer' = DoubleCompat(compat_buffer)
  BY DEF DecodePrelude
<1>8. /\ Sound(compat_buffer') /\ AvailableData(compat_buffer') = 0
      /\ 2 * compat_buffer'.position <= compat_buffer'.capacity
  BY <1>2, <1>5, <1>6, <1>7
<1>9. AvailableData(buffer') \in Nat /\ AvailableSpace(compat_buffer') \in Nat
  BY <1>4, <1>8, Available
<1>10. TypeOK'
  BY <1>1, <1>4, <1>8 DEF IInv, TypeOK, DecodePrelude, multi, Sound
<1>11. PendInv'
  BY <1>2, <1>8, <1>9 DEF PendInv, NoPend
<1>12. BatchInv'
  BY <1>2, <1>9 DEF BatchInv
<1>13. CompatInv'
  BY <1>2, <1>8 DEF CompatInv, NoPend
<1> QED
  BY <1>4, <1>8, <1>10, <1>11, <1>12, <1>13 DEF IInv

\* decode_metadata releases the metadata.
LEMMA DecodeMetadataInv == IInv /\ DecodeMetadata => IInv'
<1> SUFFICES ASSUME IInv, DecodeMetadata PROVE IInv'
  OBVIOUS
<1>1. /\ Sound(buffer) /\ length \in Nat /\ base \in Nat /\ pend = NoPend
      /\ pend' = pend /\ compat_buffer' = compat_buffer /\ call' = "idle"
      /\ batch' = NoBatch /\ state' = "Record" /\ length' = 0
      /\ AvailableData(compat_buffer) = 0
  BY DEF IInv, TypeOK, PendInv, DecodeMetadata, Return, NoPend
<1>2. Sound(Consume(buffer, length))
  BY <1>1, ConsumeSound
<1>3. Sound(buffer')
  BY <1>2, ShiftSound DEF DecodeMetadata
<1>4. AvailableData(buffer') \in Nat
  BY <1>3, Available
<1>5. TypeOK'
  <2>1. stream.ts_out \in BOOLEAN
    BY StreamAssumption DEF IInv, TypeOK, IsStream
  <2>2. "Metadata" \in Tags
    BY DEF Tags
  <2> QED
    BY <1>1, <1>3, <2>1, <2>2, Typed DEF IInv, TypeOK, DecodeMetadata, Return, Sound
<1>6. PendInv'
  BY <1>1, <1>4 DEF PendInv, NoPend
<1>7. BatchInv'
  BY <1>1, <1>4 DEF BatchInv, NoBatch
<1>8. CompatInv'
  BY <1>1 DEF IInv, CompatInv, NoPend
<1> QED
  BY <1>1, <1>3, <1>5, <1>6, <1>7, <1>8 DEF IInv

\* An upgrade that finds no room only grows the compat buffer.
LEMMA RecordNeedsCompatInv == IInv /\ RecordNeedsCompat => IInv'
<1> SUFFICES ASSUME IInv, RecordNeedsCompat PROVE IInv'
  OBVIOUS
<1>1. /\ Sound(compat_buffer) /\ Sound(buffer) /\ pend = NoPend /\ state = "Record"
      /\ UNCHANGED <<state, pend, buffer, batch, call>> /\ call = "process"
      /\ batch.read = 0 /\ batch.compat = 0 /\ AvailableData(compat_buffer) = 0
      /\ compat_buffer' = DoubleCompat(compat_buffer)
      /\ 2 * compat_buffer.position <= compat_buffer.capacity
  BY DEF IInv, PendInv, BatchInv, CompatInv, RecordNeedsCompat, RecordReady, multi, NoPend
<1>2. /\ Sound(compat_buffer') /\ compat_buffer'.position = compat_buffer.position
      /\ compat_buffer'.capacity >= compat_buffer.capacity
      /\ AvailableData(compat_buffer') = 0
  BY <1>1, DoubleCompatFacts
<1>3. /\ compat_buffer.capacity \in Nat /\ compat_buffer.position \in Nat
      /\ compat_buffer'.capacity \in Nat /\ AvailableData(buffer) \in Nat
  BY <1>1, <1>2, Available
<1>4. TypeOK'
  <2>1. UpgradeAt(base).version \in Nat \cup {NONE}
    BY UpgradeAtFacts DEF IInv, RecordNeedsCompat
  <2> QED
    BY <1>1, <1>2, <2>1 DEF IInv, TypeOK, RecordNeedsCompat, multi, history, Sound
<1>5. PendInv'
  BY <1>1, <1>2, <1>3 DEF PendInv, NoPend
<1>6. BatchInv'
  BY <1>1, <1>3 DEF BatchInv
<1>7. CompatInv'
  BY <1>1, <1>2, <1>3 DEF CompatInv, NoPend
<1> QED
  BY <1>1, <1>2, <1>4, <1>5, <1>6, <1>7 DEF IInv

\* process hands out one record: the bytes read and the bytes upgraded are owed.
LEMMA RecordDecodedInv == IInv /\ RecordDecoded => IInv'
<1> SUFFICES ASSUME IInv, RecordDecoded PROVE IInv'
  OBVIOUS
<1> DEFINE bytes == CompatBytesAt(base)
<1>1. /\ Sound(compat_buffer) /\ Sound(buffer) /\ state = "Record" /\ pend = NoPend
      /\ UNCHANGED <<buffer, batch, stream, base>> /\ call = "process" /\ state' = "Consume"
      /\ batch.read = 0 /\ batch.compat = 0 /\ AvailableData(compat_buffer) = 0
      /\ compat_buffer' = Fill(compat_buffer, bytes)
      /\ 2 * compat_buffer.position <= compat_buffer.capacity
      /\ call' \in {"idle", "panicked"} /\ stream \in Streams
  BY DEF IInv, TypeOK, PendInv, BatchInv, CompatInv, RecordDecoded, RecordReady, multi,
         NoPend, AfterReading
<1>2. UpgradeAt(base).version \in Nat \cup {NONE} /\ bytes \in Nat
  BY UpgradeAtFacts DEF IInv, RecordDecoded
<1>3. /\ AvailableData(buffer) \in Nat /\ AvailableSpace(compat_buffer) \in Nat
      /\ compat_buffer.capacity \in Nat /\ compat_buffer.position \in Nat
  BY <1>1, Available
<1>4. bytes > 0 => bytes < AvailableSpace(compat_buffer)
  BY DEF RecordDecoded, FitsAt
<1>5. LengthAt(base) \in Nat /\ LengthAt(base) <= AvailableData(buffer)
  <2>1. LengthAt(base) \in Nat
    BY <1>1, RecordAt
  <2>2. HEADER_LEN \in Nat /\ AvailableData(buffer) >= HEADER_LEN /\ Missing <= 0
    BY LenAssumption DEF RecordDecoded, RecordReady
  <2>3. ~(AvailableData(buffer) < HEADER_LEN)
    BY <1>3, <2>2
  <2>4. Missing = LengthAt(base) - AvailableData(buffer)
    BY <1>1, <2>2, <2>3 DEF Missing
  <2> QED
    BY <1>3, <2>1, <2>2, <2>4
<1>6. /\ pend'.read = LengthAt(base) /\ pend'.compat = bytes /\ pend'.compat_fill = 0
      /\ pend'.expand_compat = FALSE /\ pend' \in Pends
  BY <1>2, <1>5 DEF RecordDecoded, Pends
<1> HIDE DEF bytes
<1>7. Least(bytes, AvailableSpace(compat_buffer)) = bytes
  BY <1>2, <1>3, <1>4 DEF Least
<1>8. /\ Sound(compat_buffer') /\ compat_buffer'.capacity = compat_buffer.capacity
      /\ compat_buffer'.position <= compat_buffer.position
      /\ AvailableData(compat_buffer')
           = AvailableData(compat_buffer) + Least(bytes, AvailableSpace(compat_buffer))
  BY <1>1, <1>2, FillSound
<1>9. AvailableData(compat_buffer') = bytes /\ compat_buffer'.position \in Nat
  <2>1. compat_buffer'.position \in Nat
    BY <1>8, Available
  <2> QED
    BY <1>1, <1>2, <1>7, <1>8, <2>1
<1>10. TypeOK'
  <2>1. "Record" \in Tags
    BY DEF Tags
  <2>2. result' \in Results
    BY <2>1, Typed DEF RecordDecoded
  <2> QED
    BY <1>1, <1>2, <1>6, <1>8, <2>2 DEF IInv, TypeOK, RecordDecoded, multi, Sound
<1>11. PendInv'
  BY <1>1, <1>2, <1>5, <1>6, <1>9 DEF PendInv
<1>12. BatchInv'
  BY <1>1, <1>3 DEF BatchInv
<1>13. CompatInv'
  BY <1>1, <1>3, <1>6, <1>8, <1>9 DEF CompatInv
<1> QED
  BY <1>1, <1>8, <1>10, <1>11, <1>12, <1>13 DEF IInv

\* process_multiple enters its second loop with nothing taken.
LEMMA BatchStartInv == IInv /\ BatchStart => IInv'
<1> SUFFICES ASSUME IInv, BatchStart PROVE IInv'
  OBVIOUS
<1>1. /\ UNCHANGED <<state, pend, buffer, compat_buffer, batch>> /\ state = "Record"
      /\ call = "multiple" /\ call' = "batch"
  BY DEF BatchStart, machine, multi
<1>2. TypeOK'
  BY DEF IInv, TypeOK, BatchStart, machine, config, multi, history
<1>3. PendInv' /\ BatchInv' /\ CompatInv'
  BY <1>1 DEF IInv, PendInv, BatchInv, CompatInv
<1> QED
  BY <1>1, <1>2, <1>3 DEF IInv

\* A batch takes a record only if all of it is there and its upgrade fits behind
\* those before it.
LEMMA BatchPushInv == IInv /\ BatchPush => IInv'
<1> SUFFICES ASSUME IInv, BatchPush PROVE IInv'
  OBVIOUS
<1> DEFINE bytes == CompatBytesAt(BatchOffset)
<1>1. /\ UNCHANGED <<state, pend, buffer, compat_buffer, stream>> /\ state = "Record"
      /\ call' \in {"batch", "panicked"} /\ stream \in Streams
      /\ Sound(buffer) /\ Sound(compat_buffer)
  BY DEF IInv, TypeOK, BatchInv, BatchPush, machine, history, AfterReading
<1>2. UpgradeAt(BatchOffset).version \in Nat \cup {NONE} /\ bytes \in Nat
  BY UpgradeAtFacts DEF IInv, BatchPush, BatchLength
<1>3. BatchLength \in Nat
  BY <1>1, RecordAt DEF BatchLength
<1>4. /\ batch.count \in Nat /\ batch.read \in Nat /\ batch.compat \in Nat
      /\ batch.limit \in Nat \cup {NONE}
      /\ AvailableData(buffer) \in Nat /\ AvailableSpace(compat_buffer) \in Nat
  BY <1>1, Available DEF IInv, TypeOK, Batches
<1>5. /\ batch'.read = batch.read + BatchLength /\ batch'.compat = batch.compat + bytes
      /\ batch' \in Batches
  <2>1. batch' = [count  |-> batch.count + 1, read |-> batch.read + BatchLength,
                  compat |-> batch.compat + bytes, limit |-> batch.limit]
    BY DEF BatchPush
  <2> HIDE DEF bytes
  <2>2. /\ batch.count + 1 \in Nat /\ batch.read + BatchLength \in Nat
        /\ batch.compat + bytes \in Nat
    BY <1>2, <1>3, <1>4
  <2> QED
    BY <1>4, <2>1, <2>2 DEF Batches
<1>6. /\ BatchLength <= AvailableData(buffer) - batch.read
      /\ bytes > 0 => bytes < AvailableSpace(compat_buffer) - batch.compat
      /\ batch.compat > 0 => batch.compat < AvailableSpace(compat_buffer)
  BY DEF BatchPush, BatchComplete, BatchFits, FitsAt, IInv, BatchInv
<1> HIDE DEF bytes
<1>7. /\ batch'.read <= AvailableData(buffer)
      /\ batch'.compat > 0 => batch'.compat < AvailableSpace(compat_buffer)
  BY <1>2, <1>3, <1>4, <1>5, <1>6
<1>8. TypeOK'
  BY <1>1, <1>2, <1>5 DEF IInv, TypeOK, BatchPush, machine, history
<1>9. PendInv' /\ CompatInv'
  BY <1>1 DEF IInv, PendInv, CompatInv
<1>10. BatchInv'
  BY <1>1, <1>7 DEF BatchInv
<1> QED
  BY <1>1, <1>8, <1>9, <1>10 DEF IInv

\* A batch ends owing exactly what it took, and asks for a larger compat buffer only
\* if the next upgrade found no room behind it.
LEMMA BatchEndInv == IInv /\ BatchEnd => IInv'
<1> SUFFICES ASSUME IInv, BatchEnd PROVE IInv'
  OBVIOUS
<1>1. /\ UNCHANGED <<buffer, compat_buffer, stream, base>> /\ state = "Record"
      /\ call' = "idle" /\ state' = "Consume" /\ batch' = NoBatch
      /\ pend = NoPend /\ AvailableData(compat_buffer) = 0
      /\ Sound(buffer) /\ Sound(compat_buffer)
      /\ batch.read <= AvailableData(buffer)
      /\ batch.compat > 0 => batch.compat < AvailableSpace(compat_buffer)
  BY DEF IInv, PendInv, BatchInv, BatchEnd, Return, NoPend
<1>2. /\ batch.count \in Nat /\ batch.read \in Nat /\ batch.compat \in Nat
      /\ AvailableData(buffer) \in Nat /\ AvailableSpace(compat_buffer) \in Nat
  BY <1>1, Available DEF IInv, TypeOK, Batches
<1>3. ExpandCompat \in BOOLEAN
  BY DEF ExpandCompat, BatchGoesOn, BatchHasCapacity
<1>4. /\ pend'.read = batch.read /\ pend'.compat = batch.compat
      /\ pend'.compat_fill = batch.compat /\ pend'.expand_compat = ExpandCompat
      /\ pend' \in Pends
  BY <1>2, <1>3 DEF BatchEnd, Pends
<1>5. BatchGoesOn => LengthAt(BatchOffset) >= HEADER_LEN
  BY DEF BatchEnd, BatchLength
<1>6. input_dbn_version' \in Nat \cup {NONE}
  <2>1. CASE BatchGoesOn /\ BatchComplete
    BY <1>5, <2>1, UpgradeAtFacts DEF IInv, BatchEnd
  <2>2. CASE ~(BatchGoesOn /\ BatchComplete)
    BY <2>2 DEF IInv, TypeOK, BatchEnd
  <2> QED
    BY <2>1, <2>2
<1>7. ExpandCompat => AvailableSpace(compat_buffer) <= batch.compat + MAX_RECORD_LEN
  <2> SUFFICES ASSUME ExpandCompat
               PROVE  AvailableSpace(compat_buffer) <= batch.compat + MAX_RECORD_LEN
    OBVIOUS
  <2>1. CompatBytesAt(BatchOffset) \in Nat /\ CompatBytesAt(BatchOffset) <= MAX_RECORD_LEN
    BY <1>5, UpgradeAtFacts DEF IInv, ExpandCompat
  <2>2. ~(CompatBytesAt(BatchOffset) < AvailableSpace(compat_buffer) - batch.compat)
    BY DEF ExpandCompat, BatchFits, FitsAt
  <2>3. MAX_RECORD_LEN \in Nat
    BY SizeAssumption DEF MAX_RECORD_LEN, RTypes, Versions, DBN_VERSION
  <2> QED
    BY <1>2, <2>1, <2>2, <2>3
<1>8. TypeOK'
  <2>1. "Records" \in Tags
    BY DEF Tags
  <2>2. result' \in Results /\ batch' \in Batches
    BY <1>2, <2>1, Typed DEF BatchEnd, Return
  <2> QED
    BY <1>1, <1>4, <1>6, <2>2 DEF IInv, TypeOK, BatchEnd
<1>9. PendInv'
  BY <1>1, <1>2, <1>4 DEF PendInv
<1>10. BatchInv'
  BY <1>1, <1>2 DEF BatchInv, NoBatch
<1>11. CompatInv'
  BY <1>1, <1>4, <1>7 DEF IInv, CompatInv
<1> QED
  BY <1>1, <1>8, <1>9, <1>10, <1>11 DEF IInv

\* Every step preserves the invariant.
LEMMA NextIInv == IInv /\ [Next]_vars => IInv'
<1> SUFFICES ASSUME IInv, [Next]_vars PROVE IInv'
  OBVIOUS
<1>1. CASE LoopStep
  BY <1>1, ConsumeStepInv, ReturnInv, DecodePreludeInv, DecodeMetadataInv,
     RecordNeedsCompatInv, RecordDecodedInv, BatchStartInv, BatchPushInv, BatchEndInv
     DEF LoopStep
<1>2. CASE ClientStep
  BY <1>2, FillSpaceInv, WriteAllInv, SkipInv, ResetInv, SetterInv, CallInv DEF ClientStep
<1>3. CASE UNCHANGED vars
  <2>1. TypeOK'
    BY <1>3 DEF IInv, TypeOK, vars, machine, config, multi, history
  <2> QED
    BY <1>3, <2>1, QuietStep DEF vars, machine, multi
<1> QED
  BY <1>1, <1>2, <1>3 DEF Next

\* The invariant of the buffers always holds.
LEMMA IInvAlways == Spec => []IInv
<1> QED
  BY InitIInv, NextIInv, PTL DEF Spec

\* DbnFsm's state is of its type in every behaviour: for every set of streams, also
\* cut short or malformed ones, every sizes of buffers and chunks and every order of
\* calls.
THEOREM TypeCorrect == Spec => []TypeOK
<1>1. IInv => TypeOK
  BY DEF IInv
<1> QED
  BY <1>1, IInvAlways, PTL

\* What State::Consume owes the two buffers is in them, and outside State::Consume
\* nothing is owed: data() and last_record() slice the buffers on the strength of it.
THEOREM PendingBuffered == Spec => []PendingIsBuffered
<1>1. ASSUME IInv PROVE PendingIsBuffered
  <2>1. /\ pend.compat \in Nat /\ pend.compat_fill \in Nat
        /\ Sound(buffer) /\ Sound(compat_buffer)
    BY <1>1 DEF IInv, TypeOK, Pends
  <2>2. AvailableSpace(compat_buffer) \in Nat
    BY <2>1, Available
  <2>3. CASE pend.compat_fill = 0
    BY <1>1, <2>1, <2>3 DEF IInv, PendInv, PendingIsBuffered, Sound
  <2>4. CASE pend.compat_fill # 0
    BY <1>1, <2>1, <2>2, <2>4 DEF IInv, PendInv, PendingIsBuffered, Sound
  <2> QED
    BY <2>3, <2>4
<1> QED
  BY <1>1, IInvAlways, PTL

-----------------------------------------------------------------------------
(* How far the compat buffer grows. *)

\* At least half of an empty compat buffer is free.
LEMMA HalfIsFree ==
    ASSUME IInv, AvailableData(compat_buffer) = 0
    PROVE  compat_buffer.capacity <= 2 * AvailableSpace(compat_buffer)
<1>1. /\ compat_buffer.capacity \in Nat /\ compat_buffer.position \in Nat
      /\ AvailableSpace(compat_buffer) \in Nat
      /\ 0 + AvailableSpace(compat_buffer)
           = compat_buffer.capacity - compat_buffer.position
  BY Available DEF IInv
<1>2. 2 * compat_buffer.position <= compat_buffer.capacity
  BY DEF IInv, CompatInv
<1> QED
  BY <1>1, <1>2

\* consume doubles the compat buffer only behind a batch that used it up.
LEMMA ConsumeGrowth ==
    ASSUME IInv, ConsumedCompat.capacity > compat_buffer.capacity
    PROVE  compat_buffer.capacity <= 2 * (pend.compat + MAX_RECORD_LEN)
<1>1. pend.expand_compat
  BY ConsumedCompatFacts
<1>2. /\ AvailableSpace(compat_buffer) <= pend.compat + MAX_RECORD_LEN
      /\ pend.compat_fill = pend.compat
      /\ AvailableData(compat_buffer) = pend.compat - pend.compat_fill
      /\ pend.compat \in Nat /\ pend.compat_fill \in Nat
  BY <1>1 DEF IInv, PendInv, CompatInv, TypeOK, Pends
<1>3. compat_buffer.capacity <= 2 * AvailableSpace(compat_buffer)
  BY <1>2, HalfIsFree
<1>4. compat_buffer.capacity \in Nat /\ AvailableSpace(compat_buffer) \in Nat
  BY Available DEF IInv
<1>5. MAX_RECORD_LEN \in Nat
  BY SizeAssumption DEF MAX_RECORD_LEN, RTypes, Versions, DBN_VERSION
<1> QED
  BY <1>2, <1>3, <1>4, <1>5

\* So does process, when one record alone does not fit.
LEMMA RecordGrowth ==
    ASSUME IInv, RecordNeedsCompat
    PROVE  compat_buffer.capacity <= 2 * (pend.compat + MAX_RECORD_LEN)
<1>1. AvailableData(compat_buffer) = 0 /\ pend.compat = 0
  BY DEF IInv, PendInv, NoPend, RecordNeedsCompat, RecordReady
<1>2. CompatBytesAt(base) \in Nat /\ CompatBytesAt(base) <= MAX_RECORD_LEN
  BY UpgradeAtFacts DEF IInv, RecordNeedsCompat
<1>3. ~(CompatBytesAt(base) < AvailableSpace(compat_buffer))
  BY DEF RecordNeedsCompat, FitsAt
<1>4. compat_buffer.capacity <= 2 * AvailableSpace(compat_buffer)
  BY <1>1, HalfIsFree
<1>5. compat_buffer.capacity \in Nat /\ AvailableSpace(compat_buffer) \in Nat
  BY Available DEF IInv
<1>6. MAX_RECORD_LEN \in Nat
  BY SizeAssumption DEF MAX_RECORD_LEN, RTypes, Versions, DBN_VERSION
<1> QED
  BY <1>1, <1>2, <1>3, <1>4, <1>5, <1>6

\* The compat buffer grows only when the upgraded records of one call, and one more,
\* need at least half of it: however long the stream, its size stays within a small
\* multiple of what one call upgrades.
THEOREM CompatGrowth == Spec => CompatGrowsWhenNeeded
<1> DEFINE Needed == compat_buffer.capacity <= 2 * (pend.compat + MAX_RECORD_LEN)
           Grew   == compat_buffer'.capacity > compat_buffer.capacity
<1>1. ASSUME IInv, [Next]_vars, Grew PROVE Needed
  <2>1. /\ compat_buffer.capacity \in Nat /\ pend.compat \in Nat /\ MAX_RECORD_LEN \in Nat
        /\ Sound(compat_buffer)
    BY <1>1, Available, SizeAssumption
       DEF IInv, TypeOK, Pends, MAX_RECORD_LEN, RTypes, Versions, DBN_VERSION
  <2>2. compat_buffer' # compat_buffer
    BY <1>1, <2>1
  <2>3. CASE ConsumeStep
    BY <1>1, <2>3, ConsumeGrowth DEF ConsumeStep
  <2>4. CASE DecodePrelude
    <3>1. compat_buffer.capacity = 0
      BY <2>2, <2>4 DEF DecodePrelude
    <3> QED
      BY <2>1, <3>1
  <2>5. CASE RecordNeedsCompat
    BY <1>1, <2>5, RecordGrowth
  <2>6. ~RecordDecoded
    <3> SUFFICES ASSUME RecordDecoded PROVE FALSE
      OBVIOUS
    <3>1. CompatBytesAt(base) \in Nat
      BY <1>1, UpgradeAtFacts DEF IInv, RecordDecoded
    <3>2. compat_buffer'.capacity = compat_buffer.capacity
      BY <2>1, <3>1, FillSound DEF RecordDecoded
    <3> QED
      BY <1>1, <2>1, <3>2
  <2>7. ASSUME NEW n \in Chunks, WriteAll(n) PROVE Needed
    BY <1>1, <2>2, <2>7, ConsumeGrowth DEF WriteAll
  <2>8. ASSUME NEW k \in 1..2, Skip(k) PROVE Needed
    BY <1>1, <2>2, <2>8, ConsumeGrowth DEF Skip
  <2>9. ASSUME NEW s \in Streams PROVE ~ResetFsm(s)
    <3>1. Reset(compat_buffer).capacity = compat_buffer.capacity
      BY <2>1, ResetSound
    <3> QED
      BY <1>1, <2>1, <3>1 DEF ResetFsm
  <2>10. /\ ~ReadMore /\ ~DecodePreludeErr /\ ~DecodeMetadata /\ ~DecodeMetadataErr
         /\ ~RecordInvalid /\ ~BatchStart /\ ~BatchInvalid /\ ~BatchPush /\ ~BatchEnd
    BY <2>2 DEF ReadMore, DecodePreludeErr, DecodeMetadata, DecodeMetadataErr, RecordInvalid,
         BatchStart, BatchInvalid, BatchPush, BatchEnd, machine
  <2>11. /\ ~CallProcess /\ ~SetInputDbnVersion
         /\ \A limit \in Limits : ~CallProcessMultiple(limit)
         /\ \A policy \in Policies : ~SetUpgradePolicy(policy)
         /\ \A b \in BOOLEAN : ~SetTsOut(b)
         /\ \A n \in Chunks : ~FillSpace(n)
    BY <2>2 DEF CallProcess, SetInputDbnVersion, CallProcessMultiple, SetUpgradePolicy,
         SetTsOut, FillSpace, machine
  <2>12. CASE LoopStep
    BY <2>3, <2>4, <2>5, <2>6, <2>10, <2>12 DEF LoopStep
  <2>13. CASE ClientStep
    BY <2>7, <2>8, <2>9, <2>11, <2>13 DEF ClientStep
  <2>14. ~UNCHANGED vars
    BY <2>2 DEF vars, machine
  <2> QED
    BY <1>1, <2>12, <2>13, <2>14 DEF Next
<1>2. IInv /\ [Next]_vars => [Grew => Needed]_vars
  BY <1>1
<1> QED
  BY <1>2, IInvAlways, PTL DEF Spec, CompatGrowsWhenNeeded

-----------------------------------------------------------------------------
(***************************************************************************)
(* ReadMore(n) is returned with room for n bytes, whatever was fed,        *)
(* decoded, skipped or reset before, as long as the buffer was built with  *)
(* twice the size of the longest record.                                   *)
(***************************************************************************)

\* The prelude is decoded at the front of the memory, the metadata right behind it in a
\* buffer grown for both, and records with at most half of the memory consumed.
RoomInv ==
    /\ \E size \in BufferSizes : size <= buffer.capacity
    /\ state = "Prelude" => buffer.position = 0
    /\ state = "Metadata" => /\ buffer.position <= METADATA_PRELUDE_LEN
                             /\ length + METADATA_PRELUDE_LEN <= buffer.capacity
    /\ state \in {"Record", "Consume"} => 2 * buffer.position <= buffer.capacity
    /\ call # "idle" => result.tag # "ReadMore"
    /\ RoomToReadMore

\* A freshly built machine has consumed nothing.
LEMMA InitRoom == Init => RoomInv
<1> SUFFICES ASSUME Init PROVE RoomInv
  OBVIOUS
<1>1. PICK size \in BufferSizes : buffer = WithCapacity(size)
  BY DEF Init, Build
<1>2. buffer.capacity = size /\ buffer.position = 0 /\ size \in Nat
  BY <1>1, LenAssumption DEF WithCapacity
<1>3. state \in {"Prelude", "Record"} /\ result.tag = "None" /\ call = "idle"
  BY DEF Init, Build, Nothing, Returned
<1> QED
  BY <1>2, <1>3 DEF RoomInv, RoomToReadMore

\* Steps that leave the buffer alone and ask for nothing.
LEMMA RoomQuiet ==
    ASSUME RoomInv, UNCHANGED <<buffer, length>>,
           state' = state \/ (state \in {"Record", "Consume"} /\ state' \in {"Record", "Consume"}),
           result'.tag # "ReadMore" \/ (result' = result /\ (call # "idle" \/ call' = call))
    PROVE  RoomInv'
BY DEF RoomInv, RoomToReadMore

\* Steps that move the data of State::Record or State::Consume towards the front of
\* as much memory or more, and answer something else than ReadMore.
LEMMA RoomMoved ==
    ASSUME IInv, IInv', RoomInv, buffer'.capacity >= buffer.capacity,
           state' \in {"Record", "Consume"}, 2 * buffer'.position <= buffer'.capacity,
           result'.tag # "ReadMore"
    PROVE  RoomInv'
<1>1. buffer.capacity \in Nat /\ buffer'.capacity \in Nat
  BY Available DEF IInv
<1>2. PICK size \in BufferSizes : size <= buffer.capacity
  BY DEF RoomInv
<1>3. size \in Nat
  BY LenAssumption
<1>4. size <= buffer'.capacity
  BY <1>1, <1>2, <1>3
<1> QED
  BY <1>4 DEF RoomInv, RoomToReadMore

\* More data may only move towards the front, too, in whichever state.
LEMMA RoomFilled ==
    ASSUME IInv, IInv', RoomInv, state' = state, length' = length,
           buffer'.capacity >= buffer.capacity, buffer'.position <= buffer.position,
           result'.tag # "ReadMore"
    PROVE  RoomInv'
<1>1. /\ buffer.capacity \in Nat /\ buffer'.capacity \in Nat /\ length \in Nat
      /\ buffer.position \in Nat /\ buffer'.position \in Nat /\ METADATA_PRELUDE_LEN \in Nat
  BY Available, LenAssumption DEF IInv, TypeOK
<1>2. PICK size \in BufferSizes : size <= buffer.capacity
  BY DEF RoomInv
<1>3. size \in Nat
  BY LenAssumption
<1>4. size <= buffer'.capacity
  BY <1>1, <1>2, <1>3
<1>5. state = "Prelude" => buffer'.position = 0
  BY <1>1 DEF RoomInv
<1>6. state = "Metadata" => /\ buffer'.position <= METADATA_PRELUDE_LEN
                            /\ length + METADATA_PRELUDE_LEN <= buffer'.capacity
  BY <1>1 DEF RoomInv
<1>7. state \in {"Record", "Consume"} => 2 * buffer'.position <= buffer'.capacity
  BY <1>1 DEF RoomInv
<1> QED
  BY <1>4, <1>5, <1>6, <1>7 DEF RoomInv, RoomToReadMore

-----------------------------------------------------------------------------
(* The steps that disturb it. *)

\* The bytes asked for, and those that are there, fit behind the position.
LEMMA RoomReadMore ==
    ASSUME RoomyBuffers, IInv, RoomInv, ReadMore PROVE RoomInv'
<1>1. /\ Sound(buffer) /\ length \in Nat /\ stream \in Streams
      /\ METADATA_PRELUDE_LEN \in Nat /\ HEADER_LEN \in Nat
  BY LenAssumption DEF IInv, TypeOK
<1>2. /\ buffer.capacity \in Nat /\ buffer.position \in Nat
      /\ AvailableData(buffer) \in Nat /\ AvailableSpace(buffer) \in Nat
      /\ AvailableData(buffer) + AvailableSpace(buffer) = buffer.capacity - buffer.position
  BY <1>1, Available
<1>3. PICK size \in BufferSizes : size <= buffer.capacity
  BY DEF RoomInv
<1>4. /\ size \in Nat /\ METADATA_PRELUDE_LEN <= size /\ 2 * HEADER_LEN <= size
      /\ \A i \in 1..Len(stream.len) : 2 * stream.len[i] <= size
  BY <1>1, LenAssumption DEF RoomyBuffers
<1>5. LengthAt(base) \in Nat /\ 2 * LengthAt(base) <= size
  <2>1. LengthAt(base) \in Nat
    BY <1>1, RecordAt
  <2>2. CASE LengthAt(base) > 0
    <3>1. PICK i \in 1..Len(stream.len) : LengthAt(base) = stream.len[i]
      BY <1>1, <2>2, RecordAt
    <3> QED
      BY <1>4, <2>1, <3>1
  <2>3. CASE LengthAt(base) = 0
    BY <1>4, <2>3
  <2> QED
    BY <2>1, <2>2, <2>3
<1>6. Missing <= AvailableSpace(buffer)
  <2>1. CASE state = "Prelude"
    <3>1. Missing = METADATA_PRELUDE_LEN - AvailableData(buffer) /\ buffer.position = 0
      BY <2>1 DEF Missing, RoomInv
    <3> QED
      BY <1>1, <1>2, <1>3, <1>4, <3>1
  <2>2. CASE state = "Metadata"
    <3>1. /\ Missing = length - AvailableData(buffer)
          /\ buffer.position <= METADATA_PRELUDE_LEN
          /\ length + METADATA_PRELUDE_LEN <= buffer.capacity
      BY <2>2 DEF Missing, RoomInv
    <3> QED
      BY <1>1, <1>2, <3>1
  <2>3. CASE state = "Record"
    <3>1. 2 * buffer.position <= buffer.capacity
      BY <2>3 DEF RoomInv
    <3>2. CASE AvailableData(buffer) < HEADER_LEN
      <4>1. ~(AvailableData(buffer) >= HEADER_LEN)
        BY <1>1, <1>2, <3>2
      <4>2. Missing = HEADER_LEN - AvailableData(buffer)
        BY <2>3, <3>2, <4>1 DEF Missing
      <4> QED
        BY <1>1, <1>2, <1>3, <1>4, <3>1, <4>2
    <3>3. CASE AvailableData(buffer) >= HEADER_LEN
      <4>1. ~(AvailableData(buffer) < HEADER_LEN)
        BY <1>1, <1>2, <3>3
      <4>2. Missing = LengthAt(base) - AvailableData(buffer)
        BY <2>3, <3>3, <4>1 DEF Missing
      <4> QED
        BY <1>2, <1>3, <1>4, <1>5, <3>1, <4>2
    <3> QED
      BY <1>1, <1>2, <3>2, <3>3
  <2> QED
    BY <2>1, <2>2, <2>3 DEF ReadMore
<1>7. /\ UNCHANGED <<buffer, state, length>> /\ call' = "idle" /\ result'.n = Missing
  BY DEF ReadMore, Return, Returned, machine
<1>8. RoomToReadMore'
  BY <1>6, <1>7 DEF RoomToReadMore
<1> QED
  BY <1>7, <1>8 DEF RoomInv

\* decode_prelude grows the buffer for the metadata and the prelude before it.
LEMMA RoomPrelude ==
    ASSUME IInv, IInv', RoomInv, DecodePrelude PROVE RoomInv'
<1> DEFINE rest == ConsumeNoshift(buffer, METADATA_PRELUDE_LEN)
<1>1. /\ METADATA_PRELUDE_LEN \in Nat /\ stream.mlen \in Nat /\ MetadataCapacity \in Nat
      /\ Sound(buffer) /\ buffer.position = 0
  BY LenAssumption, StreamAssumption
     DEF IInv, TypeOK, IsStream, MetadataCapacity, RoomInv, DecodePrelude
<1>2. /\ Sound(rest) /\ rest.capacity = buffer.capacity
      /\ rest.position <= buffer.position + METADATA_PRELUDE_LEN
  BY <1>1, ConsumeNoshiftSound
<1> HIDE DEF rest
<1>3. /\ buffer'.position = rest.position
      /\ buffer'.capacity >= rest.capacity /\ buffer'.capacity >= MetadataCapacity
  BY <1>1, <1>2, GrowSound DEF DecodePrelude, rest
<1>4. /\ buffer.capacity \in Nat /\ buffer'.capacity \in Nat /\ buffer'.position \in Nat
  BY Available DEF IInv
<1>5. /\ buffer'.position <= METADATA_PRELUDE_LEN
      /\ length' + METADATA_PRELUDE_LEN <= buffer'.capacity
  BY <1>1, <1>2, <1>3, <1>4 DEF DecodePrelude, MetadataCapacity
<1>6. PICK size \in BufferSizes : size <= buffer.capacity
  BY DEF RoomInv
<1>7. size \in Nat
  BY LenAssumption
<1>8. size <= buffer'.capacity
  BY <1>2, <1>3, <1>4, <1>6, <1>7
<1>9. state' = "Metadata" /\ result' = result /\ call' = call /\ call # "idle"
  BY DEF DecodePrelude
<1> QED
  BY <1>5, <1>8, <1>9 DEF RoomInv, RoomToReadMore

\* decode_metadata ends with a shift.
LEMMA RoomMetadata ==
    ASSUME IInv, IInv', RoomInv, DecodeMetadata PROVE RoomInv'
<1>1. Sound(buffer) /\ length \in Nat /\ buffer.capacity \in Nat
  BY Available DEF IInv, TypeOK
<1>2. Sound(Consume(buffer, length)) /\ Consume(buffer, length).capacity = buffer.capacity
  BY <1>1, ConsumeSound
<1>3. buffer'.capacity = buffer.capacity /\ buffer'.position = 0
  BY <1>2, ShiftSound DEF DecodeMetadata
<1>4. state' = "Record" /\ result'.tag # "ReadMore"
  BY DEF DecodeMetadata, Return, Returned
<1> QED
  BY <1>1, <1>3, <1>4, RoomMoved

\* consume leaves at most half of the memory in front of the data.
LEMMA RoomConsume ==
    ASSUME IInv, IInv', RoomInv, ConsumeStep PROVE RoomInv'
<1>1. buffer'.capacity = buffer.capacity /\ 2 * buffer'.position <= buffer.capacity
  BY ConsumedBufferFacts DEF ConsumeStep
<1>2. buffer.capacity \in Nat
  BY Available DEF IInv
<1>3. state' = "Record" /\ result' = result /\ result.tag # "ReadMore"
  BY DEF ConsumeStep, RoomInv
<1> QED
  BY <1>1, <1>2, <1>3, RoomMoved

\* So does skip.
LEMMA RoomSkip ==
    ASSUME NEW k \in 1..2, IInv, IInv', RoomInv, Skip(k) PROVE RoomInv'
<1> DEFINE i      == IndexAt(base + pend.read)
           nbytes == stream.at[i + k] - stream.at[i]
<1>1. /\ i # 0 /\ i + k <= Len(stream.at) /\ buffer' = Consume(Released, nbytes)
      /\ state' = "Record" /\ result'.tag # "ReadMore"
  BY DEF Skip, Returned
<1>2. nbytes \in Nat
  <2>1. IsStream(stream)
    BY StreamAssumption DEF IInv, TypeOK
  <2>2. i \in 1..Len(stream.len)
    BY <1>1 DEF IndexAt
  <2> HIDE DEF i
  <2>3. i + k <= Len(stream.len) + 1
    BY <1>1, <2>1 DEF IsStream
  <2> QED
    BY <2>1, <2>2, <2>3, RecordsSpan
<1> HIDE DEF i, nbytes
<1>3. Sound(Released) /\ Released.capacity = buffer.capacity
  BY ConsumedBufferFacts DEF Released, IInv
<1>4. buffer'.capacity = buffer.capacity /\ 2 * buffer'.position <= buffer.capacity
  BY <1>1, <1>2, <1>3, ConsumeSound
<1>5. buffer.capacity \in Nat
  BY Available DEF IInv
<1> QED
  BY <1>1, <1>4, <1>5, RoomMoved

\* fill may shift the data but not the other way.
LEMMA RoomFill ==
    ASSUME NEW n \in Chunks, IInv, IInv', RoomInv, FillSpace(n) PROVE RoomInv'
<1>1. n \in Nat /\ Sound(buffer) /\ buffer.capacity \in Nat
  BY LenAssumption, Available DEF IInv
<1>2. buffer'.capacity = buffer.capacity /\ buffer'.position <= buffer.position
  BY <1>1, FillSound DEF FillSpace
<1>3. state' = state /\ length' = length /\ result'.tag # "ReadMore"
  BY DEF FillSpace, Nothing, Returned
<1> QED
  BY <1>1, <1>2, <1>3, RoomFilled

\* write_all consumes, grows and fills.
LEMMA RoomWriteAll ==
    ASSUME NEW n \in Chunks, IInv, IInv', RoomInv, WriteAll(n) PROVE RoomInv'
<1> DEFINE consumes == AvailableSpace(buffer) < n /\ state = "Consume"
           room     == IF consumes THEN ConsumedBuffer ELSE buffer
           grown    == IF AvailableSpace(room) < n
                       THEN Grow(room, Most(2 * room.capacity, room.capacity + n))
                       ELSE room
<1>1. /\ n \in Nat /\ Sound(buffer) /\ buffer.capacity \in Nat /\ buffer.position \in Nat
  BY LenAssumption, Available DEF IInv
<1>2. /\ buffer' = Fill(grown, n) /\ length' = length /\ result'.tag # "ReadMore"
      /\ state' = (IF consumes THEN "Record" ELSE state)
  BY DEF WriteAll, Nothing, Returned
<1>3. /\ Sound(room) /\ room.capacity = buffer.capacity
      /\ consumes => 2 * room.position <= room.capacity
      /\ ~consumes => room.position = buffer.position
  BY <1>1, ConsumedBufferFacts
<1> HIDE DEF consumes, room
<1>4. room.capacity \in Nat /\ room.position \in Nat
  BY <1>3, Available
<1>5. /\ Sound(grown) /\ grown.position = room.position /\ grown.capacity >= room.capacity
  <2>1. Most(2 * room.capacity, room.capacity + n) \in Nat
    BY <1>1, <1>4 DEF Most
  <2>2. \A m \in Nat : /\ Sound(Grow(room, m)) /\ Grow(room, m).position = room.position
                       /\ Grow(room, m).capacity >= room.capacity
    BY <1>3, GrowSound
  <2> QED
    BY <1>3, <1>4, <2>1, <2>2
<1> HIDE DEF grown
<1>6. /\ buffer'.capacity = grown.capacity /\ buffer'.position <= grown.position
  BY <1>1, <1>2, <1>5, FillSound
<1>7. buffer'.capacity \in Nat /\ buffer'.position \in Nat
  BY Available DEF IInv
<1>8. buffer'.capacity >= buffer.capacity /\ buffer'.position <= room.position
  BY <1>3, <1>5, <1>6
<1>9. CASE consumes
  <2>1. 2 * buffer'.position <= buffer'.capacity
    BY <1>1, <1>3, <1>4, <1>7, <1>8, <1>9
  <2> QED
    BY <1>2, <1>8, <1>9, <2>1, RoomMoved
<1>10. CASE ~consumes
  BY <1>2, <1>3, <1>8, <1>10, RoomFilled
<1> QED
  BY <1>9, <1>10

\* reset keeps the memory.
LEMMA RoomReset ==
    ASSUME NEW s \in Streams, IInv, IInv', RoomInv, ResetFsm(s) PROVE RoomInv'
<1>1. Sound(buffer)
  BY DEF IInv
<1>2. buffer'.capacity = buffer.capacity /\ buffer'.position = 0
  BY <1>1, ResetSound DEF ResetFsm
<1>3. state' = "Prelude" /\ result'.tag # "ReadMore"
  BY DEF ResetFsm, Nothing, Returned
<1> QED
  BY <1>2, <1>3 DEF RoomInv, RoomToReadMore

-----------------------------------------------------------------------------
\* Every step of a machine with roomy buffers preserves the room.
LEMMA NextRoom ==
    ASSUME RoomyBuffers, IInv, IInv', RoomInv, [Next]_vars PROVE RoomInv'
<1>1. CASE LoopStep
  <2>1. CASE DecodePreludeErr \/ DecodeMetadataErr \/ RecordInvalid \/ BatchInvalid
    BY <2>1, RoomQuiet DEF DecodePreludeErr, DecodeMetadataErr, RecordInvalid, BatchInvalid,
       Return, Returned, machine
  <2>2. CASE RecordNeedsCompat
    BY <2>2, RoomQuiet DEF RecordNeedsCompat
  <2>3. CASE RecordDecoded
    BY <2>3, RoomQuiet DEF RecordDecoded, RecordReady, Returned
  <2>4. CASE BatchStart \/ BatchPush
    BY <2>4, RoomQuiet DEF BatchStart, BatchPush, AfterReading, machine
  <2>5. CASE BatchEnd
    BY <2>5, RoomQuiet DEF BatchEnd, Return, Returned, IInv, BatchInv
  <2> QED
    BY <1>1, <2>1, <2>2, <2>3, <2>4, <2>5, RoomReadMore, RoomPrelude, RoomMetadata,
       RoomConsume DEF LoopStep
<1>2. CASE ClientStep
  <2>1. CASE CallProcess \/ \E limit \in Limits : CallProcessMultiple(limit)
    BY <2>1, RoomQuiet DEF CallProcess, CallProcessMultiple, Nothing, Returned, machine
  <2>2. CASE \/ SetInputDbnVersion
             \/ \E policy \in Policies : SetUpgradePolicy(policy)
             \/ \E b \in BOOLEAN : SetTsOut(b)
    BY <2>2, RoomQuiet DEF SetInputDbnVersion, SetUpgradePolicy, SetTsOut, Nothing, Returned,
       machine
  <2> QED
    BY <1>2, <2>1, <2>2, RoomFill, RoomWriteAll, RoomSkip, RoomReset DEF ClientStep
<1>3. CASE UNCHANGED vars
  BY <1>3, RoomQuiet DEF vars, machine
<1> QED
  BY <1>1, <1>2, <1>3 DEF Next

\* A client that is told to read n more bytes finds room for them in space(), so a
\* read into it never has an empty slice, which the decoders would take for the end
\* of the input.  The hypothesis on buffer_size cannot be dropped: with less than two
\* records of memory, a consumed record that is not shifted away leaves too little.
THEOREM RoomForMore == ASSUME RoomyBuffers PROVE Spec => []RoomToReadMore
<1>1. IInv /\ IInv' /\ RoomInv /\ [Next]_vars => RoomInv'
  BY NextRoom
<1>2. RoomInv => RoomToReadMore
  BY DEF RoomInv
<1> QED
  BY <1>1, <1>2, InitRoom, IInvAlways, PTL DEF Spec

-----------------------------------------------------------------------------
(***************************************************************************)
(* What the client gets: the records of the stream, each once and in       *)
(* order, however the stream was cut into chunks and the machine driven;   *)
(* and, of a well-formed stream, each in the layout the upgrade policy     *)
(* promises, without a read beyond the record.                             *)
(***************************************************************************)

(* The inductive invariants. *)

Deliveries == [rec : Nat, from : 0..3, size : Nat, policy : Policies]

\* Before the records, the machine is at the prelude or right behind it and nothing
\* has been handed out.
BeforeRecords ==
    /\ state = "Prelude" => stream.meta /\ base = 0
    /\ state = "Metadata" =>
         stream.meta /\ base = METADATA_PRELUDE_LEN /\ length = stream.mlen
    /\ state \in {"Prelude", "Metadata"} => out = <<>> /\ skipped = {}

\* n records are handed out or skipped, the next one starts where the bytes owed to
\* them end, and a batch in progress has pushed the ones after that, in order.
HandedUpTo(n) ==
    /\ Handed = 1..n
    /\ \A j, k \in 1..Len(out) : j < k => out[j].rec < out[k].rec
    /\ state \in {"Record", "Consume"} => base + pend.read = stream.at[n + 1]
    /\ n + Len(pushed) <= Len(stream.len)
    /\ \A j \in 1..Len(pushed) : pushed[j].rec = n + j
    /\ call = "batch" => base + batch.read = stream.at[n + Len(pushed) + 1]

OrderInv ==
    /\ out \in Seq(Deliveries) /\ pushed \in Seq(Deliveries)
    /\ call \notin {"batch", "panicked"} => pushed = <<>>
    /\ BeforeRecords
    /\ \E n \in 0..Len(stream.len) : HandedUpTo(n)

\* What OutputLayout says of one record.
LayoutIsPromised(d) ==
    LET rt == stream.rtype[d.rec]
        v  == Most(stream.version, OutputVersion(d.policy, stream.version))
    IN  /\ d.size = EncodedSize(rt, v, stream.ts_out)
        /\ d.from # 0 => RecSize[rt][d.from] = RecSize[rt][stream.version]

\* Past the prelude the version is one the code knows, and input_dbn_version is that
\* version or still undecided; past the metadata ts_out is the stream's.
Described ==
    /\ state # "Prelude" => /\ stream.version \in Versions
                            /\ input_dbn_version \in {NONE, stream.version}
    /\ state \in {"Record", "Consume"} => ts_out = stream.ts_out

LayoutInv ==
    /\ Described
    /\ \A j \in 1..Len(out) : LayoutIsPromised(out[j])
    /\ \A j \in 1..Len(pushed) : LayoutIsPromised(pushed[j])
    /\ NeverPanics

-----------------------------------------------------------------------------
(* Where records start. *)

\* A nonempty set of numbers has a least element.
LEMMA LeastNat ==
    ASSUME NEW T \in SUBSET Nat, T # {}
    PROVE  \E x \in T : \A y \in T : x <= y
<1> DEFINE R == {ss \in Nat \X Nat : ss[1] < ss[2]}
<1>1. IsWellFoundedOn(R, Nat)
  BY NatLessThanWellFounded, Zenon DEF OpToRel
<1>2. \E x \in T : \A y \in T : ~ (<<y, x>> \in R)
  <2> HIDE DEF R
  <2> QED BY <1>1, WFMin, Zenon
<1>3. PICK x \in T : \A y \in T : ~ (<<y, x>> \in R)
  BY <1>2
<1>4. \A y \in T : x <= y
  <2>1. SUFFICES ASSUME NEW y \in T PROVE x <= y
    OBVIOUS
  <2>2. x \in Nat /\ y \in Nat
    OBVIOUS
  <2>3. y < x => <<y, x>> \in R
    BY <2>2
  <2>4. ~(y < x)
    BY <1>3, <2>3
  <2> QED BY <2>2, <2>4
<1> QED BY <1>4

\* The offsets of a stream are numbers, and a record ends where the next one starts.
LEMMA Offsets ==
    ASSUME stream \in Streams
    PROVE  /\ Len(stream.len) \in Nat /\ Len(stream.at) = Len(stream.len) + 1
           /\ \A i \in 1..Len(stream.len) + 1 : stream.at[i] \in Nat
           /\ \A i \in 1..Len(stream.len) :
                 /\ stream.len[i] \in Nat /\ stream.rtype[i] \in RTypes
                 /\ stream.at[i + 1] = stream.at[i] + stream.len[i]
                 /\ i < Len(stream.len) => stream.len[i] > 0
<1>1. /\ stream.len \in Seq(Nat) /\ stream.at \in Seq(Nat) /\ stream.rtype \in Seq(RTypes)
      /\ Len(stream.at) = Len(stream.len) + 1 /\ Len(stream.rtype) = Len(stream.len)
      /\ \A i \in 1..Len(stream.len) : stream.at[i + 1] = stream.at[i] + stream.len[i]
      /\ \A i \in 1..Len(stream.len) : i < Len(stream.len) => stream.len[i] > 0
  <2>1. IsStream(stream)
    BY StreamAssumption
  <2> QED
    BY <2>1 DEF IsStream
<1>2. Len(stream.len) \in Nat
  BY <1>1
<1>3. \A i \in 1..Len(stream.len) + 1 : stream.at[i] \in Nat
  BY <1>1, <1>2, ElementOfSeq
<1>4. \A i \in 1..Len(stream.len) : stream.len[i] \in Nat /\ stream.rtype[i] \in RTypes
  BY <1>1, <1>2, ElementOfSeq
<1> QED
  BY <1>1, <1>2, <1>3, <1>4

\* No two records start at the same offset.
LEMMA OffsetsIncrease ==
    ASSUME stream \in Streams, NEW i \in 1..Len(stream.len), NEW j \in 1..Len(stream.len), i < j
    PROVE  stream.at[i] < stream.at[j]
<1> DEFINE N == Len(stream.len)
           T == {t \in 1..N : i < t /\ ~(stream.at[i] < stream.at[t])}
<1>1. /\ N \in Nat /\ \A t \in 1..N : stream.at[t] \in Nat /\ stream.len[t] \in Nat
      /\ \A t \in 1..N : stream.at[t + 1] = stream.at[t] + stream.len[t]
      /\ \A t \in 1..N : t < N => stream.len[t] > 0
  BY Offsets
<1> HIDE DEF N
<1>2. SUFFICES ASSUME T # {} PROVE FALSE
  BY DEF N
<1>3. T \in SUBSET Nat
  BY <1>1
<1>4. PICK t \in T : \A y \in T : t <= y
  BY <1>2, <1>3, LeastNat
<1>5. /\ t \in 1..N /\ i < t /\ ~(stream.at[i] < stream.at[t]) /\ i \in 1..N
  BY <1>4 DEF N
<1>6. t - 1 \in 1..N /\ t - 1 < N /\ (t - 1) + 1 = t /\ t - 1 \notin T
  BY <1>1, <1>4, <1>5
<1>7. stream.at[t] = stream.at[t - 1] + stream.len[t - 1] /\ stream.len[t - 1] > 0
  BY <1>1, <1>6
<1>8. stream.at[i] <= stream.at[t - 1]
  <2>1. CASE i = t - 1
    BY <1>1, <1>5, <2>1
  <2>2. CASE i < t - 1
    BY <1>1, <1>5, <1>6, <2>2
  <2> QED
    BY <1>1, <1>5, <2>1, <2>2
<1>9. /\ stream.at[i] \in Nat /\ stream.at[t - 1] \in Nat /\ stream.at[t] \in Nat
      /\ stream.len[t - 1] \in Nat
  BY <1>1, <1>5, <1>6
<1> QED
  BY <1>5, <1>7, <1>8, <1>9

\* The record found behind the first n is the next one.  Only behind the last one can
\* it be found again, if it has no bytes.
LEMMA NextRecord ==
    ASSUME stream \in Streams, NEW n \in 0..Len(stream.len), NEW o,
           o = stream.at[n + 1], IndexAt(o) # 0
    PROVE  \/ n < Len(stream.len) /\ IndexAt(o) = n + 1
           \/ /\ n = Len(stream.len) /\ n > 0 /\ IndexAt(o) = n
              /\ stream.at[n + 1] = stream.at[n] /\ stream.len[n] = 0
<1> DEFINE N == Len(stream.len)
           i == IndexAt(o)
<1>1. i \in 1..N /\ stream.at[i] = o
  <2>1. \E t \in 1..N : stream.at[t] = o
    BY DEF IndexAt
  <2>2. i = CHOOSE t \in 1..N : stream.at[t] = o
    BY <2>1 DEF IndexAt
  <2> HIDE DEF i
  <2> QED
    BY <2>1, <2>2
<1> HIDE DEF i
<1>2. /\ N \in Nat /\ \A t \in 1..N + 1 : stream.at[t] \in Nat
      /\ \A t \in 1..N : stream.len[t] \in Nat /\ stream.at[t + 1] = stream.at[t] + stream.len[t]
  BY Offsets
<1>3. \A t, u \in 1..N : t < u => stream.at[t] < stream.at[u]
  BY OffsetsIncrease
<1>4. n \in 0..N /\ o = stream.at[n + 1]
  OBVIOUS
<1> HIDE DEF N
<1>5. CASE n < N
  <2>1. n + 1 \in 1..N
    BY <1>2, <1>4, <1>5
  <2>2. stream.at[i] = stream.at[n + 1] /\ stream.at[i] \in Nat
    BY <1>1, <1>2, <1>4
  <2>3. i = n + 1
    BY <1>1, <1>2, <1>3, <2>1, <2>2
  <2> QED
    BY <1>5, <2>3 DEF N, i
<1>6. CASE n = N
  <2>1. n \in 1..N /\ stream.at[n + 1] = stream.at[n] + stream.len[n]
    BY <1>1, <1>2, <1>6
  <2>2. ~(i < n)
    <3> SUFFICES ASSUME i < n PROVE FALSE
      OBVIOUS
    <3>1. stream.at[i] < stream.at[n]
      BY <1>1, <1>3, <2>1
    <3>2. stream.at[i] \in Nat /\ stream.at[n] \in Nat /\ stream.len[n] \in Nat
      BY <1>1, <1>2, <2>1
    <3> QED
      BY <1>1, <1>4, <2>1, <3>1, <3>2
  <2>3. i = n
    BY <1>1, <1>2, <1>6, <2>2
  <2>4. stream.at[n + 1] = stream.at[n]
    BY <1>1, <1>4, <2>3
  <2>5. stream.len[n] = 0
    BY <1>2, <2>1, <2>4
  <2> QED
    BY <1>6, <2>1, <2>3, <2>4, <2>5 DEF N, i
<1> QED
  BY <1>2, <1>4, <1>5, <1>6

\* A record with a decodable header behind the first n is the next one, and it ends
\* where the one after it starts.
LEMMA NextReadable ==
    ASSUME stream \in Streams, NEW n \in 0..Len(stream.len), NEW o,
           o = stream.at[n + 1], LengthAt(o) >= HEADER_LEN
    PROVE  /\ n < Len(stream.len) /\ IndexAt(o) = n + 1
           /\ stream.at[n + 2] = o + LengthAt(o)
<1>1. HEADER_LEN \in Nat \ {0}
  BY LenAssumption
<1>2. IndexAt(o) # 0
  BY <1>1 DEF LengthAt
<1>3. LengthAt(o) = stream.len[IndexAt(o)]
  BY <1>2 DEF LengthAt
<1>4. \/ n < Len(stream.len) /\ IndexAt(o) = n + 1
      \/ IndexAt(o) = n /\ stream.len[n] = 0
  BY <1>2, NextRecord
<1>5. n < Len(stream.len) /\ IndexAt(o) = n + 1
  BY <1>1, <1>3, <1>4
<1>6. n + 1 \in 1..Len(stream.len) /\ (n + 1) + 1 = n + 2
  BY <1>5, Offsets
<1>7. stream.at[(n + 1) + 1] = stream.at[n + 1] + stream.len[n + 1]
  BY <1>6, Offsets
<1> QED
  BY <1>3, <1>5, <1>6, <1>7

-----------------------------------------------------------------------------
(* Every record once and in order. *)

\* A built machine is at the prelude or at the first record.
LEMMA InitOrder == Init => OrderInv
<1> SUFFICES ASSUME Init PROVE OrderInv
  OBVIOUS
<1>1. PICK s \in Streams : /\ stream = s
                           /\ state = IF s.meta THEN "Prelude" ELSE "Record"
  BY DEF Init, Build
<1>2. /\ out = <<>> /\ pushed = <<>> /\ skipped = {} /\ base = 0 /\ pend.read = 0
      /\ call = "idle"
  BY DEF Init, NoPend
<1>3. Len(stream.len) \in Nat /\ stream.at[1] = IF stream.meta THEN METADATA_PRELUDE_LEN + stream.mlen ELSE 0
  <2>1. IsStream(stream)
    BY <1>1, StreamAssumption
  <2> QED
    BY <2>1 DEF IsStream
<1>4. HandedUpTo(0)
  <2>1. Handed = {}
    BY <1>2 DEF Handed
  <2>2. state \in {"Record", "Consume"} => base + pend.read = stream.at[0 + 1]
    BY <1>1, <1>2, <1>3
  <2> QED
    BY <1>2, <1>3, <2>1, <2>2 DEF HandedUpTo
<1>5. BeforeRecords
  <2>1. IsStream(stream)
    BY <1>1, StreamAssumption
  <2>2. stream.meta \in BOOLEAN
    BY <2>1 DEF IsStream
  <2> QED
    BY <1>1, <1>2, <2>2 DEF BeforeRecords
<1>6. out \in Seq(Deliveries) /\ pushed \in Seq(Deliveries)
  BY <1>2
<1> QED
  BY <1>2, <1>3, <1>4, <1>5, <1>6 DEF OrderInv

\* Steps that hand out, skip and release nothing.  A batch is left alone or dropped.
LEMMA OrderQuiet ==
    ASSUME OrderInv, stream \in Streams,
           UNCHANGED <<state, length, pend, stream, base, out, skipped>>,
           \/ UNCHANGED <<call, batch, pushed>>
           \/ call' # "batch" /\ pushed' = <<>>
    PROVE  OrderInv'
<1>1. PICK n \in 0..Len(stream.len) : HandedUpTo(n)
  BY DEF OrderInv
<1>2. Handed' = Handed /\ Len(stream.len) \in Nat
  BY Offsets DEF Handed
<1>3. pushed' \in Seq(Deliveries) /\ (call' \notin {"batch", "panicked"} => pushed' = <<>>)
  <2>1. <<>> \in Seq(Deliveries)
    OBVIOUS
  <2> QED
    BY <2>1 DEF OrderInv
<1>4. HandedUpTo(n)'
  <2>1. CASE UNCHANGED <<call, batch, pushed>>
    BY <1>1, <1>2, <2>1 DEF HandedUpTo
  <2>2. CASE call' # "batch" /\ pushed' = <<>>
    BY <1>1, <1>2, <2>2 DEF HandedUpTo
  <2> QED
    BY <2>1, <2>2
<1> QED
  BY <1>3, <1>4 DEF OrderInv, BeforeRecords

\* Steps that release what is owed: the bytes owed become bytes released.
LEMMA OrderReleased ==
    ASSUME OrderInv, stream \in Streams, state = "Consume", state' = "Record",
           base' + pend'.read = base + pend.read, call # "batch",
           UNCHANGED <<stream, out, skipped, pushed, call>>
    PROVE  OrderInv'
<1>1. PICK n \in 0..Len(stream.len) : HandedUpTo(n)
  BY DEF OrderInv
<1>2. Handed' = Handed
  BY DEF Handed
<1>3. HandedUpTo(n)'
  BY <1>1, <1>2 DEF HandedUpTo
<1> QED
  BY <1>3 DEF OrderInv, BeforeRecords

\* consume in the loops.
LEMMA OrderConsume == ASSUME IInv, OrderInv, ConsumeStep PROVE OrderInv'
<1>1. base' = base + pend.read /\ pend'.read = 0
  BY ConsumedBufferFacts DEF ConsumeStep, NoPend
<1>2. base \in Nat /\ pend.read \in Nat /\ stream \in Streams
  BY DEF IInv, TypeOK, Pends
<1>3. base' + pend'.read = base + pend.read
  BY <1>1, <1>2
<1> QED
  BY <1>2, <1>3, OrderReleased DEF ConsumeStep, multi

\* write_all releases what is owed when it is short of space.
LEMMA OrderWriteAll ==
    ASSUME NEW c \in Chunks, IInv, OrderInv, WriteAll(c) PROVE OrderInv'
<1>1. /\ base \in Nat /\ pend.read \in Nat /\ stream \in Streams
      /\ AvailableData(buffer) \in Nat
  BY Available DEF IInv, TypeOK, Pends
<1>2. CASE AvailableSpace(buffer) < c /\ state = "Consume"
  <2>1. base' = base + pend.read /\ pend'.read = 0
    BY <1>2, ConsumedBufferFacts DEF WriteAll, NoPend
  <2>2. base' + pend'.read = base + pend.read
    BY <1>1, <2>1
  <2> QED
    BY <1>1, <1>2, <2>2, OrderReleased DEF WriteAll, multi
<1>3. CASE ~(AvailableSpace(buffer) < c /\ state = "Consume")
  <2>1. base' = BaseAfter(buffer)
    BY <1>3 DEF WriteAll
  <2>2. base' = base
    BY <1>1, <2>1 DEF BaseAfter, Arrived
  <2>3. UNCHANGED <<state, pend>>
    BY <1>3 DEF WriteAll
  <2> QED
    BY <1>1, <2>2, <2>3, OrderQuiet DEF WriteAll, multi
<1> QED
  BY <1>2, <1>3

\* reset forgets what was handed out together with the stream.
LEMMA OrderReset ==
    ASSUME NEW s \in Streams, OrderInv, ResetFsm(s) PROVE OrderInv'
<1>1. /\ out' = <<>> /\ skipped' = {} /\ base' = 0 /\ state' = "Prelude" /\ stream' = s
      /\ s.meta /\ call' = "idle" /\ pushed' = <<>>
  BY DEF ResetFsm, OrderInv, multi
<1>2. Handed' = {}
  BY <1>1 DEF Handed
<1>3. Len(s.len) \in Nat
  <2>1. IsStream(s)
    BY StreamAssumption
  <2> QED
    BY <2>1 DEF IsStream
<1>4. HandedUpTo(0)'
  BY <1>1, <1>2, <1>3 DEF HandedUpTo
<1>5. out' \in Seq(Deliveries) /\ pushed' \in Seq(Deliveries)
  BY <1>1
<1> QED
  BY <1>1, <1>3, <1>4, <1>5 DEF OrderInv, BeforeRecords

\* The prelude leads to the metadata, with nothing handed out yet.
LEMMA OrderPrelude == ASSUME IInv, OrderInv, DecodePrelude PROVE OrderInv'
<1>1. PICK n \in 0..Len(stream.len) : HandedUpTo(n)
  BY DEF OrderInv
<1>2. /\ state = "Prelude" /\ state' = "Metadata" /\ length' = stream.mlen /\ stream.meta
      /\ base' = METADATA_PRELUDE_LEN /\ METADATA_PRELUDE_LEN \in Nat
      /\ call \in {"process", "multiple"}
      /\ UNCHANGED <<stream, out, skipped, pushed, call, batch>>
  BY LenAssumption DEF DecodePrelude, OrderInv, BeforeRecords, multi
<1>3. Handed' = Handed
  BY <1>2 DEF Handed
<1>4. HandedUpTo(n)'
  BY <1>1, <1>2, <1>3 DEF HandedUpTo
<1> QED
  BY <1>2, <1>4 DEF OrderInv, BeforeRecords

\* The metadata leads to the first record.
LEMMA OrderMetadata == ASSUME IInv, OrderInv, DecodeMetadata PROVE OrderInv'
<1>1. /\ state = "Metadata" /\ state' = "Record" /\ pend' = pend
      /\ stream.meta /\ length = stream.mlen
      /\ base' = METADATA_PRELUDE_LEN + length
      /\ call' = "idle" /\ pushed' = <<>> /\ out = <<>> /\ skipped = {} /\ pend.read = 0
      /\ UNCHANGED <<stream, out, skipped, pushed>>
  BY DEF DecodeMetadata, Return, OrderInv, BeforeRecords, IInv, PendInv, NoPend
<1>2. stream.at[1] = METADATA_PRELUDE_LEN + stream.mlen /\ stream.mlen \in Nat
  <2>1. IsStream(stream)
    BY StreamAssumption DEF IInv, TypeOK
  <2> QED
    BY <1>1, <2>1 DEF IsStream
<1>3. METADATA_PRELUDE_LEN \in Nat /\ Len(stream.len) \in Nat
  BY LenAssumption, Offsets DEF IInv, TypeOK
<1>4. Handed' = {}
  BY <1>1 DEF Handed
<1>5. base' + pend'.read = stream.at[0 + 1]
  BY <1>1, <1>2, <1>3
<1>6. HandedUpTo(0)'
  BY <1>1, <1>3, <1>4, <1>5 DEF HandedUpTo
<1> QED
  BY <1>1, <1>3, <1>6 DEF OrderInv, BeforeRecords

\* skip: the records it steps over are the next ones.
LEMMA OrderSkip ==
    ASSUME NEW k \in 1..2, IInv, OrderInv, Skip(k) PROVE OrderInv'
<1> DEFINE o      == base + pend.read
           i      == IndexAt(o)
           nbytes == stream.at[i + k] - stream.at[i]
<1>1. PICK n \in 0..Len(stream.len) : HandedUpTo(n)
  BY DEF OrderInv
<1>2. /\ i # 0 /\ i + k <= Len(stream.at) /\ state \in {"Record", "Consume"}
      /\ base' = BaseAfter(Released) + nbytes /\ state' = "Record" /\ pend'.read = 0
      /\ skipped' = skipped \cup (i .. i + k - 1)
      /\ call = "idle" /\ pushed = <<>> /\ UNCHANGED <<stream, out, call, pushed>>
  BY DEF Skip, OrderInv, multi, NoPend
<1>3. /\ base \in Nat /\ pend.read \in Nat /\ stream \in Streams /\ AvailableData(buffer) \in Nat
      /\ state = "Record" => pend.read = 0
  BY Available DEF IInv, TypeOK, Pends, PendInv, NoPend
<1>4. BaseAfter(Released) = o
  <2>1. BaseAfter(buffer) = base
    BY <1>3 DEF BaseAfter, Arrived
  <2>2. CASE state = "Consume"
    BY <2>2, ConsumedBufferFacts DEF Released
  <2>3. CASE state # "Consume"
    BY <1>2, <1>3, <2>1, <2>3 DEF Released
  <2> QED
    BY <2>2, <2>3
<1>5. o = stream.at[n + 1]
  BY <1>1, <1>2 DEF HandedUpTo
<1>6. /\ Len(stream.len) \in Nat /\ Len(stream.at) = Len(stream.len) + 1
      /\ \A j \in 1..Len(stream.len) + 1 : stream.at[j] \in Nat
  BY <1>3, Offsets
<1>7. \/ n < Len(stream.len) /\ i = n + 1
      \/ n = Len(stream.len) /\ n > 0 /\ i = n /\ stream.at[n + 1] = stream.at[n]
  BY <1>2, <1>3, <1>5, NextRecord
<1> HIDE DEF i, o
<1>8. PICK h \in 0..Len(stream.len) : h = i + k - 1 /\ i + k = h + 1
  <2>1. i + k - 1 \in 0..Len(stream.len) /\ i + k = (i + k - 1) + 1
    BY <1>2, <1>6, <1>7
  <2> QED
    BY <2>1
<1>9. base' + pend'.read = stream.at[h + 1]
  <2>1. stream.at[i] = o
    BY <1>5, <1>7
  <2>2. stream.at[n + 1] \in Nat /\ stream.at[h + 1] \in Nat
    BY <1>6, <1>8
  <2>3. base' = o + (stream.at[h + 1] - stream.at[i])
    BY <1>2, <1>4, <1>8
  <2> QED
    BY <1>2, <1>5, <2>1, <2>2, <2>3
<1>10. Handed' = 1..h
  <2>1. Handed' = Handed \cup (i..h)
    BY <1>2, <1>8 DEF Handed
  <2>2. Handed = 1..n
    BY <1>1 DEF HandedUpTo
  <2>3. CASE i = n + 1
    BY <1>6, <1>8, <2>1, <2>2, <2>3
  <2>4. CASE n = Len(stream.len) /\ n > 0 /\ i = n
    BY <1>6, <1>8, <2>1, <2>2, <2>4
  <2> QED
    BY <1>7, <2>3, <2>4
<1>11. HandedUpTo(h)'
  BY <1>1, <1>2, <1>8, <1>9, <1>10 DEF HandedUpTo
<1> QED
  BY <1>2, <1>8, <1>11 DEF OrderInv, BeforeRecords

\* What is handed out for a record is of its type.
LEMMA DeliveryType ==
    ASSUME TypeOK, NEW o, LengthAt(o) >= HEADER_LEN
    PROVE  DeliveredAt(o) \in Deliveries
<1>1. /\ stream \in Streams /\ input_dbn_version \in Nat \cup {NONE}
      /\ upgrade_policy \in Policies
  BY DEF TypeOK
<1>2. LengthAt(o) \in Nat
  BY <1>1, RecordAt
<1>3. UpgradeAt(o).from \in 0..3
  BY <1>1, UpgradeType DEF UpgradeAt
<1>4. CompatBytesAt(o) \in Nat
  BY UpgradeAtFacts
<1>5. IndexAt(o) \in Nat
  BY <1>1, Offsets DEF IndexAt
<1> QED
  BY <1>1, <1>2, <1>3, <1>4, <1>5 DEF DeliveredAt, Deliveries

\* process hands out the next record and owes its bytes.
LEMMA OrderRecord == ASSUME IInv, OrderInv, RecordDecoded PROVE OrderInv'
<1> DEFINE d == DeliveredAt(base)
<1>1. PICK n \in 0..Len(stream.len) : HandedUpTo(n)
  BY DEF OrderInv
<1>2. /\ state = "Record" /\ state' = "Consume" /\ LengthAt(base) >= HEADER_LEN
      /\ pend'.read = LengthAt(base) /\ out' = Append(out, d)
      /\ call' \in {"idle", "panicked"} /\ pushed = <<>>
      /\ UNCHANGED <<stream, base, skipped, pushed>>
      /\ base \in Nat /\ stream \in Streams /\ pend.read = 0
  BY DEF RecordDecoded, RecordReady, OrderInv, multi, AfterReading, IInv, TypeOK, PendInv, NoPend
<1>3. base = stream.at[n + 1]
  BY <1>1, <1>2 DEF HandedUpTo
<1>4. /\ n < Len(stream.len) /\ IndexAt(base) = n + 1
      /\ stream.at[n + 2] = base + LengthAt(base)
  BY <1>2, <1>3, NextReadable
<1>5. d \in Deliveries /\ d.rec = n + 1
  <2>1. d \in Deliveries
    BY <1>2, DeliveryType DEF IInv
  <2> QED
    BY <1>4, <2>1 DEF DeliveredAt
<1> HIDE DEF d
<1>6. Len(stream.len) \in Nat
  BY <1>2, Offsets
<1>7. /\ out \in Seq(Deliveries) /\ out' \in Seq(Deliveries) /\ Len(out) \in Nat
      /\ Len(out') = Len(out) + 1 /\ out'[Len(out) + 1] = d
      /\ \A j \in 1..Len(out) : out'[j] = out[j]
  BY <1>2, <1>5 DEF OrderInv
<1>8. Handed = 1..n /\ \A j \in 1..Len(out) : out[j].rec \in 1..n
  BY <1>1 DEF HandedUpTo, Handed
<1>9. Handed' = 1..n + 1
  <2>1. {out'[j].rec : j \in 1..Len(out')} = {out[j].rec : j \in 1..Len(out)} \cup {n + 1}
    BY <1>5, <1>7
  <2>2. Handed' = Handed \cup {n + 1}
    BY <1>2, <2>1 DEF Handed
  <2> QED
    BY <1>8, <2>2
<1>10. \A j, k \in 1..Len(out') : j < k => out'[j].rec < out'[k].rec
  <2> SUFFICES ASSUME NEW j \in 1..Len(out'), NEW k \in 1..Len(out'), j < k
               PROVE  out'[j].rec < out'[k].rec
    OBVIOUS
  <2>1. j \in 1..Len(out)
    BY <1>7
  <2>2. CASE k \in 1..Len(out)
    BY <1>1, <1>7, <2>1, <2>2 DEF HandedUpTo
  <2>3. CASE k = Len(out) + 1
    BY <1>5, <1>7, <1>8, <2>1, <2>3
  <2> QED
    BY <1>7, <2>2, <2>3
<1>11. base' + pend'.read = stream.at[(n + 1) + 1] /\ n + 1 \in 0..Len(stream.len)
  BY <1>2, <1>4, <1>6
<1>12. HandedUpTo(n + 1)'
  <2>1. /\ (n + 1) + Len(pushed') <= Len(stream'.len)
        /\ \A j \in 1..Len(pushed') : pushed'[j].rec = (n + 1) + j
    BY <1>2, <1>6, <1>11
  <2> QED
    BY <1>2, <1>9, <1>10, <1>11, <2>1 DEF HandedUpTo
<1> QED
  BY <1>2, <1>7, <1>11, <1>12 DEF OrderInv, BeforeRecords

\* A batch starts behind the records handed out before it.
LEMMA OrderBatchStart == ASSUME IInv, OrderInv, BatchStart PROVE OrderInv'
<1>1. PICK n \in 0..Len(stream.len) : HandedUpTo(n)
  BY DEF OrderInv
<1>2. /\ state = "Record" /\ call' = "batch" /\ pushed = <<>>
      /\ UNCHANGED <<state, pend, length, stream, base, out, skipped, pushed, batch>>
      /\ base \in Nat /\ stream \in Streams /\ pend.read = 0 /\ batch.read = 0
  BY DEF BatchStart, OrderInv, machine, multi, history, IInv, TypeOK, PendInv, BatchInv, NoPend
<1>3. base' + batch'.read = stream.at[n + Len(pushed') + 1]
  <2>1. n + Len(pushed') + 1 = n + 1
    BY <1>2
  <2> QED
    BY <1>1, <1>2, <2>1 DEF HandedUpTo
<1>4. Handed' = Handed
  BY <1>2 DEF Handed
<1>5. HandedUpTo(n)'
  BY <1>1, <1>2, <1>3, <1>4 DEF HandedUpTo
<1> QED
  BY <1>2, <1>5 DEF OrderInv, BeforeRecords

\* A batch pushes the record behind those it has pushed.
LEMMA OrderBatchPush == ASSUME IInv, OrderInv, BatchPush PROVE OrderInv'
<1> DEFINE d == DeliveredAt(BatchOffset)
<1>1. PICK n \in 0..Len(stream.len) : HandedUpTo(n)
  BY DEF OrderInv
<1>2. /\ call = "batch" /\ LengthAt(BatchOffset) >= HEADER_LEN
      /\ batch'.read = batch.read + LengthAt(BatchOffset) /\ pushed' = Append(pushed, d)
      /\ call' \in {"batch", "panicked"}
      /\ UNCHANGED <<state, pend, length, stream, base, out, skipped>>
      /\ base \in Nat /\ batch.read \in Nat /\ stream \in Streams
  BY DEF BatchPush, BatchLength, machine, history, AfterReading, IInv, TypeOK, Batches
<1>3. pushed \in Seq(Deliveries) /\ Len(pushed) \in Nat /\ Len(stream.len) \in Nat
  BY <1>2, Offsets DEF OrderInv
<1>4. PICK t \in 0..Len(stream.len) : t = n + Len(pushed)
  BY <1>1, <1>3 DEF HandedUpTo
<1>5. BatchOffset = stream.at[t + 1] /\ LengthAt(BatchOffset) \in Nat
  BY <1>1, <1>2, <1>4, RecordAt DEF HandedUpTo, BatchOffset
<1>6. /\ t < Len(stream.len) /\ IndexAt(BatchOffset) = t + 1
      /\ stream.at[t + 2] = BatchOffset + LengthAt(BatchOffset)
  BY <1>2, <1>5, NextReadable
<1>7. d \in Deliveries /\ d.rec = t + 1
  <2>1. d \in Deliveries
    BY <1>2, DeliveryType DEF IInv
  <2> QED
    BY <1>6, <2>1 DEF DeliveredAt
<1>8. base' + batch'.read = stream.at[t + 2]
  BY <1>2, <1>5, <1>6 DEF BatchOffset
<1> HIDE DEF d
<1>9. /\ pushed' \in Seq(Deliveries) /\ Len(pushed') = Len(pushed) + 1
      /\ pushed'[Len(pushed) + 1] = d /\ \A j \in 1..Len(pushed) : pushed'[j] = pushed[j]
  BY <1>2, <1>3, <1>7
<1>10. \A j \in 1..Len(pushed') : pushed'[j].rec = n + j
  <2> SUFFICES ASSUME NEW j \in 1..Len(pushed') PROVE pushed'[j].rec = n + j
    OBVIOUS
  <2>1. CASE j \in 1..Len(pushed)
    BY <1>1, <1>9, <2>1 DEF HandedUpTo
  <2>2. CASE j = Len(pushed) + 1
    BY <1>3, <1>4, <1>7, <1>9, <2>2
  <2> QED
    BY <1>3, <1>9, <2>1, <2>2
<1>11. n + Len(pushed') <= Len(stream.len) /\ n + Len(pushed') + 1 = t + 2
  BY <1>3, <1>4, <1>6, <1>9
<1>12. Handed' = Handed
  BY <1>2 DEF Handed
<1>13. HandedUpTo(n)'
  BY <1>1, <1>2, <1>8, <1>10, <1>11, <1>12 DEF HandedUpTo
<1> QED
  BY <1>2, <1>9, <1>13 DEF OrderInv, BeforeRecords

\* When a batch ends, the records it pushed are handed out and their bytes owed.
LEMMA OrderBatchEnd == ASSUME IInv, OrderInv, BatchEnd PROVE OrderInv'
<1>1. PICK n \in 0..Len(stream.len) : HandedUpTo(n)
  BY DEF OrderInv
<1>2. /\ call = "batch" /\ call' = "idle" /\ state' = "Consume" /\ pend'.read = batch.read
      /\ out' = out \o pushed /\ pushed' = <<>>
      /\ UNCHANGED <<stream, base, skipped>> /\ stream \in Streams
  BY DEF BatchEnd, Return, IInv, TypeOK
<1>3. /\ out \in Seq(Deliveries) /\ pushed \in Seq(Deliveries)
      /\ Len(out) \in Nat /\ Len(pushed) \in Nat /\ Len(stream.len) \in Nat
  BY <1>2, Offsets DEF OrderInv
<1>4. PICK t \in 0..Len(stream.len) : t = n + Len(pushed)
  BY <1>1, <1>3 DEF HandedUpTo
<1>5. /\ out' \in Seq(Deliveries) /\ Len(out') = Len(out) + Len(pushed)
      /\ \A j \in 1..Len(out) : out'[j] = out[j]
      /\ \A j \in 1..Len(pushed) : out'[Len(out) + j] = pushed[j]
  BY <1>2, <1>3
<1>6. /\ \A j \in 1..Len(out) : out'[j].rec \in 1..n
      /\ \A j \in 1..Len(pushed) : out'[Len(out) + j].rec = n + j
      /\ Handed = 1..n
  BY <1>1, <1>5 DEF HandedUpTo, Handed
<1>7. \A j \in 1..Len(out') : j \in 1..Len(out) \/ \E i \in 1..Len(pushed) : j = Len(out) + i
  <2> SUFFICES ASSUME NEW j \in 1..Len(out'), j \notin 1..Len(out)
               PROVE  \E i \in 1..Len(pushed) : j = Len(out) + i
    OBVIOUS
  <2>1. j - Len(out) \in 1..Len(pushed) /\ j = Len(out) + (j - Len(out))
    BY <1>3, <1>5
  <2> QED
    BY <2>1
<1>8. Handed' = 1..t
  <2>1. ASSUME NEW x \in Handed' PROVE x \in 1..t
    <3>1. CASE x \in skipped'
      <4>1. x \in 1..n
        BY <1>2, <1>6, <3>1 DEF Handed
      <4> QED
        BY <1>3, <1>4, <4>1
    <3>2. CASE \E j \in 1..Len(out') : x = out'[j].rec
      <4>1. PICK j \in 1..Len(out') : x = out'[j].rec
        BY <3>2
      <4>2. CASE j \in 1..Len(out)
        BY <1>3, <1>4, <1>6, <4>1, <4>2
      <4>3. CASE \E i \in 1..Len(pushed) : j = Len(out) + i
        BY <1>3, <1>4, <1>6, <4>1, <4>3
      <4> QED
        BY <1>7, <4>2, <4>3
    <3> QED
      BY <2>1, <3>1, <3>2 DEF Handed
  <2>2. ASSUME NEW x \in 1..t PROVE x \in Handed'
    <3>1. CASE x \in 1..n
      <4>1. x \in skipped \/ \E j \in 1..Len(out) : x = out[j].rec
        BY <1>6, <3>1 DEF Handed
      <4>2. CASE x \in skipped
        BY <1>2, <4>2 DEF Handed
      <4>3. CASE \E j \in 1..Len(out) : x = out[j].rec
        <5>1. PICK j \in 1..Len(out) : x = out[j].rec
          BY <4>3
        <5>2. j \in 1..Len(out') /\ x = out'[j].rec
          BY <1>3, <1>5, <5>1
        <5> QED
          BY <5>2 DEF Handed
      <4> QED
        BY <4>1, <4>2, <4>3
    <3>2. CASE x \notin 1..n
      <4>1. x - n \in 1..Len(pushed) /\ x = n + (x - n)
        BY <1>3, <1>4, <3>2
      <4>2. PICK i \in 1..Len(pushed) : x = n + i
        BY <4>1
      <4>3. Len(out) + i \in 1..Len(out') /\ x = out'[Len(out) + i].rec
        BY <1>3, <1>5, <1>6, <4>2
      <4> QED
        BY <4>3 DEF Handed
    <3> QED
      BY <3>1, <3>2
  <2> QED
    BY <2>1, <2>2
<1>9. \A j, k \in 1..Len(out') : j < k => out'[j].rec < out'[k].rec
  <2> SUFFICES ASSUME NEW j \in 1..Len(out'), NEW k \in 1..Len(out'), j < k
               PROVE  out'[j].rec < out'[k].rec
    OBVIOUS
  <2>1. CASE k \in 1..Len(out)
    <3>1. j \in 1..Len(out)
      BY <1>3, <2>1
    <3> QED
      BY <1>1, <1>5, <2>1, <3>1 DEF HandedUpTo
  <2>2. CASE \E i \in 1..Len(pushed) : k = Len(out) + i
    <3>1. PICK i \in 1..Len(pushed) : k = Len(out) + i
      BY <2>2
    <3>2. out'[k].rec = n + i
      BY <1>6, <3>1
    <3>3. CASE j \in 1..Len(out)
      BY <1>6, <3>2, <3>3
    <3>4. CASE \E l \in 1..Len(pushed) : j = Len(out) + l
      BY <1>3, <1>6, <3>1, <3>2, <3>4
    <3> QED
      BY <1>7, <3>3, <3>4
  <2> QED
    BY <1>7, <2>1, <2>2
<1>10. base' + pend'.read = stream.at[t + 1]
  BY <1>1, <1>2, <1>4 DEF HandedUpTo
<1>11. HandedUpTo(t)'
  <2>1. /\ t + Len(pushed') <= Len(stream'.len)
        /\ \A j \in 1..Len(pushed') : pushed'[j].rec = t + j
    BY <1>2, <1>3
  <2> QED
    BY <1>2, <1>8, <1>9, <1>10, <2>1 DEF HandedUpTo
<1>12. pushed' \in Seq(Deliveries)
  BY <1>2
<1> QED
  BY <1>2, <1>5, <1>11, <1>12 DEF OrderInv, BeforeRecords

\* Every step hands out the records in order.
LEMMA NextOrder == ASSUME IInv, OrderInv, [Next]_vars PROVE OrderInv'
<1>1. stream \in Streams
  BY DEF IInv, TypeOK
<1>2. CASE ReadMore \/ DecodePreludeErr \/ DecodeMetadataErr \/ RecordInvalid \/ BatchInvalid
  BY <1>1, <1>2, OrderQuiet DEF ReadMore, DecodePreludeErr, DecodeMetadataErr, RecordInvalid,
     BatchInvalid, RecordReady, Return, machine, history, OrderInv
<1>3. CASE RecordNeedsCompat
  BY <1>1, <1>3, OrderQuiet DEF RecordNeedsCompat, multi, history
<1>4. CASE CallProcess \/ \E limit \in Limits : CallProcessMultiple(limit)
  BY <1>1, <1>4, OrderQuiet DEF CallProcess, CallProcessMultiple, machine, multi, history, OrderInv
<1>5. CASE \/ SetInputDbnVersion
           \/ \E policy \in Policies : SetUpgradePolicy(policy)
           \/ \E b \in BOOLEAN : SetTsOut(b)
           \/ \E c \in Chunks : FillSpace(c)
  BY <1>1, <1>5, OrderQuiet DEF SetInputDbnVersion, SetUpgradePolicy, SetTsOut, FillSpace,
     machine, multi, history
<1>6. CASE UNCHANGED vars
  BY <1>1, <1>6, OrderQuiet DEF vars, machine, multi, history
<1>7. CASE LoopStep
  BY <1>2, <1>3, <1>7, OrderConsume, OrderPrelude, OrderMetadata, OrderRecord,
     OrderBatchStart, OrderBatchPush, OrderBatchEnd DEF LoopStep
<1>8. CASE ClientStep
  BY <1>4, <1>5, <1>8, OrderWriteAll, OrderSkip, OrderReset DEF ClientStep
<1> QED
  BY <1>6, <1>7, <1>8 DEF Next

\* OrderInv always holds.
LEMMA OrderAlways == Spec => []OrderInv
<1>1. IInv /\ OrderInv /\ [Next]_vars => OrderInv'
  BY NextOrder
<1> QED
  BY <1>1, InitOrder, IInvAlways, PTL DEF Spec

\* However the bytes arrive and whichever of process, process_all, process_many and
\* skip is called, the records handed out or skipped are the first ones of the stream,
\* each once and in order, and the bytes released are theirs: for every stream, also
\* one that is cut short or malformed, every buffer size and every order of calls.
THEOREM DeliveredOnce == Spec => []ExactlyOnce
<1>1. ASSUME OrderInv, IInv PROVE ExactlyOnce
  <2>1. PICK n \in 0..Len(stream.len) : HandedUpTo(n)
    BY <1>1 DEF OrderInv
  <2>2. n \in Nat
    BY <1>1, Offsets DEF IInv, TypeOK
  <2>3. Cardinality(1..n) = n
    BY <2>2, FS_Interval
  <2>4. Handed = 1..n /\ Cardinality(Handed) = n
    BY <2>1, <2>3 DEF HandedUpTo
  <2> QED
    BY <2>1, <2>4 DEF HandedUpTo, ExactlyOnce
<1> QED
  BY <1>1, OrderAlways, IInvAlways, PTL

-----------------------------------------------------------------------------
(* The layouts. *)

\* The sizes of a type, version by version, as arithmetic.
LEMMA Sizes ==
    ASSUME NEW rt \in RTypes
    PROVE  /\ RecSize[rt][1] \in Nat /\ RecSize[rt][2] \in Nat /\ RecSize[rt][3] \in Nat
           /\ RecSize[rt][1] = RecSize[rt][2] \/ RecSize[rt][1] + TS_OUT_LEN < RecSize[rt][2]
           /\ RecSize[rt][2] = RecSize[rt][3] \/ RecSize[rt][2] + TS_OUT_LEN < RecSize[rt][3]
           /\ rt = "INSTRUMENT_DEF" => /\ RecSize[rt][1] < RecSize[rt][2]
                                       /\ RecSize[rt][2] < RecSize[rt][3]
           /\ rt = "STATISTICS" => RecSize[rt][1] = RecSize[rt][2]
           /\ rt \in {"SYMBOL_MAPPING", "ERROR", "SYSTEM"} => RecSize[rt][2] = RecSize[rt][3]
           /\ rt = "OTHER" => RecSize[rt][1] = RecSize[rt][2] /\ RecSize[rt][2] = RecSize[rt][3]
<1>1. \A v \in 1..3 : RecSize[rt][v] \in Nat
  BY SizeAssumption DEF Versions, DBN_VERSION
<1>2. \A v \in {1, 2} : \/ RecSize[rt][v] = RecSize[rt][v + 1]
                        \/ RecSize[rt][v] + TS_OUT_LEN < RecSize[rt][v + 1]
  BY SizeAssumption
<1>3. /\ RecSize[rt][1] = RecSize[rt][2] \/ RecSize[rt][1] + TS_OUT_LEN < RecSize[rt][2]
      /\ RecSize[rt][2] = RecSize[rt][3] \/ RecSize[rt][2] + TS_OUT_LEN < RecSize[rt][3]
  BY <1>2
<1>4. rt = "OTHER" => RecSize[rt][1] = RecSize[rt][2] /\ RecSize[rt][2] = RecSize[rt][3]
  <2>1. \A v \in 1..3 : RecSize["OTHER"][v] = RecSize["OTHER"][1]
    BY SizeAssumption DEF Versions, DBN_VERSION
  <2> QED
    BY <2>1
<1> QED
  BY <1>1, <1>3, <1>4, SizeAssumption

\* A record of version v, met with its version known or not: what upgrade_record makes
\* of it reads no further than the record, is of the layout the policy promises, and
\* the version it leaves behind is right or undecided.
LEMMA UpgradeKeepsLayout ==
    ASSUME NEW v \in Versions, NEW iv \in {NONE, v}, NEW policy \in Policies,
           NEW rt \in RTypes, NEW ts \in BOOLEAN
    PROVE  LET size == EncodedSize(rt, v, ts)
               u    == UpgradeRecord(iv, policy, rt, size)
           IN  /\ u.version \in {NONE, v}
               /\ ReadsInBounds(u, rt, size, ts)
               /\ (IF u.to = 0 THEN size ELSE UpgradedSize(u, rt, ts))
                     = EncodedSize(rt, Most(v, OutputVersion(policy, v)), ts)
               /\ u.from # 0 => RecSize[rt][u.from] = RecSize[rt][v]
<1> DEFINE size == EncodedSize(rt, v, ts)
           u    == UpgradeRecord(iv, policy, rt, size)
<1>1. PICK s1, s2, s3, t \in Nat :
         /\ RecSize[rt][1] = s1 /\ RecSize[rt][2] = s2 /\ RecSize[rt][3] = s3
         /\ TsOutLen(ts) = t
         /\ s1 = s2 \/ s1 + t < s2
         /\ s2 = s3 \/ s2 + t < s3
         /\ rt = "INSTRUMENT_DEF" => s1 < s2 /\ s2 < s3
         /\ rt = "STATISTICS" => s1 = s2
         /\ rt \in {"SYMBOL_MAPPING", "ERROR", "SYSTEM"} => s2 = s3
         /\ rt = "OTHER" => s1 = s2 /\ s2 = s3
  <2>1. TS_OUT_LEN \in Nat /\ TsOutLen(ts) \in Nat /\ TsOutLen(ts) <= TS_OUT_LEN
    BY SizeAssumption DEF TsOutLen
  <2> QED
    BY <2>1, Sizes
<1>2. v \in {1, 2, 3} /\ iv \in {-1, v}
  BY DEF Versions, DBN_VERSION, NONE
<1>3. rt \in {"INSTRUMENT_DEF", "STATISTICS", "SYMBOL_MAPPING", "ERROR", "SYSTEM", "OTHER"}
  BY DEF RTypes
<1>4. CASE policy = "AsIs"
  <2>1. u.from = 0 /\ u.to = 0 /\ u.version \in {NONE, v}
    BY <1>2, <1>4 DEF UpgradeRecord, UpgradeWithVersion, DetectVersion, Convert, AsItIs, NONE
  <2>2. Most(v, OutputVersion(policy, v)) = v
    BY <1>2, <1>4 DEF Most, OutputVersion
  <2> QED
    BY <2>1, <2>2 DEF ReadsInBounds
<1>5. CASE policy = "UpgradeToV2"
  <2>1. CASE iv = v
    BY <1>1, <1>2, <1>3, <1>5, <2>1 DEF UpgradeRecord, UpgradeWithVersion, Convert, AsItIs,
       NONE, Most, OutputVersion, EncodedSize, ReadsInBounds, UpgradedSize
  <2>2. CASE iv = NONE
    BY <1>1, <1>2, <1>3, <1>5, <2>2 DEF UpgradeRecord, DetectVersion, Convert, AsItIs,
       NONE, Most, OutputVersion, EncodedSize, ReadsInBounds, UpgradedSize
  <2> QED
    BY <2>1, <2>2
<1>6. CASE policy = "UpgradeToV3"
  <2>1. CASE iv = v
    BY <1>1, <1>2, <1>3, <1>6, <2>1 DEF UpgradeRecord, UpgradeWithVersion, Convert, AsItIs,
       NONE, Most, OutputVersion, EncodedSize, ReadsInBounds, UpgradedSize
  <2>2. CASE iv = NONE
    BY <1>1, <1>2, <1>3, <1>6, <2>2 DEF UpgradeRecord, DetectVersion, Convert, AsItIs,
       NONE, Most, OutputVersion, EncodedSize, ReadsInBounds, UpgradedSize
  <2> QED
    BY <2>1, <2>2
<1> QED
  BY <1>4, <1>5, <1>6 DEF Policies

\* The same for the record at an offset of a well-formed stream, as the loops use it.
LEMMA LayoutAt ==
    ASSUME TypeOK, WellFormed(stream), stream.version \in Versions, ts_out = stream.ts_out,
           input_dbn_version \in {NONE, stream.version},
           NEW o, LengthAt(o) >= HEADER_LEN
    PROVE  /\ UpgradeAt(o).version \in {NONE, stream.version}
           /\ \A next : AfterReading(o, next) = next
           /\ LayoutIsPromised(DeliveredAt(o))
<1> DEFINE v  == stream.version
           i  == IndexAt(o)
           rt == stream.rtype[i]
<1>1. stream \in Streams /\ upgrade_policy \in Policies /\ ts_out \in BOOLEAN
  BY DEF TypeOK
<1>2. i # 0 /\ LengthAt(o) = stream.len[i] /\ HEADER_LEN \in Nat \ {0}
  BY LenAssumption DEF LengthAt
<1>3. i \in 1..Len(stream.len) /\ rt \in RTypes
  <2>1. i \in 1..Len(stream.len)
    BY <1>2 DEF IndexAt
  <2> QED
    BY <1>1, <2>1, Offsets
<1>4. LengthAt(o) = EncodedSize(rt, v, ts_out)
  BY <1>2, <1>3 DEF WellFormed
<1>5. RTypeAt(o) = rt
  BY DEF RTypeAt
<1> DEFINE u == UpgradeRecord(input_dbn_version, upgrade_policy, rt, EncodedSize(rt, v, ts_out))
<1>6. UpgradeAt(o) = u
  BY <1>4, <1>5 DEF UpgradeAt
<1> HIDE DEF rt, i
<1>7. /\ u.version \in {NONE, v}
      /\ ReadsInBounds(u, rt, EncodedSize(rt, v, ts_out), ts_out)
      /\ (IF u.to = 0 THEN EncodedSize(rt, v, ts_out) ELSE UpgradedSize(u, rt, ts_out))
            = EncodedSize(rt, Most(v, OutputVersion(upgrade_policy, v)), ts_out)
      /\ u.from # 0 => RecSize[rt][u.from] = RecSize[rt][v]
  BY <1>1, <1>3, UpgradeKeepsLayout
<1> HIDE DEF u
<1>8. InBoundsAt(o)
  BY <1>4, <1>5, <1>6, <1>7 DEF InBoundsAt
<1>9. input_dbn_version <= DBN_VERSION
  BY DEF Versions, DBN_VERSION, NONE
<1>10. LayoutIsPromised(DeliveredAt(o))
  <2>1. /\ DeliveredAt(o).rec = i /\ DeliveredAt(o).from = u.from
        /\ DeliveredAt(o).policy = upgrade_policy
        /\ DeliveredAt(o).size = IF u.to = 0 THEN EncodedSize(rt, v, ts_out)
                                             ELSE UpgradedSize(u, rt, ts_out)
    BY <1>4, <1>5, <1>6, <1>8 DEF DeliveredAt, CompatBytesAt, i
  <2> QED
    BY <1>7, <2>1 DEF LayoutIsPromised, rt
<1> QED
  BY <1>6, <1>7, <1>8, <1>9, <1>10 DEF AfterReading

\* A machine is built for a stream described truthfully.
LEMMA InitLayout == ASSUME \A s \in Streams : WellFormed(s), Init PROVE LayoutInv
<1>1. PICK s \in Streams, version \in Versions \cup {NONE} :
         /\ stream = s /\ version \in {NONE, s.version} /\ input_dbn_version = version
         /\ state = IF s.meta THEN "Prelude" ELSE "Record"
         /\ ts_out = IF s.meta THEN FALSE ELSE s.ts_out
  BY DEF Init, Build
<1>2. out = <<>> /\ pushed = <<>> /\ call = "idle"
  BY DEF Init
<1>3. CASE s.meta
  BY <1>1, <1>2, <1>3 DEF LayoutInv, Described, NeverPanics
<1>4. CASE ~s.meta
  BY <1>1, <1>2, <1>4 DEF LayoutInv, Described, NeverPanics, WellFormed
<1> QED
  BY <1>3, <1>4

\* Steps that neither push nor hand out a record.
LEMMA LayoutQuiet ==
    ASSUME LayoutInv, Described', stream' = stream, out' = out,
           pushed' = pushed \/ pushed' = <<>>, call' # "panicked"
    PROVE  LayoutInv'
<1>1. \A j \in 1..Len(out') : LayoutIsPromised(out[j])'
  BY DEF LayoutInv, LayoutIsPromised
<1>2. \A j \in 1..Len(pushed') : LayoutIsPromised(pushed[j])'
  BY DEF LayoutInv, LayoutIsPromised
<1> QED
  BY <1>1, <1>2 DEF LayoutInv, NeverPanics

\* decode_prelude lets only versions through that the code knows.
LEMMA LayoutPrelude ==
    ASSUME WellFormed(stream), IInv, LayoutInv, DecodePrelude PROVE LayoutInv'
<1>1. stream.version \in Nat
  <2>1. IsStream(stream)
    BY StreamAssumption DEF IInv, TypeOK
  <2> QED
    BY <2>1 DEF IsStream
<1>2. stream.version \in Versions
  BY <1>1 DEF WellFormed, DecodePrelude, PreludeValid, Versions, DBN_VERSION
<1>3. /\ state' = "Metadata" /\ input_dbn_version' = stream.version
      /\ UNCHANGED <<stream, out, pushed, call>>
  BY DEF DecodePrelude, multi
<1>4. Described'
  BY <1>2, <1>3 DEF Described
<1> QED
  BY <1>3, <1>4, LayoutQuiet DEF LayoutInv, NeverPanics

\* process: the record handed out has its layout, and reading it does not panic.
LEMMA LayoutRecord ==
    ASSUME WellFormed(stream), IInv, OrderInv, LayoutInv, RecordDecoded PROVE LayoutInv'
<1> DEFINE d == DeliveredAt(base)
<1>1. /\ state = "Record" /\ state' = "Consume" /\ LengthAt(base) >= HEADER_LEN
      /\ out' = Append(out, d) /\ call' = AfterReading(base, "idle")
      /\ input_dbn_version' = UpgradeAt(base).version
      /\ UNCHANGED <<stream, pushed, ts_out>>
      /\ TypeOK
  BY DEF RecordDecoded, RecordReady, multi, IInv
<1>2. /\ UpgradeAt(base).version \in {NONE, stream.version}
      /\ AfterReading(base, "idle") = "idle"
      /\ LayoutIsPromised(d)
  BY <1>1, LayoutAt DEF LayoutInv, Described
<1>3. Described'
  BY <1>1, <1>2 DEF LayoutInv, Described
<1>4. d \in Deliveries
  BY <1>1, DeliveryType
<1> HIDE DEF d
<1>5. \A j \in 1..Len(out') : LayoutIsPromised(out'[j])
  <2> SUFFICES ASSUME NEW j \in 1..Len(out') PROVE LayoutIsPromised(out'[j])
    OBVIOUS
  <2>1. /\ Len(out') = Len(out) + 1 /\ out'[Len(out) + 1] = d /\ Len(out) \in Nat
        /\ \A l \in 1..Len(out) : out'[l] = out[l]
    BY <1>1, <1>4 DEF OrderInv
  <2>2. CASE j \in 1..Len(out)
    BY <2>1, <2>2 DEF LayoutInv
  <2>3. CASE j = Len(out) + 1
    BY <1>2, <2>1, <2>3
  <2> QED
    BY <2>1, <2>2, <2>3
<1>6. \A j \in 1..Len(out') : LayoutIsPromised(out[j])'
  BY <1>1, <1>5 DEF LayoutIsPromised
<1>7. \A j \in 1..Len(pushed') : LayoutIsPromised(pushed[j])'
  BY <1>1 DEF LayoutInv, LayoutIsPromised
<1> QED
  BY <1>1, <1>2, <1>3, <1>6, <1>7 DEF LayoutInv, NeverPanics

\* process_multiple: so has the record it pushes.
LEMMA LayoutBatchPush ==
    ASSUME WellFormed(stream), IInv, OrderInv, LayoutInv, BatchPush PROVE LayoutInv'
<1> DEFINE d == DeliveredAt(BatchOffset)
<1>1. /\ state = "Record" /\ state' = state /\ LengthAt(BatchOffset) >= HEADER_LEN
      /\ pushed' = Append(pushed, d) /\ call' = AfterReading(BatchOffset, "batch")
      /\ input_dbn_version' = UpgradeAt(BatchOffset).version
      /\ UNCHANGED <<stream, out, ts_out>>
      /\ TypeOK
  BY DEF BatchPush, BatchLength, machine, history, IInv, BatchInv
<1>2. /\ UpgradeAt(BatchOffset).version \in {NONE, stream.version}
      /\ AfterReading(BatchOffset, "batch") = "batch"
      /\ LayoutIsPromised(d)
  BY <1>1, LayoutAt DEF LayoutInv, Described
<1>3. Described'
  BY <1>1, <1>2 DEF LayoutInv, Described
<1>4. d \in Deliveries
  BY <1>1, DeliveryType
<1> HIDE DEF d
<1>5. \A j \in 1..Len(pushed') : LayoutIsPromised(pushed'[j])
  <2> SUFFICES ASSUME NEW j \in 1..Len(pushed') PROVE LayoutIsPromised(pushed'[j])
    OBVIOUS
  <2>1. /\ Len(pushed') = Len(pushed) + 1 /\ pushed'[Len(pushed) + 1] = d /\ Len(pushed) \in Nat
        /\ \A l \in 1..Len(pushed) : pushed'[l] = pushed[l]
    BY <1>1, <1>4 DEF OrderInv
  <2>2. CASE j \in 1..Len(pushed)
    BY <2>1, <2>2 DEF LayoutInv
  <2>3. CASE j = Len(pushed) + 1
    BY <1>2, <2>1, <2>3
  <2> QED
    BY <2>1, <2>2, <2>3
<1>6. \A j \in 1..Len(pushed') : LayoutIsPromised(pushed[j])'
  BY <1>1, <1>5 DEF LayoutIsPromised
<1>7. \A j \in 1..Len(out') : LayoutIsPromised(out[j])'
  BY <1>1 DEF LayoutInv, LayoutIsPromised
<1> QED
  BY <1>1, <1>2, <1>3, <1>6, <1>7 DEF LayoutInv, NeverPanics

\* A batch hands out what it has pushed, and may have detected the version on the
\* record that did not fit.
LEMMA LayoutBatchEnd ==
    ASSUME WellFormed(stream), IInv, OrderInv, LayoutInv, BatchEnd PROVE LayoutInv'
<1>1. /\ state = "Record" /\ state' = "Consume" /\ call' = "idle"
      /\ out' = out \o pushed /\ pushed' = <<>>
      /\ UNCHANGED <<stream, ts_out>> /\ TypeOK
  BY DEF BatchEnd, Return, IInv, BatchInv
<1>2. input_dbn_version' \in {NONE, stream.version}
  <2>1. CASE BatchGoesOn /\ BatchComplete
    <3>1. LengthAt(BatchOffset) >= HEADER_LEN /\ input_dbn_version' = UpgradeAt(BatchOffset).version
      BY <2>1 DEF BatchEnd, BatchLength
    <3> QED
      BY <1>1, <3>1, LayoutAt DEF LayoutInv, Described
  <2>2. CASE ~(BatchGoesOn /\ BatchComplete)
    BY <1>1, <2>2 DEF BatchEnd, LayoutInv, Described
  <2> QED
    BY <2>1, <2>2
<1>3. Described'
  BY <1>1, <1>2 DEF LayoutInv, Described
<1>4. \A j \in 1..Len(out') : LayoutIsPromised(out'[j])
  <2> SUFFICES ASSUME NEW j \in 1..Len(out') PROVE LayoutIsPromised(out'[j])
    OBVIOUS
  <2>1. /\ Len(out') = Len(out) + Len(pushed) /\ Len(out) \in Nat /\ Len(pushed) \in Nat
        /\ \A l \in 1..Len(out) : out'[l] = out[l]
        /\ \A l \in 1..Len(pushed) : out'[Len(out) + l] = pushed[l]
    BY <1>1 DEF OrderInv
  <2>2. CASE j \in 1..Len(out)
    BY <2>1, <2>2 DEF LayoutInv
  <2>3. CASE j \notin 1..Len(out)
    <3>1. j - Len(out) \in 1..Len(pushed) /\ j = Len(out) + (j - Len(out))
      BY <2>1, <2>3
    <3>2. out'[j] = pushed[j - Len(out)]
      BY <2>1, <3>1
    <3> QED
      BY <3>1, <3>2 DEF LayoutInv
  <2> QED
    BY <2>2, <2>3
<1>5. \A j \in 1..Len(out') : LayoutIsPromised(out[j])'
  BY <1>1, <1>4 DEF LayoutIsPromised
<1>6. \A j \in 1..Len(pushed') : LayoutIsPromised(pushed[j])'
  BY <1>1
<1> QED
  BY <1>1, <1>3, <1>5, <1>6 DEF LayoutInv, NeverPanics

\* reset forgets the records with the stream.
LEMMA LayoutReset ==
    ASSUME NEW s \in Streams, OrderInv, ResetFsm(s) PROVE LayoutInv'
<1>1. /\ state' = "Prelude" /\ out' = <<>> /\ pushed' = <<>> /\ call' = "idle"
  BY DEF ResetFsm, OrderInv, multi
<1> QED
  BY <1>1 DEF LayoutInv, Described, NeverPanics

\* Every step of a machine that is fed well-formed streams keeps the layouts.
LEMMA NextLayout ==
    ASSUME \A s \in Streams : WellFormed(s), IInv, OrderInv, LayoutInv, [Next]_vars
    PROVE  LayoutInv'
<1>1. stream \in Streams /\ TypeOK /\ WellFormed(stream) /\ call # "panicked" /\ Described
  BY DEF IInv, TypeOK, LayoutInv, NeverPanics
<1>2. CASE ReadMore \/ DecodeMetadataErr \/ RecordInvalid \/ BatchInvalid \/ BatchStart
  <2>1. Described'
    BY <1>1, <1>2 DEF ReadMore, DecodeMetadataErr, RecordInvalid, BatchInvalid, BatchStart,
       machine, config, history, Described
  <2> QED
    BY <1>2, <2>1, LayoutQuiet DEF ReadMore, DecodeMetadataErr, RecordInvalid, BatchInvalid,
       BatchStart, Return, history, multi
<1>3. CASE DecodePreludeErr
  <2>1. Described'
    BY <1>1, <1>3 DEF DecodePreludeErr, machine, history, Described
  <2> QED
    BY <1>3, <2>1, LayoutQuiet DEF DecodePreludeErr, Return, history
<1>4. CASE ConsumeStep
  <2>1. Described'
    BY <1>1, <1>4 DEF ConsumeStep, config, Described
  <2> QED
    BY <1>1, <1>4, <2>1, LayoutQuiet DEF ConsumeStep, multi
<1>5. CASE DecodeMetadata
  <2>1. Described'
    BY <1>1, <1>5 DEF DecodeMetadata, Described
  <2> QED
    BY <1>5, <2>1, LayoutQuiet DEF DecodeMetadata, Return
<1>6. CASE RecordNeedsCompat
  <2>1. LengthAt(base) >= HEADER_LEN /\ state = "Record"
    BY <1>6 DEF RecordNeedsCompat, RecordReady
  <2>2. UpgradeAt(base).version \in {NONE, stream.version}
    BY <1>1, <2>1, LayoutAt DEF Described
  <2>3. Described'
    BY <1>1, <1>6, <2>1, <2>2 DEF RecordNeedsCompat, history, Described
  <2> QED
    BY <1>1, <1>6, <2>3, LayoutQuiet DEF RecordNeedsCompat, history, multi
<1>7. CASE CallProcess \/ \E limit \in Limits : CallProcessMultiple(limit)
  <2>1. Described'
    BY <1>1, <1>7 DEF CallProcess, CallProcessMultiple, machine, config, history, Described
  <2> QED
    BY <1>7, <2>1, LayoutQuiet DEF CallProcess, CallProcessMultiple, history, multi
<1>8. CASE \/ SetInputDbnVersion
           \/ \E policy \in Policies : SetUpgradePolicy(policy)
           \/ \E b \in BOOLEAN : SetTsOut(b)
  <2>1. Described'
    BY <1>1, <1>8 DEF SetInputDbnVersion, SetUpgradePolicy, SetTsOut, machine, history, Described
  <2> QED
    BY <1>1, <1>8, <2>1, LayoutQuiet DEF SetInputDbnVersion, SetUpgradePolicy, SetTsOut,
       history, multi
<1>9. CASE \E c \in Chunks : FillSpace(c) \/ WriteAll(c)
  <2>1. Described'
    BY <1>1, <1>9 DEF FillSpace, WriteAll, config, history, Described
  <2> QED
    BY <1>1, <1>9, <2>1, LayoutQuiet DEF FillSpace, WriteAll, history, multi
<1>10. CASE \E k \in 1..2 : Skip(k)
  <2>1. Described'
    BY <1>1, <1>10 DEF Skip, config, Described
  <2> QED
    BY <1>1, <1>10, <2>1, LayoutQuiet DEF Skip, multi
<1>11. CASE UNCHANGED vars
  <2>1. Described'
    BY <1>1, <1>11 DEF vars, machine, config, history, Described
  <2> QED
    BY <1>1, <1>11, <2>1, LayoutQuiet DEF vars, history, multi
<1>12. CASE LoopStep
  BY <1>1, <1>2, <1>3, <1>4, <1>5, <1>6, <1>12, LayoutPrelude, LayoutRecord,
     LayoutBatchPush, LayoutBatchEnd DEF LoopStep
<1>13. CASE ClientStep
  BY <1>7, <1>8, <1>9, <1>10, <1>13, LayoutReset DEF ClientStep
<1> QED
  BY <1>11, <1>12, <1>13 DEF Next

\* LayoutInv always holds for well-formed streams.
LEMMA LayoutAlways == ASSUME \A s \in Streams : WellFormed(s) PROVE Spec => []LayoutInv
<1>1. Init => LayoutInv
  BY InitLayout
<1>2. IInv /\ OrderInv /\ LayoutInv /\ [Next]_vars => LayoutInv'
  BY NextLayout
<1> QED
  BY <1>1, <1>2, IInvAlways, OrderAlways, PTL DEF Spec

\* Each record reaches the client in the layout the upgrade policy in force promises
\* for its type, and was read as the layout it has: whenever the version was set or
\* detected, also in the middle of a batch and across changes of policy and resets.
\* The records must have the sizes of their version: the code knows layouts by size.
THEOREM LayoutsArePromised ==
    ASSUME \A s \in Streams : WellFormed(s) PROVE Spec => []OutputLayout
<1>1. LayoutInv => OutputLayout
  BY DEF LayoutInv, LayoutIsPromised, OutputLayout
<1> QED
  BY <1>1, LayoutAlways, PTL

\* On the same streams no call panics: no record is read as a layout longer than it
\* is, and no record is upgraded from a version above DBN_VERSION, although a prelude
\* that is refused leaves such a version in input_dbn_version.
THEOREM NoPanic == ASSUME \A s \in Streams : WellFormed(s) PROVE Spec => []NeverPanics
<1>1. LayoutInv => NeverPanics
  BY DEF LayoutInv
<1> QED
  BY <1>1, LayoutAlways, PTL
=============================================================================
