--------------------------- MODULE PipelineProofs ---------------------------
(***************************************************************************)
(* Proofs about module Pipeline.                                           *)
(***************************************************************************)
EXTENDS Pipeline, MetadataCodecProofs

IsEncoder(e) ==
  e = [kind |-> e.kind, out |-> e.out, has_written_header |-> e.has_written_header,
       width |-> e.width, res |-> e.res]

\* Assigning to one field of an encoder leaves the others.
LEMMA EncoderFields ==
    ASSUME NEW e, IsEncoder(e), NEW x, NEW y
    PROVE  /\ [e EXCEPT !.out = x] =
                [kind |-> e.kind, out |-> x, has_written_header |-> e.has_written_header,
                 width |-> e.width, res |-> e.res]
           /\ [e EXCEPT !.res = x] =
                [kind |-> e.kind, out |-> e.out, has_written_header |-> e.has_written_header,
                 width |-> e.width, res |-> x]
           /\ [e EXCEPT !.width = x] =
                [kind |-> e.kind, out |-> e.out, has_written_header |-> e.has_written_header,
                 width |-> x, res |-> e.res]
           /\ [e EXCEPT !.has_written_header = x] =
                [kind |-> e.kind, out |-> e.out, has_written_header |-> x,
                 width |-> e.width, res |-> e.res]
BY DEF IsEncoder


\* A line that the csv writer ended is there, or a part of it and an error.
LEMMA EndLineShape ==
    ASSUME NEW e, IsEncoder(e), NEW k, NEW t, NEW ts, NEW id, NEW sym
    PROVE  LET x == end_line(e, Line(k, t, ts, id, sym))
           IN  /\ IsEncoder(x)
               /\ \/ x.res = e.res /\ x.out = Append(e.out, Line(k, t, ts, id, sym))
                  \/ x.res = "err" /\ x.out = Append(e.out, Line("partial", t, ts, id, sym))
<1> DEFINE line == Line(k, t, ts, id, sym)
           n == Len(Columns(line))
           p == Put(e, line)
           q == Put(e, [line EXCEPT !.k = "partial"])
<1>1. [line EXCEPT !.k = "partial"] = Line("partial", t, ts, id, sym)
  BY DEF Line
<1>2. IsEncoder(p) /\ p.out = Append(e.out, line) /\ p.res = e.res
  BY EncoderFields DEF Put, IsEncoder
<1>3. IsEncoder(q) /\ q.out = Append(e.out, Line("partial", t, ts, id, sym))
  BY <1>1, EncoderFields DEF Put, IsEncoder
<1>4. end_line(e, line) = IF e.width \in {None, n} THEN [p EXCEPT !.width = n]
                          ELSE [q EXCEPT !.res = "err"]
  BY DEF end_line, end_line_of, Stopped
<1> HIDE DEF p, q, n, line
<1>5. CASE e.width \in {None, n}
  <2>1. end_line(e, line) = [p EXCEPT !.width = n]
    BY <1>4, <1>5
  <2>2. IsEncoder([p EXCEPT !.width = n]) /\ [p EXCEPT !.width = n].res = p.res
        /\ [p EXCEPT !.width = n].out = p.out
    BY <1>2, EncoderFields DEF IsEncoder
  <2> QED BY <1>2, <2>1, <2>2 DEF line
<1>6. CASE ~ (e.width \in {None, n})
  <2>1. end_line(e, line) = [q EXCEPT !.res = "err"]
    BY <1>4, <1>6
  <2>2. IsEncoder([q EXCEPT !.res = "err"]) /\ [q EXCEPT !.res = "err"].res = "err"
        /\ [q EXCEPT !.res = "err"].out = q.out
    BY <1>3, EncoderFields DEF IsEncoder
  <2> QED BY <1>3, <2>1, <2>2 DEF line
<1> QED BY <1>5, <1>6

\* A header is a line, and remembered as written.
LEMMA EncodeHeaderShape ==
    ASSUME NEW e, IsEncoder(e), NEW t, NEW ts, NEW sym
    PROVE  LET x == encode_header(e, t, ts, sym)
           IN  /\ IsEncoder(x)
               /\ \/ x.res = e.res /\ x.out = Append(e.out, Line("header", t, ts, 0, sym))
                  \/ x.res = "err" /\ x.out = Append(e.out, Line("partial", t, ts, 0, sym))
<1> DEFINE y == end_line(e, Line("header", t, ts, 0, sym))
<1>1. /\ IsEncoder(y)
      /\ \/ y.res = e.res /\ y.out = Append(e.out, Line("header", t, ts, 0, sym))
         \/ y.res = "err" /\ y.out = Append(e.out, Line("partial", t, ts, 0, sym))
  BY EndLineShape
<1> DEFINE w == y.has_written_header \/ y.res = "ok"
<1>2. encode_header(e, t, ts, sym) = [y EXCEPT !.has_written_header = w]
  BY DEF encode_header, HeaderWritten, Header
<1> HIDE DEF y, w
<1>3. LET x == [y EXCEPT !.has_written_header = w]
      IN  IsEncoder(x) /\ x.res = y.res /\ x.out = y.out
  <2>1. [y EXCEPT !.has_written_header = w] =
          [kind |-> y.kind, out |-> y.out, has_written_header |-> w,
           width |-> y.width, res |-> y.res]
    BY <1>1, EncoderFields
  <2> QED BY <2>1 DEF IsEncoder
<1> QED BY <1>1, <1>2, <1>3

-----------------------------------------------------------------------------
\* What an encoder wrote for a record: never an old file's contents, and when it succeeds
\* one row that bears the record's number.
NoOld(out)      == \A i \in DOMAIN out : out[i].k # "old"
OneRow(out, id) == \E j \in DOMAIN out : Rows(out) = {j} /\ RowId(out[j]) = id

Wrote(x, id) ==
  /\ IsEncoder(x) /\ IsSeq(x.out) /\ NoOld(x.out)
  /\ x.res = "ok" => OneRow(x.out, id)

\* An encoder that stopped.
LEMMA StoppedWrote ==
    ASSUME NEW x, IsEncoder(x), NEW id, IsSeq(x.out), NoOld(x.out), x.res # "ok"
    PROVE  Wrote(x, id)
BY DEF Wrote

\* Appending to nothing and to one element.
LEMMA AppendShort ==
    ASSUME NEW a, NEW b
    PROVE  Append(<<>>, b) = <<b>> /\ Append(<<a>>, b) = <<a, b>>
<1> DEFINE S == {a, b}
<1>1. <<>> \in Seq(S) /\ <<a>> \in Seq(S) /\ <<b>> \in Seq(S) /\ <<a, b>> \in Seq(S)
      /\ b \in S
  OBVIOUS
<1>2. /\ Len(<<>>) = 0 /\ Len(<<a>>) = 1 /\ Len(<<b>>) = 1 /\ Len(<<a, b>>) = 2
      /\ <<a>>[1] = a /\ <<b>>[1] = b /\ <<a, b>>[1] = a /\ <<a, b>>[2] = b
  OBVIOUS
<1> HIDE DEF S
<1>3. /\ Append(<<>>, b) \in Seq(S) /\ Len(Append(<<>>, b)) = 1 /\ Append(<<>>, b)[1] = b
  BY <1>1, <1>2, AppendProperties
<1>4. /\ Append(<<a>>, b) \in Seq(S) /\ Len(Append(<<a>>, b)) = 2
      /\ Append(<<a>>, b)[1] = a /\ Append(<<a>>, b)[2] = b
  BY <1>1, <1>2, AppendProperties
<1>5. Append(<<>>, b) = <<b>>
  <2>1. \A i \in 1..1 : i = 1
    OBVIOUS
  <2> QED BY <1>1, <1>2, <1>3, <2>1, SeqEqual
<1>6. Append(<<a>>, b) = <<a, b>>
  <2>1. \A i \in 1..2 : i = 1 \/ i = 2
    OBVIOUS
  <2> QED BY <1>1, <1>2, <1>4, <2>1, SeqEqual
<1> QED BY <1>5, <1>6

\* A row, or what was left of it, on its own or under a header.
LEMMA RowAlone ==
    ASSUME NEW b, b.k # "old"
    PROVE  /\ IsSeq(<<b>>) /\ NoOld(<<b>>)
           /\ b.k \in {"row", "object"} => OneRow(<<b>>, b.id)
           /\ b.k = "rec" => OneRow(<<b>>, b.v.id)
<1>1. <<b>> \in Seq({b}) /\ DOMAIN <<b>> = {1} /\ <<b>>[1] = b
  OBVIOUS
<1>2. IsSeq(<<b>>) /\ NoOld(<<b>>)
  BY <1>1, SeqIsSeq DEF NoOld
<1>3. b.k \in {"row", "object", "rec"} => Rows(<<b>>) = {1}
  BY <1>1 DEF Rows, HasRow
<1>4. b.k \in {"row", "object"} => RowId(b) = b.id
  BY DEF RowId
<1>5. b.k = "rec" => RowId(b) = b.v.id
  BY DEF RowId
<1> QED BY <1>1, <1>2, <1>3, <1>4, <1>5 DEF OneRow

\* A line that is no row, and a row below it.
LEMMA RowUnderLine ==
    ASSUME NEW a, NEW b, a.k \in {"header", "partial"}, b.k # "old"
    PROVE  /\ IsSeq(<<a, b>>) /\ NoOld(<<a, b>>)
           /\ b.k \in {"row", "object"} => OneRow(<<a, b>>, b.id)
<1>1. /\ <<a, b>> \in Seq({a, b}) /\ DOMAIN <<a, b>> = {1, 2}
      /\ <<a, b>>[1] = a /\ <<a, b>>[2] = b
  OBVIOUS
<1>2. IsSeq(<<a, b>>) /\ NoOld(<<a, b>>)
  BY <1>1, SeqIsSeq DEF NoOld
<1>3. b.k \in {"row", "object"} => Rows(<<a, b>>) = {2}
  BY <1>1 DEF Rows, HasRow
<1>4. b.k \in {"row", "object"} => RowId(b) = b.id
  BY DEF RowId
<1> QED BY <1>1, <1>2, <1>3, <1>4 DEF OneRow

\* The CSV encoder writes one row for a record, under a header that may be new.
LEMMA CsvRecordWritten ==
    ASSUME NEW e, IsEncoder(e), e.out = <<>>, NEW t, NEW r, NEW ts, NEW sym
    PROVE  Wrote(csv_encode_record(e, t, r, ts, sym), r.id)
<1> DEFINE h == IF e.has_written_header THEN e ELSE encode_header(e, t, ts, sym)
           x == csv_encode_record(e, t, r, ts, sym)
           a == Line("header", t, ts, 0, sym)
           b == Line("row", t, ts, r.id, sym)
           pa == Line("partial", t, ts, 0, sym)
           pb == Line("partial", t, ts, r.id, sym)
<1>1. /\ a.k = "header" /\ b.k = "row" /\ pa.k = "partial" /\ pb.k = "partial"
      /\ b.id = r.id /\ pb.id = r.id
  BY DEF Line
<1>2. x = IF h.res = "ok" THEN end_line(h, b) ELSE h
  BY DEF csv_encode_record, UnlessStopped
<1>3. /\ IsEncoder(h)
      /\ \/ h.out = <<>>
         \/ h.out = <<a>>
         \/ h.res = "err" /\ h.out = <<pa>>
  <2>1. CASE e.has_written_header
    BY <2>1
  <2>2. CASE ~ e.has_written_header
    BY <2>2, EncodeHeaderShape
  <2> QED BY <2>1, <2>2
<1>4. CASE h.res # "ok"
  <2>1. x = h
    BY <1>2, <1>4
  <2> HIDE DEF h, x, a, b, pa, pb
  <2>2. IsSeq(h.out) /\ NoOld(h.out)
    <3>1. CASE h.out = <<>>
      <4>1. <<>> \in Seq({}) /\ DOMAIN <<>> = {}
        OBVIOUS
      <4> QED BY <3>1, <4>1, SeqIsSeq DEF NoOld
    <3>2. CASE h.out = <<a>>
      BY <1>1, <3>2, RowAlone
    <3>3. CASE h.out = <<pa>>
      BY <1>1, <3>3, RowAlone
    <3> QED BY <1>3, <3>1, <3>2, <3>3
  <2>3. Wrote(h, r.id)
    BY <1>3, <1>4, <2>2, StoppedWrote
  <2> QED BY <2>1, <2>3 DEF x
<1>5. CASE h.res = "ok"
  <2>1. /\ IsEncoder(x)
        /\ \/ x.res = h.res /\ x.out = Append(h.out, b)
           \/ x.res = "err" /\ x.out = Append(h.out, pb)
    <3> HIDE DEF h
    <3> QED BY <1>2, <1>3, <1>5, EndLineShape
  <2>2. h.out = <<>> \/ h.out = <<a>>
    BY <1>3, <1>5
  <2> HIDE DEF h, x, a, b, pa, pb
  <2>3. CASE x.res = h.res /\ x.out = Append(h.out, b)
    <3>1. x.out = <<b>> \/ x.out = <<a, b>>
      BY <2>2, <2>3, AppendShort
    <3>2. IsSeq(<<b>>) /\ NoOld(<<b>>) /\ OneRow(<<b>>, r.id)
      BY <1>1, RowAlone
    <3>3. IsSeq(<<a, b>>) /\ NoOld(<<a, b>>) /\ OneRow(<<a, b>>, r.id)
      BY <1>1, RowUnderLine
    <3> QED BY <2>1, <3>1, <3>2, <3>3 DEF x, Wrote
  <2>4. CASE x.res = "err" /\ x.out = Append(h.out, pb)
    <3>1. x.out = <<pb>> \/ x.out = <<a, pb>>
      BY <2>2, <2>4, AppendShort
    <3>2. IsSeq(<<pb>>) /\ NoOld(<<pb>>)
      BY <1>1, RowAlone
    <3>3. IsSeq(<<a, pb>>) /\ NoOld(<<a, pb>>)
      BY <1>1, RowUnderLine
    <3>4. IsSeq(x.out) /\ NoOld(x.out) /\ x.res # "ok"
      BY <2>4, <3>1, <3>2, <3>3
    <3> QED BY <2>1, <3>4, StoppedWrote DEF x
  <2> QED BY <2>1, <2>3, <2>4
<1> QED BY <1>4, <1>5

\* The encoders on the type that a dispatch found.
LEMMA RecordWritten ==
    ASSUME NEW e, IsEncoder(e), e.out = <<>>, NEW t, NEW r, NEW ts, NEW sym
    PROVE  /\ Wrote(encode_record(e, t, r, ts, sym), r.id)
           /\ Wrote(dbn_encode_record(e, r), r.id)
           /\ Wrote(Stopped(e, "err"), r.id)
<1>1. ASSUME NEW x, x # "ok" PROVE Wrote(Stopped(e, x), r.id)
  <2>1. [e EXCEPT !.res = x] =
          [kind |-> e.kind, out |-> e.out, has_written_header |-> e.has_written_header,
           width |-> e.width, res |-> x]
    BY EncoderFields
  <2>2. IsEncoder(Stopped(e, x)) /\ Stopped(e, x).out = <<>> /\ Stopped(e, x).res = x
    BY <2>1 DEF IsEncoder, Stopped
  <2>3. IsSeq(<<>>) /\ NoOld(<<>>)
    <3>1. <<>> \in Seq({}) /\ DOMAIN <<>> = {}
      OBVIOUS
    <3> QED BY <3>1, SeqIsSeq DEF NoOld
  <2> QED BY <1>1, <2>2, <2>3, StoppedWrote
<1>2. ASSUME NEW b, b.k # "old" PROVE IsEncoder(Put(e, b)) /\ Put(e, b).out = <<b>>
  <2>1. [e EXCEPT !.out = Append(e.out, b)] =
          [kind |-> e.kind, out |-> Append(e.out, b),
           has_written_header |-> e.has_written_header, width |-> e.width, res |-> e.res]
    BY EncoderFields
  <2>2. Append(e.out, b) = <<b>>
    BY AppendShort
  <2> QED BY <2>1, <2>2 DEF IsEncoder, Put
<1>3. Wrote(dbn_encode_record(e, r), r.id)
  <2> DEFINE b == RecordChunk(r)
  <2>1. b.k = "rec" /\ b.v = r
    BY DEF RecordChunk
  <2> HIDE DEF b
  <2>2. IsSeq(<<b>>) /\ NoOld(<<b>>) /\ OneRow(<<b>>, r.id)
    BY <2>1, RowAlone
  <2>3. IsEncoder(Put(e, b)) /\ Put(e, b).out = <<b>>
    BY <1>2, <2>1
  <2>4. dbn_encode_record(e, r) = Put(e, b)
    BY DEF dbn_encode_record, b
  <2> QED BY <2>2, <2>3, <2>4 DEF Wrote
<1>4. Wrote(json_encode_record(e, t, r, ts, sym), r.id)
  <2> DEFINE b == Line("object", t, ts, r.id, sym)
  <2>1. b.k = "object" /\ b.id = r.id
    BY DEF Line
  <2> HIDE DEF b
  <2>2. IsSeq(<<b>>) /\ NoOld(<<b>>) /\ OneRow(<<b>>, r.id)
    BY <2>1, RowAlone
  <2>3. IsEncoder(Put(e, b)) /\ Put(e, b).out = <<b>>
    BY <1>2, <2>1
  <2>4. json_encode_record(e, t, r, ts, sym) = Put(e, b)
    BY DEF json_encode_record, b
  <2> QED BY <2>2, <2>3, <2>4 DEF Wrote
<1>5. Wrote(csv_encode_record(e, t, r, ts, sym), r.id)
  BY CsvRecordWritten
<1>6. /\ encode_record(e, t, r, ts, sym) \in
           {Stopped(e, "err"), Stopped(e, "panic"), csv_encode_record(e, t, r, ts, sym),
            json_encode_record(e, t, r, ts, sym), dbn_encode_record(e, r)}
  BY DEF encode_record
<1>7. Wrote(Stopped(e, "err"), r.id) /\ Wrote(Stopped(e, "panic"), r.id)
  BY <1>1
<1> QED BY <1>3, <1>4, <1>5, <1>6, <1>7

\* What the command writes of a record, however it encodes it.
LEMMA EncodeOneWritten ==
    ASSUME IsEncoder(enc), enc.out = <<>>, NEW r
    PROVE  Wrote(EncodeOne(r), r.id)
<1>1. Wrote(dbn_encode_record(enc, r), r.id) /\ Wrote(Stopped(enc, "err"), r.id)
  BY RecordWritten
<1>2. \A ts : Wrote(encode_record_ref_ts_out(enc, r, ts), r.id)
  BY <1>1, RecordWritten DEF encode_record_ref_ts_out
<1>3. \A ts, sym : Wrote(encode_ref_ts_out_with_sym(enc, r, ts, sym), r.id)
  BY RecordWritten DEF encode_ref_ts_out_with_sym
<1>4. Wrote(encode_decoded(enc, meta, r), r.id)
  BY <1>1, <1>2 DEF encode_decoded
<1> QED BY <1>1, <1>2, <1>3, <1>4 DEF EncodeOne

\* An upgrade changes a record's length only.
LEMMA UpgradedKeeps ==
    ASSUME NEW r \in AnyRecord, NEW version, NEW policy, NEW ts
    PROVE  Upgraded(r, version, policy, ts).id = r.id
BY DEF AnyRecord, Upgraded, UpgradedBy

-----------------------------------------------------------------------------
(* What an encoder has written before the first record. *)

NoRows(out) == IsSeq(out) /\ NoOld(out) /\ Rows(out) = {}

\* An empty output has no rows.
LEMMA NothingWritten == NoRows(<<>>)
<1>1. <<>> \in Seq({}) /\ DOMAIN <<>> = {}
  OBVIOUS
<1> QED BY <1>1, SeqIsSeq DEF NoRows, NoOld, Rows

\* The chunks of metadata are no rows.
LEMMA MetadataWritten ==
    ASSUME NEW m \in Metadata
    PROVE  NoRows(encode(m).bytes)
<1> DEFINE b == encode(m).bytes
<1>1. b \in Seq(Chunk)
  BY Encoded
<1> HIDE DEF b
<1>2. \A c \in Chunk : c.k \in {"int", "text"}
  BY DEF Chunk
<1>3. \A i \in DOMAIN b : b[i].k \in {"int", "text"}
  BY <1>1, <1>2
<1>4. NoOld(b) /\ Rows(b) = {}
  BY <1>3 DEF NoOld, Rows, HasRow
<1> QED BY <1>1, <1>4, SeqIsSeq DEF NoRows, b

\* Building an encoder writes metadata or a header, no rows.
LEMMA BuiltWithoutRows ==
    ASSUME NEW m \in Metadata, NEW encoding, NEW header, NEW sym
    PROVE  /\ IsEncoder(DynEncoder_build(encoding, m, header, sym))
           /\ NoRows(DynEncoder_build(encoding, m, header, sym).out)
<1>1. \A kind, out : IsEncoder(Encoder(kind, out)) /\ Encoder(kind, out).out = out
  BY DEF IsEncoder, Encoder
<1>2. CASE encoding = "Csv"
  <2> DEFINE e == Encoder("Csv", <<>>)
             h == encode_header(e, HeaderType(m.version, m.schema), m.ts_out, sym)
  <2>1. IsEncoder(e) /\ e.out = <<>>
    BY <1>1
  <2>2. IsEncoder([e EXCEPT !.has_written_header = FALSE])
        /\ [e EXCEPT !.has_written_header = FALSE].out = <<>>
    <3> HIDE DEF e
    <3>1. [e EXCEPT !.has_written_header = FALSE] =
            [kind |-> e.kind, out |-> e.out, has_written_header |-> FALSE,
             width |-> e.width, res |-> e.res]
      BY <2>1, EncoderFields
    <3> QED BY <2>1, <3>1 DEF IsEncoder
  <2>3. IsEncoder(h) /\ NoRows(h.out)
    <3> DEFINE t == HeaderType(m.version, m.schema)
    <3>1. /\ IsEncoder(h)
          /\ \/ h.out = Append(e.out, Line("header", t, m.ts_out, 0, sym))
             \/ h.out = Append(e.out, Line("partial", t, m.ts_out, 0, sym))
      <4> HIDE DEF e, t
      <4> QED BY <2>1, EncodeHeaderShape DEF t
    <3>2. ASSUME NEW l, l.k \in {"header", "partial"} PROVE NoRows(Append(<<>>, l))
      <4>1. Append(<<>>, l) = <<l>> /\ DOMAIN <<l>> = {1} /\ <<l>>[1] = l
        BY AppendShort
      <4>2. IsSeq(<<l>>) /\ NoOld(<<l>>)
        BY <3>2, RowAlone
      <4>3. Rows(<<l>>) = {}
        BY <3>2, <4>1 DEF Rows, HasRow
      <4> QED BY <4>1, <4>2, <4>3 DEF NoRows
    <3>3. \A k : Line(k, t, m.ts_out, 0, sym).k = k
      BY DEF Line
    <3>4. NoRows(Append(<<>>, Line("header", t, m.ts_out, 0, sym)))
          /\ NoRows(Append(<<>>, Line("partial", t, m.ts_out, 0, sym)))
      BY <3>2, <3>3
    <3> HIDE DEF h, t, e
    <3> QED BY <2>1, <3>1, <3>4
  <2>4. DynEncoder_build(encoding, m, header, sym) \in
          {e, [e EXCEPT !.has_written_header = FALSE], h}
    BY <1>2 DEF DynEncoder_build, csv_build, encode_header_for_schema
  <2> HIDE DEF e, h
  <2> QED BY <2>1, <2>2, <2>3, <2>4, NothingWritten
<1>3. CASE encoding = "Json"
  BY <1>1, <1>3, NothingWritten DEF DynEncoder_build
<1>4. CASE encoding \notin {"Csv", "Json"}
  <2> DEFINE b == <<>> \o encode(m).bytes
             r == IF encode(m).ok THEN "ok" ELSE "err"
  <2>1. DynEncoder_build(encoding, m, header, sym) = Stopped(Encoder("Dbn", b), r)
    BY <1>4 DEF DynEncoder_build, MetadataEncoder
  <2>2. b = encode(m).bytes
    BY Encoded
  <2> HIDE DEF b, r
  <2>3. IsEncoder(Stopped(Encoder("Dbn", b), r)) /\ Stopped(Encoder("Dbn", b), r).out = b
    <3> DEFINE e == Encoder("Dbn", b)
    <3>1. IsEncoder(e) /\ e.out = b
      BY <1>1
    <3> HIDE DEF e
    <3>2. [e EXCEPT !.res = r] =
            [kind |-> e.kind, out |-> e.out, has_written_header |-> e.has_written_header,
             width |-> e.width, res |-> r]
      BY <3>1, EncoderFields
    <3>3. IsEncoder(Stopped(e, r)) /\ Stopped(e, r).out = b
      BY <3>1, <3>2 DEF IsEncoder, Stopped
    <3> QED BY <3>3 DEF e
  <2> QED BY <2>1, <2>2, <2>3, MetadataWritten
<1> QED BY <1>2, <1>3, <1>4

\* encode_from_frag's metadata is one.
LEMMA DummyIsMetadata == DummyMetadata \in Metadata
<1>1. "InstrumentId" \in DOMAIN SType
  BY DEF SType
<1>2. <<>> \in Seq(Text) /\ <<>> \in Seq(Mapping)
  OBVIOUS
<1>3. /\ CURRENT_VERSION \in 0..CURRENT_VERSION /\ 0 \in Nat /\ None \in OptionalTime
      /\ None \in OptionalNum /\ 71 \in Nat \ {0} /\ ~ (CURRENT_VERSION < 2)
  BY DEF CURRENT_VERSION, OptionalTime, OptionalNum
<1>4. "" \in Text
  BY DEF Text
<1>5. "None" \in DOMAIN Schema \cup {"None"}
      /\ "None" \in DOMAIN SType \cup {"None"} 
  OBVIOUS
<1>6. FALSE \in BOOLEAN
  OBVIOUS
<1> QED BY <1>1, <1>2, <1>3, <1>4, <1>5, <1>6 DEF DummyMetadata, Metadata

\* The same for the encoder that the command builds.
LEMMA NewEncoderWithoutRows ==
    ASSUME input.kind # "frag" => meta \in Metadata
    PROVE  IsEncoder(NewEncoder) /\ NoRows(NewEncoder.out)
<1>1. CASE IsFragment
  <2>1. IsEncoder(Encoder("Dbn", <<>>)) /\ Encoder("Dbn", <<>>).out = <<>>
    BY DEF IsEncoder, Encoder
  <2>2. NewEncoder = Encoder("Dbn", <<>>)
    BY <1>1 DEF NewEncoder
  <2> QED BY <2>1, <2>2, NothingWritten
<1>2. CASE ~IsFragment /\ input.kind = "frag"
  <2> DEFINE e == DynEncoder_build(infer_encoding, DummyMetadata, FALSE, NoSymbol)
             w == infer_encoding # "Csv" \/ ~args.write_header
  <2>1. IsEncoder(e) /\ NoRows(e.out)
    BY DummyIsMetadata, BuiltWithoutRows
  <2>2. NewEncoder = [e EXCEPT !.has_written_header = w]
    BY <1>2 DEF NewEncoder, LateHeader
  <2> HIDE DEF e, w
  <2>3. [e EXCEPT !.has_written_header = w] =
          [kind |-> e.kind, out |-> e.out, has_written_header |-> w,
           width |-> e.width, res |-> e.res]
    BY <2>1, EncoderFields
  <2> QED BY <2>1, <2>2, <2>3 DEF IsEncoder
<1>3. CASE ~IsFragment /\ input.kind # "frag"
  BY <1>3, BuiltWithoutRows DEF NewEncoder
<1> QED BY <1>1, <1>2, <1>3

-----------------------------------------------------------------------------
(* Rows and records side by side. *)

Matches(rows, recs) ==
  Len(rows) = Len(recs) /\ \A n \in 1..Len(recs) : RowId(rows[n]) = recs[n].id

RowsOf(out) == Selected(out, Rows(out))

\* Rows are where they are, and they are finitely many.
LEMMA RowsFinite ==
    ASSUME NEW out, IsSeq(out)
    PROVE  IsFiniteSet(Rows(out)) /\ Rows(out) \subseteq 1..Len(out) /\ Len(out) \in Nat
<1>1. Len(out) \in Nat /\ DOMAIN out = 1..Len(out)
  BY LenProperties DEF IsSeq
<1>2. Rows(out) \subseteq 1..Len(out)
  BY <1>1 DEF Rows
<1>3. IsFiniteSet(1..Len(out))
  BY <1>1, FS_Interval
<1> QED BY <1>1, <1>2, <1>3, FS_Subset

\* What follows adds one row.
LEMMA RowsAfterOne ==
    ASSUME NEW s, IsSeq(s), NEW t, IsSeq(t), NEW j, j \in DOMAIN t, Rows(t) = {j}
    PROVE  RowsOf(s \o t) = Append(RowsOf(s), t[j])
<1>1. /\ DOMAIN (s \o t) = 1..(Len(s) + Len(t)) /\ Len(s) \in Nat /\ Len(t) \in Nat
      /\ DOMAIN s = 1..Len(s) /\ DOMAIN t = 1..Len(t)
      /\ \A i \in 1..Len(s) : (s \o t)[i] = s[i]
      /\ \A i \in 1..Len(t) : (s \o t)[Len(s) + i] = t[i]
  BY IsSeqConcat
<1> DEFINE k == Len(s) + j
<1>2. k \in 1..(Len(s) + Len(t)) /\ k \in Nat /\ (s \o t)[k] = t[j] /\ HasRow(t[j])
      /\ k \notin 1..Len(s)
  BY <1>1 DEF Rows
<1>3. Rows(s \o t) = Rows(s) \cup {k}
  <2>1. ASSUME NEW i \in 1..(Len(s) + Len(t)), HasRow((s \o t)[i]), i \notin 1..Len(s)
        PROVE  i = k
    <3>1. i - Len(s) \in 1..Len(t) /\ Len(s) + (i - Len(s)) = i
      BY <1>1, <2>1
    <3>2. t[i - Len(s)] = (s \o t)[i]
      BY <1>1, <3>1
    <3>3. i - Len(s) = j
      BY <1>1, <2>1, <3>1, <3>2 DEF Rows
    <3> QED BY <3>1, <3>3
  <2>2. \A i \in 1..Len(s) : i \in 1..(Len(s) + Len(t))
    BY <1>1
  <2> HIDE DEF k
  <2>3. \A i \in 1..(Len(s) + Len(t)) :
          HasRow((s \o t)[i]) <=> ((i \in 1..Len(s) /\ HasRow(s[i])) \/ i = k)
    BY <1>1, <1>2, <2>1
  <2> QED BY <1>1, <1>2, <2>2, <2>3 DEF Rows
<1>4. IsFiniteSet(Rows(s)) /\ Rows(s) \subseteq Nat /\ \A i \in Rows(s) : i < k
  BY <1>1, RowsFinite
<1>5. Selected(s \o t, Rows(s) \cup {k}) = Append(Selected(s \o t, Rows(s)), (s \o t)[k])
  <2> HIDE DEF k
  <2> QED BY <1>2, <1>4, SelectedExtend
<1>6. Selected(s \o t, Rows(s)) = Selected(s, Rows(s))
  <2>1. \A i \in Rows(s) : (s \o t)[i] = s[i]
    BY <1>1 DEF Rows
  <2> QED BY <1>4, <2>1, SelectedEqual
<1> QED BY <1>2, <1>3, <1>5, <1>6 DEF RowsOf

\* A row and a record that belong together may be added.
LEMMA MatchesMore ==
    ASSUME NEW S, NEW rows \in Seq(S), NEW x \in S, NEW T, NEW recs \in Seq(T), NEW r \in T,
           Matches(rows, recs), RowId(x) = r.id
    PROVE  Matches(Append(rows, x), Append(recs, r))
<1>1. /\ Len(Append(rows, x)) = Len(rows) + 1 /\ Len(Append(recs, r)) = Len(recs) + 1
      /\ \A n \in 1..Len(rows) : Append(rows, x)[n] = rows[n]
      /\ \A n \in 1..Len(recs) : Append(recs, r)[n] = recs[n]
      /\ Append(rows, x)[Len(rows) + 1] = x /\ Append(recs, r)[Len(recs) + 1] = r
  BY AppendProperties
<1>2. Len(rows) = Len(recs) /\ Len(recs) \in Nat
  BY DEF Matches
<1>3. ASSUME NEW n \in 1..(Len(recs) + 1)
      PROVE  RowId(Append(rows, x)[n]) = Append(recs, r)[n].id
  <2>1. n \in 1..Len(recs) \/ n = Len(recs) + 1
    BY <1>2
  <2>2. CASE n \in 1..Len(recs)
    BY <1>1, <1>2, <2>2 DEF Matches
  <2>3. CASE n = Len(recs) + 1
    BY <1>1, <1>2, <2>3
  <2> QED BY <2>1, <2>2, <2>3
<1> QED BY <1>1, <1>2, <1>3 DEF Matches

-----------------------------------------------------------------------------
(* The metadata that the command works with. *)

\* Metadata::upgrade yields metadata.
LEMMA UpgradedMetadata ==
    ASSUME NEW m \in Metadata, NEW policy
    PROVE  upgrade(m, policy) \in Metadata
<1> DEFINE to == IF policy = "UpgradeToV2" THEN 2 ELSE 3
<1>1. /\ to \in 0..CURRENT_VERSION /\ ~ (to < 2) /\ m.version \in Nat
      /\ 3 \in 0..CURRENT_VERSION /\ 22 \in Nat \ {0}
      /\ version_symbol_cstr_len(to) \in Nat \ {0} /\ version_symbol_cstr_len(1) = 22
  BY DEF CURRENT_VERSION, version_symbol_cstr_len, Metadata
<1> HIDE DEF to
<1>2. [m EXCEPT !.symbol_cstr_len = 22] \in Metadata
  BY <1>1 DEF Metadata
<1>3. [m EXCEPT !.version = to, !.symbol_cstr_len = version_symbol_cstr_len(to)] \in Metadata
  BY <1>1 DEF Metadata
<1>4. [m EXCEPT !.version = 3] \in Metadata
  <2> DEFINE three == 3
  <2>1. three \in 0..CURRENT_VERSION /\ ~ (three < 2)
    BY <1>1
  <2> HIDE DEF three
  <2>2. [m EXCEPT !.version = three] \in Metadata
    BY <2>1 DEF Metadata
  <2> QED BY <2>2 DEF three
<1> QED BY <1>2, <1>3, <1>4 DEF upgrade, to

\* The filters leave metadata.
LEMMA WrapType ==
    ASSUME NEW m \in Metadata, IsArgs(args)
    PROVE  wrap(m) \in Metadata
<1>1. FilteredLimit(m, args.limit) \in OptionalNum
  BY DEF FilteredLimit, IsArgs, Metadata
<1>2. (IF args.schema = "None" THEN m.schema ELSE args.schema) \in DOMAIN Schema \cup {"None"}
  BY DEF IsArgs, Metadata
<1> QED BY <1>1, <1>2 DEF wrap, Metadata

\* What the decoder of the command reads is metadata, by MetadataRoundTrip.
LEMMA DecodedType ==
    ASSUME NEW i, IsInput(i), i.kind # "frag", Decoded(i).ok
    PROVE  Decoded(i).meta \in Metadata
<1>1. CASE i.kind = "dbz"
  BY <1>1 DEF Decoded, IsInput
<1>2. CASE i.kind = "dbn"
  <2>1. i.meta \in Metadata /\ i.meta.version = i.version /\ encode(i.meta).ok /\ i.version # 0
    BY <1>2 DEF IsInput
  <2>2. Decoded(i) = [ok |-> TRUE, meta |-> i.meta]
    BY <1>2, <2>1, MetadataRoundTrip DEF Decoded
  <2> QED BY <2>1, <2>2
<1>3. CASE i.kind \notin {"dbz", "dbn"}
  BY <1>3 DEF Decoded
<1> QED BY <1>1, <1>2, <1>3

-----------------------------------------------------------------------------
(* The records that the command has decoded, and what it has written. *)

Taken == {k \in OfSchema : k <= pos}

\* While the command runs, its file and its buffer together have a row for each record of
\* the schema that was decoded, and these are no more than the limit.
Counted ==
  /\ Matches(RowsOf(disk \o pend), Selected(input.recs, Taken))
  /\ count = Cardinality(Taken)
  /\ args.limit # None => count <= args.limit

Running == pc \in {"open", "encode", "run", "exit"}

CliTyped ==
  /\ Running => /\ input \in Inputs /\ args \in Args
                /\ pos \in Nat /\ count \in Nat /\ IsSeq(disk) /\ IsSeq(pend)
  /\ pc \in {"open", "encode"} => pos = 0 /\ count = 0 /\ pend = <<>>
  /\ pc \in {"encode", "run"} /\ input.kind # "frag" => meta \in Metadata
  /\ pc = "run" => IsEncoder(enc) /\ enc.out = <<>> /\ NoOld(disk) /\ NoOld(pend)

CliInv ==
  /\ CliTyped
  /\ pc = "run" /\ Filtered => Counted
  /\ FiltersHonoured /\ OkMeansWritten

\* The records of the schema, and those taken so far, are finitely many.
LEMMA OfSchemaFinite ==
    ASSUME IsInput(input)
    PROVE  /\ input.recs \in Seq(AnyRecord \cup {BadRecord})
           /\ Len(input.recs) \in Nat /\ DOMAIN input.recs = 1..Len(input.recs)
           /\ IsFiniteSet(OfSchema) /\ OfSchema \subseteq 1..Len(input.recs)
           /\ OfSchema \subseteq Nat
           /\ Taken \subseteq OfSchema /\ IsFiniteSet(Taken)
<1>1. input.recs \in Seq(AnyRecord \cup {BadRecord})
  BY DEF IsInput
<1>2. Len(input.recs) \in Nat /\ DOMAIN input.recs = 1..Len(input.recs)
  BY <1>1
<1>3. OfSchema \subseteq 1..Len(input.recs)
  BY <1>2 DEF OfSchema
<1>4. IsFiniteSet(OfSchema)
  <2>1. IsFiniteSet(1..Len(input.recs))
    BY <1>2, FS_Interval
  <2>2. OfSchema \in SUBSET (1..Len(input.recs))
    BY <1>3
  <2> HIDE DEF OfSchema
  <2> QED BY <2>1, <2>2, FS_Subset
<1>5. Taken \subseteq OfSchema
  BY DEF Taken
<1>6. IsFiniteSet(Taken)
  BY <1>4, <1>5, FS_Subset
<1>7. OfSchema \subseteq Nat
  BY <1>2, <1>3
<1> QED BY <1>1, <1>2, <1>3, <1>4, <1>5, <1>6, <1>7

\* The next record is the first of those that are not skipped.
LEMMA NextIsFirst ==
    ASSUME IsInput(input), pos \in Nat, Candidates # {}
    PROVE  /\ NextAt \in Candidates /\ \A j \in Candidates : NextAt <= j
           /\ NextAt \in 1..Len(input.recs) /\ NextAt \in Nat /\ pos < NextAt
<1>1. Len(input.recs) \in Nat
  BY OfSchemaFinite
<1>2. Candidates \subseteq pos + 1 .. Len(input.recs) /\ Candidates \in SUBSET Nat
  BY <1>1 DEF Candidates
<1>3. \E k \in Candidates : \A j \in Candidates : k <= j
  BY <1>2, LeastNat
<1>4. NextAt \in Candidates /\ \A j \in Candidates : NextAt <= j
  BY <1>3 DEF NextAt
<1> QED BY <1>1, <1>2, <1>4

\* Once no record is left, or none is wanted, the output has the records asked for.
LEMMA AllAsked ==
    ASSUME IsInput(input), IsArgs(args), pos \in Nat, count \in Nat, Filtered, Counted, NoMore
    PROVE  Ids(disk \o pend) = [i \in DOMAIN Asked |-> Asked[i].id]
<1> DEFINE all == Selected(input.recs, OfSchema)
           got == Selected(input.recs, Taken)
           rows == RowsOf(disk \o pend)
<1>1. /\ IsFiniteSet(OfSchema) /\ OfSchema \subseteq Nat /\ IsFiniteSet(Taken)
      /\ Taken \subseteq OfSchema /\ Len(input.recs) \in Nat
      /\ OfSchema \subseteq 1..Len(input.recs)
  BY OfSchemaFinite
<1>2. /\ Cardinality(Taken) = count /\ count <= Cardinality(OfSchema)
      /\ Cardinality(OfSchema) \in Nat
      /\ \A n \in 1..count : got[n] = all[n]
  BY <1>1, SelectedPrefix, FS_CardinalityType DEF Counted, Taken
<1>3. Len(all) = Cardinality(OfSchema) /\ DOMAIN all = 1..Len(all)
      /\ Len(got) = count
  BY <1>1, <1>2, SelectedSeq
<1>4. DOMAIN rows = 1..count /\ \A n \in 1..count : RowId(rows[n]) = got[n].id
  <2>1. Len(rows) = count /\ \A n \in 1..count : RowId(rows[n]) = got[n].id
    BY <1>3 DEF Counted, Matches
  <2>2. DOMAIN rows = 1..Cardinality(Rows(disk \o pend))
    BY DEF RowsOf, Selected
  <2> QED BY <2>1, <2>2
<1>5. args.limit \in Nat => CutTo(all, args.limit) = SubSeq(all, 1, IF args.limit < Len(all)
                                                           THEN args.limit ELSE Len(all))
  BY DEF CutTo
<1>6. Candidates = {} => count = Len(all)
  <2> SUFFICES ASSUME Candidates = {} PROVE count = Len(all)
    OBVIOUS
  <2>1. ASSUME NEW k \in OfSchema PROVE k \in Taken
    <3>1. k \in 1..Len(input.recs) /\ Passes(input.recs[k])
      BY <1>1 DEF OfSchema, Passes
    <3>2. ~ (k \in pos + 1 .. Len(input.recs))
      BY <3>1 DEF Candidates
    <3> QED BY <1>1, <3>1, <3>2 DEF Taken
  <2>2. Taken = OfSchema
    BY <1>1, <2>1
  <2> QED BY <1>2, <1>3, <2>2
<1>7. DOMAIN Asked = 1..count /\ \A n \in 1..count : Asked[n] = all[n]
  <2>1. CASE args.limit = None
    <3>1. Candidates = {}
      BY <2>1 DEF NoMore, LimitReached
    <3> QED BY <1>3, <1>6, <2>1, <3>1 DEF Asked
  <2>2. CASE args.limit # None
    <3>1. args.limit \in Nat /\ count <= args.limit
      BY <2>2 DEF IsArgs, OptionalNum, Counted
    <3>2. count = Len(all) \/ count = args.limit
      BY <1>6, <2>2, <3>1 DEF NoMore, LimitReached
    <3>3. (IF args.limit < Len(all) THEN args.limit ELSE Len(all)) = count
      BY <1>2, <1>3, <3>1, <3>2
    <3>4. Asked = SubSeq(all, 1, count)
      BY <1>5, <2>2, <3>1, <3>3 DEF Asked
    <3>5. DOMAIN SubSeq(all, 1, count) = 1..count
          /\ \A n \in 1..count : SubSeq(all, 1, count)[n] = all[n]
      <4>1. \A i \in 1..count : all[i] \in {all[j] : j \in 1..count}
        OBVIOUS
      <4> HIDE DEF all
      <4>2. /\ SubSeq(all, 1, count) \in Seq({all[j] : j \in 1..count})
            /\ Len(SubSeq(all, 1, count)) = IF 1 <= count THEN count - 1 + 1 ELSE 0
            /\ \A i \in 1..(count - 1 + 1) : SubSeq(all, 1, count)[i] = all[1 + i - 1]
        BY <4>1, SubSeqProperties
      <4>3. count - 1 + 1 = count /\ \A i \in 1..count : 1 + i - 1 = i
        OBVIOUS
      <4>4. Len(SubSeq(all, 1, count)) = count
        BY <4>2, <4>3
      <4> QED BY <4>2, <4>3, <4>4, LenProperties
    <3> QED BY <3>4, <3>5
  <2> QED BY <2>1, <2>2
<1>8. \A n \in 1..count : RowId(rows[n]) = Asked[n].id
  BY <1>2, <1>4, <1>7
<1>9. Ids(disk \o pend) = [i \in DOMAIN rows |-> RowId(rows[i])]
  BY DEF Ids, RowsOf
<1> HIDE DEF rows
<1> QED BY <1>4, <1>7, <1>8, <1>9, Zenon

-----------------------------------------------------------------------------
(* The steps of the command. *)

\* What a running command works on.
LEMMA CliInputs ==
    ASSUME CliInv, Running
    PROVE  /\ input \in Inputs /\ args \in Args /\ IsInput(input) /\ IsArgs(args)
           /\ pos \in Nat /\ count \in Nat /\ IsSeq(disk) /\ IsSeq(pend)
BY CliAssumption DEF CliInv, CliTyped

\* However the command ends, and when it ends with an error nothing is promised.
LEMMA ExitStep ==
    ASSUME CliInv, Running, NEW how, NEW out, IsSeq(out), Exit(how, out), pos' \in Nat,
           count' \in Nat, UNCHANGED <<input, args>>
    PROVE  CliTyped' /\ (how # "ok" => CliInv')
<1>1. /\ input \in Inputs /\ args \in Args /\ IsSeq(disk)
      /\ pc' = "exit" /\ status' = how /\ pend' = <<>>
      /\ disk' = disk \/ disk' = disk \o out
  BY CliInputs DEF Exit
<1>2. IsSeq(disk') /\ IsSeq(pend')
  <2>1. IsSeq(disk \o out) /\ IsSeq(<<>>)
    BY <1>1, IsSeqConcat, IsSeqEmpty
  <2> QED BY <1>1, <2>1
<1>3. CliTyped'
  BY <1>1, <1>2 DEF CliTyped, Running
<1>4. how # "ok" => FiltersHonoured' /\ OkMeansWritten'
  BY <1>1 DEF FiltersHonoured, OkMeansWritten, Ended
<1> QED BY <1>1, <1>3, <1>4 DEF CliInv

\* Opening the input keeps the invariant.
LEMMA OpenInv ==
    ASSUME CliInv, OpenFails \/ OpenInput
    PROVE  CliInv'
<1>0. /\ pc = "open" /\ Running /\ input \in Inputs /\ args \in Args /\ IsInput(input)
      /\ IsArgs(args) /\ pos = 0 /\ count = 0 /\ pend = <<>> /\ IsSeq(disk) /\ IsSeq(pend)
  <2>1. pc = "open" /\ Running
    BY DEF OpenFails, OpenInput, Running
  <2> QED BY <2>1, CliInputs DEF CliInv, CliTyped
<1>1. CASE OpenFails
  <2>1. Exit("err", <<>>) /\ pos' = 0 /\ count' = 0 /\ UNCHANGED <<input, args>>
    BY <1>0, <1>1 DEF OpenFails
  <2>2. IsSeq(<<>>)
    BY <1>0, IsSeqEmpty
  <2> QED BY <1>0, <2>1, <2>2, ExitStep
<1>2. CASE OpenInput
  <2>1. /\ pc' = "encode" /\ Decoded(input).ok
        /\ UNCHANGED <<input, args, status, pos, count, enc, disk, pend, faulty>>
        /\ input.kind # "frag" => meta' = wrap(upgrade(Decoded(input).meta, upgrade_policy))
    BY <1>2 DEF OpenInput
  <2>2. input.kind # "frag" => meta' \in Metadata
    <3> SUFFICES ASSUME input.kind # "frag" PROVE meta' \in Metadata
      OBVIOUS
    <3> DEFINE m == upgrade(Decoded(input).meta, upgrade_policy)
    <3>1. m \in Metadata
      BY <1>0, <2>1, DecodedType, UpgradedMetadata
    <3> HIDE DEF m
    <3>2. wrap(m) \in Metadata
      BY <1>0, <3>1, WrapType
    <3> QED BY <2>1, <3>2 DEF m
  <2>3. CliTyped'
    BY <1>0, <2>1, <2>2 DEF CliTyped, Running
  <2>4. FiltersHonoured' /\ OkMeansWritten'
    BY <2>1 DEF FiltersHonoured, OkMeansWritten, Ended
  <2> QED BY <2>1, <2>3, <2>4 DEF CliInv
<1> QED BY <1>1, <1>2

\* So do the ways to end before there is an encoder.
LEMMA OutputInv ==
    ASSUME CliInv, OutputExists \/ NotInferred \/ EncodeMetadata
    PROVE  CliInv'
<1>0. /\ pc = "encode" /\ Running /\ input \in Inputs /\ args \in Args
      /\ pos = 0 /\ count = 0 /\ pend = <<>> /\ IsSeq(disk) /\ IsSeq(<<>>)
  <2>1. pc = "encode" /\ Running
    BY DEF OutputExists, NotInferred, EncodeMetadata, Opened, Running
  <2> QED BY <2>1, CliInputs, IsSeqEmpty DEF CliInv, CliTyped
<1>1. CASE OutputExists
  <2>1. Exit("err", <<>>) /\ pos' = 0 /\ count' = 0 /\ UNCHANGED <<input, args>>
    BY <1>0, <1>1 DEF OutputExists
  <2> QED BY <1>0, <2>1, ExitStep
<1>2. CASE NotInferred \/ EncodeMetadata
  <2> DEFINE line == MetadataLine(meta)
  <2>1. /\ pc' = "exit" /\ UNCHANGED <<input, args, pos, count, pend>>
        /\ disk' = <<>> \/ disk' = <<line>>
        /\ status' = "err" \/ args.metadata
    BY <1>2 DEF NotInferred, EncodeMetadata
  <2> HIDE DEF line
  <2>2. IsSeq(<<line>>)
    <3>1. <<line>> \in Seq({line})
      OBVIOUS
    <3> QED BY <3>1, SeqIsSeq
  <2>3. IsSeq(disk')
    BY <1>0, <2>1, <2>2
  <2>4. CliTyped'
    BY <1>0, <2>1, <2>3 DEF CliTyped, Running
  <2>5. FiltersHonoured' /\ OkMeansWritten'
    BY <2>1 DEF FiltersHonoured, OkMeansWritten, Ended
  <2> QED BY <2>1, <2>4, <2>5 DEF CliInv
<1> QED BY <1>1, <1>2

\* An encoder whose output was taken out of it.
LEMMA Emptied ==
    ASSUME NEW e, IsEncoder(e)
    PROVE  IsEncoder([e EXCEPT !.out = <<>>]) /\ [e EXCEPT !.out = <<>>].out = <<>>
<1>1. [e EXCEPT !.out = <<>>] =
        [kind |-> e.kind, out |-> <<>>, has_written_header |-> e.has_written_header,
         width |-> e.width, res |-> e.res]
  BY EncoderFields
<1> QED BY <1>1 DEF IsEncoder

\* No record was decoded and no row written.
LEMMA CountedFromZero ==
    ASSUME IsInput(input), IsArgs(args), pos = 0, count = 0, NEW out, IsSeq(out), Rows(out) = {}
    PROVE  /\ Matches(RowsOf(<<>> \o out), Selected(input.recs, Taken))
           /\ count = Cardinality(Taken)
           /\ args.limit # None => count <= args.limit
<1>1. <<>> \o out = out
  BY IsSeqEmpty
<1>2. Taken = {}
  <2>1. \A k \in OfSchema : k \in Nat /\ 1 <= k
    BY OfSchemaFinite
  <2> QED BY <2>1 DEF Taken
<1>3. IsFiniteSet({}) /\ Cardinality({}) = 0 /\ {} \subseteq Nat
  BY FS_EmptySet
<1>4. Len(Selected(out, {})) = 0 /\ Len(Selected(input.recs, {})) = 0
  BY <1>3, SelectedSeq
<1>5. args.limit # None => args.limit \in Nat
  BY DEF IsArgs, OptionalNum
<1>6. Matches(RowsOf(<<>> \o out), Selected(input.recs, Taken))
  <2>1. RowsOf(<<>> \o out) = Selected(out, {})
    BY <1>1 DEF RowsOf
  <2> DEFINE a == Selected(out, {})
             b == Selected(input.recs, {})
  <2>2. Len(a) = 0 /\ Len(b) = 0
    BY <1>4
  <2> HIDE DEF a, b
  <2>3. Matches(a, b)
    BY <2>2 DEF Matches
  <2> QED BY <1>2, <2>1, <2>3 DEF a, b
<1>7. count = Cardinality(Taken) /\ (args.limit # None => count <= args.limit)
  BY <1>2, <1>3, <1>5
<1> QED BY <1>6, <1>7

\* The encoder starts with no records taken and no rows written.
LEMMA BuildInv ==
    ASSUME CliInv, Build
    PROVE  CliInv'
<1>0. /\ pc = "encode" /\ Running /\ input \in Inputs /\ args \in Args /\ IsInput(input)
      /\ IsArgs(args) /\ pos = 0 /\ count = 0 /\ IsSeq(<<>>)
      /\ (input.kind # "frag" => meta \in Metadata)
  <2>1. pc = "encode" /\ Running
    BY DEF Build, Opened, Running
  <2> QED BY <2>1, CliInputs, IsSeqEmpty DEF CliInv, CliTyped
<1> DEFINE e == NewEncoder
<1>1. IsEncoder(e) /\ NoRows(e.out)
  BY <1>0, NewEncoderWithoutRows
<1>2. /\ enc' = [e EXCEPT !.out = <<>>]
      /\ UNCHANGED <<input, args, meta, pos, count, faulty>>
      /\ \/ pc' = "exit" /\ status' = "err" /\ pend' = <<>> /\ disk' \in {<<>>, e.out}
         \/ pc' = "run" /\ pend' = e.out /\ disk' = <<>> /\ UNCHANGED status
  BY DEF Build
<1> HIDE DEF e
<1>3. IsSeq(disk') /\ IsSeq(pend') /\ IsEncoder(enc') /\ enc'.out = <<>>
  <2>1. IsSeq(e.out)
    BY <1>1 DEF NoRows
  <2>2. IsEncoder(enc') /\ enc'.out = <<>>
    BY <1>1, <1>2, Emptied
  <2> QED BY <1>0, <1>2, <2>1, <2>2
<1>4. FiltersHonoured' /\ OkMeansWritten'
  BY <1>2 DEF FiltersHonoured, OkMeansWritten, Ended
<1>5. CASE pc' = "exit"
  <2>1. CliTyped'
    BY <1>0, <1>2, <1>3, <1>5 DEF CliTyped, Running
  <2> QED BY <1>4, <1>5, <2>1 DEF CliInv
<1>6. CASE pc' = "run"
  <2>0. pend' = e.out /\ disk' = <<>>
    BY <1>2, <1>6
  <2>1. NoOld(disk') /\ NoOld(pend')
    <3>1. NoOld(<<>>) /\ NoOld(e.out)
      BY <1>1, NothingWritten DEF NoRows
    <3> QED BY <2>0, <3>1
  <2>2. CliTyped'
    BY <1>0, <1>2, <1>3, <1>6, <2>1 DEF CliTyped, Running
  <2>3. /\ Matches(RowsOf(<<>> \o e.out), Selected(input.recs, Taken))
        /\ count = Cardinality(Taken)
        /\ args.limit # None => count <= args.limit
    BY <1>0, <1>1, CountedFromZero DEF NoRows
  <2>4. Taken' = Taken
    BY <1>2 DEF Taken, OfSchema
  <2>5. Counted'
    BY <1>2, <2>0, <2>3, <2>4 DEF Counted
  <2> QED BY <1>4, <2>2, <2>5 DEF CliInv
<1> QED BY <1>2, <1>5, <1>6

\* Nothing is skipped between the last record decoded and the next.
LEMMA TakenNext ==
    ASSUME IsInput(input), IsArgs(args), pos \in Nat, Filtered, Candidates # {},
           input.recs[NextAt] # BadRecord, NEW p, p = NextAt
    PROVE  /\ {k \in OfSchema : k <= p} = Taken \cup {p}
           /\ \A k \in Taken : k < p
           /\ p \in Nat
<1>1. /\ p \in Candidates /\ \A j \in Candidates : p <= j
      /\ p \in 1..Len(input.recs) /\ p \in Nat /\ pos < p
  BY NextIsFirst
<1>2. OfSchema \subseteq 1..Len(input.recs) /\ DOMAIN input.recs = 1..Len(input.recs)
      /\ Len(input.recs) \in Nat
  BY OfSchemaFinite
<1>3. \A k \in 1..Len(input.recs) : k \in OfSchema <=> Passes(input.recs[k])
  BY <1>2 DEF OfSchema, Passes
<1>4. p \in OfSchema
  BY <1>1, <1>3 DEF Candidates
<1>5. ASSUME NEW k \in OfSchema, k <= p PROVE k <= pos \/ k = p
  <2> SUFFICES ASSUME ~ (k <= pos) PROVE k = p
    OBVIOUS
  <2>1. k \in 1..Len(input.recs) /\ Passes(input.recs[k])
    BY <1>2, <1>3
  <2>2. k \in pos + 1 .. Len(input.recs)
    BY <1>2, <2>1
  <2>3. k \in Candidates
    BY <2>1, <2>2 DEF Candidates
  <2> QED BY <1>1, <1>5, <2>1, <2>3
<1>6. \A k \in OfSchema : k \in Nat
  BY <1>2
<1>7. \A k \in OfSchema : k <= pos => k <= p /\ k < p
  BY <1>1, <1>6
<1>8. {k \in OfSchema : k <= p} = Taken \cup {p}
  <2>1. p <= p
    BY <1>1
  <2> QED BY <1>4, <1>5, <1>7, <2>1 DEF Taken
<1> QED BY <1>1, <1>7, <1>8 DEF Taken

\* A record that passed the filters, and its row.
LEMMA RowAdded ==
    ASSUME IsInput(input), IsArgs(args), pos \in Nat, count \in Nat, Filtered, Counted, ~NoMore,
           input.recs[NextAt] # BadRecord, IsSeq(disk), IsSeq(pend),
           NEW p, p = NextAt, NEW out, IsSeq(out), OneRow(out, input.recs[p].id)
    PROVE  LET more == {k \in OfSchema : k <= p}
           IN  /\ Matches(RowsOf(disk \o (pend \o out)), Selected(input.recs, more))
               /\ count + 1 = Cardinality(more)
               /\ args.limit # None => count + 1 <= args.limit
<1> DEFINE more == {k \in OfSchema : k <= p}
<1>1. Candidates # {} /\ ~LimitReached
  BY DEF NoMore
<1>2. more = Taken \cup {p} /\ (\A k \in Taken : k < p) /\ p \in Nat
  BY <1>1, TakenNext
<1>3. IsFiniteSet(Taken) /\ Taken \subseteq Nat
  BY OfSchemaFinite DEF Taken
<1>4. /\ Cardinality(more) = Cardinality(Taken) + 1
      /\ Selected(input.recs, more) = Append(Selected(input.recs, Taken), input.recs[p])
  <2> DEFINE I == Taken
             s == input.recs
  <2>1. IsFiniteSet(I) /\ I \subseteq Nat /\ (\A i \in I : i < p) /\ p \in Nat
    BY <1>2, <1>3
  <2> HIDE DEF I, s, more
  <2>2. /\ Cardinality(I \cup {p}) = Cardinality(I) + 1
        /\ Selected(s, I \cup {p}) = Append(Selected(s, I), s[p])
    BY ONLY <2>1, SelectedExtend
  <2> QED BY <1>2, <2>2 DEF I, s
<1>5. PICK j \in DOMAIN out : Rows(out) = {j} /\ RowId(out[j]) = input.recs[p].id
  BY DEF OneRow
<1>6. IsSeq(disk \o pend) /\ disk \o (pend \o out) = (disk \o pend) \o out
  <2>1. IsSeq(disk \o pend)
    BY IsSeqConcat
  <2>2. (disk \o pend) \o out = disk \o (pend \o out)
    BY IsSeqAssociative
  <2> QED BY <2>1, <2>2
<1>7. RowsOf((disk \o pend) \o out) = Append(RowsOf(disk \o pend), out[j])
  BY <1>5, <1>6, RowsAfterOne
<1>8. Matches(Append(RowsOf(disk \o pend), out[j]),
              Append(Selected(input.recs, Taken), input.recs[p]))
  <2> DEFINE d == disk \o pend
             S == {d[i] : i \in Rows(d)} \cup {out[j]}
             T == {input.recs[i] : i \in Taken} \cup {input.recs[p]}
  <2>1. RowsOf(d) \in Seq(S)
    <3>1. \A i \in Rows(d) : d[i] \in S
      OBVIOUS
    <3>2. IsFiniteSet(Rows(d)) /\ Rows(d) \subseteq Nat
      <4> HIDE DEF d
      <4> QED BY <1>6, RowsFinite DEF d
    <3> HIDE DEF S, d
    <3> QED BY <3>1, <3>2, SelectedSeq DEF RowsOf
  <2>2. Selected(input.recs, Taken) \in Seq(T)
    <3>1. \A i \in Taken : input.recs[i] \in T
      OBVIOUS
    <3> HIDE DEF T
    <3> QED BY <1>3, <3>1, SelectedSeq
  <2>3. out[j] \in S /\ input.recs[p] \in T
    OBVIOUS
  <2>4. Matches(RowsOf(d), Selected(input.recs, Taken))
    BY DEF Counted
  <2> HIDE DEF S, T, d
  <2>5. Matches(Append(RowsOf(d), out[j]), Append(Selected(input.recs, Taken), input.recs[p]))
    BY <1>5, <2>1, <2>2, <2>3, <2>4, MatchesMore
  <2> QED BY <2>5 DEF d
<1>9. args.limit # None => count + 1 <= args.limit
  BY <1>1 DEF LimitReached, IsArgs, OptionalNum
<1>10. count = Cardinality(Taken)
  BY DEF Counted
<1> HIDE DEF more
<1>11. Matches(RowsOf(disk \o (pend \o out)), Selected(input.recs, more))
  BY <1>4, <1>6, <1>7, <1>8
<1>12. count + 1 = Cardinality(more)
  BY <1>4, <1>10
<1> QED BY <1>9, <1>11, <1>12 DEF more

\* What is written after other output leaves no old contents.
LEMMA NoOldConcat ==
    ASSUME NEW s, IsSeq(s), NEW t, IsSeq(t), NoOld(s), NoOld(t)
    PROVE  NoOld(s \o t)
<1>1. /\ DOMAIN (s \o t) = 1..(Len(s) + Len(t)) /\ Len(s) \in Nat /\ Len(t) \in Nat
      /\ DOMAIN s = 1..Len(s) /\ DOMAIN t = 1..Len(t)
      /\ \A i \in 1..Len(s) : (s \o t)[i] = s[i]
      /\ \A i \in 1..Len(t) : (s \o t)[Len(s) + i] = t[i]
  BY IsSeqConcat
<1>2. ASSUME NEW i \in 1..(Len(s) + Len(t)) PROVE (s \o t)[i].k # "old"
  <2>1. CASE i \in 1..Len(s)
    BY <1>1, <2>1 DEF NoOld
  <2>2. CASE i \notin 1..Len(s)
    <3>1. i - Len(s) \in 1..Len(t) /\ Len(s) + (i - Len(s)) = i
      BY <1>1, <2>2
    <3>2. (s \o t)[i] = t[i - Len(s)]
      BY <1>1, <3>1
    <3> QED BY <1>1, <3>1, <3>2 DEF NoOld
  <2> QED BY <2>1, <2>2
<1> QED BY <1>1, <1>2 DEF NoOld

\* One record more is taken, and one row more is written.
LEMMA EncodeNextInv ==
    ASSUME CliInv, EncodeNext
    PROVE  CliInv'
<1>0. /\ pc = "run" /\ Running /\ input \in Inputs /\ args \in Args /\ IsInput(input)
      /\ IsArgs(args) /\ pos \in Nat /\ count \in Nat /\ IsSeq(disk) /\ IsSeq(pend)
      /\ IsEncoder(enc) /\ enc.out = <<>> /\ NoOld(disk) /\ NoOld(pend)
      /\ (input.kind # "frag" => meta \in Metadata)
      /\ Filtered => Counted
  <2>1. pc = "run" /\ Running
    BY DEF EncodeNext, Running
  <2> QED BY <2>1, CliInputs DEF CliInv, CliTyped
<1> DEFINE r == Upgraded(input.recs[NextAt], input.version, upgrade_policy, ts_out)
           e == EncodeOne(r)
<1>1. /\ ~NoMore /\ pos' = NextAt /\ count' = count + 1 /\ input.recs[NextAt] # BadRecord
      /\ enc' = [e EXCEPT !.out = <<>>]
      /\ UNCHANGED <<input, args, meta, faulty>>
      /\ \/ e.res = "ok" /\ pend' = pend \o e.out /\ UNCHANGED <<pc, status, disk>>
         \/ e.res # "ok" /\ Exit(e.res, pend \o e.out)
  BY DEF EncodeNext
<1>2. Candidates # {}
  BY <1>1 DEF NoMore
<1>3. NextAt \in 1..Len(input.recs) /\ NextAt \in Nat
  BY <1>0, <1>2, NextIsFirst
<1>4. r.id = input.recs[NextAt].id
  <2>1. input.recs \in Seq(AnyRecord \cup {BadRecord})
    BY <1>0 DEF IsInput
  <2>2. input.recs[NextAt] \in AnyRecord
    BY <1>1, <1>3, <2>1
  <2> QED BY <2>2, UpgradedKeeps
<1> HIDE DEF r
<1>5. Wrote(e, r.id)
  BY <1>0, EncodeOneWritten
<1>6. IsEncoder(e) /\ IsSeq(e.out) /\ NoOld(e.out) /\ IsSeq(pend \o e.out)
  BY <1>0, <1>5, IsSeqConcat DEF Wrote
<1> HIDE DEF e
<1>7. CASE e.res # "ok"
  <2>1. Exit(e.res, pend \o e.out) /\ pos' \in Nat /\ count' \in Nat
    BY <1>0, <1>1, <1>3, <1>7
  <2> QED BY <1>0, <1>1, <1>6, <1>7, <2>1, ExitStep
<1>8. CASE e.res = "ok"
  <2>1. pend' = pend \o e.out /\ UNCHANGED <<pc, status, disk>>
    BY <1>1, <1>8
  <2>2. NoOld(pend \o e.out)
    BY <1>0, <1>6, NoOldConcat
  <2>3. IsEncoder(enc') /\ enc'.out = <<>>
    BY <1>1, <1>6, Emptied
  <2>4. CliTyped'
    BY <1>0, <1>1, <1>3, <1>6, <2>1, <2>2, <2>3 DEF CliTyped, Running
  <2>5. FiltersHonoured' /\ OkMeansWritten'
    BY <1>0, <2>1 DEF FiltersHonoured, OkMeansWritten, Ended
  <2>6. Filtered => Counted'
    <3> SUFFICES ASSUME Filtered PROVE Counted'
      OBVIOUS
    <3> DEFINE p == NextAt
               more == {k \in OfSchema : k <= p}
    <3>1. OneRow(e.out, input.recs[p].id)
      BY <1>4, <1>5, <1>8 DEF Wrote
    <3>2. /\ Matches(RowsOf(disk \o (pend \o e.out)), Selected(input.recs, more))
          /\ count + 1 = Cardinality(more)
          /\ args.limit # None => count + 1 <= args.limit
      <4> HIDE DEF p
      <4> QED BY <1>0, <1>1, <1>6, <3>1, RowAdded DEF p
    <3>3. Taken' = more
      BY <1>1 DEF Taken, OfSchema
    <3> HIDE DEF more
    <3> QED BY <1>1, <2>1, <3>2, <3>3 DEF Counted
  <2>7. Filtered' = Filtered
    BY <1>1 DEF Filtered
  <2> QED BY <2>4, <2>5, <2>6, <2>7 DEF CliInv
<1> QED BY <1>7, <1>8

\* A record that does not decode ends the command with an error.
LEMMA DecodeFailsInv ==
    ASSUME CliInv, DecodeFails
    PROVE  CliInv'
<1>1. pc = "run" /\ Running
  BY DEF DecodeFails, Running
<1>2. IsSeq(pend) /\ pos \in Nat /\ count \in Nat
  BY <1>1, CliInputs
<1>3. Exit("err", pend) /\ UNCHANGED <<input, args, pos, count>>
  BY DEF DecodeFails
<1>4. pos' \in Nat /\ count' \in Nat
  BY <1>2, <1>3
<1> QED BY <1>1, <1>2, <1>3, <1>4, ExitStep

\* A write that fails under a command that goes on to say so, or under a pipe.
LEMMA WriteFailsInv ==
    ASSUME CliInv, Running, faulty, WriteFails, UNCHANGED <<input, args, pos, count, faulty>>
    PROVE  CliInv'
<1> DEFINE how == IF args.output = "stdout" THEN "ok" ELSE "err"
<1>1. IsSeq(<<>>) /\ pos' \in Nat /\ count' \in Nat
  BY CliInputs, IsSeqEmpty
<1>2. Exit(how, <<>>)
  BY DEF WriteFails
<1>3. CliTyped' /\ pc' = "exit" /\ status' = how
  <2>1. pc' = "exit" /\ status' = how
    BY <1>2 DEF Exit
  <2> HIDE DEF how
  <2>2. CliTyped'
    BY <1>1, <1>2, ExitStep
  <2> QED BY <2>1, <2>2
<1>4. FiltersHonoured' /\ OkMeansWritten'
  BY <1>3 DEF FiltersHonoured, OkMeansWritten, Ended
<1> QED BY <1>3, <1>4 DEF CliInv

\* Writing out the buffer moves rows, and may fail.
LEMMA SpillInv ==
    ASSUME CliInv, Spill
    PROVE  CliInv'
<1>0. /\ pc = "run" /\ Running /\ input \in Inputs /\ args \in Args
      /\ pos \in Nat /\ count \in Nat /\ IsSeq(disk) /\ IsSeq(pend)
      /\ IsEncoder(enc) /\ enc.out = <<>> /\ NoOld(disk) /\ NoOld(pend)
      /\ (input.kind # "frag" => meta \in Metadata)
      /\ Filtered => Counted
  <2>1. pc = "run" /\ Running
    BY DEF Spill, Running
  <2> QED BY <2>1, CliInputs DEF CliInv, CliTyped
<1>1. UNCHANGED <<input, args, meta, pos, count, enc, faulty>>
  BY DEF Spill
<1>2. CASE faulty
  <2>1. WriteFails
    BY <1>2 DEF Spill
  <2> QED BY <1>0, <1>1, <1>2, <2>1, WriteFailsInv
<1>3. CASE ~faulty
  <2>1. disk' = disk \o pend /\ pend' = <<>> /\ UNCHANGED <<pc, status>>
    BY <1>3 DEF Spill
  <2>2. IsSeq(disk \o pend) /\ IsSeq(<<>>) /\ NoOld(disk \o pend) /\ NoOld(<<>>)
    BY <1>0, IsSeqConcat, IsSeqEmpty, NoOldConcat, NothingWritten DEF NoRows
  <2>3. disk' \o pend' = disk \o pend
    BY <2>1, <2>2, IsSeqEmpty
  <2>4. CliTyped'
    BY <1>0, <1>1, <2>1, <2>2 DEF CliTyped, Running
  <2>5. FiltersHonoured' /\ OkMeansWritten'
    BY <1>0, <2>1 DEF FiltersHonoured, OkMeansWritten, Ended
  <2>6. Taken' = Taken /\ Filtered' = Filtered
    BY <1>1 DEF Taken, OfSchema, Filtered
  <2>7. Counted => Counted'
    BY <1>1, <2>3, <2>6 DEF Counted
  <2> QED BY <1>0, <2>4, <2>5, <2>6, <2>7 DEF CliInv
<1> QED BY <1>2, <1>3

\* The command ends well with all rows on disk, or the output failed.
LEMMA FinishInv ==
    ASSUME CliInv, Finish
    PROVE  CliInv'
<1>0. /\ pc = "run" /\ Running /\ IsInput(input) /\ IsArgs(args)
      /\ pos \in Nat /\ count \in Nat /\ IsSeq(disk) /\ IsSeq(pend)
      /\ Filtered => Counted
  <2>1. pc = "run" /\ Running
    BY DEF Finish, Running
  <2> QED BY <2>1, CliInputs DEF CliInv
<1>1. NoMore /\ UNCHANGED <<input, args, meta, pos, count, enc, faulty>>
  BY DEF Finish
<1>2. CASE Flushes /\ faulty /\ pend # <<>>
  <2>1. WriteFails
    BY <1>2 DEF Finish
  <2> QED BY <1>0, <1>1, <1>2, <2>1, WriteFailsInv
<1>3. CASE ~ (Flushes /\ faulty /\ pend # <<>>)
  <2>1. Exit("ok", pend)
    BY <1>3 DEF Finish
  <2>2. pos' \in Nat /\ count' \in Nat
    BY <1>0, <1>1
  <2>3. CliTyped'
    BY <1>0, <1>1, <2>1, <2>2, ExitStep
  <2>4. pc' = "exit" /\ disk' = IF faulty THEN disk ELSE disk \o pend
    BY <2>1 DEF Exit
  <2>5. Filtered => Ids(disk \o pend) = [i \in DOMAIN Asked |-> Asked[i].id]
    BY <1>0, <1>1, AllAsked
  <2>6. Asked' = Asked
    BY <1>1 DEF Asked, OfSchema
  <2>7. disk \o <<>> = disk
    BY <1>0, IsSeqEmpty
  <2>8. FiltersHonoured'
    <3> SUFFICES ASSUME Ended', ~faulty', ~(input.kind = "frag" /\ input.several)'
                 PROVE  (Ids(disk) = [i \in DOMAIN Asked |-> Asked[i].id])'
      BY DEF FiltersHonoured
    <3>1. Filtered /\ ~faulty
      BY <1>1 DEF Filtered
    <3>2. disk' = disk \o pend
      BY <2>4, <3>1
    <3> QED BY <2>5, <2>6, <3>1, <3>2
  <2>9. OkMeansWritten'
    <3> SUFFICES ASSUME (input.kind # "frag" /\ args.encoding # "fragment"
                         /\ ~args.map_symbols)'
                 PROVE  (Ids(disk) = [i \in DOMAIN Asked |-> Asked[i].id])'
      BY DEF OkMeansWritten
    <3>1. Filtered /\ Flushes
      BY <1>1 DEF Filtered, Flushes, IsFragment
    <3>2. disk' = disk \o pend
      BY <1>3, <2>4, <2>7, <3>1
    <3> QED BY <2>5, <2>6, <3>1, <3>2
  <2> QED BY <2>3, <2>4, <2>8, <2>9 DEF CliInv
<1> QED BY <1>2, <1>3

\* That the output will fail changes nothing yet.
LEMMA SinkFailsInv ==
    ASSUME CliInv, SinkFails
    PROVE  CliInv'
<1>1. /\ pc \in {"encode", "run"}
      /\ UNCHANGED <<input, args, pc, status, meta, pos, count, enc, disk, pend>>
  BY DEF SinkFails
<1>2. CliTyped'
  BY <1>1 DEF CliInv, CliTyped, Running
<1>3. FiltersHonoured' /\ OkMeansWritten'
  BY <1>1 DEF FiltersHonoured, OkMeansWritten, Ended
<1>4. Taken' = Taken /\ Filtered' = Filtered
  BY <1>1 DEF Taken, OfSchema, Filtered
<1>5. Counted => Counted'
  BY <1>1, <1>4 DEF Counted
<1> QED BY <1>1, <1>2, <1>3, <1>4, <1>5 DEF CliInv

\* Whatever leaves the command alone.
LEMMA CliAloneInv ==
    ASSUME CliInv, UNCHANGED cliVars
    PROVE  CliInv'
<1>1. UNCHANGED <<input, args, pc, status, meta, pos, count, enc, disk, pend, faulty>>
  BY DEF cliVars
<1>2. CliTyped'
  BY <1>1 DEF CliInv, CliTyped, Running
<1>3. Taken' = Taken /\ Filtered' = Filtered /\ Asked' = Asked
  BY <1>1 DEF Taken, OfSchema, Filtered, Asked
<1>4. FiltersHonoured' /\ OkMeansWritten'
  BY <1>1, <1>3 DEF CliInv, FiltersHonoured, OkMeansWritten, Ended
<1>5. Counted => Counted'
  BY <1>1, <1>3 DEF Counted
<1> QED BY <1>1, <1>2, <1>3, <1>4, <1>5 DEF CliInv

\* Once the process is gone.
LEMMA GoneInv ==
    ASSUME pc' \in {"left", "refused"}
    PROVE  CliInv'
<1>1. CliTyped'
  BY DEF CliTyped, Running
<1>2. FiltersHonoured' /\ OkMeansWritten'
  BY DEF FiltersHonoured, OkMeansWritten, Ended
<1> QED BY <1>1, <1>2 DEF CliInv

\* The command starts in its invariant.
LEMMA CliInitially == Init => CliInv
<1> SUFFICES ASSUME Init PROVE CliInv
  OBVIOUS
<1>1. /\ input \in Inputs /\ args \in Args /\ pc = "open" /\ pos = 0 /\ count = 0
      /\ pend = <<>> /\ disk \in {<<>>, OldContents}
  BY DEF Init, CliInit
<1>2. IsSeq(<<>>) /\ IsSeq(OldContents)
  <2> DEFINE old == [k |-> "old"]
  <2>1. OldContents = <<old>>
    BY DEF OldContents
  <2> HIDE DEF old
  <2>2. <<old>> \in Seq({old}) /\ <<>> \in Seq({old})
    OBVIOUS
  <2> QED BY <2>1, <2>2, SeqIsSeq
<1>3. IsSeq(disk) /\ IsSeq(pend)
  BY <1>1, <1>2
<1>4. CliTyped
  BY <1>1, <1>3 DEF CliTyped
<1>5. FiltersHonoured /\ OkMeansWritten
  BY <1>1 DEF FiltersHonoured, OkMeansWritten, Ended
<1> QED BY <1>1, <1>4, <1>5 DEF CliInv

\* Every step keeps the invariant.
LEMMA CliKept ==
    ASSUME CliInv, [Next]_vars
    PROVE  CliInv'
<1>1. ASSUME Cli PROVE CliInv'
  BY <1>1, OpenInv, OutputInv, BuildInv, EncodeNextInv, DecodeFailsInv, SpillInv, FinishInv,
     SinkFailsInv DEF Cli, CliNext
<1>2. ASSUME Leave PROVE CliInv'
  BY <1>2, GoneInv DEF Leave
<1>3. ASSUME Transcode PROVE CliInv'
  BY <1>3, CliAloneInv DEF Transcode, cliVars
<1>4. ASSUME NEW u \in Updates, UpdateEncodedMetadata(u) PROVE CliInv'
  BY <1>4, GoneInv DEF UpdateEncodedMetadata
<1>5. ASSUME NEW o \in Options, StartTranscoder(o) PROVE CliInv'
  <2>1. pc' \in {"left", "refused"}
    BY <1>5 DEF StartTranscoder
  <2> QED BY <2>1, GoneInv
<1>6. ASSUME UNCHANGED vars PROVE CliInv'
  BY <1>6, CliAloneInv DEF vars, cliVars
<1> QED BY <1>1, <1>2, <1>3, <1>4, <1>5, <1>6 DEF Next

\* While the command runs, and when it has ended, CliInv holds.
THEOREM CliInvariant == Spec => []CliInv
BY CliInitially, CliKept, PTL DEF Spec

\* --schema and --limit are honoured, however the filters and the writes interleave.
THEOREM FiltersAreHonoured == Spec => []FiltersHonoured
<1>1. CliInv => FiltersHonoured
  BY DEF CliInv
<1> QED BY <1>1, CliInvariant, PTL

\* A command that ended well with a flush has written every row.
THEOREM EndedMeansWritten == Spec => []OkMeansWritten
<1>1. CliInv => OkMeansWritten
  BY DEF CliInv
<1> QED BY <1>1, CliInvariant, PTL

\* No step touches the contents of an old file without --force.
LEMMA FileKept ==
    ASSUME CliInv, [Next]_vars, pc # "left", disk = OldContents, ~args.force
    PROVE  disk' = disk
<1>1. disk \o <<>> = disk /\ ~NoOld(disk)
  <2> DEFINE old == [k |-> "old"]
  <2>1. disk = <<old>> /\ old.k = "old"
    BY DEF OldContents
  <2> HIDE DEF old
  <2>2. <<old>> \in Seq({old}) /\ DOMAIN <<old>> = {1} /\ <<old>>[1] = old
    OBVIOUS
  <2>3. <<old>> \o <<>> = <<old>>
    BY <2>2, SeqIsSeq, IsSeqEmpty
  <2> QED BY <2>1, <2>2, <2>3 DEF NoOld
<1>2. pc # "run"
  BY <1>1 DEF CliInv, CliTyped
<1>3. OutputRefused
  BY DEF OutputRefused
<1>4. ASSUME Cli PROVE disk' = disk
  BY <1>1, <1>2, <1>3, <1>4
     DEF Cli, CliNext, OpenFails, OpenInput, OutputExists, NotInferred, EncodeMetadata, Build,
         EncodeNext, DecodeFails, Spill, Finish, SinkFails, Opened, Exit
<1>5. ASSUME Leave PROVE disk' = disk
  BY <1>5 DEF Leave
<1>6. ASSUME Transcode PROVE disk' = disk
  BY <1>6 DEF Transcode
<1>7. ASSUME NEW u \in Updates, UpdateEncodedMetadata(u) PROVE disk' = disk
  BY <1>7 DEF UpdateEncodedMetadata
<1>8. ASSUME NEW o \in Options, StartTranscoder(o) PROVE disk' = disk
  BY <1>8 DEF StartTranscoder
<1>9. ASSUME UNCHANGED vars PROVE disk' = disk
  BY <1>9 DEF vars
<1> QED BY <1>4, <1>5, <1>6, <1>7, <1>8, <1>9 DEF Next

\* No step of the command touches a file that was there, unless --force was given.
THEOREM ExistingFileIsKept == Spec => ExistingFileKept
<1>1. CliInv /\ [Next]_vars
        => [pc # "left" /\ disk = OldContents /\ ~args.force => disk' = disk]_vars
  BY FileKept
<1> QED BY <1>1, CliInvariant, PTL DEF Spec, ExistingFileKept
=============================================================================
