------------------------ MODULE MetadataMergeProofs ------------------------
(***************************************************************************)
(* Merging metadata keeps every mapping, in order, and fails only for a    *)
(* reason, for any number of inputs and of intervals.                      *)
(***************************************************************************)
EXTENDS MetadataMerge, TLAPS, SequenceTheorems

-----------------------------------------------------------------------------
(* The inductive invariant. *)

\* A list that merge_intervals reads or makes.  The intervals of a list that was
\* merged before may overlap: only their first days, all of them among days, are in
\* order.
Sorted(days, ints) ==
    /\ ints \in Seq(Interval)
    /\ \A k \in 1..Len(ints) :
          ints[k].start_date < ints[k].end_date /\ ints[k].start_date \in days
    /\ \A j, k \in 1..Len(ints) : j < k => ints[j].start_date <= ints[k].start_date

\* No interval of the one list starts after one of the other.
StartsBefore(ints, rest) ==
    \A j \in 1..Len(ints), k \in 1..Len(rest) : ints[j].start_date <= rest[k].start_date

\* How many of the inputs the fields, and the mappings no longer in adding, are of.
Included == IF pc \in {"mappings", "intervals"} THEN done + 1 ELSE done

ControlInv ==
    /\ inputs \in Merges
    /\ pc \in {"merge", "mappings", "intervals", "ok", "err"}
    /\ done \in 1..Len(inputs)
    /\ pc \in {"mappings", "intervals"} => done < Len(inputs)
    /\ pc = "ok" => done = Len(inputs)
    /\ DOMAIN merger = Fields
    /\ pc \in {"merge", "ok"} => adding = {}
    /\ pc \in {"mappings", "intervals"} => adding \subseteq DOMAIN Additional.mappings

ListsInv ==
    /\ \A r \in DOMAIN merger.mappings : Sorted(Days, merger.mappings[r])
    /\ pc = "intervals" =>
         /\ raw \in DOMAIN merger.mappings \ adding /\ merger.mappings[raw] = <<>>
         /\ Sorted(Days, orig) /\ Sorted(Days, add) /\ Sorted(Days, merged)
         /\ StartsBefore(merged, orig) /\ StartsBefore(merged, add)

\* What r maps to on a day, wherever in the merger it is at the moment.
HeldOn(r, day) ==
    SymbolsOn(merger.mappings, r, day)
    \cup (IF r \in adding THEN SymbolsOn(Additional.mappings, r, day) ELSE {})
    \cup (IF pc = "intervals" /\ r = raw
          THEN SymbolsOf(merged, day) \cup SymbolsOf(orig, day) \cup SymbolsOf(add, day)
          ELSE {})

FirstOn(n, r, day) == UNION {SymbolsOn(inputs[k].mappings, r, day) : k \in 1..n}

UnionInv == pc # "err" => \A r : \A day \in Nat : HeldOn(r, day) = FirstOn(Included, r, day)

\* The fields of m are the combination of those of the first n of ms.
FieldsOfFirst(m, ms, n) ==
    /\ m.fixed = ms[1].fixed
    /\ \E k \in 1..n : m.start = ms[k].start
    /\ \A k \in 1..n : m.start <= ms[k].start
    /\ \E k \in 1..n : m.end = ms[k].end
    /\ \A k \in 1..n : m.end >= ms[k].end
    /\ m.schema = IF \A k \in 1..n : ms[k].schema = ms[1].schema
                       THEN ms[1].schema ELSE NONE
    /\ m.symbols = UNION {ms[k].symbols : k \in 1..n}
    /\ m.partial = UNION {ms[k].partial : k \in 1..n}
    /\ m.not_found = UNION {ms[k].not_found : k \in 1..n}

FieldsInv == pc # "err" => FieldsOfFirst(merger, inputs, Included)

MergeInv == ControlInv /\ ListsInv /\ UnionInv /\ FieldsInv /\ ErrorsAreReal

-----------------------------------------------------------------------------
(* Lists of intervals. *)

\* What one interval gives on a day.
SymbolIn(int, day) ==
    IF int.start_date <= day /\ day < int.end_date THEN {int.symbol} ELSE {}

\* The symbols of a list are those of its first interval and of the rest.
LEMMA SymbolsOfTail ==
    ASSUME NEW ints \in Seq(Interval), ints # <<>>, NEW day
    PROVE  SymbolsOf(ints, day) = SymbolIn(Head(ints), day) \cup SymbolsOf(Tail(ints), day)
<1>1. /\ Len(ints) \in Nat /\ Len(ints) > 0 /\ Head(ints) = ints[1]
      /\ Len(Tail(ints)) = Len(ints) - 1
      /\ \A k \in 1..Len(ints) - 1 : Tail(ints)[k] = ints[k + 1]
  OBVIOUS
<1>2. ASSUME NEW x \in SymbolsOf(ints, day)
      PROVE  x \in SymbolIn(Head(ints), day) \cup SymbolsOf(Tail(ints), day)
  <2>1. PICK k \in 1..Len(ints) : /\ x = ints[k].symbol
                                  /\ ints[k].start_date <= day /\ day < ints[k].end_date
    BY <1>2 DEF SymbolsOf
  <2>2. CASE k = 1
    BY <1>1, <2>1, <2>2 DEF SymbolIn
  <2>3. CASE k # 1
    <3>1. k - 1 \in 1..Len(Tail(ints)) /\ Tail(ints)[k - 1] = ints[k]
      BY <1>1, <2>3
    <3> QED
      BY <2>1, <3>1 DEF SymbolsOf
  <2> QED
    BY <2>2, <2>3
<1>3. ASSUME NEW x \in SymbolsOf(Tail(ints), day) PROVE x \in SymbolsOf(ints, day)
  <2>1. PICK k \in 1..Len(Tail(ints)) :
           /\ x = Tail(ints)[k].symbol
           /\ Tail(ints)[k].start_date <= day /\ day < Tail(ints)[k].end_date
    BY <1>3 DEF SymbolsOf
  <2>2. k + 1 \in 1..Len(ints) /\ Tail(ints)[k] = ints[k + 1]
    BY <1>1
  <2> QED
    BY <2>1, <2>2 DEF SymbolsOf
<1>4. ASSUME NEW x \in SymbolIn(Head(ints), day) PROVE x \in SymbolsOf(ints, day)
  <2>1. x = ints[1].symbol /\ ints[1].start_date <= day /\ day < ints[1].end_date
    BY <1>1, <1>4 DEF SymbolIn
  <2>2. 1 \in 1..Len(ints)
    BY <1>1
  <2> QED
    BY <2>1, <2>2 DEF SymbolsOf
<1> QED
  BY <1>2, <1>3, <1>4

\* Those of a list with one more are its own and those of the one.
LEMMA SymbolsOfAppend ==
    ASSUME NEW ints \in Seq(Interval), NEW int \in Interval, NEW day
    PROVE  SymbolsOf(Append(ints, int), day) = SymbolsOf(ints, day) \cup SymbolIn(int, day)
<1> DEFINE more == Append(ints, int)
<1>1. /\ Len(ints) \in Nat /\ Len(more) = Len(ints) + 1 /\ more[Len(ints) + 1] = int
      /\ \A k \in 1..Len(ints) : more[k] = ints[k]
  OBVIOUS
<1> HIDE DEF more
<1>2. ASSUME NEW x \in SymbolsOf(more, day)
      PROVE  x \in SymbolsOf(ints, day) \cup SymbolIn(int, day)
  <2>1. PICK k \in 1..Len(more) : /\ x = more[k].symbol
                                  /\ more[k].start_date <= day /\ day < more[k].end_date
    BY <1>2 DEF SymbolsOf
  <2>2. CASE k \in 1..Len(ints)
    BY <1>1, <2>1, <2>2 DEF SymbolsOf
  <2>3. CASE k = Len(ints) + 1
    BY <1>1, <2>1, <2>3 DEF SymbolIn
  <2> QED
    BY <1>1, <2>2, <2>3
<1>3. ASSUME NEW x \in SymbolsOf(ints, day) PROVE x \in SymbolsOf(more, day)
  <2>1. PICK k \in 1..Len(ints) : /\ x = ints[k].symbol
                                  /\ ints[k].start_date <= day /\ day < ints[k].end_date
    BY <1>3 DEF SymbolsOf
  <2>2. k \in 1..Len(more) /\ more[k] = ints[k]
    BY <1>1
  <2> QED
    BY <2>1, <2>2 DEF SymbolsOf
<1>4. ASSUME NEW x \in SymbolIn(int, day) PROVE x \in SymbolsOf(more, day)
  <2>1. x = int.symbol /\ int.start_date <= day /\ day < int.end_date
    BY <1>4 DEF SymbolIn
  <2>2. Len(ints) + 1 \in 1..Len(more)
    BY <1>1
  <2> QED
    BY <1>1, <2>1, <2>2 DEF SymbolsOf
<1> QED
  BY <1>2, <1>3, <1>4 DEF more

\* The first interval of a sorted list starts no later than the others.
LEMMA SortedTail ==
    ASSUME NEW days, NEW ints, Sorted(days, ints), ints # <<>>
    PROVE  /\ Head(ints) \in Interval /\ Head(ints).start_date < Head(ints).end_date
           /\ Head(ints).start_date \in days
           /\ Sorted(days, Tail(ints))
           /\ \A k \in 1..Len(Tail(ints)) : Head(ints).start_date <= Tail(ints)[k].start_date
           /\ \A n : (\A k \in 1..Len(ints) : n <= ints[k].start_date) =>
                        /\ n <= Head(ints).start_date
                        /\ \A k \in 1..Len(Tail(ints)) : n <= Tail(ints)[k].start_date
<1>1. ints \in Seq(Interval)
  BY DEF Sorted
<1>2. /\ Len(ints) \in Nat /\ Len(ints) > 0 /\ Head(ints) = ints[1] /\ 1 \in 1..Len(ints)
      /\ Tail(ints) \in Seq(Interval) /\ Len(Tail(ints)) = Len(ints) - 1
      /\ \A k \in 1..Len(ints) - 1 : Tail(ints)[k] = ints[k + 1]
  BY <1>1
<1>3. \A k \in 1..Len(Tail(ints)) : k + 1 \in 1..Len(ints) /\ Tail(ints)[k] = ints[k + 1]
  BY <1>2
<1>4. /\ \A k \in 1..Len(ints) : /\ ints[k].start_date < ints[k].end_date
                                 /\ ints[k].start_date \in days /\ ints[k] \in Interval
      /\ \A j, k \in 1..Len(ints) : j < k => ints[j].start_date <= ints[k].start_date
  BY <1>1, ElementOfSeq DEF Sorted
<1>5. Sorted(days, Tail(ints))
  <2>1. \A j, k \in 1..Len(Tail(ints)) :
           j < k => Tail(ints)[j].start_date <= Tail(ints)[k].start_date
    BY <1>2, <1>3, <1>4
  <2> QED
    BY <1>2, <1>3, <1>4, <2>1 DEF Sorted
<1>6. \A k \in 1..Len(Tail(ints)) : Head(ints).start_date <= Tail(ints)[k].start_date
  BY <1>2, <1>3, <1>4
<1> QED
  BY <1>2, <1>3, <1>4, <1>5, <1>6

\* An interval that starts no earlier may be added at the end of a sorted list.
LEMMA SortedAppend ==
    ASSUME NEW days, NEW ints, Sorted(days, ints), NEW int \in Interval,
           int.start_date < int.end_date, int.start_date \in days,
           \A k \in 1..Len(ints) : ints[k].start_date <= int.start_date
    PROVE  Sorted(days, Append(ints, int))
<1> DEFINE more == Append(ints, int)
<1>1. ints \in Seq(Interval)
  BY DEF Sorted
<1>2. /\ Len(ints) \in Nat /\ Len(more) = Len(ints) + 1 /\ more[Len(ints) + 1] = int
      /\ \A k \in 1..Len(ints) : more[k] = ints[k]
      /\ more \in Seq(Interval)
  BY <1>1
<1> HIDE DEF more
<1>3. \A k \in 1..Len(more) : k \in 1..Len(ints) \/ k = Len(ints) + 1
  BY <1>2
<1>4. \A k \in 1..Len(more) : more[k].start_date < more[k].end_date /\ more[k].start_date \in days
  BY <1>2, <1>3 DEF Sorted
<1>5. \A j, k \in 1..Len(more) : j < k => more[j].start_date <= more[k].start_date
  <2> SUFFICES ASSUME NEW j \in 1..Len(more), NEW k \in 1..Len(more), j < k
               PROVE  more[j].start_date <= more[k].start_date
    OBVIOUS
  <2>1. j \in 1..Len(ints)
    BY <1>2
  <2> QED
    BY <1>2, <1>3, <2>1 DEF Sorted
<1> QED
  BY <1>2, <1>4, <1>5 DEF Sorted, more

\* The interval under a cursor, with what was pushed before it.
LEMMA HeadFacts ==
    ASSUME NEW days, NEW ints, Sorted(days, ints), ints # <<>>,
           NEW before, Sorted(days, before), StartsBefore(before, ints)
    PROVE  LET a == Head(ints)
           IN  /\ a \in Interval /\ a.start_date < a.end_date /\ a.start_date \in days
               /\ Sorted(days, Tail(ints)) /\ a.start_date \in Nat
               /\ \A k \in 1..Len(Tail(ints)) : /\ a.start_date <= Tail(ints)[k].start_date
                                                /\ Tail(ints)[k].start_date \in Nat
               /\ \A k \in 1..Len(ints) : /\ a.start_date <= ints[k].start_date
                                          /\ ints[k].start_date \in Nat
               /\ \A k \in 1..Len(before) : /\ before[k].start_date <= a.start_date
                                            /\ before[k].start_date \in Nat
               /\ \A day : SymbolsOf(ints, day) = SymbolIn(a, day) \cup SymbolsOf(Tail(ints), day)
<1> DEFINE a == Head(ints)
<1>1. ASSUME NEW list, Sorted(days, list)
      PROVE  \A k \in 1..Len(list) : list[k].start_date \in Nat
  <2>1. \A k \in 1..Len(list) : list[k] \in Interval
    BY <1>1, ElementOfSeq DEF Sorted
  <2> QED
    BY <2>1 DEF Interval
<1>2. /\ a \in Interval /\ a.start_date < a.end_date /\ a.start_date \in days
      /\ Sorted(days, Tail(ints))
      /\ \A k \in 1..Len(Tail(ints)) : a.start_date <= Tail(ints)[k].start_date
  BY SortedTail
<1>3. a.start_date \in Nat
  BY <1>2 DEF Interval
<1>4. ints \in Seq(Interval) /\ a = ints[1] /\ 1 \in 1..Len(ints) /\ Len(ints) \in Nat
  BY DEF Sorted
<1>5. \A k \in 1..Len(ints) : a.start_date <= ints[k].start_date
  BY <1>3, <1>4 DEF Sorted
<1>6. \A k \in 1..Len(before) : before[k].start_date <= a.start_date
  BY <1>4 DEF StartsBefore
<1>7. \A day : SymbolsOf(ints, day) = SymbolIn(a, day) \cup SymbolsOf(Tail(ints), day)
  BY <1>4, SymbolsOfTail
<1> QED
  BY <1>1, <1>2, <1>3, <1>5, <1>6, <1>7

-----------------------------------------------------------------------------
(* Two intervals. *)

\* What ordering() says of two intervals is so, and MappingInterval::merge of two that
\* overlap covers the days of both and no other.
LEMMA OrderingFacts ==
    ASSUME NEW a \in Interval, NEW b \in Interval,
           a.start_date < a.end_date, b.start_date < b.end_date
    PROVE  LET o == Ordering(a, b)
               c == MergeInterval(a, b)
           IN  /\ o = "Less" => a.start_date <= b.start_date
               /\ o = "Greater" => b.start_date <= a.start_date
               /\ o \in {"Overlap", "Equal"} =>
                    /\ c \in Interval /\ c.start_date < c.end_date
                    /\ c.start_date \in {a.start_date, b.start_date}
                    /\ c.start_date <= a.start_date /\ c.start_date <= b.start_date
                    /\ \A day \in Nat : SymbolIn(c, day) = SymbolIn(a, day) \cup SymbolIn(b, day)
               /\ o = "Err" =>
                    \E day \in {a.start_date, b.start_date} :
                        \E x \in SymbolIn(a, day), y \in SymbolIn(b, day) : x # y
<1> DEFINE o == Ordering(a, b)
           c == MergeInterval(a, b)
<1>1. /\ a.start_date \in Nat /\ a.end_date \in Nat /\ a.symbol \in STRING
      /\ b.start_date \in Nat /\ b.end_date \in Nat /\ b.symbol \in STRING
  BY DEF Interval
<1>2. o = "Less" => a.start_date <= b.start_date
  BY <1>1 DEF Ordering
<1>3. o = "Greater" => b.start_date <= a.start_date
  BY <1>1 DEF Ordering
<1>4. ASSUME o \in {"Overlap", "Equal"}
      PROVE  /\ c \in Interval /\ c.start_date < c.end_date
             /\ c.start_date \in {a.start_date, b.start_date}
             /\ c.start_date <= a.start_date /\ c.start_date <= b.start_date
             /\ \A day \in Nat : SymbolIn(c, day) = SymbolIn(a, day) \cup SymbolIn(b, day)
  <2>1. /\ a.symbol = b.symbol
        /\ a.start_date < b.end_date /\ b.start_date < a.end_date
    BY <1>1, <1>4 DEF Ordering
  <2>2. EarlierStart(a.start_date, b.start_date) \in Nat /\ LaterEnd(a.end_date, b.end_date) \in Nat
    BY <1>1 DEF EarlierStart, LaterEnd
  <2>3. /\ c.start_date = (IF a.start_date <= b.start_date THEN a.start_date ELSE b.start_date)
        /\ c.end_date = (IF a.end_date >= b.end_date THEN a.end_date ELSE b.end_date)
        /\ c.symbol = a.symbol
    BY DEF MergeInterval, Interval, EarlierStart, LaterEnd
  <2>4. c \in Interval
    BY <1>1, <2>2 DEF MergeInterval, Interval
  <2> HIDE DEF c
  <2>5. \A day \in Nat : SymbolIn(c, day) = SymbolIn(a, day) \cup SymbolIn(b, day)
    BY <1>1, <2>1, <2>3 DEF SymbolIn
  <2> QED
    BY <1>1, <2>3, <2>4, <2>5
<1>5. ASSUME o = "Err"
      PROVE  \E day \in {a.start_date, b.start_date} :
                 \E x \in SymbolIn(a, day), y \in SymbolIn(b, day) : x # y
  <2>1. a.symbol # b.symbol /\ a.start_date < b.end_date /\ b.start_date < a.end_date
    BY <1>1, <1>5 DEF Ordering
  <2>2. CASE a.start_date <= b.start_date
    <3>1. SymbolIn(a, b.start_date) = {a.symbol} /\ SymbolIn(b, b.start_date) = {b.symbol}
      BY <1>1, <2>1, <2>2 DEF SymbolIn
    <3> QED
      BY <2>1, <3>1
  <2>3. CASE ~(a.start_date <= b.start_date)
    <3>1. SymbolIn(a, a.start_date) = {a.symbol} /\ SymbolIn(b, a.start_date) = {b.symbol}
      BY <1>1, <2>1, <2>3 DEF SymbolIn
    <3> QED
      BY <2>1, <3>1
  <2> QED
    BY <2>2, <2>3
<1> QED
  BY <1>2, <1>3, <1>4, <1>5

-----------------------------------------------------------------------------
(* The inputs. *)

\* The lists of the inputs are sorted.
LEMMA InputFacts ==
    ASSUME inputs \in Merges, NEW i \in 1..Len(inputs)
    PROVE  /\ Len(inputs) \in Nat /\ DOMAIN inputs[i] = Fields
           /\ inputs[i].start \in Nat
           /\ inputs[i].end \in Nat \cup {NONE} /\ inputs[i].schema \in Nat \cup {NONE}
           /\ \A r \in DOMAIN inputs[i].mappings : Sorted(Days, inputs[i].mappings[r])
<1>1. IsMetadata(inputs[i]) /\ Len(inputs) \in Nat
  BY MetadataAssumption
<1>2. ASSUME NEW r \in DOMAIN inputs[i].mappings PROVE Sorted(Days, inputs[i].mappings[r])
  <2> DEFINE ints == inputs[i].mappings[r]
  <2>1. /\ ints \in Seq(Interval)
        /\ \A k \in 1..Len(ints) : ints[k].start_date < ints[k].end_date
        /\ \A j, k \in 1..Len(ints) : j < k => ints[j].end_date <= ints[k].start_date
    BY <1>1 DEF IsMetadata
  <2>2. \A k \in 1..Len(ints) : ints[k].start_date \in Days
    <3> SUFFICES ASSUME NEW k \in 1..Len(ints) PROVE ints[k].start_date \in Days
      OBVIOUS
    <3>1. ints[k] \in IntervalsOf(inputs[i])
      BY DEF IntervalsOf
    <3>2. ints[k] \in UNION {IntervalsOf(inputs[n]) : n \in 1..Len(inputs)}
      BY <3>1
    <3> QED
      BY <3>2 DEF Days
  <2> HIDE DEF ints
  <2>3. \A k \in 1..Len(ints) : ints[k].start_date \in Nat /\ ints[k].end_date \in Nat
    <3>1. \A k \in 1..Len(ints) : ints[k] \in Interval
      BY <2>1, ElementOfSeq
    <3> QED
      BY <3>1 DEF Interval
  <2>4. \A j, k \in 1..Len(ints) : j < k => ints[j].start_date <= ints[k].start_date
    BY <2>1, <2>3
  <2> QED
    BY <2>1, <2>2, <2>4 DEF Sorted, ints
<1> QED
  BY <1>1, <1>2 DEF IsMetadata

\* Days are numbers.
LEMMA DaysAreNat == ASSUME inputs \in Merges PROVE Days \subseteq Nat
<1> SUFFICES ASSUME NEW k \in 1..Len(inputs), NEW int \in IntervalsOf(inputs[k])
             PROVE  int.start_date \in Nat /\ int.end_date \in Nat
  BY DEF Days
<1>1. PICK r \in DOMAIN inputs[k].mappings :
         \E j \in 1..Len(inputs[k].mappings[r]) : int = inputs[k].mappings[r][j]
  BY DEF IntervalsOf
<1>2. inputs[k].mappings[r] \in Seq(Interval)
  BY MetadataAssumption DEF IsMetadata
<1>3. int \in Interval
  BY <1>1, <1>2, ElementOfSeq
<1> QED
  BY <1>3 DEF Interval

\* One more input adds what it maps.
LEMMA FirstOnNext ==
    ASSUME NEW n \in Nat, NEW r, NEW day
    PROVE  FirstOn(n + 1, r, day) = FirstOn(n, r, day) \cup SymbolsOn(inputs[n + 1].mappings, r, day)
<1>1. 1..n + 1 = (1..n) \cup {n + 1}
  OBVIOUS
<1> QED
  BY <1>1 DEF FirstOn

\* FirstOn depends on the inputs alone.
LEMMA SameInputs ==
    ASSUME inputs' = inputs
    PROVE  /\ Days' = Days
           /\ \A n, r, day : FirstOn(n, r, day)' = FirstOn(n, r, day)
BY DEF Days, FirstOn

-----------------------------------------------------------------------------
(* The invariant holds initially and is preserved. *)

\* The merger starts out as the first input.
LEMMA InitMerge == Init => MergeInv
<1> SUFFICES ASSUME Init PROVE MergeInv
  OBVIOUS
<1>1. /\ inputs \in Merges /\ merger = inputs[1] /\ done = 1 /\ pc = "merge" /\ adding = {}
      /\ Included = 1
  BY DEF Init, Included
<1>2. Len(inputs) \in Nat \ {0} /\ 1 \in 1..Len(inputs) /\ 1..1 = {1}
  BY <1>1, MetadataAssumption
<1>3. /\ DOMAIN inputs[1] = Fields /\ inputs[1].start \in Nat
      /\ inputs[1].end \in Nat \cup {NONE} /\ inputs[1].schema \in Nat \cup {NONE}
      /\ \A r \in DOMAIN inputs[1].mappings : Sorted(Days, inputs[1].mappings[r])
  BY <1>1, <1>2, InputFacts
<1>4. ControlInv
  BY <1>1, <1>2, <1>3 DEF ControlInv
<1>5. ListsInv
  BY <1>1, <1>3 DEF ListsInv
<1>6. UnionInv
  BY <1>1, <1>2 DEF UnionInv, HeldOn, FirstOn
<1>7. FieldsInv
  BY <1>1, <1>2, <1>3 DEF FieldsInv, FieldsOfFirst, NONE
<1>8. ErrorsAreReal
  BY <1>1 DEF ErrorsAreReal
<1> QED
  BY <1>4, <1>5, <1>6, <1>7, <1>8 DEF MergeInv

\* Steps that leave the fields alone.
LEMMA FieldsKept ==
    ASSUME FieldsInv, pc # "err", Included' = Included, inputs' = inputs,
           \A f \in Fields \ {"mappings"} : merger'[f] = merger[f]
    PROVE  FieldsInv'
<1>1. /\ merger'.fixed = merger.fixed /\ merger'.start = merger.start
      /\ merger'.end = merger.end /\ merger'.schema = merger.schema
      /\ merger'.symbols = merger.symbols /\ merger'.partial = merger.partial
      /\ merger'.not_found = merger.not_found
  BY DEF Fields
<1> QED
  BY <1>1 DEF FieldsInv, FieldsOfFirst

\* Setting the intervals of one symbol.
LEMMA SetIntervalsFacts ==
    ASSUME DOMAIN merger = Fields, NEW s, NEW ints, SetIntervals(s, ints)
    PROVE  /\ DOMAIN merger' = Fields
           /\ \A f \in Fields \ {"mappings"} : merger'[f] = merger[f]
           /\ DOMAIN merger'.mappings = DOMAIN merger.mappings \cup {s}
           /\ merger'.mappings[s] = ints
           /\ \A r \in DOMAIN merger.mappings \ {s} : merger'.mappings[r] = merger.mappings[r]
<1>1. "mappings" \in DOMAIN merger
  BY DEF Fields
<1> QED
  BY <1>1 DEF SetIntervals

\* One more input adds its lists of symbols.
LEMMA SymbolListsNext ==
    ASSUME NEW n \in Nat
    PROVE  /\ UNION {inputs[k].symbols : k \in 1..n + 1}
                = (UNION {inputs[k].symbols : k \in 1..n}) \cup inputs[n + 1].symbols
           /\ UNION {inputs[k].partial : k \in 1..n + 1}
                = (UNION {inputs[k].partial : k \in 1..n}) \cup inputs[n + 1].partial
           /\ UNION {inputs[k].not_found : k \in 1..n + 1}
                = (UNION {inputs[k].not_found : k \in 1..n}) \cup inputs[n + 1].not_found
<1>1. 1..n + 1 = (1..n) \cup {n + 1}
  OBVIOUS
<1>2. UNION {inputs[k].symbols : k \in 1..n + 1}
        = (UNION {inputs[k].symbols : k \in 1..n}) \cup inputs[n + 1].symbols
  BY <1>1
<1>3. UNION {inputs[k].partial : k \in 1..n + 1}
        = (UNION {inputs[k].partial : k \in 1..n}) \cup inputs[n + 1].partial
  BY <1>1
<1>4. UNION {inputs[k].not_found : k \in 1..n + 1}
        = (UNION {inputs[k].not_found : k \in 1..n}) \cup inputs[n + 1].not_found
  BY <1>1
<1> QED
  BY <1>2, <1>3, <1>4

\* The fields of one more input are combined with those of the others.
LEMMA MergeFieldsInv == ASSUME MergeInv, MergeFields PROVE MergeInv'
<1>1. /\ pc = "merge" /\ pc' = "mappings" /\ done < Len(inputs) /\ done \in 1..Len(inputs)
      /\ UNCHANGED <<inputs, done, raw, orig, add, merged>>
      /\ merger.fixed = Additional.fixed
      /\ inputs \in Merges /\ DOMAIN merger = Fields /\ adding = {}
      /\ adding' = DOMAIN Additional.mappings
  BY DEF MergeInv, ControlInv, MergeFields
<1>2. Len(inputs) \in Nat
  BY <1>1, MetadataAssumption
<1>3. done + 1 \in 1..Len(inputs) /\ Included = done /\ Included' = done + 1
  BY <1>1, <1>2 DEF Included
<1>4. /\ Additional = inputs[done + 1] /\ Additional' = Additional
      /\ Additional.start \in Nat /\ Additional.end \in Nat \cup {NONE}
      /\ Additional.schema \in Nat \cup {NONE}
  BY <1>1, <1>3, InputFacts DEF Additional
<1>5. /\ DOMAIN merger' = Fields /\ merger'.mappings = merger.mappings
      /\ merger'.fixed = merger.fixed
      /\ merger'.start = EarlierStart(merger.start, Additional.start)
      /\ merger'.end = LaterEnd(merger.end, Additional.end)
      /\ merger'.schema = SchemaOfBoth(merger.schema, Additional.schema)
      /\ merger'.symbols = merger.symbols \cup Additional.symbols
      /\ merger'.partial = merger.partial \cup Additional.partial
      /\ merger'.not_found = merger.not_found \cup Additional.not_found
  BY <1>1 DEF MergeFields, Fields
<1>6. ControlInv'
  BY <1>1, <1>4, <1>5 DEF ControlInv
<1>7. ListsInv'
  <2>1. Days' = Days
    BY <1>1, SameInputs
  <2> QED
    BY <1>1, <1>5, <2>1 DEF MergeInv, ListsInv
<1>8. UnionInv'
  <2> SUFFICES ASSUME NEW r, NEW day \in Nat
               PROVE  HeldOn(r, day)' = FirstOn(Included, r, day)'
    BY DEF UnionInv
  <2>1. HeldOn(r, day) = SymbolsOn(merger.mappings, r, day)
    BY <1>1 DEF HeldOn
  <2>2. HeldOn(r, day)' = HeldOn(r, day) \cup SymbolsOn(Additional.mappings, r, day)
    <3>1. HeldOn(r, day)' = SymbolsOn(merger.mappings, r, day)
             \cup (IF r \in DOMAIN Additional.mappings
                   THEN SymbolsOn(Additional.mappings, r, day) ELSE {})
      BY <1>1, <1>4, <1>5 DEF HeldOn
    <3> QED
      BY <2>1, <3>1 DEF SymbolsOn
  <2>3. HeldOn(r, day) = FirstOn(done, r, day)
    BY <1>1, <1>3 DEF MergeInv, UnionInv
  <2>4. FirstOn(done + 1, r, day)
          = FirstOn(done, r, day) \cup SymbolsOn(inputs[done + 1].mappings, r, day)
    BY <1>1, <1>2, FirstOnNext
  <2>5. FirstOn(Included, r, day)' = FirstOn(done + 1, r, day)
    BY <1>1, <1>3 DEF FirstOn
  <2> QED
    BY <1>4, <2>2, <2>3, <2>4, <2>5
<1>9. FieldsInv'
  <2>1. FieldsOfFirst(merger, inputs, done)
    BY <1>1, <1>3 DEF MergeInv, FieldsInv
  <2>2. /\ 1..done + 1 = (1..done) \cup {done + 1} /\ 1..done \subseteq 1..Len(inputs)
    BY <1>1, <1>2
  <2>3. \A k \in 1..done : /\ inputs[k].start \in Nat /\ inputs[k].end \in Nat \cup {NONE}
                           /\ inputs[k].schema \in Nat \cup {NONE}
    BY <1>1, <2>2, InputFacts
  <2>4. merger.start \in Nat /\ merger.end \in Int /\ Additional.end \in Int
    BY <1>4, <2>1, <2>3 DEF FieldsOfFirst, NONE
  <2>5. /\ \E k \in 1..done + 1 : merger'.start = inputs[k].start
        /\ \A k \in 1..done + 1 : merger'.start <= inputs[k].start
    <3>1. \E k \in 1..done + 1 : merger'.start = inputs[k].start
      BY <1>4, <1>5, <2>1, <2>2 DEF FieldsOfFirst, EarlierStart
    <3>2. ASSUME NEW k \in 1..done + 1 PROVE merger'.start <= inputs[k].start
      <4>1. merger'.start <= merger.start /\ merger'.start <= Additional.start
            /\ merger'.start \in Nat
        BY <1>4, <1>5, <2>4 DEF EarlierStart
      <4>2. CASE k \in 1..done
        BY <2>1, <2>3, <2>4, <4>1, <4>2 DEF FieldsOfFirst
      <4>3. CASE k = done + 1
        BY <1>4, <4>1, <4>3
      <4> QED
        BY <2>2, <4>2, <4>3
    <3> QED
      BY <3>1, <3>2
  <2>6. /\ \E k \in 1..done + 1 : merger'.end = inputs[k].end
        /\ \A k \in 1..done + 1 : merger'.end >= inputs[k].end
    <3>1. \E k \in 1..done + 1 : merger'.end = inputs[k].end
      BY <1>4, <1>5, <2>1, <2>2 DEF FieldsOfFirst, LaterEnd
    <3>2. ASSUME NEW k \in 1..done + 1 PROVE merger'.end >= inputs[k].end
      <4>1. merger'.end >= merger.end /\ merger'.end >= Additional.end /\ merger'.end \in Int
        BY <1>5, <2>4 DEF LaterEnd
      <4>2. CASE k \in 1..done
        <5>1. merger.end >= inputs[k].end /\ inputs[k].end \in Int
          BY <2>1, <2>3, <4>2 DEF FieldsOfFirst, NONE
        <5> QED
          BY <2>4, <4>1, <5>1
      <4>3. CASE k = done + 1
        BY <1>4, <4>1, <4>3
      <4> QED
        BY <2>2, <4>2, <4>3
    <3> QED
      BY <3>1, <3>2
  <2>7. merger'.schema = IF \A k \in 1..done + 1 : inputs[k].schema = inputs[1].schema
                         THEN inputs[1].schema ELSE NONE
    BY <1>4, <1>5, <2>1, <2>2 DEF FieldsOfFirst, SchemaOfBoth
  <2>8. /\ merger'.symbols = UNION {inputs[k].symbols : k \in 1..done + 1}
        /\ merger'.partial = UNION {inputs[k].partial : k \in 1..done + 1}
        /\ merger'.not_found = UNION {inputs[k].not_found : k \in 1..done + 1}
    BY <1>1, <1>2, <1>4, <1>5, <2>1, SymbolListsNext DEF FieldsOfFirst
  <2>9. FieldsOfFirst(merger', inputs, done + 1)
    BY <1>5, <2>1, <2>5, <2>6, <2>7, <2>8 DEF FieldsOfFirst
  <2> QED
    BY <1>1, <1>3, <2>9 DEF FieldsInv
<1>10. ErrorsAreReal'
  BY <1>1 DEF ErrorsAreReal
<1> QED
  BY <1>6, <1>7, <1>8, <1>9, <1>10 DEF MergeInv

\* A field that must match is compared with that of the first input.
LEMMA MismatchInv == ASSUME MergeInv, Mismatch PROVE MergeInv'
<1>1. /\ pc = "merge" /\ pc' = "err" /\ done < Len(inputs) /\ done \in 1..Len(inputs)
      /\ UNCHANGED <<inputs, merger, done, adding, raw, orig, add, merged>>
      /\ merger.fixed # Additional.fixed /\ inputs \in Merges
  BY DEF MergeInv, ControlInv, Mismatch
<1>2. Len(inputs) \in Nat
  BY <1>1, MetadataAssumption
<1>3. done + 1 \in 1..Len(inputs) /\ merger.fixed = inputs[1].fixed
  BY <1>1, <1>2 DEF MergeInv, FieldsInv, FieldsOfFirst
<1>4. ErrorsAreReal'
  BY <1>1, <1>3 DEF ErrorsAreReal, Additional
<1>5. ControlInv' /\ ListsInv'
  <2>1. Days' = Days
    BY <1>1, SameInputs
  <2> QED
    BY <1>1, <2>1 DEF MergeInv, ControlInv, ListsInv
<1> QED
  BY <1>1, <1>4, <1>5 DEF MergeInv, UnionInv, FieldsInv

\* A symbol that only the additional metadata maps is taken over.
LEMMA InsertMappingInv ==
    ASSUME NEW s, MergeInv, InsertMapping(s) PROVE MergeInv'
<1>1. /\ pc = "mappings" /\ s \in adding /\ s \notin DOMAIN merger.mappings
      /\ SetIntervals(s, Additional.mappings[s]) /\ adding' = adding \ {s}
      /\ UNCHANGED <<inputs, done, pc, raw, orig, add, merged>>
      /\ inputs \in Merges /\ DOMAIN merger = Fields
      /\ done < Len(inputs) /\ done \in 1..Len(inputs)
      /\ adding \subseteq DOMAIN Additional.mappings
  BY DEF MergeInv, ControlInv, InsertMapping
<1>2. Len(inputs) \in Nat
  BY <1>1, MetadataAssumption
<1>3. done + 1 \in 1..Len(inputs) /\ Included' = Included /\ Additional' = Additional
  BY <1>1, <1>2 DEF Included, Additional
<1>4. Sorted(Days, Additional.mappings[s]) /\ Days' = Days
  BY <1>1, <1>3, InputFacts, SameInputs DEF Additional
<1>5. /\ DOMAIN merger' = Fields
      /\ \A f \in Fields \ {"mappings"} : merger'[f] = merger[f]
      /\ DOMAIN merger'.mappings = DOMAIN merger.mappings \cup {s}
      /\ merger'.mappings[s] = Additional.mappings[s]
      /\ \A r \in DOMAIN merger.mappings \ {s} : merger'.mappings[r] = merger.mappings[r]
  BY <1>1, SetIntervalsFacts
<1>6. ControlInv'
  BY <1>1, <1>3, <1>5 DEF MergeInv, ControlInv
<1>7. ListsInv'
  BY <1>1, <1>4, <1>5 DEF MergeInv, ListsInv
<1>8. UnionInv'
  <2> SUFFICES ASSUME NEW r, NEW day \in Nat
               PROVE  HeldOn(r, day)' = FirstOn(Included, r, day)'
    BY DEF UnionInv
  <2>1. FirstOn(Included, r, day)' = FirstOn(Included, r, day)
    BY <1>1, <1>3 DEF FirstOn
  <2>2. HeldOn(r, day) = FirstOn(Included, r, day)
    BY <1>1 DEF MergeInv, UnionInv
  <2>3. CASE r = s
    <3>1. HeldOn(s, day) = SymbolsOn(Additional.mappings, s, day)
      BY <1>1 DEF HeldOn, SymbolsOn
    <3>2. SymbolsOn(merger'.mappings, s, day) = SymbolsOn(Additional.mappings, s, day)
      BY <1>1, <1>5 DEF SymbolsOn
    <3>3. HeldOn(s, day)' = SymbolsOn(merger'.mappings, s, day)
      BY <1>1 DEF HeldOn
    <3> QED
      BY <2>1, <2>2, <2>3, <3>1, <3>2, <3>3
  <2>4. CASE r # s
    <3>1. SymbolsOn(merger'.mappings, r, day) = SymbolsOn(merger.mappings, r, day)
      BY <1>5, <2>4 DEF SymbolsOn
    <3>2. HeldOn(r, day)' = HeldOn(r, day)
      BY <1>1, <1>3, <2>4, <3>1 DEF HeldOn
    <3> QED
      BY <2>1, <2>2, <3>2
  <2> QED
    BY <2>3, <2>4
<1>9. FieldsInv'
  BY <1>1, <1>3, <1>5, FieldsKept DEF MergeInv
<1>10. ErrorsAreReal'
  BY <1>1 DEF ErrorsAreReal
<1> QED
  BY <1>6, <1>7, <1>8, <1>9, <1>10 DEF MergeInv

\* The lists of a symbol that both map move to the cursors.
LEMMA MergeMappingInv ==
    ASSUME NEW s, MergeInv, MergeMapping(s) PROVE MergeInv'
<1>1. /\ pc = "mappings" /\ pc' = "intervals" /\ s \in adding /\ s \in DOMAIN merger.mappings
      /\ SetIntervals(s, <<>>) /\ adding' = adding \ {s} /\ raw' = s
      /\ orig' = merger.mappings[s] /\ add' = Additional.mappings[s] /\ merged' = <<>>
      /\ UNCHANGED <<inputs, done>>
      /\ inputs \in Merges /\ DOMAIN merger = Fields
      /\ done < Len(inputs) /\ done \in 1..Len(inputs)
      /\ adding \subseteq DOMAIN Additional.mappings
  BY DEF MergeInv, ControlInv, MergeMapping
<1>2. Len(inputs) \in Nat
  BY <1>1, MetadataAssumption
<1>3. done + 1 \in 1..Len(inputs) /\ Included' = Included /\ Additional' = Additional
  BY <1>1, <1>2 DEF Included, Additional
<1>4. /\ Sorted(Days, Additional.mappings[s]) /\ Sorted(Days, merger.mappings[s])
      /\ Sorted(Days, <<>>) /\ Days' = Days
  <2>1. Sorted(Days, Additional.mappings[s]) /\ Days' = Days
    BY <1>1, <1>3, InputFacts, SameInputs DEF Additional
  <2>2. Sorted(Days, <<>>)
    BY DEF Sorted
  <2> QED
    BY <1>1, <2>1, <2>2 DEF MergeInv, ListsInv
<1>5. /\ DOMAIN merger' = Fields
      /\ \A f \in Fields \ {"mappings"} : merger'[f] = merger[f]
      /\ DOMAIN merger'.mappings = DOMAIN merger.mappings \cup {s}
      /\ merger'.mappings[s] = <<>>
      /\ \A r \in DOMAIN merger.mappings \ {s} : merger'.mappings[r] = merger.mappings[r]
  BY <1>1, SetIntervalsFacts
<1>6. ControlInv'
  BY <1>1, <1>3, <1>5 DEF MergeInv, ControlInv
<1>7. ListsInv'
  <2>1. \A r \in DOMAIN merger'.mappings : Sorted(Days', merger'.mappings[r])
    BY <1>4, <1>5 DEF MergeInv, ListsInv
  <2>2. StartsBefore(merged', orig') /\ StartsBefore(merged', add')
    BY <1>1 DEF StartsBefore
  <2> QED
    BY <1>1, <1>4, <1>5, <2>1, <2>2 DEF ListsInv
<1>8. UnionInv'
  <2> SUFFICES ASSUME NEW r, NEW day \in Nat
               PROVE  HeldOn(r, day)' = FirstOn(Included, r, day)'
    BY DEF UnionInv
  <2>1. FirstOn(Included, r, day)' = FirstOn(Included, r, day)
    BY <1>1, <1>3 DEF FirstOn
  <2>2. HeldOn(r, day) = FirstOn(Included, r, day)
    BY <1>1 DEF MergeInv, UnionInv
  <2>3. CASE r = s
    <3>1. HeldOn(s, day) = SymbolsOf(merger.mappings[s], day) \cup SymbolsOf(Additional.mappings[s], day)
      BY <1>1 DEF HeldOn, SymbolsOn
    <3>2. SymbolsOn(merger'.mappings, s, day) = {} /\ SymbolsOf(<<>>, day) = {}
      BY <1>1, <1>5 DEF SymbolsOn, SymbolsOf
    <3>3. HeldOn(s, day)' = SymbolsOf(orig', day) \cup SymbolsOf(add', day)
      BY <1>1, <3>2 DEF HeldOn
    <3> QED
      BY <1>1, <2>1, <2>2, <2>3, <3>1, <3>3
  <2>4. CASE r # s
    <3>1. SymbolsOn(merger'.mappings, r, day) = SymbolsOn(merger.mappings, r, day)
      BY <1>5, <2>4 DEF SymbolsOn
    <3>2. HeldOn(r, day)' = HeldOn(r, day)
      BY <1>1, <1>3, <2>4, <3>1 DEF HeldOn
    <3> QED
      BY <2>1, <2>2, <3>2
  <2> QED
    BY <2>3, <2>4
<1>9. FieldsInv'
  BY <1>1, <1>3, <1>5, FieldsKept DEF MergeInv
<1>10. ErrorsAreReal'
  BY <1>1 DEF ErrorsAreReal
<1> QED
  BY <1>6, <1>7, <1>8, <1>9, <1>10 DEF MergeInv

\* An input is merged when its last symbol is, and all are when the last one is.
LEMMA DoneInv == ASSUME MergeInv, MappingsDone \/ Finalize PROVE MergeInv'
<1>1. /\ pc \in {"merge", "mappings"} /\ pc' \in {"merge", "ok"} /\ adding = {}
      /\ UNCHANGED <<inputs, merger, adding, raw, orig, add, merged>>
      /\ pc' = "ok" => done' = Len(inputs)
      /\ IF pc = "mappings" THEN done' = done + 1 /\ done < Len(inputs) ELSE done' = done
      /\ inputs \in Merges /\ done \in 1..Len(inputs)
  BY DEF MergeInv, ControlInv, MappingsDone, Finalize
<1>2. Len(inputs) \in Nat
  BY <1>1, MetadataAssumption
<1>3. done' \in 1..Len(inputs) /\ Included' = Included /\ Days' = Days
  BY <1>1, <1>2, SameInputs DEF Included
<1>4. ControlInv'
  BY <1>1, <1>3 DEF MergeInv, ControlInv
<1>5. ListsInv'
  BY <1>1, <1>3 DEF MergeInv, ListsInv
<1>6. UnionInv'
  <2> SUFFICES ASSUME NEW r, NEW day \in Nat
               PROVE  HeldOn(r, day)' = FirstOn(Included, r, day)'
    BY DEF UnionInv
  <2>1. FirstOn(Included, r, day)' = FirstOn(Included, r, day)
    BY <1>1, <1>3 DEF FirstOn
  <2>2. HeldOn(r, day) = FirstOn(Included, r, day)
    BY <1>1 DEF MergeInv, UnionInv
  <2>3. HeldOn(r, day)' = HeldOn(r, day)
    BY <1>1 DEF HeldOn
  <2> QED
    BY <2>1, <2>2, <2>3
<1>7. FieldsInv'
  BY <1>1, <1>3, FieldsKept DEF MergeInv
<1>8. ErrorsAreReal'
  BY <1>1 DEF ErrorsAreReal
<1> QED
  BY <1>4, <1>5, <1>6, <1>7, <1>8 DEF MergeInv

-----------------------------------------------------------------------------
(* merge_intervals. *)

\* An interval that covers what the cursors pass, and starts between what was pushed
\* and what is left, may be pushed.
LEMMA PushInv ==
    ASSUME MergeInv, pc = "intervals",
           UNCHANGED <<inputs, merger, done, pc, adding, raw>>,
           NEW int \in Interval, int.start_date < int.end_date, int.start_date \in Days,
           Push(int), Sorted(Days, orig'), Sorted(Days, add'),
           \A k \in 1..Len(merged) : merged[k].start_date <= int.start_date,
           \A k \in 1..Len(orig') : int.start_date <= orig'[k].start_date,
           \A k \in 1..Len(add') : int.start_date <= add'[k].start_date,
           \A day \in Nat : SymbolIn(int, day) \cup SymbolsOf(orig', day) \cup SymbolsOf(add', day)
                              = SymbolsOf(orig, day) \cup SymbolsOf(add, day)
    PROVE  MergeInv'
<1>1. /\ Sorted(Days, merged) /\ merged \in Seq(Interval) /\ merged' = Append(merged, int)
      /\ Days' = Days /\ Included' = Included /\ Additional' = Additional
  BY SameInputs DEF MergeInv, ListsInv, Sorted, Push, Included, Additional
<1>2. Sorted(Days, merged')
  BY <1>1, SortedAppend
<1>3. ASSUME NEW rest, Sorted(Days, rest),
             \A k \in 1..Len(rest) : int.start_date <= rest[k].start_date
      PROVE  StartsBefore(merged', rest)
  <2> SUFFICES ASSUME NEW j \in 1..Len(merged'), NEW k \in 1..Len(rest)
               PROVE  merged'[j].start_date <= rest[k].start_date
    BY DEF StartsBefore
  <2>1. rest[k] \in Interval /\ merged'[j] \in Interval
    BY <1>2, <1>3, ElementOfSeq DEF Sorted
  <2>2. merged'[j].start_date <= int.start_date
    <3>1. CASE j \in 1..Len(merged)
      BY <1>1, <3>1
    <3>2. CASE j = Len(merged) + 1
      BY <1>1, <2>1, <3>2 DEF Interval
    <3> QED
      BY <1>1, <3>1, <3>2
  <2> QED
    BY <1>3, <2>1, <2>2 DEF Interval
<1>4. ControlInv'
  BY <1>1 DEF MergeInv, ControlInv
<1>5. ListsInv'
  BY <1>1, <1>2, <1>3 DEF MergeInv, ListsInv
<1>6. UnionInv'
  <2> SUFFICES ASSUME NEW r, NEW day \in Nat
               PROVE  HeldOn(r, day)' = FirstOn(Included, r, day)'
    BY DEF UnionInv
  <2>1. FirstOn(Included, r, day)' = FirstOn(Included, r, day)
    BY <1>1 DEF FirstOn
  <2>2. HeldOn(r, day) = FirstOn(Included, r, day)
    BY DEF MergeInv, UnionInv
  <2>3. SymbolsOf(merged', day) = SymbolsOf(merged, day) \cup SymbolIn(int, day)
    BY <1>1, SymbolsOfAppend
  <2>4. SymbolsOf(merged', day) \cup SymbolsOf(orig', day) \cup SymbolsOf(add', day)
          = SymbolsOf(merged, day) \cup SymbolsOf(orig, day) \cup SymbolsOf(add, day)
    BY <2>3
  <2>5. HeldOn(r, day)' = HeldOn(r, day)
    BY <1>1, <2>4 DEF HeldOn
  <2> QED
    BY <2>1, <2>2, <2>5
<1>7. FieldsInv'
  BY <1>1, FieldsKept DEF MergeInv
<1>8. ErrorsAreReal'
  BY DEF ErrorsAreReal
<1> QED
  BY <1>4, <1>5, <1>6, <1>7, <1>8 DEF MergeInv

\* Nothing is pushed that starts before what was pushed, or is left, may start.
LEMMA MergeIntervalsInv == ASSUME MergeInv, MergeIntervals PROVE MergeInv'
<1>1. /\ pc = "intervals" /\ UNCHANGED <<inputs, merger, done, pc, adding, raw>>
      /\ Sorted(Days, orig) /\ Sorted(Days, add) /\ Sorted(Days, merged)
      /\ StartsBefore(merged, orig) /\ StartsBefore(merged, add)
      /\ orig \in Seq(Interval) /\ add \in Seq(Interval) /\ merged \in Seq(Interval)
  BY DEF MergeInv, ListsInv, MergeIntervals, Sorted
<1> DEFINE a == Head(orig)
           b == Head(add)
<1>2. ASSUME orig # <<>>
      PROVE  /\ a \in Interval /\ a.start_date < a.end_date /\ a.start_date \in Days
             /\ Sorted(Days, Tail(orig)) /\ a.start_date \in Nat
             /\ \A k \in 1..Len(Tail(orig)) : /\ a.start_date <= Tail(orig)[k].start_date
                                              /\ Tail(orig)[k].start_date \in Nat
             /\ \A k \in 1..Len(orig) : /\ a.start_date <= orig[k].start_date
                                        /\ orig[k].start_date \in Nat
             /\ \A k \in 1..Len(merged) : /\ merged[k].start_date <= a.start_date
                                          /\ merged[k].start_date \in Nat
             /\ \A day : SymbolsOf(orig, day) = SymbolIn(a, day) \cup SymbolsOf(Tail(orig), day)
  BY <1>1, <1>2, HeadFacts
<1>3. ASSUME add # <<>>
      PROVE  /\ b \in Interval /\ b.start_date < b.end_date /\ b.start_date \in Days
             /\ Sorted(Days, Tail(add)) /\ b.start_date \in Nat
             /\ \A k \in 1..Len(Tail(add)) : /\ b.start_date <= Tail(add)[k].start_date
                                             /\ Tail(add)[k].start_date \in Nat
             /\ \A k \in 1..Len(add) : /\ b.start_date <= add[k].start_date
                                       /\ add[k].start_date \in Nat
             /\ \A k \in 1..Len(merged) : /\ merged[k].start_date <= b.start_date
                                          /\ merged[k].start_date \in Nat
             /\ \A day : SymbolsOf(add, day) = SymbolIn(b, day) \cup SymbolsOf(Tail(add), day)
  BY <1>1, <1>3, HeadFacts
<1> HIDE DEF a, b
<1>4. CASE BothLeft /\ Cursors = "Less" /\ TakeOrig
  <2>1. orig # <<>> /\ add # <<>> /\ Push(a) /\ orig' = Tail(orig) /\ add' = add
    BY <1>4 DEF BothLeft, TakeOrig, a
  <2>2. a.start_date <= b.start_date
    BY <1>2, <1>3, <1>4, <2>1, OrderingFacts DEF Cursors, a, b
  <2>3. \A k \in 1..Len(add') : a.start_date <= add'[k].start_date
    BY <1>2, <1>3, <2>1, <2>2
  <2> QED
    BY <1>1, <1>2, <2>1, <2>3, PushInv
<1>5. CASE BothLeft /\ Cursors = "Greater" /\ TakeAdd
  <2>1. orig # <<>> /\ add # <<>> /\ Push(b) /\ add' = Tail(add) /\ orig' = orig
    BY <1>5 DEF BothLeft, TakeAdd, b
  <2>2. b.start_date <= a.start_date
    BY <1>2, <1>3, <1>5, <2>1, OrderingFacts DEF Cursors, a, b
  <2>3. \A k \in 1..Len(orig') : b.start_date <= orig'[k].start_date
    BY <1>2, <1>3, <2>1, <2>2
  <2> QED
    BY <1>1, <1>3, <2>1, <2>3, PushInv
<1>6. CASE BothLeft /\ Cursors \in {"Overlap", "Equal"} /\ TakeBoth
  <2> DEFINE c == MergeInterval(a, b)
  <2>1. orig # <<>> /\ add # <<>> /\ Push(c) /\ orig' = Tail(orig) /\ add' = Tail(add)
    BY <1>6 DEF BothLeft, TakeBoth, a, b
  <2>2. /\ c \in Interval /\ c.start_date < c.end_date
        /\ c.start_date \in {a.start_date, b.start_date}
        /\ c.start_date <= a.start_date /\ c.start_date <= b.start_date
        /\ \A day \in Nat : SymbolIn(c, day) = SymbolIn(a, day) \cup SymbolIn(b, day)
    BY <1>2, <1>3, <1>6, <2>1, OrderingFacts DEF Cursors, a, b
  <2> HIDE DEF c
  <2>3. /\ \A k \in 1..Len(merged) : merged[k].start_date <= c.start_date
        /\ \A k \in 1..Len(orig') : c.start_date <= orig'[k].start_date
        /\ \A k \in 1..Len(add') : c.start_date <= add'[k].start_date
        /\ c.start_date \in Days
    BY <1>2, <1>3, <2>1, <2>2
  <2>4. \A day \in Nat : SymbolIn(c, day) \cup SymbolsOf(orig', day) \cup SymbolsOf(add', day)
                           = SymbolsOf(orig, day) \cup SymbolsOf(add, day)
    BY <1>2, <1>3, <2>1, <2>2
  <2> QED
    BY <1>1, <1>2, <1>3, <2>1, <2>2, <2>3, <2>4, PushInv
<1>7. CASE TailTaken(orig) /\ TakeOrig
  <2>1. orig # <<>> /\ add = <<>> /\ Push(a) /\ orig' = Tail(orig) /\ add' = add
    BY <1>7 DEF BothLeft, TailTaken, TakeOrig, a
  <2>2. \A k \in 1..Len(add') : a.start_date <= add'[k].start_date
    BY <2>1
  <2> QED
    BY <1>1, <1>2, <2>1, <2>2, PushInv
<1>8. CASE TailTaken(add) /\ TakeAdd
  <2>1. add # <<>> /\ orig = <<>> /\ Push(b) /\ add' = Tail(add) /\ orig' = orig
    BY <1>8 DEF BothLeft, TailTaken, TakeAdd, b
  <2>2. \A k \in 1..Len(orig') : b.start_date <= orig'[k].start_date
    BY <2>1
  <2> QED
    BY <1>1, <1>3, <2>1, <2>2, PushInv
<1> QED
  BY <1>4, <1>5, <1>6, <1>7, <1>8 DEF MergeIntervals

\* Two intervals that overlap with different symbols give their raw symbol both on the
\* day the later of them starts, and each is of an input.
LEMMA ConflictFoundInv == ASSUME MergeInv, ConflictFound PROVE MergeInv'
<1>1. /\ pc = "intervals" /\ pc' = "err" /\ orig # <<>> /\ add # <<>>
      /\ Ordering(Head(orig), Head(add)) = "Err"
      /\ UNCHANGED <<inputs, merger, done, adding, raw, orig, add, merged>>
      /\ Sorted(Days, orig) /\ Sorted(Days, add) /\ Days' = Days
      /\ done < Len(inputs) /\ done \in 1..Len(inputs) /\ inputs \in Merges
  BY SameInputs DEF MergeInv, ControlInv, ListsInv, ConflictFound, BothLeft, Cursors
<1>2. /\ Head(orig) \in Interval /\ Head(orig).start_date < Head(orig).end_date
      /\ Head(add) \in Interval /\ Head(add).start_date < Head(add).end_date
      /\ {Head(orig).start_date, Head(add).start_date} \subseteq Days \cap Nat
  <2>1. /\ Head(orig) \in Interval /\ Head(orig).start_date < Head(orig).end_date
        /\ Head(orig).start_date \in Days
    BY <1>1, SortedTail
  <2>2. /\ Head(add) \in Interval /\ Head(add).start_date < Head(add).end_date
        /\ Head(add).start_date \in Days
    BY <1>1, SortedTail
  <2>3. Head(orig).start_date \in Nat /\ Head(add).start_date \in Nat
    BY <2>1, <2>2 DEF Interval
  <2> QED
    BY <2>1, <2>2, <2>3
<1>3. PICK day \in {Head(orig).start_date, Head(add).start_date} :
         \E x \in SymbolIn(Head(orig), day), y \in SymbolIn(Head(add), day) : x # y
  BY <1>1, <1>2, OrderingFacts
<1>4. PICK x \in SymbolIn(Head(orig), day), y \in SymbolIn(Head(add), day) : x # y
  BY <1>3
<1>5. x \in HeldOn(raw, day) /\ y \in HeldOn(raw, day)
  <2>1. x \in SymbolsOf(orig, day) /\ y \in SymbolsOf(add, day)
    BY <1>1, <1>4, SymbolsOfTail DEF Sorted
  <2> QED
    BY <1>1, <2>1 DEF HeldOn
<1>6. HeldOn(raw, day) = FirstOn(done + 1, raw, day)
  BY <1>1, <1>2 DEF MergeInv, UnionInv, Included
<1>7. Len(inputs) \in Nat /\ 1..done + 1 \subseteq 1..Len(inputs)
  BY <1>1, MetadataAssumption
<1>8. x \in InputSymbolsOn(raw, day) /\ y \in InputSymbolsOn(raw, day)
  BY <1>5, <1>6, <1>7 DEF FirstOn, InputSymbolsOn
<1>9. raw \in RawSymbols
  <2>1. PICK k \in 1..Len(inputs) : x \in SymbolsOn(inputs[k].mappings, raw, day)
    BY <1>8 DEF InputSymbolsOn
  <2>2. raw \in DOMAIN inputs[k].mappings
    BY <2>1 DEF SymbolsOn
  <2> QED
    BY <2>2 DEF RawSymbols
<1>10. ErrorsAreReal'
  <2>1. \E r \in RawSymbols, d \in Days : \E u, v \in InputSymbolsOn(r, d) : u # v
    BY <1>2, <1>4, <1>8, <1>9
  <2>2. ErrorsAreReal' = (pc' = "err" =>
           \/ \E k \in 1..Len(inputs) : inputs[k].fixed # inputs[1].fixed
           \/ \E r \in RawSymbols, d \in Days : \E u, v \in InputSymbolsOn(r, d) : u # v)
    BY <1>1 DEF ErrorsAreReal, RawSymbols, InputSymbolsOn
  <2> QED
    BY <2>1, <2>2
<1>11. ControlInv' /\ ListsInv'
  BY <1>1 DEF MergeInv, ControlInv, ListsInv
<1> QED
  BY <1>1, <1>10, <1>11 DEF MergeInv, UnionInv, FieldsInv

\* When both cursors are at their ends the merged intervals hold everything.
LEMMA IntervalsDoneInv == ASSUME MergeInv, IntervalsDone PROVE MergeInv'
<1>1. /\ pc = "intervals" /\ pc' = "mappings" /\ orig = <<>> /\ add = <<>>
      /\ SetIntervals(raw, merged)
      /\ UNCHANGED <<inputs, done, adding, raw, orig, add, merged>>
      /\ raw \in DOMAIN merger.mappings /\ raw \notin adding /\ merger.mappings[raw] = <<>>
      /\ Sorted(Days, merged) /\ DOMAIN merger = Fields
      /\ Days' = Days /\ Included' = Included /\ Additional' = Additional
  BY SameInputs DEF MergeInv, ControlInv, ListsInv, IntervalsDone, BothLeft, TailTaken,
                    Included, Additional
<1>2. /\ DOMAIN merger' = Fields
      /\ \A f \in Fields \ {"mappings"} : merger'[f] = merger[f]
      /\ DOMAIN merger'.mappings = DOMAIN merger.mappings \cup {raw}
      /\ merger'.mappings[raw] = merged
      /\ \A r \in DOMAIN merger.mappings \ {raw} : merger'.mappings[r] = merger.mappings[r]
  BY <1>1, SetIntervalsFacts
<1>3. ControlInv'
  BY <1>1, <1>2 DEF MergeInv, ControlInv
<1>4. ListsInv'
  BY <1>1, <1>2 DEF MergeInv, ListsInv
<1>5. UnionInv'
  <2> SUFFICES ASSUME NEW r, NEW day \in Nat
               PROVE  HeldOn(r, day)' = FirstOn(Included, r, day)'
    BY DEF UnionInv
  <2>1. FirstOn(Included, r, day)' = FirstOn(Included, r, day)
    BY <1>1 DEF FirstOn
  <2>2. HeldOn(r, day) = FirstOn(Included, r, day)
    BY <1>1 DEF MergeInv, UnionInv
  <2>3. CASE r = raw
    <3>1. SymbolsOf(<<>>, day) = {}
      BY DEF SymbolsOf
    <3>2. HeldOn(raw, day) = SymbolsOf(merged, day)
      BY <1>1, <3>1 DEF HeldOn, SymbolsOn
    <3>3. SymbolsOn(merger'.mappings, raw, day) = SymbolsOf(merged, day)
      BY <1>1, <1>2 DEF SymbolsOn
    <3>4. HeldOn(raw, day)' = SymbolsOn(merger'.mappings, raw, day)
      BY <1>1 DEF HeldOn
    <3> QED
      BY <1>1, <2>1, <2>2, <2>3, <3>2, <3>3, <3>4
  <2>4. CASE r # raw
    <3>1. SymbolsOn(merger'.mappings, r, day) = SymbolsOn(merger.mappings, r, day)
      BY <1>2, <2>4 DEF SymbolsOn
    <3>2. HeldOn(r, day)' = HeldOn(r, day)
      BY <1>1, <2>4, <3>1 DEF HeldOn
    <3> QED
      BY <2>1, <2>2, <3>2
  <2> QED
    BY <2>3, <2>4
<1>6. FieldsInv'
  BY <1>1, <1>2, FieldsKept DEF MergeInv
<1>7. ErrorsAreReal'
  BY <1>1 DEF ErrorsAreReal
<1> QED
  BY <1>3, <1>4, <1>5, <1>6, <1>7 DEF MergeInv

-----------------------------------------------------------------------------
(* The theorems. *)

\* Every step preserves the invariant.
LEMMA NextMerge == ASSUME MergeInv, [Next]_vars PROVE MergeInv'
<1>1. CASE UNCHANGED vars
  <2>1. /\ UNCHANGED <<inputs, merger, done, pc, adding, raw, orig, add, merged>>
        /\ Days' = Days /\ Included' = Included /\ Additional' = Additional
    BY <1>1, SameInputs DEF vars, Included, Additional
  <2>2. ControlInv' /\ ListsInv' /\ FieldsInv'
    BY <2>1 DEF MergeInv, ControlInv, ListsInv, FieldsInv
  <2>3. UnionInv'
    <3> SUFFICES ASSUME pc' # "err", NEW r, NEW day \in Nat
                 PROVE  HeldOn(r, day)' = FirstOn(Included, r, day)'
      BY DEF UnionInv
    <3>1. FirstOn(Included, r, day)' = FirstOn(Included, r, day) /\ HeldOn(r, day)' = HeldOn(r, day)
      BY <2>1 DEF FirstOn, HeldOn
    <3> QED
      BY <2>1, <3>1 DEF MergeInv, UnionInv
  <2>4. ErrorsAreReal'
    <3>1. RawSymbols' = RawSymbols /\ \A r, day : InputSymbolsOn(r, day)' = InputSymbolsOn(r, day)
      BY <2>1 DEF RawSymbols, InputSymbolsOn
    <3>2. ErrorsAreReal' = ErrorsAreReal
      BY <2>1, <3>1 DEF ErrorsAreReal
    <3> QED
      BY <3>2 DEF MergeInv
  <2> QED
    BY <2>2, <2>3, <2>4 DEF MergeInv
<1>2. CASE Next
  BY <1>2, MergeFieldsInv, MismatchInv, InsertMappingInv, MergeMappingInv, MergeIntervalsInv,
     ConflictFoundInv, IntervalsDoneInv, DoneInv DEF Next
<1> QED
  BY <1>1, <1>2

\* Hence it always holds.
LEMMA MergeAlways == Spec => []MergeInv
  BY InitMerge, NextMerge, PTL DEF Spec

\* For any inputs with lists in order, merge_intervals leaves every merged list in the
\* order of its first days: a list it made can be merged again.
THEOREM MergedListsInOrder == Spec => []MergedInOrder
<1>1. MergeInv => MergedInOrder
  BY DEF MergeInv, ListsInv, Sorted, MergedInOrder
<1> QED
  BY <1>1, MergeAlways, PTL

\* merge fails only for inputs that differ in a field that must match, or that give a raw
\* symbol two symbols on one day.
THEOREM MergeFailsForAReason == Spec => []ErrorsAreReal
<1>1. MergeInv => ErrorsAreReal
  BY DEF MergeInv
<1> QED
  BY <1>1, MergeAlways, PTL

\* A merge that succeeds has lost no mapping of any input and made none up.
THEOREM MergeKeepsMappings == Spec => []MappingsAreUnion
<1>1. MergeInv => MappingsAreUnion
  <2> SUFFICES ASSUME MergeInv, pc = "ok", NEW r \in RawSymbols, NEW day \in Days
               PROVE  SymbolsOn(merger.mappings, r, day) = InputSymbolsOn(r, day)
    BY DEF MappingsAreUnion
  <2>1. day \in Nat
    BY DaysAreNat DEF MergeInv, ControlInv
  <2>2. HeldOn(r, day) = FirstOn(Len(inputs), r, day)
    BY <2>1 DEF MergeInv, ControlInv, UnionInv, Included
  <2>3. HeldOn(r, day) = SymbolsOn(merger.mappings, r, day)
    BY DEF MergeInv, ControlInv, HeldOn
  <2> QED
    BY <2>2, <2>3 DEF FirstOn, InputSymbolsOn
<1> QED
  BY <1>1, MergeAlways, PTL

\* A merge that succeeds spans the time ranges of all its inputs, and keeps a schema only
\* if they all have it.
THEOREM MergeCombinesFields == Spec => []FieldsAreCombined
<1>1. MergeInv => FieldsAreCombined
  <2> SUFFICES ASSUME MergeInv, pc = "ok" PROVE FieldsAreCombined
    BY DEF FieldsAreCombined
  <2> DEFINE all == {inputs[k] : k \in 1..Len(inputs)}
  <2>1. inputs \in Merges /\ FieldsOfFirst(merger, inputs, Len(inputs))
    BY DEF MergeInv, ControlInv, FieldsInv, Included
  <2>2. \A m \in all : m.start \in Int /\ m.end \in Int
    BY <2>1, InputFacts DEF NONE
  <2>3. merger.start = Min({m.start : m \in all})
    <3> DEFINE S == {m.start : m \in all}
    <3>1. merger.start \in S /\ S \subseteq Int /\ \A y \in S : merger.start <= y
      BY <2>1, <2>2 DEF FieldsOfFirst
    <3> HIDE DEF S
    <3>2. ASSUME NEW x \in S, \A y \in S : x <= y PROVE x = merger.start
      <4>1. x \in Int /\ merger.start \in Int /\ x <= merger.start /\ merger.start <= x
        BY <3>1, <3>2
      <4> QED
        BY <4>1
    <3> QED
      BY <3>1, <3>2 DEF Min, S
  <2>4. merger.end = Max({m.end : m \in all})
    <3> DEFINE S == {m.end : m \in all}
    <3>1. merger.end \in S /\ S \subseteq Int /\ \A y \in S : merger.end >= y
      BY <2>1, <2>2 DEF FieldsOfFirst
    <3> HIDE DEF S
    <3>2. ASSUME NEW x \in S, \A y \in S : x >= y PROVE x = merger.end
      <4>1. x \in Int /\ merger.end \in Int /\ x >= merger.end /\ merger.end >= x
        BY <3>1, <3>2
      <4> QED
        BY <4>1
    <3> QED
      BY <3>1, <3>2 DEF Max, S
  <2>5. merger.schema = IF \A m \in all : m.schema = inputs[1].schema
                        THEN inputs[1].schema ELSE NONE
    BY <2>1 DEF FieldsOfFirst
  <2>6. /\ merger.symbols = UNION {m.symbols : m \in all}
        /\ merger.partial = UNION {m.partial : m \in all}
        /\ merger.not_found = UNION {m.not_found : m \in all}
    BY <2>1 DEF FieldsOfFirst
  <2> QED
    BY <2>3, <2>4, <2>5, <2>6 DEF FieldsAreCombined
<1> QED
  BY <1>1, MergeAlways, PTL
=============================================================================
