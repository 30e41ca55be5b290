-------------------------- MODULE SymbolMapProofs --------------------------
(***************************************************************************)
(* Both symbol maps hold what the metadata says, for any metadata, and so  *)
(* agree with each other whatever a live stream then brings.               *)
(***************************************************************************)
EXTENDS SymbolMap, TLAPS, SequenceTheorems

-----------------------------------------------------------------------------
(* The inductive invariant. *)

\* The intervals of all mappings, each by its mapping's index and its own.
Pairs(md) == {p \in Nat \X Nat : /\ p[1] \in 1..Len(md.mappings)
                                 /\ p[2] \in 1..Len(md.mappings[p[1]].intervals)}

At(md, p)     == md.mappings[p[1]].intervals[p[2]]
IidAt(md, p)  == Parse(IF md.out_id THEN At(md, p).symbol ELSE md.mappings[p[1]].raw_symbol)
TextAt(md, p) == IF md.out_id THEN md.mappings[p[1]].raw_symbol ELSE At(md, p).symbol

\* The interval says which symbol the instrument x[2] has on day x[1].
Gives(md, p, x) ==
    At(md, p).symbol # NoSymbol /\ x[1] \in Days(At(md, p)) /\ x[2] = IidAt(md, p)

\* The map f from days and instruments to symbols holds for the days D what the intervals
\* P say, and where several mappings name an instrument what the last of them says.
Filled(md, D, f, P) ==
    /\ DOMAIN f \subseteq D \X Int
    /\ \A p \in P : At(md, p).symbol # NoSymbol =>
          \A d \in Days(At(md, p)) \cap D : <<d, IidAt(md, p)>> \in DOMAIN f
    /\ \A x \in DOMAIN f : \E p \in P :
          /\ Gives(md, p, x) /\ f[x] = TextAt(md, p)
          /\ \A q \in P : Gives(md, q, x) => q[1] <= p[1]

\* The instruments of the intervals P parse.
Parsed(md, P) == \A p \in P : At(md, p).symbol # NoSymbol => IidAt(md, p) # NONE

\* A point-in-time map as a map from days and instruments.
Dated(d, f) == [x \in {d} \X DOMAIN f |-> f[x[2]]]

\* What the loops of the two constructors have passed.
TsPassed  == {p \in Pairs(metadata) : pc = "ts" => p[1] < m \/ (p[1] = m /\ p[2] < k)}
PitPassed == {p \in Pairs(metadata) : p[1] < m}

ControlInv ==
    /\ metadata \in Metas /\ date \in Dates
    /\ m \in Nat /\ m >= 1 /\ k \in Nat /\ k >= 1
    /\ pc \in {"ts", "pit", "live"}
    /\ IF pc = "ts" THEN ts_result = "none" ELSE ts_result \in {"ok", "err"}
    /\ IF pc = "live" THEN pit_result \in {"ok", "err"} ELSE pit_result = "none"
    /\ pc = "ts" => pit_map = Empty
    /\ pc # "live" => latest = Empty

TsInv ==
    pc = "ts" \/ ts_result = "ok" =>
        /\ ts_result = "ok" => HasIds
        /\ Filled(metadata, Int, ts_map, TsPassed)
        /\ Parsed(metadata, TsPassed)

PitInv ==
    pc = "pit" => /\ pit_map = [i \in DOMAIN pit_map |-> pit_map[i]]
                  /\ Filled(metadata, {date}, Dated(date, pit_map), PitPassed)

RangeInv ==
    /\ pit_result = "ok" => InRange
    /\ pit_result = "err" /\ ts_result = "ok" => ~InRange

SymbolMapInv == ControlInv /\ TsInv /\ PitInv /\ RangeInv /\ MapsAgree

-----------------------------------------------------------------------------
(* The metadata. *)

\* The intervals of a mapping are in order, and a symbol parses as a number or not at all.
LEMMA MetadataFacts ==
    ASSUME NEW md \in Metas
    PROVE  /\ Len(md.mappings) \in Nat
           /\ \A i \in 1..Len(md.mappings) : Len(md.mappings[i].intervals) \in Nat
           /\ \A p \in Pairs(md) : At(md, p) \in MappingInterval /\ IidAt(md, p) \in Int
           /\ \A p, q \in Pairs(md) :
                 p[1] = q[1] /\ p[2] < q[2] => At(md, p).end_date <= At(md, q).start_date
           /\ md.start \in Nat
           /\ md.end \in Nat \cup {NONE}
           /\ md.end # NONE => md.start < md.end
<1>1. /\ md.mappings \in Seq(SymbolMapping)
      /\ \A i \in 1..Len(md.mappings) :
            LET ints == md.mappings[i].intervals
            IN  \A j, n \in 1..Len(ints) : j < n => ints[j].end_date <= ints[n].start_date
      /\ md.start \in Nat /\ md.end \in Nat \cup {NONE}
      /\ md.end # NONE => md.start < md.end
  BY SymbolMapAssumption DEF IsMetadata
<1>2. \A i \in 1..Len(md.mappings) :
         md.mappings[i].intervals \in Seq(MappingInterval)
  <2>1. \A i \in 1..Len(md.mappings) : md.mappings[i] \in SymbolMapping
    BY <1>1, ElementOfSeq
  <2> QED
    BY <2>1 DEF SymbolMapping
<1>3. ASSUME NEW p \in Pairs(md) PROVE At(md, p) \in MappingInterval /\ IidAt(md, p) \in Int
  <2>1. At(md, p) \in MappingInterval
    BY <1>2, ElementOfSeq DEF Pairs, At
  <2>2. \A sym : Parse(sym) \in Int
    BY SymbolMapAssumption DEF Parse, NONE
  <2> QED
    BY <2>1, <2>2 DEF IidAt
<1>4. ASSUME NEW p \in Pairs(md), NEW q \in Pairs(md), p[1] = q[1], p[2] < q[2]
      PROVE  At(md, p).end_date <= At(md, q).start_date
  BY <1>1, <1>4 DEF Pairs, At
<1>5. Len(md.mappings) \in Nat
  BY <1>1
<1>6. \A i \in 1..Len(md.mappings) : Len(md.mappings[i].intervals) \in Nat
  BY <1>2
<1> QED
  BY <1>1, <1>3, <1>4, <1>5, <1>6

\* The indices of an interval.
LEMMA PairsFacts ==
    ASSUME NEW md \in Metas, NEW p \in Pairs(md)
    PROVE  /\ p = <<p[1], p[2]>> /\ p[1] \in Nat /\ p[2] \in Nat
           /\ 1 <= p[1] /\ p[1] <= Len(md.mappings)
           /\ 1 <= p[2] /\ p[2] <= Len(md.mappings[p[1]].intervals)
<1>1. /\ p \in Nat \X Nat /\ p[1] \in 1..Len(md.mappings)
      /\ p[2] \in 1..Len(md.mappings[p[1]].intervals)
  BY DEF Pairs
<1>2. Len(md.mappings) \in Nat /\ Len(md.mappings[p[1]].intervals) \in Nat
  BY <1>1, MetadataFacts
<1>3. p = <<p[1], p[2]>> /\ p[1] \in Nat /\ p[2] \in Nat
  BY <1>1
<1> QED
  BY <1>1, <1>2, <1>3

-----------------------------------------------------------------------------
(* Filling a map. *)

\* A pair and its parts.
LEMMA PairFacts ==
    ASSUME NEW S, NEW T, NEW x \in S \X T
    PROVE  x = <<x[1], x[2]>> /\ x[1] \in S /\ x[2] \in T
OBVIOUS

\* No interval, no entry.
LEMMA FilledEmpty ==
    ASSUME NEW md, NEW D, NEW f, DOMAIN f = {} PROVE Filled(md, D, f, {})
BY DEF Filled

\* Intervals that give no symbol on the days of the map change nothing.
LEMMA FilledMore ==
    ASSUME NEW md, NEW D, NEW f, NEW P, NEW Q, Filled(md, D, f, P),
           \A q \in Q : At(md, q).symbol = NoSymbol \/ Days(At(md, q)) \cap D = {}
    PROVE  Filled(md, D, f, P \cup Q)
<1>1. ASSUME NEW q \in Q, NEW x \in DOMAIN f PROVE ~Gives(md, q, x)
  <2>1. x[1] \in D
    BY DEF Filled
  <2> QED
    BY <2>1 DEF Gives
<1>2. \A x \in DOMAIN f : \E p \in P \cup Q :
          /\ Gives(md, p, x) /\ f[x] = TextAt(md, p)
          /\ \A q \in P \cup Q : Gives(md, q, x) => q[1] <= p[1]
  BY <1>1 DEF Filled
<1> QED
  BY <1>2 DEF Filled

\* Inserting the symbol of an interval for each of its days, after those of the mappings
\* before it, overrides what they said.
LEMMA FilledInsert ==
    ASSUME NEW md, NEW D \in SUBSET Int, NEW f, NEW P, Filled(md, D, f, P),
           NEW p, At(md, p).symbol # NoSymbol, IidAt(md, p) \in Int,
           \A q \in P \cup {p} : q[1] <= p[1],
           NEW g,
           DOMAIN g = DOMAIN f \cup ((Days(At(md, p)) \cap D) \X {IidAt(md, p)}),
           \A x \in DOMAIN g :
              g[x] = IF x \in (Days(At(md, p)) \cap D) \X {IidAt(md, p)}
                     THEN TextAt(md, p) ELSE f[x]
    PROVE  Filled(md, D, g, P \cup {p})
<1> DEFINE new == (Days(At(md, p)) \cap D) \X {IidAt(md, p)}
<1>1. DOMAIN g \subseteq D \X Int
  BY DEF Filled
<1>2. \A q \in P \cup {p} : At(md, q).symbol # NoSymbol =>
          \A d \in Days(At(md, q)) \cap D : <<d, IidAt(md, q)>> \in DOMAIN g
  BY DEF Filled
<1>3. ASSUME NEW x \in DOMAIN g
      PROVE  \E b \in P \cup {p} : /\ Gives(md, b, x) /\ g[x] = TextAt(md, b)
                                   /\ \A q \in P \cup {p} : Gives(md, q, x) => q[1] <= b[1]
  <2>1. CASE x \in new
    <3>1. Gives(md, p, x) /\ g[x] = TextAt(md, p)
      BY <2>1 DEF Gives
    <3>2. \A q \in P \cup {p} : Gives(md, q, x) => q[1] <= p[1]
      OBVIOUS
    <3> QED
      BY <3>1, <3>2
  <2>2. CASE x \notin new
    <3>1. x \in DOMAIN f /\ g[x] = f[x]
      BY <2>2
    <3>2. ~Gives(md, p, x)
      <4>1. x \in D \X Int
        BY <1>1
      <4> QED
        BY <2>2, <4>1 DEF Gives
    <3>3. PICK b \in P : /\ Gives(md, b, x) /\ f[x] = TextAt(md, b)
                         /\ \A q \in P : Gives(md, q, x) => q[1] <= b[1]
      BY <3>1 DEF Filled
    <3> QED
      BY <3>1, <3>2, <3>3
  <2> QED
    BY <2>1, <2>2
<1> QED
  BY <1>1, <1>2, <1>3 DEF Filled

\* Two maps of the same intervals agree on the days they both have: of the intervals of
\* one mapping only one covers a day.
LEMMA FilledAgree ==
    ASSUME NEW md \in Metas, NEW D, NEW E \in SUBSET Int, E \subseteq D, NEW f, NEW g,
           NEW P \in SUBSET Pairs(md), Filled(md, D, f, P), Filled(md, E, g, P),
           NEW x \in E \X Int
    PROVE  /\ x \in DOMAIN f <=> x \in DOMAIN g
           /\ x \in DOMAIN f => f[x] = g[x]
<1>1. x \in DOMAIN f <=> x \in DOMAIN g
  <2>1. ASSUME NEW p \in P, Gives(md, p, x) PROVE x \in DOMAIN f /\ x \in DOMAIN g
    <3>1. x = <<x[1], x[2]>> /\ x[1] \in E /\ x[1] \in D
      BY PairFacts
    <3>2. x[2] = IidAt(md, p) /\ x[1] \in Days(At(md, p)) /\ At(md, p).symbol # NoSymbol
      BY <2>1 DEF Gives
    <3>3. <<x[1], IidAt(md, p)>> \in DOMAIN f /\ <<x[1], IidAt(md, p)>> \in DOMAIN g
      BY <3>1, <3>2 DEF Filled
    <3> QED
      BY <3>1, <3>2, <3>3
  <2> QED
    BY <2>1 DEF Filled
<1>2. ASSUME x \in DOMAIN f PROVE f[x] = g[x]
  <2>1. PICK p \in P : /\ Gives(md, p, x) /\ f[x] = TextAt(md, p)
                       /\ \A r \in P : Gives(md, r, x) => r[1] <= p[1]
    BY <1>2 DEF Filled
  <2>2. PICK q \in P : /\ Gives(md, q, x) /\ g[x] = TextAt(md, q)
                       /\ \A r \in P : Gives(md, r, x) => r[1] <= q[1]
    BY <1>1, <1>2 DEF Filled
  <2>3. p \in Nat \X Nat /\ q \in Nat \X Nat /\ p[1] = q[1]
    <3>1. p \in Nat \X Nat /\ q \in Nat \X Nat
      BY DEF Pairs
    <3> QED
      BY <2>1, <2>2, <3>1
  <2>4. /\ At(md, p) \in MappingInterval /\ x[1] \in Days(At(md, p))
        /\ At(md, q) \in MappingInterval /\ x[1] \in Days(At(md, q))
    BY <2>1, <2>2, MetadataFacts DEF Gives
  <2>5. /\ At(md, p).start_date <= x[1] /\ x[1] < At(md, p).end_date
        /\ At(md, q).start_date <= x[1] /\ x[1] < At(md, q).end_date
        /\ At(md, p).start_date \in Nat /\ At(md, p).end_date \in Nat
        /\ At(md, q).start_date \in Nat /\ At(md, q).end_date \in Nat /\ x[1] \in Int
    BY <2>4 DEF Days, MappingInterval
  <2>6. ~(p[2] < q[2])
    <3>1. p[2] < q[2] => At(md, p).end_date <= At(md, q).start_date
      BY <2>3, MetadataFacts
    <3> QED
      BY <2>5, <3>1
  <2>7. ~(q[2] < p[2])
    <3>1. q[2] < p[2] => At(md, q).end_date <= At(md, p).start_date
      BY <2>3, MetadataFacts
    <3> QED
      BY <2>5, <3>1
  <2>8. p = q
    BY <2>3, <2>6, <2>7
  <2> QED
    BY <2>1, <2>2, <2>8
<1> QED
  BY <1>1, <1>2

-----------------------------------------------------------------------------
(* TsSymbolMap. *)

\* Both maps are empty at first.
LEMMA InitSymbolMap == Init => SymbolMapInv
<1> SUFFICES ASSUME Init PROVE SymbolMapInv
  OBVIOUS
<1>1. /\ metadata \in Metas /\ date \in Dates /\ m = 1 /\ k = 1 /\ pc = "ts"
      /\ ts_result = "none" /\ pit_result = "none" /\ latest = Empty /\ pit_map = Empty
      /\ DOMAIN ts_map = {}
  BY DEF Init, Empty
<1>2. TsPassed = {}
  <2>1. \A i, j \in Nat : i >= 1 /\ j >= 1 => ~(i < 1 \/ (i = 1 /\ j < 1))
    OBVIOUS
  <2>2. \A p \in Pairs(metadata) : p[1] \in Nat /\ p[2] \in Nat /\ p[1] >= 1 /\ p[2] >= 1
    BY <1>1, PairsFacts
  <2> QED
    BY <1>1, <2>1, <2>2 DEF TsPassed
<1>3. ControlInv
  BY <1>1 DEF ControlInv
<1>4. TsInv
  BY <1>1, <1>2, FilledEmpty DEF TsInv, Parsed
<1> QED
  BY <1>1, <1>3, <1>4 DEF SymbolMapInv, PitInv, RangeInv, MapsAgree

\* The second constructor starts with an empty map and at the first mapping.
LEMMA PitStarts ==
    ASSUME metadata' \in Metas, pit_map' = Empty, m' = 1 PROVE PitInv'
<1>1. PitPassed' = {}
  <2>1. \A p \in Pairs(metadata') : p[1] \in Nat /\ p[1] >= 1
    BY DEF Pairs
  <2> QED
    BY <2>1 DEF PitPassed
<1>2. DOMAIN Dated(date', pit_map') = {} /\ pit_map' = [i \in DOMAIN pit_map' |-> pit_map'[i]]
  BY DEF Dated, Empty
<1>3. Filled(metadata', {date'}, Dated(date', pit_map'), {})
  BY <1>2 DEF Filled
<1> QED
  BY <1>1, <1>2, <1>3 DEF PitInv

\* An error leaves no map.
LEMMA TsFailsInv == ASSUME SymbolMapInv, TsFails PROVE SymbolMapInv'
<1>1. /\ pc = "ts" /\ pc' = "pit" /\ ts_result' = "err" /\ m' = 1 /\ k' = 1
      /\ UNCHANGED <<metadata, date, pit_map, pit_result, latest, live>>
      /\ metadata \in Metas /\ date \in Dates /\ pit_map = Empty /\ latest = Empty
      /\ pit_result = "none"
  BY DEF SymbolMapInv, ControlInv, TsFails, built
<1>2. ControlInv'
  BY <1>1 DEF ControlInv
<1>3. PitInv'
  BY <1>1, PitStarts
<1> QED
  BY <1>1, <1>2, <1>3 DEF SymbolMapInv, TsInv, RangeInv, MapsAgree

\* Each interval adds what it says.
LEMMA TsIntervalInv == ASSUME SymbolMapInv, TsInterval PROVE SymbolMapInv'
<1>1. /\ pc = "ts" /\ HasIds /\ Left /\ LeftInMapping /\ k' = k + 1
      /\ Interval.symbol # NoSymbol => Iid(Interval) # NONE
      /\ ts_map' = IF Interval.symbol = NoSymbol THEN ts_map
                   ELSE InsertAll([x \in Days(Interval) \X {Iid(Interval)} |-> Text(Interval)],
                                  ts_map)
      /\ UNCHANGED <<metadata, date, pit_map, m, pc, ts_result, pit_result, latest, live>>
      /\ metadata \in Metas /\ m \in Nat /\ m >= 1 /\ k \in Nat /\ k >= 1
      /\ ts_result = "none" /\ pit_result = "none"
  BY DEF SymbolMapInv, ControlInv, TsInterval, built
<1> DEFINE p == <<m, k>>
<1>2. /\ p \in Pairs(metadata) /\ At(metadata, p) = Interval
      /\ IidAt(metadata, p) = Iid(Interval) /\ TextAt(metadata, p) = Text(Interval)
  <2>1. p \in Pairs(metadata)
    BY <1>1, MetadataFacts DEF Pairs, Left, LeftInMapping, Mapping
  <2> QED
    BY <2>1 DEF At, IidAt, TextAt, Interval, Mapping, Iid, Text, IsInverse
<1>3. /\ TsPassed' = TsPassed \cup {p}
      /\ \A q \in TsPassed \cup {p} : q[1] <= m
  <2>1. \A q \in Pairs(metadata) : q = <<q[1], q[2]>> /\ q[1] \in Nat /\ q[2] \in Nat
    BY <1>1, PairsFacts
  <2>2. Pairs(metadata') = Pairs(metadata)
    BY <1>1
  <2>3. TsPassed = {q \in Pairs(metadata) : q[1] < m \/ (q[1] = m /\ q[2] < k)}
    BY <1>1 DEF TsPassed
  <2>4. TsPassed' = {q \in Pairs(metadata) : q[1] < m \/ (q[1] = m /\ q[2] < k + 1)}
    BY <1>1, <2>2 DEF TsPassed
  <2>5. \A a, b \in Nat : /\ b < k + 1 <=> (b < k \/ b = k)
                          /\ (a < m \/ a = m) => a <= m
    BY <1>1
  <2>6. \A q \in Pairs(metadata) : q = p <=> q[1] = m /\ q[2] = k
    BY <2>1
  <2>7. TsPassed' = TsPassed \cup {p}
    BY <1>2, <2>1, <2>3, <2>4, <2>5, <2>6
  <2>8. \A q \in TsPassed \cup {p} : q[1] <= m
    BY <1>1, <1>2, <2>1, <2>3, <2>5, <2>6
  <2> QED
    BY <2>7, <2>8
<1>4. Filled(metadata, Int, ts_map, TsPassed) /\ Parsed(metadata, TsPassed)
  BY <1>1 DEF SymbolMapInv, TsInv
<1>5. p[1] = m
  OBVIOUS
<1> HIDE DEF p
<1>6. Filled(metadata, Int, ts_map', TsPassed \cup {p})
  <2>1. CASE Interval.symbol = NoSymbol
    BY <1>1, <1>2, <1>4, <2>1, FilledMore
  <2>2. CASE Interval.symbol # NoSymbol
    <3> DEFINE new == (Days(At(metadata, p)) \cap Int) \X {IidAt(metadata, p)}
    <3>1. Days(At(metadata, p)) \cap Int = Days(At(metadata, p))
      BY DEF Days
    <3>2. ts_map' = InsertAll([x \in new |-> TextAt(metadata, p)], ts_map)
      BY <1>1, <1>2, <2>2, <3>1
    <3>3. /\ DOMAIN ts_map' = DOMAIN ts_map \cup new
          /\ \A x \in DOMAIN ts_map' :
                ts_map'[x] = IF x \in new THEN TextAt(metadata, p) ELSE ts_map[x]
      BY <3>2 DEF InsertAll
    <3>4. IidAt(metadata, p) \in Int /\ At(metadata, p).symbol # NoSymbol /\ Int \in SUBSET Int
      BY <1>1, <1>2, <2>2, MetadataFacts
    <3>5. \A q \in TsPassed \cup {p} : q[1] <= p[1]
      BY <1>3, <1>5
    <3> QED
      BY <1>4, <3>3, <3>4, <3>5, FilledInsert
  <2> QED
    BY <2>1, <2>2
<1>7. TsInv'
  <2>1. Filled(metadata', Int, ts_map', TsPassed')
    BY <1>1, <1>3, <1>6
  <2>2. Parsed(metadata', TsPassed')
    BY <1>1, <1>2, <1>3, <1>4 DEF Parsed
  <2> QED
    BY <1>1, <2>1, <2>2 DEF TsInv
<1>8. ControlInv'
  BY <1>1 DEF SymbolMapInv, ControlInv
<1> QED
  BY <1>1, <1>7, <1>8 DEF SymbolMapInv, PitInv, RangeInv, MapsAgree

\* At the end of a mapping, or of the last one, nothing is left out.
LEMMA TsMappingInv == ASSUME SymbolMapInv, TsMapping \/ TsDone PROVE SymbolMapInv'
<1>1. /\ pc = "ts" /\ pc' \in {"ts", "pit"} /\ HasIds
      /\ ts_result' = IF pc' = "ts" THEN "none" ELSE "ok"
      /\ IF pc' = "ts" THEN Left /\ ~LeftInMapping /\ m' = m + 1 /\ k' = 1
                       ELSE ~Left /\ m' = 1 /\ k' = k
      /\ UNCHANGED <<metadata, date, ts_map, pit_map, pit_result, latest, live>>
      /\ metadata \in Metas /\ date \in Dates /\ m \in Nat /\ m >= 1 /\ k \in Nat /\ k >= 1
      /\ pit_map = Empty /\ latest = Empty /\ ts_result = "none" /\ pit_result = "none"
  BY DEF SymbolMapInv, ControlInv, TsMapping, TsDone, built
<1>2. TsPassed' = TsPassed
  <2>1. \A q \in Pairs(metadata) : /\ q[1] \in Nat /\ q[2] \in Nat /\ q[1] <= Len(metadata.mappings)
                         /\ q[2] <= Len(metadata.mappings[q[1]].intervals) /\ q[2] >= 1
    BY <1>1, PairsFacts
  <2>2. Pairs(metadata') = Pairs(metadata)
    BY <1>1
  <2>3. TsPassed = {q \in Pairs(metadata) : q[1] < m \/ (q[1] = m /\ q[2] < k)}
    BY <1>1 DEF TsPassed
  <2>4. CASE pc' = "ts"
    <3>1. TsPassed' = {q \in Pairs(metadata) : q[1] < m + 1 \/ (q[1] = m + 1 /\ q[2] < 1)}
      BY <1>1, <2>2, <2>4 DEF TsPassed
    <3>2. \A q \in Pairs(metadata) : q[1] = m => q[2] < k
      <4>1. Len(metadata.mappings[m].intervals) \in Nat
        BY <1>1, <2>4, MetadataFacts DEF Left
      <4>2. ~(k <= Len(metadata.mappings[m].intervals))
        BY <1>1, <2>4 DEF LeftInMapping, Mapping
      <4> QED
        BY <1>1, <2>1, <4>1, <4>2
    <3>3. \A a, b \in Nat : b >= 1 =>
             ((a < m + 1 \/ (a = m + 1 /\ b < 1)) <=> (a < m \/ a = m))
      BY <1>1
    <3> QED
      BY <2>1, <2>3, <3>1, <3>2, <3>3
  <2>5. CASE pc' = "pit"
    <3>1. TsPassed' = Pairs(metadata)
      BY <1>1, <2>2, <2>5 DEF TsPassed
    <3>2. \A q \in Pairs(metadata) : q[1] < m
      BY <1>1, <2>1, <2>5, MetadataFacts DEF Left
    <3> QED
      BY <2>3, <3>1, <3>2
  <2> QED
    BY <1>1, <2>4, <2>5
<1>3. TsInv'
  <2>1. Filled(metadata, Int, ts_map, TsPassed) /\ Parsed(metadata, TsPassed)
    BY <1>1 DEF SymbolMapInv, TsInv
  <2>2. Filled(metadata', Int, ts_map', TsPassed')
    BY <1>1, <1>2, <2>1
  <2>3. Parsed(metadata', TsPassed')
    BY <1>1, <1>2, <2>1
  <2>4. HasIds'
    BY <1>1 DEF HasIds
  <2> QED
    BY <2>2, <2>3, <2>4 DEF TsInv
<1>4. ControlInv'
  BY <1>1 DEF ControlInv
<1>5. PitInv'
  BY <1>1, PitStarts DEF PitInv
<1> QED
  BY <1>1, <1>3, <1>4, <1>5 DEF SymbolMapInv, RangeInv, MapsAgree

-----------------------------------------------------------------------------
(* PitSymbolMap. *)

\* find() returns the only interval of the mapping that covers the date, if there is one
\* and it has a symbol.
LEMMA FoundFacts ==
    ASSUME metadata \in Metas, date \in Dates, m \in Nat, m >= 1, Left
    PROVE  \/ /\ Found = {}
              /\ \A q \in Pairs(metadata) : q[1] = m =>
                    \/ At(metadata, q).symbol = NoSymbol
                    \/ Days(At(metadata, q)) \cap {date} = {}
           \/ \E p \in Pairs(metadata) :
                 /\ p[1] = m /\ Found = {At(metadata, p)} /\ At(metadata, p).symbol # NoSymbol
                 /\ date \in Days(At(metadata, p))
                 /\ Iid(At(metadata, p)) = IidAt(metadata, p)
                 /\ Text(At(metadata, p)) = TextAt(metadata, p)
                 /\ \A q \in Pairs(metadata) \ {p} :
                       q[1] = m => Days(At(metadata, q)) \cap {date} = {}
<1> DEFINE ints == metadata.mappings[m].intervals
           ks   == {j \in 1..Len(ints) : Covers(ints[j])}
<1>1. /\ Len(metadata.mappings) \in Nat /\ m \in 1..Len(metadata.mappings)
      /\ Len(ints) \in Nat /\ date \in Nat
  <2>1. Len(metadata.mappings) \in Nat /\ m \in 1..Len(metadata.mappings)
    BY MetadataFacts DEF Left
  <2>2. Len(ints) \in Nat /\ date \in Nat
    BY <2>1, MetadataFacts, SymbolMapAssumption
  <2> QED
    BY <2>1, <2>2
<1>2. ASSUME NEW j \in 1..Len(ints)
      PROVE  /\ <<m, j>> \in Pairs(metadata) /\ At(metadata, <<m, j>>) = ints[j]
             /\ ints[j] \in MappingInterval
             /\ Covers(ints[j]) <=> date \in Days(ints[j])
  <2>1. <<m, j>> \in Pairs(metadata) /\ At(metadata, <<m, j>>) = ints[j]
    BY <1>1 DEF Pairs, At
  <2>2. ints[j] \in MappingInterval
    BY <2>1, MetadataFacts
  <2>3. ints[j].start_date \in Nat /\ ints[j].end_date \in Nat
    BY <2>2 DEF MappingInterval
  <2>4. Covers(ints[j]) <=> date \in Days(ints[j])
    BY <1>1, <2>3 DEF Covers, Days
  <2> QED
    BY <2>1, <2>2, <2>4
<1>3. ASSUME NEW i \in ks, NEW j \in ks PROVE ~(i < j)
  <2>1. i \in 1..Len(ints) /\ j \in 1..Len(ints) /\ Covers(ints[i]) /\ Covers(ints[j])
    OBVIOUS
  <2>2. <<m, i>> \in Pairs(metadata) /\ <<m, j>> \in Pairs(metadata)
    BY <1>2, <2>1
  <2>3. i < j => ints[i].end_date <= ints[j].start_date
    <3>1. <<m, i>>[1] = m /\ <<m, j>>[1] = m /\ <<m, i>>[2] = i /\ <<m, j>>[2] = j
      OBVIOUS
    <3>2. i < j => At(metadata, <<m, i>>).end_date <= At(metadata, <<m, j>>).start_date
      BY <2>2, <3>1, MetadataFacts
    <3> QED
      BY <1>2, <2>1, <3>2
  <2>4. /\ ints[i].start_date \in Nat /\ ints[i].end_date \in Nat
        /\ ints[j].start_date \in Nat /\ ints[j].end_date \in Nat
    <3>1. ints[i] \in MappingInterval /\ ints[j] \in MappingInterval
      BY <1>2, <2>1
    <3> QED
      BY <3>1 DEF MappingInterval
  <2> QED
    BY <1>1, <2>1, <2>3, <2>4 DEF Covers
<1>4. ASSUME NEW q \in Pairs(metadata), q[1] = m, date \in Days(At(metadata, q))
      PROVE  q = <<m, q[2]>> /\ q[2] \in ks
  <2>1. q = <<m, q[2]>> /\ q[2] \in 1..Len(ints)
    BY <1>4, PairsFacts DEF Pairs
  <2> QED
    BY <1>2, <1>4, <2>1
<1>5. Found = IF ks = {} \/ ints[Min(ks)].symbol = NoSymbol THEN {} ELSE {ints[Min(ks)]}
  BY DEF Found, Mapping
<1>6. CASE ks = {}
  <2>1. Found = {}
    BY <1>5, <1>6
  <2>2. \A q \in Pairs(metadata) : q[1] = m => Days(At(metadata, q)) \cap {date} = {}
    BY <1>4, <1>6
  <2> QED
    BY <2>1, <2>2
<1>7. ASSUME NEW j \in ks
      PROVE  /\ ks = {j} /\ Min(ks) = j
             /\ \A q \in Pairs(metadata) \ {<<m, j>>} :
                   q[1] = m => Days(At(metadata, q)) \cap {date} = {}
  <2>1. ks = {j}
    <3>1. \A i \in ks : ~(i < j) /\ ~(j < i)
      BY <1>3
    <3>2. \A i \in ks : i \in Nat /\ j \in Nat
      BY <1>1
    <3> QED
      BY <3>1, <3>2
  <2>2. Min(ks) = j
    <3>1. j \in Nat /\ j <= j
      BY <1>1
    <3> HIDE DEF ks
    <3> QED
      BY <2>1, <3>1 DEF Min
  <2>3. \A q \in Pairs(metadata) \ {<<m, j>>} :
           q[1] = m => Days(At(metadata, q)) \cap {date} = {}
    BY <1>4, <2>1
  <2> QED
    BY <2>1, <2>2, <2>3
<1>8. CASE ks # {}
  <2>1. PICK j \in ks : TRUE
    BY <1>8
  <2>2. /\ ks # {} /\ Min(ks) = j
        /\ \A q \in Pairs(metadata) \ {<<m, j>>} :
              q[1] = m => Days(At(metadata, q)) \cap {date} = {}
    BY <1>7, <1>8
  <2>3. j \in 1..Len(ints) /\ Covers(ints[j])
    OBVIOUS
  <2>4. /\ <<m, j>> \in Pairs(metadata) /\ At(metadata, <<m, j>>) = ints[j]
        /\ date \in Days(ints[j])
    BY <1>2, <2>3
  <2> HIDE DEF ints, ks
  <2>5. CASE ints[j].symbol = NoSymbol
    <3>1. Found = {}
      BY <1>5, <2>2, <2>5
    <3> QED
      BY <2>2, <2>4, <2>5, <3>1
  <2>6. CASE ints[j].symbol # NoSymbol
    <3> DEFINE p == <<m, j>>
    <3>1. Found = {At(metadata, p)}
      BY <1>5, <2>2, <2>4, <2>6
    <3>2. p[1] = m
      OBVIOUS
    <3>3. /\ Iid(At(metadata, p)) = IidAt(metadata, p)
          /\ Text(At(metadata, p)) = TextAt(metadata, p)
      BY <3>2 DEF Iid, Text, IidAt, TextAt, IsInverse, Mapping
    <3> HIDE DEF p
    <3> QED
      BY <2>2, <2>4, <2>6, <3>1, <3>2, <3>3 DEF p
  <2> QED
    BY <2>5, <2>6
<1> QED
  BY <1>6, <1>8

\* What a step of the second constructor leaves alone.
LEMMA TsKept ==
    ASSUME SymbolMapInv, pc # "ts", pc' # "ts", UNCHANGED <<metadata, ts_map, ts_result>>
    PROVE  TsInv'
<1>1. TsPassed' = TsPassed /\ HasIds' = HasIds
  BY DEF TsPassed, HasIds
<1> QED
  BY <1>1 DEF SymbolMapInv, TsInv

\* The date is refused only if it is out of range: the first constructor parsed every symbol.
LEMMA PitFailsInv == ASSUME SymbolMapInv, PitFails PROVE SymbolMapInv'
<1>1. /\ pc = "pit" /\ pc' = "live" /\ pit_result' = "err"
      /\ \/ ~HasIds \/ ~InRange
         \/ Left /\ \E int \in Found : Iid(int) = NONE
      /\ UNCHANGED <<metadata, date, ts_map, m, k, ts_result, latest, live>>
      /\ metadata \in Metas /\ date \in Dates /\ m \in Nat /\ m >= 1
  BY DEF SymbolMapInv, ControlInv, PitFails, built
<1>2. InRange' = InRange
  BY <1>1 DEF InRange, DateOf, Midnight
<1>3. ASSUME ts_result = "ok" PROVE ~InRange
  <2>1. HasIds /\ Parsed(metadata, TsPassed) /\ TsPassed = Pairs(metadata)
    BY <1>1, <1>3 DEF SymbolMapInv, TsInv, TsPassed
  <2>2. Left => \A int \in Found : Iid(int) # NONE
    BY <1>1, <2>1, FoundFacts DEF Parsed
  <2> QED
    BY <1>1, <2>1, <2>2
<1>4. ControlInv'
  BY <1>1 DEF SymbolMapInv, ControlInv
<1>5. RangeInv'
  BY <1>1, <1>2, <1>3 DEF RangeInv
<1>6. TsInv'
  BY <1>1, TsKept
<1> QED
  BY <1>1, <1>4, <1>5, <1>6 DEF SymbolMapInv, PitInv, MapsAgree

\* Each mapping adds what its interval for the date says.
LEMMA PitMappingInv == ASSUME SymbolMapInv, PitMapping PROVE SymbolMapInv'
<1>1. /\ pc = "pit" /\ Left /\ m' = m + 1
      /\ pit_map' = InsertAll([i \in {Iid(int) : int \in Found} |->
                                 Text(CHOOSE int \in Found : TRUE)], pit_map)
      /\ UNCHANGED <<metadata, date, ts_map, k, pc, ts_result, pit_result, latest, live>>
      /\ metadata \in Metas /\ date \in Dates /\ m \in Nat /\ m >= 1 /\ pit_result = "none"
      /\ pit_map = [i \in DOMAIN pit_map |-> pit_map[i]]
      /\ Filled(metadata, {date}, Dated(date, pit_map), PitPassed)
  BY DEF SymbolMapInv, ControlInv, PitInv, PitMapping, built
<1> DEFINE here == {q \in Pairs(metadata) : q[1] = m}
<1>2. /\ PitPassed' = PitPassed \cup here
      /\ \A q \in PitPassed : q[1] <= m
  <2>1. PitPassed' = {q \in Pairs(metadata) : q[1] < m + 1}
    BY <1>1 DEF PitPassed
  <2>2. \A q \in Pairs(metadata) : q[1] \in Nat
    BY <1>1, PairsFacts
  <2>3. \A a \in Nat : (a < m + 1 <=> a < m \/ a = m) /\ (a < m => a <= m)
    BY <1>1
  <2> QED
    BY <2>1, <2>2, <2>3 DEF PitPassed
<1>3. date \in Int /\ m <= m /\ {date} \in SUBSET Int
  BY <1>1, SymbolMapAssumption
<1>4. Filled(metadata, {date}, Dated(date, pit_map'), PitPassed \cup here)
  <2>1. CASE /\ Found = {}
             /\ \A q \in Pairs(metadata) : q[1] = m =>
                   \/ At(metadata, q).symbol = NoSymbol
                   \/ Days(At(metadata, q)) \cap {date} = {}
    <3>1. {Iid(int) : int \in Found} = {}
      BY <2>1
    <3>2. DOMAIN pit_map' = DOMAIN pit_map /\ \A i \in DOMAIN pit_map : pit_map'[i] = pit_map[i]
      BY <1>1, <3>1 DEF InsertAll
    <3>3. Dated(date, pit_map') = Dated(date, pit_map)
      BY <3>2 DEF Dated
    <3> QED
      BY <1>1, <2>1, <3>3, FilledMore
  <2>2. ASSUME NEW p \in Pairs(metadata),
               p[1] = m, Found = {At(metadata, p)}, At(metadata, p).symbol # NoSymbol,
               date \in Days(At(metadata, p)),
               Iid(At(metadata, p)) = IidAt(metadata, p),
               Text(At(metadata, p)) = TextAt(metadata, p),
               \A q \in Pairs(metadata) \ {p} :
                  q[1] = m => Days(At(metadata, q)) \cap {date} = {}
        PROVE  Filled(metadata, {date}, Dated(date, pit_map'), PitPassed \cup here)
    <3> DEFINE iid == IidAt(metadata, p)
               txt == TextAt(metadata, p)
               new == (Days(At(metadata, p)) \cap {date}) \X {iid}
               f   == Dated(date, pit_map)
               g   == Dated(date, pit_map')
    <3>1. {Iid(int) : int \in Found} = {iid} /\ Text(CHOOSE int \in Found : TRUE) = txt
      BY <2>2
    <3>2. pit_map' = InsertAll([i \in {iid} |-> txt], pit_map)
      BY <1>1, <3>1
    <3>3. /\ DOMAIN pit_map' = DOMAIN pit_map \cup {iid}
          /\ \A i \in DOMAIN pit_map' : pit_map'[i] = IF i = iid THEN txt ELSE pit_map[i]
      BY <3>2 DEF InsertAll
    <3>4. new = {date} \X {iid}
      BY <2>2
    <3>5. DOMAIN g = DOMAIN f \cup new
      BY <3>3, <3>4 DEF Dated
    <3>6. ASSUME NEW x \in DOMAIN g PROVE g[x] = IF x \in new THEN txt ELSE f[x]
      <4>1. x \in {date} \X DOMAIN pit_map' /\ g[x] = pit_map'[x[2]]
        BY DEF Dated
      <4>2. x = <<date, x[2]>> /\ x[2] \in DOMAIN pit_map'
        BY <4>1
      <4>3. x \in new <=> x[2] = iid
        BY <3>4, <4>2
      <4>4. x[2] # iid => x \in DOMAIN f /\ f[x] = pit_map[x[2]]
        BY <3>3, <4>2 DEF Dated
      <4> QED
        BY <3>3, <4>1, <4>2, <4>3, <4>4
    <3>7. iid \in Int
      BY <1>1, MetadataFacts
    <3>8. \A q \in PitPassed \cup {p} : q[1] <= p[1]
      BY <1>2, <1>3, <2>2
    <3> HIDE DEF f, g
    <3>9. Filled(metadata, {date}, g, PitPassed \cup {p})
      BY <1>1, <1>3, <2>2, <3>5, <3>6, <3>7, <3>8, FilledInsert DEF f
    <3>10. Filled(metadata, {date}, g, (PitPassed \cup {p}) \cup (here \ {p}))
      BY <2>2, <3>9, FilledMore
    <3>11. (PitPassed \cup {p}) \cup (here \ {p}) = PitPassed \cup here
      BY <2>2
    <3> QED
      BY <3>10, <3>11 DEF g
  <2> QED
    BY <1>1, <2>1, <2>2, FoundFacts
<1>5. PitInv'
  <2>1. pit_map' = [i \in DOMAIN pit_map' |-> pit_map'[i]]
    BY <1>1 DEF InsertAll
  <2> QED
    BY <1>1, <1>2, <1>4, <2>1 DEF PitInv
<1>6. ControlInv'
  BY <1>1 DEF SymbolMapInv, ControlInv
<1>7. TsInv'
  BY <1>1, TsKept
<1> QED
  BY <1>1, <1>5, <1>6, <1>7 DEF SymbolMapInv, RangeInv, MapsAgree

\* Then the two maps agree on the date.
LEMMA PitDoneInv == ASSUME SymbolMapInv, PitDone PROVE SymbolMapInv'
<1>1. /\ pc = "pit" /\ pc' = "live" /\ pit_result' = "ok" /\ InRange /\ ~Left
      /\ UNCHANGED <<metadata, date, ts_map, pit_map, m, k, ts_result, latest, live>>
      /\ metadata \in Metas /\ date \in Dates /\ m \in Nat /\ m >= 1 /\ latest = Empty
      /\ pit_map = [i \in DOMAIN pit_map |-> pit_map[i]]
      /\ Filled(metadata, {date}, Dated(date, pit_map), PitPassed)
  BY DEF SymbolMapInv, ControlInv, PitInv, PitDone, built
<1>2. RangeInv'
  <2>1. InRange' = InRange
    BY <1>1 DEF InRange, DateOf, Midnight
  <2> QED
    BY <1>1, <2>1 DEF RangeInv
<1>3. ASSUME ts_result = "ok" PROVE pit_map = InsertAll(Empty, SliceOn(date))
  <2>1. PitPassed = Pairs(metadata)
    <3>1. \A q \in Pairs(metadata) : q[1] < m
      <4>1. \A q \in Pairs(metadata) : q[1] \in Nat /\ q[1] <= Len(metadata.mappings)
        BY <1>1, PairsFacts
      <4>2. Len(metadata.mappings) \in Nat /\ ~(m <= Len(metadata.mappings))
        BY <1>1, MetadataFacts DEF Left
      <4> QED
        BY <1>1, <4>1, <4>2
    <3> QED
      BY <3>1 DEF PitPassed
  <2>2. Filled(metadata, Int, ts_map, Pairs(metadata))
    BY <1>1, <1>3 DEF SymbolMapInv, TsInv, TsPassed
  <2>3. {date} \in SUBSET Int /\ {date} \subseteq Int
    BY <1>1, SymbolMapAssumption
  <2> DEFINE g == Dated(date, pit_map)
             slice == SliceOn(date)
  <2>4. \A x \in {date} \X Int : /\ x \in DOMAIN ts_map <=> x \in DOMAIN g
                                 /\ x \in DOMAIN ts_map => ts_map[x] = g[x]
    BY <1>1, <2>1, <2>2, <2>3, FilledAgree
  <2>5. DOMAIN ts_map \subseteq Int \X Int /\ DOMAIN g \subseteq {date} \X Int
    BY <1>1, <2>2 DEF Filled
  <2>6. /\ DOMAIN g = {date} \X DOMAIN pit_map
        /\ \A i \in DOMAIN pit_map : g[<<date, i>>] = pit_map[i]
    BY DEF Dated
  <2>7. DOMAIN pit_map \subseteq Int
    <3> SUFFICES ASSUME NEW i \in DOMAIN pit_map PROVE i \in Int
      OBVIOUS
    <3>1. <<date, i>> \in {date} \X DOMAIN pit_map
      OBVIOUS
    <3>2. <<date, i>> \in {date} \X Int
      BY <2>5, <2>6, <3>1
    <3> QED
      BY <3>2
  <2> HIDE DEF g
  <2>8. /\ DOMAIN slice = {x[2] : x \in {y \in DOMAIN ts_map : y[1] = date}}
        /\ \A i \in DOMAIN slice : slice[i] = ts_map[<<date, i>>]
    BY DEF SliceOn
  <2> HIDE DEF slice
  <2>9. ASSUME NEW i
        PROVE  i \in DOMAIN slice <=> i \in DOMAIN pit_map
    <3>1. ASSUME i \in DOMAIN slice PROVE i \in DOMAIN pit_map
      <4>1. PICK x \in DOMAIN ts_map : x[1] = date /\ x[2] = i
        BY <2>8, <3>1
      <4>2. x = <<date, i>> /\ i \in Int
        BY <2>5, <4>1, PairFacts
      <4>3. x \in {date} \X Int
        BY <4>2
      <4>4. <<date, i>> \in DOMAIN g
        BY <2>4, <4>2, <4>3
      <4> QED
        BY <2>6, <4>4
    <3>2. ASSUME i \in DOMAIN pit_map PROVE i \in DOMAIN slice
      <4>1. <<date, i>> \in DOMAIN g /\ <<date, i>> \in {date} \X Int
        BY <2>6, <2>7, <3>2
      <4>2. <<date, i>> \in DOMAIN ts_map
        BY <2>4, <4>1
      <4> QED
        BY <2>8, <4>2
    <3> QED
      BY <3>1, <3>2
  <2>10. ASSUME NEW i \in DOMAIN pit_map PROVE slice[i] = pit_map[i]
    <3>1. <<date, i>> \in {date} \X Int /\ <<date, i>> \in DOMAIN g
      BY <2>6, <2>7
    <3>2. ts_map[<<date, i>>] = g[<<date, i>>]
      BY <2>4, <3>1
    <3> QED
      BY <2>6, <2>8, <2>9, <3>2
  <2>11. InsertAll(Empty, slice) = [i \in DOMAIN pit_map |-> pit_map[i]]
    <3>1. DOMAIN Empty = {}
      BY DEF Empty
    <3>2. DOMAIN slice = DOMAIN pit_map
      BY <2>9
    <3> QED
      BY <2>10, <3>1, <3>2 DEF InsertAll
  <2> QED
    BY <1>1, <2>11 DEF slice
<1>4. MapsAgree'
  <2>1. SliceOn(date)' = SliceOn(date)
    BY <1>1 DEF SliceOn
  <2> QED
    BY <1>1, <1>3, <2>1 DEF MapsAgree
<1>5. ControlInv'
  BY <1>1 DEF SymbolMapInv, ControlInv
<1>6. TsInv'
  BY <1>1, TsKept
<1> QED
  BY <1>1, <1>2, <1>4, <1>5, <1>6 DEF SymbolMapInv, PitInv

-----------------------------------------------------------------------------
(* The live stream. *)

\* on_record reads the symbol of a symbol mapping from the right place, with and without
\* ts_out: the layouts differ by more than that.
LEMMA SymbolIsRead ==
    ASSUME NEW r \in Records, r.rtype = "SYMBOL_MAPPING" PROVE SymbolRead(r) = r.symbol
<1>1. r.version \in 1..3 /\ r.ts_out \in BOOLEAN
  BY SymbolMapAssumption DEF IsRecord, Versions, DBN_VERSION
<1> DEFINE size == RecSize["SYMBOL_MAPPING"]
<1>2. /\ TS_OUT_LEN \in Nat \ {0}
      /\ size[1] \in Nat /\ size[2] \in Nat /\ size[3] \in Nat
      /\ size[2] = size[3]
      /\ size[1] = size[2] \/ size[1] + TS_OUT_LEN < size[2]
  BY SizeAssumption DEF RTypes, Versions, DBN_VERSION
<1> HIDE DEF size
<1>3. TsOutLen(r.ts_out) \in {0, TS_OUT_LEN}
  BY DEF TsOutLen
<1>4. EncodedSize(r.rtype, r.version, r.ts_out) = size[r.version] + TsOutLen(r.ts_out)
  BY DEF EncodedSize, size
<1>5. LayoutRead(r) = IF size[r.version] + TsOutLen(r.ts_out) >= size[3] THEN 3 ELSE 1
  BY <1>4 DEF LayoutRead, size, DBN_VERSION
<1>6. size[LayoutRead(r)] = size[r.version]
  <2>1. CASE r.version = 1
    BY <1>2, <1>3, <1>5, <2>1
  <2>2. CASE r.version \in {2, 3}
    BY <1>2, <1>3, <1>5, <2>2
  <2> QED
    BY <1>1, <2>1, <2>2
<1> QED
  BY <1>6 DEF SymbolRead, size

\* Inserting into what overrides a map is inserting into the whole.
LEMMA InsertTwice ==
    ASSUME NEW e, NEW f, NEW g
    PROVE  InsertAll(e, InsertAll(f, g)) = InsertAll(InsertAll(e, f), g)
<1> DEFINE fg == InsertAll(f, g)
           ef == InsertAll(e, f)
<1>1. /\ DOMAIN fg = DOMAIN f \cup DOMAIN g
      /\ \A x \in DOMAIN fg : fg[x] = IF x \in DOMAIN f THEN f[x] ELSE g[x]
  BY DEF InsertAll
<1>2. /\ DOMAIN ef = DOMAIN e \cup DOMAIN f
      /\ \A x \in DOMAIN ef : ef[x] = IF x \in DOMAIN e THEN e[x] ELSE f[x]
  BY DEF InsertAll
<1> HIDE DEF fg, ef
<1>3. InsertAll(e, fg) = InsertAll(ef, g)
  BY <1>1, <1>2 DEF InsertAll
<1> QED
  BY <1>3 DEF fg, ef

\* What a record says goes into the map and is what the stream said last.
LEMMA LiveInv ==
    ASSUME SymbolMapInv, NEW r \in Records,
           OnRecord(r) \/ OnInstrumentDef(r) \/ OnOtherRecord(r)
    PROVE  SymbolMapInv'
<1>1. /\ pc = "live" /\ pc' = "live"
      /\ UNCHANGED <<metadata, date, ts_map, m, k, ts_result, pit_result>>
  BY DEF OnRecord, OnInstrumentDef, OnOtherRecord, Insert, built
<1> DEFINE e == [i \in {r.iid} |-> r.symbol]
<1>2. \/ pit_map' = InsertAll(e, pit_map) /\ latest' = InsertAll(e, latest)
      \/ pit_map' = pit_map /\ latest' = latest
  BY SymbolIsRead DEF OnRecord, OnInstrumentDef, OnOtherRecord, Insert
<1> HIDE DEF e
<1>3. MapsAgree'
  <2>1. SliceOn(date)' = SliceOn(date)
    BY <1>1 DEF SliceOn
  <2> SUFFICES ASSUME ts_result = "ok", pit_result = "ok"
               PROVE  pit_map' = InsertAll(latest', SliceOn(date))
    BY <1>1, <2>1 DEF MapsAgree
  <2>2. pit_map = InsertAll(latest, SliceOn(date))
    BY <1>1 DEF SymbolMapInv, MapsAgree
  <2> QED
    BY <1>2, <2>2, InsertTwice
<1>4. ControlInv'
  BY <1>1 DEF SymbolMapInv, ControlInv
<1>5. TsInv'
  BY <1>1, TsKept
<1>6. RangeInv'
  <2>1. InRange' = InRange
    BY <1>1 DEF InRange, DateOf, Midnight
  <2> QED
    BY <1>1, <2>1 DEF SymbolMapInv, RangeInv
<1> QED
  BY <1>1, <1>3, <1>4, <1>5, <1>6 DEF SymbolMapInv, PitInv

-----------------------------------------------------------------------------
(* The theorems. *)

\* Every step preserves the invariant.
LEMMA NextSymbolMap == ASSUME SymbolMapInv, [Next]_vars PROVE SymbolMapInv'
<1>1. CASE UNCHANGED vars
  <2>1. UNCHANGED <<metadata, date, ts_map, pit_map, m, k, pc, ts_result, pit_result, latest>>
    BY <1>1 DEF vars
  <2>2. ControlInv' /\ RangeInv'
    BY <2>1 DEF SymbolMapInv, ControlInv, RangeInv, InRange, DateOf, Midnight
  <2>3. TsInv'
    <3>1. TsPassed' = TsPassed /\ HasIds' = HasIds
      BY <2>1 DEF TsPassed, HasIds
    <3> QED
      BY <2>1, <3>1 DEF SymbolMapInv, TsInv
  <2>4. PitInv'
    <3>1. PitPassed' = PitPassed
      BY <2>1 DEF PitPassed
    <3> QED
      BY <2>1, <3>1 DEF SymbolMapInv, PitInv
  <2>5. MapsAgree'
    BY <2>1 DEF SymbolMapInv, MapsAgree, SliceOn
  <2> QED
    BY <2>2, <2>3, <2>4, <2>5 DEF SymbolMapInv
<1>2. CASE Next
  BY <1>2, TsFailsInv, TsIntervalInv, TsMappingInv, PitFailsInv, PitMappingInv, PitDoneInv,
     LiveInv DEF Next
<1> QED
  BY <1>1, <1>2

\* Hence it always holds.
LEMMA SymbolMapAlways == Spec => []SymbolMapInv
  BY InitSymbolMap, NextSymbolMap, PTL DEF Spec

\* For any metadata, dates and records, the point-in-time map of a date is the timeseries
\* map on it, overridden by what the live stream said last.
THEOREM TwoMapsAgree == Spec => []MapsAgree
<1>1. SymbolMapInv => MapsAgree
  BY DEF SymbolMapInv
<1> QED
  BY <1>1, SymbolMapAlways, PTL

\* The timeseries map knows an instrument on exactly the days that the metadata maps it.
THEOREM TsMapIsComplete == Spec => []TsCoversIntervals
<1>1. SymbolMapInv => TsCoversIntervals
  <2> SUFFICES ASSUME SymbolMapInv, ts_result = "ok", NEW d \in AllDays,
                      NEW iid \in {IidOf[sym] : sym \in DOMAIN IidOf}
               PROVE  <<d, iid>> \in DOMAIN ts_map <=> Mappings(d, iid) # {}
    BY DEF TsCoversIntervals
  <2>1. metadata \in Metas /\ Filled(metadata, Int, ts_map, Pairs(metadata))
    BY DEF SymbolMapInv, ControlInv, TsInv, TsPassed
  <2>2. d \in Int
    <3>1. PICK i \in 1..Len(metadata.mappings) :
             \E j \in 1..Len(metadata.mappings[i].intervals) :
                LET int == metadata.mappings[i].intervals[j]
                IN  d \in {int.start_date, int.end_date - 1, int.end_date}
      BY DEF AllDays
    <3>2. PICK j \in 1..Len(metadata.mappings[i].intervals) :
                LET int == metadata.mappings[i].intervals[j]
                IN  d \in {int.start_date, int.end_date - 1, int.end_date}
      BY <3>1
    <3>3. <<i, j>> \in Pairs(metadata) /\ At(metadata, <<i, j>>) = metadata.mappings[i].intervals[j]
      BY <2>1, MetadataFacts DEF Pairs, At
    <3>4. metadata.mappings[i].intervals[j] \in MappingInterval
      BY <2>1, <3>3, MetadataFacts
    <3> QED
      BY <3>2, <3>4 DEF MappingInterval
  <2>3. <<d, iid>>[1] = d /\ <<d, iid>>[2] = iid
    OBVIOUS
  <2>4. ASSUME <<d, iid>> \in DOMAIN ts_map PROVE Mappings(d, iid) # {}
    <3>1. PICK p \in Pairs(metadata) : Gives(metadata, p, <<d, iid>>)
      BY <2>1, <2>4 DEF Filled
    <3>2. /\ p[1] \in 1..Len(metadata.mappings)
          /\ p[2] \in 1..Len(metadata.mappings[p[1]].intervals)
      BY DEF Pairs
    <3>3. At(metadata, p).start_date \in Nat /\ At(metadata, p).end_date \in Nat
      BY <2>1, MetadataFacts DEF MappingInterval
    <3>4. /\ At(metadata, p).symbol # NoSymbol /\ iid = IidAt(metadata, p)
          /\ At(metadata, p).start_date <= d /\ d < At(metadata, p).end_date
      BY <2>2, <2>3, <3>1, <3>3 DEF Gives, Days
    <3>5. p[1] \in Mappings(d, iid)
      BY <3>2, <3>4 DEF Mappings, At, IidAt, IsInverse
    <3> QED
      BY <3>5
  <2>5. ASSUME Mappings(d, iid) # {} PROVE <<d, iid>> \in DOMAIN ts_map
    <3>1. PICK i \in Mappings(d, iid) : TRUE
      BY <2>5
    <3>2. PICK j \in 1..Len(metadata.mappings[i].intervals) :
             LET mp  == metadata.mappings[i]
                 int == mp.intervals[j]
             IN  /\ int.symbol # NoSymbol /\ int.start_date <= d /\ d < int.end_date
                 /\ iid = Parse(IF IsInverse THEN mp.raw_symbol ELSE int.symbol)
      BY DEF Mappings
    <3> DEFINE p == <<i, j>>
    <3>3. i \in 1..Len(metadata.mappings)
      BY DEF Mappings
    <3>4. p \in Pairs(metadata) /\ p[1] = i /\ p[2] = j
      BY <2>1, <3>3, MetadataFacts DEF Pairs
    <3> HIDE DEF p
    <3>5. At(metadata, p) = metadata.mappings[i].intervals[j]
      BY <3>4 DEF At
    <3>6. /\ At(metadata, p).symbol # NoSymbol /\ iid = IidAt(metadata, p)
          /\ At(metadata, p).start_date <= d /\ d < At(metadata, p).end_date
      BY <3>2, <3>4, <3>5 DEF IidAt, IsInverse
    <3>7. At(metadata, p).start_date \in Nat /\ At(metadata, p).end_date \in Nat
      BY <2>1, <3>4, MetadataFacts DEF MappingInterval
    <3>8. d \in Days(At(metadata, p)) \cap Int
      BY <2>2, <3>6, <3>7 DEF Days
    <3> QED
      BY <2>1, <3>4, <3>6, <3>8 DEF Filled
  <2> QED
    BY <2>4, <2>5
<1> QED
  BY <1>1, SymbolMapAlways, PTL

\* The instants of a date and the query range, for any length of a day.
LEMMA RangeFacts ==
    ASSUME NEW d \in Nat, NEW start \in Nat, NEW day \in Nat \ {0}
    PROVE  /\ d >= start \div day => start < (d + 1) * day
           /\ ~(d >= start \div day) => (d + 1) * day <= start
           /\ d * day \in Nat /\ (d + 1) * day = d * day + day
<1> DEFINE q == start \div day
<1>1. q \in Nat /\ q * day <= start /\ start < q * day + day
  OBVIOUS
<1> HIDE DEF q
<1>2. d * day \in Nat /\ (d + 1) * day = d * day + day
  OBVIOUS
<1>3. d >= q => q * day <= d * day
  BY <1>1
<1>4. ~(d >= q) => (d + 1) * day <= q * day
  <2>1. ~(d >= q) => d + 1 <= q
    BY <1>1
  <2> QED
    BY <1>1, <2>1
<1>5. q * day \in Nat
  BY <1>1
<1> QED
  BY <1>1, <1>2, <1>3, <1>4, <1>5 DEF q

\* A date is refused exactly when the query range has no instant of it.
THEOREM RefusedExactly == Spec => []RefusedOutsideRange
<1>1. SymbolMapInv => RefusedOutsideRange
  <2> SUFFICES ASSUME SymbolMapInv PROVE RefusedOutsideRange
    OBVIOUS
  <2> DEFINE Instants == Midnight(date) .. Midnight(date + 1) - 1
             Queried  == \E t \in Instants : /\ metadata.start <= t
                                             /\ metadata.end # NONE => t < metadata.end
  <2>1. /\ metadata \in Metas /\ date \in Nat /\ DAY \in Nat \ {0}
        /\ metadata.start \in Nat /\ metadata.end \in Nat \cup {NONE}
        /\ metadata.end # NONE => metadata.start < metadata.end
    BY MetadataFacts, SymbolMapAssumption DEF SymbolMapInv, ControlInv
  <2>2. /\ Midnight(date) \in Nat /\ Midnight(date + 1) = Midnight(date) + DAY
        /\ date >= DateOf(metadata.start) => metadata.start < Midnight(date + 1)
        /\ ~(date >= DateOf(metadata.start)) => Midnight(date + 1) <= metadata.start
    BY <2>1, RangeFacts DEF Midnight, DateOf
  <2>3. ASSUME InRange PROVE Queried
    <3> DEFINE t == IF metadata.start <= Midnight(date) THEN Midnight(date) ELSE metadata.start
    <3>1. /\ metadata.start < Midnight(date) + DAY
          /\ metadata.end # NONE => Midnight(date) < metadata.end
      BY <2>2, <2>3 DEF InRange
    <3>2. t \in Instants
      BY <2>1, <2>2, <3>1
    <3>3. metadata.start <= t
      BY <2>1, <2>2
    <3>4. metadata.end # NONE => t < metadata.end
      BY <2>1, <3>1
    <3> QED
      BY <3>2, <3>3, <3>4
  <2>4. ASSUME ~InRange PROVE ~Queried
    <3> SUFFICES ASSUME NEW t \in Instants, metadata.start <= t,
                        metadata.end # NONE => t < metadata.end
                 PROVE  FALSE
      OBVIOUS
    <3>1. t \in Int /\ Midnight(date) <= t /\ t < Midnight(date + 1)
      BY <2>1, <2>2
    <3>2. CASE ~(date >= DateOf(metadata.start))
      BY <2>1, <2>2, <3>1, <3>2
    <3>3. CASE metadata.end # NONE /\ ~(Midnight(date) < metadata.end)
      BY <2>1, <2>2, <3>1, <3>3
    <3> QED
      BY <2>4, <3>2, <3>3 DEF InRange
  <2> QED
    BY <2>3, <2>4 DEF SymbolMapInv, RangeInv, RefusedOutsideRange
<1> QED
  BY <1>1, SymbolMapAlways, PTL
=============================================================================
