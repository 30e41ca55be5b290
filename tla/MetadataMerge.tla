--------------------------- MODULE MetadataMerge ---------------------------
(***************************************************************************)
(* metadata/merge.rs: MetadataMerger, which Metadata::merge drives to make *)
(* one metadata of several, as the merging decoder needs.  The mapping     *)
(* intervals of a symbol that both sides map are merged by two cursors:    *)
(* each turn of that loop is an action.                                    *)
(*                                                                         *)
(* Days are numbers, an interval covers start_date .. end_date - 1.        *)
(***************************************************************************)
EXTENDS Integers, Sequences, FiniteSetsExt

CONSTANT Merges   \* the inputs: sequences of metadata, the first the original

NONE == -1        \* Option::None for schema, end and limit

Interval == [start_date : Nat, end_date : Nat, symbol : STRING]

Fields == {"fixed", "schema", "start", "end", "limit", "symbols", "partial",
           "not_found", "mappings"}

\* A metadata whose intervals are in order and do not overlap.  fixed stands for the
\* fields that must match: version, dataset, stype_in, stype_out, ts_out and
\* symbol_cstr_len.
IsMetadata(m) ==
    /\ DOMAIN m = Fields
    /\ m.start \in Nat /\ {m.schema, m.end, m.limit} \subseteq Nat \cup {NONE}
    /\ \A raw \in DOMAIN m.mappings :
          LET ints == m.mappings[raw]
          IN  /\ ints \in Seq(Interval)
              /\ \A k \in 1..Len(ints) : ints[k].start_date < ints[k].end_date
              /\ \A j, k \in 1..Len(ints) : j < k => ints[j].end_date <= ints[k].start_date

ASSUME MetadataAssumption ==
    \A ms \in Merges : Len(ms) \in Nat \ {0} /\ \A k \in 1..Len(ms) : IsMetadata(ms[k])

VARIABLES
    inputs,
    merger,      \* the MetadataMerger
    done,        \* how many of the inputs have been merged
    pc,          \* "merge", "mappings", "intervals", "ok" or "err"
    adding,      \* the raw symbols of the additional metadata still to merge
    raw,         \* the symbol whose intervals are being merged
    orig, add,   \* what the two cursors have not passed yet
    merged       \* merged_intervals

vars == <<inputs, merger, done, pc, adding, raw, orig, add, merged>>

Additional == inputs[done + 1]

Init ==
    /\ inputs \in Merges
    /\ merger = inputs[1]
    /\ done = 1 /\ pc = "merge"
    /\ adding = {} /\ raw = ""
    /\ orig = <<>> /\ add = <<>> /\ merged = <<>>

-----------------------------------------------------------------------------
\* Option::max, in which None is the least.
LaterEnd(a, b) == IF a >= b THEN a ELSE b
EarlierStart(a, b) == IF a <= b THEN a ELSE b

\* A slip: a schema of None is taken to be still undecided.
SchemaOfEither(a, b) == IF a = NONE THEN b ELSE IF b = NONE \/ a = b THEN a ELSE NONE
SchemaOfBoth(a, b)   == IF a = b THEN a ELSE NONE

MergeFields ==
    /\ pc = "merge" /\ done < Len(inputs)
    /\ merger.fixed = Additional.fixed
    /\ merger' = [merger EXCEPT !.schema    = SchemaOfBoth(@, Additional.schema),
                                !.start     = EarlierStart(@, Additional.start),
                                !.end       = LaterEnd(@, Additional.end),
                                !.limit     = NONE,
                                !.symbols   = @ \cup Additional.symbols,
                                !.partial   = @ \cup Additional.partial,
                                !.not_found = @ \cup Additional.not_found]
    /\ adding' = DOMAIN Additional.mappings
    /\ pc' = "mappings"
    /\ UNCHANGED <<inputs, done, raw, orig, add, merged>>

Mismatch ==
    /\ pc = "merge" /\ done < Len(inputs)
    /\ merger.fixed # Additional.fixed
    /\ pc' = "err"
    /\ UNCHANGED <<inputs, merger, done, adding, raw, orig, add, merged>>

SetIntervals(s, ints) ==
    merger' = [merger EXCEPT !.mappings =
                  [r \in DOMAIN @ \cup {s} |-> IF r = s THEN ints ELSE @[r]]]

InsertMapping(s) ==
    /\ pc = "mappings" /\ s \in adding \ DOMAIN merger.mappings
    /\ SetIntervals(s, Additional.mappings[s])
    /\ adding' = adding \ {s}
    /\ UNCHANGED <<inputs, done, pc, raw, orig, add, merged>>

\* std::mem::take leaves the entry empty until the merged intervals replace it.
MergeMapping(s) ==
    /\ pc = "mappings" /\ s \in adding \cap DOMAIN merger.mappings
    /\ raw' = s
    /\ orig' = merger.mappings[s] /\ add' = Additional.mappings[s] /\ merged' = <<>>
    /\ SetIntervals(s, <<>>)
    /\ adding' = adding \ {s}
    /\ pc' = "intervals"
    /\ UNCHANGED <<inputs, done>>

MappingsDone ==
    /\ pc = "mappings" /\ adding = {}
    /\ done' = done + 1
    /\ pc' = "merge"
    /\ UNCHANGED <<inputs, merger, adding, raw, orig, add, merged>>

Finalize ==
    /\ pc = "merge" /\ done = Len(inputs)
    /\ pc' = "ok"
    /\ UNCHANGED <<inputs, merger, done, adding, raw, orig, add, merged>>

-----------------------------------------------------------------------------
(* merge_intervals. *)

\* A slip: intervals that only touch are taken to overlap.
OrderingTouching(a, b) ==
    CASE a.end_date < b.start_date -> "Less"
      [] a.start_date > b.end_date -> "Greater"
      [] OTHER -> IF a.symbol = b.symbol THEN "Overlap" ELSE "Err"

\* Another: the other interval is said to come first when this one does.
OrderingSwapped(a, b) ==
    CASE a = b                        -> "Equal"
      [] a.end_date <= b.start_date   -> "Greater"
      [] a.start_date >= b.end_date   -> "Less"
      [] OTHER -> IF a.symbol = b.symbol THEN "Overlap" ELSE "Err"

\* MappingInterval::ordering.
Ordering(a, b) ==
    CASE a.start_date = b.start_date /\ a.end_date = b.end_date ->
            IF a.symbol = b.symbol THEN "Equal" ELSE "Err"
      [] a.end_date <= b.start_date   -> "Less"
      [] a.start_date >= b.end_date   -> "Greater"
      [] OTHER -> IF a.symbol = b.symbol THEN "Overlap" ELSE "Err"

\* MappingInterval::merge.  The slip: the interval of self is kept.
MergeIntoFirst(a, b) == a
MergeInterval(a, b) ==
    [a EXCEPT !.start_date = EarlierStart(@, b.start_date),
              !.end_date   = LaterEnd(@, b.end_date)]

Push(int) == merged' = Append(merged, int)

TakeOrig == Push(Head(orig)) /\ orig' = Tail(orig) /\ UNCHANGED add
TakeAdd  == Push(Head(add)) /\ add' = Tail(add) /\ UNCHANGED orig
TakeBoth == /\ Push(MergeInterval(Head(orig), Head(add)))
            /\ orig' = Tail(orig) /\ add' = Tail(add)

BothLeft == orig # <<>> /\ add # <<>>
\* What ordering() says of the two intervals under the cursors.
Cursors == Ordering(Head(orig), Head(add))

\* The side that is left when the other cursor is at its end.
TailTaken(next) == ~BothLeft /\ next # <<>>

MergeIntervals ==
    /\ pc = "intervals"
    /\ \/ BothLeft /\ Cursors = "Less" /\ TakeOrig
       \/ BothLeft /\ Cursors = "Greater" /\ TakeAdd
       \/ BothLeft /\ Cursors \in {"Overlap", "Equal"} /\ TakeBoth
       \/ TailTaken(orig) /\ TakeOrig
       \/ TailTaken(add) /\ TakeAdd
    /\ UNCHANGED <<inputs, merger, done, pc, adding, raw>>

ConflictFound ==
    /\ pc = "intervals" /\ BothLeft /\ Cursors = "Err"
    /\ pc' = "err"
    /\ UNCHANGED <<inputs, merger, done, adding, raw, orig, add, merged>>

IntervalsDone ==
    /\ pc = "intervals" /\ ~BothLeft /\ ~TailTaken(orig) /\ ~TailTaken(add)
    /\ SetIntervals(raw, merged)
    /\ pc' = "mappings"
    /\ UNCHANGED <<inputs, done, adding, raw, orig, add, merged>>

-----------------------------------------------------------------------------
Next ==
    \/ MergeFields \/ Mismatch
    \/ \E s \in adding : InsertMapping(s) \/ MergeMapping(s)
    \/ MergeIntervals \/ ConflictFound \/ IntervalsDone
    \/ MappingsDone \/ Finalize

Spec == Init /\ [][Next]_vars

-----------------------------------------------------------------------------
(* Properties. *)

\* The symbols that intervals give on a day, and mappings a raw symbol.
SymbolsOf(ints, day) ==
    {ints[k].symbol : k \in {j \in 1..Len(ints) : /\ ints[j].start_date <= day
                                                 /\ day < ints[j].end_date}}
SymbolsOn(mappings, r, day) ==
    IF r \in DOMAIN mappings THEN SymbolsOf(mappings[r], day) ELSE {}

RawSymbols == UNION {DOMAIN inputs[k].mappings : k \in 1..Len(inputs)}
IntervalsOf(m) ==
    UNION {{m.mappings[r][j] : j \in 1..Len(m.mappings[r])} : r \in DOMAIN m.mappings}
Days == UNION {{int.start_date, int.end_date} :
                  int \in UNION {IntervalsOf(inputs[k]) : k \in 1..Len(inputs)}}

InputSymbolsOn(r, day) ==
    UNION {SymbolsOn(inputs[k].mappings, r, day) : k \in 1..Len(inputs)}

\* Merging neither loses nor invents a mapping: on every day a raw symbol maps to
\* what the inputs map it to, wherever the cursors of merge_intervals stopped.
\* (Interval bounds are the only days on which a mapping can change.)
MappingsAreUnion ==
    pc = "ok" => \A r \in RawSymbols, day \in Days :
        SymbolsOn(merger.mappings, r, day) = InputSymbolsOn(r, day)

\* The merged intervals are in the order of their first days, also when a merged
\* list is merged again.
MergedInOrder ==
    pc = "ok" => \A r \in DOMAIN merger.mappings :
        LET ints == merger.mappings[r]
        IN  \A j, k \in 1..Len(ints) : j < k => ints[j].start_date <= ints[k].start_date

\* merge fails only with a reason: a field that must match differs, or some day of
\* some raw symbol really has two symbols.
ErrorsAreReal ==
    pc = "err" => \/ \E k \in 1..Len(inputs) : inputs[k].fixed # inputs[1].fixed
                  \/ \E r \in RawSymbols, day \in Days :
                        \E x, y \in InputSymbolsOn(r, day) : x # y

\* The fields do not depend on the order of merging: the time range spans all the
\* inputs, and the schema is theirs only if all of them have the same.
FieldsAreCombined ==
    pc = "ok" =>
        LET all == {inputs[k] : k \in 1..Len(inputs)}
        IN  /\ merger.start = Min({m.start : m \in all})
            /\ merger.end = Max({m.end : m \in all})
            /\ merger.schema = IF \A m \in all : m.schema = inputs[1].schema
                               THEN inputs[1].schema ELSE NONE
            /\ merger.symbols = UNION {m.symbols : m \in all}
            /\ merger.partial = UNION {m.partial : m \in all}
            /\ merger.not_found = UNION {m.not_found : m \in all}

\* Metadata::merge: "This function will also return an error if there are conflicting
\* symbology mappings."
ConflictsAreErrors ==
    pc = "ok" => \A r \in RawSymbols, day \in Days :
        \A x, y \in SymbolsOn(merger.mappings, r, day) : x = y
=============================================================================
