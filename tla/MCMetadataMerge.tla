-------------------------- MODULE MCMetadataMerge --------------------------
(* MetadataMerge on two or three metadata. *)
EXTENDS MetadataMerge

CONSTANT LastDay   \* bound: days are 1..LastDay

Span(a, b, s) == [start_date |-> a, end_date |-> b, symbol |-> s]

OneInterval == {<<Span(a, b, s)>> : a \in 1..LastDay, b \in 1..LastDay, s \in {"A", "B"}}
TwoIntervals == {i \o j : i \in OneInterval, j \in OneInterval}

Base == [fixed |-> "glbx", schema |-> 1, start |-> 3, end |-> 5, limit |-> 7,
         symbols |-> {"X"}, partial |-> {}, not_found |-> {},
         mappings |-> [r \in {} |-> <<>>]]

\* Metadata that differ in what they map "X" to.
Mapped ==
    {m \in {[Base EXCEPT !.mappings = [r \in {"X"} |-> ints]] :
               ints \in OneInterval \cup TwoIntervals} : IsMetadata(m)}

\* Metadata that differ in their other fields, and in which symbols they map.
Other ==
    {[Base EXCEPT !.schema = 2, !.end = NONE, !.start = 1, !.partial = {"X"}],
     [Base EXCEPT !.schema = NONE, !.end = 9, !.symbols = {"Y"}, !.not_found = {"Y"},
                  !.mappings = [r \in {"Y"} |-> <<Span(1, 2, "C")>>]],
     [Base EXCEPT !.limit = NONE, !.mappings = [r \in {"X", "Y"} |-> <<Span(1, 2, "A")>>]],
     [Base EXCEPT !.fixed = "xnas"]}

MCMerges ==
    {<<a, b, c>> : a \in Mapped, b \in Mapped, c \in Mapped}
    \cup {<<a, b>> : a \in Other, b \in Other}
    \cup {<<a, b, c>> : a \in Other, b \in Other, c \in Other \cup {Base}}
=============================================================================
