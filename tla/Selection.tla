----------------------------- MODULE Selection -----------------------------
(***************************************************************************)
(* The elements of a sequence at some of its positions, in order.  What    *)
(* SelectSeq computes element by element is defined by counting here, so   *)
(* that it can be reasoned about for sequences of any length.              *)
(***************************************************************************)
EXTENDS Integers, Sequences, FiniteSets

\* How many of the positions I there are up to i.
Rank(I, i) == Cardinality({j \in I : j <= i})

Selected(s, I) ==
  [n \in 1..Cardinality(I) |-> s[CHOOSE i \in I : Rank(I, i) = n]]
=============================================================================
