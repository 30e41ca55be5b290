----------------------------- MODULE OvalBuffer -----------------------------
(***************************************************************************)
(* The cursors of oval::Buffer, the growable byte buffer DbnFsm keeps its  *)
(* input (`buffer`) and its upgraded records (`compat_buffer`) in.  The    *)
(* crate is external: this is what its calls do to the three cursors.      *)
(* Bytes position..end-1 hold data, end..capacity-1 are free, and bytes    *)
(* before position have been consumed until a shift reclaims them.         *)
(***************************************************************************)
EXTENDS Integers

Buffers == [capacity : Nat, position : Nat, end : Nat]

WithCapacity(n) == [capacity |-> n, position |-> 0, end |-> 0]

AvailableData(b)  == b.end - b.position
AvailableSpace(b) == b.capacity - b.end

\* std::cmp::min, by which consume and fill clamp their argument.
Least(m, n) == IF m <= n THEN m ELSE n
Most(m, n)  == IF m >= n THEN m ELSE n

\* Moves the data to the front of the memory.
Shift(b) == [capacity |-> b.capacity, position |-> 0, end |-> AvailableData(b)]

\* Never shrinks; the data stays where it is.
Grow(b, n) == IF b.capacity < n THEN [b EXCEPT !.capacity = n] ELSE b

ConsumeNoshift(b, n) ==
    [b EXCEPT !.position = @ + Least(n, AvailableData(b))]

\* Shifts as soon as more than half of the memory is consumed data.
Consume(b, n) ==
    LET c == ConsumeNoshift(b, n)
    IN  IF c.position > c.capacity \div 2 THEN Shift(c) ELSE c

\* Shifts when the free space is getting short after n more bytes of data.
Fill(b, n) ==
    LET cnt == Least(n, AvailableSpace(b))
        f   == [b EXCEPT !.end = @ + cnt]
    IN  IF AvailableSpace(f) < AvailableData(f) + cnt THEN Shift(f) ELSE f

Reset(b) == WithCapacity(b.capacity)

\* Every buffer these operators produce is in order.
InOrder(b) == b.position <= b.end /\ b.end <= b.capacity
=============================================================================
