------------------------------ MODULE ByteFifo ------------------------------
(***************************************************************************)
(* A bounded first-in-first-out store of bytes: what ring_buffer.c and     *)
(* common_buffer.c promise the threads on their two sides.  The bytes that *)
(* are pushed are numbered modulo NumBytes, more than there is room for.   *)
(***************************************************************************)
EXTENDS Naturals, Sequences

CONSTANTS NumBytes, Capacity

VARIABLES stored,   \* the bytes pushed and not yet popped, oldest first
          next,     \* the number of the next byte to be pushed
          last      \* the bytes the last pop delivered

Init == stored = <<>> /\ next = 0 /\ last = <<>>

\* The next n bytes are appended.
Push(n) == /\ Len(stored) + n <= Capacity
           /\ stored' = stored \o [k \in 1..n |-> (next + k - 1) % NumBytes]
           /\ next' = (next + n) % NumBytes
           /\ UNCHANGED last

\* The n oldest bytes are removed and delivered in their order.
Pop(n) == /\ n <= Len(stored)
          /\ last' = SubSeq(stored, 1, n)
          /\ stored' = SubSeq(stored, n + 1, Len(stored))
          /\ UNCHANGED next

Clear == stored' = <<>> /\ UNCHANGED <<next, last>>

Next == \/ \E n \in 0..Capacity : Push(n) \/ Pop(n)
        \/ Clear

Spec == Init /\ [][Next]_<<stored, next, last>>
=============================================================================
