--------------------------- MODULE RingBufferInit ---------------------------
(***************************************************************************)
(* RingBuffer from its creation: ring_buffer_init of                       *)
(* src/src/media/ring_buffer.c is called with any size and rounds it up to *)
(* a power of two, so that & (size - 1) is the remainder RingBuffer takes. *)
(* The buffers that come out with Size bytes are then used.                *)
(*                                                                         *)
(* An operator marked MUTATION is a faulty variant of the one after it.    *)
(***************************************************************************)
EXTENDS RingBuffer, SequencesExt, Bitwise

CONSTANTS Sizes,        \* the sizes asked for, up to 2^30
          Positions     \* values of a counter whose index is looked at

ASSUME SizesAssumption == Sizes \subseteq 1..2^30 /\ Positions \subseteq Nat

VARIABLES asked,        \* the parameter `size' of ring_buffer_init
          size          \* ring_buffer->size, 0 before

\* MUTATION (SizeSound): the last shift is forgotten.
FourShifts == <<1, 2, 4, 8>>

Shifts == <<1, 2, 4, 8, 16>>

\* i |= i >> s, for each s: every bit below the highest is set.
Smear(i, s) == i | shiftR(i, s)

\* roundUpToPowerOfTwo
RoundUp(i) == FoldLeft(Smear, i - 1, Shifts) + 1

\* isPowerOfTwo
IsPowerOfTwo(i) == i # 0 /\ i & (i - 1) = 0

Create ==
  /\ size = 0
  /\ asked' \in Sizes
  /\ size' = IF IsPowerOfTwo(asked') THEN asked' ELSE RoundUp(asked')
  /\ UNCHANGED vars

Use    == size = Size /\ Next /\ UNCHANGED <<asked, size>>
Unused == size \notin {0, Size} /\ UNCHANGED <<vars, asked, size>>

CreateInit == Init /\ asked = 0 /\ size = 0
CreateSpec == CreateInit /\ [][Create \/ Use \/ Unused]_<<vars, asked, size>>

-----------------------------------------------------------------------------
(* Properties *)

\* The buffer is the smallest power of two that is not below the size asked for
\* (lines 10-22 and 26-31), and with that size the masked counter is its
\* remainder: an index in the buffer, whatever value the counter has (lines 92,
\* 93, 112 and 113).
LeastPower(n, i) == \E k \in 0..30 : n = 2^k /\ n >= i /\ (k = 0 \/ 2^(k - 1) < i)
SizeSound == [][Create =>
  /\ LeastPower(size', asked')
  /\ \A n \in Positions : n & (size' - 1) = n % size']_size
=============================================================================
