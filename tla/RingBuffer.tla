----------------------------- MODULE RingBuffer -----------------------------
(***************************************************************************)
(* src/src/media/ring_buffer.c as common_player.c uses it: the decoder     *)
(* task pushes decoded sound, the PCM task looks at the counts without the *)
(* lock (__pcm_trans_data_request_callback) and pops.                      *)
(*                                                                         *)
(* in and out are free running uint32_t counters: they wrap at Modulus,    *)
(* and only their difference and their low bits are used.                  *)
(*                                                                         *)
(* An operator marked MUTATION is a faulty variant of the one after it.    *)
(***************************************************************************)
EXTENDS Integers, Sequences

CONSTANTS Size,         \* ring_buffer->size, a power of two
          Modulus,      \* 2^32
          NumBytes,     \* bound: pushed bytes are numbered modulo NumBytes
          MaxChunk      \* bound: bytes asked for in one push or pop

ASSUME SizeAssumption    == Size \in Nat \ {0}
ASSUME ModulusAssumption == Modulus \in Nat /\ Modulus > Size /\ Modulus % Size = 0
ASSUME ByteAssumption    == NumBytes \in Nat \ {0} /\ MaxChunk \in Nat \ {0}

Index == 0..Size - 1
Bytes == 0..NumBytes - 1

VARIABLES buffer,       \* ring_buffer->buffer
          in, out,      \* ring_buffer->in, ring_buffer->out
          next,         \* the number of the next byte that is decoded
          last,         \* the bytes the last pop delivered
          pc,           \* where the PCM task is in its callback
          count,        \* the callback's local `count'
          free_count    \* and its local `free_count'

vars == <<buffer, in, out, next, last, pc, count, free_count>>

Init ==
  /\ buffer = [k \in Index |-> 0]
  /\ in = 0 /\ out = 0
  /\ next = 0
  /\ last = <<>>
  /\ pc = "count"
  /\ count = 0 /\ free_count = 0

Least(a, b) == IF a < b THEN a ELSE b

\* uint32_t arithmetic, and & (size - 1)
Word(n) == n % Modulus
At(n)   == n % Size

\* MUTATION (CountsSound): the two counters the other way round.
GetCountSwapped == Word(out - in)
\* ring_buffer_get_count, ring_buffer_get_free_count
GetCount     == Word(in - out)
GetFreeCount == Word(Size - in + out)

\* The bytes of a push of n: the next ones of the stream.
Data(n) == [k \in 0..n - 1 |-> (next + k) % NumBytes]

\* MUTATION (FifoSpec): one memcpy, cut off at the end of the buffer.
CopyInOnce(data, n) ==
  LET at == At(in)
  IN  [k \in Index |-> IF at <= k /\ k < at + n THEN data[k - at] ELSE buffer[k]]

\* Two memcpy: to the end of the buffer, the rest at its beginning.
CopyIn(data, n) ==
  LET at  == At(in)
      len == Least(n, Size - at)
  IN  [k \in Index |-> IF k < n - len THEN data[len + k]
                       ELSE IF at <= k /\ k < at + len THEN data[k - at] ELSE buffer[k]]

CopyOut(n) ==
  LET at  == At(out)
      len == Least(n, Size - at)
  IN  [k \in 1..n |-> IF k <= len THEN buffer[at + k - 1] ELSE buffer[k - len - 1]]

\* ring_buffer_push under its lock; the decoder keeps what did not fit.
Push(asked) ==
  LET n == Least(asked, GetFreeCount)
  IN  /\ buffer' = CopyIn(Data(n), n)
      /\ in' = Word(in + n)
      /\ next' = (next + n) % NumBytes
      /\ UNCHANGED <<out, last, pc, count, free_count>>

\* The PCM task's callback: count, then free_count, then ring_buffer_pop.  Only
\* this task changes out, so the order in which a count loads in and out is of
\* no consequence; the decoder may push between any two steps.
SeeCount ==
  /\ pc = "count"
  /\ count' = GetCount
  /\ pc' = "free"
  /\ UNCHANGED <<buffer, in, out, next, last, free_count>>

SeeFreeCount ==
  /\ pc = "free"
  /\ free_count' = GetFreeCount
  /\ pc' = "pop"
  /\ UNCHANGED <<buffer, in, out, next, last, count>>

Pop(asked) ==
  LET n == Least(asked, GetCount)
  IN  /\ pc = "pop"
      /\ last' = CopyOut(n)
      /\ out' = Word(out + n)
      /\ pc' = "count"
      /\ UNCHANGED <<buffer, in, next, count, free_count>>

\* ring_buffer_clear: com_player_stop, when both tasks are gone.
Clear ==
  /\ pc = "count"
  /\ in' = 0 /\ out' = 0
  /\ UNCHANGED <<buffer, next, last, pc, count, free_count>>

Next == \/ \E asked \in 0..MaxChunk : Push(asked) \/ Pop(asked)
        \/ SeeCount \/ SeeFreeCount \/ Clear

Spec == Init /\ [][Next]_vars

-----------------------------------------------------------------------------
(* Properties *)

TypeOK ==
  /\ buffer \in [Index -> Bytes]
  /\ in \in 0..Modulus - 1
  /\ out \in 0..Modulus - 1
  /\ next \in Bytes
  /\ last \in Seq(Bytes)
  /\ pc \in {"count", "free", "pop"}
  /\ count \in 0..Size
  /\ free_count \in 0..Size

\* The counts the PCM task read without the lock are stale on the safe side:
\* it never believes in bytes that are not there, and never takes the buffer
\* for fuller than it is (lines 134-142; common_player.c 215-216).
SeenSafe ==
  /\ pc \in {"free", "pop"} => count <= GetCount
  /\ pc = "pop" => free_count >= GetFreeCount /\ count + free_count <= Size

\* The counters and what the callback believes of them are sound, with it half way.
CountsSound == TypeOK /\ SeenSafe

Fifo == INSTANCE ByteFifo WITH
          stored   <- [k \in 1..GetCount |-> buffer[At(out + k - 1)]],
          Capacity <- Size

\* Also when the counters or the index wrap, bytes come out as they went in,
\* each once, in order, and none overwrites one that is still to be read.
FifoSpec == Fifo!Spec
=============================================================================
