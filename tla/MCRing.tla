------------------------------- MODULE MCRing -------------------------------
(***************************************************************************)
(* RingBufferInit for TLC: the powers of two with their neighbours; one of *)
(* them, 3, makes a buffer of Size = 4 bytes that is then used.  A small   *)
(* word, so that both counters wrap around.                                *)
(***************************************************************************)
EXTENDS RingBufferInit

Around(lo, hi)  == UNION {{2^k - 1, 2^k, 2^k + 1} : k \in lo..hi}
BoundarySizes   == {1, 2, 3} \cup (5..20) \cup Around(5, 29) \cup {2^30 - 1, 2^30}
SomePositions   == {0, 1, 5, 63, 64, 65, 1000003, 2^30 - 1, 2^30, 2^30 + 7}
=============================================================================
