------------------------------- MODULE MCEvent -------------------------------
(***************************************************************************)
(* CommonEvent for TLC.                                                    *)
(***************************************************************************)
EXTENDS CommonEvent, TLC

Symmetry == Permutations(Threads) \cup Permutations(Bits)
=============================================================================
