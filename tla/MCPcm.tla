-------------------------------- MODULE MCPcm --------------------------------
(***************************************************************************)
(* PcmTrans for TLC: the workers of two players and their decoder tasks.   *)
(***************************************************************************)
EXTENDS PcmTrans, TLC

Symmetry == Permutations(Users) \cup Permutations(Feeders)
=============================================================================
