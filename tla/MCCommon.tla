------------------------------ MODULE MCCommon ------------------------------
(***************************************************************************)
(* CommonBuffer for TLC: nodes of three bytes and room for five, so that   *)
(* a node is popped from and pushed to across its end.                     *)
(***************************************************************************)
EXTENDS CommonBuffer
=============================================================================
