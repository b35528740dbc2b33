------------------------------ MODULE MCManager ------------------------------
(***************************************************************************)
(* AudioManager for TLC.                                                   *)
(***************************************************************************)
EXTENDS AudioManager
=============================================================================
