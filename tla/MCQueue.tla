------------------------------ MODULE MCQueue -------------------------------
(***************************************************************************)
(* AudioMsgQueue for TLC, with the events audio_manager.c does send.       *)
(***************************************************************************)
EXTENDS AudioMsgQueue

ManagerEvents == {"START", "STOP", "PAUSE", "RESUME"}
=============================================================================
