------------------------------ MODULE MCPlayer ------------------------------
(***************************************************************************)
(* AudioPlayerProcess for TLC.  The prompt and the resource player of      *)
(* audio_manager.c are the two players.  Symmetry is used only by the runs *)
(* that check no liveness.                                                 *)
(***************************************************************************)
EXTENDS AudioPlayerProcess, TLC

NoWaitFinish   == AllOps \ {"start_wait"}
StartStopPause == {"start_wait", "stop", "pause"}
Auto           == {TRUE}      \* audio_player_stop resets it: both values occur

Symmetry == Permutations(Callers) \cup Permutations(Players)
=============================================================================
