------------------------------- MODULE MCPipe -------------------------------
(***************************************************************************)
(* PlayPipeline for TLC: one player and its decoder task.                  *)
(***************************************************************************)
EXTENDS PlayPipeline

CONSTANTS p1, d1

OneUser   == {p1}
OneFeeder == {d1}

ASSUME OneWorkerAssumption == OneWorker
=============================================================================
