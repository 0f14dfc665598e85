---------------------------- MODULE MCCanvasback ----------------------------
(* Small instances of Canvasback for TLC. *)
EXTENDS Canvasback

AllFaults == FaultKinds
\* Surroundings under which every request gets its own whole answer.
NoFaults == {}
HangUps == {"hangup"}
=============================================================================
