--------------------------- MODULE MCEventReader ---------------------------
(***************************************************************************)
(* Instances of EventReader for TLC: one sub-agent and one tool.           *)
(***************************************************************************)
EXTENDS EventReader
=============================================================================
