---------------------------- MODULE MCRunOptions ----------------------------
(***************************************************************************)
(* The options of a run by themselves, for TLC.                            *)
(***************************************************************************)
EXTENDS RunOptions
=============================================================================
