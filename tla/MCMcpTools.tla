----------------------------- MODULE MCMcpTools -----------------------------
(***************************************************************************)
(* Instances of McpTools for TLC.                                          *)
(***************************************************************************)
EXTENDS McpTools, TLC

Symmetry == Permutations(Runs)
=============================================================================
