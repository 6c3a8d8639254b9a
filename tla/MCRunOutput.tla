----------------------------- MODULE MCRunOutput -----------------------------
(***************************************************************************)
(* Instances of RunOutput for TLC: one text fits, the other overflows what *)
(* is left.                                                                *)
(***************************************************************************)
EXTENDS RunOutput, TLC

CONSTANTS short, long

MCSize == (short :> 2) @@ (long :> 5)
=============================================================================
