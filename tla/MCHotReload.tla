----------------------------- MODULE MCHotReload -----------------------------
(***************************************************************************)
(* Instances of HotReload for TLC, with the inductive invariants of        *)
(* HotReloadProofs.                                                        *)
(***************************************************************************)
EXTENDS HotReloadProofs
=============================================================================
