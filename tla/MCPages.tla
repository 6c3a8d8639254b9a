------------------------------ MODULE MCPages ------------------------------
(***************************************************************************)
(* The pages for TLC: one service and one machine for the filter, two      *)
(* files of which one lies in the only folder, two sessions to look at.    *)
(***************************************************************************)
EXTENDS Pages

CONSTANTS f, g, d

MCHome == [x \in {f, g} |-> IF x = f THEN Root ELSE d]
=============================================================================
