----------------------------- MODULE MCSessions ------------------------------
(***************************************************************************)
(* Instances of Sessions for TLC.                                          *)
(***************************************************************************)
EXTENDS Sessions, TLC

CONSTANTS r0, r1, r2, r3

TwoTurns == r0 :> {} @@ r1 :> {"chat", "share"} @@ r2 :> {"task"}
            @@ r3 :> {"share", "post", "delete"}

\* A run that comes to nothing and one that ends well.
SomeOutcomes == {{}, {"words", "events", "cards"}}
=============================================================================
