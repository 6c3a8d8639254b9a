------------------------------ MODULE Channel ------------------------------
(***************************************************************************)
(* What a run's stream promises whoever listens: what was written arrives  *)
(* in order and once, until the channel is closed, and then nothing does.  *)
(***************************************************************************)
EXTENDS Sequences, Naturals

VARIABLES written, received, closed
vars == <<written, received, closed>>

Init == Len(written) = 1 /\ received = <<>> /\ closed = FALSE

Write ==
  /\ written' = Append(written, Len(written) + 1)
  /\ UNCHANGED <<received, closed>>

\* One read may bring several messages.
Receive ==
  /\ ~closed
  /\ \E n \in Len(received) + 1 .. Len(written) : received' = SubSeq(written, 1, n)
  /\ UNCHANGED <<written, closed>>

Close ==
  /\ ~closed /\ closed' = TRUE
  /\ UNCHANGED <<written, received>>

Next == Write \/ Receive \/ Close

Spec == Init /\ [][Next]_vars
=============================================================================
