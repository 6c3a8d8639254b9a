---------------------------- MODULE FailoverSpec ----------------------------
(***************************************************************************)
(* What the failover model promises its callers: a call that is not        *)
(* cancelled fails "only after trying all models"                          *)
(* (internal/hub/failover_model.go 117-119), but for those that other      *)
(* calls took from it: each time another call gives up on a model, the     *)
(* pool they share moves on, and this call loses at most one turn.  A call *)
(* that is alone asks all models.  How often a model is asked and in which *)
(* order is left open.                                                     *)
(***************************************************************************)
CONSTANTS Callers, Models

VARIABLES
  state,    \* per call
  untried,  \* per call: models it has not asked
  taken,    \* per call: models that others' failures took from it
  stopped   \* per call: it was cancelled
vars == <<state, untried, taken, stopped>>

Init ==
  /\ state = [c \in Callers |-> "idle"]
  /\ untried = [c \in Callers |-> Models]
  /\ taken = [c \in Callers |-> {}]
  /\ stopped = [c \in Callers |-> FALSE]

Call(c) ==
  /\ state[c] = "idle"
  /\ state' = [state EXCEPT ![c] = "busy"]
  /\ UNCHANGED <<untried, taken, stopped>>

Try(c) ==
  /\ state[c] = "busy"
  /\ \E m \in untried[c] : untried' = [untried EXCEPT ![c] = @ \ {m}]
  /\ UNCHANGED <<state, taken, stopped>>

\* c gives up on a model: each other call under way may lose one.
Rotate(c) ==
  /\ state[c] = "busy"
  /\ \E m \in [Callers -> Models] :
       taken' = [d \in Callers |->
                   taken[d] \cup IF d # c /\ state[d] = "busy" THEN {m[d]} ELSE {}]
  /\ UNCHANGED <<state, untried, stopped>>

Leave(c) ==
  /\ state' = [state EXCEPT ![c] = "idle"]
  /\ untried' = [untried EXCEPT ![c] = Models]
  /\ taken' = [taken EXCEPT ![c] = {}]
  /\ stopped' = [stopped EXCEPT ![c] = FALSE]

\* The answer of a model it asked.
Succeed(c) ==
  /\ state[c] = "busy"
  /\ untried[c] # Models
  /\ Leave(c)

Fail(c) ==
  /\ state[c] = "busy"
  /\ untried[c] \subseteq taken[c] \/ stopped[c]
  /\ state' = [state EXCEPT ![c] = "failed"]
  /\ UNCHANGED <<untried, taken, stopped>>

Stop(c) ==
  /\ state[c] = "busy"
  /\ stopped' = [stopped EXCEPT ![c] = TRUE]
  /\ UNCHANGED <<state, untried, taken>>

Return(c) ==
  /\ state[c] = "failed"
  /\ Leave(c)

Next == \E c \in Callers :
  Call(c) \/ Try(c) \/ Rotate(c) \/ Succeed(c) \/ Fail(c) \/ Stop(c) \/ Return(c)

Spec == Init /\ [][Next]_vars
=============================================================================
