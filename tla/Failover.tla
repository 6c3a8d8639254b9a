------------------------------ MODULE Failover ------------------------------
(***************************************************************************)
(* The failover chat model (internal/hub/failover_model.go): concurrent    *)
(* calls of Generate (or Stream, whose control is the same) on one pool of *)
(* models.  Three loops are nested: over the models, over compactions of   *)
(* an overlong context, and over retries of one endpoint.  The position in *)
(* the pool, idx, is shared by all calls and every failure advances it.    *)
(*                                                                         *)
(* A model is its place in the pool.  idx is kept modulo the pool's size:  *)
(* current() reduces it so, and 2^63 failures are out of reach.  Contents  *)
(* of messages, and what compaction makes of them, are in other modules;   *)
(* here an endpoint answers a request as it likes.                         *)
(***************************************************************************)
EXTENDS Naturals

CONSTANTS
  Callers,     \* goroutines calling Generate on the same FailoverChatModel
  N,           \* len(fm.models)
  RateMax,     \* fm.rateLimitMaxRetries
  TransientMax,    \* llmTransientMaxRetries, 2 in the code
  CompactRetries   \* fm.contextCompactMaxRetries, 0 when compaction is disabled

ASSUME PoolAssumption == N \in Nat \ {0}
ASSUME BudgetAssumption ==
  RateMax \in Nat /\ TransientMax \in Nat /\ CompactRetries \in Nat

Models == 0..(N - 1)

\* What the code reads off an error: its class, and whether its text matches
\* the context-length patterns, which a rate-limit error's may do as well.
Errors ==
  [class : {"rate", "transient", "permanent"}, overflow : BOOLEAN]
    \cup {[class |-> "cancelled", overflow |-> FALSE]}

VARIABLES
  idx,        \* fm.idx modulo N
  pc,         \* per call: its step
  tried,      \* per call: models given up on
  compacted,  \* per call: compactions done for this model
  rateN,      \* per call: rateLimitAttempts
  transN,     \* per call: transientAttempts
  sent,       \* per call: requests sent for this model and prompt
  long,       \* per call: the error it sleeps on matches those patterns
  lastErr,    \* per call: the last error of the outer loop, a cancellation or not
  asked,      \* per call: the models it has asked
  skipped,    \* history, per call: the models that were its turn to ask next
              \*   when another call's failure advanced idx past them
  cancelled,  \* per call: ctx is done
  alerted     \* per call: NotifyError("llm:failover") raised an alert

retry == <<compacted, rateN, transN, sent, long>>
outer == <<tried, lastErr, asked>>
poolVars == <<idx, pc, retry, outer, skipped, cancelled, alerted>>

PoolTypeOK ==
  /\ idx \in Models
  /\ pc \in [Callers -> {"idle", "loop", "ask", "sleep", "failed"}]
  /\ tried \in [Callers -> 0..N]
  /\ compacted \in [Callers -> 0..CompactRetries]
  /\ rateN \in [Callers -> 0..RateMax]
  /\ transN \in [Callers -> 0..TransientMax]
  /\ sent \in [Callers -> Nat]
  /\ long \in [Callers -> BOOLEAN]
  /\ lastErr \in [Callers -> {"none", "cancelled", "error"}]
  /\ asked \in [Callers -> SUBSET Models]
  /\ skipped \in [Callers -> SUBSET Models]
  /\ cancelled \in [Callers -> BOOLEAN]
  /\ alerted \in [Callers -> BOOLEAN]

PoolInit ==
  /\ idx = 0
  /\ pc = [c \in Callers |-> "idle"]
  /\ tried = [c \in Callers |-> 0]
  /\ compacted = [c \in Callers |-> 0]
  /\ rateN = [c \in Callers |-> 0]
  /\ transN = [c \in Callers |-> 0]
  /\ sent = [c \in Callers |-> 0]
  /\ long = [c \in Callers |-> FALSE]
  /\ lastErr = [c \in Callers |-> "none"]
  /\ asked = [c \in Callers |-> {}]
  /\ skipped = [c \in Callers |-> {}]
  /\ cancelled = [c \in Callers |-> FALSE]
  /\ alerted = [c \in Callers |-> FALSE]

-----------------------------------------------------------------------------
Goto(c, step) == pc' = [pc EXCEPT ![c] = step]

Call(c) ==
  /\ pc[c] = "idle"
  /\ Goto(c, "loop")
  /\ UNCHANGED <<idx, retry, outer, skipped, cancelled, alerted>>

\* The calls inside the loop over the models return: their locals are gone.
LeaveModel(c) ==
  /\ compacted' = [compacted EXCEPT ![c] = 0]
  /\ rateN' = [rateN EXCEPT ![c] = 0]
  /\ transN' = [transN EXCEPT ![c] = 0]
  /\ sent' = [sent EXCEPT ![c] = 0]
  /\ long' = [long EXCEPT ![c] = FALSE]

\* Generate has returned.
LeaveCall(c) ==
  /\ Goto(c, "idle")
  /\ tried' = [tried EXCEPT ![c] = 0]
  /\ lastErr' = [lastErr EXCEPT ![c] = "none"]
  /\ asked' = [asked EXCEPT ![c] = {}]
  /\ skipped' = [skipped EXCEPT ![c] = {}]
  /\ cancelled' = [cancelled EXCEPT ![c] = FALSE]
  /\ alerted' = [alerted EXCEPT ![c] = FALSE]

\* A request to the model c is on, for a prompt compacted n times: the
\* counters of generateWithTransientRetry are its locals.
Begin(c, n) ==
  /\ compacted' = [compacted EXCEPT ![c] = n]
  /\ rateN' = [rateN EXCEPT ![c] = 0]
  /\ transN' = [transN EXCEPT ![c] = 0]
  /\ sent' = [sent EXCEPT ![c] = 1]
  /\ long' = [long EXCEPT ![c] = FALSE]
  /\ Goto(c, "ask")

\* The head of the loop: there is a model left and ctx is not done.
TryModel(c) ==
  /\ pc[c] = "loop"
  /\ tried[c] < N
  /\ ~cancelled[c]
  /\ asked' = [asked EXCEPT ![c] = @ \cup {idx}]
  /\ Begin(c, 0)
  /\ UNCHANGED <<idx, tried, lastErr, skipped, cancelled, alerted>>

\* NotifyError drops what reads as a cancellation (errornotify.go 37-39); that
\* it repeats an alert only after five minutes is left out.
Kind(e) == IF e.class = "cancelled" THEN "cancelled" ELSE "error"

\* The loop ends without a result.
GiveUp(c) ==
  /\ pc[c] = "loop"
  /\ tried[c] = N \/ cancelled[c]
  /\ alerted' = [alerted EXCEPT ![c] = lastErr[c] = "error"]
  /\ Goto(c, "failed")
  /\ UNCHANGED <<idx, retry, outer, skipped, cancelled>>

\* The answer goes to the caller.
Succeed(c) ==
  /\ pc[c] = "ask"
  /\ LeaveModel(c)
  /\ LeaveCall(c)
  /\ UNCHANGED idx

-----------------------------------------------------------------------------
(* An error of the endpoint.                                               *)

\* Mutant of RetriesRate: one retry too many.
RetriesRateInclusive(c, e) == e.class = "rate" /\ rateN[c] <= RateMax

\* shouldRetryRateLimit
RetriesRate(c, e) == e.class = "rate" /\ rateN[c] < RateMax

\* A rate limit out of budget does not count as a transient error.
RetriesTransient(c, e) == e.class = "transient" /\ transN[c] < TransientMax

\* Wait, then ask the same endpoint again.
Backoff(c, e) ==
  /\ pc[c] = "ask"
  /\ \/ /\ RetriesRate(c, e)
        /\ rateN' = [rateN EXCEPT ![c] = @ + 1]
        /\ UNCHANGED transN
     \/ /\ RetriesTransient(c, e)
        /\ transN' = [transN EXCEPT ![c] = @ + 1]
        /\ UNCHANGED rateN
  /\ long' = [long EXCEPT ![c] = e.overflow]
  /\ Goto(c, "sleep")
  /\ UNCHANGED <<idx, compacted, sent, outer, skipped, cancelled, alerted>>

\* generateWithContextRecovery: an overlong context is compacted and sent
\* again; any other error, and one too many, ends the model's turn.
Compacts(c, overflow) == overflow /\ compacted[c] < CompactRetries

\* Mutant of Succ: the next model is skipped.
SuccSkips(m) == IF m + 2 < N THEN m + 2 ELSE 0

\* rotate(), modulo the size of the pool.
Succ(m) == IF m = N - 1 THEN 0 ELSE m + 1

\* The model call d asks next if no other call fails before: the one at idx, or
\* while it is on a model, the one it rotates to.
Busy(d) == pc[d] \in {"loop", "ask", "sleep"}
Due(d) == IF pc[d] = "loop" THEN idx ELSE Succ(idx)

\* generateWithTransientRetry has returned an error.
Propagate(c, kind, overflow) ==
  \/ /\ Compacts(c, overflow)
     /\ Begin(c, compacted[c] + 1)
     /\ UNCHANGED <<idx, outer, skipped>>
  \/ /\ ~Compacts(c, overflow)
     /\ lastErr' = [lastErr EXCEPT ![c] = kind]
     /\ idx' = Succ(idx)
     /\ skipped' = [d \in Callers |->
                      skipped[d] \cup IF d # c /\ Busy(d) THEN {Due(d)} ELSE {}]
     /\ tried' = [tried EXCEPT ![c] = @ + 1]
     /\ LeaveModel(c)
     /\ Goto(c, "loop")
     /\ UNCHANGED asked

\* The endpoint's error is not retried.
Fails(c, e) ==
  /\ pc[c] = "ask"
  /\ ~RetriesRate(c, e)
  /\ ~RetriesTransient(c, e)
  /\ Propagate(c, Kind(e), e.overflow)
  /\ UNCHANGED <<cancelled, alerted>>

\* A request sees a cancellation only once ctx is done.
Possible(c) == {e \in Errors : e.class = "cancelled" => cancelled[c]}

\* Mutant of Wake: the retry is a new call, with new counters.
WakeAfresh(c) ==
  /\ pc[c] = "sleep"
  /\ Begin(c, compacted[c])
  /\ UNCHANGED <<idx, outer, skipped, cancelled, alerted>>

\* The wait is over.
Wake(c) ==
  /\ pc[c] = "sleep"
  /\ sent' = [sent EXCEPT ![c] = @ + 1]
  /\ long' = [long EXCEPT ![c] = FALSE]
  /\ Goto(c, "ask")
  /\ UNCHANGED <<idx, compacted, rateN, transN, outer, skipped, cancelled, alerted>>

\* sleepWithCtx: ctx is done first, the error slept on is returned.
Interrupted(c) ==
  /\ pc[c] = "sleep"
  /\ cancelled[c]
  /\ Propagate(c, "error", long[c])
  /\ UNCHANGED <<cancelled, alerted>>

\* The user stops the run.  (A stage deadline ends it in the same way, but its
\* error does not read as a cancellation.)
Cancel(c) ==
  /\ pc[c] \in {"loop", "ask", "sleep"}
  /\ ~cancelled[c]
  /\ cancelled' = [cancelled EXCEPT ![c] = TRUE]
  /\ UNCHANGED <<idx, pc, retry, outer, skipped, alerted>>

\* The caller gets the error.
Return(c) ==
  /\ pc[c] = "failed"
  /\ LeaveCall(c)
  /\ UNCHANGED <<idx, retry>>

Progress(c) ==
  \/ TryModel(c) \/ GiveUp(c) \/ Succeed(c) \/ Wake(c) \/ Interrupted(c)
  \/ \E e \in Possible(c) : Backoff(c, e) \/ Fails(c, e)

PoolNext == \E c \in Callers : Call(c) \/ Progress(c) \/ Cancel(c) \/ Return(c)

PoolSpec == PoolInit /\ [][PoolNext]_poolVars

\* Endpoints answer, at the latest with the HTTP client's timeout, timers
\* fire, and goroutines are scheduled.
LivePoolSpec == PoolSpec /\ \A c \in Callers : WF_poolVars(Progress(c))

-----------------------------------------------------------------------------
\* One endpoint gets at most the first request and the two retry budgets for
\* one prompt (failover_model.go 183-190, 409-415), whatever mixture of rate
\* limits and glitches it answers with and wherever the call is cancelled.
RetryBudget ==
  \A c \in Callers :
    /\ sent[c] <= 1 + RateMax + TransientMax
    /\ rateN[c] <= RateMax /\ compacted[c] <= CompactRetries

\* "Fails only after trying all models" (failover_model.go 119), unless it is
\* cancelled (failover_model.go 297) or other calls' failures, which advance the
\* idx that all calls share (failover_model.go 317), take a model from it: every
\* model it did not ask was its turn when another call moved on.
FailsOnlyAfterAll ==
  \A c \in Callers :
    pc[c] = "failed" /\ ~cancelled[c] => asked[c] \cup skipped[c] = Models

\* No call is under way for ever: the three loops are bounded together,
\* whatever the endpoints answer and however other calls advance idx.
CallsReturn == \A c \in Callers : []<>~Busy(c)

\* The promise of FailoverSpec.
Promise == INSTANCE FailoverSpec WITH
  state <- [c \in Callers |->
              IF Busy(c) THEN "busy" ELSE pc[c]],
  untried <- [c \in Callers |-> Models \ asked[c]],
  taken <- skipped,
  stopped <- cancelled

KeepsPromise == Promise!Spec
=============================================================================
