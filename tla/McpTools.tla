------------------------------ MODULE McpTools ------------------------------
(***************************************************************************)
(* The tools of one MCP server as concurrent runs use them                 *)
(* (internal/hub/mcp_helper.go, mcp_reconnect.go): a rate limiter, one     *)
(* reconnectable client that all runs share, and a store of large results  *)
(* that are handed out in chunks.                                          *)
(*                                                                         *)
(* Every reconnect makes a new client.  Clients are numbered in the order  *)
(* in which they are made; the hub keeps only the first, for closing it.   *)
(* A large result is the number of its chunk list, and all results are of  *)
(* one tool.  The server answers as it likes, also on a client that was    *)
(* closed while the request was out.  Runs make one call at a time; calls  *)
(* that one agent makes in parallel behave like those of several runs.     *)
(***************************************************************************)
EXTENDS Naturals, FiniteSets

CONSTANTS
  Runs,        \* runs that use the server's tools
  MaxRetries,  \* maxRetries of CallTool
  Burst,       \* capacity of the rate limiter's channel
  MaxCalls,    \* bound: tool calls of a run
  NoOne

ASSUME RunsAssumption == NoOne \notin Runs
ASSUME BudgetAssumption ==
  MaxRetries \in Nat \ {0} /\ Burst \in Nat \ {0} /\ MaxCalls \in Nat

VARIABLES
  inner,    \* r.inner
  made,     \* clients made so far
  open,     \* clients that are connected
  mu,       \* the call that holds r.mu
  hubDone,  \* the hub has closed the client it knows
  tokens,   \* tokens in the rate limiter's channel
  chunks,   \* ts.chunks: chunk ids to results
  results,  \* large results so far
  pc,       \* per run: its step
  done,     \* per run: ctx is done
  calls,    \* per run: tool calls begun
  attempt,  \* per run: retries of the current call
  sent,     \* per run: requests sent for the current call
  using,    \* per run: the client its last request went to
  failed,   \* per run: the client its last failed request went to
  outcome,  \* per run: what the last call returned
  have,     \* per run: the chunk id its last large result was announced with,
            \*   and that result, or none
  cleaned   \* per run: the store was emptied since

client == <<inner, made, open>>
store == <<chunks, results, have, cleaned>>
call == <<calls, attempt, sent, using, failed>>
vars == <<client, mu, hubDone, tokens, store, pc, done, call, outcome>>

Nothing == [id |-> 0, result |-> 0]

TypeOK ==
  /\ inner \in Nat \ {0} /\ made \in Nat \ {0} /\ inner <= made
  /\ open \subseteq 1..made
  /\ mu \in Runs \cup {NoOne}
  /\ hubDone \in BOOLEAN
  /\ tokens \in 0..Burst
  /\ results \in Nat
  /\ \E n \in 0..results : chunks \in [0..(n - 1) -> 1..results]
  /\ pc \in [Runs -> {"new", "idle", "limited", "send", "calling", "waiting",
                      "locking", "connecting", "over"}]
  /\ done \in [Runs -> BOOLEAN]
  /\ calls \in [Runs -> 0..MaxCalls]
  /\ attempt \in [Runs -> 0..MaxRetries]
  /\ sent \in [Runs -> Nat]
  /\ using \in [Runs -> 0..made] /\ failed \in [Runs -> 0..made]
  /\ outcome \in [Runs -> {"none", "ok", "output", "error"}]
  /\ have \in [Runs -> [id : Nat, result : 0..results]]
  /\ cleaned \in [Runs -> BOOLEAN]

Init ==
  /\ inner = 1 /\ made = 1 /\ open = {1}
  /\ mu = NoOne /\ hubDone = FALSE
  /\ tokens = Burst
  /\ chunks = [i \in {} |-> 0] /\ results = 0
  /\ pc = [r \in Runs |-> "new"]
  /\ done = [r \in Runs |-> FALSE]
  /\ calls = [r \in Runs |-> 0] /\ attempt = [r \in Runs |-> 0]
  /\ sent = [r \in Runs |-> 0]
  /\ using = [r \in Runs |-> 0] /\ failed = [r \in Runs |-> 0]
  /\ outcome = [r \in Runs |-> "none"]
  /\ have = [r \in Runs |-> Nothing]
  /\ cleaned = [r \in Runs |-> FALSE]

Goto(r, step) == pc' = [pc EXCEPT ![r] = step]
-----------------------------------------------------------------------------
(* Runs.                                                                   *)

\* A streaming run just starts; one that is collected first empties the chunk
\* stores of all servers.
StartStreaming(r) ==
  /\ pc[r] = "new"
  /\ Goto(r, "idle")
  /\ UNCHANGED <<client, mu, hubDone, tokens, store, done, call, outcome>>

StartCollected(r) ==
  /\ pc[r] = "new"
  /\ Goto(r, "idle")
  /\ chunks' = [i \in {} |-> 0]
  /\ cleaned' = [q \in Runs |-> TRUE]
  /\ UNCHANGED <<client, mu, hubDone, tokens, results, have, done, call, outcome>>

End(r) ==
  /\ pc[r] = "idle"
  /\ Goto(r, "over")
  /\ UNCHANGED <<client, mu, hubDone, tokens, store, done, call, outcome>>

Cancel(r) ==
  /\ pc[r] \notin {"new", "over"}
  /\ ~done[r]
  /\ done' = [done EXCEPT ![r] = TRUE]
  /\ UNCHANGED <<client, mu, hubDone, tokens, store, pc, call, outcome>>

\* A rebuild of the runner closes the clients ConnectMCP returned.
HubCloses ==
  /\ ~hubDone
  /\ hubDone' = TRUE
  /\ open' = open \ {1}
  /\ UNCHANGED <<inner, made, mu, tokens, store, pc, done, call, outcome>>
-----------------------------------------------------------------------------
(* Calls.                                                                  *)

Begin(r) ==
  /\ pc[r] = "idle"
  /\ calls[r] < MaxCalls
  /\ Goto(r, "limited")
  /\ calls' = [calls EXCEPT ![r] = @ + 1]
  /\ attempt' = [attempt EXCEPT ![r] = 0]
  /\ sent' = [sent EXCEPT ![r] = 0]
  /\ failed' = [failed EXCEPT ![r] = 0]
  /\ outcome' = [outcome EXCEPT ![r] = "none"]
  /\ UNCHANGED <<client, mu, hubDone, tokens, store, done, using>>

\* A token is added unless the channel is full.
Tick ==
  /\ tokens < Burst
  /\ tokens' = tokens + 1
  /\ UNCHANGED <<client, mu, hubDone, store, pc, done, call, outcome>>

Return(r, what) ==
  /\ Goto(r, "idle")
  /\ outcome' = [outcome EXCEPT ![r] = what]

\* The limiter is passed once per call, not once per request.
PassLimiter(r) ==
  /\ pc[r] = "limited"
  /\ tokens > 0
  /\ tokens' = tokens - 1
  /\ Goto(r, "send")
  /\ UNCHANGED <<client, mu, hubDone, store, done, call, outcome>>

LimiterCancelled(r) ==
  /\ pc[r] = "limited"
  /\ done[r]
  /\ Return(r, "error")
  /\ UNCHANGED <<client, mu, hubDone, tokens, store, done, call>>

\* r.inner is read without r.mu.
Send(r) ==
  /\ pc[r] = "send"
  /\ using' = [using EXCEPT ![r] = inner]
  /\ sent' = [sent EXCEPT ![r] = @ + 1]
  /\ Goto(r, "calling")
  /\ UNCHANGED <<client, mu, hubDone, tokens, store, done, calls, attempt, failed, outcome>>

\* storeChunked: the id is the number of chunk lists stored so far.
StoreChunked(r) ==
  LET id == Cardinality(DOMAIN chunks)
  IN  /\ results' = results + 1
      /\ chunks' = [i \in DOMAIN chunks \cup {id} |->
                      IF i = id THEN results + 1 ELSE chunks[i]]
      /\ have' = [have EXCEPT ![r] = [id |-> id, result |-> results + 1]]
      /\ cleaned' = [cleaned EXCEPT ![r] = FALSE]

Succeeds(r) ==
  /\ pc[r] = "calling"
  /\ Return(r, "ok")
  /\ StoreChunked(r) \/ UNCHANGED store
  /\ UNCHANGED <<client, mu, hubDone, tokens, done, call>>

\* A non-retryable error of the first request is shown to the agent, one of a
\* retry is returned.
FailsForGood(r) ==
  /\ pc[r] = "calling"
  /\ Return(r, IF attempt[r] = 0 THEN "output" ELSE "error")
  /\ UNCHANGED <<client, mu, hubDone, tokens, store, done, call>>

\* After the last retry the error becomes the tool's output.
Exhausted(r) == attempt[r] >= MaxRetries

TryAgain(r) ==
  IF Exhausted(r)
  THEN Return(r, "output") /\ UNCHANGED attempt
  ELSE /\ attempt' = [attempt EXCEPT ![r] = @ + 1]
       /\ Goto(r, "waiting")
       /\ UNCHANGED outcome

\* A retryable error: a lost session, a broken connection, a gateway's 5xx.
FailsRetryably(r) ==
  /\ pc[r] = "calling"
  /\ failed' = [failed EXCEPT ![r] = using[r]]
  /\ IF attempt[r] = 0 /\ done[r]
     THEN Return(r, "output") /\ UNCHANGED attempt
     ELSE TryAgain(r)
  /\ UNCHANGED <<client, mu, hubDone, tokens, store, done, calls, sent, using>>

Waited(r) ==
  /\ pc[r] = "waiting"
  /\ Goto(r, "locking")
  /\ UNCHANGED <<client, mu, hubDone, tokens, store, done, call, outcome>>

WaitCancelled(r) ==
  /\ pc[r] = "waiting"
  /\ done[r]
  /\ Return(r, "error")
  /\ UNCHANGED <<client, mu, hubDone, tokens, store, done, call>>
-----------------------------------------------------------------------------
(* reconnect.                                                              *)

\* Mutant of Lock: reconnect does not take the lock.
LockNothing(r) ==
  /\ pc[r] = "locking"
  /\ mu' = r
  /\ open' = open \ {inner}
  /\ Goto(r, "connecting")
  /\ UNCHANGED <<inner, made, hubDone, tokens, store, done, call, outcome>>

\* r.mu is taken, without regard to ctx, and the client in use is closed.
Lock(r) ==
  /\ pc[r] = "locking"
  /\ mu = NoOne
  /\ mu' = r
  /\ open' = open \ {inner}
  /\ Goto(r, "connecting")
  /\ UNCHANGED <<inner, made, hubDone, tokens, store, done, call, outcome>>

\* Mutant of Connected: the new client is not installed.
ConnectedForgets(r) ==
  /\ pc[r] = "connecting"
  /\ made' = made + 1
  /\ open' = open \cup {made + 1}
  /\ mu' = NoOne
  /\ Goto(r, "send")
  /\ UNCHANGED <<inner, hubDone, tokens, store, done, call, outcome>>

\* The new client replaces the closed one.
Connected(r) ==
  /\ pc[r] = "connecting"
  /\ made' = made + 1
  /\ inner' = made + 1
  /\ open' = open \cup {made + 1}
  /\ mu' = NoOne
  /\ Goto(r, "send")
  /\ UNCHANGED <<hubDone, tokens, store, done, call, outcome>>

\* Mutant of ConnectFails: the error path keeps the lock.
ConnectFailsLocked(r) ==
  /\ pc[r] = "connecting"
  /\ TryAgain(r)
  /\ UNCHANGED <<client, mu, hubDone, tokens, store, done, calls, sent, using, failed>>

\* The closed client stays in place.
ConnectFails(r) ==
  /\ pc[r] = "connecting"
  /\ mu' = NoOne
  /\ TryAgain(r)
  /\ UNCHANGED <<client, hubDone, tokens, store, done, calls, sent, using, failed>>

\* What a call does itself, and what it waits for the server to do.
Step(r) ==
  PassLimiter(r) \/ LimiterCancelled(r) \/ Send(r) \/ Waited(r) \/ WaitCancelled(r)
    \/ Lock(r)

Answered(r) ==
  \/ Succeeds(r) \/ FailsForGood(r) \/ FailsRetryably(r)
  \/ Connected(r) \/ ConnectFails(r)

Next ==
  \/ Tick \/ HubCloses
  \/ \E r \in Runs :
       StartStreaming(r) \/ StartCollected(r) \/ End(r) \/ Cancel(r) \/ Begin(r)
         \/ Step(r) \/ Answered(r)

Spec == Init /\ [][Next]_vars

\* The limiter's ticker runs, timers fire, and goroutines are scheduled.  A
\* server need not answer: neither a request nor a reconnect has a timeout of its
\* own, and only the end of the run's context makes the client library give up.
LiveSpec ==
  /\ Spec
  /\ WF_vars(Tick)
  /\ \A r \in Runs : WF_vars(Step(r)) /\ WF_vars(done[r] /\ Answered(r))

-----------------------------------------------------------------------------
\* However calls and their reconnects overlap, at most one client is connected,
\* the one in use: a reconnect closes what it replaces (mcp_reconnect.go 35-92),
\* and no second one runs beside it.
OneOpen == open \subseteq {inner} /\ (mu # NoOne => open = {})

\* One tool call sends at most one request and MaxRetries more
\* (mcp_reconnect.go 157-183).
RequestBudget == \A r \in Runs : sent[r] <= 1 + MaxRetries

\* A retry never goes out on a client on which the call has failed before,
\* although r.inner is read without the lock and may be another call's client.
RetryOnNewClient ==
  \A r \in Runs : pc[r] = "calling" /\ attempt[r] > 0 => using[r] > failed[r]

\* The chunk id a result was announced with leads to that result until the
\* store is emptied (mcp_helper.go 114-138).
ChunksStay ==
  \A r \in Runs :
    have[r] # Nothing /\ ~cleaned[r] =>
      have[r].id \in DOMAIN chunks /\ chunks[have[r].id] = have[r].result

\* Chunk stores are emptied "between runs to free chunk memory"
\* (mcp_helper.go 203): a run that has not ended never gets another result's
\* chunks for its id.
ChunksBelong ==
  \A r \in Runs :
    pc[r] # "over" /\ have[r] # Nothing /\ have[r].id \in DOMAIN chunks =>
      chunks[have[r].id] = have[r].result

\* A server leaves r without an answer, and nobody has cancelled the run.
Waiting(r) == pc[r] \in {"calling", "connecting"} /\ ~done[r]

\* Every tool call returns, with whatever outcome, unless some run waits for a
\* server for ever: one that waits in reconnect holds r.mu, and the calls of all
\* runs behind it, cancelled or not, wait with it (mcp_reconnect.go 36, 80-87).
\* No error path keeps r.mu, and the retries end.
CallsReturn ==
  (\A q \in Runs : []<>~Waiting(q)) =>
    \A r \in Runs : []<>(pc[r] \in {"new", "idle", "over"})
=============================================================================
