--------------------------- MODULE McpToolsProofs ---------------------------
(***************************************************************************)
(* Proofs about McpTools, for any number of runs and calls, any budget and *)
(* any burst.                                                              *)
(***************************************************************************)
EXTENDS McpTools, FiniteSetTheorems, TLAPS

(* Types.  The chunk store and the rest share no variable.                 *)

Numbered(n) == chunks \in [0..(n - 1) -> 1..results]

StoreOK ==
  /\ results \in Nat
  /\ \E n \in 0..results : Numbered(n)
  /\ have \in [Runs -> [id : Nat, result : 0..results]]
  /\ cleaned \in [Runs -> BOOLEAN]

CallsOK ==
  /\ inner \in Nat \ {0} /\ made \in Nat \ {0} /\ inner <= made
  /\ open \subseteq 1..made
  /\ mu \in Runs \cup {NoOne}
  /\ hubDone \in BOOLEAN
  /\ tokens \in 0..Burst
  /\ pc \in [Runs -> {"new", "idle", "limited", "send", "calling", "waiting",
                      "locking", "connecting", "over"}]
  /\ done \in [Runs -> BOOLEAN]
  /\ calls \in [Runs -> 0..MaxCalls]
  /\ attempt \in [Runs -> 0..MaxRetries]
  /\ sent \in [Runs -> Nat]
  /\ using \in [Runs -> 0..made] /\ failed \in [Runs -> 0..made]
  /\ outcome \in [Runs -> {"none", "ok", "output", "error"}]

LEMMA TypeParts == TypeOK <=> StoreOK /\ CallsOK
BY DEF TypeOK, StoreOK, CallsOK, Numbered

\* The id of a new chunk list is one that no list has.
LEMMA NextId ==
  ASSUME NEW n \in Nat
  PROVE  Cardinality(0..(n - 1)) = n
<1>1. 0 \in Int /\ n - 1 \in Int
  OBVIOUS
<1>2. Cardinality(0..(n - 1)) = IF 0 > n - 1 THEN 0 ELSE (n - 1) - 0 + 1
  BY <1>1, FS_Interval
<1> QED BY <1>2

LEMMA FreshId ==
  ASSUME StoreOK
  PROVE  /\ \E n \in 0..results :
              /\ Cardinality(DOMAIN chunks) = n
              /\ DOMAIN chunks = 0..(n - 1)
              /\ chunks \in [0..(n - 1) -> 1..results]
         /\ Cardinality(DOMAIN chunks) \notin DOMAIN chunks
<1>1. PICK n \in 0..results : chunks \in [0..(n - 1) -> 1..results]
  BY DEF StoreOK, Numbered
<1>2. n \in Nat /\ DOMAIN chunks = 0..(n - 1)
  BY <1>1 DEF StoreOK
<1>3. Cardinality(DOMAIN chunks) = n
  BY <1>2, NextId
<1>4. n \notin 0..(n - 1)
  BY <1>2
<1> QED BY <1>1, <1>2, <1>3, <1>4

LEMMA StoreStep ==
  ASSUME StoreOK, NEW r \in Runs, StoreChunked(r)
  PROVE  StoreOK'
<1>1. PICK n \in 0..results :
        /\ Cardinality(DOMAIN chunks) = n
        /\ DOMAIN chunks = 0..(n - 1)
        /\ chunks \in [0..(n - 1) -> 1..results]
  BY FreshId
<1>2. results \in Nat /\ n \in Nat
  BY <1>1 DEF StoreOK
<1>3. DOMAIN chunks \cup {n} = 0..((n + 1) - 1)
  BY <1>1, <1>2
<1>4. /\ results' = results + 1
      /\ chunks' = [i \in 0..((n + 1) - 1) |->
                      IF i = n THEN results + 1 ELSE chunks[i]]
      /\ have' = [have EXCEPT ![r] = [id |-> n, result |-> results + 1]]
      /\ cleaned' = [cleaned EXCEPT ![r] = FALSE]
  BY <1>1, <1>3 DEF StoreChunked
<1>5. ASSUME NEW i \in 0..((n + 1) - 1)
      PROVE  (IF i = n THEN results + 1 ELSE chunks[i]) \in 1..(results + 1)
  <2>1. CASE i = n
    BY <2>1, <1>2
  <2>2. CASE i # n
    <3>1. i \in 0..(n - 1)
      BY <2>2, <1>2
    <3>2. chunks[i] \in 1..results
      BY <3>1, <1>1
    <3> QED BY <2>2, <3>2, <1>2
  <2> QED BY <2>1, <2>2
<1>6. Numbered(n + 1)'
  BY <1>4, <1>5 DEF Numbered
<1>7. n + 1 \in 0..results' /\ results' \in Nat
  BY <1>2, <1>4
<1>8. have' \in [Runs -> [id : Nat, result : 0..results']]
  <2>1. 0..results \subseteq 0..results'
    BY <1>2, <1>4
  <2>2. [id |-> n, result |-> results + 1] \in [id : Nat, result : 0..results']
    BY <1>2, <1>4
  <2>3. have \in [Runs -> [id : Nat, result : 0..results']]
    <3>1. [id : Nat, result : 0..results] \subseteq [id : Nat, result : 0..results']
      BY <2>1
    <3> QED BY <3>1 DEF StoreOK
  <2> QED BY <1>4, <2>2, <2>3
<1>9. cleaned' \in [Runs -> BOOLEAN]
  BY <1>4 DEF StoreOK
<1>10. \E m \in 0..results' : Numbered(m)'
  BY <1>6, <1>7
<1> QED BY <1>7, <1>8, <1>9, <1>10 DEF StoreOK

LEMMA StoreKept ==
  ASSUME StoreOK, UNCHANGED store
  PROVE  StoreOK'
BY DEF StoreOK, Numbered, store

LEMMA StoreEmptied ==
  ASSUME StoreOK, NEW r \in Runs, StartCollected(r)
  PROVE  StoreOK'
<1>1. results \in Nat /\ results' = results
  BY DEF StoreOK, StartCollected
<1>2. 0..(0 - 1) = {} /\ 0 \in 0..results'
  BY <1>1
<1>3. Numbered(0)'
  BY <1>2 DEF StartCollected, Numbered
<1> QED BY <1>1, <1>2, <1>3 DEF StoreOK, StartCollected

LEMMA TypeInit == Init => TypeOK
<1> SUFFICES ASSUME Init PROVE StoreOK /\ CallsOK
  BY TypeParts
<1>1. StoreOK
  <2>1. 0..(0 - 1) = {} /\ 0 \in 0..0
    OBVIOUS
  <2>2. Numbered(0)
    BY <2>1 DEF Init, Numbered
  <2> QED BY <2>1, <2>2 DEF Init, StoreOK, Nothing
<1>2. CallsOK
  <2>1. /\ inner = 1 /\ made = 1 /\ open = {1}
        /\ 0 \in 0..MaxCalls /\ 0 \in 0..MaxRetries /\ Burst \in 0..Burst
        /\ 0 \in 0..made /\ open \subseteq 1..made
    BY BudgetAssumption DEF Init
  <2>2. /\ calls \in [Runs -> 0..MaxCalls] /\ attempt \in [Runs -> 0..MaxRetries]
        /\ sent \in [Runs -> Nat]
        /\ using \in [Runs -> 0..made] /\ failed \in [Runs -> 0..made]
    BY <2>1 DEF Init
  <2>3. hubDone \in BOOLEAN /\ done \in [Runs -> BOOLEAN]
    BY DEF Init
  <2>4. /\ mu \in Runs \cup {NoOne} /\ tokens \in 0..Burst
        /\ inner \in Nat \ {0} /\ made \in Nat \ {0} /\ inner <= made
    BY <2>1 DEF Init
  <2>5. /\ pc \in [Runs -> {"new", "idle", "limited", "send", "calling", "waiting",
                            "locking", "connecting", "over"}]
        /\ outcome \in [Runs -> {"none", "ok", "output", "error"}]
    BY DEF Init
  <2> QED BY <2>1, <2>2, <2>3, <2>4, <2>5 DEF CallsOK
<1> QED BY <1>1, <1>2

\* Only a large result and a collected run change the store.
LEMMA StoreSteps ==
  ASSUME Next
  PROVE  \/ UNCHANGED store
         \/ \E r \in Runs : StoreChunked(r)
         \/ \E r \in Runs : StartCollected(r)
BY DEF Next, Step, Answered, Tick, HubCloses, StartStreaming, End, Cancel, Begin,
       PassLimiter, LimiterCancelled, Send, Succeeds, FailsForGood,
       FailsRetryably, Waited, WaitCancelled, Lock, Connected, ConnectFails

LEMMA CallsStep ==
  ASSUME CallsOK, Next
  PROVE  CallsOK'
<1> USE RunsAssumption, BudgetAssumption DEF Goto, Return, client, call, CallsOK
<1>1. CASE Tick
  BY <1>1 DEF Tick
<1>2. CASE HubCloses
  BY <1>2 DEF HubCloses
<1>3. ASSUME NEW r \in Runs,
             StartStreaming(r) \/ StartCollected(r) \/ End(r) \/ Cancel(r)
      PROVE  CallsOK'
  BY <1>3 DEF StartStreaming, StartCollected, End, Cancel
<1>4. ASSUME NEW r \in Runs, Begin(r) PROVE CallsOK'
  BY <1>4 DEF Begin
<1>5. ASSUME NEW r \in Runs, PassLimiter(r) PROVE CallsOK'
  BY <1>5 DEF PassLimiter
<1>6. ASSUME NEW r \in Runs,
             LimiterCancelled(r) \/ Waited(r) \/ WaitCancelled(r)
               \/ FailsForGood(r) \/ Succeeds(r)
      PROVE  CallsOK'
  BY <1>6 DEF LimiterCancelled, Waited, WaitCancelled, FailsForGood, Succeeds
<1>7. ASSUME NEW r \in Runs, Send(r) PROVE CallsOK'
  BY <1>7 DEF Send
<1>8. ASSUME NEW r \in Runs, FailsRetryably(r) PROVE CallsOK'
  BY <1>8 DEF FailsRetryably, TryAgain, Exhausted
<1>9. ASSUME NEW r \in Runs, Lock(r) PROVE CallsOK'
  BY <1>9 DEF Lock
<1>10. ASSUME NEW r \in Runs, Connected(r) PROVE CallsOK'
  BY <1>10 DEF Connected
<1>11. ASSUME NEW r \in Runs, ConnectFails(r) PROVE CallsOK'
  BY <1>11 DEF ConnectFails, TryAgain, Exhausted
<1> QED
  BY <1>1, <1>2, <1>3, <1>4, <1>5, <1>6, <1>7, <1>8, <1>9, <1>10, <1>11
     DEF Next, Step, Answered

LEMMA TypeStep == TypeOK /\ [Next]_vars => TypeOK'
<1> SUFFICES ASSUME TypeOK, [Next]_vars PROVE TypeOK'
  OBVIOUS
<1>1. StoreOK /\ CallsOK
  BY TypeParts
<1>2. StoreOK' /\ CallsOK'
  <2>1. CASE Next
    BY <1>1, <2>1, StoreSteps, StoreStep, StoreKept, StoreEmptied, CallsStep
  <2>2. CASE UNCHANGED vars
    BY <1>1, <2>2, StoreKept DEF vars, CallsOK, client, call
  <2> QED BY <2>1, <2>2
<1> QED BY <1>2 DEF TypeOK, StoreOK, CallsOK, Numbered

\* The model is well typed (the type invariant the run checks).
THEOREM TypeCorrect == Spec => []TypeOK
BY TypeInit, TypeStep, PTL DEF Spec
-----------------------------------------------------------------------------
(* The lock.  A run that connects holds it, so there is one at most; only  *)
(* it may put a client into the place of the one it closed.                *)

LockInv ==
  /\ \A r \in Runs : pc[r] = "connecting" => mu = r
  /\ mu # NoOne => open = {}
  /\ open \subseteq {inner}

LEMMA LockStep ==
  ASSUME CallsOK, LockInv, Next
  PROVE  LockInv'
<1> USE RunsAssumption DEF CallsOK, LockInv, Goto, Return, client, call
<1>1. CASE Tick
  BY <1>1 DEF Tick
<1>2. CASE HubCloses
  BY <1>2 DEF HubCloses
<1>3. ASSUME NEW r \in Runs,
             StartStreaming(r) \/ StartCollected(r) \/ End(r) \/ Cancel(r) \/ Begin(r)
      PROVE  LockInv'
  BY <1>3 DEF StartStreaming, StartCollected, End, Cancel, Begin
<1>4. ASSUME NEW r \in Runs,
             PassLimiter(r) \/ LimiterCancelled(r) \/ Send(r) \/ Succeeds(r)
               \/ FailsForGood(r) \/ Waited(r) \/ WaitCancelled(r)
      PROVE  LockInv'
  BY <1>4 DEF PassLimiter, LimiterCancelled, Send, Succeeds, FailsForGood, Waited,
              WaitCancelled
<1>5. ASSUME NEW r \in Runs, FailsRetryably(r) PROVE LockInv'
  BY <1>5 DEF FailsRetryably, TryAgain
<1>6. ASSUME NEW r \in Runs, Lock(r) PROVE LockInv'
  BY <1>6 DEF Lock
<1>7. ASSUME NEW r \in Runs, Connected(r) PROVE LockInv'
  BY <1>7 DEF Connected
<1>8. ASSUME NEW r \in Runs, ConnectFails(r) PROVE LockInv'
  BY <1>8 DEF ConnectFails, TryAgain
<1> QED BY <1>1, <1>2, <1>3, <1>4, <1>5, <1>6, <1>7, <1>8 DEF Next, Step, Answered

\* However calls and reconnects overlap, at most one client is connected, the
\* one in use (reconnect, mcp_reconnect.go 35-92).
THEOREM ClientsDoNotPileUp == Spec => []OneOpen
<1>1. Init => LockInv
  BY DEF Init, LockInv
<1>2. TypeOK /\ LockInv /\ [Next]_vars => LockInv'
  <2> SUFFICES ASSUME TypeOK, LockInv, [Next]_vars PROVE LockInv'
    OBVIOUS
  <2>1. CASE Next
    BY <2>1, LockStep, TypeParts
  <2>2. CASE UNCHANGED vars
    BY <2>2 DEF vars, client, LockInv
  <2> QED BY <2>1, <2>2
<1>3. LockInv => OneOpen
  BY DEF LockInv, OneOpen
<1> QED BY <1>1, <1>2, <1>3, TypeCorrect, PTL DEF Spec
-----------------------------------------------------------------------------
(* The retries.  A step that may send has sent no more requests than there *)
(* were retries, and its call has not failed on the client it would use.   *)

RetryInv ==
  \A r \in Runs :
    /\ using[r] <= inner /\ failed[r] <= inner
    /\ pc[r] \in {"limited", "send", "waiting", "locking", "connecting"} =>
         sent[r] <= attempt[r]
    /\ sent[r] <= attempt[r] + 1
    /\ pc[r] = "limited" => attempt[r] = 0
    /\ pc[r] = "send" /\ attempt[r] > 0 => inner > failed[r]
    /\ pc[r] = "calling" /\ attempt[r] > 0 => using[r] > failed[r]

LEMMA RetryStep ==
  ASSUME CallsOK, RetryInv, Next
  PROVE  RetryInv'
<1> USE RunsAssumption, BudgetAssumption
    DEF CallsOK, RetryInv, Goto, Return, client, call
<1>1. CASE Tick
  BY <1>1 DEF Tick
<1>2. CASE HubCloses
  BY <1>2 DEF HubCloses
<1>3. ASSUME NEW r \in Runs,
             StartStreaming(r) \/ StartCollected(r) \/ End(r) \/ Cancel(r)
      PROVE  RetryInv'
  <2>1. CASE Cancel(r)
    BY <2>1 DEF Cancel
  <2>2. CASE StartStreaming(r) \/ StartCollected(r) \/ End(r)
    <3>1. /\ UNCHANGED <<inner, attempt, sent, using, failed>>
          /\ \A q \in Runs : pc'[q] = pc[q] \/ pc'[q] \in {"idle", "over"}
      BY <2>2 DEF StartStreaming, StartCollected, End
    <3> QED BY <3>1
  <2> QED BY <1>3, <2>1, <2>2
<1>4. ASSUME NEW r \in Runs, Begin(r) PROVE RetryInv'
  BY <1>4 DEF Begin
<1>5. ASSUME NEW r \in Runs, PassLimiter(r) PROVE RetryInv'
  BY <1>5 DEF PassLimiter
<1>6. ASSUME NEW r \in Runs,
             LimiterCancelled(r) \/ Succeeds(r) \/ FailsForGood(r) \/ Waited(r)
               \/ WaitCancelled(r)
      PROVE  RetryInv'
  BY <1>6 DEF LimiterCancelled, Succeeds, FailsForGood, Waited, WaitCancelled
<1>7. ASSUME NEW r \in Runs, Send(r) PROVE RetryInv'
  BY <1>7 DEF Send
<1>8. ASSUME NEW r \in Runs, FailsRetryably(r) PROVE RetryInv'
  BY <1>8 DEF FailsRetryably, TryAgain, Exhausted
<1>9. ASSUME NEW r \in Runs, Lock(r) PROVE RetryInv'
  BY <1>9 DEF Lock
<1>10. ASSUME NEW r \in Runs, Connected(r) PROVE RetryInv'
  BY <1>10 DEF Connected
<1>11. ASSUME NEW r \in Runs, ConnectFails(r) PROVE RetryInv'
  BY <1>11 DEF ConnectFails, TryAgain, Exhausted
<1> QED
  BY <1>1, <1>2, <1>3, <1>4, <1>5, <1>6, <1>7, <1>8, <1>9, <1>10, <1>11
     DEF Next, Step, Answered

LEMMA RetriesHold == Spec => [](TypeOK /\ RetryInv)
<1>1. Init => RetryInv
  BY DEF Init, RetryInv
<1>2. TypeOK /\ RetryInv /\ [Next]_vars => RetryInv'
  <2> SUFFICES ASSUME TypeOK, RetryInv, [Next]_vars PROVE RetryInv'
    OBVIOUS
  <2>1. CASE Next
    BY <2>1, RetryStep, TypeParts
  <2>2. CASE UNCHANGED vars
    BY <2>2 DEF vars, client, call, RetryInv
  <2> QED BY <2>1, <2>2
<1> QED BY <1>1, <1>2, TypeCorrect, PTL DEF Spec

\* One tool call sends one request and at most MaxRetries more (CallTool,
\* mcp_reconnect.go 157-183), whatever the other runs' reconnects do.
THEOREM RequestsBounded == Spec => []RequestBudget
<1>1. TypeOK /\ RetryInv => RequestBudget
  <2> SUFFICES ASSUME TypeOK, RetryInv, NEW r \in Runs
               PROVE  sent[r] <= 1 + MaxRetries
    BY DEF RequestBudget
  <2>1. /\ sent[r] \in Nat /\ attempt[r] \in 0..MaxRetries
        /\ sent[r] <= attempt[r] + 1
    BY DEF TypeOK, RetryInv
  <2> QED BY <2>1, BudgetAssumption
<1> QED BY <1>1, RetriesHold, PTL

\* A retry goes out on a client made after the one the call failed on, although
\* r.inner is read without the lock (CallTool, mcp_reconnect.go 175).
THEOREM RetriesUseNewClients == Spec => []RetryOnNewClient
<1>1. RetryInv => RetryOnNewClient
  BY DEF RetryInv, RetryOnNewClient
<1> QED BY <1>1, RetriesHold, PTL
-----------------------------------------------------------------------------
(* The chunk store.                                                        *)

LEMMA ChunksStep ==
  ASSUME StoreOK, CallsOK, ChunksStay, Next
  PROVE  ChunksStay'
<1>1. CASE UNCHANGED store
  BY <1>1 DEF store, ChunksStay
<1>2. ASSUME NEW r \in Runs, StartCollected(r) PROVE ChunksStay'
  BY <1>2 DEF StartCollected, ChunksStay
<1>3. ASSUME NEW r \in Runs, StoreChunked(r) PROVE ChunksStay'
  <2> DEFINE id == Cardinality(DOMAIN chunks)
  <2>1. /\ chunks' = [i \in DOMAIN chunks \cup {id} |->
                        IF i = id THEN results + 1 ELSE chunks[i]]
        /\ have' = [have EXCEPT ![r] = [id |-> id, result |-> results + 1]]
        /\ cleaned' = [cleaned EXCEPT ![r] = FALSE]
    BY <1>3 DEF StoreChunked
  <2>2. id \notin DOMAIN chunks
    BY FreshId
  <2>3. /\ DOMAIN have = Runs /\ DOMAIN cleaned = Runs
    BY DEF StoreOK
  <2> HIDE DEF id
  <2>4. ASSUME NEW q \in Runs, have'[q] # Nothing, ~cleaned'[q]
        PROVE  have'[q].id \in DOMAIN chunks' /\ chunks'[have'[q].id] = have'[q].result
    <3>1. CASE q = r
      BY <2>1, <2>3, <3>1
    <3>2. CASE q # r
      <4>1. have'[q] = have[q] /\ ~cleaned[q] /\ have[q] # Nothing
        BY <2>1, <2>3, <2>4, <3>2
      <4>2. have[q].id \in DOMAIN chunks /\ chunks[have[q].id] = have[q].result
        BY <4>1 DEF ChunksStay
      <4> QED BY <2>1, <2>2, <4>1, <4>2
    <3> QED BY <3>1, <3>2
  <2> QED BY <2>4 DEF ChunksStay
<1> QED BY <1>1, <1>2, <1>3, StoreSteps

\* The chunk id a result was announced with leads to it until the store is
\* emptied (storeChunked and getChunk, mcp_helper.go 114-160).
THEOREM ChunksKept == Spec => []ChunksStay
<1>1. Init => ChunksStay
  BY DEF Init, ChunksStay
<1>2. TypeOK /\ ChunksStay /\ [Next]_vars => ChunksStay'
  <2> SUFFICES ASSUME TypeOK, ChunksStay, [Next]_vars PROVE ChunksStay'
    OBVIOUS
  <2>1. CASE Next
    BY <2>1, ChunksStep, TypeParts
  <2>2. CASE UNCHANGED vars
    BY <2>2 DEF vars, store, ChunksStay
  <2> QED BY <2>1, <2>2
<1> QED BY <1>1, <1>2, TypeCorrect, PTL DEF Spec
=============================================================================
