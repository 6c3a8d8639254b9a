------------------------------ MODULE History ------------------------------
(***************************************************************************)
(* The message history on its way to a chat model: the sanitizer           *)
(* (internal/hub/failover_model.go 603-917), which every request passes,   *)
(* and the compaction of an overlong request                               *)
(* (internal/hub/context_compaction.go 122-230), which sanitizes, folds    *)
(* the older blocks into a summary, sanitizes again and is repeated while  *)
(* the model still finds the request too long.                             *)
(*                                                                         *)
(* A history is a sequence of blocks, as both functions group it: an       *)
(* assistant message with tool calls together with the tool messages that  *)
(* directly follow it (a "turn"), or any other single message.  Of a       *)
(* message only the role, the ids of its calls or results, and whether an  *)
(* assistant message has content are kept.  A nil message is copied like a *)
(* "text".  How much is folded depends on byte counts, which are left out: *)
(* any number of blocks, the oldest first.                                 *)
(***************************************************************************)
EXTENDS Naturals, Sequences, FiniteSets

CONSTANTS
  IDs,        \* tool call ids
  NoID,       \* the empty id
  Histories,  \* the histories that requests start from
  CompactMax  \* fm.contextCompactMaxRetries

\* A tool call or a tool result: its place in its list, and its id.
Item == [n : Nat, id : IDs \cup {NoID}]

Given == {"system", "user", "text", "turn", "tool"}
Made == {"note", "summary", "folded"}  \* a tool result as user context, the
                                       \* summary of folded blocks, and a block
                                       \* whose messages are set to nil

\* n is the block's place in the history the request started from, text says
\* whether a turn's assistant message has content of its own.
Block ==
  {b \in [kind : Given \cup Made, n : Nat, calls : SUBSET Item,
          text : BOOLEAN, results : SUBSET Item] :
     /\ IsFiniteSet(b.calls) /\ IsFiniteSet(b.results)
     /\ b.kind = "turn" <=> b.calls # {}}

Plain(kind, n) ==
  [kind |-> kind, n |-> n, calls |-> {}, text |-> TRUE, results |-> {}]

ASSUME IDAssumption == NoID \notin IDs
ASSUME CompactMaxAssumption == CompactMax \in Nat

\* A tool message that follows a turn belongs to it.
ASSUME HistoriesAssumption ==
  /\ Histories \subseteq Seq(Block)
  /\ \A h \in Histories : \A k \in DOMAIN h :
       /\ h[k].n = k /\ h[k].kind \in Given
       /\ h[k].kind = "tool" /\ k > 1 => h[k - 1].kind # "turn"

VARIABLES
  phase,     \* "sanitize": the pass before the first request
             \* "before", "after": the passes of compactContextMessages
             \* "sent": the model has the request; "done": it is answered
  msgs,      \* what the pass reads
  i,         \* its position
  out,       \* what it has written
  resolved,  \* resolvedToolCallIDs
  attempt,   \* compactions so far
  latest     \* place of the latest user message of the history, else 0

vars == <<phase, msgs, i, out, resolved, attempt, latest>>

TypeOK ==
  /\ phase \in {"sanitize", "before", "after", "sent", "done"}
  /\ msgs \in Seq(Block)
  /\ i \in Nat \ {0}
  /\ out \in Seq(Block)
  /\ resolved \subseteq IDs
  /\ attempt \in 0..CompactMax
  /\ latest \in Nat

Init ==
  /\ phase = "sanitize"
  /\ msgs \in Histories
  /\ i = 1
  /\ out = <<>>
  /\ resolved = {}
  /\ attempt = 0
  /\ latest \in 0..Len(msgs)
  /\ latest > 0 => msgs[latest].kind = "user"
  /\ \A j \in (latest + 1)..Len(msgs) : msgs[j].kind # "user"

-----------------------------------------------------------------------------
(* sanitizeDanglingToolCalls: one block.                                   *)

\* filteredToolCalls: without replays of calls resolved earlier, and without
\* repetitions inside the turn.
Fresh(b) ==
  {c \in b.calls : \/ c.id = NoID
                   \/ /\ c.id \notin resolved
                      /\ \A d \in b.calls : d.id = c.id => c.n <= d.n}

\* droppedReplayedIDs
Replayed(b) == {c.id : c \in b.calls} \cap resolved

\* The results that do not answer a replay, and their ids.
Kept(b) == {t \in b.results : t.id \notin Replayed(b)}

\* toolResults
Answered(b) == {t.id : t \in Kept(b)} \ {NoID}

\* Mutant of Missing: one result is enough.
MissingNone(b) ==
  IF Answered(b) = {} THEN {c \in Fresh(b) : c.id \notin Answered(b)} ELSE {}

\* The calls that get a synthetic result.
Missing(b) == {c \in Fresh(b) : c.id \notin Answered(b)}

\* toolResultAsUserMessage, for each of the results R of block n.
Notes(R, n) == [k \in 1..Cardinality(R) |-> Plain("note", n)]

Scanning == phase \in {"sanitize", "before", "after"} /\ i <= Len(msgs)

Emit(blocks, ids) ==
  /\ out' = out \o blocks
  /\ resolved' = resolved \cup ids
  /\ i' = i + 1
  /\ UNCHANGED <<phase, msgs, attempt, latest>>

\* Every call has an id: the turn stays, with a placeholder for each result
\* that is missing.
KeepTurn(b) ==
  /\ Fresh(b) # {}
  /\ \A c \in Fresh(b) : c.id # NoID
  /\ Emit(<<[b EXCEPT !.calls = Fresh(b), !.results = Kept(b) \cup Missing(b)]>>,
          Answered(b) \cup {c.id : c \in Missing(b)})

\* All calls were replays, or one has no id to bind a placeholder to: what
\* the turn says and its results become plain messages.
FlattenTurn(b) ==
  /\ b.calls # {}
  /\ Fresh(b) = {} \/ \E c \in Fresh(b) : c.id = NoID
  /\ Emit((IF b.text THEN <<Plain("text", b.n)>> ELSE <<>>) \o Notes(Kept(b), b.n),
          Answered(b))

\* A tool message outside a turn.
ConvertOrphan(b) ==
  /\ b.kind = "tool"
  /\ Answered(b) = {} \/ ~(Answered(b) \subseteq resolved)
  /\ Emit(<<Plain("note", b.n)>>, Answered(b))

SkipOrphan(b) ==
  /\ b.kind = "tool"
  /\ Answered(b) # {} /\ Answered(b) \subseteq resolved
  /\ Emit(<<>>, {})

Copy(b) ==
  /\ b.kind \in {"system", "user", "text", "note", "summary"}
  /\ Emit(<<b>>, {})

\* Not a message any more: compactContextMessages leaves such blocks out.
LeaveOut(b) ==
  /\ b.kind = "folded"
  /\ Emit(<<>>, {})

Sanitize ==
  /\ Scanning
  /\ LET b == msgs[i]
     IN  \/ KeepTurn(b) \/ FlattenTurn(b) \/ ConvertOrphan(b)
         \/ SkipOrphan(b) \/ Copy(b) \/ LeaveOut(b)

-----------------------------------------------------------------------------
(* The request, and compactContextMessages when it is too long.            *)

\* A new pass over s.
Pass(s, next) ==
  /\ msgs' = s
  /\ i' = 1
  /\ out' = <<>>
  /\ resolved' = {}
  /\ phase' = next

Send ==
  /\ phase \in {"sanitize", "after"}
  /\ i > Len(msgs)
  /\ phase' = "sent"
  /\ UNCHANGED <<msgs, i, out, resolved, attempt, latest>>

Answer ==
  /\ phase = "sent"
  /\ phase' = "done"
  /\ UNCHANGED <<msgs, i, out, resolved, attempt, latest>>

Overflow ==
  /\ phase = "sent"
  /\ attempt < CompactMax
  /\ attempt' = attempt + 1
  /\ Pass(out, "before")
  /\ UNCHANGED latest

IsUser(b) == b.kind \in {"user", "note", "summary"}

\* Mutant of Protected: the latest user message is not.
ProtectedEnds(s, k) == k = 1 \/ k + 3 > Len(s)

\* The blocks that are never folded: the first one, the last three, and the
\* one with the last user message.
Protected(s, k) ==
  \/ k = 1
  \/ k + 3 > Len(s)
  \/ IsUser(s[k]) /\ \A j \in (k + 1)..Len(s) : ~IsUser(s[j])

Free(s) == {k \in DOMAIN s : ~Protected(s, k)}

\* Mutant of Fold: of a turn only the assistant message is folded.
FoldCalls(s, F) ==
  [k \in DOMAIN s |-> IF k \notin F THEN s[k]
                      ELSE IF s[k].results = {} THEN Plain("folded", s[k].n)
                      ELSE [s[k] EXCEPT !.kind = "tool", !.calls = {}]]

\* s with the blocks of F folded.
Fold(s, F) ==
  [k \in DOMAIN s |-> IF k \in F THEN Plain("folded", s[k].n) ELSE s[k]]

\* s with the summary after its k leading system messages.
Summarized(s, k) ==
  SubSeq(s, 1, k) \o <<Plain("summary", 0)>> \o SubSeq(s, k + 1, Len(s))

Leads(s, k) ==
  /\ \A j \in 1..k : s[j].kind \in {"system", "folded"}
  /\ k < Len(s) => s[k + 1].kind \notin {"system", "folded"}

Compact ==
  /\ phase = "before"
  /\ i > Len(msgs)
  /\ \E F \in SUBSET Free(out) :
       /\ \A k \in F : \A j \in Free(out) : j < k => j \in F
       /\ \/ F = {} /\ Pass(out, "after")
          \/ /\ F # {}
             /\ \E k \in 0..Len(out) :
                  Leads(Fold(out, F), k) /\ Pass(Summarized(Fold(out, F), k), "after")
  /\ UNCHANGED <<attempt, latest>>

Next == Sanitize \/ Send \/ Answer \/ Overflow \/ Compact

Spec == Init /\ [][Next]_vars

-----------------------------------------------------------------------------
\* "Keeps tool_use blocks paired with a tool_result" (failover_model.go 603),
\* whatever the history looked like and however often it was compacted: every
\* call in it has an id and a result right behind it, and no tool message
\* stands alone.
Paired ==
  \A k \in DOMAIN out :
    /\ out[k].kind # "tool"
    /\ \A c \in out[k].calls :
         c.id # NoID /\ \E t \in out[k].results : t.id = c.id

\* No call id is used twice, within a turn or across turns: replayed and
\* repeated calls are dropped (failover_model.go 658-671).
CallsOnce ==
  \A k, m \in DOMAIN out : \A c \in out[k].calls, d \in out[m].calls :
    c.id = d.id => k = m /\ c = d

\* The places of s up to k that still hold messages.
Left(s, k) == {j \in 1..k : s[j].kind # "folded"}

\* Once sanitized, a history stays as it is: the passes before and after
\* folding write what they read, block by block and nothing else, because
\* folding takes whole blocks (context_compaction.go 123, 210).
Stable ==
  attempt > 0 /\ i > Len(msgs) =>
    /\ Len(out) = Cardinality(Left(msgs, Len(msgs)))
    /\ \A k \in Left(msgs, Len(msgs)) : out[Cardinality(Left(msgs, k))] = msgs[k]

\* The latest user message is in every request that is sent, after any number
\* of compactions (context_compaction_test.go 37), unless a tool result was
\* turned into a later user message, which then is the protected one.
LatestUserKept ==
  phase = "sent" /\ latest > 0 /\ (\A k \in DOMAIN out : out[k].kind # "note") =>
    \E k \in DOMAIN out : out[k].kind = "user" /\ out[k].n = latest
=============================================================================
