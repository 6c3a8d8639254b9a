------------------------------ MODULE Timeline ------------------------------
(***************************************************************************)
(* The workspace timeline of a run, built twice: live, of the agent events *)
(* that convertToAgentEvent makes of what the server streams, and later,   *)
(* of the events the server stored, by replayActivitiesFromEvents.  An     *)
(* event is what hub.PublicEvent carries, texts reduced to their presence. *)
(***************************************************************************)
EXTENDS SequencesExt

CONSTANTS
  SubAgents,   \* agents that are not the supervisor
  Tools        \* tools that an agent may call

Supervisor == "InsightSupervisor"
System == "System"
NoTool == "none"

ASSUME TimelineAssumption ==
  Supervisor \notin SubAgents /\ System \notin SubAgents /\ NoTool \notin Tools

\* An event's message reasons, says something and calls tools, or is the result
\* of one; beside it, or alone, stands an action.
Event ==
  [agent : SubAgents \cup {Supervisor}, reasons : BOOLEAN, says : BOOLEAN,
   call : Tools \cup {NoTool}, result : Tools \cup {NoTool},
   action : {"none", "transfer", "interrupt"}]

HasMessage(e) == e.reasons \/ e.says \/ e.call # NoTool \/ e.result # NoTool

\* What agents produce: a result says something and nothing else; handing over
\* is itself a tool whose result may carry the action; an interrupt stands alone.
Produced(e) ==
  /\ HasMessage(e) \/ e.action # "none"
  /\ e.result # NoTool => e.says /\ ~e.reasons /\ e.call = NoTool
  /\ e.action = "interrupt" => ~HasMessage(e)
  /\ e.action = "transfer" /\ HasMessage(e) => e.result # NoTool

Card(agent, type, of) == [agent |-> agent, type |-> type, of |-> of]
\* Asking for approval is shown as the thought "Waiting for approval...".
Waiting == "waiting"

\* Mutant of Live: the hand-over is looked at before the tool's result.
LiveTransferFirst(e) ==
  IF e.action = "transfer" THEN <<Card(e.agent, "transfer", NoTool)>>
  ELSE IF e.call # NoTool THEN
    IF e.says THEN <<Card(e.agent, "thinking", e.call)>>
    ELSE <<Card(e.agent, "tool_call", e.call)>>
  ELSE IF e.result # NoTool THEN <<Card(e.agent, "tool_result", e.result)>>
  ELSE IF e.says THEN
    IF e.agent = Supervisor THEN <<>> ELSE <<Card(e.agent, "output", NoTool)>>
  ELSE IF e.action = "interrupt" THEN <<Card(e.agent, "thinking", Waiting)>>
  ELSE <<>>

\* convertToAgentEvent and the addActivity of handleEvent: the first that
\* applies.  The supervisor's answers only go to the chat.
Live(e) ==
  IF e.call # NoTool THEN
    IF e.says THEN <<Card(e.agent, "thinking", e.call)>>
    ELSE <<Card(e.agent, "tool_call", e.call)>>
  ELSE IF e.result # NoTool THEN <<Card(e.agent, "tool_result", e.result)>>
  ELSE IF e.says THEN
    IF e.agent = Supervisor THEN <<>> ELSE <<Card(e.agent, "output", NoTool)>>
  ELSE IF e.action = "transfer" THEN <<Card(e.agent, "transfer", NoTool)>>
  ELSE IF e.action = "interrupt" THEN <<Card(e.agent, "thinking", Waiting)>>
  ELSE <<>>

\* replayActivitiesFromEvents: the hand-over and the reasoning beside the rest.
Replayed(e) ==
  (IF e.action = "transfer" THEN <<Card(e.agent, "transfer", NoTool)>> ELSE <<>>)
  \o (IF e.reasons THEN <<Card(e.agent, "thinking", NoTool)>> ELSE <<>>)
  \o (IF e.call # NoTool THEN <<Card(e.agent, "tool_call", e.call)>>
      ELSE IF e.result # NoTool THEN <<Card(e.agent, "tool_result", e.result)>>
      ELSE IF e.says THEN <<Card(e.agent, "output", NoTool)>>
      ELSE <<>>)

\* addActivity: a thought that only repeats the last one is not shown again.
AddActivity(cards, card) ==
  IF cards # <<>> /\ card.type = "thinking" /\ cards[Len(cards)] = card
  THEN cards ELSE Append(cards, card)

AddActivities(cards, more) == FoldLeft(AddActivity, cards, more)

\* What stands at some of a list's places, in order.
Only(list, places) ==
  FlattenSeq([i \in DOMAIN list |-> IF i \in places THEN <<list[i]>> ELSE <<>>])

Results(cards) == Only(cards, {i \in DOMAIN cards : cards[i].type = "tool_result"})
\* What the sub-agents answered.
Answers(cards) ==
  Only(cards, {i \in DOMAIN cards : cards[i].type = "output" /\ cards[i].agent # Supervisor})
=============================================================================
