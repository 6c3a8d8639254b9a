----------------------------- MODULE Transcript -----------------------------
(***************************************************************************)
(* The chat page's messages and tool cards as values: what                 *)
(* convertToAgentEvent of lib/api.ts makes of an envelope and what         *)
(* handleEvent of AgentWorkspace.tsx does to the list for it.  A message   *)
(* carries, beside what the code keeps, its kind and the session of the    *)
(* run whose stream wrote it, for the properties.                          *)
(***************************************************************************)
EXTENDS Naturals, Sequences

CONSTANTS
  SubAgents,   \* agents that are not the supervisor
  Texts,       \* what an agent may say
  Tools        \* tools that an agent may call

NoAgent == "none"
Supervisor == "supervisor"
System == "system"
NoText == "none"
NoTool == "none"

ASSUME NamesAssumption ==
  /\ {NoAgent, Supervisor, System} \cap SubAgents = {}
  /\ NoText \notin Texts /\ NoTool \notin Tools

Kinds == {"user", "preview", "finding", "notice", "system", "stored"}
Written == Texts \cup {"notice", "user", "stored"}

Message(sessions) ==
  [role : {"user", "assistant"}, agent : SubAgents \cup {NoAgent, System},
   kind : Kinds, text : Written, sess : sessions]

UserMessage(sess) ==
  [role |-> "user", agent |-> NoAgent, kind |-> "user", text |-> "user", sess |-> sess]

\* Errors and "Cancelled" are shown as an assistant's message without a name.
Notice(sess) ==
  [role |-> "assistant", agent |-> NoAgent, kind |-> "notice", text |-> "notice", sess |-> sess]

CompactionNotice(sess) ==
  [role |-> "assistant", agent |-> System, kind |-> "system", text |-> "notice", sess |-> sess]

Finding(agent, text, sess) ==
  [role |-> "assistant", agent |-> agent, kind |-> "finding", text |-> text, sess |-> sess]

Preview(text, sess) ==
  [role |-> "assistant", agent |-> NoAgent, kind |-> "preview", text |-> text, sess |-> sess]

\* Mutant of IsSupervisors: any assistant's message is taken for the supervisor's.
IsAssistants(m) == m.role = "assistant"

IsSupervisors(m) == m.role = "assistant" /\ m.agent \in {NoAgent, Supervisor}

\* The supervisor's messages since the user last spoke.
Replaceable(ms) ==
  {i \in DOMAIN ms : /\ IsSupervisors(ms[i])
                     /\ \A j \in i .. Len(ms) : ms[j].role # "user"}

\* findLastSupervisorMessageIndex: 0 stands for the code's -1.
FindLastSupervisor(ms) ==
  IF Replaceable(ms) = {} THEN 0
  ELSE CHOOSE i \in Replaceable(ms) : \A j \in Replaceable(ms) : j <= i

\* The final output and the supervisor's answers replace the supervisor's last
\* message of the turn, or are appended.  (The check for the same content that
\* the second makes changes nothing: the replacement would be equal.)
ShowSupervisor(ms, text, sess) ==
  LET i == FindLastSupervisor(ms)
  IN  IF i = 0 THEN Append(ms, Preview(text, sess))
      ELSE [ms EXCEPT ![i].text = text, ![i].sess = sess]

\* A sub-agent's answer is appended unless that agent has said the same before.
ShowFinding(ms, agent, text, sess) ==
  IF \E i \in DOMAIN ms : /\ ms[i].role = "assistant"
                          /\ ms[i].agent = agent /\ ms[i].text = text
  THEN ms ELSE Append(ms, Finding(agent, text, sess))

(***************************************************************************)
(* Tool cards.  A card is opened by the event of a call and closed by that *)
(* of its result; pendingToolCall is the one slot they share.  "mine" and  *)
(* "by" say whose call the card really is about, for the properties.       *)
(***************************************************************************)
NoCard == [tool |-> NoTool, by |-> 0]
PendingCard(streams) == [tool : Tools \cup {NoTool}, by : streams \cup {0}]

\* TOOL_CALL_START: a card that is already open keeps its tool (and only takes
\* the new call's arguments).
OpenCard(card, tool, by) ==
  IF card = NoCard THEN [tool |-> tool, by |-> by] ELSE card

\* TOOL_CALL_END: the tool of the open card wins over the result's own.  It is
\* another call's of the same message ("swapped") when that one is still due.
ClosedCard(card, tool, by, stillDue) ==
  [tool |-> IF card.tool = NoTool THEN tool ELSE card.tool,
   mine |-> tool, foreign |-> card.by \notin {0, by}, swapped |-> card.tool \in stillDue]
=============================================================================
