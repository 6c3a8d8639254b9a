------------------------------ MODULE ChatPage ------------------------------
(***************************************************************************)
(* The chat page, AgentWorkspace.tsx, over the streams of lib/api.ts: a    *)
(* message opens a chat stream, an approval opens a resume stream, and the *)
(* page goes on being clicked while their events arrive.  Handlers run to  *)
(* their next await; what they read of the page's state is what it was at  *)
(* the click, kept here in the stream's record.  A run is named by its     *)
(* first session: the page asks for run_id = session_id, and on a page     *)
(* without a session the server names both.                                *)
(***************************************************************************)
EXTENDS Transcript, FiniteSets

CONSTANTS
  MaxStreams,    \* bound: streams opened in a behaviour
  MaxEvents,     \* bound: answers, calls, errors and notices of a stream
  MaxSwitches    \* bound: times the page is cleared or loaded

ASSUME BoundsAssumption ==
  MaxStreams \in Nat \ {0} /\ MaxEvents \in Nat /\ MaxSwitches \in Nat

Streams == 1 .. MaxStreams
NoSession == 0
Stored == MaxStreams + 1          \* the session in the URL and in the history
Sessions == 0 .. MaxStreams + 1

\* run_id: the session's id, or the server's own when there was no session.
RunIds == [named : {"run", "session"}, of : Sessions]
NoRun == [named |-> "run", of |-> NoSession]
RunOf(asked, s) ==
  IF asked = NoSession THEN [named |-> "run", of |-> s]
  ELSE [named |-> "session", of |-> asked]

\* The calls of one message whose results are still due.
Calls == SUBSET Tools
Approvals == [run : RunIds, due : Calls]
NoApproval == [run |-> NoRun, due |-> {}]

VARIABLES
  messages,      \* the list in the left panel
  processing,    \* isProcessing
  approval,      \* pendingInterrupts: the run that asks, and its calls
  pendingRun,    \* pendingRunId
  autoApprove,
  sessionId,
  streams,       \* per stream what its handlers hold
  opened,        \* streams opened so far
  abortable,     \* abortControllerRef: a stream, or 0
  restoring,     \* the answer to the URL's session is on its way
  card,          \* pendingToolCall
  lastCard,      \* the newest entry of toolCalls, or NoCard
  switches,      \* times the page was cleared or loaded
  loosed,        \* history: the input was released under an open stream
  mixed          \* history: switched under an open stream or approval

page == <<messages, processing, approval, pendingRun, autoApprove, sessionId>>
tools == <<card, lastCard>>
history == <<switches, loosed, mixed>>
vars == <<page, streams, opened, abortable, restoring, tools, history>>

Stream ==
  [st : {"unused", "open", "closed"}, kind : {"chat", "resume"}, asked : Sessions,
   run : RunIds, targets : RunIds, auto : BOOLEAN, announced : BOOLEAN,
   due : Calls, left : 0 .. MaxEvents]

Unused ==
  [st |-> "unused", kind |-> "chat", asked |-> NoSession, run |-> NoRun,
   targets |-> NoRun, auto |-> FALSE, announced |-> FALSE, due |-> {}, left |-> 0]

\* Nothing of a stream that has ended is read again.
Closed == [Unused EXCEPT !.st = "closed"]

ClosedCards == [tool : Tools, mine : Tools, foreign : BOOLEAN, swapped : BOOLEAN]

TypeOK ==
  /\ messages \in Seq(Message(Sessions))
  /\ processing \in BOOLEAN /\ autoApprove \in BOOLEAN /\ restoring \in BOOLEAN
  /\ approval \in Approvals /\ pendingRun \in RunIds /\ sessionId \in Sessions
  /\ streams \in [Streams -> Stream]
  /\ opened \in 0 .. MaxStreams /\ abortable \in 0 .. MaxStreams
  /\ card \in PendingCard(Streams)
  /\ lastCard \in ClosedCards \cup {NoCard}
  /\ switches \in Nat /\ loosed \in BOOLEAN /\ mixed \in BOOLEAN

\* The page opens empty, or with a session in its URL that it asks for.
Init ==
  /\ messages = <<>> /\ processing = FALSE
  /\ approval = NoApproval /\ pendingRun = NoRun
  /\ autoApprove = FALSE
  /\ restoring \in BOOLEAN
  /\ sessionId = IF restoring THEN Stored ELSE NoSession
  /\ streams = [s \in Streams |-> Unused]
  /\ opened = 0 /\ abortable = 0
  /\ card = NoCard /\ lastCard = NoCard
  /\ switches = 0 /\ loosed = FALSE /\ mixed = FALSE

IsOpen(s) == streams[s].st = "open"
AnyOpen == \E s \in Streams : IsOpen(s)
OthersOpen(s) == \E r \in Streams \ {s} : IsOpen(r)

ShowWelcome == messages = <<>> /\ ~processing
\* The input of the welcome page is not locked by a pending approval.
InputEnabled == ~processing /\ (approval = NoApproval \/ ShowWelcome)

NewChat(s, asked) ==
  [st |-> "open", kind |-> "chat", asked |-> asked, run |-> RunOf(asked, s),
   targets |-> NoRun, auto |-> autoApprove, announced |-> FALSE, due |-> {},
   left |-> MaxEvents]

\* resumeWorkflow: no abort signal, and session events are not listened to.
NewResume(run, asked, targets, auto, due) ==
  [st |-> "open", kind |-> "resume", asked |-> asked, run |-> run,
   targets |-> targets, auto |-> auto, announced |-> TRUE, due |-> due,
   left |-> MaxEvents]

-----------------------------------------------------------------------------
\* handleSendMessage up to the request.
Send ==
  LET s == opened + 1
  IN  /\ InputEnabled
      /\ opened < MaxStreams
      /\ messages' = Append(messages, UserMessage(sessionId))
      /\ processing' = TRUE
      /\ opened' = s
      /\ streams' = [streams EXCEPT ![s] = NewChat(s, sessionId)]
      /\ abortable' = s
      /\ lastCard' = NoCard
      /\ UNCHANGED <<approval, pendingRun, autoApprove, sessionId, restoring, card, history>>

\* The session envelope, the first of a chat stream.
Announce(s) ==
  /\ IsOpen(s) /\ ~streams[s].announced
  /\ streams' = [streams EXCEPT ![s].announced = TRUE]
  /\ sessionId' = streams[s].run.of
  /\ UNCHANGED <<messages, processing, approval, pendingRun, autoApprove,
                 opened, abortable, restoring, tools, history>>

Listening(s) == IsOpen(s) /\ streams[s].announced /\ streams[s].left > 0
Counted(s) == streams' = [streams EXCEPT ![s].left = @ - 1]
OnlyMessages ==
  UNCHANGED <<processing, approval, pendingRun, autoApprove, sessionId, opened,
              abortable, restoring, tools, history>>

\* RESPONSE of the supervisor.
SupervisorAnswers(s, text) ==
  /\ Listening(s) /\ Counted(s)
  /\ messages' = ShowSupervisor(messages, text, streams[s].run.of)
  /\ OnlyMessages

\* RESPONSE of a sub-agent.
SubAgentAnswers(s, agent, text) ==
  /\ Listening(s) /\ Counted(s)
  /\ messages' = ShowFinding(messages, agent, text, streams[s].run.of)
  /\ OnlyMessages

\* CONTEXT_COMPACTION that has started.
Compacting(s) ==
  /\ Listening(s) /\ Counted(s)
  /\ messages' = Append(messages, CompactionNotice(streams[s].run.of))
  /\ OnlyMessages

\* ERROR: the server goes on streaming, the page does not wait any more.
ErrorEvent(s) ==
  /\ Listening(s) /\ Counted(s)
  /\ messages' = Append(messages, Notice(streams[s].run.of))
  /\ processing' = FALSE
  /\ loosed' = TRUE
  /\ UNCHANGED <<approval, pendingRun, autoApprove, sessionId, opened, abortable,
                 restoring, tools, switches, mixed>>

OnlyTools ==
  UNCHANGED <<page, opened, abortable, restoring, history>>

\* An assistant's message with calls.  Only the first opens a card, and none does
\* when the message also says something (convertToAgentEvent).
CallTools(s, calls, first, says) ==
  /\ Listening(s) /\ streams[s].due = {} /\ first \in calls
  /\ streams' = [streams EXCEPT ![s].left = @ - 1, ![s].due = calls]
  /\ card' = IF says THEN card ELSE OpenCard(card, first, s)
  /\ UNCHANGED lastCard
  /\ OnlyTools

\* Mutant of ToolResult: the slot of the open card is not emptied.
ToolResultKeeps(s, t) ==
  /\ IsOpen(s) /\ streams[s].announced /\ t \in streams[s].due
  /\ streams' = [streams EXCEPT ![s].due = @ \ {t}]
  /\ lastCard' = ClosedCard(card, t, s, streams'[s].due)
  /\ UNCHANGED card
  /\ OnlyTools

\* TOOL_CALL_END.  The calls of a message run side by side, and their results
\* come as they finish.
ToolResult(s, t) ==
  /\ IsOpen(s) /\ streams[s].announced /\ t \in streams[s].due
  /\ streams' = [streams EXCEPT ![s].due = @ \ {t}]
  /\ lastCard' = ClosedCard(card, t, s, streams'[s].due)
  /\ card' = NoCard
  /\ OnlyTools

-----------------------------------------------------------------------------
\* How a stream that was read to its end leaves the page: it closes ...
Ends(s) ==
  /\ streams' = [streams EXCEPT ![s] = Closed]
  /\ processing' = FALSE
  /\ loosed' = (loosed \/ OthersOpen(s))
  /\ UNCHANGED <<approval, pendingRun, opened>>

\* Mutant of Asks: the run that asks is not noted.
AsksWithoutRun(s) ==
  /\ streams' = [streams EXCEPT ![s] = Closed]
  /\ processing' = FALSE
  /\ loosed' = (loosed \/ OthersOpen(s))
  /\ approval' = [run |-> streams[s].run, due |-> streams[s].due]
  /\ UNCHANGED <<pendingRun, opened>>

\* ... or asks the user for approval: only a chat stream names the run ...
Asks(s) ==
  /\ streams' = [streams EXCEPT ![s] = Closed]
  /\ processing' = FALSE
  /\ loosed' = (loosed \/ OthersOpen(s))
  /\ approval' = [run |-> streams[s].run, due |-> streams[s].due]
  /\ pendingRun' = IF streams[s].kind = "chat" THEN streams[s].run ELSE pendingRun
  /\ UNCHANGED opened

\* ... or goes on with everything approved (handleAutoApprove), under the
\* session id that its own handler was created with.
Resumes(s) ==
  LET r == opened + 1
      resume == NewResume(streams[s].run, streams[s].asked, streams[s].run, TRUE, streams[s].due)
  IN  /\ opened < MaxStreams
      /\ streams' = [streams EXCEPT ![s] = Closed, ![r] = resume]
      /\ opened' = r
      /\ UNCHANGED <<processing, approval, pendingRun, loosed>>

AfterInterrupts(s) ==
  \/ streams[s].auto /\ Resumes(s)
  \/ ~streams[s].auto /\ Asks(s)

\* sendMessage returns: final output, onComplete, then the interrupts.
FinishChat(s, output) ==
  /\ IsOpen(s) /\ streams[s].kind = "chat" /\ streams[s].announced
  /\ messages' = IF output = NoText THEN messages
                 ELSE ShowSupervisor(messages, output, streams[s].run.of)
  /\ sessionId' = streams[s].run.of
  /\ Ends(s) \/ AfterInterrupts(s)
  /\ UNCHANGED <<autoApprove, abortable, restoring, tools, switches, mixed>>

\* resumeWorkflow returns: its output is not shown again.
FinishResume(s) ==
  /\ IsOpen(s) /\ streams[s].kind = "resume"
  /\ Ends(s) \/ AfterInterrupts(s)
  /\ UNCHANGED <<messages, sessionId, autoApprove, abortable, restoring, tools,
                 switches, mixed>>

\* Mutant of Lost: nothing catches the failure of a resume.
LostUncaught(s) ==
  /\ IsOpen(s)
  /\ messages' = IF streams[s].kind = "chat" THEN Append(messages, Notice(NoSession))
                 ELSE messages
  /\ \/ streams[s].kind = "chat" /\ Ends(s)
     \/ /\ streams[s].kind = "resume"
        /\ streams' = [streams EXCEPT ![s] = Closed]
        /\ UNCHANGED <<processing, loosed, approval, pendingRun, opened>>
  /\ UNCHANGED <<sessionId, autoApprove, abortable, restoring, tools, switches, mixed>>

\* The connection breaks or is refused: onError, or the resume's catch.
Lost(s) ==
  /\ IsOpen(s)
  /\ messages' = IF streams[s].kind = "chat" THEN Append(messages, Notice(NoSession))
                 ELSE messages
  /\ Ends(s)
  /\ UNCHANGED <<sessionId, autoApprove, abortable, restoring, tools, switches, mixed>>

-----------------------------------------------------------------------------
\* The switch in the box's settings; handlers under way keep what they were
\* created with, and once no stream can be opened any more nobody reads it.
ToggleAutoApprove ==
  /\ opened < MaxStreams
  /\ autoApprove' = ~autoApprove
  /\ UNCHANGED <<messages, processing, approval, pendingRun, sessionId, streams, opened,
                 abortable, restoring, tools, history>>

\* handleApproveAll; "enable" is the second button, which also switches the
\* automatic approval on.
ApproveAll(enable) ==
  LET r == opened + 1
      auto == autoApprove \/ enable
  IN  /\ ~ShowWelcome
      /\ approval # NoApproval /\ pendingRun # NoRun
      /\ opened < MaxStreams
      /\ processing' = TRUE
      /\ approval' = NoApproval
      /\ autoApprove' = auto
      /\ opened' = r
      /\ streams' = [streams EXCEPT ![r] =
                       NewResume(pendingRun, sessionId, approval.run, auto, approval.due)]
      /\ UNCHANGED <<messages, pendingRun, sessionId, abortable, restoring, tools, history>>

\* handleRejectAll: the server is not told.
RejectAll ==
  /\ ~ShowWelcome /\ approval # NoApproval
  /\ approval' = NoApproval /\ pendingRun' = NoRun
  /\ processing' = FALSE
  /\ loosed' = (loosed \/ AnyOpen)
  /\ UNCHANGED <<messages, autoApprove, sessionId, streams, opened, abortable,
                 restoring, tools, switches, mixed>>

\* Mutant of Stop: the page is left to the stream's own end.
StopOnlyAborts ==
  /\ processing
  /\ streams' = [s \in Streams |-> IF s = abortable THEN Closed ELSE streams[s]]
  /\ abortable' = 0
  /\ messages' = Append(messages, Notice(NoSession))
  /\ UNCHANGED <<processing, loosed, approval, pendingRun, autoApprove, sessionId, opened,
                 restoring, tools, switches, mixed>>

\* The Stop button: aborts the newest chat stream if that is still open, and
\* never a resume.
Stop ==
  LET stops == IF abortable = 0 THEN {} ELSE {s \in {abortable} : IsOpen(s)}
  IN  /\ processing
      /\ streams' = [s \in Streams |->
                       IF s \in stops THEN Closed ELSE streams[s]]
      /\ abortable' = 0
      /\ processing' = FALSE
      /\ loosed' = (loosed \/ \E s \in Streams \ stops : IsOpen(s))
      /\ messages' = Append(messages, Notice(NoSession))
      /\ UNCHANGED <<approval, pendingRun, autoApprove, sessionId, opened, restoring,
                     tools, switches, mixed>>

StoredMessages ==
  <<[role |-> "user", agent |-> NoAgent, kind |-> "stored", text |-> "stored", sess |-> Stored],
    [role |-> "assistant", agent |-> NoAgent, kind |-> "stored", text |-> "stored", sess |-> Stored]>>

\* The page forgets neither an open stream nor a pending approval, whose resume
\* would write here too.
Switched == mixed' = (AnyOpen \/ approval # NoApproval)

\* handleClear: neither isProcessing nor the open stream nor the approval.
Clear ==
  /\ ~ShowWelcome /\ switches < MaxSwitches
  /\ switches' = switches + 1 /\ Switched
  /\ messages' = <<>> /\ sessionId' = NoSession /\ lastCard' = NoCard
  /\ UNCHANGED <<processing, approval, pendingRun, autoApprove, streams, opened,
                 abortable, restoring, card, loosed>>

\* Mutant of LoadConversation: the session id of the page is kept.
LoadConversationKeeps ==
  /\ switches < MaxSwitches
  /\ switches' = switches + 1 /\ Switched
  /\ messages' = StoredMessages /\ lastCard' = NoCard
  /\ processing' = FALSE
  /\ loosed' = (loosed \/ AnyOpen)
  /\ UNCHANGED <<approval, pendingRun, autoApprove, sessionId, streams, opened, abortable,
                 restoring, card>>

\* handleLoadConversation.
LoadConversation ==
  /\ switches < MaxSwitches
  /\ switches' = switches + 1 /\ Switched
  /\ messages' = StoredMessages /\ sessionId' = Stored /\ lastCard' = NoCard
  /\ processing' = FALSE
  /\ loosed' = (loosed \/ AnyOpen)
  /\ UNCHANGED <<approval, pendingRun, autoApprove, streams, opened, abortable,
                 restoring, card>>

\* The answer to the URL's session, whatever was done on the page meanwhile.
Restored ==
  /\ restoring /\ restoring' = FALSE
  /\ \/ messages' = StoredMessages /\ lastCard' = NoCard /\ UNCHANGED sessionId
     \/ sessionId' = NoSession /\ UNCHANGED <<messages, lastCard>>
  /\ mixed' = (mixed \/ opened > 0 \/ switches > 0)
  /\ UNCHANGED <<processing, approval, pendingRun, autoApprove, streams, opened,
                 abortable, card, switches, loosed>>

-----------------------------------------------------------------------------
Event(s) ==
  \/ Announce(s)
  \/ \E text \in Texts : SupervisorAnswers(s, text)
  \/ \E agent \in SubAgents, text \in Texts : SubAgentAnswers(s, agent, text)
  \/ Compacting(s)
  \/ ErrorEvent(s)
  \/ \E calls \in Calls, first \in Tools, says \in BOOLEAN : CallTools(s, calls, first, says)
  \/ \E t \in Tools : ToolResult(s, t)

End(s) ==
  \/ \E output \in Texts \cup {NoText} : FinishChat(s, output)
  \/ FinishResume(s)
  \/ Lost(s)

Clicks ==
  \/ Send
  \/ ToggleAutoApprove
  \/ \E enable \in BOOLEAN : ApproveAll(enable)
  \/ RejectAll
  \/ Stop
  \/ Clear
  \/ LoadConversation

Next ==
  \/ \E s \in Streams : Event(s) \/ End(s)
  \/ Restored
  \/ Clicks

Spec == Init /\ [][Next]_vars

\* The server ends every stream: an idle timer cancels a run that stays silent,
\* and a broken connection ends the read.  Clicks are not fair.
LiveSpec == Spec /\ \A s \in Streams : WF_vars(Event(s) \/ End(s))

-----------------------------------------------------------------------------
\* The spinner tells the truth: while it turns a stream is open, so it cannot
\* turn for ever; it is off under an open stream only after something released
\* the input on purpose (an error event, Stop during a resume, loading another
\* conversation, or another stream that ended).
SpinnerIsTrue ==
  /\ processing => AnyOpen
  /\ AnyOpen /\ ~processing => loosed

\* Whatever streams wrote on a page that was never switched under them belongs
\* to the session that the next message of the page will be sent to.
OneSessionOnPage ==
  ~mixed => \A i \in DOMAIN messages : messages[i].sess \in {NoSession, sessionId}

\* An approval goes to the run that asks for it.
ApprovalsMatch ==
  ~loosed =>
    /\ approval # NoApproval => pendingRun = approval.run
    /\ \A s \in Streams : (IsOpen(s) /\ streams[s].kind = "resume")
         => streams[s].targets = streams[s].run

\* A card bears the name of the tool it is about, unless a call of an earlier
\* stream never got its result, or one of the same message, whose result is still
\* due, was overtaken.  One wrong name leads to no other: the next result finds
\* the slot empty.
CardNamesItsTool ==
  lastCard # NoCard =>
    lastCard.tool = lastCard.mine \/ lastCard.foreign \/ lastCard.swapped

\* What sub-agents found, what the user wrote and everything before the user's
\* newest message stays as it is in every step that does not replace the list.
HistoryIntact ==
  [][ switches' = switches /\ restoring' = restoring =>
        \A i \in DOMAIN messages :
          \/ messages[i].role = "user"
          \/ messages[i].agent # NoAgent
          \/ \E j \in DOMAIN messages : j > i /\ messages[j].role = "user"
          => i \in DOMAIN messages' /\ messages'[i] = messages[i] ]_vars

\* Whoever waits gets the input back.
InputComesBack == processing ~> ~processing

\* "When off, you must manually approve each one" (lib/i18n.ts): no resume but
\* by the approving click unless the switch is on.
ApprovedByHand ==
  [][ \A s \in Streams :
        ~IsOpen(s) /\ IsOpen(s)' /\ streams'[s].kind = "resume"
          => autoApprove \/ (approval # NoApproval /\ approval' = NoApproval) ]_vars

\* "Update only the supervisor's own preview": an event changes no other text.
PreviewOnly ==
  [][ switches' = switches /\ restoring' = restoring
      /\ (\A s \in Streams : IsOpen(s) => IsOpen(s)') =>
        \A i \in DOMAIN messages :
          messages[i].kind # "preview" =>
            i \in DOMAIN messages' /\ messages'[i] = messages[i] ]_vars
=============================================================================
