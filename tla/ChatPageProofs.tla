--------------------------- MODULE ChatPageProofs ---------------------------
(***************************************************************************)
(* What TLAPS proves of the chat page for every number of streams, events  *)
(* and switches: its types, that the spinner tells the truth, that history *)
(* stays intact, that approvals go to the run that asks and cards name     *)
(* their tools, and that a page never switched under a stream belongs to   *)
(* one session.                                                            *)
(***************************************************************************)
EXTENDS ChatPage, WellFoundedInduction, TLAPS

(***************************************************************************)
(* The search of findLastSupervisorMessageIndex finds what it looks for.   *)
(***************************************************************************)
LEMMA GreatestExists ==
  ASSUME NEW n \in Nat, NEW T, T \subseteq 1 .. n, T # {}
  PROVE  \E i \in T : \A j \in T : j <= i
<1> DEFINE R == OpToRel(<, Nat)
<1> DEFINE D == {n - i : i \in T}
<1>1. IsWellFoundedOn(R, Nat)
  BY NatLessThanWellFounded
<1>2. D \subseteq Nat /\ D # {}
  <2>1. \A i \in T : n - i \in Nat
    OBVIOUS
  <2>2. PICK i \in T : TRUE
    OBVIOUS
  <2> HIDE DEF R
  <2> QED BY <2>1, <2>2
<1>3. PICK d \in D : \A e \in D : ~(<<e, d>> \in R)
  <2> HIDE DEF R, D
  <2> QED BY <1>1, <1>2, WFMin
<1>4. \A e \in D : ~(e < d)
  BY <1>2, <1>3 DEF OpToRel
<1>5. PICK i \in T : d = n - i
  OBVIOUS
<1>6. \A j \in T : j <= i
  <2> TAKE j \in T
  <2>1. n - j \in D
    OBVIOUS
  <2>2. ~(n - j < d)
    BY <1>4, <2>1
  <2> QED BY <1>5, <2>2
<1> QED BY <1>6

LEMMA FindsLast ==
  ASSUME NEW ms, Len(ms) \in Nat, DOMAIN ms = 1 .. Len(ms)
  PROVE  \/ FindLastSupervisor(ms) = 0 /\ Replaceable(ms) = {}
         \/ /\ FindLastSupervisor(ms) \in Replaceable(ms)
            /\ FindLastSupervisor(ms) \in 1 .. Len(ms)
<1>1. Replaceable(ms) \subseteq 1 .. Len(ms)
  BY DEF Replaceable
<1>2. CASE Replaceable(ms) = {}
  BY <1>2 DEF FindLastSupervisor
<1>3. CASE Replaceable(ms) # {}
  <2>1. \E i \in Replaceable(ms) : \A j \in Replaceable(ms) : j <= i
    BY <1>1, <1>3, GreatestExists
  <2> QED BY <1>1, <1>3, <2>1 DEF FindLastSupervisor
<1> QED BY <1>2, <1>3

LEMMA ShownIsTyped ==
  ASSUME NEW ms \in Seq(Message(Sessions)), NEW text \in Texts, NEW sess \in Sessions
  PROVE  ShowSupervisor(ms, text, sess) \in Seq(Message(Sessions))
<1> DEFINE i == FindLastSupervisor(ms)
<1>1. CASE i = 0
  <2>1. Preview(text, sess) \in Message(Sessions)
    BY DEF Preview, Message, Kinds, Written
  <2> QED BY <1>1, <2>1 DEF ShowSupervisor
<1>2. CASE i # 0
  <2>1. i \in 1 .. Len(ms)
    BY <1>2, FindsLast
  <2>2. ms[i] \in Message(Sessions)
    BY <2>1
  <2>3. [ms[i] EXCEPT !.text = text, !.sess = sess] \in Message(Sessions)
    BY <2>2 DEF Message, Written
  <2>4. ShowSupervisor(ms, text, sess) = [ms EXCEPT ![i] = [ms[i] EXCEPT !.text = text, !.sess = sess]]
    BY <1>2 DEF ShowSupervisor
  <2> HIDE DEF i
  <2> QED BY <2>1, <2>3, <2>4
<1> QED BY <1>1, <1>2

LEMMA FindingIsTyped ==
  ASSUME NEW ms \in Seq(Message(Sessions)), NEW agent \in SubAgents,
         NEW text \in Texts, NEW sess \in Sessions
  PROVE  ShowFinding(ms, agent, text, sess) \in Seq(Message(Sessions))
<1>1. Finding(agent, text, sess) \in Message(Sessions)
  BY DEF Finding, Message, Kinds, Written
<1> QED BY <1>1 DEF ShowFinding

LEMMA RunIsTyped ==
  ASSUME NEW asked \in Sessions, NEW s \in Streams
  PROVE  RunOf(asked, s) \in RunIds
BY BoundsAssumption DEF RunOf, RunIds, Sessions, Streams, NoSession

LEMMA StreamsAreTyped ==
  /\ NoRun \in RunIds /\ NoApproval \in Approvals
  /\ Unused \in Stream /\ Closed \in Stream
  /\ Stored \in Sessions /\ NoSession \in Sessions
  /\ \A s \in Streams : s \in 0 .. MaxStreams /\ s \in Sessions
  /\ \A n \in 0 .. MaxStreams : n < MaxStreams => n + 1 \in Streams
<1>1. NoRun \in RunIds /\ Stored \in Sessions /\ NoSession \in Sessions
  BY BoundsAssumption DEF NoRun, RunIds, Sessions, Stored, NoSession
<1>2. {} \in Calls
  BY DEF Calls
<1>3. Unused \in Stream
  BY <1>1, <1>2, BoundsAssumption DEF Unused, Stream
<1>4. Closed \in Stream
  BY <1>3 DEF Closed, Stream
<1>5. \A n \in 0 .. MaxStreams : n < MaxStreams => n + 1 \in Streams
  BY BoundsAssumption DEF Streams
<1>6. \A s \in Streams : s \in 0 .. MaxStreams /\ s \in Sessions
  BY BoundsAssumption DEF Streams, Sessions
<1> QED BY <1>1, <1>2, <1>3, <1>4, <1>5, <1>6 DEF NoApproval, Approvals

LEMMA ChatIsTyped ==
  ASSUME TypeOK, NEW s \in Streams
  PROVE  NewChat(s, sessionId) \in Stream
<1>1. RunOf(sessionId, s) \in RunIds
  BY RunIsTyped DEF TypeOK
<1> QED BY <1>1, StreamsAreTyped, BoundsAssumption DEF TypeOK, NewChat, Stream, Calls

LEMMA ResumeIsTyped ==
  ASSUME NEW run \in RunIds, NEW asked \in Sessions, NEW targets \in RunIds,
         NEW auto \in BOOLEAN, NEW due \in Calls
  PROVE  NewResume(run, asked, targets, auto, due) \in Stream
BY BoundsAssumption DEF NewResume, Stream

LEMMA MessagesAreTyped ==
  /\ \A sess \in Sessions : /\ UserMessage(sess) \in Message(Sessions)
                            /\ Notice(sess) \in Message(Sessions)
                            /\ CompactionNotice(sess) \in Message(Sessions)
  /\ StoredMessages \in Seq(Message(Sessions))
<1>1. \A sess \in Sessions : /\ UserMessage(sess) \in Message(Sessions)
                             /\ Notice(sess) \in Message(Sessions)
                             /\ CompactionNotice(sess) \in Message(Sessions)
  BY DEF UserMessage, Notice, CompactionNotice, Message, Kinds, Written
<1>2. /\ StoredMessages[1] \in Message(Sessions)
      /\ StoredMessages[2] \in Message(Sessions)
  BY StreamsAreTyped DEF StoredMessages, Message, Kinds, Written
<1> QED BY <1>1, <1>2 DEF StoredMessages

-----------------------------------------------------------------------------
(***************************************************************************)
(* Types.                                                                  *)
(***************************************************************************)
LEMMA EndIsTyped ==
  ASSUME TypeOK, NEW s \in Streams, IsOpen(s), Ends(s) \/ AfterInterrupts(s)
  PROVE  /\ streams' \in [Streams -> Stream] /\ opened' \in 0 .. MaxStreams
         /\ processing' \in BOOLEAN /\ loosed' \in BOOLEAN
         /\ approval' \in Approvals /\ pendingRun' \in RunIds
<1>0. streams[s] \in Stream
  BY DEF TypeOK
<1>1. CASE Ends(s)
  BY <1>1, StreamsAreTyped DEF TypeOK, Ends
<1>2. CASE Asks(s)
  <2>1. [run |-> streams[s].run, due |-> streams[s].due] \in Approvals
    BY <1>0 DEF Approvals, Stream
  <2>2. streams[s].run \in RunIds
    BY <1>0 DEF Stream
  <2> QED BY <1>2, <2>1, <2>2, StreamsAreTyped DEF TypeOK, Asks
<1>3. CASE Resumes(s)
  <2> DEFINE r == NewResume(streams[s].run, streams[s].asked, streams[s].run, TRUE, streams[s].due)
  <2>1. r \in Stream
    BY <1>0, ResumeIsTyped DEF Stream
  <2>2. opened + 1 \in Streams
    BY <1>3, StreamsAreTyped DEF TypeOK, Resumes
  <2>3. streams' = [streams EXCEPT ![s] = Closed, ![opened + 1] = r]
    BY <1>3 DEF Resumes
  <2>4. streams' \in [Streams -> Stream]
    <3> HIDE DEF r
    <3> QED BY <2>1, <2>2, <2>3, StreamsAreTyped DEF TypeOK
  <2> QED BY <1>3, <2>2, <2>4, StreamsAreTyped DEF TypeOK, Resumes
<1> QED BY <1>1, <1>2, <1>3 DEF AfterInterrupts

LEMMA LeftIsCounted ==
  ASSUME TypeOK, NEW s \in Streams, streams[s].left > 0
  PROVE  streams[s].left - 1 \in 0 .. MaxEvents
<1>1. streams[s].left \in 0 .. MaxEvents
  BY DEF TypeOK, Stream
<1> QED BY <1>1, BoundsAssumption

LEMMA TypeStep == TypeOK /\ [Next]_vars => TypeOK'
<1> SUFFICES ASSUME TypeOK, [Next]_vars
             PROVE  TypeOK'
  OBVIOUS
<1> USE StreamsAreTyped, MessagesAreTyped
<1>0. \A s \in Streams : streams[s] \in Stream /\ streams[s].run.of \in Sessions
  BY DEF TypeOK, Stream, RunIds
<1>1. ASSUME Send PROVE TypeOK'
  <2>1. opened + 1 \in Streams
    BY <1>1 DEF Send, TypeOK
  <2>2. NewChat(opened + 1, sessionId) \in Stream
    BY <2>1, ChatIsTyped
  <2> QED BY <1>1, <2>1, <2>2 DEF Send, TypeOK, history
<1>2. ASSUME NEW s \in Streams, Announce(s) PROVE TypeOK'
  <2>1. [streams[s] EXCEPT !.announced = TRUE] \in Stream
    BY <1>0 DEF Stream
  <2> QED BY <1>0, <1>2, <2>1 DEF Announce, TypeOK, history, tools
<1>3. ASSUME NEW s \in Streams, Listening(s), Counted(s)
      PROVE  streams' \in [Streams -> Stream]
  <2>1. streams[s].left - 1 \in 0 .. MaxEvents
    BY <1>3, LeftIsCounted DEF Listening
  <2>2. [streams[s] EXCEPT !.left = @ - 1] \in Stream
    BY <1>0, <2>1 DEF Stream
  <2> QED BY <1>3, <2>2 DEF Counted, TypeOK
<1>4. ASSUME NEW s \in Streams, NEW text \in Texts, SupervisorAnswers(s, text) PROVE TypeOK'
  <2>1. messages' \in Seq(Message(Sessions))
    BY <1>0, <1>4, ShownIsTyped DEF SupervisorAnswers, TypeOK
  <2>2. streams' \in [Streams -> Stream]
    BY <1>3, <1>4 DEF SupervisorAnswers
  <2> QED BY <1>4, <2>1, <2>2 DEF SupervisorAnswers, OnlyMessages, TypeOK, history, tools
<1>5. ASSUME NEW s \in Streams, NEW agent \in SubAgents, NEW text \in Texts,
             SubAgentAnswers(s, agent, text)
      PROVE  TypeOK'
  <2>1. messages' \in Seq(Message(Sessions))
    BY <1>0, <1>5, FindingIsTyped DEF SubAgentAnswers, TypeOK
  <2>2. streams' \in [Streams -> Stream]
    BY <1>3, <1>5 DEF SubAgentAnswers
  <2> QED BY <1>5, <2>1, <2>2 DEF SubAgentAnswers, OnlyMessages, TypeOK, history, tools
<1>6. ASSUME NEW s \in Streams, Compacting(s) PROVE TypeOK'
  <2>1. streams' \in [Streams -> Stream]
    BY <1>3, <1>6 DEF Compacting
  <2> QED BY <1>0, <1>6, <2>1 DEF Compacting, OnlyMessages, TypeOK, history, tools
<1>7. ASSUME NEW s \in Streams, ErrorEvent(s) PROVE TypeOK'
  <2>1. streams' \in [Streams -> Stream]
    BY <1>3, <1>7 DEF ErrorEvent
  <2>2. messages' \in Seq(Message(Sessions))
    BY <1>0, <1>7 DEF ErrorEvent, TypeOK
  <2> QED BY <1>7, <2>1, <2>2 DEF ErrorEvent, TypeOK, tools
<1>8. ASSUME NEW s \in Streams, NEW calls \in Calls, NEW first \in Tools,
             NEW says \in BOOLEAN, CallTools(s, calls, first, says)
      PROVE  TypeOK'
  <2>0. streams[s].left - 1 \in 0 .. MaxEvents
    BY <1>8, LeftIsCounted DEF CallTools, Listening
  <2>1. [streams[s] EXCEPT !.left = @ - 1, !.due = calls] \in Stream
    BY <1>0, <2>0 DEF Stream
  <2>2. streams' \in [Streams -> Stream]
    BY <1>8, <2>1 DEF CallTools, TypeOK
  <2>3. card' \in PendingCard(Streams)
    BY <1>8 DEF CallTools, OpenCard, PendingCard, TypeOK
  <2> QED BY <1>8, <2>2, <2>3 DEF CallTools, OnlyTools, TypeOK, page, history
<1>9. ASSUME NEW s \in Streams, NEW t \in Tools, ToolResult(s, t) PROVE TypeOK'
  <2>1. streams[s].due \ {t} \in Calls
    BY <1>0 DEF Stream, Calls
  <2>2. [streams[s] EXCEPT !.due = @ \ {t}] \in Stream
    BY <1>0, <2>1 DEF Stream
  <2>3. streams' \in [Streams -> Stream]
    BY <1>9, <2>2 DEF ToolResult, TypeOK
  <2>4. lastCard' \in ClosedCards
    <3> DEFINE rest == streams'[s].due
    <3>1. lastCard' = ClosedCard(card, t, s, rest)
      BY <1>9 DEF ToolResult
    <3> HIDE DEF rest
    <3> QED BY <3>1 DEF ClosedCard, ClosedCards, PendingCard, TypeOK
  <2>5. card' \in PendingCard(Streams)
    BY <1>9 DEF ToolResult, NoCard, PendingCard
  <2> QED BY <1>9, <2>3, <2>4, <2>5 DEF ToolResult, OnlyTools, TypeOK, page, history
<1>10. ASSUME NEW s \in Streams, NEW output \in Texts \cup {NoText}, FinishChat(s, output)
       PROVE  TypeOK'
  <2>1. messages' \in Seq(Message(Sessions))
    BY <1>0, <1>10, ShownIsTyped DEF FinishChat, TypeOK
  <2>2. IsOpen(s) /\ (Ends(s) \/ AfterInterrupts(s))
    BY <1>10 DEF FinishChat
  <2>3. /\ streams' \in [Streams -> Stream] /\ opened' \in 0 .. MaxStreams
        /\ processing' \in BOOLEAN /\ loosed' \in BOOLEAN
        /\ approval' \in Approvals /\ pendingRun' \in RunIds
    BY <2>2, EndIsTyped
  <2> QED BY <1>0, <1>10, <2>1, <2>3 DEF FinishChat, TypeOK, tools
<1>11. ASSUME NEW s \in Streams, FinishResume(s) PROVE TypeOK'
  <2>1. IsOpen(s) /\ (Ends(s) \/ AfterInterrupts(s))
    BY <1>11 DEF FinishResume
  <2>2. /\ streams' \in [Streams -> Stream] /\ opened' \in 0 .. MaxStreams
        /\ processing' \in BOOLEAN /\ loosed' \in BOOLEAN
        /\ approval' \in Approvals /\ pendingRun' \in RunIds
    BY <2>1, EndIsTyped
  <2> QED BY <1>11, <2>2 DEF FinishResume, TypeOK, tools
<1>12. ASSUME NEW s \in Streams, Lost(s) PROVE TypeOK'
  <2>1. IsOpen(s) /\ (Ends(s) \/ AfterInterrupts(s))
    BY <1>12 DEF Lost
  <2>2. /\ streams' \in [Streams -> Stream] /\ opened' \in 0 .. MaxStreams
        /\ processing' \in BOOLEAN /\ loosed' \in BOOLEAN
        /\ approval' \in Approvals /\ pendingRun' \in RunIds
    BY <2>1, EndIsTyped
  <2> QED BY <1>12, <2>2 DEF Lost, TypeOK, tools
<1>13. ASSUME NEW enable \in BOOLEAN, ApproveAll(enable) PROVE TypeOK'
  <2>1. opened + 1 \in Streams
    BY <1>13 DEF ApproveAll, TypeOK
  <2>2. approval.run \in RunIds /\ approval.due \in Calls /\ (autoApprove \/ enable) \in BOOLEAN
    BY DEF TypeOK, Approvals
  <2>3. NewResume(pendingRun, sessionId, approval.run, autoApprove \/ enable, approval.due) \in Stream
    BY <2>2, ResumeIsTyped DEF TypeOK
  <2> QED BY <1>13, <2>1, <2>3 DEF ApproveAll, TypeOK, history, tools
<1>14. ASSUME RejectAll PROVE TypeOK'
  BY <1>14 DEF RejectAll, TypeOK, tools
<1>20. ASSUME ToggleAutoApprove PROVE TypeOK'
  BY <1>20 DEF ToggleAutoApprove, TypeOK, tools, history
<1>15. ASSUME Stop PROVE TypeOK'
  <2>1. streams' \in [Streams -> Stream]
    BY <1>15 DEF Stop, TypeOK
  <2>2. messages' \in Seq(Message(Sessions)) /\ abortable' \in 0 .. MaxStreams
    BY <1>15, BoundsAssumption DEF Stop, TypeOK
  <2>3. processing' \in BOOLEAN /\ loosed' \in BOOLEAN
    BY <1>15, Zenon DEF Stop
  <2> QED BY <1>15, <2>1, <2>2, <2>3 DEF Stop, TypeOK, tools
<1>16. ASSUME Clear PROVE TypeOK'
  <2>1. mixed' \in BOOLEAN
    BY <1>16, Zenon DEF Clear, Switched
  <2>2. messages' \in Seq(Message(Sessions)) /\ switches' \in Nat
    BY <1>16 DEF Clear, TypeOK
  <2> QED BY <1>16, <2>1, <2>2 DEF Clear, TypeOK
<1>17. ASSUME LoadConversation PROVE TypeOK'
  <2>1. mixed' \in BOOLEAN /\ loosed' \in BOOLEAN
    BY <1>17, Zenon DEF LoadConversation, Switched
  <2>2. messages' \in Seq(Message(Sessions)) /\ switches' \in Nat
    BY <1>17 DEF LoadConversation, TypeOK
  <2> QED BY <1>17, <2>1, <2>2 DEF LoadConversation, TypeOK
<1>18. ASSUME Restored PROVE TypeOK'
  BY <1>18 DEF Restored, TypeOK
<1>19. ASSUME UNCHANGED vars PROVE TypeOK'
  BY <1>19 DEF vars, page, tools, history, TypeOK
<1> QED BY <1>1, <1>2, <1>4, <1>5, <1>6, <1>7, <1>8, <1>9, <1>10, <1>11, <1>12, <1>13,
           <1>14, <1>15, <1>16, <1>17, <1>18, <1>19, <1>20 DEF Next, Event, End, Clicks

\* The page's state stays within its types: an open card, a pending approval
\* and every stream are always complete records.
THEOREM PageTyped == Spec => []TypeOK
<1>1. ASSUME Init PROVE TypeOK
  <2>1. messages \in Seq(Message(Sessions)) /\ streams \in [Streams -> Stream]
    BY <1>1, StreamsAreTyped DEF Init
  <2>2. card \in PendingCard(Streams)
    BY <1>1 DEF Init, NoCard, PendingCard
  <2>3. opened \in 0 .. MaxStreams /\ abortable \in 0 .. MaxStreams
    BY <1>1, BoundsAssumption DEF Init
  <2>4. sessionId \in Sessions
    BY <1>1, StreamsAreTyped DEF Init
  <2> QED BY <1>1, <2>1, <2>2, <2>3, <2>4, StreamsAreTyped DEF Init, TypeOK
<1> QED BY <1>1, TypeStep, PTL DEF Spec

\* An event leaves who a stream is, whom it answers and whether it is open.
LEMMA EventKeepsStream ==
  ASSUME TypeOK, NEW s \in Streams, Event(s)
  PROVE  /\ \A r \in Streams \ {s} : streams'[r] = streams[r]
         /\ streams'[s].st = streams[s].st /\ streams'[s].kind = streams[s].kind
         /\ streams'[s].run = streams[s].run /\ streams'[s].targets = streams[s].targets
         /\ streams'[s].auto = streams[s].auto
<1>1. streams \in [Streams -> Stream] /\ streams[s] \in Stream
  BY DEF TypeOK
<1>2. \/ streams' = [streams EXCEPT ![s].announced = TRUE]
      \/ streams' = [streams EXCEPT ![s].left = @ - 1]
      \/ \E calls \in Calls : streams' = [streams EXCEPT ![s].left = @ - 1, ![s].due = calls]
      \/ \E t \in Tools : streams' = [streams EXCEPT ![s].due = @ \ {t}]
  BY Zenon DEF Event, Announce, SupervisorAnswers, SubAgentAnswers, Compacting,
               ErrorEvent, CallTools, ToolResult, Counted
<1>3. CASE streams' = [streams EXCEPT ![s].announced = TRUE]
  BY <1>1, <1>3 DEF Stream
<1>4. CASE streams' = [streams EXCEPT ![s].left = @ - 1]
  BY <1>1, <1>4 DEF Stream
<1>5. CASE \E calls \in Calls : streams' = [streams EXCEPT ![s].left = @ - 1, ![s].due = calls]
  <2>1. PICK calls \in Calls : streams' = [streams EXCEPT ![s].left = @ - 1, ![s].due = calls]
    BY <1>5
  <2> QED BY <1>1, <2>1 DEF Stream
<1>6. CASE \E t \in Tools : streams' = [streams EXCEPT ![s].due = @ \ {t}]
  BY <1>1, <1>6 DEF Stream
<1> QED BY <1>2, <1>3, <1>4, <1>5, <1>6

-----------------------------------------------------------------------------
(***************************************************************************)
(* The spinner.                                                            *)
(***************************************************************************)
LEMMA SpinnerStep == TypeOK /\ SpinnerIsTrue /\ [Next]_vars => SpinnerIsTrue'
<1> SUFFICES ASSUME TypeOK, SpinnerIsTrue, [Next]_vars
             PROVE  SpinnerIsTrue'
  OBVIOUS
<1> USE DEF SpinnerIsTrue, AnyOpen, IsOpen
<1>0. streams \in [Streams -> Stream] /\ \A n \in 0 .. MaxStreams : n < MaxStreams => n + 1 \in Streams
  BY StreamsAreTyped DEF TypeOK
<1>a. Closed.st = "closed"
  BY DEF Closed, Unused
<1>1. ASSUME Send PROVE SpinnerIsTrue'
  BY <1>0, <1>1 DEF Send, NewChat, TypeOK
<1>2. ASSUME NEW s \in Streams, Event(s) PROVE SpinnerIsTrue'
  <2>1. \A r \in Streams : streams'[r].st = streams[r].st
    BY <1>2, EventKeepsStream
  <2>2. \/ processing' = processing /\ loosed' = loosed
        \/ processing' = FALSE /\ loosed' = TRUE
    BY <1>2 DEF Event, Announce, SupervisorAnswers, SubAgentAnswers, Compacting, ErrorEvent,
                CallTools, ToolResult, OnlyMessages, OnlyTools, page, history
  <2> QED BY <2>1, <2>2
<1>3. ASSUME NEW s \in Streams, IsOpen(s), Ends(s) \/ AfterInterrupts(s) PROVE SpinnerIsTrue'
  <2>1. CASE Ends(s) \/ Asks(s)
    <3>1. processing' = FALSE /\ loosed' = (loosed \/ OthersOpen(s))
          /\ streams' = [streams EXCEPT ![s] = Closed]
      BY <2>1, Zenon DEF Ends, Asks
    <3>2. streams'[s].st # "open" /\ \A r \in Streams \ {s} : streams'[r] = streams[r]
      BY <1>0, <1>a, <3>1
    <3>3. AnyOpen' => OthersOpen(s)
      BY <3>2 DEF OthersOpen
    <3>4. AnyOpen' => loosed'
      BY <3>1, <3>3, Zenon
    <3> QED BY <3>1, <3>4
  <2>2. CASE Resumes(s)
    <3>1. opened + 1 \in Streams
      BY <1>0, <2>2 DEF Resumes, TypeOK
    <3>2. streams'[opened + 1].st = "open"
      BY <1>0, <2>2, <3>1 DEF Resumes, NewResume
    <3>3. processing' = processing /\ loosed' = loosed
      BY <2>2 DEF Resumes
    <3> QED BY <1>3, <3>1, <3>2, <3>3
  <2> QED BY <1>3, <2>1, <2>2 DEF AfterInterrupts
<1>4. ASSUME NEW s \in Streams, End(s) PROVE SpinnerIsTrue'
  BY <1>3, <1>4 DEF End, FinishChat, FinishResume, Lost
<1>5. ASSUME NEW enable \in BOOLEAN, ApproveAll(enable) PROVE SpinnerIsTrue'
  <2>1. opened + 1 \in Streams
    BY <1>0, <1>5 DEF ApproveAll, TypeOK
  <2>2. streams'[opened + 1].st = "open"
    BY <1>0, <1>5, <2>1 DEF ApproveAll, NewResume
  <2> QED BY <1>5, <2>1, <2>2 DEF ApproveAll
<1>6. ASSUME RejectAll PROVE SpinnerIsTrue'
  BY <1>6 DEF RejectAll
<1>12. ASSUME ToggleAutoApprove PROVE SpinnerIsTrue'
  BY <1>12 DEF ToggleAutoApprove, history
<1>7. ASSUME Stop PROVE SpinnerIsTrue'
  BY <1>0, <1>a, <1>7 DEF Stop
<1>8. ASSUME Clear PROVE SpinnerIsTrue'
  BY <1>8 DEF Clear
<1>9. ASSUME LoadConversation PROVE SpinnerIsTrue'
  BY <1>9 DEF LoadConversation
<1>10. ASSUME Restored PROVE SpinnerIsTrue'
  BY <1>10 DEF Restored
<1>11. ASSUME UNCHANGED vars PROVE SpinnerIsTrue'
  BY <1>11 DEF vars, page, history
<1> QED BY <1>1, <1>2, <1>4, <1>5, <1>6, <1>7, <1>8, <1>9, <1>10, <1>11, <1>12 DEF Next, Clicks

\* The spinner turns only while a stream is open, and is off under an open
\* stream only after the input was released on purpose.
THEOREM SpinnerTrue == Spec => []SpinnerIsTrue
<1>1. Init => SpinnerIsTrue
  BY DEF Init, SpinnerIsTrue, AnyOpen, IsOpen, Unused
<1> QED BY <1>1, SpinnerStep, PageTyped, PTL DEF Spec

-----------------------------------------------------------------------------
(***************************************************************************)
(* History.                                                                *)
(***************************************************************************)
Kept(old, new) ==
  \A i \in DOMAIN old :
    \/ old[i].role = "user"
    \/ old[i].agent # NoAgent
    \/ \E j \in DOMAIN old : j > i /\ old[j].role = "user"
    => i \in DOMAIN new /\ new[i] = old[i]

LEMMA AppendKeeps ==
  ASSUME NEW S, NEW ms \in Seq(S), NEW m \in S
  PROVE  Kept(ms, Append(ms, m))
BY DEF Kept

LEMMA ShowSupervisorKeeps ==
  ASSUME NEW ms \in Seq(Message(Sessions)), NEW text \in Texts, NEW sess \in Sessions
  PROVE  Kept(ms, ShowSupervisor(ms, text, sess))
<1> DEFINE k == FindLastSupervisor(ms)
<1>1. CASE k = 0
  <2>1. Preview(text, sess) \in Message(Sessions)
    BY DEF Preview, Message, Kinds, Written
  <2> QED BY <1>1, <2>1, AppendKeeps DEF ShowSupervisor
<1>2. CASE k # 0
  <2>1. k \in Replaceable(ms) /\ k \in 1 .. Len(ms)
    BY <1>2, FindsLast
  <2>2. /\ ms[k].role = "assistant" /\ ms[k].agent \in {NoAgent, Supervisor}
        /\ \A j \in k .. Len(ms) : ms[j].role # "user"
    BY <2>1 DEF Replaceable, IsSupervisors
  <2>3. ms[k].agent = NoAgent
    <3>1. ms[k] \in Message(Sessions)
      <4> HIDE DEF k
      <4> QED BY <2>1
    <3>2. ms[k].agent \in SubAgents \cup {NoAgent, System}
      <4> HIDE DEF k
      <4> QED BY <3>1 DEF Message
    <3> QED BY <2>2, <3>2, NamesAssumption DEF Supervisor, System, NoAgent
  <2>4. \A i \in DOMAIN ms : i # k => ShowSupervisor(ms, text, sess)[i] = ms[i]
    BY <1>2, <2>1 DEF ShowSupervisor
  <2>5. DOMAIN ShowSupervisor(ms, text, sess) = DOMAIN ms
    BY <1>2 DEF ShowSupervisor
  <2>6. \A j \in DOMAIN ms : j > k => ms[j].role # "user"
    BY <2>1, <2>2
  <2> HIDE DEF k
  <2> QED BY <2>2, <2>3, <2>4, <2>5, <2>6 DEF Kept
<1> QED BY <1>1, <1>2

LEMMA HistoryStep ==
  ASSUME TypeOK, [Next]_vars, switches' = switches, restoring' = restoring
  PROVE  Kept(messages, messages')
<1> USE MessagesAreTyped, StreamsAreTyped
<1>0. /\ messages \in Seq(Message(Sessions)) /\ sessionId \in Sessions
      /\ switches \in Nat /\ restoring \in BOOLEAN
      /\ \A s \in Streams : streams[s].run.of \in Sessions
  BY DEF TypeOK, Stream, RunIds
<1>a. ASSUME messages' = messages PROVE Kept(messages, messages')
  BY <1>0, <1>a DEF Kept
<1>b. ASSUME NEW m \in Message(Sessions), messages' = Append(messages, m)
      PROVE  Kept(messages, messages')
  BY <1>0, <1>b, AppendKeeps
<1>1. ASSUME NEW s \in Streams, Event(s) PROVE Kept(messages, messages')
  <2>1. ASSUME NEW text \in Texts, SupervisorAnswers(s, text) PROVE Kept(messages, messages')
    BY <1>0, <2>1, ShowSupervisorKeeps DEF SupervisorAnswers
  <2>2. ASSUME NEW agent \in SubAgents, NEW text \in Texts, SubAgentAnswers(s, agent, text)
        PROVE  Kept(messages, messages')
    <3>1. Finding(agent, text, streams[s].run.of) \in Message(Sessions)
      BY <1>0 DEF Finding, Message, Kinds, Written
    <3> QED BY <1>a, <1>b, <2>2, <3>1 DEF SubAgentAnswers, ShowFinding
  <2>3. ASSUME Compacting(s) \/ ErrorEvent(s) PROVE Kept(messages, messages')
    BY <1>0, <1>b, <2>3 DEF Compacting, ErrorEvent
  <2>4. ASSUME \/ Announce(s) \/ (\E t \in Tools : ToolResult(s, t))
               \/ \E calls \in Calls, first \in Tools, says \in BOOLEAN : CallTools(s, calls, first, says)
        PROVE  Kept(messages, messages')
    BY <1>a, <2>4 DEF Announce, ToolResult, CallTools, OnlyTools, page
  <2> QED BY <1>1, <2>1, <2>2, <2>3, <2>4 DEF Event
<1>2. ASSUME NEW s \in Streams, End(s) PROVE Kept(messages, messages')
  <2>1. ASSUME NEW output \in Texts \cup {NoText}, FinishChat(s, output)
        PROVE  Kept(messages, messages')
    BY <1>0, <1>a, <2>1, ShowSupervisorKeeps DEF FinishChat
  <2>2. ASSUME FinishResume(s) PROVE Kept(messages, messages')
    BY <1>a, <2>2 DEF FinishResume
  <2>3. ASSUME Lost(s) PROVE Kept(messages, messages')
    BY <1>0, <1>a, <1>b, <2>3 DEF Lost
  <2> QED BY <1>2, <2>1, <2>2, <2>3 DEF End
<1>3. ASSUME Send \/ Stop PROVE Kept(messages, messages')
  BY <1>0, <1>b, <1>3 DEF Send, Stop
<1>4. ASSUME RejectAll \/ ToggleAutoApprove \/ \E enable \in BOOLEAN : ApproveAll(enable)
      PROVE  Kept(messages, messages')
  BY <1>a, <1>4 DEF RejectAll, ToggleAutoApprove, ApproveAll
<1>5. ~Clear /\ ~LoadConversation /\ ~Restored
  BY <1>0 DEF Clear, LoadConversation, Restored
<1>6. ASSUME UNCHANGED vars PROVE Kept(messages, messages')
  BY <1>a, <1>6 DEF vars, page
<1> QED BY <1>1, <1>2, <1>3, <1>4, <1>5, <1>6 DEF Next, Clicks

\* An event, a click or a stream's end never changes what sub-agents found, what
\* the user wrote or what stands before the user's newest message.
THEOREM HistoryKept == Spec => HistoryIntact
<1>1. ASSUME TypeOK, [Next]_vars
      PROVE  [switches' = switches /\ restoring' = restoring => Kept(messages, messages')]_vars
  BY <1>1, HistoryStep
<1>2. [switches' = switches /\ restoring' = restoring => Kept(messages, messages')]_vars
      => [switches' = switches /\ restoring' = restoring =>
            \A i \in DOMAIN messages :
              \/ messages[i].role = "user"
              \/ messages[i].agent # NoAgent
              \/ \E j \in DOMAIN messages : j > i /\ messages[j].role = "user"
              => i \in DOMAIN messages' /\ messages'[i] = messages[i] ]_vars
  BY DEF Kept
<1> QED BY <1>1, <1>2, PageTyped, PTL DEF Spec, HistoryIntact

-----------------------------------------------------------------------------
(***************************************************************************)
(* Approvals.                                                              *)
(***************************************************************************)
\* What makes ApprovalsMatch inductive: a resume under way was either started
\* without a click or is about the run that the page last heard of, so that
\* what it asks for next meets the run the page has noted.
Noted ==
  ~loosed =>
    /\ approval # NoApproval => pendingRun = approval.run
    /\ \A s \in Streams : IsOpen(s) /\ streams[s].kind = "resume" =>
         /\ streams[s].targets = streams[s].run
         /\ streams[s].auto \/ streams[s].run = pendingRun

LEMMA NotedEnd ==
  ASSUME TypeOK, Noted, NEW s \in Streams, IsOpen(s), Ends(s) \/ AfterInterrupts(s)
  PROVE  Noted'
<1> USE DEF Noted, IsOpen
<1>0. streams \in [Streams -> Stream] /\ Closed.st = "closed"
  BY DEF TypeOK, Closed, Unused
<1>1. CASE Ends(s)
  <2>1. /\ streams'[s].st # "open" /\ \A r \in Streams \ {s} : streams'[r] = streams[r]
        /\ approval' = approval /\ pendingRun' = pendingRun /\ (loosed => loosed')
    BY <1>0, <1>1 DEF Ends
  <2> QED BY <2>1
<1>2. CASE Asks(s) /\ ~streams[s].auto
  <2>1. /\ streams'[s].st # "open" /\ \A r \in Streams \ {s} : streams'[r] = streams[r]
        /\ approval'.run = streams[s].run /\ (loosed => loosed')
        /\ pendingRun' = IF streams[s].kind = "chat" THEN streams[s].run ELSE pendingRun
    BY <1>0, <1>2 DEF Asks
  <2>2. ~loosed' => ~loosed /\ ~OthersOpen(s)
    BY <1>2, Zenon DEF Asks
  <2>3. streams[s].kind \in {"chat", "resume"}
    BY <1>0 DEF Stream
  <2> QED BY <1>2, <2>1, <2>2, <2>3 DEF OthersOpen
<1>3. CASE Resumes(s)
  <2> DEFINE n == NewResume(streams[s].run, streams[s].asked, streams[s].run, TRUE, streams[s].due)
  <2>1. n.targets = n.run /\ n.auto
    BY DEF NewResume
  <2>2. streams' = [streams EXCEPT ![s] = Closed, ![opened + 1] = n]
    BY <1>3 DEF Resumes
  <2>3. approval' = approval /\ pendingRun' = pendingRun /\ loosed' = loosed
    BY <1>3 DEF Resumes
  <2>4. \A r \in Streams : streams'[r] \in {streams[r], Closed, n}
    <3> HIDE DEF n
    <3> QED BY <1>0, <2>2
  <2> HIDE DEF n
  <2> QED BY <1>0, <2>1, <2>3, <2>4
<1> QED BY <1>1, <1>2, <1>3 DEF AfterInterrupts

LEMMA NotedStep == TypeOK /\ Noted /\ [Next]_vars => Noted'
<1> SUFFICES ASSUME TypeOK, Noted, [Next]_vars
             PROVE  Noted'
  OBVIOUS
<1>0. streams \in [Streams -> Stream]
  BY DEF TypeOK
<1>1. ASSUME Send PROVE Noted'
  <2>1. NewChat(opened + 1, sessionId).kind = "chat"
    BY DEF NewChat
  <2>2. \A r \in Streams : streams'[r] \in {streams[r], NewChat(opened + 1, sessionId)}
    BY <1>0, <1>1 DEF Send
  <2>3. approval' = approval /\ pendingRun' = pendingRun /\ loosed' = loosed
    BY <1>1 DEF Send, history
  <2> QED BY <2>1, <2>2, <2>3 DEF Noted, IsOpen
<1>2. ASSUME NEW s \in Streams, Event(s) PROVE Noted'
  <2>1. approval' = approval /\ pendingRun' = pendingRun /\ (loosed => loosed')
    BY <1>2 DEF Event, Announce, SupervisorAnswers, SubAgentAnswers, Compacting, ErrorEvent,
                CallTools, ToolResult, OnlyMessages, OnlyTools, page, history
  <2> QED BY <1>2, <2>1, EventKeepsStream DEF Noted, IsOpen
<1>3. ASSUME NEW s \in Streams, End(s) PROVE Noted'
  BY <1>3, NotedEnd DEF End, FinishChat, FinishResume, Lost
<1>4. ASSUME NEW enable \in BOOLEAN, ApproveAll(enable) PROVE Noted'
  <2> DEFINE n == NewResume(pendingRun, sessionId, approval.run, autoApprove \/ enable, approval.due)
  <2>1. n.run = pendingRun /\ n.targets = approval.run
    BY DEF NewResume
  <2>2. /\ approval # NoApproval /\ approval' = NoApproval
        /\ pendingRun' = pendingRun /\ loosed' = loosed
        /\ streams' = [streams EXCEPT ![opened + 1] = n]
    BY <1>4 DEF ApproveAll, history
  <2>3. \A r \in Streams : streams'[r] \in {streams[r], n}
    <3> HIDE DEF n
    <3> QED BY <1>0, <2>2
  <2> HIDE DEF n
  <2> QED BY <2>1, <2>2, <2>3 DEF Noted, IsOpen
<1>5. ASSUME RejectAll PROVE Noted'
  <2>1. streams' = streams /\ approval' = NoApproval /\ (loosed' <=> loosed \/ AnyOpen)
    BY <1>5 DEF RejectAll
  <2> QED BY <2>1 DEF Noted, AnyOpen, IsOpen
<1>6. ASSUME Stop PROVE Noted'
  <2>1. \A r \in Streams : streams'[r] \in {streams[r], Closed}
    BY <1>0, <1>6 DEF Stop
  <2>2. Closed.st # "open"
    BY DEF Closed, Unused
  <2>3. approval' = approval /\ pendingRun' = pendingRun /\ (loosed => loosed')
    BY <1>6 DEF Stop
  <2> QED BY <2>1, <2>2, <2>3 DEF Noted, IsOpen
<1>7. ASSUME ToggleAutoApprove \/ Clear \/ LoadConversation \/ Restored \/ UNCHANGED vars
      PROVE  Noted'
  <2>1. /\ streams' = streams /\ approval' = approval /\ pendingRun' = pendingRun
        /\ (loosed => loosed')
    <3>1. CASE LoadConversation
      BY <3>1, Zenon DEF LoadConversation
    <3>2. CASE ToggleAutoApprove \/ Clear \/ Restored \/ UNCHANGED vars
      BY <3>2 DEF ToggleAutoApprove, Clear, Restored, vars, page, history
    <3> QED BY <1>7, <3>1, <3>2
  <2> QED BY <2>1 DEF Noted, IsOpen
<1> QED BY <1>1, <1>2, <1>3, <1>4, <1>5, <1>6, <1>7 DEF Next, Clicks

\* As long as the input was not released under an open stream, an approval goes
\* to the run that asks for it, and a resume to the calls of its own run.
THEOREM ApprovalsGoHome == Spec => []ApprovalsMatch
<1>1. Init => Noted
  BY DEF Init, Noted, IsOpen, Unused
<1>2. Noted => ApprovalsMatch
  BY DEF Noted, ApprovalsMatch
<1> QED BY <1>1, <1>2, NotedStep, PageTyped, PTL DEF Spec

-----------------------------------------------------------------------------
(***************************************************************************)
(* Tool cards.                                                             *)
(***************************************************************************)
\* The open card is a call whose result is due, as long as its stream is open.
CardIsDue ==
  card # NoCard =>
    /\ card.tool \in Tools /\ card.by \in 1 .. opened
    /\ IsOpen(card.by) => card.tool \in streams[card.by].due

OpenAreOpened == \A s \in Streams : IsOpen(s) => s <= opened

CardInv == TypeOK /\ CardIsDue /\ OpenAreOpened /\ CardNamesItsTool

\* Steps that open, close or leave streams, and leave the cards or forget the last.
LEMMA CardRests ==
  ASSUME CardInv, card' = card, lastCard' \in {lastCard, NoCard},
         opened' \in Nat, opened <= opened',
         \A r \in Streams : \/ streams'[r].st # "open"
                            \/ streams'[r].st = streams[r].st /\ streams'[r].due = streams[r].due
                            \/ r = opened' /\ opened < opened'
  PROVE  CardIsDue' /\ OpenAreOpened' /\ CardNamesItsTool'
<1>1. opened \in Nat /\ \A r \in Streams : r \in Nat
  BY BoundsAssumption DEF CardInv, TypeOK, Streams
<1>2. OpenAreOpened'
  BY <1>1 DEF CardInv, OpenAreOpened, IsOpen
<1>3. CardIsDue'
  <2> SUFFICES ASSUME card # NoCard PROVE CardIsDue'
    BY DEF CardIsDue
  <2>1. card.by \in Streams /\ card.by \in 1 .. opened /\ card.tool \in Tools
    BY <1>1, BoundsAssumption DEF CardInv, CardIsDue, TypeOK, Streams
  <2>2. card.by # opened' \/ ~(opened < opened')
    BY <1>1, <2>1
  <2> QED BY <1>1, <2>1, <2>2 DEF CardInv, CardIsDue, IsOpen
<1>4. CardNamesItsTool'
  BY DEF CardInv, CardNamesItsTool
<1> QED BY <1>2, <1>3, <1>4

LEMMA CardEnds ==
  ASSUME CardInv, NEW s \in Streams, IsOpen(s), Ends(s) \/ AfterInterrupts(s),
         card' = card, lastCard' = lastCard
  PROVE  CardIsDue' /\ OpenAreOpened' /\ CardNamesItsTool'
<1>0. streams \in [Streams -> Stream] /\ Closed.st = "closed" /\ opened \in Nat
  BY BoundsAssumption DEF CardInv, TypeOK, Closed, Unused
<1>1. CASE Ends(s) \/ Asks(s)
  <2>1. streams' = [streams EXCEPT ![s] = Closed] /\ opened' = opened
    BY <1>1 DEF Ends, Asks
  <2> QED BY <1>0, <2>1, CardRests
<1>2. CASE Resumes(s)
  <2> DEFINE n == NewResume(streams[s].run, streams[s].asked, streams[s].run, TRUE, streams[s].due)
  <2>1. streams' = [streams EXCEPT ![s] = Closed, ![opened + 1] = n] /\ opened' = opened + 1
    BY <1>2 DEF Resumes
  <2>2. \A r \in Streams : \/ r = opened + 1
                           \/ streams'[r] \in {streams[r], Closed}
    <3> HIDE DEF n
    <3> QED BY <1>0, <2>1
  <2> HIDE DEF n
  <2> QED BY <1>0, <2>1, <2>2, CardRests
<1> QED BY <1>1, <1>2 DEF AfterInterrupts

\* The events that count down only.
LEMMA CardCounts ==
  ASSUME CardInv, NEW s \in Streams, Counted(s) \/ streams' = [streams EXCEPT ![s].announced = TRUE],
         card' = card, lastCard' = lastCard, opened' = opened
  PROVE  CardIsDue' /\ OpenAreOpened' /\ CardNamesItsTool'
<1>1. streams \in [Streams -> Stream] /\ streams[s] \in Stream /\ opened \in Nat
  BY BoundsAssumption DEF CardInv, TypeOK
<1>2. \A r \in Streams : streams'[r].st = streams[r].st /\ streams'[r].due = streams[r].due
  BY <1>1 DEF Counted, Stream
<1> QED BY <1>1, <1>2, CardRests

LEMMA CardCalls ==
  ASSUME CardInv, NEW s \in Streams, NEW calls \in Calls, NEW first \in Tools,
         NEW says \in BOOLEAN, CallTools(s, calls, first, says)
  PROVE  CardIsDue' /\ OpenAreOpened' /\ CardNamesItsTool'
<1>1. streams \in [Streams -> Stream] /\ streams[s] \in Stream /\ opened \in Nat /\ s \in Nat
  BY BoundsAssumption DEF CardInv, TypeOK, Streams
<1>2. /\ streams' = [streams EXCEPT ![s].left = @ - 1, ![s].due = calls]
      /\ first \in calls /\ streams[s].due = {} /\ IsOpen(s)
      /\ lastCard' = lastCard /\ opened' = opened
      /\ card' = IF says THEN card ELSE OpenCard(card, first, s)
  BY DEF CallTools, Listening, OnlyTools
<1>3. /\ streams'[s].st = streams[s].st /\ streams'[s].due = calls
      /\ \A r \in Streams \ {s} : streams'[r] = streams[r]
  BY <1>1, <1>2 DEF Stream
<1>4. OpenAreOpened' /\ CardNamesItsTool'
  BY <1>2, <1>3 DEF CardInv, OpenAreOpened, CardNamesItsTool, IsOpen
<1>5. CardIsDue'
  <2>1. CASE card # NoCard
    <3>1. card' = card
      BY <1>2, <2>1 DEF OpenCard
    <3>2. card.by \in Streams
      BY <1>1, <2>1, BoundsAssumption DEF CardInv, CardIsDue, TypeOK, Streams
    <3>3. card.by # s
      BY <1>2, <2>1 DEF CardInv, CardIsDue
    <3> QED BY <1>2, <1>3, <2>1, <3>1, <3>2, <3>3 DEF CardInv, CardIsDue, IsOpen
  <2>2. CASE card = NoCard /\ card' # NoCard
    <3>1. card' = [tool |-> first, by |-> s]
      BY <1>2, <2>2 DEF OpenCard
    <3>2. s \in 1 .. opened
      BY <1>1, <1>2 DEF CardInv, OpenAreOpened, Streams
    <3>3. card'.tool = first /\ card'.by = s
      BY <3>1
    <3>4. streams'[card'.by].due = calls /\ card'.by \in 1 .. opened'
      BY <1>2, <1>3, <3>2, <3>3
    <3> QED BY <1>2, <3>3, <3>4 DEF CardIsDue
  <2> QED BY <2>1, <2>2 DEF CardIsDue
<1> QED BY <1>4, <1>5

LEMMA CardResults ==
  ASSUME CardInv, NEW s \in Streams, NEW t \in Tools, ToolResult(s, t)
  PROVE  CardIsDue' /\ OpenAreOpened' /\ CardNamesItsTool'
<1> DEFINE rest == streams'[s].due
<1>1. streams \in [Streams -> Stream] /\ streams[s] \in Stream
  BY DEF CardInv, TypeOK
<1>2. /\ streams' = [streams EXCEPT ![s].due = @ \ {t}] /\ opened' = opened
      /\ card' = NoCard /\ lastCard' = ClosedCard(card, t, s, rest) /\ IsOpen(s)
  BY DEF ToolResult, OnlyTools
<1>3. /\ rest = streams[s].due \ {t}
      /\ \A r \in Streams : streams'[r].st = streams[r].st
  BY <1>1, <1>2 DEF Stream
<1>4. CardIsDue' /\ OpenAreOpened'
  BY <1>2, <1>3 DEF CardInv, CardIsDue, OpenAreOpened, IsOpen
<1> HIDE DEF rest
<1>5. CardNamesItsTool'
  <2>1. CASE card = NoCard
    BY <1>2, <2>1 DEF ClosedCard, NoCard, CardNamesItsTool
  <2>2. CASE card # NoCard /\ card.by = s
    <3>1. card.tool \in streams[s].due /\ card.tool \in Tools
      BY <1>2, <2>2 DEF CardInv, CardIsDue
    <3>2. card.tool = t \/ card.tool \in rest
      BY <1>3, <3>1
    <3>3. lastCard'.tool = card.tool \/ lastCard'.tool = t
      BY <1>2 DEF ClosedCard
    <3>4. lastCard'.mine = t /\ (card.tool \in rest => lastCard'.swapped)
      BY <1>2 DEF ClosedCard
    <3> QED BY <3>2, <3>3, <3>4 DEF CardNamesItsTool
  <2>3. CASE card # NoCard /\ card.by # s
    <3>1. card.by \notin {0, s}
      BY <2>3, BoundsAssumption DEF CardInv, CardIsDue, TypeOK
    <3>2. lastCard'.foreign
      BY <1>2, <3>1 DEF ClosedCard
    <3> QED BY <3>2 DEF CardNamesItsTool
  <2> QED BY <2>1, <2>2, <2>3
<1> QED BY <1>4, <1>5

LEMMA CardStep == CardInv /\ [Next]_vars => CardInv'
<1> SUFFICES ASSUME CardInv, [Next]_vars PROVE CardInv'
  OBVIOUS
<1>a. TypeOK /\ TypeOK'
  BY TypeStep DEF CardInv
<1>b. streams \in [Streams -> Stream] /\ opened \in Nat /\ opened' \in Nat
  BY <1>a, BoundsAssumption DEF TypeOK
<1> SUFFICES CardIsDue' /\ OpenAreOpened' /\ CardNamesItsTool'
  BY <1>a DEF CardInv
<1>1. ASSUME NEW s \in Streams, Event(s)
      PROVE  CardIsDue' /\ OpenAreOpened' /\ CardNamesItsTool'
  <2>1. CASE \/ Announce(s) \/ Compacting(s) \/ ErrorEvent(s)
             \/ \E text \in Texts : SupervisorAnswers(s, text)
             \/ \E agent \in SubAgents, text \in Texts : SubAgentAnswers(s, agent, text)
    <3>1. /\ Counted(s) \/ streams' = [streams EXCEPT ![s].announced = TRUE]
          /\ card' = card /\ lastCard' = lastCard /\ opened' = opened
      BY <2>1 DEF Announce, Compacting, ErrorEvent, SupervisorAnswers, SubAgentAnswers,
                  OnlyMessages, tools
    <3> QED BY <3>1, CardCounts
  <2> QED BY <1>1, <2>1, CardCalls, CardResults DEF Event
<1>2. ASSUME NEW s \in Streams, End(s)
      PROVE  CardIsDue' /\ OpenAreOpened' /\ CardNamesItsTool'
  BY <1>2, CardEnds DEF End, FinishChat, FinishResume, Lost, tools
<1>3. CASE Send \/ \E enable \in BOOLEAN : ApproveAll(enable)
  <2>1. /\ opened' = opened + 1 /\ card' = card /\ lastCard' \in {lastCard, NoCard}
        /\ \A r \in Streams : r = opened + 1 \/ streams'[r] = streams[r]
    BY <1>3, <1>b DEF Send, ApproveAll, tools
  <2> QED BY <1>b, <2>1, CardRests
<1>4. CASE Stop
  <2>1. /\ opened' = opened /\ card' = card /\ lastCard' = lastCard
        /\ \A r \in Streams : streams'[r] \in {streams[r], Closed}
    BY <1>4 DEF Stop, tools
  <2>2. Closed.st # "open"
    BY DEF Closed, Unused
  <2> QED BY <1>b, <2>1, <2>2, CardRests
<1>5. CASE \/ RejectAll \/ ToggleAutoApprove \/ Clear \/ LoadConversation \/ Restored
           \/ UNCHANGED vars
  <2>1. /\ streams' = streams /\ opened' = opened /\ card' = card
        /\ lastCard' \in {lastCard, NoCard}
    BY <1>5 DEF RejectAll, ToggleAutoApprove, Clear, LoadConversation, Restored, vars, tools
  <2> QED BY <1>b, <2>1, CardRests
<1> QED BY <1>1, <1>2, <1>3, <1>4, <1>5 DEF Next, Clicks

\* A closed card names the tool its result is of, unless it was opened by a
\* stream that ended before the result came, or by a call of the same message
\* that is slower: for any number of calls side by side.
THEOREM CardsNameTheirTools == Spec => []CardNamesItsTool
<1>1. Init => CardIsDue /\ OpenAreOpened /\ CardNamesItsTool
  BY DEF Init, CardIsDue, OpenAreOpened, CardNamesItsTool, IsOpen, Unused
<1>2. TypeOK /\ CardIsDue /\ OpenAreOpened /\ CardNamesItsTool => CardInv
  BY DEF CardInv
<1>3. CardInv => CardNamesItsTool
  BY DEF CardInv
<1> QED BY <1>1, <1>2, <1>3, CardStep, PageTyped, PTL DEF Spec

-----------------------------------------------------------------------------
(***************************************************************************)
(* One session on the page.                                                *)
(***************************************************************************)
\* A stream belongs to the page's session, or is about to name it; before
\* there is one only the stream that the page waits for is open.
BelongsHere(s) ==
  /\ streams[s].announced => streams[s].run.of = sessionId /\ sessionId # NoSession
  /\ ~streams[s].announced => streams[s].kind = "chat" /\ streams[s].run = RunOf(sessionId, s)
  /\ streams[s].kind = "resume" /\ ~streams[s].auto => pendingRun.of \in {NoSession, sessionId}
  /\ sessionId = NoSession => processing /\ abortable = s /\ ~OthersOpen(s)

OfPage(ms, id) == \A i \in DOMAIN ms : ms[i].sess \in {NoSession, id}

PageIsOne ==
  ~mixed =>
    /\ OfPage(messages, sessionId)
    /\ \A s \in Streams : IsOpen(s) => BelongsHere(s)
    /\ approval # NoApproval => sessionId # NoSession /\ pendingRun.of \in {NoSession, sessionId}

\* Until the URL's session has arrived an untouched page is empty.
Untouched ==
  restoring /\ opened = 0 /\ switches = 0 =>
    messages = <<>> /\ sessionId = Stored /\ approval = NoApproval

RunsAreNamed ==
  /\ pendingRun.of = NoSession => pendingRun = NoRun
  /\ \A s \in Streams : IsOpen(s) => streams[s].run.of # NoSession

OneInv == CardInv /\ SpinnerIsTrue /\ RunsAreNamed /\ Untouched /\ PageIsOne

LEMMA OneFacts ==
  ASSUME OneInv
  PROVE  /\ streams \in [Streams -> Stream] /\ opened \in Nat /\ switches \in Nat
         /\ messages \in Seq(Message(Sessions)) /\ Closed.st = "closed"
         /\ Stored # NoSession /\ \A s \in Streams : s # NoSession
         /\ \A s \in Streams : streams[s].kind \in {"chat", "resume"}
BY BoundsAssumption DEF OneInv, CardInv, TypeOK, Closed, Unused, Stored, NoSession, Streams, Stream

LEMMA AppendOfPage ==
  ASSUME NEW ms \in Seq(Message(Sessions)), NEW m \in Message(Sessions), NEW id,
         OfPage(ms, id), m.sess \in {NoSession, id}
  PROVE  OfPage(Append(ms, m), id)
BY DEF OfPage

LEMMA ShownOfPage ==
  ASSUME NEW ms \in Seq(Message(Sessions)), NEW text \in Texts, NEW id \in Sessions,
         OfPage(ms, id)
  PROVE  OfPage(ShowSupervisor(ms, text, id), id)
<1> DEFINE k == FindLastSupervisor(ms)
<1>1. CASE k = 0
  <2>1. Preview(text, id) \in Message(Sessions) /\ Preview(text, id).sess = id
    BY DEF Preview, Message, Kinds, Written
  <2> QED BY <1>1, <2>1, AppendOfPage DEF ShowSupervisor
<1>2. CASE k # 0
  <2>1. k \in 1 .. Len(ms)
    BY <1>2, FindsLast
  <2>2. ms[k] \in Message(Sessions)
    BY <2>1
  <2>3. [ms[k] EXCEPT !.text = text, !.sess = id].sess = id
    BY <2>2 DEF Message
  <2>4. ShowSupervisor(ms, text, id) = [ms EXCEPT ![k] = [ms[k] EXCEPT !.text = text, !.sess = id]]
    BY <1>2 DEF ShowSupervisor
  <2> HIDE DEF k
  <2> QED BY <2>1, <2>3, <2>4 DEF OfPage
<1> QED BY <1>1, <1>2

LEMMA FindingOfPage ==
  ASSUME NEW ms \in Seq(Message(Sessions)), NEW agent \in SubAgents, NEW text \in Texts,
         NEW id \in Sessions, OfPage(ms, id)
  PROVE  OfPage(ShowFinding(ms, agent, text, id), id)
<1>1. Finding(agent, text, id) \in Message(Sessions) /\ Finding(agent, text, id).sess = id
  BY DEF Finding, Message, Kinds, Written
<1> QED BY <1>1, AppendOfPage DEF ShowFinding

LEMMA NamesEnd ==
  ASSUME TypeOK, RunsAreNamed, NEW s \in Streams, IsOpen(s), Ends(s) \/ AfterInterrupts(s)
  PROVE  RunsAreNamed'
<1>0. /\ streams \in [Streams -> Stream] /\ Closed.st = "closed" /\ streams[s].run.of # NoSession
  BY DEF TypeOK, Closed, Unused, RunsAreNamed
<1>1. CASE Ends(s) \/ Asks(s)
  <2>1. streams' = [streams EXCEPT ![s] = Closed] /\ pendingRun' \in {pendingRun, streams[s].run}
    BY <1>1 DEF Ends, Asks
  <2>2. \A r \in Streams : IsOpen(r)' => IsOpen(r) /\ streams'[r] = streams[r]
    BY <1>0, <2>1 DEF IsOpen
  <2> QED BY <1>0, <2>1, <2>2 DEF RunsAreNamed
<1>2. CASE Resumes(s)
  <2> DEFINE n == NewResume(streams[s].run, streams[s].asked, streams[s].run, TRUE, streams[s].due)
  <2>1. n.run = streams[s].run
    BY DEF NewResume
  <2>2. streams' = [streams EXCEPT ![s] = Closed, ![opened + 1] = n] /\ pendingRun' = pendingRun
    BY <1>2 DEF Resumes
  <2>3. \A r \in Streams : streams'[r] \in {n, Closed, streams[r]}
    <3> HIDE DEF n
    <3> QED BY <1>0, <2>2
  <2> HIDE DEF n
  <2> QED BY <1>0, <2>1, <2>2, <2>3 DEF RunsAreNamed, IsOpen
<1> QED BY <1>1, <1>2 DEF AfterInterrupts

LEMMA NamesStep == TypeOK /\ RunsAreNamed /\ [Next]_vars => RunsAreNamed'
<1> SUFFICES ASSUME TypeOK, RunsAreNamed, [Next]_vars PROVE RunsAreNamed'
  OBVIOUS
<1>0. streams \in [Streams -> Stream]
  BY DEF TypeOK
<1>1. ASSUME NEW s \in Streams, Event(s) PROVE RunsAreNamed'
  <2>1. pendingRun' = pendingRun
    BY <1>1 DEF Event, Announce, SupervisorAnswers, SubAgentAnswers, Compacting, ErrorEvent,
                CallTools, ToolResult, OnlyMessages, OnlyTools, page
  <2> QED BY <1>1, <2>1, EventKeepsStream DEF RunsAreNamed, IsOpen
<1>2. ASSUME NEW s \in Streams, End(s) PROVE RunsAreNamed'
  BY <1>2, NamesEnd DEF End, FinishChat, FinishResume, Lost
<1>3. CASE Send
  <2>1. opened + 1 \in Streams
    BY <1>3, StreamsAreTyped DEF Send, TypeOK
  <2>2. NewChat(opened + 1, sessionId).run.of # NoSession
    BY <2>1, BoundsAssumption DEF NewChat, RunOf, Streams, NoSession
  <2>3. \A r \in Streams : streams'[r] \in {streams[r], NewChat(opened + 1, sessionId)}
    BY <1>0, <1>3 DEF Send
  <2>4. pendingRun' = pendingRun
    BY <1>3 DEF Send
  <2> QED BY <2>2, <2>3, <2>4 DEF RunsAreNamed, IsOpen
<1>4. ASSUME NEW enable \in BOOLEAN, ApproveAll(enable) PROVE RunsAreNamed'
  <2> DEFINE n == NewResume(pendingRun, sessionId, approval.run, autoApprove \/ enable, approval.due)
  <2>1. n.run = pendingRun /\ pendingRun # NoRun /\ pendingRun' = pendingRun
    BY <1>4 DEF NewResume, ApproveAll
  <2>2. streams' = [streams EXCEPT ![opened + 1] = n]
    BY <1>4 DEF ApproveAll
  <2>3. \A r \in Streams : streams'[r] \in {streams[r], n}
    <3> HIDE DEF n
    <3> QED BY <1>0, <2>2
  <2> HIDE DEF n
  <2> QED BY <2>1, <2>3 DEF RunsAreNamed, IsOpen
<1>5. CASE RejectAll \/ Stop
  <2>1. /\ pendingRun' \in {pendingRun, NoRun}
        /\ \A r \in Streams : streams'[r] \in {streams[r], Closed}
    BY <1>0, <1>5 DEF RejectAll, Stop
  <2>2. Closed.st # "open"
    BY DEF Closed, Unused
  <2> QED BY <2>1, <2>2 DEF RunsAreNamed, IsOpen
<1>6. CASE ToggleAutoApprove \/ Clear \/ LoadConversation \/ Restored \/ UNCHANGED vars
  <2>1. streams' = streams /\ pendingRun' = pendingRun
    BY <1>6 DEF ToggleAutoApprove, Clear, LoadConversation, Restored, vars, page
  <2> QED BY <2>1 DEF RunsAreNamed, IsOpen
<1> QED BY <1>1, <1>2, <1>3, <1>4, <1>5, <1>6 DEF Next, Clicks

LEMMA UntouchedStep ==
  ASSUME OneInv, [Next]_vars
  PROVE  Untouched'
<1>0. /\ opened \in Nat /\ switches \in Nat /\ Untouched
      /\ \A s \in Streams : IsOpen(s) => opened > 0
  BY BoundsAssumption DEF OneInv, CardInv, TypeOK, OpenAreOpened, Streams
<1>1. CASE \/ Send \/ Clear \/ LoadConversation \/ Restored
           \/ \E enable \in BOOLEAN : ApproveAll(enable)
  <2>1. \/ opened' = opened + 1 \/ switches' = switches + 1 \/ restoring' = FALSE
    BY <1>1 DEF Send, Clear, LoadConversation, Restored, ApproveAll
  <2>2. switches' \in {switches, switches + 1} /\ opened' \in {opened, opened + 1}
    BY <1>1 DEF Send, Clear, LoadConversation, Restored, ApproveAll, history
  <2> QED BY <1>0, <2>1, <2>2 DEF Untouched
<1>2. ASSUME NEW s \in Streams, Event(s) \/ End(s) PROVE Untouched'
  <2>1. IsOpen(s)
    BY <1>2 DEF Event, End, Announce, SupervisorAnswers, SubAgentAnswers, Compacting, ErrorEvent,
                CallTools, ToolResult, Listening, FinishChat, FinishResume, Lost
  <2>2. opened' \in {opened, opened + 1}
    BY <1>2 DEF Event, Announce, SupervisorAnswers, SubAgentAnswers, Compacting, ErrorEvent,
                CallTools, ToolResult, OnlyMessages, OnlyTools, End, FinishChat, FinishResume, Lost,
                Ends, AfterInterrupts, Asks, Resumes
  <2> QED BY <1>0, <2>1, <2>2 DEF Untouched
<1>3. CASE Stop
  <2>1. opened > 0 /\ opened' = opened
    BY <1>0, <1>3 DEF Stop, OneInv, SpinnerIsTrue, AnyOpen
  <2> QED BY <1>0, <2>1 DEF Untouched
<1>4. CASE RejectAll \/ ToggleAutoApprove \/ UNCHANGED vars
  BY <1>0, <1>4 DEF RejectAll, ToggleAutoApprove, vars, page, history, Untouched
<1> QED BY <1>1, <1>2, <1>3, <1>4 DEF Next, Clicks

\* The end of a stream, but for what it writes.
LEMMA OneEnds ==
  ASSUME OneInv, NEW s \in Streams, IsOpen(s), Ends(s) \/ (AfterInterrupts(s) /\ streams[s].announced),
         ~mixed, sessionId' = sessionId, abortable' = abortable
  PROVE  /\ \A r \in Streams : IsOpen(r)' => BelongsHere(r)'
         /\ approval' # NoApproval => sessionId' # NoSession /\ pendingRun'.of \in {NoSession, sessionId'}
<1>0. /\ streams \in [Streams -> Stream] /\ opened \in Nat
      /\ Closed.st = "closed" /\ streams[s].kind \in {"chat", "resume"}
  BY OneFacts
<1>1. /\ \A r \in Streams : IsOpen(r) => BelongsHere(r)
      /\ approval # NoApproval => sessionId # NoSession /\ pendingRun.of \in {NoSession, sessionId}
      /\ BelongsHere(s)
  BY DEF OneInv, PageIsOne
<1>2. CASE Ends(s)
  <2>1. /\ streams'[s].st # "open" /\ \A r \in Streams \ {s} : streams'[r] = streams[r]
        /\ approval' = approval /\ pendingRun' = pendingRun /\ opened' = opened
    BY <1>0, <1>2 DEF Ends
  <2>2. \A r \in Streams : IsOpen(r)' => r # s /\ IsOpen(r)
    BY <2>1 DEF IsOpen
  <2>3. \A r \in Streams : IsOpen(r)' => sessionId # NoSession
    BY <1>1, <2>2 DEF BelongsHere, OthersOpen
  <2> QED BY <1>1, <2>1, <2>2, <2>3 DEF BelongsHere
<1>3. CASE Asks(s) /\ ~streams[s].auto /\ streams[s].announced
  <2>1. /\ streams'[s].st # "open" /\ \A r \in Streams \ {s} : streams'[r] = streams[r]
        /\ pendingRun' = (IF streams[s].kind = "chat" THEN streams[s].run ELSE pendingRun)
        /\ opened' = opened
    BY <1>0, <1>3 DEF Asks
  <2>2. \A r \in Streams : IsOpen(r)' => r # s /\ IsOpen(r)
    BY <2>1 DEF IsOpen
  <2>3. sessionId # NoSession /\ streams[s].run.of = sessionId
    BY <1>1, <1>3 DEF BelongsHere
  <2>4. pendingRun'.of \in {NoSession, sessionId}
    BY <1>0, <1>1, <1>3, <2>1, <2>3 DEF BelongsHere
  <2> QED BY <1>1, <2>1, <2>2, <2>3, <2>4 DEF BelongsHere
<1>4. CASE Resumes(s) /\ streams[s].announced
  <2> DEFINE n == NewResume(streams[s].run, streams[s].asked, streams[s].run, TRUE, streams[s].due)
  <2>1. n.run = streams[s].run /\ n.auto /\ n.announced
    BY DEF NewResume
  <2>2. /\ streams' = [streams EXCEPT ![s] = Closed, ![opened + 1] = n] /\ opened' = opened + 1
        /\ approval' = approval /\ pendingRun' = pendingRun
    BY <1>4 DEF Resumes
  <2>3. \A r \in Streams : \/ streams'[r] = n /\ r = opened + 1
                           \/ streams'[r] = Closed
                           \/ streams'[r] = streams[r]
    <3> HIDE DEF n
    <3> QED BY <1>0, <2>2
  <2>4. sessionId # NoSession /\ streams[s].run.of = sessionId
    BY <1>1, <1>4 DEF BelongsHere
  <2> HIDE DEF n
  <2>5. \A r \in Streams : IsOpen(r)' => streams'[r] = n \/ (IsOpen(r) /\ streams'[r] = streams[r])
    BY <1>0, <2>3 DEF IsOpen
  <2>6. \A r \in Streams : IsOpen(r)' => BelongsHere(r)'
    BY <1>1, <2>1, <2>2, <2>4, <2>5 DEF BelongsHere
  <2> QED BY <1>1, <2>2, <2>6
<1> QED BY <1>2, <1>3, <1>4 DEF AfterInterrupts

\* Steps that leave streams, session and pending run as they are.
LEMMA OneRests ==
  ASSUME OneInv, ~mixed, streams' = streams, sessionId' = sessionId,
         processing' = processing, abortable' = abortable,
         pendingRun' = pendingRun, approval' = approval, OfPage(messages', sessionId)
  PROVE  PageIsOne'
BY DEF OneInv, PageIsOne, BelongsHere, IsOpen, OthersOpen

\* Events.
LEMMA OneHears ==
  ASSUME OneInv, ~mixed, NEW s \in Streams, Event(s)
  PROVE  PageIsOne'
<1>0. /\ streams \in [Streams -> Stream] /\ messages \in Seq(Message(Sessions))
      /\ sessionId \in Sessions /\ OfPage(messages, sessionId)
      /\ approval # NoApproval => sessionId # NoSession /\ pendingRun.of \in {NoSession, sessionId}
      /\ \A r \in Streams : IsOpen(r) => BelongsHere(r)
  BY OneFacts DEF OneInv, CardInv, TypeOK, PageIsOne
<1>1. IsOpen(s) /\ BelongsHere(s)
  BY <1>0 DEF Event, Announce, SupervisorAnswers, SubAgentAnswers, Compacting, ErrorEvent,
              CallTools, ToolResult, Listening
<1>2. TypeOK
  BY DEF OneInv, CardInv
<1>3. CASE Announce(s)
  <2>1. /\ sessionId' = streams[s].run.of /\ streams' = [streams EXCEPT ![s].announced = TRUE]
        /\ messages' = messages /\ approval' = approval /\ pendingRun' = pendingRun
        /\ processing' = processing /\ abortable' = abortable
    BY <1>3 DEF Announce
  <2>2. streams[s].run = RunOf(sessionId, s)
    BY <1>1, <1>3 DEF Announce, BelongsHere
  <2>3. /\ streams[s].run.of # NoSession
        /\ sessionId # NoSession => streams[s].run.of = sessionId
    BY <2>2, OneFacts DEF RunOf
  <2>4. OfPage(messages', sessionId')
    BY <1>0, <2>1, <2>3 DEF OfPage
  <2>5. streams'[s].announced /\ streams'[s].run = streams[s].run
    BY <1>0, <2>1 DEF Stream
  <2>6. ASSUME NEW r \in Streams, IsOpen(r)' PROVE BelongsHere(r)'
    <3>1. CASE r = s
      BY <1>1, <1>2, <2>1, <2>3, <2>5, <3>1, EventKeepsStream DEF BelongsHere
    <3>2. CASE r # s
      <4>1. streams'[r] = streams[r] /\ IsOpen(r)
        BY <1>0, <2>1, <2>6, <3>2 DEF IsOpen
      <4>2. sessionId # NoSession
        BY <1>0, <1>1, <3>2, <4>1 DEF BelongsHere, OthersOpen
      <4> QED BY <1>0, <2>1, <2>3, <4>1, <4>2 DEF BelongsHere
    <3> QED BY <3>1, <3>2
  <2> QED BY <1>0, <2>1, <2>3, <2>4, <2>6 DEF PageIsOne
<1>4. CASE ~Announce(s)
  <2>1. streams[s].announced
    BY <1>4 DEF Event, SupervisorAnswers, SubAgentAnswers, Compacting, ErrorEvent,
                CallTools, ToolResult, Listening
  <2>2. sessionId # NoSession /\ streams[s].run.of = sessionId
    BY <1>1, <2>1 DEF BelongsHere
  <2>3. /\ sessionId' = sessionId /\ approval' = approval /\ pendingRun' = pendingRun
    BY <1>4 DEF Event, SupervisorAnswers, SubAgentAnswers, Compacting, ErrorEvent,
                CallTools, ToolResult, OnlyMessages, OnlyTools, page
  <2>4. OfPage(messages', sessionId)
    <3>1. Notice(sessionId) \in Message(Sessions) /\ CompactionNotice(sessionId) \in Message(Sessions)
      BY <1>0, MessagesAreTyped
    <3>2. Notice(sessionId).sess = sessionId /\ CompactionNotice(sessionId).sess = sessionId
      BY DEF Notice, CompactionNotice
    <3>3. CASE Compacting(s) \/ ErrorEvent(s)
      BY <1>0, <2>2, <3>1, <3>2, <3>3, AppendOfPage DEF Compacting, ErrorEvent
    <3>4. CASE \E text \in Texts : SupervisorAnswers(s, text)
      BY <1>0, <2>2, <3>4, ShownOfPage DEF SupervisorAnswers
    <3>5. CASE \E agent \in SubAgents, text \in Texts : SubAgentAnswers(s, agent, text)
      BY <1>0, <2>2, <3>5, FindingOfPage DEF SubAgentAnswers
    <3>6. CASE (\E t \in Tools : ToolResult(s, t)) \/ \E calls \in Calls, first \in Tools, says \in BOOLEAN : CallTools(s, calls, first, says)
      BY <1>0, <3>6 DEF ToolResult, CallTools, OnlyTools, page
    <3> QED BY <1>4, <3>3, <3>4, <3>5, <3>6 DEF Event
  <2>5. \A r \in Streams : /\ streams'[r].st = streams[r].st /\ streams'[r].kind = streams[r].kind
                           /\ streams'[r].run = streams[r].run /\ streams'[r].auto = streams[r].auto
    BY <1>2, EventKeepsStream
  <2>6. streams'[s].announced
    <3>1. \/ streams' = [streams EXCEPT ![s].left = @ - 1]
          \/ \E calls \in Calls : streams' = [streams EXCEPT ![s].left = @ - 1, ![s].due = calls]
          \/ \E t \in Tools : streams' = [streams EXCEPT ![s].due = @ \ {t}]
      BY <1>4, Zenon DEF Event, SupervisorAnswers, SubAgentAnswers, Compacting,
                         ErrorEvent, CallTools, ToolResult, Counted
    <3> QED BY <1>0, <2>1, <3>1 DEF Stream
  <2>7. ASSUME NEW r \in Streams, IsOpen(r)' PROVE BelongsHere(r)'
    <3>1. IsOpen(r) /\ BelongsHere(r)
      BY <1>0, <2>5, <2>7 DEF IsOpen
    <3>2. streams'[r].announced <=> streams[r].announced
      BY <1>2, <2>1, <2>6, EventKeepsStream
    <3> QED BY <2>2, <2>3, <2>5, <3>1, <3>2 DEF BelongsHere
  <2> QED BY <1>0, <2>3, <2>4, <2>7 DEF PageIsOne
<1> QED BY <1>3, <1>4

\* How streams end: what is written last, and the end itself.
LEMMA OneFinishes ==
  ASSUME OneInv, ~mixed, NEW s \in Streams, End(s)
  PROVE  PageIsOne'
<1>0. /\ messages \in Seq(Message(Sessions)) /\ sessionId \in Sessions
      /\ OfPage(messages, sessionId)
      /\ \A r \in Streams : IsOpen(r) => BelongsHere(r)
  BY OneFacts DEF OneInv, CardInv, TypeOK, PageIsOne
<1>1. ASSUME NEW output \in Texts \cup {NoText}, FinishChat(s, output)
      PROVE  PageIsOne'
  <2>1. /\ IsOpen(s) /\ streams[s].announced /\ sessionId' = streams[s].run.of
        /\ Ends(s) \/ AfterInterrupts(s)
        /\ messages' = IF output = NoText THEN messages
                       ELSE ShowSupervisor(messages, output, streams[s].run.of)
    BY <1>1 DEF FinishChat
  <2>2. sessionId' = sessionId
    BY <1>0, <2>1 DEF BelongsHere
  <2>3. OfPage(messages', sessionId')
    BY <1>0, <2>1, <2>2, ShownOfPage
  <2>4. abortable' = abortable
    BY <1>1 DEF FinishChat
  <2> QED BY <2>1, <2>2, <2>3, <2>4, OneEnds DEF PageIsOne
<1>2. CASE FinishResume(s)
  <2>1. /\ IsOpen(s) /\ (Ends(s) \/ AfterInterrupts(s)) /\ streams[s].kind = "resume"
        /\ sessionId' = sessionId /\ messages' = messages /\ abortable' = abortable
    BY <1>2 DEF FinishResume
  <2>2. streams[s].announced
    BY <1>0, <2>1 DEF BelongsHere
  <2> QED BY <1>0, <2>1, <2>2, OneEnds DEF PageIsOne
<1>3. CASE Lost(s)
  <2>1. /\ IsOpen(s) /\ Ends(s) /\ sessionId' = sessionId /\ abortable' = abortable
        /\ messages' \in {messages, Append(messages, Notice(NoSession))}
    BY <1>3 DEF Lost
  <2>2. Notice(NoSession) \in Message(Sessions) /\ Notice(NoSession).sess = NoSession
    BY MessagesAreTyped, StreamsAreTyped DEF Notice
  <2>3. OfPage(messages', sessionId')
    BY <1>0, <2>1, <2>2, AppendOfPage
  <2> QED BY <2>1, <2>3, OneEnds DEF PageIsOne
<1> QED BY <1>1, <1>2, <1>3 DEF End

\* Messages and approvals of the user.
LEMMA OneOpens ==
  ASSUME OneInv, ~mixed, Send \/ \E enable \in BOOLEAN : ApproveAll(enable)
  PROVE  PageIsOne'
<1>0. /\ streams \in [Streams -> Stream] /\ messages \in Seq(Message(Sessions))
      /\ sessionId \in Sessions /\ OfPage(messages, sessionId)
      /\ approval # NoApproval => sessionId # NoSession /\ pendingRun.of \in {NoSession, sessionId}
      /\ \A r \in Streams : IsOpen(r) => BelongsHere(r)
  BY OneFacts DEF OneInv, CardInv, TypeOK, PageIsOne
<1>1. CASE Send
  <2> DEFINE n == NewChat(opened + 1, sessionId)
  <2>1. /\ streams' = [streams EXCEPT ![opened + 1] = n] /\ processing' = TRUE
        /\ abortable' = opened + 1 /\ sessionId' = sessionId /\ approval' = approval
        /\ pendingRun' = pendingRun /\ messages' = Append(messages, UserMessage(sessionId))
        /\ ~processing
    BY <1>1 DEF Send, InputEnabled
  <2>2. n.kind = "chat" /\ ~n.announced /\ n.run = RunOf(sessionId, opened + 1)
    BY DEF NewChat
  <2>3. \A r \in Streams : IF r = opened + 1 THEN streams'[r] = n ELSE streams'[r] = streams[r]
    <3> HIDE DEF n
    <3> QED BY <1>0, <2>1
  <2>4. sessionId = NoSession => \A r \in Streams : ~IsOpen(r)
    BY <1>0, <2>1 DEF BelongsHere
  <2> HIDE DEF n
  <2>5. OfPage(messages', sessionId')
    <3>1. UserMessage(sessionId) \in Message(Sessions) /\ UserMessage(sessionId).sess = sessionId
      BY <1>0, MessagesAreTyped DEF UserMessage
    <3> QED BY <1>0, <2>1, <3>1, AppendOfPage
  <2>6. ASSUME NEW r \in Streams, IsOpen(r)' PROVE BelongsHere(r)'
    <3>1. CASE r = opened + 1
      BY <2>1, <2>2, <2>3, <2>4, <3>1 DEF BelongsHere, OthersOpen, IsOpen
    <3>2. CASE r # opened + 1
      <4>1. IsOpen(r) /\ streams'[r] = streams[r] /\ sessionId # NoSession
        BY <2>3, <2>4, <2>6, <3>2 DEF IsOpen
      <4> QED BY <1>0, <2>1, <4>1 DEF BelongsHere
    <3> QED BY <3>1, <3>2
  <2> QED BY <1>0, <2>1, <2>5, <2>6 DEF PageIsOne
<1>2. ASSUME NEW enable \in BOOLEAN, ApproveAll(enable) PROVE PageIsOne'
  <2> DEFINE n == NewResume(pendingRun, sessionId, approval.run, autoApprove \/ enable, approval.due)
  <2>1. /\ streams' = [streams EXCEPT ![opened + 1] = n] /\ approval # NoApproval
        /\ pendingRun # NoRun /\ approval' = NoApproval /\ sessionId' = sessionId
        /\ pendingRun' = pendingRun /\ messages' = messages
    BY <1>2 DEF ApproveAll
  <2>2. n.announced /\ n.run = pendingRun
    BY DEF NewResume
  <2>3. \A r \in Streams : streams'[r] \in {n, streams[r]}
    <3> HIDE DEF n
    <3> QED BY <1>0, <2>1
  <2> HIDE DEF n
  <2>4. sessionId # NoSession /\ pendingRun.of = sessionId
    BY <1>0, <2>1 DEF OneInv, RunsAreNamed
  <2>5. \A r \in Streams : IsOpen(r)' => BelongsHere(r)'
    BY <1>0, <2>1, <2>2, <2>3, <2>4 DEF BelongsHere, IsOpen
  <2> QED BY <1>0, <2>1, <2>5 DEF PageIsOne
<1> QED BY <1>1, <1>2

\* The other clicks under a page that was not switched.
LEMMA OneClicks ==
  ASSUME OneInv, ~mixed, RejectAll \/ Stop \/ ToggleAutoApprove
  PROVE  PageIsOne'
<1>0. /\ streams \in [Streams -> Stream] /\ messages \in Seq(Message(Sessions))
      /\ Closed.st = "closed" /\ OfPage(messages, sessionId)
      /\ approval # NoApproval => sessionId # NoSession /\ pendingRun.of \in {NoSession, sessionId}
      /\ \A r \in Streams : IsOpen(r) => BelongsHere(r)
  BY OneFacts DEF OneInv, CardInv, TypeOK, PageIsOne
<1>1. CASE RejectAll
  <2>1. /\ streams' = streams /\ messages' = messages /\ sessionId' = sessionId
        /\ approval # NoApproval /\ approval' = NoApproval /\ pendingRun' = NoRun
    BY <1>1 DEF RejectAll
  <2> QED BY <1>0, <2>1 DEF PageIsOne, BelongsHere, IsOpen, NoRun
<1>2. CASE Stop
  <2>1. /\ sessionId' = sessionId /\ approval' = approval /\ pendingRun' = pendingRun
        /\ messages' = Append(messages, Notice(NoSession))
        /\ \A r \in Streams : IsOpen(r)' => IsOpen(r) /\ streams'[r] = streams[r]
                                             /\ (abortable # 0 => r # abortable)
    BY <1>0, <1>2 DEF Stop, IsOpen
  <2>2. \A r \in Streams : IsOpen(r)' => sessionId # NoSession
    BY <1>0, <2>1, OneFacts DEF BelongsHere, NoSession
  <2>3. Notice(NoSession) \in Message(Sessions) /\ Notice(NoSession).sess = NoSession
    BY MessagesAreTyped, StreamsAreTyped DEF Notice
  <2>4. OfPage(messages', sessionId')
    BY <1>0, <2>1, <2>3, AppendOfPage
  <2> QED BY <1>0, <2>1, <2>2, <2>4 DEF PageIsOne, BelongsHere
<1>3. CASE ToggleAutoApprove
  BY <1>0, <1>3, OneRests DEF ToggleAutoApprove
<1> QED BY <1>1, <1>2, <1>3

\* Switching starts anew, unless a stream or an approval goes on.
LEMMA OneSwitches ==
  ASSUME OneInv, Clear \/ LoadConversation
  PROVE  PageIsOne'
<1>1. /\ streams' = streams /\ approval' = approval
      /\ ~mixed' => ~AnyOpen /\ approval = NoApproval
  BY DEF Clear, LoadConversation, Switched
<1>2. OfPage(messages', sessionId')
  <2>1. OfPage(<<>>, NoSession)
    BY DEF OfPage
  <2>2. OfPage(StoredMessages, Stored)
    BY DEF OfPage, StoredMessages
  <2> QED BY <2>1, <2>2 DEF Clear, LoadConversation
<1> QED BY <1>1, <1>2 DEF PageIsOne, AnyOpen, IsOpen

\* The URL's session arrives: only on an untouched page is the page still one.
LEMMA OneRestores ==
  ASSUME OneInv, Restored
  PROVE  PageIsOne'
<1>1. /\ streams' = streams /\ approval' = approval
      /\ ~mixed' => ~mixed /\ opened = 0 /\ switches = 0
  <2>1. ~mixed' => ~mixed /\ ~(opened > 0) /\ ~(switches > 0)
    BY Zenon DEF Restored
  <2>2. opened \in Nat /\ switches \in Nat
    BY OneFacts
  <2> QED BY <2>1, <2>2 DEF Restored
<1>2. SUFFICES ASSUME ~mixed' PROVE PageIsOne'
  BY DEF PageIsOne
<1>3. messages = <<>> /\ sessionId = Stored /\ approval = NoApproval
  BY <1>1, <1>2 DEF Restored, OneInv, Untouched
<1>4. \A s \in Streams : ~IsOpen(s)
  BY <1>1, <1>2 DEF OneInv, CardInv, OpenAreOpened, Streams
<1>5. OfPage(messages', sessionId')
  <2>1. OfPage(<<>>, NoSession)
    BY DEF OfPage
  <2>2. OfPage(StoredMessages, Stored)
    BY DEF OfPage, StoredMessages
  <2> QED BY <1>3, <2>1, <2>2 DEF Restored
<1> QED BY <1>1, <1>3, <1>4, <1>5 DEF PageIsOne, IsOpen

LEMMA OneStep == OneInv /\ [Next]_vars => OneInv'
<1> SUFFICES ASSUME OneInv, [Next]_vars PROVE OneInv'
  OBVIOUS
<1>1. CardInv' /\ SpinnerIsTrue' /\ RunsAreNamed' /\ Untouched'
  BY CardStep, SpinnerStep, NamesStep, UntouchedStep DEF OneInv, CardInv
<1>2. PageIsOne'
  <2>1. CASE Clear \/ LoadConversation \/ Restored
    BY <2>1, OneSwitches, OneRestores
  <2>2. CASE ~(Clear \/ LoadConversation \/ Restored) /\ mixed
    <3>1. mixed' = mixed
      BY <2>2 DEF Next, Event, End, Clicks, Announce, SupervisorAnswers, SubAgentAnswers, Compacting,
                  ErrorEvent, CallTools, ToolResult, OnlyMessages, OnlyTools, FinishChat, FinishResume,
                  Lost, Send, ToggleAutoApprove, ApproveAll, RejectAll, Stop, history, vars
    <3> QED BY <2>2, <3>1 DEF PageIsOne
  <2>3. CASE ~(Clear \/ LoadConversation \/ Restored) /\ ~mixed
    <3>1. CASE UNCHANGED vars
      BY <2>3, <3>1, OneRests DEF vars, page, OneInv, PageIsOne
    <3> QED BY <2>3, <3>1, OneHears, OneFinishes, OneOpens, OneClicks DEF Next, Clicks
  <2> QED BY <2>1, <2>2, <2>3
<1> QED BY <1>1, <1>2 DEF OneInv

\* A page that was never switched under a stream or an approval holds messages
\* of one session only, the one that the next message goes to.
THEOREM PageHasOneSession == Spec => []OneSessionOnPage
<1>1. ASSUME Init
      PROVE  /\ CardIsDue /\ OpenAreOpened /\ CardNamesItsTool /\ SpinnerIsTrue
             /\ RunsAreNamed /\ Untouched /\ PageIsOne
  <2>1. \A s \in Streams : ~IsOpen(s)
    BY <1>1 DEF Init, IsOpen, Unused
  <2>2. CardIsDue /\ OpenAreOpened /\ CardNamesItsTool
    BY <1>1, <2>1 DEF Init, CardIsDue, OpenAreOpened, CardNamesItsTool
  <2>3. SpinnerIsTrue /\ RunsAreNamed
    BY <1>1, <2>1 DEF Init, SpinnerIsTrue, AnyOpen, RunsAreNamed
  <2>4. Untouched
    BY <1>1 DEF Init, Untouched
  <2>5. OfPage(<<>>, sessionId)
    BY DEF OfPage
  <2>6. PageIsOne
    BY <1>1, <2>1, <2>5 DEF Init, PageIsOne
  <2> QED BY <2>2, <2>3, <2>4, <2>6
<1>2. /\ TypeOK /\ CardIsDue /\ OpenAreOpened /\ CardNamesItsTool /\ SpinnerIsTrue
      /\ RunsAreNamed /\ Untouched /\ PageIsOne
      => OneInv
  BY DEF OneInv, CardInv
<1>3. OneInv => OneSessionOnPage
  BY DEF OneInv, PageIsOne, OfPage, OneSessionOnPage
<1> QED BY <1>1, <1>2, <1>3, OneStep, PageTyped, PTL DEF Spec
=============================================================================
