---------------------------- MODULE EventReader ----------------------------
(***************************************************************************)
(* A run's stream from the server's writes to the timeline:                *)
(* collectAndStream writes an envelope a line, the network cuts the text   *)
(* anywhere, and readSSEStream of lib/api.ts puts the lines together       *)
(* again, turns each into an agent event and hands it on.  A line is two   *)
(* characters, so that a cut can fall into it; each carries the number of  *)
(* its envelope.                                                           *)
(***************************************************************************)
EXTENDS Timeline, Naturals

CONSTANTS
  MaxSent    \* bound: envelopes of a run between the session and the final one

ASSUME MaxSentAssumption == MaxSent \in Nat

Newline == [line |-> 0, half |-> 0]
Characters(k) == [line : 0 .. k, half : 0 .. 2]
\* A line of data and the blank line that ends it.
Text(k) == <<[line |-> k, half |-> 1], [line |-> k, half |-> 2], Newline, Newline>>

Envelope(type, event) == [type |-> type, event |-> event]
NoEvent ==
  [agent |-> Supervisor, reasons |-> FALSE, says |-> FALSE, call |-> NoTool,
   result |-> NoTool, action |-> "none"]

VARIABLES
  sent,       \* envelopes written
  asks,       \* the run ended asking for approval
  wire,       \* characters written and not yet read
  buffer,     \* the reader's unfinished line
  parsed,     \* envelopes parsed, by number
  timeline,   \* agentActivities
  reader,     \* reading, returned or failed
  interrupts  \* the reader has interrupts to return

readerVars == <<sent, asks, wire, buffer, parsed, timeline, reader, interrupts>>

Types == {"session", "event", "error", "compaction", "todo_update", "final"}
Cardlike ==
  [agent : SubAgents \cup {Supervisor, System},
   type : {"thinking", "tool_call", "tool_result", "output", "transfer", "error"},
   of : Tools \cup {NoTool, Waiting}]

ReaderTypeOK ==
  /\ \A k \in DOMAIN sent : sent[k].type \in Types /\ sent[k].event \in Event
  /\ asks \in BOOLEAN /\ interrupts \in BOOLEAN
  /\ wire \in Seq(Characters(Len(sent))) /\ buffer \in Seq(Characters(Len(sent)))
  /\ parsed \in Seq(DOMAIN sent)
  /\ timeline \in Seq(Cardlike)
  /\ reader \in {"reading", "returned", "failed"}

\* The session is announced at once.
ReaderInit ==
  /\ sent = <<Envelope("session", NoEvent)>>
  /\ asks = FALSE
  /\ wire = Text(1) /\ buffer = <<>>
  /\ parsed = <<>> /\ timeline = <<>>
  /\ reader = "reading" /\ interrupts = FALSE

Over == sent[Len(sent)].type = "final"

Write(type, event) ==
  /\ ~Over
  /\ sent' = Append(sent, Envelope(type, event))
  /\ wire' = wire \o Text(Len(sent) + 1)
  /\ UNCHANGED <<buffer, parsed, timeline, reader, interrupts>>

\* An event of the run; todos ride on what an agent says.
WriteEvent(e) ==
  /\ Len(sent) <= MaxSent
  /\ Produced(e) /\ ~asks
  /\ asks' = (e.action = "interrupt")
  /\ Write("event", e)

\* Errors are streamed but not stored with the events; progress of a compaction
\* and lists of todos come as envelopes of their own.
WriteOther ==
  /\ Len(sent) <= MaxSent
  /\ \E type \in {"error", "compaction", "todo_update"} : Write(type, NoEvent)
  /\ UNCHANGED asks

WriteFinal ==
  /\ \E output \in BOOLEAN : Write("final", [NoEvent EXCEPT !.says = output])
  /\ UNCHANGED asks

-----------------------------------------------------------------------------
Newlines(text) == {i \in DOMAIN text : text[i] = Newline}
LastNewline(text) ==
  IF Newlines(text) = {} THEN 0
  ELSE CHOOSE i \in Newlines(text) : \A j \in Newlines(text) : j <= i

\* Mutant of Rest: the last whole line stays in the buffer when one was read.
RestWithLine(text) ==
  IF LastNewline(text) > 3 THEN SubSeq(text, LastNewline(text) - 3, Len(text)) ELSE text

\* What lines.pop() leaves in the buffer.
Rest(text) == SubSeq(text, LastNewline(text) + 1, Len(text))

\* Mutant of Starts: lines are looked for in the newest chunk only.
StartsOfChunk(text, read) ==
  {i \in Len(buffer) + 1 .. LastNewline(text) - 2 :
     text[i].half = 1 /\ text[i + 1].half = 2 /\ text[i + 2] = Newline}

\* Where a whole line of data starts in the text; half a line, which cannot be
\* parsed, and blank ones are skipped.  ("read" is how much of it is new.)
Starts(text, read) ==
  {i \in 1 .. LastNewline(text) - 2 :
     text[i].half = 1 /\ text[i + 1].half = 2 /\ text[i + 2] = Newline}

\* The n-th of a set of places.
Nth(places, n) == CHOOSE i \in places : Cardinality({j \in places : j <= i}) = n

Lines(text, read) ==
  LET starts == Starts(text, read)
  IN  [n \in 1 .. Cardinality(starts) |-> text[Nth(starts, n)].line]

\* What the page adds to the timeline for an envelope.
Shows(envelope) ==
  IF envelope.type = "event" THEN Live(envelope.event)
  ELSE IF envelope.type = "error" THEN <<Card(Supervisor, "error", NoTool)>>
  ELSE IF envelope.type = "compaction" THEN <<Card(System, "thinking", NoTool)>>
  ELSE IF envelope.type = "final" /\ envelope.event.says THEN <<Card(Supervisor, "output", NoTool)>>
  ELSE <<>>

\* One reader.read() with the next n characters, and the loop over its lines.
\* The final output is shown when the reader returns, which is not told apart.
Read(n) ==
  LET text == buffer \o SubSeq(wire, 1, n)
      lines == Lines(text, n)
      cards == FlattenSeq([i \in DOMAIN lines |-> Shows(sent[lines[i]])])
  IN  /\ reader = "reading" /\ n \in 1 .. Len(wire)
      /\ wire' = SubSeq(wire, n + 1, Len(wire))
      /\ buffer' = Rest(text)
      /\ parsed' = parsed \o lines
      /\ timeline' = AddActivities(timeline, cards)
      /\ interrupts' = (interrupts \/ (asks /\ \E i \in DOMAIN lines : sent[lines[i]].type = "final"))
      /\ UNCHANGED <<sent, asks, reader>>

\* The server closes after the final envelope and the reader returns.
Done ==
  /\ reader = "reading" /\ Over /\ wire = <<>>
  /\ reader' = "returned"
  /\ UNCHANGED <<sent, asks, wire, buffer, parsed, timeline, interrupts>>

\* The connection breaks, or the user stops the run: read() throws.
Break ==
  /\ reader = "reading"
  /\ reader' = "failed"
  /\ UNCHANGED <<sent, asks, wire, buffer, parsed, timeline, interrupts>>

ReaderNext ==
  \/ \E e \in Event : WriteEvent(e)
  \/ WriteOther
  \/ WriteFinal
  \/ \E n \in 1 .. Len(wire) : Read(n)
  \/ Done
  \/ Break

ReaderSpec == ReaderInit /\ [][ReaderNext]_readerVars

-----------------------------------------------------------------------------
\* The events stored for the envelopes that the page has read.
SeenEvents ==
  Only([k \in DOMAIN parsed |-> sent[parsed[k]].event],
       {k \in DOMAIN parsed : sent[parsed[k]].type = "event"})

\* replayActivitiesFromEvents.
Replay(events) == FlattenSeq([n \in DOMAIN events |-> Replayed(events[n])])

\* A run that asks for approval is heard when its stream has ended, and no other.
AskIsHeard == reader = "returned" => (interrupts <=> asks)

\* A restored timeline has the results that the live one had, and the answers of
\* the sub-agents, in the same order.
ReplayAgrees ==
  LET replay == Replay(SeenEvents)
  IN  Results(replay) = Results(timeline) /\ Answers(replay) = Answers(timeline)

\* The channel that the reader implements: envelopes arrive in order.
Channel == INSTANCE Channel WITH
  written <- [k \in DOMAIN sent |-> k], received <- parsed, closed <- (reader # "reading")
ChannelSpec == Channel!Spec
=============================================================================
