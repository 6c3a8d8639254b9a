------------------------------ MODULE RunOutput ------------------------------
(***************************************************************************)
(* The root stage of a run and whoever collects its events into the run's  *)
(* result: collectAndStream and collectBackgroundEvents of cmd/hub/main.go *)
(* go on after an error and note it in the output, collectResult of        *)
(* internal/hub/hub.go stops and reports it.  The output is what is stored *)
(* as the run's answer.  The stage's output only grows and the collector   *)
(* only reads it, so it is modelled as reading when the stage has ended.   *)
(***************************************************************************)
EXTENDS StageBudget

VARIABLES
  stops,      \* the collector is collectResult
  taken,      \* events taken from the stage
  output,     \* the text the run's output was last set to, or None
  noted,      \* error notes stand behind it
  collector   \* running, done, failed with an error, or stopped for a retry

run == <<stops, taken, output, noted, collector>>
runVars == <<vars, run>>

RunTypeOK ==
  /\ TypeOK
  /\ stops \in BOOLEAN
  /\ taken \in Nat /\ taken <= Len(out)
  /\ output \in Texts \cup {None, "fallback"}
  /\ noted \in BOOLEAN
  /\ collector \in {"running", "done", "failed", "transfer"}

RunInit ==
  /\ Init
  /\ stops \in BOOLEAN
  /\ taken = 0 /\ output = None /\ noted = FALSE /\ collector = "running"

\* Mutant of UsedAsOutput: announcements are not told from conclusions.
UsedAnyText(e) == e.kind \in {"text", "status", "fallback"}

\* shouldUseAsRunOutput: an assistant's text that is no limit announcement.
UsedAsOutput(e) == e.kind \in {"text", "status", "fallback"} /\ ~IsStatus(e)

Content(e) == IF e.kind = "fallback" THEN "fallback" ELSE e.text

TakeEvent ==
  LET e == out[taken + 1]
  IN  /\ collector = "running" /\ main = "done"
      /\ taken < Len(out)
      /\ taken' = taken + 1
      /\ e.kind # "error"
      /\ IF UsedAsOutput(e)
         THEN output' = Content(e) /\ noted' = FALSE
         ELSE UNCHANGED <<output, noted>>
      /\ UNCHANGED <<vars, stops, collector>>

\* The collectors of the chat server give up at the one error that a retry can
\* help (isTransferToAgentError) and note any other.
TakeError ==
  /\ collector = "running" /\ main = "done"
  /\ taken < Len(out) /\ out[taken + 1].kind = "error"
  /\ taken' = taken + 1
  /\ \/ stops /\ collector' = "failed" /\ UNCHANGED noted
     \/ ~stops /\ collector' = "transfer" /\ UNCHANGED noted
     \/ ~stops /\ noted' = TRUE /\ UNCHANGED collector
  /\ UNCHANGED <<vars, stops, output>>

EndOfEvents ==
  /\ collector = "running"
  /\ taken = Len(out) /\ main = "done"
  /\ collector' = "done"
  /\ UNCHANGED <<vars, stops, taken, output, noted>>

RunNext == (Next /\ UNCHANGED run) \/ TakeEvent \/ TakeError \/ EndOfEvents

RunSpec == RunInit /\ [][RunNext]_runVars

\* Collecting goes on while there are events; the stage is as in LiveSpec.
LiveRunSpec ==
  /\ RunSpec
  /\ WF_runVars(Pump /\ UNCHANGED run) /\ WF_runVars(Main /\ UNCHANGED run)
  /\ WF_runVars(Deadline /\ UNCHANGED run)
  /\ WF_runVars((FinalizerFails \/ FinalizerEnds) /\ UNCHANGED run)

-----------------------------------------------------------------------------
\* The stored answer of a run is the last conclusion anybody sent, whatever
\* announcements, tool events and errors stand between and behind
\* (cmd/hub/main.go 2349-2356; hub.go 1150-1156).
AnswerIsNewest ==
  collector = "done" =>
    LET texts == {k \in DOMAIN out : out[k].kind = "text"}
    IN  IF texts = {} THEN output = None
        ELSE \E k \in texts : output = out[k].text /\ \A j \in texts : j <= k
==============================================================================
