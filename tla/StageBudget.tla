----------------------------- MODULE StageBudget -----------------------------
(***************************************************************************)
(* One agent stage under a budget (internal/hub/timeout_agent.go): the     *)
(* wrapped agent emits events, a pump goroutine takes them one by one and  *)
(* offers them on an unbuffered channel, and the stage's main goroutine    *)
(* selects between that channel and the end of its context.  At its        *)
(* deadline, or when the agent exceeds its iterations, the stage announces *)
(* the limit and, at the root, lets a finalizer summarise the evidence.    *)
(*                                                                         *)
(* A stage's output is in turn what its parent stage reads, so the source  *)
(* here may be a stage, and so is the finalizer (SummaryAgent).  An event  *)
(* is reduced to its kind and, for an assistant's text, which text it is;  *)
(* Size gives the length of a text's evidence item.                        *)
(***************************************************************************)
EXTENDS Naturals, Sequences

CONSTANTS
  Texts,        \* the texts agents conclude with
  Size,         \* [Texts -> Nat]: the length of the item made of a text
  ItemMax,      \* maxEvidenceItemChars
  EvidenceMax,  \* maxFinalizerEvidenceChars
  None,
  MaxEvents,    \* bound: events of the source
  MaxFinal      \* bound: events of the finalizer

ASSUME SizeAssumption ==
  /\ Size \in [Texts -> Nat \ {0}]
  /\ ItemMax \in Nat \ {0} /\ EvidenceMax \in Nat \ {0}
ASSUME NoneAssumption == None \notin Texts
ASSUME BoundAssumption == MaxEvents \in Nat /\ MaxFinal \in Nat

Says(t) == [kind |-> "text", text |-> t]
Plain(k) == [kind |-> k, text |-> None]

\* "status" is the announcement of a stage's limit, "fallback" the summary a
\* root stage makes of its evidence, "limit" an ErrExceedMaxIterations event.
Kinds == {"tool", "status", "limit", "error", "fallback"}
Events == {Says(t) : t \in Texts} \cup {Plain(k) : k \in Kinds}

\* What the agent below a stage may send; only a root stage makes a fallback,
\* and it has no parent.
Emitted == Events \ {Plain("fallback")}
Summaries == Emitted \ {Plain("limit")}

VARIABLES
  timed,      \* a.timeout > 0
  finalizer,  \* a.finalizer # nil
  parent,     \* ctx: live, cancelled, or past its own deadline
  runErr,     \* runCtx.Err(): the first reason runCtx was done for
  emitted,    \* events the source has sent so far
  srcOpen,    \* the source has not ended
  pump,       \* the pump goroutine: in Next, offering an event, or gone
  read,       \* events the pump has taken
  main,       \* the main goroutine: in the select, in the finalizer, or gone
  limit,      \* the limit announced
  out,        \* what the stage has sent
  fwd,        \* how many of these came from the source
  evidence,   \* items kept for the finalizer: their text and length
  chars,      \* evidenceChars
  seen,       \* seenEvidence
  finSeen     \* finalContentSeen

source == <<emitted, srcOpen>>
kept == <<evidence, chars, seen>>
vars == <<timed, finalizer, parent, runErr, source, pump, read, main, limit,
          out, fwd, kept, finSeen>>

TypeOK ==
  /\ timed \in BOOLEAN /\ finalizer \in BOOLEAN
  /\ parent \in {"live", "cancelled", "expired"}
  /\ runErr \in {"none", "cancelled", "deadline"}
  /\ emitted \in Seq(Emitted) /\ srcOpen \in BOOLEAN
  /\ pump \in {"next", "offer", "gone"} /\ read \in Nat
  /\ main \in {"select", "finalize", "done"}
  /\ limit \in {"none", "timeout", "iterations"}
  /\ out \in Seq(Events) /\ fwd \in Nat
  /\ evidence \in Seq([text : Texts, len : Nat])
  /\ chars \in 0..EvidenceMax
  /\ seen \subseteq Texts
  /\ finSeen \in BOOLEAN

Init ==
  /\ timed \in BOOLEAN /\ finalizer \in BOOLEAN
  /\ parent = "live" /\ runErr = "none"
  /\ emitted = <<>> /\ srcOpen = TRUE
  /\ pump = "next" /\ read = 0
  /\ main = "select" /\ limit = "none"
  /\ out = <<>> /\ fwd = 0
  /\ evidence = <<>> /\ chars = 0 /\ seen = {}
  /\ finSeen = FALSE
-----------------------------------------------------------------------------
(* The source and the contexts.                                            *)

Failing(e) == e.kind \in {"limit", "error"}

\* The agent's own iterator ends with its first error.  What it sends after the
\* stage has left its select nobody reads: it is left out.
Emit(e) ==
  /\ srcOpen /\ main = "select"
  /\ Len(emitted) < MaxEvents
  /\ \A k \in DOMAIN emitted : ~Failing(emitted[k])
  /\ emitted' = Append(emitted, e)
  /\ UNCHANGED <<timed, finalizer, parent, runErr, srcOpen, pump, read, main,
                 limit, out, fwd, kept, finSeen>>

CloseSource ==
  /\ srcOpen /\ main = "select"
  /\ srcOpen' = FALSE
  /\ UNCHANGED <<timed, finalizer, parent, runErr, emitted, pump, read, main,
                 limit, out, fwd, kept, finSeen>>

\* A done context keeps the reason it was first done for.
DoneFor(reason) == runErr' = IF runErr = "none" THEN reason ELSE runErr

\* The stage stops its timer when it ends.
Deadline ==
  /\ timed /\ runErr = "none" /\ main # "done"
  /\ DoneFor("deadline")
  /\ UNCHANGED <<timed, finalizer, parent, source, pump, read, main, limit,
                 out, fwd, kept, finSeen>>

\* The run is cancelled, or the parent stage reaches its own deadline.
EndParent(how) ==
  /\ parent = "live"
  /\ main # "done"
  /\ parent' = how
  /\ DoneFor(IF how = "cancelled" THEN "cancelled" ELSE "deadline")
  /\ UNCHANGED <<timed, finalizer, source, pump, read, main, limit, out, fwd,
                 kept, finSeen>>
-----------------------------------------------------------------------------
(* The pump goroutine.                                                     *)

Take ==
  /\ pump = "next"
  /\ read < Len(emitted)
  /\ read' = read + 1
  /\ pump' = "offer"
  /\ UNCHANGED <<timed, finalizer, parent, runErr, source, main, limit, out,
                 fwd, kept, finSeen>>

SourceEnds ==
  /\ pump = "next"
  /\ ~srcOpen /\ read = Len(emitted)
  /\ pump' = "gone"
  /\ UNCHANGED <<timed, finalizer, parent, runErr, source, read, main, limit,
                 out, fwd, kept, finSeen>>

\* Mutant of Drop: the pump goes on with the next event.
DropGoesOn ==
  /\ pump = "offer"
  /\ runErr # "none"
  /\ pump' = "next"
  /\ UNCHANGED <<timed, finalizer, parent, runErr, source, read, main, limit,
                 out, fwd, kept, finSeen>>

\* The event it offers is lost.
Drop ==
  /\ pump = "offer"
  /\ runErr # "none"
  /\ pump' = "gone"
  /\ UNCHANGED <<timed, finalizer, parent, runErr, source, read, main, limit,
                 out, fwd, kept, finSeen>>
-----------------------------------------------------------------------------
(* The main goroutine.                                                     *)

\* IsStageLimitStatus: the text starts like the announcement of a limit.  The
\* fallback summary begins with that announcement.
IsStatus(e) == e.kind \in {"status", "fallback"}

Least(x, y) == IF x < y THEN x ELSE y

\* collectStageEvidence: conclusions once each, cut to the space left.
Collect(e) ==
  IF e.kind # "text" \/ e.text \in seen \/ chars >= EvidenceMax
  THEN UNCHANGED kept
  ELSE LET len == Least(Least(Size[e.text], ItemMax), EvidenceMax - chars)
       IN  /\ seen' = seen \cup {e.text}
           /\ evidence' = Append(evidence, [text |-> e.text, len |-> len])
           /\ chars' = chars + len

\* handleStageLimit up to the start of the finalizer.
AnnounceLimit(kind) ==
  /\ out' = Append(out, Plain("status"))
  /\ limit' = kind
  /\ main' = IF finalizer THEN "finalize" ELSE "done"

Forward ==
  LET e == emitted[read]
  IN  /\ main = "select" /\ pump = "offer"
      /\ e.kind # "limit"
      /\ ~(e.kind = "error" /\ parent = "live" /\ runErr = "deadline")
      /\ pump' = "next"
      /\ out' = Append(out, e)
      /\ fwd' = fwd + 1
      /\ Collect(e)
      /\ UNCHANGED <<timed, finalizer, parent, runErr, source, read, main,
                     limit, finSeen>>

IterationLimit ==
  /\ main = "select" /\ pump = "offer"
  /\ emitted[read].kind = "limit"
  /\ pump' = "next"
  /\ DoneFor("cancelled")
  /\ AnnounceLimit("iterations")
  /\ UNCHANGED <<timed, finalizer, parent, source, read, fwd, kept, finSeen>>

\* The error event is the agent's answer to the deadline.
LateError ==
  /\ main = "select" /\ pump = "offer"
  /\ emitted[read].kind = "error"
  /\ parent = "live" /\ runErr = "deadline"
  /\ pump' = "next"
  /\ AnnounceLimit("timeout")
  /\ UNCHANGED <<timed, finalizer, parent, runErr, source, read, fwd, kept, finSeen>>

\* Mutant of StageEnds: a closed channel is taken for the end of the source.
StageEndsAlways ==
  /\ main = "select" /\ pump = "gone"
  /\ main' = "done"
  /\ UNCHANGED <<timed, finalizer, parent, runErr, source, pump, read, limit,
                 out, fwd, kept, finSeen>>

\* The channel is closed and the context is not done.
StageEnds ==
  /\ main = "select" /\ pump = "gone"
  /\ runErr = "none"
  /\ main' = "done"
  /\ UNCHANGED <<timed, finalizer, parent, runErr, source, pump, read, limit,
                 out, fwd, kept, finSeen>>

\* Mutant of ContextEnd: the select waits for events only.
ContextEndOnClosed ==
  /\ main = "select" /\ pump = "gone"
  /\ runErr # "none"
  /\ IF parent # "live" \/ runErr # "deadline"
     THEN /\ out' = Append(out, Plain("error"))
          /\ main' = "done"
          /\ UNCHANGED limit
     ELSE AnnounceLimit("timeout")
  /\ UNCHANGED <<timed, finalizer, parent, runErr, source, pump, read, fwd,
                 kept, finSeen>>

\* handleContextEnd, whether the select saw the done context or the closed
\* channel first.
ContextEnd ==
  /\ main = "select"
  /\ runErr # "none"
  /\ IF parent # "live" \/ runErr # "deadline"
     THEN /\ out' = Append(out, Plain("error"))
          /\ main' = "done"
          /\ UNCHANGED limit
     ELSE AnnounceLimit("timeout")
  /\ UNCHANGED <<timed, finalizer, parent, runErr, source, pump, read, fwd,
                 kept, finSeen>>

Finish(e) == out' = Append(out, e) /\ main' = "done"

\* The finalizer's events go out as they are; its error brings the fallback.
\* Whatever its assistant says counts as a summary, also beside tool calls.
Finalizing(e) ==
  /\ main = "finalize"
  /\ Len(out) <= fwd + MaxFinal
  /\ out' = Append(out, e)
  /\ finSeen' \in IF e.kind = "tool" THEN {finSeen, TRUE} ELSE {TRUE}
  /\ UNCHANGED <<timed, finalizer, parent, runErr, source, pump, read, main,
                 limit, fwd, kept>>

FinalizerFails ==
  /\ main = "finalize"
  /\ Finish(Plain("fallback"))
  /\ UNCHANGED <<timed, finalizer, parent, runErr, source, pump, read, limit,
                 fwd, kept, finSeen>>

FinalizerEnds ==
  /\ main = "finalize"
  /\ IF finSeen THEN main' = "done" /\ UNCHANGED out ELSE Finish(Plain("fallback"))
  /\ UNCHANGED <<timed, finalizer, parent, runErr, source, pump, read, limit,
                 fwd, kept, finSeen>>

Pump == Take \/ SourceEnds \/ Drop

Main == Forward \/ IterationLimit \/ LateError \/ StageEnds \/ ContextEnd

Summarise ==
  (\E e \in Summaries \ {Plain("error")} : Finalizing(e)) \/ FinalizerFails \/ FinalizerEnds

Next ==
  \/ \E e \in Emitted : Emit(e)
  \/ CloseSource \/ Deadline
  \/ EndParent("cancelled") \/ EndParent("expired")
  \/ Pump \/ Main \/ Summarise

Spec == Init /\ [][Next]_vars

\* Timers fire, the stage's goroutines are scheduled, and the finalizer, itself
\* a stage with a budget, ends.  Nothing is assumed of the source.
LiveSpec ==
  /\ Spec
  /\ WF_vars(Pump) /\ WF_vars(Main) /\ WF_vars(Deadline)
  /\ WF_vars(FinalizerFails \/ FinalizerEnds)

-----------------------------------------------------------------------------
\* What the stage adds to the events of its source.
Ending == SubSeq(out, fwd + 1, Len(out))

\* The stage passes on its source's events in their order, none twice and none
\* left out between two others (timeout_agent.go 97-134: two goroutines and a
\* channel), and then adds nothing, one error, or the announcement of a limit
\* followed by the finalizer's events.
InOrder ==
  /\ fwd <= Len(out) /\ fwd <= Len(emitted)
  /\ SubSeq(out, 1, fwd) = SubSeq(emitted, 1, fwd)
  /\ main = "select" => Ending = <<>>
  /\ Len(Ending) > 0 =>
       IF limit = "none" THEN Ending = <<Plain("error")>> ELSE Ending[1] = Plain("status")
  /\ Len(Ending) > 1 => finalizer

\* A stage that ends without an error or a limit has passed on everything its
\* source sent (timeout_agent.go 102-109, 115-119: the pump drops an event only
\* when the context is done, and the main goroutine then reports that).
NothingLost ==
  main = "done" /\ Ending = <<>> => ~srcOpen /\ fwd = Len(emitted)

\* Whatever conclusion went out before the limit is evidence for the finalizer
\* and the fallback, unless the evidence is full (timeout_agent.go 223-256).
EvidenceKept ==
  \A k \in 1..fwd :
    out[k].kind = "text" =>
      \/ chars = EvidenceMax
      \/ \E j \in DOMAIN evidence : evidence[j].text = out[k].text

\* A stage with a timeout ends even if its source never does and ignores its
\* context (timeout_agent.go 135); so does one whose run is cancelled and one
\* whose source ends.
StageReturns ==
  (timed \/ parent # "live" \/ ~srcOpen) ~> main = "done"
=============================================================================
