------------------------------- MODULE Viewer -------------------------------
(***************************************************************************)
(* The pages that fetch and show what is selected, each with a handler of  *)
(* its own and none that tells a late answer from the awaited one:         *)
(*   "sessions"   SessionsTab of SettingsPage.tsx                          *)
(*   "debug"      app/debug/page.tsx, which asks two endpoints at once     *)
(*   "detail"     DiagnosticDetailClient.tsx, the same for one session     *)
(*   "shared"     SharedSessionClient.tsx, one session behind a token      *)
(*   "dashboard"  DashboardClient.tsx, where a time range is selected      *)
(*                                                                         *)
(*   page      the page that is open                                       *)
(*   offered   the subjects that can be clicked                            *)
(*   stored    the sessions there are                                      *)
(*   waiting   the page draws a spinner and nothing else                   *)
(*   chosen    what the page says it shows                                 *)
(*   shown     what the contents on the page belong to                     *)
(*   fetches   requests under way                                          *)
(*   answer    history: how the last request for contents was answered     *)
(*   overtaken history: a subject was selected while another's contents    *)
(*             were under way, or while it was being deleted               *)
(*   clicks    clicks, capped by MaxClicks                                 *)
(***************************************************************************)
EXTENDS Naturals, FiniteSets

CONSTANTS Subjects, MaxClicks

ASSUME ViewerAssumption == MaxClicks \in Nat /\ IsFiniteSet(Subjects)

VARIABLES page, offered, stored, waiting, chosen, shown, fetches, answer, overtaken, clicks

viewVars == <<page, offered, stored, waiting, chosen, shown, fetches, answer, overtaken, clicks>>

NoSubject == "nothing"
ViewPages == {"sessions", "debug", "detail", "shared", "dashboard"}

\* The pages that start with a subject.
Given == {"detail", "shared", "dashboard"}

\* A request is good, answered with an error, or lost with the network.
Outcomes == {"ok", "bad", "lost"}

Fetches == [kind : {"list", "show", "delete"}, subject : Subjects \union {NoSubject},
         seen : Subjects \union {NoSubject}, nr : 0..MaxClicks]
Fetch(k, s) == [kind |-> k, subject |-> s, seen |-> chosen, nr |-> clicks]
First(k, s) == [kind |-> k, subject |-> s, seen |-> NoSubject, nr |-> 0]

Showing == {a \in fetches : a.kind = "show"}
Deleting(s) == \E a \in fetches : a.kind = "delete" /\ a.subject = s

----------------------------------------------------------------------------
\* What a page asks for when it is mounted.
ViewInit ==
  /\ page \in ViewPages
  /\ stored = Subjects
  /\ chosen \in IF page \in Given THEN Subjects ELSE {NoSubject}
  /\ offered = IF page = "dashboard" THEN Subjects ELSE {}
  /\ waiting = (page # "debug")
  /\ fetches = {IF page \in Given THEN First("show", chosen) ELSE First("list", NoSubject)}
  /\ shown = NoSubject
  /\ answer = [subject |-> NoSubject, first |-> "ok", second |-> "ok"]
  /\ overtaken = FALSE
  /\ clicks = 0

Click == clicks < MaxClicks /\ clicks' = clicks + 1

\* Mutant of Choose: the dashboard stays drawn while it loads.
ChooseDrawn(s) ==
  /\ page \notin {"detail", "shared"} /\ ~waiting /\ s \in offered /\ Click
  /\ page = "dashboard" => s # chosen
  /\ chosen' = s
  /\ shown' = IF page = "debug" THEN NoSubject ELSE shown
  /\ waiting' = FALSE
  /\ fetches' = fetches \union {Fetch("show", s)}
  /\ overtaken' = (overtaken \/ (page # "dashboard" /\ (Showing # {} \/ Deleting(s))))
  /\ UNCHANGED <<page, offered, stored, answer>>

\* handleSelect, loadSession, the dashboard's change of range.  The debug
\* page empties its panes first, the dashboard hides behind its spinner, the
\* session list keeps the previous messages until the answer.
Choose(s) ==
  /\ page \notin {"detail", "shared"} /\ ~waiting /\ s \in offered /\ Click
  /\ page = "dashboard" => s # chosen
  /\ chosen' = s
  /\ shown' = IF page = "debug" THEN NoSubject ELSE shown
  /\ waiting' = (page = "dashboard")
  /\ fetches' = fetches \union {Fetch("show", s)}
  /\ overtaken' = (overtaken \/ Showing # {} \/ Deleting(s))
  /\ UNCHANGED <<page, offered, stored, answer>>

\* load and loadSessions, by their buttons.
LoadList(list) ==
  /\ fetches' = list \union {[Fetch("list", NoSubject) EXCEPT !.seen = NoSubject]}
  /\ waiting' = (page # "debug")

Reload ==
  /\ page \in {"sessions", "debug"} /\ ~waiting /\ Click
  /\ LoadList(fetches)
  /\ UNCHANGED <<page, offered, stored, chosen, shown, answer, overtaken>>

\* handleDelete of the session list, after its question.
Discard ==
  /\ page = "sessions" /\ ~waiting /\ Click
  /\ \E s \in offered : fetches' = fetches \union {Fetch("delete", s)}
  /\ UNCHANGED <<page, offered, stored, waiting, chosen, shown, answer, overtaken>>

----------------------------------------------------------------------------
(***************************************************************************)
(* What the handlers make of the answers.  Of two requests, first is the   *)
(* one for the messages (the dashboard's statistics) and second the one    *)
(* for the whole session (the dashboard's sessions).                       *)
(***************************************************************************)
\* Mutant of Pane: the messages' own request only.
PaneOfFirst(a, first, second) ==
  IF "lost" \in {first, second} THEN shown
  ELSE IF first = "ok" THEN a.subject ELSE shown

\* Promise.all rejects as soon as one request is lost; of two answers, the
\* messages are taken where they are good, else from the whole session.
Pane(a, first, second) ==
  IF "lost" \in {first, second} THEN shown
  ELSE IF "ok" \in {first, second} THEN a.subject ELSE shown

\* Each request is caught by itself.
Whole(a, first, second) == IF "ok" \in {first, second} THEN a.subject ELSE NoSubject

Contents(a, first, second) ==
  CASE page \in {"sessions", "shared"} -> IF first = "ok" THEN a.subject ELSE NoSubject
    [] page = "debug" -> Pane(a, first, second)
    [] page = "detail" -> Whole(a, first, second)
    [] page = "dashboard" -> IF first = "ok" /\ second # "lost" THEN a.subject ELSE shown

Shown(a) ==
  /\ a.kind = "show"
  /\ \E first, second \in Outcomes :
       /\ first = "ok" => a.subject \in stored
       /\ shown' = Contents(a, first, second)
       /\ answer' = [subject |-> a.subject, first |-> first, second |-> second]
  /\ waiting' = (waiting /\ page = "sessions")
  /\ fetches' = fetches \ {a}
  /\ UNCHANGED <<offered, stored, chosen>>

Offered(a) ==
  /\ a.kind = "list"
  /\ \E ok \in BOOLEAN : offered' = IF ok THEN stored ELSE offered
  /\ waiting' = FALSE
  /\ fetches' = fetches \ {a}
  /\ UNCHANGED <<stored, chosen, shown, answer>>

\* The handler compares with what was selected at its click.
Discarded(a) ==
  /\ a.kind = "delete"
  /\ \/ /\ stored' = stored \ {a.subject}
        /\ LoadList(fetches \ {a})
        /\ IF a.seen = a.subject THEN chosen' = NoSubject /\ shown' = NoSubject
           ELSE UNCHANGED <<chosen, shown>>
     \/ /\ fetches' = fetches \ {a}
        /\ UNCHANGED <<stored, waiting, chosen, shown>>
  /\ UNCHANGED <<offered, answer>>

ViewNext ==
  \/ \E s \in Subjects : Choose(s)
  \/ Reload \/ Discard
  \/ /\ \E a \in fetches : Shown(a) \/ Offered(a) \/ Discarded(a)
     /\ UNCHANGED <<page, overtaken, clicks>>

ViewSpec == ViewInit /\ [][ViewNext]_viewVars

----------------------------------------------------------------------------
ViewTypeOK ==
  /\ page \in ViewPages
  /\ offered \subseteq Subjects /\ stored \subseteq Subjects
  /\ {waiting, overtaken} \subseteq BOOLEAN
  /\ {chosen, shown} \subseteq Subjects \union {NoSubject}
  /\ fetches \subseteq Fetches
  /\ answer \in [subject : Subjects \union {NoSubject}, first : Outcomes, second : Outcomes]
  /\ clicks \in 0..MaxClicks

Settled == Showing = {} /\ ~waiting /\ chosen # NoSubject

\* Once every request is answered, what a page shows belongs to what it says
\* is selected, unless a second subject was picked while the first was under
\* way.  The dashboard needs no such proviso: its spinner keeps the ranges
\* out of reach; but a range that failed to load leaves the former one's
\* figures standing under the new name.
BelongTogether ==
  Settled /\ ~overtaken /\ ~(page = "dashboard" /\ (answer.first # "ok" \/ answer.second = "lost"))
    => shown \in {chosen, NoSubject}

\* A session whose messages come from either of two endpoints is shown when
\* one of them fails ("If /full fails or returns empty messages, the
\* /messages call is still authoritative", app/debug/page.tsx; the detail
\* page speaks of the same tolerance).  On the debug page that is so for an
\* answer that is an error, not for a request that is lost.
EitherSuffices ==
  /\ Settled /\ ~overtaken /\ page \in {"debug", "detail"} /\ answer.subject = chosen
  /\ "ok" \in {answer.first, answer.second}
  /\ page = "debug" => "lost" \notin {answer.first, answer.second}
  => shown = chosen
=============================================================================
