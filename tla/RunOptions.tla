----------------------------- MODULE RunOptions -----------------------------
(***************************************************************************)
(* The options sent with a message - the model and the run limits chosen   *)
(* beside the message box (src/frontend/src/components/ChatInput.tsx, kept *)
(* by AgentWorkspace.tsx) - and what the hub makes of them                 *)
(* (runnerForOptions of src/internal/hub/hub.go): a run on the installed   *)
(* runner, or on one assembled for it alone, with a checkpoint store of    *)
(* its own.  Reloads of the configuration go on meanwhile; of them only    *)
(* the lists on offer and the runner's generation are left here, HotReload *)
(* has the rest.                                                           *)
(*                                                                         *)
(*   hub       the installed configuration: models and limit profiles on   *)
(*             offer, and the installed runner's generation                *)
(*   picks     the page's model and profile                                *)
(*   saved     the profile in the browser's local storage                  *)
(*   box       what the box's two menus list                               *)
(*   lists     requests for those lists; their answers once served         *)
(*   noTalk    the page shows no messages                                  *)
(*   run       the turn: its phase, the options it was sent with, and the  *)
(*             model, limits and checkpoint store it runs with; history:   *)
(*             steady, what every configuration since its message offered, *)
(*             and broken: no runner could be assembled for it             *)
(*   reloads   page reloads and language changes, capped by MaxReloads     *)
(***************************************************************************)
EXTENDS Naturals, FiniteSets

CONSTANTS Models,       \* labels besides the system's own
          Default,      \* the system's own model, "Knsight"
          MaxGen,       \* a bound on rebuilds
          MaxReloads    \* a bound on page reloads and language changes

ASSUME OptionsAssumption == {MaxGen, MaxReloads} \subseteq Nat /\ Default \notin Models

VARIABLES hub, picks, saved, box, lists, noTalk, run, reloads

pageState == <<picks, saved, box, lists, noTalk>>
optionVars == <<hub, pageState, run, reloads>>

Standard == "standard"
Profiles == {Standard, "extended"}
Offers == [models : SUBSET Models, profiles : SUBSET Profiles]

\* The list that the box makes up when the profiles cannot be read.
MadeUp == Profiles

\* A checkpoint store: a runner generation's, or the run's own.
Own == MaxGen + 1

Picks == [model : Models \union {Default}, profile : Profiles]
Plain == [model |-> Default, profile |-> Standard]

Phases == {"none", "sent", "read", "running", "waiting"}
Runs == [phase : Phases, shown : Picks, profiles : SUBSET Profiles, gen : 0..MaxGen, with : Picks,
         store : 0..Own, again : BOOLEAN, broken : BOOLEAN, steady : Offers]
NoRun == [phase |-> "none", shown |-> Plain, profiles |-> {}, gen |-> 0, with |-> Plain,
          store |-> 0, again |-> FALSE, broken |-> FALSE,
          steady |-> [models |-> Models, profiles |-> Profiles]]

NoList == {"unserved"}
ListAsked(k) == [kind |-> k, got |-> NoList]
Lists == [kind : {"models"}, got : {NoList} \union SUBSET (Models \union {Default})]
         \union [kind : {"profiles"}, got : {NoList} \union SUBSET Profiles]

----------------------------------------------------------------------------
\* The box is mounted: the menus are as in useState, both lists are asked for.
MountMenus ==
  /\ box' = [models |-> {Default}, profiles |-> {}]
  /\ lists' = {ListAsked("models"), ListAsked("profiles")}

OptionsInit ==
  /\ hub = [models |-> Models, profiles |-> Profiles, gen |-> 0]
  /\ saved \in Profiles
  /\ picks = [model |-> Default, profile |-> saved]
  /\ box = [models |-> {Default}, profiles |-> {}]
  /\ lists = {ListAsked("models"), ListAsked("profiles")}
  /\ noTalk = TRUE
  /\ run = NoRun
  /\ reloads = 0

Processing == run.phase \in {"sent", "read", "running"}

\* The welcome page's box and the conversation's are two: whenever one gives
\* way to the other the menus start anew; the page's picks stay.
OptionsWelcome == noTalk /\ ~Processing

RedrawBox ==
  IF OptionsWelcome' # OptionsWelcome THEN MountMenus ELSE UNCHANGED <<box, lists>>

----------------------------------------------------------------------------
(***************************************************************************)
(* The box and the page.                                                   *)
(***************************************************************************)
\* AvailableModels and AvailableRunLimitProfiles of the installed configuration.
ServeList ==
  /\ \E a \in lists :
       /\ a.got = NoList
       /\ lists' = (lists \ {a}) \union
            {[a EXCEPT !.got = IF a.kind = "models" THEN hub.models \union {Default} ELSE hub.profiles]}
  /\ UNCHANGED <<hub, picks, saved, box, noTalk, run, reloads>>

\* An answer, whichever comes last; a list that cannot be read is made up.
ShowList ==
  /\ \E a \in lists, ok \in BOOLEAN :
       /\ ok => a.got # NoList
       /\ lists' = lists \ {a}
       /\ IF a.kind = "models"
          THEN box' = [box EXCEPT !.models = IF ok THEN a.got ELSE {Default}]
          ELSE box' = [box EXCEPT !.profiles = IF ok THEN a.got ELSE MadeUp]
  /\ UNCHANGED <<hub, picks, saved, noTalk, run, reloads>>

\* The menus are open to the user during a run too.
PickModel ==
  /\ \E m \in box.models : picks' = [picks EXCEPT !.model = m]
  /\ UNCHANGED <<hub, saved, box, lists, noTalk, run, reloads>>

PickProfile ==
  /\ \E p \in box.profiles :
       /\ picks' = [picks EXCEPT !.profile = p]
       /\ saved' = p
  /\ UNCHANGED <<hub, box, lists, noTalk, run, reloads>>

\* Another language: the profiles are asked for again.  Two requests for one
\* list that are both unserved count once.
SetLanguage ==
  /\ reloads < MaxReloads /\ reloads' = reloads + 1
  /\ lists' = lists \union {ListAsked("profiles")}
  /\ UNCHANGED <<hub, picks, saved, box, noTalk, run>>

\* The page starts afresh; what it was waiting for is over for it.
ReloadPage ==
  /\ reloads < MaxReloads /\ reloads' = reloads + 1
  /\ picks' = [model |-> Default, profile |-> saved]
  /\ MountMenus
  /\ noTalk' = TRUE
  /\ run' = NoRun
  /\ UNCHANGED <<hub, saved>>

\* Mutant of Body: the limits are left out when a model is named.
BodyOfModel(p) == IF p.model = Default THEN p ELSE [p EXCEPT !.profile = Standard]

\* What sendMessage puts into the request.
Body(p) == p

\* handleSendMessage.  The box is disabled while a turn runs and, but for the
\* welcome page's, while one waits: that one's approval ChatPage has, here the
\* new turn takes its place.
SendOptions ==
  /\ run.phase = "none" \/ (run.phase = "waiting" /\ noTalk)
  /\ run' = [NoRun EXCEPT !.phase = "sent", !.shown = picks, !.with = Body(picks),
                            !.steady = [models |-> hub.models, profiles |-> hub.profiles]]
  /\ noTalk' = FALSE
  /\ RedrawBox
  /\ UNCHANGED <<hub, picks, saved, reloads>>

\* handleClear; the turn goes on.
ClearPage ==
  /\ ~noTalk
  /\ noTalk' = TRUE
  /\ UNCHANGED run
  /\ RedrawBox
  /\ UNCHANGED <<hub, picks, saved, reloads>>

\* The turn is over, or the user rejects what it waits for.
TurnOver ==
  /\ run.phase \in {"running", "waiting"}
  /\ run' = NoRun
  /\ UNCHANGED <<hub, picks, saved, noTalk, reloads>>
  /\ RedrawBox

----------------------------------------------------------------------------
(***************************************************************************)
(* The hub.                                                                *)
(***************************************************************************)
\* rebuildRunner installs a runner with its store and its configuration.
Rebuild ==
  /\ hub.gen < MaxGen
  /\ \E o \in Offers :
       /\ hub' = [models |-> o.models, profiles |-> o.profiles, gen |-> hub.gen + 1]
       /\ run' = IF run.phase = "none" THEN run
                 ELSE [run EXCEPT !.steady = [models |-> @.models \intersect o.models,
                                              profiles |-> @.profiles \intersect o.profiles]]
  /\ UNCHANGED <<pageState, reloads>>

\* runnerForOptions: the installed runner and the configuration are copied...
ReadOptions ==
  /\ run.phase = "sent"
  /\ run' = [run EXCEPT !.phase = "read", !.profiles = hub.profiles, !.gen = hub.gen]
  /\ UNCHANGED <<hub, pageState, reloads>>

\* The run starts with the options o and its checkpoints in the store s.
Starts(o, s, b) ==
  run' = [run EXCEPT !.phase = "running", !.with = o, !.store = s, !.broken = @ \/ b]

Known(p) == p = Standard \/ p \in run.profiles

\* ... the model is looked up in the configuration there is by then.
Resolved == IF run.with.model \in hub.models THEN run.with.model ELSE Default

\* Neither option asks for anything but the installed runner of the copy.
OnInstalled ==
  /\ Known(run.with.profile)
  /\ Resolved = Default /\ run.with.profile = Standard
  /\ Starts(Plain, run.gen, FALSE)

\* buildEphemeralRunner.
OnOwnRunner ==
  /\ Known(run.with.profile)
  /\ Resolved # Default \/ run.with.profile # Standard
  /\ Starts([model |-> Resolved, profile |-> run.with.profile], Own, FALSE)

\* RunIterWithSessionOptions takes the installed runner of this moment when
\* the profile is unknown or no runner can be assembled.
FallsBack ==
  /\ \/ ~Known(run.with.profile)
     \/ Resolved # Default \/ run.with.profile # Standard
  /\ Starts(Plain, hub.gen, Known(run.with.profile))

StartTurn ==
  /\ run.phase = "read"
  /\ OnInstalled \/ OnOwnRunner \/ FallsBack
  /\ UNCHANGED <<hub, pageState, reloads>>

\* chatHandler tries an empty run a second time, with the request's options.
RunAgain ==
  /\ run.phase = "running" /\ ~run.again
  /\ run' = [run EXCEPT !.phase = "sent", !.with = Body(run.shown), !.again = TRUE]
  /\ UNCHANGED <<hub, pageState, reloads>>

\* A tool asks for approval; its checkpoint is in the run's store.
AskApproval ==
  /\ run.phase = "running"
  /\ run' = [run EXCEPT !.phase = "waiting"]
  /\ UNCHANGED <<hub, picks, saved, noTalk, reloads>>
  /\ RedrawBox

\* handleApproveAll and ResumeIterWithSession: the installed runner looks for
\* the checkpoint in its own store; where there is none the resume fails and
\* the page forgets the approval.
GiveApproval ==
  /\ run.phase = "waiting"
  /\ run' = IF run.store = hub.gen THEN [run EXCEPT !.phase = "running", !.again = TRUE] ELSE NoRun
  /\ UNCHANGED <<hub, picks, saved, noTalk, reloads>>
  /\ RedrawBox

OptionsNext ==
  \/ ServeList \/ ShowList \/ PickModel \/ PickProfile \/ SetLanguage \/ ReloadPage
  \/ SendOptions \/ ClearPage \/ TurnOver
  \/ Rebuild \/ ReadOptions \/ StartTurn \/ RunAgain \/ AskApproval \/ GiveApproval

OptionsSpec == OptionsInit /\ [][OptionsNext]_optionVars

----------------------------------------------------------------------------
OptionsTypeOK ==
  /\ hub \in [models : SUBSET Models, profiles : SUBSET Profiles, gen : 0..MaxGen]
  /\ picks \in Picks
  /\ saved \in Profiles
  /\ box \in [models : SUBSET (Models \union {Default}), profiles : SUBSET Profiles]
  /\ lists \subseteq Lists
  /\ run \in Runs
  /\ noTalk \in BOOLEAN
  /\ reloads \in 0..MaxReloads

\* A run has the model and the limits that stood beside the box when its
\* message was sent, whatever list they were picked from, and whichever
\* configurations came in while it was started, if all of them offered both;
\* and it never has the chosen limits without the chosen model or the model
\* without the limits, if all of them offered the model: it then falls back
\* to the system's model and limits together (sendMessage, runnerForOptions,
\* RunIterWithSessionOptions).
RunsAsChosen ==
  run.phase \in {"running", "waiting"} /\ run.shown.model \in run.steady.models \union {Default} =>
    /\ run.with \in {run.shown, Plain}
    /\ run.shown.profile \in run.steady.profiles \union {Standard} /\ ~run.broken => run.with = run.shown

\* "If an interrupt is triggered, interrupts are returned; the client calls
\* /v1/workflow/resume with the target_id" (docs/agent-hub-design.md:225): a
\* run that waits for an approval can be resumed.
ApprovalsCanBeGiven ==
  run.phase = "waiting" => run.store = hub.gen
=============================================================================
