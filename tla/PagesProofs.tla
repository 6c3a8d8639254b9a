----------------------------- MODULE PagesProofs -----------------------------
(***************************************************************************)
(* What the pages promise, for any services, files, sessions and bounds:   *)
(* the properties of RunOptions by itself, and those of Composer,          *)
(* FileEditor, Viewer and ConfigTabs, each from an inductive invariant of  *)
(* its page, and then of the browser tab, which shows one page at a time.  *)
(***************************************************************************)
EXTENDS Pages, TLAPS

-----------------------------------------------------------------------------
(* The options of a run: the types, and that a run has what was chosen for *)
(* it, for every set of models and every number of rebuilds and reloads.    *)

\* What holds of the turn while runnerForOptions is at it: the options are the
\* request's, the copied configuration lost nothing that has been on offer all
\* the time, and nor has the installed one.
Prepared ==
  /\ run.phase \in {"sent", "read"} => run.with = run.shown
  /\ run.phase = "read" => run.steady.profiles \subseteq run.profiles

Steady ==
  run.phase # "none" =>
    run.steady.models \subseteq hub.models /\ run.steady.profiles \subseteq hub.profiles

OptionsInv == OptionsTypeOK /\ Prepared /\ Steady /\ RunsAsChosen

----------------------------------------------------------------------------
LEMMA ConstantsAreTyped ==
  /\ Standard \in Profiles /\ Plain \in Picks /\ NoRun \in Runs /\ MadeUp \subseteq Profiles
  /\ \A k \in {"models", "profiles"} : ListAsked(k) \in Lists
  /\ MaxGen \in Nat /\ MaxReloads \in Nat /\ Own \in 0..Own /\ \A g \in 0..MaxGen : g \in 0..Own
<1>1. MaxGen \in Nat /\ MaxReloads \in Nat
  BY OptionsAssumption
<1>2. Standard \in Profiles /\ Plain \in Picks /\ MadeUp \subseteq Profiles
  BY DEF Standard, Profiles, Plain, Picks, MadeUp
<1>3. Own \in 0..Own /\ \A g \in 0..MaxGen : g \in 0..Own
  BY <1>1 DEF Own
<1>4. \A k \in {"models", "profiles"} : ListAsked(k) \in Lists
  BY DEF ListAsked, Lists
<1>5. [models |-> Models, profiles |-> Profiles] \in Offers
  BY DEF Offers
<1>6. 0 \in 0..MaxGen /\ 0 \in 0..Own
  BY <1>1 DEF Own
<1>7. NoRun \in Runs
  BY <1>2, <1>5, <1>6 DEF NoRun, Runs, Phases
<1> QED BY <1>1, <1>2, <1>3, <1>4, <1>7

\* A menu that is drawn anew keeps the types of the menus and their requests.
LEMMA MenusAreTyped ==
  ASSUME OptionsTypeOK, MountMenus \/ UNCHANGED <<box, lists>>
  PROVE  /\ box' \in [models : SUBSET (Models \union {Default}), profiles : SUBSET Profiles]
         /\ lists' \subseteq Lists
BY ConstantsAreTyped DEF OptionsTypeOK, MountMenus

LEMMA RedrawIsTyped ==
  ASSUME OptionsTypeOK, RedrawBox
  PROVE  /\ box' \in [models : SUBSET (Models \union {Default}), profiles : SUBSET Profiles]
         /\ lists' \subseteq Lists
BY MenusAreTyped DEF RedrawBox

----------------------------------------------------------------------------
(***************************************************************************)
(* Types.                                                                  *)
(***************************************************************************)
LEMMA TypeInit == OptionsInit => OptionsTypeOK
BY ConstantsAreTyped DEF OptionsInit, OptionsTypeOK, Picks, Profiles

LEMMA TypePage ==
  ASSUME OptionsTypeOK,
         ServeList \/ ShowList \/ PickModel \/ PickProfile \/ SetLanguage \/ ReloadPage
  PROVE  OptionsTypeOK'
<1> USE DEF OptionsTypeOK
<1>1. CASE ServeList
  <2>1. PICK a \in lists :
          lists' = (lists \ {a}) \union
            {[a EXCEPT !.got = IF a.kind = "models" THEN hub.models \union {Default} ELSE hub.profiles]}
    BY <1>1 DEF ServeList
  <2>2. [a EXCEPT !.got = IF a.kind = "models" THEN hub.models \union {Default} ELSE hub.profiles] \in Lists
    BY <2>1 DEF Lists
  <2> QED BY <1>1, <2>1, <2>2 DEF ServeList
<1>2. CASE ShowList
  <2>1. PICK a \in lists, ok \in BOOLEAN :
          /\ ok => a.got # NoList
          /\ lists' = lists \ {a}
          /\ IF a.kind = "models"
             THEN box' = [box EXCEPT !.models = IF ok THEN a.got ELSE {Default}]
             ELSE box' = [box EXCEPT !.profiles = IF ok THEN a.got ELSE MadeUp]
    BY <1>2 DEF ShowList
  <2>2. a.kind = "models" /\ ok => a.got \subseteq Models \union {Default}
    BY <2>1 DEF Lists
  <2>3. a.kind # "models" /\ ok => a.got \subseteq Profiles
    BY <2>1 DEF Lists
  <2>4. box' \in [models : SUBSET (Models \union {Default}), profiles : SUBSET Profiles]
    BY <2>1, <2>2, <2>3, ConstantsAreTyped
  <2> QED BY <1>2, <2>1, <2>4 DEF ShowList
<1>3. CASE PickModel
  BY <1>3 DEF PickModel, Picks
<1>4. CASE PickProfile
  BY <1>4 DEF PickProfile, Picks
<1>5. CASE SetLanguage
  BY <1>5, ConstantsAreTyped DEF SetLanguage
<1>6. CASE ReloadPage
  <2>1. reloads' \in 0..MaxReloads
    BY <1>6, ConstantsAreTyped DEF ReloadPage
  <2>2. picks' \in Picks
    BY <1>6 DEF ReloadPage, Picks
  <2> QED BY <1>6, <2>1, <2>2, ConstantsAreTyped, MenusAreTyped DEF ReloadPage
<1> QED BY <1>1, <1>2, <1>3, <1>4, <1>5, <1>6

LEMMA TypeTurn ==
  ASSUME OptionsTypeOK,
         SendOptions \/ ClearPage \/ TurnOver \/ AskApproval \/ GiveApproval
  PROVE  OptionsTypeOK'
<1> USE DEF OptionsTypeOK
<1>1. CASE SendOptions
  <2>1. [models |-> hub.models, profiles |-> hub.profiles] \in Offers
    BY DEF Offers
  <2>2. run' \in Runs
    BY <1>1, <2>1, ConstantsAreTyped DEF SendOptions, Body, Runs, Phases
  <2> QED BY <1>1, <2>2, RedrawIsTyped DEF SendOptions
<1>2. CASE ClearPage
  BY <1>2, RedrawIsTyped DEF ClearPage
<1>3. CASE TurnOver
  BY <1>3, RedrawIsTyped, ConstantsAreTyped DEF TurnOver
<1>4. CASE AskApproval
  <2>1. run' \in Runs
    BY <1>4 DEF AskApproval, Runs, Phases
  <2> QED BY <1>4, <2>1, RedrawIsTyped DEF AskApproval
<1>5. CASE GiveApproval
  <2>1. run' \in Runs
    BY <1>5, ConstantsAreTyped DEF GiveApproval, Runs, Phases
  <2> QED BY <1>5, <2>1, RedrawIsTyped DEF GiveApproval
<1> QED BY <1>1, <1>2, <1>3, <1>4, <1>5

LEMMA TypeHub ==
  ASSUME OptionsTypeOK,
         Rebuild \/ ReadOptions \/ StartTurn \/ RunAgain
  PROVE  OptionsTypeOK'
<1> USE DEF OptionsTypeOK
<1>1. CASE Rebuild
  <2>1. PICK o \in Offers :
          /\ hub' = [models |-> o.models, profiles |-> o.profiles, gen |-> hub.gen + 1]
          /\ run' = IF run.phase = "none" THEN run
                    ELSE [run EXCEPT !.steady = [models |-> @.models \intersect o.models,
                                                 profiles |-> @.profiles \intersect o.profiles]]
    BY <1>1 DEF Rebuild
  <2>2. hub.gen + 1 \in 0..MaxGen
    BY <1>1, ConstantsAreTyped DEF Rebuild
  <2>3. hub' \in [models : SUBSET Models, profiles : SUBSET Profiles, gen : 0..MaxGen]
    BY <2>1, <2>2 DEF Offers
  <2>4. [models |-> run.steady.models \intersect o.models,
         profiles |-> run.steady.profiles \intersect o.profiles] \in Offers
    BY <2>1 DEF Runs, Offers
  <2>5. run' \in Runs
    BY <2>1, <2>4 DEF Runs
  <2> QED BY <1>1, <2>3, <2>5 DEF Rebuild, pageState
<1>2. CASE ReadOptions
  <2>1. run' \in Runs
    BY <1>2 DEF ReadOptions, Runs, Phases
  <2> QED BY <1>2, <2>1 DEF ReadOptions, pageState
<1>3. CASE StartTurn
  <2>1. ASSUME NEW o \in Picks, NEW s \in 0..Own, NEW b \in BOOLEAN, Starts(o, s, b)
        PROVE  run' \in Runs
    BY <2>1 DEF Starts, Runs, Phases
  <2>2. Resolved \in Models \union {Default}
    BY DEF Resolved, Runs
  <2>3. [model |-> Resolved, profile |-> run.with.profile] \in Picks
    BY <2>2 DEF Runs, Picks
  <2>4. run.gen \in 0..Own /\ hub.gen \in 0..Own
    BY ConstantsAreTyped DEF Runs
  <2>5. ASSUME OnInstalled PROVE run' \in Runs
    BY <2>1, <2>4, <2>5, ConstantsAreTyped DEF OnInstalled
  <2>6. ASSUME OnOwnRunner PROVE run' \in Runs
    BY <2>1, <2>3, <2>6, ConstantsAreTyped DEF OnOwnRunner
  <2>7. ASSUME FallsBack PROVE run' \in Runs
    <3>1. Known(run.with.profile) \in BOOLEAN
      BY DEF Known
    <3> QED BY <2>1, <2>4, <2>7, <3>1, ConstantsAreTyped DEF FallsBack
  <2>8. run' \in Runs
    BY <1>3, <2>5, <2>6, <2>7 DEF StartTurn
  <2> QED BY <1>3, <2>8 DEF StartTurn, pageState
<1>4. CASE RunAgain
  <2>1. run' \in Runs
    BY <1>4 DEF RunAgain, Body, Runs, Phases
  <2> QED BY <1>4, <2>1 DEF RunAgain, pageState
<1> QED BY <1>1, <1>2, <1>3, <1>4

LEMMA TypeNext ==
  ASSUME OptionsTypeOK, [OptionsNext]_optionVars
  PROVE  OptionsTypeOK'
<1>1. CASE UNCHANGED optionVars
  BY <1>1 DEF optionVars, pageState, OptionsTypeOK
<1> QED BY <1>1, TypePage, TypeTurn, TypeHub DEF OptionsNext

----------------------------------------------------------------------------
(***************************************************************************)
(* A run has what was chosen.                                              *)
(***************************************************************************)
\* Steps that leave the turn and the hub alone, or forget the turn.
LEMMA RestKeeps ==
  ASSUME Prepared, Steady, RunsAsChosen, hub' = hub, run' = run \/ run' = NoRun
  PROVE  Prepared' /\ Steady' /\ RunsAsChosen'
<1>1. CASE run' = run
  BY <1>1 DEF Prepared, Steady, RunsAsChosen
<1>2. CASE run' = NoRun
  BY <1>2 DEF Prepared, Steady, RunsAsChosen, NoRun
<1> QED BY <1>1, <1>2

\* Sending starts with the installed configuration as the steady one.
LEMMA SendKeeps ==
  ASSUME OptionsInv, SendOptions
  PROVE  Prepared' /\ Steady' /\ RunsAsChosen'
<1>1. run' = [NoRun EXCEPT !.phase = "sent", !.shown = picks, !.with = picks,
                !.steady = [models |-> hub.models, profiles |-> hub.profiles]]
  BY DEF SendOptions, Body
<1>2. hub' = hub
  BY DEF SendOptions
<1>3. /\ run'.phase = "sent" /\ run'.with = run'.shown
      /\ run'.steady = [models |-> hub.models, profiles |-> hub.profiles]
  BY <1>1, ConstantsAreTyped DEF NoRun, Runs
<1> QED BY <1>2, <1>3 DEF Prepared, Steady, RunsAsChosen

\* A rebuild narrows what has been on offer all the time, and nothing else of
\* the turn: the run's promise only gets weaker.
LEMMA RebuildKeeps ==
  ASSUME OptionsInv, Rebuild
  PROVE  Prepared' /\ Steady' /\ RunsAsChosen'
<1>1. PICK o \in Offers :
        /\ hub' = [models |-> o.models, profiles |-> o.profiles, gen |-> hub.gen + 1]
        /\ run' = IF run.phase = "none" THEN run
                  ELSE [run EXCEPT !.steady = [models |-> @.models \intersect o.models,
                                               profiles |-> @.profiles \intersect o.profiles]]
  BY DEF Rebuild
<1>2. CASE run.phase = "none"
  BY <1>1, <1>2 DEF Prepared, Steady, RunsAsChosen
<1>3. CASE run.phase # "none"
  <2>1. /\ run'.phase = run.phase /\ run'.with = run.with /\ run'.shown = run.shown
        /\ run'.profiles = run.profiles /\ run'.broken = run.broken
        /\ run'.steady.models = run.steady.models \intersect o.models
        /\ run'.steady.profiles = run.steady.profiles \intersect o.profiles
    BY <1>1, <1>3 DEF OptionsInv, OptionsTypeOK, Runs
  <2>2. hub'.models = o.models /\ hub'.profiles = o.profiles
    BY <1>1
  <2> QED BY <2>1, <2>2, <1>3 DEF OptionsInv, Prepared, Steady, RunsAsChosen
<1> QED BY <1>2, <1>3

\* The copy of the configuration holds what has been on offer all the time.
LEMMA ReadKeeps ==
  ASSUME OptionsInv, ReadOptions
  PROVE  Prepared' /\ Steady' /\ RunsAsChosen'
<1>1. /\ run.phase = "sent" /\ hub' = hub
      /\ run'.phase = "read" /\ run'.profiles = hub.profiles
      /\ run'.with = run.with /\ run'.shown = run.shown /\ run'.steady = run.steady
  BY DEF ReadOptions, OptionsInv, OptionsTypeOK, Runs
<1> QED BY <1>1 DEF OptionsInv, Prepared, Steady, RunsAsChosen

\* The run starts.  A model that was on offer all the time is resolved to
\* itself, a profile that was on offer all the time is in the copy.
LEMMA StartKeeps ==
  ASSUME OptionsInv, StartTurn
  PROVE  Prepared' /\ Steady' /\ RunsAsChosen'
<1>1. /\ run.phase = "read" /\ hub' = hub /\ run.with = run.shown
      /\ run.steady.models \subseteq hub.models /\ run.steady.profiles \subseteq run.profiles
      /\ run.steady.profiles \subseteq hub.profiles
  BY DEF StartTurn, pageState, OptionsInv, Prepared, Steady
<1>2. ASSUME NEW o, NEW s, NEW b, Starts(o, s, b)
      PROVE  /\ run'.phase = "running" /\ run'.with = o /\ (run'.broken <=> run.broken \/ b)
             /\ run'.shown = run.shown /\ run'.steady = run.steady
  BY <1>2 DEF Starts, OptionsInv, OptionsTypeOK, Runs
<1>3. /\ run'.phase = "running" /\ run'.shown = run.shown /\ run'.steady = run.steady
  BY <1>2 DEF StartTurn, OnInstalled, OnOwnRunner, FallsBack
<1>4. Prepared' /\ Steady'
  BY <1>1, <1>3 DEF Prepared, Steady
<1>5. ASSUME run.shown.model \in run.steady.models \union {Default}
      PROVE  /\ run'.with \in {run.shown, Plain}
             /\ run.shown.profile \in run.steady.profiles \union {Standard} /\ ~run'.broken
                   => run'.with = run.shown
  <2>1. Resolved = run.shown.model
    BY <1>1, <1>5 DEF Resolved
  <2>2. run.shown = [model |-> run.shown.model, profile |-> run.shown.profile]
    BY DEF OptionsInv, OptionsTypeOK, Runs, Picks
  <2>3. CASE OnInstalled
    <3>1. run'.with = Plain
      BY <1>2, <2>3 DEF OnInstalled
    <3>2. run.shown.model = Default /\ run.shown.profile = Standard
      BY <1>1, <2>1, <2>3 DEF OnInstalled
    <3> QED BY <2>2, <3>1, <3>2 DEF Plain
  <2>4. CASE OnOwnRunner
    <3>1. run'.with = [model |-> Resolved, profile |-> run.with.profile]
      BY <1>2, <2>4 DEF OnOwnRunner
    <3> QED BY <1>1, <2>1, <2>2, <3>1
  <2>5. CASE FallsBack
    <3>1. run'.with = Plain /\ (Known(run.with.profile) => run'.broken)
      BY <1>2, <2>5 DEF FallsBack
    <3>2. ~Known(run.with.profile) => run.shown.profile \notin run.steady.profiles \union {Standard}
      BY <1>1 DEF Known
    <3> QED BY <3>1, <3>2
  <2> QED BY <2>3, <2>4, <2>5 DEF StartTurn
<1>6. RunsAsChosen'
  BY <1>3, <1>5 DEF RunsAsChosen
<1> QED BY <1>4, <1>6

\* A second attempt sends the request's options once more.
LEMMA AgainKeeps ==
  ASSUME OptionsInv, RunAgain
  PROVE  Prepared' /\ Steady' /\ RunsAsChosen'
<1>1. /\ run.phase = "running" /\ hub' = hub
      /\ run'.phase = "sent" /\ run'.with = run'.shown /\ run'.steady = run.steady
  BY DEF RunAgain, Body, OptionsInv, OptionsTypeOK, Runs
<1> QED BY <1>1 DEF OptionsInv, Prepared, Steady, RunsAsChosen

\* While a run waits for an approval, and after it, it is the same run.
LEMMA ApprovalKeeps ==
  ASSUME OptionsInv, AskApproval \/ GiveApproval
  PROVE  Prepared' /\ Steady' /\ RunsAsChosen'
<1>1. hub' = hub
  BY DEF AskApproval, GiveApproval
<1>2. CASE run' = NoRun
  BY <1>1, <1>2, RestKeeps DEF OptionsInv
<1>3. CASE run' # NoRun
  <2>1. /\ run.phase \in {"running", "waiting"} /\ run'.phase \in {"running", "waiting"}
        /\ run'.with = run.with /\ run'.shown = run.shown
        /\ run'.steady = run.steady /\ run'.broken = run.broken
    BY <1>3 DEF AskApproval, GiveApproval, OptionsInv, OptionsTypeOK, Runs
  <2> QED BY <1>1, <2>1 DEF OptionsInv, Prepared, Steady, RunsAsChosen
<1> QED BY <1>2, <1>3

LEMMA InvInit == OptionsInit => OptionsInv
<1> SUFFICES ASSUME OptionsInit PROVE OptionsInv
  OBVIOUS
<1>1. run = NoRun
  BY DEF OptionsInit
<1> QED BY <1>1, TypeInit DEF OptionsInv, Prepared, Steady, RunsAsChosen, NoRun

LEMMA InvNext ==
  ASSUME OptionsInv, [OptionsNext]_optionVars
  PROVE  OptionsInv'
<1>1. OptionsTypeOK'
  BY TypeNext DEF OptionsInv
<1>2. CASE \/ UNCHANGED optionVars \/ ServeList \/ ShowList \/ PickModel \/ PickProfile
           \/ SetLanguage \/ ReloadPage \/ ClearPage \/ TurnOver
  <2>1. hub' = hub /\ (run' = run \/ run' = NoRun)
    BY <1>2 DEF optionVars, ServeList, ShowList, PickModel, PickProfile, SetLanguage,
                ReloadPage, ClearPage, TurnOver
  <2> QED BY <1>1, <2>1, RestKeeps DEF OptionsInv
<1>3. CASE SendOptions
  BY <1>1, <1>3, SendKeeps DEF OptionsInv
<1>4. CASE Rebuild
  BY <1>1, <1>4, RebuildKeeps DEF OptionsInv
<1>5. CASE ReadOptions
  BY <1>1, <1>5, ReadKeeps DEF OptionsInv
<1>6. CASE StartTurn
  BY <1>1, <1>6, StartKeeps DEF OptionsInv
<1>7. CASE RunAgain
  BY <1>1, <1>7, AgainKeeps DEF OptionsInv
<1>8. CASE AskApproval \/ GiveApproval
  BY <1>1, <1>8, ApprovalKeeps DEF OptionsInv
<1> QED BY <1>2, <1>3, <1>4, <1>5, <1>6, <1>7, <1>8 DEF OptionsNext

----------------------------------------------------------------------------
\* The variables of a run's options keep their types (ChatInput, AgentWorkspace,
\* runnerForOptions).
THEOREM OptionsTyped == OptionsSpec => []OptionsTypeOK
<1>1. OptionsTypeOK /\ [OptionsNext]_optionVars => OptionsTypeOK'
  BY TypeNext
<1> QED BY <1>1, TypeInit, PTL DEF OptionsSpec

\* A run has the model and the limits chosen for it, or neither, whatever is
\* rebuilt while its runner is chosen (runnerForOptions, RunIterWithSessionOptions).
THEOREM ChosenIsRun == OptionsSpec => []RunsAsChosen
<1>1. OptionsInv /\ [OptionsNext]_optionVars => OptionsInv'
  BY InvNext
<1>2. OptionsInv => RunsAsChosen
  BY DEF OptionsInv
<1> QED BY <1>1, <1>2, InvInit, PTL DEF OptionsSpec

-----------------------------------------------------------------------------
(* The message box.                                                        *)

OneDimension(f) ==
  /\ f.mode \in {"service", "machine"}
  /\ (IF f.mode = "service" THEN f.machine ELSE f.service) = Unset

SentRight ==
  /\ IsCommand(sent.typed.word) /\ (sent.typed.lines > 0 \/ HasContent(sent.filter))
       => sent.workflow = sent.typed.word
  /\ {sent.prompt.service, sent.prompt.machine} \ {Unset} = Tags(sent.filter)

\* The box's filter is the page's, a record of one dimension's field.
BoxInv ==
  /\ filter \in Filters /\ local = filter /\ OneDimension(filter)
  /\ message.lines \in Nat
  /\ SentRight

LEMMA CommandFacts ==
  /\ \A w : IsCommand(w) <=> w \in {"/report", "/inspect", "/vision"}
  /\ \A i \in 1..Len(Commands) : Commands[i] \in {"/report", "/inspect", "/vision"}
BY DEF IsCommand, Commands

\* What is assembled of a text and a filter is understood as it was shown.
LEMMA AssembledRight ==
  ASSUME NEW m, NEW f, OneDimension(f), m.lines \in Nat,
         Sends(Assemble(m, f), m, f)
  PROVE  SentRight'
<1> DEFINE t == Assemble(m, f)
<1>1. /\ sent'.workflow = Workflow(t) /\ sent'.prompt = t.prompt
      /\ sent'.typed = m /\ sent'.filter = f
  BY DEF Sends
<1>2. CASE ~HasContent(f)
  <2>1. t = [word |-> m.word, prompt |-> NoPrompt, lines |-> m.lines]
    BY <1>2 DEF Assemble
  <2>2. Tags(f) = {}
    BY <1>2 DEF Tags, HasContent, OneDimension
  <2>3. NoPrompt.service = Unset /\ NoPrompt.machine = Unset
    BY DEF NoPrompt, Prompt, NoFilter
  <2>4. IsCommand(m.word) /\ m.lines > 0 => Workflow(t) = m.word
    BY <2>1 DEF Workflow
  <2> HIDE DEF t
  <2> QED
    BY <1>1, <1>2, <2>1, <2>2, <2>3, <2>4 DEF SentRight
<1>3. CASE HasContent(f)
  <2>1. t.prompt = Prompt(f)
    BY <1>3 DEF Assemble
  <2>2. Prompt(f) # NoPrompt
    BY <1>3 DEF Prompt, NoPrompt, NoFilter, HasContent, OneDimension, Unset
  <2>3. {Prompt(f).service, Prompt(f).machine} \ {Unset} = Tags(f)
    BY DEF Prompt, Tags, OneDimension
  <2>4. IsCommand(m.word) => t.word = m.word
    BY <1>3, CommandFacts DEF Assemble, Behind
  <2>5. IsCommand(m.word) => Workflow(t) = m.word
    BY <2>1, <2>2, <2>4 DEF Workflow
  <2> HIDE DEF t
  <2> QED
    BY <1>1, <2>1, <2>3, <2>5 DEF SentRight
<1> QED
  BY <1>2, <1>3

\* No message, no text and no filter.
LEMMA NothingFacts ==
  /\ NoFilter \in Filters /\ OneDimension(NoFilter)
  /\ NoText.lines \in Nat /\ ~IsCommand(NoText.word)
  /\ Tags(NoFilter) = {}
  /\ NoPrompt.service = Unset /\ NoPrompt.machine = Unset
  /\ Nothing.typed = NoText /\ Nothing.filter = NoFilter /\ Nothing.prompt = NoPrompt
<1>1. NoFilter \in Filters /\ OneDimension(NoFilter)
  BY DEF NoFilter, Filters, OneDimension
<1>2. NoText.lines \in Nat /\ NoText.word = ""
  BY DEF NoText
<1>3. ~IsCommand("")
  <2>1. "" \notin {"/report", "/inspect", "/vision"}
    OBVIOUS
  <2> QED
    BY <2>1, CommandFacts, Zenon
<1>4. NoFilter.service = Unset /\ NoFilter.mode = "service"
  BY DEF NoFilter
<1>5. Tags(NoFilter) = {}
  <2> SUFFICES ASSUME NEW x \in Tags(NoFilter) PROVE FALSE
    OBVIOUS
  <2> QED
    BY <1>4 DEF Tags
<1>6. NoPrompt.service = Unset /\ NoPrompt.machine = Unset
  BY DEF NoPrompt, Prompt, NoFilter
<1>7. Nothing.typed = NoText /\ Nothing.filter = NoFilter /\ Nothing.prompt = NoPrompt
  BY DEF Nothing
<1> QED
  BY <1>1, <1>2, <1>3, <1>5, <1>6, <1>7

LEMMA NothingRight ==
  ASSUME sent' = Nothing
  PROVE  SentRight'
BY NothingFacts DEF SentRight

LEMMA BoxStep == BoxInv /\ [ComposerNext]_composerVars => BoxInv'
<1> SUFFICES ASSUME BoxInv, [ComposerNext]_composerVars PROVE BoxInv'
  OBVIOUS
<1>1. NoFilter \in Filters /\ OneDimension(NoFilter)
  BY NothingFacts
<1>2. NoText.lines \in Nat /\ \A w : Command(w).lines \in Nat
  BY NothingFacts DEF Command
<1>3. ASSUME NEW m \in Messages PROVE m.lines \in Nat
  <2>1. m \in Texts
    BY DEF Messages
  <2>2. m.lines \in 0..MaxLines
    BY <2>1 DEF Texts
  <2> QED
    BY <2>2, ComposerAssumption
<1>4. sent' = sent => SentRight'
  BY DEF BoxInv, SentRight
<1>5. CASE Type \/ Arrow \/ Escape \/ PickSlash \/ Toggle \/ PickReport \/ UNCHANGED composerVars
  <2>1. filter' = filter /\ local' = local /\ sent' = sent
    BY <1>5 DEF Type, Arrow, Escape, PickSlash, Toggle, PickReport, composerVars
  <2>2. message'.lines \in Nat
    BY <1>2, <1>3, <1>5 DEF Type, Arrow, Escape, PickSlash, Toggle, PickReport, composerVars,
       SetMessage, BoxInv
  <2> QED
    BY <1>4, <2>1, <2>2 DEF BoxInv
<1>6. CASE SetMode \/ FillIn \/ ClearFilter \/ DropTag
  <2>1. PICK f \in Filters : UpdateFilter(f) /\ OneDimension(f)
    <3>1. CASE SetMode
      <4> DEFINE f == [local EXCEPT !.mode = "service", !.machine = Unset]
                 g == [local EXCEPT !.mode = "machine", !.service = Unset]
      <4>1. f \in Filters /\ g \in Filters /\ OneDimension(f) /\ OneDimension(g)
        BY DEF BoxInv, Filters, OneDimension
      <4> QED
        BY <3>1, <4>1 DEF SetMode
    <3>2. CASE FillIn
      <4> DEFINE f(s) == [local EXCEPT !.service = s]
                 g(s) == [local EXCEPT !.machine = s]
                 h(x) == [local EXCEPT !.time = x]
      <4>1. ASSUME local.mode = "service", NEW s \in Services \union {Unset}
            PROVE  f(s) \in Filters /\ OneDimension(f(s))
        BY <4>1 DEF BoxInv, Filters, OneDimension
      <4>2. ASSUME local.mode = "machine", NEW s \in Machines \union {Unset}
            PROVE  g(s) \in Filters /\ OneDimension(g(s))
        BY <4>2 DEF BoxInv, Filters, OneDimension
      <4>3. ASSUME NEW x \in BOOLEAN
            PROVE  h(x) \in Filters /\ OneDimension(h(x))
        BY DEF BoxInv, Filters, OneDimension
      <4> QED
        BY <3>2, <4>1, <4>2, <4>3 DEF FillIn
    <3>3. CASE ClearFilter
      BY <1>1, <3>3 DEF ClearFilter
    <3>4. CASE DropTag
      <4> DEFINE f == [local EXCEPT !.service = Unset]
                 g == [local EXCEPT !.machine = Unset]
                 h == [local EXCEPT !.time = FALSE]
      <4>1. /\ f \in Filters /\ OneDimension(f)
            /\ g \in Filters /\ OneDimension(g)
            /\ h \in Filters /\ OneDimension(h)
        BY DEF BoxInv, Filters, OneDimension
      <4> QED
        BY <3>4, <4>1 DEF DropTag
    <3> QED
      BY <1>6, <3>1, <3>2, <3>3, <3>4
  <2> QED
    BY <1>4, <2>1 DEF UpdateFilter, BoxInv
<1>7. ASSUME SentRight', Redraw PROVE BoxInv'
  BY <1>2, <1>7 DEF Redraw, Mount, BoxInv
<1>8. CASE Submit
  <2>1. SentRight'
    BY <1>8, AssembledRight DEF Submit, BoxInv
  <2> QED
    BY <1>2, <1>8, <2>1 DEF Submit, Mount, BoxInv
<1>9. CASE Suggest
  <2> DEFINE m == [NoText EXCEPT !.lines = 1]
  <2>1. m.lines \in Nat /\ Sends(Assemble(m, NoFilter), m, NoFilter)
    BY <1>9 DEF Suggest, NoText
  <2> HIDE DEF m
  <2> QED
    BY <1>1, <1>7, <1>9, <2>1, AssembledRight DEF Suggest
<1>10. CASE Settle \/ Load
  BY <1>7, <1>10, NothingRight DEF Settle, Load
<1>11. CASE Clear
  BY <1>4, <1>7, <1>11 DEF Clear
<1> QED
  BY <1>5, <1>6, <1>8, <1>9, <1>10, <1>11 DEF ComposerNext

LEMMA BoxInit == ComposerInit => BoxInv
<1> SUFFICES ASSUME ComposerInit PROVE BoxInv
  OBVIOUS
<1>1. SentRight
  BY NothingFacts DEF ComposerInit, SentRight
<1> QED
  BY <1>1, NothingFacts DEF ComposerInit, BoxInv

-----------------------------------------------------------------------------
(* The configuration tabs.                                                 *)

\* What a write will keep of the other section is what is stored, for a tab
\* that no other tab's write has overtaken: the copy of the agents' tab, once
\* it is loaded, and what the sandbox update has read.
TabsInv ==
  /\ config \in [Sections -> Nat] /\ kept \in [Sections -> Nat]
  /\ copy \in [Tabs -> [Sections -> Nat]] /\ basis \in [Tabs -> [Sections -> Nat]]
  /\ form \in [Tabs -> Nat] /\ drafts \in Nat /\ overlap \in BOOLEAN
  /\ tabState \in [Tabs -> {"loading", "drawn", "saving", "broken"}]
  /\ call \in [Tabs -> {"none", "unserved", "read", "served"}]
  /\ \A t \in Tabs : tabState[t] \in {"drawn", "broken"} => call[t] = "none"
  /\ ~overlap =>
       /\ config = kept
       /\ "agents" \notin behind =>
            /\ tabState["agents"] \in {"drawn", "saving"} => copy["agents"]["sandbox"] = config["sandbox"]
            /\ tabState["agents"] = "loading" /\ call["agents"] = "served" => basis["agents"] = config
       /\ "sandbox" \notin behind /\ tabState["sandbox"] = "saving" /\ call["sandbox"] = "read"
            => basis["sandbox"]["agents"] = config["agents"]

LEMMA TabsInit == ConfigInit => TabsInv
<1> SUFFICES ASSUME ConfigInit PROVE TabsInv
  OBVIOUS
<1>1. Contents0 \in [Sections -> Nat]
  BY DEF Contents0
<1>2. /\ config = Contents0 /\ kept = Contents0
      /\ copy = [t \in Tabs |-> Contents0] /\ basis = [t \in Tabs |-> Contents0]
      /\ form = [t \in Tabs |-> 0] /\ drafts = 0 /\ overlap = FALSE
      /\ tabState = [t \in Tabs |-> "loading"] /\ call = [t \in Tabs |-> "unserved"]
  BY DEF ConfigInit
<1>3. "agents" \in Tabs /\ "sandbox" \in Tabs
  BY DEF Tabs, Sections
<1> HIDE DEF Contents0
<1> QED
  BY <1>1, <1>2, <1>3 DEF TabsInv

LEMMA TabsStep == TabsInv /\ [ConfigNext]_configVars => TabsInv'
<1> SUFFICES ASSUME TabsInv, [ConfigNext]_configVars PROVE TabsInv'
  OBVIOUS
<1> USE DEF Tabs, Sections
<1>1. ASSUME NEW t \in Tabs, OpenTab(t) \/ EditForm(t) \/ SaveForm(t) PROVE TabsInv'
  <2>1. CASE OpenTab(t)
    BY <2>1 DEF OpenTab, TabsInv, tallies
  <2>2. CASE EditForm(t)
    BY <2>2 DEF EditForm, TabsInv, tallies
  <2>3. CASE SaveForm(t)
    BY <2>3 DEF SaveForm, TabsInv, tallies
  <2> QED
    BY <1>1, <2>1, <2>2, <2>3
<1>2. ASSUME NEW t \in Tabs, ReadConfig(t) PROVE TabsInv'
  BY <1>2 DEF ReadConfig, TabsInv, tabs
<1>3. ASSUME NEW t \in Tabs, WriteConfig(t) PROVE TabsInv'
  <2>1. CASE t = "agents"
    BY <1>3, <2>1 DEF WriteConfig, TabsInv, tabs, Updated
  <2>2. CASE t = "sandbox"
    BY <1>3, <2>2 DEF WriteConfig, TabsInv, tabs, Updated
  <2> QED
    BY <1>3, <2>1, <2>2
<1>4. ASSUME NEW t \in Tabs, Loaded(t) \/ SavedForm(t) \/ RequestFails(t) PROVE TabsInv'
  <2>1. CASE Loaded(t)
    BY <2>1 DEF Loaded, TabsInv, tallies
  <2>2. CASE SavedForm(t)
    BY <2>2 DEF SavedForm, TabsInv, tallies
  <2>3. CASE RequestFails(t)
    BY <2>3 DEF RequestFails, TabsInv, tallies
  <2> QED
    BY <1>4, <2>1, <2>2, <2>3
<1>5. CASE UNCHANGED configVars
  BY <1>5 DEF configVars, tabs, tallies, TabsInv
<1> QED
  BY <1>1, <1>2, <1>3, <1>4, <1>5 DEF ConfigNext

-----------------------------------------------------------------------------
(* The pages that fetch what is selected.                                  *)

\* The dashboard's figures could not be read.
NoFigures == page = "dashboard" /\ (answer.first # "ok" \/ answer.second = "lost")

\* What makes the answer to the latest request a good one.
Good ==
  /\ page \in {"debug", "detail"} /\ answer.subject = chosen
  /\ "ok" \in {answer.first, answer.second}
  /\ page = "debug" => "lost" \notin {answer.first, answer.second}

\* Only one subject is under way, the one selected; an empty pane waits for
\* it on the debug page, and with nothing under way the pane is right.
PaneInv ==
  /\ page \in ViewPages
  /\ ~overtaken =>
       /\ \A a, b \in Showing : a = b
       /\ \A a \in Showing : a.subject = chosen \/ chosen = NoSubject
       /\ page \in {"debug", "detail", "shared"} /\ Showing # {} => shown = NoSubject
       /\ Showing = {} /\ chosen # NoSubject =>
            /\ NoFigures \/ shown \in {chosen, NoSubject}
            /\ Good => shown = chosen

LEMMA PaneInit == ViewInit => PaneInv
<1> SUFFICES ASSUME ViewInit PROVE PaneInv
  OBVIOUS
<1>1. CASE page \in Given
  <2>1. fetches = {First("show", chosen)} /\ First("show", chosen).kind = "show"
        /\ First("show", chosen).subject = chosen /\ shown = NoSubject
    BY <1>1 DEF ViewInit, First
  <2>2. Showing = {First("show", chosen)}
    BY <2>1 DEF Showing
  <2> QED
    BY <2>1, <2>2 DEF PaneInv, ViewInit
<1>2. CASE page \notin Given
  <2>1. /\ fetches = {First("list", NoSubject)} /\ First("list", NoSubject).kind = "list"
        /\ chosen = NoSubject
    BY <1>2 DEF ViewInit, First
  <2>2. Showing = {}
    BY <2>1 DEF Showing
  <2> QED
    BY <2>1, <2>2 DEF PaneInv, ViewInit
<1> QED
  BY <1>1, <1>2

LEMMA PaneStep == PaneInv /\ [ViewNext]_viewVars => PaneInv'
<1> SUFFICES ASSUME PaneInv, [ViewNext]_viewVars PROVE PaneInv'
  OBVIOUS
<1>1. ASSUME NEW s \in Subjects, Choose(s) PROVE PaneInv'
  <2> DEFINE new == Fetch("show", s)
  <2>1. /\ new.kind = "show" /\ new.subject = s
        /\ fetches' = fetches \cup {new} /\ chosen' = s /\ page' = page
        /\ overtaken' = (overtaken \/ Showing # {} \/ Deleting(s))
        /\ shown' = IF page = "debug" THEN NoSubject ELSE shown
        /\ page \notin {"detail", "shared"}
    BY <1>1 DEF Choose, Fetch
  <2> HIDE DEF new
  <2>2. Showing' = Showing \cup {new}
    BY <2>1 DEF Showing
  <2> QED
    BY <2>1, <2>2 DEF PaneInv
<1>2. CASE Reload \/ Discard
  <2>1. /\ UNCHANGED <<page, chosen, shown, answer, overtaken>>
        /\ \E a : a.kind # "show" /\ fetches' = fetches \cup {a}
    BY <1>2 DEF Reload, Discard, LoadList, Fetch
  <2>2. Showing' = Showing
    BY <2>1 DEF Showing
  <2> QED
    BY <2>1, <2>2 DEF PaneInv, NoFigures, Good
<1>3. ASSUME NEW a \in fetches, Shown(a), UNCHANGED <<page, overtaken, clicks>>
      PROVE  PaneInv'
  <2>1. PICK first \in Outcomes, second \in Outcomes :
          /\ shown' = Contents(a, first, second)
          /\ answer' = [subject |-> a.subject, first |-> first, second |-> second]
    BY <1>3 DEF Shown
  <2>2. a \in Showing /\ Showing' = Showing \ {a} /\ chosen' = chosen /\ fetches' = fetches \ {a}
    BY <1>3 DEF Shown, Showing
  <2>3. /\ answer'.subject = a.subject /\ answer'.first = first /\ answer'.second = second
        /\ page' = page /\ overtaken' = overtaken
    BY <1>3, <2>1
  <2>4. ASSUME ~overtaken, chosen # NoSubject
        PROVE  /\ NoFigures' \/ shown' \in {chosen, NoSubject}
               /\ Good' => shown' = chosen
    <3>1. a.subject = chosen
      BY <2>2, <2>4 DEF PaneInv
    <3>2. page \in {"debug", "detail", "shared"} => shown = NoSubject
      BY <2>2, <2>4 DEF PaneInv
    <3>3. CASE page \in {"sessions", "shared"}
      BY <2>1, <2>3, <3>1, <3>3 DEF Contents, Good
    <3>4. CASE page = "debug"
      BY <2>1, <2>3, <3>1, <3>2, <3>4 DEF Contents, Pane, Good
    <3>5. CASE page = "detail"
      BY <2>1, <2>3, <3>1, <3>5 DEF Contents, Whole, Good
    <3>6. CASE page = "dashboard"
      BY <2>1, <2>3, <3>1, <3>6 DEF Contents, NoFigures, Good
    <3> QED
      BY <3>3, <3>4, <3>5, <3>6 DEF PaneInv, ViewPages
  <2>5. ~overtaken => Showing' = {}
    BY <2>2 DEF PaneInv
  <2> QED
    BY <2>2, <2>3, <2>4, <2>5 DEF PaneInv
<1>4. ASSUME NEW a \in fetches, Offered(a) \/ Discarded(a), UNCHANGED <<page, overtaken, clicks>>
      PROVE  PaneInv'
  <2>1. /\ UNCHANGED <<page, answer, overtaken>>
        /\ \/ UNCHANGED <<chosen, shown>>
           \/ chosen' = NoSubject /\ shown' = NoSubject
    BY <1>4 DEF Offered, Discarded
  <2>2. a.kind # "show"
    BY <1>4 DEF Offered, Discarded
  <2>3. \/ fetches' = fetches \ {a}
        \/ \E l : l.kind = "list" /\ fetches' = (fetches \ {a}) \cup {l}
    BY <1>4 DEF Offered, Discarded, LoadList, Fetch
  <2>4. Showing' = Showing
    BY <2>2, <2>3 DEF Showing
  <2> QED
    BY <2>1, <2>4 DEF PaneInv, NoFigures, Good
<1>5. CASE UNCHANGED viewVars
  BY <1>5 DEF viewVars, PaneInv, Showing, NoFigures, Good
<1> QED
  BY <1>1, <1>2, <1>3, <1>4, <1>5 DEF ViewNext

-----------------------------------------------------------------------------
(* The file browser: types, and what holds of every request.               *)

SaveOf(a) == a.kind = "save" /\ a.alive

\* A save carries a text for a file, a read is answered with one or with none.
AskOK(a) ==
  /\ a.kind = "save" => a.node \in Files /\ a.text \in FileTexts
  /\ a.kind = "read" => a.node \in Files /\ a.text \in FileTexts \cup {Absent}
  /\ a.kind = "create" => a.text = Blank

\* Something is to be saved only while a file's text is shown, and the page
\* waits for one save at a time.
FilesInv ==
  /\ FilesTypeOK
  /\ \A a \in asks : AskOK(a)
  /\ \A f \in Files : disk[f] \in FileTexts \cup {Absent}
  /\ dirty => ~reading /\ selected \in Files
  /\ \A a \in asks : SaveOf(a) => saving
  /\ \A a, b \in asks : SaveOf(a) /\ SaveOf(b) => a = b

\* The constants' names and the texts that are none.
LEMMA NameFacts ==
  /\ MaxEdits \in Nat /\ MaxMoves \in Nat
  /\ Files \cap Folders = {} /\ Files \subseteq Nodes /\ Folders \subseteq Nodes
  /\ Nobody \notin Nodes /\ Root \notin Nodes /\ "absent" \notin Nodes /\ "folder" \notin Nodes
  /\ Blank \in FileTexts /\ Absent \notin FileTexts /\ Folder \notin FileTexts
  /\ Absent # Folder /\ Blank.of = Nobody /\ Blank.edit = 0 /\ Blank # Absent
  /\ \A f \in Files : Original(f) \in FileTexts /\ Original(f).of = f /\ Original(f).edit = 0
  /\ \A f \in Files : Home[f] \in Folders \cup {Root}
<1>1. /\ MaxEdits \in Nat /\ MaxMoves \in Nat
      /\ Files \cap Folders = {} /\ Files \subseteq Nodes /\ Folders \subseteq Nodes
      /\ Nobody \notin Nodes /\ Root \notin Nodes /\ "absent" \notin Nodes /\ "folder" \notin Nodes
      /\ \A f \in Files : Home[f] \in Folders \cup {Root}
  BY FileAssumption DEF Nodes, Nobody
<1>2. 0 \in 0..MaxEdits
  BY <1>1
<1>3. Blank \in FileTexts /\ \A f \in Files : Original(f) \in FileTexts
  BY <1>2 DEF Blank, Original, FileTexts
<1>4. Absent \notin FileTexts /\ Folder \notin FileTexts
  BY <1>1 DEF Absent, Folder, FileTexts, Nobody, Nodes
<1>5. /\ Absent.of = "absent" /\ Folder.of = "folder" /\ Blank.of = Nobody /\ Blank.edit = 0
      /\ \A f \in Files : Original(f).of = f /\ Original(f).edit = 0
  BY DEF Absent, Folder, Blank, Original
<1> QED
  BY <1>1, <1>3, <1>4, <1>5

LEMMA NewAsk ==
  \A k \in Kinds, n \in Nodes \cup {Root}, t \in FileTexts, s \in Nodes \cup {Nobody} :
    /\ Ask(k, n, t, s) \in Asks
    /\ Ask(k, n, t, s).kind = k /\ Ask(k, n, t, s).node = n
    /\ Ask(k, n, t, s).text = t /\ Ask(k, n, t, s).seen = s
    /\ Ask(k, n, t, s).alive = TRUE /\ Ask(k, n, t, s).done = FALSE
BY DEF Ask, Asks

LEMMA FilesInvInit == FilesInit => FilesInv
<1> SUFFICES ASSUME FilesInit PROVE FilesInv
  OBVIOUS
<1>1. /\ Ask("list", Root, Blank, Nobody) \in Asks
      /\ Ask("list", Root, Blank, Nobody).kind = "list"
  <2>1. "list" \in Kinds /\ Root \in Nodes \cup {Root} /\ Nobody \in Nodes \cup {Nobody}
    BY DEF Kinds
  <2>2. Blank \in FileTexts
    BY NameFacts
  <2> QED
    BY <2>1, <2>2, NewAsk
<1>2. \A n \in Nodes : disk[n] \in FileTexts \cup {Absent, Folder}
  BY NameFacts, FileAssumption DEF FilesInit
<1>3. \A f \in Files : disk[f] \in FileTexts \cup {Absent}
  BY NameFacts DEF FilesInit
<1>4. FilesTypeOK
  <2>1. disk \in [Nodes -> FileTexts \cup {Absent, Folder}]
    BY <1>2 DEF FilesInit
  <2>2. edits \in 0..MaxEdits /\ moves \in 0..MaxMoves
    BY NameFacts DEF FilesInit
  <2> QED
    BY <1>1, <2>1, <2>2, NameFacts DEF FilesInit, FilesTypeOK, ListAsk
<1>5. asks = {Ask("list", Root, Blank, Nobody)} /\ dirty = FALSE
  BY DEF FilesInit, ListAsk
<1>6. \A a \in asks : a.kind = "list"
  BY <1>1, <1>5
<1> QED
  BY <1>3, <1>4, <1>5, <1>6 DEF FilesInv, AskOK, SaveOf

\* A node is selected, with the requests of list under way.
LEMMA SelectInv ==
  ASSUME FilesInv, NEW n \in Nodes, NEW list \in SUBSET asks, Select(n, list),
         UNCHANGED <<disk, saving, edits>>, loading' \in BOOLEAN, moves' \in 0..MaxMoves,
         tree' \subseteq Nodes \/ tree' = NoTree
  PROVE  FilesInv'
<1>1. PICK new : /\ new = {} \/ \E a \in Asks : /\ new = {a} /\ a.kind = "read" /\ AskOK(a)
                 /\ asks' = list \cup new
  <2>1. CASE n \in Files
    <3> DEFINE a == Ask("read", n, Blank, Nobody)
    <3>1. a \in Asks /\ a.kind = "read" /\ AskOK(a)
      BY <2>1, NewAsk, NameFacts DEF Kinds, AskOK
    <3>2. asks' = list \cup {a}
      BY <2>1 DEF Select
    <3> HIDE DEF a
    <3> QED
      BY <3>1, <3>2
  <2>2. CASE n \notin Files
    <3>1. asks' = list
      BY <2>2 DEF Select
    <3>2. list = list \cup {}
      OBVIOUS
    <3> QED
      BY <3>1, <3>2
  <2> QED
    BY <2>1, <2>2
<1>2. asks' \subseteq Asks /\ (\A a \in asks' : AskOK(a)) /\ \A a \in asks' : SaveOf(a) => a \in asks
  BY <1>1 DEF FilesInv, FilesTypeOK, SaveOf
<1>3. /\ selected' = n /\ dirty' = FALSE /\ reading' \in BOOLEAN
      /\ text' \in FileTexts /\ base' \in FileTexts
      /\ crossed' \subseteq {"read", "save", "edit", "leave"}
  BY NameFacts DEF Select, FilesInv, FilesTypeOK
<1>4. FilesTypeOK'
  BY <1>2, <1>3 DEF FilesInv, FilesTypeOK
<1> QED
  BY <1>2, <1>3, <1>4 DEF FilesInv, AskOK, SaveOf

\* What clicks do to the requests.
LEMMA ClickInv ==
  ASSUME FilesInv, Edit \/ Save \/ CreateClick \/ DeleteClick \/ Refresh
  PROVE  FilesInv'
<1>1. CASE Edit
  <2>1. /\ edits' = edits + 1 /\ edits < MaxEdits /\ dirty' = TRUE /\ ~reading /\ selected \in Files
        /\ text' = [of |-> IF text.of = Nobody THEN selected ELSE text.of, edit |-> edits + 1]
        /\ crossed' = crossed \cup {k \in {"edit"} : saving}
        /\ UNCHANGED <<disk, tree, loading, selected, reading, saving, asks, base, moves>>
    BY <1>1 DEF Edit
  <2>2. edits' \in 0..MaxEdits
    BY <2>1, NameFacts DEF FilesInv, FilesTypeOK
  <2>3. text' \in FileTexts
    BY <2>1, <2>2 DEF FilesInv, FilesTypeOK, FileTexts
  <2> QED
    BY <2>1, <2>2, <2>3 DEF FilesInv, FilesTypeOK, AskOK, SaveOf
<1>2. CASE Save
  <2> DEFINE a == Ask("save", selected, text, Nobody)
  <2>1. /\ dirty /\ ~saving /\ selected \in Files /\ saving' = TRUE /\ asks' = asks \cup {a}
        /\ UNCHANGED <<disk, tree, loading, selected, text, reading, dirty, base, crossed, edits, moves>>
    BY <1>2 DEF Save
  <2>2. a \in Asks /\ AskOK(a)
    BY <2>1, NewAsk, NameFacts DEF Kinds, AskOK, FilesInv, FilesTypeOK
  <2> HIDE DEF a
  <2> QED
    BY <2>1, <2>2 DEF FilesInv, FilesTypeOK, AskOK, SaveOf
<1>3. ASSUME NEW a \in Asks, AskOK(a), ~SaveOf(a), asks' = asks \cup {a},
             UNCHANGED <<disk, selected, text, reading, dirty, saving, base, crossed, edits>>,
             loading' \in BOOLEAN, moves' \in 0..MaxMoves,
             tree' \subseteq Nodes \/ tree' = NoTree
      PROVE  FilesInv'
  BY <1>3 DEF FilesInv, FilesTypeOK, AskOK, SaveOf
<1>4. Moves => moves' \in 0..MaxMoves
  BY NameFacts DEF Moves, FilesInv, FilesTypeOK
<1>5. CASE CreateClick
  <2>1. PICK n \in Nodes : asks' = asks \cup {Ask("create", n, Blank, Unsaved)}
    BY <1>5 DEF CreateClick
  <2> DEFINE a == Ask("create", n, Blank, Unsaved)
  <2>0. Unsaved \in Nodes \cup {Nobody}
    BY DEF Unsaved, FilesInv, FilesTypeOK
  <2>2. a \in Asks /\ AskOK(a) /\ ~SaveOf(a)
    BY <2>0, NewAsk, NameFacts DEF Kinds, AskOK, SaveOf
  <2> HIDE DEF a
  <2> QED
    BY <1>3, <1>4, <1>5, <2>1, <2>2 DEF a, CreateClick, FilesInv, FilesTypeOK
<1>6. CASE DeleteClick
  <2>1. PICK n \in tree : asks' = asks \cup {Ask("delete", n, Blank, selected)}
    BY <1>6 DEF DeleteClick
  <2>2. n \in Nodes
    BY <1>6 DEF DeleteClick, Drawn, FilesInv, FilesTypeOK
  <2> DEFINE a == Ask("delete", n, Blank, selected)
  <2>3. a \in Asks /\ AskOK(a) /\ ~SaveOf(a)
    BY <2>2, NewAsk, NameFacts DEF Kinds, AskOK, SaveOf, FilesInv, FilesTypeOK
  <2> HIDE DEF a
  <2> QED
    BY <1>3, <1>4, <1>6, <2>1, <2>3 DEF a, DeleteClick, FilesInv, FilesTypeOK
<1>7. CASE Refresh
  <2> DEFINE a == ListAsk(Root, Nobody)
  <2>1. a \in Asks /\ AskOK(a) /\ ~SaveOf(a)
    BY NewAsk, NameFacts DEF Kinds, AskOK, SaveOf, ListAsk
  <2>2. /\ asks' = asks \cup {a} /\ loading' = TRUE
        /\ tree' = IF tree = NoTree THEN {} ELSE tree
        /\ UNCHANGED <<disk, selected, text, reading, dirty, saving, base, crossed, edits>>
        /\ Moves
    BY <1>7 DEF Refresh, LoadTree
  <2>3. tree' \subseteq Nodes \/ tree' = NoTree
    BY <2>2 DEF FilesInv, FilesTypeOK
  <2> HIDE DEF a
  <2> QED
    BY <1>3, <1>4, <2>1, <2>2, <2>3
<1> QED
  BY <1>1, <1>2, <1>5, <1>6, <1>7

LEMMA SwitchInv ==
  ASSUME FilesInv, SwitchTab
  PROVE  FilesInv'
<1> DEFINE left == {a \in asks : a.kind \in Writes /\ ~a.done}
           dead == {[a EXCEPT !.alive = FALSE] : a \in left}
<1>1. /\ loading' = TRUE /\ tree' = {} /\ selected' = Nobody /\ text' = Blank /\ base' = Blank
      /\ reading' = FALSE /\ dirty' = FALSE /\ saving' = FALSE /\ Moves
      /\ asks' = dead \cup {ListAsk(Root, Nobody)}
      /\ crossed' = crossed \cup {k \in {"leave"} : left # {}}
      /\ UNCHANGED <<disk, edits>>
  BY DEF SwitchTab
<1>2. \A a \in dead : a \in Asks /\ AskOK(a) /\ ~SaveOf(a)
  <2> TAKE a \in dead
  <2>1. PICK b \in asks : a = [b EXCEPT !.alive = FALSE]
    OBVIOUS
  <2>2. b \in Asks /\ AskOK(b)
    BY DEF FilesInv, FilesTypeOK
  <2>3. /\ a \in Asks /\ a.kind = b.kind /\ a.node = b.node /\ a.text = b.text /\ a.alive = FALSE
    BY <2>1, <2>2 DEF Asks
  <2> QED
    BY <2>2, <2>3 DEF AskOK, SaveOf
<1>3. ListAsk(Root, Nobody) \in Asks /\ AskOK(ListAsk(Root, Nobody)) /\ ~SaveOf(ListAsk(Root, Nobody))
  BY NewAsk, NameFacts DEF Kinds, AskOK, SaveOf, ListAsk
<1>4. moves' \in 0..MaxMoves
  BY <1>1, NameFacts DEF Moves, FilesInv, FilesTypeOK
<1>5. crossed' \subseteq {"read", "save", "edit", "leave"}
  BY <1>1 DEF FilesInv, FilesTypeOK
<1> HIDE DEF left, dead
<1> QED
  BY <1>1, <1>2, <1>3, <1>4, <1>5, NameFacts DEF FilesInv, FilesTypeOK

\* The server's effect on the disk.
LEMMA EffectFacts ==
  ASSUME FilesInv, NEW a \in asks
  PROVE  /\ Effect(a) \in [Nodes -> FileTexts \cup {Absent, Folder}]
         /\ \A f \in Files :
              \/ Effect(a)[f] = disk[f]
              \/ Effect(a)[f] = Absent
              \/ f = a.node /\ a.kind \in {"save", "create"} /\ Effect(a)[f] = a.text
                 /\ a.text \in FileTexts
<1>1. a \in Asks /\ AskOK(a) /\ disk \in [Nodes -> FileTexts \cup {Absent, Folder}]
  BY DEF FilesInv, FilesTypeOK
<1>2. CASE a.kind \in {"save", "create"}
  <2>1. a.text \in FileTexts
    BY <1>1, <1>2, NameFacts DEF AskOK
  <2>2. Effect(a) = Written(a.node, a.text)
    BY <1>2 DEF Effect
  <2>3. Written(a.node, a.text) \in [Nodes -> FileTexts \cup {Absent, Folder}]
    BY <1>1, <2>1 DEF Written
  <2>4. ASSUME NEW f \in Files
        PROVE  Written(a.node, a.text)[f] = IF f = a.node THEN a.text ELSE disk[f]
    <3>1. f \in Nodes /\ f \notin Folders /\ f # Root
      BY NameFacts
    <3>2. a.node \in Files => Home[a.node] # f
      BY <3>1, NameFacts
    <3> QED
      BY <3>1, <3>2 DEF Written
  <2> QED
    BY <1>2, <2>1, <2>2, <2>3, <2>4
<1>3. CASE a.kind = "delete"
  <2>1. Effect(a) = [n \in Nodes |-> IF n \in Under(a.node) THEN Absent ELSE disk[n]]
    BY <1>3 DEF Effect
  <2> QED
    BY <1>1, <2>1, NameFacts
<1>4. CASE a.kind \in {"list", "read"}
  <2>1. Effect(a) = disk
    BY <1>4 DEF Effect
  <2> QED
    BY <1>1, <2>1
<1> QED
  BY <1>1, <1>2, <1>3, <1>4 DEF Asks, Kinds

\* What Serve makes of the request it serves.
LEMMA ServeFacts ==
  ASSUME FilesInv, Serve
  PROVE  \E a \in asks, new \in SUBSET Asks :
           /\ ~a.done /\ disk' = Effect(a) /\ asks' = (asks \ {a}) \cup new
           /\ \A b \in new :
                /\ new = {b} /\ b \in Asks /\ a.alive /\ b.done /\ b.alive /\ b.kind = a.kind
                /\ b.node = a.node /\ b.seen = a.seen
                /\ b.text = IF a.kind = "read" THEN disk[a.node] ELSE a.text
           /\ UNCHANGED <<tree, loading, selected, text, reading, dirty, saving, base, crossed, edits, moves>>
<1>1. PICK a \in asks :
        /\ ~a.done /\ disk' = Effect(a)
        /\ asks' = (asks \ {a}) \cup
             {[b EXCEPT !.done = TRUE, !.text = IF a.kind = "read" THEN disk[a.node] ELSE @] : b \in {c \in {a} : c.alive}}
        /\ UNCHANGED <<tree, loading, selected, text, reading, dirty, saving, base, crossed, edits, moves>>
  BY DEF Serve
<1> DEFINE d == [a EXCEPT !.done = TRUE, !.text = IF a.kind = "read" THEN disk[a.node] ELSE a.text]
           new == {x \in {d} : a.alive}
<1>2. asks' = (asks \ {a}) \cup new
  <2> DEFINE m(b) == [b EXCEPT !.done = TRUE, !.text = IF a.kind = "read" THEN disk[a.node] ELSE @]
  <2>1. asks' = (asks \ {a}) \cup {m(b) : b \in {c \in {a} : c.alive}}
    BY <1>1
  <2>2. m(a) = d
    OBVIOUS
  <2> HIDE DEF m, d
  <2>3. {m(b) : b \in {c \in {a} : c.alive}} = {x \in {d} : a.alive}
    BY <2>2
  <2> QED
    BY <2>1, <2>3
<1>3. a \in Asks /\ AskOK(a)
  BY DEF FilesInv, FilesTypeOK
<1>4. disk[a.node] \in FileTexts \cup {Absent, Folder} \/ a.kind # "read"
  BY <1>3, NameFacts DEF AskOK, FilesInv, FilesTypeOK
<1>5. /\ d \in Asks /\ d.done /\ d.alive = a.alive /\ d.kind = a.kind /\ d.node = a.node
      /\ d.seen = a.seen /\ d.text = IF a.kind = "read" THEN disk[a.node] ELSE a.text
  BY <1>3, <1>4 DEF Asks
<1>6. \A b \in new : b = d /\ new = {b} /\ a.alive
  OBVIOUS
<1>7. new \in SUBSET Asks
  BY <1>5
<1> HIDE DEF d, new
<1>8. \A b \in new :
        /\ new = {b} /\ b \in Asks /\ a.alive /\ b.done /\ b.alive /\ b.kind = a.kind
        /\ b.node = a.node /\ b.seen = a.seen
        /\ b.text = IF a.kind = "read" THEN disk[a.node] ELSE a.text
  BY <1>5, <1>6
<1> QED
  BY <1>1, <1>2, <1>7, <1>8

LEMMA ServeInv ==
  ASSUME FilesInv, Serve
  PROVE  FilesInv'
<1>1. PICK a \in asks, new \in SUBSET Asks :
        /\ ~a.done /\ disk' = Effect(a) /\ asks' = (asks \ {a}) \cup new
        /\ \A b \in new :
             /\ new = {b} /\ b \in Asks /\ a.alive /\ b.done /\ b.alive /\ b.kind = a.kind
             /\ b.node = a.node /\ b.seen = a.seen
             /\ b.text = IF a.kind = "read" THEN disk[a.node] ELSE a.text
        /\ UNCHANGED <<tree, loading, selected, text, reading, dirty, saving, base, crossed, edits, moves>>
  BY ServeFacts
<1>2. \A b \in new : AskOK(b)
  BY <1>1 DEF FilesInv, AskOK
<1>3. /\ disk' \in [Nodes -> FileTexts \cup {Absent, Folder}]
      /\ \A f \in Files : disk'[f] \in FileTexts \cup {Absent}
  BY <1>1, EffectFacts DEF FilesInv
<1>4. FilesTypeOK'
  BY <1>1, <1>3 DEF FilesInv, FilesTypeOK
<1>5. \A b \in asks' : (b \in asks /\ b # a) \/ b \in new
  BY <1>1
<1>6. \A b \in asks' : AskOK(b) /\ (SaveOf(b) => saving)
  BY <1>1, <1>2, <1>5 DEF FilesInv, SaveOf
<1>7. \A b, c \in asks' : SaveOf(b) /\ SaveOf(c) => b = c
  BY <1>1, <1>5 DEF FilesInv, SaveOf
<1> QED
  BY <1>1, <1>3, <1>4, <1>6, <1>7 DEF FilesInv, AskOK, SaveOf

LEMMA AnswerInv ==
  ASSUME FilesInv, Answer
  PROVE  FilesInv'
<1>1. PICK a \in asks, ok \in BOOLEAN :
        /\ a.alive /\ (ok => a.done)
        /\ Listed(a, ok) \/ Read(a, ok) \/ Saved(a, ok) \/ Created(a, ok) \/ Deleted(a, ok)
        /\ UNCHANGED <<disk, edits, moves>>
  BY DEF Answer
<1>2. a \in Asks /\ AskOK(a) /\ moves' \in 0..MaxMoves
  BY <1>1 DEF FilesInv, FilesTypeOK
<1>3. ASSUME NEW n \in Nodes \cup {Root}, NEW s \in Nodes \cup {Nobody}, loading' = TRUE,
             tree' = IF tree = NoTree THEN {} ELSE tree, asks' = (asks \ {a}) \cup {ListAsk(n, s)}
      PROVE  /\ loading' \in BOOLEAN /\ (tree' \subseteq Nodes \/ tree' = NoTree)
             /\ asks' \subseteq Asks /\ \A b \in asks' : AskOK(b) /\ (SaveOf(b) => b \in asks)
  <2>1. ListAsk(n, s) \in Asks /\ AskOK(ListAsk(n, s)) /\ ~SaveOf(ListAsk(n, s))
    BY NewAsk, NameFacts DEF Kinds, AskOK, SaveOf, ListAsk
  <2> QED
    BY <1>3, <2>1 DEF FilesInv, FilesTypeOK
<1>4. CASE Listed(a, ok)
  <2>1. loading' = FALSE /\ saving' = saving /\ (tree' \subseteq Nodes \/ tree' = NoTree)
    BY <1>4 DEF Listed
  <2>2. CASE a.node \in Files /\ Select(a.node, asks \ {a})
    <3>1. Select(a.node, asks \ {a}) /\ a.node \in Nodes /\ asks \ {a} \in SUBSET asks
      BY <1>4, <2>2, NameFacts DEF Listed
    <3>2. UNCHANGED <<disk, saving, edits>> /\ loading' \in BOOLEAN
      BY <1>1, <2>1
    <3> QED
      BY <1>2, <2>1, <3>1, <3>2, SelectInv
  <2>3. CASE asks' = asks \ {a} /\ UNCHANGED <<selected, text, base, reading, dirty, crossed>>
    <3>1. asks' = asks \ {a} /\ UNCHANGED <<selected, text, base, reading, dirty, crossed>>
      BY <2>3
    <3>2. FilesTypeOK'
      BY <1>1, <1>2, <2>1, <3>1 DEF FilesInv, FilesTypeOK
    <3> QED
      BY <1>1, <2>1, <3>1, <3>2 DEF FilesInv, AskOK, SaveOf
  <2> QED
    BY <1>4, <2>2, <2>3 DEF Listed
<1>5. CASE Read(a, ok)
  <2>1. text' \in FileTexts
    BY <1>2, <1>5, NameFacts DEF Read, AskOK
  <2> QED
    BY <1>1, <1>2, <1>5, <2>1 DEF Read, FilesInv, FilesTypeOK, AskOK, SaveOf
<1>6. CASE Saved(a, ok)
  <2>1. base' \in FileTexts
    BY <1>2, <1>6 DEF Saved, AskOK, FilesInv, FilesTypeOK
  <2>2. \A b \in asks \ {a} : ~SaveOf(b)
    BY <1>1, <1>6 DEF Saved, FilesInv, SaveOf
  <2> QED
    BY <1>1, <1>2, <1>6, <2>1, <2>2 DEF Saved, FilesInv, FilesTypeOK, AskOK, SaveOf
<1>7. CASE Created(a, ok)
  <2>1. CASE ok
    <3> DEFINE n == IF a.node \in Files THEN a.node ELSE Root
    <3>1. /\ loading' = TRUE /\ tree' = IF tree = NoTree THEN {} ELSE tree
          /\ asks' = (asks \ {a}) \cup {ListAsk(n, a.seen)} /\ n \in Nodes \cup {Root}
          /\ UNCHANGED <<selected, text, reading, dirty, saving, base, crossed>>
      BY <1>7, <2>1, NameFacts DEF Created, LoadTree
    <3>2. a.seen \in Nodes \cup {Nobody}
      BY <1>2 DEF Asks
    <3> HIDE DEF n
    <3> QED
      BY <1>1, <1>2, <1>3, <3>1, <3>2 DEF FilesInv, FilesTypeOK, AskOK, SaveOf
  <2>2. CASE ~ok
    BY <1>1, <1>2, <1>7, <2>2 DEF Created, FilesInv, FilesTypeOK, AskOK, SaveOf
  <2> QED
    BY <2>1, <2>2
<1>8. CASE Deleted(a, ok)
  <2>1. /\ selected' \in Nodes \cup {Nobody} /\ text' \in FileTexts /\ base' \in FileTexts
        /\ dirty' \in BOOLEAN /\ (dirty' => ~reading /\ selected' \in Files)
        /\ UNCHANGED <<reading, saving, crossed>>
    BY <1>8, NameFacts DEF Deleted, FilesInv, FilesTypeOK
  <2>2. CASE ok
    <3>1. /\ loading' = TRUE /\ tree' = IF tree = NoTree THEN {} ELSE tree
          /\ asks' = (asks \ {a}) \cup {ListAsk(Root, Nobody)}
      BY <1>8, <2>2 DEF Deleted, LoadTree
    <3> QED
      BY <1>1, <1>2, <1>3, <2>1, <3>1 DEF FilesInv, FilesTypeOK, AskOK, SaveOf
  <2>3. CASE ~ok
    <3>1. asks' = asks \ {a} /\ UNCHANGED <<tree, loading>>
      BY <1>8, <2>3 DEF Deleted
    <3> QED
      BY <1>1, <1>2, <2>1, <3>1 DEF FilesInv, FilesTypeOK, AskOK, SaveOf
  <2> QED
    BY <2>2, <2>3
<1> QED
  BY <1>1, <1>4, <1>5, <1>6, <1>7, <1>8

LEMMA FilesInvStep == FilesInv /\ [FilesNext]_filesVars => FilesInv'
<1> SUFFICES ASSUME FilesInv, [FilesNext]_filesVars PROVE FilesInv'
  OBVIOUS
<1>1. CASE SelectClick
  <2>1. PICK n \in tree : Select(n, asks) /\ UNCHANGED <<disk, tree, loading, saving, edits, moves>>
    BY <1>1 DEF SelectClick
  <2>2. n \in Nodes
    BY <1>1 DEF SelectClick, Drawn, FilesInv, FilesTypeOK
  <2> QED
    BY <2>1, <2>2, SelectInv DEF FilesInv, FilesTypeOK
<1>2. CASE UNCHANGED filesVars
  BY <1>2 DEF filesVars, FilesInv, FilesTypeOK, AskOK, SaveOf
<1> QED
  BY <1>1, <1>2, ClickInv, SwitchInv, ServeInv, AnswerInv DEF FilesNext

-----------------------------------------------------------------------------
(* A file's text stays with the file.                                      *)

Owns(f, t) == t \in FileTexts => t.of \in {f, Nobody}

\* One file at a time is read, the one selected.
OwnInv ==
  "read" \notin crossed =>
    /\ \A a, b \in asks : a.kind = "read" /\ b.kind = "read" => a = b
    /\ \A a \in asks : a.kind = "read" => reading /\ (selected \in Files => a.node = selected)
    /\ \A a \in asks : a.kind \in {"read", "save"} => Owns(a.node, a.text)
    /\ selected \in Files /\ ~reading => Owns(selected, text)
    /\ \A f \in Files : Owns(f, disk[f])

LEMMA OwnInit == FilesInit => OwnInv
<1> SUFFICES ASSUME FilesInit PROVE OwnInv
  OBVIOUS
<1>1. \A f \in Files : Owns(f, disk[f])
  BY NameFacts DEF FilesInit, Owns
<1>2. \A a \in asks : a.kind = "list"
  BY NewAsk, NameFacts DEF FilesInit, ListAsk, Ask
<1>3. selected \notin Files
  BY NameFacts DEF FilesInit
<1> QED
  BY <1>1, <1>2, <1>3 DEF OwnInv

\* What a selection does to the requests and the editor.
LEMMA SelectFacts ==
  ASSUME NEW n \in Nodes, NEW list, Select(n, list)
  PROVE  /\ selected' = n /\ dirty' = FALSE
         /\ crossed \subseteq crossed'
         /\ "read" \notin crossed' => \A a \in list : a.kind # "read"
         /\ "save" \notin crossed' => \A a \in list : a.kind # "save"
         /\ \/ /\ n \in Files /\ reading' = TRUE /\ text' = text
               /\ asks' = list \cup {Ask("read", n, Blank, Nobody)}
            \/ /\ n \notin Files /\ asks' = list /\ text' = Blank
BY DEF Select, UnderWay

LEMMA SelectOwn ==
  ASSUME FilesInv, OwnInv, NEW n \in Nodes, NEW list \in SUBSET asks, Select(n, list), disk' = disk
  PROVE  OwnInv'
<1> SUFFICES ASSUME "read" \notin crossed' PROVE OwnInv'
  BY DEF OwnInv
<1>1. /\ selected' = n /\ "read" \notin crossed /\ \A a \in list : a.kind # "read"
  BY SelectFacts
<1>2. CASE n \in Files
  <2> DEFINE r == Ask("read", n, Blank, Nobody)
  <2>1. asks' = list \cup {r} /\ reading' = TRUE
    BY <1>2, SelectFacts
  <2>2. r.kind = "read" /\ r.node = n /\ r.text = Blank
    BY <1>2, NewAsk, NameFacts DEF Kinds
  <2>3. Owns(n, Blank)
    BY NameFacts DEF Owns
  <2> HIDE DEF r
  <2> QED
    BY <1>1, <2>1, <2>2, <2>3 DEF OwnInv
<1>3. CASE n \notin Files
  <2>1. asks' = list
    BY <1>3, SelectFacts
  <2> QED
    BY <1>1, <1>3, <2>1 DEF OwnInv
<1> QED
  BY <1>2, <1>3

LEMMA ClickOwn ==
  ASSUME FilesInv, OwnInv, Edit \/ Save \/ CreateClick \/ DeleteClick \/ Refresh
  PROVE  OwnInv'
<1>1. CASE Edit
  <2>1. /\ selected \in Files /\ ~reading /\ crossed \subseteq crossed'
        /\ text' = [of |-> IF text.of = Nobody THEN selected ELSE text.of, edit |-> edits + 1]
        /\ UNCHANGED <<disk, selected, reading, asks>>
    BY <1>1 DEF Edit
  <2>2. "read" \notin crossed => text.of \in {selected, Nobody}
    BY <2>1 DEF OwnInv, Owns, FilesInv, FilesTypeOK
  <2>3. "read" \notin crossed => Owns(selected, text')
    BY <2>1, <2>2 DEF Owns
  <2> QED
    BY <2>1, <2>3 DEF OwnInv
<1>2. CASE Save
  <2> DEFINE a == Ask("save", selected, text, Nobody)
  <2>1. /\ dirty /\ selected \in Files /\ asks' = asks \cup {a}
        /\ UNCHANGED <<disk, selected, text, reading, crossed>>
    BY <1>2 DEF Save
  <2>2. a.kind = "save" /\ a.node = selected /\ a.text = text
    BY <2>1, NewAsk, NameFacts DEF Kinds, FilesInv, FilesTypeOK
  <2>3. ~reading
    BY <2>1 DEF FilesInv
  <2> HIDE DEF a
  <2> QED
    BY <2>1, <2>2, <2>3 DEF OwnInv
<1>3. ASSUME NEW a, a.kind \notin {"read", "save"}, asks' = asks \cup {a},
             UNCHANGED <<disk, selected, text, reading, crossed>>
      PROVE  OwnInv'
  BY <1>3 DEF OwnInv
<1>4. CASE CreateClick
  <2>1. PICK n \in Nodes : asks' = asks \cup {Ask("create", n, Blank, Unsaved)}
    BY <1>4 DEF CreateClick
  <2>2. Ask("create", n, Blank, Unsaved).kind = "create"
    BY DEF Ask
  <2> QED
    BY <1>3, <1>4, <2>1, <2>2 DEF CreateClick
<1>5. CASE DeleteClick
  <2>1. PICK n \in tree : asks' = asks \cup {Ask("delete", n, Blank, selected)}
    BY <1>5 DEF DeleteClick
  <2>2. Ask("delete", n, Blank, selected).kind = "delete"
    BY DEF Ask
  <2> QED
    BY <1>3, <1>5, <2>1, <2>2 DEF DeleteClick
<1>6. CASE Refresh
  <2>1. ListAsk(Root, Nobody).kind = "list"
    BY DEF ListAsk, Ask
  <2> QED
    BY <1>3, <1>6, <2>1 DEF Refresh, LoadTree
<1> QED
  BY <1>1, <1>2, <1>4, <1>5, <1>6

\* What leaving the tab makes of the requests: writes not served yet, which
\* nobody awaits, and a new list.
LEMMA SwitchFacts ==
  ASSUME FilesInv, SwitchTab
  PROVE  /\ selected' = Nobody /\ text' = Blank /\ base' = Blank /\ reading' = FALSE
         /\ dirty' = FALSE /\ crossed \subseteq crossed' /\ UNCHANGED <<disk, edits>>
         /\ \A c \in asks' :
              \/ c.kind = "list"
              \/ /\ ~c.alive /\ "leave" \in crossed' /\ c.kind \in Writes
                 /\ \E b \in asks : c.kind = b.kind /\ c.node = b.node /\ c.text = b.text
<1> DEFINE left == {a \in asks : a.kind \in Writes /\ ~a.done}
<1>1. /\ selected' = Nobody /\ text' = Blank /\ base' = Blank /\ reading' = FALSE
      /\ dirty' = FALSE /\ UNCHANGED <<disk, edits>>
      /\ asks' = {[a EXCEPT !.alive = FALSE] : a \in left} \cup {ListAsk(Root, Nobody)}
      /\ crossed' = crossed \cup {k \in {"leave"} : left # {}}
  BY DEF SwitchTab
<1>2. ASSUME NEW b \in left
      PROVE  LET c == [b EXCEPT !.alive = FALSE]
             IN  ~c.alive /\ c.kind = b.kind /\ c.node = b.node /\ c.text = b.text
  <2>1. b \in Asks
    BY DEF FilesInv, FilesTypeOK
  <2> QED
    BY <2>1 DEF Asks
<1>3. ListAsk(Root, Nobody).kind = "list"
  BY DEF ListAsk, Ask
<1>4. ASSUME NEW c \in asks'
      PROVE  \/ c.kind = "list"
             \/ /\ ~c.alive /\ "leave" \in crossed' /\ c.kind \in Writes
                /\ \E b \in asks : c.kind = b.kind /\ c.node = b.node /\ c.text = b.text
  <2>1. CASE c = ListAsk(Root, Nobody)
    BY <1>3, <2>1
  <2>2. ASSUME NEW b \in left, c = [b EXCEPT !.alive = FALSE]
        PROVE  /\ ~c.alive /\ "leave" \in crossed' /\ c.kind \in Writes
               /\ \E x \in asks : c.kind = x.kind /\ c.node = x.node /\ c.text = x.text
    BY <1>1, <1>2, <2>2
  <2> QED
    BY <1>1, <2>1, <2>2
<1> QED
  BY <1>1, <1>4

LEMMA SwitchOwn ==
  ASSUME FilesInv, OwnInv, SwitchTab
  PROVE  OwnInv'
<1>1. \A c \in asks' : c.kind # "read"
  BY SwitchFacts DEF Writes
<1>2. "read" \notin crossed => \A c \in asks' : c.kind = "save" => Owns(c.node, c.text)
  BY SwitchFacts DEF OwnInv
<1> QED
  BY <1>1, <1>2, SwitchFacts, NameFacts DEF OwnInv

LEMMA ServeOwn ==
  ASSUME FilesInv, OwnInv, Serve
  PROVE  OwnInv'
<1>1. PICK a \in asks, new \in SUBSET Asks :
        /\ ~a.done /\ disk' = Effect(a) /\ asks' = (asks \ {a}) \cup new
        /\ \A b \in new :
             /\ new = {b} /\ b \in Asks /\ a.alive /\ b.done /\ b.alive /\ b.kind = a.kind
             /\ b.node = a.node /\ b.seen = a.seen
             /\ b.text = IF a.kind = "read" THEN disk[a.node] ELSE a.text
        /\ UNCHANGED <<tree, loading, selected, text, reading, dirty, saving, base, crossed, edits, moves>>
  BY ServeFacts
<1> SUFFICES ASSUME "read" \notin crossed PROVE OwnInv'
  BY <1>1 DEF OwnInv
<1>2. AskOK(a) /\ (a.kind \in {"read", "save"} => Owns(a.node, a.text))
  BY DEF FilesInv, OwnInv
<1>3. ASSUME NEW f \in Files PROVE Owns(f, disk'[f])
  <2>1. Owns(f, disk[f]) /\ Owns(f, Absent) /\ Owns(f, Blank)
    BY NameFacts DEF OwnInv, Owns
  <2> QED
    BY <1>1, <1>2, <2>1, EffectFacts DEF AskOK
<1>4. ASSUME NEW b \in new, b.kind \in {"read", "save"} PROVE Owns(b.node, b.text)
  BY <1>1, <1>2, <1>4 DEF AskOK, OwnInv
<1>5. \A b \in asks' : (b \in asks /\ b # a) \/ b \in new
  BY <1>1
<1>6. \A b, c \in asks' : b.kind = "read" /\ c.kind = "read" => b = c
  BY <1>1, <1>5 DEF OwnInv
<1>7. \A b \in asks' : b.kind = "read" => reading /\ (selected \in Files => b.node = selected)
  BY <1>1, <1>5 DEF OwnInv
<1>8. \A b \in asks' : b.kind \in {"read", "save"} => Owns(b.node, b.text)
  BY <1>4, <1>5 DEF OwnInv
<1> QED
  BY <1>1, <1>3, <1>6, <1>7, <1>8 DEF OwnInv

\* The kinds of answers: a list that selects a file, one that only changes
\* what is listed, one to a deletion that empties the editor, a file's text,
\* and one to a save.
Kept(a) == \A c \in asks' : c \in asks \ {a} \/ c.kind = "list"

Emptied ==
  /\ selected' = Nobody /\ text' = Blank /\ base' = Blank /\ dirty' = FALSE
  /\ UNCHANGED <<reading, crossed>>

LEMMA AnswerFacts ==
  ASSUME FilesInv, Answer
  PROVE  \E a \in asks, ok \in BOOLEAN :
           /\ a.alive /\ (ok => a.done) /\ UNCHANGED <<disk, edits>>
           /\ \/ a.kind = "list" /\ a.node \in Files /\ Select(a.node, asks \ {a})
              \/ Kept(a) /\ a.kind \notin {"read", "save"}
                 /\ UNCHANGED <<selected, text, reading, dirty, base, crossed>>
              \/ Kept(a) /\ a.kind \notin {"read", "save"} /\ Emptied
              \/ Read(a, ok)
              \/ Saved(a, ok)
<1>1. PICK a \in asks, ok \in BOOLEAN :
        /\ a.alive /\ (ok => a.done)
        /\ Listed(a, ok) \/ Read(a, ok) \/ Saved(a, ok) \/ Created(a, ok) \/ Deleted(a, ok)
        /\ UNCHANGED <<disk, edits, moves>>
  BY DEF Answer
<1>2. \A n, s : ListAsk(n, s).kind = "list"
  BY DEF ListAsk, Ask
<1>3. CASE Listed(a, ok)
  <2>1. CASE a.node \in Files /\ Select(a.node, asks \ {a})
    BY <1>1, <1>3, <2>1 DEF Listed
  <2>2. CASE asks' = asks \ {a} /\ UNCHANGED <<selected, text, base, reading, dirty, crossed>>
    <3>1. /\ Kept(a) /\ a.kind = "list"
          /\ UNCHANGED <<selected, text, reading, dirty, base, crossed>>
      BY <1>3, <2>2 DEF Listed, Kept
    <3> QED
      BY <1>1, <3>1
  <2> QED
    BY <1>3, <2>1, <2>2 DEF Listed
<1>4. CASE Created(a, ok)
  <2>1. /\ Kept(a) /\ a.kind = "create"
        /\ UNCHANGED <<selected, text, reading, dirty, base, crossed>>
    BY <1>2, <1>4 DEF Created, LoadTree, Kept
  <2> QED
    BY <1>1, <2>1
<1>5. CASE Deleted(a, ok)
  <2>1. Kept(a) /\ a.kind = "delete"
    BY <1>2, <1>5 DEF Deleted, LoadTree, Kept
  <2>2. UNCHANGED <<selected, text, reading, dirty, base, crossed>> \/ Emptied
    BY <1>5 DEF Deleted, Emptied
  <2> QED
    BY <1>1, <2>1, <2>2
<1> QED
  BY <1>1, <1>3, <1>4, <1>5

LEMMA AnswerOwn ==
  ASSUME FilesInv, OwnInv, Answer
  PROVE  OwnInv'
<1>1. PICK a \in asks, ok \in BOOLEAN :
        /\ a.alive /\ (ok => a.done) /\ UNCHANGED <<disk, edits>>
        /\ \/ a.kind = "list" /\ a.node \in Files /\ Select(a.node, asks \ {a})
           \/ Kept(a) /\ a.kind \notin {"read", "save"}
              /\ UNCHANGED <<selected, text, reading, dirty, base, crossed>>
           \/ Kept(a) /\ a.kind \notin {"read", "save"} /\ Emptied
           \/ Read(a, ok)
           \/ Saved(a, ok)
  BY AnswerFacts
<1>2. CASE a.node \in Files /\ Select(a.node, asks \ {a})
  <2>1. asks \ {a} \in SUBSET asks /\ a.node \in Nodes
    BY <1>2, NameFacts
  <2> QED
    BY <1>1, <1>2, <2>1, SelectOwn
<1>3. CASE Kept(a) /\ UNCHANGED <<selected, text, reading, dirty, base, crossed>>
  BY <1>1, <1>3 DEF Kept, OwnInv
<1>4. CASE Kept(a) /\ Emptied
  BY <1>1, <1>4, NameFacts DEF Kept, Emptied, OwnInv
<1>5. CASE Read(a, ok)
  <2>1. /\ a.kind = "read" /\ reading' = FALSE /\ asks' = asks \ {a} /\ UNCHANGED <<selected, crossed>>
        /\ text' = a.text \/ text' = Blank
    BY <1>5 DEF Read
  <2>2. "read" \notin crossed /\ selected \in Files => Owns(selected, text')
    BY <2>1, NameFacts DEF OwnInv, Owns
  <2> QED
    BY <1>1, <2>1, <2>2 DEF OwnInv
<1>6. CASE Saved(a, ok)
  BY <1>1, <1>6 DEF Saved, OwnInv
<1> QED
  BY <1>1, <1>2, <1>3, <1>4, <1>5, <1>6

LEMMA OwnStep == FilesInv /\ OwnInv /\ [FilesNext]_filesVars => OwnInv'
<1> SUFFICES ASSUME FilesInv, OwnInv, [FilesNext]_filesVars PROVE OwnInv'
  OBVIOUS
<1>1. CASE SelectClick
  <2>1. PICK n \in tree : Select(n, asks) /\ disk' = disk
    BY <1>1 DEF SelectClick
  <2>2. n \in Nodes
    BY <1>1 DEF SelectClick, Drawn, FilesInv, FilesTypeOK
  <2> QED
    BY <2>1, <2>2, SelectOwn
<1>2. CASE UNCHANGED filesVars
  BY <1>2 DEF filesVars, OwnInv
<1> QED
  BY <1>1, <1>2, ClickOwn, SwitchOwn, ServeOwn, AnswerOwn DEF FilesNext

-----------------------------------------------------------------------------
(* What is typed is marked.                                                *)

Uncrossed == crossed \intersect {"read", "save", "edit"} = {}

\* The save that the page waits for is of the text that is shown.
MarkInv ==
  Uncrossed =>
    /\ \A a \in asks : SaveOf(a) /\ selected \in Files =>
         a.node = selected /\ a.text = text /\ ~reading
    /\ selected \in Files /\ ~reading /\ text # base => dirty

LEMMA SelectMark ==
  ASSUME FilesInv, MarkInv, NEW n \in Nodes, NEW list \in SUBSET asks, Select(n, list)
  PROVE  MarkInv'
<1> SUFFICES ASSUME Uncrossed' PROVE MarkInv'
  BY DEF MarkInv
<1>1. \A a \in list : a.kind # "save"
  BY SelectFacts DEF Uncrossed
<1>2. PICK r : r.kind = "read" /\ (asks' = list \cup {r} \/ asks' = list)
  <2> DEFINE r == Ask("read", n, Blank, Nobody)
  <2>1. r.kind = "read"
    BY DEF Ask
  <2>2. asks' = list \cup {r} \/ asks' = list
    BY DEF Select
  <2> HIDE DEF r
  <2> QED
    BY <2>1, <2>2
<1>3. \A a \in asks' : ~SaveOf(a)
  BY <1>1, <1>2 DEF SaveOf
<1>4. selected' \in Files => reading'
  BY SelectFacts
<1> QED
  BY <1>3, <1>4 DEF MarkInv

LEMMA MarkStep == FilesInv /\ OwnInv /\ MarkInv /\ [FilesNext]_filesVars => MarkInv'
<1> SUFFICES ASSUME FilesInv, OwnInv, MarkInv, [FilesNext]_filesVars PROVE MarkInv'
  OBVIOUS
<1>1. CASE SelectClick
  <2>1. PICK n \in tree : Select(n, asks)
    BY <1>1 DEF SelectClick
  <2>2. n \in Nodes
    BY <1>1 DEF SelectClick, Drawn, FilesInv, FilesTypeOK
  <2> QED
    BY <2>1, <2>2, SelectMark
<1>2. CASE Edit
  <2>1. dirty' = TRUE /\ crossed' = crossed \cup {k \in {"edit"} : saving} /\ asks' = asks
    BY <1>2 DEF Edit
  <2>2. Uncrossed' => \A a \in asks : ~SaveOf(a)
    BY <2>1 DEF Uncrossed, FilesInv
  <2> QED
    BY <2>1, <2>2 DEF MarkInv, SaveOf
<1>3. CASE Save
  <2> DEFINE a == Ask("save", selected, text, Nobody)
  <2>1. /\ dirty /\ ~saving /\ selected \in Files /\ asks' = asks \cup {a}
        /\ UNCHANGED <<selected, text, reading, dirty, base, crossed>>
    BY <1>3 DEF Save
  <2>2. a.kind = "save" /\ a.node = selected /\ a.text = text
    BY DEF Ask
  <2>3. ~reading /\ \A b \in asks : ~SaveOf(b)
    BY <2>1 DEF FilesInv
  <2> HIDE DEF a
  <2> QED
    BY <2>1, <2>2, <2>3 DEF MarkInv, Uncrossed, SaveOf
<1>4. ASSUME \A c \in asks' : SaveOf(c) => c \in asks,
             UNCHANGED <<selected, text, reading, dirty, base, crossed>>
      PROVE  MarkInv'
  BY <1>4 DEF MarkInv, Uncrossed, SaveOf
<1>5. CASE CreateClick \/ DeleteClick \/ Refresh
  <2>1. \A k, n, s : Ask(k, n, Blank, s).kind = k
    BY DEF Ask
  <2>2. \A c \in asks' : SaveOf(c) => c \in asks
    BY <1>5, <2>1 DEF CreateClick, DeleteClick, Refresh, LoadTree, ListAsk, SaveOf
  <2> QED
    BY <1>4, <1>5, <2>2 DEF CreateClick, DeleteClick, Refresh
<1>6. CASE SwitchTab
  <2>1. \A c \in asks' : ~SaveOf(c)
    BY <1>6, SwitchFacts DEF SaveOf
  <2> QED
    BY <1>6, <2>1, SwitchFacts, NameFacts DEF MarkInv, SaveOf
<1>7. CASE Serve
  <2>1. PICK a \in asks, new \in SUBSET Asks :
          /\ asks' = (asks \ {a}) \cup new
          /\ \A b \in new : a.alive /\ b.kind = a.kind /\ b.node = a.node
                            /\ b.text = IF a.kind = "read" THEN disk[a.node] ELSE a.text
          /\ UNCHANGED <<selected, text, reading, dirty, base, crossed>>
    BY <1>7, ServeFacts
  <2>2. \A c \in asks' : SaveOf(c) =>
          \E b \in asks : SaveOf(b) /\ b.node = c.node /\ b.text = c.text
    BY <2>1 DEF SaveOf
  <2> QED
    BY <2>1, <2>2 DEF MarkInv, Uncrossed, SaveOf
<1>8. CASE Answer
  <2>1. PICK a \in asks, ok \in BOOLEAN :
          /\ a.alive /\ (ok => a.done) /\ UNCHANGED <<disk, edits>>
          /\ \/ a.kind = "list" /\ a.node \in Files /\ Select(a.node, asks \ {a})
             \/ Kept(a) /\ a.kind \notin {"read", "save"}
                /\ UNCHANGED <<selected, text, reading, dirty, base, crossed>>
             \/ Kept(a) /\ a.kind \notin {"read", "save"} /\ Emptied
             \/ Read(a, ok)
             \/ Saved(a, ok)
    BY <1>8, AnswerFacts
  <2>2. CASE a.node \in Files /\ Select(a.node, asks \ {a})
    <3>1. asks \ {a} \in SUBSET asks /\ a.node \in Nodes
      BY <2>2, NameFacts
    <3> QED
      BY <2>2, <3>1, SelectMark
  <2>3. CASE Kept(a) /\ UNCHANGED <<selected, text, reading, dirty, base, crossed>>
    BY <1>4, <2>3 DEF Kept, SaveOf
  <2>4. CASE Kept(a) /\ Emptied
    BY <2>4, NameFacts DEF Emptied, MarkInv
  <2>5. CASE Read(a, ok)
    <3>1. /\ a.kind = "read" /\ base' = text' /\ asks' = asks \ {a} /\ UNCHANGED <<selected, crossed>>
      BY <2>5 DEF Read
    <3>2. Uncrossed /\ selected \in Files => \A c \in asks : ~SaveOf(c)
      BY <3>1 DEF MarkInv, OwnInv, Uncrossed
    <3> QED
      BY <3>1, <3>2 DEF MarkInv, Uncrossed, SaveOf
  <2>6. CASE Saved(a, ok)
    <3>1. /\ a.kind = "save" /\ dirty' = (dirty /\ ~ok) /\ asks' = asks \ {a}
          /\ base' = IF ok /\ selected = a.node THEN a.text ELSE base
          /\ UNCHANGED <<selected, text, reading, crossed>>
      BY <2>6 DEF Saved
    <3>2. \A c \in asks' : ~SaveOf(c)
      BY <2>1, <3>1 DEF FilesInv, SaveOf
    <3>3. Uncrossed /\ selected \in Files /\ ok => base' = text
      BY <2>1, <3>1 DEF MarkInv, SaveOf
    <3>4. ~ok => base' = base /\ (dirty => dirty')
      BY <3>1 DEF FilesInv, FilesTypeOK
    <3> QED
      BY <3>1, <3>2, <3>3, <3>4 DEF MarkInv, Uncrossed, SaveOf
  <2> QED
    BY <2>1, <2>2, <2>3, <2>4, <2>5, <2>6
<1>9. CASE UNCHANGED filesVars
  BY <1>9 DEF filesVars, MarkInv, Uncrossed, SaveOf
<1> QED
  BY <1>1, <1>2, <1>3, <1>5, <1>6, <1>7, <1>8, <1>9 DEF FilesNext

LEMMA MarkInit == FilesInit => MarkInv
<1> SUFFICES ASSUME FilesInit PROVE MarkInv
  OBVIOUS
<1>1. \A a \in asks : ~SaveOf(a)
  <2>1. ListAsk(Root, Nobody).kind = "list"
    BY DEF ListAsk, Ask
  <2> QED
    BY <2>1 DEF FilesInit, SaveOf
<1>2. selected \notin Files
  BY NameFacts DEF FilesInit
<1> QED
  BY <1>1, <1>2 DEF MarkInv

-----------------------------------------------------------------------------
(* Saves take effect in order.                                             *)

Orderly == crossed \intersect {"read", "leave"} = {}

\* No text is newer than the last edit, which a marked text is.  The one save
\* under way is of a text at least as new as any on the disk.
OrderInv ==
  /\ \A f \in Files : disk[f] \in FileTexts => disk[f].edit <= edits
  /\ \A a \in asks : a.kind \in {"save", "read"} /\ a.text \in FileTexts => a.text.edit <= edits
  /\ text.edit <= edits
  /\ Orderly =>
       /\ dirty => text.edit = edits
       /\ \A a \in asks : a.kind = "save" /\ ~a.done =>
            a.alive /\ \A f \in Files : disk[f] \in FileTexts => disk[f].edit <= a.text.edit

LEMMA OrderInit == FilesInit => OrderInv
<1> SUFFICES ASSUME FilesInit PROVE OrderInv
  OBVIOUS
<1>1. \A f \in Files : disk[f] \in FileTexts => disk[f].edit <= edits
  BY NameFacts DEF FilesInit
<1>2. \A a \in asks : a.kind = "list"
  <2>1. ListAsk(Root, Nobody).kind = "list"
    BY DEF ListAsk, Ask
  <2> QED
    BY <2>1 DEF FilesInit
<1>3. text.edit <= edits /\ ~dirty
  BY NameFacts DEF FilesInit
<1> QED
  BY <1>1, <1>2, <1>3 DEF OrderInv

\* Edits are numbers.
LEMMA EditFacts ==
  ASSUME FilesInv
  PROVE  /\ edits \in Nat /\ \A t \in FileTexts : t.edit \in Nat
         /\ text \in FileTexts
BY NameFacts DEF FilesInv, FilesTypeOK, FileTexts

LEMMA SelectOrder ==
  ASSUME FilesInv, OrderInv, NEW n \in Nodes, NEW list \in SUBSET asks, Select(n, list),
         UNCHANGED <<disk, edits>>
  PROVE  OrderInv'
<1>1. PICK r : /\ r.kind = "read" /\ r.text = Blank
               /\ asks' = list \cup {r} \/ asks' = list
  <2> DEFINE r == Ask("read", n, Blank, Nobody)
  <2>1. r.kind = "read" /\ r.text = Blank
    BY DEF Ask
  <2>2. asks' = list \cup {r} \/ asks' = list
    BY DEF Select
  <2> HIDE DEF r
  <2> QED
    BY <2>1, <2>2
<1>2. text' = text \/ text' = Blank
  BY DEF Select
<1>3. dirty' = FALSE /\ crossed \subseteq crossed'
  BY DEF Select
<1>4. Blank.edit <= edits
  BY EditFacts, NameFacts
<1> QED
  BY <1>1, <1>2, <1>3, <1>4 DEF OrderInv, Orderly

LEMMA ClickOrder ==
  ASSUME FilesInv, OrderInv, Edit \/ Save \/ CreateClick \/ DeleteClick \/ Refresh
  PROVE  OrderInv'
<1>1. CASE Edit
  <2>1. /\ edits' = edits + 1 /\ text'.edit = edits + 1 /\ crossed \subseteq crossed'
        /\ UNCHANGED <<disk, asks>>
    BY <1>1 DEF Edit
  <2>2. \A f \in Files : disk[f] \in FileTexts => disk[f].edit <= edits + 1
    BY EditFacts DEF OrderInv
  <2>3. \A a \in asks : a.kind \in {"save", "read"} /\ a.text \in FileTexts => a.text.edit <= edits + 1
    BY EditFacts DEF OrderInv
  <2>4. text'.edit <= edits'
    BY <2>1, EditFacts
  <2> QED
    BY <2>1, <2>2, <2>3, <2>4 DEF OrderInv, Orderly
<1>2. CASE Save
  <2> DEFINE a == Ask("save", selected, text, Nobody)
  <2>1. dirty /\ asks' = asks \cup {a} /\ UNCHANGED <<disk, text, dirty, crossed, edits>>
    BY <1>2 DEF Save
  <2>2. a.kind = "save" /\ a.text = text /\ a.alive
    BY DEF Ask
  <2> HIDE DEF a
  <2> QED
    BY <2>1, <2>2, EditFacts DEF OrderInv, Orderly
<1>3. ASSUME NEW a, a.kind \notin {"read", "save"}, asks' = asks \cup {a},
             UNCHANGED <<disk, text, dirty, crossed, edits>>
      PROVE  OrderInv'
  BY <1>3 DEF OrderInv, Orderly
<1>4. \A k, n, t, s : Ask(k, n, t, s).kind = k
  BY DEF Ask
<1>5. CASE CreateClick
  <2>1. PICK n \in Nodes : asks' = asks \cup {Ask("create", n, Blank, Unsaved)}
    BY <1>5 DEF CreateClick
  <2> QED
    BY <1>3, <1>4, <1>5, <2>1 DEF CreateClick
<1>6. CASE DeleteClick
  <2>1. PICK n \in tree : asks' = asks \cup {Ask("delete", n, Blank, selected)}
    BY <1>6 DEF DeleteClick
  <2> QED
    BY <1>3, <1>4, <1>6, <2>1 DEF DeleteClick
<1>7. CASE Refresh
  <2>1. ListAsk(Root, Nobody).kind = "list"
    BY DEF ListAsk, Ask
  <2> QED
    BY <1>3, <1>7, <2>1 DEF Refresh, LoadTree
<1> QED
  BY <1>1, <1>2, <1>5, <1>6, <1>7

LEMMA SwitchOrder ==
  ASSUME FilesInv, OrderInv, SwitchTab
  PROVE  OrderInv'
<1>1. \A c \in asks' : c.kind \in {"save", "read"} =>
        "leave" \in crossed' /\ \E b \in asks : c.kind = b.kind /\ c.text = b.text
  BY SwitchFacts
<1>2. text'.edit <= edits
  BY SwitchFacts, EditFacts, NameFacts
<1> QED
  BY <1>1, <1>2, SwitchFacts DEF OrderInv, Orderly

LEMMA ServeOrder ==
  ASSUME FilesInv, OrderInv, Serve
  PROVE  OrderInv'
<1>1. PICK a \in asks, new \in SUBSET Asks :
        /\ ~a.done /\ disk' = Effect(a) /\ asks' = (asks \ {a}) \cup new
        /\ \A b \in new :
             /\ new = {b} /\ b \in Asks /\ a.alive /\ b.done /\ b.alive /\ b.kind = a.kind
             /\ b.node = a.node /\ b.seen = a.seen
             /\ b.text = IF a.kind = "read" THEN disk[a.node] ELSE a.text
        /\ UNCHANGED <<tree, loading, selected, text, reading, dirty, saving, base, crossed, edits, moves>>
  BY ServeFacts
<1>2. AskOK(a)
  BY DEF FilesInv
<1>3. \A f \in Files :
        disk'[f] \in FileTexts =>
          \/ disk'[f] = disk[f]
          \/ disk'[f] = Blank
          \/ a.kind = "save" /\ disk'[f] = a.text
  BY <1>1, <1>2, EffectFacts, NameFacts DEF AskOK
<1>4. \A f \in Files : disk'[f] \in FileTexts => disk'[f].edit <= edits
  BY <1>3, EditFacts, NameFacts DEF OrderInv
<1>5. \A b \in asks' : (b \in asks /\ b # a) \/ b \in new
  BY <1>1
<1>6. \A b \in new : b.kind \in {"save", "read"} /\ b.text \in FileTexts => b.text.edit <= edits
  BY <1>1, <1>2 DEF OrderInv, AskOK
<1>7. \A b \in asks' : b.kind \in {"save", "read"} /\ b.text \in FileTexts => b.text.edit <= edits
  BY <1>5, <1>6 DEF OrderInv
<1>8. ASSUME Orderly, NEW b \in asks', b.kind = "save", ~b.done
      PROVE  b.alive /\ \A f \in Files : disk'[f] \in FileTexts => disk'[f].edit <= b.text.edit
  <2>1. b \in asks /\ b # a
    BY <1>1, <1>5, <1>8
  <2>2. b.alive /\ \A f \in Files : disk[f] \in FileTexts => disk[f].edit <= b.text.edit
    BY <1>8, <2>1 DEF OrderInv
  <2>3. a.kind # "save"
    BY <1>1, <1>8, <2>1, <2>2 DEF OrderInv, FilesInv, SaveOf
  <2>4. Blank.edit <= b.text.edit
    BY <1>8, <2>1, EditFacts, NameFacts DEF FilesInv, AskOK
  <2> QED
    BY <1>3, <2>2, <2>3, <2>4
<1> QED
  BY <1>1, <1>4, <1>7, <1>8 DEF OrderInv, Orderly

LEMMA AnswerOrder ==
  ASSUME FilesInv, OwnInv, OrderInv, Answer
  PROVE  OrderInv'
<1>1. PICK a \in asks, ok \in BOOLEAN :
        /\ a.alive /\ (ok => a.done) /\ UNCHANGED <<disk, edits>>
        /\ \/ a.kind = "list" /\ a.node \in Files /\ Select(a.node, asks \ {a})
           \/ Kept(a) /\ a.kind \notin {"read", "save"}
              /\ UNCHANGED <<selected, text, reading, dirty, base, crossed>>
           \/ Kept(a) /\ a.kind \notin {"read", "save"} /\ Emptied
           \/ Read(a, ok)
           \/ Saved(a, ok)
  BY AnswerFacts
<1>2. CASE a.node \in Files /\ Select(a.node, asks \ {a})
  <2>1. asks \ {a} \in SUBSET asks /\ a.node \in Nodes
    BY <1>2, NameFacts
  <2> QED
    BY <1>1, <1>2, <2>1, SelectOrder
<1>3. CASE Kept(a) /\ UNCHANGED <<selected, text, reading, dirty, base, crossed>>
  BY <1>1, <1>3 DEF Kept, OrderInv, Orderly
<1>4. CASE Kept(a) /\ Emptied
  <2>1. text'.edit <= edits /\ dirty' = FALSE /\ crossed' = crossed
    BY <1>4, EditFacts, NameFacts DEF Emptied
  <2> QED
    BY <1>1, <1>4, <2>1 DEF Kept, OrderInv, Orderly
<1>5. CASE Read(a, ok)
  <2>1. /\ a.kind = "read" /\ asks' = asks \ {a} /\ UNCHANGED <<dirty, crossed>>
        /\ text' = Blank \/ (text' = a.text /\ a.text # Absent)
    BY <1>5 DEF Read
  <2>2. text'.edit <= edits
    BY <2>1, EditFacts, NameFacts DEF FilesInv, AskOK, OrderInv
  <2>3. Orderly => ~dirty
    BY <2>1 DEF Orderly, OwnInv, FilesInv
  <2> QED
    BY <1>1, <2>1, <2>2, <2>3 DEF OrderInv, Orderly
<1>6. CASE Saved(a, ok)
  <2>1. asks' = asks \ {a} /\ (dirty' => dirty) /\ UNCHANGED <<text, crossed>>
    BY <1>6 DEF Saved
  <2> QED
    BY <1>1, <2>1 DEF OrderInv, Orderly
<1> QED
  BY <1>1, <1>2, <1>3, <1>4, <1>5, <1>6

LEMMA OrderStep == FilesInv /\ OwnInv /\ OrderInv /\ [FilesNext]_filesVars => OrderInv'
<1> SUFFICES ASSUME FilesInv, OwnInv, OrderInv, [FilesNext]_filesVars PROVE OrderInv'
  OBVIOUS
<1>1. CASE SelectClick
  <2>1. PICK n \in tree : Select(n, asks) /\ UNCHANGED <<disk, edits>>
    BY <1>1 DEF SelectClick
  <2>2. n \in Nodes
    BY <1>1 DEF SelectClick, Drawn, FilesInv, FilesTypeOK
  <2> QED
    BY <2>1, <2>2, SelectOrder
<1>2. CASE UNCHANGED filesVars
  BY <1>2 DEF filesVars, OrderInv, Orderly
<1> QED
  BY <1>1, <1>2, ClickOrder, SwitchOrder, ServeOrder, AnswerOrder DEF FilesNext

\* What a step puts on the disk is the text of the save under way.
LEMMA OrderedWrites ==
  ASSUME FilesInv, OrderInv, [FilesNext]_filesVars, NEW f \in Files,
         {disk[f], disk'[f]} \subseteq FileTexts, disk'[f] # Blank, Orderly
  PROVE  disk'[f].edit >= disk[f].edit
<1>1. CASE Serve
  <2>1. PICK a \in asks : ~a.done /\ disk' = Effect(a)
    BY <1>1 DEF Serve
  <2>2. disk'[f] = disk[f] \/ (a.kind = "save" /\ disk'[f] = a.text)
    BY <2>1, EffectFacts, NameFacts DEF FilesInv, AskOK
  <2> QED
    BY <2>1, <2>2, EditFacts DEF OrderInv
<1>2. CASE ~Serve
  <2>1. disk' = disk
    BY <1>2 DEF FilesNext, filesVars, SelectClick, Edit, Save, CreateClick, DeleteClick,
       Refresh, SwitchTab, Answer
  <2> QED
    BY <2>1, EditFacts
<1> QED
  BY <1>1, <1>2

-----------------------------------------------------------------------------
(* The browser tab: a page's step is the tab's, and no other page's.       *)

LEMMA PageInit ==
  PagesInit => ComposerInit /\ FilesInit /\ ViewInit /\ ConfigInit
BY DEF PagesInit

LEMMA PageStep ==
  [PagesNext]_pageVars =>
    /\ [ComposerNext]_composerVars /\ [FilesNext]_filesVars
    /\ [ViewNext]_viewVars /\ [ConfigNext]_configVars
BY DEF PagesNext, pageVars, OnChat, OnOptions, OnFiles, OnView, OnConfig

\* The workflow, the filter's tags and the box's copy of the filter that go
\* with a message are those the box shows, however it is typed, tagged, cleared
\* and sent (ChatInput and FilterBar, handleSubmit).
THEOREM MessageAsShown == PagesSpec => []SentAsShown
<1>1. BoxInv => SentAsShown
  BY DEF BoxInv, OneDimension, SentRight, SentAsShown
<1> QED
  BY <1>1, PageInit, PageStep, BoxInit, BoxStep, PTL DEF PagesSpec

\* The agents' and the sandbox section are each as last saved, unless two
\* writes of the configuration overlapped (SettingsPage's tabs, UpdateAgents,
\* UpdateSandbox).
THEOREM SectionsKept == PagesSpec => []SectionsStay
<1>1. TabsInv => SectionsStay
  BY DEF TabsInv, SectionsStay
<1> QED
  BY <1>1, PageInit, PageStep, TabsInit, TabsStep, PTL DEF PagesSpec

\* With nothing under way, a pane that no second selection overtook shows what
\* is selected or nothing (the debug, detail, shared and dashboard pages).
THEOREM PaneOfSelection == PagesSpec => []BelongTogether
<1>1. PaneInv => BelongTogether
  BY DEF PaneInv, BelongTogether, Settled, Showing, NoFigures
<1> QED
  BY <1>1, PageInit, PageStep, PaneInit, PaneStep, PTL DEF PagesSpec

\* One good answer of the two requests for a session is enough to show it
\* (app/debug/page.tsx, the detail page).
THEOREM OneAnswerShows == PagesSpec => []EitherSuffices
<1>1. PaneInv => EitherSuffices
  BY DEF PaneInv, EitherSuffices, Settled, Showing, Good
<1> QED
  BY <1>1, PageInit, PageStep, PaneInit, PaneStep, PTL DEF PagesSpec

-----------------------------------------------------------------------------
(* The file browser's, from the four invariants together.                  *)

BrowserInv == FilesInv /\ OwnInv /\ MarkInv /\ OrderInv

LEMMA BrowserInit == PagesInit => BrowserInv
BY PageInit, FilesInvInit, OwnInit, MarkInit, OrderInit DEF BrowserInv

LEMMA BrowserStep == BrowserInv /\ [PagesNext]_pageVars => BrowserInv'
BY PageStep, FilesInvStep, OwnStep, MarkStep, OrderStep DEF BrowserInv

\* A file never receives another file's text, unless a file was selected while
\* another was read (FileTreeTab's handleSelect, handleSave; handleWrite of
\* filetree.go).
THEOREM TextStaysWithFile == PagesSpec => []FilesKeepText
<1>1. BrowserInv => FilesKeepText
  BY DEF BrowserInv, OwnInv, Owns, FilesKeepText
<1> QED
  BY <1>1, BrowserInit, BrowserStep, PTL DEF PagesSpec

\* What was typed and not saved is marked as unsaved, unless the page was used
\* while it waited (FileTreeTab's handleSave clears the mark with the answer).
THEOREM UnsavedIsMarked == PagesSpec => []EditsAreMarked
<1>1. BrowserInv => EditsAreMarked
  BY DEF BrowserInv, MarkInv, Uncrossed, EditsAreMarked
<1> QED
  BY <1>1, BrowserInit, BrowserStep, PTL DEF PagesSpec

\* No save puts an older text over a newer one, unless the tab was left with a
\* write under way or a file was selected while another was read (FileTreeTab's
\* handleSave, whose button is off meanwhile).
THEOREM NewerTextStays == PagesSpec => SavesInOrder
<1> DEFINE Ordered ==
      \A f \in Files :
        /\ {disk[f], disk'[f]} \subseteq FileTexts
        /\ disk'[f] # Blank
        /\ crossed \intersect {"read", "leave"} = {}
        => disk'[f].edit >= disk[f].edit
<1>1. BrowserInv /\ [PagesNext]_pageVars => [Ordered]_filesVars
  BY PageStep, OrderedWrites DEF BrowserInv, Orderly
<1> QED
  BY <1>1, BrowserInit, BrowserStep, PTL DEF PagesSpec, SavesInOrder
=============================================================================
