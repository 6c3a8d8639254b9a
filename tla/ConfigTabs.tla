----------------------------- MODULE ConfigTabs -----------------------------
(***************************************************************************)
(* The tabs of the settings page that edit the configuration               *)
(* (src/frontend/src/components/SettingsPage.tsx), each open in a window   *)
(* of its own, and the handlers that serve them                            *)
(* (src/internal/hub/config_api.go).  The list of external agents is saved *)
(* with the whole configuration as it was loaded, the sandbox section by   *)
(* itself; the server puts a section into the configuration it reads and   *)
(* writes all of it back, without a lock.  A section's content is the      *)
(* number of the edit it comes from.  One write is one step here: its      *)
(* truncated file and its keys are HotReload's.                            *)
(*                                                                         *)
(*   config     what is stored, by section                                 *)
(*   copy       the configuration a tab has loaded                         *)
(*   form       what a tab shows of its section                            *)
(*   tabState   "loading", "drawn", "saving", or "broken": not loaded      *)
(*   call       the request of a tab: none, unserved, read (the server     *)
(*              holds what it read in basis) or served                     *)
(*   basis       see call                                                  *)
(*   kept       history: the content written last for each section         *)
(*   behind     history: the tabs whose copy, or whose request's basis,    *)
(*              another tab's write has overtaken                          *)
(*   overlap    history: a tab that was behind has written                 *)
(*   drafts     the number of edits, capped by MaxDrafts                   *)
(*   visits     the number of times a tab was opened again, capped by      *)
(*              MaxVisits                                                  *)
(***************************************************************************)
EXTENDS Naturals

CONSTANTS MaxDrafts,   \* a bound on edits
          MaxVisits    \* a bound on tabs opened again

VARIABLES config, copy, form, tabState, call, basis, kept, behind, overlap, drafts, visits

tabs == <<copy, form, tabState>>
tallies == <<kept, behind, overlap>>
configVars == <<config, tabs, call, basis, tallies, drafts, visits>>

Sections == {"agents", "sandbox"}
Contents0 == [s \in Sections |-> 0]

\* A tab is named after the section it edits.
Tabs == Sections

ConfigInit ==
  /\ config = Contents0
  /\ copy = [t \in Tabs |-> Contents0]
  /\ form = [t \in Tabs |-> 0]
  /\ tabState = [t \in Tabs |-> "loading"]
  /\ call = [t \in Tabs |-> "unserved"]
  /\ basis = [t \in Tabs |-> Contents0]
  /\ kept = Contents0
  /\ behind = {} /\ overlap = FALSE
  /\ drafts = 0 /\ visits = 0

----------------------------------------------------------------------------
\* Leaving a tab and coming back: it loads anew.  A save that is not served
\* yet is waited for by nobody; here the user waits for it.
OpenTab(t) ==
  /\ visits < MaxVisits /\ visits' = visits + 1
  /\ tabState[t] \in {"drawn", "broken"}
  /\ tabState' = [tabState EXCEPT ![t] = "loading"]
  /\ call' = [call EXCEPT ![t] = "unserved"]
  /\ UNCHANGED <<config, copy, form, basis, tallies, drafts>>

\* Any field of the form; a running save does not keep the user from it.
EditForm(t) ==
  /\ tabState[t] \in {"drawn", "saving"} /\ drafts < MaxDrafts
  /\ drafts' = drafts + 1
  /\ form' = [form EXCEPT ![t] = drafts + 1]
  /\ UNCHANGED <<config, copy, tabState, call, basis, tallies, visits>>

\* handleSave: the button is on with nothing edited too.  What is sent stands
\* in copy, which the sandbox tab's form is itself.
SaveForm(t) ==
  /\ tabState[t] = "drawn"
  /\ tabState' = [tabState EXCEPT ![t] = "saving"]
  /\ copy' = [copy EXCEPT ![t][t] = form[t]]
  /\ call' = [call EXCEPT ![t] = "unserved"]
  /\ UNCHANGED <<config, form, basis, tallies, drafts, visits>>

----------------------------------------------------------------------------
(***************************************************************************)
(* The server.                                                             *)
(***************************************************************************)
\* readConfig, for a load or, in UpdateSandboxConfig, before the write.
ReadConfig(t) ==
  /\ call[t] = "unserved" /\ (t = "sandbox" \/ tabState[t] = "loading")
  /\ basis' = [basis EXCEPT ![t] = config]
  /\ call' = [call EXCEPT ![t] = IF tabState[t] = "loading" THEN "served" ELSE "read"]
  /\ behind' = behind \ {t}
  /\ UNCHANGED <<config, tabs, kept, overlap, drafts, visits>>

\* Mutant of Updated: the section is all that is written.
UpdatedAlone(t) ==
  [s \in Sections |-> IF s = t THEN copy[t][t] ELSE 0]

\* What a save writes: UpdateConfig all of what it was sent, UpdateSandbox-
\* Config what it has read, with the section that was sent.
Updated(t) == IF t = "agents" THEN copy[t] ELSE [basis[t] EXCEPT ![t] = copy[t][t]]

WriteConfig(t) ==
  /\ tabState[t] = "saving"
  /\ call[t] = IF t = "agents" THEN "unserved" ELSE "read"
  /\ config' = Updated(t)
  /\ call' = [call EXCEPT ![t] = "served"]
  /\ kept' = [kept EXCEPT ![t] = copy[t][t]]
  /\ overlap' = (overlap \/ t \in behind)
  /\ behind' = behind \union (Tabs \ {t})
  /\ UNCHANGED <<tabs, basis, drafts, visits>>

----------------------------------------------------------------------------
\* The answer to a load is what was read.
Loaded(t) ==
  /\ tabState[t] = "loading" /\ call[t] = "served"
  /\ copy' = [copy EXCEPT ![t] = basis[t]]
  /\ form' = [form EXCEPT ![t] = basis[t][t]]
  /\ tabState' = [tabState EXCEPT ![t] = "drawn"]
  /\ call' = [call EXCEPT ![t] = "none"]
  /\ UNCHANGED <<config, basis, tallies, drafts, visits>>

\* The answer to a save: the sandbox tab shows what was stored, whatever was
\* typed since; the agents tab keeps its form, and the rest of its copy.
SavedForm(t) ==
  /\ tabState[t] = "saving" /\ call[t] = "served"
  /\ form' = IF t = "sandbox" THEN [form EXCEPT ![t] = copy[t][t]] ELSE form
  /\ tabState' = [tabState EXCEPT ![t] = "drawn"]
  /\ call' = [call EXCEPT ![t] = "none"]
  /\ UNCHANGED <<config, copy, basis, tallies, drafts, visits>>

\* A request fails and is not served later, or its answer is lost; a message
\* tells so.  Without a
\* configuration the sandbox tab shows no form, and the agents tab's save
\* does nothing.
RequestFails(t) ==
  /\ call[t] # "none"
  /\ call' = [call EXCEPT ![t] = "none"]
  /\ tabState' = [tabState EXCEPT ![t] = IF @ = "loading" THEN "broken" ELSE "drawn"]
  /\ UNCHANGED <<config, copy, form, basis, tallies, drafts, visits>>

ConfigNext ==
  \E t \in Tabs :
    \/ OpenTab(t) \/ EditForm(t) \/ SaveForm(t)
    \/ ReadConfig(t) \/ WriteConfig(t)
    \/ Loaded(t) \/ SavedForm(t) \/ RequestFails(t)

ConfigSpec == ConfigInit /\ [][ConfigNext]_configVars

----------------------------------------------------------------------------
ConfigTypeOK ==
  /\ {config, kept} \subseteq [Sections -> 0..MaxDrafts]
  /\ copy \in [Tabs -> [Sections -> 0..MaxDrafts]] /\ basis \in [Tabs -> [Sections -> 0..MaxDrafts]]
  /\ form \in [Tabs -> 0..MaxDrafts]
  /\ tabState \in [Tabs -> {"loading", "drawn", "saving", "broken"}]
  /\ call \in [Tabs -> {"none", "unserved", "read", "served"}]
  /\ behind \subseteq Tabs /\ overlap \in BOOLEAN
  /\ drafts \in 0..MaxDrafts /\ visits \in 0..MaxVisits

\* A section that was saved stays as it was saved, whatever is saved of the
\* other one: only a save from a form that was loaded before the other tab's
\* save, or one that the server reads around the other's write, takes it back
\* (UpdateConfig's whole configuration, UpdateSandboxConfig's read and write).
SectionsStay == ~overlap => config = kept
=============================================================================
