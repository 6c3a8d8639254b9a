------------------------------- MODULE Pages -------------------------------
(***************************************************************************)
(* The browser tab shows one page of src/frontend/src/app at a time, and a *)
(* page that is left is unmounted with all its state: what a tab does      *)
(* between two navigations is what one page does.  The chat page's message *)
(* box and the options beside it - which share nothing but the request,    *)
(* and are taken one at a time -, the settings page's file browser and     *)
(* configuration forms, and the pages that fetch what is selected are      *)
(* taken together here; the chat page itself and the stored conversations  *)
(* have runs of their own.                                                 *)
(*                                                                         *)
(*   route   the page the tab is on                                        *)
(***************************************************************************)
EXTENDS Composer, RunOptions, FileEditor, Viewer, ConfigTabs

VARIABLE route

pageVars == <<route, composerVars, optionVars, filesVars, viewVars, configVars>>

Routes == {"chat", "options", "files", "view", "config"}

PagesInit ==
  /\ route \in Routes
  /\ ComposerInit /\ OptionsInit /\ FilesInit /\ ViewInit /\ ConfigInit
  \* The pages that are not shown count for nothing: one of their states will do.
  /\ route # "view" => page = "debug"
  /\ route # "options" => saved = Standard

OnChat == route = "chat" /\ ComposerNext /\ UNCHANGED <<route, optionVars, filesVars, viewVars, configVars>>
OnOptions == route = "options" /\ OptionsNext /\ UNCHANGED <<route, composerVars, filesVars, viewVars, configVars>>
OnFiles == route = "files" /\ FilesNext /\ UNCHANGED <<route, composerVars, optionVars, viewVars, configVars>>
OnView == route = "view" /\ ViewNext /\ UNCHANGED <<route, composerVars, optionVars, filesVars, configVars>>
OnConfig == route = "config" /\ ConfigNext /\ UNCHANGED <<route, composerVars, optionVars, filesVars, viewVars>>

PagesNext == OnChat \/ OnOptions \/ OnFiles \/ OnView \/ OnConfig

PagesSpec == PagesInit /\ [][PagesNext]_pageVars
=============================================================================
