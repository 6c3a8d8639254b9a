----------------------------- MODULE FileEditor -----------------------------
(***************************************************************************)
(* The file browser of the settings page (FileTreeTab of                   *)
(* src/frontend/src/components/SettingsPage.tsx, lib/api.ts), through      *)
(* which memory and skill files are edited, with the server's side of its  *)
(* requests (src/internal/hub/store/filetree.go).                          *)
(*                                                                         *)
(* Every request is served some time after the click and answered some     *)
(* time later, in any order; the page knows of no request but by the       *)
(* handler that awaits it, whose closure holds what was on the page at the *)
(* click.  A text is the file whose text it was and its latest edit.       *)
(*                                                                         *)
(*   disk      the text of every file, or Absent; a folder's is Folder     *)
(*   tree      the nodes listed, NoTree when the list could not be read    *)
(*   loading   the list is being read: nothing else is drawn               *)
(*   selected  the node the editor's head names                            *)
(*   text      what the editor holds                                       *)
(*   reading   the editor shows that it is reading                         *)
(*   dirty     the page believes that there is something to save           *)
(*   saving    the save button waits                                       *)
(*   asks      requests under way: done once the server has served them,   *)
(*             alive while the tab that sent them is there                 *)
(*   base      history: the text last read or saved under this head        *)
(*   crossed   history: what the user did without waiting: selecting while *)
(*             a file was read, or saved, editing while it was saved,      *)
(*             leaving the tab with a write under way                      *)
(*   edits     the number of edits, capped by MaxEdits                     *)
(*   moves     the number of creations, deletions, refreshes and switches  *)
(*             of tabs, capped by MaxMoves                                 *)
(***************************************************************************)
EXTENDS Naturals, FiniteSets

CONSTANTS Files, Folders,   \* nodes of the tree
          Home,             \* the folder a file is in, or Root
          Stored,           \* the files there at first
          MaxEdits,         \* a bound on edits
          MaxAsks,          \* a bound on requests under way
          MaxMoves          \* a bound on creations, deletions, refreshes, tab switches

Root == "root"

ASSUME FileAssumption ==
  /\ {MaxEdits, MaxAsks, MaxMoves} \subseteq Nat
  /\ Files \intersect Folders = {}
  /\ {Root, "nobody", "absent", "folder"} \intersect (Files \union Folders) = {}
  /\ Home \in [Files -> Folders \union {Root}]
  /\ Stored \subseteq Files

VARIABLES disk, tree, loading, selected, text, reading, dirty, saving, asks, base, crossed, edits, moves

filesVars == <<disk, tree, loading, selected, text, reading, dirty, saving, asks, base, crossed, edits, moves>>

Nodes == Files \union Folders
Nobody == "nobody"
NoTree == {"no tree"}

FileTexts == [of : Files \union {Nobody}, edit : 0..MaxEdits]
Blank == [of |-> Nobody, edit |-> 0]
Absent == [of |-> "absent", edit |-> 0]
Folder == [of |-> "folder", edit |-> 0]
Original(f) == [of |-> f, edit |-> 0]

\* A request: its kind, its node, the text it carries or was answered with,
\* and of the closure of the handler that awaits it the node selected when a
\* deletion was clicked, or unsaved when a creation was.  A list that follows a
\* creation names the file to select then.
Kinds == {"list", "read", "save", "create", "delete"}
Writes == {"save", "create", "delete"}
Asks == [kind : Kinds, node : Nodes \union {Root}, text : FileTexts \union {Absent, Folder},
         seen : Nodes \union {Nobody}, done : BOOLEAN, alive : BOOLEAN]

Ask(k, n, t, s) == [kind |-> k, node |-> n, text |-> t, seen |-> s, done |-> FALSE, alive |-> TRUE]
ListAsk(n, s) == Ask("list", n, Blank, s)

Room == Cardinality(asks) < MaxAsks
\* A click that may change the tree.
Moves == moves < MaxMoves /\ moves' = moves + 1

UnderWay(ks, list) == \E a \in list : a.kind \in ks

----------------------------------------------------------------------------
FilesInit ==
  /\ disk = [n \in Nodes |-> IF n \in Stored THEN Original(n) ELSE IF n \in Folders THEN Folder ELSE Absent]
  /\ tree = {}
  /\ loading = TRUE
  /\ selected = Nobody
  /\ text = Blank
  /\ reading = FALSE
  /\ dirty = FALSE
  /\ saving = FALSE
  /\ asks = {ListAsk(Root, Nobody)}
  /\ base = Blank
  /\ crossed = {}
  /\ edits = 0
  /\ moves = 0

\* The page draws the list and the editor: while the list is read it draws a
\* spinner, and once it could not be read the error, with no way back but
\* another tab.
Drawn == ~loading /\ tree # NoTree

\* handleSelect, behind its question: with unsaved changes the user is asked,
\* and goes on.  The editor keeps the previous text until the answer comes.
Select(n, list) ==
  /\ selected' = n
  /\ dirty' = FALSE
  /\ IF n \in Files
     THEN /\ asks' = list \union {Ask("read", n, Blank, Nobody)}
          /\ reading' = TRUE
          /\ base' = text /\ UNCHANGED text
     ELSE asks' = list /\ text' = Blank /\ base' = Blank /\ UNCHANGED reading
  /\ crossed' = crossed \union {k \in {"read", "save"} : UnderWay({k}, list)}

SelectClick ==
  /\ Drawn /\ Room
  /\ \E n \in tree : Select(n, asks)
  /\ UNCHANGED <<disk, tree, loading, saving, edits, moves>>

\* Typing in the editor, which is not drawn while a file is read.
Edit ==
  /\ Drawn /\ selected \in Files /\ ~reading /\ edits < MaxEdits
  /\ edits' = edits + 1
  /\ text' = [of |-> IF text.of = Nobody THEN selected ELSE text.of, edit |-> edits + 1]
  /\ dirty' = TRUE
  /\ crossed' = crossed \union {k \in {"edit"} : saving}
  /\ UNCHANGED <<disk, tree, loading, selected, reading, saving, asks, base, moves>>

\* Mutant of Save: the button stays on.
SaveTwice ==
  /\ Drawn /\ selected \in Files /\ dirty /\ Room
  /\ asks' = asks \union {Ask("save", selected, text, Nobody)}
  /\ saving' = TRUE
  /\ UNCHANGED <<disk, tree, loading, selected, text, reading, dirty, base, crossed, edits, moves>>

\* handleSave, whose button is off while a save is under way.
Save ==
  /\ Drawn /\ selected \in Files /\ dirty /\ ~saving /\ Room
  /\ asks' = asks \union {Ask("save", selected, text, Nobody)}
  /\ saving' = TRUE
  /\ UNCHANGED <<disk, tree, loading, selected, text, reading, dirty, base, crossed, edits, moves>>

\* The node whose text has unsaved edits.
Unsaved == IF dirty THEN selected ELSE Nobody

\* handleCreate: a file is created by writing nothing into it, be it there
\* or not; the form stays open until the answer.
CreateClick ==
  /\ Drawn /\ Room /\ Moves /\ ~UnderWay({"create"}, asks)
  /\ \E n \in Nodes : asks' = asks \union {Ask("create", n, Blank, Unsaved)}
  /\ UNCHANGED <<disk, tree, loading, selected, text, reading, dirty, saving, base, crossed, edits>>

\* handleDelete, after its question.
DeleteClick ==
  /\ Drawn /\ Room /\ Moves
  /\ \E n \in tree : asks' = asks \union {Ask("delete", n, Blank, selected)}
  /\ UNCHANGED <<disk, tree, loading, selected, text, reading, dirty, saving, base, crossed, edits>>

\* loadTree; then selects the node n, unless it is Root.
LoadTree(n, s, list) ==
  /\ loading' = TRUE
  /\ tree' = IF tree = NoTree THEN {} ELSE tree
  /\ asks' = list \union {ListAsk(n, s)}

Refresh ==
  /\ Drawn /\ Room /\ Moves
  /\ LoadTree(Root, Nobody, asks)
  /\ UNCHANGED <<disk, selected, text, reading, dirty, saving, base, crossed, edits>>

\* Another tab and back: the page starts afresh, writes under way go on, and
\* nothing awaits them any more.
SwitchTab ==
  /\ Moves
  /\ loading' = TRUE /\ tree' = {} /\ selected' = Nobody
  /\ text' = Blank /\ base' = Blank
  /\ reading' = FALSE /\ dirty' = FALSE /\ saving' = FALSE
  /\ LET left == {a \in asks : a.kind \in Writes /\ ~a.done}
     IN /\ Cardinality(left) < MaxAsks
        /\ asks' = {[a EXCEPT !.alive = FALSE] : a \in left} \union {ListAsk(Root, Nobody)}
        /\ crossed' = crossed \union {k \in {"leave"} : left # {}}
  /\ UNCHANGED <<disk, edits>>

----------------------------------------------------------------------------
(***************************************************************************)
(* The server.                                                             *)
(***************************************************************************)
Under(n) == {n} \union {f \in Files : Home[f] = n}

\* A write makes the folder on its way.
Written(n, t) ==
  [m \in Nodes |->
     IF m = n THEN IF n \in Folders THEN Folder ELSE t
     ELSE IF n \in Files /\ m = Home[n] THEN Folder ELSE disk[m]]

\* Mutant of Effect: a save goes to the node selected by now.
EffectOnSelected(a) ==
  CASE a.kind = "save" /\ selected \in Files -> Written(selected, a.text)
    [] a.kind \in {"save", "create"} -> Written(a.node, a.text)
    [] a.kind = "delete" -> [n \in Nodes |-> IF n \in Under(a.node) THEN Absent ELSE disk[n]]
    [] OTHER -> disk

\* handleRead, handleWrite, handleMkdir and handleDelete.
Effect(a) ==
  CASE a.kind \in {"save", "create"} -> Written(a.node, a.text)
    [] a.kind = "delete" -> [n \in Nodes |-> IF n \in Under(a.node) THEN Absent ELSE disk[n]]
    [] OTHER -> disk

Serve ==
  \E a \in asks :
    /\ ~a.done
    /\ disk' = Effect(a)
    /\ asks' = (asks \ {a}) \union
         {[b EXCEPT !.done = TRUE, !.text = IF a.kind = "read" THEN disk[a.node] ELSE @] : b \in {c \in {a} : c.alive}}
    /\ UNCHANGED <<tree, loading, selected, text, reading, dirty, saving, base, crossed, edits, moves>>

----------------------------------------------------------------------------
(***************************************************************************)
(* The answers.  A request can fail before it is served, or be served and  *)
(* its answer be lost: ok says that it came and was good.                  *)
(***************************************************************************)
\* The list arrives.  The file that was created before is selected, unless there
\* were unsaved edits at that click and the user declines to leave them.
Listed(a, ok) ==
  /\ a.kind = "list"
  /\ loading' = FALSE
  /\ tree' = IF ok THEN {n \in Nodes : disk[n] # Absent} ELSE NoTree
  /\ \/ a.node \in Files /\ Select(a.node, asks \ {a})
     \/ /\ a.node \in Files => a.seen # Nobody
        /\ asks' = asks \ {a} /\ UNCHANGED <<selected, text, base, reading, dirty, crossed>>
  /\ UNCHANGED saving

\* Whatever is selected by now, the answer becomes the editor's text; a file
\* that could not be read is shown empty.
Read(a, ok) ==
  /\ a.kind = "read"
  /\ text' = IF ok /\ a.text # Absent THEN a.text ELSE Blank
  /\ base' = text'
  /\ reading' = FALSE
  /\ asks' = asks \ {a}
  /\ UNCHANGED <<tree, loading, selected, dirty, saving, crossed>>

\* Mutant of Saved: a failure is taken for a success.
SavedAnyway(a, ok) ==
  /\ a.kind = "save"
  /\ saving' = FALSE
  /\ dirty' = FALSE
  /\ base' = IF ok /\ selected = a.node THEN a.text ELSE base
  /\ asks' = asks \ {a}
  /\ UNCHANGED <<tree, loading, selected, text, reading, crossed>>

\* The flag is cleared whatever was typed or selected since the click.
Saved(a, ok) ==
  /\ a.kind = "save"
  /\ saving' = FALSE
  /\ dirty' = (dirty /\ ~ok)
  /\ base' = IF ok /\ selected = a.node THEN a.text ELSE base
  /\ asks' = asks \ {a}
  /\ UNCHANGED <<tree, loading, selected, text, reading, crossed>>

Created(a, ok) ==
  /\ a.kind = "create"
  /\ IF ok THEN LoadTree(IF a.node \in Files THEN a.node ELSE Root, a.seen, asks \ {a})
     ELSE asks' = asks \ {a} /\ UNCHANGED <<tree, loading>>
  /\ UNCHANGED <<selected, text, reading, dirty, saving, base, crossed>>

\* What was selected at the click decides whether the editor is emptied.
Deleted(a, ok) ==
  /\ a.kind = "delete"
  /\ IF ok THEN LoadTree(Root, Nobody, asks \ {a}) ELSE asks' = asks \ {a} /\ UNCHANGED <<tree, loading>>
  /\ IF ok /\ a.seen \in Under(a.node)
     THEN selected' = Nobody /\ text' = Blank /\ base' = Blank /\ dirty' = FALSE
     ELSE UNCHANGED <<selected, text, base, dirty>>
  /\ UNCHANGED <<reading, saving, crossed>>

Answer ==
  /\ \E a \in asks, ok \in BOOLEAN :
       /\ a.alive /\ (ok => a.done)
       /\ Listed(a, ok) \/ Read(a, ok) \/ Saved(a, ok) \/ Created(a, ok) \/ Deleted(a, ok)
  /\ UNCHANGED <<disk, edits, moves>>

FilesNext ==
  \/ SelectClick \/ Edit \/ Save \/ CreateClick \/ DeleteClick \/ Refresh \/ SwitchTab
  \/ Serve \/ Answer

FilesSpec == FilesInit /\ [][FilesNext]_filesVars

----------------------------------------------------------------------------
FilesTypeOK ==
  /\ disk \in [Nodes -> FileTexts \union {Absent, Folder}]
  /\ tree \subseteq Nodes \/ tree = NoTree
  /\ selected \in Nodes \union {Nobody}
  /\ {text, base} \subseteq FileTexts
  /\ {loading, reading, dirty, saving} \subseteq BOOLEAN
  /\ asks \subseteq Asks
  /\ crossed \subseteq {"read", "save", "edit", "leave"}
  /\ edits \in 0..MaxEdits /\ moves \in 0..MaxMoves

\* A file never receives another file's text, whichever of the requests fail
\* or come late, as long as no file is selected while another is still read:
\* then the late answer stands under the new head, and a save files it there.
FilesKeepText ==
  "read" \notin crossed => \A f \in Files : disk[f] \in FileTexts => disk[f].of \in {f, Nobody}

\* What was typed and not saved is marked as such, so that the save button is
\* on and a click elsewhere asks first; only an answer to a save that comes
\* after another edit or selection may clear the mark (handleSave).
EditsAreMarked ==
  crossed \intersect {"read", "save", "edit"} = {} /\ selected \in Files /\ ~reading /\ text # base
    => dirty

\* A newer text on the disk is not overwritten by an older one: saves take
\* effect in the order of their clicks, and each holds the latest edit.  Not
\* so when the tab was left with one under way, whose lock on the button is
\* gone with the tab, or when a file was selected while another was read: the
\* second answer replaces what was typed after the first.
SavesInOrder ==
  [][\A f \in Files :
       /\ {disk[f], disk'[f]} \subseteq FileTexts
       /\ disk'[f] # Blank
       /\ crossed \intersect {"read", "leave"} = {}
       => disk'[f].edit >= disk[f].edit]_filesVars
=============================================================================
