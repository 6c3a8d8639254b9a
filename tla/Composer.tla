------------------------------ MODULE Composer ------------------------------
(***************************************************************************)
(* The message box of the chat page: src/frontend/src/components/          *)
(* ChatInput.tsx, with what handleSendMessage (AgentWorkspace.tsx) makes   *)
(* of the text it is given.                                                *)
(*                                                                         *)
(* A text is its first word (a command, some other word with a slash, or   *)
(* none), whether a blank follows it, and the number of lines typed after  *)
(* it.  A filter is the dimension chosen, the two fields of the dimensions *)
(* and whether a time range is set.                                        *)
(*                                                                         *)
(*   message   the text in the box, lost when the box is mounted anew      *)
(*   menu      the slash menu: whether it is open and the line chosen      *)
(*   label     the command the toolbar's button shows                      *)
(*   panel     the toolbar's panel that is open                            *)
(*   local     the box's copy of the filter                                *)
(*   filter    the page's copy, which outlives the box                     *)
(*   empty     the page shows no messages                                  *)
(*   busy      a turn is running, the box is disabled                      *)
(*   sent      the message being answered, as the page understood it, with *)
(*             what the box had shown                                      *)
(***************************************************************************)
EXTENDS Naturals, Sequences, FiniteSets

CONSTANTS Services, Machines,   \* what can be filled into the filter
          MaxLines              \* lines typed, a bound on texts

ASSUME ComposerAssumption == MaxLines \in Nat /\ MaxLines > 0

VARIABLES message, menu, label, panel, local, filter, empty, busy, sent

composerVars == <<message, menu, label, panel, local, filter, empty, busy, sent>>

Commands == <<"/report", "/inspect", "/vision">>
IsCommand(w) == \E i \in 1..Len(Commands) : Commands[i] = w

None == "none"
Unset == "unset"

Texts == [word : {"", "/", "/word", "/report", "/inspect", "/vision"},
          blank : BOOLEAN, lines : 0..MaxLines]

\* A blank separates a word from the lines; without a word there is none.
Messages == {m \in Texts : IF m.word = "" THEN ~m.blank ELSE m.lines > 0 => m.blank}

NoText == [word |-> "", blank |-> FALSE, lines |-> 0]
Slash == [NoText EXCEPT !.word = "/"]
Command(w) == [word |-> w, blank |-> TRUE, lines |-> 0]
HasText(m) == m.word # "" \/ m.lines > 0

Filters == [mode : {"service", "machine"}, service : Services \union {Unset},
            machine : Machines \union {Unset}, time : BOOLEAN]

NoFilter == [mode |-> "service", service |-> Unset, machine |-> Unset, time |-> FALSE]
HasContent(f) == f.time \/ (IF f.mode = "service" THEN f.service ELSE f.machine) # Unset

\* What generateFilterPrompt writes: the fields of the chosen dimension only.
Prompt(f) == [service |-> IF f.mode = "service" THEN f.service ELSE Unset,
              machine |-> IF f.mode = "machine" THEN f.machine ELSE Unset,
              time |-> f.time]

NoPrompt == Prompt(NoFilter)

\* The tags above the box: what the user sees the filter to be.
Tags(f) == {x \in {f.service} : f.mode = "service" /\ x # Unset}
           \union {x \in {f.machine} : f.mode = "machine" /\ x # Unset}

\* Mutant of Assemble: the filter goes in front of a command too.
AssembleInFront(m, f) ==
  IF ~HasContent(f) THEN [word |-> m.word, prompt |-> NoPrompt, lines |-> m.lines]
  ELSE [word |-> "", prompt |-> Prompt(f), lines |-> m.lines]

(***************************************************************************)
(* The text that is sent.  A filter goes in front of a plain text and      *)
(* behind a command; the expression that takes the command off, has a      *)
(* group of all but line ends and no anchor at its end: of the text behind *)
(* the command, its first line is what stays.                              *)
(***************************************************************************)
Behind(m) == m.word \notin {"", "/"}

Assemble(m, f) ==
  IF ~HasContent(f) THEN [word |-> m.word, prompt |-> NoPrompt, lines |-> m.lines]
  ELSE IF Behind(m)
    THEN [word |-> m.word, prompt |-> Prompt(f), lines |-> IF m.lines > 1 THEN 1 ELSE m.lines]
    ELSE [word |-> "", prompt |-> Prompt(f), lines |-> m.lines]

\* handleSendMessage knows a command by a blank behind it, which a trimmed
\* command that stands alone has not.
Workflow(t) == IF IsCommand(t.word) /\ (t.lines > 0 \/ t.prompt # NoPrompt) THEN t.word ELSE None

Nothing == [workflow |-> None, prompt |-> NoPrompt, lines |-> 0, typed |-> NoText, filter |-> NoFilter]

Sends(t, m, f) ==
  sent' = [workflow |-> Workflow(t), prompt |-> t.prompt, lines |-> t.lines, typed |-> m, filter |-> f]

----------------------------------------------------------------------------
ComposerInit ==
  /\ message = NoText
  /\ menu = [open |-> FALSE, line |-> 1]
  /\ label = None
  /\ panel = None
  /\ local = NoFilter
  /\ filter = NoFilter
  /\ empty = TRUE
  /\ busy = FALSE
  /\ sent = Nothing

\* The effects that follow a change of the text: the menu opens with a slash
\* and closes when the text is no longer one word with a slash, the button's
\* label goes with anything that is not its command.
Menu(m) ==
  IF m = Slash THEN [open |-> TRUE, line |-> 1]
  ELSE IF m.word = "" \/ m.blank THEN [open |-> FALSE, line |-> 1] ELSE menu

Label(m, l) == IF m.word = "/report" THEN l ELSE None

\* A text like the one that stands there changes nothing, no effect runs.
SetMessage(m, l) ==
  /\ message' = m
  /\ menu' = IF m = message THEN menu ELSE Menu(m)
  /\ label' = IF m = message THEN l ELSE Label(m, l)

Type ==
  /\ ~busy
  /\ \E m \in Messages \ {message} : SetMessage(m, label)
  /\ UNCHANGED <<panel, local, filter, empty, busy, sent>>

\* The keys of the open menu.
Arrow ==
  /\ ~busy /\ menu.open
  /\ \E i \in 1..Len(Commands) : menu' = [menu EXCEPT !.line = i]
  /\ UNCHANGED <<message, label, panel, local, filter, empty, busy, sent>>

Escape ==
  /\ ~busy /\ menu.open
  /\ menu' = [menu EXCEPT !.open = FALSE]
  /\ UNCHANGED <<message, label, panel, local, filter, empty, busy, sent>>

\* handleSlashCommand: the chosen line replaces whatever was typed.
PickSlash ==
  /\ menu.open
  /\ message' = Command(Commands[menu.line])
  /\ menu' = [open |-> FALSE, line |-> 1]
  /\ label' = Label(message', label)
  /\ UNCHANGED <<panel, local, filter, empty, busy, sent>>

Toggle ==
  /\ \E p \in {"commands", "filter"} : panel' = IF panel = p THEN None ELSE p
  /\ UNCHANGED <<message, menu, label, local, filter, empty, busy, sent>>

\* handleReportCommand, which a running turn does not keep away.
PickReport ==
  /\ panel = "commands"
  /\ \E i \in 1..Len(Commands) : SetMessage(Command(Commands[i]), Commands[i])
  /\ panel' = None
  /\ UNCHANGED <<local, filter, empty, busy, sent>>

----------------------------------------------------------------------------
\* updateFilter: the box's copy and the page's change together.
UpdateFilter(f) ==
  /\ local' = f
  /\ filter' = f
  /\ UNCHANGED <<message, menu, label, panel, empty, busy, sent>>

\* The other dimension's field goes with the dimension.
SetMode ==
  /\ panel = "filter"
  /\ \/ UpdateFilter([local EXCEPT !.mode = "service", !.machine = Unset])
     \/ UpdateFilter([local EXCEPT !.mode = "machine", !.service = Unset])

FillIn ==
  /\ panel = "filter"
  /\ \/ /\ local.mode = "service"
        /\ \E s \in Services \union {Unset} : UpdateFilter([local EXCEPT !.service = s])
     \/ /\ local.mode = "machine"
        /\ \E s \in Machines \union {Unset} : UpdateFilter([local EXCEPT !.machine = s])
     \/ \E b \in BOOLEAN : UpdateFilter([local EXCEPT !.time = b])

ClearFilter ==
  /\ panel = "filter" /\ HasContent(local)
  /\ UpdateFilter(NoFilter)

\* The cross of a tag.
DropTag ==
  \/ local.mode = "service" /\ local.service # Unset /\ UpdateFilter([local EXCEPT !.service = Unset])
  \/ local.mode = "machine" /\ local.machine # Unset /\ UpdateFilter([local EXCEPT !.machine = Unset])
  \/ local.time /\ UpdateFilter([local EXCEPT !.time = FALSE])

----------------------------------------------------------------------------
\* The welcome page has a box of its own; whenever it comes or goes, the box
\* is mounted anew: empty, with the page's filter.
Welcome == empty /\ ~busy

Mount(f) ==
  /\ message' = NoText
  /\ menu' = [open |-> FALSE, line |-> 1]
  /\ label' = None
  /\ panel' = None
  /\ local' = f
  /\ UNCHANGED filter

Redraw ==
  IF Welcome' # Welcome THEN Mount(filter)
  ELSE UNCHANGED <<message, menu, label, panel, local, filter>>

\* handleSubmit; the first message takes the welcome page away.
Submit ==
  /\ ~busy /\ HasText(message)
  /\ Sends(Assemble(message, local), message, local)
  /\ busy' = TRUE
  /\ empty' = FALSE
  /\ IF Welcome THEN Mount(filter)
     ELSE /\ message' = NoText
          /\ menu' = [open |-> FALSE, line |-> 1]
          /\ label' = None
          /\ UNCHANGED <<panel, local, filter>>

\* A suggestion of the welcome page goes to handleSendMessage directly, past
\* the box's draft and its filter.
Suggest ==
  /\ Welcome
  /\ LET m == [NoText EXCEPT !.lines = 1] IN Sends(Assemble(m, NoFilter), m, NoFilter)
  /\ busy' = TRUE
  /\ empty' = FALSE
  /\ Redraw

\* The turn is over.
Settle ==
  /\ busy
  /\ busy' = FALSE
  /\ sent' = Nothing
  /\ UNCHANGED empty
  /\ Redraw

\* handleClear, which leaves a running turn as it is.
Clear ==
  /\ ~Welcome
  /\ empty' = TRUE
  /\ UNCHANGED <<busy, sent>>
  /\ Redraw

\* handleLoadConversation.
Load ==
  /\ empty' = FALSE
  /\ busy' = FALSE
  /\ sent' = Nothing
  /\ Redraw

ComposerNext ==
  \/ Type \/ Arrow \/ Escape \/ PickSlash \/ Toggle \/ PickReport
  \/ SetMode \/ FillIn \/ ClearFilter \/ DropTag
  \/ Submit \/ Suggest \/ Settle \/ Clear \/ Load

ComposerSpec == ComposerInit /\ [][ComposerNext]_composerVars

----------------------------------------------------------------------------
ComposerTypeOK ==
  /\ message \in Messages
  /\ menu \in [open : BOOLEAN, line : 1..Len(Commands)]
  /\ label \in {None, "/report", "/inspect", "/vision"}
  /\ panel \in {None, "commands", "filter"}
  /\ {local, filter} \subseteq Filters
  /\ {empty, busy} \subseteq BOOLEAN
  /\ sent \in [workflow : {None, "/report", "/inspect", "/vision"}, prompt : [service : Services \union {Unset},
               machine : Machines \union {Unset}, time : BOOLEAN], lines : 0..MaxLines,
               typed : Messages, filter : Filters]

\* A message goes out as the box showed it.  A command that was typed or
\* chosen with something behind it, be it only the filter, is sent as that
\* command's workflow: the filter is put where the command is still
\* recognized (handleSubmit against the prefixes of handleSendMessage).  The
\* filter that is sent is the one whose tags stood above the box; and whatever
\* boxes came and went, the one there is shows the page's filter, which names
\* fields of one dimension only.
SentAsShown ==
  /\ IsCommand(sent.typed.word) /\ (sent.typed.lines > 0 \/ HasContent(sent.filter))
       => sent.workflow = sent.typed.word
  /\ {sent.prompt.service, sent.prompt.machine} \ {Unset} = Tags(sent.filter)
  /\ local = filter
  /\ (IF filter.mode = "service" THEN filter.machine ELSE filter.service) = Unset

\* "Insert filter prompt after the command": every line that was typed is
\* sent (handleSubmit, ChatInput.tsx).
EveryLineSent ==
  sent.lines >= sent.typed.lines
=============================================================================
