------------------------------ MODULE Sessions -------------------------------
(***************************************************************************)
(* One session in the store and the requests of the chat server that work  *)
(* on it (cmd/hub/main.go: chatHandler, submitTaskHandler,                 *)
(* runSubmittedTask, saveSessionResult; hub/store/api.go: ShareSession,    *)
(* SaveSnapshot, DeleteSession), over either implementation of the         *)
(* interface in hub/store/store.go.                                        *)
(*                                                                         *)
(* A turn (a chat, or a submitted task) makes sure the session exists,     *)
(* stamps it with the model, loads the messages as its history, adds its   *)
(* question, runs the agents, and adds the answer, the events and a        *)
(* snapshot before it counts its tokens in the session's metadata.  Those  *)
(* changes of the metadata, and sharing (also by the feedback handler),    *)
(* read the session, change it and give the whole of it to UpdateSession.  *)
(*                                                                         *)
(* On SQLite (sqlitestore.go, db.go) every call is one statement.          *)
(* UpdateSession writes the columns title, agent_type and metadata of the  *)
(* row, if there is one; messages and events refer to the row, which       *)
(* refuses them when it is missing and takes them along when it goes.  On  *)
(* Redis (redisstore.go) the session, its messages, events, snapshot and   *)
(* every share link are keys of their own: UpdateSession reads the session *)
(* again, merges, writes it and then adds it to the index; the lists are   *)
(* read, extended and written; deleting takes five commands, which leave   *)
(* the links.  Reading a list may fail on Redis; the other commands and     *)
(* statements do not.  The hub may restart between any two of them, and    *)
(* what was under way is not taken up again.                               *)
(*                                                                         *)
(* Of a session's fields the properties tell apart three: the metadata     *)
(* with the status of the submitted task and the turns whose tokens it     *)
(* counts, the share link, and whether the user is known.  One message     *)
(* stands for all that a turn's agents said, and a request names what it   *)
(* stores: its messages and events, or its share link.                     *)
(***************************************************************************)
EXTENDS Naturals, Sequences, FiniteSets

CONSTANTS
  Requests,   \* requests for the session, each served once
  Kinds,      \* bound: per request, what it may ask for
  MaxActive,  \* bound: requests under way at a time
  Outcomes,   \* bound: what may come of a run, out of AllOutcomes
  Earlier,    \* bound: the turn of it that ended before the hub started, or NoOne
  Unreliable, \* bound: where reading a list may fail
  HasScene,   \* the hub is configured with a scene
  NoOne       \* no link

AllKinds == {"chat", "task", "share", "post", "delete"}

\* A run may have messages worth saving, events, and among them some that a
\* snapshot shows: one that failed at once has only a note of it.
AllOutcomes == {said \in SUBSET {"words", "events", "cards"} :
                  "cards" \in said => "events" \in said}

ASSUME KindsAssumption == Kinds \in [Requests -> SUBSET AllKinds]
ASSUME BoundsAssumption ==
  MaxActive \in Nat /\ Outcomes \subseteq AllOutcomes
  /\ Earlier \subseteq Requests \cup {NoOne}
ASSUME SceneAssumption == HasScene \in BOOLEAN
ASSUME NoOneAssumption == NoOne \notin Requests

VARIABLES
  backend,    \* the SessionStore chosen at startup
  row,        \* the session, or NoRow
  indexed,    \* Redis: the session is a member of idx:session
  messages,   \* its messages, oldest first
  events,     \* the turns whose events are stored
  snapshot,   \* there is a snapshot
  links,      \* Redis: the sharetoken keys
  req,        \* the requests: where each is and what it holds
  handed,     \* history: links handed out since the last deletion
  begun,      \* history: turns begun since the last deletion
  crossed,    \* history: those of them that another turn overlapped
  lost,       \* history: how something was written over unread
  met,        \* history: a deletion and another request overlapped
  crashed     \* history: the server was restarted

conversation == <<messages, events, snapshot>>
store == <<row, indexed, conversation, links>>
history == <<handed, begun, crossed, lost, met, crashed>>
vars == <<backend, store, req, history>>

\* The JSON object in the metadata field; given says that it is not "" or "{}".
Meta == [status : {"none", "running", "completed"},
         counted : SUBSET Requests, given : BOOLEAN]
NoMeta == [status |-> "none", counted |-> {}, given |-> FALSE]

Row == [exists : BOOLEAN, meta : Meta, link : Requests \cup {NoOne},
        owned : BOOLEAN]
NoRow == [exists |-> FALSE, meta |-> NoMeta, link |-> NoOne, owned |-> FALSE]

Message == [turn : Requests, who : {"user", "assistant"}]

\* Where a request is: the stages of a turn in their order, those of sharing
\* and of deleting; "cut" by a restart.
Updates == {"stamp", "start", "sum", "finish", "link"}
Lists == {"ask", "answer", "events"}
Deletes == {"delRow", "delSnapshot", "delMessages", "delEvents", "delIndex"}
Stages == {"idle", "ensure", "create", "history", "run", "snapshot", "find",
           "token", "respond", "done", "cut"} \cup Updates \cup Lists \cup Deletes
Phases == {"get", "merge", "set", "index"}

Request == [kind : AllKinds \cup {NoOne}, at : Stages, phase : Phases,
            copy : Row, existing : Row, list : Seq(Message),
            said : AllOutcomes]
Fresh == [kind |-> NoOne, at |-> "idle", phase |-> "get",
          copy |-> NoRow, existing |-> NoRow, list |-> <<>>,
          said |-> {}]

TypeOK ==
  /\ backend \in {"redis", "sqlite"}
  /\ row \in Row
  /\ indexed \in BOOLEAN
  /\ messages \in Seq(Message)
  /\ events \in Seq(Message)
  /\ snapshot \in BOOLEAN
  /\ links \subseteq Requests
  /\ req \in [Requests -> Request]
  /\ handed \subseteq Requests
  /\ begun \subseteq Requests
  /\ crossed \subseteq Requests
  /\ lost \subseteq {"create", "copy", "merge", "list", "unread", "share",
                     "orphan"}
  /\ met \in BOOLEAN
  /\ crashed \in BOOLEAN

\* A turn that the session had before the hub was started, and that has ended.
Ended(e) ==
  [Fresh EXCEPT !.kind = "chat", !.at = "done", !.said = {"words", "events"}]

\* The hub starts with a new session or with one that has had a turn.
Init ==
  /\ backend \in {"redis", "sqlite"}
  /\ \E e \in Earlier :
       /\ row = IF e = NoOne THEN NoRow
                ELSE [exists |-> TRUE, owned |-> TRUE, link |-> NoOne,
                      meta |-> [status |-> "none", counted |-> {e},
                                given |-> TRUE]]
       /\ indexed = (e # NoOne /\ backend = "redis")
       /\ messages = IF e = NoOne THEN <<>>
                     ELSE <<[turn |-> e, who |-> "user"],
                            [turn |-> e, who |-> "assistant"]>>
       /\ events = IF e = NoOne THEN <<>>
                   ELSE <<[turn |-> e, who |-> "assistant"]>>
       /\ req = [r \in Requests |-> IF r = e THEN Ended(e) ELSE Fresh]
       /\ begun = Requests \cap {e}
  /\ snapshot = FALSE
  /\ links = {}
  /\ handed = {}
  /\ crossed = {}
  /\ lost = {}
  /\ met = FALSE
  /\ crashed = FALSE

-----------------------------------------------------------------------------
(* The way of a request through its stages.                                *)

Redis == backend = "redis"

Turns == {"chat", "task"}

\* Requests under way.
Active == {r \in Requests : req[r].at \notin {"idle", "done", "cut"}}

FirstStage(kind) ==
  CASE kind \in Turns -> "ensure"
    [] kind = "share" -> "find"
    [] kind = "post" -> "snapshot"
    [] kind = "delete" -> "delRow"

\* What saveSessionResult saves first of a run.
ToSave(said) ==
  CASE "words" \in said -> "answer"
    [] "events" \in said /\ "words" \notin said -> "events"
    [] said \cap {"words", "events"} = {} -> "sum"

\* The stage that follows r's.  Only a submitted task has a status to mark.
Following(r) ==
  CASE req[r].at = "create" -> "stamp"
    [] req[r].at = "stamp" -> "history"
    [] req[r].at = "history" -> "ask"
    [] req[r].at = "ask" -> IF req[r].kind = "task" THEN "start" ELSE "run"
    [] req[r].at = "start" -> "run"
    [] req[r].at = "answer" -> ToSave(req[r].said \ {"words"})
    [] req[r].at = "events" ->
         IF "cards" \in req[r].said THEN "snapshot" ELSE "sum"
    [] req[r].at = "snapshot" -> IF req[r].kind = "post" THEN "done" ELSE "sum"
    [] req[r].at = "sum" -> IF req[r].kind = "task" THEN "finish" ELSE "done"
    [] req[r].at = "token" -> "link"
    [] req[r].at = "link" -> "respond"
    [] OTHER -> "done"

\* The first call of a stage: sharing has read the session before it, a
\* session is created unread, and only Redis' lists are read to be extended.
FirstPhase(stage) ==
  CASE stage = "create" -> "set"
    [] stage = "link" -> IF Redis THEN "merge" ELSE "set"
    [] stage \in Lists -> IF Redis THEN "get" ELSE "set"
    [] OTHER -> "get"

\* A request takes to its next stage the session only to share it and the
\* messages only as the history to ask with.
Enters(q, stage) ==
  [q EXCEPT !.at = stage, !.phase = FirstPhase(stage),
            !.copy = IF stage \in {"token", "link", "respond"} THEN @ ELSE NoRow,
            !.existing = NoRow,
            !.list = IF stage = "ask" THEN @ ELSE <<>>]

Goto(r, stage) == req' = [req EXCEPT ![r] = Enters(@, stage)]
Hold(r, q, stage) == req' = [req EXCEPT ![r] = Enters(q, stage)]
Phase(r, phase) == req' = [req EXCEPT ![r].phase = phase]

\* The turns that overlap when r begins one: r and those under way.
Meeting(r) ==
  LET others == {q \in Active : req[q].kind \in Turns}
  IN IF others = {} THEN {} ELSE others \cup {r}

Arrive(r) ==
  /\ req[r].at = "idle"
  /\ Cardinality(Active) < MaxActive
  /\ \E kind \in Kinds[r] :
       /\ Hold(r, [Fresh EXCEPT !.kind = kind], FirstStage(kind))
       /\ handed' = IF kind = "delete" THEN {} ELSE handed
       /\ begun' = IF kind = "delete" THEN {}
                   ELSE IF kind \in Turns THEN begun \cup {r} ELSE begun
       /\ crossed' = IF kind = "delete" THEN {}
                     ELSE IF kind \in Turns THEN crossed \cup Meeting(r)
                     ELSE crossed
       /\ met' = (met \/ \E q \in Active : "delete" \in {kind, req[q].kind})
  /\ UNCHANGED <<backend, store, lost, crashed>>

-----------------------------------------------------------------------------
(* The session itself.                                                     *)

\* ensureSession: GetSession ...
Ensure(r) ==
  /\ req[r].at = "ensure"
  /\ Goto(r, IF row.exists THEN "stamp" ELSE "create")
  /\ UNCHANGED <<backend, store, history>>

\* ... and CreateSession, with a scene in the metadata or without.  Redis
\* writes over a session that somebody else created meanwhile, SQLite's
\* INSERT fails, which is ignored.
Create(r) ==
  /\ req[r].at = "create"
  /\ req[r].phase = "set"
  /\ row' = IF ~Redis /\ row.exists THEN row
            ELSE [exists |-> TRUE, meta |-> [NoMeta EXCEPT !.given = HasScene],
                  link |-> NoOne, owned |-> TRUE]
  /\ lost' = IF Redis /\ row.exists THEN lost \cup {"create"} ELSE lost
  /\ IF Redis THEN Phase(r, "index") ELSE Goto(r, Following(r))
  /\ UNCHANGED <<backend, indexed, conversation, links,
                 handed, begun, crossed, met, crashed>>

\* setSessionRaw, second command.
Index(r) ==
  /\ req[r].phase = "index"
  /\ indexed' = TRUE
  /\ Goto(r, Following(r))
  /\ UNCHANGED <<backend, row, conversation, links, history>>

\* GetSession before a change: without a session stampSessionModel and
\* markSessionTaskStatus give up, saveSessionResult goes on with a session
\* that has nothing but its id.
Read(r) ==
  /\ req[r].at \in Updates
  /\ req[r].phase = "get"
  /\ IF row.exists \/ req[r].at = "sum"
     THEN req' = [req EXCEPT ![r].copy = row,
                             ![r].phase = IF Redis THEN "merge" ELSE "set"]
     ELSE Goto(r, Following(r))
  /\ UNCHANGED <<backend, store, history>>

\* Mutant of Tokens: token_usage is replaced, as the comment says.
TokensOfRun(r, counted) == {r}

\* enrichSessionTokens: the run's total is added to token_usage.
Tokens(r, counted) == counted \cup {r}

\* The session that is given to UpdateSession: with the model's name, the
\* task's status or, with events, their tokens; or a share link.
Edited(r) ==
  LET meta == [req[r].copy.meta EXCEPT !.given = TRUE]
  IN [req[r].copy EXCEPT !.exists = TRUE, !.meta =
        CASE req[r].at = "stamp" -> meta
          [] req[r].at = "start" -> [meta EXCEPT !.status = "running"]
          [] req[r].at = "finish" -> [meta EXCEPT !.status = "completed"]
          [] req[r].at = "sum" /\ req[r].copy.exists
             /\ "events" \in req[r].said ->
               [meta EXCEPT !.counted = Tokens(r, @)]
          [] OTHER -> @]

\* Redis' UpdateSession: GetSession again ...
Reread(r) ==
  /\ req[r].phase = "merge"
  /\ req' = [req EXCEPT ![r].existing = row, ![r].phase = "set"]
  /\ UNCHANGED <<backend, store, history>>

\* Mutant of Merged: the session is written as it was given.
MergedNot(old, new) == new

\* ... and the fields of new that are not empty over those of old.
Merged(old, new) ==
  IF ~old.exists THEN new
  ELSE [exists |-> TRUE,
        meta |-> IF new.meta.given THEN new.meta ELSE old.meta,
        link |-> IF new.link # NoOne THEN new.link ELSE old.link,
        owned |-> new.owned \/ old.owned]

\* What r writes over unread: metadata stored since it took its copy; on
\* Redis also anything stored since it read again, and another share link.
Undone(r) ==
  {how \in {"copy", "merge", "share"} :
     CASE how = "copy" -> req[r].copy.meta # row.meta
       [] how = "merge" -> Redis /\ req[r].existing # row
       [] how = "share" -> Redis /\ NoOne \notin {req[r].copy.link, row.link}
                                 /\ req[r].copy.link # row.link}

\* UpdateSession, the write.
Update(r) ==
  /\ req[r].at \in Updates
  /\ req[r].phase = "set"
  /\ IF Redis
     THEN /\ row' = Merged(req[r].existing, Edited(r))
          /\ Phase(r, "index")
     ELSE /\ row' = IF row.exists THEN [row EXCEPT !.meta = Edited(r).meta]
                    ELSE row
          /\ Goto(r, Following(r))
  /\ lost' = lost \cup Undone(r)
  /\ UNCHANGED <<backend, indexed, conversation, links,
                 handed, begun, crossed, met, crashed>>

-----------------------------------------------------------------------------
(* Messages, events and the snapshot of a turn.                            *)

\* What reading a list gives: on Redis a GET that fails is taken for one that
\* found none.
Got(r, list) ==
  {list} \cup IF Redis /\ req[r].at \in Unreliable THEN {<<>>} ELSE {}

\* GetMessages: what the agents will be told of the turns before.
LoadHistory(r) ==
  /\ req[r].at = "history"
  /\ \E list \in Got(r, messages) : Hold(r, [req[r] EXCEPT !.list = list], "ask")
  /\ UNCHANGED <<backend, store, history>>

\* The list that a stage extends and what it adds.
Stored(r) == IF req[r].at = "events" THEN events ELSE messages
Added(r) ==
  [turn |-> r, who |-> IF req[r].at = "ask" THEN "user" ELSE "assistant"]

\* AddMessage and AddSessionEvents on Redis, first command.
ReadList(r) ==
  /\ req[r].at \in Lists
  /\ req[r].phase = "get"
  /\ \E list \in Got(r, Stored(r)) :
       /\ req' = [req EXCEPT ![r].list = list, ![r].phase = "set"]
       /\ lost' = IF list = Stored(r) THEN lost ELSE lost \cup {"unread"}
  /\ UNCHANGED <<backend, store, handed, begun, crossed, met, crashed>>

\* Mutant of Extended: each list holds what was added last.
ExtendedAnew(r) == IF Redis THEN <<Added(r)>> ELSE Append(Stored(r), Added(r))

\* The list with what r adds: on Redis, to what r read of it.
Extended(r) ==
  Append(IF Redis THEN req[r].list ELSE Stored(r), Added(r))

\* Its second command; on SQLite the INSERT, which needs the session.
Extend(r) ==
  /\ req[r].at \in Lists
  /\ req[r].phase = "set"
  /\ LET new == IF Redis \/ row.exists THEN Extended(r) ELSE Stored(r)
     IN IF req[r].at = "events"
        THEN events' = new /\ UNCHANGED messages
        ELSE messages' = new /\ UNCHANGED events
  /\ lost' = IF Redis /\ req[r].list # Stored(r) THEN lost \cup {"list"}
             ELSE lost
  /\ Goto(r, Following(r))
  /\ UNCHANGED <<backend, row, indexed, snapshot, links,
                 handed, begun, crossed, met, crashed>>

\* The agents ran.  A streamed run and a submitted one are saved whatever
\* came of them, be it nothing; a failed plain one is not.  A submitted one
\* never fails: collectBackgroundEvents returns no error, so that the status
\* "failed" (main.go:1669) is not reached.
Run(r) ==
  /\ req[r].at = "run"
  /\ \/ \E said \in Outcomes :
          Hold(r, [req[r] EXCEPT !.said = said], ToSave(said))
     \/ req[r].kind = "chat" /\ Goto(r, "done")
  /\ UNCHANGED <<backend, store, history>>

\* SaveSnapshot, by a turn or posted by the page.  Redis does not ask whether
\* there is a session.
SaveSnapshot(r) ==
  /\ req[r].at = "snapshot"
  /\ snapshot' = (Redis \/ row.exists)
  /\ lost' = IF Redis /\ ~row.exists THEN lost \cup {"orphan"} ELSE lost
  /\ Goto(r, Following(r))
  /\ UNCHANGED <<backend, row, indexed, messages, events, links,
                 handed, begun, crossed, met, crashed>>

-----------------------------------------------------------------------------
(* Sharing, deleting, restarting.                                          *)

\* ShareSession: a session that has a link is shared by it.
Find(r) ==
  /\ req[r].at = "find"
  /\ IF ~row.exists THEN Goto(r, "done")
     ELSE IF row.link # NoOne
     THEN Hold(r, [req[r] EXCEPT !.copy = row], "respond")
     ELSE Hold(r, [req[r] EXCEPT !.copy = [row EXCEPT !.link = r]], "token")
  /\ UNCHANGED <<backend, store, history>>

SetShareToken(r) ==
  /\ req[r].at = "token"
  /\ IF Redis THEN links' = links \cup {r} /\ UNCHANGED <<row, lost>>
     ELSE /\ row' = IF row.exists THEN [row EXCEPT !.link = r] ELSE row
          /\ lost' = IF row.link # NoOne THEN lost \cup {"share"} ELSE lost
          /\ UNCHANGED links
  /\ Goto(r, Following(r))
  /\ UNCHANGED <<backend, indexed, conversation, handed, begun, crossed, met, crashed>>

\* The answer with the link.
Respond(r) ==
  /\ req[r].at = "respond"
  /\ handed' = handed \cup {req[r].copy.link}
  /\ Goto(r, "done")
  /\ UNCHANGED <<backend, store, begun, crossed, lost, met, crashed>>

\* DeleteSession on SQLite: the row, and with it what refers to it.
DeleteRow(r) ==
  /\ req[r].at = "delRow"
  /\ ~Redis
  /\ row' = NoRow
  /\ messages' = <<>>
  /\ events' = <<>>
  /\ snapshot' = FALSE
  /\ Goto(r, "done")
  /\ UNCHANGED <<backend, indexed, links, history>>

\* Mutant of Deletion: the events' key is forgotten.
DeletionKeepsEvents ==
  [delRow |-> "delSnapshot", delSnapshot |-> "delMessages",
   delMessages |-> "delIndex", delIndex |-> "done"]

\* The order of DeleteSession's commands on Redis.
Deletion ==
  [delRow |-> "delSnapshot", delSnapshot |-> "delMessages",
   delMessages |-> "delEvents", delEvents |-> "delIndex", delIndex |-> "done"]

\* One of them.
DeleteKey(r) ==
  /\ req[r].at \in Deletes
  /\ Redis
  /\ row' = IF req[r].at = "delRow" THEN NoRow ELSE row
  /\ snapshot' = (snapshot /\ req[r].at # "delSnapshot")
  /\ messages' = IF req[r].at = "delMessages" THEN <<>> ELSE messages
  /\ events' = IF req[r].at = "delEvents" THEN <<>> ELSE events
  /\ indexed' = (indexed /\ req[r].at # "delIndex")
  /\ Goto(r, Deletion[req[r].at])
  /\ UNCHANGED <<backend, links, history>>

\* A restart of the hub ends all requests where they are.
Restart ==
  /\ ~crashed
  /\ Active # {}
  /\ req' = [r \in Requests |-> IF r \in Active THEN [Fresh EXCEPT !.at = "cut"]
                                ELSE req[r]]
  /\ crashed' = TRUE
  /\ UNCHANGED <<backend, store, handed, begun, crossed, lost, met>>

Turn(r) ==
  \/ Ensure(r) \/ Create(r) \/ Index(r) \/ Read(r) \/ Reread(r) \/ Update(r)
  \/ LoadHistory(r) \/ ReadList(r) \/ Extend(r) \/ Run(r) \/ SaveSnapshot(r)

ShareOrDelete(r) ==
  Find(r) \/ SetShareToken(r) \/ Respond(r) \/ DeleteRow(r) \/ DeleteKey(r)

Next ==
  \/ \E r \in Requests : Arrive(r) \/ Turn(r) \/ ShareOrDelete(r)
  \/ Restart

Spec == Init /\ [][Next]_vars

-----------------------------------------------------------------------------
(* What the server must guarantee.  Nobody holds a session across its      *)
(* requests, so each property names the ways of writing over unread, and   *)
(* the restart or overlap with a deletion, that break it; the others do    *)
(* not.                                                                    *)

Unharmed(hows) == ~met /\ lost \cap hows = {}

\* Where a list has the messages of turn t.
Of(t, list) == {i \in DOMAIN list : list[i].turn = t}

\* A list has a question of turn t and no more; it has its answer after it.
AsksOnly(t, list) ==
  \E q \in DOMAIN list : Of(t, list) = {q} /\ list[q].who = "user"
Answers(t, list) ==
  \E q, a \in DOMAIN list : /\ q < a /\ Of(t, list) = {q, a}
                            /\ list[q].who = "user" /\ list[a].who = "assistant"

\* "Load conversation history for follow-up context" (main.go:823): what later
\* turns are told of one that ended is its question and after it its answer,
\* each once, and its events are stored; nobody is told a question before it is
\* asked.  It takes a failed read of a Redis list to lose a turn that no other
\* overlapped, whatever the others did to each other; of turns that overlap,
\* only extensions of a list that cross lose any.
TurnsKept ==
  Unharmed({"unread"}) =>
    \A t \in begun \ (IF "list" \in lost THEN crossed ELSE {}) :
      /\ req[t].at = "done" =>
           /\ IF "words" \in req[t].said THEN Answers(t, messages)
              ELSE AsksOnly(t, messages)
           /\ IF "events" \in req[t].said
              THEN \E e \in DOMAIN events : Of(t, events) = {e}
              ELSE Of(t, events) = {}
      /\ req[t].at = "ask" => Of(t, req[t].list) = {}

\* "Accumulates correctly over the turns of a conversation" (main.go:1874,
\* in Chinese), and the status of a submitted task: as long as nobody writes
\* metadata back that is older than what is stored, every answered turn is
\* counted once it ended, and a session is "running" only while a task is.
Accounted ==
  Unharmed({"create", "copy"}) =>
    /\ \A t \in begun : (req[t].at = "done" /\ "events" \in req[t].said) =>
         t \in row.meta.counted
    /\ row.meta.status = "running" =>
         crashed \/ \E t \in Active : req[t].kind = "task"

\* A share link leads to a session: on Redis by its own key, on SQLite by the
\* row's column.
Leads(l) == row.exists /\ IF Redis THEN l \in links ELSE row.link = l

\* A link that was handed out leads to the session, and the next one to share
\* it gets the same, even when turns write old copies of the session back:
\* Redis merges "to avoid overwriting" (redisstore.go:353) and SQLite's
\* UPDATE leaves the column alone.
LinksLast ==
  Unharmed({"create", "merge", "share"}) =>
    \A l \in handed : Leads(l) /\ row.link = l

\* At rest, what is stored belongs to a session that its user sees in the
\* list: a turn leaves no session without, a deletion no messages, events or
\* snapshot (redisstore.go:388-395); on SQLite not even one that met a turn.
NothingStray ==
  LET nothing == messages = <<>> /\ events = <<>> /\ ~snapshot
  IN /\ (~Redis /\ ~row.exists) => nothing
     /\ (Active = {} /\ ~crashed /\ Unharmed({"orphan"})) =>
          IF row.exists THEN row.owned /\ indexed = Redis
          ELSE nothing /\ ~indexed
=============================================================================
