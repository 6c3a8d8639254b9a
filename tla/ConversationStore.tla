------------------------- MODULE ConversationStore -------------------------
(***************************************************************************)
(* Where conversations are kept: the browser's list of records             *)
(* (conversationStorage.ts), the server's sessions with their snapshots,   *)
(* the chat page's autosave and the history panel that lists and opens     *)
(* both (ConversationHistory.tsx).  What a conversation contains is        *)
(* reduced to its number of turns and the sessions they were held in.      *)
(***************************************************************************)
EXTENDS Naturals, SequencesExt

CONSTANTS
  Cap,           \* MAX_CONVERSATIONS, 50 in the code
  QuotaKeep,     \* records kept when the storage is full, 10 in the code
  MaxSessions,   \* bound: sessions the server opens
  MaxTurns,      \* bound: turns held in a behaviour
  MaxClicks      \* bound: clicks in the panel, shares, clears and reloads

ASSUME StoreAssumption ==
  /\ Cap \in Nat \ {0} /\ QuotaKeep \in Nat \ {0} /\ QuotaKeep <= Cap
  /\ MaxSessions \in Nat /\ MaxTurns \in Nat /\ MaxClicks \in Nat

Sessions == 1 .. MaxSessions
NoSession == 0
\* Records are named conv_<time>_<random>, sessions by the server's id.
LocalId(n) == [in |-> "local", n |-> n]
ServerId(s) == [in |-> "server", n |-> s]
NoId == [in |-> "none", n |-> 0]
Ids == [in : {"none", "local", "server"}, n : Nat]

\* What a page, a record or a snapshot holds.
Contents == [sess : Sessions \cup {NoSession}, turns : Nat, of : SUBSET Sessions]
Nothing == [sess |-> NoSession, turns |-> 0, of |-> {}]
Records == [id : Nat \ {0}, has : Contents]

VARIABLES
  local,       \* the records in localStorage, newest first
  created,     \* records created so far
  server,      \* per session its turns and its snapshot
  held,        \* turns held so far
  page,        \* what the chat page shows
  conv,        \* currentConversationId
  running,     \* the session of the open stream, or NoSession
  announced,   \* the open stream has named its session
  processing,  \* isProcessing
  restoring,   \* the URL's session that has been asked for, or NoSession
  timer,       \* the autosave is armed
  posts,       \* snapshots on their way to the server
  shown,       \* the panel's list: sessions and records
  loads,       \* lists asked for: the records known when asked
  asked,       \* lists asked for so far
  opening,     \* conversations asked for
  clicks,
  mixed,       \* history: switched under an open stream or a restore
  copied,      \* history: reloaded or imported
  unstored     \* history: the storage was full

browser == <<local, created>>
chat == <<page, conv, running, announced, processing, restoring, held>>
panel == <<shown, loads, asked, opening>>
notes == <<mixed, copied, unstored>>
vars == <<browser, server, chat, timer, posts, panel, clicks, notes>>

LocalIds == {local[i].id : i \in DOMAIN local}
RecordOf(id) == CHOOSE i \in DOMAIN local : local[i].id = id

TypeOK ==
  /\ local \in Seq(Records) /\ Len(local) <= Cap
  /\ created \in Nat /\ held \in 0 .. MaxTurns
  /\ server \in [Sessions -> [turns : Nat, snap : Contents]]
  /\ page \in Contents /\ conv \in Ids
  /\ {running, restoring} \subseteq Sessions \cup {NoSession}
  /\ {announced, processing, timer} \subseteq BOOLEAN
  /\ posts \subseteq Contents
  /\ shown \in [server : SUBSET Sessions, local : SUBSET Nat]
  /\ loads \subseteq [load : Nat, local : SUBSET Nat]
  /\ asked \in Nat /\ clicks \in 0 .. MaxClicks
  /\ opening \subseteq Ids
  /\ {mixed, copied, unstored} \subseteq BOOLEAN

\* Sessions of earlier visits may be known, records of them are gone.
Init ==
  /\ local = <<>> /\ created = 0 /\ held = 0
  /\ \E earlier \in SUBSET Sessions :
       server = [s \in Sessions |->
                   [turns |-> IF s \in earlier THEN 1 ELSE 0, snap |-> Nothing]]
  /\ page = Nothing /\ conv = NoId
  /\ running = NoSession /\ announced = FALSE /\ processing = FALSE /\ restoring = NoSession
  /\ timer = FALSE /\ posts = {}
  /\ shown = [server |-> {}, local |-> {}]
  /\ loads = {} /\ asked = 0 /\ opening = {} /\ clicks = 0
  /\ mixed = FALSE /\ copied = FALSE /\ unstored = FALSE

Busy == running # NoSession
Known(s) == server[s].turns > 0
Click == clicks < MaxClicks /\ clicks' = clicks + 1

-----------------------------------------------------------------------------
(* The chat page. *)

\* A message is sent: to the page's session, or to a new one.  Whatever changes
\* what the page shows disarms the autosave and, unless a stream is open, arms
\* it again.
StartTurn(s) ==
  /\ ~processing /\ ~Busy /\ held < MaxTurns
  /\ IF page.sess = NoSession THEN ~Known(s) ELSE s = page.sess
  /\ held' = held + 1
  /\ running' = s /\ announced' = FALSE /\ processing' = TRUE
  /\ page' = [page EXCEPT !.turns = @ + 1]
  /\ timer' = FALSE
  /\ UNCHANGED <<browser, server, conv, restoring, posts, panel, clicks, notes>>

\* Its turn is one of the session's.
Heard == server' = [server EXCEPT ![running].turns = @ + 1]

\* The stream begins: the server has the session with the turn, and names it to
\* the page, whose autosave depends on it.
Announce ==
  /\ Busy /\ ~announced
  /\ announced' = TRUE
  /\ Heard
  /\ page' = [page EXCEPT !.sess = running]
  /\ timer' = IF page.sess = running THEN timer ELSE ~processing /\ page.turns > 0
  /\ UNCHANGED <<browser, conv, running, processing, restoring, held, posts, panel, clicks, notes>>

\* Mutant of EndTurn: only a conversation that has no record yet is saved.
EndTurnSavesOnce ==
  /\ Busy /\ announced
  /\ running' = NoSession /\ announced' = FALSE /\ processing' = FALSE
  /\ page' = [sess |-> running, turns |-> page.turns + 1, of |-> page.of \cup {running}]
  /\ timer' = (conv = NoId)
  /\ UNCHANGED <<browser, server, conv, restoring, held, posts, panel, clicks, notes>>

\* The stream ends: its turn is on the page, which is given the session once more.
EndTurn ==
  /\ Busy /\ announced
  /\ running' = NoSession /\ announced' = FALSE /\ processing' = FALSE
  /\ page' = [sess |-> running, turns |-> page.turns + 1, of |-> page.of \cup {running}]
  /\ timer' = TRUE
  /\ UNCHANGED <<browser, server, conv, restoring, held, posts, panel, clicks, notes>>

\* The stream is lost.  Before it named the session the server may or may not
\* have begun the turn; the page is not told whose it was.
FailTurn ==
  /\ Busy
  /\ running' = NoSession /\ announced' = FALSE /\ processing' = FALSE
  /\ UNCHANGED server \/ (~announced /\ Heard)
  /\ page' = [page EXCEPT !.turns = @ + 1,
                          !.of = IF announced THEN @ \cup {running} ELSE @]
  /\ timer' = TRUE
  /\ UNCHANGED <<browser, conv, restoring, held, posts, panel, clicks, notes>>

Welcome == page.turns = 0 /\ ~processing

\* handleClear: it forgets neither the open stream nor that it is open.
Clear ==
  /\ ~Welcome /\ Click
  /\ page' = Nothing /\ conv' = NoId
  /\ timer' = FALSE
  /\ mixed' = (mixed \/ Busy)
  /\ UNCHANGED <<browser, server, running, announced, processing, restoring, held, posts, panel,
                 copied, unstored>>

\* The page is left and opened again under its URL.  An autosave that was armed
\* never happens.
Reload ==
  /\ ~Welcome /\ Click
  /\ page' = [Nothing EXCEPT !.sess = page.sess]
  /\ conv' = NoId
  /\ running' = NoSession /\ announced' = FALSE /\ processing' = FALSE /\ timer' = FALSE
  /\ restoring' = page.sess
  /\ shown' = [server |-> {}, local |-> {}]
  /\ loads' = {} /\ opening' = {}
  /\ copied' = TRUE
  /\ UNCHANGED <<browser, server, held, posts, asked, mixed, unstored>>

FromServer(s) == [sess |-> s, turns |-> 2 * server[s].turns, of |-> {s}]

\* The answer for the URL's session, whatever the page shows by now; it sets
\* neither the session's id nor that of a record.  A page that has turned to
\* something else is mixed up by it.
Restored ==
  /\ restoring # NoSession /\ restoring' = NoSession
  /\ \/ Known(restoring) /\ page' = [FromServer(restoring) EXCEPT !.sess = page.sess]
     \/ page' = [page EXCEPT !.sess = NoSession]
  /\ timer' = (~processing /\ page'.turns > 0)
  /\ mixed' = (mixed \/ Busy \/ page.turns > 0 \/ page.sess # restoring)
  /\ UNCHANGED <<browser, server, conv, running, announced, processing, held, posts, panel, clicks,
                 copied, unstored>>

-----------------------------------------------------------------------------
(* The records. *)

\* conversations.splice(MAX_CONVERSATIONS).
Capped(records) == IF Len(records) > Cap THEN SubSeq(records, 1, Cap) ELSE records

\* saveConversation: what is stored, whether the storage is full, and whether
\* the save throws.  A full storage keeps the newest QuotaKeep records if there
\* are more, and nothing of this save otherwise.
Saves(records) ==
  {[local |-> Capped(records), full |-> FALSE, throws |-> FALSE]} \cup
  (IF Len(Capped(records)) > QuotaKeep
   THEN {[local |-> SubSeq(records, 1, QuotaKeep), full |-> TRUE, throws |-> FALSE],
         [local |-> local, full |-> TRUE, throws |-> TRUE]}
   ELSE {[local |-> local, full |-> TRUE, throws |-> FALSE]})

Post == posts' = IF page.sess = NoSession THEN posts ELSE posts \cup {page}

\* Mutant of SaveNew: the id of the record is not noted.
SaveNewForgets ==
  /\ timer /\ conv = NoId
  /\ created' = created + 1
  /\ \E save \in Saves(<<[id |-> created + 1, has |-> page]>> \o local) :
       /\ local' = save.local
       /\ unstored' = (unstored \/ save.full)
       /\ timer' = FALSE
       /\ IF save.throws THEN UNCHANGED posts ELSE Post
  /\ UNCHANGED <<server, chat, panel, clicks, mixed, copied>>

\* The timer fires on a conversation without an id: a record is created, and its
\* id, which is new to the effect, arms the timer once more.
SaveNew ==
  /\ timer /\ conv = NoId
  /\ created' = created + 1
  /\ \E save \in Saves(<<[id |-> created + 1, has |-> page]>> \o local) :
       /\ local' = save.local
       /\ unstored' = (unstored \/ save.full)
       /\ IF save.throws
          THEN timer' = FALSE /\ UNCHANGED <<conv, posts>>
          ELSE timer' = TRUE /\ conv' = LocalId(created + 1) /\ Post
  /\ UNCHANGED <<server, page, running, announced, processing, restoring, held, panel, clicks, mixed, copied>>

\* Mutant of SaveAgain: storing the record arms the timer again.
SaveAgainRearms ==
  /\ timer /\ conv # NoId
  /\ timer' = TRUE
  /\ UNCHANGED unstored
  /\ IF conv.in = "local" /\ conv.n \in LocalIds
     THEN local' = [local EXCEPT ![RecordOf(conv.n)].has = page]
     ELSE UNCHANGED local
  /\ Post
  /\ UNCHANGED <<created, server, chat, panel, clicks, mixed, copied>>

\* Mutant of SaveAgain: a record that is not found is created.
SaveAgainCreates ==
  /\ timer /\ conv # NoId
  /\ timer' = FALSE
  /\ UNCHANGED unstored
  /\ IF conv.in = "local" /\ conv.n \in LocalIds
     THEN local' = [local EXCEPT ![RecordOf(conv.n)].has = page]
     ELSE IF conv.in = "local" THEN local' = Capped(<<[id |-> conv.n, has |-> page]>> \o local)
     ELSE UNCHANGED local
  /\ Post
  /\ UNCHANGED <<created, server, chat, panel, clicks, mixed, copied>>

\* The timer fires on a conversation with an id (updateConversation): a record
\* that is not there is not created, which is always so for a server's id.
SaveAgain ==
  /\ timer /\ conv # NoId
  /\ timer' = FALSE
  /\ IF conv.in = "local" /\ conv.n \in LocalIds
     THEN \/ local' = [local EXCEPT ![RecordOf(conv.n)].has = page] /\ UNCHANGED unstored
          \/ unstored' = TRUE /\ UNCHANGED local
     ELSE UNCHANGED <<local, unstored>>
  /\ Post
  /\ UNCHANGED <<created, server, chat, panel, clicks, mixed, copied>>

\* The share button, or feedback with its comment: a snapshot, whether or not a
\* stream is open; the link is only made once it has arrived.
Share ==
  /\ ~Welcome /\ page.sess # NoSession
  /\ Click
  /\ posts' = posts \cup {page}
  /\ UNCHANGED <<browser, server, chat, timer, panel, notes>>

\* A snapshot arrives, whichever was sent first, or is lost; nobody is told.
Arrives(p) ==
  /\ p \in posts /\ posts' = posts \ {p}
  /\ \/ Known(p.sess) /\ server' = [server EXCEPT ![p.sess].snap = p]
     \/ UNCHANGED server
  /\ UNCHANGED <<browser, chat, timer, panel, clicks, notes>>

-----------------------------------------------------------------------------
(* The history panel. *)

\* loadConversations up to its await, with the records as they are then.
AsksFor(ids) ==
  /\ asked' = asked + 1
  /\ shown' = [server |-> {}, local |-> ids]
  /\ loads' = loads \cup {[load |-> asked + 1, local |-> ids]}

OpenPanel ==
  /\ Click
  /\ AsksFor(LocalIds)
  /\ UNCHANGED <<browser, server, chat, timer, posts, opening, notes>>

\* The server's list arrives, or the request fails, in any order with later ones:
\* an older list replaces a newer one.  An empty one changes nothing.
Listed(load) ==
  /\ load \in loads /\ loads' = loads \ {load}
  /\ LET sessions == {s \in Sessions : Known(s)}
     IN  \/ /\ sessions # {}
            /\ shown' = [server |-> sessions, local |-> load.local]
         \/ UNCHANGED shown
  /\ UNCHANGED <<browser, server, chat, timer, posts, asked, opening, clicks, notes>>

\* handleDelete: only records are deleted, and there is one of the id; on a
\* session it does nothing.
Delete(id) ==
  /\ Click
  /\ id \in shown.local /\ id \in LocalIds
  /\ local' = RemoveAt(local, RecordOf(id))
  /\ AsksFor(LocalIds \ {id})
  /\ UNCHANGED <<created, server, chat, timer, posts, opening, notes>>

\* handleClearAll.
DeleteAll ==
  /\ Click
  /\ shown.local \cup shown.server # {}
  /\ local' = <<>>
  /\ AsksFor({})
  /\ UNCHANGED <<created, server, chat, timer, posts, opening, notes>>

\* importConversation; a full storage makes it fail.
Import(s) ==
  /\ Click
  /\ created' = created + 1
  /\ local' = Capped(<<[id |-> created + 1, has |-> [sess |-> s, turns |-> 1, of |-> {}]]>> \o local)
  /\ AsksFor({local'[i].id : i \in DOMAIN local'})
  /\ copied' = TRUE
  /\ UNCHANGED <<server, chat, timer, posts, opening, mixed, unstored>>

\* handleLoad up to its await.
Choose(id) ==
  /\ Click
  /\ opening' = opening \cup {id}
  /\ UNCHANGED <<browser, server, chat, timer, posts, shown, loads, asked, notes>>

\* Mutant of Show: the page keeps its session id.
ShowKeepsSession(content, id) ==
  /\ page' = [content EXCEPT !.sess = page.sess] /\ conv' = id
  /\ processing' = FALSE
  /\ timer' = (content.turns > 0)
  /\ mixed' = (mixed \/ Busy)

\* handleLoadConversation.
Show(content, id) ==
  /\ page' = content /\ conv' = id
  /\ processing' = FALSE
  /\ timer' = (content.turns > 0)
  /\ mixed' = (mixed \/ Busy)

\* The server knows the conversation; or it does not, or does not answer, and a
\* record of that id may still be there.
Opened(id) ==
  /\ id \in opening /\ opening' = opening \ {id}
  /\ \/ /\ id.in = "server"
        /\ Show(FromServer(id.n), id)
     \/ /\ id.in = "local" /\ id.n \in LocalIds
        /\ Show(local[RecordOf(id.n)].has, id)
     \/ /\ id.in = "server" \/ id.n \notin LocalIds
        /\ UNCHANGED <<page, conv, processing, timer, mixed>>
  /\ UNCHANGED <<browser, server, running, announced, restoring, held, posts, shown, loads, asked,
                 clicks,
                 copied, unstored>>

-----------------------------------------------------------------------------
Chat ==
  \/ \E s \in Sessions : StartTurn(s)
  \/ Announce
  \/ EndTurn
  \/ FailTurn
  \/ Clear
  \/ Reload
  \/ Restored

Autosave == SaveNew \/ SaveAgain

Snapshots == Share \/ \E p \in posts : Arrives(p)

Panel ==
  \/ OpenPanel
  \/ \E load \in loads : Listed(load)
  \/ \E id \in shown.local : Delete(id)
  \/ DeleteAll
  \/ \E s \in {s \in Sessions : Known(s)} \cup {NoSession} : Import(s)
  \/ \E n \in shown.local : Choose(LocalId(n))
  \/ \E s \in shown.server : Choose(ServerId(s))
  \/ \E id \in opening : Opened(id)

Next == Chat \/ Autosave \/ Panel \/ Snapshots

Spec == Init /\ [][Next]_vars

\* A timer that stays armed fires.
LiveSpec == Spec /\ WF_vars(Autosave)

-----------------------------------------------------------------------------

\* A session is recorded once, as long as nobody reloads the page or imports.
OneRecordEach ==
  ~mixed /\ ~copied =>
    \A i, j \in DOMAIN local : i # j /\ local[i].has.sess # NoSession
      => local[i].has.sess # local[j].has.sess

\* A record that was deleted or has made room for others never comes back, even
\* when its conversation is open and goes on being saved.
DeletedStaysDeleted ==
  [][ \A j \in DOMAIN local' : local'[j].id \in LocalIds \/ local'[j].id > created ]_vars

\* A session's snapshot shows that session, unless the page was switched under
\* an open stream or before the answer for the URL's session.
SnapshotsAreOwn == ~mixed => \A s \in Sessions : server[s].snap.of \subseteq {s}

\* When the page rests, the record of its conversation has what the page shows.
RestsSaved ==
  ~processing /\ ~timer /\ page.turns > 0 /\ ~unstored
    /\ conv.in = "local" /\ conv.n \in LocalIds
  => local[RecordOf(conv.n)].has = page

\* Saving comes to rest: a save does not call for another for ever.
SavesSettle == timer ~> ~timer
=============================================================================
