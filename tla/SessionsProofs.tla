--------------------------- MODULE SessionsProofs ----------------------------
(***************************************************************************)
(* What the session store promises, for any requests, kinds and outcomes:  *)
(* the types, and from inductive invariants TurnsKept, Accounted,          *)
(* LinksLast and NothingStray.                                             *)
(***************************************************************************)
EXTENDS Sessions, TLAPS

TurnStages == {"ensure", "create", "stamp", "history", "ask", "start", "run",
               "answer", "events", "sum", "finish"}
Early == {"idle", "ensure", "create", "stamp", "history", "ask", "start", "run"}
Sharing == {"token", "link", "respond"}

\* Metadata that were never given are none.
Blank(m) == m.given \/ m = NoMeta

\* Which requests reach a stage.
Fits(kind, stage) ==
  /\ stage \in Deletes => kind = "delete"
  /\ stage \in Sharing \cup {"find"} => kind = "share"
  /\ stage = "snapshot" => kind \in Turns \cup {"post"}
  /\ stage \in TurnStages => kind \in Turns
  /\ stage \in {"start", "finish"} => kind = "task"

\* What the stage of r says of its phase and of what it holds.
Shaped(r) ==
  /\ Fits(req[r].kind, req[r].at)
  /\ req[r].phase = "index" => Redis /\ req[r].at \in Updates \cup {"create"}
  /\ req[r].phase = "merge" => Redis /\ req[r].at \in Updates
  /\ req[r].at \in Early => req[r].said = {}
  /\ req[r].at = "idle" => r \notin begun
  /\ req[r].at \in Sharing => req[r].copy.link # NoOne
  /\ req[r].at = "token" => req[r].copy.link = r
  /\ req[r].at = "link" => req[r].phase # "get"
  /\ r \in begun /\ req[r].at # "cut" => req[r].kind \in Turns
  /\ Blank(req[r].copy.meta) /\ Blank(req[r].existing.meta)

RowShaped == Blank(row.meta) /\ (row.exists \/ row = NoRow)
Shape == RowShaped /\ \A r \in Requests : Shaped(r)

\* A turn has made sure that there is a session.
Past(r) ==
  /\ req[r].at \notin {"ensure", "cut"}
  /\ ~(req[r].at = "create" /\ req[r].phase = "set")

\* r holds a session that it has read.
Holds(r) ==
  \/ req[r].at \in Updates /\ req[r].phase \in {"merge", "set"}
  \/ req[r].at \in Sharing

\* Unless a deletion meets another request, it is alone, and whoever counts on
\* the session finds it, with its user.
Orderly ==
  ~met =>
    /\ \A r \in Active : req[r].kind = "delete" =>
         Active = {r} /\ handed = {} /\ begun = {}
    /\ \A r \in Active : req[r].kind \in Turns => r \in begun
    /\ \A r \in begun : Past(r) => row.exists
    /\ \A r \in Requests : req[r].at \in Sharing => row.exists
    /\ handed # {} => row.exists
    /\ row.exists => row.owned
    /\ \A r \in Requests : Holds(r) => req[r].copy.exists /\ req[r].copy.owned

\* r's link is the session's.
Linked(r) ==
  req[r].at = "respond" \/ (req[r].at = "link" /\ (~Redis \/ req[r].phase = "index"))

\* A link is a key before anybody can be told of it.
Keyed(r) ==
  Redis /\ Holds(r) /\ req[r].at # "token" /\ req[r].copy.link # NoOne =>
    req[r].copy.link \in links

Linking ==
  /\ Redis /\ row.link # NoOne => row.link \in links
  /\ \A r \in Requests : Keyed(r) /\ (Linked(r) => row.link = req[r].copy.link)
  /\ \A l \in handed : l # NoOne /\ row.link = l /\ Leads(l)

LinkInv == Unharmed({"create", "merge", "share"}) => Linking

\* A turn has counted its tokens.
Counted(t) ==
  \/ req[t].at \in {"finish", "done"}
  \/ req[t].at = "sum" /\ req[t].phase = "index"

\* A task has yet to mark that it has ended.
Unmarked(t) ==
  req[t].kind = "task" /\ ~(req[t].at = "finish" /\ req[t].phase = "index")

Counting ==
  /\ \A r \in Active : req[r].existing.meta.given => row.meta.given
  /\ \A t \in begun : Counted(t) /\ "events" \in req[t].said =>
       t \in row.meta.counted
  /\ row.meta.status = "running" => crashed \/ \E t \in Active : Unmarked(t)

CountInv == Unharmed({"create", "copy"}) => Counting

Nothing == messages = <<>> /\ events = <<>> /\ ~snapshot

\* What a deletion on Redis has done before each of its commands.
Deleted(r) ==
  /\ req[r].at \in Deletes \ {"delRow"} => ~row.exists
  /\ req[r].at \in {"delMessages", "delEvents", "delIndex"} => ~snapshot
  /\ req[r].at \in {"delEvents", "delIndex"} => messages = <<>>
  /\ req[r].at = "delIndex" => events = <<>>

Cascades == ~Redis => ~indexed /\ (~row.exists => Nothing)

Tidy ==
  /\ \A r \in Requests : Deleted(r)
  /\ Redis /\ row.exists =>
       indexed \/ \E r \in Active : req[r].phase = "index"
  /\ ~row.exists =>
       (Nothing /\ ~indexed) \/ \E r \in Requests : req[r].at \in Deletes

StrayInv == Cascades /\ (~crashed /\ Unharmed({"orphan"}) => Tidy)

-----------------------------------------------------------------------------
(* Types, and where a request goes.                                        *)

LEMMA ConstantsAreTyped ==
  /\ NoMeta \in Meta /\ NoRow \in Row /\ Fresh \in Request
  /\ Updates \subseteq Stages /\ Lists \subseteq Stages /\ Deletes \subseteq Stages
<1>1. NoMeta \in Meta
  BY DEF NoMeta, Meta
<1>2. NoRow \in Row
  BY <1>1 DEF NoRow, Row
<1>3. Fresh \in Request
  BY <1>2 DEF Fresh, Request, Stages, Phases, AllOutcomes
<1> QED BY <1>1, <1>2, <1>3 DEF Stages, Updates, Lists, Deletes

\* A request that enters a stage keeps its kind and its outcome.
LEMMA EntersFacts ==
  ASSUME NEW q \in Request, NEW stage \in Stages
  PROVE /\ Enters(q, stage) \in Request
        /\ Enters(q, stage).at = stage /\ Enters(q, stage).kind = q.kind
        /\ Enters(q, stage).said = q.said
        /\ Enters(q, stage).phase = FirstPhase(stage)
        /\ Enters(q, stage).existing = NoRow
        /\ Enters(q, stage).copy =
             IF stage \in Sharing THEN q.copy ELSE NoRow
<1>1. FirstPhase(stage) \in Phases
  BY DEF FirstPhase, Phases, Redis
<1>2. <<>> \in Seq(Message)
  OBVIOUS
<1>3. PICK c \in Row, l \in Seq(Message) :
        /\ c = IF stage \in Sharing THEN q.copy ELSE NoRow
        /\ Enters(q, stage) =
             [q EXCEPT !.at = stage, !.phase = FirstPhase(stage), !.copy = c,
                       !.existing = NoRow, !.list = l]
  BY <1>2, ConstantsAreTyped DEF Enters, Request, Sharing
<1> QED BY <1>1, <1>3, ConstantsAreTyped DEF Request

LEMMA FollowingFacts ==
  ASSUME NEW r \in Requests, req \in [Requests -> Request]
  PROVE /\ Following(r) \in Stages
        /\ req[r].at = "create" => Following(r) = "stamp"
        /\ req[r].at = "stamp" => Following(r) = "history"
        /\ req[r].at = "ask" =>
             Following(r) = IF req[r].kind = "task" THEN "start" ELSE "run"
        /\ req[r].at = "start" => Following(r) = "run"
        /\ req[r].at = "answer" => Following(r) \in {"events", "sum"}
        /\ req[r].at = "events" => Following(r) \in {"snapshot", "sum"}
        /\ req[r].at = "snapshot" =>
             Following(r) = IF req[r].kind = "post" THEN "done" ELSE "sum"
        /\ req[r].at = "sum" =>
             Following(r) = IF req[r].kind = "task" THEN "finish" ELSE "done"
        /\ req[r].at = "finish" => Following(r) = "done"
        /\ req[r].at = "token" => Following(r) = "link"
        /\ req[r].at = "link" => Following(r) = "respond"
<1>1. req[r].at = "answer" => Following(r) \in {"events", "sum"}
  BY DEF Following, ToSave
<1>2. Following(r) \in Stages
  <2>1. CASE req[r].at = "answer"
    BY <1>1, <2>1 DEF Stages, Lists, Updates
  <2>2. CASE req[r].at # "answer"
    <3>1. Following(r) \in {"stamp", "history", "ask", "start", "run", "snapshot",
                           "sum", "done", "finish", "link", "respond"}
      BY <2>2 DEF Following
    <3> QED BY <3>1 DEF Stages, Lists, Updates
  <2> QED BY <2>1, <2>2
<1>3. /\ req[r].at = "create" => Following(r) = "stamp"
      /\ req[r].at = "stamp" => Following(r) = "history"
      /\ req[r].at = "ask" =>
           Following(r) = IF req[r].kind = "task" THEN "start" ELSE "run"
      /\ req[r].at = "start" => Following(r) = "run"
  BY DEF Following
<1>4. /\ req[r].at = "events" => Following(r) \in {"snapshot", "sum"}
      /\ req[r].at = "snapshot" =>
           Following(r) = IF req[r].kind = "post" THEN "done" ELSE "sum"
      /\ req[r].at = "sum" =>
           Following(r) = IF req[r].kind = "task" THEN "finish" ELSE "done"
  BY DEF Following
<1>5. /\ req[r].at = "finish" => Following(r) = "done"
      /\ req[r].at = "token" => Following(r) = "link"
      /\ req[r].at = "link" => Following(r) = "respond"
  BY DEF Following
<1> QED BY <1>1, <1>2, <1>3, <1>4, <1>5

\* How the requests stand after r has gone to another stage.
Moved(r, stage) ==
  /\ req' \in [Requests -> Request]
  /\ \A q \in Requests : q # r => req'[q] = req[q]
  /\ req'[r].at = stage /\ req'[r].kind = req[r].kind
  /\ req'[r].phase = FirstPhase(stage)
  /\ req'[r].existing = NoRow

LEMMA GotoMoves ==
  ASSUME NEW r \in Requests, NEW stage \in Stages,
         req \in [Requests -> Request], Goto(r, stage)
  PROVE /\ Moved(r, stage)
        /\ req'[r].said = req[r].said
        /\ req'[r].copy = IF stage \in Sharing THEN req[r].copy ELSE NoRow
<1>1. req'[r] = Enters(req[r], stage) /\ req' = [req EXCEPT ![r] = Enters(req[r], stage)]
  BY DEF Goto
<1>2. req[r] \in Request
  OBVIOUS
<1> QED BY <1>1, <1>2, EntersFacts DEF Moved

LEMMA HoldMoves ==
  ASSUME NEW r \in Requests, NEW q \in Request, NEW stage \in Stages,
         req \in [Requests -> Request], Hold(r, q, stage), q.kind = req[r].kind
  PROVE /\ Moved(r, stage)
        /\ req'[r].said = q.said
        /\ req'[r].copy = IF stage \in Sharing THEN q.copy ELSE NoRow
<1>1. req'[r] = Enters(q, stage) /\ req' = [req EXCEPT ![r] = Enters(q, stage)]
  BY DEF Hold
<1> QED BY <1>1, EntersFacts DEF Moved

LEMMA PhaseMoves ==
  ASSUME NEW r \in Requests, NEW phase \in Phases,
         req \in [Requests -> Request], Phase(r, phase)
  PROVE /\ req' \in [Requests -> Request]
        /\ \A q \in Requests : q # r => req'[q] = req[q]
        /\ req'[r].at = req[r].at /\ req'[r].kind = req[r].kind
        /\ req'[r].phase = phase /\ req'[r].said = req[r].said
        /\ req'[r].copy = req[r].copy /\ req'[r].existing = req[r].existing
<1>1. req' = [req EXCEPT ![r] = [req[r] EXCEPT !.phase = phase]]
  BY DEF Phase
<1>2. [req[r] EXCEPT !.phase = phase] \in Request
  BY DEF Request
<1> QED BY <1>1, <1>2 DEF Request

-----------------------------------------------------------------------------
(* Type correctness.                                                       *)

\* The hub starts with no request under way and at most one turn that ended.
LEMMA InitFacts ==
  ASSUME Init
  PROVE /\ \A r \in Requests :
             /\ req[r].phase = "get" /\ req[r].copy = NoRow
             /\ req[r].existing = NoRow
             /\ \/ req[r].at = "idle" /\ req[r].said = {} /\ r \notin begun
                \/ req[r].at = "done" /\ req[r].kind = "chat" /\ begun = {r}
        /\ req \in [Requests -> Request] /\ row \in Row
        /\ begun \subseteq Requests /\ indexed \in BOOLEAN
        /\ messages \in Seq(Message) /\ events \in Seq(Message)
        /\ Blank(row.meta) /\ (row.exists \/ row = NoRow) /\ row.link = NoOne
        /\ row.meta.status = "none" /\ (row.exists => row.owned)
        /\ begun # {} => row.exists
        /\ begun \subseteq row.meta.counted
        /\ IF row.exists THEN indexed = Redis
           ELSE ~indexed /\ messages = <<>> /\ events = <<>>
        /\ \A t \in Requests :
             IF t \in begun
             THEN /\ messages = <<[turn |-> t, who |-> "user"],
                                  [turn |-> t, who |-> "assistant"]>>
                  /\ events = <<[turn |-> t, who |-> "assistant"]>>
                  /\ req[t].said = {"words", "events"}
             ELSE Of(t, messages) = {} /\ Of(t, events) = {}
<1>1. PICK e \in Earlier :
        /\ row = IF e = NoOne THEN NoRow
                 ELSE [exists |-> TRUE, owned |-> TRUE, link |-> NoOne,
                       meta |-> [status |-> "none", counted |-> {e},
                                 given |-> TRUE]]
        /\ indexed = (e # NoOne /\ backend = "redis")
        /\ messages = IF e = NoOne THEN <<>>
                      ELSE <<[turn |-> e, who |-> "user"],
                             [turn |-> e, who |-> "assistant"]>>
        /\ events = IF e = NoOne THEN <<>>
                    ELSE <<[turn |-> e, who |-> "assistant"]>>
        /\ req = [r \in Requests |-> IF r = e THEN Ended(e) ELSE Fresh]
        /\ begun = Requests \cap {e}
  BY DEF Init
<1>2. /\ Ended(e) \in Request /\ Ended(e).at = "done" /\ Ended(e).kind = "chat"
      /\ Ended(e).said = {"words", "events"} /\ Ended(e).phase = "get"
      /\ Ended(e).copy = NoRow /\ Ended(e).existing = NoRow
  <2>1. /\ {"words", "events"} \in AllOutcomes /\ "chat" \in AllKinds
        /\ "done" \in Stages
    BY DEF AllOutcomes, AllKinds, Stages
  <2>2. Fresh.phase = "get" /\ Fresh.copy = NoRow /\ Fresh.existing = NoRow
    BY DEF Fresh
  <2> QED BY <2>1, <2>2, ConstantsAreTyped DEF Ended, Request
<1>3. /\ Fresh \in Request /\ Fresh.at = "idle" /\ Fresh.said = {}
      /\ Fresh.phase = "get" /\ Fresh.copy = NoRow /\ Fresh.existing = NoRow
  <2>1. Fresh \in Request
    BY ConstantsAreTyped
  <2> QED BY <2>1 DEF Fresh
<1>4. e = NoOne \/ e \in Requests
  BY BoundsAssumption
<1>5. CASE e = NoOne
  <2>1. e \notin Requests /\ begun = {} /\ row = NoRow /\ messages = <<>>
        /\ events = <<>> /\ ~indexed /\ indexed \in BOOLEAN
        /\ \A r \in Requests : req[r] = Fresh
    BY <1>1, <1>5, NoOneAssumption
  <2>2. req \in [Requests -> Request]
    BY <1>1, <1>3, <2>1
  <2>3. /\ row \in Row /\ Blank(row.meta) /\ row.link = NoOne
        /\ row.meta.status = "none" /\ ~row.exists
    <3>1. NoRow.meta = NoMeta /\ NoRow.link = NoOne /\ ~NoRow.exists
      BY DEF NoRow
    <3>2. NoMeta.status = "none"
      BY DEF NoMeta
    <3> QED BY <2>1, <3>1, <3>2, ConstantsAreTyped DEF Blank
  <2>4. \A t \in Requests : Of(t, <<>>) = {}
    BY DEF Of
  <2>5. messages \in Seq(Message) /\ events \in Seq(Message)
    BY <2>1
  <2> QED BY <1>3, <2>1, <2>2, <2>3, <2>4, <2>5
<1>6. CASE e # NoOne
  <2>1. e \in Requests /\ begun = {e}
    BY <1>1, <1>4, <1>6
  <2>2. \A r \in Requests : req[r] = IF r = e THEN Ended(e) ELSE Fresh
    BY <1>1
  <2>3. req \in [Requests -> Request]
    <3>1. \A r \in Requests : (IF r = e THEN Ended(e) ELSE Fresh) \in Request
      BY <1>2, <1>3
    <3> QED BY <1>1, <3>1
  <2> DEFINE m == [status |-> "none", counted |-> {e}, given |-> TRUE]
  <2>m. m \in Meta /\ m.status = "none" /\ m.counted = {e} /\ m.given
    BY <2>1 DEF Meta
  <2>4. row = [exists |-> TRUE, owned |-> TRUE, link |-> NoOne, meta |-> m]
    BY <1>1, <1>6
  <2> HIDE DEF m
  <2>5. /\ row \in Row /\ row.exists /\ row.owned /\ row.link = NoOne /\ row.meta = m
    BY <2>m, <2>4 DEF Row
  <2>6. /\ Blank(row.meta) /\ row.meta.status = "none" /\ begun \subseteq row.meta.counted
    BY <2>1, <2>m, <2>5 DEF Blank
  <2>7. indexed = Redis /\ indexed \in BOOLEAN
    BY <1>1, <1>6 DEF Redis
  <2>8. /\ [turn |-> e, who |-> "user"] \in Message
        /\ [turn |-> e, who |-> "assistant"] \in Message
    BY <2>1 DEF Message
  <2>9. /\ messages = <<[turn |-> e, who |-> "user"], [turn |-> e, who |-> "assistant"]>>
        /\ events = <<[turn |-> e, who |-> "assistant"]>>
    BY <1>1, <1>6
  <2>10. messages \in Seq(Message) /\ events \in Seq(Message)
    BY <2>8, <2>9
  <2>11. ASSUME NEW t \in Requests, t # e
         PROVE Of(t, messages) = {} /\ Of(t, events) = {}
    BY <2>9, <2>11 DEF Of
  <2> QED BY <1>2, <1>3, <2>1, <2>2, <2>3, <2>5, <2>6, <2>7, <2>9, <2>10, <2>11
<1> QED BY <1>5, <1>6

LEMMA TypeInit == Init => TypeOK
<1> SUFFICES ASSUME Init PROVE TypeOK
  OBVIOUS
<1>1. /\ req \in [Requests -> Request] /\ row \in Row /\ begun \subseteq Requests
      /\ messages \in Seq(Message) /\ events \in Seq(Message)
      /\ indexed \in BOOLEAN
  BY InitFacts
<1> QED BY <1>1 DEF Init, TypeOK

LEMMA EditedIsTyped ==
  ASSUME TypeOK, NEW r \in Requests
  PROVE Edited(r) \in Row
<1>1. req[r].copy \in Row
  BY DEF TypeOK, Request
<1>2. req[r].copy.meta \in Meta
  BY <1>1 DEF Row
<1>3. Tokens(r, req[r].copy.meta.counted) \subseteq Requests
  BY <1>2 DEF Meta, Tokens
<1> DEFINE meta == [req[r].copy.meta EXCEPT !.given = TRUE]
<1>4. /\ meta \in Meta
      /\ [meta EXCEPT !.status = "running"] \in Meta
      /\ [meta EXCEPT !.status = "completed"] \in Meta
      /\ [meta EXCEPT !.counted = Tokens(r, meta.counted)] \in Meta
  BY <1>2, <1>3 DEF Meta
<1> HIDE DEF meta
<1>5. PICK m \in Meta : Edited(r) = [req[r].copy EXCEPT !.exists = TRUE, !.meta = m]
  <2>1. CASE req[r].at = "stamp"
    BY <1>4, <2>1 DEF Edited, meta
  <2>2. CASE req[r].at = "start"
    BY <1>4, <2>2 DEF Edited, meta
  <2>3. CASE req[r].at = "finish"
    BY <1>4, <2>3 DEF Edited, meta
  <2>4. CASE req[r].at = "sum" /\ req[r].copy.exists /\ "events" \in req[r].said
    BY <1>4, <2>4 DEF Edited, meta
  <2>5. CASE req[r].at \notin {"stamp", "start", "finish"}
             /\ ~(req[r].at = "sum" /\ req[r].copy.exists /\ "events" \in req[r].said)
    BY <1>2, <2>5 DEF Edited
  <2> QED BY <2>1, <2>2, <2>3, <2>4, <2>5
<1> QED BY <1>1, <1>5 DEF Row

LEMMA MergedIsTyped ==
  ASSUME NEW old \in Row, NEW new \in Row
  PROVE Merged(old, new) \in Row
BY DEF Merged, Row

LEMMA AddedIsTyped ==
  ASSUME NEW r \in Requests
  PROVE Added(r) \in Message
BY DEF Added, Message

LEMMA ToSaveFacts ==
  ASSUME NEW said
  PROVE /\ ToSave(said) \in {"answer", "events", "sum"}
        /\ ToSave(said) \in Stages
        /\ "events" \in said => ToSave(said) # "sum"
<1>1. ToSave(said) \in {"answer", "events", "sum"}
  BY DEF ToSave
<1>2. "events" \in said => ToSave(said) # "sum"
  BY DEF ToSave
<1> QED BY <1>1, <1>2 DEF Stages, Lists, Updates

LEMMA FirstStageFacts ==
  ASSUME NEW kind \in AllKinds
  PROVE /\ FirstStage(kind) \in Stages
        /\ kind \in Turns => FirstStage(kind) = "ensure"
        /\ kind = "share" => FirstStage(kind) = "find"
        /\ kind = "post" => FirstStage(kind) = "snapshot"
        /\ kind = "delete" => FirstStage(kind) = "delRow"
BY DEF FirstStage, AllKinds, Turns, Stages, Deletes

\* A new request.
LEMMA ArriveMoves ==
  ASSUME NEW r \in Requests, req \in [Requests -> Request], Arrive(r)
  PROVE /\ req[r].at = "idle" /\ req' \in [Requests -> Request]
        /\ \A q \in Requests : q # r => req'[q] = req[q]
        /\ req'[r].said = {} /\ req'[r].existing = NoRow /\ req'[r].copy = NoRow
        /\ \E kind \in AllKinds :
             /\ req'[r].kind = kind /\ req'[r].at = FirstStage(kind)
             /\ req'[r].phase = FirstPhase(FirstStage(kind))
             /\ handed' = IF kind = "delete" THEN {} ELSE handed
             /\ begun' = IF kind = "delete" THEN {}
                         ELSE IF kind \in Turns THEN begun \cup {r} ELSE begun
             /\ crossed' = IF kind = "delete" THEN {}
                           ELSE IF kind \in Turns THEN crossed \cup Meeting(r)
                           ELSE crossed
             /\ met' = (met \/ \E q \in Active : "delete" \in {kind, req[q].kind})
        /\ UNCHANGED <<backend, row, indexed, messages, events, snapshot, links, lost, crashed>>
<1>1. PICK kind \in Kinds[r] :
        /\ Hold(r, [Fresh EXCEPT !.kind = kind], FirstStage(kind))
        /\ handed' = IF kind = "delete" THEN {} ELSE handed
        /\ begun' = IF kind = "delete" THEN {}
                    ELSE IF kind \in Turns THEN begun \cup {r} ELSE begun
        /\ crossed' = IF kind = "delete" THEN {}
                      ELSE IF kind \in Turns THEN crossed \cup Meeting(r)
                      ELSE crossed
        /\ met' = (met \/ \E q \in Active : "delete" \in {kind, req[q].kind})
  BY DEF Arrive
<1> DEFINE new == [Fresh EXCEPT !.kind = kind]
<1>2. kind \in AllKinds
  BY KindsAssumption
<1>3. new \in Request /\ new.kind = kind /\ new.said = {}
  <2>1. new \in Request /\ new.kind = kind
    BY <1>2, ConstantsAreTyped DEF Request
  <2>2. new.said = Fresh.said
    BY ConstantsAreTyped DEF Request
  <2> QED BY <2>1, <2>2 DEF Fresh
<1> HIDE DEF new
<1>4. req' = [req EXCEPT ![r] = Enters(new, FirstStage(kind))]
  BY <1>1 DEF Hold, new
<1>5. FirstStage(kind) \in Stages /\ FirstStage(kind) \notin Sharing
  BY <1>2, FirstStageFacts DEF Sharing, AllKinds, Turns
<1>6. /\ req'[r].at = FirstStage(kind) /\ req'[r].kind = kind
      /\ req'[r].phase = FirstPhase(FirstStage(kind))
      /\ req'[r].said = {} /\ req'[r].existing = NoRow /\ req'[r].copy = NoRow
  <2>1. req'[r] = Enters(new, FirstStage(kind))
    BY <1>4
  <2> QED BY <1>3, <1>5, <2>1, EntersFacts
<1>7. /\ \A q \in Requests : q # r => req'[q] = req[q]
      /\ req' \in [Requests -> Request]
  BY <1>3, <1>4, <1>5, EntersFacts
<1>8. /\ req[r].at = "idle"
      /\ UNCHANGED <<backend, row, indexed, messages, events, snapshot, links, lost, crashed>>
  BY DEF Arrive, store, conversation
<1> QED BY <1>1, <1>2, <1>6, <1>7, <1>8

LEMMA DeletionFacts ==
  ASSUME NEW stage \in Deletes
  PROVE /\ Deletion[stage] \in Stages
        /\ stage = "delRow" => Deletion[stage] = "delSnapshot"
        /\ stage = "delSnapshot" => Deletion[stage] = "delMessages"
        /\ stage = "delMessages" => Deletion[stage] = "delEvents"
        /\ stage = "delEvents" => Deletion[stage] = "delIndex"
        /\ stage = "delIndex" => Deletion[stage] = "done"
BY DEF Deletion, Deletes, Stages

\* What the steps that only look leave r with.
LEMMA ReadMoves ==
  ASSUME NEW r \in Requests, TypeOK, Read(r), row.exists \/ req[r].at = "sum"
  PROVE /\ req' \in [Requests -> Request]
        /\ \A q \in Requests : q # r => req'[q] = req[q]
        /\ req'[r].at = req[r].at /\ req'[r].kind = req[r].kind
        /\ req'[r].said = req[r].said /\ req'[r].existing = req[r].existing
        /\ req'[r].copy = row
        /\ req'[r].phase = IF Redis THEN "merge" ELSE "set"
<1>0. req \in [Requests -> Request] /\ req[r] \in Request /\ row \in Row
  BY DEF TypeOK
<1>1. PICK phase \in Phases :
        /\ phase = IF Redis THEN "merge" ELSE "set"
        /\ req' = [req EXCEPT ![r] = [req[r] EXCEPT !.copy = row, !.phase = phase]]
  BY <1>0 DEF Read, Phases
<1>2. [req[r] EXCEPT !.copy = row, !.phase = phase] \in Request
  BY <1>0 DEF Request
<1>3. req'[r] = [req[r] EXCEPT !.copy = row, !.phase = phase]
  BY <1>0, <1>1
<1> QED BY <1>0, <1>1, <1>2, <1>3 DEF Request

LEMMA RereadMoves ==
  ASSUME NEW r \in Requests, TypeOK, Reread(r)
  PROVE /\ req' \in [Requests -> Request]
        /\ \A q \in Requests : q # r => req'[q] = req[q]
        /\ req'[r].at = req[r].at /\ req'[r].kind = req[r].kind
        /\ req'[r].said = req[r].said /\ req'[r].existing = row
        /\ req'[r].copy = req[r].copy /\ req'[r].phase = "set"
<1>0. req \in [Requests -> Request] /\ req[r] \in Request /\ row \in Row
  BY DEF TypeOK
<1>1. req' = [req EXCEPT ![r] = [req[r] EXCEPT !.existing = row, !.phase = "set"]]
  BY <1>0 DEF Reread
<1>2. [req[r] EXCEPT !.existing = row, !.phase = "set"] \in Request
  BY <1>0 DEF Request, Phases
<1>3. req'[r] = [req[r] EXCEPT !.existing = row, !.phase = "set"]
  BY <1>0, <1>1
<1> QED BY <1>0, <1>1, <1>2, <1>3 DEF Request

LEMMA ReadListMoves ==
  ASSUME NEW r \in Requests, TypeOK, ReadList(r)
  PROVE /\ req' \in [Requests -> Request]
        /\ \A q \in Requests : q # r => req'[q] = req[q]
        /\ req'[r].at = req[r].at /\ req'[r].kind = req[r].kind
        /\ req'[r].said = req[r].said /\ req'[r].existing = req[r].existing
        /\ req'[r].copy = req[r].copy /\ req'[r].phase = "set"
        /\ req'[r].list \in {Stored(r), <<>>}
        /\ "unread" \notin lost' => req'[r].list = Stored(r)
        /\ lost' \in {lost, lost \cup {"unread"}}
<1>0. /\ req \in [Requests -> Request] /\ req[r] \in Request
      /\ Stored(r) \in Seq(Message) /\ <<>> \in Seq(Message)
  BY DEF TypeOK, Stored
<1>l. PICK list \in Got(r, Stored(r)) :
        /\ req' = [req EXCEPT ![r].list = list, ![r].phase = "set"]
        /\ lost' = IF list = Stored(r) THEN lost ELSE lost \cup {"unread"}
  BY DEF ReadList
<1>g. list \in {Stored(r), <<>>} /\ list \in Seq(Message)
  BY <1>0 DEF Got
<1>1. req' = [req EXCEPT ![r] = [req[r] EXCEPT !.list = list, !.phase = "set"]]
  BY <1>0, <1>l
<1>2. [req[r] EXCEPT !.list = list, !.phase = "set"] \in Request
  BY <1>0, <1>g DEF Request, Phases
<1>3. req'[r] = [req[r] EXCEPT !.list = list, !.phase = "set"]
  BY <1>0, <1>1
<1> QED BY <1>0, <1>l, <1>g, <1>1, <1>2, <1>3 DEF Request

LEMMA LoadHistoryMoves ==
  ASSUME NEW r \in Requests, TypeOK, LoadHistory(r)
  PROVE /\ Moved(r, "ask") /\ req'[r].said = req[r].said /\ req'[r].copy = NoRow
        /\ req'[r].list \in {messages, <<>>}
<1>0. req \in [Requests -> Request] /\ req[r] \in Request
  BY DEF TypeOK
<1>l. PICK list \in Got(r, messages) : Hold(r, [req[r] EXCEPT !.list = list], "ask")
  BY DEF LoadHistory
<1>g. list \in {messages, <<>>} /\ list \in Seq(Message)
  <2>1. <<>> \in Seq(Message)
    OBVIOUS
  <2> QED BY <2>1 DEF Got, TypeOK
<1>1. /\ [req[r] EXCEPT !.list = list] \in Request
      /\ [req[r] EXCEPT !.list = list].kind = req[r].kind
      /\ [req[r] EXCEPT !.list = list].said = req[r].said
      /\ [req[r] EXCEPT !.list = list].list = list
  BY <1>0, <1>g DEF Request
<1>2. "ask" \in Stages /\ "ask" \notin Sharing
  BY DEF Stages, Lists, Sharing
<1>3. req'[r].list = list
  <2>1. req'[r] = Enters([req[r] EXCEPT !.list = list], "ask")
    BY <1>0, <1>l DEF Hold
  <2> QED BY <1>1, <2>1 DEF Enters, Request
<1> QED BY <1>0, <1>g, <1>l, <1>1, <1>2, <1>3, HoldMoves

\* A run that failed has nothing to save, any other goes on to save what it has.
LEMMA RunMoves ==
  ASSUME NEW r \in Requests, TypeOK, Run(r)
  PROVE /\ req'[r].copy = NoRow
        /\ \/ \E stage \in {"answer", "events", "sum"} : Moved(r, stage)
           \/ Moved(r, "done") /\ req[r].kind = "chat" /\ req'[r].said = req[r].said
<1>0. req \in [Requests -> Request] /\ req[r] \in Request
  BY DEF TypeOK
<1>1. ASSUME NEW said \in Outcomes, Hold(r, [req[r] EXCEPT !.said = said], ToSave(said))
      PROVE req'[r].copy = NoRow /\ \E stage \in {"answer", "events", "sum"} : Moved(r, stage)
  <2>1. /\ [req[r] EXCEPT !.said = said] \in Request
        /\ [req[r] EXCEPT !.said = said].kind = req[r].kind
    BY <1>0, BoundsAssumption DEF Request
  <2>2. ToSave(said) \in Stages /\ ToSave(said) \in {"answer", "events", "sum"}
    BY ToSaveFacts
  <2>3. ToSave(said) \notin Sharing
    BY <2>2 DEF Sharing
  <2> QED BY <1>0, <1>1, <2>1, <2>2, <2>3, HoldMoves
<1>2. ASSUME Goto(r, "done")
      PROVE Moved(r, "done") /\ req'[r].said = req[r].said /\ req'[r].copy = NoRow
  <2>1. "done" \in Stages /\ "done" \notin Sharing
    BY DEF Stages, Sharing
  <2> QED BY <1>0, <1>2, <2>1, GotoMoves
<1> QED BY <1>1, <1>2 DEF Run

\* Sharing finds no session, one with a link, or one that it is to give r's.
LEMMA FindMoves ==
  ASSUME NEW r \in Requests, TypeOK, Find(r)
  PROVE /\ ~row.exists => Moved(r, "done") /\ req'[r].copy = NoRow
        /\ row.exists /\ row.link # NoOne => Moved(r, "respond") /\ req'[r].copy = row
        /\ row.exists /\ row.link = NoOne =>
             Moved(r, "token") /\ req'[r].copy = [row EXCEPT !.link = r]
<1>0. req \in [Requests -> Request] /\ req[r] \in Request /\ row \in Row
  BY DEF TypeOK
<1>1. ASSUME NEW c \in Row, NEW stage \in {"token", "respond"},
             Hold(r, [req[r] EXCEPT !.copy = c], stage)
      PROVE Moved(r, stage) /\ req'[r].copy = c
  <2>1. /\ [req[r] EXCEPT !.copy = c] \in Request /\ [req[r] EXCEPT !.copy = c].copy = c
        /\ [req[r] EXCEPT !.copy = c].kind = req[r].kind
    BY <1>0 DEF Request
  <2>2. stage \in Stages /\ stage \in Sharing
    BY DEF Stages, Sharing
  <2> QED BY <1>0, <1>1, <2>1, <2>2, HoldMoves
<1>2. [row EXCEPT !.link = r] \in Row
  BY <1>0 DEF Row
<1>3. CASE ~row.exists
  <2>1. "done" \in Stages /\ "done" \notin Sharing
    BY DEF Stages, Sharing
  <2> QED BY <1>0, <1>3, <2>1, GotoMoves DEF Find
<1>4. CASE row.exists /\ row.link # NoOne
  BY <1>0, <1>1, <1>4 DEF Find
<1>5. CASE row.exists /\ row.link = NoOne
  BY <1>1, <1>2, <1>5 DEF Find
<1> QED BY <1>3, <1>4, <1>5

LEMMA TurnKeepsTypes ==
  ASSUME TypeOK, NEW r \in Requests, Turn(r)
  PROVE TypeOK'
<1> USE DEF TypeOK
<1>0. /\ req \in [Requests -> Request] /\ req[r] \in Request
      /\ req[r].copy \in Row /\ req[r].existing \in Row
      /\ req[r].list \in Seq(Message) /\ req[r].at \in Stages
  BY DEF Request
<1>1. CASE Ensure(r)
  <2>1. Goto(r, "stamp") \/ Goto(r, "create")
    BY <1>1 DEF Ensure
  <2>2. req' \in [Requests -> Request]
    BY <2>1, GotoMoves, <1>0 DEF Moved, Stages, Updates
  <2> QED BY <2>2, <1>1 DEF Ensure, store, conversation, history
<1>2. CASE Create(r)
  <2>1. row' \in Row
    BY <1>2, ConstantsAreTyped, SceneAssumption DEF Create, Row, Meta
  <2>2. req' \in [Requests -> Request]
    BY <1>2, <1>0, GotoMoves, PhaseMoves, FollowingFacts DEF Create, Moved, Phases
  <2> QED BY <2>1, <2>2, <1>2 DEF Create, conversation
<1>3. CASE Index(r)
  <2>1. req' \in [Requests -> Request]
    BY <1>3, <1>0, GotoMoves, FollowingFacts DEF Index, Moved
  <2> QED BY <2>1, <1>3 DEF Index, conversation, history
<1>4. CASE Read(r)
  <2>1. req' \in [Requests -> Request]
    <3>1. CASE row.exists \/ req[r].at = "sum"
      BY <1>4, <3>1, ReadMoves
    <3>2. CASE ~(row.exists \/ req[r].at = "sum")
      BY <1>4, <3>2, <1>0, GotoMoves, FollowingFacts DEF Read, Moved
    <3> QED BY <3>1, <3>2
  <2> QED BY <2>1, <1>4 DEF Read, store, conversation, history
<1>5. CASE Reread(r)
  BY <1>5, RereadMoves DEF Reread, store, conversation, history
<1>6. CASE Update(r)
  <2>1. Edited(r) \in Row
    BY EditedIsTyped
  <2>2. row' \in Row
    <3>1. CASE Redis
      BY <1>6, <3>1, <2>1, <1>0, MergedIsTyped DEF Update
    <3>2. CASE ~Redis
      BY <1>6, <3>2, <2>1 DEF Update, Row
    <3> QED BY <3>1, <3>2
  <2>3. req' \in [Requests -> Request]
    BY <1>6, <1>0, GotoMoves, PhaseMoves, FollowingFacts DEF Update, Moved, Phases
  <2>4. lost' \subseteq {"create", "copy", "merge", "list", "unread", "share", "orphan"}
    BY <1>6 DEF Update, Undone
  <2> QED BY <2>2, <2>3, <2>4, <1>6 DEF Update, conversation
<1>7. CASE LoadHistory(r)
  BY <1>7, LoadHistoryMoves DEF LoadHistory, Moved, store, conversation, history
<1>8. CASE ReadList(r)
  BY <1>8, ReadListMoves DEF ReadList, store, conversation, history
<1>9. CASE Extend(r)
  <2>1. Added(r) \in Message
    BY AddedIsTyped
  <2>2. Stored(r) \in Seq(Message) /\ Extended(r) \in Seq(Message)
    BY <2>1, <1>0 DEF Stored, Extended
  <2>3. messages' \in Seq(Message) /\ events' \in Seq(Message)
    BY <1>9, <2>2 DEF Extend
  <2>4. req' \in [Requests -> Request]
    BY <1>9, <1>0, GotoMoves, FollowingFacts DEF Extend, Moved
  <2> QED BY <2>3, <2>4, <1>9 DEF Extend
<1>10. CASE Run(r)
  BY <1>10, RunMoves DEF Run, Moved, store, conversation, history
<1>11. CASE SaveSnapshot(r)
  <2>1. req' \in [Requests -> Request]
    BY <1>11, <1>0, GotoMoves, FollowingFacts DEF SaveSnapshot, Moved
  <2>2. snapshot' \in BOOLEAN
    BY <1>11, <1>0 DEF SaveSnapshot, Redis, Row
  <2> QED BY <2>1, <2>2, <1>11 DEF SaveSnapshot
<1> QED BY <1>1, <1>2, <1>3, <1>4, <1>5, <1>6, <1>7, <1>8, <1>9, <1>10, <1>11 DEF Turn

LEMMA OthersKeepTypes ==
  ASSUME TypeOK, Shape, NEW r \in Requests, Arrive(r) \/ ShareOrDelete(r)
  PROVE TypeOK'
<1> USE DEF TypeOK
<1>0. /\ req \in [Requests -> Request] /\ req[r] \in Request
      /\ req[r].copy \in Row /\ req[r].at \in Stages /\ req[r].kind \in AllKinds \cup {NoOne}
  BY DEF Request
<1>1. CASE Arrive(r)
  <2>1. handed' \subseteq handed /\ begun' \subseteq begun \cup {r} /\ met' \in BOOLEAN
    BY <1>1, <1>0, ArriveMoves
  <2>2. req' \in [Requests -> Request]
    BY <1>1, <1>0, ArriveMoves
  <2>3. crossed' \subseteq Requests
    <3>1. Meeting(r) \subseteq Requests
      BY DEF Meeting, Active
    <3> QED BY <1>1, <1>0, <3>1, ArriveMoves
  <2> QED BY <2>1, <2>2, <2>3, <1>1 DEF Arrive, store, conversation
<1>2. CASE Find(r)
  BY <1>2, FindMoves DEF Find, Moved, store, conversation, history
<1>3. CASE SetShareToken(r)
  <2>1. req' \in [Requests -> Request]
    BY <1>3, <1>0, GotoMoves, FollowingFacts DEF SetShareToken, Moved
  <2>2. row' \in Row /\ links' \subseteq Requests
    BY <1>3 DEF SetShareToken, Row
  <2>3. lost' \subseteq {"create", "copy", "merge", "list", "unread", "share", "orphan"}
    BY <1>3 DEF SetShareToken
  <2> QED BY <2>1, <2>2, <2>3, <1>3 DEF SetShareToken, conversation
<1>4. CASE Respond(r)
  <2>1. req' \in [Requests -> Request]
    BY <1>4, <1>0, GotoMoves DEF Respond, Moved, Stages
  <2>2. req[r].copy.link # NoOne
    BY <1>4 DEF Respond, Shape, Shaped, Sharing
  <2>3. handed' \subseteq Requests
    BY <2>2, <1>4, <1>0 DEF Respond, Row
  <2> QED BY <2>1, <2>3, <1>4 DEF Respond, store, conversation
<1>5. CASE DeleteRow(r)
  <2>1. req' \in [Requests -> Request]
    BY <1>5, <1>0, GotoMoves DEF DeleteRow, Moved, Stages
  <2>2. row' \in Row /\ messages' \in Seq(Message) /\ events' \in Seq(Message)
    BY <1>5, ConstantsAreTyped DEF DeleteRow
  <2> QED BY <2>1, <2>2, <1>5 DEF DeleteRow, history
<1>6. CASE DeleteKey(r)
  <2>1. req' \in [Requests -> Request]
    BY <1>6, <1>0, GotoMoves, DeletionFacts DEF DeleteKey, Moved
  <2>2. /\ row' \in Row /\ messages' \in Seq(Message) /\ events' \in Seq(Message)
        /\ snapshot' \in BOOLEAN /\ indexed' \in BOOLEAN
    BY <1>6, ConstantsAreTyped DEF DeleteKey
  <2> QED BY <2>1, <2>2, <1>6 DEF DeleteKey, history
<1> QED BY <1>1, <1>2, <1>3, <1>4, <1>5, <1>6 DEF ShareOrDelete

LEMMA RestartKeepsTypes == TypeOK /\ Restart => TypeOK'
<1> SUFFICES ASSUME TypeOK, Restart PROVE TypeOK'
  OBVIOUS
<1>1. [Fresh EXCEPT !.at = "cut"] \in Request
  BY ConstantsAreTyped DEF Request, Stages
<1>2. req' \in [Requests -> Request]
  BY <1>1 DEF Restart, TypeOK
<1> QED BY <1>2 DEF Restart, TypeOK, store, conversation

LEMMA TypeNext == TypeOK /\ Shape /\ [Next]_vars => TypeOK'
<1> SUFFICES ASSUME TypeOK, Shape, [Next]_vars PROVE TypeOK'
  OBVIOUS
<1>1. CASE UNCHANGED vars
  BY <1>1 DEF vars, store, conversation, history, TypeOK
<1> QED BY <1>1, TurnKeepsTypes, OthersKeepTypes, RestartKeepsTypes DEF Next

-----------------------------------------------------------------------------
(* The stages and what requests hold in them.                              *)

LEMMA ShapeInit == Init => Shape
<1> SUFFICES ASSUME Init PROVE Shape
  OBVIOUS
<1>1. Blank(NoMeta) /\ NoRow.meta = NoMeta
  BY DEF Blank, NoRow
<1>2. ASSUME NEW r \in Requests
      PROVE Shaped(r)
  <2>1. /\ req[r].phase = "get" /\ req[r].copy = NoRow /\ req[r].existing = NoRow
        /\ \/ req[r].at = "idle" /\ req[r].said = {} /\ r \notin begun
           \/ req[r].at = "done" /\ req[r].kind = "chat"
    BY InitFacts
  <2>2. Fits(req[r].kind, req[r].at)
    BY <2>1 DEF Fits, Deletes, Sharing, TurnStages
  <2> QED BY <1>1, <2>1, <2>2 DEF Shaped, Sharing, Early, Turns
<1> QED BY <1>2, InitFacts DEF Shape, RowShaped

\* A stage is followed by one that fits the request, and by sharing and by the
\* stages before the run only from among themselves.
LEMMA FollowingFits ==
  ASSUME NEW r \in Requests, req \in [Requests -> Request],
         Fits(req[r].kind, req[r].at),
         req[r].at \in Updates \cup Lists \cup {"create", "snapshot", "token"}
  PROVE /\ Fits(req[r].kind, Following(r))
        /\ Following(r) \in Early => req[r].at \in Early
        /\ Following(r) \in Sharing => req[r].at \in Sharing
        /\ Following(r) \in Stages \ {"idle", "cut", "token"}
<1> USE DEF Fits, Early, Sharing, TurnStages, Deletes, Turns
<1>1. CASE req[r].at \in {"create", "stamp", "ask", "start"}
  BY <1>1, FollowingFacts
<1>2. CASE req[r].at \in {"answer", "events", "snapshot"}
  BY <1>2, FollowingFacts
<1>3. CASE req[r].at \in {"sum", "finish", "token", "link"}
  BY <1>3, FollowingFacts
<1> QED BY <1>1, <1>2, <1>3 DEF Updates, Lists

LEMMA FirstPhaseFacts ==
  ASSUME NEW stage
  PROVE /\ FirstPhase(stage) \in Phases \ {"index"}
        /\ FirstPhase(stage) = "merge" => Redis /\ stage = "link"
        /\ stage = "link" => FirstPhase(stage) # "get"
        /\ stage = "link" /\ Redis => FirstPhase(stage) = "merge"
        /\ stage = "create" => FirstPhase(stage) = "set"
        /\ stage \in Updates \ {"link"} => FirstPhase(stage) = "get"
BY DEF FirstPhase, Phases, Lists, Updates

\* r goes to another stage: what it takes there must be right.
LEMMA MovedIsShaped ==
  ASSUME TypeOK, Shape, NEW r \in Requests, NEW stage \in Stages \ {"idle", "cut"},
         Moved(r, stage), backend' = backend, begun' \subseteq begun,
         req[r].at # "cut", Fits(req[r].kind, stage),
         stage \in Early => req'[r].said = {},
         stage \in Sharing => req'[r].copy.link # NoOne,
         stage = "token" => req'[r].copy.link = r,
         Blank(req'[r].copy.meta), RowShaped'
  PROVE Shape'
<1>1. ASSUME NEW q \in Requests, q # r
      PROVE Shaped(q)'
  BY <1>1 DEF Shape, Shaped, Moved, Redis
<1>2. Shaped(r)'
  <2>1. /\ req'[r].phase # "index"
        /\ req'[r].phase = "merge" => Redis /\ stage = "link"
        /\ stage = "link" => req'[r].phase # "get"
    BY FirstPhaseFacts DEF Moved
  <2>2. Blank(req'[r].existing.meta)
    BY DEF Moved, Blank, NoRow, NoMeta
  <2>3. /\ req'[r].at = stage /\ req'[r].kind = req[r].kind
        /\ r \in begun => req[r].kind \in Turns
    BY DEF Moved, Shape, Shaped
  <2> QED BY <2>1, <2>2, <2>3 DEF Shaped, Redis, Updates
<1> QED BY <1>1, <1>2 DEF Shape, RowShaped

\* r stays where it is, with another copy or in another phase.
LEMMA HeldIsShaped ==
  ASSUME TypeOK, Shape, NEW r \in Requests,
         \A q \in Requests : q # r => req'[q] = req[q],
         req'[r].at = req[r].at, req'[r].kind = req[r].kind,
         req'[r].said = req[r].said, backend' = backend, begun' = begun,
         req'[r].phase = "index" => Redis /\ req[r].at \in Updates \cup {"create"},
         req'[r].phase = "merge" => Redis /\ req[r].at \in Updates,
         req[r].at = "link" => req'[r].phase # "get",
         req[r].at \in Sharing => req'[r].copy = req[r].copy,
         Blank(req'[r].copy.meta), Blank(req'[r].existing.meta), RowShaped'
  PROVE Shape'
<1>1. ASSUME NEW q \in Requests, q # r
      PROVE Shaped(q)'
  BY <1>1 DEF Shape, Shaped, Redis
<1>2. Shaped(r)'
  <2>1. /\ Shaped(r) /\ ("token" \in Sharing)
        /\ req[r].at \in Sharing => req'[r].copy.link # NoOne
        /\ req[r].at = "token" => req'[r].copy.link = r
    BY DEF Shape, Shaped, Sharing
  <2> QED BY <2>1 DEF Shaped, Redis
<1> QED BY <1>1, <1>2 DEF Shape, RowShaped

\* What a step gives a session to hold or to store has metadata or none.
LEMMA BlankRows ==
  ASSUME TypeOK, Shape, NEW r \in Requests
  PROVE /\ Blank(NoRow.meta) /\ Blank(req[r].copy.meta) /\ Blank(req[r].existing.meta)
        /\ Blank(row.meta) /\ Blank([NoMeta EXCEPT !.given = HasScene])
        /\ Blank(Edited(r).meta)
        /\ Blank(Merged(req[r].existing, Edited(r)).meta)
<1>0. req[r].copy \in Row /\ req[r].copy.meta \in Meta
  BY DEF TypeOK, Request, Row
<1>1. /\ Blank(NoRow.meta) /\ Blank(req[r].copy.meta) /\ Blank(req[r].existing.meta)
      /\ Blank(row.meta)
  BY DEF Shape, Shaped, Blank, NoRow, RowShaped
<1>2. Blank([NoMeta EXCEPT !.given = HasScene])
  <2>1. [NoMeta EXCEPT !.given = FALSE] = NoMeta /\ [NoMeta EXCEPT !.given = TRUE].given
    <3>1. NoMeta.given = FALSE /\ NoMeta \in Meta
      BY ConstantsAreTyped DEF NoMeta
    <3> QED BY <3>1 DEF Meta
  <2>2. CASE HasScene = TRUE
    BY <2>1, <2>2 DEF Blank
  <2>3. CASE HasScene = FALSE
    BY <2>1, <2>3 DEF Blank
  <2> QED BY <2>2, <2>3, SceneAssumption
<1>3. Blank(Edited(r).meta)
  <2> DEFINE meta == [req[r].copy.meta EXCEPT !.given = TRUE]
  <2>1. /\ meta.given /\ [meta EXCEPT !.status = "running"].given
        /\ [meta EXCEPT !.status = "completed"].given
        /\ [meta EXCEPT !.counted = Tokens(r, meta.counted)].given
    BY <1>0 DEF Meta
  <2>2. Edited(r).meta = req[r].copy.meta \/ Edited(r).meta.given
    <3>1. Edited(r).meta =
            CASE req[r].at = "stamp" -> meta
              [] req[r].at = "start" -> [meta EXCEPT !.status = "running"]
              [] req[r].at = "finish" -> [meta EXCEPT !.status = "completed"]
              [] req[r].at = "sum" /\ req[r].copy.exists
                 /\ "events" \in req[r].said ->
                   [meta EXCEPT !.counted = Tokens(r, meta.counted)]
              [] OTHER -> req[r].copy.meta
      BY <1>0 DEF Edited, Row
    <3> HIDE DEF meta
    <3>2. CASE req[r].at \in {"stamp", "start", "finish"}
      BY <2>1, <3>1, <3>2
    <3>3. CASE req[r].at \notin {"stamp", "start", "finish"}
      BY <2>1, <3>1, <3>3
    <3> QED BY <3>2, <3>3
  <2> QED BY <1>1, <2>2 DEF Blank
<1>4. Blank(Merged(req[r].existing, Edited(r)).meta)
  BY <1>1, <1>3 DEF Merged, Blank
<1> QED BY <1>1, <1>2, <1>3, <1>4

LEMMA TurnKeepsShape ==
  ASSUME TypeOK, Shape, NEW r \in Requests, Turn(r)
  PROVE Shape'
<1>0. /\ req \in [Requests -> Request] /\ req[r] \in Request
      /\ Shaped(r) /\ Fits(req[r].kind, req[r].at)
  BY DEF TypeOK, Shape, Shaped
<1>b. /\ Blank(NoRow.meta) /\ Blank(req[r].copy.meta) /\ Blank(req[r].existing.meta)
      /\ Blank(row.meta) /\ (row' = row => RowShaped')
  BY BlankRows DEF Shape, RowShaped
\* On to the stage that follows, with what the session is afterwards.
<1>f. ASSUME Goto(r, Following(r)), RowShaped', backend' = backend, begun' = begun,
             req[r].at \in Updates \cup Lists \cup {"create", "snapshot", "token"}
      PROVE Shape'
  <2>1. /\ Fits(req[r].kind, Following(r))
        /\ Following(r) \in Early => req[r].at \in Early
        /\ Following(r) \in Sharing => req[r].at \in Sharing
        /\ Following(r) \in Stages \ {"idle", "cut", "token"}
    BY <1>0, <1>f, FollowingFits
  <2>2. /\ Moved(r, Following(r)) /\ req'[r].said = req[r].said
        /\ req'[r].copy = IF Following(r) \in Sharing THEN req[r].copy ELSE NoRow
    BY <1>0, <1>f, <2>1, GotoMoves
  <2>3. Following(r) \in Early => req'[r].said = {}
    BY <1>0, <2>1, <2>2 DEF Shaped
  <2>4. Following(r) \in Sharing => req'[r].copy.link # NoOne
    BY <1>0, <2>1, <2>2 DEF Shaped
  <2>5. Blank(req'[r].copy.meta) /\ req[r].at # "cut"
    BY <1>b, <1>f, <2>2 DEF Updates, Lists
  <2> QED BY <1>f, <2>1, <2>2, <2>3, <2>4, <2>5, MovedIsShaped
<1>1. CASE Ensure(r)
  <2>1. PICK stage \in {"stamp", "create"} : Goto(r, stage)
    BY <1>1 DEF Ensure
  <2>2. /\ stage \in Stages \ {"idle", "cut", "token"} /\ stage \notin Sharing
        /\ Fits(req[r].kind, stage) /\ req[r].said = {}
    BY <1>1, <1>0 DEF Ensure, Shaped, Stages, Updates, Sharing, Fits, Deletes, TurnStages, Early
  <2>3. /\ Moved(r, stage) /\ req'[r].said = req[r].said /\ req'[r].copy = NoRow
    BY <1>0, <2>1, <2>2, GotoMoves
  <2>4. RowShaped' /\ backend' = backend /\ begun' = begun /\ req[r].at # "cut"
    BY <1>1, <1>b DEF Ensure, store, history
  <2> QED BY <1>b, <2>2, <2>3, <2>4, MovedIsShaped
<1>2. CASE Create(r)
  <2>1. RowShaped'
    BY <1>2, <1>b, BlankRows DEF Create, RowShaped
  <2>2. CASE ~Redis
    BY <1>2, <2>1, <2>2, <1>f DEF Create
  <2>3. CASE Redis
    BY <1>2, <2>1, <2>3, <1>0, <1>b, PhaseMoves, HeldIsShaped
    DEF Create, Phases, Updates, Sharing
  <2> QED BY <2>2, <2>3
<1>3. CASE Index(r)
  BY <1>3, <1>f, <1>0, <1>b DEF Index, history, Shaped
<1>4. CASE Read(r)
  <2>1. CASE row.exists \/ req[r].at = "sum"
    <3>1. /\ backend' = backend /\ begun' = begun /\ row' = row
          /\ req[r].at \in Updates \ {"link"} /\ req[r].at \notin Sharing
      BY <1>4, <1>0 DEF Read, store, history, Shaped, Updates, Sharing
    <3> QED BY <1>4, <2>1, <3>1, <1>b, ReadMoves, HeldIsShaped
  <2>2. CASE ~(row.exists \/ req[r].at = "sum")
    BY <1>4, <2>2, <1>f, <1>b DEF Read, store, history
  <2> QED BY <2>1, <2>2
<1>5. CASE Reread(r)
  <2>1. backend' = backend /\ begun' = begun /\ row' = row
    BY <1>5 DEF Reread, store, history
  <2> QED BY <1>5, <2>1, <1>0, <1>b, RereadMoves, HeldIsShaped DEF Shaped
<1>6. CASE Update(r)
  <2>1. RowShaped'
    <3>1. CASE Redis
      <4>1. Edited(r).exists
        BY <1>0 DEF Edited, Request, Row
      <4>2. Merged(req[r].existing, Edited(r)).exists
        BY <4>1 DEF Merged
      <4> QED BY <1>6, <3>1, <4>2, BlankRows DEF Update, RowShaped
    <3>2. CASE ~Redis
      <4>1. row' = row \/ (row'.meta = Edited(r).meta /\ row'.exists)
        BY <1>6, <3>2 DEF Update, TypeOK, Row
      <4> QED BY <4>1, <1>b, BlankRows DEF RowShaped
    <3> QED BY <3>1, <3>2
  <2>2. CASE ~Redis
    BY <1>6, <2>1, <2>2, <1>f DEF Update
  <2>3. CASE Redis
    BY <1>6, <2>1, <2>3, <1>0, <1>b, PhaseMoves, HeldIsShaped
    DEF Update, Phases, Shaped
  <2> QED BY <2>2, <2>3
<1>7. CASE LoadHistory(r)
  <2>1. /\ "ask" \in Stages \ {"idle", "cut", "token"} /\ "ask" \notin Sharing
        /\ Fits(req[r].kind, "ask") /\ req[r].said = {}
    BY <1>7, <1>0 DEF LoadHistory, Shaped, Stages, Lists, Sharing, Fits, Deletes, TurnStages, Early
  <2>2. row' = row /\ backend' = backend /\ begun' = begun /\ req[r].at # "cut"
    BY <1>7 DEF LoadHistory, store, history
  <2> QED BY <1>7, <1>b, <2>1, <2>2, LoadHistoryMoves, MovedIsShaped
<1>8. CASE ReadList(r)
  <2>1. backend' = backend /\ begun' = begun /\ row' = row
    BY <1>8 DEF ReadList, store, history
  <2> QED BY <1>8, <2>1, <1>0, <1>b, ReadListMoves, HeldIsShaped DEF Shaped
<1>9. CASE Extend(r)
  BY <1>9, <1>f, <1>b DEF Extend
<1>10. CASE Run(r)
  <2>1. /\ backend' = backend /\ begun' = begun /\ row' = row /\ req[r].at # "cut"
        /\ req'[r].copy = NoRow
    BY <1>10, RunMoves DEF Run, store, history
  <2>2. PICK stage \in {"answer", "events", "sum", "done"} : Moved(r, stage)
    BY <1>10, RunMoves
  <2>3. /\ stage \in Stages \ {"idle", "cut"} /\ stage \notin Sharing \cup Early
        /\ stage # "token" /\ Fits(req[r].kind, stage)
    BY <1>10, <1>0 DEF Run, Stages, Lists, Updates, Sharing, Early, Fits, Deletes, TurnStages
  <2> QED BY <1>b, <2>1, <2>2, <2>3, MovedIsShaped
<1>11. CASE SaveSnapshot(r)
  BY <1>11, <1>f, <1>b DEF SaveSnapshot
<1> QED BY <1>1, <1>2, <1>3, <1>4, <1>5, <1>6, <1>7, <1>8, <1>9, <1>10, <1>11 DEF Turn

LEMMA OthersKeepShape ==
  ASSUME TypeOK, Shape, NEW r \in Requests, Arrive(r) \/ ShareOrDelete(r)
  PROVE Shape'
<1>0. /\ req \in [Requests -> Request] /\ req[r] \in Request
      /\ Shaped(r) /\ Fits(req[r].kind, req[r].at)
  BY DEF TypeOK, Shape, Shaped
<1>b. /\ Blank(NoRow.meta) /\ Blank(req[r].copy.meta) /\ Blank(row.meta)
      /\ (row' \in {row, NoRow} => RowShaped')
  BY BlankRows DEF Shape, RowShaped
<1>1. CASE Arrive(r)
  <2>1. PICK kind \in AllKinds :
          /\ req'[r].kind = kind /\ req'[r].at = FirstStage(kind)
          /\ req'[r].phase = FirstPhase(FirstStage(kind))
          /\ begun' = IF kind = "delete" THEN {}
                      ELSE IF kind \in Turns THEN begun \cup {r} ELSE begun
    BY <1>1, <1>0, ArriveMoves
  <2>2. /\ req[r].at = "idle" /\ \A q \in Requests : q # r => req'[q] = req[q]
        /\ req'[r].said = {} /\ req'[r].existing = NoRow /\ req'[r].copy = NoRow
        /\ backend' = backend /\ row' = row
    BY <1>1, <1>0, ArriveMoves
  <2>3. /\ FirstStage(kind) \in {"ensure", "find", "snapshot", "delRow"}
        /\ Fits(kind, FirstStage(kind))
    BY FirstStageFacts DEF AllKinds, Fits, Deletes, Sharing, TurnStages, Turns
  <2>4. Shaped(r)'
    <3>1. req'[r].phase \notin {"index", "merge"}
      BY <2>1, <2>3, FirstPhaseFacts
    <3>2. r \in begun' => kind \in Turns
      BY <1>0, <2>1, <2>2 DEF Shaped
    <3> QED BY <1>b, <2>1, <2>2, <2>3, <3>1, <3>2 DEF Shaped, Sharing
  <2>5. ASSUME NEW q \in Requests, q # r
        PROVE Shaped(q)'
    <3>1. req'[q] = req[q] /\ (q \in begun' => q \in begun)
      BY <2>1, <2>2, <2>5
    <3> QED BY <2>2, <3>1 DEF Shape, Shaped, Redis
  <2> QED BY <1>b, <2>2, <2>4, <2>5 DEF Shape
<1>2. CASE Find(r)
  <2>1. backend' = backend /\ begun' = begun /\ RowShaped' /\ req[r].at # "cut"
        /\ req[r].kind = "share"
    BY <1>2, <1>0, <1>b DEF Find, store, history, Fits
  <2>2. ASSUME NEW stage \in {"done", "token", "respond"}, Moved(r, stage),
               stage # "done" => req'[r].copy.link # NoOne,
               stage = "token" => req'[r].copy.link = r, Blank(req'[r].copy.meta)
        PROVE Shape'
    <3>1. /\ stage \in Stages \ {"idle", "cut"} /\ stage \notin Early
          /\ (stage \in Sharing => stage # "done") /\ Fits(req[r].kind, stage)
      BY <2>1 DEF Stages, Sharing, Early, Fits, Deletes, TurnStages
    <3> QED BY <2>1, <2>2, <3>1, MovedIsShaped
  <2>3. [row EXCEPT !.link = r].link = r /\ [row EXCEPT !.link = r].meta = row.meta /\ r # NoOne
    BY NoOneAssumption DEF Row, TypeOK
  <2> QED BY <1>2, <1>b, <2>2, <2>3, FindMoves
<1>3. CASE SetShareToken(r)
  <2>1. /\ backend' = backend /\ begun' = begun /\ Goto(r, "link") /\ req[r].at = "token"
    BY <1>3, <1>0, FollowingFacts DEF SetShareToken
  <2>2. RowShaped'
    <3>1. row' = row \/ (row.exists /\ row' = [row EXCEPT !.link = r])
      BY <1>3 DEF SetShareToken
    <3> QED BY <3>1, <1>b DEF TypeOK, Row, RowShaped
  <2>3. /\ "link" \in Stages \ {"idle", "cut"} /\ "link" \in Sharing /\ "link" \notin Early
        /\ Fits(req[r].kind, "link")
    BY <1>0, <2>1 DEF Stages, Updates, Sharing, Early, Fits, Deletes, TurnStages
  <2>4. Moved(r, "link") /\ req'[r].copy = req[r].copy /\ "link" # "token"
    BY <1>0, <2>1, <2>3, GotoMoves
  <2>5. req'[r].copy.link # NoOne
    BY <1>0, <2>1, <2>4 DEF Shaped, Sharing
  <2> QED BY <1>b, <2>1, <2>2, <2>3, <2>4, <2>5, MovedIsShaped
<1>4. ASSUME NEW stage \in Deletes \cup {"done"}, Goto(r, stage), backend' = backend,
             begun' = begun, row' \in {row, NoRow}, req[r].at \in Deletes \cup {"respond"},
             stage \in Deletes => req[r].at \in Deletes
      PROVE Shape'
  <2>1. /\ stage \in Stages \ {"idle", "cut"} /\ stage \notin Sharing \cup Early
        /\ Fits(req[r].kind, stage)
    BY <1>0, <1>4 DEF Stages, Sharing, Early, Fits, Deletes, TurnStages
  <2>2. Moved(r, stage) /\ req'[r].copy = NoRow
    BY <1>0, <1>4, <2>1, GotoMoves
  <2>3. RowShaped' /\ req[r].at # "cut" /\ stage # "token"
    BY <1>4, <1>b DEF Deletes
  <2> QED BY <1>b, <1>4, <2>1, <2>2, <2>3, MovedIsShaped
<1>5. CASE Respond(r)
  BY <1>5, <1>4 DEF Respond, store, Deletes
<1>6. CASE DeleteRow(r)
  BY <1>6, <1>4 DEF DeleteRow, Deletes, history
<1>7. CASE DeleteKey(r)
  <2>1. Deletion[req[r].at] \in Deletes \cup {"done"}
    BY <1>7, DeletionFacts DEF DeleteKey, Deletes
  <2> QED BY <1>7, <1>4, <2>1 DEF DeleteKey, history
<1> QED BY <1>1, <1>2, <1>3, <1>5, <1>6, <1>7 DEF ShareOrDelete

LEMMA RestartKeepsShape == TypeOK /\ Shape /\ Restart => Shape'
<1> SUFFICES ASSUME TypeOK, Shape, Restart PROVE Shape'
  OBVIOUS
<1>1. row' = row /\ backend' = backend /\ begun' = begun
  BY DEF Restart, store
<1>2. ASSUME NEW r \in Requests
      PROVE Shaped(r)'
  <2>1. CASE r \notin Active
    BY <1>1, <2>1 DEF Restart, Shape, Shaped, Redis
  <2>2. CASE r \in Active
    <3>1. req'[r] = [Fresh EXCEPT !.at = "cut"]
      BY <2>2 DEF Restart
    <3>2. /\ req'[r].at = "cut" /\ req'[r].phase = "get"
          /\ req'[r].copy = NoRow /\ req'[r].existing = NoRow
      BY <3>1 DEF Fresh
    <3>3. Fits(req'[r].kind, "cut") /\ "cut" \notin Early \cup Sharing
      BY DEF Fits, Deletes, Sharing, TurnStages, Early
    <3> QED BY <3>2, <3>3, BlankRows DEF Shaped
  <2> QED BY <2>1, <2>2
<1> QED BY <1>1, <1>2 DEF Shape, RowShaped

LEMMA ShapeNext == TypeOK /\ Shape /\ [Next]_vars => Shape'
<1> SUFFICES ASSUME TypeOK, Shape, [Next]_vars PROVE Shape'
  OBVIOUS
<1>1. CASE UNCHANGED vars
  BY <1>1 DEF vars, store, conversation, history, Shape, Shaped, Redis, RowShaped
<1> QED BY <1>1, TurnKeepsShape, OthersKeepShape, RestartKeepsShape DEF Next

\* The types, whatever the requests.
THEOREM SessionTyped == Spec => []TypeOK
BY TypeInit, TypeNext, ShapeInit, ShapeNext, PTL DEF Spec

-----------------------------------------------------------------------------
(* Deletions are alone, and the session is there.                          *)

LEMMA OrderlyInit == Init => Orderly
<1> SUFFICES ASSUME Init PROVE Orderly
  OBVIOUS
<1>1. \A r \in Requests : req[r].at \in {"idle", "done"}
  BY InitFacts
<1>2. \A r \in Requests : ~Holds(r) /\ req[r].at \notin Sharing
  BY <1>1 DEF Holds, Updates, Sharing
<1>3. Active = {} /\ handed = {} /\ (begun # {} => row.exists)
      /\ (row.exists => row.owned)
  BY <1>1, InitFacts DEF Active, Init
<1> QED BY <1>2, <1>3 DEF Orderly

\* What a request may do but arrive, delete or be cut: it leaves a session
\* where there was one, and holds no other.
LEMMA OrderlyStep ==
  ASSUME TypeOK, Orderly, NEW r \in Requests,
         r \in Active, req[r].kind # "delete",
         \A q \in Requests : q # r => req'[q] = req[q],
         req'[r].kind = req[r].kind, req'[r].at # "idle",
         begun' = begun, met' = met,
         row.exists => row'.exists,
         ~met => /\ row'.exists => row'.owned
                 /\ handed' # {} => row'.exists
                 /\ r \in begun /\ Past(r)' => row'.exists
                 /\ req'[r].at \in Sharing => row'.exists
                 /\ Holds(r)' => req'[r].copy.exists /\ req'[r].copy.owned
  PROVE Orderly'
<1> SUFFICES ASSUME ~met PROVE Orderly'
  BY DEF Orderly
<1>1. Active' \subseteq Active
  BY DEF Active
<1>2. \A q \in Requests : req'[q].kind = req[q].kind
  OBVIOUS
<1>3. ASSUME NEW q \in Active'
      PROVE req'[q].kind # "delete"
  <2>1. q \in Active /\ q \in Requests
    BY <1>1 DEF Active
  <2>2. req[q].kind # "delete"
    BY <2>1 DEF Orderly
  <2> QED BY <1>2, <2>1, <2>2
<1>4. \A q \in Active' : req'[q].kind \in Turns => q \in begun'
  BY <1>1, <1>2 DEF Orderly, Active
<1>5. \A q \in begun' : Past(q)' => row'.exists
  BY DEF Orderly, Past, TypeOK
<1>6. \A q \in Requests : req'[q].at \in Sharing => row'.exists
  BY DEF Orderly
<1>7. \A q \in Requests : Holds(q)' => req'[q].copy.exists /\ req'[q].copy.owned
  BY DEF Orderly, Holds
<1> QED BY <1>3, <1>4, <1>5, <1>6, <1>7 DEF Orderly

\* As long as no deletion met a request, whoever works on a session in a turn
\* or shares it finds it.
LEMMA SessionIsThere ==
  ASSUME TypeOK, Shape, Orderly, ~met, NEW r \in Requests,
         \/ req[r].at \in TurnStages \ {"ensure", "create"}
         \/ req[r].at = "create" /\ req[r].phase = "index"
         \/ req[r].at \in Sharing
  PROVE row.exists
<1>1. CASE req[r].at \in Sharing
  BY <1>1 DEF Orderly
<1>2. CASE req[r].at \in TurnStages
  <2>1. r \in Active /\ req[r].kind \in Turns
    BY <1>2 DEF Shape, Shaped, Fits, Active, TurnStages
  <2>2. r \in begun /\ Past(r)
    BY <1>2, <2>1 DEF Orderly, Past, TurnStages, Sharing
  <2> QED BY <2>2 DEF Orderly
<1> QED BY <1>1, <1>2 DEF TurnStages

\* Who works on a turn or shares the session is under way, and no deletion.
LEMMA AtWork ==
  ASSUME Shape, NEW r \in Requests,
         req[r].at \in TurnStages \cup Sharing \cup {"find", "snapshot"}
  PROVE r \in Active /\ req[r].kind # "delete"
BY DEF Active, Shape, Shaped, Fits, Turns, TurnStages, Sharing

LEMMA TurnKeepsOrder ==
  ASSUME TypeOK, Shape, Orderly, NEW r \in Requests, Turn(r)
  PROVE Orderly'
<1>0. /\ req \in [Requests -> Request] /\ req[r] \in Request /\ row \in Row
      /\ Shaped(r) /\ Fits(req[r].kind, req[r].at)
  BY DEF TypeOK, Shape, Shaped
<1> USE DEF Past
<1>g. row.exists /\ ~met => row.owned
  BY DEF Orderly
<1>h. handed # {} /\ ~met => row.exists
  BY DEF Orderly
\* On to another stage, with the session as it was.
<1>k. ASSUME NEW stage \in Stages \ {"idle"}, Moved(r, stage), UNCHANGED <<row, handed, begun, met>>,
             req[r].at \in TurnStages \cup {"snapshot", "link"},
             stage \in Sharing => req[r].at = "link" /\ req'[r].copy = req[r].copy,
             r \in begun /\ ~met => row.exists \/ stage = "create"
      PROVE Orderly'
  <2>1. r \in Active /\ req[r].kind # "delete"
    BY <1>k, AtWork DEF Sharing
  <2>2. /\ req'[r].kind = req[r].kind /\ req'[r].at = stage
        /\ req'[r].phase = FirstPhase(stage)
        /\ \A q \in Requests : q # r => req'[q] = req[q]
    BY <1>k DEF Moved
  <2>3. stage = "create" => FirstPhase(stage) = "set"
    BY FirstPhaseFacts
  <2>4. ~met /\ stage \in Sharing =>
          row.exists /\ req[r].copy.exists /\ req[r].copy.owned
    <3>1. ~met /\ req[r].at = "link" => Holds(r)
      BY DEF Holds, Sharing
    <3> QED BY <1>k, <3>1, SessionIsThere DEF Orderly, Sharing
  <2>5. Holds(r)' => stage \in Sharing
    <3>1. FirstPhase(stage) \in {"merge", "set"} /\ stage \in Updates => stage = "link"
      BY FirstPhaseFacts
    <3> QED BY <2>2, <3>1 DEF Holds, Sharing
  <2> QED BY <1>k, <1>g, <1>h, <2>1, <2>2, <2>3, <2>4, <2>5, OrderlyStep
\* The same to the stage that follows.
<1>f. ASSUME Goto(r, Following(r)), UNCHANGED <<row, handed, begun, met>>,
             \/ req[r].at \in Updates \cup Lists \cup {"snapshot"}
             \/ req[r].at = "create" /\ req[r].phase = "index"
      PROVE Orderly'
  <2>1. /\ Following(r) \in Stages \ {"idle"}
        /\ Following(r) \in Sharing => req[r].at = "link"
    <3>1. req[r].at \in TurnStages \cup {"snapshot", "link"}
      BY <1>f DEF Updates, Lists, TurnStages
    <3>2. Following(r) \in Stages \ {"idle", "cut", "token"}
          /\ (Following(r) \in Sharing => req[r].at \in Sharing)
      BY <1>f, <1>0, FollowingFits
    <3> QED BY <3>1, <3>2 DEF Sharing, TurnStages
  <2>2. /\ Moved(r, Following(r))
        /\ req'[r].copy = IF Following(r) \in Sharing THEN req[r].copy ELSE NoRow
    BY <1>0, <1>f, <2>1, GotoMoves
  <2>3. r \in begun /\ ~met => row.exists
    BY <1>f DEF Orderly, Updates, Lists
  <2> QED BY <1>f, <2>1, <2>2, <2>3, <1>k DEF Updates, Lists, TurnStages
\* Nowhere.
<1>s. ASSUME \A q \in Requests : q # r => req'[q] = req[q],
             req'[r].at = req[r].at, req'[r].kind = req[r].kind,
             req[r].at \in TurnStages \cup {"link"}, UNCHANGED <<handed, begun, met>>,
             row.exists => row'.exists, ~met /\ row'.exists => row'.owned,
             ~met /\ r \in begun /\ Past(r)' => row'.exists,
             ~met /\ Holds(r)' => req'[r].copy.exists /\ req'[r].copy.owned
      PROVE Orderly'
  <2>1. r \in Active /\ req[r].kind # "delete" /\ req[r].at # "idle"
    BY <1>s, AtWork DEF Sharing, TurnStages
  <2>2. ~met /\ req[r].at \in Sharing => row.exists
    BY SessionIsThere
  <2> QED BY <1>s, <1>h, <2>1, <2>2, OrderlyStep
<1>1. CASE Ensure(r)
  <2>1. PICK stage \in {"stamp", "create"} : Goto(r, stage) /\ (stage = "stamp" => row.exists)
    BY <1>1 DEF Ensure
  <2>2. stage \in Stages \ {"idle"} /\ stage \notin Sharing
    BY DEF Stages, Updates, Sharing
  <2>3. Moved(r, stage)
    BY <1>0, <2>1, <2>2, GotoMoves
  <2> QED BY <1>1, <1>k, <2>1, <2>2, <2>3 DEF Ensure, store, history, TurnStages
<1>2. CASE Create(r)
  <2>1. /\ row'.exists /\ UNCHANGED <<handed, begun, met>> /\ req[r].at = "create"
        /\ ~met => row'.owned
    BY <1>2, <1>g DEF Create
  <2>2. CASE Redis
    <3>1. ~Holds(r)'
      BY <1>2, <2>2, <1>0, PhaseMoves DEF Create, Phases, Holds, Updates, Sharing
    <3> QED BY <1>2, <2>1, <2>2, <3>1, <1>0, <1>s, PhaseMoves DEF Create, Phases, TurnStages
  <2>3. CASE ~Redis
    <3>1. Goto(r, "stamp")
      BY <1>2, <2>3, <1>0, FollowingFacts DEF Create
    <3>2. Moved(r, "stamp") /\ "stamp" \notin Sharing
      BY <1>0, <3>1, GotoMoves DEF Stages, Updates, Sharing
    <3>3. req'[r].phase = "get"
      BY <3>2, FirstPhaseFacts DEF Moved, Updates
    <3>4. ~Holds(r)'
      BY <3>2, <3>3 DEF Moved, Holds
    <3> QED BY <2>1, <3>2, <3>4, <1>h, AtWork, OrderlyStep DEF Moved, TurnStages
  <2> QED BY <2>2, <2>3
<1>3. CASE Index(r)
  BY <1>3, <1>0, <1>f DEF Index, history, Shaped
<1>4. CASE Read(r)
  <2>1. UNCHANGED <<row, handed, begun, met>> /\ req[r].at \in Updates \ {"link"}
    BY <1>4, <1>0 DEF Read, store, history, Shaped, Updates
  <2>2. ~met => row.exists
    BY <2>1, SessionIsThere DEF Updates, TurnStages
  <2>3. CASE row.exists \/ req[r].at = "sum"
    BY <1>4, <1>s, <1>g, <2>1, <2>2, <2>3, ReadMoves DEF Updates, TurnStages
  <2>4. CASE ~(row.exists \/ req[r].at = "sum")
    BY <1>4, <1>f, <2>1, <2>4 DEF Read
  <2> QED BY <2>3, <2>4
<1>5. CASE Reread(r)
  <2>1. /\ UNCHANGED <<row, handed, begun, met>>
        /\ req[r].at \in Updates /\ req[r].phase = "merge"
    BY <1>5, <1>0 DEF Reread, store, history, Shaped
  <2>2. ~met => req[r].copy.exists /\ req[r].copy.owned /\ row.exists
    BY <2>1, SessionIsThere DEF Orderly, Holds, Updates, TurnStages, Sharing
  <2> QED BY <1>5, <1>s, <1>g, <2>1, <2>2, RereadMoves DEF Updates, TurnStages
<1>6. CASE Update(r)
  <2>1. /\ UNCHANGED <<handed, begun, met>>
        /\ req[r].at \in Updates /\ req[r].phase = "set"
    BY <1>6 DEF Update
  <2>2. ~met => req[r].copy.exists /\ req[r].copy.owned /\ row.exists
    BY <2>1, SessionIsThere DEF Orderly, Holds, Updates, TurnStages, Sharing
  <2>3. Edited(r).exists /\ Edited(r).owned = req[r].copy.owned
    BY <1>0 DEF Edited, Request, Row
  <2>4. CASE Redis
    <3>1. row' = Merged(req[r].existing, Edited(r)) /\ Phase(r, "index")
      BY <1>6, <2>4 DEF Update
    <3>2. row'.exists /\ (~met => row'.owned)
      BY <2>2, <2>3, <3>1 DEF Merged
    <3> QED BY <1>0, <1>s, <2>1, <2>2, <3>1, <3>2, PhaseMoves DEF Updates, TurnStages, Phases
  <2>5. CASE ~Redis
    <3>1. row'.exists = row.exists /\ row'.owned = row.owned
      BY <1>6, <2>5, <1>0 DEF Update, Row
    <3>2. /\ Following(r) \in Stages \ {"idle"}
          /\ Following(r) \in Sharing => req[r].at = "link"
      BY <1>0, <2>1, FollowingFits DEF Updates, Sharing
    <3>3. /\ Moved(r, Following(r))
          /\ req'[r].copy = IF Following(r) \in Sharing THEN req[r].copy ELSE NoRow
      BY <1>6, <2>5, <1>0, <3>2, GotoMoves DEF Update
    <3>4. Following(r) # "link"
      BY <1>0, <2>1, FollowingFacts DEF Updates
    <3>5. Holds(r)' => Following(r) \in Sharing
      BY <3>3, <3>4, FirstPhaseFacts DEF Holds, Moved
    <3>6. r \in Active /\ req[r].kind # "delete"
      BY <2>1, AtWork DEF Updates, TurnStages, Sharing
    <3> QED BY <1>g, <1>h, <2>1, <2>2, <3>1, <3>2, <3>3, <3>5, <3>6, OrderlyStep DEF Moved
  <2> QED BY <2>4, <2>5
<1>7. CASE LoadHistory(r)
  <2>1. UNCHANGED <<row, handed, begun, met>> /\ req[r].at = "history"
    BY <1>7 DEF LoadHistory, store, history
  <2>2. r \in begun /\ ~met => row.exists
    BY <2>1 DEF Orderly
  <2> QED BY <1>7, <1>k, <2>1, <2>2, LoadHistoryMoves DEF Stages, Lists, Sharing, TurnStages
<1>8. CASE ReadList(r)
  <2>1. UNCHANGED <<row, handed, begun, met>> /\ req[r].at \in Lists
    BY <1>8 DEF ReadList, store, history
  <2>2. (r \in begun /\ ~met => row.exists) /\ ~Holds(r)'
    BY <1>8, <2>1, ReadListMoves DEF Orderly, Holds, Lists, Updates, Sharing
  <2> QED BY <1>8, <1>s, <1>g, <2>1, <2>2, ReadListMoves DEF Lists, TurnStages
<1>9. CASE Extend(r)
  BY <1>9, <1>f DEF Extend
<1>10. CASE Run(r)
  <2>1. UNCHANGED <<row, handed, begun, met>> /\ req[r].at = "run"
    BY <1>10 DEF Run, store, history
  <2>2. PICK stage \in {"answer", "events", "sum", "done"} : Moved(r, stage)
    BY <1>10, RunMoves
  <2>3. (r \in begun /\ ~met => row.exists) /\ stage \in Stages \ {"idle"} /\ stage \notin Sharing
    BY <2>1 DEF Orderly, Stages, Lists, Updates, Sharing
  <2> QED BY <1>k, <2>1, <2>2, <2>3 DEF TurnStages
<1>11. CASE SaveSnapshot(r)
  BY <1>11, <1>f DEF SaveSnapshot
<1> QED BY <1>1, <1>2, <1>3, <1>4, <1>5, <1>6, <1>7, <1>8, <1>9, <1>10, <1>11 DEF Turn

\* A deletion that met nobody is alone, and nothing counts on the session.
LEMMA DeletionIsAlone ==
  ASSUME Shape, Orderly, ~met, NEW r \in Requests, req[r].at \in Deletes
  PROVE /\ Active = {r} /\ handed = {} /\ begun = {}
        /\ \A q \in Requests : q # r => req[q].at \in {"idle", "done", "cut"}
<1>1. r \in Active /\ req[r].kind = "delete"
  BY DEF Active, Shape, Shaped, Fits, Deletes
<1>2. Active = {r} /\ handed = {} /\ begun = {}
  BY <1>1 DEF Orderly
<1> QED BY <1>2 DEF Active

LEMMA DeleteMoves ==
  ASSUME NEW r \in Requests, TypeOK, DeleteRow(r) \/ DeleteKey(r)
  PROVE /\ \E stage \in Deletes \cup {"done"} : Moved(r, stage)
        /\ req[r].at \in Deletes /\ req'[r].copy = NoRow
        /\ row' \in {row, NoRow} /\ UNCHANGED <<backend, links, history>>
<1>0. req \in [Requests -> Request]
  BY DEF TypeOK
<1>1. PICK stage \in Deletes \cup {"done"} : Goto(r, stage)
  <2>1. CASE DeleteRow(r)
    BY <2>1 DEF DeleteRow
  <2>2. CASE DeleteKey(r)
    BY <2>2, DeletionFacts DEF DeleteKey, Deletes
  <2> QED BY <2>1, <2>2
<1>2. stage \in Stages /\ stage \notin Sharing
  BY <1>1 DEF Deletes, Stages, Sharing
<1>3. Moved(r, stage) /\ req'[r].copy = NoRow
  BY <1>0, <1>1, <1>2, GotoMoves
<1>4. /\ req[r].at \in Deletes /\ row' \in {row, NoRow}
      /\ UNCHANGED <<backend, links, history>>
  BY DEF DeleteRow, DeleteKey, Deletes
<1> QED BY <1>3, <1>4

LEMMA ArriveKeepsOrder ==
  ASSUME TypeOK, Shape, Orderly, NEW r \in Requests, Arrive(r)
  PROVE Orderly'
<1>0. req \in [Requests -> Request] /\ r \notin Active
  BY DEF TypeOK, Active, Arrive
<1>1. PICK kind \in AllKinds :
        /\ req'[r].kind = kind /\ req'[r].at = FirstStage(kind)
        /\ handed' = IF kind = "delete" THEN {} ELSE handed
        /\ begun' = IF kind = "delete" THEN {}
                    ELSE IF kind \in Turns THEN begun \cup {r} ELSE begun
        /\ met' = (met \/ \E q \in Active : "delete" \in {kind, req[q].kind})
  BY <1>0, ArriveMoves
<1>2. /\ \A q \in Requests : q # r => req'[q] = req[q]
      /\ row' = row
  BY <1>0, ArriveMoves
<1>3. /\ FirstStage(kind) \in {"ensure", "find", "snapshot", "delRow"}
      /\ kind \in Turns => FirstStage(kind) = "ensure"
      /\ kind = "delete" => kind \notin Turns
  BY FirstStageFacts DEF AllKinds, Turns
<1> SUFFICES ASSUME ~met' PROVE Orderly'
  BY DEF Orderly
<1>4. ~met /\ \A q \in Active : kind # "delete" /\ req[q].kind # "delete"
  BY <1>1
<1>5. Active' = Active \cup {r}
  BY <1>1, <1>2, <1>3 DEF Active
<1>6. ASSUME NEW q \in Active', req'[q].kind = "delete"
      PROVE Active' = {q} /\ handed' = {} /\ begun' = {}
  <2>1. q = r
    BY <1>2, <1>4, <1>5, <1>6 DEF Active
  <2> QED BY <1>1, <1>4, <1>5, <1>6, <2>1
<1>7. ASSUME NEW q \in Active', req'[q].kind \in Turns
      PROVE q \in begun'
  <2>1. CASE q = r
    BY <1>1, <1>3, <1>7, <2>1
  <2>2. CASE q # r
    <3>1. q \in Active /\ req'[q] = req[q]
      BY <1>2, <1>5, <2>2 DEF Active
    <3> QED BY <1>1, <1>4, <1>7, <3>1 DEF Orderly
  <2> QED BY <2>1, <2>2
<1>8. ASSUME NEW q \in begun', Past(q)'
      PROVE row'.exists
  <2>1. CASE q = r
    <3>1. r \notin begun
      BY DEF Shape, Shaped, Arrive
    <3> QED BY <1>1, <1>3, <1>8, <2>1, <3>1 DEF Past
  <2>2. CASE q # r
    <3>1. q \in begun /\ q \in Requests
      BY <1>1, <1>8, <2>2 DEF TypeOK
    <3> QED BY <1>2, <1>4, <1>8, <2>2, <3>1 DEF Orderly, Past
  <2> QED BY <2>1, <2>2
<1>9. /\ \A q \in Requests : req'[q].at \in Sharing => row'.exists
      /\ \A q \in Requests : Holds(q)' => req'[q].copy.exists /\ req'[q].copy.owned
  BY <1>1, <1>2, <1>3, <1>4 DEF Orderly, Holds, Sharing, Updates
<1>10. (handed' # {} => row'.exists) /\ (row'.exists => row'.owned)
  BY <1>1, <1>2, <1>4 DEF Orderly
<1> QED BY <1>6, <1>7, <1>8, <1>9, <1>10 DEF Orderly

LEMMA OthersKeepOrder ==
  ASSUME TypeOK, Shape, Orderly, NEW r \in Requests, ShareOrDelete(r)
  PROVE Orderly'
<1>0. /\ req \in [Requests -> Request] /\ req[r] \in Request /\ row \in Row
      /\ Shaped(r)
  BY DEF TypeOK, Shape, Shaped
<1>g. row.exists /\ ~met => row.owned
  BY DEF Orderly
<1>h. handed # {} /\ ~met => row.exists
  BY DEF Orderly
<1>b. r \notin begun \/ req[r].at \notin Sharing \cup {"find"}
  BY <1>0 DEF Shaped, Fits, Turns, Sharing
<1>1. CASE Find(r)
  <2>1. UNCHANGED <<row, begun, handed, met>> /\ r \in Active /\ req[r].kind # "delete" /\ r \notin begun
    BY <1>1, <1>b, AtWork DEF Find, store, history
  <2>2. ASSUME NEW stage \in {"done", "token", "respond"}, Moved(r, stage),
               stage # "done" => row.exists /\ req'[r].copy.exists
                                 /\ (~met => req'[r].copy.owned)
        PROVE Orderly'
    <3>1. Holds(r)' => stage # "done"
      BY <2>2 DEF Moved, Holds, Updates, Sharing
    <3> QED BY <1>g, <1>h, <2>1, <2>2, <3>1, OrderlyStep DEF Moved, Sharing
  <2>3. [row EXCEPT !.link = r].exists = row.exists /\ [row EXCEPT !.link = r].owned = row.owned
    BY <1>0 DEF Row
  <2> QED BY <1>1, <1>g, <2>2, <2>3, FindMoves
<1>2. CASE SetShareToken(r)
  <2>1. UNCHANGED <<begun, handed, met>> /\ r \in Active /\ req[r].kind # "delete" /\ r \notin begun
    BY <1>2, <1>b, AtWork DEF SetShareToken, Sharing
  <2>2. row'.exists = row.exists /\ row'.owned = row.owned
    BY <1>2, <1>0 DEF SetShareToken, Row
  <2>3. Moved(r, "link") /\ req'[r].copy = req[r].copy
    BY <1>2, <1>0, FollowingFacts, GotoMoves DEF SetShareToken, Stages, Updates, Sharing
  <2>4. ~met => row.exists /\ req[r].copy.exists /\ req[r].copy.owned
    BY <1>2 DEF SetShareToken, Orderly, Holds, Sharing
  <2> QED BY <1>g, <1>h, <2>1, <2>2, <2>3, <2>4, OrderlyStep DEF Moved
<1>3. CASE Respond(r)
  <2>1. UNCHANGED <<row, begun, met>> /\ r \in Active /\ req[r].kind # "delete" /\ r \notin begun
    BY <1>3, <1>b, AtWork DEF Respond, store, Sharing
  <2>2. ~met => row.exists
    BY <1>3, SessionIsThere DEF Respond, Sharing
  <2>3. Moved(r, "done")
    BY <1>3, <1>0, GotoMoves DEF Respond, Stages
  <2>4. ~Holds(r)' /\ "done" \notin Sharing
    BY <2>3 DEF Moved, Holds, Updates, Sharing
  <2> QED BY <1>g, <2>1, <2>2, <2>3, <2>4, OrderlyStep DEF Moved
<1>4. CASE DeleteRow(r) \/ DeleteKey(r)
  <2>1. PICK stage \in Deletes \cup {"done"} : Moved(r, stage)
    BY <1>4, DeleteMoves
  <2>2. req[r].at \in Deletes /\ row' \in {row, NoRow} /\ UNCHANGED history
    BY <1>4, DeleteMoves
  <2> SUFFICES ASSUME ~met' PROVE Orderly'
    BY DEF Orderly
  <2>3. ~met /\ handed' = handed /\ begun' = begun
    BY <2>2 DEF history
  <2>4. /\ Active = {r} /\ handed' = {} /\ begun' = {}
        /\ \A q \in Requests : q # r => req'[q].at \in {"idle", "done", "cut"}
    BY <2>1, <2>2, <2>3, DeletionIsAlone DEF Moved
  <2>5. \A q \in Requests : req'[q].at \notin Sharing /\ ~Holds(q)'
    BY <2>1, <2>4 DEF Moved, Holds, Updates, Sharing, Deletes
  <2>6. row'.exists => row'.owned
    BY <2>2, <2>3, <1>g DEF NoRow
  <2>7. Active' \subseteq {r} /\ req'[r].kind \notin Turns
    BY <2>1, <2>2, <2>4, <1>0 DEF Active, Moved, Shaped, Fits, Turns
  <2> QED BY <2>4, <2>5, <2>6, <2>7 DEF Orderly
<1> QED BY <1>1, <1>2, <1>3, <1>4 DEF ShareOrDelete

LEMMA RestartMoves ==
  ASSUME Restart
  PROVE /\ \A r \in Requests :
             IF r \in Active
             THEN /\ req'[r].at = "cut" /\ req'[r].phase = "get"
                  /\ req'[r].copy = NoRow /\ req'[r].existing = NoRow
             ELSE req'[r] = req[r]
        /\ Active' = {} /\ crashed'
        /\ UNCHANGED <<backend, row, indexed, messages, events, snapshot, links,
                       handed, begun, crossed, lost, met>>
<1>1. ASSUME NEW r \in Active
      PROVE /\ req'[r].at = "cut" /\ req'[r].phase = "get"
            /\ req'[r].copy = NoRow /\ req'[r].existing = NoRow
  <2>1. req'[r] = [Fresh EXCEPT !.at = "cut"]
    BY DEF Restart, Active
  <2> QED BY <2>1 DEF Fresh
<1>2. \A r \in Requests : r \notin Active => req'[r] = req[r]
  BY DEF Restart
<1>3. Active' = {}
  BY <1>1, <1>2 DEF Active
<1> QED BY <1>1, <1>2, <1>3 DEF Restart, store, conversation, Active

LEMMA RestartKeepsOrder ==
  ASSUME TypeOK, Orderly, Restart
  PROVE Orderly'
<1> SUFFICES ASSUME ~met' PROVE Orderly'
  BY DEF Orderly
<1>1. ~met /\ Active' = {} /\ UNCHANGED <<row, handed, begun>>
  BY RestartMoves
<1>2. \A r \in Requests : req'[r] = req[r] \/ req'[r].at = "cut"
  BY RestartMoves
<1>3. \A r \in begun' : Past(r)' => row'.exists
  BY <1>1, <1>2 DEF Orderly, Past, TypeOK
<1>4. /\ \A r \in Requests : req'[r].at \in Sharing => row'.exists
      /\ \A r \in Requests : Holds(r)' => req'[r].copy.exists /\ req'[r].copy.owned
  BY <1>1, <1>2 DEF Orderly, Holds, Sharing, Updates
<1> QED BY <1>1, <1>3, <1>4 DEF Orderly

LEMMA OrderlyNext == TypeOK /\ Shape /\ Orderly /\ [Next]_vars => Orderly'
<1> SUFFICES ASSUME TypeOK, Shape, Orderly, [Next]_vars PROVE Orderly'
  OBVIOUS
<1>1. CASE UNCHANGED vars
  BY <1>1 DEF vars, store, history, Orderly, Active, Past, Holds
<1> QED BY <1>1, TurnKeepsOrder, ArriveKeepsOrder, OthersKeepOrder, RestartKeepsOrder DEF Next

-----------------------------------------------------------------------------
(* Links that were handed out.                                             *)

LEMMA LinkInit == Init => LinkInv
<1> SUFFICES ASSUME Init PROVE Linking
  BY DEF LinkInv
<1>1. \A r \in Requests : req[r].at \in {"idle", "done"}
  BY InitFacts
<1>2. \A r \in Requests : ~Holds(r) /\ ~Linked(r)
  BY <1>1 DEF Holds, Updates, Sharing, Linked
<1>3. row.link = NoOne /\ handed = {}
  BY InitFacts DEF Init
<1> QED BY <1>2, <1>3 DEF Linking, Keyed

\* Steps that leave the session its link.
LEMMA LinkStep ==
  ASSUME Linking, NEW r \in Requests,
         \A q \in Requests : q # r => req'[q] = req[q],
         backend' = backend, row'.link = row.link, links \subseteq links',
         handed' = handed, handed # {} => row'.exists,
         Keyed(r)', Linked(r)' => row'.link = req'[r].copy.link
  PROVE Linking'
<1>1. ASSUME NEW q \in Requests
      PROVE Keyed(q)' /\ (Linked(q)' => row'.link = req'[q].copy.link)
  BY DEF Linking, Keyed, Holds, Linked, Redis
<1>2. \A l \in handed' : Leads(l)'
  BY DEF Linking, Leads, Redis
<1> QED BY <1>1, <1>2 DEF Linking, Redis

\* What was not harmed after a step was not harmed before it.
LEMMA HarmStays ==
  ASSUME TypeOK, Shape, [Next]_vars, NEW hows
  PROVE Unharmed(hows)' => Unharmed(hows)
<1> SUFFICES ASSUME lost' \cap hows = {}, ~met' PROVE lost \subseteq lost' /\ ~met
  BY DEF Unharmed
<1>1. CASE UNCHANGED vars
  BY <1>1 DEF vars, history
<1>2. ASSUME NEW r \in Requests, Arrive(r)
      PROVE lost \subseteq lost' /\ ~met
  BY <1>2 DEF Arrive
<1>3. ASSUME NEW r \in Requests, Turn(r)
      PROVE lost \subseteq lost' /\ ~met
  <2>1. CASE ReadList(r)
    BY <2>1, ReadListMoves DEF ReadList
  <2>2. CASE ~ReadList(r)
    BY <1>3, <2>2 DEF Turn, Ensure, Create, Index, Read, Reread, Update,
       LoadHistory, Extend, Run, SaveSnapshot, history
  <2> QED BY <2>1, <2>2
<1>4. ASSUME NEW r \in Requests, ShareOrDelete(r)
      PROVE lost \subseteq lost' /\ ~met
  BY <1>4 DEF ShareOrDelete, Find, SetShareToken, Respond, DeleteRow, DeleteKey,
     history
<1>5. CASE Restart
  BY <1>5 DEF Restart
<1> QED BY <1>1, <1>2, <1>3, <1>4, <1>5 DEF Next

LEMMA TurnKeepsLinks ==
  ASSUME TypeOK, Shape, Orderly, Linking, NEW r \in Requests, Turn(r),
         Unharmed({"create", "merge", "share"})'
  PROVE Linking'
<1>0. /\ req \in [Requests -> Request] /\ req[r] \in Request /\ row \in Row
      /\ Shaped(r) /\ Fits(req[r].kind, req[r].at)
  BY DEF TypeOK, Shape, Shaped
<1>m. ~met
  <2>1. [Next]_vars
    BY DEF Next
  <2> QED BY <2>1, HarmStays DEF Unharmed
<1>h. /\ handed # {} => row.exists
      /\ \A l \in handed : l # NoOne /\ row.link = l
  BY <1>m DEF Orderly, Linking
\* On to another stage, with the session's link as it was.
<1>k. ASSUME NEW stage \in Stages \ {"idle"}, Moved(r, stage),
             UNCHANGED <<backend, links, handed>>, row'.link = row.link,
             row.exists => row'.exists,
             stage \in Sharing => Linked(r) /\ stage = "respond"
                                 /\ req'[r].copy = req[r].copy
      PROVE Linking'
  <2>1. Linked(r)' => stage = "respond"
    BY <1>k, FirstPhaseFacts DEF Moved, Linked, Sharing
  <2>2. Holds(r)' => stage \in Sharing
    BY <1>k, FirstPhaseFacts DEF Moved, Holds, Sharing
  <2>3. Keyed(r)'
    BY <1>k, <2>2 DEF Keyed, Linking, Holds, Linked, Redis, Sharing
  <2>4. Linked(r)' => row'.link = req'[r].copy.link
    BY <1>k, <2>1 DEF Linking, Sharing
  <2> QED BY <1>k, <1>h, <2>3, <2>4, LinkStep DEF Moved
<1>f. ASSUME Goto(r, Following(r)), UNCHANGED <<backend, links, handed>>, row'.link = row.link,
             row.exists => row'.exists,
             req[r].at \in Updates \cup Lists \cup {"create", "snapshot"},
             req[r].at = "link" => Linked(r)
      PROVE Linking'
  <2>1. /\ Following(r) \in Stages \ {"idle"}
        /\ Following(r) \in Sharing => req[r].at = "link" /\ Following(r) = "respond"
    BY <1>f, <1>0, FollowingFits, FollowingFacts DEF Sharing, Updates, Lists
  <2>2. /\ Moved(r, Following(r))
        /\ req'[r].copy = IF Following(r) \in Sharing THEN req[r].copy ELSE NoRow
    BY <1>0, <1>f, <2>1, GotoMoves
  <2> QED BY <1>f, <2>1, <2>2, <1>k
<1>1. CASE Ensure(r)
  <2>1. PICK stage \in {"stamp", "create"} : Goto(r, stage)
    BY <1>1 DEF Ensure
  <2>2. stage \in Stages \ {"idle"} /\ stage \notin Sharing
    BY DEF Stages, Updates, Sharing
  <2>3. Moved(r, stage)
    BY <1>0, <2>1, <2>2, GotoMoves
  <2> QED BY <1>1, <1>k, <2>2, <2>3 DEF Ensure, store, history
<1>2. CASE Create(r)
  <2>1. ~Redis \/ ~row.exists
    BY <1>2 DEF Create, Unharmed
  <2>2. /\ row'.link = row.link /\ row'.exists /\ req[r].at = "create"
        /\ UNCHANGED <<backend, links, handed>>
    BY <1>2, <2>1 DEF Create, Shape, RowShaped, NoRow
  <2>3. CASE Redis
    <3>1. ~Holds(r)' /\ ~Linked(r)'
      BY <1>2, <2>2, <2>3, <1>0, PhaseMoves DEF Create, Phases, Holds, Linked, Updates, Sharing
    <3> QED BY <1>2, <2>2, <2>3, <3>1, <1>0, PhaseMoves, LinkStep DEF Create, Phases, Keyed
  <2>4. CASE ~Redis
    BY <1>2, <2>2, <2>4, <1>f DEF Create
  <2> QED BY <2>3, <2>4
<1>3. CASE Index(r)
  BY <1>3, <1>0, <1>f DEF Index, history, Shaped, Linked
<1>4. CASE Read(r)
  <2>1. UNCHANGED <<backend, row, links, handed>> /\ req[r].at \in Updates \ {"link"}
    BY <1>4, <1>0 DEF Read, store, history, Shaped, Updates
  <2>2. CASE row.exists \/ req[r].at = "sum"
    <3>1. Keyed(r)' /\ ~Linked(r)'
      BY <1>4, <2>1, <2>2, ReadMoves DEF Keyed, Linking, Redis, Linked, Updates
    <3> QED BY <1>4, <1>h, <2>1, <2>2, <3>1, ReadMoves, LinkStep
  <2>3. CASE ~(row.exists \/ req[r].at = "sum")
    BY <1>4, <1>f, <2>1, <2>3 DEF Read
  <2> QED BY <2>2, <2>3
<1>5. CASE Reread(r)
  <2>1. /\ UNCHANGED <<backend, row, links, handed>> /\ req[r].phase = "merge"
        /\ req[r].at \in Updates /\ Redis
    BY <1>5, <1>0 DEF Reread, store, history, Shaped
  <2>2. Keyed(r)' /\ ~Linked(r)'
    BY <1>5, <2>1, RereadMoves DEF Keyed, Linking, Holds, Redis, Linked, Updates
  <2> QED BY <1>5, <1>h, <2>1, <2>2, RereadMoves, LinkStep
<1>6. CASE Update(r)
  <2>1. /\ UNCHANGED <<backend, links, handed>>
        /\ req[r].at \in Updates /\ req[r].phase = "set"
    BY <1>6 DEF Update
  <2>2. row.exists /\ Holds(r)
    BY <2>1, <1>m, SessionIsThere DEF Holds, Updates, TurnStages, Sharing
  <2>3. CASE ~Redis
    <3>1. row'.link = row.link /\ row'.exists = row.exists
      BY <1>6, <2>3, <1>0 DEF Update, Row
    <3> QED BY <1>6, <1>f, <2>1, <2>3, <3>1 DEF Update, Linked
  <2>4. CASE Redis
    <3>1. /\ row' = Merged(row, Edited(r)) /\ Phase(r, "index")
          /\ ~(NoOne \notin {req[r].copy.link, row.link} /\ req[r].copy.link # row.link)
      BY <1>6, <2>4 DEF Update, Undone, Unharmed
    <3>2. Edited(r).link = req[r].copy.link
      BY <1>0 DEF Edited, Request, Row
    <3>3. /\ row'.exists
          /\ row'.link = IF req[r].copy.link # NoOne THEN req[r].copy.link ELSE row.link
      BY <2>2, <3>1, <3>2 DEF Merged
    <3>4. row.link # NoOne => row'.link = row.link
      BY <3>1, <3>3
    <3>5. /\ \A q \in Requests : q # r => req'[q] = req[q]
          /\ req'[r].at = req[r].at /\ req'[r].copy = req[r].copy /\ req'[r].phase = "index"
      BY <3>1, <1>0, PhaseMoves DEF Phases
    <3>6. row'.link # NoOne => row'.link \in links
      BY <2>1, <2>2, <2>4, <3>3 DEF Linking, Keyed, Updates
    <3>7. ASSUME NEW q \in Requests
          PROVE Keyed(q)' /\ (Linked(q)' => row'.link = req'[q].copy.link)
      <4>1. CASE q = r
        <5>1. Keyed(q)'
          BY <2>1, <2>2, <3>5, <4>1 DEF Linking, Keyed, Redis, Updates
        <5>2. Linked(q)' => req[r].at = "link" /\ req[r].copy.link # NoOne
          BY <2>1, <3>5, <4>1, <1>0 DEF Linked, Updates, Shaped, Sharing
        <5> QED BY <3>3, <3>5, <4>1, <5>1, <5>2
      <4>2. CASE q # r
        <5>1. req'[q] = req[q]
          BY <3>5, <4>2
        <5>2. Linked(q) => row.link = req[q].copy.link /\ req[q].copy.link # NoOne
          BY DEF Linking, Linked, Shape, Shaped, Sharing
        <5> QED BY <2>1, <3>4, <5>1, <5>2 DEF Linking, Keyed, Holds, Linked, Redis
      <4> QED BY <4>1, <4>2
    <3>8. \A l \in handed' : l # NoOne /\ row'.link = l /\ Leads(l)'
      BY <1>h, <2>1, <2>4, <3>3, <3>4 DEF Linking, Leads, Redis
    <3> QED BY <2>1, <3>6, <3>7, <3>8 DEF Linking
  <2> QED BY <2>3, <2>4
<1>7. CASE LoadHistory(r)
  BY <1>7, <1>k, LoadHistoryMoves DEF LoadHistory, store, history, Stages, Lists, Sharing
<1>8. CASE ReadList(r)
  <2>1. UNCHANGED <<backend, row, links, handed>> /\ req[r].at \in Lists
    BY <1>8 DEF ReadList, store, history
  <2>2. ~Holds(r)' /\ ~Linked(r)'
    BY <1>8, <2>1, ReadListMoves DEF Holds, Linked, Lists, Updates, Sharing
  <2> QED BY <1>8, <1>h, <2>1, <2>2, ReadListMoves, LinkStep DEF Keyed
<1>9. CASE Extend(r)
  BY <1>9, <1>f DEF Extend, Lists
<1>10. CASE Run(r)
  <2>1. PICK stage \in {"answer", "events", "sum", "done"} : Moved(r, stage)
    BY <1>10, RunMoves
  <2>2. stage \in Stages \ {"idle"} /\ stage \notin Sharing
    BY DEF Stages, Lists, Updates, Sharing
  <2> QED BY <1>10, <1>k, <2>1, <2>2 DEF Run, store, history
<1>11. CASE SaveSnapshot(r)
  BY <1>11, <1>f DEF SaveSnapshot
<1> QED BY <1>1, <1>2, <1>3, <1>4, <1>5, <1>6, <1>7, <1>8, <1>9, <1>10, <1>11 DEF Turn

LEMMA OthersKeepLinks ==
  ASSUME TypeOK, Shape, Orderly, Linking, NEW r \in Requests,
         Arrive(r) \/ ShareOrDelete(r),
         Unharmed({"create", "merge", "share"})'
  PROVE Linking'
<1>0. /\ req \in [Requests -> Request] /\ req[r] \in Request /\ row \in Row
      /\ Shaped(r) /\ Fits(req[r].kind, req[r].at)
  BY DEF TypeOK, Shape, Shaped
<1>m. ~met
  <2>1. [Next]_vars
    BY DEF Next
  <2> QED BY <2>1, HarmStays DEF Unharmed
<1>h. /\ handed # {} => row.exists
      /\ \A l \in handed : l # NoOne /\ row.link = l
  BY <1>m DEF Orderly, Linking
<1>1. CASE Arrive(r)
  <2>1. PICK kind \in AllKinds :
          req'[r].at = FirstStage(kind) /\ handed' = IF kind = "delete" THEN {} ELSE handed
    BY <1>1, <1>0, ArriveMoves
  <2>2. /\ \A q \in Requests : q # r => req'[q] = req[q]
        /\ UNCHANGED <<backend, row, links>>
    BY <1>1, <1>0, ArriveMoves
  <2>3. ~Holds(r)' /\ ~Linked(r)'
    BY <2>1, FirstStageFacts DEF Holds, Linked, Updates, Sharing, AllKinds, Turns
  <2>4. ASSUME NEW q \in Requests
        PROVE Keyed(q)' /\ (Linked(q)' => row'.link = req'[q].copy.link)
    BY <2>2, <2>3 DEF Linking, Keyed, Holds, Linked, Redis
  <2> QED BY <2>1, <2>2, <2>4 DEF Linking, Leads, Redis
<1>2. CASE Find(r)
  <2>1. UNCHANGED <<backend, row, links, handed>>
    BY <1>2 DEF Find, store, history
  <2>2. CASE ~row.exists
    <3>1. Moved(r, "done")
      BY <1>2, <2>2, FindMoves
    <3>2. ~Holds(r)' /\ ~Linked(r)'
      BY <3>1 DEF Moved, Holds, Linked, Updates, Sharing
    <3> QED BY <2>1, <3>1, <3>2, <1>h, LinkStep DEF Moved, Keyed
  <2>3. CASE row.exists /\ row.link # NoOne
    <3>1. Moved(r, "respond") /\ req'[r].copy = row
      BY <1>2, <2>3, FindMoves
    <3>2. Keyed(r)'
      BY <2>1, <2>3, <3>1 DEF Linking, Keyed, Redis
    <3> QED BY <2>1, <3>1, <3>2, <1>h, LinkStep DEF Moved
  <2>4. CASE row.exists /\ row.link = NoOne
    <3>1. Moved(r, "token")
      BY <1>2, <2>4, FindMoves
    <3>2. Keyed(r)' /\ ~Linked(r)'
      BY <3>1 DEF Moved, Linked, Keyed
    <3> QED BY <2>1, <3>1, <3>2, <1>h, LinkStep DEF Moved
  <2> QED BY <2>2, <2>3, <2>4
<1>3. CASE SetShareToken(r)
  <2>1. /\ req[r].at = "token" /\ UNCHANGED <<backend, handed>>
        /\ req[r].copy.link = r /\ row.exists
    BY <1>3, <1>m, <1>0, SessionIsThere DEF SetShareToken, Shaped, Sharing
  <2>2. Moved(r, "link") /\ req'[r].copy = req[r].copy
    BY <1>3, <1>0, FollowingFacts, GotoMoves DEF SetShareToken, Stages, Updates, Sharing
  <2>3. CASE Redis
    <3>1. links' = links \cup {r} /\ row' = row
      BY <1>3, <2>3 DEF SetShareToken
    <3>2. req'[r].at = "link" /\ req'[r].phase = "merge"
      BY <2>2, <2>3, FirstPhaseFacts DEF Moved
    <3>3. Keyed(r)' /\ ~Linked(r)'
      BY <2>1, <2>2, <2>3, <3>1, <3>2 DEF Keyed, Linked, Redis
    <3> QED BY <1>h, <2>1, <2>2, <3>1, <3>3, LinkStep DEF Moved
  <2>4. CASE ~Redis
    <3>1. row' = [row EXCEPT !.link = r] /\ links' = links /\ row.link = NoOne
      BY <1>3, <2>1, <2>4 DEF SetShareToken, Unharmed
    <3>2. row'.link = r /\ ~Redis'
      BY <2>1, <2>4, <3>1, <1>0 DEF Row, Redis
    <3>3. handed' = {}
      BY <1>h, <2>1, <3>1
    <3>4. ASSUME NEW q \in Requests, Linked(q)'
          PROVE row'.link = req'[q].copy.link
      <4>1. CASE q = r
        BY <2>1, <2>2, <3>2, <4>1
      <4>2. CASE q # r
        <5>1. req'[q] = req[q] /\ Linked(q)
          BY <2>1, <2>2, <3>4, <4>2 DEF Moved, Linked, Redis
        <5>2. req[q].copy.link # NoOne
          BY <5>1 DEF Linked, Shape, Shaped, Sharing
        <5> QED BY <3>1, <5>1, <5>2 DEF Linking
      <4> QED BY <4>1, <4>2
    <3> QED BY <3>2, <3>3, <3>4 DEF Linking, Keyed
  <2> QED BY <2>3, <2>4
<1>4. CASE Respond(r)
  <2>1. /\ req[r].at = "respond" /\ handed' = handed \cup {req[r].copy.link}
        /\ UNCHANGED <<backend, row, links>>
    BY <1>4 DEF Respond, store
  <2>2. Moved(r, "done")
    BY <1>4, <1>0, GotoMoves DEF Respond, Stages
  <2>3. ~Holds(r)' /\ ~Linked(r)'
    BY <2>2 DEF Moved, Holds, Linked, Updates, Sharing
  <2>4. ASSUME NEW q \in Requests
        PROVE Keyed(q)' /\ (Linked(q)' => row'.link = req'[q].copy.link)
    BY <2>1, <2>2, <2>3 DEF Moved, Linking, Keyed, Holds, Linked, Redis
  <2>5. req[r].copy.link # NoOne /\ row.link = req[r].copy.link /\ row.exists
    BY <2>1, <1>0, <1>m, SessionIsThere DEF Linking, Linked, Shaped, Sharing
  <2>6. Leads(req[r].copy.link)
    BY <2>1, <2>5 DEF Linking, Keyed, Holds, Leads, Sharing
  <2> QED BY <2>1, <2>4, <2>5, <2>6 DEF Linking, Leads, Redis
<1>5. CASE DeleteRow(r) \/ DeleteKey(r)
  <2>1. /\ req[r].at \in Deletes /\ row' \in {row, NoRow}
        /\ UNCHANGED <<backend, links, handed>>
    BY <1>5, DeleteMoves DEF history
  <2>2. PICK stage \in Deletes \cup {"done"} : Moved(r, stage)
    BY <1>5, DeleteMoves
  <2>3. /\ handed' = {}
        /\ \A q \in Requests : q # r => req'[q].at \in {"idle", "done", "cut"}
    BY <1>m, <2>1, <2>2, DeletionIsAlone DEF Moved
  <2>4. \A q \in Requests : ~Holds(q)' /\ ~Linked(q)'
    BY <2>2, <2>3 DEF Moved, Holds, Linked, Updates, Sharing, Deletes
  <2>5. Redis' /\ row'.link # NoOne => row'.link \in links'
    BY <2>1 DEF Linking, NoRow, Redis
  <2> QED BY <2>3, <2>4, <2>5 DEF Linking, Keyed
<1> QED BY <1>1, <1>2, <1>3, <1>4, <1>5 DEF ShareOrDelete

LEMMA LinkNext ==
  TypeOK /\ Shape /\ Orderly /\ LinkInv /\ [Next]_vars => LinkInv'
<1> SUFFICES ASSUME TypeOK, Shape, Orderly, LinkInv, [Next]_vars,
                    Unharmed({"create", "merge", "share"})'
             PROVE Linking'
  BY DEF LinkInv
<1>1. Linking
  BY HarmStays DEF LinkInv
<1>2. CASE UNCHANGED vars
  BY <1>1, <1>2 DEF vars, store, history, Linking, Keyed, Holds, Linked, Leads, Redis
<1>3. CASE Restart
  <2>1. UNCHANGED <<backend, row, links, handed>>
    BY <1>3, RestartMoves
  <2>2. \A q \in Requests : req'[q] = req[q] \/ req'[q].at = "cut"
    BY <1>3, RestartMoves
  <2>3. ASSUME NEW q \in Requests
        PROVE Keyed(q)' /\ (Linked(q)' => row'.link = req'[q].copy.link)
    BY <1>1, <2>1, <2>2 DEF Linking, Keyed, Holds, Linked, Redis, Updates, Sharing
  <2> QED BY <1>1, <2>1, <2>3 DEF Linking, Leads, Redis
<1> QED BY <1>1, <1>2, <1>3, TurnKeepsLinks, OthersKeepLinks DEF Next

-----------------------------------------------------------------------------
(* Turns counted, and the status of a task.                                *)

LEMMA CountInit == Init => CountInv
<1> SUFFICES ASSUME Init PROVE Counting
  BY DEF CountInv
<1>1. \A r \in Requests : req[r].at \in {"idle", "done"}
  BY InitFacts
<1>2. Active = {} /\ begun \subseteq row.meta.counted /\ row.meta.status = "none"
  BY <1>1, InitFacts DEF Active
<1> QED BY <1>2 DEF Counting

\* What is written to the metadata that r has a copy of.
LEMMA EditedMeta ==
  ASSUME TypeOK, NEW r \in Requests, NEW old \in Meta, old = req[r].copy.meta
  PROVE /\ old.counted \subseteq Edited(r).meta.counted
        /\ old.given => Edited(r).meta.given
        /\ Edited(r).meta.given \/ Edited(r).meta = old
        /\ req[r].at \notin {"start", "finish"} => Edited(r).meta.status = old.status
        /\ req[r].at = "finish" => Edited(r).meta.status = "completed"
        /\ req[r].at = "sum" /\ req[r].copy.exists /\ "events" \in req[r].said =>
             r \in Edited(r).meta.counted
<1>0. req[r].copy \in Row
  BY DEF TypeOK, Request
<1> DEFINE meta == [old EXCEPT !.given = TRUE]
<1>1. /\ meta.given /\ meta.status = old.status /\ meta.counted = old.counted
      /\ [meta EXCEPT !.status = "running"].given
      /\ [meta EXCEPT !.status = "running"].counted = old.counted
      /\ [meta EXCEPT !.status = "completed"].given
      /\ [meta EXCEPT !.status = "completed"].status = "completed"
      /\ [meta EXCEPT !.status = "completed"].counted = old.counted
      /\ [meta EXCEPT !.counted = Tokens(r, meta.counted)].given
      /\ [meta EXCEPT !.counted = Tokens(r, meta.counted)].status = old.status
      /\ [meta EXCEPT !.counted = Tokens(r, meta.counted)].counted = old.counted \cup {r}
  BY DEF Meta, Tokens
<1>2. Edited(r).meta =
        CASE req[r].at = "stamp" -> meta
          [] req[r].at = "start" -> [meta EXCEPT !.status = "running"]
          [] req[r].at = "finish" -> [meta EXCEPT !.status = "completed"]
          [] req[r].at = "sum" /\ req[r].copy.exists
             /\ "events" \in req[r].said ->
               [meta EXCEPT !.counted = Tokens(r, meta.counted)]
          [] OTHER -> old
  BY <1>0 DEF Edited, Row
<1> HIDE DEF meta
<1>3. CASE req[r].at = "stamp"
  BY <1>1, <1>2, <1>3
<1>4. CASE req[r].at = "start"
  BY <1>1, <1>2, <1>4
<1>5. CASE req[r].at = "finish"
  BY <1>1, <1>2, <1>5
<1>6. CASE req[r].at = "sum" /\ req[r].copy.exists /\ "events" \in req[r].said
  BY <1>1, <1>2, <1>6
<1>7. CASE req[r].at \notin {"stamp", "start", "finish"}
           /\ ~(req[r].at = "sum" /\ req[r].copy.exists /\ "events" \in req[r].said)
  BY <1>2, <1>7
<1> QED BY <1>3, <1>4, <1>5, <1>6, <1>7

\* Steps that leave the session its metadata.
LEMMA CountStep ==
  ASSUME TypeOK, Counting, NEW r \in Requests,
         \A q \in Requests : q # r => req'[q] = req[q],
         begun' \subseteq begun \cup {r}, crashed' = crashed, row'.meta = row.meta,
         req'[r].existing.meta.given => row.meta.given,
         r \in begun' /\ Counted(r)' /\ "events" \in req'[r].said => r \in row.meta.counted,
         r \in Active /\ Unmarked(r) => r \in Active' /\ Unmarked(r)'
  PROVE Counting'
<1>1. ASSUME NEW q \in Active'
      PROVE req'[q].existing.meta.given => row'.meta.given
  BY DEF Counting, Active
<1>2. ASSUME NEW q \in begun', Counted(q)', "events" \in req'[q].said
      PROVE q \in row'.meta.counted
  <2>1. CASE q = r
    BY <1>2, <2>1
  <2>2. CASE q # r
    <3>1. q \in begun /\ q \in Requests
      BY <2>2 DEF TypeOK
    <3> QED BY <1>2, <2>2, <3>1 DEF Counting, Counted
  <2> QED BY <2>1, <2>2
<1>3. ASSUME NEW q \in Active, Unmarked(q)
      PROVE q \in Active' /\ Unmarked(q)'
  <2>1. CASE q = r
    BY <1>3, <2>1
  <2>2. CASE q # r
    BY <1>3, <2>2 DEF Active, Unmarked
  <2> QED BY <2>1, <2>2
<1> QED BY <1>1, <1>2, <1>3 DEF Counting

LEMMA TurnKeepsCount ==
  ASSUME TypeOK, Shape, Orderly, Counting, NEW r \in Requests, Turn(r),
         Unharmed({"create", "copy"})'
  PROVE Counting'
<1>0. /\ req \in [Requests -> Request] /\ req[r] \in Request /\ row \in Row
      /\ Shaped(r) /\ Fits(req[r].kind, req[r].at) /\ NoRow.meta.given = FALSE
  BY DEF TypeOK, Shape, Shaped, NoRow, NoMeta
<1>m. ~met
  <2>1. [Next]_vars
    BY DEF Next
  <2> QED BY <2>1, HarmStays DEF Unharmed
<1>c. r \in begun /\ Counted(r) /\ "events" \in req[r].said => r \in row.meta.counted
  BY DEF Counting
\* On to another stage, with the session's metadata as they were.
<1>k. ASSUME NEW stage \in Stages \ {"idle", "cut"}, Moved(r, stage),
             UNCHANGED <<begun, crashed>>, row'.meta = row.meta,
             r \in begun /\ stage \in {"finish", "done"} /\ "events" \in req'[r].said =>
               Counted(r) /\ "events" \in req[r].said,
             Unmarked(r) => stage # "done"
      PROVE Counting'
  <2>1. /\ req'[r].at = stage /\ req'[r].kind = req[r].kind
        /\ req'[r].phase = FirstPhase(stage) /\ req'[r].existing = NoRow
        /\ \A q \in Requests : q # r => req'[q] = req[q]
    BY <1>k DEF Moved
  <2>2. FirstPhase(stage) # "index"
    BY FirstPhaseFacts
  <2>3. Counted(r)' => stage \in {"finish", "done"}
    BY <2>1, <2>2 DEF Counted
  <2>4. Unmarked(r) => r \in Active' /\ Unmarked(r)'
    BY <1>k, <2>1, <2>2 DEF Unmarked, Active
  <2> QED BY <1>k, <1>0, <1>c, <2>1, <2>3, <2>4, CountStep
<1>f. ASSUME Goto(r, Following(r)), UNCHANGED <<begun, crashed>>, row'.meta = row.meta,
             req[r].at \in Updates \cup Lists \cup {"create", "snapshot"},
             req[r].at \in {"sum", "finish"} => req[r].phase = "index"
      PROVE Counting'
  <2>1. Following(r) \in Stages \ {"idle", "cut"}
    BY <1>f, <1>0, FollowingFits
  <2>2. Moved(r, Following(r)) /\ req'[r].said = req[r].said
    BY <1>0, <1>f, <2>1, GotoMoves
  <2>3. Following(r) \in {"finish", "done"} =>
          req[r].at \in {"sum", "finish"} \/ (req[r].at = "snapshot" /\ req[r].kind = "post")
    BY <1>0, <1>f, FollowingFacts DEF Updates, Lists
  <2>4. r \in begun => req[r].kind # "post"
    BY <1>0, <1>f DEF Shaped, Turns, Updates, Lists
  <2>5. Unmarked(r) => Following(r) # "done"
    BY <1>0, <1>f, <2>3, FollowingFacts DEF Unmarked
  <2> QED BY <1>f, <1>k, <2>1, <2>2, <2>3, <2>4, <2>5 DEF Counted
\* Nowhere.
<1>s. ASSUME \A q \in Requests : q # r => req'[q] = req[q],
             req'[r].at = req[r].at, req'[r].kind = req[r].kind, req'[r].said = req[r].said,
             UNCHANGED <<begun, crashed>>, row'.meta = row.meta, r \in Active,
             req'[r].existing.meta.given => row.meta.given, req'[r].phase # "index"
      PROVE Counting'
  <2>1. Counted(r)' => Counted(r)
    BY <1>s DEF Counted
  <2>2. Unmarked(r) => r \in Active' /\ Unmarked(r)'
    BY <1>s DEF Unmarked, Active
  <2> QED BY <1>s, <1>c, <2>1, <2>2, CountStep
<1>1. CASE Ensure(r)
  <2>1. PICK stage \in {"stamp", "create"} : Goto(r, stage)
    BY <1>1 DEF Ensure
  <2>2. stage \in Stages \ {"idle", "cut"}
    BY DEF Stages, Updates
  <2>3. Moved(r, stage)
    BY <1>0, <2>1, <2>2, GotoMoves
  <2> QED BY <1>1, <1>k, <2>2, <2>3 DEF Ensure, store, history
<1>2. CASE Create(r)
  <2>1. /\ UNCHANGED <<begun, crashed>> /\ req[r].at = "create" /\ req[r].phase = "set"
        /\ ~Redis \/ ~row.exists
    BY <1>2 DEF Create, Unharmed
  <2>2. CASE row.exists
    BY <1>2, <2>1, <2>2, <1>f DEF Create
  <2>3. CASE ~row.exists
    <3>1. row'.meta = [NoMeta EXCEPT !.given = HasScene]
      BY <1>2, <2>3 DEF Create
    <3>2. row'.meta.status = "none"
      BY <3>1 DEF NoMeta
    <3>3. row.meta.given = FALSE
      BY <2>3, <1>0 DEF Shape, RowShaped
    <3>4. /\ \A q \in Requests : q # r => req'[q] = req[q]
          /\ req'[r].existing.meta.given => req[r].existing.meta.given
          /\ ~Counted(r)'
      <4>1. CASE Redis
        BY <1>2, <2>1, <4>1, <1>0, PhaseMoves DEF Create, Phases, Counted
      <4>2. CASE ~Redis
        <5>1. Goto(r, "stamp")
          BY <1>2, <2>1, <4>2, <1>0, FollowingFacts DEF Create
        <5>2. Moved(r, "stamp")
          BY <1>0, <5>1, GotoMoves DEF Stages, Updates
        <5> QED BY <5>2, <1>0 DEF Moved, Counted
      <4> QED BY <4>1, <4>2
    <3>5. ASSUME NEW q \in Active'
          PROVE ~req'[q].existing.meta.given
      BY <2>1, <3>3, <3>4 DEF Counting, Active, TypeOK, Request, Row, Meta
    <3>6. ASSUME NEW q \in begun'
          PROVE ~Counted(q)'
      <4>1. CASE q = r
        BY <3>4, <4>1
      <4>2. CASE q # r
        <5>1. q \in begun /\ q \in Requests /\ req'[q] = req[q]
          BY <2>1, <3>4, <4>2 DEF TypeOK
        <5>2. ~Past(q)
          BY <1>m, <2>3, <5>1 DEF Orderly
        <5> QED BY <5>1, <5>2 DEF Counted, Past
      <4> QED BY <4>1, <4>2
    <3> QED BY <3>2, <3>5, <3>6 DEF Counting
  <2> QED BY <2>2, <2>3
<1>3. CASE Index(r)
  BY <1>3, <1>0, <1>f DEF Index, history, Shaped
<1>4. CASE Read(r)
  <2>1. UNCHANGED <<row, begun, crashed>> /\ req[r].at \in Updates \ {"link"}
    BY <1>4, <1>0 DEF Read, store, history, Shaped, Updates
  <2>2. row.exists /\ r \in Active
    BY <1>m, <2>1, SessionIsThere DEF Updates, TurnStages, Active
  <2> QED BY <1>4, <1>s, <2>1, <2>2, ReadMoves DEF Counting
<1>5. CASE Reread(r)
  <2>1. UNCHANGED <<row, begun, crashed>> /\ req[r].at \in Updates
    BY <1>5, <1>0 DEF Reread, store, history, Shaped
  <2>2. r \in Active
    BY <2>1 DEF Updates, Active
  <2> QED BY <1>5, <1>s, <2>1, <2>2, RereadMoves
<1>6. CASE Update(r)
  <2>1. /\ UNCHANGED <<begun, crashed>> /\ req[r].at \in Updates /\ req[r].phase = "set"
        /\ req[r].copy.meta = row.meta /\ r \in Active
    BY <1>6 DEF Update, Undone, Unharmed, Updates, Active
  <2>2. row.exists /\ req[r].copy.exists
    BY <2>1, <1>m, SessionIsThere DEF Orderly, Holds, Updates, TurnStages, Sharing
  <2>3. row.meta \in Meta /\ Blank(req[r].existing.meta) /\ Blank(row.meta)
    BY <1>0 DEF Row, Shape, RowShaped, Shaped
  <2> DEFINE edited == Edited(r).meta
  <2>4. /\ row.meta.counted \subseteq edited.counted
        /\ row.meta.given => edited.given
        /\ edited.given \/ edited = row.meta
        /\ req[r].at \notin {"start", "finish"} => edited.status = row.meta.status
        /\ req[r].at = "finish" => edited.status = "completed"
        /\ req[r].at = "sum" /\ "events" \in req[r].said => r \in edited.counted
    BY <2>1, <2>2, <2>3, EditedMeta
  <2>5. row'.meta = edited
    <3>1. CASE ~Redis
      BY <1>6, <2>2, <3>1, <1>0 DEF Update, Row
    <3>2. CASE Redis
      <4>1. row' = Merged(req[r].existing, Edited(r))
        BY <1>6, <3>2 DEF Update
      <4>2. req[r].existing.meta.given => row.meta.given
        BY <2>1 DEF Counting
      <4>3. edited.given \/ req[r].existing.meta = edited
        BY <2>3, <2>4, <4>2 DEF Blank
      <4> QED BY <4>1, <4>3 DEF Merged
    <3> QED BY <3>1, <3>2
  <2> HIDE DEF edited
  <2>6. /\ \A q \in Requests : q # r => req'[q] = req[q]
        /\ req'[r].kind = req[r].kind /\ req'[r].said = req[r].said
        /\ req'[r].existing.meta.given => req[r].existing.meta.given
        /\ Counted(r)' => req[r].at \in {"sum", "finish"}
        /\ req[r].at # "finish" /\ req[r].kind = "task" => Unmarked(r)' /\ r \in Active'
    <3>1. CASE Redis
      <4>1. Phase(r, "index")
        BY <1>6, <3>1 DEF Update
      <4> QED BY <2>1, <4>1, <1>0, PhaseMoves DEF Phases, Counted, Unmarked, Active, Updates
    <3>2. CASE ~Redis
      <4>1. Goto(r, Following(r))
        BY <1>6, <3>2 DEF Update
      <4>2. Following(r) \in Stages \ {"idle", "cut"}
        BY <2>1, <1>0, FollowingFits
      <4>3. Moved(r, Following(r)) /\ req'[r].said = req[r].said
        BY <1>0, <4>1, <4>2, GotoMoves
      <4>4. FirstPhase(Following(r)) # "index"
        BY FirstPhaseFacts
      <4>5. /\ Following(r) \in {"finish", "done"} => req[r].at \in {"sum", "finish"}
            /\ req[r].at # "finish" /\ req[r].kind = "task" => Following(r) # "done"
        BY <2>1, <1>0, FollowingFacts DEF Updates
      <4> QED BY <1>0, <4>2, <4>3, <4>4, <4>5 DEF Moved, Counted, Unmarked, Active
    <3> QED BY <3>1, <3>2
  <2>7. ASSUME NEW q \in Active'
        PROVE req'[q].existing.meta.given => row'.meta.given
    BY <2>1, <2>4, <2>5, <2>6 DEF Counting, Active
  <2>8. ASSUME NEW q \in begun', Counted(q)', "events" \in req'[q].said
        PROVE q \in row'.meta.counted
    <3>1. CASE q = r
      BY <1>c, <2>1, <2>4, <2>5, <2>6, <2>8, <3>1 DEF Counted
    <3>2. CASE q # r
      <4>1. q \in begun /\ q \in Requests
        BY <2>1 DEF TypeOK
      <4> QED BY <2>4, <2>5, <2>6, <2>8, <3>2, <4>1 DEF Counting, Counted
    <3> QED BY <3>1, <3>2
  <2>9. ASSUME row'.meta.status = "running"
        PROVE crashed' \/ \E t \in Active' : Unmarked(t)'
    <3>1. CASE req[r].at # "finish" /\ req[r].kind = "task"
      BY <2>6, <3>1
    <3>2. CASE ~(req[r].at # "finish" /\ req[r].kind = "task")
      <4>1. row.meta.status = "running" /\ req[r].at # "finish"
        BY <2>4, <2>5, <2>9, <3>2, <1>0 DEF Fits
      <4>2. crashed \/ \E t \in Active : Unmarked(t)
        BY <4>1 DEF Counting
      <4>3. ~Unmarked(r)
        BY <3>2, <4>1 DEF Unmarked
      <4>4. ASSUME NEW t \in Active, Unmarked(t)
            PROVE t \in Active' /\ Unmarked(t)'
        BY <2>6, <4>3, <4>4 DEF Active, Unmarked
      <4> QED BY <2>1, <4>2, <4>4
    <3> QED BY <3>1, <3>2
  <2> QED BY <2>7, <2>8, <2>9 DEF Counting
<1>7. CASE LoadHistory(r)
  BY <1>7, <1>k, LoadHistoryMoves DEF LoadHistory, store, history, Stages, Lists
<1>8. CASE ReadList(r)
  <2>1. UNCHANGED <<row, begun, crashed>> /\ r \in Active
    BY <1>8 DEF ReadList, store, history, Lists, Active
  <2> QED BY <1>8, <1>s, <2>1, ReadListMoves DEF Counting
<1>9. CASE Extend(r)
  BY <1>9, <1>f DEF Extend, Lists
<1>10. CASE Run(r)
  <2>1. UNCHANGED <<row, begun, crashed>> /\ req[r].said = {}
    BY <1>10, <1>0 DEF Run, store, history, Shaped, Early
  <2>2. CASE \E stage \in {"answer", "events", "sum"} : Moved(r, stage)
    BY <2>1, <2>2, <1>k DEF Stages, Lists, Updates
  <2>3. CASE Moved(r, "done") /\ req[r].kind = "chat" /\ req'[r].said = req[r].said
    BY <2>1, <2>3, <1>k DEF Stages, Unmarked
  <2> QED BY <1>10, <2>2, <2>3, RunMoves
<1>11. CASE SaveSnapshot(r)
  BY <1>11, <1>f DEF SaveSnapshot
<1> QED BY <1>1, <1>2, <1>3, <1>4, <1>5, <1>6, <1>7, <1>8, <1>9, <1>10, <1>11 DEF Turn

LEMMA OthersKeepCount ==
  ASSUME TypeOK, Shape, Orderly, Counting, NEW r \in Requests,
         Arrive(r) \/ ShareOrDelete(r), Unharmed({"create", "copy"})'
  PROVE Counting'
<1>0. /\ req \in [Requests -> Request] /\ req[r] \in Request /\ row \in Row
      /\ Shaped(r) /\ Fits(req[r].kind, req[r].at)
      /\ NoRow.meta.given = FALSE /\ NoRow.meta.status = "none"
  BY DEF TypeOK, Shape, Shaped, NoRow, NoMeta
<1>m. ~met
  <2>1. [Next]_vars
    BY DEF Next
  <2> QED BY <2>1, HarmStays DEF Unharmed
<1>1. CASE Arrive(r)
  <2>1. PICK kind \in AllKinds :
          /\ req'[r].at = FirstStage(kind)
          /\ begun' = IF kind = "delete" THEN {}
                      ELSE IF kind \in Turns THEN begun \cup {r} ELSE begun
    BY <1>1, <1>0, ArriveMoves
  <2>2. /\ \A q \in Requests : q # r => req'[q] = req[q]
        /\ UNCHANGED <<row, crashed>> /\ req[r].at = "idle"
        /\ req'[r].existing = NoRow /\ req'[r].said = {}
    BY <1>1, <1>0, ArriveMoves
  <2>3. r \notin Active
    BY <2>2 DEF Active
  <2> QED BY <2>1, <2>2, <2>3, <1>0, CountStep
\* Sharing is no turn.
<1>2. ASSUME NEW stage \in Stages \ {"idle", "cut"}, Moved(r, stage),
             UNCHANGED <<begun, crashed>>, row'.meta = row.meta,
             req[r].at \in Sharing \cup {"find"}
      PROVE Counting'
  <2>1. r \notin begun /\ req[r].kind # "task"
    BY <1>0, <1>2 DEF Shaped, Fits, Turns, Sharing
  <2> QED BY <1>0, <1>2, <2>1, CountStep DEF Moved, Unmarked
<1>3. CASE Find(r)
  <2>1. UNCHANGED <<begun, crashed, row>> /\ req[r].at = "find"
    BY <1>3 DEF Find, store, history
  <2>2. PICK stage \in {"done", "respond", "token"} : Moved(r, stage)
    BY <1>3, FindMoves
  <2> QED BY <1>2, <2>1, <2>2 DEF Stages
<1>4. CASE SetShareToken(r)
  <2>1. UNCHANGED <<begun, crashed>> /\ req[r].at = "token" /\ row'.meta = row.meta
    BY <1>4, <1>0 DEF SetShareToken, Row
  <2>2. Moved(r, "link") /\ "link" \in Stages
    BY <1>4, <1>0, FollowingFacts, GotoMoves DEF SetShareToken, Stages, Updates
  <2> QED BY <1>2, <2>1, <2>2 DEF Sharing
<1>5. CASE Respond(r)
  <2>1. UNCHANGED <<begun, crashed, row>> /\ req[r].at = "respond"
    BY <1>5 DEF Respond, store
  <2>2. Moved(r, "done") /\ "done" \in Stages
    BY <1>5, <1>0, GotoMoves DEF Respond, Stages
  <2> QED BY <1>2, <2>1, <2>2 DEF Sharing
<1>6. CASE DeleteRow(r) \/ DeleteKey(r)
  <2>1. /\ req[r].at \in Deletes /\ row' \in {row, NoRow} /\ UNCHANGED <<begun, crashed>>
    BY <1>6, DeleteMoves DEF history
  <2>2. PICK stage \in Deletes \cup {"done"} : Moved(r, stage)
    BY <1>6, DeleteMoves
  <2>3. Active = {r} /\ begun' = {}
    BY <1>m, <2>1, DeletionIsAlone
  <2>4. Active' \subseteq {r} /\ ~req'[r].existing.meta.given
    BY <2>2, <2>3, <1>0 DEF Moved, Active
  <2>5. ~Unmarked(r)
    BY <2>1, <1>0 DEF Unmarked, Fits
  <2>6. row'.meta.status = "running" => crashed'
    BY <2>1, <2>3, <2>5, <1>0 DEF Counting
  <2> QED BY <2>3, <2>4, <2>6 DEF Counting
<1> QED BY <1>1, <1>3, <1>4, <1>5, <1>6 DEF ShareOrDelete

LEMMA CountNext ==
  TypeOK /\ Shape /\ Orderly /\ CountInv /\ [Next]_vars => CountInv'
<1> SUFFICES ASSUME TypeOK, Shape, Orderly, CountInv, [Next]_vars,
                    Unharmed({"create", "copy"})'
             PROVE Counting'
  BY DEF CountInv
<1>1. Counting
  BY HarmStays DEF CountInv
<1>2. CASE UNCHANGED vars
  BY <1>1, <1>2 DEF vars, store, history, Counting, Active, Counted, Unmarked
<1>3. CASE Restart
  <2>1. Active' = {} /\ crashed' /\ UNCHANGED <<row, begun>>
    BY <1>3, RestartMoves
  <2>2. \A q \in Requests : req'[q] = req[q] \/ req'[q].at = "cut"
    BY <1>3, RestartMoves
  <2>3. ASSUME NEW q \in begun', Counted(q)', "events" \in req'[q].said
        PROVE q \in row'.meta.counted
    BY <1>1, <2>1, <2>2, <2>3 DEF Counting, Counted, TypeOK
  <2> QED BY <2>1, <2>3 DEF Counting
<1> QED BY <1>1, <1>2, <1>3, TurnKeepsCount, OthersKeepCount DEF Next

-----------------------------------------------------------------------------
(* What is left when nobody is at work.                                    *)

LEMMA StrayInit == Init => StrayInv
<1> SUFFICES ASSUME Init PROVE StrayInv
  OBVIOUS
<1>1. \A r \in Requests : req[r].at \in {"idle", "done"}
  BY InitFacts
<1>2. \A r \in Requests : Deleted(r)
  BY <1>1 DEF Deleted, Deletes
<1>3. IF row.exists THEN indexed = Redis ELSE ~indexed /\ Nothing
  BY InitFacts DEF Init, Nothing
<1> QED BY <1>2, <1>3 DEF StrayInv, Cascades, Tidy

\* On SQLite nothing is left of a session, whatever meets its deletion.
LEMMA CascadesNext == TypeOK /\ Shape /\ Cascades /\ [Next]_vars => Cascades'
<1> SUFFICES ASSUME TypeOK, Shape, Cascades, [Next]_vars, ~Redis'
             PROVE ~indexed' /\ (~row'.exists => Nothing')
  BY DEF Cascades
<1>1. CASE UNCHANGED vars
  BY <1>1 DEF vars, store, conversation, Cascades, Nothing, Redis
<1>2. ASSUME NEW r \in Requests, Turn(r)
      PROVE ~indexed' /\ (~row'.exists => Nothing')
  <2>0. backend' = backend
    BY <1>2 DEF Turn, Ensure, Create, Index, Read, Reread, Update, LoadHistory,
       ReadList, Extend, Run, SaveSnapshot
  <2> USE DEF Cascades, Nothing, Redis
  <2>1. CASE Ensure(r) \/ Read(r) \/ Reread(r) \/ LoadHistory(r) \/ ReadList(r) \/ Run(r)
    BY <2>1 DEF Ensure, Read, Reread, LoadHistory, ReadList, Run, store, conversation
  <2>2. CASE Create(r)
    BY <2>2, <2>0 DEF Create, conversation
  <2>3. CASE Index(r)
    BY <2>3, <2>0 DEF Index, Shape, Shaped
  <2>4. CASE Update(r)
    <3>1. ~Redis /\ row \in Row
      BY <2>0 DEF TypeOK
    <3>2. /\ row' = IF row.exists THEN [row EXCEPT !.meta = Edited(r).meta] ELSE row
          /\ UNCHANGED <<indexed, messages, events, snapshot>>
      BY <2>4, <3>1 DEF Update, conversation
    <3>3. row'.exists = row.exists
      BY <3>1, <3>2 DEF Row
    <3> QED BY <3>1, <3>2, <3>3
  <2>5. CASE Extend(r)
    BY <2>5, <2>0 DEF Extend, Stored
  <2>6. CASE SaveSnapshot(r)
    BY <2>6, <2>0 DEF SaveSnapshot
  <2> QED BY <1>2, <2>1, <2>2, <2>3, <2>4, <2>5, <2>6 DEF Turn
<1>3. ASSUME NEW r \in Requests, Arrive(r) \/ ShareOrDelete(r)
      PROVE ~indexed' /\ (~row'.exists => Nothing')
  <2> USE DEF Cascades, Nothing, Redis
  <2>1. CASE Arrive(r) \/ Find(r) \/ Respond(r)
    BY <2>1 DEF Arrive, Find, Respond, store, conversation
  <2>2. CASE SetShareToken(r)
    BY <2>2 DEF SetShareToken, conversation, TypeOK, Row
  <2>3. CASE DeleteRow(r)
    BY <2>3 DEF DeleteRow
  <2>4. CASE DeleteKey(r)
    BY <2>4 DEF DeleteKey
  <2> QED BY <1>3, <2>1, <2>2, <2>3, <2>4 DEF ShareOrDelete
<1>4. CASE Restart
  BY <1>4, RestartMoves DEF Cascades, Nothing, Redis
<1> QED BY <1>1, <1>2, <1>3, <1>4 DEF Next

\* Whatever a request does but arrive or delete.
LEMMA TidyStep ==
  ASSUME Shape, Orderly, Tidy, ~met, NEW r \in Requests,
         r \in Active, req[r].kind # "delete", req'[r].at \notin Deletes,
         \A q \in Requests : q # r => req'[q] = req[q],
         backend' = backend, row.exists => row'.exists, indexed => indexed',
         ~row.exists /\ Nothing /\ ~indexed =>
           row'.exists \/ (Nothing' /\ ~indexed'),
         Redis /\ row'.exists /\ (~row.exists \/ req[r].phase = "index") =>
           indexed' \/ (r \in Active' /\ req'[r].phase = "index")
  PROVE Tidy'
<1>1. \A q \in Requests : req[q].at \notin Deletes
  BY DeletionIsAlone DEF Shape, Shaped, Fits
<1>2. \A q \in Requests : req'[q].at \notin Deletes
  BY <1>1
<1>3. \A q \in Requests : Deleted(q)'
  BY <1>2 DEF Deleted, Deletes
<1>4. Redis' /\ row'.exists =>
        indexed' \/ \E q \in Active' : req'[q].phase = "index"
  <2>1. ASSUME NEW q \in Active, q # r, req[q].phase = "index"
        PROVE q \in Active' /\ req'[q].phase = "index"
    BY <2>1 DEF Active
  <2> QED BY <2>1 DEF Tidy, Redis
<1>5. ~row'.exists => Nothing' /\ ~indexed'
  BY <1>1 DEF Tidy
<1> QED BY <1>3, <1>4, <1>5 DEF Tidy

LEMMA StepsKeepTidy ==
  ASSUME TypeOK, Shape, Orderly, Cascades, Tidy, NEW r \in Requests,
         Turn(r) \/ Find(r) \/ SetShareToken(r) \/ Respond(r),
         Unharmed({"orphan"})'
  PROVE Tidy'
<1>0. /\ req \in [Requests -> Request] /\ req[r] \in Request /\ row \in Row
      /\ Shaped(r) /\ Fits(req[r].kind, req[r].at)
  BY DEF TypeOK, Shape, Shaped
<1>m. ~met
  <2>1. [Next]_vars
    BY DEF Next, ShareOrDelete
  <2> QED BY <2>1, HarmStays DEF Unharmed
<1>a. req[r].at \in TurnStages \cup Sharing \cup {"find", "snapshot"} =>
        r \in Active /\ req[r].kind # "delete"
  BY AtWork
<1>d. \A stage : stage \in Deletes => stage \notin Updates \cup Lists \cup TurnStages
                    \cup Sharing \cup {"snapshot", "done"}
  BY DEF Deletes, Updates, Lists, TurnStages, Sharing
\* The session and what belongs to it stay as they are.
<1>k. ASSUME UNCHANGED <<backend, row, indexed, messages, events, snapshot>>,
             req[r].at \in TurnStages \cup Sharing \cup {"find", "snapshot"},
             req[r].phase # "index", req'[r].at \notin Deletes,
             \A q \in Requests : q # r => req'[q] = req[q]
      PROVE Tidy'
  BY <1>k, <1>a, <1>m, TidyStep DEF Nothing
<1>f. ASSUME Goto(r, Following(r)),
             req[r].at \in Updates \cup Lists \cup {"create", "snapshot", "token"}
      PROVE /\ req'[r].at \notin Deletes
            /\ \A q \in Requests : q # r => req'[q] = req[q]
  <2>1. /\ Following(r) \in Stages
        /\ Following(r) \in {"stamp", "history", "start", "run", "events", "sum", "snapshot",
                             "done", "finish", "link", "respond"}
    BY <1>f, <1>0, FollowingFacts DEF Updates, Lists
  <2>2. Moved(r, Following(r))
    BY <1>0, <1>f, <2>1, GotoMoves
  <2> QED BY <2>1, <2>2 DEF Moved, Deletes
<1>1. CASE Ensure(r)
  <2>1. PICK stage \in {"stamp", "create"} : Goto(r, stage)
    BY <1>1 DEF Ensure
  <2>2. Moved(r, stage)
    BY <1>0, <2>1, GotoMoves DEF Stages, Updates
  <2> QED BY <1>1, <1>0, <1>k, <2>2
      DEF Ensure, store, conversation, Shaped, Updates, Moved, Deletes, TurnStages
<1>2. CASE Create(r)
  <2>1. req[r].at = "create" /\ row'.exists /\ UNCHANGED <<backend, indexed>>
    BY <1>2 DEF Create
  <2>2. CASE Redis
    <3>1. Phase(r, "index")
      BY <1>2, <2>2 DEF Create
    <3> QED BY <1>0, <1>a, <1>m, <2>1, <3>1, PhaseMoves, TidyStep
        DEF Phases, Active, Deletes, TurnStages
  <2>3. CASE ~Redis
    BY <1>2, <1>a, <1>f, <1>m, <2>1, <2>3, TidyStep DEF Create, TurnStages
  <2> QED BY <2>2, <2>3
<1>3. CASE Index(r)
  <2>1. /\ req[r].phase = "index" /\ req[r].at \in Updates \cup {"create"}
        /\ indexed' /\ UNCHANGED <<backend, row>>
    BY <1>3, <1>0 DEF Index, Shaped
  <2>2. row.exists
    BY <2>1, <1>m, SessionIsThere DEF Updates, TurnStages, Sharing
  <2> QED BY <1>3, <1>a, <1>f, <1>m, <2>1, <2>2, TidyStep
      DEF Index, Updates, TurnStages, Sharing
<1>4. CASE Read(r)
  <2>1. /\ req'[r].at \notin Deletes
        /\ \A q \in Requests : q # r => req'[q] = req[q]
    <3>1. CASE row.exists \/ req[r].at = "sum"
      BY <1>4, <3>1, ReadMoves DEF Read, Updates, Deletes
    <3>2. CASE ~(row.exists \/ req[r].at = "sum")
      BY <1>4, <3>2, <1>f DEF Read
    <3> QED BY <3>1, <3>2
  <2> QED BY <1>4, <1>k, <2>1 DEF Read, store, conversation, Updates, TurnStages, Sharing
<1>5. CASE Reread(r)
  <2>1. req[r].at \in Updates
    BY <1>5, <1>0 DEF Reread, Shaped
  <2> QED BY <1>5, <1>k, <2>1, RereadMoves
      DEF Reread, store, conversation, Updates, Deletes, TurnStages, Sharing
<1>6. CASE Update(r)
  <2>1. req[r].at \in Updates /\ req[r].phase = "set" /\ UNCHANGED <<backend, indexed>>
    BY <1>6 DEF Update
  <2>2. row.exists
    BY <2>1, <1>m, SessionIsThere DEF Updates, TurnStages, Sharing
  <2>3. row'.exists
    <3>1. Edited(r).exists
      BY <1>0 DEF Edited, Request, Row
    <3> QED BY <1>6, <1>0, <2>2, <3>1 DEF Update, Merged, Row
  <2>4. req'[r].at \notin Deletes /\ \A q \in Requests : q # r => req'[q] = req[q]
    <3>1. CASE Redis
      BY <1>6, <3>1, <1>0, <1>d, <2>1, PhaseMoves DEF Update, Phases
    <3>2. CASE ~Redis
      BY <1>6, <3>2, <1>f, <2>1 DEF Update
    <3> QED BY <3>1, <3>2
  <2> QED BY <1>a, <1>m, <2>1, <2>2, <2>3, <2>4, TidyStep DEF Updates, TurnStages, Sharing
<1>7. CASE LoadHistory(r)
  BY <1>7, <1>0, <1>k, LoadHistoryMoves
  DEF LoadHistory, store, conversation, Shaped, Updates, Moved, Deletes, TurnStages
<1>8. CASE ReadList(r)
  BY <1>8, <1>k, <1>d, ReadListMoves
  DEF ReadList, store, conversation, Lists, TurnStages
<1>9. CASE Extend(r)
  <2>1. /\ req[r].at \in Lists /\ req[r].phase = "set"
        /\ UNCHANGED <<backend, row, indexed>>
    BY <1>9 DEF Extend
  <2>2. row.exists
    BY <2>1, <1>m, SessionIsThere DEF Lists, TurnStages
  <2> QED BY <1>9, <1>a, <1>f, <1>m, <2>1, <2>2, TidyStep DEF Extend, Lists, TurnStages
<1>10. CASE Run(r)
  <2>1. PICK stage \in {"answer", "events", "sum", "done"} : Moved(r, stage)
    BY <1>10, RunMoves
  <2> QED BY <1>10, <1>0, <1>k, <2>1
      DEF Run, store, conversation, Shaped, Updates, Moved, Deletes, TurnStages
<1>11. CASE SaveSnapshot(r)
  <2>1. /\ req[r].at = "snapshot" /\ req[r].phase # "index"
        /\ UNCHANGED <<backend, row, indexed, messages, events>>
    BY <1>11, <1>0 DEF SaveSnapshot, Shaped, Updates
  <2>2. ~row.exists => ~snapshot'
    BY <1>11 DEF SaveSnapshot, Unharmed
  <2> QED BY <1>11, <1>a, <1>f, <1>m, <2>1, <2>2, TidyStep DEF SaveSnapshot, Nothing
<1>12. CASE Find(r)
  <2>1. PICK stage \in {"done", "respond", "token"} : Moved(r, stage)
    BY <1>12, FindMoves
  <2> QED BY <1>12, <1>0, <1>k, <2>1
      DEF Find, store, conversation, Shaped, Updates, Moved, Deletes
<1>13. CASE SetShareToken(r)
  <2>1. /\ req[r].at = "token" /\ req[r].phase # "index" /\ row'.exists = row.exists
        /\ UNCHANGED <<backend, indexed, messages, events, snapshot>>
    BY <1>13, <1>0 DEF SetShareToken, Shaped, Updates, Row, conversation
  <2> QED BY <1>13, <1>a, <1>f, <1>m, <2>1, TidyStep DEF SetShareToken, Nothing, Sharing
<1>14. CASE Respond(r)
  <2>1. Moved(r, "done")
    BY <1>14, <1>0, GotoMoves DEF Respond, Stages
  <2> QED BY <1>14, <1>0, <1>k, <2>1
      DEF Respond, store, conversation, Shaped, Updates, Moved, Deletes, Sharing
<1> QED BY <1>1, <1>2, <1>3, <1>4, <1>5, <1>6, <1>7, <1>8, <1>9, <1>10, <1>11,
           <1>12, <1>13, <1>14 DEF Turn

LEMMA DeletionsKeepTidy ==
  ASSUME TypeOK, Shape, Orderly, Cascades, Tidy, NEW r \in Requests,
         Arrive(r) \/ DeleteRow(r) \/ DeleteKey(r), ~crashed, Unharmed({"orphan"})'
  PROVE Tidy'
<1>0. /\ req \in [Requests -> Request] /\ Shaped(r) /\ Fits(req[r].kind, req[r].at)
  BY DEF TypeOK, Shape, Shaped
<1>m. ~met /\ ~met'
  <2>1. [Next]_vars
    BY DEF Next, ShareOrDelete
  <2> QED BY <2>1, HarmStays DEF Unharmed
<1>1. CASE Arrive(r)
  <2>1. PICK kind \in AllKinds :
          /\ req'[r].at = FirstStage(kind)
          /\ met' = (met \/ \E q \in Active : "delete" \in {kind, req[q].kind})
    BY <1>1, <1>0, ArriveMoves
  <2>2. /\ \A q \in Requests : q # r => req'[q] = req[q]
        /\ UNCHANGED <<backend, row, indexed, messages, events, snapshot>>
        /\ req[r].at = "idle"
    BY <1>1, <1>0, ArriveMoves
  <2>3. FirstStage(kind) \in {"ensure", "find", "snapshot", "delRow"}
    BY FirstStageFacts DEF AllKinds, Turns
  <2>4. ASSUME NEW q \in Requests
        PROVE Deleted(q)' /\ (req[q].at \in Deletes => req'[q].at \in Deletes)
    <3>1. CASE q = r
      BY <2>1, <2>2, <2>3, <3>1 DEF Deleted, Deletes
    <3>2. CASE q # r
      BY <2>2, <3>2 DEF Tidy, Deleted
    <3> QED BY <3>1, <3>2
  <2>5. ASSUME NEW q \in Active
        PROVE q \in Active' /\ req'[q].phase = req[q].phase
    BY <2>2, <2>5 DEF Active
  <2> QED BY <2>2, <2>4, <2>5 DEF Tidy, Nothing, Redis
<1>2. CASE DeleteRow(r) \/ DeleteKey(r)
  <2>1. req[r].at \in Deletes /\ backend' = backend /\ row' \in {row, NoRow}
    BY <1>2, DeleteMoves
  <2>2. PICK stage \in Deletes \cup {"done"} : Moved(r, stage)
    BY <1>2, DeleteMoves
  <2>3. \A q \in Requests : q # r => Deleted(q)'
    BY <1>m, <2>1, <2>2, DeletionIsAlone DEF Moved, Deleted, Deletes
  <2>4. Deleted(r)
    BY DEF Tidy
  <2>5. req'[r].at = stage /\ NoRow.exists = FALSE
    BY <2>2 DEF Moved, NoRow
  <2>6. CASE DeleteRow(r)
    <3>1. /\ row' = NoRow /\ Nothing' /\ indexed' = indexed /\ ~Redis
          /\ req'[r].at = "done"
      BY <2>6, <1>0, GotoMoves DEF DeleteRow, Nothing, Moved, Stages
    <3>2. ~indexed
      BY <3>1 DEF Cascades
    <3> QED BY <2>1, <2>3, <2>5, <3>1, <3>2 DEF Tidy, Deleted, Deletes, Redis
  <2>7. CASE DeleteKey(r)
    <3>1. /\ row' = IF req[r].at = "delRow" THEN NoRow ELSE row
          /\ snapshot' = (snapshot /\ req[r].at # "delSnapshot")
          /\ messages' = IF req[r].at = "delMessages" THEN <<>> ELSE messages
          /\ events' = IF req[r].at = "delEvents" THEN <<>> ELSE events
          /\ indexed' = (indexed /\ req[r].at # "delIndex")
      BY <2>7 DEF DeleteKey
    <3>2. stage = Deletion[req[r].at]
      BY <2>1, <2>5, <2>7, <1>0, DeletionFacts, GotoMoves DEF DeleteKey, Moved
    <3>3. ~row'.exists
      BY <2>1, <2>4, <2>5, <3>1 DEF Deleted
    <3>4. Deleted(r)' /\ (stage = "done" => Nothing' /\ ~indexed')
      <4>1. CASE req[r].at = "delRow"
        BY <2>1, <2>5, <3>1, <3>2, <3>3, <4>1, DeletionFacts DEF Deleted, Deletes
      <4>2. CASE req[r].at = "delSnapshot"
        BY <2>1, <2>4, <2>5, <3>1, <3>2, <3>3, <4>2, DeletionFacts DEF Deleted, Deletes
      <4>3. CASE req[r].at = "delMessages"
        BY <2>1, <2>4, <2>5, <3>1, <3>2, <3>3, <4>3, DeletionFacts DEF Deleted, Deletes
      <4>4. CASE req[r].at = "delEvents"
        BY <2>1, <2>4, <2>5, <3>1, <3>2, <3>3, <4>4, DeletionFacts DEF Deleted, Deletes
      <4>5. CASE req[r].at = "delIndex"
        BY <2>1, <2>4, <2>5, <3>1, <3>2, <3>3, <4>5, DeletionFacts DEF Deleted, Deletes, Nothing
      <4> QED BY <2>1, <4>1, <4>2, <4>3, <4>4, <4>5 DEF Deletes
    <3> QED BY <2>3, <2>5, <3>3, <3>4 DEF Tidy
  <2> QED BY <1>2, <2>6, <2>7
<1> QED BY <1>1, <1>2

LEMMA StrayNext ==
  TypeOK /\ Shape /\ Orderly /\ StrayInv /\ [Next]_vars => StrayInv'
<1> SUFFICES ASSUME TypeOK, Shape, Orderly, StrayInv, [Next]_vars PROVE StrayInv'
  OBVIOUS
<1>1. Cascades'
  BY CascadesNext DEF StrayInv
<1>2. ASSUME ~crashed', Unharmed({"orphan"})'
      PROVE Tidy'
  <2>1. CASE UNCHANGED vars
    BY <1>2, <2>1 DEF vars, store, conversation, history, StrayInv, Tidy, Nothing,
       Deleted, Active, Redis, Unharmed
  <2>2. ~Restart
    BY <1>2, RestartMoves
  <2>3. CASE \E r \in Requests : Arrive(r) \/ Turn(r) \/ ShareOrDelete(r)
    <3>1. PICK r \in Requests : Arrive(r) \/ Turn(r) \/ ShareOrDelete(r)
      BY <2>3
    <3>2. crashed' = crashed
      BY <3>1 DEF Arrive, Turn, Ensure, Create, Index, Read, Reread, Update,
         LoadHistory, ReadList, Extend, Run, SaveSnapshot, ShareOrDelete, Find,
         SetShareToken, Respond, DeleteRow, DeleteKey, history
    <3>3. Tidy /\ Cascades
      BY <1>2, <3>2, HarmStays DEF StrayInv
    <3> QED BY <1>2, <3>1, <3>2, <3>3, StepsKeepTidy, DeletionsKeepTidy DEF ShareOrDelete
  <2> QED BY <2>1, <2>2, <2>3 DEF Next
<1> QED BY <1>1, <1>2 DEF StrayInv

-----------------------------------------------------------------------------
(* What is kept of a turn.                                                 *)

Unasked == {"idle", "ensure", "create", "stamp", "history", "ask"}
Ran == {"events", "snapshot", "sum", "finish", "done"}

Single(t, list) == \E e \in DOMAIN list : Of(t, list) = {e}

\* What the lists have of t where it is.
Kept(t) ==
  /\ req[t].at \in Unasked => Of(t, messages) = {} /\ Of(t, events) = {}
  /\ req[t].at = "ask" => Of(t, req[t].list) = {}
  /\ req[t].at = "answer" => "words" \in req[t].said
  /\ req[t].at = "events" => "events" \in req[t].said
  /\ t \in begun =>
       /\ req[t].at \in {"start", "run", "answer"} => AsksOnly(t, messages)
       /\ req[t].at \in Ran =>
            IF "words" \in req[t].said THEN Answers(t, messages)
            ELSE AsksOnly(t, messages)
       /\ req[t].at \in {"start", "run", "answer", "events"} => Of(t, events) = {}
       /\ req[t].at \in Ran \ {"events"} =>
            IF "events" \in req[t].said THEN Single(t, events)
            ELSE Of(t, events) = {}

\* Two lists have the same of t.
Alike(t, a, b) ==
  /\ (Of(t, a) = {}) <=> (Of(t, b) = {})
  /\ AsksOnly(t, a) <=> AsksOnly(t, b)
  /\ Answers(t, a) <=> Answers(t, b)
  /\ Single(t, a) <=> Single(t, b)

\* r has read a list of Redis and is about to write it.
Writes(r) == Redis /\ req[r].at \in Lists /\ req[r].phase = "set"

\* What it has read has all there is of the turns that nobody overlapped.
ReadWell(r) ==
  Writes(r) =>
    /\ r \notin crossed => req[r].list = Stored(r)
    /\ \A q \in Requests \ (crossed \cup {r}) : Alike(q, Stored(r), req[r].list)

\* Turns that are under way together are crossed.
Apart ==
  ~met =>
    /\ crossed \subseteq begun
    /\ \A q, r \in Active : {req[q].kind, req[r].kind} \subseteq Turns =>
         q = r \/ q \in crossed

Risked == IF "list" \in lost THEN crossed ELSE {}

KeptInv ==
  Unharmed({"unread"}) =>
    /\ \A r \in Requests : ReadWell(r)
    /\ \A t \in Requests \ Risked : Kept(t)

\* At these stages the lists have as much of a turn at the one as at the other.
Same(from, to) ==
  \/ from = to
  \/ {from, to} \subseteq Unasked \ {"ask"}
  \/ {from, to} \subseteq {"start", "run"}
  \/ {from, to} \subseteq Ran \ {"events"}
  \/ to \notin Unasked \cup Ran \cup {"start", "run", "answer"}

\* A list that is extended has one message more.
LEMMA OfExtended ==
  ASSUME NEW list \in Seq(Message), NEW m \in Message, NEW t \in Requests
  PROVE /\ Of(t, Append(list, m)) =
             IF m.turn = t THEN Of(t, list) \cup {Len(list) + 1} ELSE Of(t, list)
        /\ DOMAIN Append(list, m) = DOMAIN list \cup {Len(list) + 1}
        /\ \A i \in DOMAIN list : Append(list, m)[i] = list[i] /\ i < Len(list) + 1
        /\ Append(list, m)[Len(list) + 1] = m
        /\ Of(t, list) \subseteq DOMAIN list
<1> DEFINE new == Append(list, m)
<1>1. /\ DOMAIN list = 1 .. Len(list) /\ DOMAIN new = 1 .. (Len(list) + 1)
      /\ Len(list) \in Nat
      /\ \A i \in 1 .. Len(list) : new[i] = list[i]
      /\ new[Len(list) + 1] = m
  OBVIOUS
<1> HIDE DEF new
<1>2. /\ DOMAIN new = DOMAIN list \cup {Len(list) + 1}
      /\ \A i \in DOMAIN list : i < Len(list) + 1
  BY <1>1
<1>3. Of(t, new) = IF m.turn = t THEN Of(t, list) \cup {Len(list) + 1} ELSE Of(t, list)
  BY <1>1, <1>2 DEF Of
<1> QED BY <1>1, <1>2, <1>3 DEF new, Of

LEMMA AlikeFacts ==
  ASSUME NEW t, NEW a, NEW b, NEW c
  PROVE /\ Alike(t, a, a)
        /\ Alike(t, a, b) => Alike(t, b, a)
        /\ Alike(t, a, b) /\ Alike(t, b, c) => Alike(t, a, c)
BY DEF Alike

\* What a turn has in a list does not change when another one extends it.
LEMMA OthersExtend ==
  ASSUME NEW list \in Seq(Message), NEW m \in Message, NEW t \in Requests, m.turn # t
  PROVE Alike(t, list, Append(list, m))
<1> DEFINE new == Append(list, m)
<1>1. /\ Of(t, new) = Of(t, list) /\ DOMAIN list \subseteq DOMAIN new
      /\ \A i \in DOMAIN list : new[i] = list[i]
      /\ Of(t, list) \subseteq DOMAIN list
  BY OfExtended
<1> HIDE DEF new
<1>2. AsksOnly(t, list) <=> AsksOnly(t, new)
  <2>1. AsksOnly(t, list) => AsksOnly(t, new)
    BY <1>1 DEF AsksOnly
  <2>2. ASSUME NEW q \in DOMAIN new, Of(t, new) = {q}, new[q].who = "user"
        PROVE AsksOnly(t, list)
    <3>1. q \in DOMAIN list
      BY <1>1, <2>2
    <3> QED BY <1>1, <2>2, <3>1 DEF AsksOnly
  <2> QED BY <2>1, <2>2 DEF AsksOnly
<1>3. Answers(t, list) <=> Answers(t, new)
  <2>1. Answers(t, list) => Answers(t, new)
    BY <1>1 DEF Answers
  <2>2. ASSUME NEW q \in DOMAIN new, NEW a \in DOMAIN new, q < a,
               Of(t, new) = {q, a}, new[q].who = "user", new[a].who = "assistant"
        PROVE Answers(t, list)
    <3>1. q \in DOMAIN list /\ a \in DOMAIN list
      BY <1>1, <2>2
    <3> QED BY <1>1, <2>2, <3>1 DEF Answers
  <2> QED BY <2>1, <2>2 DEF Answers
<1>4. Single(t, list) <=> Single(t, new)
  BY <1>1 DEF Single
<1> QED BY <1>1, <1>2, <1>3, <1>4 DEF new, Alike

\* A turn asks, and then answers.
LEMMA TurnExtends ==
  ASSUME NEW list \in Seq(Message), NEW m \in Message, NEW t \in Requests, m.turn = t
  PROVE /\ Of(t, list) = {} => Of(t, Append(list, m)) = {Len(list) + 1}
        /\ Of(t, list) = {} /\ m.who = "user" => AsksOnly(t, Append(list, m))
        /\ AsksOnly(t, list) /\ m.who = "assistant" => Answers(t, Append(list, m))
<1> DEFINE new == Append(list, m)
           last == Len(list) + 1
<1>1. /\ Of(t, new) = Of(t, list) \cup {last} /\ DOMAIN new = DOMAIN list \cup {last}
      /\ \A i \in DOMAIN list : new[i] = list[i] /\ i < last
      /\ new[last] = m
  BY OfExtended
<1> HIDE DEF new, last
<1>2. Of(t, list) = {} /\ m.who = "user" => AsksOnly(t, new)
  BY <1>1 DEF AsksOnly
<1>3. ASSUME AsksOnly(t, list), m.who = "assistant"
      PROVE Answers(t, new)
  <2>1. PICK q \in DOMAIN list : Of(t, list) = {q} /\ list[q].who = "user"
    BY <1>3 DEF AsksOnly
  <2>2. /\ q < last /\ Of(t, new) = {q, last} /\ q \in DOMAIN new /\ last \in DOMAIN new
        /\ new[q].who = "user" /\ new[last].who = "assistant"
    BY <1>1, <1>3, <2>1
  <2> QED BY <2>2 DEF Answers
<1> QED BY <1>1, <1>2, <1>3 DEF new, last

\* The lists stay as they are, and t's stage says the same of them.
LEMMA QuietKept ==
  ASSUME NEW t \in Requests, Kept(t), UNCHANGED <<messages, events>>,
         begun' \subseteq begun, Same(req[t].at, req'[t].at),
         req'[t].said = req[t].said,
         req'[t].at = "ask" => req'[t].list \in {req[t].list, messages, <<>>}
  PROVE Kept(t)'
<1> DEFINE from == req[t].at
           to == req'[t].at
<1>1. CASE to = from
  <2>1. to = "ask" => Of(t, req'[t].list) = {}
    <3>1. Of(t, <<>>) = {}
      BY DEF Of
    <3> QED BY <1>1, <3>1 DEF Kept, Unasked
  <2> QED BY <1>1, <2>1 DEF Kept
<1>2. CASE {from, to} \subseteq Unasked \ {"ask"}
  BY <1>2 DEF Kept, Unasked, Ran
<1>3. CASE {from, to} \subseteq {"start", "run"}
  BY <1>3 DEF Kept, Unasked, Ran
<1>4. CASE {from, to} \subseteq Ran \ {"events"}
  BY <1>4 DEF Kept, Unasked, Ran
<1>5. CASE to \notin Unasked \cup Ran \cup {"start", "run", "answer"}
  BY <1>5 DEF Kept, Unasked, Ran
<1> QED BY <1>1, <1>2, <1>3, <1>4, <1>5 DEF Same

\* What is not a turn's never had its stages.
LEMMA NotBegunKept ==
  ASSUME NEW t \in Requests, t \notin begun',
         req'[t].at \notin Unasked \cup {"answer", "events"}
  PROVE Kept(t)'
BY DEF Kept, Unasked

LEMMA FollowingIsSame ==
  ASSUME NEW r \in Requests, req \in [Requests -> Request],
         req[r].at \in Updates \cup {"create"}
  PROVE Same(req[r].at, Following(r)) /\ Following(r) # "ask"
<1>1. CASE req[r].at \in {"create", "stamp", "start"}
  BY <1>1, FollowingFacts DEF Same, Unasked
<1>2. CASE req[r].at \in {"sum", "finish"}
  BY <1>2, FollowingFacts DEF Same, Ran
<1>3. CASE req[r].at = "link"
  BY <1>3, FollowingFacts DEF Same, Ran, Unasked
<1> QED BY <1>1, <1>2, <1>3 DEF Updates

\* A run has a note of what it said, and goes on to save it.
LEMMA RunKept ==
  ASSUME NEW r \in Requests, TypeOK, Shape, Kept(r), Run(r),
         UNCHANGED <<messages, events, begun>>
  PROVE Kept(r)'
<1>0. req \in [Requests -> Request] /\ req[r] \in Request /\ req[r].at = "run"
  BY DEF TypeOK, Run
<1>1. req[r].said = {}
  BY <1>0 DEF Shape, Shaped, Early
<1>2. r \in begun => AsksOnly(r, messages) /\ Of(r, events) = {}
  BY <1>0 DEF Kept
<1>3. ASSUME NEW said \in Outcomes, Hold(r, [req[r] EXCEPT !.said = said], ToSave(said))
      PROVE Kept(r)'
  <2>1. /\ [req[r] EXCEPT !.said = said] \in Request
        /\ [req[r] EXCEPT !.said = said].kind = req[r].kind
        /\ [req[r] EXCEPT !.said = said].said = said
    BY <1>0, BoundsAssumption DEF Request
  <2>2. ToSave(said) \in Stages
    BY ToSaveFacts
  <2>3. req'[r].at = ToSave(said) /\ req'[r].said = said
    BY <1>0, <1>3, <2>1, <2>2, HoldMoves DEF Moved
  <2>4. \/ ToSave(said) = "answer" /\ "words" \in said
        \/ ToSave(said) = "events" /\ "events" \in said /\ "words" \notin said
        \/ ToSave(said) = "sum" /\ "events" \notin said /\ "words" \notin said
    BY DEF ToSave
  <2> QED BY <1>2, <2>3, <2>4 DEF Kept, Unasked, Ran
<1>4. ASSUME Goto(r, "done")
      PROVE Kept(r)'
  <2>1. req'[r].at = "done" /\ req'[r].said = {}
    BY <1>0, <1>1, <1>4, GotoMoves DEF Moved, Stages
  <2> QED BY <1>2, <2>1 DEF Kept, Unasked, Ran
<1> QED BY <1>3, <1>4 DEF Run

-----------------------------------------------------------------------------
(* Who overlaps whom.                                                      *)

\* A step of a request leaves the others where they are, and what kind of
\* request it is.
LEMMA StepOfOne ==
  ASSUME TypeOK, Shape, NEW r \in Requests, Turn(r) \/ ShareOrDelete(r)
  PROVE /\ r \in Active /\ Active' \subseteq Active
        /\ \A q \in Requests : q # r => req'[q] = req[q]
        /\ req'[r].kind = req[r].kind
        /\ UNCHANGED <<backend, begun, crossed, met>>
<1>0. /\ req \in [Requests -> Request] /\ req[r] \in Request
      /\ Shaped(r) /\ Fits(req[r].kind, req[r].at)
  BY DEF TypeOK, Shape, Shaped
<1>1. r \in Active
  <2>1. CASE Turn(r)
    <3>1. Index(r) \/ Reread(r) => req[r].at \in Updates \cup {"create"}
      BY <1>0 DEF Index, Reread, Shaped
    <3> QED BY <2>1, <3>1 DEF Turn, Ensure, Create, Read, Update, LoadHistory,
            ReadList, Extend, Run, SaveSnapshot, Active, Updates, Lists
  <2>2. CASE ShareOrDelete(r)
    BY <2>2 DEF ShareOrDelete, Find, SetShareToken, Respond, DeleteRow, DeleteKey,
       Active, Deletes
  <2> QED BY <2>1, <2>2
<1>2. UNCHANGED <<backend, begun, crossed, met>>
  <2>1. CASE Turn(r)
    BY <2>1 DEF Turn, Ensure, Create, Index, Read, Reread, Update, LoadHistory,
       ReadList, Extend, Run, SaveSnapshot, history
  <2>2. CASE ShareOrDelete(r)
    BY <2>2 DEF ShareOrDelete, Find, SetShareToken, Respond, DeleteRow, DeleteKey,
       history
  <2> QED BY <2>1, <2>2
<1> DEFINE Alone == /\ \A q \in Requests : q # r => req'[q] = req[q]
                    /\ req'[r].kind = req[r].kind
<1>g. ASSUME NEW stage \in Stages, Goto(r, stage) PROVE Alone
  BY <1>0, <1>g, GotoMoves DEF Moved
<1>f. Goto(r, Following(r)) => Alone
  BY <1>0, <1>g, FollowingFacts
<1>p. ASSUME NEW phase \in Phases, Phase(r, phase) PROVE Alone
  BY <1>0, <1>p, PhaseMoves
<1>m. ASSUME NEW stage, Moved(r, stage) PROVE Alone
  BY <1>m DEF Moved
<1>3. Turn(r) => Alone
  <2>1. Ensure(r) => Alone
    BY <1>g DEF Ensure, Stages, Updates
  <2>2. Create(r) => Alone
    BY <1>f, <1>p DEF Create, Phases
  <2>3. Index(r) => Alone
    BY <1>f DEF Index
  <2>4. Read(r) => Alone
    <3>1. CASE row.exists \/ req[r].at = "sum"
      BY <3>1, ReadMoves
    <3>2. CASE ~(row.exists \/ req[r].at = "sum")
      BY <3>2, <1>f DEF Read
    <3> QED BY <3>1, <3>2
  <2>5. Reread(r) => Alone
    BY RereadMoves
  <2>6. Update(r) => Alone
    BY <1>f, <1>p DEF Update, Phases
  <2>7. LoadHistory(r) \/ ReadList(r) => Alone
    BY <1>m, LoadHistoryMoves, ReadListMoves
  <2>8. Extend(r) \/ SaveSnapshot(r) => Alone
    BY <1>f DEF Extend, SaveSnapshot
  <2>9. Run(r) => Alone
    BY <1>m, RunMoves
  <2> QED BY <2>1, <2>2, <2>3, <2>4, <2>5, <2>6, <2>7, <2>8, <2>9 DEF Turn
<1>4. ShareOrDelete(r) => Alone
  <2>1. Find(r) => Alone
    BY <1>m, FindMoves
  <2>2. SetShareToken(r) => Alone
    BY <1>f DEF SetShareToken
  <2>3. Respond(r) => Alone
    BY <1>g DEF Respond, Stages
  <2>4. DeleteRow(r) \/ DeleteKey(r) => Alone
    BY <1>m, DeleteMoves
  <2> QED BY <2>1, <2>2, <2>3, <2>4 DEF ShareOrDelete
<1>5. Active' \subseteq Active
  BY <1>1, <1>3, <1>4 DEF Active
<1> QED BY <1>1, <1>2, <1>3, <1>4, <1>5

LEMMA ApartInit == Init => Apart
<1> SUFFICES ASSUME Init PROVE Apart
  OBVIOUS
<1>1. \A r \in Requests : req[r].at \in {"idle", "done"}
  BY InitFacts
<1> QED BY <1>1 DEF Apart, Active, Init

LEMMA ApartNext == TypeOK /\ Shape /\ Orderly /\ Apart /\ [Next]_vars => Apart'
<1> SUFFICES ASSUME TypeOK, Shape, Orderly, Apart, [Next]_vars, ~met'
             PROVE /\ crossed' \subseteq begun'
                   /\ \A q, r \in Active' :
                        {req'[q].kind, req'[r].kind} \subseteq Turns => q = r \/ q \in crossed'
  BY DEF Apart
<1>1. CASE UNCHANGED vars
  BY <1>1 DEF vars, history, Apart, Active
<1>2. CASE Restart
  BY <1>2, RestartMoves DEF Apart
<1>3. ASSUME NEW p \in Requests, Turn(p) \/ ShareOrDelete(p)
      PROVE /\ crossed' \subseteq begun'
            /\ \A q, r \in Active' :
                 {req'[q].kind, req'[r].kind} \subseteq Turns => q = r \/ q \in crossed'
  <2>1. /\ Active' \subseteq Active /\ begun' = begun /\ crossed' = crossed /\ ~met
        /\ \A q \in Requests : req'[q].kind = req[q].kind
    BY <1>3, StepOfOne
  <2> QED BY <2>1 DEF Apart, Active
<1>4. ASSUME NEW p \in Requests, Arrive(p)
      PROVE /\ crossed' \subseteq begun'
            /\ \A q, r \in Active' :
                 {req'[q].kind, req'[r].kind} \subseteq Turns => q = r \/ q \in crossed'
  <2>0. req \in [Requests -> Request]
    BY DEF TypeOK
  <2>1. PICK kind \in AllKinds :
          /\ req'[p].kind = kind
          /\ begun' = IF kind = "delete" THEN {}
                      ELSE IF kind \in Turns THEN begun \cup {p} ELSE begun
          /\ crossed' = IF kind = "delete" THEN {}
                        ELSE IF kind \in Turns THEN crossed \cup Meeting(p)
                        ELSE crossed
          /\ met' = (met \/ \E q \in Active : "delete" \in {kind, req[q].kind})
    BY <1>4, <2>0, ArriveMoves
  <2>2. /\ \A q \in Requests : q # p => req'[q] = req[q]
        /\ Active' \subseteq Active \cup {p}
    BY <1>4, <2>0, ArriveMoves DEF Active
  <2>3. /\ ~met /\ crossed \subseteq begun
        /\ \A q, r \in Active : {req[q].kind, req[r].kind} \subseteq Turns =>
             q = r \/ q \in crossed
        /\ \A q \in Active : req[q].kind \in Turns => q \in begun
        /\ p \notin Active
    BY <1>4, <2>1 DEF Apart, Orderly, Arrive, Active
  <2>4. CASE kind = "delete"
    <3>1. Active = {}
      BY <2>1, <2>4
    <3> QED BY <2>1, <2>2, <2>4, <3>1
  <2>5. CASE kind \in Turns
    <3>d. kind # "delete"
      BY <2>5 DEF Turns
    <3>1. Meeting(p) \subseteq begun \cup {p}
      BY <2>3 DEF Meeting
    <3>2. ASSUME NEW q \in Active', NEW r \in Active',
                 {req'[q].kind, req'[r].kind} \subseteq Turns, q # r
          PROVE q \in crossed'
      <4>1. CASE q # p /\ r # p
        BY <2>1, <2>2, <2>3, <2>5, <3>d, <3>2, <4>1 DEF Active
      <4>2. CASE q = p
        <5>1. r \in Active /\ req[r].kind \in Turns
          BY <2>2, <3>2, <4>2 DEF Active
        <5>2. p \in Meeting(p)
          BY <5>1 DEF Meeting
        <5> QED BY <2>1, <2>5, <3>d, <4>2, <5>2
      <4>3. CASE r = p
        <5>1. q \in Active /\ req[q].kind \in Turns
          BY <2>2, <3>2, <4>3 DEF Active
        <5>2. q \in Meeting(p)
          BY <5>1 DEF Meeting
        <5> QED BY <2>1, <2>5, <3>d, <5>2
      <4> QED BY <4>1, <4>2, <4>3
    <3> QED BY <2>1, <2>3, <2>5, <3>d, <3>1, <3>2
  <2>6. CASE kind \notin Turns \cup {"delete"}
    BY <2>1, <2>2, <2>3, <2>6 DEF Active
  <2> QED BY <2>4, <2>5, <2>6
<1> QED BY <1>1, <1>2, <1>3, <1>4 DEF Next

-----------------------------------------------------------------------------
(* What a request has read of a list.                                      *)

\* A request that writes a list has just read it.
LEMMA WritesWhatWasRead ==
  ASSUME TypeOK, Shape, NEW r \in Requests, Turn(r) \/ ShareOrDelete(r), Writes(r)'
  PROVE ReadList(r)
<1>0. /\ req \in [Requests -> Request] /\ req[r] \in Request
      /\ Shaped(r) /\ Fits(req[r].kind, req[r].at)
      /\ Redis /\ req'[r].at \in Lists /\ req'[r].phase = "set"
  BY StepOfOne DEF TypeOK, Shape, Shaped, Writes, Redis
<1>m. ASSUME NEW stage, Moved(r, stage) PROVE FALSE
  <2>1. stage \in Lists => FirstPhase(stage) = "get"
    BY <1>0 DEF FirstPhase, Lists
  <2> QED BY <1>0, <1>m, <2>1 DEF Moved
<1>g. ASSUME NEW stage \in Stages, Goto(r, stage) PROVE FALSE
  BY <1>0, <1>g, <1>m, GotoMoves
<1>f. ~Goto(r, Following(r))
  BY <1>0, <1>g, FollowingFacts
<1>p. ASSUME Phase(r, "index") PROVE FALSE
  BY <1>0, <1>p, PhaseMoves DEF Phases
<1>1. ~Ensure(r)
  BY <1>g DEF Ensure, Stages, Updates
<1>2. ~Create(r) /\ ~Update(r) /\ ~Index(r) /\ ~Extend(r) /\ ~SaveSnapshot(r)
  BY <1>f, <1>p DEF Create, Update, Index, Extend, SaveSnapshot
<1>3. ~Read(r)
  <2>1. CASE row.exists \/ req[r].at = "sum"
    BY <1>0, <2>1, ReadMoves DEF Read, Lists, Updates
  <2>2. CASE ~(row.exists \/ req[r].at = "sum")
    BY <2>2, <1>f DEF Read
  <2> QED BY <2>1, <2>2
<1>4. ~Reread(r)
  BY <1>0, RereadMoves DEF Reread, Shaped, Lists, Updates
<1>5. ~LoadHistory(r) /\ ~Run(r)
  BY <1>m, LoadHistoryMoves, RunMoves
<1>6. ~ShareOrDelete(r)
  <2>1. ~Find(r)
    BY <1>m, FindMoves
  <2>2. ~SetShareToken(r)
    BY <1>f DEF SetShareToken
  <2>3. ~Respond(r)
    BY <1>g DEF Respond, Stages
  <2>4. ~(DeleteRow(r) \/ DeleteKey(r))
    BY <1>m, DeleteMoves
  <2> QED BY <2>1, <2>2, <2>3, <2>4 DEF ShareOrDelete
<1> QED BY <1>1, <1>2, <1>3, <1>4, <1>5, <1>6 DEF Turn

\* Only extensions and deletions change a list.
LEMMA ListsStay ==
  ASSUME NEW r \in Requests, Turn(r) \/ ShareOrDelete(r), ~Extend(r),
         ~DeleteRow(r), ~DeleteKey(r)
  PROVE UNCHANGED <<messages, events>>
BY DEF Turn, Ensure, Create, Index, Read, Reread, Update, LoadHistory, ReadList,
   Run, SaveSnapshot, ShareOrDelete, Find, SetShareToken, Respond,
   store, conversation

\* What an extension makes of its list and of the other.
LEMMA ExtendMoves ==
  ASSUME TypeOK, Shape, Orderly, ~met, NEW r \in Requests, Extend(r)
  PROVE /\ events' = IF req[r].at = "events" THEN Extended(r) ELSE events
        /\ messages' = IF req[r].at = "events" THEN messages ELSE Extended(r)
        /\ Extended(r) = Append(IF Redis THEN req[r].list ELSE Stored(r), Added(r))
        /\ Added(r) \in Message /\ Added(r).turn = r
        /\ Added(r).who = IF req[r].at = "ask" THEN "user" ELSE "assistant"
        /\ req[r].list \in Seq(Message) /\ Stored(r) \in Seq(Message)
        /\ req[r].at \in Lists /\ (Redis => Writes(r)) /\ r \in begun
        /\ "list" \notin lost' /\ Redis => req[r].list = Stored(r)
<1>0. /\ req \in [Requests -> Request] /\ req[r] \in Request
      /\ req[r].at \in Lists /\ req[r].phase = "set"
  BY DEF TypeOK, Extend
<1>1. row.exists
  BY <1>0, SessionIsThere DEF Lists, TurnStages
<1>2. r \in begun
  BY <1>0 DEF Orderly, Shape, Shaped, Fits, Active, Lists, TurnStages
<1>3. /\ Added(r) \in Message /\ Added(r).turn = r
      /\ Added(r).who = IF req[r].at = "ask" THEN "user" ELSE "assistant"
  BY AddedIsTyped DEF Added
<1>4. req[r].list \in Seq(Message) /\ Stored(r) \in Seq(Message)
  BY <1>0 DEF Request, TypeOK, Stored
<1>5. /\ events' = IF req[r].at = "events" THEN Extended(r) ELSE events
      /\ messages' = IF req[r].at = "events" THEN messages ELSE Extended(r)
      /\ "list" \notin lost' /\ Redis => req[r].list = Stored(r)
  BY <1>1 DEF Extend
<1> QED BY <1>0, <1>2, <1>3, <1>4, <1>5 DEF Extended, Writes

\* Nobody's extension changes what another has read of a turn that nobody
\* overlapped.
LEMMA OthersReadWell ==
  ASSUME TypeOK, Shape, Orderly, Apart, ~met, NEW r \in Requests, ReadWell(r),
         Turn(r) \/ ShareOrDelete(r), NEW p \in Requests, p # r, ReadWell(p)
  PROVE ReadWell(p)'
<1>1. req'[p] = req[p] /\ UNCHANGED <<backend, crossed>> /\ r \in Active
  BY StepOfOne
<1> SUFFICES ASSUME Writes(p)'
             PROVE /\ p \notin crossed => req[p].list = Stored(p)'
                   /\ \A q \in Requests \ (crossed \cup {p}) :
                        Alike(q, Stored(p)', req[p].list)
  BY <1>1 DEF ReadWell
<1>2. /\ Writes(p) /\ Redis /\ req[p].at \in Lists
      /\ p \notin crossed => req[p].list = Stored(p)
      /\ \A q \in Requests \ (crossed \cup {p}) : Alike(q, Stored(p), req[p].list)
  BY <1>1 DEF ReadWell, Writes, Redis
<1>3. p \in Active /\ req[p].kind \in Turns
  BY <1>2 DEF Lists, Active, Shape, Shaped, Fits, TurnStages
<1>4. ~DeleteRow(r) /\ ~DeleteKey(r)
  <2>1. DeleteRow(r) \/ DeleteKey(r) => req[r].at \in Deletes
    BY DEF DeleteRow, DeleteKey, Deletes
  <2>2. req[p].at \notin {"idle", "done", "cut"}
    BY <1>3 DEF Active
  <2> QED BY <2>1, <2>2, DeletionIsAlone
<1>5. CASE ~Extend(r)
  <2>1. Stored(p)' = Stored(p)
    BY <1>1, <1>4, <1>5, ListsStay DEF Stored
  <2> QED BY <1>2, <2>1
<1>6. CASE Extend(r)
  <2>0. /\ events' = IF req[r].at = "events" THEN Extended(r) ELSE events
        /\ messages' = IF req[r].at = "events" THEN messages ELSE Extended(r)
        /\ Extended(r) = Append(req[r].list, Added(r))
        /\ Added(r) \in Message /\ Added(r).turn = r
        /\ req[r].list \in Seq(Message)
        /\ req[r].at \in Lists /\ Writes(r)
    BY <1>2, <1>6, ExtendMoves
  <2>1. req[r].kind \in Turns
    BY <2>0 DEF Lists, Shape, Shaped, Fits, TurnStages
  <2>2. p \in crossed /\ r \in crossed
    BY <1>1, <1>3, <2>1 DEF Apart
  <2>3. ASSUME NEW q \in Requests \ (crossed \cup {p})
        PROVE Alike(q, Stored(p)', req[p].list)
    <3>1. q # r /\ Alike(q, Stored(p), req[p].list) /\ Alike(q, Stored(r), req[r].list)
      BY <1>2, <2>0, <2>2, <2>3 DEF ReadWell
    <3>2. CASE (req[p].at = "events") # (req[r].at = "events")
      <4>1. Stored(p)' = Stored(p)
        BY <1>1, <2>0, <3>2 DEF Stored
      <4> QED BY <3>1, <4>1
    <3>3. CASE (req[p].at = "events") = (req[r].at = "events")
      <4>1. Stored(p)' = Append(req[r].list, Added(r)) /\ Stored(p) = Stored(r)
        BY <1>1, <2>0, <3>3 DEF Stored
      <4>2. Alike(q, req[r].list, Stored(p)')
        BY <2>0, <2>3, <3>1, <4>1, OthersExtend
      <4>3. Alike(q, Stored(p), Stored(p)')
        BY <3>1, <4>1, <4>2, AlikeFacts
      <4>4. Alike(q, Stored(p)', Stored(p))
        BY <4>3, AlikeFacts
      <4> QED BY <3>1, <4>4, AlikeFacts
    <3> QED BY <3>2, <3>3
  <2> QED BY <2>2, <2>3
<1> QED BY <1>5, <1>6

LEMMA OwnReadWell ==
  ASSUME TypeOK, Shape, NEW r \in Requests, Turn(r) \/ ShareOrDelete(r),
         "unread" \notin lost'
  PROVE ReadWell(r)'
<1> SUFFICES ASSUME Writes(r)' PROVE ReadWell(r)'
  BY DEF ReadWell
<1>1. ReadList(r)
  BY WritesWhatWasRead
<1>2. req'[r].list = Stored(r) /\ req'[r].at = req[r].at
  BY <1>1, ReadListMoves
<1>3. Stored(r)' = Stored(r)
  BY <1>1, <1>2 DEF ReadList, store, conversation, Stored
<1> QED BY <1>2, <1>3, AlikeFacts DEF ReadWell

\* A new request reads nothing, and nobody's reading ends at it.
LEMMA ArriveReadWell ==
  ASSUME TypeOK, Shape, ~met', NEW r \in Requests, Arrive(r),
         NEW p \in Requests, ReadWell(p)
  PROVE ReadWell(p)'
<1>0. req \in [Requests -> Request]
  BY DEF TypeOK
<1>1. PICK kind \in AllKinds :
        /\ req'[r].at = FirstStage(kind)
        /\ crossed' = IF kind = "delete" THEN {}
                      ELSE IF kind \in Turns THEN crossed \cup Meeting(r)
                      ELSE crossed
        /\ met' = (met \/ \E q \in Active : "delete" \in {kind, req[q].kind})
  BY <1>0, ArriveMoves
<1>2. /\ \A q \in Requests : q # r => req'[q] = req[q]
      /\ UNCHANGED <<backend, messages, events>>
  BY <1>0, ArriveMoves
<1> SUFFICES ASSUME Writes(p)'
             PROVE /\ p \notin crossed' => req'[p].list = Stored(p)'
                   /\ \A q \in Requests \ (crossed' \cup {p}) :
                        Alike(q, Stored(p)', req'[p].list)
  BY DEF ReadWell
<1>3. FirstStage(kind) \notin Lists
  BY FirstStageFacts DEF AllKinds, Turns, Lists
<1>4. p # r /\ req'[p] = req[p] /\ req[p].at \in Lists
  BY <1>1, <1>2, <1>3 DEF Writes
<1>5. p \in Active /\ kind # "delete"
  BY <1>1, <1>4 DEF Active, Lists
<1>6. crossed \subseteq crossed'
  BY <1>1, <1>5
<1>7. Writes(p) /\ Stored(p)' = Stored(p)
  BY <1>2, <1>4 DEF Writes, Redis, Stored
<1> QED BY <1>4, <1>6, <1>7 DEF ReadWell

-----------------------------------------------------------------------------
(* What is kept, step by step.                                             *)

\* A turn extends a list by what the stage that follows counts on, and leaves
\* the other turns what they have.
LEMMA ExtendKept ==
  ASSUME NEW r \in Requests, TypeOK, Shape, Orderly, ~met, ReadWell(r), Extend(r),
         NEW t \in Requests \ Risked', Kept(t)
  PROVE Kept(t)'
<1>0. /\ req \in [Requests -> Request] /\ req[r] \in Request
      /\ messages \in Seq(Message) /\ events \in Seq(Message)
      /\ begun' = begun /\ crossed' = crossed
  BY DEF TypeOK, Extend
<1> DEFINE Base == IF Redis THEN req[r].list ELSE Stored(r)
<1>1. /\ events' = IF req[r].at = "events" THEN Append(Base, Added(r)) ELSE events
      /\ messages' = IF req[r].at = "events" THEN messages ELSE Append(Base, Added(r))
      /\ Added(r) \in Message /\ Added(r).turn = r
      /\ Added(r).who = IF req[r].at = "ask" THEN "user" ELSE "assistant"
      /\ Base \in Seq(Message) /\ req[r].at \in Lists
      /\ r \in begun
    BY ExtendMoves
\* What r read has all that t has.
<1>2. /\ t = r => Base = Stored(r)
      /\ t # r => Alike(t, Stored(r), Base)
  <2>1. CASE ~Redis
    BY <2>1, AlikeFacts
  <2>2. CASE Redis /\ t \in crossed
    <3>1. "list" \notin lost'
      BY <1>0, <2>2 DEF Risked
    <3>2. Base = Stored(r)
      BY <2>2, <3>1, ExtendMoves
    <3> QED BY <3>2, AlikeFacts
  <2>3. CASE Redis /\ t \notin crossed
    <3>1. Writes(r) /\ Base = req[r].list
      BY <2>3, ExtendMoves
    <3> QED BY <2>3, <3>1 DEF ReadWell
  <2> QED BY <2>1, <2>2, <2>3
<1>3. Stored(r) = IF req[r].at = "events" THEN events ELSE messages
  BY DEF Stored
<1> HIDE DEF Base
<1>6. Goto(r, Following(r)) /\ Following(r) \in Stages
  BY <1>0, FollowingFacts DEF Extend
<1>7. /\ \A q \in Requests : q # r => req'[q] = req[q]
      /\ req'[r].at = Following(r) /\ req'[r].said = req[r].said
  BY <1>0, <1>6, GotoMoves DEF Moved
<1>9. CASE t # r
  <2>1. Alike(t, messages, messages') /\ Alike(t, events, events')
    <3>1. Alike(t, Base, Append(Base, Added(r)))
      BY <1>1, <1>9, OthersExtend
    <3>2. Alike(t, Stored(r), Append(Base, Added(r)))
      BY <1>2, <1>9, <3>1, AlikeFacts
    <3> QED BY <1>1, <1>3, <3>2, AlikeFacts
  <2>2. /\ Of(t, messages) = {} => Of(t, messages') = {}
        /\ Of(t, events) = {} => Of(t, events') = {}
        /\ AsksOnly(t, messages) => AsksOnly(t, messages')
        /\ Answers(t, messages) => Answers(t, messages')
        /\ Single(t, events) => Single(t, events')
    BY <2>1 DEF Alike
  <2> QED BY <1>0, <1>7, <1>9, <2>2 DEF Kept
<1>10. CASE t = r /\ req[r].at = "ask"
  <2>1. req'[r].at \in {"start", "run"} /\ events' = events
    BY <1>0, <1>1, <1>7, <1>10, FollowingFacts
  <2>2. AsksOnly(r, messages') /\ Of(r, events) = {}
    BY <1>0, <1>1, <1>2, <1>3, <1>10, TurnExtends DEF Kept, Unasked
  <2> QED BY <1>10, <2>1, <2>2 DEF Kept, Unasked, Ran
<1>11. CASE t = r /\ req[r].at = "answer"
  <2>1. /\ "words" \in req[r].said /\ AsksOnly(r, messages) /\ Of(r, events) = {}
    BY <1>1, <1>11 DEF Kept
  <2>2. Answers(r, messages') /\ events' = events
    BY <1>0, <1>1, <1>2, <1>3, <1>11, <2>1, TurnExtends
  <2>3. \/ req'[r].at = "events" /\ "events" \in req[r].said
        \/ req'[r].at = "sum" /\ "events" \notin req[r].said
    <3>1. req'[r].at = ToSave(req[r].said \ {"words"})
      BY <1>7, <1>11 DEF Following
    <3> QED BY <3>1 DEF ToSave
  <2> QED BY <1>7, <1>11, <2>1, <2>2, <2>3 DEF Kept, Unasked, Ran
<1>12. CASE t = r /\ req[r].at = "events"
  <2>1. /\ "events" \in req[r].said /\ Of(r, events) = {}
        /\ IF "words" \in req[r].said THEN Answers(r, messages) ELSE AsksOnly(r, messages)
    BY <1>1, <1>12 DEF Kept, Ran
  <2>2. messages' = messages /\ events' = Append(events, Added(r))
    BY <1>1, <1>2, <1>3, <1>12
  <2>3. Single(r, events')
    <3>1. Of(r, events') = {Len(events) + 1}
      BY <1>0, <1>1, <2>1, <2>2, TurnExtends
    <3>2. Len(events) + 1 \in DOMAIN events'
      BY <1>0, <1>1, <2>2, OfExtended
    <3> QED BY <3>1, <3>2 DEF Single
  <2>4. req'[r].at \in {"snapshot", "sum"}
    BY <1>0, <1>7, <1>12, FollowingFacts
  <2> QED BY <1>7, <1>12, <2>1, <2>2, <2>3, <2>4 DEF Kept, Unasked, Ran
<1> QED BY <1>1, <1>9, <1>10, <1>11, <1>12 DEF Lists

LEMMA TurnKeepsKept ==
  ASSUME TypeOK, Shape, Orderly, ~met, NEW r \in Requests, Turn(r), ReadWell(r),
         NEW t \in Requests \ Risked', Kept(t)
  PROVE Kept(t)'
<1>0. /\ req \in [Requests -> Request] /\ req[r] \in Request
      /\ Shaped(r) /\ Fits(req[r].kind, req[r].at)
  BY DEF TypeOK, Shape, Shaped
<1>e. CASE Extend(r)
  BY <1>e, ExtendKept
<1>u. CASE ~Extend(r) /\ t # r
  <2>1. UNCHANGED <<messages, events>>
    <3>1. CASE DeleteRow(r) \/ DeleteKey(r)
      BY <3>1, <1>u DEF DeleteRow, DeleteKey, Deletes, Turn, Ensure, Create, Index,
         Read, Reread, Update, LoadHistory, ReadList, Run, SaveSnapshot,
         store, conversation
    <3>2. CASE ~(DeleteRow(r) \/ DeleteKey(r))
      BY <3>2, <1>u, ListsStay
    <3> QED BY <3>1, <3>2
  <2>2. req'[t] = req[t] /\ begun' = begun
    BY <1>u, StepOfOne
  <2> QED BY <2>1, <2>2, QuietKept DEF Same
\* r stays where the lists have the same of it.
<1>s. ASSUME t = r, UNCHANGED <<messages, events, begun>>, Same(req[r].at, req'[r].at),
             req'[r].said = req[r].said, req'[r].at # "ask"
      PROVE Kept(t)'
  BY <1>s, QuietKept
<1>f. ASSUME Goto(r, Following(r)), req[r].at \in Updates \cup {"create"}
      PROVE /\ req'[r].said = req[r].said /\ req'[r].at # "ask"
            /\ Same(req[r].at, req'[r].at)
  <2>1. /\ Following(r) \in Stages /\ Following(r) # "ask"
        /\ Same(req[r].at, Following(r))
    BY <1>f, <1>0, FollowingFacts, FollowingIsSame
  <2> QED BY <1>f, <1>0, <2>1, GotoMoves DEF Moved
<1> SUFFICES ASSUME t = r, ~Extend(r) PROVE Kept(t)'
  BY <1>e, <1>u
<1>1. CASE Ensure(r)
  <2>1. PICK stage \in {"stamp", "create"} : Goto(r, stage)
    BY <1>1 DEF Ensure
  <2>2. Moved(r, stage) /\ req'[r].said = req[r].said
    BY <1>0, <2>1, GotoMoves DEF Stages, Updates
  <2>3. Same(req[r].at, req'[r].at) /\ req'[r].at # "ask"
    BY <1>1, <2>2 DEF Ensure, Moved, Same, Unasked
  <2> QED BY <1>1, <1>s, <2>2, <2>3 DEF Ensure, Moved, store, conversation, history
<1>2. CASE Create(r)
  <2>1. CASE Redis
    BY <1>2, <2>1, <1>0, <1>s, PhaseMoves DEF Create, Phases, conversation, Same
  <2>2. CASE ~Redis
    BY <1>2, <2>2, <1>f, <1>s DEF Create, conversation
  <2> QED BY <2>1, <2>2
<1>3. CASE Index(r)
  <2>1. req[r].at \in Updates \cup {"create"}
    BY <1>3, <1>0 DEF Index, Shaped
  <2> QED BY <1>3, <2>1, <1>f, <1>s DEF Index, conversation, history
<1>4. CASE Read(r)
  <2>1. CASE row.exists \/ req[r].at = "sum"
    BY <1>4, <2>1, <1>s, ReadMoves
    DEF Read, Updates, store, conversation, history, Same
  <2>2. CASE ~(row.exists \/ req[r].at = "sum")
    BY <1>4, <2>2, <1>f, <1>s DEF Read, store, conversation, history
  <2> QED BY <2>1, <2>2
<1>5. CASE Reread(r)
  <2>1. req[r].at \in Updates
    BY <1>5, <1>0 DEF Reread, Shaped
  <2> QED BY <1>5, <2>1, <1>s, RereadMoves
      DEF Reread, Updates, store, conversation, history, Same
<1>6. CASE Update(r)
  <2>1. req[r].at \in Updates /\ UNCHANGED <<messages, events, begun>>
    BY <1>6 DEF Update, conversation
  <2>2. CASE Redis
    BY <1>6, <2>1, <2>2, <1>0, <1>s, PhaseMoves DEF Update, Updates, Phases, Same
  <2>3. CASE ~Redis
    BY <1>6, <2>1, <2>3, <1>f, <1>s DEF Update
  <2> QED BY <2>2, <2>3
<1>7. CASE LoadHistory(r)
  <2>1. /\ req[r].at = "history" /\ Moved(r, "ask") /\ req'[r].list \in {messages, <<>>}
        /\ UNCHANGED <<messages, events, begun>>
    BY <1>7, LoadHistoryMoves DEF LoadHistory, store, conversation, history
  <2>2. Of(r, messages) = {} /\ Of(r, events) = {} /\ Of(r, <<>>) = {}
    BY <1>0, <2>1 DEF Kept, Unasked, Of
  <2> QED BY <2>1, <2>2 DEF Moved, Kept, Unasked, Ran
<1>8. CASE ReadList(r)
  <2>1. /\ req'[r].at = req[r].at /\ req'[r].said = req[r].said
        /\ req'[r].list \in {Stored(r), <<>>}
    BY <1>8, ReadListMoves
  <2>l. req[r].at = "ask" => req'[r].list \in {messages, <<>>}
    BY <2>1 DEF Stored
  <2>u. UNCHANGED <<messages, events, begun>>
    BY <1>8 DEF ReadList, store, conversation
  <2> QED BY <1>0, <2>1, <2>l, <2>u, QuietKept DEF Same
<1>9. CASE Run(r)
  <2>1. UNCHANGED <<messages, events, begun>>
    BY <1>9 DEF Run, store, conversation, history
  <2> QED BY <1>0, <1>9, <2>1, RunKept
<1>10. CASE SaveSnapshot(r)
  <2>1. req[r].at = "snapshot" /\ UNCHANGED <<messages, events, begun>>
    BY <1>10 DEF SaveSnapshot
  <2>2. Following(r) \in {"sum", "done"} /\ Following(r) \in Stages
    BY <1>0, <2>1, FollowingFacts
  <2>3. Moved(r, Following(r)) /\ req'[r].said = req[r].said
    BY <1>0, <1>10, <2>2, GotoMoves DEF SaveSnapshot
  <2> QED BY <1>s, <2>1, <2>2, <2>3 DEF Moved, Same, Ran
<1> QED BY <1>1, <1>2, <1>3, <1>4, <1>5, <1>6, <1>7, <1>8, <1>9, <1>10 DEF Turn

LEMMA OthersKeepKept ==
  ASSUME TypeOK, Shape, Orderly, ~met, ~met', NEW r \in Requests,
         Arrive(r) \/ ShareOrDelete(r), NEW t \in Requests, Kept(t)
  PROVE Kept(t)'
<1>0. /\ req \in [Requests -> Request]
      /\ Shaped(r) /\ Fits(req[r].kind, req[r].at)
  BY DEF TypeOK, Shape, Shaped
\* r is no turn.
<1>s. ASSUME UNCHANGED <<messages, events, begun>>, NEW stage \in Stages, Moved(r, stage),
             req[r].at \in Sharing \cup {"find"},
             stage \in Sharing \cup {"done"}
      PROVE Kept(t)'
  <2>1. r \notin begun
    BY <1>0, <1>s DEF Shaped, Fits, Turns, Sharing
  <2>2. Kept(r)'
    BY <1>s, <2>1, NotBegunKept DEF Moved, Sharing, Unasked
  <2>3. ASSUME t # r
        PROVE Kept(t)'
    <3>1. req'[t] = req[t]
      BY <1>s, <2>3 DEF Moved
    <3> QED BY <1>s, <3>1, QuietKept DEF Same
  <2> QED BY <2>2, <2>3
<1>1. CASE Arrive(r)
  <2>1. PICK kind \in AllKinds :
          /\ req'[r].at = FirstStage(kind)
          /\ begun' = IF kind = "delete" THEN {}
                      ELSE IF kind \in Turns THEN begun \cup {r} ELSE begun
    BY <1>1, <1>0, ArriveMoves
  <2>2. /\ req[r].at = "idle" /\ req'[r].said = {}
        /\ \A q \in Requests : q # r => req'[q] = req[q]
        /\ UNCHANGED <<messages, events>>
    BY <1>1, <1>0, ArriveMoves
  <2>3. r \notin begun
    BY <1>0, <2>2 DEF Shaped
  <2>4. CASE t = r
    <3>1. CASE kind \in Turns
      <4>1. req'[r].at = "ensure"
        BY <2>1, <3>1, FirstStageFacts
      <4> QED BY <2>2, <2>4, <4>1 DEF Kept, Unasked, Ran
    <3>2. CASE kind \notin Turns
      <4>1. req'[r].at \in {"find", "snapshot", "delRow"} /\ r \notin begun'
        BY <2>1, <2>3, <3>2, FirstStageFacts DEF AllKinds, Turns
      <4> QED BY <2>4, <4>1, NotBegunKept DEF Unasked
    <3> QED BY <3>1, <3>2
  <2>5. CASE t # r
    <3>1. req'[t] = req[t] /\ (t \in begun' => t \in begun)
      BY <2>1, <2>2, <2>5
    <3> QED BY <2>2, <3>1 DEF Kept
  <2> QED BY <2>4, <2>5
<1>2. CASE Find(r)
  <2>1. PICK stage \in {"done", "respond", "token"} : Moved(r, stage)
    BY <1>2, FindMoves
  <2>2. stage \in Stages /\ stage \in Sharing \cup {"done"}
    BY DEF Stages, Sharing
  <2> QED BY <1>2, <1>s, <2>1, <2>2 DEF Find, store, conversation, history
<1>3. CASE SetShareToken(r)
  <2>1. req[r].at = "token" /\ UNCHANGED <<messages, events, begun>>
    BY <1>3 DEF SetShareToken, conversation
  <2>2. Following(r) = "link" /\ "link" \in Stages
    BY <1>0, <2>1, FollowingFacts DEF Stages, Updates
  <2>3. Moved(r, "link")
    BY <1>0, <1>3, <2>2, GotoMoves DEF SetShareToken
  <2> QED BY <1>s, <2>1, <2>2, <2>3 DEF Sharing
<1>4. CASE Respond(r)
  <2>1. Moved(r, "done") /\ "done" \in Stages
    BY <1>4, <1>0, GotoMoves DEF Respond, Stages
  <2> QED BY <1>4, <1>s, <2>1 DEF Respond, store, conversation, Sharing
<1>5. CASE DeleteRow(r) \/ DeleteKey(r)
  <2>1. req[r].at \in Deletes /\ UNCHANGED history
    BY <1>5, DeleteMoves
  <2>2. PICK stage \in Deletes \cup {"done"} : Moved(r, stage)
    BY <1>5, DeleteMoves
  <2>3. begun' = {}
    BY <2>1, DeletionIsAlone DEF history
  <2>4. messages' \in {messages, <<>>} /\ events' \in {events, <<>>}
    BY <1>5 DEF DeleteRow, DeleteKey
  <2>5. Kept(r)'
    BY <2>2, <2>3, NotBegunKept DEF Moved, Deletes, Unasked
  <2>6. ASSUME t # r
        PROVE Kept(t)'
    <3>1. req'[t] = req[t] /\ req[t].at \in {"idle", "done", "cut"}
      BY <2>1, <2>2, <2>6, DeletionIsAlone DEF Moved
    <3>2. /\ Of(t, messages) = {} => Of(t, messages') = {}
          /\ Of(t, events) = {} => Of(t, events') = {}
      BY <2>4 DEF Of
    <3> QED BY <2>3, <3>1, <3>2 DEF Kept, Unasked
  <2> QED BY <2>5, <2>6
<1> QED BY <1>1, <1>2, <1>3, <1>4, <1>5 DEF ShareOrDelete

LEMMA KeptInit == Init => KeptInv
<1> SUFFICES ASSUME Init, NEW t \in Requests PROVE ReadWell(t) /\ Kept(t)
  BY DEF KeptInv
<1>1. ReadWell(t)
  BY InitFacts DEF ReadWell, Writes
<1>2. CASE t \notin begun
  <2>1. req[t].at = "idle" /\ Of(t, messages) = {} /\ Of(t, events) = {}
    BY <1>2, InitFacts
  <2>2. Kept(t)
    BY <1>2, <2>1 DEF Kept
  <2> QED BY <1>1, <2>2
<1>3. CASE t \in begun
  <2>1. req[t].at = "done" /\ req[t].said = {"words", "events"}
    BY <1>3, InitFacts
  <2> DEFINE q == [turn |-> t, who |-> "user"]
             a == [turn |-> t, who |-> "assistant"]
  <2>2. /\ q.turn = t /\ q.who = "user" /\ a.turn = t /\ a.who = "assistant"
        /\ messages = <<q, a>> /\ events = <<a>>
    BY <1>3, InitFacts
  <2> HIDE DEF q, a
  <2>3. /\ DOMAIN messages = {1, 2} /\ DOMAIN events = {1}
        /\ messages[1] = q /\ messages[2] = a /\ events[1] = a
    BY <2>2
  <2>4. Of(t, messages) = {1, 2} /\ Of(t, events) = {1}
    BY <2>2, <2>3 DEF Of
  <2>5. Answers(t, messages) /\ Single(t, events)
    BY <2>2, <2>3, <2>4 DEF Answers, Single
  <2>6. Kept(t)
    BY <2>1, <2>5 DEF Kept, Unasked, Ran
  <2> QED BY <1>1, <2>6
<1> QED BY <1>2, <1>3

\* A turn that is at risk stays so, until a deletion.
LEMMA RiskStays ==
  ASSUME TypeOK, Shape, Orderly, Apart, [Next]_vars, ~met', NEW t \in Requests \ Risked'
  PROVE t \notin Risked \/ (t \notin begun' /\ req'[t].at \in {"done", "cut"})
<1>h. ~met
  <2>1. Unharmed({})' => Unharmed({})
    BY HarmStays
  <2> QED BY <2>1 DEF Unharmed
<1>1. lost \subseteq lost'
  <2>1. ASSUME NEW how \in lost PROVE how \in lost'
    <3>1. Unharmed({how})' => Unharmed({how})
      BY HarmStays
    <3> QED BY <2>1, <3>1 DEF Unharmed
  <2> QED BY <2>1
<1>2. CASE crossed \subseteq crossed'
  BY <1>1, <1>2 DEF Risked
<1>3. CASE ~(crossed \subseteq crossed')
  <2>1. PICK r \in Requests : Arrive(r)
    <3>1. ~UNCHANGED vars /\ ~Restart
      BY <1>3, RestartMoves DEF vars, history
    <3>2. \A r \in Requests : ~(Turn(r) \/ ShareOrDelete(r))
      BY <1>3, StepOfOne
    <3> QED BY <3>1, <3>2 DEF Next
  <2>0. req \in [Requests -> Request]
    BY DEF TypeOK
  <2>2. /\ begun' = {} /\ Active = {} /\ req[r].at = "idle"
        /\ \A q \in Requests : q # r => req'[q] = req[q]
    <3>1. PICK kind \in AllKinds :
            /\ crossed' = IF kind = "delete" THEN {}
                          ELSE IF kind \in Turns THEN crossed \cup Meeting(r)
                          ELSE crossed
            /\ begun' = IF kind = "delete" THEN {}
                        ELSE IF kind \in Turns THEN begun \cup {r} ELSE begun
            /\ met' = (met \/ \E q \in Active : "delete" \in {kind, req[q].kind})
      BY <2>0, <2>1, ArriveMoves
    <3>2. kind = "delete"
      BY <1>3, <3>1
    <3> QED BY <2>0, <2>1, <3>1, <3>2, ArriveMoves
  <2>3. CASE t \in Risked
    <3>1. t \in begun
      BY <1>h, <2>3 DEF Risked, Apart
    <3>2. req[t].at # "idle"
      BY <3>1 DEF Shape, Shaped
    <3>3. t # r /\ req'[t].at \in {"done", "cut"}
      BY <2>2, <3>2 DEF Active
    <3> QED BY <2>2, <3>3
  <2> QED BY <2>3
<1> QED BY <1>2, <1>3

LEMMA KeptNext ==
  TypeOK /\ Shape /\ Orderly /\ Apart /\ KeptInv /\ [Next]_vars => KeptInv'
<1> SUFFICES ASSUME TypeOK, Shape, Orderly, Apart, KeptInv, [Next]_vars,
                    Unharmed({"unread"})'
             PROVE /\ \A p \in Requests : ReadWell(p)'
                   /\ \A t \in Requests \ Risked' : Kept(t)'
  BY DEF KeptInv
<1>1. /\ \A p \in Requests : ReadWell(p)
      /\ \A t \in Requests \ Risked : Kept(t)
      /\ ~met /\ ~met' /\ "unread" \notin lost'
  BY HarmStays DEF KeptInv, Unharmed
<1>2. CASE UNCHANGED vars
  BY <1>1, <1>2 DEF vars, store, conversation, history, Kept, ReadWell, Writes, Stored,
     Redis, Risked
<1>3. ASSUME NEW p \in Requests
      PROVE ReadWell(p)'
  <2>1. CASE UNCHANGED vars
    BY <1>2, <1>3, <2>1
  <2>2. CASE Restart
    <3>1. req'[p].at \notin Lists
      BY <2>2, RestartMoves DEF Active, Lists
    <3> QED BY <3>1 DEF ReadWell, Writes
  <2>3. ASSUME NEW r \in Requests, Turn(r) \/ ShareOrDelete(r)
        PROVE ReadWell(p)'
    <3>1. CASE p = r
      BY <1>1, <2>3, <3>1, OwnReadWell
    <3>2. CASE p # r
      BY <1>1, <1>3, <2>3, <3>2, OthersReadWell
    <3> QED BY <3>1, <3>2
  <2>4. ASSUME NEW r \in Requests, Arrive(r)
        PROVE ReadWell(p)'
    BY <1>1, <1>3, <2>4, ArriveReadWell
  <2> QED BY <2>1, <2>2, <2>3, <2>4 DEF Next
<1>4. ASSUME NEW t \in Requests \ Risked'
      PROVE Kept(t)'
  <2>1. CASE t \in Risked
    <3>1. t \notin begun' /\ req'[t].at \in {"done", "cut"}
      BY <1>1, <1>4, <2>1, RiskStays
    <3> QED BY <3>1, NotBegunKept DEF Unasked
  <2>2. CASE t \notin Risked
    <3>0. Kept(t)
      BY <1>1, <1>4, <2>2
    <3>1. CASE UNCHANGED vars
      BY <1>2, <1>4, <3>1
    <3>2. CASE Restart
      <4>1. UNCHANGED <<messages, events, begun>>
        BY <3>2, RestartMoves
      <4>2. req'[t] = req[t] \/ req'[t].at = "cut"
        BY <1>4, <3>2, RestartMoves
      <4> QED BY <3>0, <4>1, <4>2 DEF Kept, Unasked, Ran
    <3>3. ASSUME NEW r \in Requests, Turn(r)
          PROVE Kept(t)'
      BY <1>1, <1>4, <3>0, <3>3, TurnKeepsKept
    <3>4. ASSUME NEW r \in Requests, Arrive(r) \/ ShareOrDelete(r)
          PROVE Kept(t)'
      BY <1>1, <1>4, <3>0, <3>4, OthersKeepKept
    <3> QED BY <3>1, <3>2, <3>3, <3>4 DEF Next
  <2> QED BY <2>1, <2>2
<1> QED BY <1>3, <1>4

-----------------------------------------------------------------------------
(* What is promised.                                                       *)

\* Unless reading a list of Redis failed, a turn that ended left its question,
\* after it its answer, each once, and its events, if no turn overlapped it or
\* no two extensions of a list crossed.
THEOREM TurnsAreKept == Spec => []TurnsKept
<1>1. TypeOK /\ KeptInv => TurnsKept
  <2> SUFFICES ASSUME NEW t \in begun, Kept(t)
               PROVE /\ req[t].at = "done" =>
                          /\ IF "words" \in req[t].said THEN Answers(t, messages)
                             ELSE AsksOnly(t, messages)
                          /\ IF "events" \in req[t].said
                             THEN \E e \in DOMAIN events : Of(t, events) = {e}
                             ELSE Of(t, events) = {}
                     /\ req[t].at = "ask" => Of(t, req[t].list) = {}
    BY DEF KeptInv, TurnsKept, TypeOK, Risked
  <2> QED BY DEF Kept, Ran, Single
<1> QED BY <1>1, TypeInit, TypeNext, ShapeInit, ShapeNext, OrderlyInit, OrderlyNext,
           ApartInit, ApartNext, KeptInit, KeptNext, PTL DEF Spec

\* As long as nobody writes older metadata back, every answered turn that
\* ended is counted, and a session is running only while a task is.
THEOREM TurnsAreAccounted == Spec => []Accounted
<1>1. TypeOK /\ CountInv => Accounted
  <2> SUFFICES ASSUME TypeOK, Counting PROVE
        /\ \A t \in begun : (req[t].at = "done" /\ "events" \in req[t].said) =>
             t \in row.meta.counted
        /\ row.meta.status = "running" =>
             crashed \/ \E t \in Active : req[t].kind = "task"
    BY DEF CountInv, Accounted
  <2> QED BY DEF Counting, Counted, Unmarked
<1> QED BY <1>1, TypeInit, TypeNext, ShapeInit, ShapeNext, OrderlyInit, OrderlyNext,
           CountInit, CountNext, PTL DEF Spec

\* A link that was handed out leads to the session, which keeps it, as long as
\* no session is created or changed between somebody's reading and writing.
THEOREM LinksAreKept == Spec => []LinksLast
<1>1. LinkInv => LinksLast
  BY DEF LinkInv, LinksLast, Linking
<1> QED BY <1>1, TypeInit, TypeNext, ShapeInit, ShapeNext, OrderlyInit, OrderlyNext,
           LinkInit, LinkNext, PTL DEF Spec

\* At rest, what is stored belongs to a session that its user can list.
THEOREM NothingIsLeft == Spec => []NothingStray
<1>1. TypeOK /\ Orderly /\ StrayInv => NothingStray
  <2> SUFFICES ASSUME TypeOK, Orderly, Cascades, ~crashed /\ Unharmed({"orphan"}) => Tidy
               PROVE NothingStray
    BY DEF StrayInv
  <2>1. (~Redis /\ ~row.exists) => Nothing
    BY DEF Cascades
  <2>2. ASSUME Active = {}, ~crashed, Unharmed({"orphan"})
        PROVE IF row.exists THEN row.owned /\ indexed = Redis ELSE Nothing /\ ~indexed
    <3>1. \A q \in Requests : req[q].at \notin Deletes
      BY <2>2 DEF Active, Deletes
    <3>2. row.exists => row.owned
      BY <2>2 DEF Orderly, Unharmed
    <3>3. row.exists => (indexed <=> Redis)
      BY <2>2 DEF Tidy, Cascades
    <3>4. indexed \in BOOLEAN /\ Redis \in BOOLEAN
      BY DEF TypeOK, Redis
    <3>5. row.exists => indexed = Redis
      BY <3>3, <3>4
    <3>6. ~row.exists => Nothing /\ ~indexed
      BY <2>2, <3>1 DEF Tidy
    <3> QED BY <3>2, <3>5, <3>6
  <2> QED BY <2>1, <2>2 DEF NothingStray, Nothing
<1> QED BY <1>1, TypeInit, TypeNext, ShapeInit, ShapeNext, OrderlyInit, OrderlyNext,
           StrayInit, StrayNext, PTL DEF Spec
=============================================================================
