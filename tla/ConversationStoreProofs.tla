---------------------- MODULE ConversationStoreProofs ----------------------
(***************************************************************************)
(* Theorems about ConversationStore, for every capacity of the storage and *)
(* any number of sessions, turns and clicks.                               *)
(***************************************************************************)
EXTENDS ConversationStore, SequenceTheorems, TLAPS

-----------------------------------------------------------------------------
(* Lists of records. *)

\* No two records of a list have one id.
OneIdEach(list) == \A i, j \in DOMAIN list : list[i].id = list[j].id => i = j

IdsOf(list) == {list[i].id : i \in DOMAIN list}

\* The front of a list with a new record in front: what saving and importing store.
LEMMA FrontOfNew ==
  ASSUME NEW list \in Seq(Records), NEW r \in Records, NEW n \in Nat,
         n <= Len(list) + 1, OneIdEach(list), r.id \notin IdsOf(list)
  PROVE  LET front == SubSeq(<<r>> \o list, 1, n)
         IN  /\ front \in Seq(Records) /\ Len(front) = n
             /\ OneIdEach(front)
             /\ \A j \in DOMAIN front : front[j] = r \/ \E i \in DOMAIN list : front[j] = list[i]
<1> DEFINE all == <<r>> \o list
           front == SubSeq(all, 1, n)
<1>1. /\ all \in Seq(Records) /\ Len(all) = Len(list) + 1
      /\ all[1] = r /\ \A i \in 2 .. Len(all) : all[i] = list[i - 1]
  OBVIOUS
<1> HIDE DEF all
<1>2. front \in Seq(Records) /\ Len(front) = n /\ \A j \in 1 .. n : front[j] = all[j]
  BY <1>1
<1>3. ASSUME NEW j \in DOMAIN front
      PROVE  front[j] = r \/ \E i \in DOMAIN list : front[j] = list[i]
  <2>1. j \in 1 .. n /\ front[j] = all[j]
    BY <1>2
  <2>2. CASE j = 1
    BY <1>1, <2>1, <2>2
  <2>3. CASE j # 1
    <3>1. j - 1 \in DOMAIN list /\ front[j] = list[j - 1]
      BY <1>1, <2>1, <2>3
    <3> QED BY <3>1
  <2> QED BY <2>2, <2>3
<1>4. OneIdEach(front)
  <2> SUFFICES ASSUME NEW i \in DOMAIN front, NEW j \in DOMAIN front, front[i].id = front[j].id
               PROVE  i = j
    BY DEF OneIdEach
  <2>1. i \in 1 .. n /\ j \in 1 .. n /\ front[i] = all[i] /\ front[j] = all[j]
    BY <1>2
  <2>2. \A k \in 2 .. Len(all) : k - 1 \in DOMAIN list /\ all[k].id = list[k - 1].id
    BY <1>1
  <2>3. \A k \in 2 .. Len(all) : all[k].id # r.id
    BY <2>2 DEF IdsOf
  <2>4. CASE i = 1 \/ j = 1
    BY <1>1, <2>1, <2>3, <2>4
  <2>5. CASE i # 1 /\ j # 1
    <3>1. i - 1 = j - 1
      BY <1>1, <2>1, <2>2, <2>5 DEF OneIdEach
    <3> QED BY <2>1, <3>1
  <2> QED BY <2>4, <2>5
<1> HIDE DEF front
<1>5. front = SubSeq(<<r>> \o list, 1, n)
  BY DEF front, all
<1> QED BY <1>2, <1>3, <1>4, <1>5

\* A list without one of its records.
LEMMA Removed ==
  ASSUME NEW list \in Seq(Records), NEW k \in DOMAIN list, OneIdEach(list)
  PROVE  LET rest == RemoveAt(list, k)
         IN  /\ rest \in Seq(Records) /\ Len(rest) <= Len(list)
             /\ OneIdEach(rest)
             /\ \A j \in DOMAIN rest : \E i \in DOMAIN list : i # k /\ rest[j] = list[i]
             /\ \A i \in DOMAIN list : i # k => \E j \in DOMAIN rest : rest[j] = list[i]
<1> DEFINE rest == RemoveAt(list, k)
           at(j) == IF j < k THEN j ELSE j + 1
<1>1. k \in 1 .. Len(list) /\ Len(list) \in Nat
  OBVIOUS
<1>2. /\ rest \in Seq(Records) /\ Len(rest) = Len(list) - 1
      /\ \A j \in 1 .. Len(list) - 1 : rest[j] = list[at(j)]
  <2> DEFINE front == SubSeq(list, 1, k - 1)
             back == SubSeq(list, k + 1, Len(list))
  <2>1. front \in Seq(Records) /\ Len(front) = k - 1 /\ \A j \in 1 .. k - 1 : front[j] = list[j]
    BY <1>1
  <2>2. /\ back \in Seq(Records) /\ Len(back) = Len(list) - k
        /\ \A j \in 1 .. Len(list) - k : back[j] = list[j + k]
    BY <1>1
  <2>3. rest = front \o back
    BY DEF RemoveAt
  <2> HIDE DEF front, back, rest
  <2>4. rest \in Seq(Records) /\ Len(rest) = Len(list) - 1
    BY <1>1, <2>1, <2>2, <2>3
  <2>5. ASSUME NEW j \in 1 .. Len(list) - 1
        PROVE  rest[j] = list[at(j)]
    <3>1. CASE j < k
      BY <1>1, <2>1, <2>2, <2>3, <3>1
    <3>2. CASE ~ j < k
      <4>1. rest[j] = back[j - (k - 1)]
        <5>1. j \in 1 .. Len(front) + Len(back) /\ ~ j <= Len(front)
          BY <1>1, <2>1, <2>2, <3>2
        <5>2. (front \o back)[j] = back[j - Len(front)]
          BY <2>1, <2>2, <5>1, ConcatProperties
        <5> QED BY <2>1, <2>3, <5>2
      <4>2. back[j - (k - 1)] = list[j + 1]
        BY <1>1, <2>2, <3>2
      <4> QED BY <3>2, <4>1, <4>2
    <3> QED BY <3>1, <3>2
  <2> QED BY <2>4, <2>5
<1>3. DOMAIN rest = 1 .. Len(list) - 1
  BY <1>2
<1>4. ASSUME NEW j \in DOMAIN rest
      PROVE  at(j) \in DOMAIN list /\ at(j) # k /\ rest[j] = list[at(j)]
  BY <1>1, <1>2, <1>3
<1> HIDE DEF rest
<1>5. OneIdEach(rest)
  <2> SUFFICES ASSUME NEW i \in DOMAIN rest, NEW j \in DOMAIN rest, rest[i].id = rest[j].id
               PROVE  i = j
    BY DEF OneIdEach
  <2>1. at(i) = at(j)
    <3> HIDE DEF at
    <3> QED BY <1>4 DEF OneIdEach
  <2> QED BY <1>1, <1>3, <2>1
<1>6. \A j \in DOMAIN rest : \E i \in DOMAIN list : i # k /\ rest[j] = list[i]
  BY <1>4
<1>7. ASSUME NEW i \in DOMAIN list, i # k
      PROVE  \E j \in DOMAIN rest : rest[j] = list[i]
  <2> DEFINE j == IF i < k THEN i ELSE i - 1
  <2>1. j \in DOMAIN rest /\ at(j) = i
    BY <1>1, <1>3, <1>7
  <2> QED BY <1>4, <2>1
<1>8. Len(rest) <= Len(list)
  BY <1>1, <1>2
<1> QED BY <1>2, <1>5, <1>6, <1>7, <1>8 DEF rest

\* A list in which one record has been stored again.
Stored(list, k, c) == [list EXCEPT ![k].has = c]

LEMMA StoredAgain ==
  ASSUME NEW list \in Seq(Records), NEW k \in DOMAIN list, NEW c \in Contents, OneIdEach(list)
  PROVE  LET new == Stored(list, k, c)
         IN  /\ new \in Seq(Records) /\ Len(new) = Len(list) /\ DOMAIN new = DOMAIN list
             /\ OneIdEach(new)
             /\ \A j \in DOMAIN list : new[j].id = list[j].id
             /\ new[k].has = c
             /\ \A j \in DOMAIN list : j # k => new[j] = list[j]
<1> DEFINE new == [list EXCEPT ![k].has = c]
<1>1. list \in [1 .. Len(list) -> Records] /\ Len(list) \in Nat /\ DOMAIN list = 1 .. Len(list)
  OBVIOUS
<1>2. [list[k] EXCEPT !.has = c] \in Records
  BY <1>1 DEF Records
<1>3. /\ new \in [1 .. Len(list) -> Records]
      /\ \A j \in DOMAIN list : new[j] = IF j = k THEN [list[k] EXCEPT !.has = c] ELSE list[j]
  BY <1>1, <1>2
<1>4. new \in Seq(Records) /\ Len(new) = Len(list) /\ DOMAIN new = DOMAIN list
  BY <1>1, <1>3
<1>5. \A j \in DOMAIN list : new[j].id = list[j].id /\ (j # k => new[j] = list[j])
  BY <1>1, <1>3 DEF Records
<1>6. new[k].has = c
  BY <1>1, <1>3 DEF Records
<1> HIDE DEF new
<1>7. OneIdEach(new)
  BY <1>4, <1>5 DEF OneIdEach
<1> QED BY <1>4, <1>5, <1>6, <1>7 DEF new, Stored

-----------------------------------------------------------------------------
(* Types and ids. *)

\* Ids of records are counted upwards; what the panel opens from the server is a
\* session.
Named ==
  /\ OneIdEach(local)
  /\ \A i \in DOMAIN local : local[i].id <= created
  /\ conv.in = "local" => conv.n <= created
  /\ \A id \in opening : id.in = "server" => id.n \in Sessions

Shape == TypeOK /\ Named

LEMMA Facts ==
  ASSUME Shape
  PROVE  /\ local \in Seq(Records) /\ Len(local) \in Nat /\ DOMAIN local = 1 .. Len(local)
         /\ \A i \in DOMAIN local : local[i] \in Records
         /\ created \in Nat /\ page \in Contents /\ OneIdEach(local)
         /\ \A i \in DOMAIN local : local[i].id <= created
         /\ created + 1 \notin IdsOf(local) /\ LocalIds = IdsOf(local)
<1>1. local \in Seq(Records) /\ created \in Nat /\ page \in Contents
  BY DEF Shape, TypeOK
<1>2. OneIdEach(local) /\ \A i \in DOMAIN local : local[i].id <= created
  BY DEF Shape, Named
<1>3. \A i \in DOMAIN local : local[i] \in Records
  BY <1>1
<1>4. created + 1 \notin IdsOf(local)
  BY <1>1, <1>2, <1>3 DEF IdsOf, Records
<1> QED BY <1>1, <1>2, <1>3, <1>4 DEF LocalIds, IdsOf

\* The place of a record that is there.
LEMMA Found ==
  ASSUME Shape, NEW id \in LocalIds
  PROVE  /\ RecordOf(id) \in DOMAIN local /\ local[RecordOf(id)].id = id
         /\ \A i \in DOMAIN local : local[i].id = id => i = RecordOf(id)
<1>1. \E i \in DOMAIN local : local[i].id = id
  BY DEF LocalIds
<1>2. RecordOf(id) \in DOMAIN local /\ local[RecordOf(id)].id = id
  BY <1>1 DEF RecordOf
<1> QED BY <1>2 DEF Shape, Named, OneIdEach

\* What stays of a list with a new record in front when it is cut.
LEMMA CapMoves ==
  ASSUME Shape, NEW r \in Records, r.id = created + 1
  PROVE  LET list == Capped(<<r>> \o local)
         IN  /\ list \in Seq(Records) /\ Len(list) <= Cap /\ OneIdEach(list)
             /\ \A j \in DOMAIN list : list[j] = r \/ \E i \in DOMAIN local : list[j] = local[i]
<1> DEFINE all == <<r>> \o local
           n == IF Len(all) > Cap THEN Cap ELSE Len(all)
<1>1. /\ local \in Seq(Records) /\ Len(local) \in Nat
      /\ OneIdEach(local) /\ r.id \notin IdsOf(local)
  BY Facts
<1>2. all \in Seq(Records) /\ Len(all) = Len(local) + 1
  BY <1>1
<1>3. Cap \in Nat
  BY StoreAssumption
<1>4. n \in Nat /\ n <= Len(local) + 1 /\ n <= Cap
  BY <1>1, <1>2, <1>3
<1>5. Capped(all) = SubSeq(all, 1, n)
  BY <1>2, <1>3 DEF Capped
<1> HIDE DEF n
<1> DEFINE front == SubSeq(all, 1, n)
<1>6. /\ front \in Seq(Records) /\ Len(front) = n
      /\ OneIdEach(front)
      /\ \A j \in DOMAIN front : front[j] = r \/ \E i \in DOMAIN local : front[j] = local[i]
  BY <1>1, <1>4, FrontOfNew
<1>7. front = Capped(<<r>> \o local)
  BY <1>5
<1> HIDE DEF front
<1> QED BY <1>3, <1>4, <1>6, <1>7

\* What saving a new record stores.
LEMMA SaveMoves ==
  ASSUME Shape, NEW r \in Records, r.id = created + 1, NEW save \in Saves(<<r>> \o local)
  PROVE  /\ save.local \in Seq(Records) /\ Len(save.local) <= Cap /\ OneIdEach(save.local)
         /\ \A j \in DOMAIN save.local :
              save.local[j] = r \/ \E i \in DOMAIN local : save.local[j] = local[i]
         /\ save.throws => save.local = local
<1> DEFINE all == <<r>> \o local
<1>1. /\ local \in Seq(Records) /\ Len(local) \in Nat /\ Len(local) <= Cap
      /\ OneIdEach(local) /\ r.id \notin IdsOf(local)
  BY Facts DEF Shape, TypeOK
<1>2. all \in Seq(Records) /\ Len(all) = Len(local) + 1
  BY <1>1
<1>3. Cap \in Nat /\ QuotaKeep \in Nat /\ QuotaKeep <= Cap
  BY StoreAssumption
<1>0. save \in Saves(all)
  OBVIOUS
<1> HIDE DEF all
<1>4. save.throws => save.local = local
  <2>1. \/ save = [local |-> Capped(all), full |-> FALSE, throws |-> FALSE]
        \/ save = [local |-> SubSeq(all, 1, QuotaKeep), full |-> TRUE, throws |-> FALSE]
        \/ save = [local |-> local, full |-> TRUE, throws |-> TRUE]
        \/ save = [local |-> local, full |-> TRUE, throws |-> FALSE]
    BY <1>0 DEF Saves
  <2> QED BY <2>1
<1>5. CASE save.local = Capped(all)
  BY <1>4, <1>5, CapMoves DEF all
<1>6. CASE save.local = local
  BY <1>1, <1>4, <1>6
<1>7. CASE save.local = SubSeq(all, 1, QuotaKeep) /\ Len(Capped(all)) > QuotaKeep
  <2>1. Len(Capped(all)) <= Len(all)
    BY <1>2, <1>3 DEF Capped
  <2>2. QuotaKeep <= Len(local) + 1
    BY <1>1, <1>2, <1>3, <1>7, <2>1
  <2> DEFINE front == SubSeq(all, 1, QuotaKeep)
  <2>3. /\ front \in Seq(Records) /\ Len(front) = QuotaKeep
        /\ OneIdEach(front)
        /\ \A j \in DOMAIN front : front[j] = r \/ \E i \in DOMAIN local : front[j] = local[i]
    BY <1>1, <1>3, <2>2, FrontOfNew DEF all
  <2>4. save.local = front
    BY <1>7
  <2> HIDE DEF front
  <2> QED BY <1>3, <1>4, <2>3, <2>4
<1>8. \/ save.local = Capped(all)
      \/ save.local = local
      \/ save.local = SubSeq(all, 1, QuotaKeep) /\ Len(Capped(all)) > QuotaKeep
  BY <1>0 DEF Saves
<1> QED BY <1>5, <1>6, <1>7, <1>8

\* The record that SaveNew and Import create.
NewRecord(content) == [id |-> created + 1, has |-> content]

LEMMA NewTyped ==
  ASSUME Shape, NEW c \in Contents
  PROVE  NewRecord(c) \in Records /\ NewRecord(c).id = created + 1 /\ NewRecord(c).has = c
BY Facts DEF NewRecord, Records

\* What an import puts into a record.
Imported(s) == [sess |-> s, turns |-> 1, of |-> {}]

\* Every record of the next list is one of this list, the new one, or the page's
\* conversation stored again; SaveNew, SaveAgain, Delete, DeleteAll and Import are
\* the ones that change the list.
LEMMA ListMoves ==
  ASSUME Shape, Next
  PROVE  /\ local' \in Seq(Records) /\ Len(local') <= Cap /\ OneIdEach(local')
         /\ created' \in Nat /\ created <= created'
         /\ \A j \in DOMAIN local' :
              \/ \E i \in DOMAIN local : local'[j] = local[i]
              \/ /\ created' = created + 1 /\ local'[j].id = created + 1
                 /\ \/ local'[j].has = page /\ conv = NoId
                    \/ copied' /\ \E s \in Sessions \cup {NoSession} : local'[j].has = Imported(s)
              \/ /\ conv.in = "local" /\ conv.n \in LocalIds
                 /\ local'[j].id = conv.n /\ local'[j].has = page
<1>1. /\ local \in Seq(Records) /\ Len(local) \in Nat /\ Len(local) <= Cap
      /\ OneIdEach(local) /\ created \in Nat /\ page \in Contents
  BY Facts DEF Shape, TypeOK
<1>2. CASE UNCHANGED <<local, created>>
  BY <1>1, <1>2
<1>3. CASE SaveNew
  <2>1. PICK save \in Saves(<<NewRecord(page)>> \o local) : local' = save.local
    BY <1>3 DEF SaveNew, NewRecord
  <2>2. created' = created + 1 /\ conv = NoId
    BY <1>3 DEF SaveNew
  <2>3. NewRecord(page) \in Records /\ NewRecord(page).id = created + 1 /\ NewRecord(page).has = page
    BY <1>1, NewTyped
  <2>4. /\ save.local \in Seq(Records) /\ Len(save.local) <= Cap /\ OneIdEach(save.local)
        /\ \A j \in DOMAIN save.local :
             save.local[j] = NewRecord(page) \/ \E i \in DOMAIN local : save.local[j] = local[i]
    BY <2>3, SaveMoves
  <2> QED BY <1>1, <2>1, <2>2, <2>3, <2>4
<1>4. CASE SaveAgain
  <2>1. UNCHANGED created
    BY <1>4 DEF SaveAgain
  <2>2. CASE UNCHANGED local
    BY <1>1, <2>1, <2>2
  <2>3. CASE /\ conv.in = "local" /\ conv.n \in LocalIds
             /\ local' = [local EXCEPT ![RecordOf(conv.n)].has = page]
    <3> DEFINE k == RecordOf(conv.n)
    <3>1. k \in DOMAIN local /\ local[k].id = conv.n
      BY <2>3, Found
    <3>0. local' = Stored(local, k, page)
      BY <2>3 DEF Stored
    <3> HIDE DEF k
    <3>2. /\ local' \in Seq(Records) /\ Len(local') = Len(local) /\ DOMAIN local' = DOMAIN local
          /\ OneIdEach(local')
          /\ \A j \in DOMAIN local : local'[j].id = local[j].id
          /\ local'[k].has = page
          /\ \A j \in DOMAIN local : j # k => local'[j] = local[j]
      BY <1>1, <3>0, <3>1, StoredAgain
    <3> QED BY <1>1, <2>1, <2>3, <3>1, <3>2
  <2> QED BY <1>4, <2>2, <2>3 DEF SaveAgain
<1>5. ASSUME NEW id \in shown.local, Delete(id)
      PROVE  /\ local' \in Seq(Records) /\ Len(local') <= Cap /\ OneIdEach(local')
             /\ UNCHANGED created
             /\ \A j \in DOMAIN local' : \E i \in DOMAIN local : local'[j] = local[i]
  <2>1. id \in LocalIds /\ local' = RemoveAt(local, RecordOf(id)) /\ UNCHANGED created
    BY <1>5 DEF Delete
  <2>2. RecordOf(id) \in DOMAIN local
    BY <2>1, Found
  <2>3. Cap \in Nat
    BY StoreAssumption
  <2> QED BY <1>1, <2>1, <2>2, <2>3, Removed
<1>6. CASE DeleteAll
  <2>1. local' = <<>> /\ UNCHANGED created
    BY <1>6 DEF DeleteAll
  <2>2. Cap \in Nat
    BY StoreAssumption
  <2> QED BY <1>1, <2>1, <2>2 DEF OneIdEach
<1>7. ASSUME NEW s \in Sessions \cup {NoSession}, Import(s)
      PROVE  /\ local' \in Seq(Records) /\ Len(local') <= Cap /\ OneIdEach(local')
             /\ created' = created + 1 /\ copied'
             /\ \A j \in DOMAIN local' :
                  local'[j] = NewRecord(Imported(s)) \/ \E i \in DOMAIN local : local'[j] = local[i]
  <2>1. created' = created + 1 /\ copied' /\ local' = Capped(<<NewRecord(Imported(s))>> \o local)
    BY <1>7 DEF Import, NewRecord, Imported
  <2>2. Imported(s) \in Contents
    BY DEF Imported, Contents
  <2>3. NewRecord(Imported(s)) \in Records /\ NewRecord(Imported(s)).id = created + 1
    BY <2>2, NewTyped
  <2> QED BY <2>1, <2>3, CapMoves
<1>8. CASE \E id \in shown.local : Delete(id)
  BY <1>1, <1>5, <1>8
<1>9. CASE \E s \in {s \in Sessions : Known(s)} \cup {NoSession} : Import(s)
  <2>1. PICK s \in Sessions \cup {NoSession} : Import(s)
    BY <1>9
  <2>2. Imported(s) \in Contents
    BY DEF Imported, Contents
  <2>3. NewRecord(Imported(s)).id = created + 1 /\ NewRecord(Imported(s)).has = Imported(s)
    BY <2>2, NewTyped
  <2> QED BY <1>1, <1>7, <2>1, <2>3
<1> QED
  BY <1>2, <1>3, <1>4, <1>6, <1>8, <1>9
  DEF Next, Chat, StartTurn, Announce, EndTurn, FailTurn, Clear, Reload, Restored, Autosave, Snapshots, Share,
      Arrives, Panel, OpenPanel, Listed, Choose, Opened, browser

\* Deleting a record: the others stay as they are.
LEMMA DeleteMoves ==
  ASSUME Shape, NEW id, Delete(id)
  PROVE  /\ \A j \in DOMAIN local' : \E i \in DOMAIN local : local'[j] = local[i]
         /\ LocalIds' = LocalIds \ {id}
<1> DEFINE k == RecordOf(id)
<1>1. local \in Seq(Records) /\ OneIdEach(local)
  BY Facts
<1>2. id \in LocalIds /\ local' = RemoveAt(local, k)
  BY DEF Delete
<1>3. k \in DOMAIN local /\ local[k].id = id /\ \A i \in DOMAIN local : local[i].id = id => i = k
  BY <1>2, Found
<1> HIDE DEF k
<1>4. /\ \A j \in DOMAIN local' : \E i \in DOMAIN local : i # k /\ local'[j] = local[i]
      /\ \A i \in DOMAIN local : i # k => \E j \in DOMAIN local' : local'[j] = local[i]
  <2> DEFINE rest == RemoveAt(local, k)
  <2>1. /\ \A j \in DOMAIN rest : \E i \in DOMAIN local : i # k /\ rest[j] = local[i]
        /\ \A i \in DOMAIN local : i # k => \E j \in DOMAIN rest : rest[j] = local[i]
    BY <1>1, <1>3, Removed
  <2>2. local' = rest
    BY <1>2
  <2> HIDE DEF rest
  <2> QED BY <2>1, <2>2
<1>5. ASSUME NEW x \in LocalIds' PROVE x \in LocalIds \ {id}
  BY <1>3, <1>4 DEF LocalIds
<1>6. ASSUME NEW x \in LocalIds \ {id} PROVE x \in LocalIds'
  <2>1. PICK i \in DOMAIN local : x = local[i].id
    BY DEF LocalIds
  <2>2. i # k
    BY <1>3, <2>1
  <2>3. PICK j \in DOMAIN local' : local'[j] = local[i]
    BY <1>4, <2>2
  <2> QED BY <2>1, <2>3 DEF LocalIds
<1> QED BY <1>4, <1>5, <1>6

\* Storing a record again: it is the page's, and it gets what the page shows, or
\* the storage was full.
LEMMA AgainMoves ==
  ASSUME Shape, SaveAgain
  PROVE  /\ DOMAIN local' = DOMAIN local /\ LocalIds' = LocalIds
         /\ \A j \in DOMAIN local :
              /\ local'[j].id = local[j].id
              /\ \/ local'[j] = local[j]
                 \/ conv.in = "local" /\ local[j].id = conv.n /\ local'[j].has = page
         /\ ~unstored' => \A j \in DOMAIN local :
              conv.in = "local" /\ local[j].id = conv.n => local'[j].has = page
<1> DEFINE k == RecordOf(conv.n)
<1>1. local \in Seq(Records) /\ OneIdEach(local) /\ page \in Contents
  BY Facts
<1>2. CASE UNCHANGED local
  <2>1. unstored' \/ ~(conv.in = "local" /\ conv.n \in LocalIds)
           \/ local' = [local EXCEPT ![RecordOf(conv.n)].has = page]
    BY DEF SaveAgain
  <2>2. CASE unstored' \/ ~(conv.in = "local" /\ conv.n \in LocalIds)
    BY <1>2, <2>2 DEF LocalIds
  <2>3. CASE /\ conv.in = "local" /\ conv.n \in LocalIds
             /\ local' = [local EXCEPT ![RecordOf(conv.n)].has = page]
    <3>1. k \in DOMAIN local /\ \A i \in DOMAIN local : local[i].id = conv.n => i = k
      BY <2>3, Found
    <3>2. local' = Stored(local, k, page)
      BY <2>3 DEF Stored
    <3> HIDE DEF k
    <3>3. local'[k].has = page
      BY <1>1, <3>1, <3>2, StoredAgain
    <3> QED BY <1>2, <3>1, <3>3 DEF LocalIds
  <2> QED BY <2>1, <2>2, <2>3
<1>3. CASE /\ conv.in = "local" /\ conv.n \in LocalIds
           /\ local' = [local EXCEPT ![RecordOf(conv.n)].has = page]
  <2>1. k \in DOMAIN local /\ local[k].id = conv.n
        /\ \A i \in DOMAIN local : local[i].id = conv.n => i = k
    BY <1>3, Found
  <2>2. local' = Stored(local, k, page)
    BY <1>3 DEF Stored
  <2> HIDE DEF k
  <2>3. /\ DOMAIN local' = DOMAIN local /\ local'[k].has = page
        /\ \A j \in DOMAIN local : local'[j].id = local[j].id
        /\ \A j \in DOMAIN local : j # k => local'[j] = local[j]
    BY <1>1, <2>1, <2>2, StoredAgain
  <2> QED BY <1>3, <2>1, <2>3 DEF LocalIds
<1> QED BY <1>2, <1>3 DEF SaveAgain

ChatTyped ==
  /\ page \in Contents /\ conv \in Ids /\ held \in 0 .. MaxTurns
  /\ running \in Sessions \cup {NoSession} /\ restoring \in Sessions \cup {NoSession}
  /\ announced \in BOOLEAN /\ processing \in BOOLEAN /\ timer \in BOOLEAN
  /\ conv.in = "local" => conv.n <= created

ServerTyped ==
  /\ server \in [Sessions -> [turns : Nat, snap : Contents]]
  /\ posts \subseteq Contents

PanelTyped ==
  /\ shown \in [server : SUBSET Sessions, local : SUBSET Nat]
  /\ loads \subseteq [load : Nat, local : SUBSET Nat]
  /\ asked \in Nat /\ clicks \in 0 .. MaxClicks
  /\ opening \subseteq Ids
  /\ \A id \in opening : id.in = "server" => id.n \in Sessions

NotesTyped == mixed \in BOOLEAN /\ copied \in BOOLEAN /\ unstored \in BOOLEAN

LEMMA ShapeParts ==
  Shape <=> /\ local \in Seq(Records) /\ Len(local) <= Cap /\ created \in Nat
            /\ OneIdEach(local) /\ \A i \in DOMAIN local : local[i].id <= created
            /\ ChatTyped /\ ServerTyped /\ PanelTyped /\ NotesTyped
BY DEF Shape, TypeOK, Named, ChatTyped, ServerTyped, PanelTyped, NotesTyped

LEMMA NothingTyped == Nothing \in Contents
BY DEF Nothing, Contents

LEMMA SessionsNat == Sessions \subseteq Nat /\ NoSession \in Nat /\ NoSession \notin Sessions
BY StoreAssumption DEF Sessions, NoSession

LEMMA FromServerTyped ==
  ASSUME ServerTyped, NEW s \in Sessions
  PROVE  FromServer(s) \in Contents /\ FromServer(s).sess = s
<1>1. server[s].turns \in Nat
  BY DEF ServerTyped
<1>2. 2 * server[s].turns \in Nat
  BY <1>1
<1> QED BY <1>2 DEF FromServer, Contents

LEMMA InitShape == Init => Shape
<1> SUFFICES ASSUME Init PROVE Shape
  OBVIOUS
<1>1. /\ local \in Seq(Records) /\ Len(local) <= Cap /\ created \in Nat
      /\ OneIdEach(local) /\ \A i \in DOMAIN local : local[i].id <= created
  BY StoreAssumption DEF Init, OneIdEach
<1>2. ChatTyped
  <2>1. page \in Contents /\ running = NoSession /\ restoring = NoSession
    BY NothingTyped DEF Init
  <2>2. conv \in Ids /\ conv.in = "none"
    BY DEF Init, NoId, Ids
  <2>3. held \in 0 .. MaxTurns
    <3>1. held = 0
      BY DEF Init
    <3> QED BY <3>1, StoreAssumption
  <2>4. announced \in BOOLEAN /\ processing \in BOOLEAN /\ timer \in BOOLEAN
    BY Zenon DEF Init
  <2> QED BY <2>1, <2>2, <2>3, <2>4 DEF ChatTyped
<1>3. ServerTyped
  BY NothingTyped DEF Init, ServerTyped
<1>4. PanelTyped
  BY StoreAssumption DEF Init, PanelTyped
<1>5. NotesTyped
  BY DEF Init, NotesTyped
<1> QED BY <1>1, <1>2, <1>3, <1>4, <1>5, ShapeParts

LEMMA ChatStep ==
  ASSUME Shape, Next
  PROVE  ChatTyped'
<1>1. ChatTyped /\ ServerTyped /\ PanelTyped /\ created \in Nat
  BY ShapeParts
<1>2. created' \in Nat /\ created <= created'
  BY ListMoves
<1>3. /\ page.turns \in Nat /\ page.of \subseteq Sessions /\ page.sess \in Sessions \cup {NoSession}
      /\ MaxTurns \in Nat
  BY <1>1, StoreAssumption DEF ChatTyped, Contents
<1>4. ASSUME UNCHANGED <<page, conv, held, running, announced, restoring, processing>>,
             timer' \in BOOLEAN
      PROVE  ChatTyped'
  BY <1>1, <1>2, <1>4 DEF ChatTyped, Ids
<1>5. ASSUME NEW s \in Sessions, StartTurn(s)
      PROVE  ChatTyped'
  <2>1. page' \in Contents
    <3>1. page' = [page EXCEPT !.turns = @ + 1]
      BY <1>5 DEF StartTurn
    <3> QED BY <1>1, <1>3, <3>1 DEF ChatTyped, Contents
  <2>2. held' \in 0 .. MaxTurns
    BY <1>1, <1>3, <1>5 DEF StartTurn, ChatTyped
  <2> QED BY <1>1, <1>5, <2>1, <2>2 DEF StartTurn, ChatTyped, browser
<1>6. CASE EndTurn
  <2>1. page' \in Contents
    BY <1>1, <1>3, <1>6 DEF EndTurn, Busy, ChatTyped, Contents
  <2> QED BY <1>1, <1>6, <2>1 DEF EndTurn, ChatTyped, browser
<1>7. CASE FailTurn
  <2>1. page' \in Contents
    <3>1. page' = [page EXCEPT !.turns = @ + 1, !.of = IF announced THEN @ \cup {running} ELSE @]
          /\ running \in Sessions
      BY <1>1, <1>7 DEF FailTurn, Busy, ChatTyped
    <3> DEFINE of == IF announced THEN page.of \cup {running} ELSE page.of
    <3>2. of \in SUBSET Sessions
      BY <1>3, <3>1
    <3>3. page' = [sess |-> page.sess, turns |-> page.turns + 1, of |-> of]
      BY <1>1, <3>1 DEF ChatTyped, Contents
    <3> HIDE DEF of
    <3>4. page.turns + 1 \in Nat
      BY <1>3
    <3> QED BY <1>3, <3>2, <3>3, <3>4 DEF Contents
  <2> QED BY <1>1, <1>7, <2>1 DEF FailTurn, ChatTyped, browser
<1>16. CASE Announce
  <2>1. page' = [page EXCEPT !.sess = running] /\ running \in Sessions
    BY <1>1, <1>16 DEF Announce, Busy, ChatTyped
  <2>2. page' \in Contents
    BY <1>1, <2>1 DEF ChatTyped, Contents
  <2>3. announced' \in BOOLEAN /\ timer' \in BOOLEAN
    <3>1. timer' = IF page.sess = running THEN timer ELSE ~processing /\ page.turns > 0
      BY <1>16 DEF Announce
    <3>2. CASE page.sess = running
      BY <1>1, <1>16, <3>1, <3>2 DEF Announce, ChatTyped
    <3>3. CASE page.sess # running
      BY <1>16, <3>1, <3>3 DEF Announce
    <3> QED BY <3>2, <3>3
  <2> QED BY <1>1, <1>16, <2>2, <2>3 DEF Announce, ChatTyped, browser
<1>8. CASE Clear
  BY <1>1, <1>8, NothingTyped DEF Clear, ChatTyped, NoId, Ids, browser
<1>9. CASE Reload
  <2>1. page' \in Contents
    BY <1>3, <1>9 DEF Reload, Nothing, Contents
  <2> QED BY <1>1, <1>3, <1>9, <2>1 DEF Reload, ChatTyped, NoId, Ids, browser
<1>10. CASE Restored
  <2>1. restoring \in Sessions
    BY <1>1, <1>10 DEF Restored, ChatTyped
  <2>2. FromServer(restoring) \in Contents
    BY <1>1, <2>1, FromServerTyped
  <2>3. page' \in Contents
    BY <1>1, <1>3, <1>10, <2>2 DEF Restored, ChatTyped, Contents
  <2> QED BY <1>1, <1>10, <2>3 DEF Restored, ChatTyped, browser
<1>11. CASE SaveNew
  <2>1. PICK save \in Saves(<<NewRecord(page)>> \o local) :
          IF save.throws
          THEN timer' = FALSE /\ UNCHANGED <<conv, posts>>
          ELSE timer' = TRUE /\ conv' = LocalId(created + 1) /\ Post
    BY <1>11 DEF SaveNew, NewRecord
  <2>2. /\ created' = created + 1 /\ UNCHANGED <<page, running, announced, processing, restoring, held>>
        /\ timer' \in BOOLEAN
    BY <1>11, <2>1 DEF SaveNew
  <2>3. conv' = conv \/ conv' = LocalId(created + 1)
    BY <2>1
  <2>4. conv' \in Ids /\ (conv'.in = "local" => conv'.n <= created')
    BY <1>1, <2>2, <2>3 DEF LocalId, Ids, ChatTyped
  <2> QED BY <1>1, <2>2, <2>4 DEF ChatTyped
<1>12. CASE SaveAgain
  BY <1>4, <1>12 DEF SaveAgain, chat
<1>13. CASE Snapshots
  BY <1>1, <1>4, <1>13 DEF Snapshots, Share, Arrives, chat, ChatTyped
<1>14. ASSUME NEW id \in opening, Opened(id)
       PROVE  ChatTyped'
  <2>1. UNCHANGED <<held, running, announced, restoring, created>>
    BY <1>14 DEF Opened, browser
  <2>2. CASE id.in = "server" /\ Show(FromServer(id.n), id)
    <3>1. id.n \in Sessions /\ id \in Ids
      BY <1>1, <2>2 DEF PanelTyped
    <3>2. FromServer(id.n) \in Contents
      BY <1>1, <3>1, FromServerTyped
    <3>3. timer' \in BOOLEAN
      BY <2>2 DEF Show
    <3>4. page' \in Contents /\ conv' \in Ids /\ conv'.in # "local" /\ processing' \in BOOLEAN
      BY <2>2, <3>1, <3>2 DEF Show
    <3> QED BY <1>1, <2>1, <3>3, <3>4 DEF ChatTyped
  <2>3. CASE id.in = "local" /\ id.n \in LocalIds /\ Show(local[RecordOf(id.n)].has, id)
    <3>1. RecordOf(id.n) \in DOMAIN local /\ local[RecordOf(id.n)].id = id.n
      BY <2>3, Found
    <3>2. local[RecordOf(id.n)].has \in Contents /\ id.n <= created /\ id \in Ids
      BY <1>1, <3>1, Facts DEF Records, PanelTyped
    <3>3. timer' \in BOOLEAN
      BY <2>3 DEF Show
    <3>4. page' \in Contents /\ conv' \in Ids /\ conv'.n <= created /\ processing' \in BOOLEAN
      BY <2>3, <3>2 DEF Show
    <3> QED BY <1>1, <2>1, <3>3, <3>4 DEF ChatTyped
  <2>4. CASE UNCHANGED <<page, conv, processing, timer, mixed>>
    BY <1>1, <1>4, <2>1, <2>4 DEF ChatTyped
  <2> QED BY <1>14, <2>2, <2>3, <2>4 DEF Opened
<1>15. CASE /\ Panel /\ ~ \E id \in opening : Opened(id)
  BY <1>1, <1>4, <1>15
  DEF Panel, OpenPanel, Listed, Delete, DeleteAll, Import, Choose, chat, ChatTyped
<1> QED
  BY <1>5, <1>6, <1>7, <1>8, <1>9, <1>10, <1>11, <1>12, <1>13, <1>14, <1>15, <1>16
  DEF Next, Chat, Autosave, Panel

LEMMA ServerStep ==
  ASSUME Shape, Next
  PROVE  ServerTyped'
<1>1. ChatTyped /\ ServerTyped
  BY ShapeParts
<1>2. ASSUME UNCHANGED server, posts' \subseteq posts \cup {page}
      PROVE  ServerTyped'
  BY <1>1, <1>2 DEF ServerTyped, ChatTyped
<1>3. ASSUME Busy, Heard, UNCHANGED posts
      PROVE  ServerTyped'
  <2>1. running \in Sessions /\ server' = [server EXCEPT ![running].turns = @ + 1]
    BY <1>1, <1>3 DEF Heard, Busy, ChatTyped
  <2> QED BY <1>1, <1>3, <2>1 DEF ServerTyped
<1>4. ASSUME NEW p \in posts, Arrives(p)
      PROVE  ServerTyped'
  <2>1. posts' \subseteq posts
    BY <1>4 DEF Arrives
  <2>2. CASE server' = [server EXCEPT ![p.sess].snap = p]
    BY <1>1, <2>1, <2>2 DEF ServerTyped
  <2> QED BY <1>2, <1>4, <2>1, <2>2 DEF Arrives
<1>5. CASE SaveNew
  <2>1. posts' \subseteq posts \cup {page} /\ UNCHANGED server
    BY <1>5 DEF SaveNew, Post
  <2> QED BY <1>2, <2>1
<1>6. CASE SaveAgain
  <2>1. posts' \subseteq posts \cup {page} /\ UNCHANGED server
    BY <1>6 DEF SaveAgain, Post
  <2> QED BY <1>2, <2>1
<1>7. CASE Share
  BY <1>2, <1>7 DEF Share
<1>8. CASE Panel
  BY <1>2, <1>8 DEF Panel, OpenPanel, Listed, Delete, DeleteAll, Import, Choose, Opened
<1>9. CASE Chat
  BY <1>2, <1>3, <1>9 DEF Chat, StartTurn, Announce, EndTurn, FailTurn, Clear, Reload, Restored
<1> QED BY <1>4, <1>5, <1>6, <1>7, <1>8, <1>9 DEF Next, Autosave, Snapshots

LEMMA PanelStep ==
  ASSUME Shape, Next
  PROVE  PanelTyped'
<1>1. /\ PanelTyped /\ MaxClicks \in Nat /\ asked + 1 \in Nat /\ shown.local \subseteq Nat
      /\ shown.server \subseteq Sessions
  BY ShapeParts, StoreAssumption DEF PanelTyped
<1>2. LocalIds \subseteq Nat
  BY Facts DEF IdsOf, Records
<1>3. ASSUME Click
      PROVE  clicks' \in 0 .. MaxClicks
  BY <1>1, <1>3 DEF Click, PanelTyped
<1>4. ASSUME NEW ids \in SUBSET Nat, AsksFor(ids), UNCHANGED opening, Click
      PROVE  PanelTyped'
  <2>1. /\ shown' \in [server : SUBSET Sessions, local : SUBSET Nat]
        /\ loads' \subseteq [load : Nat, local : SUBSET Nat] /\ asked' \in Nat
    <3>1. shown' = [server |-> {}, local |-> ids] /\ asked' = asked + 1
      BY <1>4 DEF AsksFor
    <3>2. loads' = loads \cup {[load |-> asked + 1, local |-> ids]}
      BY <1>4 DEF AsksFor
    <3>3. [load |-> asked + 1, local |-> ids] \in [load : Nat, local : SUBSET Nat]
      BY <1>1
    <3>4. {} \in SUBSET Sessions
      OBVIOUS
    <3>5. shown' \in [server : SUBSET Sessions, local : SUBSET Nat]
      BY <1>1, <3>1, <3>4
    <3> QED BY <1>1, <3>1, <3>2, <3>3, <3>5 DEF PanelTyped
  <2> QED BY <1>1, <1>3, <1>4, <2>1 DEF PanelTyped
<1>5. CASE OpenPanel
  BY <1>2, <1>4, <1>5 DEF OpenPanel
<1>6. ASSUME NEW load \in loads, Listed(load)
      PROVE  PanelTyped'
  <2>1. load \in [load : Nat, local : SUBSET Nat]
    BY <1>1 DEF PanelTyped
  <2>2. shown' \in [server : SUBSET Sessions, local : SUBSET Nat]
    BY <1>1, <1>6, <2>1 DEF Listed, PanelTyped
  <2> QED BY <1>1, <1>6, <2>2 DEF Listed, PanelTyped
<1>7. ASSUME NEW id \in shown.local, Delete(id)
      PROVE  PanelTyped'
  BY <1>2, <1>4, <1>7 DEF Delete
<1>8. CASE DeleteAll
  BY <1>4, <1>8 DEF DeleteAll
<1>9. ASSUME NEW s \in Sessions \cup {NoSession}, Import(s)
      PROVE  PanelTyped'
  <2>1. local' \in Seq(Records)
    BY ListMoves
  <2>2. {local'[i].id : i \in DOMAIN local'} \subseteq Nat
    <3>1. \A i \in DOMAIN local' : local'[i] \in Records
      BY <2>1
    <3>2. \A i \in DOMAIN local' : local'[i].id \in Nat
      BY <3>1 DEF Records
    <3> QED BY <3>2
  <2> QED BY <1>4, <1>9, <2>2 DEF Import
<1>10. ASSUME NEW id, Choose(id), id \in Ids, id.in = "server" => id.n \in Sessions
       PROVE  PanelTyped'
  BY <1>1, <1>3, <1>10 DEF Choose, PanelTyped
<1>11. ASSUME NEW n \in shown.local, Choose(LocalId(n))
       PROVE  PanelTyped'
  BY <1>1, <1>10, <1>11 DEF LocalId, Ids
<1>12. ASSUME NEW s \in shown.server, Choose(ServerId(s))
       PROVE  PanelTyped'
  BY <1>1, <1>10, <1>12, SessionsNat DEF ServerId, Ids
<1>13. ASSUME NEW id \in opening, Opened(id)
       PROVE  PanelTyped'
  BY <1>1, <1>13 DEF Opened, PanelTyped
<1>14. CASE Panel
  BY <1>5, <1>6, <1>7, <1>8, <1>9, <1>11, <1>12, <1>13, <1>14 DEF Panel
<1>15. CASE Clear
  BY <1>1, <1>3, <1>15 DEF Clear, PanelTyped, panel
<1>16. CASE Reload
  BY <1>1, <1>3, <1>16 DEF Reload, PanelTyped
<1>17. CASE Share
  BY <1>1, <1>3, <1>17 DEF Share, PanelTyped, panel
<1>18. ASSUME UNCHANGED <<panel, clicks>>
       PROVE  PanelTyped'
  BY <1>1, <1>18 DEF panel, PanelTyped
<1>19. CASE Chat /\ ~Clear /\ ~Reload
  BY <1>18, <1>19 DEF Chat, StartTurn, Announce, EndTurn, FailTurn, Restored
<1>20. CASE Autosave
  BY <1>18, <1>20 DEF Autosave, SaveNew, SaveAgain
<1>21. CASE \E p \in posts : Arrives(p)
  BY <1>18, <1>21 DEF Arrives
<1> QED BY <1>14, <1>15, <1>16, <1>17, <1>19, <1>20, <1>21 DEF Next, Chat, Snapshots

LEMMA NotesStep ==
  ASSUME Shape, Next
  PROVE  NotesTyped'
<1>1. NotesTyped
  BY ShapeParts
<1>2. CASE Chat
  BY <1>1, <1>2 DEF Chat, StartTurn, Announce, EndTurn, FailTurn, Clear, Reload, Restored, notes, NotesTyped
<1>3. CASE Autosave
  BY <1>1, <1>3 DEF Autosave, SaveNew, SaveAgain, NotesTyped
<1>4. CASE Snapshots
  BY <1>1, <1>4 DEF Snapshots, Share, Arrives, notes, NotesTyped
<1>5. CASE Panel
  BY <1>1, <1>5
  DEF Panel, OpenPanel, Listed, Delete, DeleteAll, Import, Choose, Opened, Show, notes, NotesTyped
<1> QED BY <1>2, <1>3, <1>4, <1>5 DEF Next

LEMMA ShapeStep ==
  ASSUME Shape, [Next]_vars
  PROVE  Shape'
<1>1. CASE UNCHANGED vars
  BY <1>1
  DEF Shape, TypeOK, Named, OneIdEach, vars, browser, chat, panel, notes
<1>2. CASE Next
  <2>1. /\ local' \in Seq(Records) /\ Len(local') <= Cap /\ OneIdEach(local')
        /\ created' \in Nat /\ created <= created'
    BY <1>2, ListMoves
  <2>2. ASSUME NEW j \in DOMAIN local'
        PROVE  local'[j].id <= created'
    <3>1. /\ created \in Nat /\ \A i \in DOMAIN local : local[i].id \in Nat /\ local[i].id <= created
      BY Facts DEF Records
    <3>2. CASE \E i \in DOMAIN local : local'[j] = local[i]
      BY <2>1, <3>1, <3>2
    <3>3. CASE created' = created + 1 /\ local'[j].id = created + 1
      BY <2>1, <3>1, <3>3
    <3>4. CASE local'[j].id = conv.n /\ conv.n \in LocalIds
      BY <2>1, <3>1, <3>4 DEF LocalIds
    <3> QED BY <1>2, <3>2, <3>3, <3>4, ListMoves
  <2>3. ChatTyped' /\ ServerTyped' /\ PanelTyped' /\ NotesTyped'
    BY <1>2, ChatStep, ServerStep, PanelStep, NotesStep
  <2>4. Shape' <=> /\ local' \in Seq(Records) /\ Len(local') <= Cap /\ created' \in Nat
                   /\ OneIdEach(local') /\ \A i \in DOMAIN local' : local'[i].id <= created'
                   /\ ChatTyped' /\ ServerTyped' /\ PanelTyped' /\ NotesTyped'
    BY DEF Shape, TypeOK, Named, ChatTyped, ServerTyped, PanelTyped, NotesTyped
  <2> QED BY <2>1, <2>2, <2>3, <2>4
<1> QED BY <1>1, <1>2

LEMMA ShapeAlways == Spec => []Shape
<1> QED BY InitShape, ShapeStep, PTL DEF Spec

\* The store keeps its types: whatever the storage refuses, the records are at
\* most MAX_CONVERSATIONS and the page shows what can be shown.
THEOREM StoreTyped == Spec => []TypeOK
<1>1. Shape => TypeOK
  BY DEF Shape
<1> QED BY <1>1, ShapeAlways, PTL

-----------------------------------------------------------------------------
(* What is deleted and what rests. *)

\* A record that was deleted or has made room for others never comes back:
\* updateConversation stores only into a record that is there, and new ids are new.
THEOREM DeletedAreGone == Spec => DeletedStaysDeleted
<1>1. ASSUME Shape, [Next]_vars
      PROVE  [\A j \in DOMAIN local' : local'[j].id \in LocalIds \/ local'[j].id > created]_vars
  <2>1. CASE UNCHANGED vars
    BY <2>1
  <2>2. CASE Next
    <3>1. ASSUME NEW j \in DOMAIN local'
          PROVE  local'[j].id \in LocalIds \/ local'[j].id > created
      <4>1. created \in Nat
        BY <1>1, Facts
      <4>2. CASE \E i \in DOMAIN local : local'[j] = local[i]
        BY <4>2 DEF LocalIds
      <4>3. CASE local'[j].id = created + 1
        BY <4>1, <4>3
      <4>4. CASE conv.n \in LocalIds /\ local'[j].id = conv.n
        BY <4>4
      <4> QED BY <1>1, <2>2, <4>2, <4>3, <4>4, ListMoves
    <3> QED BY <3>1
  <2> QED BY <1>1, <2>1, <2>2
<1> QED BY <1>1, ShapeAlways, PTL DEF Spec, DeletedStaysDeleted

\* Unless something is under way that will save it, the record of the page's
\* conversation has what the page shows.
Resting ==
  ~unstored /\ conv.in = "local" =>
    \A i \in DOMAIN local :
      local[i].id = conv.n => processing \/ timer \/ page.turns = 0 \/ local[i].has = page

LEMMA RestingSaved ==
  ASSUME Shape, Resting
  PROVE  RestsSaved
<1> SUFFICES ASSUME ~processing, ~timer, page.turns > 0, ~unstored, conv.in = "local",
                    conv.n \in LocalIds
             PROVE  local[RecordOf(conv.n)].has = page
  BY DEF RestsSaved
<1>1. page.turns # 0
  BY Facts DEF Contents
<1>2. RecordOf(conv.n) \in DOMAIN local /\ local[RecordOf(conv.n)].id = conv.n
  BY Found
<1> QED BY <1>1, <1>2 DEF Resting

\* The records may change in place, or fewer be there, as long as the page does not.
LEMMA RestingKept ==
  ASSUME Resting, UNCHANGED <<conv, page, processing, timer>>, unstored => unstored',
         \A j \in DOMAIN local' : conv.in = "local" /\ local'[j].id = conv.n
           => \E i \in DOMAIN local : local'[j] = local[i]
  PROVE  Resting'
BY DEF Resting

LEMMA RestingStep ==
  ASSUME Shape, Resting, [Next]_vars
  PROVE  Resting'
<1>1. CASE UNCHANGED vars
  BY <1>1 DEF Resting, vars, browser, chat, notes
<1>2. CASE (\E s \in Sessions : StartTurn(s)) \/ EndTurn \/ FailTurn
  BY <1>2 DEF StartTurn, EndTurn, FailTurn, Resting
<1>14. CASE Announce
  <2>1. CASE page.sess = running
    <3>1. page' = page
      BY <1>14, <2>1, Facts DEF Announce, Contents
    <3> QED BY <1>14, <2>1, <3>1 DEF Announce, Resting, browser, notes
  <2>2. CASE page.sess # running
    <3>1. page'.turns = page.turns /\ page.turns \in Nat
      BY <1>14, Facts DEF Announce, Contents
    <3>2. processing' = processing /\ timer' = (~processing /\ page.turns > 0)
      BY <1>14, <2>2 DEF Announce
    <3>3. processing' \/ timer' \/ page'.turns = 0
      <4>1. CASE page.turns > 0
        BY <3>2, <4>1, Zenon
      <4>2. CASE ~(page.turns > 0)
        BY <3>1, <4>2
      <4> QED BY <4>1, <4>2
    <3> QED BY <3>3 DEF Resting
  <2> QED BY <2>1, <2>2
<1>3. CASE Clear \/ Reload
  <2>1. conv'.in # "local"
    BY <1>3 DEF Clear, Reload, NoId
  <2> QED BY <2>1 DEF Resting
<1>4. CASE Restored
  <2>1. page'.turns \in Nat
    <3>1. ChatTyped'
      BY <1>4, ChatStep DEF Next, Chat
    <3> QED BY <3>1 DEF ChatTyped, Contents
  <2>2. processing' = processing /\ timer' = (~processing /\ page'.turns > 0)
    BY <1>4 DEF Restored
  <2>3. ASSUME ~processing', ~timer'
        PROVE  page'.turns = 0
    <3>1. ~(page'.turns > 0)
      BY <2>2, <2>3
    <3> QED BY <2>1, <3>1
  <2> QED BY <2>3 DEF Resting
<1>5. CASE SaveNew
  <2>1. conv'.in # "local" \/ timer'
    BY <1>5 DEF SaveNew, NoId
  <2> QED BY <2>1 DEF Resting
<1>6. CASE SaveAgain
  <2>1. UNCHANGED <<conv, page>>
    BY <1>6 DEF SaveAgain, chat
  <2>2. /\ DOMAIN local' = DOMAIN local /\ \A j \in DOMAIN local : local'[j].id = local[j].id
        /\ ~unstored' => \A j \in DOMAIN local :
             conv.in = "local" /\ local[j].id = conv.n => local'[j].has = page
    BY <1>6, AgainMoves
  <2> QED BY <2>1, <2>2 DEF Resting
<1>7. CASE \E id \in shown.local : Delete(id)
  <2>2. UNCHANGED <<conv, page, processing, timer, unstored>>
    BY <1>7 DEF Delete, chat, notes
  <2>3. \A j \in DOMAIN local' : \E i \in DOMAIN local : local'[j] = local[i]
    BY <1>7, DeleteMoves
  <2> QED BY <2>2, <2>3, RestingKept
<1>8. CASE DeleteAll
  BY <1>8 DEF DeleteAll, Resting
<1>9. CASE \E s \in {s \in Sessions : Known(s)} \cup {NoSession} : Import(s)
  <2>1. UNCHANGED <<conv, page, processing, timer, unstored>> /\ created' = created + 1
    BY <1>9 DEF Import, chat
  <2>2. PICK s \in Sessions \cup {NoSession} : local' = Capped(<<NewRecord(Imported(s))>> \o local)
    BY <1>9 DEF Import, NewRecord, Imported
  <2>3. NewRecord(Imported(s)) \in Records /\ NewRecord(Imported(s)).id = created + 1
    <3>1. Imported(s) \in Contents
      BY DEF Imported, Contents
    <3> QED BY <3>1, NewTyped
  <2>4. ASSUME NEW j \in DOMAIN local', conv.in = "local", local'[j].id = conv.n
        PROVE  \E i \in DOMAIN local : local'[j] = local[i]
    <3>1. conv.n <= created /\ conv.n \in Nat /\ created \in Nat
      BY <2>4, ShapeParts DEF ChatTyped, Ids
    <3> QED BY <2>2, <2>3, <2>4, <3>1, CapMoves
  <2> QED BY <2>1, <2>4, RestingKept
<1>10. ASSUME NEW id \in opening, Opened(id)
       PROVE  Resting'
  <2>1. UNCHANGED <<local, unstored>>
    BY <1>10 DEF Opened, browser
  <2>2. CASE id.in = "server" /\ Show(FromServer(id.n), id)
    BY <2>2 DEF Show, Resting
  <2>3. CASE id.in = "local" /\ id.n \in LocalIds /\ Show(local[RecordOf(id.n)].has, id)
    <3>1. \A i \in DOMAIN local : local[i].id = id.n => i = RecordOf(id.n)
      BY <2>3, Found
    <3> QED BY <2>1, <2>3, <3>1 DEF Show, Resting
  <2>4. CASE UNCHANGED <<page, conv, processing, timer, mixed>>
    BY <2>1, <2>4 DEF Resting
  <2> QED BY <1>10, <2>2, <2>3, <2>4 DEF Opened
<1>11. ASSUME UNCHANGED <<local, conv, page, processing, timer, unstored>>
       PROVE  Resting'
  BY <1>11 DEF Resting
<1>12. CASE OpenPanel \/ (\E load \in loads : Listed(load)) \/ (\E id : Choose(id))
  BY <1>11, <1>12 DEF OpenPanel, Listed, Choose, browser, chat, notes
<1>13. CASE Snapshots
  BY <1>11, <1>13 DEF Snapshots, Share, Arrives, browser, chat, notes
<1> QED
  BY <1>1, <1>2, <1>3, <1>4, <1>5, <1>6, <1>7, <1>8, <1>9, <1>10, <1>12, <1>13, <1>14
  DEF Next, Chat, Autosave, Panel

\* When the page rests, its record has what it shows, whatever was saved, deleted,
\* imported or opened before.
THEOREM PageIsSaved == Spec => []RestsSaved
<1>1. Init => Resting
  BY DEF Init, Resting, NoId
<1>2. Spec => []Resting
  BY <1>1, RestingStep, ShapeAlways, PTL DEF Spec
<1> QED BY <1>2, RestingSaved, ShapeAlways, PTL

-----------------------------------------------------------------------------
(* Whose content a page, a record and a snapshot have. *)

\* What the panel lists and opens of the server is known to it, for ever.
ListedKnown ==
  /\ \A s \in shown.server : Known(s)
  /\ \A id \in opening : id.in = "server" => Known(id.n)

LEMMA KnownStays ==
  ASSUME Shape, [Next]_vars, NEW s \in Sessions, Known(s)
  PROVE  Known(s)'
<1>1. /\ server \in [Sessions -> [turns : Nat, snap : Contents]]
      /\ running \in Sessions \cup {NoSession}
  BY ShapeParts DEF ServerTyped, ChatTyped
<1>2. server[s].turns \in Nat /\ server[s].turns > 0
  BY <1>1 DEF Known
<1>3. CASE UNCHANGED server
  BY <1>3 DEF Known
<1>4. ASSUME Busy, Heard
      PROVE  Known(s)'
  <2>1. running \in Sessions /\ server' = [server EXCEPT ![running].turns = @ + 1]
    BY <1>1, <1>4 DEF Heard, Busy
  <2>2. server'[s].turns = server[s].turns \/ server'[s].turns = server[s].turns + 1
    BY <1>1, <2>1
  <2> QED BY <1>2, <2>2 DEF Known
<1>5. ASSUME NEW p, server' = [server EXCEPT ![p.sess].snap = p]
      PROVE  Known(s)'
  <2>1. server'[s].turns = server[s].turns
    BY <1>1, <1>5
  <2> QED BY <1>2, <2>1 DEF Known
<1>6. CASE Chat
  BY <1>3, <1>4, <1>6 DEF Chat, StartTurn, Announce, EndTurn, FailTurn, Clear, Reload, Restored
<1>7. CASE Autosave
  BY <1>3, <1>7 DEF Autosave, SaveNew, SaveAgain
<1>8. CASE Snapshots
  BY <1>3, <1>5, <1>8 DEF Snapshots, Share, Arrives
<1>9. CASE Panel
  BY <1>3, <1>9 DEF Panel, OpenPanel, Listed, Delete, DeleteAll, Import, Choose, Opened
<1>10. CASE UNCHANGED vars
  BY <1>3, <1>10 DEF vars
<1> QED BY <1>6, <1>7, <1>8, <1>9, <1>10 DEF Next

LEMMA ListedStep ==
  ASSUME Shape, ListedKnown, [Next]_vars
  PROVE  ListedKnown'
<1>1. /\ shown.server \subseteq Sessions
      /\ \A id \in opening : id.in = "server" => id.n \in Sessions
  BY ShapeParts DEF PanelTyped
<1>2. /\ \A s \in shown.server : Known(s)'
      /\ \A id \in opening : id.in = "server" => Known(id.n)'
  BY <1>1, KnownStays DEF ListedKnown
<1>3. ASSUME shown'.server \subseteq shown.server, opening' \subseteq opening
      PROVE  ListedKnown'
  BY <1>2, <1>3 DEF ListedKnown, Known
<1>4. ASSUME NEW ids, AsksFor(ids), UNCHANGED opening
      PROVE  ListedKnown'
  <2>1. shown'.server = {}
    BY <1>4 DEF AsksFor
  <2> QED BY <1>3, <1>4, <2>1
<1>5. ASSUME NEW load \in loads, Listed(load)
      PROVE  ListedKnown'
  <2>1. UNCHANGED <<opening, server>>
    BY <1>5 DEF Listed
  <2>2. CASE shown'.server = {s \in Sessions : Known(s)}
    BY <1>2, <2>1, <2>2 DEF ListedKnown, Known
  <2>3. CASE UNCHANGED shown
    BY <1>3, <2>1, <2>3
  <2> QED BY <1>5, <2>2, <2>3 DEF Listed
<1>6. CASE \E s \in shown.server : Choose(ServerId(s))
  <2>1. PICK s \in shown.server : Choose(ServerId(s))
    BY <1>6
  <2>2. opening' = opening \cup {ServerId(s)} /\ UNCHANGED shown
    BY <2>1 DEF Choose
  <2>3. ServerId(s).n = s
    BY DEF ServerId
  <2>4. \A id \in opening' : id.in = "server" => Known(id.n)'
    BY <1>2, <2>2, <2>3
  <2> QED BY <1>2, <2>2, <2>4 DEF ListedKnown, Known
<1>7. CASE \E n \in shown.local : Choose(LocalId(n))
  <2>1. PICK n \in shown.local : Choose(LocalId(n))
    BY <1>7
  <2>2. opening' = opening \cup {LocalId(n)} /\ UNCHANGED shown /\ LocalId(n).in # "server"
    BY <2>1 DEF Choose, LocalId
  <2>3. \A id \in opening' : id.in = "server" => Known(id.n)'
    BY <1>2, <2>2
  <2> QED BY <1>2, <2>2, <2>3 DEF ListedKnown, Known
<1>8. CASE OpenPanel \/ (\E id \in shown.local : Delete(id)) \/ DeleteAll \/ (\E s : Import(s))
  BY <1>4, <1>8 DEF OpenPanel, Delete, DeleteAll, Import
<1>9. CASE \E id \in opening : Opened(id)
  BY <1>3, <1>9 DEF Opened
<1>10. CASE Reload
  <2>1. shown'.server = {} /\ opening' = {}
    BY <1>10 DEF Reload
  <2> QED BY <1>3, <2>1
<1>11. CASE (Chat /\ ~Reload) \/ Autosave \/ Snapshots
  <2>1. UNCHANGED panel
    BY <1>11 DEF Chat, StartTurn, Announce, EndTurn, FailTurn, Clear, Restored, Autosave, SaveNew, SaveAgain,
                 Snapshots, Share, Arrives
  <2> QED BY <1>3, <2>1 DEF panel
<1>12. CASE UNCHANGED vars
  BY <1>3, <1>12 DEF vars, panel
<1> QED BY <1>5, <1>6, <1>7, <1>8, <1>9, <1>10, <1>11, <1>12 DEF Next, Panel

LEMMA ListedAlways == Spec => []ListedKnown
<1>1. Init => ListedKnown
  BY DEF Init, ListedKnown
<1> QED BY <1>1, ListedStep, ShapeAlways, PTL DEF Spec

\* Once the page was mixed up, nothing more is said.
LEMMA MixedStays ==
  ASSUME [Next]_vars, mixed
  PROVE  mixed'
<1>1. CASE Chat
  BY <1>1 DEF Chat, StartTurn, Announce, EndTurn, FailTurn, Clear, Reload, Restored, notes
<1>2. CASE Autosave
  BY <1>2 DEF Autosave, SaveNew, SaveAgain
<1>3. CASE Snapshots
  BY <1>3 DEF Snapshots, Share, Arrives, notes
<1>4. CASE Panel
  BY <1>4 DEF Panel, OpenPanel, Listed, Delete, DeleteAll, Import, Choose, Opened, Show, notes
<1>5. CASE UNCHANGED vars
  BY <1>5 DEF vars, notes
<1> QED BY <1>1, <1>2, <1>3, <1>4, <1>5 DEF Next

\* The open stream is the page's, or is about to become it; the page is of its
\* session once it has been named.
StreamIsPages ==
  ~mixed /\ Busy =>
    /\ page.sess \in {NoSession, running}
    /\ announced => page.sess = running

LEMMA StreamStep ==
  ASSUME Shape, StreamIsPages, [Next]_vars
  PROVE  StreamIsPages'
<1>1. ASSUME NEW s \in Sessions, StartTurn(s)
      PROVE  StreamIsPages'
  <2>1. page \in Contents
    BY Facts
  <2>2. page' = [page EXCEPT !.turns = @ + 1] /\ (page.sess = NoSession \/ s = page.sess)
        /\ running' = s /\ announced' = FALSE
    BY <1>1 DEF StartTurn
  <2> QED BY <2>1, <2>2 DEF StreamIsPages, Contents
<1>2. CASE EndTurn \/ FailTurn \/ Reload
  BY <1>2 DEF EndTurn, FailTurn, Reload, StreamIsPages, Busy
<1>10. CASE Announce
  <2>1. page'.sess = running /\ running' = running
    BY <1>10, Facts DEF Announce, Contents
  <2> QED BY <2>1 DEF StreamIsPages
<1>3. CASE Clear \/ Restored
  BY <1>3 DEF Clear, Restored, StreamIsPages, Busy
<1>4. ASSUME UNCHANGED <<page, running, announced, mixed>>
      PROVE  StreamIsPages'
  BY <1>4 DEF StreamIsPages, Busy
<1>5. ASSUME NEW id \in opening, Opened(id)
      PROVE  StreamIsPages'
  <2>1. UNCHANGED <<running, announced>>
    BY <1>5 DEF Opened
  <2>2. CASE mixed' = (mixed \/ Busy)
    BY <2>1, <2>2 DEF StreamIsPages, Busy
  <2>3. CASE UNCHANGED <<page, conv, processing, timer, mixed>>
    BY <1>4, <2>1, <2>3
  <2> QED BY <1>5, <2>2, <2>3 DEF Opened, Show
<1>6. CASE Autosave
  BY <1>4, <1>6 DEF Autosave, SaveNew, SaveAgain, chat
<1>7. CASE Snapshots
  BY <1>4, <1>7 DEF Snapshots, Share, Arrives, chat, notes
<1>8. CASE Panel /\ ~ \E id \in opening : Opened(id)
  BY <1>4, <1>8 DEF Panel, OpenPanel, Listed, Delete, DeleteAll, Import, Choose, chat, notes
<1>9. CASE UNCHANGED vars
  BY <1>4, <1>9 DEF vars, chat, notes
<1> QED BY <1>1, <1>2, <1>3, <1>5, <1>6, <1>7, <1>8, <1>9, <1>10 DEF Next, Chat, Panel

LEMMA StreamAlways == Spec => []StreamIsPages
<1>1. Init => StreamIsPages
  BY DEF Init, StreamIsPages, Busy
<1> QED BY <1>1, StreamStep, ShapeAlways, PTL DEF Spec

\* A content is of its own session only, and an empty one of none.
Owned(content) ==
  content.of \subseteq {content.sess} /\ (content.turns = 0 => content.of = {})

SnapInv == ~mixed =>
  /\ SnapshotsAreOwn
  /\ \A p \in posts : Owned(p)
  /\ Owned(page)
  /\ \A i \in DOMAIN local : Owned(local[i].has)

LEMMA ServerOwned ==
  ASSUME Shape, NEW s \in Sessions, Known(s)
  PROVE  Owned(FromServer(s))
<1>1. server[s].turns \in Nat /\ server[s].turns > 0
  BY ShapeParts DEF ServerTyped, Known
<1> QED BY <1>1 DEF FromServer, Owned

\* Records stay owned if the page's content is.
LEMMA RecordsOwned ==
  ASSUME Shape, Next, Owned(page), \A i \in DOMAIN local : Owned(local[i].has)
  PROVE  \A i \in DOMAIN local' : Owned(local'[i].has)
<1>1. \A s : Owned(Imported(s))
  BY DEF Owned, Imported
<1> QED BY <1>1, ListMoves

\* Turns added to a page that has its session's content.
LEMMA TurnOwned ==
  ASSUME Shape, Owned(page), NEW n \in Nat, n > 0
  PROVE  Owned([page EXCEPT !.turns = @ + n])
<1>1. page \in Contents /\ page.turns \in Nat
  BY Facts DEF Contents
<1>2. /\ [page EXCEPT !.turns = @ + n].of = page.of
      /\ [page EXCEPT !.turns = @ + n].sess = page.sess
      /\ [page EXCEPT !.turns = @ + n].turns = page.turns + n
  BY <1>1 DEF Contents
<1> QED BY <1>1, <1>2 DEF Owned

LEMMA PageOwned ==
  ASSUME Shape, ListedKnown, StreamIsPages, SnapInv, Next, ~mixed'
  PROVE  Owned(page')
<1>1. ~mixed
  BY MixedStays
<1>2. Owned(page) /\ \A i \in DOMAIN local : Owned(local[i].has)
  BY <1>1 DEF SnapInv
<1>3. /\ page \in Contents /\ page.turns \in Nat /\ page.of \subseteq Sessions
      /\ restoring \in Sessions \cup {NoSession}
  BY ShapeParts DEF ChatTyped, Contents
<1>4. CASE UNCHANGED page
  BY <1>2, <1>4
<1>5. CASE \E s \in Sessions : StartTurn(s)
  <2>1. page' = [page EXCEPT !.turns = @ + 1]
    BY <1>5 DEF StartTurn
  <2> QED BY <1>2, <2>1, TurnOwned
<1>12. CASE FailTurn
  <2>1. page' = [page EXCEPT !.turns = @ + 1, !.of = IF announced THEN @ \cup {running} ELSE @]
        /\ Busy
    BY <1>12 DEF FailTurn
  <2>2. /\ page'.sess = page.sess /\ page'.turns = page.turns + 1
        /\ page'.of = IF announced THEN page.of \cup {running} ELSE page.of
    BY <1>3, <2>1 DEF Contents
  <2>3. announced => page.sess = running
    BY <1>1, <2>1 DEF StreamIsPages
  <2>4. page.of \subseteq {page.sess}
    BY <1>2 DEF Owned
  <2> QED BY <1>3, <2>2, <2>3, <2>4 DEF Owned
<1>13. CASE Announce
  <2>1. page' = [page EXCEPT !.sess = running] /\ Busy /\ UNCHANGED mixed
    BY <1>13 DEF Announce, notes
  <2>2. page'.sess = running /\ page'.turns = page.turns /\ page'.of = page.of
    BY <1>3, <2>1 DEF Contents
  <2>3. page.of \subseteq {running}
    <3>1. page.sess = NoSession \/ page.sess = running
      BY <1>1, <2>1 DEF StreamIsPages
    <3>2. page.of \subseteq {page.sess}
      BY <1>2 DEF Owned
    <3> QED BY <1>3, <3>1, <3>2, SessionsNat
  <2> QED BY <1>2, <2>2, <2>3 DEF Owned
<1>6. CASE EndTurn
  <2>1. page' = [sess |-> running, turns |-> page.turns + 1, of |-> page.of \cup {running}]
    BY <1>6 DEF EndTurn
  <2>2. page.of \subseteq {running}
    <3>1. page.sess = NoSession \/ page.sess = running
      BY <1>1, <1>6 DEF StreamIsPages, EndTurn
    <3>2. page.of \subseteq {page.sess}
      BY <1>2 DEF Owned
    <3> QED BY <1>3, <3>1, <3>2, SessionsNat
  <2> QED BY <1>3, <2>1, <2>2 DEF Owned
<1>7. CASE Clear \/ Reload
  <2>1. page'.of = {}
    BY <1>7 DEF Clear, Reload, Nothing
  <2> QED BY <2>1 DEF Owned
<1>8. CASE Restored
  <2>1. ~Busy /\ page.turns = 0 /\ page.sess = restoring /\ restoring \in Sessions
    <3>1. restoring # NoSession /\ mixed' = (mixed \/ Busy \/ page.turns > 0 \/ page.sess # restoring)
      BY <1>8 DEF Restored
    <3>2. ~(mixed \/ Busy \/ page.turns > 0 \/ page.sess # restoring)
      BY <3>1
    <3>3. ~Busy /\ ~(page.turns > 0) /\ page.sess = restoring
      BY <3>2
    <3> QED BY <1>3, <3>1, <3>3
  <2>2. CASE Known(restoring) /\ page' = [FromServer(restoring) EXCEPT !.sess = page.sess]
    <3>1. page' = FromServer(restoring)
      BY <2>1, <2>2 DEF FromServer
    <3> QED BY <2>1, <2>2, <3>1, ServerOwned
  <2>3. CASE page' = [page EXCEPT !.sess = NoSession]
    <3>1. page'.of = {}
      BY <1>2, <1>3, <2>1, <2>3 DEF Owned, Contents
    <3> QED BY <3>1 DEF Owned
  <2> QED BY <1>8, <2>2, <2>3 DEF Restored
<1>9. ASSUME NEW id \in opening, Opened(id)
      PROVE  Owned(page')
  <2>1. CASE id.in = "server" /\ Show(FromServer(id.n), id)
    <3>1. id.n \in Sessions /\ Known(id.n)
      BY <2>1, ShapeParts DEF ListedKnown, PanelTyped
    <3> QED BY <2>1, <3>1, ServerOwned DEF Show
  <2>2. CASE id.in = "local" /\ id.n \in LocalIds /\ Show(local[RecordOf(id.n)].has, id)
    <3>1. RecordOf(id.n) \in DOMAIN local
      BY <2>2, Found
    <3> QED BY <1>2, <2>2, <3>1 DEF Show
  <2>3. CASE UNCHANGED <<page, conv, processing, timer, mixed>>
    BY <1>2, <2>3
  <2> QED BY <1>9, <2>1, <2>2, <2>3 DEF Opened
<1>10. CASE Autosave \/ Snapshots
  BY <1>4, <1>10 DEF Autosave, SaveNew, SaveAgain, Snapshots, Share, Arrives, chat
<1>11. CASE Panel /\ ~ \E id \in opening : Opened(id)
  BY <1>4, <1>11 DEF Panel, OpenPanel, Listed, Delete, DeleteAll, Import, Choose, chat
<1> QED BY <1>5, <1>6, <1>7, <1>8, <1>9, <1>10, <1>11, <1>12, <1>13 DEF Next, Chat, Panel

LEMMA SnapStep ==
  ASSUME Shape, ListedKnown, StreamIsPages, SnapInv, [Next]_vars
  PROVE  SnapInv'
<1>1. CASE UNCHANGED vars
  BY <1>1 DEF SnapInv, SnapshotsAreOwn, Owned, vars, browser, chat, notes
<1>2. CASE Next
  <2> SUFFICES ASSUME ~mixed' PROVE SnapInv'
    BY DEF SnapInv
  <2>1. ~mixed
    BY <1>2, MixedStays
  <2>2. SnapshotsAreOwn /\ Owned(page) /\ \A p \in posts : Owned(p)
    BY <2>1 DEF SnapInv
  <2>3. Owned(page')
    BY <1>2, PageOwned
  <2>4. \A i \in DOMAIN local' : Owned(local'[i].has)
    BY <1>2, <2>1, RecordsOwned DEF SnapInv
  <2>5. /\ server \in [Sessions -> [turns : Nat, snap : Contents]]
        /\ running \in Sessions \cup {NoSession} /\ posts \subseteq Contents
    BY ShapeParts DEF ServerTyped, ChatTyped
  <2>6. posts' \subseteq posts \cup {page}
    <3>1. CASE Chat
      BY <3>1 DEF Chat, StartTurn, Announce, EndTurn, FailTurn, Clear, Reload, Restored
    <3>2. CASE Autosave
      BY <3>2 DEF Autosave, SaveNew, SaveAgain, Post
    <3>3. CASE Snapshots
      BY <3>3 DEF Snapshots, Share, Arrives
    <3>4. CASE Panel
      BY <3>4 DEF Panel, OpenPanel, Listed, Delete, DeleteAll, Import, Choose, Opened
    <3> QED BY <1>2, <3>1, <3>2, <3>3, <3>4 DEF Next
  <2>7. \A p \in posts' : Owned(p)
    BY <2>2, <2>6
  <2>8. SnapshotsAreOwn'
    <3> SUFFICES ASSUME NEW s \in Sessions PROVE server'[s].snap.of \subseteq {s}
      BY DEF SnapshotsAreOwn
    <3>1. server[s].snap.of \subseteq {s}
      BY <2>1, <2>2 DEF SnapshotsAreOwn
    <3>2. CASE UNCHANGED server
      BY <3>1, <3>2
    <3>3. ASSUME Heard
          PROVE  server'[s].snap.of \subseteq {s}
      <4>1. server' = [server EXCEPT ![running].turns = @ + 1]
        BY <3>3 DEF Heard
      <4>2. server'[s].snap = server[s].snap
        BY <2>5, <4>1
      <4> QED BY <3>1, <4>2
    <3>4. ASSUME NEW p \in posts, server' = [server EXCEPT ![p.sess].snap = p]
          PROVE  server'[s].snap.of \subseteq {s}
      <4>1. p.of \subseteq {p.sess}
        BY <2>2, <3>4 DEF Owned
      <4>2. server'[s].snap = IF s = p.sess THEN p ELSE server[s].snap
        BY <2>5, <3>4
      <4> QED BY <3>1, <4>1, <4>2
    <3>5. CASE Chat
      BY <3>2, <3>3, <3>5 DEF Chat, StartTurn, Announce, EndTurn, FailTurn, Clear, Reload, Restored
    <3>6. CASE Autosave
      BY <3>2, <3>6 DEF Autosave, SaveNew, SaveAgain
    <3>7. CASE Snapshots
      BY <3>2, <3>4, <3>7 DEF Snapshots, Share, Arrives
    <3>8. CASE Panel
      BY <3>2, <3>8 DEF Panel, OpenPanel, Listed, Delete, DeleteAll, Import, Choose, Opened
    <3> QED BY <1>2, <3>5, <3>6, <3>7, <3>8 DEF Next
  <2> QED BY <2>3, <2>4, <2>7, <2>8 DEF SnapInv, Owned
<1> QED BY <1>1, <1>2

\* A shared link shows its own conversation: no order of turns, restores, clicks
\* and late snapshots brings the content of another under a session's snapshot.
THEOREM SnapshotsShowTheirs == Spec => []SnapshotsAreOwn
<1>1. Init => SnapInv
  BY DEF Init, SnapInv, SnapshotsAreOwn, Owned, Nothing
<1>2. Spec => []SnapInv
  BY <1>1, SnapStep, ShapeAlways, ListedAlways, StreamAlways, PTL DEF Spec
<1>3. SnapInv => SnapshotsAreOwn
  BY DEF SnapInv, SnapshotsAreOwn
<1> QED BY <1>2, <1>3, PTL

-----------------------------------------------------------------------------
(* One record for each session. *)

\* The session that the page's conversation has, or is about to have.
Current == IF Busy THEN running ELSE page.sess

\* Two records of one session.
Twice(list) ==
  \E i, j \in DOMAIN list :
    i # j /\ list[i].has.sess # NoSession /\ list[i].has.sess = list[j].has.sess

\* Besides: records and the page are of sessions the server knows, so that a new
\* session has no record; and only the page's own record is of its session.
OneInv == ~mixed /\ ~copied =>
  /\ ~Twice(local)
  /\ restoring = NoSession
  /\ \A i \in DOMAIN local : local[i].has.sess # NoSession => Known(local[i].has.sess)
  /\ page.sess # NoSession => Known(page.sess)
  /\ conv.in # "server" => \A i \in DOMAIN local :
       local[i].id # conv.n /\ local[i].has.sess # NoSession => local[i].has.sess # Current

\* The server knows the session after the step.
KnownThen(s) == server'[s].turns > 0

LEMMA CopiedStays ==
  ASSUME [Next]_vars, copied
  PROVE  copied'
<1>1. CASE Chat
  BY <1>1 DEF Chat, StartTurn, Announce, EndTurn, FailTurn, Clear, Reload, Restored, notes
<1>2. CASE Autosave
  BY <1>2 DEF Autosave, SaveNew, SaveAgain
<1>3. CASE Snapshots
  BY <1>3 DEF Snapshots, Share, Arrives, notes
<1>4. CASE Panel
  BY <1>4 DEF Panel, OpenPanel, Listed, Delete, DeleteAll, Import, Choose, Opened, notes
<1>5. CASE UNCHANGED vars
  BY <1>5 DEF vars, notes
<1> QED BY <1>1, <1>2, <1>3, <1>4, <1>5 DEF Next

\* The records of the next list are of known sessions, each of one.
LEMMA RecordsOnce ==
  ASSUME Shape, StreamIsPages, OneInv, Next, ~mixed, ~copied, ~copied'
  PROVE  /\ ~Twice(local')
         /\ \A i \in DOMAIN local' : local'[i].has.sess # NoSession => Known(local'[i].has.sess)
<1>1. /\ ~Twice(local)
      /\ \A i \in DOMAIN local : local[i].has.sess # NoSession => Known(local[i].has.sess)
      /\ page.sess # NoSession => Known(page.sess)
      /\ conv.in # "server" => \A i \in DOMAIN local :
           local[i].id # conv.n /\ local[i].has.sess # NoSession => local[i].has.sess # Current
  BY DEF OneInv
<1>2. page.sess = NoSession \/ page.sess = Current
  BY DEF StreamIsPages, Current
<1>3. /\ OneIdEach(local')
      /\ \A j \in DOMAIN local' :
           \/ \E i \in DOMAIN local : local'[j] = local[i]
           \/ local'[j].id = created + 1 /\ local'[j].has = page /\ conv = NoId
           \/ /\ conv.in = "local" /\ conv.n \in LocalIds
              /\ local'[j].id = conv.n /\ local'[j].has = page
  BY ListMoves
<1> DEFINE Kept(j) == \E i \in DOMAIN local : local'[j] = local[i]
           Own == IF conv = NoId THEN created + 1 ELSE conv.n
<1>4. \A j \in DOMAIN local' : Kept(j) \/ (local'[j].id = Own /\ local'[j].has = page /\ conv.in # "server")
  BY <1>3 DEF NoId
<1>5. ASSUME NEW j \in DOMAIN local', Kept(j), local'[j].id # Own, conv.in # "server",
             local'[j].has.sess # NoSession
      PROVE  local'[j].has.sess # Current
  <2>1. PICK i \in DOMAIN local : local'[j] = local[i]
    BY <1>5
  <2>2. local[i].id # conv.n
    <3>1. CASE conv = NoId
      <4>1. local[i].id \in Nat \ {0} /\ conv.n = 0
        BY <3>1, Facts DEF Records, NoId
      <4> QED BY <4>1
    <3>2. CASE conv # NoId
      BY <1>5, <2>1, <3>2
    <3> QED BY <3>1, <3>2
  <2> QED BY <1>1, <1>5, <2>1, <2>2
<1>6. ASSUME NEW i \in DOMAIN local', NEW j \in DOMAIN local', i # j,
             local'[i].has.sess # NoSession, local'[i].has.sess = local'[j].has.sess
      PROVE  FALSE
  <2>1. local'[i].id # local'[j].id
    BY <1>3, <1>6 DEF OneIdEach
  <2>2. CASE Kept(i) /\ Kept(j)
    <3>1. PICK k \in DOMAIN local, l \in DOMAIN local : local'[i] = local[k] /\ local'[j] = local[l]
      BY <2>2
    <3>2. k # l
      BY <2>1, <3>1
    <3> QED BY <1>1, <1>6, <3>1, <3>2 DEF Twice
  <2>3. CASE ~Kept(i)
    <3>1. local'[i].id = Own /\ local'[i].has = page /\ conv.in # "server"
      BY <1>4, <2>3
    <3>2. Kept(j) /\ local'[j].id # Own
      BY <1>4, <2>1, <3>1
    <3> HIDE DEF Kept, Own
    <3> QED BY <1>2, <1>5, <1>6, <3>1, <3>2
  <2>4. CASE ~Kept(j)
    <3>1. local'[j].id = Own /\ local'[j].has = page /\ conv.in # "server"
      BY <1>4, <2>4
    <3>2. Kept(i) /\ local'[i].id # Own
      BY <1>4, <2>1, <3>1
    <3> HIDE DEF Kept, Own
    <3> QED BY <1>2, <1>5, <1>6, <3>1, <3>2
  <2> QED BY <2>2, <2>3, <2>4
<1>7. \A i \in DOMAIN local' : local'[i].has.sess # NoSession => Known(local'[i].has.sess)
  BY <1>1, <1>4
<1> QED BY <1>6, <1>7 DEF Twice

\* The page and the records besides its own stay apart.
LEMMA PageApart ==
  ASSUME Shape, StreamIsPages, ListedKnown, OneInv, Next, ~mixed', ~copied'
  PROVE  /\ page'.sess # NoSession => KnownThen(page'.sess)
         /\ conv'.in # "server" => \A i \in DOMAIN local' :
              local'[i].id # conv'.n /\ local'[i].has.sess # NoSession => local'[i].has.sess # Current'
<1>1. ~mixed /\ ~copied
  BY MixedStays, CopiedStays
<1>2. /\ ~Twice(local) /\ restoring = NoSession
      /\ \A i \in DOMAIN local : local[i].has.sess # NoSession => Known(local[i].has.sess)
      /\ page.sess # NoSession => Known(page.sess)
      /\ conv.in # "server" => \A i \in DOMAIN local :
           local[i].id # conv.n /\ local[i].has.sess # NoSession => local[i].has.sess # Current
  BY <1>1 DEF OneInv
<1>3. /\ page \in Contents /\ page.sess \in Sessions \cup {NoSession}
      /\ running \in Sessions \cup {NoSession}
      /\ \A i \in DOMAIN local : local[i].has.sess \in Sessions \cup {NoSession} /\ local[i].id \in Nat \ {0}
  BY ShapeParts, Facts DEF ChatTyped, Contents, Records
<1>4. \A s \in Sessions : Known(s) => KnownThen(s)
  BY KnownStays DEF Known, KnownThen
<1>5. page.sess # NoSession => KnownThen(page.sess)
  BY <1>2, <1>3, <1>4
<1>6. CASE \E s \in Sessions : StartTurn(s)
  <2>1. PICK s \in Sessions : StartTurn(s)
    BY <1>6
  <2>2. page'.sess = page.sess
    BY <1>3, <2>1 DEF StartTurn, Contents
  <2>3. UNCHANGED <<local, conv, server>> /\ running' = s /\ ~Busy
    BY <2>1 DEF StartTurn, browser
  <2>4. page.sess = NoSession \/ s = page.sess
    BY <2>1 DEF StartTurn
  <2>5. page.sess = NoSession => ~Known(s)
    BY <2>1 DEF StartTurn
  <2>6. Current' = s /\ Current = page.sess
    BY <2>3, SessionsNat DEF Current, Busy
  <2>7. \A i \in DOMAIN local : conv.in # "server" /\ local[i].id # conv.n
          /\ local[i].has.sess # NoSession => local[i].has.sess # s
    <3>1. CASE page.sess = NoSession
      BY <1>2, <2>5, <3>1
    <3>2. CASE s = page.sess
      BY <1>2, <2>6, <3>2
    <3> QED BY <2>4, <3>1, <3>2
  <2> QED BY <1>5, <2>2, <2>3, <2>6, <2>7
<1>7. CASE EndTurn
  <2>1. /\ Busy /\ announced /\ UNCHANGED <<local, conv, server>> /\ running' = NoSession
        /\ page'.sess = running
    BY <1>7 DEF EndTurn, browser
  <2>2. Current' = running /\ Current = running /\ page.sess = running
    BY <1>1, <2>1 DEF Current, Busy, StreamIsPages
  <2> QED BY <1>2, <1>5, <2>1, <2>2
<1>21. CASE Announce
  <2>1. /\ running \in Sessions /\ Busy /\ UNCHANGED <<local, conv, running>>
        /\ server' = [server EXCEPT ![running].turns = @ + 1] /\ page'.sess = running
    BY <1>3, <1>21 DEF Announce, Heard, Busy, browser, Contents
  <2>2. Current' = running /\ Current = running
    BY <2>1 DEF Current, Busy
  <2>3. KnownThen(running)
    <3>1. server \in [Sessions -> [turns : Nat, snap : Contents]]
      BY ShapeParts DEF ServerTyped
    <3>2. server'[running].turns = server[running].turns + 1 /\ server[running].turns \in Nat
      BY <2>1, <3>1
    <3>3. server'[running].turns > 0
      BY <3>2
    <3> QED BY <3>3 DEF KnownThen
  <2> QED BY <1>2, <2>1, <2>2, <2>3
<1>8. CASE FailTurn
  <2>1. UNCHANGED <<local, conv>> /\ Busy /\ running' = NoSession
    BY <1>8 DEF FailTurn, browser
  <2>2. page'.sess = page.sess
    BY <1>3, <1>8 DEF FailTurn, Contents
  <2>3. page.sess = NoSession \/ page.sess = running
    BY <1>1, <2>1 DEF StreamIsPages
  <2>4. Current' = page.sess /\ Current = running
    BY <2>1, <2>2 DEF Current, Busy
  <2> QED BY <1>2, <1>5, <2>1, <2>2, <2>3, <2>4
<1>9. CASE Clear
  <2>1. page'.sess = NoSession /\ ~Busy /\ running' = running /\ UNCHANGED local
    BY <1>9 DEF Clear, Nothing, browser
  <2>2. Current' = NoSession
    BY <2>1 DEF Current, Busy
  <2> QED BY <2>1, <2>2
<1>10. CASE Reload \/ Restored
  BY <1>2, <1>10 DEF Reload, Restored
<1>11. ASSUME UNCHANGED <<page, conv, running>>,
              \A j \in DOMAIN local' : local'[j].id # conv.n => \E i \in DOMAIN local : local'[j] = local[i]
       PROVE  /\ page'.sess # NoSession => KnownThen(page'.sess)
              /\ conv'.in # "server" => \A i \in DOMAIN local' :
                   local'[i].id # conv'.n /\ local'[i].has.sess # NoSession
                     => local'[i].has.sess # Current'
  <2>1. Current' = Current
    BY <1>11 DEF Current, Busy
  <2>2. page'.sess # NoSession => KnownThen(page'.sess)
    BY <1>5, <1>11
  <2> QED BY <1>2, <1>11, <2>1, <2>2
<1>12. CASE SaveNew
  <2>1. PICK save \in Saves(<<NewRecord(page)>> \o local) :
          /\ local' = save.local
          /\ IF save.throws
             THEN timer' = FALSE /\ UNCHANGED <<conv, posts>>
             ELSE timer' = TRUE /\ conv' = LocalId(created + 1) /\ Post
    BY <1>12 DEF SaveNew, NewRecord
  <2>2. conv = NoId /\ UNCHANGED <<page, running, server>>
    BY <1>12 DEF SaveNew
  <2>3. NewRecord(page) \in Records /\ NewRecord(page).id = created + 1
    BY <1>3, NewTyped
  <2>4. /\ \A j \in DOMAIN local' :
             local'[j] = NewRecord(page) \/ \E i \in DOMAIN local : local'[j] = local[i]
        /\ save.throws => local' = local
    BY <2>1, <2>3, SaveMoves
  <2>5. Current' = Current
    BY <2>2 DEF Current, Busy
  <2>6. CASE save.throws
    <3>1. UNCHANGED <<page, conv, running, local>>
      BY <2>1, <2>2, <2>4, <2>6
    <3> QED BY <1>11, <3>1
  <2>7. CASE ~save.throws
    <3>1. conv'.n = created + 1
      BY <2>1, <2>7 DEF LocalId
    <3>2. \A i \in DOMAIN local : local[i].has.sess # NoSession => local[i].has.sess # Current
      BY <1>2, <1>3, <2>2 DEF NoId
    <3>3. \A j \in DOMAIN local' : local'[j].id # conv'.n => \E i \in DOMAIN local : local'[j] = local[i]
      BY <2>3, <2>4, <3>1
    <3> QED BY <1>5, <2>2, <2>5, <3>2, <3>3
  <2> QED BY <2>6, <2>7
<1>13. CASE SaveAgain
  <2>1. UNCHANGED <<page, conv, running>>
    BY <1>13 DEF SaveAgain, chat
  <2>2. \A j \in DOMAIN local' : local'[j].id # conv.n => \E i \in DOMAIN local : local'[j] = local[i]
    BY <1>13, AgainMoves
  <2> QED BY <1>11, <2>1, <2>2
<1>14. CASE \E id \in shown.local : Delete(id)
  <2>1. UNCHANGED <<page, conv, running>>
    BY <1>14 DEF Delete, chat
  <2>2. \A j \in DOMAIN local' : \E i \in DOMAIN local : local'[j] = local[i]
    BY <1>14, DeleteMoves
  <2> QED BY <1>11, <2>1, <2>2
<1>15. CASE DeleteAll
  <2>1. UNCHANGED <<page, conv, running>> /\ local' = <<>>
    BY <1>15 DEF DeleteAll, chat
  <2> QED BY <1>11, <2>1
<1>16. CASE \E s : Import(s)
  BY <1>16 DEF Import
<1>17. ASSUME NEW id \in opening, Opened(id)
       PROVE  /\ page'.sess # NoSession => KnownThen(page'.sess)
              /\ conv'.in # "server" => \A i \in DOMAIN local' :
                   local'[i].id # conv'.n /\ local'[i].has.sess # NoSession
                     => local'[i].has.sess # Current'
  <2>1. UNCHANGED <<local, running, server>>
    BY <1>17 DEF Opened, browser
  <2>2. CASE id.in = "server" /\ Show(FromServer(id.n), id)
    <3>1. page'.sess = id.n /\ conv'.in = "server"
      BY <2>2 DEF Show, FromServer
    <3>2. KnownThen(id.n) /\ id.n \in Sessions
      BY <1>4, <2>2, ShapeParts DEF ListedKnown, PanelTyped
    <3> QED BY <3>1, <3>2
  <2>3. CASE id.in = "local" /\ id.n \in LocalIds /\ Show(local[RecordOf(id.n)].has, id)
    <3> DEFINE k == RecordOf(id.n)
    <3>1. k \in DOMAIN local /\ local[k].id = id.n
      BY <2>3, Found
    <3>2. page' = local[k].has /\ conv' = id /\ ~Busy
      BY <2>3 DEF Show
    <3> HIDE DEF k
    <3>3. Current' = local[k].has.sess
      BY <2>1, <3>2 DEF Current, Busy
    <3>4. page'.sess # NoSession => KnownThen(page'.sess)
      BY <1>2, <1>3, <1>4, <3>1, <3>2
    <3>5. \A i \in DOMAIN local : local[i].id # id.n /\ local[i].has.sess # NoSession
            => local[i].has.sess # local[k].has.sess
      BY <1>2, <3>1 DEF Twice
    <3> QED BY <2>1, <3>2, <3>3, <3>4, <3>5
  <2>4. CASE UNCHANGED <<page, conv, processing, timer, mixed>>
    BY <1>11, <2>1, <2>4
  <2> QED BY <1>17, <2>2, <2>3, <2>4 DEF Opened
<1>18. ASSUME UNCHANGED <<page, conv, running, local>>
       PROVE  /\ page'.sess # NoSession => KnownThen(page'.sess)
              /\ conv'.in # "server" => \A i \in DOMAIN local' :
                   local'[i].id # conv'.n /\ local'[i].has.sess # NoSession
                     => local'[i].has.sess # Current'
  BY <1>11, <1>18
<1>19. CASE OpenPanel \/ (\E load \in loads : Listed(load)) \/ (\E id : Choose(id))
  BY <1>18, <1>19 DEF OpenPanel, Listed, Choose, chat, browser
<1>20. CASE Snapshots
  BY <1>18, <1>20 DEF Snapshots, Share, Arrives, chat, browser
<1> QED
  BY <1>6, <1>7, <1>8, <1>9, <1>10, <1>12, <1>13, <1>14, <1>15, <1>16, <1>17, <1>19, <1>20,
     <1>21
  DEF Next, Chat, Autosave, Panel

LEMMA OneStep ==
  ASSUME Shape, StreamIsPages, ListedKnown, OneInv, [Next]_vars
  PROVE  OneInv'
<1>1. CASE UNCHANGED vars
  BY <1>1 DEF OneInv, Twice, Current, Known, Busy, vars, browser, chat, notes
<1>2. CASE Next
  <2> SUFFICES ASSUME ~mixed', ~copied' PROVE OneInv'
    BY DEF OneInv
  <2>1. ~mixed /\ ~copied
    BY <1>2, MixedStays, CopiedStays
  <2>2. /\ ~Twice(local')
        /\ \A i \in DOMAIN local' : local'[i].has.sess # NoSession => Known(local'[i].has.sess)
    BY <1>2, <2>1, RecordsOnce
  <2>3. \A i \in DOMAIN local' : local'[i].has.sess # NoSession => KnownThen(local'[i].has.sess)
    <3>1. local' \in Seq(Records)
      BY <1>2, ListMoves
    <3>2. \A i \in DOMAIN local' : local'[i].has.sess \in Sessions \cup {NoSession}
      <4>1. \A i \in DOMAIN local' : local'[i] \in Records
        BY <3>1
      <4> QED BY <4>1 DEF Records, Contents
    <3>3. \A s \in Sessions : Known(s) => KnownThen(s)
      BY KnownStays DEF Known, KnownThen
    <3> QED BY <2>2, <3>2, <3>3
  <2>4. restoring' = NoSession
    <3>1. restoring = NoSession
      BY <2>1 DEF OneInv
    <3>2. CASE Chat
      BY <3>1, <3>2 DEF Chat, StartTurn, Announce, EndTurn, FailTurn, Clear, Reload, Restored
    <3>3. CASE Autosave
      BY <3>1, <3>3 DEF Autosave, SaveNew, SaveAgain, chat
    <3>4. CASE Snapshots
      BY <3>1, <3>4 DEF Snapshots, Share, Arrives, chat
    <3>5. CASE Panel
      BY <3>1, <3>5 DEF Panel, OpenPanel, Listed, Delete, DeleteAll, Import, Choose, Opened, chat
    <3> QED BY <1>2, <3>2, <3>3, <3>4, <3>5 DEF Next
  <2>5. /\ page'.sess # NoSession => KnownThen(page'.sess)
        /\ conv'.in # "server" => \A i \in DOMAIN local' :
             local'[i].id # conv'.n /\ local'[i].has.sess # NoSession => local'[i].has.sess # Current'
    BY <1>2, PageApart
  <2> QED BY <2>2, <2>3, <2>4, <2>5 DEF OneInv, Twice, Known, KnownThen
<1> QED BY <1>1, <1>2

\* A session has one record: neither the second save of a timer, a conversation
\* opened twice, nor records deleted under an open conversation bring a second.
THEOREM SessionsRecordedOnce == Spec => []OneRecordEach
<1>1. Init => OneInv
  <2> SUFFICES ASSUME Init PROVE OneInv
    OBVIOUS
  <2>1. local = <<>> /\ restoring = NoSession /\ page.sess = NoSession
    BY DEF Init, Nothing
  <2> QED BY <2>1 DEF OneInv, Twice
<1>2. Spec => []OneInv
  BY <1>1, OneStep, ShapeAlways, ListedAlways, StreamAlways, PTL DEF Spec
<1>3. OneInv => OneRecordEach
  BY DEF OneInv, Twice, OneRecordEach
<1> QED BY <1>2, <1>3, PTL
=============================================================================
