--------------------------- MODULE HotReloadProofs ---------------------------
(***************************************************************************)
(* Proofs about HotReload: type correctness, that a request runs on the    *)
(* configuration it has a right to, and that the installed runner stays    *)
(* connected, for any number of requests, writers, versions and contents.  *)
(*                                                                         *)
(* The safety properties are not inductive: whether the runner matches the *)
(* source depends on what the holder of reloadMu has read so far and on    *)
(* lastCfg, against which it will diff.  IInv relates the three.           *)
(***************************************************************************)
EXTENDS HotReload, TLAPS

\* reloadMu: exactly its holder is inside the locked region.
MutexInv == \A r \in Requests : pc[r] \in Locked <=> lock = r

\* Nobody has seen a version that does not exist yet.
VersionsInv ==
  /\ lastVersion <= version
  /\ \A r \in Requests : seen[r] <= version

\* The sections request r has read in this reload.
HasRead(r) ==
  CASE pc[r] = "agents" -> FileSections
    [] pc[r] = "memory" -> FileSections \cup {"agents"}
    [] pc[r] = "sandbox" -> FileSections \cup {"agents", "memory"}
    [] pc[r] \in {"reload", "build", "swap", "commit"} -> Sections
    [] OTHER -> {}

\* The runner that a reload compares against: once r has swapped, or found
\* nothing to swap, the runner has r's heavy sections, before that those of
\* lastCfg.
RunnerInv ==
  \A s \in HeavySections :
    /\ (\A r \in Requests : pc[r] # "commit") => runner.cfg[s] = lastCfg[s]
    /\ \A r \in Requests : pc[r] = "commit" => runner.cfg[s] = newCfg[r][s]

\* What is stored stands, and what r has read under the current version stood
\* when it was read.
ReadInv ==
  /\ \A s \in HeavySections : stored[s] \in standing[s]
  /\ \A r \in Requests : seen[r] = version =>
       \A s \in HasRead(r) \cap HeavySections : newCfg[r][s] \in standing[s]

\* Somebody knows the current version to be in service.
Fresh == lastVersion = version \/ \E r \in Requests : Current(r)

\* Then everything a reload looks at has stood since the version was bumped.
Agreement ==
  /\ \A s \in HeavySections : lastCfg[s] \in standing[s]
  /\ InService
  /\ \A r \in Requests :
       \A s \in HasRead(r) \cap HeavySections : newCfg[r][s] \in standing[s]

IInv ==
  /\ TypeOK
  /\ MutexInv
  /\ VersionsInv
  /\ RunnerInv
  /\ ReadInv
  /\ Fresh => Agreement

-----------------------------------------------------------------------------

\* The sections partition into the two places they are read from.
LEMMA SectionFacts ==
  /\ DBSections = {"agents", "memory", "sandbox"}
  /\ Sections = FileSections \cup DBSections
  /\ HeavySections \subseteq Sections
BY DEF Sections, FileSections, DBSections, HeavySections

\* Taking some sections from another configuration yields a configuration.
LEMMA OverlayType ==
  ASSUME NEW c \in Config, NEW S, NEW d \in Config
  PROVE  Overlay(c, S, d) \in Config
BY DEF Overlay, Config

\* The step of a writer that stores new keeps the history's type, and it is new
\* that is stored and stands beside what stood before.
LEMMA StoreFacts ==
  ASSUME TypeOK, NEW new \in Config, Store(new)
  PROVE  /\ stored' = new
         /\ standing' \in [HeavySections -> SUBSET Vals]
         /\ \A s \in HeavySections : standing[s] \subseteq standing'[s] /\ new[s] \in standing'[s]
BY SectionFacts DEF TypeOK, Store, Config

LEMMA InitConfigType == InitConfig \in Config
BY ValsAssumption DEF InitConfig, Config

\* Every variable keeps its type: TypeOK is inductive by itself.
LEMMA TypeStep == TypeOK /\ [Next]_vars => TypeOK'
<1> SUFFICES ASSUME TypeOK, [Next]_vars PROVE TypeOK'
  OBVIOUS
<1> USE InitConfigType DEF TypeOK, source, applied, built, local, vars, Steps, Locked, DBSections
<1>1. ASSUME NEW w \in Writers, Truncate(w) PROVE TypeOK'
  <2>1. [s \in Sections |-> Blank] \in Config
    BY ValsAssumption DEF Config
  <2>2. Overlay(stored, FileSections, [s \in Sections |-> Blank]) \in Config
    BY <2>1, OverlayType
  <2>3. stored' \in Config /\ standing' \in [HeavySections -> SUBSET Vals]
    BY <1>1, <2>2, StoreFacts DEF Truncate
  <2> QED BY <1>1, <2>3, SectionFacts DEF Truncate, Edits
<1>2. ASSUME NEW w \in Writers, WriteFile(w) \/ WriteFileFails(w) PROVE TypeOK'
  <2>1. stored' \in Config /\ standing' \in [HeavySections -> SUBSET Vals]
    BY <1>2, OverlayType, StoreFacts DEF WriteFile, WriteFileFails
  <2> QED BY <1>2, <2>1 DEF WriteFile, WriteFileFails, Done
<1>3. ASSUME NEW w \in Writers, WriteKey(w) \/ WriteKeyFails(w) PROVE TypeOK'
  <2>1. wpc[w] \in DBSections => AfterKey(wpc[w], "bump") \in DBSections \cup {"bump"}
    BY SectionFacts DEF AfterKey
  <2>2. [stored EXCEPT ![wpc[w]] = wnew[w][wpc[w]]] \in Config
    BY <1>3, SectionFacts DEF WriteKey, WriteKeyFails, Config
  <2>3. stored' \in Config /\ standing' \in [HeavySections -> SUBSET Vals]
    BY <1>3, <2>2, StoreFacts DEF WriteKey, WriteKeyFails
  <2> QED BY <1>3, <2>1, <2>3 DEF WriteKey, WriteKeyFails
<1>4. ASSUME NEW w \in Writers, BumpVersion(w) PROVE TypeOK'
  <2>1. standing' \in [HeavySections -> SUBSET Vals]
    BY <1>4, SectionFacts DEF BumpVersion, Config
  <2> QED BY <1>4, <2>1 DEF BumpVersion, Done
<1>5. ASSUME NEW r \in Requests, Arrive(r) PROVE TypeOK'
  BY <1>5, OverlayType, NoOneAssumption DEF Arrive, Goto
<1>6. ASSUME NEW r \in Requests, Compare(r) PROVE TypeOK'
  BY <1>6, OverlayType, NoOneAssumption DEF Compare, Goto
<1>7. ASSUME NEW r \in Requests, Lock(r) PROVE TypeOK'
  BY <1>7, OverlayType, NoOneAssumption DEF Lock, Goto
<1>8. ASSUME NEW r \in Requests, ReadFile(r) PROVE TypeOK'
  BY <1>8, OverlayType, NoOneAssumption DEF ReadFile, Goto
<1>9. ASSUME NEW r \in Requests, ReadFails(r) PROVE TypeOK'
  BY <1>9, OverlayType, NoOneAssumption DEF ReadFails, Goto, GiveUp
<1>10. ASSUME NEW r \in Requests, ReadKey(r) PROVE TypeOK'
  <2>1. AfterKey(pc[r], "reload") \in DBSections \cup {"reload"}
    BY <1>10, SectionFacts DEF ReadKey, AfterKey
  <2>2. newCfg' \in [Requests -> Config]
    BY <1>10, SectionFacts DEF ReadKey, Config
  <2> QED BY <1>10, <2>1, <2>2 DEF ReadKey, Goto
<1>11. ASSUME NEW r \in Requests, ReloadInPlace(r) PROVE TypeOK'
  <2>1. newCfg[r]["memory"] \in Vals /\ newCfg[r]["skills"] \in Vals
    BY SectionFacts DEF Config, FileSections
  <2> QED BY <1>11, <2>1 DEF ReloadInPlace, Reskilled, Goto
<1>12. ASSUME NEW r \in Requests, BuildFails(r) PROVE TypeOK'
  BY <1>12, OverlayType, NoOneAssumption DEF BuildFails, Goto, GiveUp
<1>13. ASSUME NEW r \in Requests, Connect(r) PROVE TypeOK'
  BY <1>13, OverlayType, NoOneAssumption DEF Connect, Goto
<1>14. ASSUME NEW r \in Requests, AssembleFails(r) PROVE TypeOK'
  BY <1>14, OverlayType, NoOneAssumption DEF AssembleFails, Goto, GiveUp
<1>15. ASSUME NEW r \in Requests, Swap(r) PROVE TypeOK'
  BY <1>15, OverlayType, NoOneAssumption DEF Swap, Goto, Replaced, Runner
<1>16. ASSUME NEW r \in Requests, Commit(r) PROVE TypeOK'
  BY <1>16, OverlayType, NoOneAssumption DEF Commit, Applies, Goto
<1>17. ASSUME NEW r \in Requests, StartRun(r) PROVE TypeOK'
  BY <1>17, OverlayType, NoOneAssumption DEF StartRun, Goto, Runner
<1>18. ASSUME NEW r \in Requests, EndRun(r) PROVE TypeOK'
  BY <1>18, OverlayType, NoOneAssumption DEF EndRun, Goto
<1>19. ASSUME NEW g \in grace, GraceClose(g) PROVE TypeOK'
  BY <1>19 DEF GraceClose
<1>20. CASE UNCHANGED vars
  BY <1>20
<1> QED
  BY <1>1, <1>2, <1>3, <1>4, <1>5, <1>6, <1>7, <1>8, <1>9, <1>10, <1>11, <1>12, <1>13, <1>14, <1>15, <1>16, <1>17, <1>18, <1>19, <1>20
     DEF Next, RequestStep, WriterStep

\* The model is well typed (the type invariant the runs check).
THEOREM TypeCorrect == Spec => []TypeOK
<1>1. Init => TypeOK
  BY InitConfigType, ValsAssumption
     DEF Init, TypeOK, Runner, Steps, Locked, DBSections
<1> QED BY <1>1, TypeStep, PTL DEF Spec

-----------------------------------------------------------------------------
(* Each action preserves the invariant.  Writers only touch the source: a  *)
(* store adds to what stands, and a bump makes a version nobody has seen,  *)
(* so nothing is claimed until somebody reads again.                       *)

\* What a writer's step does to what stands.
LEMMA WriterStands ==
  ASSUME TypeOK, ReadInv, NEW w \in Writers, Truncate(w) \/ WriterStep(w)
  PROVE  /\ \A s \in HeavySections : stored'[s] \in standing'[s]
         /\ \/ /\ version' = version
               /\ \A s \in HeavySections : standing[s] \subseteq standing'[s]
            \/ version' = version + 1
<1> USE DEF TypeOK
<1>1. CASE Truncate(w)
  <2>1. [s \in Sections |-> Blank] \in Config
    BY ValsAssumption DEF Config
  <2>2. Overlay(stored, FileSections, [s \in Sections |-> Blank]) \in Config
    BY <2>1, OverlayType
  <2> QED BY <1>1, <2>2, StoreFacts DEF Truncate
<1>2. CASE WriteFile(w) \/ WriteFileFails(w)
  BY <1>2, OverlayType, StoreFacts DEF WriteFile, WriteFileFails
<1>3. CASE WriteKey(w)
  <2>1. [stored EXCEPT ![wpc[w]] = wnew[w][wpc[w]]] \in Config
    BY <1>3, SectionFacts DEF WriteKey, Config
  <2> QED BY <1>3, <2>1, StoreFacts DEF WriteKey
<1>4. CASE WriteKeyFails(w)
  BY <1>4 DEF WriteKeyFails, ReadInv
<1>5. CASE BumpVersion(w)
  BY <1>5 DEF BumpVersion
<1> QED BY <1>1, <1>2, <1>3, <1>4, <1>5 DEF WriterStep

LEMMA WriterSteps ==
  ASSUME IInv, TypeOK', NEW w \in Writers, Truncate(w) \/ WriterStep(w)
  PROVE  IInv'
<1> USE DEF IInv, TypeOK
<1>1. UNCHANGED <<applied, built, lock, local>>
  BY DEF Truncate, WriterStep, WriteFile, WriteFileFails, WriteKey, WriteKeyFails, BumpVersion
<1>2. MutexInv' /\ RunnerInv'
  BY <1>1 DEF MutexInv, RunnerInv, applied, built, local
<1>3. UNCHANGED <<lastVersion, lastCfg, runner, pc, seen, newCfg, ok>>
  BY <1>1 DEF applied, built, local
<1>4. \A r \in Requests : HasRead(r)' = HasRead(r)
  BY <1>3 DEF HasRead
<1>5. CASE /\ version' = version
           /\ \A s \in HeavySections : standing[s] \subseteq standing'[s]
  <2>1. VersionsInv'
    BY <1>3, <1>5 DEF VersionsInv
  <2>2. ReadInv'
    BY <1>3, <1>4, <1>5, WriterStands DEF ReadInv
  <2>3. Fresh' => Agreement'
    BY <1>3, <1>4, <1>5 DEF Fresh, Current, Agreement, InService
  <2> QED BY <1>2, <2>1, <2>2, <2>3
<1>6. CASE version' = version + 1
  <2>1. \A r \in Requests : seen'[r] # version'
    BY <1>3, <1>6 DEF VersionsInv
  <2>2. ReadInv' /\ ~Fresh' /\ VersionsInv'
    BY <1>3, <1>6, <2>1, WriterStands DEF ReadInv, Fresh, Current, VersionsInv
  <2> QED BY <1>2, <2>2
<1> QED BY <1>5, <1>6, WriterStands

\* The steps of a request leave the source alone.
LEMMA RequestKeepsSource ==
  ASSUME NEW r \in Requests, Arrive(r) \/ RequestStep(r) \/ EndRun(r)
  PROVE  UNCHANGED <<stored, version, standing>>
BY DEF RequestStep, Arrive, Compare, Lock, ReadFile, ReadFails, ReadKey,
       ReloadInPlace, BuildFails, Connect, AssembleFails, Swap, Commit,
       StartRun, EndRun, source

\* Entering and leaving: nothing is read, and a request that is let through
\* on the fast path or at the re-check knows only what lastVersion knows.
LEMMA OutsideStep ==
  ASSUME IInv, TypeOK', NEW r \in Requests,
         Arrive(r) \/ Compare(r) \/ Lock(r) \/ StartRun(r) \/ EndRun(r)
  PROVE  IInv'
<1> DEFINE A == Arrive(r) \/ Compare(r) \/ Lock(r) \/ StartRun(r) \/ EndRun(r)
<1> USE DEF IInv, TypeOK
<1>1. UNCHANGED <<stored, version, standing, applied, built, newCfg>>
  BY RequestKeepsSource
     DEF RequestStep, Arrive, Compare, Lock, StartRun, EndRun, source, applied, built
<1>2. MutexInv'
  BY NoOneAssumption DEF MutexInv, Arrive, Compare, Lock, StartRun, EndRun, Goto, Locked, DBSections
<1>3. VersionsInv'
  BY <1>1 DEF VersionsInv, Arrive, Compare, Lock, StartRun, EndRun, applied
<1>4. \A q \in Requests : HasRead(q)' = HasRead(q) \/ HasRead(q)' = {}
  BY DEF HasRead, Arrive, Compare, Lock, StartRun, EndRun, Goto
<1>5. \A q \in Requests : pc'[q] = "commit" <=> pc[q] = "commit"
  BY DEF Arrive, Compare, Lock, StartRun, EndRun, Goto
<1>6. RunnerInv'
  BY <1>1, <1>5 DEF RunnerInv, applied, built
<1>7. \A q \in Requests : seen'[q] = seen[q] \/ HasRead(q)' = {}
  BY DEF HasRead, Arrive, Compare, Lock, StartRun, EndRun, Goto
<1>8. ReadInv'
  BY <1>1, <1>4, <1>7 DEF ReadInv
<1>9. \A q \in Requests : Current(q)' => Fresh
  BY <1>1 DEF Current, Fresh, Arrive, Compare, Lock, StartRun, EndRun, Goto
<1>10. Fresh' => Fresh
  BY <1>1, <1>9 DEF Fresh, applied
<1>11. Agreement => Agreement'
  BY <1>1, <1>4 DEF Agreement, InService, applied, built
<1> QED BY <1>2, <1>3, <1>6, <1>8, <1>10, <1>11

\* Reading: what is read is what is stored.
LEMMA ReadStep ==
  ASSUME IInv, TypeOK', NEW r \in Requests, ReadFile(r) \/ ReadKey(r)
  PROVE  IInv'
<1> USE DEF IInv, TypeOK
<1>1. UNCHANGED <<stored, version, standing, applied, built, lock, seen, ok>>
  BY RequestKeepsSource
     DEF RequestStep, ReadFile, ReadKey, source, applied, built
<1>2. MutexInv'
  BY <1>1 DEF MutexInv, ReadFile, ReadKey, AfterKey, Goto, Locked, DBSections
<1>3. VersionsInv'
  BY <1>1 DEF VersionsInv, applied
<1>4. \A q \in Requests :
         /\ pc'[q] = "commit" <=> pc[q] = "commit"
         /\ pc[q] = "commit" => newCfg'[q] = newCfg[q]
  BY SectionFacts DEF ReadFile, ReadKey, AfterKey, Goto
<1>5. RunnerInv'
  BY <1>1, <1>4 DEF RunnerInv, applied, built
<1>6. \A q \in Requests \ {r} : HasRead(q)' = HasRead(q) /\ newCfg'[q] = newCfg[q]
  BY DEF HasRead, ReadFile, ReadKey, Goto
<1>7. \A s \in HasRead(r)' :
         \/ newCfg'[r][s] = stored[s]
         \/ s \in HasRead(r) /\ newCfg'[r][s] = newCfg[r][s]
  <2>1. CASE ReadFile(r)
    BY <2>1, SectionFacts DEF HasRead, ReadFile, Goto, Overlay
  <2>2. CASE ReadKey(r)
    <3>1. \A s \in Sections :
            newCfg'[r][s] = IF s = pc[r] THEN stored[s] ELSE newCfg[r][s]
      BY <2>2, SectionFacts DEF ReadKey, Config
    <3>2. HasRead(r)' = HasRead(r) \cup {pc[r]} /\ HasRead(r)' \subseteq Sections
      BY <2>2, SectionFacts
         DEF HasRead, ReadKey, AfterKey, Goto, FileSections, DBSections, Sections
    <3> QED BY <3>1, <3>2
  <2> QED BY <2>1, <2>2
<1>8. ReadInv'
  BY <1>1, <1>6, <1>7 DEF ReadInv
<1>9. Fresh' => Fresh
  BY <1>1 DEF Fresh, Current, ReadFile, ReadKey, AfterKey, Goto, applied
<1>10. ASSUME Agreement PROVE Agreement'
  <2>1. \A s \in HasRead(r)' \cap HeavySections : newCfg'[r][s] \in standing[s]
    BY <1>7, <1>10 DEF ReadInv, Agreement
  <2>2. \A q \in Requests : \A s \in HasRead(q)' \cap HeavySections : newCfg'[q][s] \in standing[s]
    BY <1>6, <1>10, <2>1 DEF Agreement
  <2> QED BY <1>1, <1>10, <2>2 DEF Agreement, InService, applied, built
<1> QED BY <1>2, <1>3, <1>5, <1>8, <1>9, <1>10

\* Early returns: the lock is released, and ok says that nothing is promised.
LEMMA FailureStep ==
  ASSUME IInv, TypeOK', NEW r \in Requests,
         ReadFails(r) \/ BuildFails(r) \/ AssembleFails(r)
  PROVE  IInv'
<1> USE DEF IInv, TypeOK
<1>1. UNCHANGED <<stored, version, standing, applied, built, seen>>
  BY RequestKeepsSource
     DEF RequestStep, ReadFails, BuildFails, AssembleFails, GiveUp, source, applied, built
<1>2. pc[r] \in Locked \ {"commit"} /\ GiveUp(r)
  BY DEF ReadFails, BuildFails, AssembleFails, Locked, DBSections
<1>3. MutexInv'
  BY <1>2, NoOneAssumption DEF MutexInv, GiveUp, Goto, Locked, DBSections
<1>4. VersionsInv'
  BY <1>1 DEF VersionsInv, applied
<1>5. \A q \in Requests :
         /\ pc'[q] = "commit" <=> pc[q] = "commit"
         /\ pc[q] = "commit" => newCfg'[q] = newCfg[q]
  BY <1>2 DEF GiveUp, Goto
<1>6. RunnerInv'
  BY <1>1, <1>5 DEF RunnerInv, applied, built
<1>7. \A q \in Requests : \/ HasRead(q)' = HasRead(q) /\ newCfg'[q] = newCfg[q]
                          \/ HasRead(q)' = {}
  BY <1>2 DEF HasRead, GiveUp, Goto
<1>8. ReadInv'
  BY <1>1, <1>7 DEF ReadInv
<1>9. Fresh' => Fresh
  BY <1>1, <1>2 DEF Fresh, Current, GiveUp, Goto, applied
<1>10. Agreement => Agreement'
  BY <1>1, <1>7 DEF Agreement, InService, applied, built
<1> QED BY <1>3, <1>4, <1>6, <1>8, <1>9, <1>10

\* Between reading and committing: when no heavy section differs from lastCfg
\* the runner already has the ones that were read; a swap installs them.
LEMMA ReloadStep ==
  ASSUME IInv, TypeOK', NEW r \in Requests,
         ReloadInPlace(r) \/ Connect(r) \/ Swap(r)
  PROVE  IInv'
<1> USE DEF IInv, TypeOK
<1>1. UNCHANGED <<stored, version, standing, lastVersion, lastCfg, lock,
                  seen, newCfg, ok>>
  BY RequestKeepsSource
     DEF RequestStep, ReloadInPlace, Connect, Swap, source, applied
<1>2. MutexInv'
  BY <1>1 DEF MutexInv, ReloadInPlace, Connect, Swap, Goto, Locked, DBSections
<1>3. VersionsInv'
  BY <1>1 DEF VersionsInv
<1>4. \A q \in Requests \ {r} : pc[q] # "commit" /\ pc'[q] # "commit"
  BY DEF MutexInv, ReloadInPlace, Connect, Swap, Goto, Locked, DBSections
<1>5. pc[r] # "commit"
  BY DEF ReloadInPlace, Connect, Swap
<1>6. \A s \in HeavySections :
         IF pc'[r] = "commit" THEN runner'.cfg[s] = newCfg[r][s]
                              ELSE runner'.cfg[s] = lastCfg[s]
  <2>1. CASE ReloadInPlace(r)
    BY <2>1, <1>4, <1>5 DEF RunnerInv, ReloadInPlace, Goto, Changed, built
  <2>2. CASE Connect(r)
    BY <2>2, <1>4, <1>5 DEF RunnerInv, Connect, Goto
  <2>3. CASE Swap(r)
    BY <2>3 DEF Swap, Goto
  <2> QED BY <2>1, <2>2, <2>3
<1>7. RunnerInv'
  BY <1>1, <1>4, <1>6 DEF RunnerInv
<1>8. \A q \in Requests : HasRead(q)' = HasRead(q)
  BY DEF HasRead, ReloadInPlace, Connect, Swap, Goto
<1>9. ReadInv'
  BY <1>1, <1>8 DEF ReadInv
<1>10. Fresh' => Fresh
  BY <1>1 DEF Fresh, Current, ReloadInPlace, Connect, Swap, Goto
<1>11. Agreement => Agreement'
  <2>1. HasRead(r) = Sections
    BY DEF HasRead, ReloadInPlace, Connect, Swap
  <2>2. Agreement => \A s \in HeavySections : runner'.cfg[s] \in standing[s]
    BY <1>6, <2>1, SectionFacts DEF Agreement, InService
  <2> QED BY <1>1, <1>8, <2>2 DEF Agreement, InService
<1> QED BY <1>2, <1>3, <1>7, <1>9, <1>10, <1>11

\* Committing: if nobody wrote since r looked, all that r read is stored.
LEMMA CommitStep ==
  ASSUME IInv, TypeOK', NEW r \in Requests, Commit(r)
  PROVE  IInv'
<1> USE DEF IInv, TypeOK
<1>1. UNCHANGED <<stored, version, standing, built, seen, ok>>
  BY RequestKeepsSource DEF RequestStep, Commit, source, built
<1>2. HasRead(r) = Sections /\ lastCfg' = newCfg[r] /\ lastVersion' = seen[r]
  BY DEF HasRead, Commit, Applies
<1>3. MutexInv'
  BY NoOneAssumption DEF MutexInv, Commit, Applies, Goto, Locked, DBSections
<1>4. VersionsInv'
  BY <1>1, <1>2 DEF VersionsInv
<1>5. \A q \in Requests : HasRead(q)' = {} /\ pc'[q] # "commit"
  BY DEF MutexInv, HasRead, Commit, Applies, Goto, Locked, DBSections
<1>6. \A s \in HeavySections : runner.cfg[s] = newCfg[r][s]
  BY DEF RunnerInv, Commit
<1>7. RunnerInv'
  BY <1>1, <1>2, <1>5, <1>6 DEF RunnerInv, built
<1>8. ReadInv'
  BY <1>1, <1>5 DEF ReadInv
<1>9. ASSUME Fresh' PROVE Agreement'
  <2>1. Fresh \/ seen[r] = version
    BY <1>1, <1>2, <1>9 DEF Fresh, Current, Commit, Applies, Goto
  <2>2. \A s \in HeavySections : newCfg[r][s] \in standing[s]
    BY <1>2, <2>1, SectionFacts DEF ReadInv, Agreement
  <2> QED BY <1>1, <1>2, <1>5, <1>6, <2>2 DEF Agreement, InService, built
<1> QED BY <1>3, <1>4, <1>7, <1>8, <1>9

\* Closing old connections and stuttering change nothing the invariant reads.
LEMMA OtherStep ==
  ASSUME IInv, TypeOK',
         (\E g \in grace : GraceClose(g)) \/ UNCHANGED vars
  PROVE  IInv'
<1>1. UNCHANGED <<source, applied, runner, lock, local>>
  BY DEF GraceClose, vars, built
<1> QED
  BY <1>1 DEF IInv, MutexInv, VersionsInv, RunnerInv, ReadInv, Fresh, Agreement,
     InService, Current, HasRead, source, applied, local

LEMMA Inductive == Spec => []IInv
<1>1. Init => IInv
  <2> SUFFICES ASSUME Init PROVE IInv
    OBVIOUS
  <2>1. TypeOK
    BY InitConfigType, ValsAssumption DEF Init, TypeOK, Runner, Steps, Locked, DBSections
  <2>2. \A r \in Requests : pc[r] = "idle" /\ HasRead(r) = {}
    BY DEF Init, HasRead
  <2>3. MutexInv /\ VersionsInv
    BY <2>2, NoOneAssumption DEF Init, MutexInv, VersionsInv, Locked, DBSections
  <2>4. RunnerInv /\ ReadInv /\ Agreement
    BY <2>2, SectionFacts DEF Init, InitConfig, RunnerInv, ReadInv, Agreement, InService
  <2> QED BY <2>1, <2>3, <2>4 DEF IInv
<1>2. IInv /\ [Next]_vars => IInv'
  <2> SUFFICES ASSUME IInv, [Next]_vars PROVE IInv'
    OBVIOUS
  <2>1. TypeOK'
    BY TypeStep DEF IInv
  <2> QED
    BY <2>1, WriterSteps, OutsideStep, ReadStep, FailureStep, ReloadStep,
       CommitStep, OtherStep DEF Next, RequestStep
<1> QED BY <1>1, <1>2, PTL DEF Spec

\* Whoever comes back from CheckAndReloadIfChanged without a failure, and
\* before another write was signalled, runs on what the source has held since.
THEOREM ServesStored == Spec => []ReadYourWrites
<1>1. IInv => ReadYourWrites
  BY DEF IInv, ReadYourWrites, Fresh, Agreement
<1> QED BY <1>1, Inductive, PTL

\* The version that counts as applied is in service.
THEOREM AppliedIsServed == Spec => []NoSkippedVersion
<1>1. IInv => NoSkippedVersion
  BY DEF IInv, NoSkippedVersion, Fresh, Agreement
<1> QED BY <1>1, Inductive, PTL

-----------------------------------------------------------------------------
(* Connections.  The holder of reloadMu installs the generation it built,  *)
(* which is newer than the installed one and than all that are closing.    *)

ConnectionsInv ==
  /\ runner.gen <= lastGen
  /\ runner.gen \in open
  /\ \A g \in grace : g < runner.gen
  /\ \A r \in Requests :
       /\ pc[r] = "swap" => runner.gen < lastGen /\ lastGen \in open
       /\ pc[r] = "running" => using[r] <= runner.gen

LEMMA ConnectionsStep ==
  ASSUME TypeOK, MutexInv, ConnectionsInv, [Next]_vars
  PROVE  ConnectionsInv'
<1> USE DEF TypeOK, Runner, ConnectionsInv
<1>1. ASSUME NEW w \in Writers, Truncate(w) \/ WriterStep(w)
      PROVE  ConnectionsInv'
  BY <1>1 DEF Truncate, WriterStep, WriteFile, WriteFileFails, WriteKey,
              WriteKeyFails, BumpVersion, built, local
<1>2. ASSUME NEW r \in Requests,
             \/ Arrive(r) \/ Compare(r) \/ Lock(r) \/ ReadFile(r) \/ ReadFails(r)
             \/ ReadKey(r) \/ ReloadInPlace(r) \/ BuildFails(r) \/ AssembleFails(r)
             \/ Commit(r) \/ EndRun(r)
      PROVE  ConnectionsInv'
  <2>1. UNCHANGED built
    BY <1>2 DEF Arrive, Compare, Lock, ReadFile, ReadFails, ReadKey, ReloadInPlace,
                BuildFails, AssembleFails, Commit, EndRun
  <2>2. \A q \in Requests : pc'[q] = "swap" => pc[q] = "swap"
    BY <1>2 DEF Arrive, Compare, Lock, ReadFile, ReadFails, ReadKey, ReloadInPlace,
                BuildFails, AssembleFails, Commit, EndRun, GiveUp, Goto, AfterKey
  <2>3. \A q \in Requests : pc'[q] = "running" => pc[q] = "running" /\ using'[q] = using[q]
    BY <1>2 DEF Arrive, Compare, Lock, ReadFile, ReadFails, ReadKey, ReloadInPlace,
                BuildFails, AssembleFails, Commit, EndRun, GiveUp, Goto, AfterKey
  <2> QED BY <2>1, <2>2, <2>3 DEF built
<1>3. ASSUME NEW r \in Requests, Connect(r) PROVE ConnectionsInv'
  BY <1>3 DEF Connect, Goto
<1>4. ASSUME NEW r \in Requests, Swap(r) PROVE ConnectionsInv'
  <2>1. runner.gen < lastGen /\ lastGen \in open
    BY <1>4 DEF Swap
  <2>2. \A q \in Requests : pc'[q] # "swap"
    BY <1>4 DEF Swap, Goto, MutexInv, Locked, DBSections
  <2>3. \A q \in Requests : pc'[q] = "running" => using'[q] <= lastGen
    BY <1>4, <2>1 DEF Swap, Goto
  <2>4. runner'.gen = lastGen /\ lastGen' = lastGen /\ open' = open
    BY <1>4 DEF Swap
  <2>5. \A g \in grace' : g < lastGen
    BY <1>4, <2>1 DEF Swap, Replaced
  <2> QED BY <2>1, <2>2, <2>3, <2>4, <2>5
<1>5. ASSUME NEW g \in grace, GraceClose(g) PROVE ConnectionsInv'
  BY <1>5 DEF GraceClose, local
<1>6. ASSUME NEW r \in Requests, StartRun(r) PROVE ConnectionsInv'
  BY <1>6 DEF StartRun, Goto, built
<1>7. CASE UNCHANGED vars
  BY <1>7 DEF vars, built, local
<1> QED
  BY <1>1, <1>2, <1>3, <1>4, <1>5, <1>6, <1>7 DEF Next, RequestStep

\* The connections of the installed runner are open and stay open until it is
\* replaced, and only runs on a replaced runner lose theirs.
THEOREM InstalledStaysConnected == Spec => []InstalledConnected
<1>1. Init => ConnectionsInv
  BY DEF Init, ConnectionsInv
<1>2. TypeOK /\ ConnectionsInv => InstalledConnected
  BY DEF TypeOK, Runner, ConnectionsInv, InstalledConnected
<1>3. IInv => TypeOK /\ MutexInv
  BY DEF IInv
<1> QED BY <1>1, <1>2, <1>3, ConnectionsStep, Inductive, PTL DEF Spec

=============================================================================
