------------------------------ MODULE HotReload ------------------------------
(***************************************************************************)
(* Hot reload of the hub's configuration (internal/hub/hub.go 339-597) as  *)
(* seen by concurrent chat requests, with the configuration source         *)
(* (internal/hub/config_api.go) that the requests poll.                    *)
(*                                                                         *)
(* A chat request calls CheckAndReloadIfChanged before it runs.  The call  *)
(* compares the source's version with the last applied one and, under a    *)
(* mutex, reads the whole configuration, diffs it section by section with  *)
(* the last applied one and reloads what changed: the memory store and the *)
(* skills loader in place, anything else by building a new runner and      *)
(* swapping it in.  The connections of the replaced runner are closed      *)
(* after a grace period.  Writers (the config endpoints) store new         *)
(* sections and then bump the version.                                     *)
(*                                                                         *)
(* The sections are the ones the diff tells apart:                         *)
(*   "llm"     LLM and Tools: only in the YAML file, need a new runner     *)
(*   "skills"  Skills: only in the YAML file, reloaded in place            *)
(*   "agents"  Supervisor and SubAgents: in the database, need a new       *)
(*             runner                                                      *)
(*   "memory"  Memory: in the database, reloaded in place                  *)
(*   "sandbox" Sandbox: in the database, needs a new runner                *)
(* A section's content is a member of Vals.  A runner and its connections  *)
(* are named by a generation number.  The database holds all its sections  *)
(* (SeedDBFromConfig) and reading one does not fail: the code takes the    *)
(* YAML file's content when it does.                                       *)
(***************************************************************************)
EXTENDS Naturals

CONSTANTS
  Requests,     \* request handler goroutines
  Writers,      \* config endpoint handler goroutines
  Vals,         \* the contents a section may have
  InitVal,      \* the content every section has at startup
  Blank,        \* a section of an empty file: LoadConfig's zero value, in which
                \* skills are disabled (Hub.skillsLoader is nil)
  NoOne,        \* the value of lock when nobody holds reloadMu
  Editable,     \* bound: the sections that writers change
  MaxWrites,    \* bound: writes begun
  MaxGen,       \* bound: runners built after the first one
  Faults        \* the steps that may fail: subset of {"write", "db", "read",
                \* "build"}

ASSUME ValsAssumption == InitVal \in Vals /\ Blank \in Vals
ASSUME NoOneAssumption == NoOne \notin Requests
ASSUME BoundsAssumption == MaxWrites \in Nat /\ MaxGen \in Nat

FileSections == {"llm", "skills"}
DBSections == {"agents", "memory", "sandbox"}
Sections == FileSections \cup DBSections
HeavySections == {"llm", "agents", "sandbox"}
Config == [Sections -> Vals]

VARIABLES
  stored,       \* what readConfig returns: the file merged with the database
  version,      \* ConfigAPI.version
  wpc, wnew,    \* per writer: its step and the configuration it writes
  begun,        \* writes begun, for the bound
  standing,     \* history: per heavy section its contents since the version
                \* was bumped last
  lastVersion,  \* Hub.lastVersion
  lastCfg,      \* Hub.lastCfg
  memoryStore,  \* Hub.memoryStore: the section it was created from
  skillsLoader, \* Hub.skillsLoader: the section it was loaded from
  runner,       \* Hub.runner with what was swapped in together with it
  lastGen,      \* the generation most recently built
  open,         \* generations whose MCP connections are open
  grace,        \* replaced generations whose connections are to be closed
  lock,         \* holder of reloadMu
  pc,           \* per request: its step
  seen,         \* per request: the version it read (current)
  newCfg,       \* per request: the configuration it read
  ok,           \* per request: FALSE once a read or a rebuild of its failed
  using         \* per request: the runner generation its run executes on

source == <<stored, version, wpc, wnew, begun, standing>>
applied == <<lastVersion, lastCfg, memoryStore, skillsLoader>>
built == <<runner, lastGen, open, grace>>
local == <<pc, seen, newCfg, ok, using>>
vars == <<source, applied, built, lock, local>>

Locked == DBSections \cup {"readFile", "reload", "build", "swap", "commit"}
Steps == {"idle", "compare", "lock", "serve", "running"} \cup Locked

\* The runner, the configuration it was built from (h.cfg), and the memory
\* store its read_memory, update_memory and append_journal tools write to.
Runner == [gen : Nat, cfg : Config, memTools : Vals]

TypeOK ==
  /\ stored \in Config
  /\ version \in Nat
  /\ wpc \in [Writers -> DBSections \cup {"idle", "file", "bump"}]
  /\ wnew \in [Writers -> Config]
  /\ begun \in Nat
  /\ standing \in [HeavySections -> SUBSET Vals]
  /\ lastVersion \in Nat
  /\ lastCfg \in Config
  /\ memoryStore \in Vals
  /\ skillsLoader \in Vals
  /\ runner \in Runner
  /\ lastGen \in Nat
  /\ open \subseteq Nat
  /\ grace \subseteq Nat
  /\ lock \in Requests \cup {NoOne}
  /\ pc \in [Requests -> Steps]
  /\ seen \in [Requests -> Nat]
  /\ newCfg \in [Requests -> Config]
  /\ ok \in [Requests -> BOOLEAN]
  /\ using \in [Requests -> Nat]

InitConfig == [s \in Sections |-> InitVal]

\* NewHub, then SetConfigWatcher: the first runner is generation 0.
Init ==
  /\ stored = InitConfig
  /\ version = 0
  /\ wpc = [w \in Writers |-> "idle"]
  /\ wnew = [w \in Writers |-> InitConfig]
  /\ begun = 0
  /\ standing = [s \in HeavySections |-> {InitVal}]
  /\ lastVersion = 0
  /\ lastCfg = InitConfig
  /\ memoryStore = InitVal
  /\ skillsLoader = InitVal
  /\ runner = [gen |-> 0, cfg |-> InitConfig, memTools |-> InitVal]
  /\ lastGen = 0
  /\ open = {0}
  /\ grace = {}
  /\ lock = NoOne
  /\ pc = [r \in Requests |-> "idle"]
  /\ seen = [r \in Requests |-> 0]
  /\ newCfg = [r \in Requests |-> InitConfig]
  /\ ok = [r \in Requests |-> TRUE]
  /\ using = [r \in Requests |-> 0]

-----------------------------------------------------------------------------
(* The configuration source.  What a goroutine forgets when it ends (wnew, *)
(* newCfg, ...) goes back to its initial value.                            *)

\* The configurations a writer may send.
Edits == {c \in Config : \A s \in Sections \ Editable : c[s] = InitVal}

\* The database's keys are written and read one by one, in this order; then
\* comes the step last.
AfterKey(key, last) ==
  CASE key = "agents" -> "memory"
    [] key = "memory" -> "sandbox"
    [] OTHER -> last

\* c with the sections in S taken from d.
Overlay(c, S, d) == [s \in Sections |-> IF s \in S THEN d[s] ELSE c[s]]

Store(new) ==
  /\ stored' = new
  /\ standing' = [s \in HeavySections |-> standing[s] \cup {new[s]}]

\* The writer's handler ends.
Done(w) ==
  /\ wpc' = [wpc EXCEPT ![w] = "idle"]
  /\ wnew' = [wnew EXCEPT ![w] = InitConfig]

\* writeConfig: os.WriteFile truncates the YAML file.  (When the file cannot be
\* opened the handler ends and nothing has changed.)
Truncate(w) ==
  /\ wpc[w] = "idle"
  /\ begun < MaxWrites
  /\ begun' = begun + 1
  /\ \E new \in Edits : wnew' = [wnew EXCEPT ![w] = new]
  /\ Store(Overlay(stored, FileSections, [s \in Sections |-> Blank]))
  /\ wpc' = [wpc EXCEPT ![w] = "file"]
  /\ UNCHANGED <<version, applied, built, lock, local>>

\* It then writes the file ...
WriteFile(w) ==
  /\ wpc[w] = "file"
  /\ Store(Overlay(stored, FileSections, wnew[w]))
  /\ wpc' = [wpc EXCEPT ![w] = "agents"]
  /\ UNCHANGED <<version, begun, wnew, applied, built, lock, local>>

\* ... or stops half-way: writeConfig returns the error, the keys are not
\* written, and nobody is told that the file has changed.  What it got into the
\* file may be any part of the sections, also of one section; a file cut so
\* that it is no YAML makes reading fail.
WriteFileFails(w) ==
  /\ wpc[w] = "file"
  /\ "write" \in Faults
  /\ \E torn \in Config : Store(Overlay(stored, FileSections, torn))
  /\ Done(w)
  /\ UNCHANGED <<version, begun, applied, built, lock, local>>

\* writeConfigToDB: one upsert.
WriteKey(w) ==
  /\ wpc[w] \in DBSections
  /\ Store([stored EXCEPT ![wpc[w]] = wnew[w][wpc[w]]])
  /\ wpc' = [wpc EXCEPT ![w] = AfterKey(wpc[w], "bump")]
  /\ UNCHANGED <<version, begun, wnew, applied, built, lock, local>>

\* writeConfigToDB stops at its first error, which writeConfig only logs.
WriteKeyFails(w) ==
  /\ wpc[w] \in DBSections
  /\ "db" \in Faults
  /\ wpc' = [wpc EXCEPT ![w] = "bump"]
  /\ UNCHANGED <<stored, standing, version, begun, wnew, applied, built, lock, local>>

\* writeConfig, last part: signal the change to the watchers.
BumpVersion(w) ==
  /\ wpc[w] = "bump"
  /\ version' = version + 1
  /\ standing' = [s \in HeavySections |-> {stored[s]}]
  /\ Done(w)
  /\ UNCHANGED <<stored, begun, applied, built, lock, local>>

-----------------------------------------------------------------------------
(* A chat request: CheckAndReloadIfChanged, then a run.                    *)

Goto(r, step) == pc' = [pc EXCEPT ![r] = step]

\* current := h.watcher.Version()
Arrive(r) ==
  /\ pc[r] = "idle"
  /\ seen' = [seen EXCEPT ![r] = version]
  /\ ok' = [ok EXCEPT ![r] = TRUE]
  /\ Goto(r, "compare")
  /\ UNCHANGED <<source, applied, built, lock, newCfg, using>>

\* The fast path: current == h.lastVersion.Load().
Compare(r) ==
  /\ pc[r] = "compare"
  /\ Goto(r, IF seen[r] = lastVersion THEN "serve" ELSE "lock")
  /\ UNCHANGED <<source, applied, built, lock, seen, newCfg, ok, using>>

\* reloadMu.Lock() and the re-check; lastVersion is written under the lock only.
Lock(r) ==
  /\ pc[r] = "lock"
  /\ lock = NoOne
  /\ \/ /\ seen[r] = lastVersion
        /\ Goto(r, "serve")
        /\ UNCHANGED lock
     \/ /\ seen[r] # lastVersion
        /\ Goto(r, "readFile")
        /\ lock' = r
  /\ UNCHANGED <<source, applied, built, seen, newCfg, ok, using>>

\* Mutant of GiveUp: the failed reload is recorded as applied.
GiveUpAdvances(r) ==
  /\ newCfg' = [newCfg EXCEPT ![r] = InitConfig]
  /\ ok' = [ok EXCEPT ![r] = FALSE]
  /\ lastVersion' = seen[r]
  /\ lock' = NoOne
  /\ Goto(r, "serve")
  /\ UNCHANGED <<lastCfg, memoryStore, skillsLoader>>

\* Mutant of GiveUp: an error return without the unlock.
GiveUpKeepsLock(r) ==
  /\ newCfg' = [newCfg EXCEPT ![r] = InitConfig]
  /\ ok' = [ok EXCEPT ![r] = FALSE]
  /\ Goto(r, "serve")
  /\ UNCHANGED <<applied, lock>>

\* An early return of CheckAndReloadIfChanged: the deferred unlock runs,
\* lastVersion and lastCfg stay, and the request is served by whatever runner
\* is installed.
GiveUp(r) ==
  /\ newCfg' = [newCfg EXCEPT ![r] = InitConfig]
  /\ ok' = [ok EXCEPT ![r] = FALSE]
  /\ lock' = NoOne
  /\ Goto(r, "serve")
  /\ UNCHANGED applied

\* ReadFullConfig: LoadConfig of the YAML file ...
ReadFile(r) ==
  /\ pc[r] = "readFile"
  /\ newCfg' = [newCfg EXCEPT ![r] = Overlay(@, FileSections, stored)]
  /\ Goto(r, "agents")
  /\ UNCHANGED <<source, applied, built, lock, seen, ok, using>>

\* ... which may fail ...
ReadFails(r) ==
  /\ pc[r] = "readFile"
  /\ "read" \in Faults
  /\ GiveUp(r)
  /\ UNCHANGED <<source, built, seen, using>>

\* ... then the database overrides, key by key.
ReadKey(r) ==
  /\ pc[r] \in DBSections
  /\ newCfg' = [newCfg EXCEPT ![r][pc[r]] = stored[pc[r]]]
  /\ Goto(r, AfterKey(pc[r], "reload"))
  /\ UNCHANGED <<source, applied, built, lock, seen, ok, using>>

Changed(r, S) == \E s \in S : newCfg[r][s] # lastCfg[s]

\* hotReloadSkills: another directory, or no loader yet, gives a new loader;
\* otherwise the existing loader re-reads its own directory.
Reskilled(r) ==
  IF \/ newCfg[r]["skills"] = Blank \/ skillsLoader = Blank
     \/ Changed(r, {"skills"})
  THEN newCfg[r]["skills"] ELSE skillsLoader

\* applyConfigChanges: hotReloadMemory and hotReloadSkills, in place.
ReloadInPlace(r) ==
  /\ pc[r] = "reload"
  /\ memoryStore' = IF Changed(r, {"memory"}) THEN newCfg[r]["memory"]
                    ELSE memoryStore
  /\ skillsLoader' = IF Changed(r, {"skills"} \cup HeavySections)
                     THEN Reskilled(r) ELSE skillsLoader
  /\ Goto(r, IF Changed(r, HeavySections) THEN "build" ELSE "commit")
  /\ UNCHANGED <<source, lastVersion, lastCfg, built, lock,
                 seen, newCfg, ok, using>>

\* rebuildRunner, the steps that can fail before anything is connected.
BuildFails(r) ==
  /\ pc[r] = "build"
  /\ "build" \in Faults
  /\ GiveUp(r)
  /\ UNCHANGED <<source, built, seen, using>>

\* rebuildRunner: buildToolAgents connects the new generation's MCP servers.
Connect(r) ==
  /\ pc[r] = "build"
  /\ lastGen < MaxGen
  /\ lastGen' = lastGen + 1
  /\ open' = open \cup {lastGen + 1}
  /\ Goto(r, "swap")
  /\ UNCHANGED <<source, applied, runner, grace, lock, seen, newCfg, ok, using>>

\* rebuildRunner: the sandbox, a sub-agent or the supervisor cannot be built.
\* The connections made in Connect stay open and nobody will close them.
AssembleFails(r) ==
  /\ pc[r] = "swap"
  /\ "build" \in Faults
  /\ GiveUp(r)
  /\ UNCHANGED <<source, built, seen, using>>

\* Mutant of Replaced: the clients are looked up after the assignment.
ReplacedLatest == {lastGen}

\* The generations whose connections a swap schedules for closing.
Replaced == {runner.gen}

\* rebuildRunner: swap everything in under runnerMu, close later.
Swap(r) ==
  /\ pc[r] = "swap"
  /\ grace' = grace \cup Replaced
  /\ runner' = [gen |-> lastGen, cfg |-> newCfg[r], memTools |-> memoryStore]
  /\ Goto(r, "commit")
  /\ UNCHANGED <<source, applied, lastGen, open, lock, seen, newCfg, ok, using>>

\* Mutant of Applies: the version is read again when the reload is done.
AppliesLatest(r) == version

\* The version that r's reload counts as applied: the one it saw on arrival.
Applies(r) == seen[r]

\* h.lastCfg = newCfg; h.lastVersion.Store(current); unlock.
Commit(r) ==
  /\ pc[r] = "commit"
  /\ lastCfg' = newCfg[r]
  /\ newCfg' = [newCfg EXCEPT ![r] = InitConfig]
  /\ lastVersion' = Applies(r)
  /\ lock' = NoOne
  /\ Goto(r, "serve")
  /\ UNCHANGED <<source, memoryStore, skillsLoader, built, seen, ok, using>>

\* runnerForOptions: the run executes on the runner installed now.
StartRun(r) ==
  /\ pc[r] = "serve"
  /\ using' = [using EXCEPT ![r] = runner.gen]
  /\ Goto(r, "running")
  /\ UNCHANGED <<source, applied, built, lock, seen, newCfg, ok>>

EndRun(r) ==
  /\ pc[r] = "running"
  /\ using' = [using EXCEPT ![r] = 0]
  /\ seen' = [seen EXCEPT ![r] = 0]
  /\ ok' = [ok EXCEPT ![r] = TRUE]
  /\ Goto(r, "idle")
  /\ UNCHANGED <<source, applied, built, lock, newCfg>>

\* The goroutine of rebuildRunner, after its ten seconds.
GraceClose(g) ==
  /\ g \in grace
  /\ grace' = grace \ {g}
  /\ open' = open \ {g}
  /\ UNCHANGED <<source, applied, runner, lastGen, lock, local>>

RequestStep(r) ==
  \/ Compare(r) \/ Lock(r) \/ ReadFile(r) \/ ReadFails(r) \/ ReadKey(r)
  \/ ReloadInPlace(r) \/ BuildFails(r) \/ Connect(r) \/ AssembleFails(r)
  \/ Swap(r) \/ Commit(r) \/ StartRun(r)

\* A writer that has begun goes on.
WriterStep(w) ==
  \/ WriteFile(w) \/ WriteFileFails(w)
  \/ WriteKey(w) \/ WriteKeyFails(w) \/ BumpVersion(w)

Next ==
  \/ \E w \in Writers : Truncate(w) \/ WriterStep(w)
  \/ \E r \in Requests : Arrive(r) \/ RequestStep(r) \/ EndRun(r)
  \/ \E g \in grace : GraceClose(g)

Spec == Init /\ [][Next]_vars
-----------------------------------------------------------------------------
(* What the reload must guarantee.                                         *)

\* No write is in progress: the source holds what the last write left there.
Quiet == \A w \in Writers : wpc[w] = "idle"

\* What request r got from CheckAndReloadIfChanged is current: neither the
\* read nor the rebuild failed and no write was signalled since it looked.
Current(r) == pc[r] = "serve" /\ ok[r] /\ seen[r] = version

\* What is in service was in the source when the last write was signalled or
\* later.  If nobody has written since, or tried to and failed, that is what is
\* stored.
InService ==
  \A s \in HeavySections : runner.cfg[s] \in standing[s]

\* Read your writes.  A chat request (main.go 808) that comes back from
\* CheckAndReloadIfChanged without a failure runs on the configuration that the
\* last signalled write has left, or on what others wrote after it, be they
\* half-way through or have they failed there: never on older content, whoever
\* did the reload, on the fast path, after waiting for the mutex or by
\* reloading itself.
ReadYourWrites == \A r \in Requests : Current(r) => InService

\* A version is recorded as applied only when the runner really reflects the
\* content stored under it: the code must not advance lastVersion after a
\* failed rebuild (hub.go 381), nor to a version whose content it did not read.
NoSkippedVersion == lastVersion = version => InService

\* The connections of the installed runner are open: the close after the grace
\* period (hub.go 572-592) hits the clients of the runner that was replaced,
\* never those just installed, however rebuilds fail and follow each other.  A
\* run loses its connections only when its runner has been replaced.
InstalledConnected ==
  /\ runner.gen \in open \ grace
  /\ \A r \in Requests :
       pc[r] = "running" /\ using[r] \notin open => using[r] < runner.gen

\* A change of the memory section takes effect "in place (no runner rebuild
\* needed)" (hub.go 415): the memory tools of the installed runner then write
\* to the store from which the hub injects memory into prompts.
MemoryToolsFollowStore ==
  (lastVersion = version /\ Quiet /\ lock = NoOne) =>
     runner.memTools = memoryStore

-----------------------------------------------------------------------------
(* Liveness.  A goroutine that can take its next step does: the Go         *)
(* scheduler runs it, and a mutex hands itself to a waiter that has waited *)
(* too long, hence strong fairness of Lock.  Runs are bounded by the stage *)
(* timeouts.  WF of Arrive says that chat requests keep coming: the reload *)
(* is driven by them, so nothing is promised when they stop.               *)

RequestProgress ==
  \A r \in Requests :
    /\ WF_vars(RequestStep(r))
    /\ SF_vars(Lock(r))
    /\ WF_vars(EndRun(r))

WriterProgress ==
  \A w \in Writers : WF_vars(WriterStep(w))

LiveSpec ==
  /\ Spec
  /\ RequestProgress
  /\ WriterProgress
  /\ \A r \in Requests : WF_vars(Arrive(r))

\* No request waits for ever on reloadMu: every return of the reload, the
\* failing ones included, releases it (hub.go 360).
RequestsServed == \A r \in Requests : pc[r] = "compare" ~> pc[r] = "running"

\* While requests keep coming, and once their reloads no longer fail, what the
\* last signalled write stored is in service from some moment on, or what a
\* failed write has put in its place: a failed reload is retried by the next
\* request and no version is lost (hub.go 343-377).
Converges == (\A r \in Requests : <>[]ok[r]) => <>[]InService
=============================================================================
