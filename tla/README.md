# Formal verification of the KRCA agent hub

The program is a hub that runs root-cause-analysis agents: a Go server that
assembles a supervisor and sub-agents over language models and MCP tool servers,
streams their work to a browser, and stores sessions, files, memory and
configuration; and the browser's pages, which hold the conversation, ask for
approvals and edit what the server stores. This directory holds TLA+ modules of the parts whose correctness
depends on order, failure and concurrency, TLC configurations that check them on
small instances, and TLAPS proofs for every value of the constants.

## Inventory

Paths are relative to `src/`; `hub/` stands for `internal/hub/`.

| Component | State it keeps | Operations | What is hard | What makes it correct |
|---|---|---|---|---|
| Hot reload (`hub/hub.go`) | the runner in service with its config, MCP connections and tool agents; `lastVersion`, `lastCfg`; memory store and skills | `CheckAndReloadIfChanged` on every request, `applyConfigChanges`, `rebuildRunner`, delayed close of replaced connections | the version is read before the lock; a reload reads a half-written configuration; a rebuild fails after in-place changes; runs outlive the runner they use | a request runs on what was stored before it came; nothing counts as applied that is not in service; open connections of the installed runner; no deadlock |
| Configuration API (`hub/config_api.go`, `hub/config.go`) | the YAML file, the database keys that override it, the version counter | whole and per-section updates, reads with overlay, seeding | read-modify-write without a lock; file and keys written in several steps; restart reads the file only | updates are not lost, what is stored survives a restart |
| Model failover (`hub/failover_model.go`, `hub/errornotify.go`) | the pool of models and the shared index of the current one | `Generate`, `Stream` with nested retries, back-off, context recovery, rotation; alerts | four nested loops; the index is shared by all calls; cancellation during a sleep | a call fails only after all models; retry budgets; calls return; alerts are about failures |
| Message history (`sanitizeDanglingToolCalls`, `hub/context_compaction.go`) | the prompt of one call | sanitize, detect overflow, fold blocks | turns with missing, duplicate, empty, foreign ids; compaction in the middle of a turn | calls and results are paired, ids are used once, the latest user message survives |
| MCP tools (`hub/mcp_reconnect.go`, `hub/mcp_helper.go`) | one client per server shared by all runs, token bucket, stored chunks of large results | `CallTool` with reconnects, `ListTools`, `Close`; rate-limited calls; chunk store, retrieval, clean-up | one call's reconnect closes the client of another; a client outlives the hub's handle; clean-up by another run | bounded requests, calls return, one open client, a chunk belongs to the result it was announced with |
| Stage budget (`hub/timeout_agent.go`) | a stage's events, evidence, deadline | run, resume, finalize | a select between the last event and the deadline; a finalizer that fails | every stage ends, with its source's events in order, none lost silently, and conclusions kept for the summary |
| Approvals (`hub/tools.go`, `hub/checkpoint_store.go`, resume handler) | checkpoints by run id, interrupt state | interrupt, resume with targets, retry | siblings executed again, checkpoints never deleted, reload replaces the store | a tool needing approval runs only after it, and once |
| Chat server (`cmd/hub/main.go`) | running requests, submitted tasks | chat, submit, resume, cancel, idle timer, save | disconnects, retries, saving while cancelled | every run is saved once, submitted tasks end in a final status |
| Stores (`hub/store/`) | sessions, messages, events, files in Redis or SQL | CRUD, append, mirror to disk | read-modify-write in Redis, mirror in both directions | no lost message, no deleted session comes back |
| Memory (`hub/memory/`) | journal and long-term files, session cache | append, read, save, delete, asynchronous write hook | snapshot order, mirror order | files hold the last write |
| Sandbox (`hub/sandbox/`) | workspaces, the run and user the tools act for | run commands and file tools, expire workspaces | the shared context, expiry of a workspace in use | a run's tools act in its own workspace |
| Registry (`internal/registry/`) | agent records with time to live | register, heartbeat, list, clean-up | expiry against heartbeats | a live agent stays listed |
| Tokens, users (`hub/token_manager.go`, `hub/user/`) | token cache | get, sign, verify | expiry, concurrent signing | a served token is valid |
| Skills, tracing, dashboard, ck | files, traces, aggregates | load, record, aggregate, query | little concurrency of their own | see the list of what is not modelled |
| Chat page (`frontend/src/components/AgentWorkspace.tsx`, `lib/api.ts`) | messages, spinner, session, pending approval, tool cards; per open stream what its handlers closed over | send, approve, reject, stop, clear, load, restore; every event and end of a stream | handlers of several streams interleave with clicks and see the state of their own click; refs are shared by all streams | the input comes back, an approval goes to the run that asked, one session on a page, answers replace only themselves |
| Event stream and timeline (`lib/api.ts`, `lib/conversationStorage.ts`) | the unfinished line, the timeline | read, parse, convert; rebuild from stored events | a cut inside a line; two conversions of the same event | envelopes arrive in order and once, an approval asked for is heard, both timelines agree |
| Stored conversations (`lib/conversationStorage.ts`, `ConversationHistory.tsx`) | browser records with a cap, server sessions with snapshots, the open conversation, the autosave timer, the panel's list | autosave, delete, import, list, open, share | timers, requests and clicks overlap; quota and eviction | one record per session, snapshots of their own session, the resting page is saved, saving stops |
| Message box and options (`ChatInput.tsx`) | text, slash menu, filter (two copies), model and limit profile, the lists on offer | type, pick, filter, submit, remount; the hub's choice of a runner | the box is remounted when the first message comes; lists arrive late; the hub rebuilds between reading and using the options | what is sent is what was shown, a run has what was chosen or the defaults together |
| Settings page (`SettingsPage.tsx`) | selected file and its text, loaded configuration, forms | read, save, create, delete files; save sections | late answers, two windows, whole-configuration saves | a file gets its own text, in order; unsaved edits are marked; sections stay |
| Session and dashboard pages (`app/debug`, `app/diagnostics`, `app/shared`) | what is selected and shown | select, fetch from two endpoints, delete, reload | answers that overtake each other or fail | what is shown belongs to what is selected; one endpoint suffices |

Interactions. A chat request first lets the hub reload (a call), then starts a run
on the installed runner (shared pointer under `runnerMu`), or on one assembled for
it alone when a model or limit profile was chosen. The run asks the failover model
for completions (calls), which sanitizes and compacts the prompt, and calls MCP tools
through clients shared by every run. Configuration handlers and the reload meet in
the file, the keys and the version counter. Rebuilds replace connections other runs
are using. Interrupts leave a checkpoint that the resume handler reads. The server
streams events as lines over HTTP (messages), the page's reader turns them into
callbacks of the handlers of its stream, and a finished run is stored by the chat
server. The page stores conversations in the browser and posts snapshots of them to
the server; the history panel lists and opens both. The settings page changes the
files and sections that the hub reloads.

## Plan

In order of importance; the first three groups are done, the rest is what comes next.

1. Done, the hub: `HotReload` (how configuration comes into service), `Failover` under
   `FailoverSpec` (how a completion is obtained), `History` (what is sent for it),
   `StageBudget` with `RunOutput` (how a stage and a run end),
   `McpTools` (how runs share a tool server).
2. Done, the browser: `ChatPage` over `Transcript` (what streams and clicks do to a
   conversation), `EventReader` under `Channel` with `Timeline` (how a run reaches the
   page), `ConversationStore` (what is kept of it), `RunOptions` (which runner a
   message gets), `Composer`, `FileEditor`, `ConfigTabs` and `Viewer`, composed in
   `Pages`.
3. Done, the store: `Sessions`, what requests of the chat server do to one session, on
   Redis and on SQLite.
4. `ConfigStore`: seeding and restart, with `ConfigTabs`' lost updates against the
   file and key steps of `HotReload`. Abstract specification: a map of sections in
   which an update changes one section and survives.
5. `Approvals`: interrupt, checkpoint, resume with targets and its retry, interrupted
   siblings, composed with `HotReload`'s replacement of the checkpoint store. Abstract
   specification: a tool that needs approval is executed at most once, after it was
   granted.
6. `ChatRun`: a run's life in the chat server (disconnect, idle timer, cancellation)
   before it is stored as `Sessions` says.
7. `SessionManager` (memory snapshots), `Workspaces` (sandbox context and expiry),
   `Registry` (heartbeats and expiry), `ErrorNotifier` (cooldown of alerts).

Every safety property that a passing run checks has its theorem (see Proofs); to come
are at-most-once of `Approvals` and those of the modules of groups 4, 6 and 7.

## Modules

| Module | Models | State and actions |
|---|---|---|
| `HotReload` | `CheckAndReloadIfChanged`, `applyConfigChanges`, `rebuildRunner`, `readConfig`, `writeConfig` | one program counter per request and per writer; every lock, file and database access and the swap is a step; a file write that fails half-way leaves any part of the file and signals nothing (`WriteFileFails`); `standing` records what the source held since the last signal; configuration is a function from the five sections the diff tells apart to contents; runners are generation numbers, `open` and `grace` say which have connections and which wait for their close |
| `FailoverSpec` | the promise in the comment of `FailoverChatModel` | per call a state, the models not asked yet and those that other calls' failures took from it |
| `Failover` | `Generate` with `generateWithContextRecovery` and `generateWithTransientRetry` (and `Stream`, the same control) | the loop counters `tried`, `compacted`, `rateN`, `transN`; the `idx` that all calls share; what was `asked` and `sent`, and what was `skipped`: a call's turns at which another call moved `idx` on |
| `History` | `sanitizeDanglingToolCalls`, `compactContextMessages` | a history is a sequence of blocks; one action per way the sanitizer treats a block (`KeepTurn`, `FlattenTurn`, `ConvertOrphan`, `SkipOrphan`, `Copy`), `Compact` folds blocks |
| `StageBudget` | `runWithBudget`, `handleStageLimit`, `collectStageEvidence` | the pump and the main goroutine with the unbuffered channel between them: a transfer is one step of both (`Forward`, `IterationLimit`, `LateError`); `runErr` is the first reason the context was done for; what the finalizer says beside a tool call may have text or not |
| `RunOutput` | `collectAndStream`, `collectBackgroundEvents`, `collectResult` over the root stage | extends `StageBudget`; the collector reads the finished output |
| `McpTools` | `CallTool`, `reconnect`, the rate limiter, the chunk store | a program counter per run; clients are numbered as made, `inner` is the one in use, `open` those connected, `mu` the lock; a request is sent (`Send`) on the client read without the lock and answered later |
| `Transcript` | the message list and tool cards as values: `convertToAgentEvent`, `findLastSupervisorMessageIndex`, `handleEvent`'s updates | operators only; a message carries, beside role, agent and text, its kind and the session whose stream wrote it, for the properties |
| `ChatPage` | `AgentWorkspace`'s handlers over the streams of `sendMessage` and `resumeWorkflow` | one record per stream with what its handlers closed over; `Event` is one event of an open stream, `End` its end, `Clicks` what the user may do; a handler runs to its next await in one step; the results of a message's calls come in any order; `loosed` and `mixed` record that the input was released, or the page switched, under an open stream |
| `Channel` | an ordered channel that is closed once | what was written, received |
| `Timeline` | `convertToAgentEvent` and `replayActivitiesFromEvents` | `Live` and `Replayed`, the cards an event gives |
| `EventReader` | the server's `streamWriter`, the network, `readSSEStream` | a line is two characters; a read takes any prefix of what is on the wire; `parsed` is what the reader has handed on |
| `ConversationStore` | `conversationStorage.ts`, the autosave effect, `ConversationHistory` | browser, server, page and panel; a conversation is its number of turns and the sessions it was held in; every request is sent in one step and answered in another; a stream names its session in its middle (`Announce`); `mixed` records that the page was switched under an open stream or an unanswered restore, `copied` a reload or an import |
| `Composer` | `ChatInput`'s text, menus and filter, the prefixes of `handleSendMessage` | a text is its first word and its lines; `Assemble` is what is sent |
| `RunOptions` | the two menus, what `sendMessage` sends of them, `runnerForOptions`, `buildEphemeralRunner`, the hub's retry and resume | `picks` and `saved` on the page, `hub` with what it offers, `run` the turn; reading the options, taking the runner and a rebuild are separate steps |
| `FileEditor` | `FileTreeTab` and the handlers of `filetree.go` | requests under way are records with what their handler closed over; they are served and answered in any order; where the page asks before it drops an unsaved text, the user may decline |
| `ConfigTabs` | `AgentsTab` and `SandboxTab` against `UpdateConfig` and `UpdateSandboxConfig` | one window per tab; the server's read and its write are separate steps |
| `Viewer` | five pages that fetch what is selected | `page` names the page, `fetches` the requests under way |
| `Sessions` | a session in `redisstore.go` or `db.go` under `chatHandler`, `submitTaskHandler`, `saveSessionResult`, `ShareSession`, `SaveSnapshot`, `DeleteSession` | the stored session, messages, events, snapshot, index and links, and per request its stage and what it holds; on Redis every command is a step, on SQLite every statement; reading a list of Redis may fail and then gives none; `lost`, `crossed`, `met` and `crashed` record what was written over unread, turns that overlapped, a deletion that overlapped and a restart |
| `Pages` | a browser tab, which shows one page at a time | the conjunction of the last five modules; one of them moves |
| `HotReloadProofs`, `HistoryProofs`, `RunOutputProofs`, `McpToolsProofs`, `ChatPageProofs`, `ConversationStoreProofs`, `PagesProofs`, `SessionsProofs` | theorems; those of `Failover` are in `HistoryProofs`, those of `StageBudget` and `EventReader` in `RunOutputProofs` | inductive invariants and their proofs |
| `MCHotReload`, `MCFailover`, `MCHistory`, `MCRunOutput`, `MCMcpTools`, `MCChatPage`, `MCEventReader`, `MCConversationStore`, `MCRunOptions`, `MCPages`, `MCSessions` | instances for TLC | values of the constants |

Operators with the comment "Mutant of X" are X as a plausible bug would
have it. No specification uses them; putting one in X's place must break the property
it was written for, which shows that the property depends on that code.

## Runs

| Run | Bounds | Shows |
|---|---|---|
| `hot_reload` | 2 requests, 1 writer, 2 contents of one section, 2 writes, 1 rebuild; faults in file and database writes, reads and rebuilds (161 thousand states) | whoever comes back from the reload without a failure runs on what the source held at the last signalled write or later, and such a content comes into service; no request waits for ever, the installed runner's connections are open |
| `failover` | 2 calls on a pool of 2 models, 1 rate retry, 1 transient retry, 1 compaction (378 thousand states) | retry budgets; the calls implement `FailoverSpec`: one fails only after every model was asked or taken from it by the other's failures; they return |
| `history` | every history of up to 2 defective blocks, longer ones of 5 and 7, 2 ids, 2 compactions (195 thousand states) | calls and results are paired, a sanitized history is a fixed point, the latest user message is sent |
| `run_output` | 3 events of the source, 1 of the finalizer, 2 texts of which the longer overflows the evidence (1.3 million states) | events pass in order and then comes one of the endings, nothing is lost silently, the newest conclusion is the answer, the stage returns |
| `mcp_tools` | 2 runs, 1 call each, 2 retries, burst 1 (433 thousand states) | a retry uses a new client; calls return unless a run waits for the server for ever |
| `chat_page` | 2 streams of one event each beside their start, calls and end, 1 switch, 2 tools, 1 sub-agent; 2 calls in a message, whose results come in any order (399 thousand states) | one session on a page, approvals go to the run that asks, cards bear the right tool's name unless a result overtook another, what others said stays, the input comes back |
| `event_reader` | 2 envelopes between the session and the final one, every cut (58 thousand states) | implements `Channel`, an approval is heard, the restored timeline agrees with the live one |
| `conversations` | 2 sessions, 2 turns, 2 clicks in the panel, a cap of 2 records and 1 left by a full storage (1 million states) | one record per session, snapshots of their own session, the resting page is stored, deleted records stay deleted, saving settles |
| `pages` | one service and machine, 1 line behind a command; 1 model, 1 rebuild, 1 reload; 2 files in a folder and beside it, 2 edits, 2 requests under way; 2 subjects, 3 clicks; 2 edits and 2 reopenings of the forms (1.4 million states) | a message is sent as shown, a run has what was chosen, files get their own text in order, what is shown belongs together and one of a session's two endpoints suffices to show it, sections stay |
| `sessions` | a session that has had a turn; a chat or a share, a submitted task, and a share, a deletion or a snapshot, each once and two at a time, on Redis and on SQLite; runs that come to nothing or end well; reads of the messages that fail when the answer is to be stored; one restart (5.5 million states) | a turn's messages and events are kept, its tokens counted and its status ended, links last, nothing stray is left, unless something was written over unread |

Why the bounds are enough. Two requests give every pair of overlapping reloads, and a
third adds no new kind of overlap, because only the holder of the lock changes what a
reload compares; `ReadYourWrites` is proved for any number of requests, writers and
writes, over all five sections. Two contents tell stale from current; two versions let a
write overtake a reload. Two models and two calls let one call's failure take the other's
model before, while and after it asks. Two ids
let results answer the wrong call, and one history with two compactions folds something
twice. Three events give a dropped one with something before and behind it. Two
concurrent calls with two retries let each reconnect over the other's client. Two
streams let a resume follow or overlap a chat, and a switch happen under either. Two
envelopes give a cut line something behind it. A cap of two and a quota of one let a
save evict the open record or another one. Two files, subjects or sections tell mine
from the other's, and two requests under way overtake each other. Two requests on a
session at a time give every pair that can write over each other, and the third comes
before, between or after them. Where a safety property is proved the bound matters for
liveness and refinement only.

The properties that have a proviso (`~mixed`, `~loosed`, `~overtaken`, `swapped`, `taken`,
`crossed`, `overlap`, `Unharmed`) name in it, by a history variable, the one thing that has
to happen for the code to go wrong: what the user does, how two requests, calls or results
overlap, or a read that fails. The proviso says what the code leaves open, and the property
that nothing else is needed. Each way of writing over that a property of `Sessions` names is one without which it fails.

Two more runs end in a counterexample, each of one property that quotes what the
repository says:

- `memory_tools_follow`: a change of the memory section alone leaves the installed
  runner's memory tools on the old store (`hub.go:416`).
- `approvals_resume`: a run with a chosen model or profile interrupts with a checkpoint
  in its own runner's store, and the resume asks the installed runner, which does not
  have it (`hub.go:913`).

## Fairness

- Goroutines that can take a step do: weak fairness of each request's, writer's,
  caller's, stage's steps. `HotReload` takes `reloadMu` under strong fairness, as Go's
  mutex hands itself to a waiter that has waited for a millisecond. In `McpTools` the
  calls are finitely many, so weak fairness of `Lock` suffices.
- A language model's endpoint answers or its HTTP client gives up, which `CallsReturn` of
  `Failover` rests on. Nothing is assumed of a tool server: neither a request nor a
  reconnect has a timeout of its own, so `CallsReturn` of `McpTools` says that every call
  returns unless some run waits for the server for ever without being cancelled. Nothing is
  assumed of the agent a stage wraps: it may send nothing and never end.
- Timers fire: sleeps, the limiter's ticker, the stage's deadline. The close of replaced
  connections may come at any time or never.
- `Converges` assumes that requests keep coming, since only they trigger reloads, and
  holds for behaviours in which reloads fail only finitely often.
- `StageReturns` assumes that the finalizer ends, which is a stage with a timeout.
- In the browser, a stream that is open goes on and ends (weak fairness of `Event` or
  `End`), since the server's runs do, or their connection is lost; a timer that stays
  armed fires (weak fairness of `Autosave`). Nothing is assumed of the user.
- Cancellation, disconnects, faults, writes and new runs are never assumed.

## Proofs

Each theorem holds for every value of the constants under the module's named
assumptions, which say only that bounds are natural numbers, that pools and limits
are not empty and that the null values differ from the others; TLC evaluates them in
every run.

- `HotReloadProofs`: `ReadYourWrites` and `NoSkippedVersion` are not inductive, because
  whether the runner matches the source depends on what the lock's holder has read so
  far and will diff against. `IInv` adds: exactly the lock's holder is in the locked
  region; the runner equals `lastCfg` in the sections that need a rebuild except
  between swap and commit; what was read under the current version stood when it was read;
  and once somebody knows the current version to be in service, the runner, `lastCfg`
  and everything read are contents that stood since the version was bumped (`standing`):
  the stored ones, or, when a writer is under way or has failed in the file, one of those
  it went through. `ConnectionsInv` orders generations:
  those waiting for their close are older than the installed one.
- `HistoryProofs`: the output is paired, uses ids once, and every id it uses is in
  `resolved`; each action appends blocks that keep this. `Stable` needs two more facts:
  no result of a turn has the id of a later turn's call (`Clean`), and the results of
  written turns are resolved, so that a pass over its own output finds nothing to
  change; folding whole blocks and adding the summary keep a history clean.
  `LatestUserKept` needs `LatestInv`: the last user message still to be read or already
  written is the latest or a former tool result, hence one that is never folded.
- `HistoryProofs`, of the models that are asked with it: the counters bound each other
  (`CountInv`); `RoundInv` measures the distance from `idx` round the pool to every
  model that a call has neither asked nor lost to others (`skipped`), which stays below the
  attempts left: a failure of any call moves `idx` past no such model of any call. From it
  follow `FailsOnlyAfterAll` and, step by step, `FailoverSpec`, for any number of callers.
- `RunOutputProofs`: the output's first `fwd` events are the source's, the pump holds at
  most one more, and a dropped event implies a done context; texts of forwarded
  events are in `seen`, and `seen` is what the evidence holds unless it is full. `InOrder`
  adds what may follow the forwarded events, by the way the stage ended.
- `RunOutputProofs`, of the reader: what the server has written is one long text in which
  every line has four places, and the character at a place is known (`At`). `InText` says
  that buffer and wire together are that text behind the lines parsed, and that the
  buffer holds no whole line. A read then parses exactly the lines that end in what it
  has: the last newline is computed from where the cut falls (`LastOf`), the starts of
  lines are counted (`LinesAre`), and the rest stays. `Heard` adds that only the last
  envelope is final and that `interrupts` is what the run asked, once that envelope is
  parsed. Every write, read and end maps to a step of `Channel` or a stutter.
- `RunOutputProofs`, of the timeline: `FlattenSeq` and `FoldLeft` of the community modules
  are recursive functions, and what they yield for lists of any length is proved by
  induction over sets of numbers: a set has a least element (`LeastNumber`, from the
  library's theorem that the order of the numbers is well-founded), so one that holds 0
  and with a number the next holds all (`AllUpTo`). `Flattened` and `FoldMore` say what
  one element more changes, `ResultsMore` what one card more does to the results and
  answers. Live and replayed timelines have different cards, so `Agreed` compares only
  these; each kind of envelope keeps it (`EnvelopeAgrees`), and hence the envelopes of one
  read, one after the other (`LinesAgree`). It holds for every event, not only for those
  that agents produce.
- `McpToolsProofs`: a run that connects holds the lock and nothing is open meanwhile;
  `sent` never exceeds the retries counted, by step; clients are numbered upwards, so
  the one a retry reads is newer than the one that failed; chunk ids in use are
  `0..n-1`, so the next is fresh.
- `ChatPageProofs`: `SpinnerIsTrue` and `HistoryIntact` need only the types; the latter
  rests on `FindsLast`, that the search for the supervisor's last message finds the
  greatest of the candidates. `ApprovalsMatch` needs `Noted`: a resume under way was
  started without a click or is about the run the page last heard of. `CardNamesItsTool`
  needs `CardIsDue`: the open card is a call of its stream whose result is still due, as
  long as that is open, so that a result closes another tool's card only when it overtook
  that card's. `OneSessionOnPage` needs `OneInv`: a stream belongs to the page's session or is
  about to name it (`BelongsHere`), before there is a session only the stream the page
  waits for is open, and an untouched page is empty until the URL's session arrives.
- `ConversationStoreProofs`: records are numbered upwards (`Named`), and every record of
  the list after a step was there before, is new, or is the page's stored again
  (`ListMoves`), from which `DeletedStaysDeleted` follows. `Resting` says that the record
  of the page's conversation has what the page shows unless a stream or the timer will
  save it.
  For `SnapshotsAreOwn` every content that can
  reach the server, in records, posts and on the page, must be of its own session
  (`SnapInv`), which needs that the open stream is the page's, which has its session from the moment it
  is announced (`StreamIsPages`), and that
  the panel opens only sessions the server knows (`ListedKnown`). `OneInv` adds that
  records are of known sessions, so that a new session has none, and that only the
  page's own record is of the page's session.
- `PagesProofs`: a run's options are followed from the click through the request,
  the hub's reading of its lists and the choice of a runner; what is said of the lists
  (`steady`) shrinks with every rebuild, and the fall-back replaces both options.
  `BoxInv`, `TabsInv` and `PaneInv` say what each of their pages waits
  for: that the box's two copies of the filter agree, that a tab's copy is what is
  stored unless it was overtaken, that one subject is under way, the selected one. The
  file browser has four invariants, each proved from those before it: `FilesInv`, the
  page waits for at most one save and nothing is to be saved while a file is read;
  `OwnInv`, the one file that is read is the one selected, and texts are with their
  files; `MarkInv`, the save the page waits for is of the text it shows; `OrderInv`,
  the save under way is of a text at least as new as any on the disk. A step of the
  browser tab is a step of each page or leaves it alone.
- `SessionsProofs`: `Shape` says what the stage of a request tells of its kind, its phase
  and what it holds. `Orderly` says, as long as no deletion overlapped another request,
  that a deletion is alone and that a turn past its first stages, a sharing request and
  a link that was handed out have a session to work on; every other invariant rests on
  it, because only then a request that reads again finds what it had read. `LinkInv`
  follows a link from its key through the copies that carry it to the row and the
  answer; `CountInv` says at which step of which stage a turn is counted and a task's
  end is marked; `StrayInv` says what a deletion has done before each of its commands;
  `KeptInv` says at every stage of a turn which of its messages and events are in the
  lists, and that what a turn has read of a list has all there is of the turns nobody
  overlapped, unless a read failed (`ReadWell`); that turns under way together are crossed
  is `Apart`. `ExtendKept` is the step with content: a list extended from such a reading
  loses none of those turns.

Only model-checked: all liveness (`RequestsServed`, `Converges`,
`CallsReturn` of both modules, `StageReturns`, `InputComesBack`, `SavesSettle`), which
the proof system does not handle, as it does not handle ENABLED. Every safety property of
a passing run is proved.

Where lists can be described without recursion they are: `TurnsKept` names the places a
turn has in a list (`Of`) and their order, and `Lines` of `EventReader` takes the starts
of lines by their number (`Nth`). A filter by an operator (`SelectSeq`) is out of the
provers' reach; `Only` takes the places to keep, a set, instead.

Only proved: `NoSkippedVersion` of `HotReload`, `OneOpen` of `McpTools`, `SpinnerIsTrue` of
`ChatPage`, `EditsAreMarked` of the pages, `FailsOnlyAfterAll`, `CallsOnce`, `EvidenceKept`,
`RequestBudget`, `ChunksStay` and the type invariants of the modules with proofs, which no
listed run repeats; the other modules' type invariants hold on the instances of their runs.
`NoSkippedVersion` and its like are safety under any fault; that a fault is repaired is
`Converges`.

## Not modelled

- Text, formats, byte counts and statistics everywhere: a message is its role, ids and
  kind. How many blocks a compaction folds depends on bytes and is left open, so every
  choice is checked.
- `HotReload`: restart, the switch of user modes, connections of a rebuild that fails
  half way (they are never closed, `hub.go:548-562`), data races on single pointers.
- `Failover`: the first-chunk peek of `Stream`, and the cooldown of alerts.
- `McpTools`: start-up (`ConnectMCP` itself and `ListTools`' reconnect) and images.
- `ChatPage`: the panels that only show what events carried, the reports, more than two
  calls in one message. The server's side of a stream is whatever events it may send.
- `ConversationStore`: export, search, titles; two browser windows over one storage; which
  of two lists that the panel asked for comes last (see below). Streams the page has left
  are `ChatPage`'s.
- `RunOptions`: limits other than the profile; `Composer`: languages and the wording of
  a filter; `FileEditor`: hidden nodes and the synchronised store behind the files.
- `Sessions`: the routes that no page uses (creating and changing a session, adding a
  message), listing, migration between the stores, several sessions (their keys are
  disjoint, and the index is one set of them). Of failing commands only reads of the lists
  are modelled; that `ensureSession` takes a failed read of the session for its absence
  (`main.go:1304`) and a failed write are not.
- The landing page, charts, cards and the dashboard's tables: functions of their props
  to markup.
- Components of the plan's groups 4 to 7, and those that are input and output or pure
  computation: ck, dashboard aggregation, tracing, skills' parsing, JWT checks, mocks,
  scripts.

## Divergences seen without a run

- A user's stop during a rate-limit sleep raises the alert that all models failed,
  because the sleep returns the error it waited on (`failover_model.go:439`), although
  `errornotify.go:30-32` says that cancellations are dropped.
- The sanitizer forwards a result that follows a turn but answers none of its calls
  (`failover_model.go:753`), although lines 619-620 say that results without a parent
  are always converted.
- `CallTool` says it retries "6 times with 10s delay" and "then returns error as tool
  output" (`mcp_reconnect.go:114`); it retries 3 times with 3 s, and returns Go errors
  when cancelled while waiting (line 166) and for a retry's non-retryable error (176).
- The hub closes the client `ConnectMCP` returned; the one a reconnect installed is
  left open when the runner is replaced. Retries do not pass the rate limiter.
- The finalizer's own limit announcement counts as its content
  (`timeout_agent.go:213`), so a finalizer that reaches its limit leaves the run with no
  summary and no fallback.
- Memory and skills reloaded in place before a rebuild that fails stay in use and
  unrecorded; writing the old content back changes nothing (`hub.go:404`).
- A run that takes longer than ten seconds after a reload loses the connections it
  uses (`hub.go:587`).
- A call may fail although it did not ask every model ("only after trying all models",
  `failover_model.go:119`): every failure of another call moves the shared index on
  (`failover_model.go:317`), past the model whose turn it was, and another one is asked
  twice. `FailoverSpec` says so (`taken`), and that nothing else takes a model from a call.
- A configuration file whose write fails half-way is left as it is and the error is
  returned before the version is bumped (`config_api.go:373-375`): the rest of the file
  comes into service with the next signalled write of anyone, or, after a restart, at once.
- A reconnect has no timeout of its own and holds the server's lock
  (`mcp_reconnect.go:50-84`): while a server accepts the connection and says nothing, every
  failing call of every run waits behind it, also one whose run was cancelled.
- Results of calls that one message makes together come as they finish, and the page has
  one slot for the open call: a result that overtakes another closes that one's card, under
  the other tool's name (`AgentWorkspace.tsx:581-583`).
- A list of messages or events that cannot be read is taken for empty and written back
  with only what was added (`redisstore.go:456-458`, `:498-500`): one failed GET loses the
  conversation.
- Of two lists that the history panel asked for, the one that comes last stays, be it the
  older one: a deleted session is then listed until the panel is opened again
  (`ConversationHistory.tsx:77-85`).
- Text that a finalizer says beside a tool call counts as its summary
  (`timeout_agent.go:213-218`): if nothing follows there is no other, and no fallback.
- The summary a root stage falls back to begins with the limit announcement, is taken
  for one, and is not stored as the run's answer (`timeout_agent.go:265`).
- A collected run empties the chunk stores while other runs hold ids, which then lead
  to other results (`hub.go:691`).
- Switching auto-approve off during a run does not reach the run's own interrupts, whose
  handler closed over the switch (`AgentWorkspace.tsx:924`), although `i18n.ts:35`
  says "When off, you must manually approve each one."
- Loading or clearing a conversation under an open stream lets the stream write into
  the new page and set its session (`AgentWorkspace.tsx:994`, `:1085`); Stop cannot
  abort a resume (`:1577`).
- With a filter, only the first line behind a command is sent
  (`ChatInput.tsx:265-267`), and `/report` with nothing behind it is no command.
- The execution mode "Manual" and the number of iterations are chosen beside the box but
  never sent (`ChatInput.tsx:841-843`, `api.ts:281-300`).
- A limit profile remembered in the browser and since removed makes the run fall back
  to the default model and limits without a word (`hub.go:783-790`); the lists on
  offer are stale until something else forces a rebuild, because the diff does not look
  at them (`hub.go:385-389`).
- A restore that answers after the user has cleared the page writes the old
  conversation into it (`AgentWorkspace.tsx:393-415`; `handleClear`, `:994`, does not
  cancel it). The proof of `SnapshotsAreOwn` failed on it, with three turns TLC finds
  it, and `mixed` now records it.
- The history panel means to append "local-only sessions not on server"; ids of
  browser records and of server sessions never coincide, so a session that is in both is
  listed twice (`ConversationHistory.tsx:80-82`).
- `UpdateSession` on Redis means to "merge non-zero fields to avoid overwriting"
  (`redisstore.go:353`), but its callers change a copy read earlier and give all of it,
  so that metadata stored meanwhile are lost; on SQLite they are lost as well.
- A session deleted during a run comes back on Redis without title and user, so that
  nobody's list has it (`main.go:1454`); the share links of a deleted session remain
  and lead to it (`redisstore.go:388-394`).
- A restart leaves the status of a submitted task at "running" for ever
  (`main.go:972`), and "failed" is never reached, because `collectBackgroundEvents`
  returns no error (`main.go:1657-1669`).
- The comment of `enrichSessionTokens` says that an existing `token_usage` is replaced
  (`main.go:1844`); the code adds to it.
- The events of two runs of a session have the same indices, by which SQLite orders
  them, so they interleave (`main.go:1426`, `db.go:437`).
- "This prevents client disconnect ... from killing the agent" (`main.go:838-840`), but
  five seconds after a disconnect the agent is cancelled (`main.go:860-866`). A resumed
  run is not stored at all.
