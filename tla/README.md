# A TLA+ verification of HostSpan

HostSpan is two programs. `environment_runtime` is a service that runs commands
(*tasks*) and interactive terminals (*sessions*) on local and ssh endpoints,
keeps their records in a database, and picks them up again after a restart.
`mini_harness` is an agent that drives a language model and acts through that
service. This directory models the parts where the order of steps decides
whether the service tells the truth, checks them with TLC on small instances,
and proves the most important safety properties with TLAPS for every instance.

Paths below are relative to the repository, as in `PROJECT.json`, whose `map`
gives for every definition the lines it stands for.

## 1. The system

Everything in the runtime process runs on one asyncio loop. A coroutine keeps
the loop between two awaits and loses it at each await, so the unit of
interleaving is the stretch of code between two awaits that depend on something
else: a database call, a remote command, a future. The idiom that makes the
services hard is the same everywhere: a record is read, awaited over, changed
and written back *whole* (`SqlAlchemyRepository.upsert`).

| Component | State | Operations | Talks to |
|---|---|---|---|
| Task service (`services/task.py`) | rows of the task table, `task_handles`, background watchers | `start`, `get`, `cancel`, `logs`, `reattach_on_startup`, three watchers | providers, repositories, events |
| Execution providers (`local_process`, `local_detached`, `ssh_detached`) | a handle: a future, a polling task, an offset | `start`, `wait`, `cancel`, `detach`, `close`, `reattach` | processes, log and status files |
| Launchers (`_launcher.py`, `_launcher.sh`) | a process, its child, the status file | fork, forward signals, wait, write the status | signals, files |
| Session service (`services/session.py`) | rows of the session table, `session_handles`, watchers | `create`, `get`, `write`, `resize`, `terminate`, `reattach_on_startup` | session providers, frames, events |
| tmux provider (`ssh_tmux.py`) | a handle: a future and a polling task; the tmux session; the status file | `create`, `attach`, `status`, `write`, `resize`, `terminate`, `detach` | tmux over ssh, sftp |
| pty providers | a process and a reader, lost with the runtime | the same without `attach` | a pty |
| Recovery (`services/recovery.py`) | - | reconcile tasks and sessions at startup | both services |
| Runtime context (`services/runtime.py`) | the registries of live handles | `build_runtime`, `shutdown_runtime` | everything |
| Repositories, event store, bus | the tables; subscriber queues | upsert, append, list, publish | - |
| Writer leases (`services/security.py`) | lease rows | `acquire`, `validate` | session writes |
| Broker (`broker/`), REST API, SDK, CLI | connections, subscriptions | dispatch, streams with limits and heartbeats | the services |
| Endpoint, environment, workspace, artifact, secret, interaction services | one row per object | create, look up, resolve | - |
| Agent loop and controller (`mini_harness/agent`) | a state machine, counters, the conversation | one turn: decide, execute, check a final answer | model, tools |
| Tools, registry, permissions, approvals | policy; the work context's inventory of tasks and terminals | authorize, execute | SDK, user |
| File tools (`file.py`) | snapshots of the files seen | preview, approve, prepare, write | files, sync engine, user |
| Sync engine (`mini_harness/sync`) | the manifest last pushed | scan, plan, push | files, runtime |
| Remote tools (`remote.py`), ssh transport | the conversation's target; endpoint rows, secrets, connections, trust | connect, probe, install tmux | broker, user, the host |
| Conversation context (`context/messages.py`) | tasks, answers, results, a summary, artifact files | add, build, compact | loop |
| Models, trace, console, CLI | text | requests, printing | - |

What is hard, component by component:

* **Tasks.** A cancel holds its copy of the record across up to five seconds in
  which the watcher stores the outcome; a timeout cancels the very future the
  watcher awaits; the status file and the pid are looked at one after the
  other; the runtime may crash between any two steps, while launchers and
  commands go on; the connection to a remote host may fail at every use.
  Correct means: an outcome in the table is what the command did, LOST is said
  only of a task that is gone, no live record is left without somebody who will
  finish it, and a finished command is eventually recorded.
* **Output.** A tailer reads bytes, stores characters and resumes at a stored
  position. Correct means: every byte once, in order, and all of it before the
  outcome is stored.
* **Sessions.** `get` repairs a record that has no handle, so two clients can
  attach two handles to one terminal; `terminate` drops whichever is registered;
  a watcher looks its handle up late. Correct means: exit codes are real, no end
  is claimed for a terminal that runs, and a registered handle is always one
  that somebody will drop when its terminal is dead.
* **Streams.** Events are stored and published in two steps; a stream merges a
  backlog with a queue and filters by sequence number; frames are read in pages
  when an event arrives. Correct means: each item once and in order, nothing
  skipped, also across a reconnection.
* **Leases.** A lease is read, awaited over and stored; a write is validated and
  then takes several awaits to reach the shell, for tmux through one buffer in
  two remote commands. Correct means: nobody else's input reaches the shell
  while a lease has time left, input is never doubled, and a reply is true.
* **Connecting.** Conversations share the broker's endpoint rows, its secrets,
  its connections and a trust that is to be spent once. Correct means:
  connecting again finds what the first attempt left, failed attempts leave no
  password, and a key is trusted no more often than the user said.
* **Installing tmux.** The tool reads a terminal for markers and passes sudo's
  prompts on to the user, and may be cut anywhere. Correct means: "installed"
  is true, nobody is asked more often than sudo asks, and the terminal is closed
  on every way out.
* **Agent.** An iteration counter, a budget of errors shared by three kinds of
  failure, a window of recent calls and a guard bound a turn; behind each call
  the registry asks up to four questions, any of which may be skipped, refused
  or followed by a timeout. Correct means: every turn ends and its end is told
  truthfully, the machine never leaves its table, and no tool runs without the
  consents it needs.
* **Tools.** A call runs in threads that go on when its timeout cuts it, all
  tasks share one log cursor, one terminal has the focus, and the guards of
  `run_command` and of the final answer read what earlier calls left behind.
  Correct means: the outcomes in the inventory are real, output is returned once,
  in order and completely, a root shell the context knows of is not left
  silently, and an accepted answer relies on what is so.
* **Files and sync.** A file is read for a preview, approved by a person, read
  again and written, while people and cut calls change it; a manifest records
  what was pushed. Correct means: what was approved is what is done, no text the
  agent never saw is destroyed, and the manifest tells what is on the remote
  side.
* **Conversation.** Three triggers turn history into a summary. Correct means:
  nothing is lost or told twice, answers stay with their tasks, and the file a
  result names holds that result.

`PROJECT.json` lists every component with its status and, under `hazards`, each
of these difficulties at its line with the properties that watch it.

## 2. Modules

| Module | Models | Extends or uses |
|---|---|---|
| `TaskService` | task service, the three execution providers, launchers, task recovery, crash and shutdown; the refinement mapping | instance of `TaskLifecycle` |
| `TaskLifecycle` | abstract: the life of a task record as a client sees it | |
| `MCTaskService` | instances for TLC | `TaskService` |
| `TaskServiceProofs` | theorems about `TaskService` | `TaskService` |
| `DetachedLog` | the log of one detached task: tailer, rows, resume offset | |
| `DetachedLogProofs` | theorems about `DetachedLog` | `DetachedLog` |
| `SessionService` | session service, tmux provider, the shell in the pane, session recovery, crash and shutdown | |
| `MCSessionService` | call sets and symmetry for TLC | `SessionService` |
| `SessionServiceProofs` | theorems about `SessionService` | `SessionService` |
| `EventStream` | event store, frame table, event bus, `event.subscribe` and `session.subscribe_frames` | |
| `MCEventStream` | the filter of the client | `EventStream` |
| `EventStreamProofs` | theorems about `EventStream` | `EventStream` |
| `AgentLoop` | the agent's loop, its state machine, the turns of a session, `ToolRegistry.execute` | |
| `MCAgentLoop` | the registry configurations for TLC | `AgentLoop` |
| `AgentLoopProofs` | theorems about `AgentLoop` | `AgentLoop` |
| `TaskTools` | the task and command tools, the tasks of the work context | |
| `TerminalTools` | the terminal tools, the terminals of the work context | |
| `WorkTools` | both on one work context, `validate_final`, the guard of `run_command` | `TaskTools`, `TerminalTools` |
| `AgentContext` | tasks, answers, results and artifacts of a conversation; compaction | |
| `Conversation` | the tools at work beside the messages of a conversation | `WorkTools`, `AgentContext` |
| `MCWorkTools` | three kinds of conversation, symmetry | `Conversation` |
| `ConversationProofs` | theorems about the work tools and the messages | `Conversation` |
| `FileSync` | the file tools, `file_ops`, the sync engine | |
| `MCFileSync` | an edit, bounds, symmetry | `FileSync` |
| `FileSyncProofs` | theorems about `FileSync` | `FileSync` |
| `WriterLease` | leases, writes, input requests, the write of the session handles | |
| `RemoteConnect` | ssh connection tool, `ensure_remote_runtime`, `env.ensure_ssh`, secrets, ssh transport | |
| `TmuxInstall` | the installation of tmux through a terminal | |
| `BrokerClients` | the three above through one broker, and its restart | `WriterLease`, `RemoteConnect`, `TmuxInstall` |
| `MCBrokerClients` | which of them run together, symmetry | `BrokerClients` |
| `BrokerClientsProofs` | theorems about the three and their composition | `BrokerClients` |

### TaskService

State: `tasks` is the task table (state, whether `backend_ref` names a detached
backend, exit code abstracted to zero / nonzero / None); `task_handles`,
`completion` and `tail` are the runtime's memory of a handle (registered, the
future of `wait()`, its `_run` task); `starter`, `watcher`, `canceller` and
`reconcile` are coroutines with the place where they wait and the copy of the
record they hold; `launcher`, `child` and `status` are the operating system's
side, which survives a crash; `announced` are the outcome events already stored.

Actions follow the code's awaits:

* `StartPrepare`, `StartRejected`, `StartSpawn`, `StartRecord`, `StartWatch`:
  `TaskService.start` with the provider's `start`. A remote start may fail after
  the launcher is already running.
* `WatchGet`, `WatchEmit`, `WatchUpsert`, `WatchPop`: the three watchers. The
  event is stored before the record, and only a registered handle is popped.
* `TailStatus`, `TailProbe`, `TailRaises`, `ProcessExits`: how a future gets
  resolved: the status file, then the pid; an exception of the connection ends
  the polling task.
* `CancelGet` ... `CancelFinish`: `TaskService.cancel` and `handle.cancel()`,
  with SIGTERM, the timeout, SIGKILL, and every way out by an exception.
* `LauncherForks`, `LauncherTraps`, `LauncherWrites`, `LauncherDies`,
  `ChildExits`: the processes. `Terminated` says what SIGTERM does to a launcher
  in each of its phases; the Python and the shell launcher differ.
  `EarlyCancel` are the tasks a client may cancel before their start has
  returned; `MaxStarts` bounds the tasks that are started.
* `Crash`, `ShutdownBegin`, `ShutdownDetach`, `ShutdownEnd`, `Boot`, the four
  `Reconcile...` actions and `BootDone`: the end and the next start.

`TaskLifecycle` is what a client may rely on: one life per task, an outcome only
if the command had it, and a terminal state that is final as soon as nobody who
read the record earlier is left to write it. `TaskService` maps `life` to the
table, `result` to the command and `writers` to the coroutines holding a copy.

### DetachedLog

`file` is a sequence of bytes in which "H" "L" are the two bytes of one
character; a row remembers the byte range it was decoded from (a ghost) and the
stored offset, which counts characters as the code does. `Decoded` is the length
of a decoded chunk, with a replacement character for half a pair;
`ResumeOffsets` is `LogRepository.resume_offset`. The tailer's loop is
`TailRead`, `TailAppend`, `TailEmpty`, `TailCheck`; `Crash` may fall between a
read and the insert of its row. The launcher may die without a status file
(`LauncherDies`) while the command, in a session of its own, prints on:
`TailCheck` completes on the status file or on a pid that answers no more, and
`printed` remembers how long the file was then. A cancel that gets no completion
in time kills the launcher and cuts the tail off (`CancelTimesOut`); a recovery
finds a status file, a live launcher or neither (`ReattachGone`).

### SessionService

One session on the durable backend. `session` is its row; `active` the entry in
`session_handles`; `run` and `completion` the polling task and the future of
each handle; `actor` one coroutine per client, per watcher (named after the
handle it was created with) and for the runtime itself, each with its operation,
its place, its copy of the record, the handle it uses and how far its look at
the terminal has come; `tmux`, `command` and `status` are the remote host.
`LookNext` is `_tmux_status` as the three remote looks it consists of (file,
has-session, file again), so another actor can act between two of them. `get`,
`_reattach_if_needed` and `reattach_on_startup` are shared by every operation,
by the watcher and by the recovery; `Dispatch` and `Reclaimed` say where each
goes on.

### EventStream

`events` and `frames` are the two tables, an emitter is a coroutine between the
change it made and the publication of its event (`StoreEvent`, `Publish`), and a
client has at most one open stream: `pc` is where the coroutine serving it is,
`last`, `todo`, `queue`, `sent` and `limit` are its local variables. `last`
outlives the stream, because a client that subscribes again passes the last
number it has (`after_sequence`, `after_seq`); `received` is a ghost.
`Subscribe` comes before `Query`, as in the code, and other steps may come
between them. An event stream queries once and then lives on its queue, an event
at a time (`TakeEvent`); a frame stream takes every event of its session as a
sign to query page after page until nothing is left (`TakeWakeup`, `Query`,
`SendRow`, `RowsSent`). A stream ends at its limit, at its deadline, when a send
fails or with the runtime. SQLite serializes writers from the flush that assigns
a number to the commit, so a number is assigned and visible in one step; putting
an event into an unbounded queue does not give up the loop, so publication is
one step too. Item and frame numbers start at 1 in the model.

### AgentLoop

One conversation. `machine` is the `StateMachine`; `at` is where the turn's only
coroutine is, within `run_with_context`, `_execute_decision` or
`ToolRegistry.execute`; `iterations`, `errors` and `recent` are the loop's
counters and its window of fingerprints; `denied`, `overridden` and `result` are
local variables of the registry and `depth` is the work context's sandbox depth.
`executed`, `granted` and `refused` are ghosts. A call is its fingerprint, and
the model's decision, the tool's answer, what the policy denies and the user's
answers are arbitrary. `guarded` stands for the answer of `validate_final`,
which a tool or the words of the next task may change. `Move` is one
`_transition`; an event sink, the context, the model or a prompt may raise at
every place (`Raises`), and `HandleError` is what the two except clauses make of
it: `failed` and a result, or, when the machine is already `completed` or the
sink raises again, an exception that escapes. A tool never raises, because
`RuntimeTool.execute` catches everything; it may be cut off by `wait_for`
(`ToolTimesOut`), which leaves `approved_sandbox` on the way. `ObserveTask` is
the detour of a successful `run_command`, which only a registry with the
internal tools has. The cancellation of the whole turn (an interrupt of the
program) is left out: no one sees the loop afterwards.

### TaskTools, TerminalTools, WorkTools

The agent makes one call at a time (`tcall`, `scall`: which tool, where it is,
what it has read). A call is one action per request of the runtime client: the
request runs in a thread, the runtime changes meanwhile, and `RuntimeTool`'s or
the registry's timeout may cut the call at every await (`TaskCallCut`,
`TermCallCut`); the thread then goes on (`threads`, `sthreads`). The runtime is
seen through its answers: `job` is a task, `term` and `frames` a terminal and
what it printed. The record of a job is not what its command did (`ended`): the
watcher records an outcome some time after the end, or LOST (`JobRecorded`), and
drops the handle in a later step (`JobReleased`); a cancel writes CANCELLED over
whatever the record says (`CancelledJob`), fails when the handle is gone, and may
be written over by the watcher in turn. A log has two streams whose offsets are
counted apart, and its rows are joined in the order of these offsets
(`LogsText`), so a row of the stream that is behind comes before text that was
already there; the cursor is a length of the joined text. Results are cut to
their last `MaxChars` characters (`MaxText` frames for a terminal) and marked. The rest are fields of the `WorkContext` by their
own names. `observe_task` reads the record and then the log, `observe_terminal`
the frames and then the tail, and text and cursor come out of the two as in the
SDK (`TailText`, `NextCursor`). Output is told apart as far as the tools look at
it: text, "uid=0", "permission denied"; inputs by what they do to privilege and
state. What an input does to the shell is the shell's: that a root shell is open
the context is *told*, by an input its pattern recognises or by output that names
uid 0 (`told`), and of other root shells - `sudo bash`, an input typed in two
parts, a human's hidden input, a root login - it is never told. `WorkTools` adds what reads both halves: `RunCommand` with the guard of a
clean task session, `Refused` (`validate_final`) and `NextTurn`.

### AgentContext

`history` holds `user_tasks`, `assistant_finals`, `tool_turns` and
`compacted_summary`; a task is its text and the turn that gave it, an answer the
turn, a result its number, a summary a sequence of lines that say what they are
about. `BuildMessages` makes the two comparisons with `max_context_chars` in the
code's order; which way they go is arbitrary, because sizes are. A summary of
20,000 characters holds `SummaryLines` lines here, and is cut from its front as
in the code. `TurnFails` is every way a turn ends without an answer. An artifact
file is named by a number and a tool, and holds a result.

### FileSync

`disk` is a file's text here and on the remote side, `snapshot` the work
context's `file_snapshots`, `manifest` the stored `SyncState`. A worker is the
thread of a call: the agent waits for one (`caller`), and one that was cut may
still be writing or pushing. The stages are those of the tools: `Preview`,
`Approve`, `Prepare`, `WriteText`, `WriteReturns`, and of the engine: `Scan`,
`Plan` or `PlanPush`, `Upload`, `WriteManifest`, `SaveState`. A content stands for
its hash. The scan hashes bytes; the upload, and the file tools for target sync,
read in text mode, which makes every line end `\n`: `Translated` is that
conversion, so the mirror of a file with other line ends is not what the manifest
records. Empty texts are left out, because a missing file has the hash of the
empty text in the code; an upload is one step, see the head of the module.
`Conflicts` is there as in the planner, although the engine passes no remote
manifest, so it never finds any; `delete_remote` plans deletions that nothing
carries out.

### WriterLease, RemoteConnect, TmuxInstall, BrokerClients

`WriterLease`: `leases` are the rows, `call` is a request with the place where
its handler waits, the lease it read and its fate; `buffer` is the tmux buffer
of the handle, `pasted` what the shell got. `AcquireRead` and `AcquireStore`,
`Validated` and the write behind it, `WriteBegins` and `WritePastes` are apart
because awaits part them. A remote command may fail before or after its effect.
`RemoteConnect`: an attempt goes through `PutSecret`, `EnsureList`, `Rotate` or
`AddEndpoint`, `EnsureEnvironment` or `CreateEnvironment`, `StartConnect`,
`EndConnect`, perhaps `Approve` and once more, then `Work` or `DeleteSecret` and
`GiveUp`; or it is cut. `TmuxInstall`: `program` and `frames` are the command in
the terminal and the markers in its output; `tool` is the call, which observes,
asks, decides and closes in the `finally` clause. A `close_terminal` that fails is
suppressed there and leaves the terminal, and so does a cut while it is being
opened, whose thread goes on (`left`); what runs in it may still install tmux. `BrokerClients` composes them:
a restart empties registries, secrets and connections and keeps the rows.

## 3. Runs

`tlc -workers 2 -config <Run>.cfg <Module>`.

| Run | Instance | Checks |
|---|---|---|
| `TaskLocal` | a detached and a plain local task, one client, one crash or shutdown, with fairness | `OutcomeIsReal`, `LostIsHonest`, `RecordIsBacked`, `ExitIsRecorded`, `RefinesLifecycle` |
| `TaskRemote` | one task, of the local detached backend, of the ssh backend under the shell launcher, or a plain process; a failing connection, two clients that cancel it (the ssh task also before its start has returned), one crash or shutdown | `OutcomeIsStatus`, `RecordIsBacked` |
| `LogTail` | six bytes of output in reads of two bytes, a launcher that may die, a cancel that times out, three restarts, with fairness | `LogIsFaithful`, `OutputIsStored` |
| `SessionCalls` | two clients, one creating and writing, one terminating, two handles | `RecordIsHonest`, `RegisteredIsAttended` |
| `SessionFaults` | one client with every call, one failure of the connection, one crash or shutdown, two handles, with fairness | `RecordIsHonest`, `RegisteredIsAttended`, `DeadIsUnregistered` |
| `Streams` | two emitters; a client of events, of which it wants one kind, or a client of frames, in pages of one; three events, two frames, streams with and without a limit of two, one broken connection or crash, with fairness | `StreamsAreFaithful`, `EventsArrive`, `FramesArrive` |
| `AgentTurns` | two turns, two calls of which one opens a terminal, four iterations, two errors, a window of three, all 32 configurations of the registry, with fairness | `NoRepetition`, `Consent`, `TurnIsHonest`, `LegalTransitions`, `TurnEnds` |
| `WorkTools` | two tasks, two terminals, or one of each; one cut call of each kind; and the messages of a conversation of three turns and five results, a summary of four lines | `WorkTypeOK`, `InventoryIsTrue`, `OutputIsReturned`, `NoShellDeserted`, `AnswerIsBacked`, `PromptIsWhole`, `AnswersArePaired`, `ArtifactIsKept` |
| `FileSync` | two files, two contents of which one is the other with other line ends, two threads, three calls and one change by others, or two calls and one failure | `ApprovedIsApplied`, `WritesAreGuarded`, `DriftHasCause` |
| `BrokerClients` | three requests of two writers of one terminal; three attempts of two conversations to connect; or one connected conversation that installs tmux twice; a fault or a restart of the broker in place of the third request or attempt | `ClientsTypeOK`, `LeaseIsRespected`, `InputIsFaithful`, `ConnectedCanReconnect`, `ConnectingIsOnce`, `InstallIsTruthful`, `NothingLeftBehind` |

Several properties are conjunctions of named parts, each stated where it belongs:

| Property | Its parts |
|---|---|
| `RecordIsBacked` | `ClaimsAreAttended`, `CancelledIsStopped`, `AnnouncedNotReversed` |
| `LogIsFaithful` | `LogIsPrefix`, `OffsetsIncrease`, `WatchedIsComplete` |
| `RecordIsHonest` | `ExitCodeIsReal`, `EndIsHonest` |
| `StreamsAreFaithful` | `EventsInOrder`, `NothingSkipped`, `FramesInOrder` |
| `TurnIsHonest` | `TruthfulEnd`, `BudgetKept` |
| `InventoryIsTrue` | `BriefsAreTrue`, `ActiveIsOpen`, `ReturnedIsListed`, `SessionsAreListed` |
| `OutputIsReturned` | `OutputIsWhole`, `ShownInOrder`, `SkippedHasCause` |
| `PromptIsWhole` | `HistoryIsWhole`, `HiddenIsBounded` |
| `WritesAreGuarded` | `NoBlindOverwrite`, `UnguardedIsRefused` |
| `InputIsFaithful` | `GivenOnce`, `ReplyIsTrue`, `ResolvedWasGiven` |
| `ConnectingIsOnce` | `EnsuredOnce`, `TrustIsSpent` |
| `InstallIsTruthful` | `PresentIsTrue`, `AskedAsOftenAsSudo` |
| `NothingLeftBehind` | `NoPasswordLeft`, `NoInstallLeft` |

The type invariants of `TaskService`, `DetachedLog`, `SessionService`,
`EventStream`, `AgentLoop` and `FileSync` are a theorem of each and are not
checked again.

What the properties say is written above each of them. The ones to read first:

* `OutcomeIsReal` / `OutcomeIsStatus`: whoever writes a record last, with
  however stale a copy, its exit code and SUCCEEDED or FAILED agree with the
  command (the status file).
* `ClaimsAreAttended`: a record that says RUNNING or CANCELLING has a coroutine
  that will still write it, with any number of clients cancelling it, but for
  three named ways to strand one (`Stranded`): of two overlapping cancels one
  writes CANCELLING after the other's timeout has cancelled the future; a failed
  ssh connection ended `_run` or the cancel; a cancel overtook the start, which
  then writes RUNNING.
* `AnnouncedNotReversed`: a recovery or a watcher never turns an announced success
  or failure into its opposite or into LOST. A cancel may write CANCELLED over
  it - and then it has announced that too.
* `RefinesLifecycle`: the table, read by a client, behaves as `TaskLifecycle`.
* `ExitIsRecorded`: once the status file is there and the runtime is eventually
  left running, the record becomes terminal and stays so.
* `RegisteredIsAttended`, `DeadIsUnregistered`: a handle in `session_handles`
  switches off the repair in `get`, so a dead one must always disappear.
* `NothingSkipped`: `event.sequence <= last_sequence` drops what the backlog
  already sent, and also an event that was published after a later one. The
  property says that this is the only loss; `EventsArrive`, that whatever was
  not overtaken does arrive.
* `Consent`: on each way to a tool - directly, with the sandbox lifted before,
  again after a denial - what is needed was agreed to for this very call.
* `NoRepetition`: the window counts decisions, the property executions; refused
  calls and blocked answers lie between the two.
* `BriefsAreTrue`: although records are overwritten, a brief that says SUCCEEDED or
  FAILED, and every exit code in one, is how the command ended. CANCELLED means
  that a cancel was begun, no more.
* `OutputIsWhole`: reading the record before the log is what makes the output of
  a task complete when its end is reported. In order and once holds for one
  stream, which is what a detached task has; text of two streams may be repeated
  and lost, and only its length is right.
* `SkippedHasCause`: a frame stored between the two requests of a poll that
  found none is passed over for good, and the beginning of a result that is too
  long is cut off with notice; output is lost in no other way.
* `NoShellDeserted`: no sequence of inputs, outputs and control keys makes the
  context forget a root shell that it was told of and that kept the focus.
* `AnswerIsBacked`: the guard of the final answer sees a flag that any later
  input, key or activation clears, so the property is about the last submission,
  with all output seen before it; and about what else the guard relies on, the
  exit code and the inventory.
* `ApprovedIsApplied`, `NoBlindOverwrite`: what a person approved is what is
  done, and an unread text is not destroyed, with the exceptions the code leaves
  open spelled out.
* `LeaseIsRespected`: a lease keeps other writers out, but for overlapping
  acquires, force, and a validation that has gone stale.
* `HistoryIsWhole`: through compactions in any order, summary and retained
  history hold every task and result once and in order.

**Bounds.** Two tasks of different backends suffice in `TaskLocal` because tasks
share nothing but the phase of the runtime; the second is there for the
non-persistent backend. One cancel already overlaps with start, watcher and
recovery; `TaskRemote` has two, which overlap with one another, on one task of
each backend in turn. One crash reaches
every pair of a step and a recovery, the third in `LogTail` a recovery of a
recovery. Six bytes in reads of two give three full
reads, a character cut in half by a read, and a resume in the middle. Two
handles are what two clients, or a client and a watcher, can attach at once;
after a crash both are free again. In `SessionCalls` handles are interchangeable
and no liveness is checked, so symmetry is used. Two emitters are what an
overtaking needs; with three events one of them may be in the backlog, one in the
queue and one on its way; two frames in pages of one leave a frame beyond a
page. The clients of the bus share nothing but the bus, so the run has one at a
time. In `AgentTurns` four iterations fill the window of three and leave one for
another decision, two errors let each kind of failure be the first or the last,
and the second turn starts from whatever the first one left. In `WorkTools` one
task of three characters, on either stream, has a row put before what was read
and a result that is too long for two (two characters where a call is cut); two
tasks, one of which prints or is cancelled, are what a shared cursor and a
cleared `active_task_id` can confuse; a second terminal is what takes the focus away, and
three inputs and frames on one, two on two, are an input, what it echoes and a
late frame (one fewer, or none, where a call is cut), in results of one frame;
tasks and terminals
meet only in the guards, so beside each other one silent task and one terminal
suffice. The messages share no state with the work context and run while it is
at rest; three turns and limits of two and three make every trigger of a
compaction fire, alone and after another. In `FileSync` a second file is what
`push_file` records without pushing, a second thread what a cut call leaves, and a
failure is followed by one more call, without a change that would hide it;
no file is ignored or too large there, because such a file takes part in
nothing. In `BrokerClients` the three parts share only the broker, so they run
one at a time (the installation after a connection); three requests let two
overlap and a third come after, and the same for attempts; a fault or a restart
meets two of them, a restart and a fault together one. Where requests,
threads, files, texts, tasks and terminals are interchangeable and only
invariants are checked, symmetry is used. Exit codes need only
be told apart. `CHECK_DEADLOCK FALSE` is used throughout: with all tasks finished and
no crashes left the system really may stop.

**Fairness.** Weak fairness of each coroutine that is ready (start, watchers,
tailers, a cancel in progress, the reconciliation, the shutdown, an emitter that
has an event in its hands, a stream that has something to send or to read): the event loop
runs ready callbacks in turn, and asyncio timeouts fire. Nothing is assumed of
clients, of commands, of launchers, of the network or of whoever restarts the
runtime: those steps may never happen. `ExitIsRecorded` and
`DeadIsUnregistered` therefore say "if the runtime is eventually left running".
`TurnEnds` assumes weak fairness of the turn's only coroutine: the model's client
has a timeout, `wait_for` bounds every tool, and the user is assumed to answer
the questions of the console, one way or the other.

## 4. Disagreements between the code and its documentation

Two runs expect a violation. Each states what a line of the repository says of
the program; `findings` quotes it.

| Run | Property | What TLC shows |
|---|---|---|
| `LogReappend` | `NotReappended` | after a two-byte character the resume position is too small and stored bytes are stored again |
| `SessionTerminated` | `TerminatedHasEnded` | a has-session command that could not be run makes the watcher store TERMINATED for a live terminal |

The passing properties are stated with these in mind: `OutcomeIsReal` leaves out
the shell launcher, whose `wait` returns on a trapped SIGTERM so that it writes a
code for a command that still runs (`LauncherStep`); `LostIsHonest` speaks of the
launcher, not of the status file, because a launcher that writes its status and
exits between the look for the file and the look for the pid is called LOST
(`TailStatus`, `TailProbe`); `CancelledIsStopped` says of a detached task only
that its launcher is gone, because the SIGKILL of a cancel reaches the launcher's
group while the command has a session of its own and goes on if it ignores
SIGTERM (`CancelKill`), and nothing of an ssh task over a failing connection,
whose kill may never arrive; `WatchedIsComplete` promises all of the output only
when there is a status file; `LogIsPrefix` is about one-byte output, `EndIsHonest` about
runs without a failed connection, and `RefinesLifecycle` about settled states: a
cancel that read the record before the command ended writes CANCELLING and
CANCELLED over SUCCEEDED, so a terminal state is final only when nobody who read
the record earlier is left (`docs/agent-sdk.md:153`).

The tools and the broker's clients, likewise:

* `docs/broker.md:63` says that a write is rejected if another principal holds a
  valid lease. The lease is validated before the write and not at the paste, and
  two acquires that overlap both succeed; `LeaseIsRespected` names these cases.
* `ssh_trust.py:38-41` tells the user that a key is trusted for the next
  connection attempt only. Two connections that start under one trust both use
  it; `TrustIsSpent` counts approvals otherwise.
* With no new frame, `_terminal_observation_text` takes the tail for new output,
  so a password may be asked for again; `AskedAsOftenAsSudo` excludes exactly
  that. A terminal that is being opened when the call is cut is left behind,
  because the `finally` clause comes later, and so is one whose `close_terminal`
  fails, because the error is suppressed; `NoInstallLeft` says that there is no
  third way. The password of an attempt to connect that is cut stays in the
  store, because `except Exception` lets a cancellation pass; `NoPasswordLeft` is
  about the others.
* The causes `DriftHasCause` admits: somebody changed the mirror; a direct write
  to the remote side, which is not recorded; a push that failed or was cut before
  it was recorded; line ends, which the scan hashes and the upload translates; a
  file that changed between scan and upload; pushes that overlapped; and
  `push_file`, which records the whole scan as pushed.
* Guarded writes: `allow_unguarded_write` is true by default, and writes without
  a snapshot, with a hash of the caller's own, or over text that arrives between
  prepare and write are outside of `ApprovedIsApplied` and `NoBlindOverwrite`; a
  partial read counts as having seen the file.
* Every write of the SDK and of the terminal tools takes its lease by force
  (`docs/broker.md:59`), so `LeaseIsRespected` is about clients that do not.
* The system prompt (`messages.py:22-25`) promises the saved output of a large
  result. Its file is numbered by the results retained, so after a compaction a
  number is used again and the file of a result still retained is overwritten;
  `ArtifactIsKept` holds for results that came after the last compaction.
* Tasks and answers are paired by index: a failed turn, or a task given twice in
  a row (which is not added), puts later answers beside other tasks.
  `AnswersArePaired` excludes these.
* `docs/mini-harness.md:28` says that older results are summarized while recent
  ones remain available. Results between `recent_tool_turns` and
  `auto_compact_tool_turns` are neither shown nor summarized; `HiddenIsBounded`
  says how many there can be.

## 5. Proofs

`tlapm <Module>Proofs.tla`. The theorems hold for every set of tasks, clients,
handles, files and exit codes and for every bound, from the assumptions named in
the modules (which tasks have which backend, that bounds are naturals, that model
values differ from one another). None of the properties is inductive as it
stands; each module ends with the invariants its properties rest on, stated
apart from the properties and checked by TLC before they were proved.

* `TaskServiceProofs`
  * `TypeCorrect`, `OutcomesAreReal` (`OutcomeIsReal`) and `LostTasksAreGone`
    (`LostIsHonest`). A record may be overwritten by any copy, so `RealInv` says
    that every copy in a coroutine's hands, every resolved future and the status
    file agree with the command, that a command which has exited is not started
    again, and that a launcher other than the shell one is never interrupted.
    `LostInv` does the same for LOST: a future without a code, or a watcher
    holding one, exists only when the launcher is gone, and gone is for ever.
  * `OutcomesComeFromStatus` (`OutcomeIsStatus`), from `StatusInv`: for a detached
    task every code anywhere is the one of the status file, which is written once.
  * `CancelledHasStopped` (`CancelledIsStopped`), from `StoppedInv` and `GoneInv`:
    nothing but its exit resolves the future of a plain process, whoever is past
    that future acts on an exited process, and no copy of its record has a
    `backend_ref` by which a recovery would take it for a detached one; and of a
    reachable detached task no future is resolved or cancelled, and no cancel
    comes to its last write, before the launcher is gone.
  * `OrderInvariant` (`OrderInv`): who may be at work on a task - its start, its
    watcher, cancels, the reconciliation - in which state of its record. It is the
    ground of the next three. For a task of `EarlyCancel` it says less: a cancel
    that begins before the start has returned has read the record without its
    `backend_ref` and writes it back so.
  * `AnnouncementsAreNotReversed` (`AnnouncedNotReversed`), from `AnnouncedInv`: an
    announced outcome is the status file's, and nobody who found no status file is
    still about to write. It speaks of records that name their backend: after an
    early cancel a recovery may find no `backend_ref` and call a finished,
    announced task LOST.
  * `RecordsAreBacked` (`RecordIsBacked`), from `AttendedInv`, for any number of
    clients, with early cancels and failing connections: an unfinished record has
    a coroutine that will write it, or a runtime that is down, or is `Stranded`.
    Of a task that is not cancelled early and whose connection cannot fail, the
    only stranded record is CANCELLING after a timeout, with its launcher gone.
  * `TaskServiceImplementsLifecycle` (`RefinesLifecycle`), without `EarlyCancel`
    and without the shell launcher: the initial states map to initial states of
    `TaskLifecycle` and every step to a step or a stutter. The writers of a task
    in `TaskLifecycle` are the coroutines here that hold a copy (`Writers`). The
    shell launcher is left out for the reason given in section 4.
* `DetachedLogProofs`: `OutputIsAPrefix`, `RowsAreOrdered`,
  `FinalOutputIsStored`, and the three together as `LogIsTheOutput`, all from
  `LogInv`. Its core: a stored offset (in
  characters) never passes the byte position of its chunk, the tailer's counter
  is above every stored offset, and the tailer stands where the last row ends or
  before the end of the file. What was printed when the completion was seen is
  read before the future is resolved, and once there is a status file nothing
  more is printed. With one-byte output offsets are byte positions,
  so the resume is exact. The lemmas bound `Decoded` (between one and the number
  of bytes) through the cardinality of the set of two-byte pairs.
* `SessionServiceProofs`: `SessionTypeCorrect` and `ExitCodesAreReal`
  (`ExitCodeIsReal`), from the module's `RealInv`: every exit code anywhere is
  the command's, a half-written status file exists only after the command
  ended, and a waiting watcher waits on a handle. Lemmas say what each step of a
  coroutine keeps, so an action's case is a few citations.
  * `RecordsAreHonest` (`RecordIsHonest`) adds `EndIsHonest`, from `HonestInv`: as
    long as no connection has failed, whoever claims an end - a copy, a watcher
    that reports, a terminate past its kill, a resolved future - does so of a
    command that runs no more. A terminate that finds no handle after its own
    reattachment is the hard case: the handle it had registered was dropped by
    another terminate or by a watcher, and those knew of an end.
  * `RegisteredStaysAttended` (`RegisteredIsAttended`), with failures, from
    `AttendInv`: a watcher ends only by dropping the registered handle, and an
    open future has a `_run` task that goes on, has raised, or is being shut down.
* `EventStreamProofs`: `StreamTypeCorrect`, `EventsArriveInOrder`,
  `OnlyOvertakenIsSkipped` and `FramesArriveInOrder`, together
  `ReceivedIsStored`, from `StreamInv`. Its
  parts: an event is published once and after it was stored (`BusInv`); a
  backlog has no hole below any of its rows (`BacklogInv`); everything published
  and wanted above the last number is in the backlog or the queue
  (`PendingInv`); and a number behind a greater one in a queue was published
  after it (`QueueInv`). Sending `n` then skips a wanted number `k < n` only if
  `k` is not published while `n` is, or stands behind `n` in the queue: `k` was
  overtaken either way. For frames: a client has received exactly 1 to `last`,
  and the least row of a page is the next one (`FrameInv`).
* `AgentLoopProofs`: `AgentTypeCorrect`, `NeverRepeats`, `ConsentIsAsked`,
  `EndIsTruthful` (`TurnIsHonest`) and `TransitionsAreLegal`, from `AgentInv`.
  Its parts: the state of the machine at each place of the coroutine
  (`WhereInv`), what has been granted at each place of the registry and how deep
  the sandbox is (`ConsentInv`), and that a run of equal executions shows in the
  window as a run of equal decisions (`RecentInv`). So when a call would be
  executed for the limit's time, the window is full of it and the call is
  refused. Nothing is assumed of the order of decisions, refusals and errors.
* `BrokerClientsProofs`, about `ClientsSpec`, the three clients side by side:
  * `ClientsTypeCorrect` (`ClientsTypeOK`).
  * `LeasesAreRespected` (`LeaseIsRespected`), from `LeaseInv`: a granted lease
    is the row with the greatest version and no acquire is under way beside it, an
    acquire that nobody overlapped stores the successor of what it read, and a
    write that is still held to its lease has the one of the latest row. The first attempt failed: the time
    until which a lease is promised has to be forgotten when an acquire that
    overlapped another one stores over it, or when one is forced.
  * `InputsAreFaithful` (`InputIsFaithful`), from `InputInv`: data is nowhere
    before its write begins and in one place after, and a write that is alone
    between its two commands has its own data in the one paste buffer.
  * `ConnectedStaysReconnectable` (`ConnectedCanReconnect`), `ConnectsOnce`
    (`ConnectingIsOnce`) and, for passwords, `LeavesNothingBehind`
    (`NothingLeftBehind`), from `ConnectInv`: what an attempt holds at each place
    (`InPlace`), who holds a stored password, what an attempt that is alone has
    ensured, what a restart that takes its password leaves it to find, and that
    an approval is with an attempt, with a trusted endpoint, or spent.
  * `InstallerIsTruthful` (`InstallIsTruthful`) and the terminals of
    `LeavesNothingBehind`, from `InstallInv`: a success that was printed or seen
    is one, the terminal is open only where the tool closes it before it ends, and
    every password asked for answers a prompt the tool has read past.
* `FileSyncProofs`, about `FileSpec`: `FileTypeCorrect`, `ApprovalsAreApplied`
  (`ApprovedIsApplied`), `WritesStayGuarded` (`WritesAreGuarded`) and
  `DriftIsExplained` (`DriftHasCause`), from `FileInv`, itself a theorem. Its
  parts: a snapshot is of a text the agent saw; what a call has previewed stays
  guarded by the snapshot of its path until it is prepared, unless the thread of
  a cut call got in its way; and a push that is alone still has the stored
  manifest, and what it has uploaded is known to be unrecorded.

* `ConversationProofs`, about `ConversationSpec`. The tools and the messages share
  no state, so each half has its own inductive invariant.
  * `WorkInvariant` (`WorkInv`, made of `TaskInv` and `TerminalInv`) gives
    `WorkTypes` (`WorkTypeOK`), `InventoryTrue` (`InventoryIsTrue`),
    `OutputReturned` (`OutputIsReturned`), `ShellsKept` (`NoShellDeserted`) and
    `AnswersBacked` (`AnswerIsBacked`).
  * For tasks: a job is started once, by a call or by the thread of a call that
    was cut, never by both, and a recorded outcome is the command's
    (`JobsStartOnce`); what a call has read of a record is true of the command,
    whatever the record says by now (`ReadIsTrue`); and the cursor stands behind
    what was shown plus what the call in flight has got (`CursorIsBehindShown`).
    With one stream the joined log only grows at its end, so it is returned
    without a gap or a repetition; with two only its length does.
  * For terminals: a root shell the context was told of and nothing disturbed is
    in the active session and the context is cautious about it (`RootIsKnown`), so the guard of `run_command` asks before leaving it. An empty
    page means that the cursor was at the end (`PageFollows`), and everything up to
    the cursor was returned or is in the hands of the poll, fell into its race or
    was cut off
    (`CursorFollowsView`). An owed answer keeps its input pending
    (`OwedIsPending`): a poll clears it only for a frame which is not the echo of
    that input, and an input is echoed once (`EchoesOnce`).
  * `ContextInvariant` (`ContextInv`) gives `PromptWhole` (`PromptIsWhole`),
    `AnswersPaired` (`AnswersArePaired`) and `ArtifactKept` (`ArtifactIsKept`). No
    line is about what is still to come (`InNumber`), a turn in progress owes one
    answer, to the newest task (`InPairs`), and a result that came after the last
    compaction has its place in the name of its file (`InPlace`). The lemmas say
    what a compaction does to a list that tells the newest of everything: moving
    its head into the summary and cutting the summary to its newest lines keeps it
    such a list.
  * The proof corrected the model: two cut writes of the same input on one session
    were one member of `sthreads`, so that one of them was lost; a thread now
    carries the number of its cut. The lines of a compaction, the text of a tail
    and `HistoryIsWhole` are written in closed form, without a fold, so that they
    can be reasoned about.

Where a proof needs the least or the greatest of a set of numbers it takes it from
the well-foundedness of the naturals; no recursive definition is reasoned about.

Only model-checked: liveness (`ExitIsRecorded`, `OutputIsStored`,
`DeadIsUnregistered`, `EventsArrive`, `FramesArrive`, `TurnEnds`), which is out of reach of the prover;
and the two runs of section 4, whose properties are false. Every invariant of a
passing run is a theorem.

## 6. What is left out

* Of the modelled components: the text of commands, output and events; the
  output of a non-persistent process; the fields of a record that no property
  mentions; read-only calls (`list_all`, `logs`, `terminal_frames`); two
  sessions at once (they share nothing). A handle whose close raises during a
  shutdown ends it; the models then end the runtime, as the process does.
  A status file that cannot be parsed (both launchers rename a finished file into
  place) and a half-written exit file beyond its being empty are left out.
* Remote tasks lose liveness: an exception in `SSHDetachedHandle._run` ends the
  only task that would resolve the future (`TailRaises`), so `ExitIsRecorded` is
  stated on an instance without ssh.
* Modelled, but without a property, because the repository promises nothing else: a
  crash between the spawn of a launcher and the storing of `backend_ref` loses the
  only reference to a running task; a task that finished while the runtime was down
  is finalized without its remaining output (`ReattachFinished`).
* Of the tools: the wording of results and briefs, the shell of a target, the
  facade, listing and searching of files. Of a connection: everything but
  whether it can be made and is alive. `probe_remote_tool_status` is called by
  nothing.
* The REST API is a second front end of the same services, a call per route; the
  snapshot provider copies a tree once. Neither has state of its own.
* Not modelled because they only move data: model providers, trace, console,
  command lines, diffing, the sftp and ssh libraries.
* Which requests a call makes of the policy, and which the policy denies, is
  arbitrary in `AgentLoop`: patterns over command texts are string matching, and
  a model of them would be a copy.

## 7. Plan

1. The end of a pty session and its five-second terminate in `SessionService`.
