------------------------------ MODULE TaskService ------------------------------
(***************************************************************************)
(* The life of a task in environment_runtime: TaskService (start, cancel   *)
(* and the three watchers), the handles of the local_process,              *)
(* local_detached and ssh_detached providers, the launcher and the command *)
(* it runs as operating-system processes, the status file, the task table, *)
(* and RecoveryService after a crash or a shutdown.                        *)
(*                                                                         *)
(* The runtime is one asyncio loop: a coroutine keeps the loop between two *)
(* awaits.  An action is what a coroutine does up to the await where it    *)
(* depends on the rest of the system, so a record read in one action and   *)
(* written back in a later one is a stale copy, exactly as in the code.    *)
(* Exit codes are abstracted to zero, non-zero and None.                   *)
(***************************************************************************)
EXTENDS Naturals, FiniteSets

CONSTANTS
    Task,           \* task ids
    LocalDetached,  \* persistent tasks on a local endpoint
    SshDetached,    \* persistent tasks on an ssh endpoint
    ShLauncher,     \* those of SshDetached whose host has no Python: _launcher.sh
    Caller,         \* clients that may call task.cancel concurrently
    EarlyCancel,    \* the tasks a client may cancel before their start returned
    NetFaults,      \* the ssh connection may fail while it is used
    MaxStarts,      \* bound on the tasks that are started
    MaxCrashes      \* bound on the crashes and shutdowns of the runtime

ASSUME BackendAssumption ==
    /\ LocalDetached \subseteq Task
    /\ SshDetached \subseteq Task
    /\ LocalDetached \cap SshDetached = {}
    /\ ShLauncher \subseteq SshDetached
    /\ EarlyCancel \subseteq Task
ASSUME FlagAssumption == NetFaults \in BOOLEAN
ASSUME BoundAssumption == MaxStarts \in Nat /\ MaxCrashes \in Nat

Detached == LocalDetached \cup SshDetached
LocalProcess == Task \ Detached

None == "None"
ExitCode == {"zero", "nonzero"}
TaskState == {"PREPARING", "RUNNING", "SUCCEEDED", "FAILED", "CANCELLING", "CANCELLED", "LOST"}
TerminalStates == {"SUCCEEDED", "FAILED", "CANCELLED", "LOST"}
(* Mutation of TaskRecoverableStates: every stored task is reconciled.     *)
AllStatesRecoverable == TaskState
TaskRecoverableStates == {"PREPARING", "RUNNING", "CANCELLING"}
TerminalEvent == {"task.completed", "task.failed", "task.cancelled", "task.lost", "task.recovered"}

(* A row of the task table.  backend_ref holds iff the stored reference    *)
(* names a detached backend; "ABSENT" is a row not inserted yet.           *)
TaskRecord ==
    [state : TaskState \cup {"ABSENT"}, backend_ref : BOOLEAN, exit_code : ExitCode \cup {None}]
Record(state, backend_ref, exit_code) ==
    [state |-> state, backend_ref |-> backend_ref, exit_code |-> exit_code]
AbsentRecord == Record("ABSENT", FALSE, None)
WithState(record, state) == Record(state, record.backend_ref, record.exit_code)
WithExit(record, exit_code) == Record(record.state, record.backend_ref, exit_code)

VARIABLES
    runtime,       \* "booting" (reconciling), "up", "stopping", "down"
    crashes,       \* crashes and shutdowns so far
    tasks,         \* the task table
    task_handles,  \* the keys of ActiveRuntimeState.task_handles
    completion,    \* per handle: the future handle.wait() awaits
    tail,          \* per detached handle: the _run task
    starter,       \* per task: TaskService.start
    watcher,       \* per task: its watcher coroutine
    canceller,     \* per client: TaskService.cancel
    reconcile,     \* per task: RecoveryService._reconcile_tasks
    launcher,      \* per task: the launcher process
    child,         \* per task: the command's process
    status,        \* per task: the status file, None when absent
    announced      \* per task: terminal events appended to the event store

memory == <<task_handles, completion, tail, starter, watcher, canceller, reconcile>>
world == <<launcher, child, status>>
vars == <<runtime, crashes, tasks, memory, world, announced>>

(* A watcher coroutine and a cancel call: where they are and the copy of   *)
(* the task record they hold.                                              *)
WatcherRecord ==
    [pc : {"none", "wait", "emit", "upsert", "pop"}, reconnected : BOOLEAN, copy : TaskRecord]
Watch(pc, reconnected, copy) == [pc |-> pc, reconnected |-> reconnected, copy |-> copy]
NoWatcher == Watch("none", FALSE, AbsentRecord)
NewWatcher == Watch("wait", FALSE, AbsentRecord)
ReconnectedWatcher == Watch("wait", TRUE, AbsentRecord)
PoppingWatcher == Watch("pop", FALSE, AbsentRecord)
CancelRecord ==
    [pc : {"idle", "check", "mark", "signal", "await", "finish"}, task : Task, copy : TaskRecord]
Call(pc, t, copy) == [pc |-> pc, task |-> t, copy |-> copy]
Idle(t) == Call("idle", t, AbsentRecord)
Serving == runtime \in {"up", "stopping"}
Running == runtime # "down"
Resolved == ExitCode \cup {None}

TypeOK ==
    /\ runtime \in {"booting", "up", "stopping", "down"}
    /\ crashes \in 0..MaxCrashes
    /\ tasks \in [Task -> TaskRecord]
    /\ task_handles \subseteq Task
    /\ completion \in [Task -> {"absent", "pending", "cancelled"} \cup Resolved]
    /\ tail \in [Task -> {"off", "poll", "probe", "died"}]
    /\ starter \in [Task -> {"idle", "preparing", "spawned", "recorded", "over"}]
    /\ watcher \in [Task -> WatcherRecord]
    /\ canceller \in [Caller -> CancelRecord]
    /\ reconcile \in [Task -> {"done", "todo", "probe"}]
    /\ launcher \in [Task -> {"absent", "starting", "forked", "waiting", "interrupted", "gone"}]
    /\ child \in [Task -> {"absent", "running"} \cup ExitCode]
    /\ status \in [Task -> ExitCode \cup {None}]
    /\ announced \in [Task -> SUBSET TerminalEvent]

Init ==
    /\ runtime = "up"
    /\ crashes = 0
    /\ tasks = [t \in Task |-> AbsentRecord]
    /\ task_handles = {}
    /\ completion = [t \in Task |-> "absent"]
    /\ tail = [t \in Task |-> "off"]
    /\ starter = [t \in Task |-> "idle"]
    /\ watcher = [t \in Task |-> NoWatcher]
    /\ canceller \in [Caller -> {Idle(t) : t \in Task}]
    /\ reconcile = [t \in Task |-> "done"]
    /\ launcher = [t \in Task |-> "absent"]
    /\ child = [t \in Task |-> "absent"]
    /\ status = [t \in Task |-> None]
    /\ announced = [t \in Task |-> {}]

-----------------------------------------------------------------------------
(* SqlAlchemyRepository.upsert: the whole record is overwritten.           *)
Upsert(t, record) == tasks' = [tasks EXCEPT ![t] = record]

(* TaskService._emit, for the events that report an outcome.               *)
Emit(t, event) == announced' = [announced EXCEPT ![t] = @ \cup {event}]

(* Mutation of Outcome: "if not exit_code" takes None for zero.            *)
OutcomeNoneIsZero(record, code, reconnected) ==
    IF record.state = "CANCELLING" /\ ~reconnected THEN "CANCELLED"
    ELSE IF code = "nonzero" THEN "FAILED" ELSE "SUCCEEDED"

(* The outcome the watchers derive from the exit code; only the watcher of *)
(* a registered handle honours CANCELLING.                                 *)
Outcome(record, code, reconnected) ==
    CASE record.state = "CANCELLING" /\ ~reconnected -> "CANCELLED"
      [] OTHER -> CASE code = None -> "LOST"
                    [] code = "zero" -> "SUCCEEDED"
                    [] OTHER -> "FAILED"

OutcomeEvent(state) ==
    CASE state = "CANCELLED" -> "task.cancelled"
      [] state = "LOST" -> "task.lost"
      [] state = "SUCCEEDED" -> "task.completed"
      [] OTHER -> "task.failed"

-----------------------------------------------------------------------------
(* TaskService.start.                                                      *)

(* The record is inserted as PREPARING and announced.                      *)
StartPrepare(t) ==
    /\ runtime = "up"
    /\ starter[t] = "idle"
    /\ Cardinality({u \in Task : starter[u] # "idle"}) < MaxStarts
    /\ Upsert(t, Record("PREPARING", FALSE, None))
    /\ starter' = [starter EXCEPT ![t] = "preparing"]
    /\ UNCHANGED <<runtime, crashes, task_handles, completion, tail, watcher,
                   canceller, reconcile, world, announced>>

(* SSHDetachedExecutionProvider.start: the channel may fail after the      *)
(* remote shell has started the launcher.                                  *)
RemoteStartUnanswered(t) == NetFaults /\ t \in SshDetached

(* The target cannot be resolved, the backend is not implemented or the    *)
(* provider raises: the exception leaves the record as it was inserted.    *)
StartRejected(t) ==
    /\ Serving
    /\ starter[t] = "preparing"
    /\ starter' = [starter EXCEPT ![t] = "over"]
    /\ \/ UNCHANGED launcher
       \/ /\ RemoteStartUnanswered(t)
          /\ launcher' = [launcher EXCEPT ![t] = "starting"]
    /\ UNCHANGED <<runtime, crashes, tasks, task_handles, completion, tail, watcher,
                   canceller, reconcile, child, status, announced>>

(* LocalDetachedExecutionProvider.start and its ssh twin spawn the         *)
(* launcher, and the handle's _run task begins to tail.                    *)
SpawnLauncher(t) ==
    /\ launcher' = [launcher EXCEPT ![t] = "starting"]
    /\ tail' = [tail EXCEPT ![t] = "poll"]
    /\ UNCHANGED child

(* LocalProcessExecutionProvider.start runs the command itself.            *)
SpawnProcess(t) ==
    /\ child' = [child EXCEPT ![t] = "running"]
    /\ UNCHANGED <<launcher, tail>>

(* The provider spawns the process, the handle starts its _run task and is *)
(* registered.                                                             *)
StartSpawn(t) ==
    /\ Serving
    /\ starter[t] = "preparing"
    /\ IF t \in Detached THEN SpawnLauncher(t) ELSE SpawnProcess(t)
    /\ completion' = [completion EXCEPT ![t] = "pending"]
    /\ task_handles' = task_handles \cup {t}
    /\ starter' = [starter EXCEPT ![t] = "spawned"]
    /\ UNCHANGED <<runtime, crashes, tasks, watcher, canceller, reconcile, status, announced>>

(* Only the detached backends store a reference that names them.           *)
BackendRef(t) == t \in Detached

(* The record start has kept since PREPARING is written as RUNNING.        *)
StartRecord(t) ==
    /\ Serving
    /\ starter[t] = "spawned"
    /\ Upsert(t, Record("RUNNING", BackendRef(t), None))
    /\ starter' = [starter EXCEPT ![t] = "recorded"]
    /\ UNCHANGED <<runtime, crashes, task_handles, completion, tail, watcher,
                   canceller, reconcile, world, announced>>

(* The watcher is created; it returns at once when the handle is gone.     *)
StartWatch(t) ==
    /\ Serving
    /\ starter[t] = "recorded"
    /\ starter' = [starter EXCEPT ![t] = "over"]
    /\ watcher' = [watcher EXCEPT ![t] =
          IF t \in task_handles THEN NewWatcher ELSE NoWatcher]
    /\ UNCHANGED <<runtime, crashes, tasks, task_handles, completion, tail,
                   canceller, reconcile, world, announced>>

-----------------------------------------------------------------------------
(* _watch_task, _watch_detached and _watch_reconnected.                    *)

(* handle.wait() returns, the handle is closed, the record is read and the *)
(* copy gets the exit code.                                                *)
WatchGet(t) ==
    /\ Running
    /\ watcher[t].pc = "wait"
    /\ completion[t] \in Resolved
    /\ watcher' = [watcher EXCEPT ![t] =
          Watch("emit", watcher[t].reconnected, WithExit(tasks[t], completion[t]))]
    /\ tail' = [tail EXCEPT ![t] = "off"]
    /\ UNCHANGED <<runtime, crashes, tasks, task_handles, completion, starter,
                   canceller, reconcile, world, announced>>

(* The outcome is announced before it is stored.                           *)
WatchEmit(t) ==
    LET state == Outcome(watcher[t].copy, watcher[t].copy.exit_code, watcher[t].reconnected)
    IN  /\ Running
        /\ watcher[t].pc = "emit"
        /\ watcher' = [watcher EXCEPT ![t] =
              Watch("upsert", watcher[t].reconnected, WithState(watcher[t].copy, state))]
        /\ Emit(t, OutcomeEvent(state))
        /\ UNCHANGED <<runtime, crashes, tasks, task_handles, completion, tail, starter,
                       canceller, reconcile, world>>

WatchUpsert(t) ==
    /\ Running
    /\ watcher[t].pc = "upsert"
    /\ Upsert(t, watcher[t].copy)
    /\ watcher' = [watcher EXCEPT ![t] =
          IF watcher[t].reconnected THEN NoWatcher ELSE PoppingWatcher]
    /\ UNCHANGED <<runtime, crashes, task_handles, completion, tail, starter,
                   canceller, reconcile, world, announced>>

WatchPop(t) ==
    /\ Running
    /\ watcher[t].pc = "pop"
    /\ task_handles' = task_handles \ {t}
    /\ watcher' = [watcher EXCEPT ![t] = NoWatcher]
    /\ UNCHANGED <<runtime, crashes, tasks, completion, tail, starter,
                   canceller, reconcile, world, announced>>

-----------------------------------------------------------------------------
(* The handles: LocalProcessHandle.wait, and the _run task of the detached *)
(* handles, which polls the status file and then the launcher's pid.       *)

ProcessExits(t) ==
    /\ Running
    /\ t \in LocalProcess
    /\ completion[t] = "pending"
    /\ child[t] \in ExitCode
    /\ completion' = [completion EXCEPT ![t] = child[t]]
    /\ UNCHANGED <<runtime, crashes, tasks, task_handles, tail, starter, watcher,
                   canceller, reconcile, world, announced>>

(* Mutation of TailStatus: only the pid is looked at.                      *)
TailStatusIgnored(t) ==
    /\ Running
    /\ tail[t] = "poll"
    /\ tail' = [tail EXCEPT ![t] = "probe"]
    /\ UNCHANGED <<runtime, crashes, tasks, task_handles, completion, starter, watcher,
                   canceller, reconcile, world, announced>>

(* _check_completion looks for the status file; its code resolves the      *)
(* future once the log is drained.                                         *)
TailStatus(t) ==
    /\ Running
    /\ tail[t] = "poll"
    /\ IF status[t] # None
       THEN /\ tail' = [tail EXCEPT ![t] = "off"]
            /\ completion' = [completion EXCEPT ![t] = IF @ = "pending" THEN status[t] ELSE @]
       ELSE /\ tail' = [tail EXCEPT ![t] = "probe"]
            /\ UNCHANGED completion
    /\ UNCHANGED <<runtime, crashes, tasks, task_handles, starter, watcher,
                   canceller, reconcile, world, announced>>

(* kill -0 of the launcher's pid.  A live process is always seen by a      *)
(* local probe; a process that is gone may still be seen (zombie, or a pid *)
(* in use again).  A failed ssh command counts as "not alive".             *)
ProbeSaysAlive(t) == TRUE
(* Mutation of ProbeSaysDead: EPERM counts as "not alive".                 *)
ProbeErrorIsDead(t) == TRUE
ProbeSaysDead(t) == launcher[t] = "gone" \/ (NetFaults /\ t \in SshDetached)

TailProbe(t) ==
    /\ Running
    /\ tail[t] = "probe"
    /\ \/ /\ ProbeSaysAlive(t)
          /\ tail' = [tail EXCEPT ![t] = "poll"]
          /\ UNCHANGED completion
       \/ /\ ProbeSaysDead(t)
          /\ tail' = [tail EXCEPT ![t] = "off"]
          /\ completion' = [completion EXCEPT ![t] = IF @ = "pending" THEN None ELSE @]
    /\ UNCHANGED <<runtime, crashes, tasks, task_handles, starter, watcher,
                   canceller, reconcile, world, announced>>

(* transport.connect or an SFTP read raises out of SSHDetachedHandle._run. *)
TailRaises(t) ==
    /\ Running
    /\ NetFaults /\ t \in SshDetached
    /\ tail[t] \in {"poll", "probe"}
    /\ tail' = [tail EXCEPT ![t] = "died"]
    /\ UNCHANGED <<runtime, crashes, tasks, task_handles, completion, starter, watcher,
                   canceller, reconcile, world, announced>>

-----------------------------------------------------------------------------
(* TaskService.cancel.                                                     *)

Cancelling(c, pc) == Serving /\ canceller[c].pc = pc

CancelGet(c, t) ==
    /\ runtime = "up"
    /\ canceller[c].pc = "idle"
    /\ tasks[t].state # "ABSENT"
    /\ t \in EarlyCancel \/ starter[t] = "over"
    /\ canceller' = [canceller EXCEPT ![c] = Call("check", t, tasks[t])]
    /\ UNCHANGED <<runtime, crashes, tasks, task_handles, completion, tail, starter,
                   watcher, reconcile, world, announced>>

(* No handle: NotFoundError.                                               *)
CancelCheck(c) ==
    LET t == canceller[c].task
    IN  /\ Cancelling(c, "check")
        /\ canceller' = [canceller EXCEPT ![c] =
              IF t \in task_handles THEN Call("mark", t, canceller[c].copy) ELSE Idle(t)]
        /\ UNCHANGED <<runtime, crashes, tasks, task_handles, completion, tail, starter,
                       watcher, reconcile, world, announced>>

CancelMark(c) ==
    LET t == canceller[c].task
        copy == WithState(canceller[c].copy, "CANCELLING")
    IN  /\ Cancelling(c, "mark")
        /\ Upsert(t, copy)
        /\ canceller' = [canceller EXCEPT ![c] = Call("signal", t, copy)]
        /\ UNCHANGED <<runtime, crashes, task_handles, completion, tail, starter,
                       watcher, reconcile, world, announced>>

(* What SIGTERM does to a launcher: before its handler is installed (the   *)
(* Python launcher installs it after the fork, the shell one before) the   *)
(* launcher is killed; afterwards the signal is forwarded to the command,  *)
(* which may exit or not.  A shell launcher whose trap runs before the     *)
(* fork ignores the signal, and one in wait stops waiting.                 *)
Terminated(t) ==
    CASE launcher[t] = "starting" -> IF t \in ShLauncher THEN {"gone", "starting"} ELSE {"gone"}
      [] launcher[t] = "forked" /\ t \notin ShLauncher -> {"gone"}
      [] launcher[t] = "waiting" /\ t \in ShLauncher -> {"interrupted"}
      [] OTHER -> {launcher[t]}

(* handle.cancel() sends SIGTERM.  An ssh transport that cannot connect    *)
(* raises here; a kill command that fails on the channel is ignored.       *)
CancelSignal(c) ==
    LET t == canceller[c].task
    IN  /\ Cancelling(c, "signal")
        /\ \/ /\ canceller' = [canceller EXCEPT ![c] = Call("await", t, canceller[c].copy)]
              /\ \/ \E next \in Terminated(t) : launcher' = [launcher EXCEPT ![t] = next]
                 \/ NetFaults /\ t \in SshDetached /\ UNCHANGED launcher
           \/ /\ NetFaults /\ t \in SshDetached
              /\ canceller' = [canceller EXCEPT ![c] = Idle(t)]
              /\ UNCHANGED launcher
        /\ UNCHANGED <<runtime, crashes, tasks, task_handles, completion, tail, starter,
                       watcher, reconcile, child, status, announced>>

(* The process ended in time: the handle is unregistered.                  *)
CancelDone(c) ==
    LET t == canceller[c].task
    IN  /\ Cancelling(c, "await")
        /\ completion[t] \in Resolved
        /\ task_handles' = task_handles \ {t}
        /\ canceller' = [canceller EXCEPT ![c] = Call("finish", t, canceller[c].copy)]
        /\ UNCHANGED <<runtime, crashes, tasks, completion, tail, starter,
                       watcher, reconcile, world, announced>>

(* Mutation of CancelKill: the TimeoutError is not caught.                 *)
CancelKillRaises(c) ==
    LET t == canceller[c].task
    IN  /\ Cancelling(c, "await")
        /\ t \in Detached
        /\ completion[t] = "pending"
        /\ completion' = [completion EXCEPT ![t] = "cancelled"]
        /\ watcher' = [watcher EXCEPT ![t] = IF @.pc = "wait" THEN NoWatcher ELSE @]
        /\ canceller' = [canceller EXCEPT ![c] = Idle(t)]
        /\ UNCHANGED <<runtime, crashes, tasks, task_handles, tail, starter, reconcile, world, announced>>

(* What SIGKILL does to a launcher.                                        *)
Killed(t) == IF launcher[t] = "absent" THEN "absent" ELSE "gone"

(* close() awaits the _run task and lets out the exception it died of.     *)
CloseRaises(t) == tail[t] = "died"

(* Five seconds passed.  wait_for cancels the future it waits for, so the  *)
(* watcher that awaits the same future ends; SIGKILL goes to the           *)
(* launcher's process group, and the command is in a group of its own.     *)
(* When close() raises, the handle stays and the record stays CANCELLING.  *)
CancelKill(c) ==
    LET t == canceller[c].task
    IN  /\ Cancelling(c, "await")
        /\ t \in Detached
        /\ completion[t] = "pending"
        /\ completion' = [completion EXCEPT ![t] = "cancelled"]
        /\ \/ launcher' = [launcher EXCEPT ![t] = Killed(t)]
           \/ NetFaults /\ t \in SshDetached /\ UNCHANGED launcher
        /\ watcher' = [watcher EXCEPT ![t] = IF @.pc = "wait" THEN NoWatcher ELSE @]
        /\ IF CloseRaises(t)
           THEN /\ canceller' = [canceller EXCEPT ![c] = Idle(t)]
                /\ UNCHANGED <<task_handles, tail>>
           ELSE /\ canceller' = [canceller EXCEPT ![c] = Call("finish", t, canceller[c].copy)]
                /\ task_handles' = task_handles \ {t}
                /\ tail' = [tail EXCEPT ![t] = "off"]
        /\ UNCHANGED <<runtime, crashes, tasks, starter, reconcile, child, status, announced>>

(* Mutation of CancelRaises: the TimeoutError is suppressed.               *)
CancelTimeoutIgnored(c) ==
    LET t == canceller[c].task
    IN  /\ Cancelling(c, "await")
        /\ t \in LocalProcess /\ completion[t] = "pending"
        /\ task_handles' = task_handles \ {t}
        /\ canceller' = [canceller EXCEPT ![c] = Call("finish", t, canceller[c].copy)]
        /\ UNCHANGED <<runtime, crashes, tasks, completion, tail, starter,
                       watcher, reconcile, world, announced>>

(* LocalProcessHandle.cancel lets TimeoutError out; a client that awaits a *)
(* future another cancel has cancelled gets CancelledError.  The record    *)
(* stays CANCELLING.                                                       *)
CancelRaises(c) ==
    LET t == canceller[c].task
    IN  /\ Cancelling(c, "await")
        /\ \/ t \in LocalProcess /\ completion[t] = "pending"
           \/ completion[t] = "cancelled"
        /\ canceller' = [canceller EXCEPT ![c] = Idle(t)]
        /\ UNCHANGED <<runtime, crashes, tasks, task_handles, completion, tail, starter,
                       watcher, reconcile, world, announced>>

(* The copy read when the call began is written as CANCELLED.              *)
CancelFinish(c) ==
    LET t == canceller[c].task
    IN  /\ Cancelling(c, "finish")
        /\ Upsert(t, WithState(canceller[c].copy, "CANCELLED"))
        /\ Emit(t, "task.cancelled")
        /\ canceller' = [canceller EXCEPT ![c] = Idle(t)]
        /\ UNCHANGED <<runtime, crashes, task_handles, completion, tail, starter,
                       watcher, reconcile, world>>

-----------------------------------------------------------------------------
(* The launcher and the command, as the operating system runs them.        *)

LauncherStep(t, from, to) ==
    /\ launcher[t] = from
    /\ launcher' = [launcher EXCEPT ![t] = to]

OnlyWorld ==
    UNCHANGED <<runtime, crashes, tasks, memory, announced>>

LauncherForks(t) ==
    /\ LauncherStep(t, "starting", "forked")
    /\ child' = [child EXCEPT ![t] = "running"]
    /\ UNCHANGED status /\ OnlyWorld

LauncherTraps(t) ==
    /\ LauncherStep(t, "forked", "waiting")
    /\ UNCHANGED <<child, status>> /\ OnlyWorld

(* wait() returned; the status file appears under its name in one rename   *)
(* and the launcher exits.  The shell launcher also writes one when it     *)
(* cannot enter the working directory.                                     *)
LauncherWrites(t) ==
    /\ \/ /\ LauncherStep(t, "waiting", "gone")
          /\ child[t] \in ExitCode
          /\ status' = [status EXCEPT ![t] = child[t]]
       \/ /\ LauncherStep(t, "interrupted", "gone")
          /\ status' = [status EXCEPT ![t] = "nonzero"]
       \/ /\ t \in ShLauncher
          /\ LauncherStep(t, "starting", "gone")
          /\ status' = [status EXCEPT ![t] = "nonzero"]
    /\ UNCHANGED child /\ OnlyWorld

(* The launcher ends without a status file: it failed to start the         *)
(* command, or the system killed it.                                       *)
LauncherDies(t) ==
    /\ launcher[t] \notin {"absent", "gone"}
    /\ launcher' = [launcher EXCEPT ![t] = "gone"]
    /\ UNCHANGED <<child, status>> /\ OnlyWorld

ChildExits(t, code) ==
    /\ child[t] = "running"
    /\ child' = [child EXCEPT ![t] = code]
    /\ UNCHANGED <<launcher, status>> /\ OnlyWorld

-----------------------------------------------------------------------------
(* The end of the runtime process, and build_runtime.                      *)

(* Handles, futures and coroutines are gone; the processes are not.        *)
Forget ==
    /\ task_handles' = {}
    /\ completion' = [t \in Task |-> "absent"]
    /\ tail' = [t \in Task |-> "off"]
    /\ starter' = [t \in Task |-> IF starter[t] = "idle" THEN "idle" ELSE "over"]
    /\ watcher' = [t \in Task |-> NoWatcher]
    /\ canceller' = [c \in Caller |-> Idle(canceller[c].task)]
    /\ reconcile' = [t \in Task |-> "done"]

Crash ==
    /\ Running
    /\ crashes < MaxCrashes
    /\ crashes' = crashes + 1
    /\ runtime' = "down"
    /\ Forget
    /\ UNCHANGED <<tasks, world, announced>>

(* shutdown_runtime: detached handles stop tailing, local processes get    *)
(* SIGTERM; coroutines go on until they are cancelled at the end.          *)
ShutdownBegin ==
    /\ runtime = "up"
    /\ crashes < MaxCrashes
    /\ crashes' = crashes + 1
    /\ runtime' = "stopping"
    /\ UNCHANGED <<tasks, memory, world, announced>>

ShutdownDetach(t) ==
    /\ runtime = "stopping"
    /\ t \in task_handles \cap Detached
    /\ tail[t] \in {"poll", "probe"}
    /\ tail' = [tail EXCEPT ![t] = "off"]
    /\ UNCHANGED <<runtime, crashes, tasks, task_handles, completion, starter, watcher,
                   canceller, reconcile, world, announced>>

(* The loop over the handles ends; or the TimeoutError of a local process  *)
(* that ignores SIGTERM, or the exception a _run task died of, ends        *)
(* shutdown_runtime before the other handles.                              *)
ShutdownEnd ==
    /\ runtime = "stopping"
    /\ \/ \A t \in task_handles : IF t \in Detached THEN tail[t] = "off" ELSE completion[t] # "pending"
       \/ \E t \in task_handles \ Detached : completion[t] = "pending"
       \/ \E t \in task_handles \cap Detached : CloseRaises(t)
    /\ runtime' = "down"
    /\ Forget
    /\ UNCHANGED <<crashes, tasks, world, announced>>

(* build_runtime lists the task table before it serves.                    *)
Boot ==
    /\ runtime = "down"
    /\ runtime' = "booting"
    /\ reconcile' = [t \in Task |->
          IF tasks[t].state \in TaskRecoverableStates THEN "todo" ELSE "done"]
    /\ UNCHANGED <<crashes, tasks, task_handles, completion, tail, starter, watcher,
                   canceller, world, announced>>

Reconciled(t) == reconcile' = [reconcile EXCEPT ![t] = "done"]

(* Mutation of ReconcileFinished: only the watchers set the outcome of a   *)
(* finished task, the reconciliation marks it lost.                        *)
ReconcileFinishedLost(t) ==
    /\ runtime = "booting"
    /\ reconcile[t] = "todo"
    /\ tasks[t].backend_ref
    /\ status[t] # None
    /\ Upsert(t, Record("LOST", TRUE, status[t]))
    /\ Emit(t, "task.lost")
    /\ Reconciled(t)
    /\ UNCHANGED <<runtime, crashes, task_handles, completion, tail, starter, watcher,
                   canceller, world>>

(* reattach finds the status file and finalizes the task from it.          *)
ReconcileFinished(t) ==
    /\ runtime = "booting"
    /\ reconcile[t] = "todo"
    /\ tasks[t].backend_ref
    /\ status[t] # None
    /\ Upsert(t, Record(IF status[t] = "zero" THEN "SUCCEEDED" ELSE "FAILED",
                        tasks[t].backend_ref, status[t]))
    /\ Emit(t, "task.recovered")
    /\ Reconciled(t)
    /\ UNCHANGED <<runtime, crashes, task_handles, completion, tail, starter, watcher,
                   canceller, world>>

ReconcileNoStatus(t) ==
    /\ runtime = "booting"
    /\ reconcile[t] = "todo"
    /\ tasks[t].backend_ref
    /\ status[t] = None
    /\ reconcile' = [reconcile EXCEPT ![t] = "probe"]
    /\ UNCHANGED <<runtime, crashes, tasks, task_handles, completion, tail, starter, watcher,
                   canceller, world, announced>>

(* The pid answers: the task is RUNNING again, watched but not registered. *)
ReconcileAlive(t) ==
    /\ runtime = "booting"
    /\ reconcile[t] = "probe"
    /\ ProbeSaysAlive(t)
    /\ Upsert(t, WithState(tasks[t], "RUNNING"))
    /\ completion' = [completion EXCEPT ![t] = "pending"]
    /\ tail' = [tail EXCEPT ![t] = "poll"]
    /\ watcher' = [watcher EXCEPT ![t] = ReconnectedWatcher]
    /\ Reconciled(t)
    /\ UNCHANGED <<runtime, crashes, task_handles, starter, canceller, world, announced>>

(* No detached backend in the record, nothing answers, or reattach raised. *)
ReconcileLost(t) ==
    /\ runtime = "booting"
    /\ \/ reconcile[t] = "todo" /\ ~tasks[t].backend_ref
       \/ reconcile[t] = "probe" /\ ProbeSaysDead(t)
       \/ reconcile[t] = "todo" /\ NetFaults /\ t \in SshDetached
    /\ Upsert(t, WithState(tasks[t], "LOST"))
    /\ Emit(t, "task.lost")
    /\ Reconciled(t)
    /\ UNCHANGED <<runtime, crashes, task_handles, completion, tail, starter, watcher,
                   canceller, world>>

BootDone ==
    /\ runtime = "booting"
    /\ \A t \in Task : reconcile[t] = "done"
    /\ runtime' = "up"
    /\ UNCHANGED <<crashes, tasks, memory, world, announced>>

-----------------------------------------------------------------------------
WatchStep(t) == WatchGet(t) \/ WatchEmit(t) \/ WatchUpsert(t) \/ WatchPop(t)
TailStep(t) == TailStatus(t) \/ TailProbe(t) \/ TailRaises(t)
StartStep(t) == StartRejected(t) \/ StartSpawn(t) \/ StartRecord(t) \/ StartWatch(t)
ReconcileStep(t) ==
    ReconcileFinished(t) \/ ReconcileNoStatus(t) \/ ReconcileAlive(t) \/ ReconcileLost(t)
CancelStep(c) ==
    \/ CancelCheck(c) \/ CancelMark(c) \/ CancelSignal(c) \/ CancelDone(c)
    \/ CancelKill(c) \/ CancelRaises(c) \/ CancelFinish(c)
LauncherLives(t) ==
    LauncherForks(t) \/ LauncherTraps(t) \/ LauncherWrites(t)

Next ==
    \/ \E t \in Task :
          \/ StartPrepare(t) \/ StartStep(t)
          \/ WatchStep(t) \/ TailStep(t) \/ ProcessExits(t)
          \/ LauncherLives(t) \/ LauncherDies(t)
          \/ \E code \in ExitCode : ChildExits(t, code)
          \/ ShutdownDetach(t) \/ ReconcileStep(t)
    \/ \E c \in Caller :
          \/ CancelStep(c)
          \/ \E t \in Task : CancelGet(c, t)
    \/ Crash \/ ShutdownBegin \/ ShutdownEnd \/ Boot \/ BootDone

Spec == Init /\ [][Next]_vars

(* The event loop runs every coroutine that is ready, asyncio timeouts     *)
(* fire, and the reconciliation loop runs to its end.  Nothing obliges a   *)
(* client to call, a process to exit or an operator to start the runtime.  *)
Fairness ==
    /\ \A t \in Task :
          /\ WF_vars(StartStep(t))
          /\ WF_vars(WatchStep(t))
          /\ WF_vars(TailStatus(t) \/ TailProbe(t))
          /\ WF_vars(ProcessExits(t))
          /\ WF_vars(ReconcileStep(t))
          /\ WF_vars(ShutdownDetach(t))
    /\ \A c \in Caller : WF_vars(CancelStep(c))
    /\ WF_vars(ShutdownEnd)
    /\ WF_vars(BootDone)

FairSpec == Spec /\ Fairness

-----------------------------------------------------------------------------
(* What the task table says of an outcome is what the command did: a       *)
(* stored exit code is the command's own, SUCCEEDED means it exited with   *)
(* zero and FAILED with non-zero - whichever of start, the watchers, a     *)
(* cancel with a stale copy or the recovery wrote the record last, before  *)
(* or after a crash.  (_launcher.sh is excluded: a trapped SIGTERM makes   *)
(* its wait return, and it writes a code for a command that still runs.)   *)
OutcomeIsReal ==
    \A t \in Task \ ShLauncher :
        /\ tasks[t].exit_code # None => child[t] = tasks[t].exit_code
        /\ tasks[t].state = "SUCCEEDED" => child[t] = "zero"
        /\ tasks[t].state = "FAILED" => child[t] = "nonzero"

(* No outcome of a detached task is invented: what the table says is what  *)
(* its status file says, also when probes fail with the connection, when   *)
(* cancels overlap with the start and with one another, and when the file  *)
(* comes from the shell launcher.                                          *)
OutcomeIsStatus ==
    \A t \in Detached :
        /\ tasks[t].exit_code # None => status[t] = tasks[t].exit_code
        /\ tasks[t].state = "SUCCEEDED" => status[t] = "zero"
        /\ tasks[t].state = "FAILED" => status[t] = "nonzero"

(* The inductive strengthening of OutcomeIsReal: not only the table but    *)
(* every copy of a record a coroutine holds, every resolved future and the *)
(* status file are true, and a command that has exited is never started    *)
(* again.                                                                  *)
RecordIsReal(t, record) ==
    /\ record.exit_code # None => child[t] = record.exit_code
    /\ record.state = "SUCCEEDED" => child[t] = "zero"
    /\ record.state = "FAILED" => child[t] = "nonzero"

RealAt(t) ==
    /\ RecordIsReal(t, tasks[t])
    /\ RecordIsReal(t, watcher[t].copy)
    /\ \A c \in Caller : canceller[c].task = t => RecordIsReal(t, canceller[c].copy)
    /\ status[t] # None => child[t] = status[t]
    /\ completion[t] \in ExitCode => child[t] = completion[t]
    /\ launcher[t] # "interrupted"
    /\ starter[t] \in {"idle", "preparing"} => child[t] = "absent" /\ launcher[t] = "absent"
    /\ launcher[t] = "starting" => child[t] = "absent"

RealInv == \A t \in Task \ ShLauncher : RealAt(t)

(* Somebody will still write the record of t: start itself, a watcher that *)
(* is not waiting on a future nobody resolves, a cancel past its check, or *)
(* the reconciliation.                                                     *)
Attended(t) ==
    \/ starter[t] \in {"preparing", "spawned", "recorded"}
    \/ watcher[t].pc \in {"emit", "upsert"}
    \/ /\ watcher[t].pc = "wait"
       /\ \/ completion[t] \in Resolved
          \/ t \in LocalProcess
          \/ tail[t] \in {"poll", "probe"}
          \/ runtime = "stopping"
    \/ \E c \in Caller :
          canceller[c].task = t /\ canceller[c].pc \in {"mark", "signal", "await", "finish"}
    \/ reconcile[t] # "done"

(* Detached tasks whose probes do not depend on a connection that may fail. *)
Reachable == IF NetFaults THEN LocalDetached ELSE Detached

(* The ways the code leaves a live record to nobody.  A cancel that timed  *)
(* out has killed the launcher and cancelled the future that an            *)
(* overlapping cancel, which writes CANCELLING once more, awaits; the      *)
(* _run task of an ssh handle died of its connection, or a cancel did      *)
(* after it wrote CANCELLING; or a cancel ended before the start it        *)
(* overtook, which then writes RUNNING.                                    *)
Stranded(t) ==
    \/ tasks[t].state = "CANCELLING" /\ completion[t] = "cancelled"
    \/ NetFaults /\ t \in SshDetached /\ (tail[t] = "died" \/ tasks[t].state = "CANCELLING")
    \/ t \in EarlyCancel /\ completion[t] # "pending"

(* While the runtime serves, a record that claims to be RUNNING or         *)
(* CANCELLING is not abandoned by any number of clients that cancel it:    *)
(* whatever stale copies cancels and watchers write over one another, and  *)
(* whoever dies with a cancelled future, the writer that will finish the   *)
(* record is still there.  The exceptions are those of Stranded: without   *)
(* cancels of a task being started and without connections that fail, only *)
(* a record written CANCELLING after a cancel's timeout killed the task.   *)
ClaimsAreAttended ==
    Running => \A t \in Task :
        tasks[t].state \in {"RUNNING", "CANCELLING"} => Attended(t) \/ Stranded(t)

(* "mark lost so the DB stays honest": a reachable detached task whose     *)
(* record names its backend is written as LOST only when its launcher is   *)
(* gone - never merely because the runtime was restarted or cancel and     *)
(* watcher raced.                                                          *)
LostIsHonest ==
    \A t \in Reachable :
        tasks[t].state = "LOST" /\ tasks[t].backend_ref => launcher[t] = "gone"

(* The inductive strengthening of LostIsHonest: a copy that says LOST, and *)
(* a future or a watcher that holds no exit code, exist only when the      *)
(* launcher is gone, and a launcher that is gone stays gone.               *)
LostRecordIsHonest(t, record) ==
    record.state = "LOST" /\ record.backend_ref => launcher[t] = "gone"

LostAt(t) ==
    /\ LostRecordIsHonest(t, tasks[t])
    /\ LostRecordIsHonest(t, watcher[t].copy)
    /\ watcher[t].pc = "emit" /\ watcher[t].copy.exit_code = None => launcher[t] = "gone"
    /\ \A c \in Caller : canceller[c].task = t => LostRecordIsHonest(t, canceller[c].copy)
    /\ completion[t] = None => launcher[t] = "gone"
    /\ starter[t] \in {"idle", "preparing"} => launcher[t] = "absent"

LostInv == \A t \in Reachable : LostAt(t)

(* What the table calls CANCELLED, or a cancel gave up after its timeout,  *)
(* was stopped: the process of a non-persistent task has ended, since      *)
(* LocalProcessHandle.cancel never reports success on a timeout, and of a  *)
(* reachable detached task the launcher is gone.  Its command has a        *)
(* session of its own and may run on.                                      *)
CancelledIsStopped ==
    /\ \A t \in LocalProcess : tasks[t].state = "CANCELLED" => child[t] \in ExitCode
    /\ \A t \in Reachable :
          tasks[t].state = "CANCELLED" \/ completion[t] = "cancelled" => launcher[t] = "gone"

(* The watcher announces an outcome before it stores it.  A crash between  *)
(* the two never reverses an announced completion or failure of a          *)
(* reachable detached task to its opposite or to LOST, as long as the      *)
(* record names the backend: the recovery reads the same status file.      *)
(* Only a cancel may write over it, and it announces itself.               *)
AnnouncedNotReversed ==
    \A t \in Reachable :
        /\ tasks[t].backend_ref =>
              /\ "task.completed" \in announced[t] => tasks[t].state \notin {"FAILED", "LOST"}
              /\ "task.failed" \in announced[t] => tasks[t].state \notin {"SUCCEEDED", "LOST"}
        /\ tasks[t].state = "CANCELLED" => "task.cancelled" \in announced[t]

(* What the table says of a task is backed by the world, at every moment:  *)
(* somebody attends to what it calls alive, what it calls cancelled was    *)
(* stopped, and what was announced is not reversed.                        *)
RecordIsBacked == ClaimsAreAttended /\ CancelledIsStopped /\ AnnouncedNotReversed

(* Once the launcher of a detached task has left its status file, the      *)
(* record becomes terminal and stays terminal, provided the runtime is     *)
(* eventually left running: neither a lost watcher nor a restart in the    *)
(* middle of any call leaves it RUNNING for ever.                          *)
ExitIsRecorded ==
    <>[](runtime \in {"booting", "up"}) =>
        \A t \in Detached : (status[t] # None) ~> [](tasks[t].state \in TerminalStates)

-----------------------------------------------------------------------------
(* The refinement of TaskLifecycle.                                        *)

(* A call that has read the record of t and not returned.                  *)
Calls(c, t) == canceller[c].task = t /\ canceller[c].pc # "idle"

(* The tasks whose record a watcher or a cancel call holds a copy of.      *)
Writers ==
    {t \in Task : watcher[t].pc \in {"emit", "upsert"} \/ \E c \in Caller : Calls(c, t)}

Life == INSTANCE TaskLifecycle WITH
    life <- [t \in Task |-> tasks[t].state],
    result <- child,
    writers <- Writers

(* Every behaviour of TaskService is one of TaskLifecycle: the table shows *)
(* one life per task, an outcome in it is true, and a terminal state is    *)
(* final once no watcher or cancel that read the record before is left -   *)
(* in particular the recovery after a crash never touches it.  It needs    *)
(* that nobody cancels a task before its start has returned, and the       *)
(* Python launcher.                                                        *)
RefinesLifecycle == Life!Lifecycle

-----------------------------------------------------------------------------
(* What these rest on.  OutcomeIsStatus: every copy of a record, and every *)
(* resolved future, agrees with the status file, which is written once.    *)
RecordIsStatus(t, record) ==
    /\ record.exit_code # None => status[t] = record.exit_code
    /\ record.state = "SUCCEEDED" => status[t] = "zero"
    /\ record.state = "FAILED" => status[t] = "nonzero"
StatusAt(t) ==
    /\ RecordIsStatus(t, tasks[t])
    /\ watcher[t].pc \in {"emit", "upsert"} => RecordIsStatus(t, watcher[t].copy)
    /\ \A c \in Caller : Calls(c, t) => RecordIsStatus(t, canceller[c].copy)
    /\ completion[t] \in ExitCode => status[t] = completion[t]
    /\ status[t] # None => launcher[t] = "gone"
    /\ starter[t] \in {"idle", "preparing"} => launcher[t] = "absent"
StatusInv == \A t \in Detached : StatusAt(t)

(* CancelledIsStopped: nothing but its exit resolves the future of a       *)
(* local process, and no recovery takes the process for a detached one.    *)
StoppedAt(t) ==
    /\ ~tasks[t].backend_ref /\ tail[t] = "off" /\ reconcile[t] # "probe"
    /\ watcher[t].pc \in {"emit", "upsert"} => ~watcher[t].copy.backend_ref
    /\ \A c \in Caller : Calls(c, t) => ~canceller[c].copy.backend_ref
    /\ \/ completion[t] \in Resolved
       \/ watcher[t].pc \in {"emit", "upsert"}
       \/ tasks[t].state = "CANCELLED"
       \/ \E c \in Caller : Calls(c, t) /\ canceller[c].pc = "finish"
       => child[t] \in ExitCode
    /\ launcher[t] = "absent"
    /\ starter[t] \in {"idle", "preparing"} => child[t] = "absent"
StoppedInv == \A t \in LocalProcess : StoppedAt(t)

(* No launcher is given up before it is gone, and no cancel passes its     *)
(* check before there is one.                                              *)
GoneAt(t) ==
    /\ \/ completion[t] \in Resolved \cup {"cancelled"}
       \/ watcher[t].pc \in {"emit", "upsert"}
       \/ tasks[t].state = "CANCELLED"
       \/ \E c \in Caller : Calls(c, t) /\ canceller[c].pc = "finish"
       => launcher[t] = "gone"
    /\ launcher[t] = "absent" =>
          /\ completion[t] = "absent" /\ ~tasks[t].backend_ref /\ reconcile[t] # "probe"
          /\ starter[t] \notin {"spawned", "recorded"} /\ t \notin task_handles
          /\ \A c \in Caller :
                Calls(c, t) => canceller[c].pc = "check" /\ ~canceller[c].copy.backend_ref
    /\ starter[t] \in {"idle", "preparing"} => launcher[t] = "absent"
GoneInv == \A t \in Reachable : GoneAt(t)

(* Who may be at work on a task.                                           *)
OrderAt(t) ==
    /\ starter[t] = "idle" <=> tasks[t].state = "ABSENT"
    /\ starter[t] = "preparing" => tasks[t].state = "PREPARING"
    /\ starter[t] \in {"idle", "preparing"} =>
          /\ t \notin task_handles
          /\ \A c \in Caller : Calls(c, t) => canceller[c].pc = "check"
    /\ starter[t] = "idle" => \A c \in Caller : ~Calls(c, t)
    /\ starter[t] # "over" => watcher[t].pc = "none"
    /\ watcher[t].pc = "upsert" => watcher[t].copy.state \in TerminalStates
    /\ reconcile[t] # "done" => /\ runtime = "booting" /\ watcher[t].pc = "none"
                                /\ tasks[t].state \in TaskRecoverableStates
    /\ runtime \in {"down", "booting"} =>
          starter[t] \in {"idle", "over"} /\ \A c \in Caller : ~Calls(c, t)
    /\ runtime = "down" => watcher[t].pc = "none"
    /\ t \notin EarlyCancel =>
          /\ starter[t] = "spawned" => tasks[t].state = "PREPARING"
          /\ starter[t] = "recorded" => tasks[t].state = "RUNNING"
          /\ starter[t] # "over" => \A c \in Caller : ~Calls(c, t)
OrderInv == \A t \in Task : OrderAt(t)

(* AnnouncedNotReversed: an outcome that was announced is the status       *)
(* file's, and nobody who found no status file is still about to write.    *)
Reported(t) == announced[t] \cap {"task.completed", "task.failed"} # {}
AnnouncedAt(t) ==
    /\ "task.completed" \in announced[t] => status[t] = "zero"
    /\ "task.failed" \in announced[t] => status[t] = "nonzero"
    /\ Reported(t) => /\ completion[t] \notin {"pending", None} /\ reconcile[t] # "probe"
                      /\ starter[t] = "over"
                      /\ tasks[t].backend_ref => tasks[t].state # "LOST"
    /\ starter[t] # "over" \/ watcher[t].pc \in {"wait", "emit", "upsert"} =>
          tasks[t].state # "LOST"
    /\ watcher[t].pc \in {"emit", "upsert"} => completion[t] = watcher[t].copy.exit_code
    /\ watcher[t].pc = "upsert" /\ watcher[t].copy.state = "LOST" =>
          watcher[t].copy.exit_code = None
    /\ \/ tasks[t].state = "CANCELLED"
       \/ watcher[t].pc = "upsert" /\ watcher[t].copy.state = "CANCELLED"
       => "task.cancelled" \in announced[t]
AnnouncedInv == \A t \in Reachable : AnnouncedAt(t)

(* ClaimsAreAttended: the future a watcher waits for has somebody to       *)
(* resolve it, unless the _run task died, and a task whose future was      *)
(* cancelled is not RUNNING.                                               *)
Resolvable(t) ==
    \/ tail[t] = "died"
    \/ completion[t] \in Resolved
    \/ /\ completion[t] = "pending"
       /\ t \in LocalProcess \/ tail[t] \in {"poll", "probe"} \/ runtime = "stopping"
AttendedAt(t) ==
    /\ Running /\ tasks[t].state \in {"RUNNING", "CANCELLING"} => Attended(t) \/ Stranded(t)
    /\ starter[t] \in {"spawned", "recorded"} =>
          IF t \in task_handles THEN Resolvable(t)
          ELSE t \in EarlyCancel /\ completion[t] # "pending"
    /\ watcher[t].pc = "wait" => Resolvable(t)
    /\ completion[t] = "pending" =>
          starter[t] \in {"spawned", "recorded"} \/ watcher[t].pc = "wait"
    /\ \/ completion[t] = "cancelled"
       \/ \E c \in Caller : Calls(c, t) /\ canceller[c].pc \in {"signal", "await", "finish"}
       => t \in EarlyCancel \/ (starter[t] = "over" /\ tasks[t].state # "RUNNING")
    /\ tail[t] = "died" => NetFaults /\ t \in SshDetached
AttendedInv == \A t \in Task : AttendedAt(t)
=============================================================================
