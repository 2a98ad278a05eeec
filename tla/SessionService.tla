----------------------------- MODULE SessionService -----------------------------
(***************************************************************************)
(* One interactive session of environment_runtime on the durable backend   *)
(* ssh_tmux: SessionService (create, get with its reattachment, write,     *)
(* resize, terminate and the watcher of a handle), SSHTmuxSessionHandle    *)
(* with its polling _run task, the tmux session and the shell that runs    *)
(* the command and writes the status file, shutdown_runtime and            *)
(* RecoveryService._reconcile_sessions.                                    *)
(*                                                                         *)
(* As in TaskService an action is what a coroutine does up to the await    *)
(* where it depends on the rest of the system: an actor carries the copy   *)
(* of the record it read and may write it back much later.                 *)
(***************************************************************************)
EXTENDS Naturals

CONSTANTS
    Caller,      \* clients of the session, concurrent calls
    Calls,       \* what each client may call
    ExitCode,    \* the command's exit codes
    Handle,      \* handles one runtime may create: bounds the reattachments
    Runtime,     \* the coroutine of build_runtime and shutdown_runtime
    MaxFaults,   \* bound on the failures of the ssh connection
    MaxCrashes   \* bound on the crashes and shutdowns of the runtime

ASSUME ActorAssumption ==
    /\ Runtime \notin Caller \cup Handle
    /\ Caller \cap Handle = {}
    /\ "None" \notin Handle
ASSUME CodeAssumption ==
    ExitCode \cap {"None", "partial", "pending", "absent", "running", "killed", "unreadable",
                  "alive", "gone", "unknown", "raised", "file", "probe", "late"} = {}
ASSUME CallsAssumption == 
    Calls \in [Caller -> SUBSET {"create", "get", "write", "resize", "terminate"}]
ASSUME SessionBoundAssumption == MaxFaults \in Nat /\ MaxCrashes \in Nat

(* A watcher goes by the name of the handle it was created with.           *)
Actor == Caller \cup Handle \cup {Runtime}

None == "None"
SessionState == {"ABSENT", "ACTIVE", "DETACHED", "DISCONNECTED", "TERMINATED"}
SessionRecoverableStates == {"ACTIVE", "DETACHED"}
ReattachableStates == {"ACTIVE", "DETACHED", "DISCONNECTED"}

(* A row of the session table; "ABSENT" is a row not inserted yet.  create *)
(* inserts it only as ACTIVE, so CREATING is never stored.                 *)
SessionRecord == [state : SessionState, exit_code : ExitCode \cup {None}]
Rec(state, exit_code) == [state |-> state, exit_code |-> exit_code]
AbsentSession == Rec("ABSENT", None)
WithState(record, state) == Rec(state, record.exit_code)

(* What _tmux_status is doing, and what it reports: the file's exit code,  *)
(* a file that cannot be parsed, a live or a missing tmux session, or a    *)
(* has-session that could not be run (checked=False).                      *)
Looking == {"file", "probe", "late"}
Finished == ExitCode \cup {"unreadable"}
Found == Finished \cup {"alive", "gone", "unknown", "raised"}
(* Mutation of CodeOf: a missing code is taken for one.                    *)
CodeDefault(found) == IF found \in ExitCode THEN found ELSE CHOOSE code \in ExitCode : TRUE
(* _payload_exit_code.                                                     *)
CodeOf(found) == IF found \in ExitCode THEN found ELSE None

VARIABLES
    runtime,          \* "booting" (reconciling), "up", "stopping", "down"
    crashes,
    session,          \* the row of the session table
    active,           \* session_handles[session_id], None when absent
    run,              \* per handle: its _run task
    completion,       \* per handle: the future handle.wait() awaits
    actor,            \* per client, watcher and for Runtime: its coroutine
    tmux,             \* the tmux session
    command,          \* the command in its pane
    status,           \* the remote status file
    faults            \* failures of the connection so far

memory == <<active, run, completion, actor>>
host == <<tmux, command, status>>
vars == <<runtime, crashes, session, memory, host, faults>>

Op == {"none", "create", "get", "write", "resize", "terminate", "watch", "recover", "shutdown"}
Pc == {"idle", "pipe", "start", "wait", "get", "check", "status", "attach", "activate",
       "register", "reget", "ready", "send", "store", "kill", "close", "end", "pop",
       "detach", "dispose"}

(* A coroutine: its operation, where it is, the record it holds, what its  *)
(* _tmux_status is doing, the handle it uses and the exit code it reports. *)
Coroutine ==
    [op : Op, pc : Pc, copy : SessionRecord, look : Looking,
     on : Handle \cup {None}, code : ExitCode \cup {None}]
Idle == [op |-> "none", pc |-> "idle", copy |-> AbsentSession, look |-> "file",
         on |-> None, code |-> None]
At(co, pc) == [co EXCEPT !.pc = pc]
Holding(co, pc, record) == [co EXCEPT !.pc = pc, !.copy = record]
Using(co, pc, h) == [co EXCEPT !.pc = pc, !.on = h]
Call(op, pc) == [Idle EXCEPT !.op = op, !.pc = pc]
Reporting(pc, code) == [Call("watch", pc) EXCEPT !.code = code]

TypeOK ==
    /\ runtime \in {"booting", "up", "stopping", "down"}
    /\ crashes \in 0..MaxCrashes
    /\ session \in SessionRecord
    /\ active \in Handle \cup {None}
    /\ run \in [Handle -> {"unused", "off", "died"} \cup Looking]
    /\ completion \in [Handle -> {"pending"} \cup ExitCode \cup {None}]
    /\ actor \in [Actor -> Coroutine]
    /\ tmux \in {"absent", "alive", "gone"}
    /\ command \in {"absent", "running", "killed"} \cup ExitCode
    /\ status \in {None, "partial"} \cup ExitCode
    /\ faults \in 0..MaxFaults

Init ==
    /\ runtime = "up" /\ crashes = 0
    /\ session = AbsentSession
    /\ active = None
    /\ run = [h \in Handle |-> "unused"]
    /\ completion = [h \in Handle |-> "pending"]
    /\ actor = [a \in Actor |-> Idle]
    /\ tmux = "absent" /\ command = "absent" /\ status = None
    /\ faults = 0

-----------------------------------------------------------------------------
Serving == runtime # "down"

(* SqlAlchemyRepository.upsert: the whole record is overwritten.           *)
Upsert(record) == session' = record

(* The steps of _tmux_status: the status file first, then has-session, and *)
(* when that finds nothing the file once more.                             *)
StatusFound(missing) ==
    CASE status = None -> missing
      [] status = "partial" -> "unreadable"
      [] OTHER -> status

LookNext(look) ==
    CASE look = "file" -> {StatusFound("probe"), "raised"}
      [] look = "late" -> {StatusFound("gone"), "raised"}
      [] OTHER -> {IF tmux = "alive" THEN "alive" ELSE "late", "unknown", "raised"}

(* A step at which the connection may have failed.                         *)
Fault == faults < MaxFaults /\ faults' = faults + 1
FaultIff(failed) == IF failed THEN Fault ELSE UNCHANGED faults

(* What the caller of get does with the record and the registered handle.  *)
Dispatch(co) ==
    CASE co.op \in {"write", "resize"} /\ active # None -> Using(co, "send", active)
      [] co.op = "terminate" /\ active # None -> Using(co, "kill", active)
      [] co.op = "terminate" /\ active = None ->
            Holding(Call("terminate", "end"), "end", co.copy)
      [] co.op = "watch" -> Reporting("end", co.code)
      [] OTHER -> Idle

(* reattach_on_startup is done: get reads the record again, create and the *)
(* reconciliation have finished.                                           *)
Reclaimed(co) ==
    CASE co.op \in {"recover", "create"} -> Idle
      [] co.op = "watch" -> Reporting("reget", co.code)
      [] OTHER -> Call(co.op, "reget")
Becomes(a, co) == actor' = [actor EXCEPT ![a] = co]

(* A handle is built, and its _run task started.                           *)
NewHandle(a, co, h) ==
    /\ run[h] = "unused"
    /\ run' = [run EXCEPT ![h] = "file"]
    /\ Becomes(a, [Using(co, "activate", h) EXCEPT !.look = "file"])

-----------------------------------------------------------------------------
(* SessionService.create: the tmux session exists before any record does.  *)
CreateStart(c) ==
    /\ runtime = "up"
    /\ "create" \in Calls[c] /\ actor[c].pc = "idle"
    /\ tmux = "absent"
    /\ tmux' = "alive" /\ command' = "running"
    /\ Becomes(c, Call("create", "pipe"))
    /\ UNCHANGED <<runtime, crashes, session, active, run, completion, status, faults>>

CreatePiped(c) ==
    /\ Serving
    /\ actor[c].pc = "pipe"
    /\ tmux = "alive"
    /\ \E h \in Handle : NewHandle(c, actor[c], h)
    /\ UNCHANGED <<runtime, crashes, session, active, completion, host, faults>>

(* pipe-pane fails: create raises and the tmux session has no record.      *)
CreateFails(c) ==
    /\ Serving
    /\ actor[c].pc = "pipe"
    /\ FaultIff(tmux # "gone")
    /\ Becomes(c, Idle)
    /\ UNCHANGED <<runtime, crashes, session, active, run, completion, host>>

(* A client calls get, write, resize or terminate.                         *)
Begin(c, op) ==
    /\ runtime = "up"
    /\ actor[c].pc = "idle"
    /\ session # AbsentSession
    /\ Becomes(c, Call(op, "get"))
    /\ UNCHANGED <<runtime, crashes, session, active, run, completion, host, faults>>

-----------------------------------------------------------------------------
(* SessionService.get, _reattach_if_needed and reattach_on_startup.        *)

Read(a) ==
    /\ Serving
    /\ actor[a].op # "shutdown"
    /\ \/ actor[a].pc = "get" /\ Becomes(a, Holding(actor[a], "check", session))
       \/ actor[a].pc = "reget" /\ Becomes(a, Holding(actor[a], "ready", session))
    /\ UNCHANGED <<runtime, crashes, session, active, run, completion, host, faults>>

ReattachNeeded(record) == active = None /\ record.state \in ReattachableStates

Check(a) ==
    /\ Serving
    /\ actor[a].pc = "check"
    /\ Becomes(a, IF ReattachNeeded(actor[a].copy)
                  THEN [At(actor[a], "status") EXCEPT !.look = "file"]
                  ELSE Dispatch(actor[a]))
    /\ UNCHANGED <<runtime, crashes, session, active, run, completion, host, faults>>

Ready(a) ==
    /\ Serving
    /\ actor[a].pc = "ready"
    /\ Becomes(a, Dispatch(actor[a]))
    /\ UNCHANGED <<runtime, crashes, session, active, run, completion, host, faults>>

(* One step of provider.status or of the check in provider.attach.         *)
LookOn(a) ==
    /\ Serving
    /\ actor[a].pc \in {"status", "attach"}
    /\ \E found \in LookNext(actor[a].look) \cap Looking :
          Becomes(a, [actor[a] EXCEPT !.look = found])
    /\ UNCHANGED <<runtime, crashes, session, active, run, completion, host, faults>>

(* The status could not be checked: the session is DETACHED for now.       *)
ReattachDeferred(a) ==
    /\ Serving
    /\ actor[a].pc = "status"
    /\ "unknown" \in LookNext(actor[a].look) /\ Fault
    /\ Upsert(WithState(actor[a].copy, "DETACHED"))
    /\ Becomes(a, Reclaimed(actor[a]))
    /\ UNCHANGED <<runtime, crashes, active, run, completion, host>>

(* There is a status file: the record gets its exit code.                  *)
ReattachFinished(a) ==
    /\ Serving
    /\ actor[a].pc = "status"
    /\ \E found \in LookNext(actor[a].look) \cap Finished :
          Upsert(Rec("TERMINATED", CodeOf(found)))
    /\ Becomes(a, Reclaimed(actor[a]))
    /\ UNCHANGED <<runtime, crashes, active, run, completion, host, faults>>

(* No session and no status, or an exception: get goes on with the copy it *)
(* has, the reconciliation stores DISCONNECTED.                            *)
NotReclaimed(a) ==
    /\ Serving
    /\ \E found \in LookNext(actor[a].look) :
          /\ \/ actor[a].pc = "status" /\ found \in {"gone", "raised"}
             \/ actor[a].pc = "attach" /\ found \in Found \ {"alive"}
          /\ FaultIff(found \in {"unknown", "raised"})
    /\ IF actor[a].op = "recover"
       THEN /\ Upsert(WithState(actor[a].copy, "DISCONNECTED"))
            /\ Becomes(a, Idle)
       ELSE Becomes(a, Dispatch(actor[a])) /\ UNCHANGED session
    /\ UNCHANGED <<runtime, crashes, active, run, completion, host>>

(* The session is alive: provider.attach looks once more.                  *)
ReattachAlive(a) ==
    /\ Serving
    /\ actor[a].pc = "status"
    /\ "alive" \in LookNext(actor[a].look)
    /\ Becomes(a, [At(actor[a], "attach") EXCEPT !.look = "file"])
    /\ UNCHANGED <<runtime, crashes, session, active, run, completion, host, faults>>

Attach(a) ==
    /\ Serving
    /\ actor[a].pc = "attach"
    /\ "alive" \in LookNext(actor[a].look)
    /\ \E h \in Handle : NewHandle(a, actor[a], h)
    /\ UNCHANGED <<runtime, crashes, session, active, completion, host, faults>>

(* create and reattach_on_startup store ACTIVE and then register the       *)
(* handle and create its watcher.                                          *)
Activate(a) ==
    /\ Serving
    /\ actor[a].pc = "activate"
    /\ Upsert(WithState(actor[a].copy, "ACTIVE"))
    /\ Becomes(a, At(actor[a], "register"))
    /\ UNCHANGED <<runtime, crashes, active, run, completion, host, faults>>

Register(a) ==
    /\ Serving
    /\ actor[a].pc = "register"
    /\ active' = actor[a].on
    /\ actor' = [actor EXCEPT ![a] = Reclaimed(@), ![actor[a].on] = Call("watch", "start")]
    /\ UNCHANGED <<runtime, crashes, session, run, completion, host, faults>>

-----------------------------------------------------------------------------
(* write and resize: the remote command, then the copy is stored.          *)

(* paste-buffer is checked, resize-window is not.                          *)
Send(a) ==
    /\ Serving
    /\ actor[a].pc = "send"
    /\ \/ /\ actor[a].op = "resize" \/ tmux = "alive"
          /\ Becomes(a, At(actor[a], "store"))
          /\ UNCHANGED faults
       \/ /\ FaultIff(actor[a].op = "resize" \/ tmux = "alive")
          /\ Becomes(a, Idle)
    /\ UNCHANGED <<runtime, crashes, session, active, run, completion, host>>

Store(a) ==
    /\ Serving
    /\ actor[a].pc = "store"
    /\ Upsert(actor[a].copy)
    /\ Becomes(a, IF actor[a].op = "shutdown" THEN At(actor[a], "detach") ELSE Idle)
    /\ UNCHANGED <<runtime, crashes, active, run, completion, host, faults>>
-----------------------------------------------------------------------------
(* terminate and _watch_session.                                           *)

(* tmux kill-session takes the shell and its command with it.              *)
KillSession ==
    /\ tmux' = "gone"
    /\ command' = IF command = "running" THEN "killed" ELSE command

(* Mutation of Kill: the handle is only detached.                          *)
KillForgotten(a) ==
    /\ Serving
    /\ actor[a].pc = "kill"
    /\ Becomes(a, At(actor[a], "close"))
    /\ UNCHANGED <<runtime, crashes, session, active, run, completion, host, faults>>

Kill(a) ==
    /\ Serving
    /\ actor[a].pc = "kill"
    /\ KillSession
    /\ Becomes(a, At(actor[a], "close"))
    /\ UNCHANGED <<runtime, crashes, session, active, run, completion, status, faults>>

(* The connection fails before or after the session was killed.            *)
KillRaises(a) ==
    /\ Serving
    /\ actor[a].pc = "kill"
    /\ Fault
    /\ KillSession \/ UNCHANGED <<tmux, command>>
    /\ Becomes(a, Idle)
    /\ UNCHANGED <<runtime, crashes, session, active, run, completion, status>>

Resolve(h, code) ==
    completion' = [completion EXCEPT ![h] = IF @ = "pending" THEN code ELSE @]

(* close() cancels _run and awaits it: an exception that had ended it is   *)
(* raised here.  Otherwise the future is resolved and the session's        *)
(* handle, whichever it is by now, is dropped.                             *)
CloseRaises(a) ==
    /\ Serving
    /\ actor[a].pc = "close"
    /\ run[actor[a].on] = "died"
    /\ Becomes(a, Idle)
    /\ UNCHANGED <<runtime, crashes, session, active, run, completion, host, faults>>

Close(a) ==
    /\ Serving
    /\ actor[a].pc = "close"
    /\ run[actor[a].on] # "died"
    /\ run' = [run EXCEPT ![actor[a].on] = "off"]
    /\ Resolve(actor[a].on, None)
    /\ active' = None
    /\ Becomes(a, Holding(Call("terminate", "end"), "end", actor[a].copy))
    /\ UNCHANGED <<runtime, crashes, session, host, faults>>

(* The watcher takes the handle that is registered when it first runs.     *)
WatchStart(h) ==
    /\ Serving
    /\ actor[h].pc = "start"
    /\ Becomes(h, IF active = None THEN Idle ELSE Using(actor[h], "wait", active))
    /\ UNCHANGED <<runtime, crashes, session, active, run, completion, host, faults>>

WatchWait(h) ==
    /\ Serving
    /\ actor[h].pc = "wait"
    /\ completion[actor[h].on] # "pending"
    /\ Becomes(h, Reporting("get", completion[actor[h].on]))
    /\ UNCHANGED <<runtime, crashes, session, active, run, completion, host, faults>>

(* terminate and the watcher store TERMINATED; the watcher's code replaces *)
(* the one in the record.                                                  *)
End(a) ==
    /\ Serving
    /\ actor[a].pc = "end"
    /\ IF actor[a].op = "watch"
       THEN /\ Upsert(Rec("TERMINATED", actor[a].code))
            /\ Becomes(a, Call("watch", "pop"))
       ELSE /\ Upsert(WithState(actor[a].copy, "TERMINATED"))
            /\ Becomes(a, Idle)
    /\ UNCHANGED <<runtime, crashes, active, run, completion, host, faults>>

(* Mutation of WatchPop: the handle stays registered.                      *)
WatchPopForgotten(h) ==
    /\ Serving
    /\ actor[h].pc = "pop"
    /\ Becomes(h, Idle)
    /\ UNCHANGED <<runtime, crashes, session, active, run, completion, host, faults>>

WatchPop(h) ==
    /\ Serving
    /\ actor[h].pc = "pop"
    /\ active' = None
    /\ Becomes(h, Idle)
    /\ UNCHANGED <<runtime, crashes, session, run, completion, host, faults>>

-----------------------------------------------------------------------------
(* Mutation of RunStep: only a status file ends the loop.                  *)
RunUntilFile(h) ==
    /\ Serving
    /\ run[h] \in Looking
    /\ \E found \in LookNext(run[h]) \ {"raised", "unknown"} :
          /\ run' = [run EXCEPT ![h] =
                CASE found \in Looking -> found
                  [] found \in {"alive", "gone"} -> "file"
                  [] OTHER -> "off"]
          /\ IF found \in Finished THEN Resolve(h, CodeOf(found)) ELSE UNCHANGED completion
    /\ UNCHANGED <<runtime, crashes, session, active, actor, host, faults>>

(* SSHTmuxSessionHandle._run: a status that is not alive, whatever the     *)
(* reason, resolves the future; an exception ends the task without.        *)
RunStep(h) ==
    /\ Serving
    /\ run[h] \in Looking
    /\ \E found \in LookNext(run[h]) :
          /\ run' = [run EXCEPT ![h] =
                CASE found \in Looking -> found
                  [] found = "alive" -> "file"
                  [] found = "raised" -> "died"
                  [] OTHER -> "off"]
          /\ IF found \in Finished \cup {"gone", "unknown"}
             THEN Resolve(h, CodeOf(found))
             ELSE UNCHANGED completion
          /\ FaultIff(found \in {"unknown", "raised"})
    /\ UNCHANGED <<runtime, crashes, session, active, actor, host>>

-----------------------------------------------------------------------------
(* The host: the shell in the pane runs the command, creates the status    *)
(* file, writes it and exits.  The tmux server may die at any time.        *)
CommandExits(code) ==
    /\ command = "running"
    /\ command' = code
    /\ UNCHANGED <<runtime, crashes, session, memory, tmux, status, faults>>

ShellOpens ==
    /\ tmux = "alive" /\ command \in ExitCode /\ status = None
    /\ status' = "partial"
    /\ UNCHANGED <<runtime, crashes, session, memory, tmux, command, faults>>

ShellWrites ==
    /\ tmux = "alive" /\ status = "partial"
    /\ status' = command
    /\ UNCHANGED <<runtime, crashes, session, memory, tmux, command, faults>>

ShellExits ==
    /\ tmux = "alive" /\ status \in ExitCode
    /\ tmux' = "gone"
    /\ UNCHANGED <<runtime, crashes, session, memory, command, status, faults>>

TmuxDies ==
    /\ tmux = "alive"
    /\ KillSession
    /\ UNCHANGED <<runtime, crashes, session, memory, status, faults>>

-----------------------------------------------------------------------------
(* A crash, a shutdown and the next start.                                 *)
Forget ==
    /\ active' = None
    /\ run' = [h \in Handle |-> "unused"]
    /\ completion' = [h \in Handle |-> "pending"]
    /\ actor' = [a \in Actor |-> Idle]

Crash ==
    /\ Serving
    /\ crashes < MaxCrashes
    /\ crashes' = crashes + 1
    /\ runtime' = "down"
    /\ Forget
    /\ UNCHANGED <<session, host, faults>>

ShutdownBegin ==
    /\ runtime = "up"
    /\ crashes < MaxCrashes
    /\ runtime' = "stopping"
    /\ Becomes(Runtime, IF active = None THEN Call("shutdown", "dispose")
                        ELSE Using(Call("shutdown", "get"), "get", active))
    /\ UNCHANGED <<crashes, session, active, run, completion, host, faults>>

(* An ACTIVE session becomes DETACHED, unless its handle has been replaced *)
(* in session_handles.                                                     *)
ShutdownRead ==
    /\ actor[Runtime].op = "shutdown" /\ actor[Runtime].pc = "get"
    /\ Becomes(Runtime, IF active = actor[Runtime].on /\ session.state = "ACTIVE"
                        THEN Holding(actor[Runtime], "store", WithState(session, "DETACHED"))
                        ELSE At(actor[Runtime], "detach"))
    /\ UNCHANGED <<runtime, crashes, session, active, run, completion, host, faults>>

(* detach() is close(): its exception ends the shutdown there and then.    *)
ShutdownDetach ==
    /\ actor[Runtime].pc = "detach"
    /\ run' = [run EXCEPT ![actor[Runtime].on] = IF @ = "died" THEN @ ELSE "off"]
    /\ Becomes(Runtime, At(actor[Runtime], "dispose"))
    /\ UNCHANGED <<runtime, crashes, session, active, completion, host, faults>>

ShutdownEnd ==
    /\ actor[Runtime].pc = "dispose"
    /\ crashes < MaxCrashes
    /\ crashes' = crashes + 1
    /\ runtime' = "down"
    /\ Forget
    /\ UNCHANGED <<session, host, faults>>

(* RecoveryService._reconcile_sessions before the runtime serves.          *)
Boot ==
    /\ runtime = "down"
    /\ runtime' = "booting"
    /\ IF session.state \in SessionRecoverableStates
       THEN Becomes(Runtime, Holding(Call("recover", "status"), "status", session))
       ELSE UNCHANGED actor
    /\ UNCHANGED <<crashes, session, active, run, completion, host, faults>>

BootDone ==
    /\ runtime = "booting"
    /\ actor[Runtime].pc = "idle"
    /\ runtime' = "up"
    /\ UNCHANGED <<crashes, session, memory, host, faults>>

-----------------------------------------------------------------------------
GetStep(a) ==
    \/ Read(a) \/ Check(a) \/ Ready(a) \/ LookOn(a)
    \/ ReattachDeferred(a) \/ ReattachFinished(a) \/ NotReclaimed(a)
    \/ ReattachAlive(a) \/ Attach(a) \/ Activate(a) \/ Register(a)
CallStep(c) ==
    \/ CreatePiped(c) \/ CreateFails(c) \/ Send(c)
    \/ Kill(c) \/ KillRaises(c) \/ CloseRaises(c) \/ Close(c)
WatchStep(h) == WatchStart(h) \/ WatchWait(h) \/ WatchPop(h)
ActorStep(a) == GetStep(a) \/ CallStep(a) \/ Store(a) \/ End(a)
RuntimeStep == ShutdownRead \/ ShutdownDetach \/ ShutdownEnd \/ BootDone

Next ==
    \/ \E c \in Caller :
          \/ CreateStart(c)
          \/ \E op \in Calls[c] \ {"create"} : Begin(c, op)
    \/ \E a \in Actor : ActorStep(a)
    \/ \E h \in Handle : WatchStep(h) \/ RunStep(h)
    \/ \E code \in ExitCode : CommandExits(code)
    \/ ShellOpens \/ ShellWrites \/ ShellExits \/ TmuxDies
    \/ Crash \/ ShutdownBegin \/ Boot \/ RuntimeStep

Spec == Init /\ [][Next]_vars

(* The event loop runs every coroutine that is ready.                      *)
FairSpec ==
    /\ Spec
    /\ \A a \in Actor : WF_vars(ActorStep(a))
    /\ \A h \in Handle : WF_vars(WatchStep(h)) /\ WF_vars(RunStep(h))
    /\ WF_vars(RuntimeStep)

-----------------------------------------------------------------------------
(* A stored exit code is the command's own: neither a stale copy, nor a    *)
(* half-written status file, nor a kill that races the exit invents one.   *)
ExitCodeIsReal == session.exit_code # None => command = session.exit_code

(* Its inductive strengthening: every exit code held anywhere - in the     *)
(* table, a coroutine's copy or report, a resolved future, the status file *)
(* - is the command's, the command starts only once, and a watcher that    *)
(* waits does so on a handle.                                              *)
IsReal(code) == code \in ExitCode => command = code
RealInv ==
    /\ IsReal(session.exit_code)
    /\ \A a \in Actor : IsReal(actor[a].copy.exit_code) /\ IsReal(actor[a].code)
    /\ \A a \in Actor : actor[a].pc = "wait" => actor[a].on \in Handle
    /\ \A h \in Handle : IsReal(completion[h])
    /\ IsReal(status)
    /\ status = "partial" => command \in ExitCode
    /\ tmux = "absent" => command = "absent"

(* docs/recovery.md: "`TERMINATED`: a session has ended."                  *)
TerminatedHasEnded == session.state = "TERMINATED" => command # "running"

(* While no connection fails, a session the table calls TERMINATED or      *)
(* DISCONNECTED does not run any more, whatever calls overlap.             *)
EndIsHonest ==
    faults = 0 /\ session.state \in {"TERMINATED", "DISCONNECTED"} => command # "running"

(* The record of a session never claims an exit code the command did not   *)
(* have, nor an end that has not come.                                     *)
RecordIsHonest == ExitCodeIsReal /\ EndIsHonest

(* Somebody will still look at the tmux session or write the record.       *)
Attended ==
    \/ \E a \in Actor : actor[a].pc \notin {"idle", "wait"}
    \/ \E h \in Handle :
          /\ actor[h].pc = "wait"
          /\ completion[actor[h].on] # "pending" \/ run[actor[h].on] \in Looking

(* A handle never blocks the repair of the record: while one is registered *)
(* get does not look at tmux, so the watcher that will drop it must still  *)
(* be there, also when two gets have attached at once, when terminate has  *)
(* dropped the handle of somebody else, or when the connection failed -    *)
(* but for a failure that raised in the _run task itself.                  *)
RegisteredIsAttended ==
    Serving /\ active # None => Attended \/ run[active] = "died"

(* Once the tmux session is gone its handles disappear for good, and with  *)
(* them the last obstacle to a get that stores how the session ended.      *)
DeadIsUnregistered ==
    <>[](runtime = "up") /\ [](faults = 0) => ((tmux = "gone") ~> [](active = None))
-----------------------------------------------------------------------------
(* What EndIsHonest rests on.  Before the tmux session exists nothing has  *)
(* happened; a record is never taken back; and whoever claims an end - a   *)
(* record or a copy of one, a watcher that reports, a terminate past its   *)
(* kill, a resolved future - does so of a command that runs no more.  A    *)
(* call that has reattached finds its handle or, again, an end.            *)
Ending == {"TERMINATED", "DISCONNECTED"}
Ended == command # "running"

Untouched ==
    tmux = "absent" =>
        /\ session = AbsentSession /\ active = None
        /\ \A a \in Actor : actor[a] \in {Idle, Call("shutdown", "dispose")}
        /\ \A h \in Handle : run[h] = "unused" /\ completion[h] = "pending"

OnRecord(co) ==
    /\ co.pc \in {"register", "start", "wait", "get", "check", "status", "attach", "reget", "ready",
                 "send", "store", "kill"} => session.state # "ABSENT"
    /\ co.pc \in {"check", "status", "attach", "ready", "send", "store", "kill"} =>
          co.copy.state # "ABSENT"
    /\ co.look = "late" => tmux = "gone"

Truthful(co) ==
    /\ co.copy.state \in Ending => Ended
    /\ co.pc \in {"close", "end", "pop"} => Ended
    /\ co.op = "watch" /\ co.pc \notin {"idle", "start", "wait"} => Ended
    /\ co.pc \in {"reget", "ready"} => Ended \/ active # None

HonestInv ==
    /\ Untouched
    /\ session.state = "ABSENT" => session = AbsentSession
    /\ tmux = "gone" => Ended
    /\ active # None => session.state # "ABSENT"
    /\ \A h \in Handle : run[h] = "late" => tmux = "gone"
    /\ \A a \in Actor : OnRecord(actor[a])
    /\ faults = 0 =>
          /\ session.state \in Ending => Ended
          /\ \A a \in Actor : Truthful(actor[a])
          /\ \A h \in Handle : completion[h] # "pending" => Ended

(* What RegisteredIsAttended rests on.  The watcher of a handle does       *)
(* nothing but watch, and ends only by dropping the registered handle; a   *)
(* future stays open only while the _run task that resolves it goes on or  *)
(* has raised, or in the shutdown.                                         *)
WatchPc == {"start", "wait", "get", "check", "status", "attach", "activate", "register",
            "reget", "ready", "end", "pop"}
OnWatch(co) == co.pc = "idle" \/ (co.op = "watch" /\ co.pc \in WatchPc)
OnDuty(co) ==
    \/ co.pc = "idle" /\ co.op = "none"
    \/ co.op = "shutdown" /\ co.pc \in {"get", "store", "detach", "dispose"}
    \/ co.op = "recover" /\ co.pc \in {"status", "attach", "activate", "register"}
Built(co) == co.pc \in {"activate", "register"} => co.on \in Handle /\ run[co.on] # "unused"
Watching(co) == co.pc # "idle" /\ (co.pc = "wait" => co.on = active)

AttendInv ==
    /\ \A h \in Handle : OnWatch(actor[h])
    /\ OnDuty(actor[Runtime])
    /\ actor[Runtime].op = "shutdown" <=> runtime = "stopping"
    /\ \A a \in Actor : Built(actor[a])
    /\ active # None => run[active] # "unused" /\ \E h \in Handle : Watching(actor[h])
    /\ \A h \in Handle : completion[h] = "pending" /\ runtime # "stopping" =>
          run[h] \in Looking \cup {"unused", "died"}
=============================================================================
