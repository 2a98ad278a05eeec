-------------------------- MODULE TaskServiceProofs ---------------------------
(***************************************************************************)
(* Proofs, for every set of tasks, backends and clients and any number of  *)
(* crashes, that TaskService keeps its types, that the outcomes in the     *)
(* task table are real and the status file's, that LOST is honest and      *)
(* CANCELLED has stopped, that announcements are kept and records backed   *)
(* by somebody who attends to them, and that the service implements        *)
(* TaskLifecycle.                                                          *)
(*                                                                         *)
(* The later theorems share one argument: the effect lemmas say what every *)
(* action does to the task it is about and that it leaves the others       *)
(* alone; each inductive invariant is a predicate XAt(t) of one task; and  *)
(* its proof is that XAt(t) survives a coroutine's step about t, a         *)
(* process's, a call's, a restart, and any step that leaves t alone.       *)
(***************************************************************************)
EXTENDS TaskService, TLAPS

USE DEF memory, world

(* The record constructors build records of the declared sets, whose       *)
(* fields are what they were given.                                        *)
LEMMA RecordFacts ==
    ASSUME NEW s \in TaskState \cup {"ABSENT"}, NEW b \in BOOLEAN, NEW x \in ExitCode \cup {None}
    PROVE  /\ Record(s, b, x) \in TaskRecord
           /\ Record(s, b, x).state = s
           /\ Record(s, b, x).backend_ref = b
           /\ Record(s, b, x).exit_code = x
BY DEF Record, TaskRecord

(* The fields of a task record have their types.                            *)
LEMMA FieldFacts ==
    ASSUME NEW r \in TaskRecord
    PROVE  /\ r.state \in TaskState \cup {"ABSENT"}
           /\ r.backend_ref \in BOOLEAN
           /\ r.exit_code \in ExitCode \cup {None}
BY DEF TaskRecord

(* A copy of a record with another state or exit code keeps the other       *)
(* fields.                                                                  *)
LEMMA WithFacts ==
    ASSUME NEW r \in TaskRecord, NEW s \in TaskState, NEW x \in ExitCode \cup {None}
    PROVE  /\ WithState(r, s) \in TaskRecord
           /\ WithState(r, s).state = s
           /\ WithState(r, s).backend_ref = r.backend_ref
           /\ WithState(r, s).exit_code = r.exit_code
           /\ WithExit(r, x) \in TaskRecord
           /\ WithExit(r, x).state = r.state
           /\ WithExit(r, x).backend_ref = r.backend_ref
           /\ WithExit(r, x).exit_code = x
BY RecordFacts, FieldFacts DEF WithState, WithExit

(* A row that was not inserted has no outcome and no backend.               *)
LEMMA AbsentFacts ==
    /\ AbsentRecord \in TaskRecord
    /\ AbsentRecord.state = "ABSENT"
    /\ AbsentRecord.exit_code = None
    /\ AbsentRecord.backend_ref = FALSE
BY DEF AbsentRecord, Record, TaskRecord

(* A watcher and a call hold a copy of a task record.                      *)
LEMMA WatchFacts ==
    ASSUME NEW pc \in {"none", "wait", "emit", "upsert", "pop"}, NEW b \in BOOLEAN,
           NEW r \in TaskRecord
    PROVE  /\ Watch(pc, b, r) \in WatcherRecord
           /\ Watch(pc, b, r).pc = pc
           /\ Watch(pc, b, r).reconnected = b
           /\ Watch(pc, b, r).copy = r
BY DEF Watch, WatcherRecord

(* The watchers that hold no copy: none, the ones that wait and the one that*)
(* pops.                                                                    *)
LEMMA FixedWatchers ==
    /\ NoWatcher \in WatcherRecord /\ NoWatcher.pc = "none" /\ NoWatcher.copy = AbsentRecord
    /\ NewWatcher \in WatcherRecord /\ NewWatcher.pc = "wait" /\ NewWatcher.copy = AbsentRecord
    /\ ReconnectedWatcher \in WatcherRecord /\ ReconnectedWatcher.pc = "wait"
    /\ ReconnectedWatcher.copy = AbsentRecord
    /\ PoppingWatcher \in WatcherRecord /\ PoppingWatcher.pc = "pop"
    /\ PoppingWatcher.copy = AbsentRecord
BY AbsentFacts DEF NoWatcher, NewWatcher, ReconnectedWatcher, PoppingWatcher, Watch, WatcherRecord

(* The fields of a watcher have their types.                                *)
LEMMA WatcherFields ==
    ASSUME NEW w \in WatcherRecord
    PROVE  /\ w.pc \in {"none", "wait", "emit", "upsert", "pop"}
           /\ w.reconnected \in BOOLEAN
           /\ w.copy \in TaskRecord
BY DEF WatcherRecord

(* A cancel call is built from where it is, its task and its copy.          *)
LEMMA CallFacts ==
    ASSUME NEW pc \in {"idle", "check", "mark", "signal", "await", "finish"}, NEW t \in Task,
           NEW r \in TaskRecord
    PROVE  /\ Call(pc, t, r) \in CancelRecord
           /\ Call(pc, t, r).pc = pc
           /\ Call(pc, t, r).task = t
           /\ Call(pc, t, r).copy = r
BY DEF Call, CancelRecord

(* A call that returned holds no copy.                                      *)
LEMMA IdleFacts ==
    ASSUME NEW t \in Task
    PROVE  /\ Idle(t) \in CancelRecord
           /\ Idle(t).pc = "idle"
           /\ Idle(t).task = t
           /\ Idle(t).copy = AbsentRecord
BY AbsentFacts, CallFacts DEF Idle

(* What SIGTERM makes of a launcher: one that is gone or was never started *)
(* stays so, and one that is not the shell launcher dies or goes on.       *)
LEMMA TerminatedFacts ==
    ASSUME TypeOK, NEW t \in Task
    PROVE  /\ Terminated(t) \subseteq {"absent", "starting", "forked", "waiting", "interrupted", "gone"}
           /\ launcher[t] = "gone" => Terminated(t) = {"gone"}
           /\ launcher[t] = "absent" <=> "absent" \in Terminated(t)
           /\ launcher[t] = "absent" => Terminated(t) = {"absent"}
           /\ t \notin ShLauncher => Terminated(t) \subseteq {"gone", launcher[t]}
  <1>1. CASE launcher[t] = "starting"
    BY <1>1 DEF Terminated
  <1>2. CASE launcher[t] = "forked"
    BY <1>2 DEF Terminated
  <1>3. CASE launcher[t] = "waiting"
    BY <1>3 DEF Terminated
  <1>4. CASE launcher[t] \in {"absent", "interrupted", "gone"}
    BY <1>4 DEF Terminated
  <1>5. QED
    BY <1>1, <1>2, <1>3, <1>4 DEF TypeOK

(* The fields of a cancel call have their types.                            *)
LEMMA CallFields ==
    ASSUME NEW k \in CancelRecord
    PROVE  /\ k.pc \in {"idle", "check", "mark", "signal", "await", "finish"}
           /\ k.task \in Task
           /\ k.copy \in TaskRecord
BY DEF CancelRecord

-----------------------------------------------------------------------------
(* Every variable keeps its type in every step of the task service, its    *)
(* handles, the launcher and the recovery.                                 *)
THEOREM TypeCorrect == Spec => []TypeOK
<1> USE BackendAssumption, FlagAssumption, BoundAssumption
<1> USE DEF TypeOK, ExitCode, None, Resolved, TerminalEvent
<1>1. Init => TypeOK
  BY AbsentFacts, FixedWatchers, IdleFacts DEF Init
<1>2. TypeOK /\ [Next]_vars => TypeOK'
  <2> SUFFICES ASSUME TypeOK, [Next]_vars PROVE TypeOK'
    OBVIOUS
  <2>1. ASSUME NEW t \in Task, StartPrepare(t) PROVE TypeOK'
    BY <2>1, RecordFacts
       DEF StartPrepare, Upsert, TaskState
  <2>2. ASSUME NEW t \in Task, StartRejected(t) PROVE TypeOK'
    BY <2>2 DEF StartRejected, RemoteStartUnanswered
  <2>3. ASSUME NEW t \in Task, StartSpawn(t) PROVE TypeOK'
    BY <2>3 DEF StartSpawn, SpawnLauncher, SpawnProcess
  <2>4. ASSUME NEW t \in Task, StartRecord(t) PROVE TypeOK'
    <3> DEFINE b == BackendRef(t)
    <3>1. b \in BOOLEAN
      BY DEF BackendRef
    <3> HIDE DEF b
    <3>2. Record("RUNNING", b, None) \in TaskRecord
      BY <3>1, RecordFacts DEF TaskState
    <3>3. QED
      BY <2>4, <3>2 DEF StartRecord, Upsert, b
  <2>5. ASSUME NEW t \in Task, StartWatch(t) PROVE TypeOK'
    BY <2>5, AbsentFacts, WatchFacts, FixedWatchers
       DEF StartWatch
  <2>6. ASSUME NEW t \in Task, WatchGet(t) PROVE TypeOK'
    <3>1. WithExit(tasks[t], completion[t]) \in TaskRecord
      BY <2>6, WithFacts DEF WatchGet, TaskState
    <3>2. Watch("emit", watcher[t].reconnected, WithExit(tasks[t], completion[t])) \in WatcherRecord
      BY <3>1, WatchFacts, WatcherFields
    <3>3. QED
      BY <2>6, <3>2 DEF WatchGet
  <2>7. ASSUME NEW t \in Task, WatchEmit(t) PROVE TypeOK'
    <3> DEFINE s == Outcome(watcher[t].copy, watcher[t].copy.exit_code, watcher[t].reconnected)
    <3>1. watcher[t].copy \in TaskRecord /\ watcher[t].reconnected \in BOOLEAN
      BY WatcherFields
    <3>2. s \in TaskState /\ OutcomeEvent(s) \in TerminalEvent
      BY DEF Outcome, OutcomeEvent, TaskState
    <3>3. WithState(watcher[t].copy, s) \in TaskRecord
      BY <3>1, <3>2, WithFacts
    <3>4. Watch("upsert", watcher[t].reconnected, WithState(watcher[t].copy, s)) \in WatcherRecord
      BY <3>1, <3>3, WatchFacts
    <3> HIDE DEF s
    <3>5. QED
      BY <2>7, <3>2, <3>4 DEF WatchEmit, Emit, s
  <2>8. ASSUME NEW t \in Task, WatchUpsert(t) PROVE TypeOK'
    BY <2>8, WatchFacts, WatcherFields, FixedWatchers, AbsentFacts, ZenonT(60)
       DEF WatchUpsert, Upsert
  <2>9. ASSUME NEW t \in Task, WatchPop(t) PROVE TypeOK'
    BY <2>9, FixedWatchers
       DEF WatchPop
  <2>10. ASSUME NEW t \in Task, ProcessExits(t) PROVE TypeOK'
    BY <2>10 DEF ProcessExits
  <2>11. ASSUME NEW t \in Task, TailStatus(t) PROVE TypeOK'
    BY <2>11 DEF TailStatus
  <2>12. ASSUME NEW t \in Task, TailProbe(t) PROVE TypeOK'
    BY <2>12 DEF TailProbe
  <2>13. ASSUME NEW t \in Task, TailRaises(t) PROVE TypeOK'
    BY <2>13 DEF TailRaises
  <2>14. ASSUME NEW t \in Task, LauncherLives(t) \/ LauncherDies(t) PROVE TypeOK'
    BY <2>14 DEF LauncherLives, LauncherForks, LauncherTraps, LauncherWrites,
                 LauncherDies, LauncherStep, OnlyWorld
  <2>15. ASSUME NEW t \in Task, NEW code \in ExitCode, ChildExits(t, code) PROVE TypeOK'
    BY <2>15 DEF ChildExits, OnlyWorld
  <2>16. ASSUME NEW t \in Task, ShutdownDetach(t) PROVE TypeOK'
    BY <2>16 DEF ShutdownDetach
  <2>17. ASSUME NEW t \in Task, ReconcileFinished(t) PROVE TypeOK'
    BY <2>17, RecordFacts, FieldFacts
       DEF ReconcileFinished, Upsert, Emit, Reconciled, TaskState
  <2>18. ASSUME NEW t \in Task, ReconcileNoStatus(t) PROVE TypeOK'
    BY <2>18 DEF ReconcileNoStatus
  <2>19. ASSUME NEW t \in Task, ReconcileAlive(t) PROVE TypeOK'
    <3>1. WithState(tasks[t], "RUNNING") \in TaskRecord
      BY WithFacts DEF TaskState
    <3>2. QED
      BY <2>19, <3>1, FixedWatchers DEF ReconcileAlive, Upsert, Reconciled
  <2>20. ASSUME NEW t \in Task, ReconcileLost(t) PROVE TypeOK'
    BY <2>20, WithFacts
       DEF ReconcileLost, Upsert, Emit, Reconciled, TaskState
  <2>21. ASSUME NEW c \in Caller, NEW t \in Task, CancelGet(c, t) PROVE TypeOK'
    BY <2>21, CallFacts
       DEF CancelGet
  <2>22. ASSUME NEW c \in Caller, CancelCheck(c) PROVE TypeOK'
    BY <2>22, CallFacts, CallFields, IdleFacts
       DEF CancelCheck
  <2>23. ASSUME NEW c \in Caller, CancelMark(c) PROVE TypeOK'
    BY <2>23, CallFacts, CallFields, WithFacts
       DEF CancelMark, Upsert, TaskState
  <2>24. ASSUME NEW c \in Caller, CancelSignal(c) PROVE TypeOK'
    <3> DEFINE t == canceller[c].task
    <3>1. t \in Task /\ canceller[c].copy \in TaskRecord
      BY CallFields
    <3>2. Call("await", t, canceller[c].copy) \in CancelRecord /\ Idle(t) \in CancelRecord
      BY <3>1, CallFacts, IdleFacts
    <3>3. Terminated(t) \subseteq {"absent", "starting", "forked", "waiting", "interrupted", "gone"}
      BY <3>1, TerminatedFacts
    <3> HIDE DEF t
    <3>4. QED
      BY <2>24, <3>1, <3>2, <3>3 DEF CancelSignal, t
  <2>25. ASSUME NEW c \in Caller, CancelDone(c) PROVE TypeOK'
    BY <2>25, CallFacts, CallFields
       DEF CancelDone
  <2>26. ASSUME NEW c \in Caller, CancelKill(c) PROVE TypeOK'
    <3> DEFINE t == canceller[c].task
    <3>1. t \in Task /\ canceller[c].copy \in TaskRecord
      BY CallFields
    <3>2. Call("finish", t, canceller[c].copy) \in CancelRecord /\ Idle(t) \in CancelRecord
      BY <3>1, CallFacts, IdleFacts
    <3> HIDE DEF t
    <3>3. QED
      BY <2>26, <3>1, <3>2, FixedWatchers DEF CancelKill, Killed, t
  <2>27. ASSUME NEW c \in Caller, CancelRaises(c) PROVE TypeOK'
    BY <2>27, CallFields, IdleFacts
       DEF CancelRaises
  <2>28. ASSUME NEW c \in Caller, CancelFinish(c) PROVE TypeOK'
    BY <2>28, CallFields, IdleFacts, WithFacts
       DEF CancelFinish, Upsert, Emit, TaskState
  <2>29. ASSUME Crash \/ ShutdownBegin \/ ShutdownEnd PROVE TypeOK'
    BY <2>29, CallFields, IdleFacts, FixedWatchers
       DEF Crash, ShutdownBegin, ShutdownEnd, Forget
  <2>30. ASSUME Boot \/ BootDone PROVE TypeOK'
    BY <2>30 DEF Boot, BootDone
  <2>31. CASE UNCHANGED vars
    BY <2>31 DEF vars
  <2> HIDE DEF TypeOK
  <2>32. QED
    BY <2>1, <2>2, <2>3, <2>4, <2>5, <2>6, <2>7, <2>8, <2>9, <2>10, <2>11, <2>12, <2>13,
       <2>14, <2>15, <2>16, <2>17, <2>18, <2>19, <2>20, <2>21, <2>22, <2>23, <2>24, <2>25,
       <2>26, <2>27, <2>28, <2>29, <2>30, <2>31
       DEF Next, StartStep, WatchStep, TailStep, ReconcileStep, CancelStep
<1>3. QED
  BY <1>1, <1>2, PTL DEF Spec

-----------------------------------------------------------------------------
(* Every copy of a record, every resolved future and the status file are   *)
(* true to the command: the inductive invariant, kept by every step.       *)
LEMMA RealInvariant == Spec => []RealInv
<1> USE BackendAssumption DEF None, ExitCode, Resolved
<1>1. Init => RealInv
  BY AbsentFacts, FixedWatchers, IdleFacts
     DEF Init, RealInv, RealAt, RecordIsReal
<1>2. TypeOK /\ RealInv /\ [Next]_vars => RealInv'
  <2> SUFFICES ASSUME TypeOK, RealInv, [Next]_vars, NEW u \in Task \ ShLauncher
               PROVE RealAt(u)'
    BY DEF RealInv
  <2> USE DEF TypeOK, RealInv, RealAt, RecordIsReal
  <2>1. ASSUME NEW t \in Task, StartPrepare(t) PROVE RealAt(u)'
    <3> DEFINE r == Record("PREPARING", FALSE, None)
    <3>1. r.state = "PREPARING" /\ r.exit_code = None
      BY DEF Record
    <3> HIDE DEF r
    <3>2. tasks'[u] \in {tasks[u], r}
      BY <2>1 DEF StartPrepare, Upsert, r
    <3>3. QED
      BY <2>1, <3>1, <3>2 DEF StartPrepare
  <2>2. ASSUME NEW t \in Task, StartRejected(t) PROVE RealAt(u)'
    BY <2>2 DEF StartRejected, RemoteStartUnanswered
  <2>3. ASSUME NEW t \in Task, StartSpawn(t) PROVE RealAt(u)'
    <3>1. starter[t] = "preparing"
      BY <2>3 DEF StartSpawn, SpawnLauncher, SpawnProcess
    <3>2. CASE u = t
      <4>1. child[u] = "absent" /\ launcher[u] = "absent"
        BY <3>1, <3>2
      <4>2. \A r \in TaskRecord : RecordIsReal(u, r) => RecordIsReal(u, r)'
        BY <2>3, <3>2, <4>1, FieldFacts DEF StartSpawn, SpawnLauncher, SpawnProcess
      <4>3. status[u] = None
        BY <4>1
      <4>4. \A c \in Caller : canceller[c].copy \in TaskRecord
        BY CallFields
      <4>5. tasks[u] \in TaskRecord /\ watcher[u].copy \in TaskRecord
        BY WatcherFields
      <4>6. /\ UNCHANGED <<tasks, watcher, canceller, status>>
            /\ completion'[u] = "pending"
            /\ launcher'[u] \in {"absent", "starting"}
            /\ starter'[u] = "spawned"
            /\ launcher'[u] = "starting" => child'[u] = "absent"
        BY <2>3, <3>2, <4>1 DEF StartSpawn, SpawnLauncher, SpawnProcess
      <4> HIDE DEF RecordIsReal
      <4>7. QED
        BY <4>2, <4>3, <4>4, <4>5, <4>6
    <3>3. CASE u # t
      BY <2>3, <3>3 DEF StartSpawn, SpawnLauncher, SpawnProcess
    <3>4. QED
      BY <3>2, <3>3
  <2>4. ASSUME NEW t \in Task, StartRecord(t) PROVE RealAt(u)'
    <3>1. /\ Record("RUNNING", BackendRef(t), None).state = "RUNNING"
          /\ Record("RUNNING", BackendRef(t), None).exit_code = None
      BY DEF Record
    <3>2. QED
      BY <2>4, <3>1 DEF StartRecord, Upsert
  <2>5. ASSUME NEW t \in Task, StartWatch(t) PROVE RealAt(u)'
    <3>1. watcher'[u] = watcher[u] \/ watcher'[u].copy = AbsentRecord
      BY <2>5, FixedWatchers DEF StartWatch
    <3>2. RecordIsReal(u, watcher'[u].copy)
      BY <3>1, AbsentFacts
    <3>3. QED
      BY <2>5, <3>2 DEF StartWatch
  <2>6. ASSUME NEW t \in Task, WatchGet(t) PROVE RealAt(u)'
    <3> DEFINE r == WithExit(tasks[t], completion[t])
    <3>1. r.state = tasks[t].state /\ r.exit_code = completion[t]
      BY DEF WithExit, Record
    <3>2. u = t => RecordIsReal(u, r)
      BY <2>6, <3>1 DEF WatchGet
    <3>3. watcher'[u] = watcher[u] \/ (u = t /\ watcher'[u].copy = r)
      BY <2>6 DEF WatchGet, Watch
    <3> HIDE DEF r
    <3>4. QED
      BY <2>6, <3>2, <3>3 DEF WatchGet
  <2>7. ASSUME NEW t \in Task, WatchEmit(t) PROVE RealAt(u)'
    <3> DEFINE o == Outcome(watcher[t].copy, watcher[t].copy.exit_code, watcher[t].reconnected)
               r == WithState(watcher[t].copy, o)
    <3>1. /\ o = "SUCCEEDED" => watcher[t].copy.exit_code = "zero"
          /\ o = "FAILED" => watcher[t].copy.exit_code = "nonzero"
      BY WatcherFields, FieldFacts DEF Outcome
    <3>2. watcher'[u] = watcher[u] \/ (u = t /\ watcher'[u].copy = r)
      BY <2>7 DEF WatchEmit, Watch
    <3>3. r.state = o /\ r.exit_code = watcher[t].copy.exit_code
      BY DEF WithState, Record
    <3> HIDE DEF o, r
    <3>4. u = t => RecordIsReal(u, r)
      BY <3>1, <3>3
    <3>5. QED
      BY <2>7, <3>2, <3>4 DEF WatchEmit
  <2>8. ASSUME NEW t \in Task, WatchUpsert(t) PROVE RealAt(u)'
    <3>1. watcher'[u] = watcher[u] \/ watcher'[u].copy = AbsentRecord
      BY <2>8, FixedWatchers DEF WatchUpsert
    <3>2. RecordIsReal(u, watcher'[u].copy)
      BY <3>1, AbsentFacts
    <3>3. tasks'[u] \in {tasks[u], watcher[u].copy}
      BY <2>8 DEF WatchUpsert, Upsert
    <3>4. RecordIsReal(u, tasks'[u])
      BY <3>3
    <3>5. QED
      BY <2>8, <3>2, <3>4 DEF WatchUpsert
  <2>9. ASSUME NEW t \in Task, WatchPop(t) PROVE RealAt(u)'
    BY <2>9, AbsentFacts, FixedWatchers DEF WatchPop
  <2>10. ASSUME NEW t \in Task, ProcessExits(t) PROVE RealAt(u)'
    BY <2>10 DEF ProcessExits
  <2>11. ASSUME NEW t \in Task, TailStatus(t) PROVE RealAt(u)'
    BY <2>11 DEF TailStatus
  <2>12. ASSUME NEW t \in Task, TailProbe(t) PROVE RealAt(u)'
    BY <2>12 DEF TailProbe
  <2>13. ASSUME NEW t \in Task, TailRaises(t) PROVE RealAt(u)'
    BY <2>13 DEF TailRaises
  <2>14. ASSUME NEW t \in Task, LauncherForks(t) PROVE RealAt(u)'
    <3>1. CASE u = t
      <4>1. child[u] \notin ExitCode
        BY <2>14, <3>1 DEF LauncherForks, LauncherStep, OnlyWorld
      <4>2. \A r \in TaskRecord : RecordIsReal(u, r) => RecordIsReal(u, r)'
        BY <4>1, FieldFacts
      <4>3. status[u] = None /\ completion[u] \notin ExitCode
        BY <4>1
      <4>4. /\ tasks[u] \in TaskRecord
            /\ watcher[u].copy \in TaskRecord
            /\ \A c \in Caller : canceller[c].copy \in TaskRecord
        BY CallFields, WatcherFields
      <4>5. /\ UNCHANGED <<tasks, watcher, canceller, status, completion, starter>>
            /\ launcher'[u] \notin {"interrupted", "starting"}
            /\ starter[u] \notin {"idle", "preparing"}
        BY <2>14, <3>1 DEF LauncherForks, LauncherStep, OnlyWorld
      <4> HIDE DEF RecordIsReal
      <4>6. QED
        BY <4>2, <4>3, <4>4, <4>5
    <3>2. CASE u # t
      BY <2>14, <3>2 DEF LauncherForks, LauncherStep, OnlyWorld
    <3>3. QED
      BY <3>1, <3>2
  <2>15. ASSUME NEW t \in Task, LauncherTraps(t) PROVE RealAt(u)'
    BY <2>15 DEF LauncherTraps, LauncherStep, OnlyWorld
  <2>16. ASSUME NEW t \in Task, LauncherWrites(t) PROVE RealAt(u)'
    BY <2>16 DEF LauncherWrites, LauncherStep, OnlyWorld
  <2>17. ASSUME NEW t \in Task, LauncherDies(t) PROVE RealAt(u)'
    BY <2>17 DEF LauncherDies, OnlyWorld
  <2>18. ASSUME NEW t \in Task, NEW code \in ExitCode, ChildExits(t, code) PROVE RealAt(u)'
    <3>1. CASE u = t
      <4>1. child[u] \notin ExitCode
        BY <2>18, <3>1 DEF ChildExits, OnlyWorld
      <4>2. \A r \in TaskRecord : RecordIsReal(u, r) => RecordIsReal(u, r)'
        BY <4>1, FieldFacts
      <4>3. status[u] = None /\ completion[u] \notin ExitCode
        BY <4>1
      <4>4. /\ tasks[u] \in TaskRecord
            /\ watcher[u].copy \in TaskRecord
            /\ \A c \in Caller : canceller[c].copy \in TaskRecord
        BY CallFields, WatcherFields
      <4>5. /\ UNCHANGED <<tasks, watcher, canceller, status, completion, starter>>
            /\ launcher'[u] \notin {"interrupted", "starting"}
            /\ starter[u] \notin {"idle", "preparing"}
        BY <2>18, <3>1 DEF ChildExits, OnlyWorld
      <4> HIDE DEF RecordIsReal
      <4>6. QED
        BY <4>2, <4>3, <4>4, <4>5
    <3>2. CASE u # t
      BY <2>18, <3>2 DEF ChildExits, OnlyWorld
    <3>3. QED
      BY <3>1, <3>2
  <2>19. ASSUME NEW t \in Task, ShutdownDetach(t) PROVE RealAt(u)'
    BY <2>19 DEF ShutdownDetach
  <2>20. ASSUME NEW t \in Task, ReconcileFinished(t) PROVE RealAt(u)'
    <3> DEFINE s == IF status[t] = "zero" THEN "SUCCEEDED" ELSE "FAILED"
               r == Record(s, tasks[t].backend_ref, status[t])
    <3>1. r.state = s /\ r.exit_code = status[t]
      BY DEF Record
    <3>2. tasks' = [tasks EXCEPT ![t] = r]
      BY <2>20 DEF ReconcileFinished, Upsert
    <3> HIDE DEF r
    <3>3. u = t => child[u] = status[t] /\ status[t] \in ExitCode
      BY <2>20 DEF ReconcileFinished
    <3>4. RecordIsReal(u, tasks'[u])
      BY <3>1, <3>2, <3>3
    <3>5. QED
      BY <2>20, <3>4 DEF ReconcileFinished
  <2>21. ASSUME NEW t \in Task, ReconcileNoStatus(t) PROVE RealAt(u)'
    BY <2>21 DEF ReconcileNoStatus
  <2>22. ASSUME NEW t \in Task, ReconcileAlive(t) PROVE RealAt(u)'
    <3> DEFINE r == WithState(tasks[t], "RUNNING")
    <3>1. r.state = "RUNNING" /\ r.exit_code = tasks[t].exit_code
      BY DEF WithState, Record
    <3>2. watcher'[u] = watcher[u] \/ watcher'[u].copy = AbsentRecord
      BY <2>22, FixedWatchers DEF ReconcileAlive
    <3>3. RecordIsReal(u, watcher'[u].copy)
      BY <3>2, AbsentFacts
    <3>4. tasks' = [tasks EXCEPT ![t] = r]
      BY <2>22 DEF ReconcileAlive, Upsert
    <3> HIDE DEF r
    <3>5. RecordIsReal(u, tasks'[u])
      BY <3>1, <3>4
    <3>6. QED
      BY <2>22, <3>3, <3>5 DEF ReconcileAlive
  <2>23. ASSUME NEW t \in Task, ReconcileLost(t) PROVE RealAt(u)'
    BY <2>23, WithFacts DEF ReconcileLost, Upsert, Reconciled, TaskState
  <2>24. ASSUME NEW c \in Caller, NEW t \in Task, CancelGet(c, t) PROVE RealAt(u)'
    BY <2>24, CallFacts DEF CancelGet
  <2>25. ASSUME NEW c \in Caller, CancelCheck(c) PROVE RealAt(u)'
    BY <2>25, CallFields, CallFacts, IdleFacts, AbsentFacts DEF CancelCheck
  <2>26. ASSUME NEW c \in Caller, CancelMark(c) PROVE RealAt(u)'
    <3> DEFINE t == canceller[c].task
               r == WithState(canceller[c].copy, "CANCELLING")
    <3>1. t \in Task /\ canceller[c].copy \in TaskRecord
      BY CallFields
    <3>2. r \in TaskRecord /\ r.state = "CANCELLING" /\ r.exit_code = canceller[c].copy.exit_code
      BY <3>1, WithFacts DEF TaskState
    <3>3. Call("signal", t, r).task = t /\ Call("signal", t, r).copy = r
      BY <3>1, <3>2, CallFacts
    <3>4. u = t => RecordIsReal(u, r)
      BY <3>2
    <3> HIDE DEF t, r
    <3>5. tasks' = [tasks EXCEPT ![t] = r] /\ canceller' = [canceller EXCEPT ![c] = Call("signal", t, r)]
      BY <2>26 DEF CancelMark, Upsert, t, r
    <3>6. QED
      BY <2>26, <3>1, <3>3, <3>4, <3>5 DEF CancelMark
  <2>27. ASSUME NEW c \in Caller, CancelSignal(c) PROVE RealAt(u)'
    <3> DEFINE t == canceller[c].task
               k == Call("await", t, canceller[c].copy)
    <3>1. t \in Task /\ canceller[c].copy \in TaskRecord
      BY CallFields
    <3>2. /\ k.task = t /\ k.copy = canceller[c].copy
          /\ Idle(t).task = t /\ Idle(t).copy = AbsentRecord
      BY <3>1, CallFacts, IdleFacts
    <3>3. Terminated(u) \subseteq {"gone", launcher[u]}
      BY TerminatedFacts
    <3>4. /\ canceller'[c] \in {k, Idle(t)}
          /\ \A d \in Caller : d # c => canceller'[d] = canceller[d]
          /\ launcher'[u] \in {launcher[u]} \cup Terminated(u)
      BY <2>27, <3>1 DEF CancelSignal
    <3>5. RecordIsReal(u, AbsentRecord)
      BY AbsentFacts
    <3> HIDE DEF k
    <3>6. \A d \in Caller : canceller'[d].task = u => RecordIsReal(u, canceller'[d].copy)
      BY <3>2, <3>4, <3>5
    <3>7. launcher'[u] \in {"gone", launcher[u]}
      BY <3>3, <3>4
    <3>8. launcher[u] = "absent" => launcher'[u] = "absent"
      BY <3>4, TerminatedFacts
    <3>9. QED
      BY <2>27, <3>6, <3>7, <3>8 DEF CancelSignal
  <2>28. ASSUME NEW c \in Caller, CancelDone(c) PROVE RealAt(u)'
    BY <2>28, CallFields, CallFacts DEF CancelDone
  <2>29. ASSUME NEW c \in Caller, CancelKill(c) PROVE RealAt(u)'
    <3> DEFINE t == canceller[c].task
               k == Call("finish", t, canceller[c].copy)
    <3>1. t \in Task /\ canceller[c].copy \in TaskRecord
      BY CallFields
    <3>2. /\ k.task = t /\ k.copy = canceller[c].copy
          /\ Idle(t).task = t /\ Idle(t).copy = AbsentRecord
      BY <3>1, CallFacts, IdleFacts
    <3>3. watcher'[u] = watcher[u] \/ watcher'[u].copy = AbsentRecord
      BY <2>29, FixedWatchers DEF CancelKill
    <3>4. RecordIsReal(u, watcher'[u].copy)
      BY <3>3, AbsentFacts
    <3>5. /\ canceller'[c] \in {k, Idle(t)}
          /\ \A d \in Caller : d # c => canceller'[d] = canceller[d]
      BY <2>29 DEF CancelKill
    <3> HIDE DEF k
    <3>6. \A d \in Caller : canceller'[d].task = u => RecordIsReal(u, canceller'[d].copy)
      BY <3>2, <3>5, AbsentFacts
    <3>7. launcher'[u] \in {Killed(u), launcher[u]}
      BY <2>29 DEF CancelKill
    <3>8. QED
      BY <2>29, <3>4, <3>6, <3>7 DEF CancelKill, Killed
  <2>30. ASSUME NEW c \in Caller, CancelRaises(c) PROVE RealAt(u)'
    BY <2>30, CallFields, IdleFacts, AbsentFacts DEF CancelRaises
  <2>31. ASSUME NEW c \in Caller, CancelFinish(c) PROVE RealAt(u)'
    BY <2>31, CallFields, IdleFacts, AbsentFacts, WithFacts DEF CancelFinish, Upsert, TaskState
  <2>32. ASSUME Crash PROVE RealAt(u)'
    BY <2>32, CallFields, IdleFacts, AbsentFacts, FixedWatchers DEF Crash, Forget
  <2>33. ASSUME ShutdownBegin PROVE RealAt(u)'
    BY <2>33 DEF ShutdownBegin
  <2>34. ASSUME ShutdownEnd PROVE RealAt(u)'
    BY <2>34, CallFields, IdleFacts, AbsentFacts, FixedWatchers DEF ShutdownEnd, Forget
  <2>35. ASSUME Boot PROVE RealAt(u)'
    BY <2>35 DEF Boot
  <2>36. ASSUME BootDone PROVE RealAt(u)'
    BY <2>36 DEF BootDone
  <2>37. CASE UNCHANGED vars
    BY <2>37 DEF vars
  <2> HIDE DEF TypeOK, RealInv, RealAt, RecordIsReal
  <2>38. QED
    BY <2>1, <2>2, <2>3, <2>4, <2>5, <2>6, <2>7, <2>8, <2>9, <2>10, <2>11, <2>12, <2>13,
       <2>14, <2>15, <2>16, <2>17, <2>18, <2>19, <2>20, <2>21, <2>22, <2>23, <2>24, <2>25,
       <2>26, <2>27, <2>28, <2>29, <2>30, <2>31, <2>32, <2>33, <2>34, <2>35, <2>36, <2>37
       DEF Next, StartStep, WatchStep, TailStep, ReconcileStep, CancelStep, LauncherLives
<1>3. QED
  BY <1>1, <1>2, TypeCorrect, PTL DEF Spec

(* The outcomes in the task table are what the commands did, whoever wrote *)
(* them: TaskService.start, its watchers, a cancel that overwrites with    *)
(* the copy it read earlier, or RecoveryService after any crash.           *)
THEOREM OutcomesAreReal == Spec => []OutcomeIsReal
<1>1. RealInv => OutcomeIsReal
  BY DEF RealInv, RealAt, RecordIsReal, OutcomeIsReal
<1>2. QED
  BY <1>1, RealInvariant, PTL

(* LOST is honest: a detached task the runtime can reach and whose record  *)
(* names its backend is LOST only when its launcher is gone, whatever      *)
(* stale copies are written and however often the runtime crashes.         *)
THEOREM LostTasksAreGone == Spec => []LostIsHonest
<1> USE BackendAssumption DEF None, ExitCode, Resolved
<1>1. Init => LostInv
  BY AbsentFacts, FixedWatchers, IdleFacts
     DEF Init, LostInv, LostAt, LostRecordIsHonest, Reachable, Detached
<1>2. TypeOK /\ LostInv /\ [Next]_vars => LostInv'
  <2> SUFFICES ASSUME TypeOK, LostInv, [Next]_vars, NEW u \in Reachable
               PROVE LostAt(u)'
    BY DEF LostInv
  <2>0. u \in Task /\ (u \in LocalDetached \/ ~NetFaults) /\ u \in Detached
    BY DEF Reachable, Detached
  <2> USE <2>0 DEF TypeOK, LostInv, LostAt, LostRecordIsHonest
  <2>1. ASSUME NEW t \in Task, StartPrepare(t) PROVE LostAt(u)'
    <3> DEFINE r == Record("PREPARING", FALSE, None)
    <3>1. r.state = "PREPARING"
      BY DEF Record, WithState
    <3>2. tasks' = [tasks EXCEPT ![t] = r]
      BY <2>1 DEF StartPrepare, Upsert
    <3> HIDE DEF r
    <3>3. LostRecordIsHonest(u, tasks'[u])
      BY <2>1, <3>1, <3>2 DEF StartPrepare
    <3>4. QED
      BY <2>1, <3>3 DEF StartPrepare
  <2>2. ASSUME NEW t \in Task, StartRejected(t) PROVE LostAt(u)'
    BY <2>2 DEF StartRejected, RemoteStartUnanswered
  <2>3. ASSUME NEW t \in Task, StartSpawn(t) PROVE LostAt(u)'
    <3>1. u = t => launcher[u] = "absent" /\ starter[t] = "preparing"
      BY <2>3 DEF StartSpawn, SpawnLauncher, SpawnProcess
    <3>2. launcher[u] = "gone" => launcher'[u] = "gone"
      BY <2>3, <3>1 DEF StartSpawn, SpawnLauncher, SpawnProcess
    <3>3. QED
      BY <2>3, <3>1, <3>2 DEF StartSpawn, SpawnLauncher, SpawnProcess
  <2>4. ASSUME NEW t \in Task, StartRecord(t) PROVE LostAt(u)'
    <3> DEFINE r == Record("RUNNING", BackendRef(t), None)
    <3>1. r.state = "RUNNING"
      BY DEF Record, WithState
    <3>2. tasks' = [tasks EXCEPT ![t] = r]
      BY <2>4 DEF StartRecord, Upsert
    <3> HIDE DEF r
    <3>3. LostRecordIsHonest(u, tasks'[u])
      BY <2>4, <3>1, <3>2 DEF StartRecord
    <3>4. QED
      BY <2>4, <3>3 DEF StartRecord
  <2>5. ASSUME NEW t \in Task, StartWatch(t) PROVE LostAt(u)'
    <3>1. watcher'[u] = watcher[u] \/ (watcher'[u].copy = AbsentRecord /\ watcher'[u].pc # "emit")
      BY <2>5, FixedWatchers DEF StartWatch
    <3>2. LostRecordIsHonest(u, watcher'[u].copy)
      BY <3>1, AbsentFacts
    <3>3. QED
      BY <2>5, <3>1, <3>2 DEF StartWatch
  <2>6. ASSUME NEW t \in Task, WatchGet(t) PROVE LostAt(u)'
    <3> DEFINE r == WithExit(tasks[t], completion[t])
    <3>1. r.state = tasks[t].state /\ r.backend_ref = tasks[t].backend_ref /\ r.exit_code = completion[t]
      BY DEF WithExit, Record
    <3>2. watcher'[u] = watcher[u] \/ (u = t /\ watcher'[u].copy = r)
      BY <2>6 DEF WatchGet, Watch
    <3> HIDE DEF r
    <3>3. LostRecordIsHonest(u, watcher'[u].copy)
      BY <3>1, <3>2
    <3>4. watcher'[u].pc = "emit" /\ watcher'[u].copy.exit_code = None => launcher[u] = "gone"
      BY <3>1, <3>2
    <3>5. QED
      BY <2>6, <3>3, <3>4 DEF WatchGet
  <2>7. ASSUME NEW t \in Task, WatchEmit(t) PROVE LostAt(u)'
    <3> DEFINE o == Outcome(watcher[t].copy, watcher[t].copy.exit_code, watcher[t].reconnected)
               r == WithState(watcher[t].copy, o)
    <3>1. o = "LOST" => watcher[t].copy.exit_code = None
      BY WatcherFields, FieldFacts DEF Outcome
    <3>2. watcher'[u] = watcher[u] \/ (u = t /\ watcher'[u].pc = "upsert" /\ watcher'[u].copy = r)
      BY <2>7 DEF WatchEmit, Watch
    <3>3. r.state = o
      BY DEF WithState, Record
    <3> HIDE DEF o, r
    <3>4. LostRecordIsHonest(u, watcher'[u].copy)
      BY <2>7, <3>1, <3>2, <3>3 DEF WatchEmit
    <3>5. QED
      BY <2>7, <3>2, <3>4 DEF WatchEmit
  <2>8. ASSUME NEW t \in Task, WatchUpsert(t) PROVE LostAt(u)'
    <3>1. watcher'[u] = watcher[u] \/ (watcher'[u].copy = AbsentRecord /\ watcher'[u].pc # "emit")
      BY <2>8, FixedWatchers DEF WatchUpsert
    <3>2. LostRecordIsHonest(u, watcher'[u].copy)
      BY <3>1, AbsentFacts
    <3>3. tasks'[u] \in {tasks[u], watcher[u].copy}
      BY <2>8 DEF WatchUpsert, Upsert
    <3>4. LostRecordIsHonest(u, tasks'[u])
      BY <3>3
    <3>5. QED
      BY <2>8, <3>1, <3>2, <3>4 DEF WatchUpsert
  <2>9. ASSUME NEW t \in Task, WatchPop(t) PROVE LostAt(u)'
    BY <2>9, FixedWatchers, AbsentFacts DEF WatchPop
  <2>10. ASSUME NEW t \in Task, ProcessExits(t) PROVE LostAt(u)'
    BY <2>10 DEF ProcessExits
  <2>11. ASSUME NEW t \in Task, TailStatus(t) PROVE LostAt(u)'
    BY <2>11 DEF TailStatus
  <2>12. ASSUME NEW t \in Task, TailProbe(t) PROVE LostAt(u)'
    BY <2>12 DEF TailProbe, ProbeSaysDead
  <2>13. ASSUME NEW t \in Task, TailRaises(t) PROVE LostAt(u)'
    BY <2>13 DEF TailRaises
  <2>14. ASSUME NEW t \in Task, LauncherForks(t) PROVE LostAt(u)'
    BY <2>14 DEF LauncherForks, LauncherStep, OnlyWorld
  <2>15. ASSUME NEW t \in Task, LauncherTraps(t) PROVE LostAt(u)'
    BY <2>15 DEF LauncherTraps, LauncherStep, OnlyWorld
  <2>16. ASSUME NEW t \in Task, LauncherWrites(t) PROVE LostAt(u)'
    BY <2>16 DEF LauncherWrites, LauncherStep, OnlyWorld
  <2>17. ASSUME NEW t \in Task, LauncherDies(t) PROVE LostAt(u)'
    BY <2>17 DEF LauncherDies, OnlyWorld
  <2>18. ASSUME NEW t \in Task, NEW code \in ExitCode, ChildExits(t, code) PROVE LostAt(u)'
    BY <2>18 DEF ChildExits, OnlyWorld
  <2>19. ASSUME NEW t \in Task, ShutdownDetach(t) PROVE LostAt(u)'
    BY <2>19 DEF ShutdownDetach
  <2>20. ASSUME NEW t \in Task, ReconcileFinished(t) PROVE LostAt(u)'
    <3> DEFINE r == Record(IF status[t] = "zero" THEN "SUCCEEDED" ELSE "FAILED", tasks[t].backend_ref, status[t])
    <3>1. r.state # "LOST"
      BY DEF Record, WithState
    <3>2. tasks' = [tasks EXCEPT ![t] = r]
      BY <2>20 DEF ReconcileFinished, Upsert
    <3> HIDE DEF r
    <3>3. LostRecordIsHonest(u, tasks'[u])
      BY <2>20, <3>1, <3>2 DEF ReconcileFinished
    <3>4. QED
      BY <2>20, <3>3 DEF ReconcileFinished
  <2>21. ASSUME NEW t \in Task, ReconcileNoStatus(t) PROVE LostAt(u)'
    BY <2>21 DEF ReconcileNoStatus
  <2>22. ASSUME NEW t \in Task, ReconcileAlive(t) PROVE LostAt(u)'
    <3> DEFINE r == WithState(tasks[t], "RUNNING")
    <3>1. r.state = "RUNNING"
      BY DEF WithState, Record
    <3>2. watcher'[u] = watcher[u] \/ (watcher'[u].copy = AbsentRecord /\ watcher'[u].pc # "emit")
      BY <2>22, FixedWatchers DEF ReconcileAlive
    <3>3. LostRecordIsHonest(u, watcher'[u].copy)
      BY <3>2, AbsentFacts
    <3>4. tasks' = [tasks EXCEPT ![t] = r]
      BY <2>22 DEF ReconcileAlive, Upsert
    <3> HIDE DEF r
    <3>5. LostRecordIsHonest(u, tasks'[u])
      BY <3>1, <3>4
    <3>6. QED
      BY <2>22, <3>2, <3>3, <3>5 DEF ReconcileAlive
  <2>23. ASSUME NEW t \in Task, ReconcileLost(t) PROVE LostAt(u)'
    <3> DEFINE r == WithState(tasks[t], "LOST")
    <3>1. r.state = "LOST" /\ r.backend_ref = tasks[t].backend_ref
      BY DEF Record, WithState
    <3>2. tasks' = [tasks EXCEPT ![t] = r]
      BY <2>23 DEF ReconcileLost, Upsert
    <3> HIDE DEF r
    <3>3. LostRecordIsHonest(u, tasks'[u])
      BY <2>23, <3>1, <3>2 DEF ReconcileLost, ProbeSaysDead
    <3>4. QED
      BY <2>23, <3>3 DEF ReconcileLost
  <2>24. ASSUME NEW c \in Caller, NEW t \in Task, CancelGet(c, t) PROVE LostAt(u)'
    BY <2>24, CallFacts DEF CancelGet
  <2>25. ASSUME NEW c \in Caller, CancelCheck(c) PROVE LostAt(u)'
    BY <2>25, CallFields, CallFacts, IdleFacts, AbsentFacts DEF CancelCheck
  <2>26. ASSUME NEW c \in Caller, CancelMark(c) PROVE LostAt(u)'
    <3> DEFINE t == canceller[c].task
               r == WithState(canceller[c].copy, "CANCELLING")
               k == Call("signal", t, r)
    <3>1. r.state = "CANCELLING" /\ k.copy = r
      BY DEF WithState, Record, Call
    <3>2. tasks' = [tasks EXCEPT ![t] = r] /\ canceller' = [canceller EXCEPT ![c] = k]
      BY <2>26 DEF CancelMark, Upsert
    <3> HIDE DEF t, r, k
    <3>3. LostRecordIsHonest(u, tasks'[u])
      BY <3>1, <3>2
    <3>4. \A d \in Caller : canceller'[d].task = u => LostRecordIsHonest(u, canceller'[d].copy)
      BY <3>1, <3>2
    <3>5. QED
      BY <2>26, <3>3, <3>4 DEF CancelMark
  <2>27. ASSUME NEW c \in Caller, CancelSignal(c) PROVE LostAt(u)'
    <3> DEFINE t == canceller[c].task
               k == Call("await", t, canceller[c].copy)
    <3>1. t \in Task
      BY CallFields
    <3>2. k.task = t /\ k.copy = canceller[c].copy /\ Idle(t).copy = AbsentRecord
      BY <3>1, IdleFacts DEF Call
    <3>3. /\ canceller'[c] \in {k, Idle(t)}
          /\ \A d \in Caller : d # c => canceller'[d] = canceller[d]
          /\ launcher'[u] \in {launcher[u]} \cup Terminated(u)
      BY <2>27, <3>1 DEF CancelSignal
    <3> HIDE DEF k
    <3>4. \A d \in Caller : canceller'[d].task = u => LostRecordIsHonest(u, canceller'[d].copy)
      BY <3>2, <3>3, AbsentFacts
    <3>5. /\ launcher[u] = "gone" => launcher'[u] = "gone"
          /\ launcher[u] = "absent" => launcher'[u] = "absent"
      BY <3>3, TerminatedFacts
    <3>6. QED
      BY <2>27, <3>4, <3>5 DEF CancelSignal
  <2>28. ASSUME NEW c \in Caller, CancelDone(c) PROVE LostAt(u)'
    BY <2>28, CallFields, CallFacts DEF CancelDone
  <2>29. ASSUME NEW c \in Caller, CancelKill(c) PROVE LostAt(u)'
    <3> DEFINE t == canceller[c].task
               k == Call("finish", t, canceller[c].copy)
    <3>1. k.task = t /\ k.copy = canceller[c].copy /\ Idle(t).copy = AbsentRecord
      BY CallFields, IdleFacts DEF Call
    <3>2. watcher'[u] = watcher[u] \/ (watcher'[u].copy = AbsentRecord /\ watcher'[u].pc # "emit")
      BY <2>29, FixedWatchers DEF CancelKill
    <3>3. LostRecordIsHonest(u, watcher'[u].copy)
      BY <3>2, AbsentFacts
    <3>4. /\ canceller'[c] \in {k, Idle(t)}
          /\ \A d \in Caller : d # c => canceller'[d] = canceller[d]
      BY <2>29 DEF CancelKill
    <3> HIDE DEF k
    <3>5. \A d \in Caller : canceller'[d].task = u => LostRecordIsHonest(u, canceller'[d].copy)
      BY <3>1, <3>4, AbsentFacts
    <3>6. launcher'[u] \in {Killed(u), launcher[u]}
      BY <2>29 DEF CancelKill
    <3>7. QED
      BY <2>29, <3>2, <3>3, <3>5, <3>6 DEF CancelKill, Killed
  <2>30. ASSUME NEW c \in Caller, CancelRaises(c) PROVE LostAt(u)'
    BY <2>30, CallFields, IdleFacts, AbsentFacts DEF CancelRaises
  <2>31. ASSUME NEW c \in Caller, CancelFinish(c) PROVE LostAt(u)'
    <3> DEFINE t == canceller[c].task
               r == WithState(canceller[c].copy, "CANCELLED")
    <3>1. r.state = "CANCELLED" /\ Idle(t).copy = AbsentRecord
      BY CallFields, IdleFacts DEF WithState, Record
    <3>2. tasks' = [tasks EXCEPT ![t] = r] /\ canceller' = [canceller EXCEPT ![c] = Idle(t)]
      BY <2>31 DEF CancelFinish, Upsert
    <3> HIDE DEF t, r
    <3>3. LostRecordIsHonest(u, tasks'[u])
      BY <3>1, <3>2
    <3>4. \A d \in Caller : canceller'[d].task = u => LostRecordIsHonest(u, canceller'[d].copy)
      BY <3>1, <3>2, AbsentFacts
    <3>5. QED
      BY <2>31, <3>3, <3>4 DEF CancelFinish
  <2>32. ASSUME Crash PROVE LostAt(u)'
    BY <2>32, CallFields, IdleFacts, AbsentFacts, FixedWatchers DEF Crash, Forget
  <2>33. ASSUME ShutdownBegin PROVE LostAt(u)'
    BY <2>33 DEF ShutdownBegin
  <2>34. ASSUME ShutdownEnd PROVE LostAt(u)'
    BY <2>34, CallFields, IdleFacts, AbsentFacts, FixedWatchers DEF ShutdownEnd, Forget
  <2>35. ASSUME Boot PROVE LostAt(u)'
    BY <2>35 DEF Boot
  <2>36. ASSUME BootDone PROVE LostAt(u)'
    BY <2>36 DEF BootDone
  <2>37. CASE UNCHANGED vars
    BY <2>37 DEF vars
  <2> HIDE DEF TypeOK, LostInv, LostAt, LostRecordIsHonest
  <2>38. QED
    BY <2>1, <2>2, <2>3, <2>4, <2>5, <2>6, <2>7, <2>8, <2>9, <2>10, <2>11, <2>12, <2>13,
       <2>14, <2>15, <2>16, <2>17, <2>18, <2>19, <2>20, <2>21, <2>22, <2>23, <2>24, <2>25,
       <2>26, <2>27, <2>28, <2>29, <2>30, <2>31, <2>32, <2>33, <2>34, <2>35, <2>36, <2>37
       DEF Next, StartStep, WatchStep, TailStep, ReconcileStep, CancelStep, LauncherLives
<1>3. LostInv => LostIsHonest
  BY DEF LostInv, LostAt, LostRecordIsHonest, LostIsHonest
<1>4. QED
  BY <1>1, <1>2, <1>3, TypeCorrect, PTL DEF Spec
-----------------------------------------------------------------------------
(***************************************************************************)
(* One step, seen from one task: what an action does to the task it is     *)
(* about, with the fields of the records it builds, and that it leaves     *)
(* every other task alone.  The invariants that follow are proved from     *)
(* these facts.                                                            *)
(***************************************************************************)

(* Nothing of task u changes, and no call about it.                        *)
Still(u) ==
    /\ tasks'[u] = tasks[u] /\ announced'[u] = announced[u]
    /\ completion'[u] = completion[u] /\ tail'[u] = tail[u]
    /\ u \in task_handles' <=> u \in task_handles
    /\ starter'[u] = starter[u] /\ watcher'[u] = watcher[u] /\ reconcile'[u] = reconcile[u]
    /\ launcher'[u] = launcher[u] /\ child'[u] = child[u] /\ status'[u] = status[u]
Uncalled(u) ==
    \A c \in Caller : canceller'[c] = canceller[c] \/ (~Calls(c, u) /\ ~Calls(c, u)')

(* What a coroutine of the runtime or a process does about t, and what a   *)
(* cancel call does.                                                       *)
ServiceStep(t) ==
    \/ StartPrepare(t) \/ StartStep(t) \/ WatchStep(t) \/ TailStep(t) \/ ProcessExits(t)
    \/ ShutdownDetach(t) \/ ReconcileStep(t)
WorldStep(t) ==
    \/ LauncherLives(t) \/ LauncherDies(t) \/ \E code \in ExitCode : ChildExits(t, code)
SystemStep == Crash \/ ShutdownBegin \/ ShutdownEnd \/ Boot \/ BootDone

(* The next-state relation, sorted that way.                               *)
LEMMA StepsAre ==
    Next => \/ \E t \in Task : ServiceStep(t) \/ WorldStep(t)
            \/ \E c \in Caller : CancelStep(c) \/ \E t \in Task : CancelGet(c, t)
            \/ SystemStep
  BY DEF Next, ServiceStep, WorldStep, SystemStep

(* A coroutine leaves every other task alone.                              *)
LEMMA ServiceElsewhere ==
    ASSUME TypeOK, NEW t \in Task, ServiceStep(t), NEW u \in Task, u # t
    PROVE  Still(u) /\ Uncalled(u) /\ UNCHANGED <<runtime, canceller>>
<1> USE DEF TypeOK, Still, Uncalled
<1>1. CASE StartPrepare(t)
  BY <1>1 DEF StartPrepare, Upsert
<1>2. CASE StartStep(t)
  BY <1>2 DEF StartStep, StartRejected, StartSpawn, StartRecord, StartWatch, Upsert,
              SpawnLauncher, SpawnProcess
<1>3. CASE WatchStep(t)
  BY <1>3 DEF WatchStep, WatchGet, WatchEmit, WatchUpsert, WatchPop, Upsert, Emit
<1>4. CASE TailStep(t) \/ ProcessExits(t) \/ ShutdownDetach(t)
  BY <1>4 DEF TailStep, TailStatus, TailProbe, TailRaises, ProcessExits, ShutdownDetach
<1>5. CASE ReconcileStep(t)
  BY <1>5 DEF ReconcileStep, ReconcileFinished, ReconcileNoStatus, ReconcileAlive,
              ReconcileLost, Reconciled, Upsert, Emit
<1> QED
  BY <1>1, <1>2, <1>3, <1>4, <1>5 DEF ServiceStep

(* So does a process.                                                      *)
LEMMA WorldElsewhere ==
    ASSUME TypeOK, NEW t \in Task, WorldStep(t), NEW u \in Task, u # t
    PROVE  Still(u) /\ Uncalled(u) /\ UNCHANGED <<runtime, canceller>>
  BY DEF TypeOK, Still, Uncalled, WorldStep, LauncherLives, LauncherForks, LauncherTraps,
         LauncherWrites, LauncherDies, ChildExits, LauncherStep, OnlyWorld

(* And a call that is not about the task.                                  *)
LEMMA CallElsewhere ==
    ASSUME TypeOK, NEW c \in Caller, CancelStep(c), NEW u \in Task, u # canceller[c].task
    PROVE  Still(u) /\ Uncalled(u) /\ UNCHANGED runtime
<1> DEFINE t == canceller[c].task
<1>0. t \in Task
  BY CallFields DEF TypeOK
<1>1. Still(u) /\ UNCHANGED runtime /\ \A d \in Caller \ {c} : canceller'[d] = canceller[d]
  <2> USE <1>0 DEF TypeOK, Still
  <2>1. CASE CancelCheck(c) \/ CancelMark(c) \/ CancelFinish(c)
    BY <2>1 DEF CancelCheck, CancelMark, CancelFinish, Upsert, Emit
  <2>2. CASE CancelSignal(c) \/ CancelDone(c) \/ CancelKill(c) \/ CancelRaises(c)
    BY <2>2 DEF CancelSignal, CancelDone, CancelKill, CancelRaises
  <2> QED
    BY <2>1, <2>2 DEF CancelStep
<1>2. \E pc, r : canceller'[c] = Call(pc, t, r)
  BY DEF CancelStep, CancelCheck, CancelMark, CancelFinish, CancelSignal, CancelDone,
         CancelKill, CancelRaises, Idle, TypeOK
<1>3. canceller'[c].task = t
  BY <1>2 DEF Call
<1> QED
  BY <1>1, <1>3 DEF Uncalled, Calls

(* The fields of a record.                                                 *)
Reads(r, state, backend_ref, exit_code) ==
    r.state = state /\ r.backend_ref = backend_ref /\ r.exit_code = exit_code
LEMMA RecordReads ==
    ASSUME NEW s, NEW b, NEW x
    PROVE  Reads(Record(s, b, x), s, b, x)
  BY DEF Reads, Record

(* What the copies with another state or exit code read, whatever they were *)
(* copied from.                                                             *)
LEMMA WithReads ==
    ASSUME NEW r, NEW s, NEW x
    PROVE  /\ Reads(WithState(r, s), s, r.backend_ref, r.exit_code)
           /\ Reads(WithExit(r, x), r.state, r.backend_ref, x)
  BY RecordReads DEF WithState, WithExit

(* The actions of start that write a record or create the watcher.         *)
LEMMA StartPrepareEffect ==
    ASSUME TypeOK, NEW t \in Task, StartPrepare(t)
    PROVE  /\ runtime = "up" /\ starter[t] = "idle" /\ starter'[t] = "preparing"
           /\ Reads(tasks'[t], "PREPARING", FALSE, None)
           /\ UNCHANGED <<runtime, task_handles, completion, tail, watcher, canceller, reconcile,
                          launcher, child, status, announced>>
<1>1. tasks'[t] = Record("PREPARING", FALSE, None)
  BY DEF TypeOK, StartPrepare, Upsert
<1> QED
  BY <1>1, RecordReads DEF TypeOK, StartPrepare

(* start writes RUNNING over whatever the record says.                      *)
LEMMA StartRecordEffect ==
    ASSUME TypeOK, NEW t \in Task, StartRecord(t)
    PROVE  /\ Serving /\ starter[t] = "spawned" /\ starter'[t] = "recorded"
           /\ Reads(tasks'[t], "RUNNING", t \in Detached, None)
           /\ UNCHANGED <<runtime, task_handles, completion, tail, watcher, canceller, reconcile,
                          launcher, child, status, announced>>
<1>1. tasks'[t] = Record("RUNNING", BackendRef(t), None)
  BY DEF TypeOK, StartRecord, Upsert
<1>2. Reads(tasks'[t], "RUNNING", BackendRef(t), None)
  BY <1>1, RecordReads
<1> QED
  BY <1>2 DEF TypeOK, StartRecord, BackendRef

(* start creates the watcher if the handle is still registered.             *)
LEMMA StartWatchEffect ==
    ASSUME TypeOK, NEW t \in Task, StartWatch(t)
    PROVE  /\ Serving /\ starter[t] = "recorded" /\ starter'[t] = "over"
           /\ watcher'[t].pc = IF t \in task_handles THEN "wait" ELSE "none"
           /\ UNCHANGED <<runtime, tasks, task_handles, completion, tail, canceller, reconcile,
                          launcher, child, status, announced>>
  BY FixedWatchers DEF TypeOK, StartWatch

(* The watchers.                                                           *)
LEMMA WatchGetEffect ==
    ASSUME TypeOK, NEW t \in Task, WatchGet(t)
    PROVE  /\ Running /\ watcher[t].pc = "wait" /\ completion[t] \in Resolved
           /\ watcher'[t].pc = "emit" /\ tail'[t] = "off"
           /\ Reads(watcher'[t].copy, tasks[t].state, tasks[t].backend_ref, completion[t])
           /\ UNCHANGED <<runtime, tasks, task_handles, completion, starter, canceller, reconcile,
                          launcher, child, status, announced>>
<1> DEFINE r == WithExit(tasks[t], completion[t])
<1>1. watcher'[t] = Watch("emit", watcher[t].reconnected, r)
  BY DEF TypeOK, WatchGet
<1>2. Reads(r, tasks[t].state, tasks[t].backend_ref, completion[t])
  BY WithReads
<1> HIDE DEF r
<1>3. watcher'[t].pc = "emit" /\ watcher'[t].copy = r
  BY <1>1 DEF Watch
<1> QED
  BY <1>2, <1>3 DEF TypeOK, WatchGet

(* The outcome a watcher derives is terminal, and it agrees with the exit   *)
(* code and with the event that announces it.                               *)
OutcomeAt(t) == Outcome(watcher[t].copy, watcher[t].copy.exit_code, watcher[t].reconnected)
LEMMA OutcomeIs ==
    ASSUME TypeOK, NEW t \in Task
    PROVE  /\ OutcomeAt(t) \in TerminalStates
           /\ OutcomeAt(t) = "SUCCEEDED" <=> OutcomeEvent(OutcomeAt(t)) = "task.completed"
           /\ OutcomeAt(t) = "FAILED" <=> OutcomeEvent(OutcomeAt(t)) = "task.failed"
           /\ OutcomeAt(t) = "CANCELLED" => OutcomeEvent(OutcomeAt(t)) = "task.cancelled"
           /\ OutcomeAt(t) = "SUCCEEDED" => watcher[t].copy.exit_code = "zero"
           /\ OutcomeAt(t) = "FAILED" => watcher[t].copy.exit_code = "nonzero"
           /\ OutcomeAt(t) = "LOST" => watcher[t].copy.exit_code = None
<1>1. watcher[t].copy.exit_code \in {"zero", "nonzero", None}
  BY WatcherFields, FieldFacts DEF TypeOK, ExitCode
<1>2. watcher[t].reconnected \in BOOLEAN
  BY WatcherFields DEF TypeOK
<1>3. /\ OutcomeAt(t) \in TerminalStates
      /\ OutcomeAt(t) = "SUCCEEDED" => watcher[t].copy.exit_code = "zero"
      /\ OutcomeAt(t) = "FAILED" => watcher[t].copy.exit_code = "nonzero"
      /\ OutcomeAt(t) = "LOST" => watcher[t].copy.exit_code = None
  BY <1>1, <1>2 DEF OutcomeAt, Outcome, TerminalStates, None
<1>4. /\ OutcomeAt(t) = "SUCCEEDED" <=> OutcomeEvent(OutcomeAt(t)) = "task.completed"
      /\ OutcomeAt(t) = "FAILED" <=> OutcomeEvent(OutcomeAt(t)) = "task.failed"
      /\ OutcomeAt(t) = "CANCELLED" => OutcomeEvent(OutcomeAt(t)) = "task.cancelled"
  BY <1>3 DEF OutcomeEvent, TerminalStates
<1> QED
  BY <1>3, <1>4

(* The watcher announces the outcome and keeps it in its copy.              *)
LEMMA WatchEmitEffect ==
    ASSUME TypeOK, NEW t \in Task, WatchEmit(t)
    PROVE  /\ Running /\ watcher[t].pc = "emit" /\ watcher'[t].pc = "upsert"
           /\ Reads(watcher'[t].copy, OutcomeAt(t), watcher[t].copy.backend_ref,
                    watcher[t].copy.exit_code)
           /\ announced'[t] = announced[t] \cup {OutcomeEvent(OutcomeAt(t))}
           /\ UNCHANGED <<runtime, tasks, task_handles, completion, tail, starter, canceller,
                          reconcile, launcher, child, status>>
<1> DEFINE r == WithState(watcher[t].copy, OutcomeAt(t))
<1>1. /\ watcher'[t] = Watch("upsert", watcher[t].reconnected, r)
      /\ announced'[t] = announced[t] \cup {OutcomeEvent(OutcomeAt(t))}
  BY DEF TypeOK, WatchEmit, Emit, OutcomeAt
<1>2. Reads(r, OutcomeAt(t), watcher[t].copy.backend_ref, watcher[t].copy.exit_code)
  BY WithReads
<1> HIDE DEF r
<1>3. watcher'[t].pc = "upsert" /\ watcher'[t].copy = r
  BY <1>1 DEF Watch
<1> QED
  BY <1>1, <1>2, <1>3 DEF WatchEmit

(* The watcher stores its copy, whatever was stored since it read it.       *)
LEMMA WatchUpsertEffect ==
    ASSUME TypeOK, NEW t \in Task, WatchUpsert(t)
    PROVE  /\ Running /\ watcher[t].pc = "upsert" /\ watcher'[t].pc \in {"none", "pop"}
           /\ tasks'[t] = watcher[t].copy
           /\ UNCHANGED <<runtime, task_handles, completion, tail, starter, canceller,
                          reconcile, launcher, child, status, announced>>
  BY FixedWatchers DEF TypeOK, WatchUpsert, Upsert

(* The watcher unregisters the handle.                                      *)
LEMMA WatchPopEffect ==
    ASSUME TypeOK, NEW t \in Task, WatchPop(t)
    PROVE  /\ Running /\ watcher[t].pc = "pop" /\ watcher'[t].pc = "none" /\ t \notin task_handles'
           /\ UNCHANGED <<runtime, tasks, completion, tail, starter, canceller,
                          reconcile, launcher, child, status, announced>>
  BY FixedWatchers DEF TypeOK, WatchPop

(* The recovery.                                                           *)
LEMMA ReconcileFinishedEffect ==
    ASSUME TypeOK, NEW t \in Task, ReconcileFinished(t)
    PROVE  /\ runtime = "booting" /\ reconcile[t] = "todo" /\ reconcile'[t] = "done"
           /\ tasks[t].backend_ref /\ status[t] # None
           /\ Reads(tasks'[t], IF status[t] = "zero" THEN "SUCCEEDED" ELSE "FAILED",
                    tasks[t].backend_ref, status[t])
           /\ announced'[t] = announced[t] \cup {"task.recovered"}
           /\ UNCHANGED <<runtime, task_handles, completion, tail, starter, watcher, canceller,
                          launcher, child, status>>
<1>1. tasks'[t] = Record(IF status[t] = "zero" THEN "SUCCEEDED" ELSE "FAILED",
                         tasks[t].backend_ref, status[t])
  BY DEF TypeOK, ReconcileFinished, Upsert
<1> QED
  BY <1>1, RecordReads DEF TypeOK, ReconcileFinished, Reconciled, Emit

(* The recovery finds the launcher alive and watches the task again.        *)
LEMMA ReconcileAliveEffect ==
    ASSUME TypeOK, NEW t \in Task, ReconcileAlive(t)
    PROVE  /\ runtime = "booting" /\ reconcile[t] = "probe" /\ reconcile'[t] = "done"
           /\ Reads(tasks'[t], "RUNNING", tasks[t].backend_ref, tasks[t].exit_code)
           /\ completion'[t] = "pending" /\ tail'[t] = "poll" /\ watcher'[t].pc = "wait"
           /\ UNCHANGED <<runtime, task_handles, starter, canceller, launcher, child, status,
                          announced>>
<1>1. tasks'[t] = WithState(tasks[t], "RUNNING") /\ watcher'[t] = ReconnectedWatcher
  BY DEF TypeOK, ReconcileAlive, Upsert
<1> QED
  BY <1>1, WithReads, FixedWatchers DEF TypeOK, ReconcileAlive, Reconciled

(* The recovery gives the task up: without a backend reference, after a     *)
(* probe, or because a connection failed.                                   *)
LEMMA ReconcileLostEffect ==
    ASSUME TypeOK, NEW t \in Task, ReconcileLost(t)
    PROVE  /\ runtime = "booting" /\ reconcile[t] # "done" /\ reconcile'[t] = "done"
           /\ \/ reconcile[t] = "probe" \/ ~tasks[t].backend_ref
              \/ NetFaults /\ t \in SshDetached
           /\ Reads(tasks'[t], "LOST", tasks[t].backend_ref, tasks[t].exit_code)
           /\ announced'[t] = announced[t] \cup {"task.lost"}
           /\ UNCHANGED <<runtime, task_handles, completion, tail, starter, watcher, canceller,
                          launcher, child, status>>
<1>1. tasks'[t] = WithState(tasks[t], "LOST")
  BY DEF TypeOK, ReconcileLost, Upsert
<1> QED
  BY <1>1, WithReads DEF TypeOK, ReconcileLost, Reconciled, Emit

(* The cancel calls: the call of c goes on to pc with that copy, and no    *)
(* other call moves.                                                       *)
CallIs(c, pc, t, copy) ==
    /\ canceller'[c].pc = pc /\ canceller'[c].task = t /\ canceller'[c].copy = copy
    /\ \A d \in Caller \ {c} : canceller'[d] = canceller[d]
(* What a step of a call changes in it.                                    *)
LEMMA CallReads ==
    ASSUME TypeOK, NEW c \in Caller, NEW pc, NEW t, NEW r,
           canceller' = [canceller EXCEPT ![c] = Call(pc, t, r)]
    PROVE  CallIs(c, pc, t, r)
  BY DEF TypeOK, CallIs, Call

(* A call that returns.                                                     *)
LEMMA CallEnds ==
    ASSUME TypeOK, NEW c \in Caller, NEW t, canceller' = [canceller EXCEPT ![c] = Idle(t)]
    PROVE  CallIs(c, "idle", t, AbsentRecord)
  BY CallReads DEF Idle

(* cancel reads the record.                                                 *)
LEMMA CancelGetEffect ==
    ASSUME TypeOK, NEW c \in Caller, NEW t \in Task, CancelGet(c, t)
    PROVE  /\ runtime = "up" /\ canceller[c].pc = "idle" /\ tasks[t].state # "ABSENT"
           /\ t \in EarlyCancel \/ starter[t] = "over"
           /\ CallIs(c, "check", t, tasks[t])
           /\ UNCHANGED <<runtime, tasks, task_handles, completion, tail, starter, watcher,
                          reconcile, launcher, child, status, announced>>
  BY CallReads DEF CancelGet

(* cancel looks for the handle.                                             *)
LEMMA CancelCheckEffect ==
    ASSUME TypeOK, NEW c \in Caller, CancelCheck(c), NEW t \in Task, t = canceller[c].task
    PROVE  /\ Serving /\ canceller[c].pc = "check"
           /\ \/ t \in task_handles /\ CallIs(c, "mark", t, canceller[c].copy)
              \/ t \notin task_handles /\ CallIs(c, "idle", t, AbsentRecord)
           /\ UNCHANGED <<runtime, tasks, task_handles, completion, tail, starter, watcher,
                          reconcile, launcher, child, status, announced>>
<1>1. \/ t \in task_handles /\ canceller' = [canceller EXCEPT ![c] = Call("mark", t, canceller[c].copy)]
      \/ t \notin task_handles /\ canceller' = [canceller EXCEPT ![c] = Idle(t)]
  BY DEF CancelCheck
<1> QED
  BY <1>1, CallReads, CallEnds DEF CancelCheck, Cancelling

(* cancel writes CANCELLING into its copy and stores the copy.              *)
LEMMA CancelMarkEffect ==
    ASSUME TypeOK, NEW c \in Caller, CancelMark(c), NEW t \in Task, t = canceller[c].task
    PROVE  /\ Serving /\ canceller[c].pc = "mark"
           /\ Reads(tasks'[t], "CANCELLING", canceller[c].copy.backend_ref,
                    canceller[c].copy.exit_code)
           /\ CallIs(c, "signal", t, tasks'[t])
           /\ UNCHANGED <<runtime, task_handles, completion, tail, starter, watcher,
                          reconcile, launcher, child, status, announced>>
<1> DEFINE r == WithState(canceller[c].copy, "CANCELLING")
<1>1. tasks'[t] = r /\ canceller' = [canceller EXCEPT ![c] = Call("signal", t, r)]
  BY DEF CancelMark, Upsert, TypeOK
<1>2. Reads(r, "CANCELLING", canceller[c].copy.backend_ref, canceller[c].copy.exit_code)
  BY WithReads
<1> HIDE DEF r
<1> QED
  BY <1>1, <1>2, CallReads DEF CancelMark, Cancelling

(* cancel sends SIGTERM, unless the connection fails.                       *)
LEMMA CancelSignalEffect ==
    ASSUME TypeOK, NEW c \in Caller, CancelSignal(c), NEW t \in Task, t = canceller[c].task
    PROVE  /\ Serving /\ canceller[c].pc = "signal"
           /\ \/ CallIs(c, "await", t, canceller[c].copy)
              \/ NetFaults /\ t \in SshDetached /\ CallIs(c, "idle", t, AbsentRecord)
           /\ launcher'[t] = launcher[t] \/ launcher'[t] \in Terminated(t)
           /\ UNCHANGED <<runtime, tasks, task_handles, completion, tail, starter, watcher,
                          reconcile, child, status, announced>>
<1>1. \/ canceller' = [canceller EXCEPT ![c] = Call("await", t, canceller[c].copy)]
      \/ NetFaults /\ t \in SshDetached /\ canceller' = [canceller EXCEPT ![c] = Idle(t)]
  BY DEF CancelSignal
<1>2. launcher'[t] = launcher[t] \/ launcher'[t] \in Terminated(t)
  BY DEF CancelSignal, TypeOK
<1> QED
  BY <1>1, <1>2, CallReads, CallEnds DEF CancelSignal, Cancelling

(* The process ended in time.                                               *)
LEMMA CancelDoneEffect ==
    ASSUME TypeOK, NEW c \in Caller, CancelDone(c), NEW t \in Task, t = canceller[c].task
    PROVE  /\ Serving /\ canceller[c].pc = "await" /\ completion[t] \in Resolved
           /\ CallIs(c, "finish", t, canceller[c].copy) /\ t \notin task_handles'
           /\ UNCHANGED <<runtime, tasks, completion, tail, starter, watcher,
                          reconcile, launcher, child, status, announced>>
  BY CallReads DEF CancelDone, Cancelling

(* It did not: the future is cancelled with the watcher that waits for it,  *)
(* and the launcher is killed.                                              *)
LEMMA CancelKillEffect ==
    ASSUME TypeOK, NEW c \in Caller, CancelKill(c), NEW t \in Task, t = canceller[c].task
    PROVE  /\ Serving /\ canceller[c].pc = "await" /\ t \in Detached
           /\ completion[t] = "pending" /\ completion'[t] = "cancelled"
           /\ launcher'[t] \in {launcher[t], Killed(t)}
           /\ ~(NetFaults /\ t \in SshDetached) => launcher'[t] = Killed(t)
           /\ watcher'[t].pc = IF watcher[t].pc = "wait" THEN "none" ELSE watcher[t].pc
           /\ watcher[t].pc # "wait" => watcher'[t] = watcher[t]
           /\ \/ /\ tail[t] = "died" /\ CallIs(c, "idle", t, AbsentRecord)
                 /\ UNCHANGED <<task_handles, tail>>
              \/ /\ CallIs(c, "finish", t, canceller[c].copy)
                 /\ t \notin task_handles' /\ tail'[t] = "off"
           /\ UNCHANGED <<runtime, tasks, starter, reconcile, child, status, announced>>
<1>1. \/ /\ tail[t] = "died" /\ canceller' = [canceller EXCEPT ![c] = Idle(t)]
         /\ UNCHANGED <<task_handles, tail>>
      \/ /\ canceller' = [canceller EXCEPT ![c] = Call("finish", t, canceller[c].copy)]
         /\ t \notin task_handles' /\ tail'[t] = "off"
  BY DEF CancelKill, CloseRaises, TypeOK
<1>2. /\ launcher'[t] \in {launcher[t], Killed(t)}
      /\ ~(NetFaults /\ t \in SshDetached) => launcher'[t] = Killed(t)
      /\ completion[t] = "pending" /\ completion'[t] = "cancelled"
      /\ watcher'[t] = IF watcher[t].pc = "wait" THEN NoWatcher ELSE watcher[t]
  BY DEF CancelKill, TypeOK
<1>3. watcher'[t].pc = IF watcher[t].pc = "wait" THEN "none" ELSE watcher[t].pc
  BY <1>2, FixedWatchers
<1>4. \/ /\ tail[t] = "died" /\ CallIs(c, "idle", t, AbsentRecord)
         /\ UNCHANGED <<task_handles, tail>>
      \/ /\ CallIs(c, "finish", t, canceller[c].copy)
         /\ t \notin task_handles' /\ tail'[t] = "off"
  BY <1>1, CallReads, CallEnds
<1> QED
  BY <1>2, <1>3, <1>4 DEF CancelKill, Cancelling

(* The call ends with an exception and leaves the record.                   *)
LEMMA CancelRaisesEffect ==
    ASSUME TypeOK, NEW c \in Caller, CancelRaises(c), NEW t \in Task, t = canceller[c].task
    PROVE  /\ Serving /\ canceller[c].pc = "await"
           /\ (t \in LocalProcess /\ completion[t] = "pending") \/ completion[t] = "cancelled"
           /\ CallIs(c, "idle", t, AbsentRecord)
           /\ UNCHANGED <<runtime, tasks, task_handles, completion, tail, starter, watcher,
                          reconcile, launcher, child, status, announced>>
  BY CallEnds DEF CancelRaises, Cancelling

(* cancel writes CANCELLED into its copy and stores the copy.               *)
LEMMA CancelFinishEffect ==
    ASSUME TypeOK, NEW c \in Caller, CancelFinish(c), NEW t \in Task, t = canceller[c].task
    PROVE  /\ Serving /\ canceller[c].pc = "finish"
           /\ Reads(tasks'[t], "CANCELLED", canceller[c].copy.backend_ref,
                    canceller[c].copy.exit_code)
           /\ CallIs(c, "idle", t, AbsentRecord)
           /\ announced'[t] = announced[t] \cup {"task.cancelled"}
           /\ UNCHANGED <<runtime, task_handles, completion, tail, starter, watcher,
                          reconcile, launcher, child, status>>
<1> DEFINE r == WithState(canceller[c].copy, "CANCELLED")
<1>1. tasks'[t] = r /\ canceller' = [canceller EXCEPT ![c] = Idle(t)]
  BY DEF CancelFinish, Upsert, TypeOK
<1>2. Reads(r, "CANCELLED", canceller[c].copy.backend_ref, canceller[c].copy.exit_code)
  BY WithReads
<1> HIDE DEF r
<1>3. announced'[t] = announced[t] \cup {"task.cancelled"}
  BY DEF CancelFinish, Emit, TypeOK
<1> QED
  BY <1>1, <1>2, <1>3, CallEnds DEF CancelFinish, Cancelling

(* The runtime ends and starts.                                            *)
LEMMA SystemEffect ==
    ASSUME TypeOK, SystemStep, NEW u \in Task
    PROVE  /\ UNCHANGED <<tasks, launcher, child, status, announced>>
           /\ \/ /\ Running /\ runtime' = "down"
                 /\ u \notin task_handles' /\ completion'[u] = "absent" /\ tail'[u] = "off"
                 /\ starter'[u] = IF starter[u] = "idle" THEN "idle" ELSE "over"
                 /\ watcher'[u].pc = "none" /\ reconcile'[u] = "done"
                 /\ \A c \in Caller : canceller'[c].pc = "idle"
              \/ /\ runtime = "up" /\ runtime' = "stopping"
                 /\ UNCHANGED <<memory>>
              \/ /\ runtime = "booting" /\ runtime' = "up" /\ \A t \in Task : reconcile[t] = "done"
                 /\ UNCHANGED <<memory>>
              \/ /\ runtime = "down" /\ runtime' = "booting"
                 /\ reconcile'[u] = IF tasks[u].state \in TaskRecoverableStates THEN "todo" ELSE "done"
                 /\ UNCHANGED <<task_handles, completion, tail, starter, watcher, canceller>>
<1>1. CASE Crash \/ ShutdownEnd
  <2>1. \A c \in Caller : canceller'[c].pc = "idle"
    BY <1>1, IdleFacts, CallFields DEF Crash, ShutdownEnd, Forget, TypeOK
  <2>2. watcher'[u].pc = "none"
    BY <1>1, FixedWatchers DEF Crash, ShutdownEnd, Forget, TypeOK
  <2> QED
    BY <1>1, <2>1, <2>2 DEF Crash, ShutdownEnd, Forget, Running, TypeOK
<1>2. CASE ShutdownBegin \/ BootDone \/ Boot
  BY <1>2 DEF ShutdownBegin, BootDone, Boot, TypeOK
<1> QED
  BY <1>1, <1>2 DEF SystemStep

-----------------------------------------------------------------------------
(* What a call is about and where it is, after a step of another call.     *)
LEMMA OtherCalls ==
    ASSUME NEW c \in Caller, NEW pc, NEW t, NEW r, CallIs(c, pc, t, r), NEW d \in Caller, NEW u
    PROVE  /\ d # c => (Calls(d, u)' <=> Calls(d, u)) /\ canceller'[d] = canceller[d]
           /\ d = c => /\ Calls(d, u)' <=> (t = u /\ pc # "idle")
                       /\ canceller'[d].pc = pc /\ canceller'[d].copy = r
  BY DEF CallIs, Calls
(* A call that keeps its copy or returns.                                  *)
LEMMA CallGoesOn ==
    ASSUME NEW c \in Caller, NEW pc, NEW t, t = canceller[c].task, canceller[c].pc # "idle",
           CallIs(c, pc, t, canceller[c].copy) \/ CallIs(c, "idle", t, AbsentRecord),
           NEW d \in Caller, NEW u
    PROVE  Calls(d, u)' => Calls(d, u) /\ canceller'[d].copy = canceller[d].copy
  BY DEF CallIs, Calls

(* When no call moves, every call is about what it was about.               *)
LEMMA SameCalls ==
    ASSUME UNCHANGED canceller, NEW d \in Caller, NEW u
    PROVE  (Calls(d, u)' <=> Calls(d, u)) /\ canceller'[d] = canceller[d]
  BY DEF Calls

(* A task no call moved for has the calls it had.                           *)
LEMMA ElsewhereCalls ==
    ASSUME NEW u, Uncalled(u), NEW d \in Caller
    PROVE  (Calls(d, u)' <=> Calls(d, u)) /\ (Calls(d, u) => canceller'[d] = canceller[d])
  BY DEF Calls, Uncalled

(* A step that leaves a task alone keeps what the status file says of it.  *)
LEMMA StatusKept ==
    ASSUME NEW u, StatusAt(u), Still(u), Uncalled(u)
    PROVE  StatusAt(u)'
<1>1. \A d \in Caller : (Calls(d, u)' <=> Calls(d, u)) /\ (Calls(d, u) => canceller'[d] = canceller[d])
  BY ElsewhereCalls
<1> QED
  BY <1>1 DEF StatusAt, RecordIsStatus, Still

(* The conjuncts of StatusAt after a step, from the fields of the records. *)
LEMMA StatusFrom ==
    ASSUME NEW u, StatusAt(u),
           UNCHANGED <<canceller, status, launcher>>,
           /\ tasks'[u].exit_code # None => status[u] = tasks'[u].exit_code
           /\ tasks'[u].state = "SUCCEEDED" => status[u] = "zero"
           /\ tasks'[u].state = "FAILED" => status[u] = "nonzero",
           watcher'[u].pc \in {"emit", "upsert"} =>
             /\ watcher'[u].copy.exit_code # None => status[u] = watcher'[u].copy.exit_code
             /\ watcher'[u].copy.state = "SUCCEEDED" => status[u] = "zero"
             /\ watcher'[u].copy.state = "FAILED" => status[u] = "nonzero",
           completion'[u] \in ExitCode => status[u] = completion'[u],
           starter'[u] \in {"idle", "preparing"} => launcher[u] = "absent"
    PROVE  StatusAt(u)'
<1>1. \A d \in Caller : (Calls(d, u)' <=> Calls(d, u)) /\ canceller'[d] = canceller[d]
  BY SameCalls
<1> QED
  BY <1>1 DEF StatusAt, RecordIsStatus

(* A coroutine keeps it for its own task: the watcher takes the exit code  *)
(* from a future that the status file resolved, and the recovery from the  *)
(* file itself.                                                            *)
LEMMA StatusServed ==
    ASSUME TypeOK, NEW t \in Detached, StatusAt(t), ServiceStep(t)
    PROVE  StatusAt(t)'
<1> USE BackendAssumption DEF Detached
<1>1. CASE StartPrepare(t)
  <2>1. /\ Reads(tasks'[t], "PREPARING", FALSE, None) /\ starter[t] = "idle"
        /\ UNCHANGED <<completion, watcher, canceller, launcher, status>>
    BY <1>1, StartPrepareEffect
  <2> QED
    BY <2>1, StatusFrom DEF Reads, StatusAt, RecordIsStatus
<1>2. CASE StartRejected(t)
  <2>1. /\ UNCHANGED <<tasks, watcher, canceller, status, completion>>
        /\ starter[t] = "preparing" /\ starter'[t] = "over"
    BY <1>2 DEF StartRejected, TypeOK
  <2>2. status[t] = None
    BY <2>1 DEF StatusAt
  <2>3. \A d \in Caller : (Calls(d, t)' <=> Calls(d, t)) /\ canceller'[d] = canceller[d]
    BY <2>1, SameCalls
  <2> QED
    BY <2>1, <2>2, <2>3 DEF StatusAt, RecordIsStatus
<1>3. CASE StartSpawn(t)
  <2>1. /\ UNCHANGED <<tasks, watcher, canceller, status>>
        /\ starter[t] = "preparing" /\ starter'[t] = "spawned" /\ completion'[t] = "pending"
    BY <1>3 DEF StartSpawn, TypeOK
  <2>2. status[t] = None
    BY <2>1 DEF StatusAt
  <2>3. \A d \in Caller : (Calls(d, t)' <=> Calls(d, t)) /\ canceller'[d] = canceller[d]
    BY <2>1, SameCalls
  <2> QED
    BY <2>1, <2>2, <2>3 DEF StatusAt, RecordIsStatus, ExitCode
<1>4. CASE StartRecord(t)
  <2>1. /\ Reads(tasks'[t], "RUNNING", t \in Detached, None) /\ starter'[t] = "recorded"
        /\ UNCHANGED <<completion, watcher, canceller, launcher, status>>
    BY <1>4, StartRecordEffect
  <2> QED
    BY <2>1, StatusFrom DEF Reads, StatusAt, RecordIsStatus
<1>5. CASE StartWatch(t)
  <2>1. /\ watcher'[t].pc \in {"wait", "none"} /\ starter'[t] = "over"
        /\ UNCHANGED <<tasks, completion, canceller, launcher, status>>
    BY <1>5, StartWatchEffect
  <2> QED
    BY <2>1, StatusFrom DEF StatusAt, RecordIsStatus
<1>6. CASE WatchGet(t)
  <2>1. /\ Reads(watcher'[t].copy, tasks[t].state, tasks[t].backend_ref, completion[t])
        /\ completion[t] \in Resolved
        /\ UNCHANGED <<tasks, completion, starter, canceller, launcher, status>>
    BY <1>6, WatchGetEffect
  <2> QED
    BY <2>1, StatusFrom DEF Reads, StatusAt, RecordIsStatus, Resolved
<1>7. CASE WatchEmit(t)
  <2>1. /\ watcher[t].pc = "emit"
        /\ Reads(watcher'[t].copy, OutcomeAt(t), watcher[t].copy.backend_ref,
                 watcher[t].copy.exit_code)
        /\ UNCHANGED <<tasks, completion, starter, canceller, launcher, status>>
    BY <1>7, WatchEmitEffect
  <2>2. /\ OutcomeAt(t) = "SUCCEEDED" => watcher[t].copy.exit_code = "zero"
        /\ OutcomeAt(t) = "FAILED" => watcher[t].copy.exit_code = "nonzero"
    BY OutcomeIs
  <2> QED
    BY <2>1, <2>2, StatusFrom DEF Reads, StatusAt, RecordIsStatus, None
<1>8. CASE WatchUpsert(t)
  <2>1. /\ watcher[t].pc = "upsert" /\ watcher'[t].pc \in {"none", "pop"}
        /\ tasks'[t] = watcher[t].copy
        /\ UNCHANGED <<completion, starter, canceller, launcher, status>>
    BY <1>8, WatchUpsertEffect
  <2> QED
    BY <2>1, StatusFrom DEF StatusAt, RecordIsStatus
<1>9. CASE WatchPop(t)
  <2>1. /\ watcher'[t].pc = "none"
        /\ UNCHANGED <<tasks, completion, starter, canceller, launcher, status>>
    BY <1>9, WatchPopEffect
  <2> QED
    BY <2>1, StatusFrom DEF StatusAt, RecordIsStatus
<1>10. CASE TailStep(t) \/ ShutdownDetach(t)
  <2>1. /\ completion'[t] \in {completion[t], None} \/ completion'[t] = status[t]
        /\ UNCHANGED <<tasks, watcher, starter, canceller, launcher, status>>
    BY <1>10 DEF TailStep, TailStatus, TailProbe, TailRaises, ShutdownDetach, TypeOK
  <2> QED
    BY <2>1, StatusFrom DEF StatusAt, RecordIsStatus, ExitCode, None
<1>11. CASE ProcessExits(t)
  BY <1>11 DEF ProcessExits, LocalProcess
<1>12. CASE ReconcileFinished(t)
  <2>1. /\ Reads(tasks'[t], IF status[t] = "zero" THEN "SUCCEEDED" ELSE "FAILED",
                 tasks[t].backend_ref, status[t])
        /\ status[t] # None
        /\ UNCHANGED <<completion, starter, watcher, canceller, launcher, status>>
    BY <1>12, ReconcileFinishedEffect
  <2>2. status[t] \in {"zero", "nonzero"}
    BY <2>1 DEF TypeOK, ExitCode
  <2> QED
    BY <2>1, <2>2, StatusFrom DEF Reads, StatusAt, RecordIsStatus
<1>13. CASE ReconcileNoStatus(t)
  <2>1. UNCHANGED <<tasks, completion, starter, watcher, canceller, launcher, status>>
    BY <1>13 DEF ReconcileNoStatus
  <2> QED
    BY <2>1, StatusFrom DEF StatusAt, RecordIsStatus
<1>14. CASE ReconcileAlive(t)
  <2>1. /\ Reads(tasks'[t], "RUNNING", tasks[t].backend_ref, tasks[t].exit_code)
        /\ completion'[t] = "pending" /\ watcher'[t].pc = "wait"
        /\ UNCHANGED <<starter, canceller, launcher, status>>
    BY <1>14, ReconcileAliveEffect
  <2> QED
    BY <2>1, StatusFrom DEF Reads, StatusAt, RecordIsStatus, ExitCode
<1>15. CASE ReconcileLost(t)
  <2>1. /\ Reads(tasks'[t], "LOST", tasks[t].backend_ref, tasks[t].exit_code)
        /\ UNCHANGED <<completion, starter, watcher, canceller, launcher, status>>
    BY <1>15, ReconcileLostEffect
  <2> QED
    BY <2>1, StatusFrom DEF Reads, StatusAt, RecordIsStatus
<1> QED
  BY <1>1, <1>2, <1>3, <1>4, <1>5, <1>6, <1>7, <1>8, <1>9, <1>10, <1>11, <1>12, <1>13, <1>14,
     <1>15 DEF ServiceStep, StartStep, WatchStep, ReconcileStep

(* So do the launcher and the command: the status file appears when there  *)
(* was none, so that no record can disagree.                               *)
LEMMA StatusInWorld ==
    ASSUME TypeOK, NEW t \in Detached, StatusAt(t), WorldStep(t)
    PROVE  StatusAt(t)'
<1> USE BackendAssumption DEF Detached
<1>1. /\ UNCHANGED <<tasks, completion, starter, watcher, canceller>>
      /\ launcher[t] = "absent" => launcher'[t] = "absent"
      /\ launcher[t] = "gone" => launcher'[t] = "gone"
      /\ \/ status'[t] = status[t]
         \/ launcher[t] # "gone" /\ launcher'[t] = "gone"
  BY DEF TypeOK, WorldStep, LauncherLives, LauncherForks, LauncherTraps,
         LauncherWrites, LauncherDies, ChildExits, LauncherStep, OnlyWorld
<1>2. \A d \in Caller : (Calls(d, t)' <=> Calls(d, t)) /\ canceller'[d] = canceller[d]
  BY <1>1, SameCalls
<1>3. status'[t] = status[t] \/ (status[t] = None /\ launcher'[t] = "gone")
  BY <1>1 DEF StatusAt
<1>4. "zero" # None /\ "nonzero" # None /\ None \notin ExitCode
  BY DEF None, ExitCode
<1> QED
  BY <1>1, <1>2, <1>3, <1>4 DEF StatusAt, RecordIsStatus

(* And a call: what it writes is the copy it read.                         *)
LEMMA StatusCalled ==
    ASSUME TypeOK, NEW c \in Caller, CancelStep(c), NEW t \in Detached, t = canceller[c].task,
           StatusAt(t)
    PROVE  StatusAt(t)'
<1> USE BackendAssumption DEF Detached
<1>0. /\ Terminated(t) \subseteq {"absent", "starting", "forked", "waiting", "interrupted", "gone"}
      /\ launcher[t] = "gone" => Terminated(t) = {"gone"}
      /\ launcher[t] = "absent" => Terminated(t) = {"absent"}
  BY TerminatedFacts
<1>1. CASE CancelCheck(c)
  <2>1. PICK pc : CallIs(c, pc, t, canceller[c].copy) \/ CallIs(c, "idle", t, AbsentRecord)
    BY <1>1, CancelCheckEffect
  <2>2. /\ UNCHANGED <<tasks, completion, starter, watcher, launcher, status>>
        /\ canceller[c].pc = "check"
    BY <1>1, CancelCheckEffect
  <2>3. \A d \in Caller : Calls(d, t)' => Calls(d, t) /\ canceller'[d].copy = canceller[d].copy
    BY <2>1, <2>2, CallGoesOn
  <2> QED
    BY <2>2, <2>3 DEF StatusAt, RecordIsStatus
<1>2. CASE CancelMark(c)
  <2>1. /\ Reads(tasks'[t], "CANCELLING", canceller[c].copy.backend_ref, canceller[c].copy.exit_code)
        /\ CallIs(c, "signal", t, tasks'[t]) /\ canceller[c].pc = "mark"
        /\ UNCHANGED <<completion, starter, watcher, launcher, status>>
    BY <1>2, CancelMarkEffect
  <2>2. Calls(c, t)
    BY <2>1 DEF Calls
  <2>3. \A d \in Caller : Calls(d, t)' => \/ Calls(d, t) /\ canceller'[d].copy = canceller[d].copy
                                          \/ canceller'[d].copy = tasks'[t]
    BY <2>1, OtherCalls
  <2> QED
    BY <2>1, <2>2, <2>3 DEF StatusAt, RecordIsStatus, Reads
<1>3. CASE CancelSignal(c)
  <2>1. CallIs(c, "await", t, canceller[c].copy) \/ CallIs(c, "idle", t, AbsentRecord)
    BY <1>3, CancelSignalEffect
  <2>2. /\ UNCHANGED <<tasks, completion, starter, watcher, status>>
        /\ canceller[c].pc = "signal"
        /\ launcher'[t] = launcher[t] \/ launcher'[t] \in Terminated(t)
    BY <1>3, CancelSignalEffect
  <2>3. \A d \in Caller : Calls(d, t)' => Calls(d, t) /\ canceller'[d].copy = canceller[d].copy
    BY <2>1, <2>2, CallGoesOn
  <2> QED
    BY <1>0, <2>2, <2>3 DEF StatusAt, RecordIsStatus
<1>4. CASE CancelDone(c)
  <2>1. /\ CallIs(c, "finish", t, canceller[c].copy)
        /\ UNCHANGED <<tasks, completion, starter, watcher, launcher, status>>
        /\ canceller[c].pc = "await"
    BY <1>4, CancelDoneEffect
  <2>3. \A d \in Caller : Calls(d, t)' => Calls(d, t) /\ canceller'[d].copy = canceller[d].copy
    BY <2>1, OtherCalls DEF Calls
  <2> QED
    BY <2>1, <2>3 DEF StatusAt, RecordIsStatus
<1>5. CASE CancelKill(c)
  <2>1. CallIs(c, "finish", t, canceller[c].copy) \/ CallIs(c, "idle", t, AbsentRecord)
    BY <1>5, CancelKillEffect
  <2>2. /\ UNCHANGED <<tasks, starter, status>>
        /\ canceller[c].pc = "await" /\ completion'[t] = "cancelled"
        /\ launcher'[t] \in {launcher[t], Killed(t)}
        /\ watcher[t].pc # "wait" => watcher'[t] = watcher[t]
        /\ watcher[t].pc = "wait" => watcher'[t].pc = "none"
    BY <1>5, CancelKillEffect
  <2>3. \A d \in Caller : Calls(d, t)' => Calls(d, t) /\ canceller'[d].copy = canceller[d].copy
    BY <2>1, <2>2, CallGoesOn
  <2>4. /\ launcher[t] = "gone" => launcher'[t] = "gone"
        /\ launcher[t] = "absent" => launcher'[t] = "absent"
    BY <2>2 DEF Killed
  <2>5. "cancelled" \notin ExitCode
    BY DEF ExitCode
  <2> QED
    BY <2>2, <2>3, <2>4, <2>5 DEF StatusAt, RecordIsStatus
<1>6. CASE CancelRaises(c)
  <2>1. /\ CallIs(c, "idle", t, AbsentRecord)
        /\ UNCHANGED <<tasks, completion, starter, watcher, launcher, status>>
    BY <1>6, CancelRaisesEffect
  <2>3. \A d \in Caller : Calls(d, t)' => Calls(d, t) /\ canceller'[d].copy = canceller[d].copy
    BY <2>1, OtherCalls
  <2> QED
    BY <2>1, <2>3 DEF StatusAt, RecordIsStatus
<1>7. CASE CancelFinish(c)
  <2>1. /\ Reads(tasks'[t], "CANCELLED", canceller[c].copy.backend_ref, canceller[c].copy.exit_code)
        /\ CallIs(c, "idle", t, AbsentRecord) /\ canceller[c].pc = "finish"
        /\ UNCHANGED <<completion, starter, watcher, launcher, status>>
    BY <1>7, CancelFinishEffect
  <2>2. Calls(c, t)
    BY <2>1 DEF Calls
  <2>3. \A d \in Caller : Calls(d, t)' => Calls(d, t) /\ canceller'[d].copy = canceller[d].copy
    BY <2>1, OtherCalls
  <2> QED
    BY <2>1, <2>2, <2>3 DEF StatusAt, RecordIsStatus, Reads
<1> QED
  BY <1>1, <1>2, <1>3, <1>4, <1>5, <1>6, <1>7 DEF CancelStep

(* The rest of a step keeps it too.                                        *)
LEMMA StatusAnswered ==
    ASSUME TypeOK, NEW c \in Caller, NEW s \in Task, CancelGet(c, s), NEW t \in Detached, StatusAt(t)
    PROVE  StatusAt(t)'
<1>1. /\ CallIs(c, "check", s, tasks[s])
      /\ UNCHANGED <<tasks, completion, starter, watcher, launcher, status>>
  BY CancelGetEffect
<1>2. \A d \in Caller : Calls(d, t)' => \/ Calls(d, t) /\ canceller'[d].copy = canceller[d].copy
                                        \/ canceller'[d].copy = tasks[t]
  BY <1>1, OtherCalls
<1> QED
  BY <1>1, <1>2 DEF StatusAt, RecordIsStatus

(* The end and the start of the runtime keep StatusAt: they leave the table *)
(* and the file alone.                                                      *)
LEMMA StatusRestarted ==
    ASSUME TypeOK, SystemStep, NEW t \in Detached, StatusAt(t)
    PROVE  StatusAt(t)'
<1> USE BackendAssumption DEF Detached
<1>0. t \in Task /\ "absent" \notin ExitCode
  BY DEF ExitCode
<1>1. UNCHANGED <<tasks, launcher, status>>
  BY <1>0, SystemEffect
<1>2. \/ /\ completion'[t] = "absent" /\ watcher'[t].pc = "none"
         /\ starter'[t] = IF starter[t] = "idle" THEN "idle" ELSE "over"
         /\ \A c \in Caller : canceller'[c].pc = "idle"
      \/ UNCHANGED <<completion, starter, watcher, canceller>>
  BY <1>0, SystemEffect
<1>3. CASE UNCHANGED <<completion, starter, watcher, canceller>>
  BY <1>1, <1>3, StatusFrom DEF StatusAt, RecordIsStatus
<1>4. CASE ~UNCHANGED <<completion, starter, watcher, canceller>>
  <2>1. \A d \in Caller : ~Calls(d, t)'
    BY <1>2, <1>4 DEF Calls
  <2> QED
    BY <1>0, <1>1, <1>2, <1>4, <2>1 DEF StatusAt, RecordIsStatus
<1> QED
  BY <1>3, <1>4

(* So every step keeps StatusAt for every detached task.                    *)
LEMMA StatusStep ==
    ASSUME TypeOK, StatusInv, [Next]_vars, NEW u \in Detached
    PROVE  StatusAt(u)'
<1> USE BackendAssumption DEF Detached
<1>0. u \in Task /\ StatusAt(u)
  BY DEF StatusInv
<1>1. ASSUME NEW t \in Task, ServiceStep(t) PROVE StatusAt(u)'
  <2>1. CASE u = t
    BY <1>0, <1>1, <2>1, StatusServed
  <2>2. CASE u # t
    BY <1>0, <1>1, <2>2, ServiceElsewhere, StatusKept
  <2> QED
    BY <2>1, <2>2
<1>2. ASSUME NEW t \in Task, WorldStep(t) PROVE StatusAt(u)'
  <2>1. CASE u = t
    BY <1>0, <1>2, <2>1, StatusInWorld
  <2>2. CASE u # t
    BY <1>0, <1>2, <2>2, WorldElsewhere, StatusKept
  <2> QED
    BY <2>1, <2>2
<1>3. ASSUME NEW c \in Caller, CancelStep(c) PROVE StatusAt(u)'
  <2>1. CASE u = canceller[c].task
    BY <1>0, <1>3, <2>1, StatusCalled
  <2>2. CASE u # canceller[c].task
    BY <1>0, <1>3, <2>2, CallElsewhere, StatusKept
  <2> QED
    BY <2>1, <2>2
<1>4. ASSUME NEW c \in Caller, NEW t \in Task, CancelGet(c, t) PROVE StatusAt(u)'
  BY <1>0, <1>4, StatusAnswered
<1>5. CASE SystemStep
  BY <1>0, <1>5, StatusRestarted
<1>6. CASE UNCHANGED vars
  BY <1>0, <1>6 DEF vars, StatusAt, RecordIsStatus, Calls
<1> QED
  BY <1>1, <1>2, <1>3, <1>4, <1>5, <1>6, StepsAre

(* The inductive invariant of OutcomeIsStatus holds in every behaviour.     *)
LEMMA StatusInvariant == Spec => []StatusInv
<1>1. Init => StatusInv
  <2> SUFFICES ASSUME Init, NEW u \in Detached PROVE StatusAt(u)
    BY DEF StatusInv
  <2> USE BackendAssumption DEF Detached
  <2>1. /\ tasks[u] = AbsentRecord /\ watcher[u] = NoWatcher /\ completion[u] = "absent"
        /\ status[u] = None /\ launcher[u] = "absent"
    BY DEF Init
  <2>2. \A c \in Caller : ~Calls(c, u)
    BY IdleFacts DEF Init, Calls
  <2>3. watcher[u].pc = "none" /\ tasks[u].state = "ABSENT" /\ tasks[u].exit_code = None
    BY <2>1, AbsentFacts, FixedWatchers
  <2> QED
    BY <2>1, <2>2, <2>3 DEF StatusAt, RecordIsStatus, ExitCode
<1>2. TypeOK /\ StatusInv /\ [Next]_vars => StatusInv'
  <2> SUFFICES ASSUME TypeOK, StatusInv, [Next]_vars PROVE \A u \in Detached : StatusAt(u)'
    BY DEF StatusInv
  <2> QED
    BY StatusStep
<1> QED
  BY <1>1, <1>2, TypeCorrect, PTL DEF Spec

(* The outcomes of detached tasks are what their status files say, in      *)
(* every behaviour: whichever of start, the watchers, an overlapping       *)
(* cancel with a stale copy or the recovery wrote last, with both          *)
(* launchers and with connections that fail.                               *)
THEOREM OutcomesComeFromStatus == Spec => []OutcomeIsStatus
<1>1. StatusInv => OutcomeIsStatus
  BY DEF StatusInv, StatusAt, RecordIsStatus, OutcomeIsStatus
<1> QED
  BY <1>1, StatusInvariant, PTL

-----------------------------------------------------------------------------
(* A step that leaves a local process alone keeps StoppedAt.               *)
LEMMA StoppedKept ==
    ASSUME NEW u, StoppedAt(u), Still(u), Uncalled(u)
    PROVE  StoppedAt(u)'
<1>1. \A d \in Caller : (Calls(d, u)' <=> Calls(d, u)) /\ (Calls(d, u) => canceller'[d] = canceller[d])
  BY ElsewhereCalls
<1> QED
  BY <1>1 DEF StoppedAt, Still

(* The conjuncts of StoppedAt after a step of a coroutine.                 *)
LEMMA StoppedFrom ==
    ASSUME NEW u, StoppedAt(u),
           UNCHANGED <<canceller, launcher, child>>,
           ~tasks'[u].backend_ref, tail'[u] = "off", reconcile'[u] # "probe",
           watcher'[u].pc \in {"emit", "upsert"} => ~watcher'[u].copy.backend_ref,
           \/ completion'[u] \in Resolved
           \/ watcher'[u].pc \in {"emit", "upsert"}
           \/ tasks'[u].state = "CANCELLED"
           => child[u] \in ExitCode,
           starter'[u] \in {"idle", "preparing"} => child[u] = "absent"
    PROVE  StoppedAt(u)'
<1>1. \A d \in Caller : (Calls(d, u)' <=> Calls(d, u)) /\ canceller'[d] = canceller[d]
  BY SameCalls
<1> QED
  BY <1>1 DEF StoppedAt

(* A coroutine keeps it for its own task.                                  *)
LEMMA StoppedServed ==
    ASSUME TypeOK, NEW t \in LocalProcess, StoppedAt(t), ServiceStep(t)
    PROVE  StoppedAt(t)'
<1> USE BackendAssumption
<1>0. t \in Task /\ t \notin Detached /\ t \notin SshDetached
  BY DEF LocalProcess, Detached
<1>1. CASE StartPrepare(t)
  <2>1. /\ Reads(tasks'[t], "PREPARING", FALSE, None) /\ starter[t] = "idle"
        /\ UNCHANGED <<completion, tail, watcher, canceller, reconcile, launcher, child>>
    BY <1>0, <1>1, StartPrepareEffect
  <2> QED
    BY <2>1, StoppedFrom DEF Reads, StoppedAt
<1>2. CASE StartRejected(t)
  <2>1. /\ UNCHANGED <<tasks, completion, tail, watcher, canceller, reconcile, launcher, child>>
        /\ starter'[t] = "over"
    BY <1>0, <1>2 DEF StartRejected, RemoteStartUnanswered, TypeOK
  <2> QED
    BY <2>1, StoppedFrom DEF StoppedAt
<1>3. CASE StartSpawn(t)
  <2>1. /\ UNCHANGED <<tasks, tail, watcher, canceller, reconcile, launcher>>
        /\ starter[t] = "preparing" /\ starter'[t] = "spawned" /\ completion'[t] = "pending"
    BY <1>0, <1>3 DEF StartSpawn, SpawnProcess, TypeOK
  <2>2. child[t] \notin ExitCode /\ "pending" \notin Resolved
    BY <2>1 DEF StoppedAt, ExitCode, Resolved, None
  <2>3. \A d \in Caller : (Calls(d, t)' <=> Calls(d, t)) /\ canceller'[d] = canceller[d]
    BY <2>1, SameCalls
  <2> QED
    BY <2>1, <2>2, <2>3 DEF StoppedAt
<1>4. CASE StartRecord(t)
  <2>1. /\ Reads(tasks'[t], "RUNNING", t \in Detached, None) /\ starter'[t] = "recorded"
        /\ UNCHANGED <<completion, tail, watcher, canceller, reconcile, launcher, child>>
    BY <1>0, <1>4, StartRecordEffect
  <2> QED
    BY <1>0, <2>1, StoppedFrom DEF Reads, StoppedAt
<1>5. CASE StartWatch(t)
  <2>1. /\ watcher'[t].pc \in {"wait", "none"} /\ starter'[t] = "over"
        /\ UNCHANGED <<tasks, completion, tail, canceller, reconcile, launcher, child>>
    BY <1>0, <1>5, StartWatchEffect
  <2> QED
    BY <2>1, StoppedFrom DEF StoppedAt
<1>6. CASE WatchGet(t)
  <2>1. /\ Reads(watcher'[t].copy, tasks[t].state, tasks[t].backend_ref, completion[t])
        /\ completion[t] \in Resolved /\ tail'[t] = "off"
        /\ UNCHANGED <<tasks, completion, starter, canceller, reconcile, launcher, child>>
    BY <1>0, <1>6, WatchGetEffect
  <2> QED
    BY <2>1, StoppedFrom DEF Reads, StoppedAt
<1>7. CASE WatchEmit(t)
  <2>1. /\ watcher[t].pc = "emit"
        /\ Reads(watcher'[t].copy, OutcomeAt(t), watcher[t].copy.backend_ref,
                 watcher[t].copy.exit_code)
        /\ UNCHANGED <<tasks, completion, tail, starter, canceller, reconcile, launcher, child>>
    BY <1>0, <1>7, WatchEmitEffect
  <2> QED
    BY <2>1, StoppedFrom DEF Reads, StoppedAt
<1>8. CASE WatchUpsert(t)
  <2>1. /\ watcher[t].pc = "upsert" /\ watcher'[t].pc \in {"none", "pop"}
        /\ tasks'[t] = watcher[t].copy
        /\ UNCHANGED <<completion, tail, starter, canceller, reconcile, launcher, child>>
    BY <1>0, <1>8, WatchUpsertEffect
  <2> QED
    BY <2>1, StoppedFrom DEF StoppedAt
<1>9. CASE WatchPop(t)
  <2>1. /\ watcher'[t].pc = "none"
        /\ UNCHANGED <<tasks, completion, tail, starter, canceller, reconcile, launcher, child>>
    BY <1>0, <1>9, WatchPopEffect
  <2> QED
    BY <2>1, StoppedFrom DEF StoppedAt
<1>10. CASE TailStep(t) \/ ShutdownDetach(t)
  <2>1. tail[t] # "off"
    BY <1>10 DEF TailStep, TailStatus, TailProbe, TailRaises, ShutdownDetach
  <2> QED
    BY <2>1 DEF StoppedAt
<1>11. CASE ProcessExits(t)
  <2>1. /\ child[t] \in ExitCode
        /\ UNCHANGED <<tasks, tail, starter, watcher, canceller, reconcile, launcher, child>>
    BY <1>0, <1>11 DEF ProcessExits
  <2> QED
    BY <2>1, StoppedFrom DEF StoppedAt
<1>12. CASE ReconcileFinished(t) \/ ReconcileNoStatus(t)
  <2>1. tasks[t].backend_ref
    BY <1>12 DEF ReconcileFinished, ReconcileNoStatus
  <2> QED
    BY <2>1 DEF StoppedAt
<1>13. CASE ReconcileAlive(t)
  BY <1>13 DEF ReconcileAlive, StoppedAt
<1>14. CASE ReconcileLost(t)
  <2>1. /\ Reads(tasks'[t], "LOST", tasks[t].backend_ref, tasks[t].exit_code)
        /\ reconcile'[t] = "done"
        /\ UNCHANGED <<completion, tail, starter, watcher, canceller, launcher, child>>
    BY <1>0, <1>14, ReconcileLostEffect
  <2> QED
    BY <2>1, StoppedFrom DEF Reads, StoppedAt
<1> QED
  BY <1>1, <1>2, <1>3, <1>4, <1>5, <1>6, <1>7, <1>8, <1>9, <1>10, <1>11, <1>12, <1>13, <1>14
     DEF ServiceStep, StartStep, WatchStep, ReconcileStep

(* So does the command: it exits once.                                     *)
LEMMA StoppedInWorld ==
    ASSUME TypeOK, NEW t \in LocalProcess, StoppedAt(t), WorldStep(t)
    PROVE  StoppedAt(t)'
<1>0. t \in Task /\ launcher[t] = "absent"
  BY DEF LocalProcess, StoppedAt
<1>1. /\ UNCHANGED <<tasks, completion, tail, starter, watcher, canceller, reconcile>>
      /\ launcher'[t] = "absent"
      /\ child[t] = "running" /\ child'[t] \in ExitCode
  BY <1>0 DEF TypeOK, WorldStep, LauncherLives, LauncherForks, LauncherTraps,
         LauncherWrites, LauncherDies, ChildExits, LauncherStep, OnlyWorld
<1>2. \A d \in Caller : (Calls(d, t)' <=> Calls(d, t)) /\ canceller'[d] = canceller[d]
  BY <1>1, SameCalls
<1> QED
  BY <1>1, <1>2 DEF StoppedAt

(* And a call: only a future that is resolved lets it reach its last step. *)
LEMMA StoppedCalled ==
    ASSUME TypeOK, NEW c \in Caller, CancelStep(c), NEW t \in LocalProcess,
           t = canceller[c].task, StoppedAt(t)
    PROVE  StoppedAt(t)'
<1> USE BackendAssumption
<1>0. t \in Task /\ t \notin Detached /\ Terminated(t) = {"absent"}
  BY TerminatedFacts DEF LocalProcess, StoppedAt
<1> USE <1>0
<1>1. CASE CancelCheck(c)
  <2>1. CallIs(c, "mark", t, canceller[c].copy) \/ CallIs(c, "idle", t, AbsentRecord)
    BY <1>1, CancelCheckEffect
  <2>2. /\ UNCHANGED <<tasks, completion, tail, starter, watcher, reconcile, launcher, child>>
        /\ canceller[c].pc = "check"
    BY <1>1, CancelCheckEffect
  <2>3. \A d \in Caller : Calls(d, t)' => Calls(d, t) /\ canceller'[d].copy = canceller[d].copy
    BY <2>1, <2>2, CallGoesOn
  <2>4. \A d \in Caller : canceller'[d].pc = "finish" => canceller'[d].pc = canceller[d].pc
    BY <2>1 DEF CallIs
  <2> QED
    BY <2>2, <2>3, <2>4 DEF StoppedAt
<1>2. CASE CancelMark(c)
  <2>1. /\ Reads(tasks'[t], "CANCELLING", canceller[c].copy.backend_ref, canceller[c].copy.exit_code)
        /\ CallIs(c, "signal", t, tasks'[t]) /\ canceller[c].pc = "mark"
        /\ UNCHANGED <<completion, tail, starter, watcher, reconcile, launcher, child>>
    BY <1>2, CancelMarkEffect
  <2>2. Calls(c, t)
    BY <2>1 DEF Calls
  <2>3. \A d \in Caller : Calls(d, t)' => \/ Calls(d, t) /\ canceller'[d] = canceller[d]
                                          \/ /\ canceller'[d].copy = tasks'[t]
                                             /\ canceller'[d].pc = "signal"
    BY <2>1, OtherCalls
  <2> QED
    BY <2>1, <2>2, <2>3 DEF StoppedAt, Reads
<1>3. CASE CancelSignal(c)
  <2>1. CallIs(c, "await", t, canceller[c].copy) \/ CallIs(c, "idle", t, AbsentRecord)
    BY <1>3, CancelSignalEffect
  <2>2. /\ UNCHANGED <<tasks, completion, tail, starter, watcher, reconcile, child>>
        /\ canceller[c].pc = "signal"
        /\ launcher'[t] = launcher[t] \/ launcher'[t] \in Terminated(t)
    BY <1>3, CancelSignalEffect
  <2>3. \A d \in Caller : Calls(d, t)' => Calls(d, t) /\ canceller'[d].copy = canceller[d].copy
    BY <2>1, <2>2, CallGoesOn
  <2>4. \A d \in Caller : canceller'[d].pc = "finish" => canceller'[d].pc = canceller[d].pc
    BY <2>1 DEF CallIs
  <2> QED
    BY <2>2, <2>3, <2>4 DEF StoppedAt
<1>4. CASE CancelDone(c)
  <2>1. /\ CallIs(c, "finish", t, canceller[c].copy)
        /\ UNCHANGED <<tasks, completion, tail, starter, watcher, reconcile, launcher, child>>
        /\ canceller[c].pc = "await" /\ completion[t] \in Resolved
    BY <1>4, CancelDoneEffect
  <2>3. \A d \in Caller : Calls(d, t)' => Calls(d, t) /\ canceller'[d].copy = canceller[d].copy
    BY <2>1, OtherCalls DEF Calls
  <2> QED
    BY <2>1, <2>3 DEF StoppedAt
<1>5. CASE CancelKill(c)
  BY <1>5, CancelKillEffect
<1>6. CASE CancelRaises(c)
  <2>1. /\ CallIs(c, "idle", t, AbsentRecord)
        /\ UNCHANGED <<tasks, completion, tail, starter, watcher, reconcile, launcher, child>>
    BY <1>6, CancelRaisesEffect
  <2>3. \A d \in Caller : Calls(d, t)' => Calls(d, t) /\ canceller'[d] = canceller[d]
    BY <2>1, OtherCalls
  <2> QED
    BY <2>1, <2>3 DEF StoppedAt
<1>7. CASE CancelFinish(c)
  <2>1. /\ Reads(tasks'[t], "CANCELLED", canceller[c].copy.backend_ref, canceller[c].copy.exit_code)
        /\ CallIs(c, "idle", t, AbsentRecord) /\ canceller[c].pc = "finish"
        /\ UNCHANGED <<completion, tail, starter, watcher, reconcile, launcher, child>>
    BY <1>7, CancelFinishEffect
  <2>2. Calls(c, t)
    BY <2>1 DEF Calls
  <2>3. \A d \in Caller : Calls(d, t)' => Calls(d, t) /\ canceller'[d] = canceller[d]
    BY <2>1, OtherCalls
  <2> QED
    BY <2>1, <2>2, <2>3 DEF StoppedAt, Reads
<1> QED
  BY <1>1, <1>2, <1>3, <1>4, <1>5, <1>6, <1>7 DEF CancelStep

(* The rest of a step keeps it too.                                        *)
LEMMA StoppedAnswered ==
    ASSUME TypeOK, NEW c \in Caller, NEW s \in Task, CancelGet(c, s), NEW t \in LocalProcess,
           StoppedAt(t)
    PROVE  StoppedAt(t)'
<1>1. /\ CallIs(c, "check", s, tasks[s])
      /\ UNCHANGED <<tasks, completion, tail, starter, watcher, reconcile, launcher, child>>
  BY CancelGetEffect
<1>2. \A d \in Caller : Calls(d, t)' => \/ Calls(d, t) /\ canceller'[d] = canceller[d]
                                        \/ /\ canceller'[d].copy = tasks[t]
                                           /\ canceller'[d].pc = "check"
  BY <1>1, OtherCalls
<1> QED
  BY <1>1, <1>2 DEF StoppedAt

(* The end and the start of the runtime keep StoppedAt.                     *)
LEMMA StoppedRestarted ==
    ASSUME TypeOK, SystemStep, NEW t \in LocalProcess, StoppedAt(t)
    PROVE  StoppedAt(t)'
<1>0. t \in Task /\ "absent" \notin Resolved
  BY DEF LocalProcess, ExitCode, Resolved, None
<1>1. UNCHANGED <<tasks, launcher, child>>
  BY <1>0, SystemEffect
<1>2. \/ /\ completion'[t] = "absent" /\ watcher'[t].pc = "none" /\ tail'[t] = "off"
         /\ reconcile'[t] = "done"
         /\ starter'[t] = IF starter[t] = "idle" THEN "idle" ELSE "over"
         /\ \A c \in Caller : canceller'[c].pc = "idle"
      \/ /\ UNCHANGED <<completion, tail, starter, watcher, canceller>>
         /\ reconcile'[t] \in {reconcile[t], "todo", "done"}
  BY <1>0, SystemEffect
<1>3. CASE UNCHANGED <<completion, tail, starter, watcher, canceller>> /\ reconcile'[t] \in {reconcile[t], "todo", "done"}
  BY <1>1, <1>3, StoppedFrom DEF StoppedAt
<1>4. CASE /\ completion'[t] = "absent" /\ watcher'[t].pc = "none" /\ tail'[t] = "off"
           /\ reconcile'[t] = "done"
           /\ starter'[t] = IF starter[t] = "idle" THEN "idle" ELSE "over"
           /\ \A c \in Caller : canceller'[c].pc = "idle"
  <2>1. \A d \in Caller : ~Calls(d, t)'
    BY <1>4 DEF Calls
  <2> QED
    BY <1>0, <1>1, <1>4, <2>1 DEF StoppedAt
<1> QED
  BY <1>2, <1>3, <1>4

(* So every step keeps StoppedAt for every local process.                   *)
LEMMA StoppedStep ==
    ASSUME TypeOK, StoppedInv, [Next]_vars, NEW u \in LocalProcess
    PROVE  StoppedAt(u)'
<1>0. u \in Task /\ StoppedAt(u)
  BY DEF StoppedInv, LocalProcess
<1>1. ASSUME NEW t \in Task, ServiceStep(t) PROVE StoppedAt(u)'
  <2>1. CASE u = t
    BY <1>0, <1>1, <2>1, StoppedServed
  <2>2. CASE u # t
    BY <1>0, <1>1, <2>2, ServiceElsewhere, StoppedKept
  <2> QED
    BY <2>1, <2>2
<1>2. ASSUME NEW t \in Task, WorldStep(t) PROVE StoppedAt(u)'
  <2>1. CASE u = t
    BY <1>0, <1>2, <2>1, StoppedInWorld
  <2>2. CASE u # t
    BY <1>0, <1>2, <2>2, WorldElsewhere, StoppedKept
  <2> QED
    BY <2>1, <2>2
<1>3. ASSUME NEW c \in Caller, CancelStep(c) PROVE StoppedAt(u)'
  <2>1. CASE u = canceller[c].task
    BY <1>0, <1>3, <2>1, StoppedCalled
  <2>2. CASE u # canceller[c].task
    BY <1>0, <1>3, <2>2, CallElsewhere, StoppedKept
  <2> QED
    BY <2>1, <2>2
<1>4. ASSUME NEW c \in Caller, NEW t \in Task, CancelGet(c, t) PROVE StoppedAt(u)'
  BY <1>0, <1>4, StoppedAnswered
<1>5. CASE SystemStep
  BY <1>0, <1>5, StoppedRestarted
<1>6. CASE UNCHANGED vars
  BY <1>0, <1>6 DEF vars, StoppedAt, Calls
<1> QED
  BY <1>1, <1>2, <1>3, <1>4, <1>5, <1>6, StepsAre

(* The local-process part of CancelledIsStopped has an inductive invariant, *)
(* which holds in every behaviour.                                         *)
LEMMA StoppedInvariant == Spec => []StoppedInv
<1>1. Init => StoppedInv
  <2> SUFFICES ASSUME Init, NEW u \in LocalProcess PROVE StoppedAt(u)
    BY DEF StoppedInv
  <2>1. /\ tasks[u] = AbsentRecord /\ watcher[u] = NoWatcher /\ completion[u] = "absent"
        /\ launcher[u] = "absent" /\ tail[u] = "off" /\ reconcile[u] = "done" /\ child[u] = "absent"
    BY DEF Init, LocalProcess
  <2>2. \A c \in Caller : ~Calls(c, u)
    BY IdleFacts DEF Init, Calls
  <2>3. watcher[u].pc = "none" /\ tasks[u].state = "ABSENT" /\ ~tasks[u].backend_ref
    BY <2>1, AbsentFacts, FixedWatchers
  <2> QED
    BY <2>1, <2>2, <2>3 DEF StoppedAt, ExitCode, Resolved, None
<1>2. TypeOK /\ StoppedInv /\ [Next]_vars => StoppedInv'
  <2> SUFFICES ASSUME TypeOK, StoppedInv, [Next]_vars PROVE \A u \in LocalProcess : StoppedAt(u)'
    BY DEF StoppedInv
  <2> QED
    BY StoppedStep
<1> QED
  BY <1>1, <1>2, TypeCorrect, PTL DEF Spec

-----------------------------------------------------------------------------
(* The reachable tasks are detached and their connection does not fail.    *)
LEMMA ReachableFacts ==
    ASSUME NEW t \in Reachable
    PROVE  t \in Task /\ t \in Detached /\ t \notin LocalProcess /\ ~(NetFaults /\ t \in SshDetached)
  BY BackendAssumption, FlagAssumption DEF Reachable, Detached, LocalProcess

(* No launcher is given up before it is gone.  A step that leaves a task   *)
(* alone keeps that.                                                       *)
LEMMA GoneKept ==
    ASSUME NEW u, GoneAt(u), Still(u), Uncalled(u)
    PROVE  GoneAt(u)'
<1>1. \A d \in Caller : (Calls(d, u)' <=> Calls(d, u)) /\ (Calls(d, u) => canceller'[d] = canceller[d])
  BY ElsewhereCalls
<1> QED
  BY <1>1 DEF GoneAt, Still

(* The conjuncts of GoneAt after a step of a coroutine.                    *)
LEMMA GoneFrom ==
    ASSUME NEW u, GoneAt(u), UNCHANGED <<canceller, launcher>>,
           \/ completion'[u] \in Resolved \cup {"cancelled"}
           \/ watcher'[u].pc \in {"emit", "upsert"}
           \/ tasks'[u].state = "CANCELLED"
           => launcher[u] = "gone",
           launcher[u] = "absent" =>
              /\ completion'[u] = "absent" /\ ~tasks'[u].backend_ref /\ reconcile'[u] # "probe"
              /\ starter'[u] \notin {"spawned", "recorded"} /\ u \notin task_handles',
           starter'[u] \in {"idle", "preparing"} => launcher[u] = "absent"
    PROVE  GoneAt(u)'
<1>1. \A d \in Caller : (Calls(d, u)' <=> Calls(d, u)) /\ canceller'[d] = canceller[d]
  BY SameCalls
<1> QED
  BY <1>1 DEF GoneAt

(* A coroutine keeps it for its own task: it resolves the future from the  *)
(* status file or after a probe that found the launcher gone.              *)
LEMMA GoneServed ==
    ASSUME TypeOK, NEW t \in Reachable, GoneAt(t), StatusAt(t), ServiceStep(t)
    PROVE  GoneAt(t)'
<1>0. t \in Task /\ t \in Detached /\ t \notin LocalProcess /\ ~(NetFaults /\ t \in SshDetached)
  BY ReachableFacts
<1>1. CASE StartPrepare(t)
  <2>1. /\ Reads(tasks'[t], "PREPARING", FALSE, None) /\ starter[t] = "idle"
        /\ starter'[t] = "preparing"
        /\ UNCHANGED <<task_handles, completion, tail, watcher, canceller, reconcile, launcher>>
    BY <1>0, <1>1, StartPrepareEffect
  <2> QED
    BY <2>1, GoneFrom DEF Reads, GoneAt
<1>2. CASE StartRejected(t)
  <2>1. /\ UNCHANGED <<tasks, task_handles, completion, watcher, canceller, reconcile, launcher>>
        /\ starter'[t] = "over"
    BY <1>0, <1>2 DEF StartRejected, RemoteStartUnanswered, TypeOK
  <2> QED
    BY <2>1, GoneFrom DEF GoneAt
<1>3. CASE StartSpawn(t)
  <2>1. /\ UNCHANGED <<tasks, watcher, canceller, reconcile>>
        /\ starter[t] = "preparing" /\ starter'[t] = "spawned" /\ completion'[t] = "pending"
        /\ launcher'[t] = "starting"
    BY <1>0, <1>3 DEF StartSpawn, SpawnLauncher, TypeOK
  <2>2. launcher[t] = "absent" /\ "pending" \notin Resolved \cup {"cancelled"}
    BY <2>1 DEF GoneAt, ExitCode, Resolved, None
  <2>3. \A d \in Caller : (Calls(d, t)' <=> Calls(d, t)) /\ canceller'[d] = canceller[d]
    BY <2>1, SameCalls
  <2> QED
    BY <2>1, <2>2, <2>3 DEF GoneAt
<1>4. CASE StartRecord(t)
  <2>1. /\ Reads(tasks'[t], "RUNNING", t \in Detached, None) /\ starter'[t] = "recorded"
        /\ starter[t] = "spawned"
        /\ UNCHANGED <<task_handles, completion, watcher, canceller, reconcile, launcher>>
    BY <1>0, <1>4, StartRecordEffect
  <2> QED
    BY <2>1, GoneFrom DEF Reads, GoneAt
<1>5. CASE StartWatch(t)
  <2>1. /\ watcher'[t].pc \in {"wait", "none"} /\ starter'[t] = "over" /\ starter[t] = "recorded"
        /\ UNCHANGED <<tasks, task_handles, completion, canceller, reconcile, launcher>>
    BY <1>0, <1>5, StartWatchEffect
  <2> QED
    BY <2>1, GoneFrom DEF GoneAt
<1>6. CASE WatchGet(t)
  <2>1. /\ completion[t] \in Resolved
        /\ UNCHANGED <<tasks, task_handles, completion, starter, canceller, reconcile, launcher>>
    BY <1>0, <1>6, WatchGetEffect
  <2> QED
    BY <2>1, GoneFrom DEF GoneAt
<1>7. CASE WatchEmit(t)
  <2>1. /\ watcher[t].pc = "emit"
        /\ UNCHANGED <<tasks, task_handles, completion, starter, canceller, reconcile, launcher>>
    BY <1>0, <1>7, WatchEmitEffect
  <2> QED
    BY <2>1, GoneFrom DEF GoneAt
<1>8. CASE WatchUpsert(t)
  <2>1. /\ watcher[t].pc = "upsert"
        /\ UNCHANGED <<task_handles, completion, starter, canceller, reconcile, launcher>>
    BY <1>0, <1>8, WatchUpsertEffect
  <2>2. launcher[t] = "gone"
    BY <2>1 DEF GoneAt
  <2> QED
    BY <2>1, <2>2, GoneFrom DEF GoneAt
<1>9. CASE WatchPop(t)
  <2>1. /\ watcher'[t].pc = "none" /\ t \notin task_handles'
        /\ UNCHANGED <<tasks, completion, starter, canceller, reconcile, launcher>>
    BY <1>0, <1>9, WatchPopEffect
  <2> QED
    BY <2>1, GoneFrom DEF GoneAt
<1>10. CASE TailStep(t) \/ ShutdownDetach(t)
  <2>1. /\ UNCHANGED <<tasks, task_handles, starter, watcher, canceller, reconcile, launcher>>
        /\ \/ completion'[t] = completion[t]
           \/ /\ completion[t] = "pending"
              /\ \/ completion'[t] = status[t] /\ status[t] # None
                 \/ completion'[t] = None /\ launcher[t] = "gone"
    BY <1>0, <1>10 DEF TailStep, TailStatus, TailProbe, TailRaises, ShutdownDetach, ProbeSaysDead,
                       TypeOK
  <2>2. "pending" # "absent" /\ (status[t] # None => launcher[t] = "gone")
    BY DEF StatusAt
  <2> QED
    BY <2>1, <2>2, GoneFrom DEF GoneAt
<1>11. CASE ProcessExits(t)
  BY <1>0, <1>11 DEF ProcessExits
<1>12. CASE ReconcileFinished(t)
  <2>1. /\ Reads(tasks'[t], IF status[t] = "zero" THEN "SUCCEEDED" ELSE "FAILED",
                 tasks[t].backend_ref, status[t])
        /\ tasks[t].backend_ref /\ reconcile'[t] = "done"
        /\ UNCHANGED <<task_handles, completion, starter, watcher, canceller, launcher>>
    BY <1>0, <1>12, ReconcileFinishedEffect
  <2> QED
    BY <2>1, GoneFrom DEF Reads, GoneAt
<1>13. CASE ReconcileNoStatus(t)
  <2>1. /\ tasks[t].backend_ref
        /\ UNCHANGED <<tasks, task_handles, completion, starter, watcher, canceller, launcher>>
    BY <1>13 DEF ReconcileNoStatus
  <2> QED
    BY <2>1, GoneFrom DEF GoneAt
<1>14. CASE ReconcileAlive(t)
  <2>1. /\ Reads(tasks'[t], "RUNNING", tasks[t].backend_ref, tasks[t].exit_code)
        /\ reconcile[t] = "probe" /\ completion'[t] = "pending" /\ watcher'[t].pc = "wait"
        /\ UNCHANGED <<task_handles, starter, canceller, launcher>>
    BY <1>0, <1>14, ReconcileAliveEffect
  <2>2. "pending" \notin Resolved \cup {"cancelled"}
    BY DEF ExitCode, Resolved, None
  <2> QED
    BY <2>1, <2>2, GoneFrom DEF Reads, GoneAt
<1>15. CASE ReconcileLost(t)
  <2>1. /\ Reads(tasks'[t], "LOST", tasks[t].backend_ref, tasks[t].exit_code)
        /\ reconcile'[t] = "done"
        /\ UNCHANGED <<task_handles, completion, starter, watcher, canceller, launcher>>
    BY <1>0, <1>15, ReconcileLostEffect
  <2> QED
    BY <2>1, GoneFrom DEF Reads, GoneAt
<1> QED
  BY <1>1, <1>2, <1>3, <1>4, <1>5, <1>6, <1>7, <1>8, <1>9, <1>10, <1>11, <1>12, <1>13, <1>14, <1>15
     DEF ServiceStep, StartStep, WatchStep, ReconcileStep

(* So does a process: a launcher that is gone or was never started stays so. *)
LEMMA GoneInWorld ==
    ASSUME TypeOK, NEW t \in Reachable, GoneAt(t), WorldStep(t)
    PROVE  GoneAt(t)'
<1>0. t \in Task
  BY ReachableFacts
<1>1. /\ UNCHANGED <<tasks, task_handles, completion, starter, watcher, canceller, reconcile>>
      /\ launcher[t] = "gone" => launcher'[t] = "gone"
      /\ launcher[t] = "absent" <=> launcher'[t] = "absent"
  BY <1>0 DEF TypeOK, WorldStep, LauncherLives, LauncherForks, LauncherTraps,
         LauncherWrites, LauncherDies, ChildExits, LauncherStep, OnlyWorld
<1>2. \A d \in Caller : (Calls(d, t)' <=> Calls(d, t)) /\ canceller'[d] = canceller[d]
  BY <1>1, SameCalls
<1> QED
  BY <1>1, <1>2 DEF GoneAt

(* And a call: only a resolved future or its own SIGKILL lets it reach its *)
(* last step.                                                              *)
LEMMA GoneCalled ==
    ASSUME TypeOK, NEW c \in Caller, CancelStep(c), NEW t \in Reachable, t = canceller[c].task,
           GoneAt(t)
    PROVE  GoneAt(t)'
<1>0. t \in Task /\ t \in Detached /\ ~(NetFaults /\ t \in SshDetached)
  BY ReachableFacts
<1> USE <1>0
<1>a. canceller[c].pc # "idle" => Calls(c, t)
  BY DEF Calls
<1>1. CASE CancelCheck(c)
  <2>1. \/ t \in task_handles /\ CallIs(c, "mark", t, canceller[c].copy)
        \/ CallIs(c, "idle", t, AbsentRecord)
    BY <1>1, CancelCheckEffect
  <2>2. /\ UNCHANGED <<tasks, task_handles, completion, starter, watcher, reconcile, launcher>>
        /\ canceller[c].pc = "check"
    BY <1>1, CancelCheckEffect
  <2>3. \A d \in Caller : Calls(d, t)' =>
            \/ Calls(d, t) /\ canceller'[d] = canceller[d]
            \/ t \in task_handles /\ canceller'[d].pc = "mark"
    BY <2>1, OtherCalls
  <2> QED
    BY <2>2, <2>3 DEF GoneAt
<1>2. CASE CancelMark(c)
  <2>1. /\ Reads(tasks'[t], "CANCELLING", canceller[c].copy.backend_ref, canceller[c].copy.exit_code)
        /\ CallIs(c, "signal", t, tasks'[t]) /\ canceller[c].pc = "mark"
        /\ UNCHANGED <<task_handles, completion, starter, watcher, reconcile, launcher>>
    BY <1>2, CancelMarkEffect
  <2>2. launcher[t] # "absent"
    BY <1>a, <2>1 DEF GoneAt
  <2>3. \A d \in Caller : Calls(d, t)' => \/ Calls(d, t) /\ canceller'[d] = canceller[d]
                                          \/ canceller'[d].pc = "signal"
    BY <2>1, OtherCalls
  <2> QED
    BY <2>1, <2>2, <2>3 DEF GoneAt, Reads
<1>3. CASE CancelSignal(c)
  <2>1. CallIs(c, "await", t, canceller[c].copy) \/ CallIs(c, "idle", t, AbsentRecord)
    BY <1>3, CancelSignalEffect
  <2>2. /\ UNCHANGED <<tasks, task_handles, completion, starter, watcher, reconcile>>
        /\ canceller[c].pc = "signal"
        /\ launcher'[t] = launcher[t] \/ launcher'[t] \in Terminated(t)
    BY <1>3, CancelSignalEffect
  <2>3. launcher[t] # "absent"
    BY <1>a, <2>2 DEF GoneAt
  <2>4. launcher'[t] # "absent" /\ (launcher[t] = "gone" => launcher'[t] = "gone")
    BY <2>2, <2>3, TerminatedFacts
  <2>5. \A d \in Caller : Calls(d, t)' => \/ Calls(d, t) /\ canceller'[d] = canceller[d]
                                          \/ canceller'[d].pc = "await"
    BY <2>1, OtherCalls
  <2> QED
    BY <2>2, <2>3, <2>4, <2>5 DEF GoneAt
<1>4. CASE CancelDone(c)
  <2>1. /\ CallIs(c, "finish", t, canceller[c].copy)
        /\ UNCHANGED <<tasks, completion, starter, watcher, reconcile, launcher>>
        /\ canceller[c].pc = "await" /\ completion[t] \in Resolved
    BY <1>4, CancelDoneEffect
  <2>2. launcher[t] = "gone"
    BY <2>1 DEF GoneAt
  <2> QED
    BY <2>1, <2>2 DEF GoneAt
<1>5. CASE CancelKill(c)
  <2>1. /\ canceller[c].pc = "await" /\ launcher'[t] = Killed(t)
        /\ UNCHANGED <<starter>>
    BY <1>5, CancelKillEffect
  <2>2. launcher'[t] = "gone"
    BY <1>a, <2>1 DEF GoneAt, Killed
  <2>3. starter'[t] \notin {"idle", "preparing"}
    BY <1>a, <2>1 DEF GoneAt
  <2> QED
    BY <2>2, <2>3 DEF GoneAt
<1>6. CASE CancelRaises(c)
  <2>1. /\ CallIs(c, "idle", t, AbsentRecord)
        /\ UNCHANGED <<tasks, task_handles, completion, starter, watcher, reconcile, launcher>>
    BY <1>6, CancelRaisesEffect
  <2>2. \A d \in Caller : Calls(d, t)' => Calls(d, t) /\ canceller'[d] = canceller[d]
    BY <2>1, OtherCalls
  <2> QED
    BY <2>1, <2>2 DEF GoneAt
<1>7. CASE CancelFinish(c)
  <2>1. canceller[c].pc = "finish" /\ UNCHANGED <<starter, launcher>>
    BY <1>7, CancelFinishEffect
  <2>2. launcher[t] = "gone"
    BY <1>a, <2>1 DEF GoneAt
  <2> QED
    BY <2>1, <2>2 DEF GoneAt
<1> QED
  BY <1>1, <1>2, <1>3, <1>4, <1>5, <1>6, <1>7 DEF CancelStep

(* A call that begins keeps GoneAt: it is at its check.                    *)
LEMMA GoneAnswered ==
    ASSUME TypeOK, NEW c \in Caller, NEW s \in Task, CancelGet(c, s), NEW t \in Reachable, GoneAt(t)
    PROVE  GoneAt(t)'
<1>1. /\ CallIs(c, "check", s, tasks[s])
      /\ UNCHANGED <<tasks, task_handles, completion, starter, watcher, reconcile, launcher>>
  BY CancelGetEffect
<1>2. \A d \in Caller : Calls(d, t)' => \/ Calls(d, t) /\ canceller'[d] = canceller[d]
                                        \/ /\ canceller'[d].copy = tasks[t]
                                           /\ canceller'[d].pc = "check"
  BY <1>1, OtherCalls
<1> QED
  BY <1>1, <1>2 DEF GoneAt

(* So do the end and the start of the runtime.                             *)
LEMMA GoneRestarted ==
    ASSUME TypeOK, SystemStep, NEW t \in Reachable, GoneAt(t)
    PROVE  GoneAt(t)'
<1>0. t \in Task /\ "absent" \notin Resolved \cup {"cancelled"}
  BY ReachableFacts DEF ExitCode, Resolved, None
<1>1. UNCHANGED <<tasks, launcher>>
  BY <1>0, SystemEffect
<1>2. \/ /\ completion'[t] = "absent" /\ watcher'[t].pc = "none" /\ t \notin task_handles'
         /\ reconcile'[t] = "done"
         /\ starter'[t] = IF starter[t] = "idle" THEN "idle" ELSE "over"
         /\ \A c \in Caller : canceller'[c].pc = "idle"
      \/ /\ UNCHANGED <<task_handles, completion, tail, starter, watcher, canceller>>
         /\ reconcile'[t] \in {reconcile[t], "todo", "done"}
  BY <1>0, SystemEffect
<1>3. CASE /\ UNCHANGED <<task_handles, completion, tail, starter, watcher, canceller>>
           /\ reconcile'[t] \in {reconcile[t], "todo", "done"}
  BY <1>1, <1>3, GoneFrom DEF GoneAt
<1>4. CASE /\ completion'[t] = "absent" /\ watcher'[t].pc = "none" /\ t \notin task_handles'
           /\ reconcile'[t] = "done"
           /\ starter'[t] = IF starter[t] = "idle" THEN "idle" ELSE "over"
           /\ \A c \in Caller : canceller'[c].pc = "idle"
  <2>1. \A d \in Caller : ~Calls(d, t)'
    BY <1>4 DEF Calls
  <2> QED
    BY <1>0, <1>1, <1>4, <2>1 DEF GoneAt
<1> QED
  BY <1>2, <1>3, <1>4

(* So every step keeps GoneAt for every reachable task.                    *)
LEMMA GoneStep ==
    ASSUME TypeOK, StatusInv, GoneInv, [Next]_vars, NEW u \in Reachable
    PROVE  GoneAt(u)'
<1>0. u \in Task /\ GoneAt(u) /\ StatusAt(u)
  BY ReachableFacts DEF GoneInv, StatusInv
<1>1. ASSUME NEW t \in Task, ServiceStep(t) PROVE GoneAt(u)'
  <2>1. CASE u = t
    BY <1>0, <1>1, <2>1, GoneServed
  <2>2. CASE u # t
    BY <1>0, <1>1, <2>2, ServiceElsewhere, GoneKept
  <2> QED
    BY <2>1, <2>2
<1>2. ASSUME NEW t \in Task, WorldStep(t) PROVE GoneAt(u)'
  <2>1. CASE u = t
    BY <1>0, <1>2, <2>1, GoneInWorld
  <2>2. CASE u # t
    BY <1>0, <1>2, <2>2, WorldElsewhere, GoneKept
  <2> QED
    BY <2>1, <2>2
<1>3. ASSUME NEW c \in Caller, CancelStep(c) PROVE GoneAt(u)'
  <2>1. CASE u = canceller[c].task
    BY <1>0, <1>3, <2>1, GoneCalled
  <2>2. CASE u # canceller[c].task
    BY <1>0, <1>3, <2>2, CallElsewhere, GoneKept
  <2> QED
    BY <2>1, <2>2
<1>4. ASSUME NEW c \in Caller, NEW t \in Task, CancelGet(c, t) PROVE GoneAt(u)'
  BY <1>0, <1>4, GoneAnswered
<1>5. CASE SystemStep
  BY <1>0, <1>5, GoneRestarted
<1>6. CASE UNCHANGED vars
  BY <1>0, <1>6 DEF vars, GoneAt, Calls
<1> QED
  BY <1>1, <1>2, <1>3, <1>4, <1>5, <1>6, StepsAre

(* GoneInv holds in every behaviour.                                       *)
LEMMA GoneInvariant == Spec => []GoneInv
<1>1. Init => GoneInv
  <2> SUFFICES ASSUME Init, NEW u \in Reachable PROVE GoneAt(u)
    BY DEF GoneInv
  <2>0. u \in Task
    BY ReachableFacts
  <2>1. /\ tasks[u] = AbsentRecord /\ watcher[u] = NoWatcher /\ completion[u] = "absent"
        /\ launcher[u] = "absent" /\ reconcile[u] = "done" /\ starter[u] = "idle"
        /\ task_handles = {}
    BY <2>0 DEF Init
  <2>2. \A c \in Caller : ~Calls(c, u)
    BY IdleFacts DEF Init, Calls
  <2>3. watcher[u].pc = "none" /\ tasks[u].state = "ABSENT" /\ ~tasks[u].backend_ref
    BY <2>1, AbsentFacts, FixedWatchers
  <2> QED
    BY <2>1, <2>2, <2>3 DEF GoneAt, ExitCode, Resolved, None
<1>2. TypeOK /\ StatusInv /\ GoneInv /\ [Next]_vars => GoneInv'
  <2> SUFFICES ASSUME TypeOK, StatusInv, GoneInv, [Next]_vars PROVE \A u \in Reachable : GoneAt(u)'
    BY DEF GoneInv
  <2> QED
    BY GoneStep
<1> QED
  BY <1>1, <1>2, TypeCorrect, StatusInvariant, PTL DEF Spec

(* What the table calls CANCELLED was stopped, whatever cancels overlap    *)
(* with its start, its watcher and one another: the process of a           *)
(* non-persistent task has ended (LocalProcessHandle.cancel never reports  *)
(* success on a timeout), and of a reachable detached task, also of one    *)
(* whose cancel timed out, the launcher is gone.                           *)
THEOREM CancelledHasStopped == Spec => []CancelledIsStopped
<1>1. StoppedInv /\ GoneInv => CancelledIsStopped
  BY DEF StoppedInv, StoppedAt, GoneInv, GoneAt, CancelledIsStopped
<1> QED
  BY <1>1, StoppedInvariant, GoneInvariant, PTL

-----------------------------------------------------------------------------
(* Who may be at work on a task.  A step that leaves a task alone keeps    *)
(* OrderAt, when the runtime goes on.                                      *)
LEMMA OrderKept ==
    ASSUME NEW u, OrderAt(u), Still(u), Uncalled(u), UNCHANGED runtime
    PROVE  OrderAt(u)'
<1>1. \A d \in Caller : (Calls(d, u)' <=> Calls(d, u)) /\ (Calls(d, u) => canceller'[d] = canceller[d])
  BY ElsewhereCalls
<1> QED
  BY <1>1 DEF OrderAt, Still

(* A task that is watched or called about has been started.                *)
LEMMA OrderOver ==
    ASSUME NEW t \in Task, OrderAt(t)
    PROVE  /\ watcher[t].pc # "none" => starter[t] = "over" /\ tasks[t].state # "ABSENT"
           /\ \A c \in Caller : Calls(c, t) =>
                 /\ tasks[t].state # "ABSENT" /\ starter[t] # "idle"
                 /\ t \notin EarlyCancel => starter[t] = "over"
                 /\ starter[t] = "preparing" => canceller[c].pc = "check" /\ t \notin task_handles
           /\ reconcile[t] # "done" => starter[t] = "over" /\ tasks[t].state # "ABSENT"
  BY DEF OrderAt, TaskRecoverableStates

(* A coroutine keeps it for its own task.                                  *)
LEMMA OrderServed ==
    ASSUME TypeOK, NEW t \in Task, OrderAt(t), ServiceStep(t)
    PROVE  OrderAt(t)'
<1>0. UNCHANGED canceller => \A d \in Caller : (Calls(d, t)' <=> Calls(d, t)) /\ canceller'[d] = canceller[d]
  BY SameCalls
<1> USE DEF Serving, Running
<1>1. CASE StartPrepare(t)
  <2>1. /\ Reads(tasks'[t], "PREPARING", FALSE, None) /\ starter[t] = "idle"
        /\ starter'[t] = "preparing" /\ runtime = "up"
        /\ UNCHANGED <<runtime, task_handles, watcher, canceller, reconcile>>
    BY <1>1, StartPrepareEffect
  <2> QED
    BY <1>0, <2>1 DEF Reads, OrderAt
<1>2. CASE StartRejected(t) \/ StartSpawn(t)
  <2>1. /\ starter[t] = "preparing" /\ starter'[t] \in {"over", "spawned"} /\ Serving
        /\ UNCHANGED <<runtime, tasks, watcher, canceller, reconcile>>
    BY <1>2 DEF StartRejected, StartSpawn, TypeOK
  <2> QED
    BY <1>0, <2>1 DEF OrderAt
<1>3. CASE StartRecord(t)
  <2>1. /\ Reads(tasks'[t], "RUNNING", t \in Detached, None) /\ starter'[t] = "recorded"
        /\ starter[t] = "spawned" /\ Serving
        /\ UNCHANGED <<runtime, task_handles, watcher, canceller, reconcile>>
    BY <1>3, StartRecordEffect
  <2> QED
    BY <1>0, <2>1 DEF Reads, OrderAt
<1>4. CASE StartWatch(t)
  <2>1. /\ watcher'[t].pc \in {"wait", "none"} /\ starter'[t] = "over" /\ starter[t] = "recorded"
        /\ Serving
        /\ UNCHANGED <<runtime, tasks, canceller, reconcile>>
    BY <1>4, StartWatchEffect
  <2> QED
    BY <1>0, <2>1 DEF OrderAt
<1>5. CASE WatchGet(t)
  <2>1. /\ watcher[t].pc = "wait" /\ watcher'[t].pc = "emit" /\ Running
        /\ UNCHANGED <<runtime, tasks, task_handles, starter, canceller, reconcile>>
    BY <1>5, WatchGetEffect
  <2> QED
    BY <1>0, <2>1 DEF OrderAt
<1>6. CASE WatchEmit(t)
  <2>1. /\ watcher[t].pc = "emit" /\ watcher'[t].pc = "upsert" /\ Running
        /\ Reads(watcher'[t].copy, OutcomeAt(t), watcher[t].copy.backend_ref,
                 watcher[t].copy.exit_code)
        /\ UNCHANGED <<runtime, tasks, task_handles, starter, canceller, reconcile>>
    BY <1>6, WatchEmitEffect
  <2>2. OutcomeAt(t) \in TerminalStates
    BY OutcomeIs
  <2> QED
    BY <1>0, <2>1, <2>2 DEF Reads, OrderAt
<1>7. CASE WatchUpsert(t)
  <2>1. /\ watcher[t].pc = "upsert" /\ watcher'[t].pc \in {"none", "pop"} /\ Running
        /\ tasks'[t] = watcher[t].copy
        /\ UNCHANGED <<runtime, starter, canceller, reconcile>>
    BY <1>7, WatchUpsertEffect
  <2>2. starter[t] = "over" /\ tasks'[t].state # "ABSENT"
    BY <2>1 DEF OrderAt, TerminalStates
  <2> QED
    BY <1>0, <2>1, <2>2 DEF OrderAt
<1>8. CASE WatchPop(t)
  <2>1. /\ watcher'[t].pc = "none" /\ watcher[t].pc = "pop"
        /\ UNCHANGED <<runtime, tasks, starter, canceller, reconcile>>
    BY <1>8, WatchPopEffect
  <2> QED
    BY <1>0, <2>1 DEF OrderAt
<1>9. CASE TailStep(t) \/ ShutdownDetach(t) \/ ProcessExits(t)
  <2>1. UNCHANGED <<runtime, tasks, task_handles, watcher, starter, canceller, reconcile>>
    BY <1>9 DEF TailStep, TailStatus, TailProbe, TailRaises, ShutdownDetach, ProcessExits
  <2> QED
    BY <1>0, <2>1 DEF OrderAt
<1>10. CASE ReconcileStep(t)
  <2>1. /\ reconcile[t] # "done" /\ runtime = "booting"
        /\ UNCHANGED <<runtime, starter, canceller>>
    BY <1>10 DEF ReconcileStep, ReconcileFinished, ReconcileNoStatus, ReconcileAlive, ReconcileLost
  <2>2. starter[t] = "over"
    BY <2>1 DEF OrderAt, TaskRecoverableStates
  <2>3. CASE ReconcileNoStatus(t)
    <3>1. UNCHANGED <<tasks, watcher>>
      BY <2>3 DEF ReconcileNoStatus
    <3> QED
      BY <1>0, <2>1, <2>2, <3>1 DEF OrderAt
  <2>4. CASE ReconcileFinished(t)
    <3>1. /\ Reads(tasks'[t], IF status[t] = "zero" THEN "SUCCEEDED" ELSE "FAILED",
                   tasks[t].backend_ref, status[t])
          /\ UNCHANGED watcher /\ reconcile'[t] = "done"
      BY <2>4, ReconcileFinishedEffect
    <3> QED
      BY <1>0, <2>1, <2>2, <3>1 DEF OrderAt, Reads
  <2>5. CASE ReconcileAlive(t)
    <3>1. /\ Reads(tasks'[t], "RUNNING", tasks[t].backend_ref, tasks[t].exit_code)
          /\ watcher'[t].pc = "wait" /\ reconcile'[t] = "done"
      BY <2>5, ReconcileAliveEffect
    <3> QED
      BY <1>0, <2>1, <2>2, <3>1 DEF OrderAt, Reads
  <2>6. CASE ReconcileLost(t)
    <3>1. /\ Reads(tasks'[t], "LOST", tasks[t].backend_ref, tasks[t].exit_code)
          /\ UNCHANGED watcher /\ reconcile'[t] = "done"
      BY <2>6, ReconcileLostEffect
    <3> QED
      BY <1>0, <2>1, <2>2, <3>1 DEF OrderAt, Reads
  <2> QED
    BY <1>10, <2>3, <2>4, <2>5, <2>6 DEF ReconcileStep
<1> QED
  BY <1>1, <1>2, <1>3, <1>4, <1>5, <1>6, <1>7, <1>8, <1>9, <1>10
     DEF ServiceStep, StartStep, WatchStep

(* So does a process, and the start or the end of the runtime.             *)
LEMMA OrderInWorld ==
    ASSUME TypeOK, NEW t \in Task, OrderAt(t), WorldStep(t)
    PROVE  OrderAt(t)'
<1>1. UNCHANGED <<runtime, tasks, task_handles, starter, watcher, canceller, reconcile>>
  BY DEF WorldStep, LauncherLives, LauncherForks, LauncherTraps,
         LauncherWrites, LauncherDies, ChildExits, LauncherStep, OnlyWorld
<1>2. \A d \in Caller : (Calls(d, t)' <=> Calls(d, t)) /\ canceller'[d] = canceller[d]
  BY <1>1, SameCalls
<1> QED
  BY <1>1, <1>2 DEF OrderAt

(* The end of the runtime ends whoever was at work, and its start lists only*)
(* records that are recoverable.                                            *)
LEMMA OrderRestarted ==
    ASSUME TypeOK, SystemStep, NEW t \in Task, OrderAt(t)
    PROVE  OrderAt(t)'
<1>1. UNCHANGED tasks
  BY SystemEffect
<1>2. CASE /\ runtime' = "down" /\ watcher'[t].pc = "none" /\ reconcile'[t] = "done"
           /\ t \notin task_handles'
           /\ starter'[t] = IF starter[t] = "idle" THEN "idle" ELSE "over"
           /\ \A c \in Caller : canceller'[c].pc = "idle"
  <2>1. \A d \in Caller : ~Calls(d, t)'
    BY <1>2 DEF Calls
  <2>2. starter'[t] \in {"idle", "over"} /\ (starter'[t] = "idle" <=> starter[t] = "idle")
    BY <1>2
  <2> QED
    BY <1>1, <1>2, <2>1, <2>2 DEF OrderAt
<1>3. CASE UNCHANGED <<task_handles, starter, watcher, canceller>>
  <2>1. \A d \in Caller : (Calls(d, t)' <=> Calls(d, t)) /\ canceller'[d] = canceller[d]
    BY <1>3, SameCalls
  <2>2. \/ runtime = "up" /\ runtime' = "stopping" /\ reconcile'[t] = reconcile[t]
        \/ runtime = "booting" /\ runtime' = "up" /\ reconcile'[t] = "done"
        \/ /\ runtime = "down" /\ runtime' = "booting"
           /\ reconcile'[t] # "done" => tasks[t].state \in TaskRecoverableStates
        \/ runtime' = "down" /\ watcher'[t].pc = "none" /\ reconcile'[t] = "done"
           /\ starter'[t] \in {"idle", "over"} /\ \A c \in Caller : canceller'[c].pc = "idle"
    BY SystemEffect
  <2>3. (\A c \in Caller : canceller'[c].pc = "idle") => \A d \in Caller : ~Calls(d, t)'
    BY DEF Calls
  <2> QED
    BY <1>1, <1>3, <2>1, <2>2, <2>3 DEF OrderAt
<1> QED
  BY <1>2, <1>3, SystemEffect

(* And a call about a task that was started.                               *)
LEMMA OrderCalled ==
    ASSUME TypeOK, NEW c \in Caller, CancelStep(c), NEW t \in Task, t = canceller[c].task,
           OrderAt(t)
    PROVE  OrderAt(t)'
<1>0. Serving /\ canceller[c].pc # "idle" /\ UNCHANGED <<runtime, starter, reconcile>>
  BY DEF CancelStep, CancelCheck, CancelMark, CancelSignal, CancelDone, CancelKill, CancelRaises,
         CancelFinish, Cancelling
<1>1. /\ Calls(c, t) /\ starter[t] # "idle" /\ reconcile[t] = "done"
      /\ t \notin EarlyCancel => starter[t] = "over"
      /\ starter[t] = "preparing" => canceller[c].pc = "check" /\ t \notin task_handles
  <2>1. Calls(c, t)
    BY <1>0 DEF Calls
  <2>2. reconcile[t] = "done"
    BY <1>0 DEF OrderAt, Serving
  <2> QED
    BY <2>1, <2>2, OrderOver
<1>2. tasks'[t].state # "ABSENT"
  <2>1. CASE CancelMark(c)
    BY <2>1, CancelMarkEffect DEF Reads
  <2>2. CASE CancelFinish(c)
    BY <2>2, CancelFinishEffect DEF Reads
  <2>3. CASE UNCHANGED tasks
    BY <1>1, <2>3 DEF OrderAt
  <2> QED
    BY <2>1, <2>2, <2>3 DEF CancelStep, CancelCheck, CancelSignal, CancelDone, CancelKill,
                            CancelRaises
<1>3. watcher'[t] = watcher[t] \/ watcher'[t].pc = "none"
  <2>1. CASE CancelKill(c)
    BY <2>1, CancelKillEffect
  <2>2. CASE UNCHANGED watcher
    BY <2>2
  <2> QED
    BY <2>1, <2>2 DEF CancelStep, CancelCheck, CancelMark, CancelSignal, CancelDone,
                      CancelRaises, CancelFinish
<1>4. ASSUME starter[t] = "preparing"
      PROVE  /\ UNCHANGED <<tasks, task_handles>>
             /\ \A d \in Caller : Calls(d, t)' => Calls(d, t) /\ canceller'[d] = canceller[d]
  <2>1. CancelCheck(c)
    BY <1>1, <1>4 DEF CancelStep, CancelCheck, CancelMark, CancelSignal, CancelDone, CancelKill,
                      CancelRaises, CancelFinish, Cancelling
  <2>2. CallIs(c, "idle", t, AbsentRecord) /\ UNCHANGED <<tasks, task_handles>>
    BY <1>1, <1>4, <2>1, CancelCheckEffect
  <2> QED
    BY <2>2, OtherCalls
<1> QED
  BY <1>0, <1>1, <1>2, <1>3, <1>4 DEF OrderAt, Serving

(* A call begins about a task that has a record, at its check, and before  *)
(* the start has returned only where the client does not wait for it.       *)
LEMMA OrderAnswered ==
    ASSUME TypeOK, NEW c \in Caller, NEW s \in Task, CancelGet(c, s), NEW t \in Task, OrderAt(t)
    PROVE  OrderAt(t)'
<1>1. /\ CallIs(c, "check", s, tasks[s]) /\ runtime = "up" /\ tasks[s].state # "ABSENT"
      /\ s \in EarlyCancel \/ starter[s] = "over"
      /\ UNCHANGED <<runtime, tasks, task_handles, starter, watcher, reconcile>>
  BY CancelGetEffect
<1>2. \A d \in Caller : Calls(d, t)' => \/ Calls(d, t) /\ canceller'[d] = canceller[d]
                                        \/ t = s /\ canceller'[d].pc = "check"
  BY <1>1, OtherCalls
<1> QED
  BY <1>1, <1>2 DEF OrderAt

(* So every step keeps OrderAt for every task.                              *)
LEMMA OrderStep ==
    ASSUME TypeOK, OrderInv, [Next]_vars, NEW u \in Task
    PROVE  OrderAt(u)'
<1>0. OrderAt(u)
  BY DEF OrderInv
<1>1. ASSUME NEW t \in Task, ServiceStep(t) PROVE OrderAt(u)'
  <2>1. CASE u = t
    BY <1>0, <1>1, <2>1, OrderServed
  <2>2. CASE u # t
    BY <1>0, <1>1, <2>2, ServiceElsewhere, OrderKept
  <2> QED
    BY <2>1, <2>2
<1>2. ASSUME NEW t \in Task, WorldStep(t) PROVE OrderAt(u)'
  <2>1. CASE u = t
    BY <1>0, <1>2, <2>1, OrderInWorld
  <2>2. CASE u # t
    BY <1>0, <1>2, <2>2, WorldElsewhere, OrderKept
  <2> QED
    BY <2>1, <2>2
<1>3. ASSUME NEW c \in Caller, CancelStep(c) PROVE OrderAt(u)'
  <2>1. CASE u = canceller[c].task
    BY <1>0, <1>3, <2>1, OrderCalled
  <2>2. CASE u # canceller[c].task
    BY <1>0, <1>3, <2>2, CallElsewhere, OrderKept
  <2> QED
    BY <2>1, <2>2
<1>4. ASSUME NEW c \in Caller, NEW t \in Task, CancelGet(c, t) PROVE OrderAt(u)'
  BY <1>0, <1>4, OrderAnswered
<1>5. CASE SystemStep
  BY <1>0, <1>5, OrderRestarted
<1>6. CASE UNCHANGED vars
  BY <1>0, <1>6 DEF vars, OrderAt, Calls
<1> QED
  BY <1>1, <1>2, <1>3, <1>4, <1>5, <1>6, StepsAre

(* Who may be at work on a task, at every moment: the table has a record   *)
(* exactly for what was started, no cancel passes its check before the     *)
(* handle is registered, and nobody but the reconciliation is at work on a *)
(* record while the runtime boots.                                         *)
THEOREM OrderInvariant == Spec => []OrderInv
<1>1. Init => OrderInv
  <2> SUFFICES ASSUME Init, NEW u \in Task PROVE OrderAt(u)
    BY DEF OrderInv
  <2>1. /\ tasks[u] = AbsentRecord /\ watcher[u] = NoWatcher /\ starter[u] = "idle"
        /\ reconcile[u] = "done" /\ runtime = "up" /\ task_handles = {}
    BY DEF Init
  <2>2. \A c \in Caller : ~Calls(c, u)
    BY IdleFacts DEF Init, Calls
  <2>3. watcher[u].pc = "none" /\ tasks[u].state = "ABSENT"
    BY <2>1, AbsentFacts, FixedWatchers
  <2> QED
    BY <2>1, <2>2, <2>3 DEF OrderAt
<1>2. TypeOK /\ OrderInv /\ [Next]_vars => OrderInv'
  <2> SUFFICES ASSUME TypeOK, OrderInv, [Next]_vars PROVE \A u \in Task : OrderAt(u)'
    BY DEF OrderInv
  <2> QED
    BY OrderStep
<1> QED
  BY <1>1, <1>2, TypeCorrect, PTL DEF Spec

-----------------------------------------------------------------------------
(* What is announced.  A step that leaves a task alone keeps AnnouncedAt.  *)
LEMMA AnnouncedKept ==
    ASSUME NEW u, AnnouncedAt(u), Still(u), Uncalled(u)
    PROVE  AnnouncedAt(u)'
<1>1. \A d \in Caller : (Calls(d, u)' <=> Calls(d, u)) /\ (Calls(d, u) => canceller'[d] = canceller[d])
  BY ElsewhereCalls
<1>2. Reported(u)' <=> Reported(u)
  BY DEF Reported, Still
<1> HIDE DEF Reported
<1> QED
  BY <1>1, <1>2 DEF AnnouncedAt, Still

(* What reported means.                                                    *)
LEMMA ReportedFacts ==
    ASSUME NEW t
    PROVE  Reported(t) <=> ("task.completed" \in announced[t] \/ "task.failed" \in announced[t])
  BY DEF Reported

(* A coroutine keeps it for its own task: the announcement of the watcher  *)
(* is the status file's, because its future is.                            *)
LEMMA AnnouncedServed ==
    ASSUME TypeOK, NEW t \in Reachable, OrderAt(t), StatusAt(t), AnnouncedAt(t), ServiceStep(t)
    PROVE  AnnouncedAt(t)'
<1>a. t \in Task /\ t \in Detached /\ t \notin LocalProcess /\ ~(NetFaults /\ t \in SshDetached)
  BY ReachableFacts
<1>b. Reported(t)' <=> ("task.completed" \in announced'[t] \/ "task.failed" \in announced'[t])
  BY DEF Reported
<1>c. Reported(t) <=> ("task.completed" \in announced[t] \/ "task.failed" \in announced[t])
  BY ReportedFacts
<1>e. /\ watcher[t].copy.exit_code \in {"zero", "nonzero", None} /\ tasks[t].backend_ref \in BOOLEAN
      /\ completion[t] \in {"absent", "pending", "cancelled", "zero", "nonzero", None}
  BY <1>a, WatcherFields, FieldFacts DEF TypeOK, ExitCode, Resolved
<1> USE <1>a, <1>b, <1>c DEF Serving, Running
<1> HIDE DEF Reported
<1>1. CASE StartPrepare(t)
  <2>1. /\ Reads(tasks'[t], "PREPARING", FALSE, None) /\ starter[t] = "idle"
        /\ starter'[t] = "preparing" /\ runtime = "up"
        /\ UNCHANGED <<runtime, completion, watcher, canceller, reconcile, status, announced>>
    BY <1>1, StartPrepareEffect
  <2>2. ~Reported(t) /\ watcher[t].pc = "none" /\ reconcile[t] = "done"
    BY <2>1 DEF OrderAt, AnnouncedAt
  <2> QED
    BY <2>1, <2>2 DEF Reads, AnnouncedAt
<1>2. CASE StartRejected(t)
  <2>1. /\ starter[t] = "preparing" /\ starter'[t] = "over"
        /\ UNCHANGED <<runtime, tasks, completion, watcher, canceller, reconcile, status, announced>>
    BY <1>2 DEF StartRejected, TypeOK
  <2> QED
    BY <2>1 DEF AnnouncedAt
<1>3. CASE StartSpawn(t)
  <2>1. /\ starter[t] = "preparing" /\ starter'[t] = "spawned"
        /\ UNCHANGED <<runtime, tasks, watcher, canceller, reconcile, status, announced>>
    BY <1>3 DEF StartSpawn, TypeOK
  <2>2. ~Reported(t) /\ watcher[t].pc = "none"
    BY <2>1 DEF OrderAt, AnnouncedAt
  <2> QED
    BY <2>1, <2>2 DEF AnnouncedAt
<1>4. CASE StartRecord(t)
  <2>1. /\ Reads(tasks'[t], "RUNNING", t \in Detached, None) /\ starter'[t] = "recorded"
        /\ starter[t] = "spawned"
        /\ UNCHANGED <<runtime, completion, watcher, canceller, reconcile, status, announced>>
    BY <1>4, StartRecordEffect
  <2>2. ~Reported(t) /\ watcher[t].pc = "none"
    BY <2>1 DEF OrderAt, AnnouncedAt
  <2> QED
    BY <2>1, <2>2 DEF Reads, AnnouncedAt
<1>5. CASE StartWatch(t)
  <2>1. /\ watcher'[t].pc \in {"wait", "none"} /\ starter'[t] = "over" /\ starter[t] = "recorded"
        /\ UNCHANGED <<runtime, tasks, completion, canceller, reconcile, status, announced>>
    BY <1>5, StartWatchEffect
  <2>2. ~Reported(t) /\ tasks[t].state # "LOST"
    BY <2>1 DEF OrderAt, AnnouncedAt
  <2> QED
    BY <2>1, <2>2 DEF AnnouncedAt
<1>6. CASE WatchGet(t)
  <2>1. /\ Reads(watcher'[t].copy, tasks[t].state, tasks[t].backend_ref, completion[t])
        /\ watcher[t].pc = "wait" /\ watcher'[t].pc = "emit"
        /\ UNCHANGED <<runtime, tasks, completion, starter, canceller, reconcile, status, announced>>
    BY <1>6, WatchGetEffect
  <2> QED
    BY <2>1 DEF Reads, AnnouncedAt
<1>7. CASE WatchEmit(t)
  <2>1. /\ watcher[t].pc = "emit" /\ watcher'[t].pc = "upsert"
        /\ Reads(watcher'[t].copy, OutcomeAt(t), watcher[t].copy.backend_ref,
                 watcher[t].copy.exit_code)
        /\ announced'[t] = announced[t] \cup {OutcomeEvent(OutcomeAt(t))}
        /\ UNCHANGED <<runtime, tasks, completion, starter, canceller, reconcile, status>>
    BY <1>7, WatchEmitEffect
  <2>2. /\ OutcomeAt(t) = "SUCCEEDED" <=> OutcomeEvent(OutcomeAt(t)) = "task.completed"
        /\ OutcomeAt(t) = "FAILED" <=> OutcomeEvent(OutcomeAt(t)) = "task.failed"
        /\ OutcomeAt(t) = "SUCCEEDED" => watcher[t].copy.exit_code = "zero"
        /\ OutcomeAt(t) = "FAILED" => watcher[t].copy.exit_code = "nonzero"
        /\ OutcomeAt(t) = "LOST" => watcher[t].copy.exit_code = None
        /\ OutcomeAt(t) = "CANCELLED" => OutcomeEvent(OutcomeAt(t)) = "task.cancelled"
    BY OutcomeIs
  <2>3. completion[t] = watcher[t].copy.exit_code /\ tasks[t].state # "LOST"
    BY <2>1 DEF AnnouncedAt
  <2>4. /\ watcher[t].copy.exit_code = "zero" => status[t] = "zero"
        /\ watcher[t].copy.exit_code = "nonzero" => status[t] = "nonzero"
    BY <2>1 DEF StatusAt, RecordIsStatus, None
  <2>5. starter[t] = "over" /\ reconcile[t] = "done"
    BY <2>1 DEF OrderAt
  <2>6. /\ "task.completed" \in announced'[t] => "task.completed" \in announced[t] \/ status[t] = "zero"
        /\ "task.failed" \in announced'[t] => "task.failed" \in announced[t] \/ status[t] = "nonzero"
    BY <2>1, <2>2, <2>4
  <2>7. Reported(t)' => Reported(t) \/ completion[t] \notin {"pending", None}
    BY <2>1, <2>2, <2>3 DEF None
  <2> QED
    BY <2>1, <2>2, <2>3, <2>5, <2>6, <2>7 DEF Reads, AnnouncedAt
<1>8. CASE WatchUpsert(t)
  <2>1. /\ watcher[t].pc = "upsert" /\ watcher'[t].pc \in {"none", "pop"}
        /\ tasks'[t] = watcher[t].copy
        /\ UNCHANGED <<runtime, completion, starter, canceller, reconcile, status, announced>>
    BY <1>8, WatchUpsertEffect
  <2>2. Reported(t) => watcher[t].copy.state # "LOST"
    BY <2>1 DEF AnnouncedAt
  <2>3. starter[t] = "over" /\ reconcile[t] = "done"
    BY <2>1 DEF OrderAt
  <2> QED
    BY <2>1, <2>2, <2>3 DEF AnnouncedAt
<1>9. CASE WatchPop(t)
  <2>1. /\ watcher'[t].pc = "none"
        /\ UNCHANGED <<runtime, tasks, completion, starter, canceller, reconcile, status, announced>>
    BY <1>9, WatchPopEffect
  <2> QED
    BY <2>1 DEF AnnouncedAt
<1>10. CASE TailStep(t) \/ ShutdownDetach(t)
  <2>1. /\ completion[t] # "pending" => completion'[t] = completion[t]
        /\ UNCHANGED <<runtime, tasks, watcher, starter, canceller, reconcile, status, announced>>
    BY <1>10 DEF TailStep, TailStatus, TailProbe, TailRaises, ShutdownDetach, TypeOK
  <2>2. watcher[t].pc \in {"emit", "upsert"} => completion[t] # "pending"
    BY <1>e DEF AnnouncedAt, None
  <2> QED
    BY <2>1, <2>2 DEF AnnouncedAt
<1>11. CASE ProcessExits(t)
  BY <1>11 DEF ProcessExits
<1>12. CASE ReconcileStep(t)
  <2>1. /\ reconcile[t] # "done" /\ runtime = "booting"
        /\ UNCHANGED <<runtime, starter, canceller, status>>
    BY <1>12 DEF ReconcileStep, ReconcileFinished, ReconcileNoStatus, ReconcileAlive, ReconcileLost
  <2>2. watcher[t].pc = "none" /\ starter[t] = "over" /\ \A c \in Caller : ~Calls(c, t)
    BY <2>1 DEF OrderAt, TaskRecoverableStates
  <2>3. CASE ReconcileNoStatus(t)
    <3>1. /\ status[t] = None /\ tasks[t].backend_ref
          /\ UNCHANGED <<tasks, completion, watcher, announced>>
      BY <2>3 DEF ReconcileNoStatus
    <3>2. ~Reported(t)
      BY <3>1 DEF AnnouncedAt, None
    <3> QED
      BY <2>1, <2>2, <3>1, <3>2 DEF AnnouncedAt
  <2>4. CASE ReconcileFinished(t)
    <3>1. /\ Reads(tasks'[t], IF status[t] = "zero" THEN "SUCCEEDED" ELSE "FAILED",
                   tasks[t].backend_ref, status[t])
          /\ announced'[t] = announced[t] \cup {"task.recovered"}
          /\ UNCHANGED <<completion, watcher>> /\ reconcile'[t] = "done"
      BY <2>4, ReconcileFinishedEffect
    <3>2. Reported(t)' <=> Reported(t)
      BY <3>1
    <3> QED
      BY <2>1, <2>2, <3>1, <3>2 DEF AnnouncedAt, Reads
  <2>5. CASE ReconcileAlive(t)
    <3>1. /\ Reads(tasks'[t], "RUNNING", tasks[t].backend_ref, tasks[t].exit_code)
          /\ watcher'[t].pc = "wait" /\ reconcile'[t] = "done" /\ reconcile[t] = "probe"
          /\ UNCHANGED announced
      BY <2>5, ReconcileAliveEffect
    <3>2. ~Reported(t)
      BY <3>1 DEF AnnouncedAt
    <3> QED
      BY <2>1, <2>2, <3>1, <3>2 DEF AnnouncedAt, Reads
  <2>6. CASE ReconcileLost(t)
    <3>1. /\ Reads(tasks'[t], "LOST", tasks[t].backend_ref, tasks[t].exit_code)
          /\ reconcile[t] = "probe" \/ ~tasks[t].backend_ref
          /\ announced'[t] = announced[t] \cup {"task.lost"}
          /\ UNCHANGED <<completion, watcher>> /\ reconcile'[t] = "done"
      BY <2>6, ReconcileLostEffect
    <3>2. Reported(t) => ~tasks[t].backend_ref
      BY <3>1 DEF AnnouncedAt
    <3>3. Reported(t)' <=> Reported(t)
      BY <3>1
    <3> QED
      BY <2>1, <2>2, <3>1, <3>2, <3>3 DEF AnnouncedAt, Reads
  <2> QED
    BY <1>12, <2>3, <2>4, <2>5, <2>6 DEF ReconcileStep
<1> QED
  BY <1>1, <1>2, <1>3, <1>4, <1>5, <1>6, <1>7, <1>8, <1>9, <1>10, <1>11, <1>12
     DEF ServiceStep, StartStep, WatchStep

(* So do the launcher and the command: the status file is written once.    *)
LEMMA AnnouncedInWorld ==
    ASSUME TypeOK, NEW t \in Reachable, StatusAt(t), AnnouncedAt(t), WorldStep(t)
    PROVE  AnnouncedAt(t)'
<1>0. t \in Task
  BY ReachableFacts
<1>1. /\ UNCHANGED <<tasks, completion, starter, watcher, canceller, reconcile, announced>>
      /\ status'[t] = status[t] \/ launcher[t] # "gone"
  BY <1>0 DEF TypeOK, WorldStep, LauncherLives, LauncherForks, LauncherTraps,
         LauncherWrites, LauncherDies, ChildExits, LauncherStep, OnlyWorld
<1>2. \A d \in Caller : (Calls(d, t)' <=> Calls(d, t)) /\ canceller'[d] = canceller[d]
  BY <1>1, SameCalls
<1>3. status'[t] = status[t] \/ status[t] = None
  BY <1>1 DEF StatusAt
<1>4. Reported(t)' <=> Reported(t)
  BY <1>1 DEF Reported
<1> HIDE DEF Reported
<1> QED
  BY <1>1, <1>2, <1>3, <1>4 DEF AnnouncedAt, None

(* And a call: it writes CANCELLING, or CANCELLED and announces it.        *)
LEMMA AnnouncedCalled ==
    ASSUME TypeOK, NEW c \in Caller, CancelStep(c), NEW t \in Reachable, t = canceller[c].task,
           AnnouncedAt(t)
    PROVE  AnnouncedAt(t)'
<1>0. t \in Task /\ t \in Detached /\ t \notin LocalProcess
  BY ReachableFacts
<1>e. watcher[t].copy.exit_code \in {"zero", "nonzero", None}
  BY <1>0, WatcherFields, FieldFacts DEF TypeOK, ExitCode
<1> USE <1>0
<1>1. CASE CancelMark(c)
  <2>1. /\ Reads(tasks'[t], "CANCELLING", canceller[c].copy.backend_ref, canceller[c].copy.exit_code)
        /\ UNCHANGED <<completion, starter, watcher, reconcile, status, announced>>
    BY <1>1, CancelMarkEffect
  <2>2. Reported(t)' <=> Reported(t)
    BY <2>1 DEF Reported
  <2> HIDE DEF Reported
  <2> QED
    BY <2>1, <2>2 DEF AnnouncedAt, Reads
<1>2. CASE CancelFinish(c)
  <2>1. /\ Reads(tasks'[t], "CANCELLED", canceller[c].copy.backend_ref, canceller[c].copy.exit_code)
        /\ announced'[t] = announced[t] \cup {"task.cancelled"}
        /\ UNCHANGED <<completion, starter, watcher, reconcile, status>>
    BY <1>2, CancelFinishEffect
  <2>2. Reported(t)' <=> Reported(t)
    BY <2>1 DEF Reported
  <2> HIDE DEF Reported
  <2> QED
    BY <2>1, <2>2 DEF AnnouncedAt, Reads
<1>3. CASE CancelKill(c)
  <2>1. /\ UNCHANGED <<tasks, starter, reconcile, status, announced>>
        /\ completion[t] = "pending" /\ completion'[t] = "cancelled"
        /\ watcher[t].pc # "wait" => watcher'[t] = watcher[t]
        /\ watcher[t].pc = "wait" => watcher'[t].pc = "none"
    BY <1>3, CancelKillEffect
  <2>2. ~Reported(t) /\ watcher[t].pc \notin {"emit", "upsert"}
    BY <1>e, <2>1 DEF AnnouncedAt, None
  <2>3. Reported(t)' <=> Reported(t)
    BY <2>1 DEF Reported
  <2> HIDE DEF Reported
  <2> QED
    BY <2>1, <2>2, <2>3 DEF AnnouncedAt
<1>4. CASE CancelCheck(c) \/ CancelSignal(c) \/ CancelDone(c) \/ CancelRaises(c)
  <2>1. UNCHANGED <<tasks, completion, starter, watcher, reconcile, status, announced>>
    BY <1>4 DEF CancelCheck, CancelSignal, CancelDone, CancelRaises, Cancelling
  <2>2. Reported(t)' <=> Reported(t)
    BY <2>1 DEF Reported
  <2> HIDE DEF Reported
  <2> QED
    BY <2>1, <2>2 DEF AnnouncedAt
<1> QED
  BY <1>1, <1>2, <1>3, <1>4 DEF CancelStep

(* The rest of a step keeps it too.                                        *)
LEMMA AnnouncedAnswered ==
    ASSUME TypeOK, NEW c \in Caller, NEW s \in Task, CancelGet(c, s), NEW t \in Reachable,
           AnnouncedAt(t)
    PROVE  AnnouncedAt(t)'
<1>1. UNCHANGED <<tasks, completion, starter, watcher, reconcile, status, announced>>
  BY CancelGetEffect
<1>2. Reported(t)' <=> Reported(t)
  BY <1>1 DEF Reported
<1> HIDE DEF Reported
<1> QED
  BY <1>1, <1>2 DEF AnnouncedAt

(* The end and the start of the runtime keep AnnouncedAt.                   *)
LEMMA AnnouncedRestarted ==
    ASSUME TypeOK, SystemStep, NEW t \in Reachable, AnnouncedAt(t)
    PROVE  AnnouncedAt(t)'
<1>0. t \in Task
  BY ReachableFacts
<1>1. UNCHANGED <<tasks, status, announced>>
  BY <1>0, SystemEffect
<1>2. \/ /\ completion'[t] = "absent" /\ watcher'[t].pc = "none" /\ reconcile'[t] = "done"
         /\ starter'[t] = IF starter[t] = "idle" THEN "idle" ELSE "over"
         /\ \A c \in Caller : canceller'[c].pc = "idle"
      \/ /\ UNCHANGED <<completion, starter, watcher, canceller>>
         /\ reconcile'[t] \in {reconcile[t], "todo", "done"}
  BY <1>0, SystemEffect
<1>3. Reported(t)' <=> Reported(t)
  BY <1>1 DEF Reported
<1> HIDE DEF Reported
<1>4. CASE /\ UNCHANGED <<completion, starter, watcher, canceller>>
           /\ reconcile'[t] \in {reconcile[t], "todo", "done"}
  BY <1>1, <1>3, <1>4 DEF AnnouncedAt
<1>5. CASE /\ completion'[t] = "absent" /\ watcher'[t].pc = "none" /\ reconcile'[t] = "done"
           /\ starter'[t] = IF starter[t] = "idle" THEN "idle" ELSE "over"
           /\ \A c \in Caller : canceller'[c].pc = "idle"
  BY <1>1, <1>3, <1>5 DEF AnnouncedAt, None
<1> QED
  BY <1>2, <1>4, <1>5

(* So every step keeps AnnouncedAt for every reachable detached task.       *)
LEMMA AnnouncedStep ==
    ASSUME TypeOK, OrderInv, StatusInv, AnnouncedInv, [Next]_vars, NEW u \in Reachable
    PROVE  AnnouncedAt(u)'
<1>0. u \in Task /\ OrderAt(u) /\ StatusAt(u) /\ AnnouncedAt(u)
  BY ReachableFacts DEF OrderInv, StatusInv, AnnouncedInv
<1>1. ASSUME NEW t \in Task, ServiceStep(t) PROVE AnnouncedAt(u)'
  <2>1. CASE u = t
    BY <1>0, <1>1, <2>1, AnnouncedServed
  <2>2. CASE u # t
    BY <1>0, <1>1, <2>2, ServiceElsewhere, AnnouncedKept
  <2> QED
    BY <2>1, <2>2
<1>2. ASSUME NEW t \in Task, WorldStep(t) PROVE AnnouncedAt(u)'
  <2>1. CASE u = t
    BY <1>0, <1>2, <2>1, AnnouncedInWorld
  <2>2. CASE u # t
    BY <1>0, <1>2, <2>2, WorldElsewhere, AnnouncedKept
  <2> QED
    BY <2>1, <2>2
<1>3. ASSUME NEW c \in Caller, CancelStep(c) PROVE AnnouncedAt(u)'
  <2>1. CASE u = canceller[c].task
    BY <1>0, <1>3, <2>1, AnnouncedCalled
  <2>2. CASE u # canceller[c].task
    BY <1>0, <1>3, <2>2, CallElsewhere, AnnouncedKept
  <2> QED
    BY <2>1, <2>2
<1>4. ASSUME NEW c \in Caller, NEW t \in Task, CancelGet(c, t) PROVE AnnouncedAt(u)'
  BY <1>0, <1>4, AnnouncedAnswered
<1>5. CASE SystemStep
  BY <1>0, <1>5, AnnouncedRestarted
<1>6. CASE UNCHANGED vars
  BY <1>0, <1>6 DEF vars, AnnouncedAt, Calls, Reported
<1> QED
  BY <1>1, <1>2, <1>3, <1>4, <1>5, <1>6, StepsAre

(* The inductive invariant of AnnouncedNotReversed holds in every           *)
(* behaviour.                                                               *)
LEMMA AnnouncedInvariant == Spec => []AnnouncedInv
<1>0. Spec => []OrderInv
  BY OrderInvariant
<1>1. Init => AnnouncedInv
  <2> SUFFICES ASSUME Init, NEW u \in Reachable PROVE AnnouncedAt(u)
    BY DEF AnnouncedInv
  <2>0. u \in Task
    BY ReachableFacts
  <2>1. /\ watcher[u] = NoWatcher /\ starter[u] = "idle"
        /\ reconcile[u] = "done" /\ announced[u] = {} /\ tasks[u] = AbsentRecord
    BY <2>0 DEF Init
  <2>2. watcher[u].pc = "none" /\ tasks[u].state = "ABSENT"
    BY <2>1, FixedWatchers, AbsentFacts
  <2> QED
    BY <2>1, <2>2 DEF AnnouncedAt, Reported
<1>2. TypeOK /\ OrderInv /\ StatusInv /\ AnnouncedInv /\ [Next]_vars => AnnouncedInv'
  <2> SUFFICES ASSUME TypeOK, OrderInv, StatusInv, AnnouncedInv, [Next]_vars
               PROVE \A u \in Reachable : AnnouncedAt(u)'
    BY DEF AnnouncedInv
  <2> QED
    BY AnnouncedStep
<1> QED
  BY <1>0, <1>1, <1>2, TypeCorrect, StatusInvariant, PTL DEF Spec

(* An announced completion is never turned into FAILED or LOST, nor an     *)
(* announced failure into SUCCEEDED or LOST, for a task whose probes do    *)
(* not depend on a failing connection and whose record names its backend   *)
(* (a cancel that overtakes start writes back the PREPARING record, which  *)
(* names none); and a record is CANCELLED only after that was announced.   *)
THEOREM AnnouncementsAreNotReversed == Spec => []AnnouncedNotReversed
<1>1. StatusInv /\ AnnouncedInv => AnnouncedNotReversed
  <2> SUFFICES ASSUME StatusInv, AnnouncedInv, NEW t \in Reachable
               PROVE /\ tasks[t].backend_ref =>
                        /\ "task.completed" \in announced[t] => tasks[t].state \notin {"FAILED", "LOST"}
                        /\ "task.failed" \in announced[t] => tasks[t].state \notin {"SUCCEEDED", "LOST"}
                     /\ tasks[t].state = "CANCELLED" => "task.cancelled" \in announced[t]
    BY DEF AnnouncedNotReversed
  <2>1. StatusAt(t) /\ AnnouncedAt(t)
    BY ReachableFacts DEF StatusInv, AnnouncedInv
  <2>2. "task.completed" \in announced[t] \/ "task.failed" \in announced[t] => Reported(t)
    BY ReportedFacts
  <2> QED
    BY <2>1, <2>2 DEF StatusAt, RecordIsStatus, AnnouncedAt
<1> QED
  BY <1>1, StatusInvariant, AnnouncedInvariant, PTL

-----------------------------------------------------------------------------
(* Who attends to a record.                                                *)
Backed(t) == Attended(t) \/ Stranded(t)
CallsOn(c, t) == Calls(c, t) /\ canceller[c].pc \in {"mark", "signal", "await", "finish"}

(* The cases of Backed, to conclude it.                                    *)
LEMMA BackedBy ==
    ASSUME NEW t
    PROVE  /\ starter'[t] \in {"preparing", "spawned", "recorded"} => Backed(t)'
           /\ watcher'[t].pc \in {"emit", "upsert"} => Backed(t)'
           /\ /\ watcher'[t].pc = "wait" /\ Resolvable(t)'
              /\ tail'[t] = "died" => NetFaults /\ t \in SshDetached
              => Backed(t)'
           /\ reconcile'[t] # "done" => Backed(t)'
           /\ \A c \in Caller : CallsOn(c, t)' => Backed(t)'
           /\ Stranded(t)' => Backed(t)'
  BY DEF Backed, Attended, Stranded, Resolvable, CallsOn, Calls

(* And to use it.                                                          *)
LEMMA BackedCases ==
    ASSUME NEW t, Backed(t)
    PROVE  \/ starter[t] \in {"preparing", "spawned", "recorded"}
           \/ watcher[t].pc \in {"emit", "upsert"}
           \/ watcher[t].pc = "wait"
           \/ \E c \in Caller : CallsOn(c, t)
           \/ reconcile[t] # "done"
           \/ Stranded(t)
  BY DEF Backed, Attended, Calls, CallsOn

(* A record stays stranded while its state, its future and a _run task     *)
(* that died stay as they are.                                             *)
LEMMA StrandedStays ==
    ASSUME NEW t, Stranded(t), tasks'[t] = tasks[t], completion[t] # "pending" => completion'[t] = completion[t],
           tail[t] = "died" => tail'[t] = "died"
    PROVE  Stranded(t)'
  BY DEF Stranded

(* A future that is pending has somebody waiting for it, and so the record *)
(* is backed.                                                              *)
LEMMA PendingIsBacked ==
    ASSUME NEW t, completion'[t] = "pending",
           watcher'[t].pc = "wait" => Resolvable(t)',
           starter'[t] \in {"spawned", "recorded"} \/ watcher'[t].pc = "wait",
           tail'[t] = "died" => NetFaults /\ t \in SshDetached
    PROVE  Backed(t)'
  BY BackedBy

(* A step that leaves a task alone keeps AttendedAt.                       *)
LEMMA AttendedKept ==
    ASSUME NEW u, AttendedAt(u), Still(u), Uncalled(u), UNCHANGED runtime
    PROVE  AttendedAt(u)'
<1>1. \A d \in Caller : (Calls(d, u)' <=> Calls(d, u)) /\ (Calls(d, u) => canceller'[d] = canceller[d])
  BY ElsewhereCalls
<1>2. Resolvable(u)' <=> Resolvable(u)
  BY DEF Resolvable, Still
<1>3. Backed(u) => Backed(u)'
  <2> SUFFICES ASSUME Backed(u) PROVE Backed(u)'
    OBVIOUS
  <2>1. CASE \E c \in Caller : CallsOn(c, u)
    BY <1>1, <2>1, BackedBy DEF CallsOn
  <2>2. CASE Stranded(u)
    BY <2>2, StrandedStays, BackedBy DEF Still
  <2>3. CASE watcher[u].pc = "wait"
    BY <1>2, <2>3, BackedBy DEF Still, AttendedAt
  <2> QED
    BY <2>1, <2>2, <2>3, BackedCases, BackedBy DEF Still
<1>4. Running' <=> Running
  BY DEF Running
<1> QED
  BY <1>1, <1>2, <1>3, <1>4 DEF AttendedAt, Backed, Still

(* A coroutine keeps it for its own task.                                  *)
LEMMA AttendedServed ==
    ASSUME TypeOK, NEW t \in Task, OrderAt(t), AttendedAt(t), ServiceStep(t)
    PROVE  AttendedAt(t)'
<1>a. UNCHANGED canceller =>
        \A d \in Caller : (Calls(d, t)' <=> Calls(d, t)) /\ canceller'[d] = canceller[d]
  BY SameCalls
<1>b. completion[t] \in {"absent", "pending", "cancelled", "zero", "nonzero", None}
  BY DEF TypeOK, ExitCode, Resolved
<1>c. Resolved = {"zero", "nonzero", None} /\ None \notin {"pending", "cancelled"}
  BY DEF Resolved, ExitCode, None
<1> USE <1>a DEF Serving
<1>1. CASE StartPrepare(t)
  <2>1. /\ Reads(tasks'[t], "PREPARING", FALSE, None) /\ starter[t] = "idle"
        /\ starter'[t] = "preparing"
        /\ UNCHANGED <<task_handles, completion, tail, watcher, canceller>>
    BY <1>1, StartPrepareEffect
  <2>2. watcher[t].pc = "none" /\ \A c \in Caller : ~Calls(c, t)
    BY <2>1 DEF OrderAt
  <2> QED
    BY <2>1, <2>2 DEF Reads, AttendedAt
<1>2. CASE StartRejected(t)
  <2>1. /\ starter[t] = "preparing" /\ starter'[t] = "over"
        /\ UNCHANGED <<tasks, task_handles, completion, tail, watcher, canceller>>
    BY <1>2 DEF StartRejected, TypeOK
  <2>2. watcher[t].pc = "none" /\ tasks[t].state = "PREPARING"
    BY <2>1 DEF OrderAt
  <2> QED
    BY <2>1, <2>2 DEF AttendedAt
<1>3. CASE StartSpawn(t)
  <2>1. /\ starter[t] = "preparing" /\ starter'[t] = "spawned"
        /\ completion'[t] = "pending" /\ t \in task_handles'
        /\ t \in LocalProcess \/ tail'[t] = "poll"
        /\ tail'[t] \in {"poll", tail[t]}
        /\ UNCHANGED <<tasks, watcher, canceller>>
    BY <1>3 DEF StartSpawn, SpawnLauncher, SpawnProcess, LocalProcess, TypeOK
  <2>2. Resolvable(t)' /\ Backed(t)'
    BY <2>1, BackedBy DEF Resolvable
  <2>3. watcher[t].pc = "none" /\ \A c \in Caller : Calls(c, t) => canceller[c].pc = "check"
    BY <2>1 DEF OrderAt
  <2> QED
    BY <2>1, <2>2, <2>3 DEF AttendedAt, Backed
<1>4. CASE StartRecord(t)
  <2>1. /\ starter[t] = "spawned" /\ starter'[t] = "recorded"
        /\ UNCHANGED <<runtime, task_handles, completion, tail, watcher, canceller>>
    BY <1>4, StartRecordEffect
  <2>2. Backed(t)' /\ (Resolvable(t)' <=> Resolvable(t))
    BY <2>1, BackedBy DEF Resolvable
  <2> QED
    BY <2>1, <2>2 DEF AttendedAt, Backed
<1>5. CASE StartWatch(t)
  <2>1. /\ watcher'[t].pc = IF t \in task_handles THEN "wait" ELSE "none"
        /\ starter'[t] = "over" /\ starter[t] = "recorded"
        /\ UNCHANGED <<runtime, tasks, task_handles, completion, tail, canceller>>
    BY <1>5, StartWatchEffect
  <2>2. /\ t \in task_handles => Resolvable(t) /\ Resolvable(t)'
        /\ t \notin task_handles => t \in EarlyCancel /\ completion[t] # "pending"
    BY <2>1 DEF AttendedAt, Resolvable
  <2>3. Backed(t)'
    <3>1. CASE t \in task_handles
      BY <2>1, <2>2, <3>1, BackedBy DEF AttendedAt
    <3>2. CASE t \notin task_handles
      BY <2>1, <2>2, <3>2, BackedBy DEF Stranded
    <3> QED
      BY <3>1, <3>2
  <2> QED
    BY <2>1, <2>2, <2>3 DEF AttendedAt, Backed
<1>6. CASE WatchGet(t)
  <2>1. /\ watcher[t].pc = "wait" /\ watcher'[t].pc = "emit" /\ completion[t] \in Resolved
        /\ tail'[t] = "off"
        /\ UNCHANGED <<runtime, tasks, task_handles, completion, starter, canceller>>
    BY <1>6, WatchGetEffect
  <2>2. Backed(t)' /\ starter[t] = "over"
    BY <2>1, BackedBy DEF OrderAt
  <2> QED
    BY <1>c, <2>1, <2>2 DEF AttendedAt, Backed
<1>7. CASE WatchEmit(t)
  <2>1. /\ watcher[t].pc = "emit" /\ watcher'[t].pc = "upsert"
        /\ UNCHANGED <<runtime, tasks, task_handles, completion, tail, starter, canceller>>
    BY <1>7, WatchEmitEffect
  <2>2. Backed(t)' /\ starter[t] = "over"
    BY <2>1, BackedBy DEF OrderAt
  <2> QED
    BY <2>1, <2>2 DEF AttendedAt, Backed
<1>8. CASE WatchUpsert(t)
  <2>1. /\ watcher[t].pc = "upsert" /\ watcher'[t].pc \in {"none", "pop"}
        /\ tasks'[t] = watcher[t].copy
        /\ UNCHANGED <<task_handles, completion, tail, starter, canceller>>
    BY <1>8, WatchUpsertEffect
  <2>2. starter[t] = "over" /\ tasks'[t].state \notin {"RUNNING", "CANCELLING"}
    BY <2>1 DEF OrderAt, TerminalStates
  <2> QED
    BY <2>1, <2>2 DEF AttendedAt
<1>9. CASE WatchPop(t)
  <2>1. /\ watcher'[t].pc = "none" /\ watcher[t].pc = "pop" /\ t \notin task_handles'
        /\ UNCHANGED <<runtime, tasks, completion, tail, starter, canceller, reconcile>>
    BY <1>9, WatchPopEffect
  <2>2. starter[t] = "over"
    BY <2>1 DEF OrderAt
  <2>3. Stranded(t) => Stranded(t)'
    BY <2>1, StrandedStays
  <2>4. Backed(t) => Backed(t)'
    BY <2>1, <2>2, <2>3, BackedCases, BackedBy DEF CallsOn
  <2>5. Running' <=> Running
    BY <2>1 DEF Running
  <2> QED
    BY <2>1, <2>2, <2>4, <2>5 DEF AttendedAt, Backed
<1>10. CASE TailStep(t) \/ ShutdownDetach(t) \/ ProcessExits(t)
  <2>1. /\ UNCHANGED <<runtime, tasks, task_handles, watcher, starter, canceller, reconcile>>
        /\ completion'[t] \in Resolved \/ completion'[t] = completion[t]
        /\ completion[t] # "pending" => completion'[t] = completion[t]
        /\ \/ completion'[t] \in Resolved \/ completion[t] # "pending"
           \/ tail'[t] \in {"poll", "probe", "died"} \/ runtime = "stopping"
        /\ tail[t] = "died" => tail'[t] = "died"
        /\ tail'[t] = "died" => tail[t] = "died" \/ (NetFaults /\ t \in SshDetached)
    BY <1>10, <1>c DEF TailStep, TailStatus, TailProbe, TailRaises, ShutdownDetach, ProcessExits, TypeOK, ExitCode
  <2>2. Resolvable(t) => Resolvable(t)'
    BY <2>1 DEF Resolvable
  <2>3. /\ watcher[t].pc = "wait" => Resolvable(t)
        /\ tail'[t] = "died" => NetFaults /\ t \in SshDetached
    BY <2>1 DEF AttendedAt
  <2>4. Stranded(t) => Stranded(t)'
    BY <2>1, StrandedStays
  <2>5. Backed(t) => Backed(t)'
    BY <2>1, <2>2, <2>3, <2>4, BackedCases, BackedBy DEF CallsOn
  <2>6. Running' <=> Running
    BY <2>1 DEF Running
  <2> QED
    BY <1>c, <2>1, <2>2, <2>3, <2>5, <2>6 DEF AttendedAt, Backed
<1>11. CASE ReconcileStep(t)
  <2>1. /\ reconcile[t] # "done" /\ runtime = "booting"
        /\ UNCHANGED <<runtime, task_handles, starter, canceller>>
    BY <1>11 DEF ReconcileStep, ReconcileFinished, ReconcileNoStatus, ReconcileAlive, ReconcileLost
  <2>2. watcher[t].pc = "none" /\ starter[t] = "over" /\ \A c \in Caller : ~Calls(c, t)
    BY <2>1 DEF OrderAt, TaskRecoverableStates
  <2>3. CASE ReconcileNoStatus(t)
    <3>1. reconcile'[t] # "done" /\ UNCHANGED <<tasks, completion, tail, watcher>>
      BY <2>3 DEF ReconcileNoStatus, TypeOK
    <3>2. Backed(t)'
      BY <3>1, BackedBy
    <3> QED
      BY <2>1, <2>2, <3>1, <3>2 DEF AttendedAt, Backed
  <2>4. CASE ReconcileFinished(t)
    <3>1. /\ Reads(tasks'[t], IF status[t] = "zero" THEN "SUCCEEDED" ELSE "FAILED",
                   tasks[t].backend_ref, status[t])
          /\ UNCHANGED <<completion, tail, watcher>>
      BY <2>4, ReconcileFinishedEffect
    <3> QED
      BY <2>1, <2>2, <3>1 DEF AttendedAt, Reads
  <2>5. CASE ReconcileAlive(t)
    <3>1. /\ watcher'[t].pc = "wait" /\ completion'[t] = "pending" /\ tail'[t] = "poll"
      BY <2>5, ReconcileAliveEffect
    <3>2. Resolvable(t)'
      BY <3>1 DEF Resolvable
    <3>3. Backed(t)'
      BY <3>1, <3>2, BackedBy
    <3> QED
      BY <2>1, <2>2, <3>1, <3>2, <3>3 DEF AttendedAt, Backed
  <2>6. CASE ReconcileLost(t)
    <3>1. /\ Reads(tasks'[t], "LOST", tasks[t].backend_ref, tasks[t].exit_code)
          /\ UNCHANGED <<completion, tail, watcher>>
      BY <2>6, ReconcileLostEffect
    <3> QED
      BY <2>1, <2>2, <3>1 DEF AttendedAt, Reads
  <2> QED
    BY <1>11, <2>3, <2>4, <2>5, <2>6 DEF ReconcileStep
<1> QED
  BY <1>1, <1>2, <1>3, <1>4, <1>5, <1>6, <1>7, <1>8, <1>9, <1>10, <1>11
     DEF ServiceStep, StartStep, WatchStep

(* A process changes nothing it speaks of.                                 *)
LEMMA AttendedInWorld ==
    ASSUME TypeOK, NEW t \in Task, AttendedAt(t), NEW s \in Task, WorldStep(s)
    PROVE  AttendedAt(t)'
<1>1. UNCHANGED <<runtime, tasks, task_handles, completion, tail, starter, watcher, canceller, reconcile>>
  BY DEF WorldStep, LauncherLives, LauncherForks, LauncherTraps,
         LauncherWrites, LauncherDies, ChildExits, LauncherStep, OnlyWorld
<1> QED
  BY <1>1 DEF AttendedAt, Attended, Stranded, Resolvable, Running, Calls

(* A call keeps it, whatever other calls do: either it goes on, or it      *)
(* leaves a future that is pending to whoever waits for it, or what it     *)
(* leaves is stranded.                                                     *)
LEMMA AttendedCalled ==
    ASSUME TypeOK, NEW c \in Caller, CancelStep(c), NEW t \in Task, t = canceller[c].task,
           OrderAt(t), AttendedAt(t)
    PROVE  AttendedAt(t)'
<1>0. Serving /\ canceller[c].pc # "idle" /\ UNCHANGED <<runtime, starter, reconcile>>
  BY DEF CancelStep, CancelCheck, CancelMark, CancelSignal, CancelDone, CancelKill, CancelRaises,
         CancelFinish, Cancelling
<1>1. Calls(c, t) /\ Running /\ Running' /\ (t \notin EarlyCancel => starter[t] = "over")
  BY <1>0, OrderOver DEF Calls, Serving, Running
<1>c. Resolved = {"zero", "nonzero", None} /\ None \notin {"pending", "cancelled"}
  BY DEF Resolved, ExitCode, None
<1>2. CASE CancelCheck(c)
  <2>1. /\ CallIs(c, "mark", t, canceller[c].copy) \/ CallIs(c, "idle", t, AbsentRecord)
        /\ canceller[c].pc = "check"
        /\ UNCHANGED <<tasks, task_handles, completion, tail, watcher>>
    BY <1>2, CancelCheckEffect
  <2>2. \A d \in Caller : /\ Calls(d, t)' => Calls(d, t) /\ canceller'[d].pc \in {canceller[d].pc, "mark"}
                          /\ CallsOn(d, t) => CallsOn(d, t)'
    BY <1>1, <2>1, OtherCalls DEF CallsOn
  <2>3. (Resolvable(t)' <=> Resolvable(t)) /\ (watcher[t].pc = "wait" => Resolvable(t))
    BY <1>0, <2>1 DEF Resolvable, AttendedAt
  <2>4. Stranded(t) => Stranded(t)'
    BY <2>1, StrandedStays
  <2>5. tail'[t] = "died" => NetFaults /\ t \in SshDetached
    BY <2>1 DEF AttendedAt
  <2>6. Backed(t) => Backed(t)'
    BY <1>0, <2>1, <2>2, <2>3, <2>4, <2>5, BackedCases, BackedBy
  <2> QED
    BY <1>0, <1>1, <2>1, <2>2, <2>3, <2>6 DEF AttendedAt, Backed
<1>3. CASE CancelMark(c) \/ CancelDone(c)
  <2>1. PICK pc \in {"signal", "finish"} : \E r : CallIs(c, pc, t, r)
    BY <1>3, CancelMarkEffect, CancelDoneEffect
  <2>2. /\ CancelMark(c) => /\ Reads(tasks'[t], "CANCELLING", canceller[c].copy.backend_ref,
                                     canceller[c].copy.exit_code)
                            /\ UNCHANGED task_handles
        /\ CancelDone(c) => /\ UNCHANGED tasks /\ completion[t] \in Resolved /\ t \notin task_handles'
                            /\ canceller[c].pc = "await"
        /\ UNCHANGED <<completion, tail, watcher>>
    BY <1>3, CancelMarkEffect, CancelDoneEffect
  <2>3. CallsOn(c, t)' /\ Calls(c, t)'
    BY <2>1 DEF CallIs, CallsOn, Calls
  <2>4. Backed(t)'
    BY <2>3, BackedBy
  <2>5. (Resolvable(t)' <=> Resolvable(t)) /\ (watcher[t].pc = "wait" => Resolvable(t))
    BY <1>0, <2>2 DEF Resolvable, AttendedAt
  <2>6. t \in EarlyCancel \/ (starter'[t] = "over" /\ tasks'[t].state # "RUNNING")
    BY <1>0, <1>1, <1>3, <2>2 DEF AttendedAt, Reads
  <2> QED
    BY <1>0, <1>1, <1>3, <1>c, <2>2, <2>4, <2>5, <2>6 DEF AttendedAt, Backed
<1>4. CASE CancelSignal(c)
  <2>1. /\ CallIs(c, "await", t, canceller[c].copy)
           \/ (NetFaults /\ t \in SshDetached /\ CallIs(c, "idle", t, AbsentRecord))
        /\ canceller[c].pc = "signal"
        /\ UNCHANGED <<tasks, task_handles, completion, tail, watcher>>
    BY <1>4, CancelSignalEffect
  <2>2. (Resolvable(t)' <=> Resolvable(t)) /\ (watcher[t].pc = "wait" => Resolvable(t))
    BY <1>0, <2>1 DEF Resolvable, AttendedAt
  <2>3. t \in EarlyCancel \/ (starter[t] = "over" /\ tasks[t].state # "RUNNING")
    BY <1>1, <2>1 DEF AttendedAt
  <2>4. tasks[t].state \in {"RUNNING", "CANCELLING"} => Backed(t)'
    <3>1. CASE CallIs(c, "await", t, canceller[c].copy)
      <4>1. CallsOn(c, t)'
        BY <3>1 DEF CallIs, CallsOn, Calls
      <4> QED
        BY <4>1, BackedBy
    <3>2. CASE NetFaults /\ t \in SshDetached /\ tasks[t].state = "CANCELLING"
      BY <2>1, <3>2, BackedBy DEF Stranded
    <3>3. CASE t \in EarlyCancel /\ completion[t] # "pending"
      BY <2>1, <3>3, BackedBy DEF Stranded
    <3>4. CASE completion[t] = "pending"
      BY <1>0, <2>1, <2>2, <3>4, PendingIsBacked DEF AttendedAt
    <3> QED
      BY <2>1, <2>3, <3>1, <3>2, <3>3, <3>4
  <2> QED
    BY <1>0, <1>1, <2>1, <2>2, <2>3, <2>4 DEF AttendedAt, Backed
<1>5. CASE CancelKill(c)
  <2>1. /\ canceller[c].pc = "await" /\ completion[t] = "pending" /\ completion'[t] = "cancelled"
        /\ watcher'[t].pc # "wait"
        /\ UNCHANGED tasks
        /\ \/ /\ tail[t] = "died" /\ UNCHANGED <<task_handles, tail>>
           \/ /\ CallIs(c, "finish", t, canceller[c].copy) /\ t \notin task_handles' /\ tail'[t] = "off"
    BY <1>5, CancelKillEffect
  <2>2. tail'[t] = "died" => NetFaults /\ t \in SshDetached
    BY <2>1 DEF AttendedAt
  <2>3. t \in EarlyCancel \/ (starter[t] = "over" /\ tasks[t].state # "RUNNING")
    BY <1>1, <2>1 DEF AttendedAt
  <2>4. Backed(t)'
    <3>1. CASE tail'[t] = "died"
      BY <2>2, <3>1, BackedBy DEF Stranded
    <3>2. CASE CallIs(c, "finish", t, canceller[c].copy)
      <4>1. CallsOn(c, t)'
        BY <3>2 DEF CallIs, CallsOn, Calls
      <4> QED
        BY <4>1, BackedBy
    <3> QED
      BY <2>1, <3>1, <3>2
  <2>5. starter[t] \in {"spawned", "recorded"} => t \in EarlyCancel
    BY <1>1
  <2>6. tail'[t] = "died" => Resolvable(t)'
    BY DEF Resolvable
  <2> QED
    BY <1>0, <2>1, <2>2, <2>3, <2>4, <2>5, <2>6 DEF AttendedAt, Backed
<1>6. CASE CancelRaises(c)
  <2>1. /\ canceller[c].pc = "await"
        /\ completion[t] = "pending" \/ completion[t] = "cancelled"
        /\ CallIs(c, "idle", t, AbsentRecord)
        /\ UNCHANGED <<tasks, task_handles, completion, tail, watcher>>
    BY <1>6, CancelRaisesEffect
  <2>2. (Resolvable(t)' <=> Resolvable(t)) /\ (watcher[t].pc = "wait" => Resolvable(t))
    BY <1>0, <2>1 DEF Resolvable, AttendedAt
  <2>3. t \in EarlyCancel \/ (starter[t] = "over" /\ tasks[t].state # "RUNNING")
    BY <1>1, <2>1 DEF AttendedAt
  <2>4. tasks[t].state \in {"RUNNING", "CANCELLING"} => Backed(t)'
    <3>1. CASE completion[t] = "pending"
      BY <1>0, <2>1, <2>2, <3>1, PendingIsBacked DEF AttendedAt
    <3>2. CASE completion[t] = "cancelled"
      BY <2>1, <2>3, <3>2, BackedBy DEF Stranded
    <3> QED
      BY <2>1, <3>1, <3>2
  <2> QED
    BY <1>0, <1>1, <2>1, <2>2, <2>3, <2>4 DEF AttendedAt, Backed
<1>7. CASE CancelFinish(c)
  <2>1. /\ Reads(tasks'[t], "CANCELLED", canceller[c].copy.backend_ref, canceller[c].copy.exit_code)
        /\ canceller[c].pc = "finish"
        /\ UNCHANGED <<task_handles, completion, tail, watcher>>
    BY <1>7, CancelFinishEffect
  <2>2. (Resolvable(t)' <=> Resolvable(t))
    BY <1>0, <2>1 DEF Resolvable
  <2> QED
    BY <1>0, <1>1, <2>1, <2>2 DEF AttendedAt, Reads
<1> QED
  BY <1>2, <1>3, <1>4, <1>5, <1>6, <1>7 DEF CancelStep

(* The rest of a step keeps it too.                                        *)
LEMMA AttendedAnswered ==
    ASSUME TypeOK, NEW c \in Caller, NEW s \in Task, CancelGet(c, s), NEW t \in Task, AttendedAt(t)
    PROVE  AttendedAt(t)'
<1>1. /\ CallIs(c, "check", s, tasks[s]) /\ canceller[c].pc = "idle"
      /\ UNCHANGED <<runtime, tasks, task_handles, completion, tail, starter, watcher, reconcile>>
  BY CancelGetEffect
<1>2. \A d \in Caller : Calls(d, t)' => \/ Calls(d, t) /\ canceller'[d] = canceller[d]
                                        \/ canceller'[d].pc = "check"
  BY <1>1, OtherCalls
<1>3. \A d \in Caller : CallsOn(d, t) => CallsOn(d, t)'
  BY <1>1 DEF CallIs, Calls, CallsOn
<1>4. (Resolvable(t)' <=> Resolvable(t)) /\ (watcher[t].pc = "wait" => Resolvable(t))
  BY <1>1 DEF Resolvable, AttendedAt
<1>5. /\ Stranded(t) => Stranded(t)'
      /\ tail'[t] = "died" => NetFaults /\ t \in SshDetached
  BY <1>1, StrandedStays DEF AttendedAt
<1>6. Backed(t) => Backed(t)'
  BY <1>1, <1>3, <1>4, <1>5, BackedCases, BackedBy
<1>7. Running' <=> Running
  BY <1>1 DEF Running
<1> QED
  BY <1>1, <1>2, <1>4, <1>6, <1>7 DEF AttendedAt, Backed

(* The end of the runtime leaves nothing that runs, and its start lists     *)
(* every record that claims to.                                             *)
LEMMA AttendedRestarted ==
    ASSUME TypeOK, SystemStep, NEW t \in Task, OrderAt(t), AttendedAt(t)
    PROVE  AttendedAt(t)'
<1>1. UNCHANGED tasks
  BY SystemEffect
<1>2. CASE runtime' = "down"
  <2>1. /\ completion'[t] = "absent" /\ watcher'[t].pc = "none" /\ tail'[t] = "off"
        /\ starter'[t] \in {"idle", "over"}
        /\ \A c \in Caller : canceller'[c].pc = "idle"
    BY <1>2, SystemEffect DEF Running
  <2> QED
    BY <1>2, <2>1 DEF AttendedAt, Running
<1>3. CASE runtime' # "down"
  <2>1. UNCHANGED <<task_handles, completion, tail, starter, watcher, canceller>>
    BY <1>3, SystemEffect
  <2>2. \A d \in Caller : (Calls(d, t)' <=> Calls(d, t)) /\ canceller'[d] = canceller[d]
    BY <2>1, SameCalls
  <2>3. CASE runtime = "down"
    <3>1. reconcile'[t] = IF tasks[t].state \in TaskRecoverableStates THEN "todo" ELSE "done"
      BY <1>3, <2>3, SystemEffect DEF Running
    <3>2. tasks[t].state \in {"RUNNING", "CANCELLING"} => Backed(t)'
      BY <3>1, BackedBy DEF TaskRecoverableStates
    <3>3. watcher[t].pc = "none" /\ starter[t] \in {"idle", "over"}
      BY <2>3 DEF OrderAt
    <3> QED
      BY <1>1, <2>1, <2>2, <3>2, <3>3 DEF AttendedAt, Backed
  <2>4. CASE runtime # "down"
    <3>1. /\ reconcile'[t] = reconcile[t]
          /\ runtime = "stopping" => runtime' = "stopping"
      BY <1>3, <2>4, SystemEffect
    <3>2. (Resolvable(t) => Resolvable(t)') /\ (watcher[t].pc = "wait" => Resolvable(t))
      BY <2>1, <3>1 DEF Resolvable, AttendedAt
    <3>3. /\ Stranded(t) => Stranded(t)'
          /\ tail'[t] = "died" => NetFaults /\ t \in SshDetached
      BY <1>1, <2>1, StrandedStays DEF AttendedAt
    <3>4. Backed(t) => Backed(t)'
      BY <2>1, <2>2, <3>1, <3>2, <3>3, BackedCases, BackedBy DEF CallsOn
    <3> QED
      BY <1>1, <2>1, <2>2, <2>4, <3>2, <3>4 DEF AttendedAt, Backed, Running
  <2> QED
    BY <2>3, <2>4
<1> QED
  BY <1>2, <1>3

(* So every step keeps AttendedAt for every task, for any number of        *)
(* clients.                                                                *)
LEMMA AttendedStep ==
    ASSUME TypeOK, OrderInv, AttendedInv, [Next]_vars, NEW u \in Task
    PROVE  AttendedAt(u)'
<1>0. OrderAt(u) /\ AttendedAt(u)
  BY DEF OrderInv, AttendedInv
<1>1. ASSUME NEW t \in Task, ServiceStep(t) PROVE AttendedAt(u)'
  <2>1. CASE u = t
    BY <1>0, <1>1, <2>1, AttendedServed
  <2>2. CASE u # t
    BY <1>0, <1>1, <2>2, ServiceElsewhere, AttendedKept
  <2> QED
    BY <2>1, <2>2
<1>2. ASSUME NEW t \in Task, WorldStep(t) PROVE AttendedAt(u)'
  BY <1>0, <1>2, AttendedInWorld
<1>3. ASSUME NEW c \in Caller, CancelStep(c) PROVE AttendedAt(u)'
  <2>1. CASE u = canceller[c].task
    BY <1>0, <1>3, <2>1, AttendedCalled
  <2>2. CASE u # canceller[c].task
    BY <1>0, <1>3, <2>2, CallElsewhere, AttendedKept
  <2> QED
    BY <2>1, <2>2
<1>4. ASSUME NEW c \in Caller, NEW t \in Task, CancelGet(c, t) PROVE AttendedAt(u)'
  BY <1>0, <1>4, AttendedAnswered
<1>5. CASE SystemStep
  BY <1>0, <1>5, AttendedRestarted
<1>6. CASE UNCHANGED vars
  BY <1>0, <1>6 DEF vars, AttendedAt, Attended, Stranded, Resolvable, Running, Calls
<1> QED
  BY <1>1, <1>2, <1>3, <1>4, <1>5, <1>6, StepsAre

(* The inductive invariant of ClaimsAreAttended holds in every behaviour.  *)
LEMMA AttendedInvariant == Spec => []AttendedInv
<1>1. Init => AttendedInv
  <2> SUFFICES ASSUME Init, NEW u \in Task PROVE AttendedAt(u)
    BY DEF AttendedInv
  <2>1. /\ tasks[u] = AbsentRecord /\ watcher[u] = NoWatcher /\ starter[u] = "idle"
        /\ completion[u] = "absent" /\ tail[u] = "off"
    BY DEF Init
  <2>2. watcher[u].pc = "none" /\ tasks[u].state = "ABSENT"
    BY <2>1, AbsentFacts, FixedWatchers
  <2>3. \A c \in Caller : ~Calls(c, u)
    BY IdleFacts DEF Init, Calls
  <2> QED
    BY <2>1, <2>2, <2>3 DEF AttendedAt
<1>2. TypeOK /\ OrderInv /\ AttendedInv /\ [Next]_vars => AttendedInv'
  <2> SUFFICES ASSUME TypeOK, OrderInv, AttendedInv, [Next]_vars
               PROVE \A u \in Task : AttendedAt(u)'
    BY DEF AttendedInv
  <2> QED
    BY AttendedStep
<1> QED
  BY <1>1, <1>2, TypeCorrect, OrderInvariant, PTL DEF Spec

(* What the table says of a task is backed by the world, for any number of *)
(* clients that cancel it at any moment, also before its start returned,   *)
(* and with connections that fail: somebody attends to what it calls       *)
(* alive, or it is stranded in one of the ways Stranded names; what it     *)
(* calls cancelled was stopped; and what was announced is not reversed.    *)
THEOREM RecordsAreBacked == Spec => []RecordIsBacked
<1>1. AttendedInv => ClaimsAreAttended
  BY DEF AttendedInv, AttendedAt, ClaimsAreAttended
<1>2. ClaimsAreAttended /\ CancelledIsStopped /\ AnnouncedNotReversed => RecordIsBacked
  BY DEF RecordIsBacked
<1> QED
  BY <1>1, <1>2, AttendedInvariant, AnnouncementsAreNotReversed, CancelledHasStopped, PTL

-----------------------------------------------------------------------------
(* The refinement.  A step about one task writes one record at most, and   *)
(* a step that writes none abandons copies at most.                        *)
LEMMA WritersOf ==
    ASSUME NEW u \in Task
    PROVE  /\ u \in Writers <=>
                watcher[u].pc \in {"emit", "upsert"} \/ \E c \in Caller : Calls(c, u)
           /\ u \in Writers' <=>
                watcher'[u].pc \in {"emit", "upsert"} \/ \E c \in Caller : Calls(c, u)'
  BY DEF Writers

(* A task that is left alone has the writers it had.                        *)
LEMMA WritersKept ==
    ASSUME NEW u \in Task, Still(u), Uncalled(u)
    PROVE  u \in Writers' <=> u \in Writers
<1>1. \A d \in Caller : Calls(d, u)' <=> Calls(d, u)
  BY ElsewhereCalls
<1> QED
  BY <1>1, WritersOf DEF Still

(* A step that writes the record of one task, and adds no writer, is a Move.*)
LEMMA LifeMoves ==
    ASSUME TypeOK, TypeOK', NEW t \in Task, \A u \in Task \ {t} : Still(u) /\ Uncalled(u),
           child'[t] = child[t], t \in Writers' => t \in Writers, NEW to, tasks'[t].state = to
    PROVE  Life!Move(t, to)
<1>1. \A u \in Task \ {t} : u \in Writers' <=> u \in Writers
  BY WritersKept
<1>2. Writers \subseteq Task /\ Writers' \subseteq Task
  BY DEF Writers
<1>3. Writers' \in {Writers, Writers \ {t}}
  BY <1>1, <1>2
<1>4. [u \in Task |-> tasks'[u].state] = [[u \in Task |-> tasks[u].state] EXCEPT ![t] = to]
  BY DEF Still
<1>5. child' = child
  BY DEF Still, TypeOK
<1> QED
  BY <1>3, <1>4, <1>5 DEF Life!Move

(* A step that writes no record and adds no writer is a stutter or abandons *)
(* copies.                                                                  *)
LEMMA LifeAbandons ==
    ASSUME TypeOK, TypeOK', \A u \in Task : tasks'[u].state = tasks[u].state,
           child' = child, \A u \in Task : u \in Writers' => u \in Writers
    PROVE  Life!LNext
<1>1. Writers' \in SUBSET Writers
  BY DEF Writers
<1>2. [u \in Task |-> tasks'[u].state] = [u \in Task |-> tasks[u].state]
  OBVIOUS
<1> QED
  BY <1>1, <1>2 DEF Life!LNext, Life!Abandon

(* A step that only adds one writer opens its record.                       *)
LEMMA LifeOpens ==
    ASSUME TypeOK, TypeOK', NEW t \in Task, UNCHANGED <<tasks, child>>,
           \A u \in Task \ {t} : u \in Writers' <=> u \in Writers, t \in Writers'
    PROVE  Life!LNext
<1>1. Writers \subseteq Task /\ Writers' \subseteq Task
  BY DEF Writers
<1>2. Writers' = Writers \cup {t}
  BY <1>1
<1> QED
  BY <1>2 DEF Life!LNext, Life!Open

(* A step that only starts or ends one command is a Command.                *)
LEMMA LifeCommands ==
    ASSUME TypeOK, TypeOK', NEW t \in Task, UNCHANGED <<tasks, watcher, canceller>>,
           \A u \in Task \ {t} : child'[u] = child[u],
           \/ child[t] = "absent" /\ child'[t] = "running" /\ tasks[t].state # "ABSENT"
           \/ child[t] = "running" /\ child'[t] \in ExitCode
    PROVE  Life!LNext
<1>1. child' = [child EXCEPT ![t] = child'[t]]
  BY DEF TypeOK
<1>2. Writers' = Writers
  BY DEF Writers, Calls
<1>3. [u \in Task |-> tasks'[u].state] = [u \in Task |-> tasks[u].state]
  OBVIOUS
<1>4. [u \in Task |-> tasks[u].state][t] = tasks[t].state
  OBVIOUS
<1>5. Life!Command(t)
  <2>1. CASE child[t] = "absent" /\ child'[t] = "running" /\ tasks[t].state # "ABSENT"
    BY <1>1, <1>2, <1>3, <1>4, <2>1 DEF Life!Command
  <2>2. CASE child[t] = "running" /\ child'[t] \in ExitCode
    BY <1>1, <1>2, <1>3, <2>2 DEF Life!Command, ExitCode
  <2> QED
    BY <2>1, <2>2
<1> QED
  BY <1>5 DEF Life!LNext
(* When the record of a task is one that may still be written.             *)
LEMMA LifeLives ==
    ASSUME NEW t \in Task
    PROVE  Life!Live(t) <=> /\ tasks[t].state # "ABSENT"
                            /\ tasks[t].state \notin TerminalStates \/ t \in Writers
<1>1. [u \in Task |-> tasks[u].state][t] = tasks[t].state
  OBVIOUS
<1> QED
  BY <1>1 DEF Life!Live, Life!Settled, Life!Terminal, TerminalStates
(* A write of a record that may still be written.                          *)
LEMMA LifeWrites ==
    ASSUME NEW t \in Task, NEW to, Life!Move(t, to),
           \/ to = "PREPARING" /\ tasks[t].state = "ABSENT"
           \/ to = "RUNNING" /\ tasks[t].state \in {"PREPARING", "CANCELLING"}
           \/ to \in {"CANCELLING", "CANCELLED"} /\ t \in Writers /\ Life!Live(t)
           \/ to = "LOST" /\ Life!Live(t)
           \/ to = "SUCCEEDED" /\ child[t] = "zero" /\ Life!Live(t)
           \/ to = "FAILED" /\ child[t] = "nonzero" /\ Life!Live(t)
    PROVE  Life!LNext
<1>1. [u \in Task |-> tasks[u].state][t] = tasks[t].state
  OBVIOUS
<1>2. \/ Life!Prepare(t) \/ Life!Run(t) \/ Life!AskToStop(t) \/ Life!Stop(t) \/ Life!Lose(t)
      \/ Life!Succeed(t) \/ Life!Fail(t)
  BY <1>1 DEF Life!Prepare, Life!Run, Life!AskToStop, Life!Stop, Life!Lose, Life!Succeed, Life!Fail
<1> QED
  BY <1>2 DEF Life!LNext
(* Every step of a coroutine is a step of TaskLifecycle.                   *)
LEMMA LifeServed ==
    ASSUME TypeOK, TypeOK', NEW t \in Task, t \notin EarlyCancel, OrderAt(t), RealAt(t),
           ServiceStep(t)
    PROVE  Life!LNext
<1>1. \A u \in Task \ {t} : Still(u) /\ Uncalled(u)
  BY ServiceElsewhere
<1>2. UNCHANGED canceller
  BY DEF ServiceStep, StartPrepare, StartStep, StartRejected, StartSpawn, StartRecord, StartWatch,
         WatchStep, WatchGet, WatchEmit, WatchUpsert, WatchPop, TailStep, TailStatus, TailProbe,
         TailRaises, ProcessExits, ShutdownDetach, ReconcileStep, ReconcileFinished,
         ReconcileNoStatus, ReconcileAlive, ReconcileLost
<1>3. \A d \in Caller : Calls(d, t)' <=> Calls(d, t)
  BY <1>2, SameCalls
<1>4. /\ \A u \in Task \ {t} : u \in Writers' <=> u \in Writers
      /\ \A u \in Task \ {t} : tasks'[u].state = tasks[u].state
  BY <1>1, WritersKept DEF Still
<1>5. (watcher'[t].pc \in {"emit", "upsert"} => watcher[t].pc \in {"emit", "upsert"}) =>
        (t \in Writers' => t \in Writers)
  BY <1>3, WritersOf
<1>6. ASSUME tasks'[t].state = tasks[t].state, child' = child,
             watcher'[t].pc \in {"emit", "upsert"} => watcher[t].pc \in {"emit", "upsert"}
      PROVE  Life!LNext
  BY <1>4, <1>5, <1>6, LifeAbandons
<1>7. ASSUME NEW to, tasks'[t].state = to, child' = child,
             watcher'[t].pc \in {"emit", "upsert"} => watcher[t].pc \in {"emit", "upsert"}
      PROVE  Life!Move(t, to)
  BY <1>1, <1>5, <1>7, LifeMoves
<1>11. CASE StartPrepare(t)
  <2>1. /\ Reads(tasks'[t], "PREPARING", FALSE, None) /\ starter[t] = "idle"
        /\ UNCHANGED <<watcher, child>>
    BY <1>11, StartPrepareEffect
  <2>2. Life!Move(t, "PREPARING") /\ tasks[t].state = "ABSENT"
    BY <1>7, <2>1 DEF Reads, OrderAt
  <2> QED
    BY <2>2, LifeWrites
<1>12. CASE StartRejected(t)
  BY <1>6, <1>12 DEF StartRejected
<1>13. CASE StartSpawn(t)
  <2>1. /\ starter[t] = "preparing" /\ UNCHANGED <<tasks, watcher>>
        /\ UNCHANGED child \/ child' = [child EXCEPT ![t] = "running"]
    BY <1>13 DEF StartSpawn, SpawnLauncher, SpawnProcess
  <2>2. child[t] = "absent" /\ tasks[t].state # "ABSENT"
    BY <2>1 DEF RealAt, OrderAt
  <2>3. CASE UNCHANGED child
    BY <1>6, <2>1, <2>3
  <2>4. CASE child' = [child EXCEPT ![t] = "running"]
    <3>1. child'[t] = "running" /\ \A u \in Task \ {t} : child'[u] = child[u]
      BY <2>4 DEF TypeOK
    <3> QED
      BY <1>2, <2>1, <2>2, <3>1, LifeCommands
  <2> QED
    BY <2>1, <2>3, <2>4
<1>14. CASE StartRecord(t)
  <2>1. /\ Reads(tasks'[t], "RUNNING", t \in Detached, None) /\ starter[t] = "spawned"
        /\ UNCHANGED <<watcher, child>>
    BY <1>14, StartRecordEffect
  <2>2. Life!Move(t, "RUNNING") /\ tasks[t].state = "PREPARING"
    BY <1>7, <2>1 DEF Reads, OrderAt
  <2> QED
    BY <2>2, LifeWrites
<1>15. CASE StartWatch(t)
  <2>1. watcher'[t].pc \in {"wait", "none"} /\ UNCHANGED <<tasks, child>>
    BY <1>15, StartWatchEffect
  <2> QED
    BY <1>6, <2>1
<1>16. CASE WatchGet(t)
  <2>1. watcher'[t].pc = "emit" /\ UNCHANGED <<tasks, child>>
    BY <1>16, WatchGetEffect
  <2>2. t \in Writers'
    BY <2>1, WritersOf
  <2> QED
    BY <1>4, <2>1, <2>2, LifeOpens
<1>17. CASE WatchEmit(t)
  <2>1. watcher[t].pc = "emit" /\ UNCHANGED <<tasks, child>>
    BY <1>17, WatchEmitEffect
  <2> QED
    BY <1>6, <2>1
<1>18. CASE WatchUpsert(t)
  <2>1. /\ watcher[t].pc = "upsert" /\ watcher'[t].pc \in {"none", "pop"}
        /\ tasks'[t] = watcher[t].copy /\ UNCHANGED child
    BY <1>18, WatchUpsertEffect
  <2>2. /\ tasks'[t].state \in TerminalStates /\ t \in Writers /\ Life!Live(t)
        /\ tasks'[t].state = "SUCCEEDED" => child[t] = "zero"
        /\ tasks'[t].state = "FAILED" => child[t] = "nonzero"
    BY <2>1, WritersOf, LifeLives DEF OrderAt, RealAt, RecordIsReal
  <2>3. ASSUME NEW to \in TerminalStates, tasks'[t].state = to PROVE Life!LNext
    <3>1. Life!Move(t, to)
      BY <1>7, <2>1, <2>3
    <3> QED
      BY <2>2, <2>3, <3>1, LifeWrites DEF TerminalStates
  <2> QED
    BY <2>2, <2>3
<1>19. CASE WatchPop(t)
  <2>1. watcher'[t].pc = "none" /\ UNCHANGED <<tasks, child>>
    BY <1>19, WatchPopEffect
  <2> QED
    BY <1>6, <2>1
<1>20. CASE TailStep(t) \/ ShutdownDetach(t) \/ ProcessExits(t)
  <2>1. UNCHANGED <<tasks, watcher, child>>
    BY <1>20 DEF TailStep, TailStatus, TailProbe, TailRaises, ShutdownDetach, ProcessExits
  <2> QED
    BY <1>6, <2>1
<1>21. CASE ReconcileStep(t)
  <2>1. reconcile[t] # "done" /\ UNCHANGED child
    BY <1>21 DEF ReconcileStep, ReconcileFinished, ReconcileNoStatus, ReconcileAlive, ReconcileLost
  <2>2. tasks[t].state \in {"PREPARING", "RUNNING", "CANCELLING"} /\ Life!Live(t)
    BY <2>1, LifeLives DEF OrderAt, TaskRecoverableStates, TerminalStates
  <2>3. CASE ReconcileNoStatus(t)
    BY <1>6, <2>3 DEF ReconcileNoStatus
  <2>4. CASE ReconcileFinished(t)
    <3>1. /\ Reads(tasks'[t], IF status[t] = "zero" THEN "SUCCEEDED" ELSE "FAILED",
                   tasks[t].backend_ref, status[t])
          /\ status[t] # None /\ UNCHANGED watcher
      BY <2>4, ReconcileFinishedEffect
    <3>2. status[t] \in {"zero", "nonzero"} /\ child[t] = status[t]
      BY <3>1 DEF RealAt, TypeOK, ExitCode
    <3>4. CASE status[t] = "zero"
      <4>1. Life!Move(t, "SUCCEEDED")
        BY <1>7, <2>1, <3>1, <3>4 DEF Reads
      <4> QED
        BY <2>2, <3>2, <3>4, <4>1, LifeWrites
    <3>5. CASE status[t] = "nonzero"
      <4>1. Life!Move(t, "FAILED")
        BY <1>7, <2>1, <3>1, <3>5 DEF Reads
      <4> QED
        BY <2>2, <3>2, <3>5, <4>1, LifeWrites
    <3> QED
      BY <3>2, <3>4, <3>5
  <2>5. CASE ReconcileAlive(t)
    <3>1. /\ Reads(tasks'[t], "RUNNING", tasks[t].backend_ref, tasks[t].exit_code)
          /\ watcher'[t].pc = "wait"
      BY <2>5, ReconcileAliveEffect
    <3>2. CASE tasks[t].state = "RUNNING"
      BY <1>6, <2>1, <3>1, <3>2 DEF Reads
    <3>3. CASE tasks[t].state # "RUNNING"
      <4>1. Life!Move(t, "RUNNING")
        BY <1>7, <2>1, <3>1 DEF Reads
      <4> QED
        BY <2>2, <3>3, <4>1, LifeWrites
    <3> QED
      BY <3>2, <3>3
  <2>6. CASE ReconcileLost(t)
    <3>1. /\ Reads(tasks'[t], "LOST", tasks[t].backend_ref, tasks[t].exit_code)
          /\ UNCHANGED watcher
      BY <2>6, ReconcileLostEffect
    <3>2. Life!Move(t, "LOST")
      BY <1>7, <2>1, <3>1 DEF Reads
    <3> QED
      BY <2>2, <3>2, LifeWrites
  <2> QED
    BY <1>21, <2>3, <2>4, <2>5, <2>6 DEF ReconcileStep
<1> QED
  BY <1>11, <1>12, <1>13, <1>14, <1>15, <1>16, <1>17, <1>18, <1>19, <1>20, <1>21
     DEF ServiceStep, StartStep, WatchStep

(* So is every step of a launcher or a command: it starts for a prepared   *)
(* task and ends once.                                                     *)
LEMMA LifeInWorld ==
    ASSUME TypeOK, TypeOK', NEW t \in Task, OrderAt(t), RealAt(t), WorldStep(t)
    PROVE  Life!LNext
<1>1. UNCHANGED <<tasks, watcher, canceller>>
  BY DEF WorldStep, LauncherLives, LauncherForks, LauncherTraps, LauncherWrites, LauncherDies,
         ChildExits, LauncherStep, OnlyWorld
<1>2. \/ UNCHANGED child
      \/ launcher[t] = "starting" /\ child' = [child EXCEPT ![t] = "running"]
      \/ child[t] = "running" /\ \E code \in ExitCode : child' = [child EXCEPT ![t] = code]
  BY DEF WorldStep, LauncherLives, LauncherForks, LauncherTraps, LauncherWrites, LauncherDies,
         ChildExits, LauncherStep, OnlyWorld
<1>3. CASE UNCHANGED child
  <2>1. Writers' = Writers
    BY <1>1 DEF Writers, Calls
  <2> QED
    BY <1>1, <1>3, <2>1, LifeAbandons
<1>4. CASE launcher[t] = "starting" /\ child' = [child EXCEPT ![t] = "running"]
  <2>1. child[t] = "absent" /\ tasks[t].state # "ABSENT"
    BY <1>4 DEF RealAt, OrderAt
  <2>2. child'[t] = "running" /\ \A u \in Task \ {t} : child'[u] = child[u]
    BY <1>4 DEF TypeOK
  <2> QED
    BY <1>1, <2>1, <2>2, LifeCommands
<1>5. CASE child[t] = "running" /\ \E code \in ExitCode : child' = [child EXCEPT ![t] = code]
  <2>1. child'[t] \in ExitCode /\ \A u \in Task \ {t} : child'[u] = child[u]
    BY <1>5 DEF TypeOK
  <2> QED
    BY <1>1, <1>5, <2>1, LifeCommands
<1> QED
  BY <1>2, <1>3, <1>4, <1>5

(* And every step of a cancel.                                             *)
LEMMA LifeCalled ==
    ASSUME TypeOK, TypeOK', NEW c \in Caller, CancelStep(c), NEW t \in Task,
           t = canceller[c].task, OrderAt(t)
    PROVE  Life!LNext
<1>1. \A u \in Task \ {t} : Still(u) /\ Uncalled(u)
  BY CallElsewhere
<1>2. canceller[c].pc # "idle" /\ UNCHANGED child
  BY DEF CancelStep, CancelCheck, CancelMark, CancelSignal, CancelDone, CancelKill, CancelRaises,
         CancelFinish, Cancelling
<1>3. Calls(c, t)
  BY <1>2 DEF Calls
<1>4. t \in Writers /\ Life!Live(t)
  BY <1>3, WritersOf, LifeLives DEF OrderAt
<1>5. CASE CancelMark(c)
  <2>1. tasks'[t].state = "CANCELLING"
    BY <1>5, CancelMarkEffect DEF Reads
  <2>2. Life!Move(t, "CANCELLING")
    BY <1>1, <1>2, <1>4, <2>1, LifeMoves
  <2> QED
    BY <1>4, <2>2, LifeWrites
<1>6. CASE CancelFinish(c)
  <2>1. tasks'[t].state = "CANCELLED"
    BY <1>6, CancelFinishEffect DEF Reads
  <2>2. Life!Move(t, "CANCELLED")
    BY <1>1, <1>2, <1>4, <2>1, LifeMoves
  <2> QED
    BY <1>4, <2>2, LifeWrites
<1>7. CASE UNCHANGED tasks
  <2>1. \A u \in Task : u \in Writers' => u \in Writers
    BY <1>1, <1>4, WritersKept
  <2> QED
    BY <1>2, <1>7, <2>1, LifeAbandons
<1> QED
  BY <1>5, <1>6, <1>7 DEF CancelStep, CancelCheck, CancelSignal, CancelDone, CancelKill,
                          CancelRaises

(* A cancel that reads a record opens it.                                   *)
LEMMA LifeAnswered ==
    ASSUME TypeOK, TypeOK', NEW c \in Caller, NEW t \in Task, CancelGet(c, t)
    PROVE  Life!LNext
<1>1. /\ CallIs(c, "check", t, tasks[t]) /\ canceller[c].pc = "idle"
      /\ UNCHANGED <<tasks, watcher, child>>
  BY CancelGetEffect
<1>2. \A u \in Task \ {t}, d \in Caller : Calls(d, u)' <=> Calls(d, u)
  BY <1>1 DEF CallIs, Calls
<1>3. Calls(c, t)'
  BY <1>1 DEF CallIs, Calls
<1>4. t \in Writers' /\ \A u \in Task \ {t} : u \in Writers' <=> u \in Writers
  BY <1>1, <1>2, <1>3, WritersOf
<1> QED
  BY <1>1, <1>4, LifeOpens

(* The end and the start of the runtime write no record.                   *)
LEMMA LifeRestarted ==
    ASSUME TypeOK, TypeOK', SystemStep
    PROVE  Life!LNext
<1>1. UNCHANGED <<tasks, child>>
  BY DEF SystemStep, Crash, ShutdownBegin, ShutdownEnd, Boot, BootDone
<1>2. ASSUME NEW u \in Task PROVE u \in Writers' => u \in Writers
  <2>1. CASE watcher'[u].pc = "none" /\ \A c \in Caller : canceller'[c].pc = "idle"
    <3>1. \A c \in Caller : ~Calls(c, u)'
      BY <2>1 DEF Calls
    <3> QED
      BY <2>1, <3>1, WritersOf
  <2>2. CASE UNCHANGED <<watcher, canceller>>
    <3>1. \A d \in Caller : Calls(d, u)' <=> Calls(d, u)
      BY <2>2, SameCalls
    <3> QED
      BY <2>2, <3>1, WritersOf
  <2> QED
    BY <2>1, <2>2, SystemEffect
<1> QED
  BY <1>1, <1>2, LifeAbandons

(* Every behaviour of the task service is one of TaskLifecycle, when       *)
(* nobody cancels a task before its start has returned and every launcher  *)
(* is the Python one: a client sees one life per task, an outcome in it is *)
(* true, and a terminal state is final once no watcher or cancel that read *)
(* the record before is left, whatever crashes.                            *)
THEOREM TaskServiceImplementsLifecycle ==
    EarlyCancel = {} /\ ShLauncher = {} => (Spec => RefinesLifecycle)
<1> SUFFICES ASSUME EarlyCancel = {}, ShLauncher = {} PROVE Spec => RefinesLifecycle
  OBVIOUS
<1>0. Spec => []OrderInv
  BY OrderInvariant
<1>1. Init => Life!LInit
  <2> SUFFICES ASSUME Init PROVE Life!LInit
    OBVIOUS
  <2>1. \A u \in Task : tasks[u].state = "ABSENT"
    BY AbsentFacts DEF Init
  <2>2. \A u \in Task : watcher[u].pc = "none"
    BY FixedWatchers DEF Init
  <2>3. \A u \in Task, c \in Caller : ~Calls(c, u)
    BY IdleFacts DEF Init, Calls
  <2>4. Writers = {}
    BY <2>2, <2>3 DEF Writers
  <2>5. child = [u \in Task |-> "absent"]
    BY DEF Init
  <2> QED
    BY <2>1, <2>4, <2>5 DEF Life!LInit
<1>2. TypeOK /\ TypeOK' /\ OrderInv /\ RealInv /\ [Next]_vars => [Life!LNext]_(Life!lvars)
  <2> SUFFICES ASSUME TypeOK, TypeOK', OrderInv, RealInv, [Next]_vars
               PROVE  Life!LNext \/ UNCHANGED Life!lvars
    OBVIOUS
  <2>0. \A u \in Task : OrderAt(u) /\ RealAt(u)
    BY DEF OrderInv, RealInv
  <2>1. ASSUME NEW t \in Task, ServiceStep(t) PROVE Life!LNext
    BY <2>0, <2>1, LifeServed
  <2>2. ASSUME NEW t \in Task, WorldStep(t) PROVE Life!LNext
    BY <2>0, <2>2, LifeInWorld
  <2>3. ASSUME NEW c \in Caller, CancelStep(c) PROVE Life!LNext
    <3>1. canceller[c].task \in Task
      BY CallFields DEF TypeOK
    <3> QED
      BY <2>0, <2>3, <3>1, LifeCalled
  <2>4. ASSUME NEW c \in Caller, NEW t \in Task, CancelGet(c, t) PROVE Life!LNext
    BY <2>4, LifeAnswered
  <2>5. CASE SystemStep
    BY <2>5, LifeRestarted
  <2>6. CASE UNCHANGED vars
    BY <2>6 DEF vars, Life!lvars, Writers, Calls
  <2> QED
    BY <2>1, <2>2, <2>3, <2>4, <2>5, <2>6, StepsAre
<1> QED
  BY <1>0, <1>1, <1>2, TypeCorrect, RealInvariant, PTL DEF Spec, RefinesLifecycle, Life!Lifecycle
===============================================================================
