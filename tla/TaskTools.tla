------------------------------- MODULE TaskTools -------------------------------
(***************************************************************************)
(* The task tools of the harness - run_command, start_task, observe_task,  *)
(* cancel_task, list_tasks - and the part of the WorkContext they keep:    *)
(* the active task, the one log cursor, the exit code last seen and a      *)
(* brief per task.                                                         *)
(*                                                                         *)
(* One call runs at a time.  It works in threads: the runtime changes      *)
(* while it waits, and the registry's timeout can end it at every await.   *)
(* The thread of a call that was cut goes on, so a task may start that     *)
(* nobody recorded.                                                        *)
(*                                                                         *)
(* The runtime is seen through its table, and the record of a job is not   *)
(* what its command did: the watcher records the outcome some time after   *)
(* the end, or gives the job up as LOST; a cancel writes CANCELLED over    *)
(* whatever the record says, and the watcher may write over that; neither  *)
(* stops the command for certain.  CANCELLING is not told from RUNNING:    *)
(* the tools treat both alike.                                             *)
(***************************************************************************)
EXTENDS Naturals, Sequences, FiniteSets

CONSTANTS
    Task,     \* the ids the runtime will hand out
    MaxLog,   \* bound on the characters a job prints
    MaxChars, \* max_output_chars of the calls
    MaxCuts   \* bound on the calls that time out or fail

None == "None"
TERMINAL_TASK_STATES == {"SUCCEEDED", "FAILED", "CANCELLED", "LOST"}
TaskStates == {"RUNNING"} \cup TERMINAL_TASK_STATES
Codes == {"zero", "nonzero"}

ASSUME ToolBoundAssumption == MaxLog \in Nat /\ MaxChars \in Nat /\ MaxCuts \in Nat
ASSUME NoneIsNoTask == None \notin Task

VARIABLES
    job,          \* the runtime: the record's state and code, how the command
                  \* really ended, whether its watcher is still to record it and
                  \* its handle is held, the length of the log, and how much of
                  \* it is stderr
    cancels,      \* jobs whose cancel was begun
    active_task_id,
    task_log_cursor,
    last_command_exit_code,
    task_briefs,  \* per task: state and exit_code, state None when absent
    tcall,        \* the task tool in progress
    threads,      \* threads whose call was cut: <<operation, task>>
    cuts,
    shown,        \* history: per task not in partial, the characters returned
    partial,      \* history: tasks whose log was read at another's cursor, lost
                  \* with a call that was cut, or marked as truncated
    cursorOf,     \* history: the task task_log_cursor was set for
    codeOf,       \* history: the task last_command_exit_code was set for
    returned,     \* history: tasks whose starting call ended normally
    sawEnd        \* history: tasks an observation reported SUCCEEDED or FAILED

runtimeTasks == <<job, cancels, threads>>
taskContext == <<active_task_id, task_log_cursor, last_command_exit_code,
                 task_briefs>>
taskHistory == <<shown, partial, cursorOf, codeOf, returned, sawEnd>>
taskVars == <<runtimeTasks, taskContext, tcall, cuts, taskHistory>>

Absent == [state |-> "absent", code |-> None, ended |-> None, watched |-> FALSE,
           held |-> FALSE, log |-> 0, err |-> 0]
NoBrief == [state |-> None, exit_code |-> None]

(* waits: an observation follows the start; state, code, len and err: what *)
(* the thread of TaskNamespace.observe has read; got: the chunks so far.   *)
NoTaskCall == [tool |-> "none", pc |-> "idle", task |-> None, waits |-> FALSE,
               state |-> None, code |-> None, len |-> 0, err |-> 0, got |-> <<>>]

(* The n-th character of a stream.                                         *)
Char == {"stdout", "stderr"} \X (1..MaxLog)
JobRecord == [state : TaskStates \cup {"absent"}, code : Codes \cup {None},
              ended : Codes \cup {None}, watched : BOOLEAN, held : BOOLEAN,
              log : 0..MaxLog, err : 0..MaxLog]
BriefRecord == [state : TaskStates \cup {None}, exit_code : Codes \cup {None}]
TaskTool == {"none", "run_command", "start_task", "observe_task", "cancel_task"}
TaskPc == {"idle", "launch", "launched", "get", "logs", "observed", "cancel", "cancelled"}
TaskCallRecord == [tool : TaskTool, pc : TaskPc, task : Task \cup {None}, waits : BOOLEAN,
                   state : TaskStates \cup {None}, code : Codes \cup {None},
                   len : 0..MaxLog, err : 0..MaxLog, got : Seq(Char)]

TaskTypeOK ==
    /\ job \in [Task -> JobRecord]
    /\ active_task_id \in Task \cup {None}
    /\ task_log_cursor \in 0..MaxLog
    /\ last_command_exit_code \in Codes \cup {None}
    /\ task_briefs \in [Task -> BriefRecord]
    /\ tcall \in TaskCallRecord
    /\ tcall.pc = "idle" <=> tcall = NoTaskCall
    /\ active_task_id # None => job[active_task_id] # Absent
    /\ cancels \subseteq Task /\ threads \subseteq {"start", "cancel"} \X Task
    /\ cuts \in 0..MaxCuts
    /\ shown \in [Task -> Seq(Char)]
    /\ partial \subseteq Task
    /\ cursorOf \in Task \cup {None} /\ codeOf \in Task \cup {None}
    /\ returned \subseteq Task /\ sawEnd \subseteq Task

TaskInit ==
    /\ job = [t \in Task |-> Absent]
    /\ active_task_id = None /\ task_log_cursor = 0
    /\ last_command_exit_code = None
    /\ task_briefs = [t \in Task |-> NoBrief]
    /\ tcall = NoTaskCall
    /\ cancels = {} /\ threads = {} /\ cuts = 0
    /\ shown = [t \in Task |-> <<>>] /\ partial = {}
    /\ cursorOf = None /\ codeOf = None /\ returned = {} /\ sawEnd = {}

-----------------------------------------------------------------------------
(* The runtime.                                                            *)

(* A row of either stream is stored.  The watcher records an outcome only  *)
(* after the streams were read to their end.                               *)
JobPrints(t) ==
    /\ job[t].watched /\ job[t].log < MaxLog
    /\ \E err \in {job[t].err, job[t].err + 1} :
          job' = [job EXCEPT ![t].log = @ + 1, ![t].err = err]
    /\ UNCHANGED <<cancels, threads, taskContext, tcall, cuts, taskHistory>>

(* The command ends, whatever its record says.                             *)
JobEnds(t) ==
    /\ job[t].state # "absent" /\ job[t].ended = None
    /\ \E code \in Codes : job' = [job EXCEPT ![t].ended = code]
    /\ UNCHANGED <<cancels, threads, taskContext, tcall, cuts, taskHistory>>

(* What the watcher may record: the outcome; LOST when it has no exit code *)
(* to go by; CANCELLED when it finds the record CANCELLING.                *)
Outcomes(t) ==
    LET ended == job[t].ended
    IN  {<<"LOST", None>>}
        \cup (IF ended = "zero" THEN {<<"SUCCEEDED", ended>>} ELSE {})
        \cup (IF ended = "nonzero" THEN {<<"FAILED", ended>>} ELSE {})
        \cup (IF t \in cancels THEN {<<"CANCELLED", ended>>} ELSE {})
JobRecorded(t) ==
    /\ job[t].watched
    /\ \E o \in Outcomes(t) :
          job' = [job EXCEPT ![t].state = o[1], ![t].code = o[2], ![t].watched = FALSE]
    /\ UNCHANGED <<cancels, threads, taskContext, tcall, cuts, taskHistory>>
(* Its last step drops the handle.                                         *)
JobReleased(t) ==
    /\ job[t].held /\ ~job[t].watched
    /\ job' = [job EXCEPT ![t].held = FALSE]
    /\ UNCHANGED <<cancels, threads, taskContext, tcall, cuts, taskHistory>>

Started(t) == job' = [job EXCEPT ![t].state = "RUNNING", ![t].watched = TRUE, ![t].held = TRUE]
(* A cancel drops the handle and writes its own copy, whatever the record  *)
(* says by now: CANCELLED, with the exit code the copy was read with.      *)
CancelledJob(t) ==
    \E code \in {None, job[t].code} :
        job' = [job EXCEPT ![t].state = "CANCELLED", ![t].code = code, ![t].held = FALSE]

(* The thread of a call that was cut does what it was asked to do; a       *)
(* cancel without a handle fails.                                          *)
ThreadGoesOn(t) ==
    /\ \/ <<"start", t>> \in threads /\ Started(t) /\ threads' = threads \ {<<"start", t>>}
       \/ /\ <<"cancel", t>> \in threads /\ threads' = threads \ {<<"cancel", t>>}
          /\ IF job[t].held THEN CancelledJob(t) ELSE UNCHANGED job
    /\ UNCHANGED <<cancels, taskContext, tcall, cuts, taskHistory>>

-----------------------------------------------------------------------------
(* A call.                                                                 *)

Fresh(t) == job[t] = Absent /\ <<"start", t>> \notin threads

(* run_command with or without timeout_seconds, start_task with or without *)
(* wait_seconds.                                                           *)
BeginStart(tool, t, waits) ==
    /\ tcall = NoTaskCall /\ Fresh(t)
    /\ tcall' = [NoTaskCall EXCEPT !.tool = tool, !.pc = "launch", !.task = t, !.waits = waits]
    /\ UNCHANGED <<runtimeTasks, taskContext, cuts, taskHistory>>

StartTask(t, waits) == BeginStart("start_task", t, waits)

(* The thread starts the task.                                             *)
Launch ==
    /\ tcall.pc = "launch"
    /\ Started(tcall.task)
    /\ tcall' = [tcall EXCEPT !.pc = "launched"]
    /\ UNCHANGED <<cancels, threads, taskContext, cuts, taskHistory>>

(* record_task_brief merges: what is None is not written.                  *)
Merged(t, state, code) ==
    [task_briefs EXCEPT ![t] = [state |-> state,
                                exit_code |-> IF code = None THEN @.exit_code ELSE code]]

(* The call records the brief and returns.                                 *)
Recorded(t, state, code) ==
    /\ task_briefs' = Merged(t, state, code)
    /\ tcall' = NoTaskCall

(* A starting call that does not wait.                                     *)
StartReturns(t) == Recorded(t, "RUNNING", None) /\ returned' = returned \cup {t}

(* Back in the coroutine: the new task becomes the active one.             *)
LaunchReturns ==
    LET t == tcall.task
    IN  /\ tcall.pc = "launched"
        /\ active_task_id' = t
        /\ task_log_cursor' = 0 /\ cursorOf' = t
        /\ last_command_exit_code' = None /\ codeOf' = t
        /\ IF tcall.waits
           THEN /\ tcall' = [tcall EXCEPT !.pc = "get"]
                /\ UNCHANGED <<task_briefs, returned>>
           ELSE StartReturns(t)
        /\ UNCHANGED <<runtimeTasks, cuts, shown, partial, sawEnd>>

(* _resolve_task_id: the reference, or the active task.                    *)
Resolves(ref, t) == t = IF ref = None THEN active_task_id ELSE ref

BeginObserve(ref, t) ==
    /\ tcall = NoTaskCall /\ Resolves(ref, t) /\ t \in Task /\ job[t] # Absent
    /\ tcall' = [NoTaskCall EXCEPT !.tool = "observe_task", !.pc = "get", !.task = t]
    /\ partial' = IF cursorOf = t THEN partial ELSE partial \cup {t}
    /\ UNCHANGED <<runtimeTasks, taskContext, cuts, shown, cursorOf, codeOf, returned, sawEnd>>

(* Mutation of ReadTask: the log is read before the record.                *)
ReadTaskAfterLogs ==
    /\ tcall.pc = "get"
    /\ \E n \in 0..MaxLog :
          /\ n <= job[tcall.task].log
          /\ tcall' = [tcall EXCEPT !.pc = "observed", !.state = job[tcall.task].state,
                                    !.code = job[tcall.task].code, !.len = n, !.err = 0]
    /\ UNCHANGED <<runtimeTasks, taskContext, cuts, taskHistory>>

(* TaskNamespace.observe: first the record, then the log.                  *)
ReadTask ==
    /\ tcall.pc = "get"
    /\ tcall' = [tcall EXCEPT !.pc = "logs", !.state = job[tcall.task].state,
                              !.code = job[tcall.task].code]
    /\ UNCHANGED <<runtimeTasks, taskContext, cuts, taskHistory>>

(* It reads both again while there is nothing new and the deadline has not *)
(* come.                                                                   *)
ReadLogs ==
    LET len == job[tcall.task].log
        nothing == len <= task_log_cursor /\ tcall.state \notin TERMINAL_TASK_STATES
    IN  /\ tcall.pc = "logs"
        /\ \E again \in {FALSE} \cup {nothing} :
              tcall' = [tcall EXCEPT !.pc = IF again THEN "get" ELSE "observed",
                                     !.len = len, !.err = job[tcall.task].err]
        /\ UNCHANGED <<runtimeTasks, taskContext, cuts, taskHistory>>

(* logs_text: the rows are joined in the order of their offsets, which are *)
(* counted per stream, so the streams alternate up to the end of the       *)
(* shorter one: a row of the one that is behind is put before text that    *)
(* was there already.                                                      *)
LogsText(len, err) ==
    LET out == len - err
        both == IF err < out THEN err ELSE out
    IN  [p \in 1..len |->
            IF p > 2 * both THEN <<IF err < out THEN "stdout" ELSE "stderr", p - both>>
            ELSE <<IF p % 2 = 1 THEN "stdout" ELSE "stderr", (p + 1) \div 2>>]

(* text[min(cursor, len):].                                                *)
Chunk == LET more == IF tcall.len < task_log_cursor THEN 0 ELSE tcall.len - task_log_cursor
         IN  [i \in 1..more |-> LogsText(tcall.len, tcall.err)[tcall.len - more + i]]

(* What is longer than max_chars loses its beginning, in a poll or of all  *)
(* the polls together, and the result is marked as truncated.              *)
Truncated(text) == Len(text) > MaxChars

(* Mutation of SeenState: an ended task stays the active one.              *)
SeenStateActive(state, code) ==
    /\ last_command_exit_code' = code
    /\ active_task_id' = active_task_id

(* The state of the observed task is taken over.  A terminal one clears    *)
(* the active task, whichever task was observed.                           *)
SeenState(state, code) ==
    /\ last_command_exit_code' = code
    /\ active_task_id' = IF state \in TERMINAL_TASK_STATES THEN None ELSE active_task_id

(* History of an observation that returns.                                 *)
Observed(t) ==
    LET text == tcall.got \o Chunk
    IN  /\ partial' = IF Truncated(text) THEN partial \cup {t} ELSE partial
        /\ shown' = [shown EXCEPT ![t] = IF t \in partial' THEN <<>> ELSE @ \o text]
        /\ codeOf' = t
        /\ returned' = IF tcall.tool = "observe_task" THEN returned ELSE returned \cup {t}
        /\ sawEnd' = IF tcall.state \in {"SUCCEEDED", "FAILED"} THEN sawEnd \cup {t} ELSE sawEnd

(* Mutation of ObserveEnds: the brief is written only of a task that runs. *)
ObserveEndsUntracked ==
    /\ SeenState(tcall.state, tcall.code)
    /\ task_briefs' = IF tcall.state = "RUNNING"
                      THEN Merged(tcall.task, tcall.state, tcall.code) ELSE task_briefs
    /\ tcall' = NoTaskCall
    /\ Observed(tcall.task)

(* The end of an observation, in all three tools.                          *)
ObserveEnds ==
    /\ SeenState(tcall.state, tcall.code)
    /\ Recorded(tcall.task, tcall.state, tcall.code)
    /\ Observed(tcall.task)

(* The cursor moves with every poll; observe_task polls again until the    *)
(* task has ended or its deadline has come, the other two do not.          *)
ObserveReturns ==
    /\ tcall.pc = "observed"
    /\ task_log_cursor' = tcall.len /\ cursorOf' = tcall.task
    /\ \/ ObserveEnds
       \/ /\ tcall.tool = "observe_task" /\ tcall.state \notin TERMINAL_TASK_STATES
          /\ tcall' = [tcall EXCEPT !.pc = "get", !.got = @ \o Chunk]
          /\ UNCHANGED <<active_task_id, last_command_exit_code,
                         task_briefs, shown, partial, codeOf, returned, sawEnd>>
    /\ UNCHANGED <<runtimeTasks, cuts>>

(* While it has a handle, the record becomes CANCELLING.                   *)
BeginCancel(ref, t) ==
    /\ tcall = NoTaskCall /\ Resolves(ref, t) /\ t \in Task /\ job[t] # Absent
    /\ tcall' = [NoTaskCall EXCEPT !.tool = "cancel_task", !.pc = "cancel", !.task = t]
    /\ cancels' = IF job[t].held THEN cancels \cup {t} ELSE cancels
    /\ UNCHANGED <<job, threads, taskContext, cuts, taskHistory>>

(* A task without a handle is not active: the call fails.                  *)
CancelRuns ==
    LET t == tcall.task
    IN  /\ tcall.pc = "cancel"
        /\ IF job[t].held
           THEN /\ CancelledJob(t)
                /\ tcall' = [tcall EXCEPT !.pc = "cancelled", !.state = "CANCELLED",
                                          !.code = job'[t].code]
           ELSE UNCHANGED job /\ tcall' = NoTaskCall
        /\ UNCHANGED <<cancels, threads, taskContext, cuts, taskHistory>>

(* Mutation of CancelReturns: the brief takes the exit code last seen.     *)
CancelReturnsLastCode ==
    /\ tcall.pc = "cancelled"
    /\ active_task_id' = None
    /\ Recorded(tcall.task, tcall.state, last_command_exit_code)
    /\ UNCHANGED <<runtimeTasks, task_log_cursor, last_command_exit_code, cuts, taskHistory>>

(* The active task is cleared, whichever task was cancelled; the last exit *)
(* code stays.                                                             *)
CancelReturns ==
    /\ tcall.pc = "cancelled"
    /\ active_task_id' = None
    /\ Recorded(tcall.task, tcall.state, tcall.code)
    /\ UNCHANGED <<runtimeTasks, task_log_cursor, last_command_exit_code, cuts, taskHistory>>

(* Mutation of TaskCallCut: what the call has read is not thrown away.     *)
TaskCallCutKeeps ==
    /\ tcall.pc # "idle" /\ cuts < MaxCuts
    /\ cuts' = cuts + 1
    /\ tcall' = [tcall EXCEPT !.pc = "idle"]
    /\ UNCHANGED <<runtimeTasks, taskContext, taskHistory>>

(* The registry's timeout, or an exception of the runtime, ends the call   *)
(* at an await.  What a poll had returned is dropped with it.              *)
TaskCallCut ==
    /\ tcall.pc # "idle" /\ cuts < MaxCuts
    /\ cuts' = cuts + 1
    /\ threads' = threads \cup (IF tcall.pc = "launch" THEN {<<"start", tcall.task>>}
                                ELSE IF tcall.pc = "cancel" THEN {<<"cancel", tcall.task>>}
                                ELSE {})
    /\ partial' = IF tcall.got = <<>> THEN partial ELSE partial \cup {tcall.task}
    /\ tcall' = NoTaskCall
    /\ UNCHANGED <<job, cancels, taskContext, shown, cursorOf, codeOf, returned, sawEnd>>

(* list_tasks and the activity summary: what the model is told of.         *)
Inventory == {t \in Task : task_briefs[t].state # None}
active_task_is_tracked == active_task_id \in Inventory

TaskCallStep ==
    \/ Launch \/ LaunchReturns \/ ReadTask \/ ReadLogs \/ ObserveReturns
    \/ CancelRuns \/ CancelReturns \/ TaskCallCut
TaskRuntimeStep ==
    \E t \in Task :
        JobPrints(t) \/ JobEnds(t) \/ JobRecorded(t) \/ JobReleased(t) \/ ThreadGoesOn(t)

TaskNext(allowed) ==
    \/ TaskRuntimeStep
    \/ TaskCallStep
    \/ /\ allowed
       /\ \E t \in Task :
             \/ \E waits \in BOOLEAN : StartTask(t, waits)
             \/ \E ref \in {None, t} : BeginObserve(ref, t) \/ BeginCancel(ref, t)

-----------------------------------------------------------------------------
(* The inventory tells the truth about the commands, whatever became of    *)
(* the records: a brief that says SUCCEEDED or FAILED, and every exit      *)
(* code in one, is how the command really ended, also when calls of other  *)
(* tasks, cuts, cancels of finished tasks and merges of missing fields     *)
(* came in between; and only a task whose cancel was begun is called       *)
(* CANCELLED.  (A command called CANCELLED or LOST may run on.)            *)
Ended(state) == IF state = "SUCCEEDED" THEN "zero" ELSE "nonzero"
BriefsAreTrue ==
    \A t \in Inventory :
        /\ task_briefs[t].state \in {"SUCCEEDED", "FAILED"} =>
              job[t].ended = Ended(task_briefs[t].state)
        /\ task_briefs[t].exit_code # None => job[t].ended = task_briefs[t].exit_code
        /\ task_briefs[t].state = "CANCELLED" => t \in cancels

(* The active task is one that was not seen to end: observe and cancel     *)
(* without a reference never go to a task the harness knows to be over.    *)
ActiveIsOpen ==
    active_task_id # None => task_briefs[active_task_id].state \notin TERMINAL_TASK_STATES

(* A task whose starting call came back is in the inventory for good, even *)
(* when observing or cancelling another task clears active_task_id; only a *)
(* call that was cut can leave a task nobody lists.                        *)
ReturnedIsListed == returned \subseteq Inventory

(* Reading a task's own log, with no call cut and no result marked as      *)
(* truncated, returns as many characters as were stored - and when the     *)
(* task was seen to succeed or fail, all there are, because the record is  *)
(* read before the log.  If the task prints on one stream, as a detached   *)
(* one does, each is returned once and in order; text of two streams may   *)
(* be repeated and lost.                                                   *)
OneStream(t) == job[t].err \in {0, job[t].log}
OutputIsWhole ==
    \A t \in Task \ partial :
        /\ OneStream(t) => \A i \in 1..Len(shown[t]) : shown[t][i][2] = i
        /\ Len(shown[t]) <= job[t].log
        /\ t \in sawEnd => Len(shown[t]) = job[t].log
-----------------------------------------------------------------------------
(* What makes these properties inductive.  A job starts once, for a call   *)
(* or for the thread of one; a recorded outcome is the command's.          *)
Over(state) == state \in TERMINAL_TASK_STATES
Known(state) == state \in {"SUCCEEDED", "FAILED"}
Starting(t) == <<"start", t>> \in threads \/ (tcall.pc = "launch" /\ tcall.task = t)
JobsStartOnce ==
    /\ \A t \in Task : Starting(t) => job[t].state = "absent"
    /\ tcall.pc = "launch" => <<"start", tcall.task>> \notin threads
    /\ \A t \in Task :
          /\ job[t].state = "absent" => job[t] = Absent
          /\ job[t].code # None => job[t].ended = job[t].code
          /\ Known(job[t].state) => ~job[t].watched /\ job[t].ended = Ended(job[t].state)
          /\ job[t].state = "CANCELLED" => t \in cancels
          /\ job[t].err <= job[t].log
          /\ <<"cancel", t>> \in threads =>
                job[t].state # "absent" /\ (job[t].held => t \in cancels)

(* What a call has read of the record is true of the command.              *)
Observing == tcall.pc \in {"get", "logs", "observed"}
ReadIsTrue ==
    LET t == tcall.task
    IN  /\ tcall.pc # "idle" => t \in Task
        /\ tcall.pc \notin {"idle", "launch"} => job[t].state # "absent"
        /\ tcall.pc \in {"logs", "observed", "cancelled"} =>
              /\ tcall.state # None
              /\ Known(tcall.state) => ~job[t].watched /\ job[t].ended = Ended(tcall.state)
              /\ tcall.code # None => job[t].ended = tcall.code
              /\ tcall.state = "CANCELLED" => t \in cancels
        /\ tcall.pc = "cancel" /\ job[t].held => t \in cancels
        /\ tcall.pc = "observed" => /\ tcall.err <= tcall.len
                                    /\ tcall.err <= job[t].err
                                    /\ tcall.len - tcall.err <= job[t].log - job[t].err
                                    /\ Known(tcall.state) => tcall.len = job[t].log
        /\ ~Observing => tcall.got = <<>>

(* A brief is of a task that was started; a new task has none and nothing  *)
(* of it was shown.                                                        *)
BriefsAreOfJobs ==
    /\ \A t \in Task :
          /\ job[t].state = "absent" => task_briefs[t].state = None /\ shown[t] = <<>>
          /\ task_briefs[t].exit_code # None => job[t].ended = task_briefs[t].exit_code
    /\ tcall.pc = "launched" =>
          task_briefs[tcall.task].state = None /\ shown[tcall.task] = <<>>

(* The cursor stands behind what was shown and what the call has got.      *)
GotOf(t) == IF Observing /\ tcall.task = t THEN Len(tcall.got) ELSE 0
CursorIsBehindShown ==
    /\ Observing => cursorOf = tcall.task \/ tcall.task \in partial
    /\ \A t \in Task \ partial : cursorOf = t =>
          /\ task_log_cursor = Len(shown[t]) + GotOf(t)
          /\ task_log_cursor <= job[t].log
          /\ Observing /\ tcall.task = t =>
                /\ OneStream(t) =>
                      \A i \in 1..Len(tcall.got) : tcall.got[i][2] = Len(shown[t]) + i
                /\ tcall.pc = "observed" => task_log_cursor <= tcall.len
EndsAreSeen == \A t \in sawEnd : job[t].state # "absent" /\ ~job[t].watched

(* The exit code last seen is how the task it was seen of ended.           *)
LastCodeIsOfJob ==
    last_command_exit_code # None =>
        codeOf \in Task /\ job[codeOf].ended = last_command_exit_code

TaskInv ==
    /\ TaskTypeOK /\ JobsStartOnce /\ ReadIsTrue /\ BriefsAreOfJobs /\ CursorIsBehindShown
    /\ EndsAreSeen /\ LastCodeIsOfJob
    /\ BriefsAreTrue /\ ActiveIsOpen /\ ReturnedIsListed /\ OutputIsWhole
=============================================================================
