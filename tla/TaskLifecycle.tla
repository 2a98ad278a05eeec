----------------------------- MODULE TaskLifecycle -----------------------------
(***************************************************************************)
(* What a client of environment_runtime can rely on: the life of a task    *)
(* record.  A task is prepared once, runs, may be asked to stop, and ends  *)
(* in a terminal state which, where it states an outcome, agrees with what *)
(* the command did.  A terminal state is settled once no coroutine that    *)
(* read the record earlier is still about to write it: then it is final.   *)
(* TaskService is checked against it.                                      *)
(***************************************************************************)
CONSTANT Task

VARIABLES
    life,     \* the state of every task record
    result,   \* what became of every command
    writers   \* the tasks whose record somebody has read in order to write it

lvars == <<life, result, writers>>

Terminal == {"SUCCEEDED", "FAILED", "CANCELLED", "LOST"}
Settled(t) == life[t] \in Terminal /\ t \notin writers

LInit ==
    /\ life = [t \in Task |-> "ABSENT"]
    /\ result = [t \in Task |-> "absent"]
    /\ writers = {}

(* A write of the record, with which its writer may be done.               *)
Move(t, to) ==
    /\ life' = [life EXCEPT ![t] = to]
    /\ writers' \in {writers, writers \ {t}}
    /\ UNCHANGED result

Live(t) == life[t] # "ABSENT" /\ ~Settled(t)

Prepare(t) == life[t] = "ABSENT" /\ Move(t, "PREPARING")
Run(t) == life[t] \in {"PREPARING", "CANCELLING"} /\ Move(t, "RUNNING")
AskToStop(t) == t \in writers /\ Live(t) /\ Move(t, "CANCELLING")
Stop(t) == t \in writers /\ Live(t) /\ Move(t, "CANCELLED")
Lose(t) == Live(t) /\ Move(t, "LOST")
Succeed(t) == result[t] = "zero" /\ Live(t) /\ Move(t, "SUCCEEDED")
Fail(t) == result[t] = "nonzero" /\ Live(t) /\ Move(t, "FAILED")

(* A watcher or a cancel reads the record; writers end or are lost in a    *)
(* crash.                                                                  *)
Open(t) == writers' = writers \cup {t} /\ UNCHANGED <<life, result>>
Abandon == writers' \in SUBSET writers /\ UNCHANGED <<life, result>>

(* The command starts only for a prepared task and ends once.              *)
Command(t) ==
    /\ \/ /\ result[t] = "absent" /\ life[t] # "ABSENT"
          /\ result' = [result EXCEPT ![t] = "running"]
       \/ /\ result[t] = "running"
          /\ \E code \in {"zero", "nonzero"} : result' = [result EXCEPT ![t] = code]
    /\ UNCHANGED <<life, writers>>

LNext ==
    \/ \E t \in Task :
          \/ Prepare(t) \/ Run(t) \/ AskToStop(t) \/ Stop(t) \/ Lose(t)
          \/ Succeed(t) \/ Fail(t) \/ Open(t) \/ Command(t)
    \/ Abandon

Lifecycle == LInit /\ [][LNext]_lvars
=============================================================================
