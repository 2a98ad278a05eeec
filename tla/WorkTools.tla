------------------------------- MODULE WorkTools -------------------------------
(***************************************************************************)
(* The task tools and the terminal tools at work on one WorkContext.  The  *)
(* agent makes one call at a time.  Two decisions look at both halves of   *)
(* the context: run_command refuses to leave a stateful terminal session   *)
(* silently, and a final answer is refused while work is unaccounted for.  *)
(***************************************************************************)
EXTENDS TaskTools, TerminalTools

VARIABLES
    answered,   \* the last final answer was accepted, and nothing was called since
    deserted    \* history: sessions with a root shell the context was told of
                \* that a command left without force_clean

workVars == <<taskVars, terminalVars, answered, deserted>>

WorkInit == TaskInit /\ TerminalInit /\ answered = FALSE /\ deserted = {}

Idle == tcall = NoTaskCall /\ scall = NoTermCall /\ ~answered

(* _clean_task_session_guard: the command would run beside the active      *)
(* session, on its target, without its state.                              *)
LeavesSilently(target) ==
    /\ active_session_id # NoSession /\ target = "session"
    /\ active_session_stateful \/ active_session_privilege = "root"

(* run_command on the target of the active session or on another one.      *)
RunCommand(t, waits, target, force_clean) ==
    /\ Idle
    /\ force_clean \/ ~LeavesSilently(target)
    /\ BeginStart("run_command", t, waits)
    /\ deserted' = IF force_clean \/ target # "session" THEN deserted
                   ELSE deserted \cup ({active_session_id} \cap told)
    /\ UNCHANGED <<terminalVars, answered>>

(* Mutation of Refused: pending input blocks only beside an active task.   *)
RefusedByTask(block_failed_command, asks_tests) ==
    \/ active_task_id # None /\ ~active_task_is_tracked
    \/ terminal_input_pending /\ active_session_id # NoSession /\ active_task_id # None
    \/ block_failed_command /\ last_command_exit_code \notin {None, "zero"}
    \/ asks_tests /\ last_command_exit_code = None

(* validate_final.                                                         *)
Refused(block_failed_command, asks_tests) ==
    \/ active_task_id # None /\ ~active_task_is_tracked
    \/ terminal_input_pending /\ active_session_id # NoSession
    \/ block_failed_command /\ last_command_exit_code \notin {None, "zero"}
    \/ asks_tests /\ last_command_exit_code = None

FinalAccepted ==
    /\ Idle
    /\ \E block_failed_command, asks_tests \in BOOLEAN :
          ~Refused(block_failed_command, asks_tests)
    /\ answered' = TRUE
    /\ UNCHANGED <<taskVars, terminalVars, deserted>>

(* The next turn of the conversation keeps the context.                    *)
NextTurn ==
    /\ answered /\ answered' = FALSE
    /\ UNCHANGED <<taskVars, terminalVars, deserted>>

WorkNext ==
    \/ TaskNext(Idle) /\ UNCHANGED <<terminalVars, answered, deserted>>
    \/ TerminalNext(Idle) /\ UNCHANGED <<taskVars, answered, deserted>>
    \/ \E t \in Task, waits, force_clean \in BOOLEAN, target \in {"session", "other"} :
          RunCommand(t, waits, target, force_clean)
    \/ FinalAccepted \/ NextTurn

WorkSpec == WorkInit /\ [][WorkNext]_workVars

-----------------------------------------------------------------------------
(* No command leaves a terminal whose root shell the context was told of,  *)
(* and that the focus was on all the time, unless force_clean was asked    *)
(* for: the inputs, outputs and control keys since never make the context  *)
(* forget it.  A root shell it was not told of (sudo bash, an input in two *)
(* parts, a human's, a root login) is outside of this.                     *)
NoShellDeserted == deserted \subseteq disturbed

(* What an accepted answer is backed by.  The last submission to the       *)
(* active terminal has been answered - if all output was seen before it    *)
(* and no other input, key or activation came after it: those clear the    *)
(* flag.  The exit code the guard relied on is how the task last started   *)
(* or observed really ended.  And a task that runs on while nothing is     *)
(* active is in the inventory, unless the call that started it was cut.    *)
AnswerIsBacked ==
    answered => /\ owed = 0
                /\ last_command_exit_code # None => job[codeOf].ended = last_command_exit_code
                /\ \A t \in returned : task_briefs[t].state # None

(* The inventory tells the truth and leaves nothing out, for tasks and for *)
(* terminals, however calls of either kind were cut.                       *)
InventoryIsTrue == BriefsAreTrue /\ ActiveIsOpen /\ ReturnedIsListed /\ SessionsAreListed

(* What a task prints on one stream, and what terminals print, is returned *)
(* once, in order and completely, but for the exceptions named above:      *)
(* another task's cursor, a call that was cut, a result marked truncated,  *)
(* the race between the two requests of a poll.                            *)
OutputIsReturned == OutputIsWhole /\ ShownInOrder /\ SkippedHasCause

(* What makes these properties inductive: nothing is called after an       *)
(* accepted answer.                                                        *)
WorkInv ==
    /\ TaskInv /\ TerminalInv /\ NoShellDeserted /\ AnswerIsBacked
    /\ answered \in BOOLEAN /\ deserted \subseteq Session
    /\ answered => tcall = NoTaskCall /\ scall = NoTermCall
=============================================================================
