------------------------------ MODULE AgentLoop ------------------------------
(***************************************************************************)
(* One conversation of the agent: turns of AgentLoop.run_with_context, the *)
(* state machine it drives, and ToolRegistry.execute with its questions to *)
(* the user.                                                               *)
(*                                                                         *)
(* A tool call is its fingerprint (name and arguments).  What a tool does  *)
(* to the work context is abstracted to `guarded': whether validate_final  *)
(* would object now.                                                       *)
(***************************************************************************)
EXTENDS Integers, Sequences

CONSTANTS
    Calls,                        \* fingerprints of tool calls
    TerminalOpens,                \* those that open a terminal
    RunCommands,                  \* those of the tool run_command
    NoCall,
    max_iterations,               \* AgentConfig
    max_consecutive_tool_errors,
    repeated_action_limit,
    Configs,                      \* registry configurations to consider
    MaxTurns                      \* bound: turns of the conversation

ASSUME CallsAssumption ==
    TerminalOpens \subseteq Calls /\ RunCommands \subseteq Calls /\ NoCall \notin Calls
ASSUME LimitsAssumption ==
    /\ max_iterations \in Nat \ {0}
    /\ max_consecutive_tool_errors \in Nat \ {0}
    /\ repeated_action_limit \in Nat \ {0, 1}
    /\ MaxTurns \in Nat

Config == [approval_handler : BOOLEAN, approve_sandbox_denials : BOOLEAN,
           approve_root_escalation : BOOLEAN, approve_terminal_open : BOOLEAN,
           allow_unguarded_write : BOOLEAN]
ASSUME ConfigAssumption == Configs \subseteq Config

VARIABLES
    config,       \* of the registry
    turn,         \* turns begun
    machine,      \* StateMachine.state
    at,           \* where the coroutine of the turn is
    iterations,   \* _iterations
    errors,       \* _consecutive_tool_errors
    recent,       \* _recent_fingerprints
    call,         \* the decision being executed
    denied,       \* permission_needs_approval
    overridden,   \* sandbox_overridden
    result,       \* what the registry answered
    depth,        \* WorkContext._sandbox_approval_depth
    guarded,      \* would validate_final object
    outcome,      \* final_state of the AgentRunResult
    executed,     \* ghost: the calls of this turn that reached the registry
    granted,      \* ghost: what the user agreed to for this call
    refused       \* ghost: the user said no to a question about this call

vars == <<config, turn, machine, at, iterations, errors, recent, call, denied,
          overridden, result, depth, guarded, outcome, executed, granted, refused>>
counters == <<iterations, errors, recent, executed>>
registry == <<call, denied, overridden, result, depth, granted, refused>>

-----------------------------------------------------------------------------
(* The state machine. *)

AgentState == {"created", "initializing", "ready", "planning", "waiting_for_model",
               "tool_selected", "executing_tool", "observing_task",
               "processing_result", "completed", "failed", "cancelled"}

TERMINAL_STATES == {"completed", "failed", "cancelled"}

LEGAL_TRANSITIONS ==
    [s \in AgentState |->
        IF s \in TERMINAL_STATES THEN {}
        ELSE {"failed", "cancelled"} \cup
             CASE s = "created"           -> {"initializing"}
               [] s = "initializing"      -> {"ready"}
               [] s = "ready"             -> {"planning"}
               [] s = "planning"          -> {"waiting_for_model"}
               [] s = "waiting_for_model" -> {"tool_selected", "processing_result"}
               [] s = "tool_selected"     -> {"executing_tool"}
               [] s = "executing_tool"    -> {"observing_task", "processing_result"}
               [] s = "observing_task"    -> {"processing_result"}
               [] OTHER                   -> {"planning", "completed"}]

\* What the user may be asked about a call.
Questions == {"ask_sandbox", "ask_preview", "ask_permission", "ask_terminal", "ask_override"}
Places == {"loop", "final", "completed", "selected", "refused", "check",
           "requests", "preview", "terminal", "execute", "running", "answered",
           "observing", "raised", "returned", "escaped"} \cup Questions
Over == {"returned", "escaped"}

\* The state changes and the coroutine goes on at p: one call of _transition.
Move(from, to, p) == machine = from /\ machine' = to /\ at' = p

-----------------------------------------------------------------------------
(* A turn: run_with_context. *)

Init ==
    /\ config \in Configs
    /\ turn = 0 /\ machine = "created" /\ at = "returned" /\ outcome = "none"
    /\ iterations = 0 /\ errors = 0 /\ recent = <<>> /\ executed = <<>>
    /\ call = NoCall /\ denied = FALSE /\ overridden = FALSE /\ result = "none"
    /\ depth = 0 /\ guarded = FALSE /\ granted = {} /\ refused = FALSE

\* AgentSession.run_turn with a new AgentLoop, then _reset_run_state.  The remote
\* connection and the first event come before the try: their exceptions escape.
\* The guard also looks at the words of the new task.
RunTurn ==
    /\ at \in Over /\ turn < MaxTurns
    /\ turn' = turn + 1 /\ machine' = "created" /\ outcome' = "none"
    /\ at' \in {"loop", "escaped"}
    /\ iterations' = 0 /\ errors' = 0 /\ recent' = <<>> /\ executed' = <<>>
    /\ guarded' \in BOOLEAN
    /\ UNCHANGED <<config, registry>>

Begin ==
    /\ at = "loop"
    /\ Move("created", "initializing", "loop") \/ Move("initializing", "ready", "loop")
    /\ UNCHANGED <<config, turn, outcome, guarded, counters, registry>>

\* The head of the loop, and the request to the model.
Plan ==
    /\ at = "loop" /\ iterations < max_iterations
    /\ Move("ready", "planning", "loop") \/ Move("processing_result", "planning", "loop")
    /\ iterations' = iterations + 1
    /\ UNCHANGED <<config, turn, outcome, guarded, errors, recent, executed, registry>>

AskModel ==
    /\ at = "loop" /\ Move("planning", "waiting_for_model", "loop")
    /\ UNCHANGED <<config, turn, outcome, guarded, counters, registry>>

OutOfIterations ==
    /\ at = "loop" /\ machine \in {"ready", "processing_result"}
    /\ iterations >= max_iterations
    /\ at' = "raised"
    /\ UNCHANGED <<config, turn, machine, outcome, guarded, counters, registry>>

\* The model gives a final answer; the guard looks at the work context.
DecideFinal ==
    /\ at = "loop" /\ Move("waiting_for_model", "processing_result", "final")
    /\ UNCHANGED <<config, turn, outcome, guarded, counters, registry>>

\* Mutation of GuardBlocks: a blocked answer costs nothing.
GuardBlocksFree ==
    /\ at = "final" /\ guarded
    /\ iterations' = iterations - 1 /\ at' = "check"
    /\ UNCHANGED <<config, turn, machine, outcome, guarded, errors, recent,
                   executed, registry>>

GuardBlocks ==
    /\ at = "final" /\ guarded
    /\ errors' = errors + 1 /\ at' = "check"
    /\ UNCHANGED <<config, turn, machine, outcome, guarded, iterations, recent,
                   executed, registry>>

AcceptFinal ==
    /\ at = "final" /\ ~guarded
    /\ Move("processing_result", "completed", "completed")
    /\ UNCHANGED <<config, turn, outcome, guarded, counters, registry>>

ReturnCompleted ==
    /\ at = "completed" /\ at' = "returned" /\ outcome' = "completed"
    /\ UNCHANGED <<config, turn, machine, guarded, counters, registry>>

\* Mutation of CheckErrors: the limit itself is allowed.
CheckErrorsAbove ==
    /\ at = "check"
    /\ at' = IF errors > max_consecutive_tool_errors THEN "raised" ELSE "loop"
    /\ UNCHANGED <<config, turn, machine, outcome, guarded, counters, registry>>

\* Every failed step ends with this comparison.
CheckErrors ==
    /\ at = "check"
    /\ at' = IF errors >= max_consecutive_tool_errors THEN "raised" ELSE "loop"
    /\ UNCHANGED <<config, turn, machine, outcome, guarded, counters, registry>>

\* An event sink, the context, the model or a prompt raises.  A tool does not:
\* RuntimeTool.execute turns whatever it meets into a result.
Raises ==
    /\ at \notin Over \cup {"raised", "running"}
    /\ at' = "raised"
    /\ UNCHANGED <<config, turn, machine, outcome, guarded, counters, registry>>

\* Mutation of HandleError: a completed machine is reported as failed.
HandleAnyError ==
    /\ at = "raised" /\ at' = "returned" /\ outcome' = "failed"
    /\ machine' = IF machine \in TERMINAL_STATES THEN machine ELSE "failed"
    /\ UNCHANGED <<config, turn, guarded, counters, registry>>

\* The two except clauses.  A completed machine may not fail any more, so the
\* transition raises out of the handler; so does a sink that raises again.
HandleError ==
    /\ at = "raised"
    /\ \/ /\ machine \notin TERMINAL_STATES
          /\ machine' = "failed"
          /\ \/ at' = "returned" /\ outcome' = "failed"
             \/ at' = "escaped" /\ UNCHANGED outcome
       \/ /\ machine \in TERMINAL_STATES
          /\ at' = "escaped" /\ UNCHANGED <<machine, outcome>>
    /\ UNCHANGED <<config, turn, guarded, counters, registry>>

-----------------------------------------------------------------------------
(* A tool decision: _execute_decision. *)

\* Mutation of LastOf: the window is one too short.
AllButLast(s, n) == IF Len(s) < n THEN s ELSE SubSeq(s, Len(s) - n + 2, Len(s))

\* The last n elements of s: s[-n:].
LastOf(s, n) == IF Len(s) <= n THEN s ELSE SubSeq(s, Len(s) - n + 1, Len(s))

DecideTool(c) ==
    /\ at = "loop" /\ Move("waiting_for_model", "tool_selected", "selected")
    /\ call' = c
    /\ recent' = LastOf(Append(recent, c), repeated_action_limit)
    /\ granted' = {} /\ refused' = FALSE
    /\ denied' = FALSE /\ overridden' = FALSE /\ result' = "none"
    /\ UNCHANGED <<config, turn, outcome, guarded, iterations, errors, executed, depth>>

\* What _record_fingerprint looks for.
Repeated ==
    /\ Len(recent) = repeated_action_limit
    /\ \A i, j \in 1..Len(recent) : recent[i] = recent[j]

\* Mutation of RefuseRepeated: EXECUTING_TOOL is left out.
RefuseDirectly ==
    /\ at = "selected" /\ Repeated
    /\ errors' = errors + 1
    /\ Move("tool_selected", "processing_result", "check")
    /\ UNCHANGED <<config, turn, outcome, guarded, iterations, recent, executed, registry>>

RefuseRepeated ==
    /\ at = "selected" /\ Repeated
    /\ errors' = errors + 1
    /\ Move("tool_selected", "executing_tool", "refused")
    /\ UNCHANGED <<config, turn, outcome, guarded, iterations, recent, executed, registry>>

RefusalRecorded ==
    /\ at = "refused" /\ Move("executing_tool", "processing_result", "check")
    /\ UNCHANGED <<config, turn, outcome, guarded, counters, registry>>

StartTool ==
    /\ at = "selected" /\ ~Repeated
    /\ Move("tool_selected", "executing_tool", "requests")
    /\ executed' = Append(executed, call)
    /\ UNCHANGED <<config, turn, outcome, guarded, iterations, errors, recent, registry>>

\* A successful run_command takes a detour through a state of its own.  (The
\* agent's own tools hide run_command behind `command', so there this is unused.)
ObserveTask ==
    /\ at = "answered" /\ result = "ok" /\ call \in RunCommands
    /\ Move("executing_tool", "observing_task", "observing")
    /\ UNCHANGED <<config, turn, outcome, guarded, counters, registry>>

\* The registry's answer: a success, an error the model may react to, or an error
\* that ends the turn.
ProcessResult ==
    /\ \/ /\ at = "answered" /\ result = "ok" /\ call \notin RunCommands /\ errors' = 0
          /\ Move("executing_tool", "processing_result", "loop")
       \/ /\ at = "observing" /\ errors' = 0
          /\ Move("observing_task", "processing_result", "loop")
       \/ /\ at = "answered" /\ result = "error" /\ errors' = errors + 1
          /\ Move("executing_tool", "processing_result", "check")
       \/ /\ at = "answered" /\ result = "fatal" /\ errors' = errors + 1
          /\ Move("executing_tool", "processing_result", "raised")
    /\ UNCHANGED <<config, turn, outcome, guarded, iterations, recent, executed, registry>>

-----------------------------------------------------------------------------
(* ToolRegistry.execute. *)

Answer(r) == at' = "answered" /\ result' = r

\* May the user be asked to override the sandbox?
MayOverride(denial) ==
    /\ config.approve_sandbox_denials /\ config.approval_handler
    /\ denial = "root" => config.approve_root_escalation

\* authorize_many on the permission requests of the call.
Authorize ==
    \E d \in BOOLEAN :
        /\ denied' = d
        /\ IF d /\ ~config.approval_handler
              THEN Answer("error")
              ELSE at' = "preview" /\ UNCHANGED result

PermissionRequests ==
    /\ at = "requests"
    /\ \/ Authorize
       \/ \* unknown tool, invalid arguments, another error of the tool
          /\ \E r \in {"error", "fatal"} : Answer(r)
          /\ UNCHANGED denied
       \/ \E denial \in {"sandbox", "root"} :
          /\ IF MayOverride(denial) THEN at' = "ask_sandbox" /\ UNCHANGED result
                                    ELSE Answer("error")
          /\ UNCHANGED denied
    /\ UNCHANGED <<config, turn, machine, outcome, guarded, counters,
                   call, overridden, depth, granted, refused>>

\* The user's no ends the call.
Refuse ==
    /\ at \in Questions /\ Answer("error") /\ refused' = TRUE
    /\ UNCHANGED <<config, turn, machine, outcome, guarded, counters,
                   call, denied, overridden, depth, granted>>

\* With the sandbox lifted the requests are built a second time; an error of that
\* second attempt leaves the registry.
GrantSandbox ==
    /\ at = "ask_sandbox"
    /\ granted' = granted \cup {"sandbox"} /\ overridden' = TRUE
    /\ Authorize \/ (at' = "raised" /\ UNCHANGED <<denied, result>>)
    /\ UNCHANGED <<config, turn, machine, outcome, guarded, counters,
                   call, depth, refused>>

\* _approval_preview: only writes and edits have one.  An approved sandbox is lifted
\* for the preview and restored within this step.
Preview ==
    /\ at = "preview"
    /\ \/ /\ at' = IF denied THEN "ask_permission" ELSE "terminal"
          /\ UNCHANGED result
       \/ /\ config.approval_handler
          /\ at' = "ask_preview" /\ UNCHANGED result
       \/ /\ config.approval_handler \/ ~config.allow_unguarded_write
          /\ \E r \in {"error", "fatal"} : Answer(r)
    /\ UNCHANGED <<config, turn, machine, outcome, guarded, counters,
                   call, denied, overridden, depth, granted, refused>>

\* The question about a change also shows what the policy denied.
GrantPreview ==
    /\ at = "ask_preview" /\ at' = "terminal"
    /\ granted' = granted \cup {"preview"} \cup (IF denied THEN {"permission"} ELSE {})
    /\ UNCHANGED <<config, turn, machine, outcome, guarded, counters,
                   call, denied, overridden, result, depth, refused>>

GrantPermission ==
    /\ at = "ask_permission" /\ at' = "terminal"
    /\ granted' = granted \cup {"permission"}
    /\ UNCHANGED <<config, turn, machine, outcome, guarded, counters,
                   call, denied, overridden, result, depth, refused>>

TerminalGate ==
    /\ at = "terminal"
    /\ IF config.approve_terminal_open /\ call \in TerminalOpens
          THEN IF config.approval_handler THEN at' = "ask_terminal" /\ UNCHANGED result
                                          ELSE Answer("error")
          ELSE at' = "execute" /\ UNCHANGED result
    /\ UNCHANGED <<config, turn, machine, outcome, guarded, counters,
                   call, denied, overridden, depth, granted, refused>>

GrantTerminal ==
    /\ at = "ask_terminal" /\ at' = "execute"
    /\ granted' = granted \cup {"terminal_open"}
    /\ UNCHANGED <<config, turn, machine, outcome, guarded, counters,
                   call, denied, overridden, result, depth, refused>>

\* _execute_tool, within approved_sandbox() if the user lifted it.
ExecuteTool ==
    /\ at = "execute" /\ at' = "running"
    /\ depth' = IF overridden THEN depth + 1 ELSE depth
    /\ UNCHANGED <<config, turn, machine, outcome, guarded, counters,
                   call, denied, overridden, result, granted, refused>>

\* The with statement is left by a result and by a timeout alike.
LeaveSandbox == depth' = IF overridden THEN depth - 1 ELSE depth

ToolAnswers ==
    /\ at = "running" /\ LeaveSandbox
    /\ \/ \E r \in {"ok", "error", "fatal"} : Answer(r)
       \/ \E denial \in {"sandbox", "root"} :
             IF MayOverride(denial) /\ ~overridden
                THEN at' = "ask_override" /\ UNCHANGED result
                ELSE Answer("error")
    /\ guarded' \in BOOLEAN
    /\ UNCHANGED <<config, turn, machine, outcome, counters,
                   call, denied, overridden, granted, refused>>

\* Mutation of ToolTimesOut: the sandbox stays lifted.
ToolTimesOutInside ==
    /\ at = "running" /\ Answer("error")
    /\ guarded' \in BOOLEAN
    /\ UNCHANGED <<config, turn, machine, outcome, counters,
                   call, denied, overridden, depth, granted, refused>>

ToolTimesOut ==
    /\ at = "running" /\ LeaveSandbox /\ Answer("error")
    /\ guarded' \in BOOLEAN
    /\ UNCHANGED <<config, turn, machine, outcome, counters,
                   call, denied, overridden, granted, refused>>

GrantOverride ==
    /\ at = "ask_override" /\ at' = "execute"
    /\ granted' = granted \cup {"sandbox"} /\ overridden' = TRUE
    /\ UNCHANGED <<config, turn, machine, outcome, guarded, counters,
                   call, denied, result, depth, refused>>

-----------------------------------------------------------------------------

Loop ==
    \/ Begin \/ Plan \/ AskModel \/ OutOfIterations
    \/ DecideFinal \/ GuardBlocks \/ AcceptFinal \/ ReturnCompleted
    \/ CheckErrors \/ HandleError
    \/ (\E c \in Calls : DecideTool(c))
    \/ RefuseRepeated \/ RefusalRecorded \/ StartTool \/ ObserveTask \/ ProcessResult
Registry ==
    \/ PermissionRequests \/ Preview \/ TerminalGate \/ ExecuteTool
    \/ ToolAnswers \/ ToolTimesOut
User ==
    \/ Refuse \/ GrantSandbox \/ GrantPreview \/ GrantPermission
    \/ GrantTerminal \/ GrantOverride

Next == RunTurn \/ Loop \/ Registry \/ User \/ Raises

\* The turn's coroutine runs whenever it can.  The model answers (its client has
\* a timeout), a tool ends (wait_for), and the user answers every question.
Fairness == WF_vars(Loop \/ Registry \/ User)

Spec == Init /\ [][Next]_vars /\ Fairness

-----------------------------------------------------------------------------
(* Properties. *)

\* Every variable has its type.
TypeOK ==
    /\ config \in Configs /\ turn \in 0..MaxTurns
    /\ machine \in AgentState /\ at \in Places
    /\ iterations \in 0..max_iterations /\ errors \in Nat
    /\ recent \in Seq(Calls) /\ executed \in Seq(Calls)
    /\ call \in Calls \cup {NoCall}
    /\ denied \in BOOLEAN /\ overridden \in BOOLEAN
    /\ result \in {"none", "ok", "error", "fatal"}
    /\ depth \in 0..1 /\ guarded \in BOOLEAN
    /\ outcome \in {"none", "completed", "failed"}
    /\ granted \subseteq {"sandbox", "preview", "permission", "terminal_open"}
    /\ refused \in BOOLEAN

\* StateMachine.transition never raises on the way through the loop: on every path
\* - a refused repetition, a blocked answer, an error anywhere - each transition is
\* in the table.
LegalTransitions ==
    [][machine' # machine => machine' \in LEGAL_TRANSITIONS[machine] \/ turn' # turn]_vars

\* The same call is never executed repeated_action_limit times in a row in one
\* turn, also when refused calls and blocked answers lie between the executions
\* (_record_fingerprint counts decisions, not executions).
NoRepetition ==
    \A i \in 1..Len(executed) :
        i + repeated_action_limit - 1 <= Len(executed) =>
            \E j \in i .. i + repeated_action_limit - 1 : executed[j] # executed[i]

\* A tool runs only with every consent it needs, on each of the registry's ways to
\* it: what the policy denies, the opening of a terminal and the lifting of the
\* sandbox were agreed to for this very call, nothing was refused before, and the
\* sandbox is lifted only while that call runs.
Consent ==
    /\ at = "running" =>
          /\ ~refused
          /\ denied => "permission" \in granted
          /\ call \in TerminalOpens /\ config.approve_terminal_open =>
                "terminal_open" \in granted
    /\ depth > 0 => at = "running" /\ "sandbox" \in granted

\* What the caller is told is what the machine says; an exception that escapes
\* leaves a machine that never began or has ended; and a turn is completed only with
\* nothing the guard objects to.
TruthfulEnd ==
    /\ at = "returned" /\ turn > 0 => machine = outcome /\ outcome # "none"
    /\ at = "escaped" => machine \in {"created", "completed", "failed"} /\ outcome = "none"
    /\ machine = "completed" => ~guarded

\* The loop never plans with an exhausted budget, whichever of the three kinds of
\* failure (a blocked answer, a repetition, a tool error) used it up.
BudgetKept ==
    at = "loop" => errors < max_consecutive_tool_errors

\* A turn goes on only within its budget and ends as it says it did.
TurnIsHonest == TruthfulEnd /\ BudgetKept

\* Every turn ends, whatever the model decides and the tools answer.
TurnEnds == (at \notin Over) ~> (at \in Over)

-----------------------------------------------------------------------------
(* The inductive invariant behind the safety properties. *)

\* Places within ToolRegistry.execute, and those behind the permission question
\* and behind the terminal question.
InRegistry == {"requests", "preview", "terminal", "execute", "running"} \cup Questions
Permitted == {"terminal", "ask_terminal", "execute", "running", "ask_override"}
Opened == {"execute", "running", "ask_override"}

\* The state of the machine at each place of the coroutine.
WhereInv ==
    /\ at \in InRegistry \cup {"refused", "answered"} => machine = "executing_tool"
    /\ at = "selected" => machine = "tool_selected"
    /\ at = "observing" => machine = "observing_task"
    /\ at \in {"final", "check"} => machine = "processing_result"
    /\ at = "completed" => machine = "completed"
    /\ at = "loop" => machine \notin TERMINAL_STATES
    /\ machine \in {"failed", "completed"} => at \in Over \cup {"completed", "raised"}
    /\ at = "raised" => machine # "failed"
    /\ machine # "cancelled"
    /\ at \notin Over => outcome = "none"

\* What has been granted at each place of the registry.
ConsentInv ==
    /\ at \in InRegistry \cup {"selected"} => ~refused /\ (overridden => "sandbox" \in granted)
    /\ at \in Permitted => (denied => "permission" \in granted)
    /\ at \in Opened =>
          (call \in TerminalOpens /\ config.approve_terminal_open =>
             "terminal_open" \in granted)
    /\ depth = IF at = "running" /\ overridden THEN 1 ELSE 0

\* The last k elements of s are c.
EndsWith(s, k, c) == k <= Len(s) /\ \A i \in Len(s) - k + 1 .. Len(s) : s[i] = c

\* A run of equal executions is a run of equal decisions, as long as the window
\* can show it.
RecentInv ==
    /\ Len(recent) <= repeated_action_limit
    /\ at \notin Over \cup {"raised", "selected"} =>
          \A k \in 0..repeated_action_limit : \A c \in Calls :
             EndsWith(executed, k, c) => EndsWith(recent, k, c)
    /\ at = "selected" =>
          /\ call \in Calls /\ Len(recent) > 0 /\ recent[Len(recent)] = call
          /\ \A k \in 0..repeated_action_limit - 1 : \A c \in Calls :
                EndsWith(executed, k, c) =>
                   /\ k + 1 <= Len(recent)
                   /\ \A i \in Len(recent) - k .. Len(recent) - 1 : recent[i] = c

AgentInv ==
    /\ TypeOK /\ WhereInv /\ ConsentInv /\ RecentInv
    /\ NoRepetition /\ TruthfulEnd /\ BudgetKept
==============================================================================
