----------------------------- MODULE TerminalTools -----------------------------
(***************************************************************************)
(* The terminal tools of the harness - open_terminal, inspect, activate    *)
(* and observe, terminal_command, request_human_terminal_input,            *)
(* send_terminal_control, close_terminal - and the part of the WorkContext *)
(* they keep: the active session, its cursor, privilege and statefulness,  *)
(* whether input is pending, and a brief per session.                      *)
(*                                                                         *)
(* One call runs at a time, in threads that go on when the registry's      *)
(* timeout cuts the call.  A poll of observe_terminal is two requests of   *)
(* the SDK, frames and tail, and the shell prints in between.              *)
(*                                                                         *)
(* Frames are counted from 1; a cursor of 0 is the None of the code.       *)
(*                                                                         *)
(* Whether a root shell is open in a terminal nobody but the terminal      *)
(* knows: the context is told of one by an input whose form it recognises  *)
(* or by output that names uid 0, and of others never.                     *)
(***************************************************************************)
EXTENDS Naturals, Sequences, FiniteSets

CONSTANTS
    Session,         \* the ids the runtime will hand out
    Outputs,         \* what output tells: subset of {"text", "uid0", "denied"}
    Inputs,          \* what is sent: subset of AllInputs
    FramePage,       \* frames of one request (500 in the code)
    MaxText,         \* frames whose text fits in a result (max_output_chars)
    MaxShellFrames,  \* bound on the frames the shells print
    MaxInputs,       \* bound on the inputs sent
    MaxTermCuts      \* bound on the calls that time out or fail

NoSession == "None"
(* enter is "plain"; tab, escape and backspace are "key"; "typed" is       *)
(* input_only.                                                             *)
AllInputs == {"plain", "root", "exit", "cd", "typed", "ctrl_c", "ctrl_d", "key"}
(* The runtime_state of a brief.                                           *)
BriefStates == {"None", "UNKNOWN", "ACTIVE", "TERMINATED"}
Controls == {"ctrl_c", "ctrl_d", "key"}
Submits(kind) == kind \notin {"typed", "key"}

ASSUME TermBoundAssumption ==
    /\ Outputs \subseteq {"text", "uid0", "denied"} /\ Inputs \subseteq AllInputs
    /\ FramePage \in Nat \ {0} /\ MaxText \in Nat /\ MaxShellFrames \in Nat
    /\ MaxInputs \in Nat /\ MaxTermCuts \in Nat
ASSUME NoneIsNoSession == NoSession \notin Session

VARIABLES
    term,       \* the runtime: the state of a session
    frames,     \* its frames: <<"out", what>>, <<"echo", n>>, <<"in", n>>
    inputs,     \* the number of inputs sent; input n is the n-th
    active_session_id,
    terminal_cursor,
    terminal_input_pending,
    last_terminal_input,
    active_session_privilege,
    active_session_stateful,
    session_briefs,  \* per session: runtime_state, None when there is no brief
    scall,           \* the terminal tool in progress
    sthreads,        \* threads whose call was cut: <<operation, session, number
                     \* of the cut>>
    scuts,
    view,            \* history: frames of the active session returned since the
                     \* cursor was reset
    passed,          \* history: frames the cursor passed over: stored between two
                     \* requests of one poll, or cut off a result marked truncated
    mixed,           \* history: the cursor was moved for another session, or by
                     \* a poll whose text was dropped
    owed,            \* history: the active session got a submission after all
                     \* its output was seen, and no call but observe since:
                     \* its length then, 0 when there is none
    told,            \* history: sessions in which the context was told of a root
                     \* shell, by a recognised input or by output
    disturbed        \* history: sessions that lost the focus

runtimeSessions == <<term, frames, inputs, sthreads>>
sessionState == <<active_session_privilege, active_session_stateful>>
sessionContext == <<active_session_id, terminal_cursor, terminal_input_pending,
                    last_terminal_input, sessionState, session_briefs>>
terminalHistory == <<view, passed, mixed, owed, told, disturbed>>
terminalVars == <<runtimeSessions, sessionContext, scall, scuts, terminalHistory>>

(* ref: a session_ref was given; state: the record get_session returned;   *)
(* page, stored, text, last: one poll; got: the polls so far.              *)
NoTermCall == [tool |-> "none", pc |-> "idle", session |-> NoSession, ref |-> FALSE,
               input |-> "plain", state |-> "absent", first |-> FALSE, page |-> <<>>,
               stored |-> 0, text |-> 0, last |-> 0, got |-> <<>>, meaningful |-> FALSE]

TerminalInit ==
    /\ term = [s \in Session |-> "absent"] /\ frames = [s \in Session |-> <<>>]
    /\ inputs = 0
    /\ active_session_id = NoSession /\ terminal_cursor = 0
    /\ terminal_input_pending = FALSE /\ last_terminal_input = 0
    /\ active_session_privilege = "unknown" /\ active_session_stateful = FALSE
    /\ session_briefs = [s \in Session |-> "None"]
    /\ scall = NoTermCall /\ sthreads = {} /\ scuts = 0
    /\ view = <<>> /\ passed = {} /\ mixed = FALSE /\ owed = 0 /\ told = {} /\ disturbed = {}

SessionStates == {"absent", "ACTIVE", "TERMINATED"}
Frame == ({"out"} \X {"text", "uid0", "denied"}) \cup ({"echo", "in"} \X (Nat \ {0}))
SendTool == {"send", "request_human_terminal_input"}
TermTool == {"none", "open_terminal", "inspect_terminal_session", "activate_terminal_session",
             "observe_terminal", "close_terminal"} \cup SendTool
PollPc == {"frames", "tail", "last", "polled"}
TermPc == {"idle", "open", "opened", "get", "prompt", "write", "written", "close", "closed"}
          \cup PollPc
TermCallRecord ==
    [tool : TermTool, pc : TermPc, session : Session \cup {NoSession}, ref : BOOLEAN,
     input : AllInputs, state : SessionStates, first : BOOLEAN, page : Seq(Nat \ {0}),
     stored : Nat, text : Nat, last : Nat, got : Seq(Nat \ {0}), meaningful : BOOLEAN]

TerminalTypeOK ==
    /\ term \in [Session -> SessionStates]
    /\ frames \in [Session -> Seq(Frame)]
    /\ active_session_id \in Session \cup {NoSession}
    /\ terminal_cursor \in Nat
    /\ terminal_input_pending \in BOOLEAN
    /\ terminal_input_pending => active_session_id # NoSession
    /\ last_terminal_input \in 0..MaxInputs
    /\ active_session_privilege \in {"unknown", "user", "root"}
    /\ active_session_stateful \in BOOLEAN
    /\ session_briefs \in [Session -> BriefStates]
    /\ scall \in TermCallRecord
    /\ scall.session = NoSession <=> scall = NoTermCall
    /\ sthreads \subseteq {"open", "write", "close"} \X Session \X (1..MaxTermCuts)
    /\ IsFiniteSet(sthreads)
    /\ inputs \in 0..MaxInputs /\ scuts \in 0..MaxTermCuts
    /\ view \in Seq(Nat \ {0}) /\ passed \subseteq Nat /\ owed \in Nat /\ mixed \in BOOLEAN
    /\ told \subseteq Session /\ disturbed \subseteq Session

-----------------------------------------------------------------------------
(* The runtime.                                                            *)

Stored(s, frame) == frames' = [frames EXCEPT ![s] = Append(@, frame)]
Shows(s, i) == frames[s][i][1] # "in"
Printed(s) == {i \in 1..Len(frames[s]) : Shows(s, i)}

(* The shell prints, or the terminal echoes an input, each once.           *)
ShellPrints(s) ==
    /\ term[s] = "ACTIVE"
    /\ Cardinality(UNION {{r} \X Printed(r) : r \in Session}) < MaxShellFrames
    /\ \/ \E what \in Outputs : Stored(s, <<"out", what>>)
       \/ \E i \in 1..Len(frames[s]) :
             /\ frames[s][i][1] = "in"
             /\ \A j \in 1..Len(frames[s]) : frames[s][j] # <<"echo", frames[s][i][2]>>
             /\ Stored(s, <<"echo", frames[s][i][2]>>)
    /\ UNCHANGED <<term, inputs, sthreads, sessionContext, scall, scuts, terminalHistory>>

SessionEnds(s) ==
    /\ term[s] = "ACTIVE"
    /\ term' = [term EXCEPT ![s] = "TERMINATED"]
    /\ UNCHANGED <<frames, inputs, sthreads, sessionContext, scall, scuts, terminalHistory>>

(* SessionService.write stores the redacted input.  What it does to the    *)
(* shell is the shell's.                                                   *)
Written(s) ==
    /\ term[s] = "ACTIVE"
    /\ inputs' = inputs + 1
    /\ Stored(s, <<"in", inputs + 1>>)
    /\ UNCHANGED term
Opened(s) == term' = [term EXCEPT ![s] = "ACTIVE"] /\ UNCHANGED <<frames, inputs>>
Closed(s) == term' = [term EXCEPT ![s] = "TERMINATED"] /\ UNCHANGED <<frames, inputs>>

(* What a thread does; a write to a session that has ended fails.          *)
Performs(op, s) ==
    CASE op = "open" -> Opened(s)
      [] op = "write" -> Written(s)
      [] op = "close" -> Closed(s)

(* The thread of a call that was cut.                                      *)
TermThreadGoesOn ==
    \E th \in sthreads :
        /\ sthreads' = sthreads \ {th}
        /\ \/ Performs(th[1], th[2])
           \/ th[1] = "write" /\ term[th[2]] # "ACTIVE" /\ UNCHANGED <<term, frames, inputs>>
        /\ UNCHANGED <<sessionContext, scall, scuts, terminalHistory>>

-----------------------------------------------------------------------------
(* The context.                                                            *)

(* record_session_interaction.                                             *)
Briefed(s, state) == session_briefs' = [session_briefs EXCEPT ![s] = state]

(* History: the focus moves to s, or to nothing.                           *)
Refocused(s) ==
    /\ view' = <<>> /\ passed' = {} /\ mixed' = FALSE /\ owed' = 0 /\ told' = told
    /\ disturbed' = IF active_session_id = s THEN disturbed
                    ELSE disturbed \cup ({active_session_id} \ {NoSession})

(* _apply_session_record_to_context.  An activated session starts without  *)
(* a cursor and without pending input, and takes over the privilege and    *)
(* the statefulness of the one before it.                                  *)
Applied(s, activate) ==
    IF activate
    THEN /\ active_session_id' = s
         /\ terminal_cursor' = 0
         /\ terminal_input_pending' = FALSE
         /\ Refocused(s)
    ELSE UNCHANGED <<active_session_id, terminal_cursor, terminal_input_pending,
                     terminalHistory>>

-----------------------------------------------------------------------------
(* The calls.                                                              *)

Begin(tool, s, ref, pc, kind) ==
    /\ scall = NoTermCall
    /\ scall' = [NoTermCall EXCEPT !.tool = tool, !.pc = pc, !.session = s, !.ref = ref,
                                   !.input = kind]
    /\ UNCHANGED <<runtimeSessions, sessionContext, scuts, terminalHistory>>

BeginOpen(s) ==
    /\ term[s] = "absent" /\ \A th \in sthreads : th[1] = "open" => th[2] # s
    /\ Begin("open_terminal", s, FALSE, "open", "plain")

(* _resolve_session_id: the reference or the active session.               *)
Refers(s, ref) == term[s] # "absent" /\ (ref \/ s = active_session_id)
BeginOn(tool, s, ref, kind) == Refers(s, ref) /\ Begin(tool, s, ref, "get", kind)

(* inspect and activate take a reference, the others may.  A command and a *)
(* control send an input; a human's hidden input is submitted or typed.    *)
Inspect(s) == BeginOn("inspect_terminal_session", s, TRUE, "plain")
Activate(s) == BeginOn("activate_terminal_session", s, TRUE, "plain")
ObserveTerminal(s, ref) == BeginOn("observe_terminal", s, ref, "plain")
CloseTerminal(s, ref) == BeginOn("close_terminal", s, ref, "plain")
MaySend == inputs + Cardinality(sthreads) < MaxInputs
TerminalCommand(s, ref) ==
    MaySend /\ \E kind \in Inputs \ Controls : BeginOn("send", s, ref, kind)
SendControl(s, ref) ==
    MaySend /\ \E kind \in Inputs \cap (Controls \cup {"plain"}) : BeginOn("send", s, ref, kind)
RequestHumanInput(s, ref) ==
    MaySend /\ \E kind \in Inputs \cap {"plain", "typed"} :
                  BeginOn("request_human_terminal_input", s, ref, kind)

(* The new session is the active one.  The SDK's answer carries no state:  *)
(* its brief says UNKNOWN.  Pending input and statefulness stay.           *)
OpenReturns ==
    /\ scall.pc = "opened"
    /\ active_session_id' = scall.session
    /\ terminal_cursor' = 0
    /\ active_session_privilege' = "user"
    /\ Refocused(scall.session)
    /\ Briefed(scall.session, "UNKNOWN")
    /\ scall' = NoTermCall
    /\ UNCHANGED <<runtimeSessions, terminal_input_pending, last_terminal_input,
                   active_session_stateful, scuts>>

(* A session that has ended is only history: input and activation are      *)
(* refused.                                                                *)
Interactive(s) == term[s] = "ACTIVE"
InactiveSession(s) ==
    ~Interactive(s) /\ scall.tool \in {"activate_terminal_session", "send",
                                       "request_human_terminal_input"}

(* get_session returns.  An observation or an input with a reference       *)
(* activates the session it names.                                         *)
SessionRead ==
    LET s == scall.session
        activates == /\ Interactive(s)
                     /\ \/ scall.tool = "activate_terminal_session"
                        \/ /\ scall.tool \in {"observe_terminal", "send",
                                              "request_human_terminal_input"}
                           /\ scall.ref /\ active_session_id # s
        next == CASE scall.tool = "observe_terminal" -> "frames"
                  [] scall.tool = "close_terminal" -> "close"
                  [] scall.tool = "send" -> "write"
                  [] scall.tool = "request_human_terminal_input" -> "prompt"
                  [] OTHER -> "idle"
    IN  /\ scall.pc = "get"
        /\ Applied(s, activates)
        /\ IF scall.tool = "close_terminal" \/ (next = "frames" /\ active_session_id' # s)
           THEN UNCHANGED session_briefs ELSE Briefed(s, term[s])
        /\ scall' = IF InactiveSession(s) \/ next = "idle" THEN NoTermCall
                    ELSE [scall EXCEPT !.pc = next, !.state = term[s], !.ref = FALSE,
                                       !.first = (next = "frames" /\ terminal_cursor' = 0)]
        /\ UNCHANGED <<runtimeSessions, last_terminal_input, sessionState, scuts>>

(* The user answers the secret prompt, or does not.                        *)
HumanAnswers ==
    /\ scall.pc = "prompt"
    /\ scall' \in {NoTermCall, [scall EXCEPT !.pc = "write"]}
    /\ UNCHANGED <<runtimeSessions, sessionContext, scuts, terminalHistory>>

(* The thread of an open, a write or a close.                              *)
ThreadRuns ==
    /\ scall.pc \in {"open", "write", "close"}
    /\ Performs(scall.pc, scall.session)
    /\ scall' = [scall EXCEPT !.pc = CASE @ = "open" -> "opened" [] @ = "write" -> "written"
                                       [] @ = "close" -> "closed",
                              !.stored = inputs']
    /\ UNCHANGED <<sthreads, sessionContext, scuts, terminalHistory>>

(* Mutation of AfterInput: leaving the root shell leaves a clean session.  *)
AfterInputForgets(kind) ==
    /\ active_session_privilege' =
          IF kind = "root" THEN "root" ELSE IF kind \in {"exit", "ctrl_c", "ctrl_d"}
          THEN "unknown" ELSE active_session_privilege
    /\ active_session_stateful' = (kind \in {"root", "cd"})

(* _opens_root_shell and _stateful_shell_reason: what changes the shell.   *)
Changing == {"root", "cd"}
(* _update_session_state_from_input.                                       *)
AfterCommand(kind) ==
    LET leaves == kind = "exit" /\ active_session_privilege = "root"
    IN  /\ active_session_privilege' =
              IF kind = "root" THEN "root" ELSE IF leaves THEN "unknown"
              ELSE active_session_privilege
        /\ active_session_stateful' = (active_session_stateful \/ leaves \/ kind \in Changing)
(* The control keys: an interrupt always leaves doubt, an end of file in a *)
(* root shell.                                                             *)
AfterControl(kind) ==
    LET root == active_session_privilege = "root"
    IN  /\ active_session_privilege' = IF root THEN "unknown" ELSE active_session_privilege
        /\ active_session_stateful' = (active_session_stateful \/ root \/ kind = "ctrl_c")
AfterInput(kind) ==
    IF kind \in {"ctrl_c", "ctrl_d"} THEN AfterControl(kind) ELSE AfterCommand(kind)
(* What a human typed is not looked at.                                    *)
AfterHumanInput == UNCHANGED sessionState

(* History: a submission after all the output of the session was seen.     *)
AllSeen(s) == \A i \in Printed(s) : i <= terminal_cursor
Submission(s, kind) == IF Submits(kind) /\ AllSeen(s) /\ s = active_session_id /\ ~mixed
                       THEN Len(frames[s]) ELSE 0

(* The input was written: it is pending if it can run something.           *)
WriteReturns ==
    LET s == scall.session
    IN  /\ scall.pc = "written"
        /\ last_terminal_input' = scall.stored
        /\ terminal_input_pending' = Submits(scall.input)
        /\ IF scall.tool = "send" THEN AfterInput(scall.input) ELSE AfterHumanInput
        /\ told' = IF scall.tool = "send" /\ scall.input = "root" THEN told \cup {s} ELSE told
        /\ Briefed(s, scall.state)
        /\ owed' = Submission(s, scall.input)
        /\ scall' = NoTermCall
        /\ UNCHANGED <<runtimeSessions, active_session_id, terminal_cursor, scuts, view,
                       passed, mixed, disturbed>>

(* Mutation of CloseReturns: pending input stays.                          *)
CloseReturnsPending ==
    /\ scall.pc = "closed"
    /\ Briefed(scall.session, "TERMINATED")
    /\ active_session_id' = NoSession /\ terminal_cursor' = 0 /\ last_terminal_input' = 0
    /\ active_session_privilege' = "unknown" /\ active_session_stateful' = FALSE
    /\ Refocused(NoSession)
    /\ scall' = NoTermCall
    /\ UNCHANGED <<runtimeSessions, terminal_input_pending, scuts>>

(* The state of the active session is cleared, whichever session closed.   *)
CloseReturns ==
    /\ scall.pc = "closed"
    /\ Briefed(scall.session, "TERMINATED")
    /\ active_session_id' = NoSession /\ terminal_cursor' = 0
    /\ terminal_input_pending' = FALSE /\ last_terminal_input' = 0
    /\ active_session_privilege' = "unknown" /\ active_session_stateful' = FALSE
    /\ Refocused(NoSession)
    /\ scall' = NoTermCall
    /\ UNCHANGED <<runtimeSessions, scuts>>

-----------------------------------------------------------------------------
(* observe_terminal: a poll reads a page of frames after the cursor, then  *)
(* the text of the tail, then the last number.                             *)
Least(a, b) == IF a < b THEN a ELSE b

ReadFrames ==
    LET n == Len(frames[scall.session])
        upto == Least(n, terminal_cursor + FramePage)
        more == IF upto < terminal_cursor THEN 0 ELSE upto - terminal_cursor
    IN  /\ scall.pc = "frames"
        /\ scall' = [scall EXCEPT
              !.pc = "tail", !.stored = IF more = 0 THEN n ELSE 0,
              !.page = [i \in 1..more |-> terminal_cursor + i]]
        /\ UNCHANGED <<runtimeSessions, sessionContext, scuts, terminalHistory>>

(* Neither is used when the page has frames.                               *)
ReadTail ==
    /\ LET used == IF scall.page = <<>> THEN Len(frames[scall.session]) ELSE 0
       IN  \/ /\ scall.pc = "tail"
              /\ scall' = [scall EXCEPT !.pc = "last", !.text = IF scall.first THEN used ELSE 0]
           \/ /\ scall.pc = "last"
              /\ scall' = [scall EXCEPT !.pc = "polled", !.last = used]
    /\ UNCHANGED <<runtimeSessions, sessionContext, scuts, terminalHistory>>

(* _is_plain_terminal_echo: nothing but redacted input, or the echo of the *)
(* last input and nothing else.                                            *)
Visible(s, page) == {i \in 1..Len(page) : Shows(s, page[i])}
PlainEcho(s, page) ==
    \/ Visible(s, page) = {}
    \/ /\ last_terminal_input # 0
       /\ \E i \in 1..Len(page) : /\ Visible(s, page) = {i}
                                  /\ frames[s][page[i]] = <<"echo", last_terminal_input>>

(* What the poll returns: the page, or on the first poll the text of the   *)
(* tail.  Inputs add nothing to it: a tail of inputs alone is empty.       *)
TailText(s) == IF \E i \in 1..scall.text : Shows(s, i) THEN [i \in 1..scall.text |-> i]
               ELSE <<>>
PollText(s) == IF scall.page # <<>> THEN scall.page
               ELSE IF scall.first /\ scall.got = <<>> THEN TailText(s) ELSE <<>>
PollMeans(s) ==
    IF scall.page # <<>> THEN ~PlainEcho(s, scall.page) ELSE PollText(s) # <<>>

(* Mutation of NextCursor: the cursor is always the tail's last number.    *)
NextCursorFromTail == Len(frames[scall.session])
(* Mutation of NextCursor: the next page begins with the last frame.       *)
NextCursorRepeats == IF scall.page # <<>> THEN scall.page[Len(scall.page)] - 1 ELSE scall.last
(* The last frame of the page, or the last number the tail has seen.       *)
NextCursor == IF scall.page # <<>> THEN scall.page[Len(scall.page)] ELSE scall.last

(* _update_session_state_from_output.                                      *)
Says(s, got, what) == \E i \in 1..Len(got) : frames[s][got[i]] = <<"out", what>>
AfterOutput(s, got) ==
    LET root == active_session_privilege = "root"
        doubt == Says(s, got, "denied") /\ root
    IN  /\ active_session_privilege' = IF Says(s, got, "uid0") THEN "root"
                                       ELSE IF doubt THEN "unknown" ELSE active_session_privilege
        /\ active_session_stateful' = (active_session_stateful \/ Says(s, got, "uid0") \/ doubt)

(* The call returns what its polls have read.                              *)
ObserveTermEnds(s, got, meaningful) ==
    /\ terminal_input_pending' = (terminal_input_pending /\ ~meaningful)
    /\ IF meaningful THEN AfterOutput(s, got) ELSE UNCHANGED sessionState
    /\ told' = IF meaningful /\ Says(s, got, "uid0") THEN told \cup ({s} \cap {active_session_id})
               ELSE told
    /\ Briefed(s, scall.state)
    /\ scall' = NoTermCall

(* A result that is too long loses its beginning, and is marked.           *)
Dropped(got) == IF Len(got) > MaxText THEN Len(got) - MaxText ELSE 0
Fitting(got) == [i \in 1..(Len(got) - Dropped(got)) |-> got[Dropped(got) + i]]

(* History of a poll: what is returned, what was passed over, whose cursor *)
(* it was, and whether an owed answer has come.                            *)
PollHistory(s, got, ends) ==
    LET between == {i \in 1..Len(frames[s]) :
                      scall.page = <<>> /\ scall.stored < i /\ i <= scall.last}
        dropped == IF ends THEN {got[i] : i \in 1..Dropped(got)} ELSE {}
    IN  /\ mixed' = (mixed \/ s # active_session_id)
        /\ passed' = IF mixed' THEN {} ELSE passed \cup between \cup dropped
        /\ view' = IF mixed' THEN <<>> ELSE IF ends THEN view \o Fitting(got) ELSE view
        /\ owed' = IF mixed' \/ (ends /\ \E i \in 1..Len(got) :
                               /\ got[i] > owed
                               /\ frames[s][got[i]] # <<"echo", last_terminal_input>>
                               /\ Shows(s, got[i]))
                   THEN 0 ELSE owed

Polled ==
    LET s == scall.session
        got == scall.got \o PollText(s)
        meaningful == scall.meaningful \/ PollMeans(s)
    IN  /\ scall.pc = "polled"
        /\ terminal_cursor' = NextCursor
        /\ \E ends \in BOOLEAN :
              /\ IF ends THEN ObserveTermEnds(s, got, meaningful)
                 ELSE /\ scall' = [NoTermCall EXCEPT
                            !.tool = scall.tool, !.pc = "frames", !.session = s,
                            !.state = scall.state, !.got = got, !.meaningful = meaningful,
                            !.first = scall.first /\ scall.page # <<>>]
                      /\ UNCHANGED <<terminal_input_pending, sessionState, session_briefs, told>>
              /\ PollHistory(s, got, ends)
        /\ UNCHANGED <<runtimeSessions, active_session_id, last_terminal_input, scuts, disturbed>>

(* Mutation of TermCallCut: a close that was cut is recorded as done.      *)
TermCallCutClosed ==
    /\ scall.pc # "idle" /\ scuts < MaxTermCuts
    /\ scuts' = scuts + 1
    /\ session_briefs' = IF scall.pc \in {"close", "closed"}
                         THEN [session_briefs EXCEPT ![scall.session] = "TERMINATED"]
                         ELSE session_briefs
    /\ sthreads' = IF scall.pc \in {"open", "write", "close"}
                   THEN sthreads \cup {<<scall.pc, scall.session, scuts'>>} ELSE sthreads
    /\ scall' = NoTermCall
    /\ UNCHANGED <<term, frames, inputs, active_session_id, terminal_cursor,
                   terminal_input_pending, last_terminal_input, sessionState,
                   terminalHistory>>

(* A timeout or an exception ends the call at an await; a thread that runs *)
(* goes on, and the text of the polls so far is dropped.                   *)
TermCallCut ==
    /\ scall.pc # "idle" /\ scuts < MaxTermCuts
    /\ scuts' = scuts + 1
    /\ sthreads' = IF scall.pc \in {"open", "write", "close"}
                   THEN sthreads \cup {<<scall.pc, scall.session, scuts'>>} ELSE sthreads
    /\ mixed' = (mixed \/ scall.got # <<>>)
    /\ view' = IF mixed' THEN <<>> ELSE view
    /\ passed' = IF mixed' THEN {} ELSE passed
    /\ owed' = IF scall.pc \in {"write", "written"} \/ mixed' THEN 0 ELSE owed
    /\ scall' = NoTermCall
    /\ UNCHANGED <<term, frames, inputs, sessionContext, told, disturbed>>

TermCallStep ==
    \/ OpenReturns \/ SessionRead \/ HumanAnswers \/ ThreadRuns \/ WriteReturns
    \/ CloseReturns \/ ReadFrames \/ ReadTail \/ Polled \/ TermCallCut
TermRuntimeStep == (\E s \in Session : ShellPrints(s) \/ SessionEnds(s)) \/ TermThreadGoesOn

TerminalNext(allowed) ==
    \/ TermRuntimeStep
    \/ TermCallStep
    \/ allowed /\ \E s \in Session :
          \/ BeginOpen(s) \/ Inspect(s) \/ Activate(s)
          \/ \E ref \in BOOLEAN :
                \/ ObserveTerminal(s, ref) \/ CloseTerminal(s, ref)
                \/ TerminalCommand(s, ref) \/ SendControl(s, ref) \/ RequestHumanInput(s, ref)

-----------------------------------------------------------------------------
(* The output of a terminal is returned in order and each frame once for   *)
(* as long as the session keeps the focus, over pages, polls and calls.    *)
ShownInOrder == \A i, j \in 1..Len(view) : i < j => view[i] < view[j]

(* The cursor passes over a frame that was not returned only when it was   *)
(* stored between the two requests of a poll that found no frames, or cut  *)
(* off a result that is marked as truncated: output is lost in that race,  *)
(* or with notice, and in no other way.                                    *)
SkippedHasCause ==
    active_session_id # NoSession /\ ~mixed /\ scall = NoTermCall =>
        \A i \in Printed(active_session_id) :
            i <= terminal_cursor => i \in passed \/ \E j \in 1..Len(view) : view[j] = i

(* The active session is in the inventory, and a session the inventory     *)
(* calls ended has ended, also when a close was cut before or after its    *)
(* thread did the work.                                                    *)
SessionsAreListed ==
    /\ active_session_id # NoSession => session_briefs[active_session_id] # "None"
    /\ \A s \in Session : session_briefs[s] = "TERMINATED" => term[s] = "TERMINATED"
-----------------------------------------------------------------------------
(* What makes these properties inductive.  A call is where its tool can be *)
(* and works on a session that is there; an input goes to the active one.  *)
CallsFit ==
    LET s == scall.session
    IN  /\ scall.pc = "idle" <=> scall = NoTermCall
        /\ scall.pc \in {"open", "opened"} => scall.tool = "open_terminal"
        /\ scall.pc \in {"close", "closed"} => scall.tool = "close_terminal"
        /\ scall.pc \in {"prompt", "write", "written"} => scall.tool \in SendTool
        /\ scall.pc \in PollPc => scall.tool = "observe_terminal"
        /\ scall.tool = "request_human_terminal_input" => scall.input \in {"plain", "typed"}
        /\ scall.pc \notin PollPc => scall.got = <<>> /\ ~scall.meaningful
        /\ scall.pc \notin {"idle", "open"} => term[s] # "absent"
        /\ scall.pc = "open" => /\ term[s] = "absent"
                               /\ \A th \in sthreads : th[1] = "open" => th[2] # s
        /\ scall.pc = "get" /\ ~scall.ref => s = active_session_id
        /\ scall.pc \in {"prompt", "write", "written"} => s = active_session_id
        /\ scall.pc \in {"prompt", "write", "written"} \cup PollPc => scall.state # "absent"
        /\ scall.state = "TERMINATED" => term[s] = "TERMINATED"
        /\ scall.pc = "closed" => term[s] = "TERMINATED"

(* A session is opened once.                                               *)
ThreadsFit ==
    /\ \A th \in sthreads : th[1] = "open" <=> term[th[2]] = "absent"
    /\ \A th, ti \in sthreads : th[1] = "open" /\ ti[1] = "open" /\ th[2] = ti[2] => th = ti

(* No more is sent than may be.                                            *)
Writing == {th \in sthreads : th[1] = "write"}
Sending == IF scall.tool \in SendTool /\ scall.pc # "written" THEN 1 ELSE 0
InputsFit ==
    /\ inputs + Cardinality(Writing) + Sending <= MaxInputs
    /\ scall.pc = "written" => scall.stored \in 1..inputs

(* A session with a root shell the context was told of, and that never     *)
(* lost the focus, is the active one, and the context is cautious.         *)
Cautious == active_session_stateful \/ active_session_privilege = "root"
RootIsKnown ==
    /\ \A s \in told \ disturbed : s = active_session_id /\ Cautious
    /\ \A s \in told : term[s] # "absent"
    /\ scall.pc \in {"open", "opened"} => scall.session \notin told \ disturbed
    /\ active_session_id # NoSession => term[active_session_id] # "absent"

(* The poll in progress: the page follows the cursor, and an empty one     *)
(* means that the cursor was at the end.                                   *)
PageFollows ==
    /\ scall.pc \in PollPc /\ scall.first /\ scall.got = <<>> => terminal_cursor = 0
    /\ scall.pc \in {"tail", "last", "polled"} =>
          /\ scall.page = [i \in 1..Len(scall.page) |-> terminal_cursor + i]
          /\ scall.page # <<>> =>
                terminal_cursor + Len(scall.page) <= Len(frames[scall.session])
          /\ scall.page = <<>> => scall.stored <= terminal_cursor
    /\ scall.pc = "last" /\ scall.page = <<>> => scall.text <= Len(frames[scall.session])
    /\ scall.pc = "polled" /\ scall.page = <<>> =>
          scall.text <= scall.last /\ scall.last <= Len(frames[scall.session])

(* What was returned, and what the polls of this call have got, goes up to *)
(* the cursor.                                                             *)
Increasing(seq) == \A i, j \in 1..Len(seq) : i < j => seq[i] < seq[j]
Within(seq, n) == \A i \in 1..Len(seq) : seq[i] <= n
CursorFollowsView ==
    /\ mixed => view = <<>> /\ passed = {} /\ owed = 0
    /\ Increasing(view)
    /\ ~mixed =>
          /\ Increasing(view \o scall.got) /\ Within(view \o scall.got, terminal_cursor)
          /\ scall.got # <<>> => scall.session = active_session_id
          /\ scall.pc = "polled" /\ scall.page = <<>> /\ scall.session = active_session_id =>
                terminal_cursor <= scall.last
          /\ active_session_id # NoSession =>
                /\ terminal_cursor <= Len(frames[active_session_id])
                /\ \A i \in Printed(active_session_id) : i <= terminal_cursor =>
                      \/ i \in passed
                      \/ \E j \in 1..Len(view \o scall.got) : (view \o scall.got)[j] = i

(* An answer that is owed is still to come: it keeps the input pending.    *)
Answers(s, got) ==
    \E i \in 1..Len(got) : /\ got[i] > owed /\ Shows(s, got[i])
                           /\ frames[s][got[i]] # <<"echo", last_terminal_input>>
OwedIsPending ==
    LET s == active_session_id
    IN  owed # 0 =>
          /\ terminal_input_pending /\ s # NoSession /\ last_terminal_input # 0
          /\ owed <= Len(frames[s])
          /\ \A i \in Printed(s) : i <= owed => i <= terminal_cursor
          /\ scall.pc \in PollPc /\ scall.session = s /\ scall.meaningful => Answers(s, scall.got)
          /\ scall.pc \in {"tail", "last", "polled"} /\ scall.session = s /\ scall.page = <<>> =>
                owed <= scall.stored

EchoesOnce ==
    \A s \in Session : \A i, j \in 1..Len(frames[s]) :
        frames[s][i][1] = "echo" /\ frames[s][i] = frames[s][j] => i = j

TerminalInv ==
    /\ TerminalTypeOK /\ CallsFit /\ ThreadsFit /\ InputsFit /\ SessionsAreListed /\ RootIsKnown
    /\ PageFollows /\ CursorFollowsView /\ OwedIsPending /\ EchoesOnce
=============================================================================
