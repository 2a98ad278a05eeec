------------------------------ MODULE TmuxInstall ------------------------------
(***************************************************************************)
(* remote action="ensure_tool": tmux is looked for, and installed, by a    *)
(* command on the remote host; when that needs a password and the user     *)
(* agrees, by an interactive command in a terminal whose output the tool   *)
(* reads for markers and whose password prompts it passes on to the user.  *)
(***************************************************************************)
EXTENDS Naturals, Sequences, FiniteSets

CONSTANTS
    MaxFrames,           \* bound on the frames of the terminal
    MaxPasswordAttempts, \* max_password_attempts of the tool
    MaxInstalls          \* bound on the calls of the tool

Marker == {"PRESENT", "MISSING", "INSTALLED", "FAILED", "AUTH_OK", "PROMPT", "SORRY",
           "INCORRECT", "REDACTED"}
Privilege == {"root", "nopasswd", "password", "none"}

ASSUME InstallAssumption ==
    MaxFrames \in Nat /\ MaxPasswordAttempts \in Nat /\ MaxInstalls \in Nat

VARIABLES
    present,     \* tmux is installed on the host
    privilege,   \* of the user on the host
    program,     \* the command in the terminal
    frames,      \* the markers in what it printed, and the redacted inputs
    typed,       \* passwords written and not read by sudo yet
    wrong,       \* wrong passwords sudo has read
    left,        \* terminals nobody looks at any more: why, and whether their
                 \* command comes to install tmux
    tool,        \* the call of the tool
    status,      \* remote_tool_statuses["tmux"]
    installs,    \* calls made
    asked, stale \* history: of the last call, passwords asked for; an observation
                 \* that found nothing new and took the tail for it

installVars == <<present, privilege, program, frames, typed, wrong, left, tool, status,
                 installs, asked, stale>>
host == <<present, privilege>>

NoTool == [pc |-> "idle", cursor |-> 0, seen |-> {}, attempts |-> 0, accepted |-> FALSE]

InstallInit ==
    /\ present \in BOOLEAN /\ privilege \in Privilege
    /\ program = "none" /\ frames = <<>> /\ typed = <<>> /\ wrong = 0 /\ left = {}
    /\ tool = NoTool /\ status = "unknown" /\ installs = 0
    /\ asked = 0 /\ stale = FALSE

ToolPc == {"idle", "automatic", "approve", "open", "observe", "decide", "ask", "close",
           "record"}
Tools(n) == [pc : ToolPc, cursor : 0..n, seen : SUBSET Marker,
             attempts : 0..MaxPasswordAttempts, accepted : BOOLEAN]
LeftRow == [why : {"cut", "close"}, installs : BOOLEAN]
InstallTypeOK ==
    /\ present \in BOOLEAN /\ privilege \in Privilege
    /\ program \in {"none", "starts", "asks", "installs", "ended"}
    /\ frames \in Seq(Marker) /\ Len(frames) <= MaxFrames /\ typed \in Seq(BOOLEAN)
    /\ left \subseteq LeftRow /\ tool \in Tools(Len(frames))
    /\ status \in {"unknown", "present", "missing"}
    /\ installs \in 0..MaxInstalls /\ asked \in Nat /\ wrong \in Nat /\ stale \in BOOLEAN

-----------------------------------------------------------------------------
(* What the automatic command prints up to the time it is observed, with   *)
(* the outcome it has then: it may still be running.                       *)
Prints(install) ==
    IF present THEN {{"PRESENT"}}
    ELSE IF ~install THEN {{"MISSING"}}
    ELSE CASE privilege = "password" -> {{"MISSING"}, {"MISSING", "FAILED", "PROMPT"}}
           [] privilege = "none" -> {{"MISSING"}, {"MISSING", "FAILED", "PROMPT"}}
           [] OTHER -> {{"MISSING"}, {"MISSING", "FAILED"}, {"MISSING", "INSTALLED"}}
(* _tmux_install_needs_manual_elevation: PROMPT stands for the texts that  *)
(* ask for a password or for root.                                         *)
NeedsElevation(seen) == "PROMPT" \in seen

(* Mutation of Status: a password that was accepted counts as success.     *)
StatusByPassword(seen) ==
    IF {"PRESENT", "INSTALLED", "AUTH_OK"} \cap seen # {} THEN "present"
    ELSE IF "MISSING" \in seen THEN "missing" ELSE "unknown"
(* _record_remote_tool_status_from_result.                                 *)
Status(seen) ==
    IF {"PRESENT", "INSTALLED"} \cap seen # {} THEN "present"
    ELSE IF "MISSING" \in seen THEN "missing" ELSE "unknown"

(* What probe_remote_environment records of tmux when it succeeds.         *)
ProbeTool ==
    /\ status' = IF present THEN "present" ELSE "missing"
    /\ UNCHANGED <<host, program, frames, typed, wrong, left, tool, installs, asked, stale>>

EnsureTool ==
    /\ tool.pc = "idle" /\ installs < MaxInstalls
    /\ installs' = installs + 1
    /\ tool' = [NoTool EXCEPT !.pc = "automatic"]
    /\ asked' = 0 /\ stale' = FALSE /\ frames' = <<>> /\ typed' = <<>> /\ wrong' = 0
    /\ UNCHANGED <<host, program, left, status>>

(* The command has run, or runs on after it was observed.                  *)
Automatic(install) ==
    /\ tool.pc = "automatic"
    /\ \E seen \in Prints(install) :
          /\ present' \in IF install /\ privilege \in {"root", "nopasswd"} /\ "FAILED" \notin seen
                         THEN {present, TRUE} ELSE {present}
          /\ "INSTALLED" \in seen => present'
          /\ tool' = [tool EXCEPT !.seen = seen,
                         !.pc = IF install /\ NeedsElevation(seen) THEN "approve" ELSE "record"]
    /\ UNCHANGED <<privilege, program, frames, typed, wrong, left, status, installs, asked, stale>>

(* No one to ask: the automatic result stands.  A refusal is a result of   *)
(* its own.  Else the interactive command is started in a terminal.        *)
Elevate(answer) ==
    /\ tool.pc = "approve"
    /\ tool' = CASE answer = "nobody" -> [tool EXCEPT !.pc = "record"]
                 [] answer = "no" -> [tool EXCEPT !.pc = "record", !.seen = {"FAILED"}]
                 [] answer = "yes" -> [NoTool EXCEPT !.pc = "open"]
    /\ UNCHANGED <<host, program, frames, typed, wrong, left, status, installs, asked, stale>>
(* It is opened, unless the call is cut; an error while it is opened ends  *)
(* the call as a cut would.                                                *)
OpenTerminal ==
    /\ tool.pc = "open"
    /\ tool' = [tool EXCEPT !.pc = "observe"] /\ program' = "starts"
    /\ UNCHANGED <<host, frames, typed, wrong, left, status, installs, asked, stale>>

-----------------------------------------------------------------------------
(* The command in the terminal.                                            *)
Shows(markers) == frames' = frames \o markers /\ Len(frames') <= MaxFrames
ProgramStarts ==
    /\ program = "starts"
    /\ CASE present -> Shows(<<"PRESENT">>) /\ program' = "ended"
         [] ~present /\ privilege \in {"root", "nopasswd"} ->
               Shows(<<"MISSING", "AUTH_OK">>) /\ program' = "installs"
         [] ~present /\ privilege = "none" ->
               Shows(<<"MISSING", "FAILED">>) /\ program' = "ended"
         [] ~present /\ privilege = "password" ->
               Shows(<<"MISSING", "PROMPT">>) /\ program' = "asks"
    /\ UNCHANGED <<host, typed, wrong, left, tool, status, installs, asked, stale>>
(* sudo reads a password: it takes the right one, asks again twice.        *)
SudoReads ==
    /\ program = "asks" /\ typed # <<>>
    /\ typed' = Tail(typed)
    /\ \/ Head(typed) /\ Shows(<<"AUTH_OK">>) /\ program' = "installs" /\ UNCHANGED wrong
       \/ /\ ~Head(typed) /\ wrong' = wrong + 1
          /\ \/ wrong < 2 /\ Shows(<<"SORRY", "PROMPT">>) /\ UNCHANGED program
             \/ wrong = 2 /\ Shows(<<"INCORRECT">>) /\ program' = "ended"
    /\ UNCHANGED <<host, left, tool, status, installs, asked, stale>>
Installs(works) ==
    /\ program = "installs" /\ program' = "ended"
    /\ Shows(<<IF works THEN "INSTALLED" ELSE "FAILED">>)
    /\ present' = (present \/ works)
    /\ UNCHANGED <<privilege, typed, wrong, left, tool, status, installs, asked, stale>>

-----------------------------------------------------------------------------
New == SubSeq(frames, tool.cursor + 1, Len(frames))
Markers(s) == {s[i] : i \in DOMAIN s}
(* Mutation of ObservedText: always the tail.                              *)
ObservedTextTail == Markers(frames)
(* _terminal_observation_text: the new frames, or the tail when there are  *)
(* none.                                                                   *)
ObservedText == IF New # <<>> THEN Markers(New) ELSE Markers(frames)
Terminal(seen) == {"PRESENT", "INSTALLED", "FAILED", "INCORRECT"} \cap seen # {}

(* Mutation of MayAsk: off by one.                                         *)
MayAskOnceMore == tool.attempts <= MaxPasswordAttempts
MayAsk == tool.attempts < MaxPasswordAttempts

(* One turn of the loop: observe, and ask for the password, or give up     *)
(* asking, when the text has a prompt and no password was accepted.        *)
Observe ==
    LET text == ObservedText
        seen == tool.seen \cup text
        accepted == tool.accepted \/ "AUTH_OK" \in seen
        prompted == "PROMPT" \in text /\ ~accepted
    IN  /\ tool.pc = "observe"
        /\ tool' = [tool EXCEPT !.cursor = Len(frames), !.accepted = accepted,
               !.seen = IF prompted /\ ~MayAsk THEN seen \cup {"FAILED"} ELSE seen,
               !.pc = IF ~prompted THEN "decide"
                      ELSE IF MayAsk THEN "ask" ELSE "close"]
        /\ stale' = (stale \/ (prompted /\ New = <<>>))
        /\ UNCHANGED <<host, program, frames, typed, wrong, left, status, installs, asked>>

(* The user types a password, which is written to the terminal and stored  *)
(* as a redacted frame; or nobody can be asked.                            *)
Ask(right) ==
    /\ tool.pc = "ask"
    /\ asked' = asked + 1
    /\ typed' = IF program = "ended" THEN typed ELSE Append(typed, right)
    /\ Shows(<<"REDACTED">>)
    /\ tool' = [tool EXCEPT !.pc = "decide", !.attempts = @ + 1]
    /\ UNCHANGED <<host, program, wrong, left, status, installs, stale>>
NobodyToAsk ==
    /\ tool.pc = "ask"
    /\ tool' = [tool EXCEPT !.pc = "close", !.seen = @ \cup {"FAILED"}]
    /\ UNCHANGED <<host, program, frames, typed, wrong, left, status, installs, asked, stale>>
(* The output ends the loop, or the deadline does, or it goes on.          *)
Decide(late) ==
    /\ tool.pc = "decide"
    /\ tool' = IF Terminal(tool.seen) THEN [tool EXCEPT !.pc = "close"]
               ELSE IF late THEN [tool EXCEPT !.pc = "close", !.seen = @ \cup {"FAILED"}]
               ELSE [tool EXCEPT !.pc = "observe"]
    /\ UNCHANGED <<host, program, frames, typed, wrong, left, status, installs, asked, stale>>

(* The command in a terminal that is left alone comes to install tmux:     *)
(* it does so already, or needs no password, or was given one.             *)
ComesToInstall(state) ==
    \/ state = "installs"
    \/ state = "starts" /\ ~present /\ privilege \in {"root", "nopasswd"}
    \/ state = "asks" /\ \E i \in DOMAIN typed : typed[i]
Left(why, state) == left \cup {[why |-> why, installs |-> ComesToInstall(state)]}

(* Mutation of CutTo: a cut is not caught by the finally clause.           *)
CutToIdle == "idle"
(* The tool timeout, or a request that fails: a terminal is still closed,  *)
(* nothing is recorded.  One that was being opened is not, the finally     *)
(* clause comes later: the thread may still open it.  A command that       *)
(* installs by itself may still do so.                                     *)
CutTo == IF program # "none" THEN "close" ELSE "idle"
InstallCut ==
    /\ tool.pc \notin {"idle", "close", "record"}
    /\ tool' = [NoTool EXCEPT !.pc = CutTo, !.cursor = tool.cursor]
    /\ left' \in {left} \cup (IF tool.pc = "open" THEN {Left("cut", "starts")} ELSE {})
    /\ present' \in {present} \cup (IF tool.pc = "automatic" /\ privilege \in {"root", "nopasswd"}
                                   THEN {TRUE} ELSE {})
    /\ UNCHANGED <<privilege, program, frames, typed, wrong, status, installs, asked, stale>>

(* close_terminal: the command ends, and an installation that was under    *)
(* way may have come to its end or not.  An error of it is suppressed: the *)
(* terminal stays, with what runs in it.                                   *)
Close(works) ==
    /\ tool.pc = "close"
    /\ IF works THEN present' \in {present, present \/ program = "installs"} /\ UNCHANGED left
       ELSE left' = Left("close", program) /\ UNCHANGED present
    /\ program' = "none"
    /\ tool' = IF tool.seen = {} THEN NoTool ELSE [tool EXCEPT !.pc = "record"]
    /\ UNCHANGED <<privilege, frames, typed, wrong, status, installs, asked, stale>>

(* A terminal that was left comes to its end.                              *)
LeftEnds ==
    \E t \in left :
       /\ t.installs /\ left' = left \ {t}
       /\ present' \in {present, TRUE}
       /\ UNCHANGED <<privilege, program, frames, typed, wrong, tool, status, installs, asked,
                      stale>>

Record ==
    /\ tool.pc = "record"
    /\ status' = Status(tool.seen) /\ tool' = NoTool
    /\ frames' = <<>> /\ typed' = <<>> /\ wrong' = 0
    /\ UNCHANGED <<host, program, left, installs, asked, stale>>

(* The broker restarts: the request under way fails, and with the broker   *)
(* go the ptys the commands run in.  What is left to record is recorded.   *)
BrokerInstall ==
    /\ tool' = (IF tool.pc = "record" THEN tool ELSE NoTool) /\ program' = "none"
    /\ left' = {}
    /\ UNCHANGED <<host, frames, typed, wrong, status, installs, asked, stale>>

InstallNext ==
    \/ EnsureTool \/ OpenTerminal \/ Observe \/ NobodyToAsk \/ InstallCut \/ Record \/ LeftEnds
    \/ \E yes \in BOOLEAN :
          Automatic(yes) \/ Ask(yes) \/ Decide(yes) \/ Installs(yes) \/ Close(yes)
    \/ \E answer \in {"nobody", "no", "yes"} : Elevate(answer)
    \/ ProgramStarts \/ SudoReads

-----------------------------------------------------------------------------
PromptsIn(n) == Cardinality({i \in 1..n : frames[i] = "PROMPT"})
Prompts == PromptsIn(Len(frames))

(* What the context says is there is there: the markers that count as      *)
(* success are printed by nothing else.                                    *)
PresentIsTrue == status = "present" => present

(* The user is asked for the password no more often than sudo asks - but   *)
(* for observations that found nothing new, where the tool takes the       *)
(* prompt in the tail for another one.                                     *)
AskedAsOftenAsSudo == tool.pc # "idle" => asked <= Prompts \/ stale

(* A call that ends, in whatever way, first asks for its terminal to be    *)
(* closed: once it is over, a command of it runs on only in a terminal     *)
(* whose closing failed, or whose opening was cut.                         *)
NoInstallLeft == program # "none" => tool.pc # "idle"

(* What the installer tells its two users is true: the context, that tmux  *)
(* is there; the person, that sudo wants a password.                       *)
InstallIsTruthful == PresentIsTrue /\ AskedAsOftenAsSudo

-----------------------------------------------------------------------------
(* What these rest on.  A success that was printed or seen is one; the     *)
(* terminal is open only where the tool closes it before it ends; every    *)
(* password asked for answers a prompt the tool has read past.             *)
SuccessIsTrue ==
    {"PRESENT", "INSTALLED"} \cap (tool.seen \cup Markers(frames)) # {} => present
Unopened == {"automatic", "approve", "open"}
TerminalIsWatched == tool.pc \in Unopened \cup {"idle", "record"} => program = "none"
AskedIsPrompted ==
    /\ tool.pc \in Unopened => asked = 0
    /\ tool.pc = "ask" => MayAsk
    /\ tool.pc # "idle" /\ ~stale =>
          asked + (IF tool.pc = "ask" THEN 1 ELSE 0) <= PromptsIn(tool.cursor)
InstallInv ==
    InstallTypeOK /\ PresentIsTrue /\ SuccessIsTrue /\ TerminalIsWatched /\ AskedIsPrompted
=============================================================================
