----------------------------- MODULE AgentContext -----------------------------
(***************************************************************************)
(* What the model is told of a conversation: AgentContext with the user's  *)
(* tasks, the final answers and the tool results, the artifacts of large   *)
(* results, and the compactions - automatic, for size, or asked for - that *)
(* turn older history into a summary.  The turns that drive it are those   *)
(* of AgentLoop, seen from here: build, then a result, an answer or an end *)
(* without one.                                                            *)
(***************************************************************************)
EXTENDS Naturals, Sequences

CONSTANTS
    Text,                     \* what a user may say
    ToolName,
    recent_tool_turns,        \* AgentConfig
    auto_compact_turns,
    auto_compact_tool_turns,
    SummaryLines,             \* how many lines of summary fit its 20,000 characters
    MaxUserTurns, MaxResults  \* bounds on the conversation

ASSUME ContextAssumption ==
    /\ recent_tool_turns \in Nat \ {0}
    /\ auto_compact_turns \in Nat \ {0, 1} /\ auto_compact_tool_turns \in Nat \ {0, 1}
    /\ SummaryLines \in Nat /\ MaxUserTurns \in Nat /\ MaxResults \in Nat

VARIABLES
    history,     \* user_tasks, assistant_finals, tool_turns and compacted_summary
    artifacts,   \* the files of large results: which result they hold
    stage,       \* of the turn: idle, build or decide
    userTurn,    \* turns begun
    results,     \* results added; a result is its number
    hidden,      \* results retained and not in the last prompt
    repeated,    \* history: turns whose task was that of the turn before
    unanswered,  \* history: a turn ended without an answer
    compactedAt  \* history: results added when history was compacted last

contextVars == <<history, artifacts, stage, userTurn, results, hidden, repeated, unanswered,
                 compactedAt>>

NoArtifact == <<0, "none">>
ArtifactName == (1..MaxResults) \X ToolName
EmptyHistory == [user_tasks |-> <<>>, assistant_finals |-> <<>>, tool_turns |-> <<>>,
                 compacted_summary |-> <<>>]

ContextInit ==
    /\ history = EmptyHistory /\ artifacts = [a \in ArtifactName |-> 0]
    /\ stage = "idle" /\ userTurn = 0 /\ results = 0 /\ hidden = 0
    /\ repeated = {} /\ unanswered = FALSE /\ compactedAt = 0

(* What is retained and what is summarized: a task with its turn, a result *)
(* with its number and its file; a line is about a number, and that of an  *)
(* answer about the turn of the task it stands beside.                     *)
Asked == [text : Text, turn : 1..MaxUserTurns]
Kept == [n : 1..MaxResults, artifact : ArtifactName \cup {NoArtifact}]
LineKind == {"user", "answer", "tool"}
Told == [kind : LineKind, of : Nat, to : Nat]
Histories == [user_tasks : Seq(Asked), assistant_finals : Seq(1..MaxUserTurns),
              tool_turns : Seq(Kept), compacted_summary : Seq(Told)]

ContextTypeOK ==
    /\ history \in Histories
    /\ userTurn \in 0..MaxUserTurns /\ results \in 0..MaxResults
    /\ \A i \in DOMAIN history.user_tasks : history.user_tasks[i].turn <= userTurn
    /\ \A i \in DOMAIN history.assistant_finals : history.assistant_finals[i] <= userTurn
    /\ Len(history.compacted_summary) <= SummaryLines
    /\ Len(history.tool_turns) <= results
    /\ artifacts \in [ArtifactName -> 0..results]
    /\ stage \in {"idle", "build", "decide"}
    /\ hidden \in 0..Len(history.tool_turns)
    /\ repeated \subseteq 1..userTurn /\ unanswered \in BOOLEAN /\ compactedAt \in 0..results
    /\ stage # "idle" => history.user_tasks # <<>>

-----------------------------------------------------------------------------
(* The last n elements: s[-n:].                                            *)
Newest(s, n) == IF Len(s) <= n THEN s ELSE SubSeq(s, Len(s) - n + 1, Len(s))
AfterFirst(s, n) == SubSeq(s, n + 1, Len(s))

Line(kind, of, to) == [kind |-> kind, of |-> of, to |-> to]
(* Mutation of CompactUserCount: the current task is compacted too.        *)
CompactUserCountAll(h) == Len(h.user_tasks)
(* All tasks but the current one, each with the answer of the same index.  *)
CompactUserCount(h) == IF h.user_tasks = <<>> THEN 0 ELSE Len(h.user_tasks) - 1
UserLines(h) ==
    LET n == CompactUserCount(h)
        answers == IF Len(h.assistant_finals) < n THEN Len(h.assistant_finals) ELSE n
        user(i) == Line("user", h.user_tasks[i].turn, 0)
        answer(i) == Line("answer", h.assistant_finals[i], h.user_tasks[i].turn)
    IN  [i \in 1..n + answers |-> IF i > 2 * answers THEN user(i - answers)
                                  ELSE IF i % 2 = 1 THEN user((i + 1) \div 2)
                                  ELSE answer(i \div 2)]

KeepToolCount == IF recent_tool_turns \div 2 = 0 THEN 1 ELSE recent_tool_turns \div 2
(* Mutation of ToolLines: one turn too many is summarized.                 *)
ToolLinesOverlap(h) ==
    [i \in 1..(IF Len(h.tool_turns) <= KeepToolCount THEN 0
               ELSE Len(h.tool_turns) - KeepToolCount + 1) |-> Line("tool", h.tool_turns[i].n, 0)]
ToolLines(h) ==
    [i \in 1..(IF Len(h.tool_turns) <= KeepToolCount THEN 0
               ELSE Len(h.tool_turns) - KeepToolCount) |-> Line("tool", h.tool_turns[i].n, 0)]

(* Mutation of RestOfFinals: the answers are not cut with their tasks.     *)
RestOfFinalsAll(h) == h.assistant_finals
RestOfFinals(h) == AfterFirst(h.assistant_finals, CompactUserCount(h))

(* _compact_history; what does not fit the summary is cut from its front.  *)
Compacted(h) ==
    [user_tasks |-> AfterFirst(h.user_tasks, CompactUserCount(h)),
     assistant_finals |-> RestOfFinals(h),
     tool_turns |-> Newest(h.tool_turns, KeepToolCount),
     compacted_summary |->
         Newest(h.compacted_summary \o UserLines(h) \o ToolLines(h), SummaryLines)]

(* /compact between two turns.                                             *)
Compact ==
    /\ stage = "idle"
    /\ history' = Compacted(history) /\ compactedAt' = results
    /\ hidden' = 0
    /\ UNCHANGED <<artifacts, stage, userTurn, results, repeated, unanswered>>

-----------------------------------------------------------------------------
(* run_with_context begins: a task that is the last one again is not added.*)
AddUserTask(text) ==
    LET tasks == history.user_tasks
        same == tasks # <<>> /\ tasks[Len(tasks)].text = text
    IN  /\ stage = "idle" /\ userTurn < MaxUserTurns
        /\ userTurn' = userTurn + 1 /\ stage' = "build"
        /\ history' = IF same THEN history
                      ELSE [history EXCEPT !.user_tasks =
                                               Append(@, [text |-> text, turn |-> userTurn'])]
        /\ repeated' = IF same THEN repeated \cup {userTurn'} ELSE repeated
        /\ UNCHANGED <<artifacts, results, hidden, unanswered, compactedAt>>

(* Mutation of AutoCompacts: only the number of tasks is looked at.        *)
AutoCompactsTasks == Len(history.user_tasks) > auto_compact_turns
AutoCompacts ==
    \/ Len(history.user_tasks) > auto_compact_turns
    \/ Len(history.tool_turns) > auto_compact_tool_turns

(* The tool turns _build_messages leaves out of the prompt.                *)
Unshown(h, recent) == Len(h.tool_turns) - Len(Newest(h.tool_turns, recent))

(* build_messages.  If the messages are too large they are compacted, and  *)
(* if they still are, fewer tool turns are shown; fits and nowFits are the *)
(* two comparisons with max_context_chars.                                 *)
BuildMessages(fits, nowFits) ==
    LET auto == IF AutoCompacts THEN Compacted(history) ELSE history
        built == IF fits THEN auto ELSE Compacted(auto)
        recent == IF fits \/ nowFits THEN recent_tool_turns ELSE KeepToolCount
    IN  /\ stage = "build" /\ stage' = "decide"
        /\ history' = built
        /\ compactedAt' = IF AutoCompacts \/ ~fits THEN results ELSE compactedAt
        /\ hidden' = Unshown(built, recent)
        /\ UNCHANGED <<artifacts, userTurn, results, repeated, unanswered>>

(* Mutation of ArtifactIndex: counted among the recent turns only.         *)
ArtifactIndexRecent == Len(Newest(history.tool_turns, recent_tool_turns)) + 1
ArtifactIndex == Len(history.tool_turns) + 1

(* A large content goes to a file, if there is a project root to put it in.*)
StoreLarge(tool, large, writable) ==
    IF large /\ writable THEN <<ArtifactIndex, tool>> ELSE NoArtifact
(* What is retained of a result: a preview that names the file.            *)
Retained(n, name) == [n |-> n, artifact |-> name]

(* add_tool_result, of a tool, a refused repetition or a refused answer.   *)
AddToolResult(tool, large, writable) ==
    LET name == StoreLarge(tool, large, writable)
    IN  /\ stage = "decide" /\ stage' = "build" /\ results < MaxResults
        /\ results' = results + 1
        /\ artifacts' = IF name = NoArtifact THEN artifacts
                        ELSE [artifacts EXCEPT ![name] = results']
        /\ history' = [history EXCEPT !.tool_turns = Append(@, Retained(results', name))]
        /\ UNCHANGED <<userTurn, hidden, repeated, unanswered, compactedAt>>

AddFinalDecision ==
    /\ stage = "decide" /\ stage' = "idle"
    /\ history' = [history EXCEPT !.assistant_finals = Append(@, userTurn)]
    /\ UNCHANGED <<artifacts, userTurn, results, hidden, repeated, unanswered, compactedAt>>

(* The turn fails, after a result that is not added or without one.        *)
TurnFails ==
    /\ stage # "idle" /\ stage' = "idle" /\ unanswered' = TRUE
    /\ UNCHANGED <<history, artifacts, userTurn, results, hidden, repeated, compactedAt>>

ContextNext ==
    \/ \E text \in Text : AddUserTask(text)
    \/ \E fits, nowFits \in BOOLEAN : BuildMessages(fits, nowFits)
    \/ \E tool \in ToolName, large, writable \in BOOLEAN : AddToolResult(tool, large, writable)
    \/ AddFinalDecision \/ TurnFails \/ Compact

ContextSpec == ContextInit /\ [][ContextNext]_contextVars

-----------------------------------------------------------------------------
(* Everything the model may be told of a kind: the summary, then what is  *)
(* retained.                                                               *)
ToldTools(h) ==
    h.compacted_summary \o [i \in 1..Len(h.tool_turns) |-> Line("tool", h.tool_turns[i].n, 0)]
ToldTasks(h) ==
    h.compacted_summary \o [i \in 1..Len(h.user_tasks) |-> Line("user", h.user_tasks[i].turn, 0)]
(* The lines of a kind are, in order, the newest of all; they are all of   *)
(* them unless there is no room left for more.                             *)
NewestTold(kind, lines, all, room) ==
    LET is(i) == i \in 1..Len(lines) /\ lines[i].kind = kind
    IN  /\ \A i, j \in 1..Len(lines) : is(i) /\ is(j) /\ i < j => lines[i].of < lines[j].of
        /\ \A k \in all : \/ \E i \in 1..Len(lines) : is(i) /\ lines[i].of = k
                          \/ room = 0 /\ \A i \in 1..Len(lines) : is(i) => k < lines[i].of
Room(h) == SummaryLines - Len(h.compacted_summary)

(* Nothing is forgotten or told twice: through compactions of every kind,  *)
(* in any order, summary and retained history together hold every task and *)
(* every result once and in order, but for the oldest, which are cut when  *)
(* the summary is full.                                                    *)
HistoryIsWhole ==
    /\ NewestTold("tool", ToldTools(history), 1..results, Room(history))
    /\ NewestTold("user", ToldTasks(history), 1..userTurn \ repeated, Room(history))

(* Answers stand beside the tasks they answer, in the messages and in the  *)
(* summary - as long as every turn was answered and no task was given      *)
(* twice in a row: tasks and answers are paired by their index alone.      *)
AnswersArePaired ==
    \/ unanswered \/ repeated # {}
    \/ /\ \A i \in DOMAIN history.user_tasks \cap DOMAIN history.assistant_finals :
             history.assistant_finals[i] = history.user_tasks[i].turn
       /\ \A i \in DOMAIN history.compacted_summary :
             history.compacted_summary[i].kind = "answer" =>
                 history.compacted_summary[i].of = history.compacted_summary[i].to

(* The artifact a retained result refers to holds that result - if nothing *)
(* was compacted since: a compaction frees the numbers of results that are *)
(* still retained, and with them the names of their files.                 *)
ArtifactIsKept ==
    \A i \in DOMAIN history.tool_turns :
        LET turn == history.tool_turns[i]
        IN  turn.artifact # NoArtifact /\ turn.n > compactedAt => artifacts[turn.artifact] = turn.n

(* What the model is not shown, and no summary tells it, is bounded: no    *)
(* more results than lie between the two limits of the configuration.      *)
HiddenIsBounded ==
    stage = "decide" =>
        hidden <= IF auto_compact_tool_turns > recent_tool_turns
                  THEN auto_compact_tool_turns - recent_tool_turns ELSE 0

(* What the model is told is the conversation: nothing lost, nothing told  *)
(* twice, and a bounded part of it untold.                                 *)
PromptIsWhole == HistoryIsWhole /\ HiddenIsBounded

-----------------------------------------------------------------------------
(* What makes these properties inductive: no line is about a turn or a     *)
(* result that is still to come; ...                                       *)
Begun(kind, lines, last) == \A i \in 1..Len(lines) : lines[i].kind = kind => lines[i].of <= last
InNumber ==
    Begun("tool", ToldTools(history), results) /\ Begun("user", ToldTasks(history), userTurn)

(* ... a turn in progress owes one answer, to the newest task; ...         *)
InPairs ==
    \/ unanswered \/ repeated # {}
    \/ LET tasks == history.user_tasks
       IN  IF stage = "idle" THEN Len(history.assistant_finals) = Len(tasks)
           ELSE /\ Len(history.assistant_finals) + 1 = Len(tasks)
                /\ tasks[Len(tasks)].turn = userTurn

(* ... and a result that was not there at the last compaction has its own  *)
(* place in the name of its file.                                          *)
InPlace ==
    \A i \in 1..Len(history.tool_turns) :
        LET turn == history.tool_turns[i]
        IN  turn.artifact # NoArtifact /\ turn.n > compactedAt => turn.artifact[1] = i

ContextInv ==
    /\ ContextTypeOK /\ PromptIsWhole /\ AnswersArePaired /\ ArtifactIsKept
    /\ InNumber /\ InPairs /\ InPlace
=============================================================================
