------------------------------ MODULE MCWorkTools ------------------------------
(***************************************************************************)
(* The work tools in three kinds of conversation: with one task that       *)
(* prints MaxLog characters on two streams, one fewer if a call is cut, or *)
(* two tasks, of which one is cancelled or prints on stdout, and no call   *)
(* cut; with terminals, three inputs and frames on one (two if a call is   *)
(* cut) or one of each on two of them (none if a call is cut); with one    *)
(* terminal, two inputs and frames, or one of them and a task that prints  *)
(* nothing and is not cancelled, and no call cut.  Output denies           *)
(* permission in the last kind.  And the messages of a conversation whose  *)
(* tools do nothing.                                                       *)
(***************************************************************************)
EXTENDS Conversation, TLC

NoTasks == tcall = NoTaskCall /\ threads = {} /\ \A t \in Task : job[t] = Absent
NoTerminals == scall = NoTermCall /\ sthreads = {} /\ \A s \in Session : term[s] = "absent"
UsedTasks == {t \in Task : job[t] # Absent}
UsedSessions == {s \in Session : term[s] # "absent"}
Prints == Cardinality(UNION {{s} \X Printed(s) : s \in Session})

LogsWithin(n) == \A t, u \in Task : t # u => job[t].log + job[u].log <= n
Denied == \E s \in Session : \E i \in 1..Len(frames[s]) : frames[s][i] = <<"out", "denied">>

TwoTasks == /\ cuts = 0 /\ LogsWithin(1 - Cardinality(cancels))
            /\ \A t \in Task : job[t].err = 0
TwoTerminals == inputs <= 1 - scuts /\ Prints <= 1 - scuts

Scope ==
    \/ /\ NoTerminals /\ LogsWithin(MaxLog - cuts)
       /\ Cardinality(UsedTasks) = 2 => TwoTasks
    \/ /\ NoTasks /\ inputs + Prints <= 3 - scuts /\ ~Denied
       /\ Cardinality(UsedSessions) = 2 => TwoTerminals
    \/ /\ Cardinality(UsedTasks) <= 1 /\ LogsWithin(0) /\ cancels = {}
       /\ Cardinality(UsedSessions) <= 1
       /\ Cardinality(UsedTasks) + inputs + Prints <= 2
       /\ cuts = 0 /\ scuts = 0

ToolsNext == userTurn = 0 /\ ToolsStep /\ Scope'
AtRest == NoTasks /\ NoTerminals /\ ~answered /\ cuts + scuts = 0
MessagesNext == AtRest /\ MessagesStep
ScopedSpec == ConversationInit /\ [][ToolsNext \/ MessagesNext]_conversationVars

Symmetric == Permutations(Task) \cup Permutations(Session)
=============================================================================
