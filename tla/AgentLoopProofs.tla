---------------------------- MODULE AgentLoopProofs ----------------------------
(***************************************************************************)
(* Theorems about AgentLoop, for all limits, calls and configurations.     *)
(***************************************************************************)
EXTENDS AgentLoop, SequenceTheorems, TLAPS

(* s[-n:] is at most n long and ends like s.                               *)
LEMMA LastOfEnd ==
    ASSUME NEW S, NEW s \in Seq(S), NEW n \in Nat
    PROVE  /\ LastOf(s, n) \in Seq(S)
           /\ Len(LastOf(s, n)) = IF Len(s) <= n THEN Len(s) ELSE n
           /\ \A i \in 0 .. Len(LastOf(s, n)) - 1 :
                 LastOf(s, n)[Len(LastOf(s, n)) - i] = s[Len(s) - i]
<1>1. CASE Len(s) <= n
  BY <1>1 DEF LastOf
<1>2. CASE Len(s) > n
  <2> DEFINE m == Len(s) - n + 1
             t == SubSeq(s, m, Len(s))
  <2>1. m \in Int /\ Len(s) \in Int /\ m >= 1 /\ m <= Len(s) + 1
    BY <1>2
  <2>2. \A i \in m..Len(s) : s[i] \in S
    BY <2>1
  <2>3. /\ t \in Seq(S)
        /\ Len(t) = IF m <= Len(s) THEN Len(s) - m + 1 ELSE 0
        /\ \A i \in 1 .. Len(s) - m + 1 : t[i] = s[m + i - 1]
    BY <2>1, <2>2, SubSeqProperties
  <2>4. Len(t) = n
    BY <2>1, <2>3
  <2>5. ASSUME NEW i \in 0 .. Len(t) - 1 PROVE t[Len(t) - i] = s[Len(s) - i]
    <3>1. n - i \in 1 .. Len(s) - m + 1 /\ m + (n - i) - 1 = Len(s) - i
      BY <1>2, <2>1, <2>4, <2>5, Len(s) \in Nat
    <3> QED
      BY <3>1, <2>3, <2>4
  <2>6. LastOf(s, n) = t
    BY <1>2 DEF LastOf
  <2>7. LastOf(s, n) \in Seq(S)
    BY <2>3, <2>6
  <2>8. Len(LastOf(s, n)) = n
    BY <2>4, <2>6
  <2>9. \A i \in 0 .. n - 1 : LastOf(s, n)[n - i] = s[Len(s) - i]
    BY <2>4, <2>5, <2>6
  <2> HIDE DEF t, m
  <2> QED
    BY <1>2, <2>7, <2>8, <2>9, Len(s) \in Nat
<1> QED
  BY <1>1, <1>2

(* Every variable of a turn keeps its type; the depth needs to be tied to the *)
(* place where the tool runs.                                              *)
LEMMA TypeStep ==
    ASSUME TypeOK, ConsentInv, RecentInv, [Next]_vars
    PROVE  TypeOK'
<1> USE LimitsAssumption, CallsAssumption DEF TypeOK, Places, Questions, Over, AgentState, counters, registry
<1>1. CASE RunTurn
  BY <1>1 DEF RunTurn
<1>2. CASE Begin
  BY <1>2 DEF Begin, Move
<1>3. CASE Plan
  BY <1>3 DEF Plan, Move
<1>4. CASE AskModel
  BY <1>4 DEF AskModel, Move
<1>5. CASE OutOfIterations
  BY <1>5 DEF OutOfIterations
<1>6. CASE DecideFinal
  BY <1>6 DEF DecideFinal, Move
<1>7. CASE GuardBlocks
  BY <1>7 DEF GuardBlocks
<1>8. CASE AcceptFinal
  BY <1>8 DEF AcceptFinal, Move
<1>9. CASE ReturnCompleted
  BY <1>9 DEF ReturnCompleted
<1>10. CASE CheckErrors
  BY <1>10 DEF CheckErrors
<1>11. CASE HandleError
  BY <1>11 DEF HandleError
<1>12. CASE RefuseRepeated
  BY <1>12 DEF RefuseRepeated, Move
<1>13. CASE RefusalRecorded
  BY <1>13 DEF RefusalRecorded, Move
<1>14. CASE StartTool
  BY <1>14 DEF StartTool, Move, RecentInv
<1>15. CASE ProcessResult
  BY <1>15 DEF ProcessResult, Move
<1>16. CASE PermissionRequests
  BY <1>16 DEF PermissionRequests, Authorize, Answer
<1>17. CASE Preview
  BY <1>17 DEF Preview, Answer
<1>18. CASE TerminalGate
  BY <1>18 DEF TerminalGate, Answer
<1>19. CASE ExecuteTool
  BY <1>19 DEF ExecuteTool, ConsentInv
<1>20. CASE ToolAnswers
  BY <1>20 DEF ToolAnswers, Answer, LeaveSandbox, ConsentInv
<1>21. CASE ToolTimesOut
  BY <1>21 DEF ToolTimesOut, Answer, LeaveSandbox, ConsentInv
<1>22. CASE Refuse
  BY <1>22 DEF Refuse, Answer, Questions
<1>23. CASE GrantSandbox
  BY <1>23 DEF GrantSandbox, Authorize, Answer
<1>24. CASE GrantPreview
  BY <1>24 DEF GrantPreview
<1>25. CASE GrantPermission
  BY <1>25 DEF GrantPermission
<1>26. CASE GrantTerminal
  BY <1>26 DEF GrantTerminal
<1>27. CASE GrantOverride
  BY <1>27 DEF GrantOverride
<1>28. CASE Raises
  BY <1>28 DEF Raises
<1>29. ASSUME NEW c \in Calls, DecideTool(c) PROVE TypeOK'
  <2>1. Append(recent, c) \in Seq(Calls)
    BY <1>29
  <2>2. recent' \in Seq(Calls)
    BY <1>29, <2>1, LastOfEnd DEF DecideTool
  <2> QED
    BY <1>29, <2>2 DEF DecideTool, Move
<1>30. CASE UNCHANGED vars
  BY <1>30 DEF vars
<1>31. CASE ObserveTask
  BY <1>31 DEF ObserveTask, Move
<1> QED
  BY <1>1, <1>2, <1>3, <1>4, <1>5, <1>6, <1>7, <1>8, <1>9, <1>10, <1>11, <1>12,
     <1>13, <1>14, <1>15, <1>16, <1>17, <1>18, <1>19, <1>20, <1>21, <1>22,
     <1>23, <1>24, <1>25, <1>26, <1>27, <1>28, <1>29, <1>30, <1>31 DEF Next,
     Loop, Registry, User

(* The machine is where the coroutine is.                                  *)
LEMMA WhereStep ==
    ASSUME TypeOK, WhereInv, [Next]_vars
    PROVE  WhereInv'
<1> USE DEF TypeOK, WhereInv, InRegistry, Questions, Over, TERMINAL_STATES, counters, registry
<1>1. CASE RunTurn
  BY <1>1 DEF RunTurn
<1>2. CASE Begin
  BY <1>2 DEF Begin, Move
<1>3. CASE Plan
  BY <1>3 DEF Plan, Move
<1>4. CASE AskModel
  BY <1>4 DEF AskModel, Move
<1>5. CASE OutOfIterations
  BY <1>5 DEF OutOfIterations
<1>6. CASE DecideFinal
  BY <1>6 DEF DecideFinal, Move
<1>7. CASE GuardBlocks
  BY <1>7 DEF GuardBlocks
<1>8. CASE AcceptFinal
  BY <1>8 DEF AcceptFinal, Move
<1>9. CASE ReturnCompleted
  BY <1>9 DEF ReturnCompleted
<1>10. CASE CheckErrors
  BY <1>10 DEF CheckErrors
<1>11. CASE HandleError
  BY <1>11 DEF HandleError
<1>12. CASE RefuseRepeated
  BY <1>12 DEF RefuseRepeated, Move
<1>13. CASE RefusalRecorded
  BY <1>13 DEF RefusalRecorded, Move
<1>14. CASE StartTool
  BY <1>14 DEF StartTool, Move
<1>15. CASE ProcessResult
  BY <1>15 DEF ProcessResult, Move
<1>16. CASE PermissionRequests
  BY <1>16 DEF PermissionRequests, Authorize, Answer
<1>17. CASE Preview
  BY <1>17 DEF Preview, Answer
<1>18. CASE TerminalGate
  BY <1>18 DEF TerminalGate, Answer
<1>19. CASE ExecuteTool
  BY <1>19 DEF ExecuteTool
<1>20. CASE ToolAnswers
  BY <1>20 DEF ToolAnswers, Answer, LeaveSandbox
<1>21. CASE ToolTimesOut
  BY <1>21 DEF ToolTimesOut, Answer, LeaveSandbox
<1>22. CASE Refuse
  BY <1>22 DEF Refuse, Answer, Questions
<1>23. CASE GrantSandbox
  BY <1>23 DEF GrantSandbox, Authorize, Answer
<1>24. CASE GrantPreview
  BY <1>24 DEF GrantPreview
<1>25. CASE GrantPermission
  BY <1>25 DEF GrantPermission
<1>26. CASE GrantTerminal
  BY <1>26 DEF GrantTerminal
<1>27. CASE GrantOverride
  BY <1>27 DEF GrantOverride
<1>28. CASE Raises
  BY <1>28 DEF Raises
<1>29. ASSUME NEW c \in Calls, DecideTool(c) PROVE WhereInv'
  BY <1>29 DEF DecideTool, Move
<1>30. CASE UNCHANGED vars
  BY <1>30 DEF vars
<1>31. CASE ObserveTask
  BY <1>31 DEF ObserveTask, Move
<1> QED
  BY <1>1, <1>2, <1>3, <1>4, <1>5, <1>6, <1>7, <1>8, <1>9, <1>10, <1>11, <1>12,
     <1>13, <1>14, <1>15, <1>16, <1>17, <1>18, <1>19, <1>20, <1>21, <1>22,
     <1>23, <1>24, <1>25, <1>26, <1>27, <1>28, <1>29, <1>30, <1>31 DEF Next,
     Loop, Registry, User

(* The consents go with the place in the registry.                         *)
LEMMA ConsentStep ==
    ASSUME TypeOK, ConsentInv, [Next]_vars
    PROVE  ConsentInv'
<1> USE DEF TypeOK, ConsentInv, InRegistry, Permitted, Opened, Questions, Over, counters, registry
<1>1. CASE RunTurn
  BY <1>1 DEF RunTurn
<1>2. CASE Begin
  BY <1>2 DEF Begin, Move
<1>3. CASE Plan
  BY <1>3 DEF Plan, Move
<1>4. CASE AskModel
  BY <1>4 DEF AskModel, Move
<1>5. CASE OutOfIterations
  BY <1>5 DEF OutOfIterations
<1>6. CASE DecideFinal
  BY <1>6 DEF DecideFinal, Move
<1>7. CASE GuardBlocks
  BY <1>7 DEF GuardBlocks
<1>8. CASE AcceptFinal
  BY <1>8 DEF AcceptFinal, Move
<1>9. CASE ReturnCompleted
  BY <1>9 DEF ReturnCompleted
<1>10. CASE CheckErrors
  BY <1>10 DEF CheckErrors
<1>11. CASE HandleError
  BY <1>11 DEF HandleError
<1>12. CASE RefuseRepeated
  BY <1>12 DEF RefuseRepeated, Move
<1>13. CASE RefusalRecorded
  BY <1>13 DEF RefusalRecorded, Move
<1>14. CASE StartTool
  BY <1>14 DEF StartTool, Move
<1>15. CASE ProcessResult
  BY <1>15 DEF ProcessResult, Move
<1>16. CASE PermissionRequests
  BY <1>16 DEF PermissionRequests, Authorize, Answer
<1>17. CASE Preview
  BY <1>17 DEF Preview, Answer
<1>18. CASE TerminalGate
  BY <1>18 DEF TerminalGate, Answer
<1>19. CASE ExecuteTool
  BY <1>19 DEF ExecuteTool
<1>20. CASE ToolAnswers
  BY <1>20 DEF ToolAnswers, Answer, LeaveSandbox
<1>21. CASE ToolTimesOut
  BY <1>21 DEF ToolTimesOut, Answer, LeaveSandbox
<1>22. CASE Refuse
  BY <1>22 DEF Refuse, Answer, Questions
<1>23. CASE GrantSandbox
  BY <1>23 DEF GrantSandbox, Authorize, Answer
<1>24. CASE GrantPreview
  BY <1>24 DEF GrantPreview
<1>25. CASE GrantPermission
  BY <1>25 DEF GrantPermission
<1>26. CASE GrantTerminal
  BY <1>26 DEF GrantTerminal
<1>27. CASE GrantOverride
  BY <1>27 DEF GrantOverride
<1>28. CASE Raises
  BY <1>28 DEF Raises
<1>29. ASSUME NEW c \in Calls, DecideTool(c) PROVE ConsentInv'
  BY <1>29 DEF DecideTool, Move
<1>30. CASE UNCHANGED vars
  BY <1>30 DEF vars
<1>31. CASE ObserveTask
  BY <1>31 DEF ObserveTask, Move
<1> QED
  BY <1>1, <1>2, <1>3, <1>4, <1>5, <1>6, <1>7, <1>8, <1>9, <1>10, <1>11, <1>12,
     <1>13, <1>14, <1>15, <1>16, <1>17, <1>18, <1>19, <1>20, <1>21, <1>22,
     <1>23, <1>24, <1>25, <1>26, <1>27, <1>28, <1>29, <1>30, <1>31 DEF Next,
     Loop, Registry, User

(* A run of equal executions shows in the window: the steps that change the *)
(* window, the executions or the place between them.                       *)
LEMMA RecentStep ==
    ASSUME TypeOK, RecentInv, [Next]_vars
    PROVE  RecentInv' /\ (NoRepetition => NoRepetition')
<1> DEFINE lim == repeated_action_limit
<1>0. lim \in Nat /\ lim >= 2
  BY LimitsAssumption
<1>1. ASSUME UNCHANGED <<recent, executed>>, at # "selected", at' # "selected",
             at \in Over \cup {"raised"} => at' \in Over \cup {"raised"}
      PROVE  RecentInv' /\ (NoRepetition => NoRepetition')
  BY <1>1 DEF RecentInv, NoRepetition, EndsWith, Over
<1>2. CASE RunTurn
  <2>1. recent' = <<>> /\ executed' = <<>> /\ at' # "selected"
    BY <1>2 DEF RunTurn
  <2>2. ASSUME NEW k \in 0..lim, NEW c \in Calls, EndsWith(executed, k, c)'
        PROVE  EndsWith(recent, k, c)'
    BY <2>1, <2>2 DEF EndsWith
  <2>3. RecentInv'
    BY <1>0, <2>1, <2>2 DEF RecentInv
  <2> QED
    BY <2>1, <2>3, <1>0 DEF NoRepetition
<1>3. ASSUME NEW c \in Calls, DecideTool(c) PROVE RecentInv' /\ (NoRepetition => NoRepetition')
  <2> DEFINE longer == Append(recent, c)
  <2>1. /\ longer \in Seq(Calls) /\ Len(longer) = Len(recent) + 1
        /\ longer[Len(longer)] = c
        /\ \A i \in 1..Len(recent) : longer[i] = recent[i]
        /\ Len(recent) \in Nat
    BY DEF TypeOK
  <2>2. /\ recent' = LastOf(longer, lim) /\ call' = c /\ at' = "selected"
        /\ executed' = executed /\ at = "loop"
    BY <1>3 DEF DecideTool, Move
  <2> HIDE DEF longer
  <2>3. /\ recent' \in Seq(Calls)
        /\ Len(recent') = IF Len(longer) <= lim THEN Len(longer) ELSE lim
        /\ \A i \in 0 .. Len(recent') - 1 : recent'[Len(recent') - i] = longer[Len(longer) - i]
    BY <1>0, <2>1, <2>2, LastOfEnd
  <2>4. Len(recent') \in Nat /\ Len(recent') > 0 /\ Len(recent') <= lim
    BY <1>0, <2>1, <2>3
  <2>5. recent'[Len(recent')] = call'
    <3>1. 0 \in 0 .. Len(recent') - 1 /\ Len(recent') - 0 = Len(recent') /\ Len(longer) - 0 = Len(longer)
      BY <2>1, <2>4
    <3> QED
      BY <3>1, <2>1, <2>2, <2>3
  <2>6. ASSUME NEW k \in 0..lim - 1, NEW d \in Calls, EndsWith(executed, k, d)'
        PROVE  /\ k + 1 <= Len(recent')
               /\ \A i \in Len(recent') - k .. Len(recent') - 1 : recent'[i] = d
    <3>1. EndsWith(executed, k, d)
      BY <2>2, <2>6 DEF EndsWith
    <3>2. k \in 0..lim
      BY <1>0
    <3>3. k <= Len(recent) /\ \A i \in Len(recent) - k + 1 .. Len(recent) : recent[i] = d
      BY <2>2, <3>1, <3>2 DEF RecentInv, EndsWith, Over
    <3>4. k + 1 <= Len(recent')
      BY <1>0, <2>1, <2>3, <3>3
    <3>5. ASSUME NEW i \in Len(recent') - k .. Len(recent') - 1 PROVE recent'[i] = d
      <4> DEFINE j == Len(recent') - i
      <4>1. j \in 1..k /\ j \in 0 .. Len(recent') - 1 /\ Len(recent') - j = i
        BY <2>4, <3>4, <3>5
      <4>2. recent'[i] = longer[Len(longer) - j]
        BY <4>1, <2>3
      <4>3. Len(longer) - j \in Len(recent) - k + 1 .. Len(recent) /\ Len(longer) - j \in 1..Len(recent)
        BY <4>1, <2>1, <3>3
      <4> QED
        BY <4>2, <4>3, <2>1, <3>3
    <3> QED
      BY <3>4, <3>5
  <2>7. RecentInv'
    <3>1. /\ call' \in Calls
          /\ \A k \in 0..lim - 1 : \A d \in Calls :
                EndsWith(executed, k, d)' =>
                   /\ k + 1 <= Len(recent')
                   /\ \A i \in Len(recent') - k .. Len(recent') - 1 : recent'[i] = d
      BY <1>3, <2>2, <2>6
    <3> QED
      BY <2>2, <2>4, <2>5, <3>1 DEF RecentInv, EndsWith, Over
  <2> QED
    BY <2>2, <2>7 DEF NoRepetition
<1>4. CASE RefuseRepeated
  <2>1. /\ at = "selected" /\ at' = "refused" /\ UNCHANGED <<recent, executed, call>>
        /\ Len(recent) = lim /\ \A i, j \in 1..Len(recent) : recent[i] = recent[j]
    BY <1>4 DEF RefuseRepeated, Move, Repeated, registry
  <2>2. ASSUME NEW k \in 0..lim, NEW c \in Calls, EndsWith(executed, k, c)
        PROVE  EndsWith(recent, k, c)
    <3>0. Len(executed) \in Nat
      BY DEF TypeOK
    <3>1. CASE k = 0
      BY <3>1, <2>1, <1>0 DEF EndsWith
    <3>2. CASE k > 0
      <4>1. EndsWith(executed, 1, c)
        BY <2>2, <3>0, <3>2 DEF EndsWith
      <4>2. 1 \in 0..lim - 1 /\ lim - 1 \in Len(recent) - 1 .. Len(recent) - 1
        BY <1>0, <2>1
      <4>3. recent[lim - 1] = c
        BY <2>1, <4>1, <4>2 DEF RecentInv
      <4>4. \A i \in 1..lim : recent[i] = c
        BY <1>0, <2>1, <4>3
      <4> QED
        BY <1>0, <2>1, <4>4 DEF EndsWith
    <3> QED
      BY <3>1, <3>2, <1>0
  <2>3. RecentInv'
    <3>1. \A k \in 0..lim : \A c \in Calls : EndsWith(executed', k, c) => EndsWith(recent', k, c)
      BY <2>1, <2>2
    <3> QED
      BY <1>0, <2>1, <3>1 DEF RecentInv, EndsWith
  <2> QED
    BY <2>1, <2>3 DEF NoRepetition
<1>5. CASE StartTool
  <2>1. /\ at = "selected" /\ at' = "requests" /\ UNCHANGED <<recent, call>>
        /\ executed' = Append(executed, call) /\ ~Repeated
    BY <1>5 DEF StartTool, Move, registry
  <2>2. /\ call \in Calls /\ Len(recent) > 0 /\ recent[Len(recent)] = call
        /\ Len(recent) <= lim /\ Len(recent) \in Nat /\ Len(executed) \in Nat
        /\ recent \in Seq(Calls) /\ executed \in Seq(Calls)
    BY <2>1 DEF RecentInv, TypeOK
  <2>3. /\ Len(executed') = Len(executed) + 1 /\ executed'[Len(executed) + 1] = call
        /\ \A i \in 1..Len(executed) : executed'[i] = executed[i]
    BY <2>1, <2>2
  <2>4. ASSUME NEW k \in 0..lim, NEW c \in Calls, EndsWith(executed', k, c)
        PROVE  EndsWith(recent, k, c)
    <3>1. CASE k = 0
      BY <3>1, <2>2 DEF EndsWith
    <3>2. CASE k > 0
      <4>0. k <= Len(executed') /\ \A i \in Len(executed') - k + 1 .. Len(executed') : executed'[i] = c
        BY <2>4 DEF EndsWith
      <4>1. call = c
        BY <2>2, <2>3, <3>2, <4>0
      <4>2. EndsWith(executed, k - 1, c)
        BY <2>2, <2>3, <3>2, <4>0 DEF EndsWith
      <4>3. k - 1 \in 0..lim - 1
        BY <1>0, <3>2
      <4>4. /\ k <= Len(recent)
            /\ \A i \in Len(recent) - (k - 1) .. Len(recent) - 1 : recent[i] = c
        BY <2>1, <4>2, <4>3 DEF RecentInv
      <4>5. recent[Len(recent)] = c
        BY <2>2, <4>1
      <4>6. ASSUME NEW i \in Len(recent) - k + 1 .. Len(recent) PROVE recent[i] = c
        <5>1. CASE i = Len(recent)
          BY <4>5, <5>1
        <5>2. CASE i # Len(recent)
          <6>1. i \in Len(recent) - (k - 1) .. Len(recent) - 1
            BY <2>2, <3>2, <4>6, <5>2
          <6> QED
            BY <4>4, <6>1
        <5> QED
          BY <5>1, <5>2
      <4> QED
        BY <2>2, <4>4, <4>6 DEF EndsWith
    <3> QED
      BY <3>1, <3>2, <1>0
  <2>5. RecentInv'
    <3>1. \A k \in 0..lim : \A c \in Calls : EndsWith(executed', k, c) => EndsWith(recent', k, c)
      BY <2>1, <2>4
    <3> QED
      BY <2>1, <2>2, <3>1 DEF RecentInv, EndsWith
  <2>6. ~EndsWith(executed', lim, call)
    <3>1. SUFFICES ASSUME EndsWith(executed', lim, call) PROVE FALSE
      OBVIOUS
    <3>2. EndsWith(recent, lim, call)
      BY <1>0, <2>2, <2>4, <3>1
    <3>3. Len(recent) = lim /\ \A i \in 1..lim : recent[i] = call
      BY <1>0, <2>2, <3>2 DEF EndsWith
    <3> QED
      BY <2>1, <3>3 DEF Repeated
  <2>7. ASSUME NoRepetition, NEW i \in 1..Len(executed'), i + lim - 1 <= Len(executed')
        PROVE  \E j \in i .. i + lim - 1 : executed'[j] # executed'[i]
    <3>1. CASE i + lim - 1 <= Len(executed)
      <4>1. PICK j \in i .. i + lim - 1 : executed[j] # executed[i]
        <5>1. i \in 1..Len(executed)
          BY <1>0, <2>2, <2>3, <2>7, <3>1
        <5> QED
          BY <5>1, <2>7, <3>1 DEF NoRepetition
      <4>2. executed'[j] # executed'[i]
        BY <1>0, <2>2, <2>3, <3>1, <4>1
      <4> QED
        BY <4>2
    <3>2. CASE i + lim - 1 = Len(executed')
      <4>1. PICK j \in Len(executed') - lim + 1 .. Len(executed') : executed'[j] # call
        BY <1>0, <2>2, <2>3, <2>6, <2>7, <3>2 DEF EndsWith
      <4>2. i = Len(executed') - lim + 1 /\ Len(executed') = i + lim - 1
        BY <1>0, <2>2, <2>3, <3>2
      <4>3. Len(executed') \in i .. i + lim - 1 /\ j \in i .. i + lim - 1
        BY <1>0, <4>1, <4>2, <2>2, <2>3
      <4>4. executed'[Len(executed')] = call
        BY <2>3
      <4> QED
        BY <4>1, <4>3, <4>4
    <3>3. i + lim - 1 <= Len(executed) \/ i + lim - 1 = Len(executed')
      BY <1>0, <2>2, <2>3, <2>7, SMTT(60)
    <3> QED
      BY <3>1, <3>2, <3>3
  <2> QED
    BY <2>5, <2>7 DEF NoRepetition
<1>6. CASE Raises
  BY <1>6 DEF Raises, RecentInv, NoRepetition, Over, counters
<1>7. CASE UNCHANGED vars
  BY <1>7 DEF vars, RecentInv, NoRepetition, EndsWith
<1>8. ASSUME \/ Begin \/ Plan \/ AskModel \/ OutOfIterations \/ DecideFinal \/ GuardBlocks
             \/ AcceptFinal \/ ReturnCompleted \/ CheckErrors \/ HandleError
             \/ RefusalRecorded \/ ObserveTask \/ ProcessResult
      PROVE  RecentInv' /\ (NoRepetition => NoRepetition')
  <2>1. /\ UNCHANGED <<recent, executed>> /\ at # "selected" /\ at' # "selected"
        /\ at \in Over \cup {"raised"} => at' \in Over \cup {"raised"}
    BY <1>8 DEF Begin, Plan, AskModel, OutOfIterations, DecideFinal, GuardBlocks,
                AcceptFinal, ReturnCompleted, CheckErrors, HandleError,
                RefusalRecorded, ObserveTask, ProcessResult, Move, Over, counters
  <2> QED
    BY <1>1, <2>1
<1>9. ASSUME Registry \/ User
      PROVE  RecentInv' /\ (NoRepetition => NoRepetition')
  <2>1. /\ UNCHANGED <<recent, executed>> /\ at # "selected" /\ at' # "selected"
        /\ at \in Over \cup {"raised"} => at' \in Over \cup {"raised"}
    BY <1>9 DEF Registry, User, PermissionRequests, Preview, TerminalGate, ExecuteTool,
                ToolAnswers, ToolTimesOut, Refuse, GrantSandbox, GrantPreview,
                GrantPermission, GrantTerminal, GrantOverride, Authorize, Answer,
                Over, Questions, counters
  <2> QED
    BY <1>1, <2>1
<1> QED
  BY <1>2, <1>3, <1>4, <1>5, <1>6, <1>7, <1>8, <1>9 DEF Next, Loop

(* The caller is told the truth and the budget is kept.                    *)
LEMMA EndStep ==
    ASSUME TypeOK, WhereInv, TruthfulEnd, BudgetKept, [Next]_vars
    PROVE  TruthfulEnd' /\ BudgetKept'
<1> USE LimitsAssumption DEF TypeOK, WhereInv, TruthfulEnd, BudgetKept, InRegistry, Questions, Over,
        TERMINAL_STATES, counters, registry
<1>1. CASE RunTurn
  BY <1>1 DEF RunTurn
<1>2. CASE Begin
  BY <1>2 DEF Begin, Move
<1>3. CASE Plan
  BY <1>3 DEF Plan, Move
<1>4. CASE AskModel
  BY <1>4 DEF AskModel, Move
<1>5. CASE OutOfIterations
  BY <1>5 DEF OutOfIterations
<1>6. CASE DecideFinal
  BY <1>6 DEF DecideFinal, Move
<1>7. CASE GuardBlocks
  BY <1>7 DEF GuardBlocks
<1>8. CASE AcceptFinal
  BY <1>8 DEF AcceptFinal, Move
<1>9. CASE ReturnCompleted
  BY <1>9 DEF ReturnCompleted
<1>10. CASE CheckErrors
  BY <1>10 DEF CheckErrors
<1>11. CASE HandleError
  BY <1>11 DEF HandleError
<1>12. CASE RefuseRepeated
  BY <1>12 DEF RefuseRepeated, Move
<1>13. CASE RefusalRecorded
  BY <1>13 DEF RefusalRecorded, Move
<1>14. CASE StartTool
  BY <1>14 DEF StartTool, Move
<1>15. CASE ProcessResult
  BY <1>15 DEF ProcessResult, Move
<1>16. CASE PermissionRequests
  BY <1>16 DEF PermissionRequests, Authorize, Answer
<1>17. CASE Preview
  BY <1>17 DEF Preview, Answer
<1>18. CASE TerminalGate
  BY <1>18 DEF TerminalGate, Answer
<1>19. CASE ExecuteTool
  BY <1>19 DEF ExecuteTool
<1>20. CASE ToolAnswers
  BY <1>20 DEF ToolAnswers, Answer, LeaveSandbox
<1>21. CASE ToolTimesOut
  BY <1>21 DEF ToolTimesOut, Answer, LeaveSandbox
<1>22. CASE Refuse
  BY <1>22 DEF Refuse, Answer, Questions
<1>23. CASE GrantSandbox
  BY <1>23 DEF GrantSandbox, Authorize, Answer
<1>24. CASE GrantPreview
  BY <1>24 DEF GrantPreview
<1>25. CASE GrantPermission
  BY <1>25 DEF GrantPermission
<1>26. CASE GrantTerminal
  BY <1>26 DEF GrantTerminal
<1>27. CASE GrantOverride
  BY <1>27 DEF GrantOverride
<1>28. CASE Raises
  BY <1>28 DEF Raises
<1>29. ASSUME NEW c \in Calls, DecideTool(c) PROVE TruthfulEnd' /\ BudgetKept'
  BY <1>29 DEF DecideTool, Move
<1>30. CASE UNCHANGED vars
  BY <1>30 DEF vars
<1>31. CASE ObserveTask
  BY <1>31 DEF ObserveTask, Move
<1> QED
  BY <1>1, <1>2, <1>3, <1>4, <1>5, <1>6, <1>7, <1>8, <1>9, <1>10, <1>11, <1>12,
     <1>13, <1>14, <1>15, <1>16, <1>17, <1>18, <1>19, <1>20, <1>21, <1>22,
     <1>23, <1>24, <1>25, <1>26, <1>27, <1>28, <1>29, <1>30, <1>31 DEF Next,
     Loop, Registry, User

(* AgentInv is inductive.                                                  *)
LEMMA AgentInvInductive == Spec => []AgentInv
<1>1. Init => AgentInv
  <2> SUFFICES ASSUME Init PROVE AgentInv
    OBVIOUS
  <2> USE LimitsAssumption, CallsAssumption DEF Init
  <2>1. TypeOK
    <3>1. /\ turn \in 0..MaxTurns /\ iterations \in 0..max_iterations
          /\ errors \in Nat /\ depth \in 0..1
      OBVIOUS
    <3>2. recent \in Seq(Calls) /\ executed \in Seq(Calls)
      OBVIOUS
    <3>3. /\ machine \in AgentState /\ at \in Places
          /\ denied \in BOOLEAN /\ overridden \in BOOLEAN
          /\ guarded \in BOOLEAN /\ refused \in BOOLEAN
      BY Zenon DEF AgentState, Places
    <3> QED
      BY <3>1, <3>2, <3>3 DEF TypeOK
  <2>2. WhereInv /\ ConsentInv
    BY DEF WhereInv, ConsentInv, InRegistry, Permitted, Opened, Questions, Over, TERMINAL_STATES
  <2>3. RecentInv /\ NoRepetition
    BY DEF RecentInv, NoRepetition, Over
  <2>4. TruthfulEnd /\ BudgetKept
    BY DEF TruthfulEnd, BudgetKept
  <2> QED
    BY <2>1, <2>2, <2>3, <2>4 DEF AgentInv
<1>2. AgentInv /\ [Next]_vars => AgentInv'
  BY TypeStep, WhereStep, ConsentStep, RecentStep, EndStep DEF AgentInv
<1> QED
  BY <1>1, <1>2, PTL DEF Spec

(* Every variable of the agent's loop and of the registry keeps its type,  *)
(* for all limits; in particular an approved sandbox is never entered twice *)
(* and always left.                                                        *)
THEOREM AgentTypeCorrect == Spec => []TypeOK
<1>1. AgentInv => TypeOK
  BY DEF AgentInv
<1> QED
  BY <1>1, AgentInvInductive, PTL

(* No call is executed repeated_action_limit times in a row in a turn: the *)
(* window of _record_fingerprint is enough, for every limit.               *)
THEOREM NeverRepeats == Spec => []NoRepetition
<1>1. AgentInv => NoRepetition
  BY DEF AgentInv
<1> QED
  BY <1>1, AgentInvInductive, PTL

(* No way through ToolRegistry.execute runs a tool without the consents it *)
(* needs, in any configuration.                                            *)
THEOREM ConsentIsAsked == Spec => []Consent
<1>1. AgentInv => Consent
  BY DEF AgentInv, ConsentInv, Consent, InRegistry, Permitted, Opened, TypeOK
<1> QED
  BY <1>1, AgentInvInductive, PTL

(* What run_with_context returns is the state of its machine, and no       *)
(* iteration begins with an exhausted budget.                              *)
THEOREM EndIsTruthful == Spec => []TurnIsHonest
<1>1. AgentInv => TurnIsHonest
  BY DEF AgentInv, TurnIsHonest
<1> QED
  BY <1>1, AgentInvInductive, PTL

(* Every step of the loop is a transition of the table: the check in       *)
(* StateMachine.transition never fires in the loop's own paths.            *)
THEOREM TransitionsAreLegal == Spec => LegalTransitions
<1>1. AgentInv /\ [Next]_vars =>
        [machine' # machine => machine' \in LEGAL_TRANSITIONS[machine] \/ turn' # turn]_vars
  <2> SUFFICES ASSUME AgentInv, Next, machine' # machine
               PROVE  machine' \in LEGAL_TRANSITIONS[machine] \/ turn' # turn
    OBVIOUS
  <2>1. TypeOK
    BY DEF AgentInv
  <2>2. \/ turn' # turn
        \/ machine \notin TERMINAL_STATES /\ machine' = "failed"
        \/ <<machine, machine'>> \in
             {<<"created", "initializing">>, <<"initializing", "ready">>,
              <<"ready", "planning">>, <<"processing_result", "planning">>,
              <<"planning", "waiting_for_model">>,
              <<"waiting_for_model", "processing_result">>,
              <<"processing_result", "completed">>,
              <<"waiting_for_model", "tool_selected">>,
              <<"tool_selected", "executing_tool">>,
              <<"executing_tool", "processing_result">>,
              <<"executing_tool", "observing_task">>,
              <<"observing_task", "processing_result">>}
    BY <2>1 DEF Next, Loop, Registry, User, RunTurn, Begin, Plan, AskModel, OutOfIterations,
           DecideFinal, GuardBlocks, AcceptFinal, ReturnCompleted, CheckErrors, HandleError,
           DecideTool, RefuseRepeated, RefusalRecorded, StartTool, ObserveTask, ProcessResult,
           PermissionRequests, Preview, TerminalGate, ExecuteTool, ToolAnswers, ToolTimesOut,
           Refuse, GrantSandbox, GrantPreview, GrantPermission, GrantTerminal, GrantOverride,
           Raises, Move, TypeOK
  <2>3. machine \in AgentState
    BY <2>1 DEF TypeOK
  <2> QED
    BY <2>2, <2>3 DEF LEGAL_TRANSITIONS, TERMINAL_STATES, AgentState
<1> QED
  BY <1>1, AgentInvInductive, PTL DEF Spec, LegalTransitions
=============================================================================
