--------------------------- MODULE ConversationProofs ---------------------------
(***************************************************************************)
(* The messages of the AgentContext, the task tools and the terminal tools *)
(* keep what Conversation says of them, for every number of tasks,         *)
(* sessions, inputs, cuts and messages.                                    *)
(*                                                                         *)
(* Each part has an inductive invariant (ContextInv, TaskInv, TerminalInv, *)
(* joined in WorkInv) and one lemma per action that shows it is kept.      *)
(***************************************************************************)
EXTENDS Conversation, FiniteSetTheorems, SequenceTheorems, TLAPS

-----------------------------------------------------------------------------
(* The messages of the AgentContext.                                       *)

(* The last n elements of a sequence.                                       *)
LEMMA NewestSeq ==
    ASSUME NEW S, NEW s \in Seq(S), NEW n \in Nat
    PROVE  /\ Newest(s, n) \in Seq(S)
           /\ Len(Newest(s, n)) = IF Len(s) <= n THEN Len(s) ELSE n
           /\ \A i \in 1..Len(Newest(s, n)) :
                 Newest(s, n)[i] = s[Len(s) - Len(Newest(s, n)) + i]
<1>1. CASE Len(s) <= n
  BY <1>1 DEF Newest
<1>2. CASE Len(s) > n
  <2>1. Newest(s, n) = SubSeq(s, Len(s) - n + 1, Len(s)) /\ Len(s) \in Nat
    BY <1>2 DEF Newest
  <2>2. \A i \in Len(s) - n + 1 .. Len(s) : s[i] \in S
    BY <1>2
  <2> QED
    BY <1>2, <2>1, <2>2, SubSeqProperties
<1> QED
  BY <1>1, <1>2

(* What follows the first n elements.                                       *)
LEMMA AfterFirstSeq ==
    ASSUME NEW S, NEW s \in Seq(S), NEW n \in 0..Len(s)
    PROVE  /\ AfterFirst(s, n) \in Seq(S) /\ Len(AfterFirst(s, n)) = Len(s) - n
           /\ \A i \in 1..Len(s) - n : AfterFirst(s, n)[i] = s[n + i]
<1>1. \A i \in n + 1 .. Len(s) : s[i] \in S
  OBVIOUS
<1> QED
  BY <1>1, SubSeqProperties DEF AfterFirst

(* The answers may be fewer than what is to be cut from them.               *)
LEMMA AfterAll ==
    ASSUME NEW S, NEW s \in Seq(S), NEW n \in Nat, Len(s) < n
    PROVE  AfterFirst(s, n) = <<>>
  BY SubSeqEmpty DEF AfterFirst

(* An element of a sequence.                                                *)
LEMMA ElementOf == \A S : \A s \in Seq(S) : \A i \in 1..Len(s) : s[i] \in S
  OBVIOUS

(* Two sequences one after the other.                                       *)
LEMMA Joined ==
    ASSUME NEW S, NEW s \in Seq(S), NEW t \in Seq(S)
    PROVE  /\ s \o t \in Seq(S) /\ Len(s \o t) = Len(s) + Len(t)
           /\ \A i \in 1..Len(s) : (s \o t)[i] = s[i]
           /\ \A i \in 1..Len(t) : (s \o t)[Len(s) + i] = t[i]
  OBVIOUS

(* A line is about a number.                                                *)
LEMMA LineFields ==
    ASSUME NEW kind \in LineKind, NEW of \in Nat, NEW to \in Nat
    PROVE  /\ Line(kind, of, to) \in Told /\ Line(kind, of, to).kind = kind
           /\ Line(kind, of, to).of = of /\ Line(kind, of, to).to = to
  BY DEF Line, Told

(* The parts of a history.                                                  *)
LEMMA HistoryParts ==
    ASSUME NEW h \in Histories
    PROVE  /\ h.user_tasks \in Seq(Asked) /\ h.assistant_finals \in Seq(1..MaxUserTurns)
           /\ h.tool_turns \in Seq(Kept) /\ h.compacted_summary \in Seq(Told)
           /\ \A i \in 1..Len(h.user_tasks) : h.user_tasks[i].turn \in 1..MaxUserTurns
           /\ \A i \in 1..Len(h.assistant_finals) : h.assistant_finals[i] \in 1..MaxUserTurns
           /\ \A i \in 1..Len(h.tool_turns) : h.tool_turns[i].n \in 1..MaxResults
<1>1. /\ h.user_tasks \in Seq(Asked) /\ h.assistant_finals \in Seq(1..MaxUserTurns)
      /\ h.tool_turns \in Seq(Kept) /\ h.compacted_summary \in Seq(Told)
  BY DEF Histories
<1>2. /\ \A i \in 1..Len(h.user_tasks) : h.user_tasks[i] \in Asked
      /\ \A i \in 1..Len(h.assistant_finals) : h.assistant_finals[i] \in 1..MaxUserTurns
      /\ \A i \in 1..Len(h.tool_turns) : h.tool_turns[i] \in Kept
  BY <1>1, ElementOf, Zenon
<1>3. \A t \in Asked : t.turn \in 1..MaxUserTurns
  BY DEF Asked
<1>4. \A t \in Kept : t.n \in 1..MaxResults
  BY DEF Kept
<1> QED
  BY <1>1, <1>2, <1>3, <1>4

(* How many tasks are compacted, and how many of them have an answer.       *)
AnswerCount(h) ==
    IF Len(h.assistant_finals) < CompactUserCount(h) THEN Len(h.assistant_finals)
    ELSE CompactUserCount(h)
LEMMA UserCounts ==
    ASSUME NEW h \in Histories
    PROVE  /\ CompactUserCount(h) \in 0..Len(h.user_tasks)
           /\ h.user_tasks # <<>> => CompactUserCount(h) = Len(h.user_tasks) - 1
           /\ h.user_tasks = <<>> => CompactUserCount(h) = 0
           /\ AnswerCount(h) \in 0..CompactUserCount(h) /\ AnswerCount(h) <= Len(h.assistant_finals)
  BY DEF CompactUserCount, AnswerCount, Histories

(* The lines of the conversation: a task at every place, an answer after it *)
(* as long as there are answers.                                            *)
LEMMA UserLinesSeq ==
    ASSUME NEW h \in Histories
    PROVE  /\ UserLines(h) \in Seq(Told) /\ Len(UserLines(h)) = CompactUserCount(h) + AnswerCount(h)
           /\ \A i \in 1..Len(UserLines(h)) :
                 LET a == AnswerCount(h)
                     at == IF i > 2 * a THEN i - a ELSE (i + 1) \div 2
                 IN  IF i > 2 * a \/ i % 2 = 1
                     THEN /\ at \in 1..CompactUserCount(h)
                          /\ UserLines(h)[i] = Line("user", h.user_tasks[at].turn, 0)
                     ELSE /\ i \div 2 \in 1..a
                          /\ UserLines(h)[i] = Line("answer", h.assistant_finals[i \div 2],
                                                    h.user_tasks[i \div 2].turn)
<1> DEFINE n == CompactUserCount(h)
           a == AnswerCount(h)
<1>1. n \in 0..Len(h.user_tasks) /\ a \in 0..n /\ a <= Len(h.assistant_finals) /\ n \in Nat /\ a \in Nat
  BY UserCounts DEF Histories
<1>2. /\ \A i \in 1..n : h.user_tasks[i].turn \in Nat
      /\ \A i \in 1..a : h.assistant_finals[i] \in Nat
  BY <1>1, HistoryParts
<1>3. UserLines(h) =
        [i \in 1..n + a |-> IF i > 2 * a THEN Line("user", h.user_tasks[i - a].turn, 0)
                            ELSE IF i % 2 = 1 THEN Line("user", h.user_tasks[(i + 1) \div 2].turn, 0)
                            ELSE Line("answer", h.assistant_finals[i \div 2],
                                      h.user_tasks[i \div 2].turn)]
  BY DEF UserLines, AnswerCount
<1> HIDE DEF n, a
<1>4. \A i \in 1..n + a : /\ i > 2 * a => i - a \in 1..n
                          /\ i <= 2 * a /\ i % 2 = 1 => (i + 1) \div 2 \in 1..n
                          /\ i <= 2 * a /\ i % 2 # 1 => i \div 2 \in 1..a /\ i \div 2 \in 1..n
  BY <1>1
<1>5. \A i \in 1..n + a : UserLines(h)[i] \in Told
  <2> TAKE i \in 1..n + a
  <2>1. CASE i > 2 * a
    BY <1>2, <1>3, <1>4, <2>1, LineFields DEF LineKind
  <2>2. CASE i <= 2 * a /\ i % 2 = 1
    BY <1>1, <1>2, <1>3, <1>4, <2>2, LineFields, SMTT(40) DEF LineKind
  <2>3. CASE i <= 2 * a /\ i % 2 # 1
    <3>1. PICK p \in 1..a : p = i \div 2 /\ p \in 1..n
      BY <1>4, <2>3
    <3>2. UserLines(h)[i] = Line("answer", h.assistant_finals[p], h.user_tasks[p].turn)
      BY <1>1, <1>3, <2>3, <3>1
    <3>3. h.assistant_finals[p] \in Nat /\ h.user_tasks[p].turn \in Nat
      BY <1>2, <3>1
    <3> QED
      BY <3>2, <3>3, LineFields DEF LineKind
  <2> QED
    BY <1>1, <2>1, <2>2, <2>3
<1>6. UserLines(h) \in Seq(Told) /\ Len(UserLines(h)) = n + a
  BY <1>1, <1>3, <1>5
<1>7. \A i \in 1..n + a :
         LET at == IF i > 2 * a THEN i - a ELSE (i + 1) \div 2
         IN  IF i > 2 * a \/ i % 2 = 1
             THEN at \in 1..n /\ UserLines(h)[i] = Line("user", h.user_tasks[at].turn, 0)
             ELSE /\ i \div 2 \in 1..a
                  /\ UserLines(h)[i] = Line("answer", h.assistant_finals[i \div 2],
                                            h.user_tasks[i \div 2].turn)
  BY <1>1, <1>3, <1>4
<1> QED
  BY <1>6, <1>7 DEF n, a

(* How many results stay.                                                   *)
LEMMA KeepCount == KeepToolCount \in 1..recent_tool_turns
  BY ContextAssumption DEF KeepToolCount

(* The lines of the results that go.                                        *)
ToolsGone(h) == IF Len(h.tool_turns) <= KeepToolCount THEN 0 ELSE Len(h.tool_turns) - KeepToolCount
LEMMA ToolLinesSeq ==
    ASSUME NEW h \in Histories
    PROVE  /\ ToolLines(h) \in Seq(Told) /\ Len(ToolLines(h)) = ToolsGone(h)
           /\ ToolsGone(h) \in 0..Len(h.tool_turns)
           /\ \A i \in 1..ToolsGone(h) : ToolLines(h)[i] = Line("tool", h.tool_turns[i].n, 0)
<1>1. KeepToolCount \in Nat /\ Len(h.tool_turns) \in Nat
  BY KeepCount, ContextAssumption DEF Histories
<1>2. ToolsGone(h) \in 0..Len(h.tool_turns) /\ ToolsGone(h) \in Nat
  BY <1>1 DEF ToolsGone
<1>3. ToolLines(h) = [i \in 1..ToolsGone(h) |-> Line("tool", h.tool_turns[i].n, 0)]
  BY DEF ToolLines, ToolsGone
<1>4. \A i \in 1..ToolsGone(h) : h.tool_turns[i].n \in Nat
  BY <1>1, <1>2, HistoryParts
<1>5. \A i \in 1..ToolsGone(h) : Line("tool", h.tool_turns[i].n, 0) \in Told
  BY <1>4, LineFields DEF LineKind
<1> QED
  BY <1>2, <1>3, <1>5

(* What a compaction makes of a history.                                    *)
LEMMA CompactedFields ==
    ASSUME NEW h \in Histories
    PROVE  /\ Compacted(h).user_tasks = AfterFirst(h.user_tasks, CompactUserCount(h))
           /\ Compacted(h).assistant_finals = RestOfFinals(h)
           /\ Compacted(h).tool_turns = Newest(h.tool_turns, KeepToolCount)
           /\ Compacted(h).compacted_summary =
                 Newest(h.compacted_summary \o UserLines(h) \o ToolLines(h), SummaryLines)
  BY DEF Compacted

(* The tasks, the answers and the results that stay are the last ones.      *)
LEMMA CompactedSeqs ==
    ASSUME NEW h \in Histories
    PROVE  LET d == Compacted(h)
               c == CompactUserCount(h)
               g == ToolsGone(h)
           IN  /\ d \in Histories
               /\ Len(d.user_tasks) = Len(h.user_tasks) - c
               /\ \A i \in 1..Len(d.user_tasks) : d.user_tasks[i] = h.user_tasks[c + i]
               /\ Len(d.assistant_finals) = IF Len(h.assistant_finals) <= c THEN 0
                                            ELSE Len(h.assistant_finals) - c
               /\ \A i \in 1..Len(d.assistant_finals) :
                     d.assistant_finals[i] = h.assistant_finals[c + i]
               /\ Len(d.tool_turns) = Len(h.tool_turns) - g
               /\ Len(d.tool_turns) <= KeepToolCount
               /\ \A i \in 1..Len(d.tool_turns) : d.tool_turns[i] = h.tool_turns[g + i]
               /\ Len(d.compacted_summary) <= SummaryLines
<1> DEFINE d == Compacted(h)
           c == CompactUserCount(h)
           g == ToolsGone(h)
           all == h.compacted_summary \o UserLines(h) \o ToolLines(h)
<1>1. /\ h.user_tasks \in Seq(Asked) /\ h.assistant_finals \in Seq(1..MaxUserTurns)
      /\ h.tool_turns \in Seq(Kept) /\ h.compacted_summary \in Seq(Told)
  BY HistoryParts
<1>2. c \in 0..Len(h.user_tasks) /\ c \in Nat /\ KeepToolCount \in Nat /\ SummaryLines \in Nat
  BY <1>1, UserCounts, KeepCount, ContextAssumption
<1>3. all \in Seq(Told)
  BY <1>1, UserLinesSeq, ToolLinesSeq
<1>4. /\ d.user_tasks \in Seq(Asked) /\ Len(d.user_tasks) = Len(h.user_tasks) - c
      /\ \A i \in 1..Len(d.user_tasks) : d.user_tasks[i] = h.user_tasks[c + i]
  <2>1. PICK s \in Seq(Asked) : s = h.user_tasks
    BY <1>1
  <2>2. PICK n \in 0..Len(s) : n = c
    BY <1>2, <2>1
  <2>3. d.user_tasks = AfterFirst(s, n)
    BY <2>1, <2>2, CompactedFields
  <2> HIDE DEF c, d
  <2>4. PICK t : t = AfterFirst(s, n)
    OBVIOUS
  <2>5. t \in Seq(Asked) /\ Len(t) = Len(s) - n /\ \A i \in 1..Len(s) - n : t[i] = s[n + i]
    BY <2>4, AfterFirstSeq
  <2> QED
    BY <2>1, <2>2, <2>3, <2>4, <2>5
<1>5. /\ d.assistant_finals \in Seq(1..MaxUserTurns)
      /\ Len(d.assistant_finals) = IF Len(h.assistant_finals) <= c THEN 0
                                   ELSE Len(h.assistant_finals) - c
      /\ \A i \in 1..Len(d.assistant_finals) :
            d.assistant_finals[i] = h.assistant_finals[c + i]
  <2>1. d.assistant_finals = AfterFirst(h.assistant_finals, c)
    BY CompactedFields DEF RestOfFinals
  <2>2. CASE Len(h.assistant_finals) < c
    <3>1. d.assistant_finals = <<>>
      BY <1>1, <1>2, <2>1, <2>2, AfterAll
    <3> QED
      BY <1>1, <1>2, <2>2, <3>1
  <2>3. CASE ~(Len(h.assistant_finals) < c)
    <3>1. c \in 0..Len(h.assistant_finals)
      BY <1>1, <1>2, <2>3
    <3>2. PICK s \in Seq(1..MaxUserTurns) : s = h.assistant_finals
      BY <1>1
    <3>3. PICK n \in 0..Len(s) : n = c
      BY <3>1, <3>2
    <3>4. d.assistant_finals = AfterFirst(s, n)
      BY <2>1, <3>2, <3>3
    <3> HIDE DEF c, d
    <3>5. PICK t : t = AfterFirst(s, n)
      OBVIOUS
    <3>6. /\ t \in Seq(1..MaxUserTurns) /\ Len(t) = Len(s) - n
          /\ \A i \in 1..Len(s) - n : t[i] = s[n + i]
      BY <3>5, AfterFirstSeq
    <3> QED
      BY <2>3, <3>2, <3>3, <3>4, <3>5, <3>6
  <2> QED
    BY <2>2, <2>3
<1>6. /\ d.tool_turns \in Seq(Kept) /\ Len(d.tool_turns) = Len(h.tool_turns) - g
      /\ Len(d.tool_turns) <= KeepToolCount
      /\ \A i \in 1..Len(d.tool_turns) : d.tool_turns[i] = h.tool_turns[g + i]
  <2>1. d.tool_turns = Newest(h.tool_turns, KeepToolCount)
    BY CompactedFields
  <2>2. g \in Nat /\ g = IF Len(h.tool_turns) <= KeepToolCount THEN 0
                         ELSE Len(h.tool_turns) - KeepToolCount
    BY <1>1, <1>2 DEF ToolsGone
  <2> HIDE DEF d, g
  <2>3. /\ d.tool_turns \in Seq(Kept)
        /\ Len(d.tool_turns) = IF Len(h.tool_turns) <= KeepToolCount THEN Len(h.tool_turns)
                               ELSE KeepToolCount
        /\ \A i \in 1..Len(d.tool_turns) :
              d.tool_turns[i] = h.tool_turns[Len(h.tool_turns) - Len(d.tool_turns) + i]
    <3>1. PICK s \in Seq(Kept) : s = h.tool_turns
      BY <1>1
    <3>2. PICK t : t = d.tool_turns
      OBVIOUS
    <3>3. t = Newest(s, KeepToolCount)
      BY <2>1, <3>1, <3>2
    <3>4. /\ t \in Seq(Kept) /\ Len(t) = IF Len(s) <= KeepToolCount THEN Len(s) ELSE KeepToolCount
          /\ \A i \in 1..Len(t) : t[i] = s[Len(s) - Len(t) + i]
      BY <1>2, <3>3, NewestSeq
    <3> QED
      BY <3>1, <3>2, <3>4
  <2>4. Len(h.tool_turns) \in Nat /\ Len(h.tool_turns) - Len(d.tool_turns) = g
    BY <1>1, <1>2, <2>2, <2>3
  <2>5. \A i \in 1..Len(d.tool_turns) : d.tool_turns[i] = h.tool_turns[g + i]
    BY <2>3, <2>4
  <2> QED
    BY <1>1, <1>2, <2>2, <2>3, <2>4, <2>5
<1>7. d.compacted_summary \in Seq(Told) /\ Len(d.compacted_summary) <= SummaryLines
  <2>1. PICK s \in Seq(Told) : s = all
    BY <1>3
  <2>2. d.compacted_summary = Newest(s, SummaryLines)
    BY <2>1, CompactedFields
  <2>3. Newest(s, SummaryLines) \in Seq(Told) /\ Len(Newest(s, SummaryLines)) <= SummaryLines
    BY <1>2, NewestSeq
  <2> QED
    BY <2>2, <2>3
<1>8. d \in Histories
  BY <1>4, <1>5, <1>6, <1>7 DEF Compacted, Histories
<1> QED
  BY <1>4, <1>5, <1>6, <1>7, <1>8

(* Lines that tell the same of a kind, in the same order: every line of t   *)
(* is one of s, later ones are later ones, and none of s is missing.        *)
Maps(kind, s, m, t, n, f) ==
    \A i \in 1..n : t[i].kind = kind =>
        f[i] \in 1..m /\ s[f[i]].kind = kind /\ s[f[i]].of = t[i].of
Climbs(kind, t, n, f) ==
    \A i, j \in 1..n : t[i].kind = kind /\ t[j].kind = kind /\ i < j => f[i] < f[j]
Alike(kind, s, t) ==
    \E f, g : /\ Maps(kind, s, Len(s), t, Len(t), f) /\ Climbs(kind, t, Len(t), f)
              /\ Maps(kind, t, Len(t), s, Len(s), g)
LEMMA SameTold ==
    ASSUME NEW kind, NEW s \in Seq(Told), NEW t \in Seq(Told), NEW all, NEW room,
           Alike(kind, s, t), NewestTold(kind, s, all, room)
    PROVE  NewestTold(kind, t, all, room)
<1>0. PICK f, g : /\ Maps(kind, s, Len(s), t, Len(t), f) /\ Climbs(kind, t, Len(t), f)
                  /\ Maps(kind, t, Len(t), s, Len(s), g)
  BY DEF Alike
<1>1. \A i, j \in 1..Len(t) : t[i].kind = kind /\ t[j].kind = kind /\ i < j => t[i].of < t[j].of
  BY <1>0 DEF NewestTold, Maps, Climbs
<1>2. ASSUME NEW k \in all
      PROVE  \/ \E i \in 1..Len(t) : t[i].kind = kind /\ t[i].of = k
             \/ room = 0 /\ \A i \in 1..Len(t) : t[i].kind = kind => k < t[i].of
  <2>1. CASE \E i \in 1..Len(s) : s[i].kind = kind /\ s[i].of = k
    BY <1>0, <2>1 DEF Maps
  <2>2. CASE room = 0 /\ \A i \in 1..Len(s) : s[i].kind = kind => k < s[i].of
    BY <1>0, <2>2 DEF Maps
  <2> QED
    BY <2>1, <2>2 DEF NewestTold
<1> QED
  BY <1>1, <1>2 DEF NewestTold

(* Cutting lines from the front cuts the oldest.                            *)
LEMMA CutTold ==
    ASSUME NEW kind, NEW s \in Seq(Told), NEW m \in Nat, m <= Len(s), NEW t \in Seq(Told),
           Len(t) = Len(s) - m, \A i \in 1..Len(t) : t[i] = s[m + i],
           NEW all, NEW room, NewestTold(kind, s, all, room)
    PROVE  NewestTold(kind, t, all, 0)
<1>0. Len(s) \in Nat /\ Len(t) \in Nat /\ \A i \in 1..Len(t) : m + i \in 1..Len(s)
  OBVIOUS
<1>1. \A i, j \in 1..Len(t) : t[i].kind = kind /\ t[j].kind = kind /\ i < j => t[i].of < t[j].of
  <2>1. \A i, j \in 1..Len(s) : s[i].kind = kind /\ s[j].kind = kind /\ i < j => s[i].of < s[j].of
    BY DEF NewestTold
  <2> TAKE i, j \in 1..Len(t)
  <2>2. m + i \in 1..Len(s) /\ m + j \in 1..Len(s) /\ (i < j => m + i < m + j)
    BY <1>0
  <2> QED
    BY <2>1, <2>2
<1>2. ASSUME NEW k \in all
      PROVE  \/ \E i \in 1..Len(t) : t[i].kind = kind /\ t[i].of = k
             \/ \A i \in 1..Len(t) : t[i].kind = kind => k < t[i].of
  <2>1. CASE \E i \in 1..Len(s) : s[i].kind = kind /\ s[i].of = k
    <3>1. PICK i \in 1..Len(s) : s[i].kind = kind /\ s[i].of = k
      BY <2>1
    <3>2. CASE i > m
      <4>1. i - m \in 1..Len(t) /\ m + (i - m) = i
        BY <1>0, <3>2
      <4> QED
        BY <3>1, <4>1
    <3>3. CASE i <= m
      <4>1. \A j \in 1..Len(t) : t[j].kind = kind => s[i].of < s[m + j].of
        BY <1>0, <3>1, <3>3 DEF NewestTold
      <4> QED
        BY <3>1, <4>1
    <3> QED
      BY <1>0, <3>2, <3>3
  <2>2. CASE \A i \in 1..Len(s) : s[i].kind = kind => k < s[i].of
    BY <1>0, <2>2
  <2> QED
    BY <2>1, <2>2 DEF NewestTold
<1> QED
  BY <1>1, <1>2 DEF NewestTold

(* A newer line at the end.                                                 *)
LEMMA AddTold ==
    ASSUME NEW kind, NEW s \in Seq(Told), NEW line \in Told, line.kind = kind,
           NEW all, NEW more, NEW room, NewestTold(kind, s, all, room),
           \A i \in 1..Len(s) : s[i].kind = kind => s[i].of < line.of,
           \A k \in more : k \in all \/ k = line.of,
           \A k \in all : k \in Nat /\ k < line.of
    PROVE  NewestTold(kind, Append(s, line), more, room)
<1> DEFINE t == Append(s, line)
<1>0. /\ Len(s) \in Nat /\ Len(t) = Len(s) + 1 /\ t[Len(t)] = line
      /\ \A i \in 1..Len(s) : t[i] = s[i] /\ i \in 1..Len(t)
      /\ \A i \in 1..Len(t) : i = Len(t) \/ i \in 1..Len(s)
  OBVIOUS
<1> HIDE DEF t
<1>1. \A i, j \in 1..Len(t) : t[i].kind = kind /\ t[j].kind = kind /\ i < j => t[i].of < t[j].of
  BY <1>0 DEF NewestTold
<1>2. ASSUME NEW k \in more
      PROVE  \/ \E i \in 1..Len(t) : t[i].kind = kind /\ t[i].of = k
             \/ room = 0 /\ \A i \in 1..Len(t) : t[i].kind = kind => k < t[i].of
  <2>1. CASE k = line.of
    BY <1>0, <2>1
  <2>2. CASE k \in all
    <3>1. CASE \E i \in 1..Len(s) : s[i].kind = kind /\ s[i].of = k
      BY <1>0, <3>1
    <3>2. CASE room = 0 /\ \A i \in 1..Len(s) : s[i].kind = kind => k < s[i].of
      BY <1>0, <2>2, <3>2
    <3> QED
      BY <2>2, <3>1, <3>2 DEF NewestTold
  <2> QED
    BY <2>1, <2>2
<1> QED
  BY <1>1, <1>2 DEF NewestTold, t

(* What is told alike piece by piece is told alike: r is p and then q, v is *)
(* s and then t.                                                            *)
Follows(r, s, m, t, n) ==
    (\A i \in 1..m : r[i] = s[i]) /\ \A i \in 1..n : r[m + i] = t[i]
Beside(f, g, n, k, m) == [i \in 1..m |-> IF i <= n THEN f[i] ELSE k + g[i - n]]
LEMMA AlikeMaps ==
    ASSUME NEW kind, NEW p, NEW q, NEW s, NEW t, NEW r, NEW v, NEW f, NEW g, NEW h,
           NEW a \in Nat, NEW b \in Nat, NEW c \in Nat, NEW d \in Nat,
           Follows(r, p, a, q, b), Follows(v, s, c, t, d),
           Maps(kind, p, a, s, c, f), Maps(kind, q, b, t, d, g), h = Beside(f, g, c, a, c + d)
    PROVE  Maps(kind, r, a + b, v, c + d, h)
<1> SUFFICES ASSUME NEW i \in 1..c + d, v[i].kind = kind
             PROVE  h[i] \in 1..a + b /\ r[h[i]].kind = kind /\ r[h[i]].of = v[i].of
  BY DEF Maps
<1>2. CASE i <= c
  <2>1. i \in 1..c /\ v[i] = s[i] /\ h[i] = f[i]
    BY <1>2 DEF Follows, Beside
  <2>2. f[i] \in 1..a /\ p[f[i]].kind = kind /\ p[f[i]].of = v[i].of
    BY <2>1 DEF Maps
  <2>3. r[f[i]] = p[f[i]] /\ f[i] \in 1..a + b
    BY <2>2 DEF Follows
  <2> QED
    BY <2>1, <2>2, <2>3
<1>3. CASE i > c
  <2>1. PICK j \in 1..d : j = i - c /\ i = c + j
    BY <1>3
  <2>2. v[i] = t[j] /\ h[i] = a + g[j]
    BY <1>3, <2>1 DEF Follows, Beside
  <2>3. g[j] \in 1..b /\ q[g[j]].kind = kind /\ q[g[j]].of = v[i].of
    BY <2>1, <2>2 DEF Maps
  <2>4. PICK k \in 1..b : k = g[j]
    BY <2>3
  <2>5. h[i] = a + k /\ h[i] \in 1..a + b
    BY <2>2, <2>4
  <2>6. r[a + k] = q[k]
    BY <2>4 DEF Follows
  <2> QED
    BY <2>3, <2>4, <2>5, <2>6
<1> QED
  BY <1>2, <1>3

(* Two joined sequences keep the order of what they tell.                   *)
LEMMA AlikeClimbs ==
    ASSUME NEW kind, NEW p, NEW q, NEW s, NEW t, NEW v, NEW f, NEW g, NEW h,
           NEW a \in Nat, NEW b \in Nat, NEW c \in Nat, NEW d \in Nat,
           Follows(v, s, c, t, d), Maps(kind, p, a, s, c, f), Maps(kind, q, b, t, d, g),
           Climbs(kind, s, c, f), Climbs(kind, t, d, g), h = Beside(f, g, c, a, c + d)
    PROVE  Climbs(kind, v, c + d, h)
<1> SUFFICES ASSUME NEW i \in 1..c + d, NEW j \in 1..c + d, v[i].kind = kind, v[j].kind = kind, i < j
             PROVE  h[i] < h[j]
  BY DEF Climbs
<1>2. CASE j <= c
  <2>1. i \in 1..c /\ j \in 1..c /\ v[i] = s[i] /\ v[j] = s[j] /\ h[i] = f[i] /\ h[j] = f[j]
    BY <1>2 DEF Follows, Beside
  <2> QED
    BY <2>1 DEF Climbs
<1>3. CASE i <= c /\ j > c
  <2>1. i \in 1..c /\ v[i] = s[i] /\ h[i] = f[i]
    BY <1>3 DEF Follows, Beside
  <2>2. PICK k \in 1..d : k = j - c /\ j = c + k
    BY <1>3
  <2>3. v[j] = t[k] /\ h[j] = a + g[k]
    BY <1>3, <2>2 DEF Follows, Beside
  <2>4. f[i] \in 1..a
    BY <2>1 DEF Maps
  <2>5. g[k] \in 1..b
    BY <2>2, <2>3 DEF Maps
  <2> QED
    BY <2>1, <2>3, <2>4, <2>5
<1>4. CASE i > c
  <2>1. PICK k \in 1..d : k = j - c /\ j = c + k
    BY <1>4
  <2>2. PICK l \in 1..d : l = i - c /\ i = c + l
    BY <1>4
  <2>3. v[j] = t[k] /\ v[i] = t[l] /\ l < k
    BY <2>1, <2>2 DEF Follows
  <2>4. h[j] = a + g[k] /\ h[i] = a + g[l]
    BY <1>4, <2>1, <2>2 DEF Beside
  <2>5. g[l] < g[k]
    BY <2>1, <2>2, <2>3 DEF Climbs
  <2>6. g[k] \in 1..b /\ g[l] \in 1..b
    BY <2>1, <2>2, <2>3 DEF Maps
  <2> QED
    BY <2>4, <2>5, <2>6
<1> QED
  BY <1>2, <1>3, <1>4

(* What tells the same part by part tells the same joined.                  *)
LEMMA AlikeJoined ==
    ASSUME NEW kind, NEW p \in Seq(Told), NEW q \in Seq(Told), NEW s \in Seq(Told), NEW t \in Seq(Told),
           Alike(kind, p, s), Alike(kind, q, t)
    PROVE  Alike(kind, p \o q, s \o t)
<1>1. PICK a, b, c, d \in Nat : a = Len(p) /\ b = Len(q) /\ c = Len(s) /\ d = Len(t)
  OBVIOUS
<1>2. PICK f1, g1 : Maps(kind, p, a, s, c, f1) /\ Climbs(kind, s, c, f1) /\ Maps(kind, s, c, p, a, g1)
  BY <1>1 DEF Alike
<1>3. PICK f2, g2 : Maps(kind, q, b, t, d, f2) /\ Climbs(kind, t, d, f2) /\ Maps(kind, t, d, q, b, g2)
  BY <1>1 DEF Alike
<1>4. PICK r : r = p \o q
  OBVIOUS
<1>5. PICK v : v = s \o t
  OBVIOUS
<1>6. Follows(r, p, a, q, b) /\ Len(r) = a + b
  BY <1>1, <1>4, Joined DEF Follows
<1>7. Follows(v, s, c, t, d) /\ Len(v) = c + d
  BY <1>1, <1>5, Joined DEF Follows
<1>8. PICK f : f = Beside(f1, f2, c, a, c + d)
  OBVIOUS
<1>9. PICK g : g = Beside(g1, g2, a, c, a + b)
  OBVIOUS
<1>10. Maps(kind, r, a + b, v, c + d, f)
  BY <1>2, <1>3, <1>6, <1>7, <1>8, AlikeMaps, Zenon
<1>11. Climbs(kind, v, c + d, f)
  BY <1>2, <1>3, <1>7, <1>8, AlikeClimbs, Zenon
<1>12. Maps(kind, v, c + d, r, a + b, g)
  BY <1>2, <1>3, <1>6, <1>7, <1>9, AlikeMaps, Zenon
<1>13. Alike(kind, r, v)
  BY <1>6, <1>7, <1>10, <1>11, <1>12, Zenon DEF Alike
<1> QED
  BY <1>4, <1>5, <1>13

(* A sequence is like itself; lines of other kinds are like none.           *)
LEMMA AlikeSelf ==
    ASSUME NEW kind, NEW s \in Seq(Told)
    PROVE  Alike(kind, s, s)
<1>1. PICK f : f = [i \in 1..Len(s) |-> i]
  OBVIOUS
<1>2. Maps(kind, s, Len(s), s, Len(s), f) /\ Climbs(kind, s, Len(s), f)
  BY <1>1 DEF Maps, Climbs
<1> QED
  BY <1>2, Zenon DEF Alike
Lacks(kind, s) == \A i \in 1..Len(s) : s[i].kind # kind

(* What tells nothing of a kind is like nothing.                            *)
LEMMA AlikeNone ==
    ASSUME NEW kind, NEW s \in Seq(Told), Lacks(kind, s)
    PROVE  Alike(kind, <<>>, s)
<1>1. Maps(kind, <<>>, 0, s, Len(s), <<>>) /\ Climbs(kind, s, Len(s), <<>>)
  BY DEF Lacks, Maps, Climbs
<1>2. Maps(kind, s, Len(s), <<>>, 0, <<>>)
  BY DEF Maps
<1>3. Len(<<>>) = 0
  OBVIOUS
<1> QED
  BY <1>1, <1>2, <1>3, Zenon DEF Alike

(* The lines of the first n tasks, and of all results that are retained.    *)
TaskLines(h, n) == [i \in 1..n |-> Line("user", h.user_tasks[i].turn, 0)]
KeptLines(h) == [i \in 1..Len(h.tool_turns) |-> Line("tool", h.tool_turns[i].n, 0)]
LEMMA TaskLinesSeq ==
    ASSUME NEW h \in Histories, NEW n \in 0..Len(h.user_tasks)
    PROVE  /\ TaskLines(h, n) \in Seq(Told) /\ Len(TaskLines(h, n)) = n
           /\ \A i \in 1..n : /\ TaskLines(h, n)[i] = Line("user", h.user_tasks[i].turn, 0)
                              /\ TaskLines(h, n)[i].kind = "user"
                              /\ TaskLines(h, n)[i].of = h.user_tasks[i].turn
<1>0. Len(h.user_tasks) \in Nat /\ n \in Nat
  BY HistoryParts
<1>1. \A i \in 1..n : h.user_tasks[i].turn \in Nat
  BY <1>0, HistoryParts
<1>2. \A i \in 1..n : LET line == Line("user", h.user_tasks[i].turn, 0)
                      IN  line \in Told /\ line.kind = "user" /\ line.of = h.user_tasks[i].turn
  BY <1>1, LineFields DEF LineKind
<1> QED
  BY <1>0, <1>2 DEF TaskLines

(* The lines of the results that are kept, one each.                        *)
LEMMA KeptLinesSeq ==
    ASSUME NEW h \in Histories
    PROVE  /\ KeptLines(h) \in Seq(Told) /\ Len(KeptLines(h)) = Len(h.tool_turns)
           /\ \A i \in 1..Len(h.tool_turns) :
                 /\ KeptLines(h)[i] = Line("tool", h.tool_turns[i].n, 0)
                 /\ KeptLines(h)[i].kind = "tool" /\ KeptLines(h)[i].of = h.tool_turns[i].n
<1>0. PICK n \in Nat : n = Len(h.tool_turns)
  BY HistoryParts
<1>1. \A i \in 1..n : h.tool_turns[i].n \in Nat
  BY <1>0, HistoryParts
<1>2. \A i \in 1..n : LET line == Line("tool", h.tool_turns[i].n, 0)
                      IN  line \in Told /\ line.kind = "tool" /\ line.of = h.tool_turns[i].n
  BY <1>1, LineFields DEF LineKind
<1> QED
  BY <1>0, <1>2 DEF KeptLines

(* Where the line of a task is among those of the conversation.             *)
LEMMA PlaceOf ==
    ASSUME NEW n \in Nat, NEW a \in 0..n
    PROVE  /\ \A i \in 1..n + a : i > 2 * a \/ i % 2 = 1 =>
                 (IF i > 2 * a THEN i - a ELSE (i + 1) \div 2) \in 1..n
           /\ \A i, j \in 1..n + a :
                 (i > 2 * a \/ i % 2 = 1) /\ (j > 2 * a \/ j % 2 = 1) /\ i < j =>
                    (IF i > 2 * a THEN i - a ELSE (i + 1) \div 2)
                    < (IF j > 2 * a THEN j - a ELSE (j + 1) \div 2)
           /\ \A i \in 1..n : LET p == IF i <= a THEN 2 * i - 1 ELSE i + a
                              IN  /\ p \in 1..n + a /\ (p > 2 * a \/ p % 2 = 1)
                                  /\ (IF p > 2 * a THEN p - a ELSE (p + 1) \div 2) = i
<1>1. \A i \in 1..n + a : i > 2 * a \/ i % 2 = 1 =>
         (IF i > 2 * a THEN i - a ELSE (i + 1) \div 2) \in 1..n
  OBVIOUS
<1>2. \A i, j \in 1..n + a :
         (i > 2 * a \/ i % 2 = 1) /\ (j > 2 * a \/ j % 2 = 1) /\ i < j =>
            (IF i > 2 * a THEN i - a ELSE (i + 1) \div 2)
            < (IF j > 2 * a THEN j - a ELSE (j + 1) \div 2)
  OBVIOUS
<1>3. \A i \in 1..n : LET p == IF i <= a THEN 2 * i - 1 ELSE i + a
                      IN  /\ p \in 1..n + a /\ (p > 2 * a \/ p % 2 = 1)
                          /\ (IF p > 2 * a THEN p - a ELSE (p + 1) \div 2) = i
  OBVIOUS
<1> QED
  BY <1>1, <1>2, <1>3

(* The lines of the conversation tell of the tasks what their turns do.     *)
LEMMA UserLinesAlike ==
    ASSUME NEW h \in Histories
    PROVE  Alike("user", TaskLines(h, CompactUserCount(h)), UserLines(h))
<1>1. PICK n \in 0..Len(h.user_tasks) : n = CompactUserCount(h) /\ n \in Nat
  BY UserCounts, HistoryParts
<1>2. PICK a \in 0..n : a = AnswerCount(h) /\ a \in Nat
  BY <1>1, UserCounts
<1>3. PICK t : t = UserLines(h)
  OBVIOUS
<1>4. PICK s : s = TaskLines(h, n)
  OBVIOUS
<1>5. /\ s \in Seq(Told) /\ Len(s) = n
      /\ \A i \in 1..n : s[i] = Line("user", h.user_tasks[i].turn, 0) /\ s[i].kind = "user"
  BY <1>1, <1>4, TaskLinesSeq
<1>6. /\ t \in Seq(Told) /\ Len(t) = n + a
      /\ \A i \in 1..n + a :
            LET at == IF i > 2 * a THEN i - a ELSE (i + 1) \div 2
            IN  IF i > 2 * a \/ i % 2 = 1
                THEN at \in 1..n /\ t[i] = Line("user", h.user_tasks[at].turn, 0)
                ELSE i \div 2 \in 1..a /\ t[i] = Line("answer", h.assistant_finals[i \div 2],
                                                      h.user_tasks[i \div 2].turn)
  BY <1>1, <1>2, <1>3, UserLinesSeq
<1>7. \A i \in 1..n + a : ~(i > 2 * a \/ i % 2 = 1) => t[i].kind # "user"
  BY <1>6 DEF Line
<1> DEFINE at(i) == IF i > 2 * a THEN i - a ELSE (i + 1) \div 2
           f == [i \in 1..n + a |-> at(i)]
           g == [i \in 1..n |-> IF i <= a THEN 2 * i - 1 ELSE i + a]
<1>8. \A i \in 1..n + a : i > 2 * a \/ i % 2 = 1 => at(i) \in 1..n /\ t[i] = s[at(i)]
  BY <1>5, <1>6
<1>9. Maps("user", s, n, t, n + a, f)
  <2> SUFFICES ASSUME NEW i \in 1..n + a, t[i].kind = "user"
               PROVE  f[i] \in 1..n /\ s[f[i]].kind = "user" /\ s[f[i]].of = t[i].of
    BY DEF Maps
  <2>1. i > 2 * a \/ i % 2 = 1
    BY <1>7
  <2>2. f[i] = at(i)
    OBVIOUS
  <2> HIDE DEF f, at
  <2> QED
    BY <1>5, <1>8, <2>1, <2>2
<1>10. Climbs("user", t, n + a, f)
  <2> SUFFICES ASSUME NEW i \in 1..n + a, NEW j \in 1..n + a, t[i].kind = "user",
                      t[j].kind = "user", i < j
               PROVE  f[i] < f[j]
    BY DEF Climbs
  <2>1. (i > 2 * a \/ i % 2 = 1) /\ (j > 2 * a \/ j % 2 = 1)
    BY <1>7
  <2> QED
    BY <1>1, <2>1, PlaceOf
<1>11. Maps("user", t, n + a, s, n, g)
  <2> SUFFICES ASSUME NEW i \in 1..n
               PROVE  g[i] \in 1..n + a /\ t[g[i]] = s[i]
    BY <1>5 DEF Maps
  <2>1. PICK p \in 1..n + a : p = g[i] /\ (p > 2 * a \/ p % 2 = 1) /\ at(p) = i
    BY <1>1, PlaceOf
  <2> HIDE DEF at
  <2> QED
    BY <1>8, <2>1
<1> HIDE DEF f, g
<1>12. Alike("user", s, t)
  BY <1>5, <1>6, <1>9, <1>10, <1>11, Zenon DEF Alike
<1> QED
  BY <1>1, <1>3, <1>4, <1>12

(* Joining sequences is associative, and nothing joins to nothing.          *)
LEMMA JoinAgain ==
    ASSUME NEW s \in Seq(Told), NEW t \in Seq(Told), NEW r \in Seq(Told)
    PROVE  (s \o t) \o r = s \o (t \o r)
  BY ConcatAssociative

(* Nothing joined to a sequence leaves it.                                  *)
LEMMA JoinNothing ==
    ASSUME NEW s \in Seq(Told)
    PROVE  s \o <<>> = s /\ <<>> \in Seq(Told)
  BY ConcatEmptySeq

(* Two sequences with the same elements are the same.                       *)
LEMMA SameElements ==
    ASSUME NEW s \in Seq(Told), NEW t \in Seq(Told), Len(s) = Len(t), \A i \in 1..Len(s) : s[i] = t[i]
    PROVE  s = t
  OBVIOUS

(* The lines of all tasks.                                                  *)
LEMMA AllTaskLines ==
    ASSUME NEW h \in Histories
    PROVE  TaskLines(h, Len(h.user_tasks)) \in Seq(Told)
<1>0. h.user_tasks \in Seq(Asked)
  BY HistoryParts, Zenon
<1>1. Len(h.user_tasks) \in 0..Len(h.user_tasks)
  BY <1>0
<1> QED
  BY <1>1, TaskLinesSeq

(* What is retained before a compaction is what is moved, then what is kept.*)
LEMMA KeptLinesSplit ==
    ASSUME NEW h \in Histories
    PROVE  KeptLines(h) = ToolLines(h) \o KeptLines(Compacted(h))
<1>1. PICK d \in Histories : d = Compacted(h)
  BY CompactedSeqs
<1>2. PICK g \in Nat : g = ToolsGone(h) /\ g <= Len(h.tool_turns)
  BY ToolLinesSeq, HistoryParts
<1>3. /\ Len(d.tool_turns) = Len(h.tool_turns) - g
      /\ \A i \in 1..Len(d.tool_turns) : d.tool_turns[i] = h.tool_turns[g + i]
  BY <1>1, <1>2, CompactedSeqs
<1>4. PICK t \in Seq(Told) : t = ToolLines(h)
  BY ToolLinesSeq
<1>5. Len(t) = g /\ \A i \in 1..g : t[i] = Line("tool", h.tool_turns[i].n, 0)
  BY <1>2, <1>4, ToolLinesSeq
<1>6. PICK m, l \in Nat : m = Len(h.tool_turns) /\ l = Len(d.tool_turns) /\ m = g + l
  BY <1>2, <1>3, HistoryParts
<1>7. PICK s \in Seq(Told) : s = KeptLines(h)
  BY KeptLinesSeq
<1>8. PICK r \in Seq(Told) : r = KeptLines(d)
  BY KeptLinesSeq
<1>9. Len(s) = m /\ \A i \in 1..m : s[i] = Line("tool", h.tool_turns[i].n, 0)
  BY <1>6, <1>7, KeptLinesSeq
<1>10. Len(r) = l /\ \A i \in 1..l : r[i] = Line("tool", h.tool_turns[g + i].n, 0)
  BY <1>3, <1>6, <1>8, KeptLinesSeq
<1>11. PICK v : v = t \o r
  OBVIOUS
<1>12. /\ v \in Seq(Told) /\ Len(v) = g + l
       /\ \A i \in 1..g : v[i] = t[i]
       /\ \A i \in 1..l : v[g + i] = r[i]
  <2>1. /\ v \in Seq(Told) /\ Len(v) = Len(t) + Len(r)
        /\ \A i \in 1..Len(t) : v[i] = t[i]
        /\ \A i \in 1..Len(r) : v[Len(t) + i] = r[i]
    BY <1>11, Joined
  <2> QED
    BY <1>5, <1>10, <2>1
<1>13. \A i \in 1..m : v[i] = s[i]
  <2> TAKE i \in 1..m
  <2>1. CASE i <= g
    BY <1>5, <1>6, <1>9, <1>12, <2>1
  <2>2. CASE i > g
    <3>1. PICK j \in 1..l : j = i - g /\ i = g + j
      BY <1>6, <2>2
    <3>2. v[i] = r[j] /\ s[i] = r[j]
      BY <1>9, <1>10, <1>12, <3>1
    <3> QED
      BY <3>2
  <2> QED
    BY <2>1, <2>2
<1>14. s = v
  BY <1>6, <1>9, <1>12, <1>13, SameElements
<1> QED
  BY <1>1, <1>4, <1>7, <1>8, <1>11, <1>14

(* The lines of the tasks: those that compaction moves, then those it keeps. *)
LEMMA TaskLinesSplit ==
    ASSUME NEW h \in Histories
    PROVE  LET d == Compacted(h)
           IN  TaskLines(h, Len(h.user_tasks)) =
                  TaskLines(h, CompactUserCount(h)) \o TaskLines(d, Len(d.user_tasks))
<1>1. PICK d \in Histories : d = Compacted(h)
  BY CompactedSeqs
<1>2. PICK g \in Nat : g = CompactUserCount(h) /\ g \in 0..Len(h.user_tasks)
  BY UserCounts, HistoryParts
<1>3. /\ Len(d.user_tasks) = Len(h.user_tasks) - g
      /\ \A i \in 1..Len(d.user_tasks) : d.user_tasks[i] = h.user_tasks[g + i]
  BY <1>1, <1>2, CompactedSeqs
<1>4. PICK t \in Seq(Told) : t = TaskLines(h, g)
  BY <1>2, TaskLinesSeq
<1>5. Len(t) = g /\ \A i \in 1..g : t[i] = Line("user", h.user_tasks[i].turn, 0)
  BY <1>2, <1>4, TaskLinesSeq
<1>6. PICK m, l \in Nat : /\ m = Len(h.user_tasks) /\ l = Len(d.user_tasks) /\ m = g + l
                          /\ m \in 0..Len(h.user_tasks) /\ l \in 0..Len(d.user_tasks)
  <2>1. Len(h.user_tasks) \in Nat /\ Len(d.user_tasks) \in Nat
    BY HistoryParts
  <2>2. /\ Len(h.user_tasks) \in 0..Len(h.user_tasks) /\ Len(d.user_tasks) \in 0..Len(d.user_tasks)
        /\ Len(h.user_tasks) = g + Len(d.user_tasks)
    BY <1>2, <1>3, <2>1
  <2> QED
    BY <2>1, <2>2
<1>7. PICK s \in Seq(Told) : s = TaskLines(h, m)
  BY <1>6, TaskLinesSeq
<1>8. PICK r \in Seq(Told) : r = TaskLines(d, l)
  BY <1>6, TaskLinesSeq
<1>9. Len(s) = m /\ \A i \in 1..m : s[i] = Line("user", h.user_tasks[i].turn, 0)
  BY <1>6, <1>7, TaskLinesSeq
<1>10. Len(r) = l /\ \A i \in 1..l : r[i] = Line("user", h.user_tasks[g + i].turn, 0)
  BY <1>3, <1>6, <1>8, TaskLinesSeq, ZenonT(60)
<1>11. PICK v : v = t \o r
  OBVIOUS
<1>12. /\ v \in Seq(Told) /\ Len(v) = g + l
       /\ \A i \in 1..g : v[i] = t[i]
       /\ \A i \in 1..l : v[g + i] = r[i]
  <2>1. /\ v \in Seq(Told) /\ Len(v) = Len(t) + Len(r)
        /\ \A i \in 1..Len(t) : v[i] = t[i]
        /\ \A i \in 1..Len(r) : v[Len(t) + i] = r[i]
    BY <1>11, Joined
  <2> QED
    BY <1>5, <1>10, <2>1
<1>13. \A i \in 1..m : v[i] = s[i]
  <2> TAKE i \in 1..m
  <2>1. CASE i <= g
    BY <1>5, <1>6, <1>9, <1>12, <2>1
  <2>2. CASE i > g
    <3>1. PICK j \in 1..l : j = i - g /\ i = g + j
      BY <1>6, <2>2
    <3>2. v[i] = r[j] /\ s[i] = r[j]
      BY <1>9, <1>10, <1>12, <3>1
    <3> QED
      BY <3>2
  <2> QED
    BY <2>1, <2>2
<1>14. s = v
  BY <1>6, <1>9, <1>12, <1>13, SameElements
<1> QED
  BY <1>1, <1>2, <1>4, <1>6, <1>7, <1>8, <1>11, <1>14

(* The kind of a line.                                                      *)
LEMMA KindOf == \A kind, of, to : Line(kind, of, to).kind = kind
  BY DEF Line

(* The lines of the conversation are of its two kinds.                      *)
LEMMA UserLinesKinds ==
    ASSUME NEW h \in Histories
    PROVE  \A i \in 1..Len(UserLines(h)) : UserLines(h)[i].kind \in {"user", "answer"}
<1>1. \A i \in 1..Len(UserLines(h)) :
         \/ \E n : UserLines(h)[i] = Line("user", n, 0)
         \/ \E n, m : UserLines(h)[i] = Line("answer", n, m)
  BY UserLinesSeq
<1> QED
  BY <1>1, KindOf

(* Results move behind the lines of the conversation, tasks become lines    *)
(* of it.                                                                   *)
LEMMA MovedTools ==
    ASSUME NEW s \in Seq(Told), NEW u \in Seq(Told), NEW t \in Seq(Told), NEW k \in Seq(Told),
           Lacks("tool", u)
    PROVE  Alike("tool", s \o (t \o k), s \o u \o t \o k)
<1>0. (s \o t) \o k = s \o (t \o k)
  BY JoinAgain
<1>1. PICK x, y, z \in Seq(Told) : x = s \o u /\ y = x \o t /\ z = s \o t
  BY ConcatProperties
<1>2. Alike("tool", s, s) /\ Alike("tool", t, t) /\ Alike("tool", k, k) /\ Alike("tool", <<>>, u)
  BY AlikeSelf, AlikeNone
<1>3. Alike("tool", s \o <<>>, s \o u) /\ s \o <<>> = s
  BY <1>2, AlikeJoined, JoinNothing, Zenon
<1>4. Alike("tool", s \o t, x \o t)
  BY <1>1, <1>2, <1>3, AlikeJoined, Zenon
<1>5. Alike("tool", z \o k, y \o k)
  BY <1>1, <1>2, <1>4, AlikeJoined, Zenon
<1> QED
  BY <1>0, <1>1, <1>5

(* Lines of tasks that move into the summary stay before the later ones.    *)
LEMMA MovedTasks ==
    ASSUME NEW s \in Seq(Told), NEW u \in Seq(Told), NEW t \in Seq(Told), NEW p \in Seq(Told),
           NEW q \in Seq(Told), Lacks("user", t), Alike("user", p, u)
    PROVE  Alike("user", s \o (p \o q), s \o u \o t \o q)
<1>0. (s \o p) \o q = s \o (p \o q)
  BY JoinAgain, SMTT(40)
<1>1. PICK x, y, z \in Seq(Told) : x = s \o u /\ y = x \o t /\ z = s \o p
  BY ConcatProperties
<1>2. Alike("user", s, s) /\ Alike("user", q, q) /\ Alike("user", <<>>, t)
  BY AlikeSelf, AlikeNone
<1>3. Alike("user", s \o p, s \o u)
  BY <1>2, AlikeJoined, Zenon
<1>4. Alike("user", z \o <<>>, x \o t) /\ z \o <<>> = z
  BY <1>1, <1>2, <1>3, AlikeJoined, JoinNothing, Zenon
<1>5. Alike("user", z \o q, y \o q)
  BY <1>1, <1>2, <1>4, AlikeJoined, Zenon
<1> QED
  BY <1>0, <1>1, <1>5

(* Before the cut, the summary and what stays tell what was told.           *)
LEMMA MovedAlike ==
    ASSUME NEW h \in Histories
    PROVE  LET d == Compacted(h)
               all == h.compacted_summary \o UserLines(h) \o ToolLines(h)
           IN  /\ Alike("tool", ToldTools(h), all \o KeptLines(d))
               /\ Alike("user", ToldTasks(h), all \o TaskLines(d, Len(d.user_tasks)))
<1>1. PICK d \in Histories : d = Compacted(h)
  BY CompactedSeqs
<1>2. PICK s \in Seq(Told) : s = h.compacted_summary
  BY HistoryParts
<1>3. PICK u \in Seq(Told) : u = UserLines(h)
  BY UserLinesSeq
<1>4. PICK t \in Seq(Told) : t = ToolLines(h)
  BY ToolLinesSeq
<1>5. PICK k \in Seq(Told) : k = KeptLines(d)
  BY KeptLinesSeq
<1>6. PICK p \in Seq(Told) : p = TaskLines(h, CompactUserCount(h))
  BY TaskLinesSeq, UserCounts
<1>7. PICK q \in Seq(Told) : q = TaskLines(d, Len(d.user_tasks))
  BY AllTaskLines
<1>8. ToldTools(h) = s \o (t \o k)
  BY <1>1, <1>2, <1>4, <1>5, KeptLinesSplit DEF ToldTools, KeptLines
<1>9. ToldTasks(h) = s \o (p \o q)
  BY <1>1, <1>2, <1>6, <1>7, TaskLinesSplit DEF ToldTasks, TaskLines
<1>10. Lacks("tool", u) /\ Lacks("user", t)
  <2>1. \A i \in 1..Len(u) : u[i].kind # "tool"
    BY <1>3, UserLinesKinds
  <2>2. \A i \in 1..Len(t) : t[i].kind # "user"
    <3>1. \A i \in 1..Len(t) : \E n : t[i] = Line("tool", n, 0)
      BY <1>4, ToolLinesSeq
    <3> QED
      BY <3>1, KindOf
  <2> QED
    BY <2>1, <2>2 DEF Lacks
<1>11. Alike("tool", s \o (t \o k), s \o u \o t \o k)
  BY <1>10, MovedTools, Zenon
<1>12. Alike("user", p, u)
  BY <1>3, <1>6, UserLinesAlike
<1>13. Alike("user", s \o (p \o q), s \o u \o t \o q)
  BY <1>10, <1>12, MovedTasks, Zenon
<1> QED
  BY <1>1, <1>2, <1>3, <1>4, <1>5, <1>7, <1>8, <1>9, <1>11, <1>13

(* The cut takes the oldest lines, and then the summary is full.            *)
LEMMA CutFront ==
    ASSUME NEW kind, NEW x \in Seq(Told), NEW r \in Seq(Told), NEW n \in Nat, NEW y \in Seq(Told),
           y = Newest(x, n), NEW all, NEW room, NEW left \in Nat,
           left = n - Len(y), room = 0 => Len(x) >= n, NewestTold(kind, x \o r, all, room)
    PROVE  NewestTold(kind, y \o r, all, left)
<1>1. PICK a, b, c \in Nat : a = Len(x) /\ b = Len(r) /\ c = Len(y)
  OBVIOUS
<1>2. c = (IF a <= n THEN a ELSE n) /\ \A i \in 1..c : y[i] = x[a - c + i]
  <2>1. PICK z : z = Newest(x, n)
    OBVIOUS
  <2>2. /\ Len(z) = IF Len(x) <= n THEN Len(x) ELSE n
        /\ \A i \in 1..Len(z) : z[i] = x[Len(x) - Len(z) + i]
    BY <2>1, NewestSeq
  <2> QED
    BY <1>1, <2>1, <2>2
<1>3. PICK s : s = x \o r
  OBVIOUS
<1>4. PICK t : t = y \o r
  OBVIOUS
<1>5. /\ s \in Seq(Told) /\ Len(s) = a + b /\ \A i \in 1..a : s[i] = x[i]
      /\ \A i \in 1..b : s[a + i] = r[i]
  BY <1>1, <1>3, Joined
<1>6. /\ t \in Seq(Told) /\ Len(t) = c + b /\ \A i \in 1..c : t[i] = y[i]
      /\ \A i \in 1..b : t[c + i] = r[i]
  BY <1>1, <1>4, Joined
<1>7. CASE a <= n
  <2>1. y = x
    BY <1>1, <1>7 DEF Newest
  <2>2. room = 0 => left = 0
    BY <1>1, <1>2, <1>7
  <2>3. NewestTold(kind, t, all, room)
    BY <1>4, <2>1
  <2>4. NewestTold(kind, t, all, left)
    BY <2>2, <2>3 DEF NewestTold
  <2> QED
    BY <1>4, <2>4
<1>8. CASE a > n
  <2>0. a - c \in Nat /\ a - c <= Len(s) /\ Len(t) = Len(s) - (a - c)
    <3>1. c = n
      BY <1>1, <1>2, <1>8
    <3>2. Len(s) = a + b /\ Len(t) = c + b
      BY <1>5, <1>6
    <3> QED
      BY <1>8, <3>1, <3>2
  <2>1. PICK m \in Nat : m = a - c /\ m <= Len(s) /\ Len(t) = Len(s) - m
    BY <2>0
  <2>2. \A i \in 1..Len(t) : t[i] = s[m + i]
    <3> TAKE i \in 1..Len(t)
    <3>1. CASE i <= c
      <4>1. i \in 1..c /\ a - c + i = m + i /\ m + i \in 1..a
        BY <1>1, <1>2, <1>6, <1>8, <2>1, <3>1
      <4> QED
        BY <1>2, <1>5, <1>6, <4>1, ZenonT(60)
    <3>2. CASE i > c
      <4>1. i - c \in 1..b /\ i = c + (i - c) /\ m + i = a + (i - c)
        BY <1>1, <1>6, <2>1, <3>2
      <4>2. PICK j \in 1..b : j = i - c
        BY <4>1
      <4> QED
        BY <1>5, <1>6, <4>1, <4>2, ZenonT(60)
    <3> QED
      BY <3>1, <3>2
  <2>3. NewestTold(kind, s, all, room)
    BY <1>3
  <2>4. NewestTold(kind, t, all, 0)
    BY <1>5, <1>6, <2>1, <2>2, <2>3, CutTold
  <2>5. left = 0
    BY <1>1, <1>2, <1>8
  <2>6. NewestTold(kind, t, all, left)
    BY <2>4, <2>5 DEF NewestTold
  <2> QED
    BY <1>4, <2>6
<1> QED
  BY <1>1, <1>7, <1>8

(* A compaction forgets nothing but the oldest lines.                       *)
LEMMA CompactedTold ==
    ASSUME NEW h \in Histories, NEW tools, NEW tasks,
           Len(h.compacted_summary) <= SummaryLines,
           NewestTold("tool", ToldTools(h), tools, Room(h)),
           NewestTold("user", ToldTasks(h), tasks, Room(h))
    PROVE  LET d == Compacted(h)
           IN  /\ NewestTold("tool", ToldTools(d), tools, Room(d))
               /\ NewestTold("user", ToldTasks(d), tasks, Room(d))
<1>1. PICK d \in Histories : d = Compacted(h)
  BY CompactedSeqs
<1>2. PICK s, u, t \in Seq(Told) : s = h.compacted_summary /\ u = UserLines(h) /\ t = ToolLines(h)
  BY HistoryParts, UserLinesSeq, ToolLinesSeq
<1>3. PICK x \in Seq(Told) : x = s \o u \o t /\ Len(x) >= Len(s)
  <2>1. PICK w \in Seq(Told) : w = s \o u /\ Len(w) = Len(s) + Len(u)
    BY ConcatProperties
  <2>2. w \o t \in Seq(Told) /\ Len(w \o t) = Len(w) + Len(t)
    BY ConcatProperties
  <2>3. Len(w \o t) >= Len(s)
    BY <2>1, <2>2
  <2> QED
    BY <2>1, <2>2, <2>3
<1>4. PICK y \in Seq(Told) : y = d.compacted_summary /\ y = Newest(x, SummaryLines)
  BY <1>1, <1>2, <1>3, HistoryParts, CompactedFields
<1>5. PICK room : room = Room(h)
  OBVIOUS
<1>6. PICK left \in Nat : left = SummaryLines - Len(y) /\ left = Room(d)
  <2>1. Len(y) <= SummaryLines /\ SummaryLines \in Nat
    BY <1>1, <1>4, CompactedSeqs, ContextAssumption
  <2>2. Room(d) = SummaryLines - Len(y)
    BY <1>4 DEF Room
  <2>3. SummaryLines - Len(y) \in Nat
    BY <2>1
  <2> QED
    BY <2>2, <2>3
<1>7. SummaryLines \in Nat /\ (room = 0 => Len(x) >= SummaryLines)
  BY <1>2, <1>3, <1>5, ContextAssumption DEF Room
<1>8. NewestTold("tool", ToldTools(d), tools, left)
  <2>1. PICK r \in Seq(Told) : r = KeptLines(d)
    BY KeptLinesSeq
  <2>2. PICK q, v \in Seq(Told) : q = ToldTools(h) /\ v = x \o r
    BY <1>2, KeptLinesSeq, ConcatProperties DEF ToldTools, KeptLines
  <2>3. Alike("tool", q, v) /\ NewestTold("tool", q, tools, room)
    BY <1>1, <1>2, <1>3, <1>5, <2>1, <2>2, MovedAlike
  <2>4. NewestTold("tool", x \o r, tools, room)
    BY <2>2, <2>3, SameTold, Zenon
  <2>5. NewestTold("tool", y \o r, tools, left)
    BY <1>4, <1>6, <1>7, <2>4, CutFront, Zenon
  <2>6. ToldTools(d) = y \o r
    BY <1>4, <2>1 DEF ToldTools, KeptLines
  <2> QED
    BY <2>5, <2>6
<1>9. NewestTold("user", ToldTasks(d), tasks, left)
  <2>1. PICK r \in Seq(Told) : r = TaskLines(d, Len(d.user_tasks))
    BY AllTaskLines
  <2>2. PICK q, v \in Seq(Told) : q = ToldTasks(h) /\ v = x \o r
    <3>1. PICK p \in Seq(Told) : p = TaskLines(h, Len(h.user_tasks))
      BY AllTaskLines
    <3>2. ToldTasks(h) = s \o p
      BY <1>2, <3>1 DEF ToldTasks, TaskLines
    <3> QED
      BY <3>2, ConcatProperties
  <2>3. Alike("user", q, v) /\ NewestTold("user", q, tasks, room)
    BY <1>1, <1>2, <1>3, <1>5, <2>1, <2>2, MovedAlike
  <2>4. NewestTold("user", x \o r, tasks, room)
    BY <2>2, <2>3, SameTold, Zenon
  <2>5. NewestTold("user", y \o r, tasks, left)
    BY <1>4, <1>6, <1>7, <2>4, CutFront, Zenon
  <2>6. ToldTasks(d) = y \o r
    BY <1>4, <2>1 DEF ToldTasks, TaskLines
  <2> QED
    BY <2>5, <2>6
<1> QED
  BY <1>1, <1>6, <1>8, <1>9

(* Lines that tell the same are about turns that have begun, if those are.  *)
LEMMA SameBegun ==
    ASSUME NEW kind, NEW s \in Seq(Told), NEW t \in Seq(Told), NEW last,
           Alike(kind, s, t), Begun(kind, s, last)
    PROVE  Begun(kind, t, last)
  BY DEF Alike, Maps, Begun

(* What a cut leaves are lines of before.                                   *)
LEMMA CutLines ==
    ASSUME NEW x \in Seq(Told), NEW r \in Seq(Told), NEW n \in Nat
    PROVE  /\ \A i \in 1..Len(Newest(x, n)) : \E j \in 1..Len(x) : Newest(x, n)[i] = x[j]
           /\ \A i \in 1..Len(Newest(x, n) \o r) :
                 \E j \in 1..Len(x \o r) : (Newest(x, n) \o r)[i] = (x \o r)[j]
<1>1. PICK y : y = Newest(x, n)
  OBVIOUS
<1>2. y \in Seq(Told) /\ Len(y) <= Len(x) /\ \A i \in 1..Len(y) : y[i] = x[Len(x) - Len(y) + i]
  BY <1>1, NewestSeq
<1>3. PICK a, b, c \in Nat : a = Len(x) /\ b = Len(r) /\ c = Len(y) /\ c <= a
  BY <1>2
<1>4. \A i \in 1..c : a - c + i \in 1..a /\ y[i] = x[a - c + i]
  BY <1>2, <1>3
<1>5. PICK s, t : s = x \o r /\ t = y \o r
  OBVIOUS
<1>6. /\ s \in Seq(Told) /\ Len(s) = a + b /\ \A i \in 1..a : s[i] = x[i]
      /\ \A i \in 1..b : s[a + i] = r[i]
  BY <1>3, <1>5, Joined
<1>7. /\ t \in Seq(Told) /\ Len(t) = c + b /\ \A i \in 1..c : t[i] = y[i]
      /\ \A i \in 1..b : t[c + i] = r[i]
  BY <1>2, <1>3, <1>5, Joined
<1>8. ASSUME NEW i \in 1..c + b
      PROVE  \E j \in 1..a + b : t[i] = s[j]
  <2>1. CASE i <= c
    <3>1. i \in 1..c /\ a - c + i \in 1..a /\ a - c + i \in 1..a + b
      BY <1>3, <1>4, <2>1
    <3>2. t[i] = s[a - c + i]
      BY <1>4, <1>6, <1>7, <3>1
    <3> QED
      BY <3>1, <3>2
  <2>2. CASE i > c
    <3>1. PICK j \in 1..b : i = c + j
      <4>1. i - c \in 1..b /\ i = c + (i - c)
        BY <2>2
      <4> QED
        BY <4>1
    <3>2. a + j \in 1..a + b
      OBVIOUS
    <3>3. t[i] = r[j] /\ s[a + j] = r[j]
      BY <1>6, <1>7, <3>1
    <3> QED
      BY <3>2, <3>3
  <2> QED
    BY <2>1, <2>2
<1>9. \A i \in 1..Len(y) : \E j \in 1..Len(x) : y[i] = x[j]
  BY <1>3, <1>4
<1>10. \A i \in 1..Len(t) : \E j \in 1..Len(s) : t[i] = s[j]
  BY <1>6, <1>7, <1>8
<1> QED
  BY <1>1, <1>5, <1>9, <1>10

(* A compaction tells of nothing that is still to come.                     *)
LEMMA CutBegun ==
    ASSUME NEW kind, NEW x \in Seq(Told), NEW r \in Seq(Told), NEW n \in Nat, NEW last,
           Begun(kind, x \o r, last)
    PROVE  Begun(kind, Newest(x, n) \o r, last)
<1>1. PICK s, t : s = x \o r /\ t = Newest(x, n) \o r
  OBVIOUS
<1>2. \A i \in 1..Len(t) : \E j \in 1..Len(s) : t[i] = s[j]
  BY <1>1, CutLines
<1>3. \A j \in 1..Len(s) : s[j].kind = kind => s[j].of <= last
  BY <1>1 DEF Begun
<1>4. Begun(kind, t, last)
  BY <1>2, <1>3 DEF Begun
<1> QED
  BY <1>1, <1>4

(* compact_if_needed tells of no turn and no result still to come.          *)
LEMMA CompactedBegun ==
    ASSUME NEW h \in Histories, NEW tools, NEW tasks,
           Begun("tool", ToldTools(h), tools), Begun("user", ToldTasks(h), tasks)
    PROVE  LET d == Compacted(h)
           IN  Begun("tool", ToldTools(d), tools) /\ Begun("user", ToldTasks(d), tasks)
<1>1. PICK d \in Histories : d = Compacted(h)
  BY CompactedSeqs
<1>2. PICK s, u, t \in Seq(Told) : s = h.compacted_summary /\ u = UserLines(h) /\ t = ToolLines(h)
  BY HistoryParts, UserLinesSeq, ToolLinesSeq
<1>3. PICK x \in Seq(Told) : x = s \o u \o t
  BY ConcatProperties
<1>4. d.compacted_summary = Newest(x, SummaryLines) /\ SummaryLines \in Nat
  BY <1>1, <1>2, <1>3, CompactedFields, ContextAssumption
<1>8. Begun("tool", ToldTools(d), tools)
  <2>1. PICK r \in Seq(Told) : r = KeptLines(d)
    BY KeptLinesSeq
  <2>2. PICK q, v \in Seq(Told) : q = ToldTools(h) /\ v = x \o r
    BY <1>2, KeptLinesSeq, ConcatProperties DEF ToldTools, KeptLines
  <2>3. Alike("tool", q, v) /\ Begun("tool", q, tools)
    BY <1>1, <1>2, <1>3, <2>1, <2>2, MovedAlike
  <2>4. Begun("tool", x \o r, tools)
    BY <2>2, <2>3, SameBegun, Zenon
  <2>5. Begun("tool", Newest(x, SummaryLines) \o r, tools)
    BY <1>4, <2>4, CutBegun, Zenon
  <2>6. ToldTools(d) = Newest(x, SummaryLines) \o r
    BY <1>4, <2>1 DEF ToldTools, KeptLines
  <2> QED
    BY <2>5, <2>6
<1>9. Begun("user", ToldTasks(d), tasks)
  <2>1. PICK r \in Seq(Told) : r = TaskLines(d, Len(d.user_tasks))
    BY AllTaskLines
  <2>2. PICK q, v \in Seq(Told) : q = ToldTasks(h) /\ v = x \o r
    <3>1. PICK p \in Seq(Told) : p = TaskLines(h, Len(h.user_tasks))
      BY AllTaskLines
    <3>2. ToldTasks(h) = s \o p
      BY <1>2, <3>1 DEF ToldTasks, TaskLines
    <3> QED
      BY <3>2, ConcatProperties
  <2>3. Alike("user", q, v) /\ Begun("user", q, tasks)
    BY <1>1, <1>2, <1>3, <2>1, <2>2, MovedAlike
  <2>4. Begun("user", x \o r, tasks)
    BY <2>2, <2>3, SameBegun, Zenon
  <2>5. Begun("user", Newest(x, SummaryLines) \o r, tasks)
    BY <1>4, <2>4, CutBegun, Zenon
  <2>6. ToldTasks(d) = Newest(x, SummaryLines) \o r
    BY <1>4, <2>1 DEF ToldTasks, TaskLines
  <2> QED
    BY <2>5, <2>6
<1> QED
  BY <1>1, <1>8, <1>9

(* Tasks and answers of the same place belong together, and so do the lines *)
(* of an answer.                                                            *)
Together(h) ==
    \A i \in 1..Len(h.user_tasks) :
        i <= Len(h.assistant_finals) => h.assistant_finals[i] = h.user_tasks[i].turn
LineTogether(line) == line.kind = "answer" => line.of = line.to
AllTogether(lines) == \A i \in 1..Len(lines) : LineTogether(lines[i])

(* A compaction keeps them so.                                              *)
LEMMA UserLinesTogether ==
    ASSUME NEW h \in Histories, Together(h)
    PROVE  AllTogether(UserLines(h))
<1>1. PICK n \in 0..Len(h.user_tasks) : n = CompactUserCount(h)
  BY UserCounts
<1>2. PICK a \in 0..n : a = AnswerCount(h) /\ a <= Len(h.assistant_finals)
  BY <1>1, UserCounts
<1>3. Len(h.user_tasks) \in Nat /\ Len(h.assistant_finals) \in Nat
  BY HistoryParts
<1>4. \A i \in 1..Len(UserLines(h)) :
         \/ \E k : UserLines(h)[i] = Line("user", k, 0)
         \/ \E k \in 1..a : UserLines(h)[i] = Line("answer", h.assistant_finals[k], h.user_tasks[k].turn)
  BY <1>1, <1>2, UserLinesSeq
<1>5. \A k \in 1..a : h.assistant_finals[k] = h.user_tasks[k].turn
  BY <1>1, <1>2, <1>3 DEF Together
<1>6. \A i \in 1..Len(UserLines(h)) :
         \/ \E k : UserLines(h)[i] = Line("user", k, 0)
         \/ \E k : UserLines(h)[i] = Line("answer", k, k)
  BY <1>4, <1>5
<1>7. /\ \A k : LineTogether(Line("user", k, 0))
      /\ \A k : LineTogether(Line("answer", k, k))
  BY DEF LineTogether, Line
<1> QED
  BY <1>6, <1>7 DEF AllTogether

(* The lines of tools tell an answer and its task together.                 *)
LEMMA ToolLinesTogether ==
    ASSUME NEW h \in Histories
    PROVE  AllTogether(ToolLines(h))
<1>1. \A i \in 1..Len(ToolLines(h)) : \E k : ToolLines(h)[i] = Line("tool", k, 0)
  BY ToolLinesSeq
<1>2. \A k : LineTogether(Line("tool", k, 0))
  BY DEF LineTogether, Line
<1> QED
  BY <1>1, <1>2 DEF AllTogether

(* Pairs of an answer and its task stay pairs when lines are joined.        *)
LEMMA JoinedTogether ==
    ASSUME NEW s \in Seq(Told), NEW t \in Seq(Told), AllTogether(s), AllTogether(t)
    PROVE  AllTogether(s \o t)
<1>1. PICK a, b \in Nat : a = Len(s) /\ b = Len(t)
  OBVIOUS
<1>2. PICK v : v = s \o t
  OBVIOUS
<1>3. /\ Len(v) = a + b /\ \A i \in 1..a : v[i] = s[i]
      /\ \A i \in 1..b : v[a + i] = t[i]
  BY <1>1, <1>2, Joined
<1>4. \A i \in 1..a : LineTogether(s[i])
  BY <1>1 DEF AllTogether
<1>5. \A i \in 1..b : LineTogether(t[i])
  BY <1>1 DEF AllTogether
<1>6. ASSUME NEW i \in 1..a + b
      PROVE  LineTogether(v[i])
  <2>1. CASE i <= a
    <3>1. i \in 1..a
      BY <2>1
    <3> QED
      BY <1>3, <1>4, <3>1
  <2>2. CASE i > a
    <3>1. i - a \in 1..b /\ i = a + (i - a)
      BY <2>2
    <3>2. PICK j \in 1..b : i = a + j
      BY <3>1
    <3> QED
      BY <1>3, <1>5, <3>2
  <2> QED
    BY <2>1, <2>2
<1>7. AllTogether(v)
  BY <1>3, <1>6 DEF AllTogether
<1> QED
  BY <1>2, <1>7

(* compact_if_needed keeps an answer beside its task.                       *)
LEMMA CompactedTogether ==
    ASSUME NEW h \in Histories, Together(h), AllTogether(h.compacted_summary)
    PROVE  Together(Compacted(h)) /\ AllTogether(Compacted(h).compacted_summary)
<1>1. PICK d \in Histories : d = Compacted(h)
  BY CompactedSeqs
<1>2. PICK s, u, t \in Seq(Told) : s = h.compacted_summary /\ u = UserLines(h) /\ t = ToolLines(h)
  BY HistoryParts, UserLinesSeq, ToolLinesSeq
<1>3. PICK w \in Seq(Told) : w = s \o u
  BY ConcatProperties
<1>4. PICK x \in Seq(Told) : x = w \o t
  BY ConcatProperties
<1>5. AllTogether(s) /\ AllTogether(u) /\ AllTogether(t)
  BY <1>2, UserLinesTogether, ToolLinesTogether
<1>6. AllTogether(w)
  BY <1>3, <1>5, JoinedTogether
<1>7. AllTogether(x)
  BY <1>4, <1>5, <1>6, JoinedTogether
<1>8. d.compacted_summary = Newest(x, SummaryLines) /\ SummaryLines \in Nat
  BY <1>1, <1>2, <1>3, <1>4, CompactedFields, ContextAssumption
<1>9. \A i \in 1..Len(Newest(x, SummaryLines)) : \E j \in 1..Len(x) : Newest(x, SummaryLines)[i] = x[j]
  BY <1>8, CutLines
<1>10. AllTogether(d.compacted_summary)
  BY <1>7, <1>8, <1>9 DEF AllTogether
<1>11. Together(d)
  <2>1. PICK c \in 0..Len(h.user_tasks) : c = CompactUserCount(h)
    BY UserCounts
  <2>2. PICK m, l, p, q \in Nat : /\ m = Len(h.user_tasks) /\ l = Len(h.assistant_finals)
                                  /\ p = Len(d.user_tasks) /\ q = Len(d.assistant_finals)
    <3>1. /\ Len(h.user_tasks) \in Nat /\ Len(h.assistant_finals) \in Nat
          /\ Len(d.user_tasks) \in Nat /\ Len(d.assistant_finals) \in Nat
      BY HistoryParts
    <3> QED
      BY <3>1
  <2>3. /\ p = m - c /\ \A i \in 1..p : d.user_tasks[i] = h.user_tasks[c + i]
        /\ q = (IF l <= c THEN 0 ELSE l - c)
        /\ \A i \in 1..q : d.assistant_finals[i] = h.assistant_finals[c + i]
    BY <1>1, <2>1, <2>2, CompactedSeqs
  <2>4. \A i \in 1..m : i <= l => h.assistant_finals[i] = h.user_tasks[i].turn
    BY <2>2 DEF Together
  <2>5. ASSUME NEW i \in 1..p, i <= q
        PROVE  d.assistant_finals[i] = d.user_tasks[i].turn
    <3>1. i \in 1..q /\ c + i \in 1..m /\ c + i <= l
      <4>1. c \in 0..m /\ p = m - c /\ q = (IF l <= c THEN 0 ELSE l - c)
        BY <2>1, <2>2, <2>3
      <4> QED
        BY <2>5, <4>1
    <3> QED
      BY <2>3, <2>4, <3>1
  <2> QED
    BY <2>2, <2>5 DEF Together
<1> QED
  BY <1>1, <1>10, <1>11

(* What holds of a history after n results and m turns: it tells all of     *)
(* them, and nothing that is still to come.                                 *)
Sound(h, n, m, tasks) ==
    /\ h \in Histories /\ Len(h.compacted_summary) <= SummaryLines
    /\ NewestTold("tool", ToldTools(h), 1..n, Room(h)) /\ NewestTold("user", ToldTasks(h), tasks, Room(h))
    /\ Begun("tool", ToldTools(h), n) /\ Begun("user", ToldTasks(h), m)
Limits(h, n, m) ==
    /\ \A i \in 1..Len(h.user_tasks) : h.user_tasks[i].turn <= m
    /\ \A i \in 1..Len(h.assistant_finals) : h.assistant_finals[i] <= m
    /\ \A i \in 1..Len(h.tool_turns) : h.tool_turns[i].n <= n
    /\ Len(h.tool_turns) <= n
(* Tasks and answers match when k answers, to turn m, are still owed.       *)
Settled(h, m, k) ==
    /\ Together(h) /\ AllTogether(h.compacted_summary)
    /\ Len(h.assistant_finals) + k = Len(h.user_tasks)
    /\ k = 1 => h.user_tasks[Len(h.user_tasks)].turn = m

(* A compaction keeps all of that.                                          *)
LEMMA CompactedSound ==
    ASSUME NEW h, NEW n, NEW m, NEW tasks, Sound(h, n, m, tasks)
    PROVE  Sound(Compacted(h), n, m, tasks)
<1>1. h \in Histories
  BY DEF Sound
<1>2. PICK d \in Histories : d = Compacted(h) /\ Len(d.compacted_summary) <= SummaryLines
  BY <1>1, CompactedSeqs
<1>3. /\ NewestTold("tool", ToldTools(d), 1..n, Room(d))
      /\ NewestTold("user", ToldTasks(d), tasks, Room(d))
  <2>1. PICK tools : tools = 1..n
    OBVIOUS
  <2>2. /\ Len(h.compacted_summary) <= SummaryLines
        /\ NewestTold("tool", ToldTools(h), tools, Room(h))
        /\ NewestTold("user", ToldTasks(h), tasks, Room(h))
    BY <2>1 DEF Sound
  <2>3. /\ NewestTold("tool", ToldTools(d), tools, Room(d))
        /\ NewestTold("user", ToldTasks(d), tasks, Room(d))
    BY <1>1, <1>2, <2>2, CompactedTold
  <2> QED
    BY <2>1, <2>3
<1>4. Begun("tool", ToldTools(h), n) /\ Begun("user", ToldTasks(h), m)
  BY DEF Sound
<1>5. Begun("tool", ToldTools(d), n) /\ Begun("user", ToldTasks(d), m)
  BY <1>1, <1>2, <1>4, CompactedBegun
<1> QED
  BY <1>2, <1>3, <1>5 DEF Sound

(* compact_if_needed keeps the limits and the last task.                    *)
LEMMA CompactedLimits ==
    ASSUME NEW h \in Histories, NEW n \in Nat, NEW m \in Nat, Limits(h, n, m)
    PROVE  LET d == Compacted(h)
           IN  /\ Limits(d, n, m) /\ Len(d.tool_turns) <= KeepToolCount
               /\ h.user_tasks # <<>> => d.user_tasks # <<>>
<1>1. PICK d \in Histories : d = Compacted(h) /\ Len(d.tool_turns) <= KeepToolCount
  BY CompactedSeqs
<1>2. PICK c, g \in Nat : /\ c = CompactUserCount(h) /\ c \in 0..Len(h.user_tasks)
                          /\ g = ToolsGone(h) /\ g \in 0..Len(h.tool_turns)
  <2>1. Len(h.user_tasks) \in Nat /\ Len(h.tool_turns) \in Nat
    BY HistoryParts
  <2>2. CompactUserCount(h) \in 0..Len(h.user_tasks) /\ ToolsGone(h) \in 0..Len(h.tool_turns)
    BY UserCounts, ToolLinesSeq
  <2>3. CompactUserCount(h) \in Nat /\ ToolsGone(h) \in Nat
    BY <2>1, <2>2
  <2> QED
    BY <2>2, <2>3
<1>3. /\ Len(h.user_tasks) \in Nat /\ Len(h.assistant_finals) \in Nat /\ Len(h.tool_turns) \in Nat
      /\ Len(d.user_tasks) \in Nat /\ Len(d.assistant_finals) \in Nat /\ Len(d.tool_turns) \in Nat
  BY HistoryParts
<1>4. /\ Len(d.user_tasks) = Len(h.user_tasks) - c
      /\ \A i \in 1..Len(d.user_tasks) : d.user_tasks[i] = h.user_tasks[c + i]
      /\ Len(d.assistant_finals) = IF Len(h.assistant_finals) <= c THEN 0
                                   ELSE Len(h.assistant_finals) - c
      /\ \A i \in 1..Len(d.assistant_finals) : d.assistant_finals[i] = h.assistant_finals[c + i]
      /\ Len(d.tool_turns) = Len(h.tool_turns) - g
      /\ \A i \in 1..Len(d.tool_turns) : d.tool_turns[i] = h.tool_turns[g + i]
  BY <1>1, <1>2, CompactedSeqs
<1>5. ASSUME NEW i \in 1..Len(d.user_tasks)
      PROVE  d.user_tasks[i].turn <= m
  <2>1. c + i \in 1..Len(h.user_tasks)
    BY <1>2, <1>3, <1>4, SMTT(40)
  <2>2. h.user_tasks[c + i].turn <= m
    BY <2>1 DEF Limits
  <2> QED
    BY <1>4, <2>2
<1>6. ASSUME NEW i \in 1..Len(d.assistant_finals)
      PROVE  d.assistant_finals[i] <= m
  <2>1. c + i \in 1..Len(h.assistant_finals)
    BY <1>2, <1>3, <1>4, SMTT(40)
  <2>2. h.assistant_finals[c + i] <= m
    BY <2>1 DEF Limits
  <2> QED
    BY <1>4, <2>2
<1>7. ASSUME NEW i \in 1..Len(d.tool_turns)
      PROVE  d.tool_turns[i].n <= n
  <2>1. g + i \in 1..Len(h.tool_turns)
    BY <1>2, <1>3, <1>4, SMTT(40)
  <2>2. h.tool_turns[g + i].n <= n
    BY <2>1 DEF Limits
  <2> QED
    BY <1>4, <2>2
<1>8. Len(d.tool_turns) <= n
  <2>1. Len(h.tool_turns) <= n
    BY DEF Limits
  <2> QED
    BY <1>2, <1>3, <1>4, <2>1
<1>9. h.user_tasks # <<>> => d.user_tasks # <<>>
  <2>1. h.user_tasks # <<>> => Len(d.user_tasks) = 1
    <3>1. h.user_tasks # <<>> => c = Len(h.user_tasks) - 1
      BY <1>2, UserCounts
    <3> QED
      BY <1>2, <1>3, <1>4, <3>1
  <2> QED
    BY <2>1
<1> QED
  BY <1>1, <1>5, <1>6, <1>7, <1>8, <1>9 DEF Limits

(* compact_if_needed keeps as many answers as tasks, but for the open one.  *)
LEMMA CompactedSettled ==
    ASSUME NEW h \in Histories, NEW m, NEW k \in {0, 1}, Settled(h, m, k)
    PROVE  Settled(Compacted(h), m, k)
<1>1. PICK d \in Histories : d = Compacted(h)
  BY CompactedSeqs
<1>2. Together(d) /\ AllTogether(d.compacted_summary)
  BY <1>1, CompactedTogether DEF Settled
<1>3. PICK t, f, p, q \in Nat : /\ t = Len(h.user_tasks) /\ f = Len(h.assistant_finals)
                                /\ p = Len(d.user_tasks) /\ q = Len(d.assistant_finals)
  <2>1. /\ Len(h.user_tasks) \in Nat /\ Len(h.assistant_finals) \in Nat
        /\ Len(d.user_tasks) \in Nat /\ Len(d.assistant_finals) \in Nat
    BY HistoryParts
  <2> QED
    BY <2>1
<1>4. PICK c \in 0..t : c = CompactUserCount(h) /\ c = IF t = 0 THEN 0 ELSE t - 1
  <2>1. h.user_tasks \in Seq(Asked) /\ (h.user_tasks = <<>> <=> t = 0)
    BY <1>3, HistoryParts
  <2>2. CompactUserCount(h) \in 0..t
    BY <1>3, UserCounts
  <2>3. CompactUserCount(h) = IF t = 0 THEN 0 ELSE t - 1
    BY <1>3, <2>1, UserCounts
  <2> QED
    BY <2>2, <2>3
<1>5. /\ p = t - c /\ q = (IF f <= c THEN 0 ELSE f - c)
      /\ \A i \in 1..p : d.user_tasks[i] = h.user_tasks[c + i]
  <2>1. /\ Len(d.user_tasks) = Len(h.user_tasks) - c
        /\ \A i \in 1..Len(d.user_tasks) : d.user_tasks[i] = h.user_tasks[c + i]
        /\ Len(d.assistant_finals) = IF Len(h.assistant_finals) <= c THEN 0
                                     ELSE Len(h.assistant_finals) - c
    <3>1. c = CompactUserCount(h)
      BY <1>4
    <3> QED
      BY <1>1, <3>1, CompactedSeqs
  <2>2. p = t - c
    BY <1>3, <2>1
  <2>3. q = IF f <= c THEN 0 ELSE f - c
    BY <1>3, <2>1
  <2>4. \A i \in 1..p : d.user_tasks[i] = h.user_tasks[c + i]
    BY <1>3, <2>1
  <2> QED
    BY <2>2, <2>3, <2>4
<1>6. f + k = t /\ (k = 1 => h.user_tasks[t].turn = m)
  BY <1>3 DEF Settled
<1>7. q + k = p /\ (k = 1 => p \in 1..p /\ c + p = t)
  <2>1. p = t - c /\ q = (IF f <= c THEN 0 ELSE f - c) /\ f + k = t
    BY <1>5, <1>6
  <2>2. CASE t = 0
    BY <1>4, <2>1, <2>2
  <2>3. CASE t # 0 /\ k = 0
    BY <1>4, <2>1, <2>3
  <2>4. CASE t # 0 /\ k = 1
    BY <1>4, <2>1, <2>4
  <2> QED
    BY <2>2, <2>3, <2>4
<1>8. k = 1 => d.user_tasks[p].turn = m
  BY <1>5, <1>6, <1>7
<1> QED
  BY <1>1, <1>2, <1>3, <1>7, <1>8 DEF Settled

(* The invariant, sorted by what an action disturbs.                        *)
Owed == IF stage = "idle" THEN 0 ELSE 1
Counters ==
    /\ userTurn \in 0..MaxUserTurns /\ results \in 0..MaxResults
    /\ stage \in {"idle", "build", "decide"}
    /\ repeated \subseteq 1..userTurn /\ unanswered \in BOOLEAN /\ compactedAt \in 0..results
    /\ stage # "idle" => history.user_tasks # <<>>
HiddenPart == hidden \in 0..Len(history.tool_turns) /\ HiddenIsBounded
AnswerPart == unanswered \/ repeated # {} \/ Settled(history, userTurn, Owed)
FilePart == artifacts \in [ArtifactName -> 0..results] /\ ArtifactIsKept /\ InPlace
SoundPart == Sound(history, results, userTurn, 1..userTurn \ repeated)
LimitPart == Limits(history, results, userTurn)
ContextParts == Counters /\ HiddenPart /\ AnswerPart /\ FilePart /\ SoundPart /\ LimitPart

(* The domain of a sequence.                                                *)
LEMMA DomainIsLen == \A S : \A s \in Seq(S) : DOMAIN s = 1..Len(s)
  OBVIOUS

(* The invariant has these parts, ...                                       *)
LEMMA PartsGive ==
    ASSUME ContextParts
    PROVE  ContextInv
<1>0. /\ Counters /\ HiddenPart /\ AnswerPart /\ FilePart /\ SoundPart /\ LimitPart
  BY DEF ContextParts
<1>1. PICK h \in Histories : h = history
  BY <1>0 DEF SoundPart, Sound
<1>2. /\ DOMAIN h.user_tasks = 1..Len(h.user_tasks)
      /\ DOMAIN h.assistant_finals = 1..Len(h.assistant_finals)
      /\ DOMAIN h.tool_turns = 1..Len(h.tool_turns)
      /\ DOMAIN h.compacted_summary = 1..Len(h.compacted_summary)
  BY HistoryParts, DomainIsLen
<1>3. ContextTypeOK
  <2>1. history \in Histories /\ Len(history.compacted_summary) <= SummaryLines
    BY <1>0 DEF SoundPart, Sound
  <2>2. /\ \A i \in DOMAIN history.user_tasks : history.user_tasks[i].turn <= userTurn
        /\ \A i \in DOMAIN history.assistant_finals : history.assistant_finals[i] <= userTurn
        /\ Len(history.tool_turns) <= results
    BY <1>0, <1>1, <1>2 DEF LimitPart, Limits
  <2>3. /\ userTurn \in 0..MaxUserTurns /\ results \in 0..MaxResults
        /\ stage \in {"idle", "build", "decide"}
        /\ repeated \subseteq 1..userTurn /\ unanswered \in BOOLEAN /\ compactedAt \in 0..results
        /\ stage # "idle" => history.user_tasks # <<>>
    BY <1>0, Zenon DEF Counters
  <2>4. hidden \in 0..Len(history.tool_turns) /\ artifacts \in [ArtifactName -> 0..results]
    BY <1>0, Zenon DEF HiddenPart, FilePart
  <2> QED
    BY <2>1, <2>2, <2>3, <2>4, Zenon DEF ContextTypeOK
<1>4. PromptIsWhole /\ InNumber
  BY <1>0, Zenon DEF PromptIsWhole, HistoryIsWhole, InNumber, SoundPart, Sound, HiddenPart
<1>5. AnswersArePaired /\ InPairs
  <2>1. CASE unanswered \/ repeated # {}
    BY <2>1 DEF AnswersArePaired, InPairs
  <2>2. CASE Settled(history, userTurn, Owed)
    <3>1. Together(h) /\ AllTogether(h.compacted_summary)
      BY <1>1, <2>2 DEF Settled
    <3>2. /\ Len(h.assistant_finals) + Owed = Len(h.user_tasks)
          /\ Owed = 1 => h.user_tasks[Len(h.user_tasks)].turn = userTurn
      BY <1>1, <2>2 DEF Settled
    <3>3. /\ \A i \in DOMAIN h.user_tasks \cap DOMAIN h.assistant_finals :
                h.assistant_finals[i] = h.user_tasks[i].turn
      <4> SUFFICES ASSUME NEW i, i \in 1..Len(h.user_tasks), i \in 1..Len(h.assistant_finals)
                   PROVE  h.assistant_finals[i] = h.user_tasks[i].turn
        BY <1>2
      <4>1. i <= Len(h.assistant_finals)
        BY HistoryParts
      <4> QED
        BY <3>1, <4>1 DEF Together
    <3>4. \A i \in DOMAIN h.compacted_summary :
             h.compacted_summary[i].kind = "answer" => h.compacted_summary[i].of = h.compacted_summary[i].to
      BY <1>2, <3>1, Zenon DEF AllTogether, LineTogether
    <3>5. AnswersArePaired
      BY <1>1, <3>3, <3>4, Zenon DEF AnswersArePaired
    <3>6. InPairs
      <4>1. Len(h.assistant_finals) \in Nat
        BY HistoryParts
      <4>2. CASE stage = "idle"
        <5>1. Len(h.assistant_finals) = Len(h.user_tasks)
          BY <3>2, <4>1, <4>2 DEF Owed
        <5> QED
          BY <1>1, <4>2, <5>1, Zenon DEF InPairs
      <4>3. CASE stage # "idle"
        <5>1. /\ Len(h.assistant_finals) + 1 = Len(h.user_tasks)
              /\ h.user_tasks[Len(h.user_tasks)].turn = userTurn
          BY <3>2, <4>3 DEF Owed
        <5> QED
          BY <1>1, <4>3, <5>1, Zenon DEF InPairs
      <4> QED
        BY <4>2, <4>3
    <3> QED
      BY <3>5, <3>6
  <2> QED
    BY <1>0, <2>1, <2>2 DEF AnswerPart
<1>6. ArtifactIsKept /\ InPlace
  BY <1>0, Zenon DEF FilePart
<1> QED
  BY <1>3, <1>4, <1>5, <1>6, Zenon DEF ContextInv

(* At the start there is nothing to tell.                                   *)
LEMMA ContextStarts ==
    ASSUME ContextInit
    PROVE  ContextParts
<1>1. /\ EmptyHistory.user_tasks = <<>> /\ EmptyHistory.assistant_finals = <<>>
      /\ EmptyHistory.tool_turns = <<>> /\ EmptyHistory.compacted_summary = <<>>
  BY DEF EmptyHistory
<1>2. EmptyHistory \in Histories
  BY DEF EmptyHistory, Histories
<1>3. PICK h \in Histories : h = EmptyHistory
  BY <1>2
<1>4. ToldTools(h) = <<>> /\ ToldTasks(h) = <<>>
  <2>1. [i \in 1..0 |-> Line("tool", h.tool_turns[i].n, 0)] = <<>>
    OBVIOUS
  <2>2. [i \in 1..0 |-> Line("user", h.user_tasks[i].turn, 0)] = <<>>
    OBVIOUS
  <2>3. Len(h.tool_turns) = 0 /\ Len(h.user_tasks) = 0 /\ h.compacted_summary = <<>>
    BY <1>1, <1>3
  <2>4. <<>> \o <<>> = <<>>
    OBVIOUS
  <2> QED
    BY <2>1, <2>2, <2>3, <2>4 DEF ToldTools, ToldTasks
<1>5. Sound(h, 0, 0, 1..0 \ {})
  <2>1. Len(h.compacted_summary) <= SummaryLines
    BY <1>1, <1>3, ContextAssumption
  <2>2. \A room : /\ NewestTold("tool", <<>>, 1..0, room)
                  /\ NewestTold("user", <<>>, 1..0 \ {}, room)
    BY DEF NewestTold
  <2>3. Begun("tool", <<>>, 0) /\ Begun("user", <<>>, 0)
    BY DEF Begun
  <2> QED
    BY <1>3, <1>4, <2>1, <2>2, <2>3 DEF Sound
<1>6. Limits(h, 0, 0) /\ Settled(h, 0, 0)
  BY <1>1, <1>3 DEF Limits, Settled, Together, AllTogether
<1>7. history = h
  BY <1>3 DEF ContextInit
<1>8. Counters
  <2>1. unanswered \in BOOLEAN
    BY Zenon DEF ContextInit
  <2>2. /\ userTurn = 0 /\ results = 0 /\ stage = "idle" /\ repeated = {} /\ compactedAt = 0
    BY Zenon DEF ContextInit
  <2>3. /\ userTurn \in 0..MaxUserTurns /\ results \in 0..MaxResults
        /\ repeated \subseteq 1..userTurn /\ compactedAt \in 0..results
    BY <2>2, ContextAssumption
  <2> QED
    BY <2>1, <2>2, <2>3, Zenon DEF Counters
<1>9. HiddenPart
  BY <1>1 DEF HiddenPart, HiddenIsBounded, ContextInit
<1>10. AnswerPart
  BY <1>6, <1>7 DEF AnswerPart, ContextInit, Owed
<1>11. FilePart
  BY <1>1 DEF FilePart, ArtifactIsKept, InPlace, ContextInit
<1>12. SoundPart /\ LimitPart
  BY <1>5, <1>6, <1>7 DEF SoundPart, LimitPart, ContextInit
<1> QED
  BY <1>8, <1>9, <1>10, <1>11, <1>12, Zenon DEF ContextParts

(* The parts, as facts about h, before an action.                           *)
LEMMA PartsHave ==
    ASSUME ContextParts
    PROVE  /\ history \in Histories /\ results \in Nat /\ userTurn \in Nat /\ compactedAt \in Nat
           /\ results <= MaxResults /\ userTurn <= MaxUserTurns /\ MaxResults \in Nat /\ MaxUserTurns \in Nat
           /\ Sound(history, results, userTurn, 1..userTurn \ repeated)
           /\ Limits(history, results, userTurn) /\ repeated \subseteq 1..userTurn
           /\ compactedAt <= results /\ stage \in {"idle", "build", "decide"} /\ Owed \in {0, 1}
<1>1. Counters /\ SoundPart /\ LimitPart
  BY DEF ContextParts
<1>2. /\ history \in Histories /\ Sound(history, results, userTurn, 1..userTurn \ repeated)
      /\ Limits(history, results, userTurn)
  BY <1>1 DEF SoundPart, LimitPart, Sound
<1>3. /\ userTurn \in 0..MaxUserTurns /\ results \in 0..MaxResults
      /\ repeated \subseteq 1..userTurn /\ compactedAt \in 0..results
      /\ stage \in {"idle", "build", "decide"}
  BY <1>1, Zenon DEF Counters
<1>4. Owed \in {0, 1}
  BY DEF Owed
<1> QED
  BY <1>2, <1>3, <1>4, ContextAssumption

(* After a compaction, at this moment, no file is owed to anyone.           *)
LEMMA CompactedFiles ==
    ASSUME ContextParts, LimitPart', UNCHANGED artifacts, results' = results, compactedAt' = results,
           history' \in Histories
    PROVE  FilePart'
<1>1. artifacts' \in [ArtifactName -> 0..results']
  BY DEF ContextParts, FilePart
<1>2. \A i \in 1..Len(history'.tool_turns) : ~(history'.tool_turns[i].n > compactedAt')
  <2>1. PICK h \in Histories : h = history'
    OBVIOUS
  <2>2. \A i \in 1..Len(h.tool_turns) : h.tool_turns[i].n \in Nat /\ h.tool_turns[i].n <= results
    BY <2>1, HistoryParts DEF LimitPart, Limits
  <2> QED
    BY <2>1, <2>2, PartsHave
<1>3. DOMAIN history'.tool_turns = 1..Len(history'.tool_turns)
  <2>1. PICK h \in Histories : h = history'
    OBVIOUS
  <2> QED
    BY <2>1, HistoryParts, DomainIsLen
<1>4. ArtifactIsKept'
  BY <1>2, <1>3, Zenon DEF ArtifactIsKept
<1>5. InPlace'
  BY <1>2, Zenon DEF InPlace
<1> QED
  BY <1>1, <1>4, <1>5, Zenon DEF FilePart

(* /compact.                                                                *)
LEMMA CompactKeeps ==
    ASSUME ContextParts, Compact
    PROVE  ContextParts'
<1>0. /\ stage = "idle" /\ history' = Compacted(history) /\ compactedAt' = results /\ hidden' = 0
      /\ artifacts' = artifacts /\ stage' = stage /\ userTurn' = userTurn /\ results' = results
      /\ repeated' = repeated /\ unanswered' = unanswered
  BY DEF Compact
<1>1. PICK h \in Histories : h = history
  BY PartsHave
<1>2. PICK d \in Histories : d = Compacted(h) /\ d = history'
  BY <1>0, <1>1, CompactedSeqs
<1>3. SoundPart'
  <2>1. Sound(d, results, userTurn, 1..userTurn \ repeated)
    BY <1>1, <1>2, PartsHave, CompactedSound
  <2> QED
    BY <1>0, <1>2, <2>1 DEF SoundPart
<1>4. Limits(d, results, userTurn)
  BY <1>1, <1>2, PartsHave, CompactedLimits
<1>5. LimitPart'
  BY <1>0, <1>2, <1>4 DEF LimitPart
<1>6. Counters'
  <2>1. Counters
    BY DEF ContextParts
  <2> QED
    BY <1>0, <2>1, PartsHave DEF Counters
<1>7. HiddenPart'
  <2>1. Len(d.tool_turns) \in Nat
    BY HistoryParts
  <2> QED
    BY <1>0, <1>2, <2>1 DEF HiddenPart, HiddenIsBounded
<1>8. AnswerPart'
  <2>1. Owed' = Owed /\ Owed \in {0, 1}
    BY <1>0 DEF Owed
  <2>2. CASE Settled(history, userTurn, Owed)
    <3>1. Settled(d, userTurn, Owed)
      BY <1>1, <1>2, <2>1, <2>2, CompactedSettled
    <3> QED
      BY <1>0, <1>2, <2>1, <3>1 DEF AnswerPart
  <2>3. CASE unanswered \/ repeated # {}
    BY <1>0, <2>3 DEF AnswerPart
  <2> QED
    BY <2>2, <2>3 DEF ContextParts, AnswerPart
<1>9. FilePart'
  BY <1>0, <1>2, <1>5, CompactedFiles
<1> QED
  BY <1>3, <1>5, <1>6, <1>7, <1>8, <1>9, Zenon DEF ContextParts

(* build_messages compacts not at all, once or twice.                       *)
LEMMA BuiltHistory ==
    ASSUME ContextParts, NEW fits \in BOOLEAN, NEW nowFits \in BOOLEAN, BuildMessages(fits, nowFits)
    PROVE  /\ \/ /\ history' = history /\ compactedAt' = compactedAt
                 /\ Len(history.tool_turns) <= auto_compact_tool_turns
                 /\ hidden' = Unshown(history, recent_tool_turns)
              \/ /\ compactedAt' = results
                 /\ history' = Compacted(history) \/ history' = Compacted(Compacted(history))
                 /\ hidden' \in {Unshown(history', recent_tool_turns), Unshown(history', KeepToolCount)}
           /\ stage = "build" /\ stage' = "decide"
           /\ artifacts' = artifacts /\ userTurn' = userTurn /\ results' = results
           /\ repeated' = repeated /\ unanswered' = unanswered
<1>0. /\ stage = "build" /\ stage' = "decide"
      /\ artifacts' = artifacts /\ userTurn' = userTurn /\ results' = results
      /\ repeated' = repeated /\ unanswered' = unanswered
  BY Zenon DEF BuildMessages
<1>1. CASE fits /\ ~AutoCompacts
  <2>1. history' = history /\ compactedAt' = compactedAt /\ hidden' = Unshown(history, recent_tool_turns)
    BY <1>1, Zenon DEF BuildMessages
  <2>2. ~(Len(history.tool_turns) > auto_compact_tool_turns)
    BY <1>1, Zenon DEF AutoCompacts
  <2>3. Len(history.tool_turns) \in Nat /\ auto_compact_tool_turns \in Nat
    BY PartsHave, HistoryParts, ContextAssumption
  <2> QED
    BY <1>0, <2>1, <2>2, <2>3
<1>2. CASE fits /\ AutoCompacts
  <2>1. /\ history' = Compacted(history) /\ compactedAt' = results
        /\ hidden' = Unshown(Compacted(history), recent_tool_turns)
    BY <1>2, Zenon DEF BuildMessages
  <2> QED
    BY <1>0, <2>1
<1>3. CASE ~fits
  <2>1. /\ compactedAt' = results
        /\ \/ AutoCompacts /\ history' = Compacted(Compacted(history))
           \/ ~AutoCompacts /\ history' = Compacted(history)
    BY <1>3, Zenon DEF BuildMessages
  <2>2. \/ hidden' = Unshown(history', recent_tool_turns)
        \/ hidden' = Unshown(history', KeepToolCount)
    BY <1>3, Zenon DEF BuildMessages
  <2> QED
    BY <1>0, <2>1, <2>2
<1> QED
  BY <1>1, <1>2, <1>3

(* One or two compactions keep what one keeps.                              *)
LEMMA CompactionsKeep ==
    ASSUME NEW h \in Histories, NEW d, d = Compacted(h) \/ d = Compacted(Compacted(h)),
           NEW n \in Nat, NEW m \in Nat, NEW tasks, NEW k \in {0, 1},
           Sound(h, n, m, tasks), Limits(h, n, m)
    PROVE  /\ d \in Histories /\ Sound(d, n, m, tasks) /\ Limits(d, n, m)
           /\ Len(d.tool_turns) <= KeepToolCount
           /\ h.user_tasks # <<>> => d.user_tasks # <<>>
           /\ Settled(h, m, k) => Settled(d, m, k)
<1>1. PICK e \in Histories : e = Compacted(h)
  BY CompactedSeqs
<1>2. PICK f \in Histories : f = Compacted(e)
  BY CompactedSeqs
<1>3. Sound(e, n, m, tasks)
  BY <1>1, CompactedSound
<1>4. Sound(f, n, m, tasks)
  BY <1>2, <1>3, CompactedSound
<1>5. /\ Limits(e, n, m) /\ Len(e.tool_turns) <= KeepToolCount
      /\ h.user_tasks # <<>> => e.user_tasks # <<>>
  BY <1>1, CompactedLimits
<1>6. /\ Limits(f, n, m) /\ Len(f.tool_turns) <= KeepToolCount
      /\ e.user_tasks # <<>> => f.user_tasks # <<>>
  BY <1>2, <1>5, CompactedLimits
<1>7. Settled(h, m, k) => Settled(e, m, k)
  BY <1>1, CompactedSettled
<1>8. Settled(e, m, k) => Settled(f, m, k)
  BY <1>2, CompactedSettled
<1>9. d = e \/ d = f
  BY <1>1, <1>2
<1> QED
  BY <1>3, <1>4, <1>5, <1>6, <1>7, <1>8, <1>9, Zenon

(* What is not shown.                                                       *)
LEMMA UnshownCount ==
    ASSUME NEW h \in Histories, NEW r \in Nat
    PROVE  Unshown(h, r) = IF Len(h.tool_turns) <= r THEN 0 ELSE Len(h.tool_turns) - r
<1>1. PICK s \in Seq(Kept) : s = h.tool_turns
  BY HistoryParts
<1>2. PICK l \in Nat : l = Len(Newest(s, r)) /\ l = IF Len(s) <= r THEN Len(s) ELSE r
  BY NewestSeq
<1>3. Unshown(h, r) = Len(s) - l
  BY <1>1, <1>2 DEF Unshown
<1> QED
  BY <1>1, <1>2, <1>3

(* build_messages.                                                          *)
LEMMA BuildMessagesKeeps ==
    ASSUME ContextParts, NEW fits \in BOOLEAN, NEW nowFits \in BOOLEAN, BuildMessages(fits, nowFits)
    PROVE  ContextParts'
<1>0. /\ stage = "build" /\ stage' = "decide"
      /\ artifacts' = artifacts /\ userTurn' = userTurn /\ results' = results
      /\ repeated' = repeated /\ unanswered' = unanswered
  BY BuiltHistory
<1>1. PICK h \in Histories : h = history
  BY PartsHave
<1>2. PICK k \in {0, 1} : k = Owed /\ k = Owed'
  BY <1>0 DEF Owed
<1>3. PICK l \in Nat : l = Len(h.tool_turns)
  BY HistoryParts
<1>4. recent_tool_turns \in Nat /\ auto_compact_tool_turns \in Nat
  BY ContextAssumption
<1>5. CASE /\ history' = history /\ compactedAt' = compactedAt
           /\ Len(history.tool_turns) <= auto_compact_tool_turns
           /\ hidden' = Unshown(history, recent_tool_turns)
  <2>1. Counters' /\ SoundPart' /\ LimitPart' /\ AnswerPart' /\ FilePart'
    BY <1>0, <1>2, <1>5, Zenon DEF ContextParts, Counters, SoundPart, LimitPart, AnswerPart, FilePart,
       ArtifactIsKept, InPlace
  <2>2. hidden' = IF l <= recent_tool_turns THEN 0 ELSE l - recent_tool_turns
    BY <1>1, <1>3, <1>4, <1>5, UnshownCount
  <2>3. HiddenPart'
    <3>1. hidden' \in 0..l
      BY <1>4, <2>2
    <3>2. hidden' <= IF auto_compact_tool_turns > recent_tool_turns
                     THEN auto_compact_tool_turns - recent_tool_turns ELSE 0
      <4>1. l <= auto_compact_tool_turns
        BY <1>1, <1>3, <1>5
      <4> QED
        BY <1>4, <2>2, <4>1
    <3> QED
      BY <1>1, <1>3, <1>5, <3>1, <3>2, Zenon DEF HiddenPart, HiddenIsBounded
  <2> QED
    BY <2>1, <2>3, Zenon DEF ContextParts
<1>6. CASE /\ compactedAt' = results
           /\ history' = Compacted(history) \/ history' = Compacted(Compacted(history))
           /\ hidden' \in {Unshown(history', recent_tool_turns), Unshown(history', KeepToolCount)}
  <2>1. PICK d : d = history' /\ (d = Compacted(h) \/ d = Compacted(Compacted(h)))
    BY <1>1, <1>6
  <2>2. PICK n, m \in Nat : n = results /\ m = userTurn
    BY PartsHave
  <2>3. PICK tasks : tasks = 1..userTurn \ repeated
    OBVIOUS
  <2>4. Sound(h, n, m, tasks) /\ Limits(h, n, m)
    BY <1>1, <2>2, <2>3, PartsHave
  <2>5. /\ d \in Histories /\ Sound(d, n, m, tasks) /\ Limits(d, n, m)
        /\ Len(d.tool_turns) <= KeepToolCount
        /\ h.user_tasks # <<>> => d.user_tasks # <<>>
        /\ Settled(h, m, k) => Settled(d, m, k)
    BY <2>1, <2>4, CompactionsKeep
  <2>6. SoundPart'
    BY <1>0, <2>1, <2>2, <2>3, <2>5 DEF SoundPart
  <2>7. LimitPart'
    BY <1>0, <2>1, <2>2, <2>5 DEF LimitPart
  <2>8. Counters'
    <3>1. Counters
      BY DEF ContextParts
    <3>2. history'.user_tasks # <<>>
      BY <1>0, <1>1, <2>1, <2>5, <3>1 DEF Counters
    <3>3. compactedAt' \in 0..results'
      BY <1>0, <1>6, PartsHave
    <3> QED
      BY <1>0, <3>1, <3>2, <3>3 DEF Counters
  <2>9. AnswerPart'
    <3>1. AnswerPart
      BY DEF ContextParts
    <3>2. unanswered \/ repeated # {} \/ Settled(h, m, k)
      BY <1>1, <1>2, <2>2, <3>1 DEF AnswerPart
    <3> QED
      BY <1>0, <1>2, <2>1, <2>2, <2>5, <3>2, Zenon DEF AnswerPart
  <2>10. FilePart'
    BY <1>0, <1>6, <2>1, <2>5, <2>7, CompactedFiles
  <2>11. HiddenPart'
    <3>1. KeepToolCount \in Nat /\ KeepToolCount <= recent_tool_turns
      BY <1>4, KeepCount
    <3>2. PICK j \in Nat : j = Len(d.tool_turns) /\ j <= KeepToolCount
      BY <2>5, HistoryParts
    <3>3. Unshown(d, recent_tool_turns) = 0 /\ Unshown(d, KeepToolCount) = 0
      <4>1. Unshown(d, recent_tool_turns) = IF Len(d.tool_turns) <= recent_tool_turns THEN 0
                                            ELSE Len(d.tool_turns) - recent_tool_turns
        BY <1>4, <2>5, UnshownCount
      <4>2. Unshown(d, KeepToolCount) = IF Len(d.tool_turns) <= KeepToolCount THEN 0
                                        ELSE Len(d.tool_turns) - KeepToolCount
        BY <2>5, <3>1, UnshownCount
      <4> QED
        BY <1>4, <3>1, <3>2, <4>1, <4>2
    <3>4. hidden' = 0
      BY <1>6, <2>1, <3>3
    <3>5. hidden' \in 0..Len(history'.tool_turns)
      BY <2>1, <3>2, <3>4
    <3>6. hidden' <= IF auto_compact_tool_turns > recent_tool_turns
                     THEN auto_compact_tool_turns - recent_tool_turns ELSE 0
      BY <1>4, <3>4
    <3> QED
      BY <3>5, <3>6, Zenon DEF HiddenPart, HiddenIsBounded
  <2> QED
    BY <2>6, <2>7, <2>8, <2>9, <2>10, <2>11, Zenon DEF ContextParts
<1> QED
  BY <1>5, <1>6, BuiltHistory

(* Joining one more line at the end.                                        *)
LEMMA JoinLast ==
    ASSUME NEW s \in Seq(Told), NEW t \in Seq(Told), NEW line \in Told
    PROVE  s \o Append(t, line) = Append(s \o t, line)
  OBVIOUS

(* A line more of a kind leaves nothing that is still to come untold.       *)
LEMMA AddBegun ==
    ASSUME NEW kind, NEW s \in Seq(Told), NEW line \in Told, NEW m \in Nat, NEW l \in Nat,
           Begun(kind, s, m), m <= l, line.of = l
    PROVE  Begun(kind, Append(s, line), l)
<1>1. PICK t : t = Append(s, line)
  OBVIOUS
<1>2. /\ Len(t) = Len(s) + 1 /\ t[Len(s) + 1] = line
      /\ \A i \in 1..Len(s) : t[i] = s[i]
      /\ \A i \in 1..Len(t) : i = Len(s) + 1 \/ i \in 1..Len(s)
  BY <1>1
<1>3. \A i \in 1..Len(s) : s[i].of \in Nat
  <2>1. \A i \in 1..Len(s) : s[i] \in Told
    BY ElementOf
  <2> QED
    BY <2>1 DEF Told
<1>4. \A i \in 1..Len(s) : s[i].kind = kind => s[i].of <= l
  BY <1>3 DEF Begun
<1>5. Begun(kind, t, l)
  BY <1>2, <1>4 DEF Begun
<1> QED
  BY <1>1, <1>5

(* A task more, a result more, an answer more.                              *)
WithTask(h, task) == [h EXCEPT !.user_tasks = Append(@, task)]
WithResult(h, turn) == [h EXCEPT !.tool_turns = Append(@, turn)]
WithFinal(h, turn) == [h EXCEPT !.assistant_finals = Append(@, turn)]
LEMMA WithFields ==
    ASSUME NEW h \in Histories
    PROVE  /\ \A task \in Asked : LET d == WithTask(h, task)
                                  IN  /\ d \in Histories /\ d.user_tasks = Append(h.user_tasks, task)
                                      /\ d.assistant_finals = h.assistant_finals
                                      /\ d.tool_turns = h.tool_turns
                                      /\ d.compacted_summary = h.compacted_summary
           /\ \A turn \in Kept : LET d == WithResult(h, turn)
                                 IN  /\ d \in Histories /\ d.tool_turns = Append(h.tool_turns, turn)
                                     /\ d.user_tasks = h.user_tasks
                                     /\ d.assistant_finals = h.assistant_finals
                                     /\ d.compacted_summary = h.compacted_summary
           /\ \A turn \in 1..MaxUserTurns :
                 LET d == WithFinal(h, turn)
                 IN  /\ d \in Histories /\ d.assistant_finals = Append(h.assistant_finals, turn)
                     /\ d.user_tasks = h.user_tasks /\ d.tool_turns = h.tool_turns
                     /\ d.compacted_summary = h.compacted_summary
<1>1. /\ h.user_tasks \in Seq(Asked) /\ h.assistant_finals \in Seq(1..MaxUserTurns)
      /\ h.tool_turns \in Seq(Kept)
  BY HistoryParts
<1>2. ASSUME NEW task \in Asked
      PROVE  LET d == WithTask(h, task)
             IN  /\ d \in Histories /\ d.user_tasks = Append(h.user_tasks, task)
                 /\ d.assistant_finals = h.assistant_finals
                 /\ d.tool_turns = h.tool_turns
                 /\ d.compacted_summary = h.compacted_summary
  <2>1. Append(h.user_tasks, task) \in Seq(Asked)
    BY <1>1, AppendProperties
  <2>2. PICK s \in Seq(Asked) : s = Append(h.user_tasks, task)
    BY <2>1
  <2>3. WithTask(h, task) = [h EXCEPT !.user_tasks = s]
    BY <2>2, Zenon DEF WithTask
  <2>4. LET d == [h EXCEPT !.user_tasks = s]
        IN  /\ d \in Histories /\ d.user_tasks = s
                 /\ d.assistant_finals = h.assistant_finals
                 /\ d.tool_turns = h.tool_turns
                 /\ d.compacted_summary = h.compacted_summary
    BY DEF Histories
  <2> QED
    BY <2>2, <2>3, <2>4, Zenon
<1>3. ASSUME NEW turn \in Kept
      PROVE  LET d == WithResult(h, turn)
             IN  /\ d \in Histories /\ d.tool_turns = Append(h.tool_turns, turn)
                 /\ d.user_tasks = h.user_tasks
                 /\ d.assistant_finals = h.assistant_finals
                 /\ d.compacted_summary = h.compacted_summary
  <2>1. Append(h.tool_turns, turn) \in Seq(Kept)
    BY <1>1, AppendProperties
  <2>2. PICK s \in Seq(Kept) : s = Append(h.tool_turns, turn)
    BY <2>1
  <2>3. WithResult(h, turn) = [h EXCEPT !.tool_turns = s]
    BY <2>2, Zenon DEF WithResult
  <2>4. LET d == [h EXCEPT !.tool_turns = s]
        IN  /\ d \in Histories /\ d.tool_turns = s
                 /\ d.user_tasks = h.user_tasks
                 /\ d.assistant_finals = h.assistant_finals
                 /\ d.compacted_summary = h.compacted_summary
    BY DEF Histories
  <2> QED
    BY <2>2, <2>3, <2>4, Zenon
<1>4. ASSUME NEW turn \in 1..MaxUserTurns
      PROVE  LET d == WithFinal(h, turn)
             IN  /\ d \in Histories /\ d.assistant_finals = Append(h.assistant_finals, turn)
                 /\ d.user_tasks = h.user_tasks
                 /\ d.tool_turns = h.tool_turns
                 /\ d.compacted_summary = h.compacted_summary
  <2>1. Append(h.assistant_finals, turn) \in Seq(1..MaxUserTurns)
    BY <1>1, AppendProperties
  <2>2. PICK s \in Seq(1..MaxUserTurns) : s = Append(h.assistant_finals, turn)
    BY <2>1
  <2>3. WithFinal(h, turn) = [h EXCEPT !.assistant_finals = s]
    BY <2>2, Zenon DEF WithFinal
  <2>4. LET d == [h EXCEPT !.assistant_finals = s]
        IN  /\ d \in Histories /\ d.assistant_finals = s
                 /\ d.user_tasks = h.user_tasks
                 /\ d.tool_turns = h.tool_turns
                 /\ d.compacted_summary = h.compacted_summary
    BY DEF Histories
  <2> QED
    BY <2>2, <2>3, <2>4, Zenon
<1> QED
  BY <1>2, <1>3, <1>4

(* What is told of a kind depends on the retained part of that kind.        *)
LEMMA ToldSame ==
    ASSUME NEW h, NEW d, d.compacted_summary = h.compacted_summary
    PROVE  /\ d.tool_turns = h.tool_turns => ToldTools(d) = ToldTools(h)
           /\ d.user_tasks = h.user_tasks => ToldTasks(d) = ToldTasks(h)
           /\ Room(d) = Room(h)
  BY DEF ToldTools, ToldTasks, Room

(* add_user_task tells of one more task, the last.                          *)
LEMMA ToldMoreTasks ==
    ASSUME NEW h \in Histories, NEW task \in Asked
    PROVE  /\ ToldTasks(WithTask(h, task)) = Append(ToldTasks(h), Line("user", task.turn, 0))
           /\ ToldTasks(h) \in Seq(Told) /\ Line("user", task.turn, 0) \in Told
<1>1. PICK d \in Histories : d = WithTask(h, task)
  BY WithFields
<1>2. d.user_tasks = Append(h.user_tasks, task) /\ d.compacted_summary = h.compacted_summary
  BY <1>1, WithFields
<1>3. PICK s \in Seq(Told) : s = h.compacted_summary
  BY HistoryParts
<1>4. PICK n \in Nat : n = Len(h.user_tasks) /\ n + 1 = Len(d.user_tasks)
  BY <1>2, HistoryParts
<1>5. n \in 0..Len(h.user_tasks) /\ n + 1 \in 0..Len(d.user_tasks)
  BY <1>4
<1>6. PICK t \in Seq(Told) : t = TaskLines(h, n)
  BY <1>5, TaskLinesSeq
<1>7. PICK r \in Seq(Told) : r = TaskLines(d, n + 1)
  BY <1>5, TaskLinesSeq
<1>8. PICK line \in Told : line = Line("user", task.turn, 0)
  <2>1. task.turn \in Nat
    BY DEF Asked
  <2> QED
    BY <2>1, LineFields DEF LineKind
<1>9. Len(t) = n /\ \A i \in 1..n : t[i] = Line("user", h.user_tasks[i].turn, 0)
  BY <1>5, <1>6, TaskLinesSeq
<1>10. Len(r) = n + 1 /\ \A i \in 1..n + 1 : r[i] = Line("user", d.user_tasks[i].turn, 0)
  BY <1>5, <1>7, TaskLinesSeq
<1>11. (\A i \in 1..n : d.user_tasks[i] = h.user_tasks[i]) /\ d.user_tasks[n + 1] = task
  BY <1>2, <1>4, HistoryParts
<1>12. PICK w \in Seq(Told) : w = Append(t, line)
  <2>1. Append(t, line) \in Seq(Told)
    BY AppendProperties
  <2> QED
    BY <2>1
<1>13. Len(w) = n + 1 /\ w[n + 1] = line /\ \A i \in 1..n : w[i] = t[i]
  BY <1>9, <1>12
<1>14. \A i \in 1..n + 1 : r[i] = w[i]
  <2> TAKE i \in 1..n + 1
  <2>1. CASE i = n + 1
    BY <1>8, <1>10, <1>11, <1>13, <2>1
  <2>2. CASE i \in 1..n
    BY <1>9, <1>10, <1>11, <1>13, <2>2
  <2> QED
    BY <2>1, <2>2
<1>15. r = w
  BY <1>10, <1>13, <1>14, SameElements
<1>16. s \o r = Append(s \o t, line) /\ s \o t \in Seq(Told)
  BY <1>12, <1>15, JoinLast, ConcatProperties
<1>17. ToldTasks(d) = s \o r /\ ToldTasks(h) = s \o t
  BY <1>2, <1>3, <1>4, <1>6, <1>7 DEF ToldTasks, TaskLines
<1> QED
  BY <1>1, <1>8, <1>16, <1>17

(* add_tool_result tells of one more result, the last.                      *)
LEMMA ToldMoreTools ==
    ASSUME NEW h \in Histories, NEW turn \in Kept
    PROVE  /\ ToldTools(WithResult(h, turn)) = Append(ToldTools(h), Line("tool", turn.n, 0))
           /\ ToldTools(h) \in Seq(Told) /\ Line("tool", turn.n, 0) \in Told
<1>1. PICK d \in Histories : d = WithResult(h, turn)
  BY WithFields
<1>2. d.tool_turns = Append(h.tool_turns, turn) /\ d.compacted_summary = h.compacted_summary
  BY <1>1, WithFields
<1>3. PICK s \in Seq(Told) : s = h.compacted_summary
  BY HistoryParts
<1>4. PICK n \in Nat : n = Len(h.tool_turns) /\ n + 1 = Len(d.tool_turns)
  BY <1>2, HistoryParts
<1>6. PICK t \in Seq(Told) : t = KeptLines(h)
  BY KeptLinesSeq
<1>7. PICK r \in Seq(Told) : r = KeptLines(d)
  BY KeptLinesSeq
<1>8. PICK line \in Told : line = Line("tool", turn.n, 0)
  <2>1. turn.n \in Nat
    BY DEF Kept
  <2> QED
    BY <2>1, LineFields DEF LineKind
<1>9. Len(t) = n /\ \A i \in 1..n : t[i] = Line("tool", h.tool_turns[i].n, 0)
  BY <1>4, <1>6, KeptLinesSeq
<1>10. Len(r) = n + 1 /\ \A i \in 1..n + 1 : r[i] = Line("tool", d.tool_turns[i].n, 0)
  BY <1>4, <1>7, KeptLinesSeq
<1>11. (\A i \in 1..n : d.tool_turns[i] = h.tool_turns[i]) /\ d.tool_turns[n + 1] = turn
  BY <1>2, <1>4, HistoryParts
<1>12. PICK w \in Seq(Told) : w = Append(t, line)
  <2>1. Append(t, line) \in Seq(Told)
    BY AppendProperties
  <2> QED
    BY <2>1
<1>13. Len(w) = n + 1 /\ w[n + 1] = line /\ \A i \in 1..n : w[i] = t[i]
  BY <1>9, <1>12
<1>14. \A i \in 1..n + 1 : r[i] = w[i]
  <2> TAKE i \in 1..n + 1
  <2>1. CASE i = n + 1
    BY <1>8, <1>10, <1>11, <1>13, <2>1
  <2>2. CASE i \in 1..n
    BY <1>9, <1>10, <1>11, <1>13, <2>2
  <2> QED
    BY <2>1, <2>2
<1>15. r = w
  BY <1>10, <1>13, <1>14, SameElements
<1>16. s \o r = Append(s \o t, line) /\ s \o t \in Seq(Told)
  BY <1>12, <1>15, JoinLast, ConcatProperties
<1>17. ToldTools(d) = s \o r /\ ToldTools(h) = s \o t
  BY <1>2, <1>3, <1>4, <1>6, <1>7 DEF ToldTools, KeptLines
<1> QED
  BY <1>1, <1>8, <1>16, <1>17

(* The turn fails, and the next one finds an answer missing.                *)
LEMMA TurnFailsKeeps ==
    ASSUME ContextParts, TurnFails
    PROVE  ContextParts'
<1>0. /\ stage' = "idle" /\ unanswered' = TRUE /\ history' = history /\ artifacts' = artifacts
      /\ userTurn' = userTurn /\ results' = results /\ hidden' = hidden /\ repeated' = repeated
      /\ compactedAt' = compactedAt
  BY DEF TurnFails
<1>1. Counters'
  <2>1. unanswered' \in BOOLEAN
    BY <1>0, Zenon
  <2> QED
    BY <1>0, <2>1, Zenon DEF ContextParts, Counters
<1>2. HiddenPart'
  BY <1>0, Zenon DEF ContextParts, HiddenPart, HiddenIsBounded
<1>3. AnswerPart'
  BY <1>0, Zenon DEF AnswerPart
<1>4. FilePart' /\ SoundPart' /\ LimitPart'
  BY <1>0, Zenon DEF ContextParts, FilePart, ArtifactIsKept, InPlace, SoundPart, LimitPart
<1> QED
  BY <1>1, <1>2, <1>3, <1>4, Zenon DEF ContextParts

(* An answer more at the end of those of h.                                 *)
LEMMA FinalSettles ==
    ASSUME NEW h \in Histories, NEW m \in 1..MaxUserTurns, Settled(h, m, 1)
    PROVE  Settled(WithFinal(h, m), m, 0)
<1>1. PICK d \in Histories : d = WithFinal(h, m)
  BY WithFields
<1>2. /\ d.assistant_finals = Append(h.assistant_finals, m) /\ d.user_tasks = h.user_tasks
      /\ d.compacted_summary = h.compacted_summary
  BY <1>1, WithFields
<1>3. PICK f, t \in Nat : f = Len(h.assistant_finals) /\ t = Len(h.user_tasks)
  <2>1. Len(h.assistant_finals) \in Nat /\ Len(h.user_tasks) \in Nat
    BY HistoryParts
  <2> QED
    BY <2>1
<1>4. f + 1 = t /\ h.user_tasks[t].turn = m
  BY <1>3 DEF Settled
<1>5. /\ Len(d.assistant_finals) = f + 1 /\ d.assistant_finals[f + 1] = m
      /\ \A i \in 1..f : d.assistant_finals[i] = h.assistant_finals[i]
  BY <1>2, <1>3, HistoryParts
<1>6. \A i \in 1..t : i <= f => h.assistant_finals[i] = h.user_tasks[i].turn
  BY <1>3 DEF Settled, Together
<1>7. \A i \in 1..t : d.assistant_finals[i] = d.user_tasks[i].turn
  <2> TAKE i \in 1..t
  <2>1. CASE i = t
    BY <1>2, <1>4, <1>5, <2>1
  <2>2. CASE i # t
    <3>1. i \in 1..f /\ i <= f
      BY <1>4, <2>2
    <3> QED
      BY <1>2, <1>5, <1>6, <3>1
  <2> QED
    BY <2>1, <2>2
<1>8. Together(d) /\ AllTogether(d.compacted_summary)
  BY <1>2, <1>3, <1>7 DEF Together, Settled
<1>9. Len(d.assistant_finals) + 0 = Len(d.user_tasks)
  BY <1>2, <1>3, <1>4, <1>5
<1> QED
  BY <1>1, <1>8, <1>9 DEF Settled

(* add_final_decision.                                                      *)
LEMMA AddFinalKeeps ==
    ASSUME ContextParts, AddFinalDecision
    PROVE  ContextParts'
<1>0. /\ stage = "decide" /\ stage' = "idle" /\ unanswered' = unanswered
      /\ history' = WithFinal(history, userTurn) /\ artifacts' = artifacts
      /\ userTurn' = userTurn /\ results' = results /\ hidden' = hidden /\ repeated' = repeated
      /\ compactedAt' = compactedAt
  BY DEF AddFinalDecision, WithFinal
<1>1. PICK h \in Histories : h = history
  BY PartsHave
<1>2. PICK u \in 1..MaxUserTurns : u = userTurn
  <2>1. h.user_tasks # <<>>
    BY <1>0, <1>1, Zenon DEF ContextParts, Counters
  <2>2. Len(h.user_tasks) >= 1
    BY <2>1, HistoryParts
  <2>3. h.user_tasks[1].turn \in 1..MaxUserTurns /\ h.user_tasks[1].turn <= userTurn
    BY <1>1, <2>2, HistoryParts, PartsHave DEF Limits
  <2> QED
    BY <2>3, PartsHave
<1>3. PICK d \in Histories : d = history' /\ d = WithFinal(h, u)
  BY <1>0, <1>1, <1>2, WithFields
<1>4. /\ d.assistant_finals = Append(h.assistant_finals, u)
      /\ d.user_tasks = h.user_tasks /\ d.tool_turns = h.tool_turns
      /\ d.compacted_summary = h.compacted_summary
  BY <1>3, WithFields
<1>5. SoundPart'
  <2>1. Sound(h, results, userTurn, 1..userTurn \ repeated)
    BY <1>1, PartsHave
  <2>2. ToldTools(d) = ToldTools(h) /\ ToldTasks(d) = ToldTasks(h) /\ Room(d) = Room(h)
    BY <1>4, ToldSame
  <2>3. Sound(d, results, userTurn, 1..userTurn \ repeated)
    BY <1>4, <2>1, <2>2 DEF Sound
  <2> QED
    BY <1>0, <1>3, <2>3 DEF SoundPart
<1>6. LimitPart'
  <2>1. Limits(h, results, userTurn)
    BY <1>1, PartsHave
  <2>2. \A i \in 1..Len(d.assistant_finals) : d.assistant_finals[i] <= userTurn
    <3>1. PICK f \in Nat : f = Len(h.assistant_finals)
      BY HistoryParts
    <3>2. /\ Len(d.assistant_finals) = f + 1 /\ d.assistant_finals[f + 1] = u
          /\ \A i \in 1..f : d.assistant_finals[i] = h.assistant_finals[i]
      BY <1>4, <3>1, HistoryParts
    <3>3. \A i \in 1..f : h.assistant_finals[i] <= userTurn
      BY <2>1, <3>1 DEF Limits
    <3>4. u <= userTurn
      BY <1>2
    <3> QED
      BY <3>2, <3>3, <3>4
  <2>3. Limits(d, results, userTurn)
    BY <1>4, <2>1, <2>2 DEF Limits
  <2> QED
    BY <1>0, <1>3, <2>3 DEF LimitPart
<1>7. Counters'
  BY <1>0, Zenon DEF ContextParts, Counters
<1>8. HiddenPart'
  BY <1>0, <1>1, <1>3, <1>4, Zenon DEF ContextParts, HiddenPart, HiddenIsBounded
<1>9. AnswerPart'
  <2>1. AnswerPart /\ Owed = 1 /\ Owed' = 0
    BY <1>0 DEF ContextParts, Owed
  <2>2. CASE unanswered \/ repeated # {}
    BY <1>0, <2>2 DEF AnswerPart
  <2>3. CASE Settled(h, u, 1)
    <3>1. Settled(d, u, 0)
      BY <1>3, <2>3, FinalSettles
    <3> QED
      BY <1>0, <1>2, <1>3, <2>1, <3>1 DEF AnswerPart
  <2> QED
    BY <1>1, <1>2, <2>1, <2>2, <2>3 DEF AnswerPart
<1>10. FilePart'
  BY <1>0, <1>1, <1>3, <1>4, ZenonT(40) DEF ContextParts, FilePart, ArtifactIsKept, InPlace
<1> QED
  BY <1>5, <1>6, <1>7, <1>8, <1>9, <1>10, Zenon DEF ContextParts

(* The line of a task or a result that is new.                              *)
LEMMA TaskMoreSound ==
    ASSUME NEW h, NEW n \in Nat, NEW m \in Nat, NEW rep, rep \subseteq 1..m,
           NEW task \in Asked, task.turn = m + 1, Sound(h, n, m, 1..m \ rep)
    PROVE  Sound(WithTask(h, task), n, m + 1, 1..m + 1 \ rep)
<1>1. h \in Histories /\ Len(h.compacted_summary) <= SummaryLines
  BY DEF Sound
<1>2. PICK d \in Histories : d = WithTask(h, task)
  BY <1>1, WithFields
<1>3. d.tool_turns = h.tool_turns /\ d.compacted_summary = h.compacted_summary
  BY <1>1, <1>2, WithFields
<1>4. ToldTools(d) = ToldTools(h) /\ Room(d) = Room(h)
  BY <1>3, ToldSame
<1>5. PICK line \in Told : line = Line("user", task.turn, 0)
  BY <1>1, ToldMoreTasks
<1>6. line.kind = "user" /\ line.of = m + 1
  BY <1>5 DEF Line
<1>7. PICK s \in Seq(Told) : s = ToldTasks(h) /\ ToldTasks(d) = Append(s, line)
  BY <1>1, <1>2, <1>5, ToldMoreTasks
<1>8. NewestTold("user", s, 1..m \ rep, Room(h)) /\ Begun("user", s, m)
  BY <1>7 DEF Sound
<1>9. Begun("user", Append(s, line), m + 1)
  <2>1. PICK l \in Nat : l = m + 1 /\ m <= l
    OBVIOUS
  <2> QED
    BY <1>6, <1>8, <2>1, AddBegun
<1>10. NewestTold("user", Append(s, line), 1..m + 1 \ rep, Room(h))
  <2>1. \A i \in 1..Len(s) : s[i].kind = "user" => s[i].of < line.of
    <3>1. \A i \in 1..Len(s) : s[i] \in Told
      BY ElementOf
    <3>2. \A i \in 1..Len(s) : s[i].of \in Nat
      BY <3>1 DEF Told
    <3>3. \A i \in 1..Len(s) : s[i].kind = "user" => s[i].of <= m
      BY <1>8 DEF Begun
    <3> QED
      BY <1>6, <3>2, <3>3
  <2>2. PICK all, more : all = 1..m \ rep /\ more = 1..m + 1 \ rep
    OBVIOUS
  <2>3. (\A k \in more : k \in all \/ k = line.of) /\ (\A k \in all : k \in Nat /\ k < line.of)
    BY <1>6, <2>2
  <2>4. PICK room : room = Room(h)
    OBVIOUS
  <2>5. NewestTold("user", s, all, room)
    BY <1>8, <2>2, <2>4
  <2>6. NewestTold("user", Append(s, line), more, room)
    BY <1>6, <2>1, <2>3, <2>5, AddTold
  <2> QED
    BY <2>2, <2>4, <2>6
<1>11. Len(d.compacted_summary) <= SummaryLines
  BY <1>1, <1>3
<1>12. NewestTold("tool", ToldTools(d), 1..n, Room(d)) /\ Begun("tool", ToldTools(d), n)
  BY <1>4 DEF Sound
<1>13. NewestTold("user", ToldTasks(d), 1..m + 1 \ rep, Room(d)) /\ Begun("user", ToldTasks(d), m + 1)
  BY <1>4, <1>7, <1>9, <1>10
<1> QED
  BY <1>2, <1>11, <1>12, <1>13 DEF Sound

(* add_tool_result keeps what is told complete and in order.                *)
LEMMA ResultMoreSound ==
    ASSUME NEW h, NEW n \in Nat, NEW m \in Nat, NEW tasks,
           NEW turn \in Kept, turn.n = n + 1, Sound(h, n, m, tasks)
    PROVE  Sound(WithResult(h, turn), n + 1, m, tasks)
<1>1. h \in Histories /\ Len(h.compacted_summary) <= SummaryLines
  BY DEF Sound
<1>2. PICK d \in Histories : d = WithResult(h, turn)
  BY <1>1, WithFields
<1>3. d.user_tasks = h.user_tasks /\ d.compacted_summary = h.compacted_summary
  BY <1>1, <1>2, WithFields
<1>4. ToldTasks(d) = ToldTasks(h) /\ Room(d) = Room(h)
  BY <1>3, ToldSame
<1>5. PICK line \in Told : line = Line("tool", turn.n, 0)
  BY <1>1, ToldMoreTools
<1>6. line.kind = "tool" /\ line.of = n + 1
  BY <1>5 DEF Line
<1>7. PICK s \in Seq(Told) : s = ToldTools(h) /\ ToldTools(d) = Append(s, line)
  BY <1>1, <1>2, <1>5, ToldMoreTools
<1>8. NewestTold("tool", s, 1..n, Room(h)) /\ Begun("tool", s, n)
  BY <1>7 DEF Sound
<1>9. Begun("tool", Append(s, line), n + 1)
  <2>1. PICK l \in Nat : l = n + 1 /\ n <= l
    OBVIOUS
  <2> QED
    BY <1>6, <1>8, <2>1, AddBegun
<1>10. NewestTold("tool", Append(s, line), 1..n + 1, Room(h))
  <2>1. \A i \in 1..Len(s) : s[i].kind = "tool" => s[i].of < line.of
    <3>1. \A i \in 1..Len(s) : s[i] \in Told
      BY ElementOf
    <3>2. \A i \in 1..Len(s) : s[i].of \in Nat
      BY <3>1 DEF Told
    <3>3. \A i \in 1..Len(s) : s[i].kind = "tool" => s[i].of <= n
      BY <1>8 DEF Begun
    <3> QED
      BY <1>6, <3>2, <3>3
  <2>2. PICK all, more : all = 1..n /\ more = 1..n + 1
    OBVIOUS
  <2>3. (\A k \in more : k \in all \/ k = line.of) /\ (\A k \in all : k \in Nat /\ k < line.of)
    BY <1>6, <2>2
  <2>4. PICK room : room = Room(h)
    OBVIOUS
  <2>5. NewestTold("tool", s, all, room)
    BY <1>8, <2>2, <2>4
  <2>6. NewestTold("tool", Append(s, line), more, room)
    BY <1>6, <2>1, <2>3, <2>5, AddTold
  <2> QED
    BY <2>2, <2>4, <2>6
<1>11. Len(d.compacted_summary) <= SummaryLines
  BY <1>1, <1>3
<1>12. NewestTold("user", ToldTasks(d), tasks, Room(d)) /\ Begun("user", ToldTasks(d), m)
  BY <1>4 DEF Sound
<1>13. NewestTold("tool", ToldTools(d), 1..n + 1, Room(d)) /\ Begun("tool", ToldTools(d), n + 1)
  BY <1>4, <1>7, <1>9, <1>10
<1> QED
  BY <1>2, <1>11, <1>12, <1>13 DEF Sound

(* A turn more, with or without a task more.                                *)
LEMMA TaskMoreLimits ==
    ASSUME NEW h \in Histories, NEW n \in Nat, NEW m \in Nat, NEW task \in Asked, task.turn = m + 1,
           Limits(h, n, m)
    PROVE  Limits(h, n, m + 1) /\ Limits(WithTask(h, task), n, m + 1)
<1>1. PICK d \in Histories : d = WithTask(h, task)
  BY WithFields
<1>2. /\ d.user_tasks = Append(h.user_tasks, task) /\ d.assistant_finals = h.assistant_finals
      /\ d.tool_turns = h.tool_turns
  BY <1>1, WithFields
<1>3. /\ \A i \in 1..Len(h.user_tasks) : h.user_tasks[i].turn \in Nat /\ h.user_tasks[i].turn <= m
      /\ \A i \in 1..Len(h.assistant_finals) :
            h.assistant_finals[i] \in Nat /\ h.assistant_finals[i] <= m
  BY HistoryParts, SMTT(40) DEF Limits
<1>4. /\ \A i \in 1..Len(h.user_tasks) : h.user_tasks[i].turn <= m + 1
      /\ \A i \in 1..Len(h.assistant_finals) : h.assistant_finals[i] <= m + 1
  BY <1>3
<1>5. Limits(h, n, m + 1)
  BY <1>4 DEF Limits
<1>6. \A i \in 1..Len(d.user_tasks) : d.user_tasks[i].turn <= m + 1
  <2>1. PICK t \in Nat : t = Len(h.user_tasks)
    BY HistoryParts, SMTT(40)
  <2>2. /\ Len(d.user_tasks) = t + 1 /\ d.user_tasks[t + 1] = task
        /\ \A i \in 1..t : d.user_tasks[i] = h.user_tasks[i]
    BY <1>2, <2>1, HistoryParts
  <2>3. \A i \in 1..t : h.user_tasks[i].turn <= m + 1
    BY <1>4, <2>1
  <2>4. task.turn <= m + 1
    OBVIOUS
  <2> QED
    BY <2>2, <2>3, <2>4
<1>7. Limits(d, n, m + 1)
  BY <1>2, <1>5, <1>6 DEF Limits
<1> QED
  BY <1>1, <1>5, <1>7

(* add_tool_result keeps the limits.                                        *)
LEMMA ResultMoreLimits ==
    ASSUME NEW h \in Histories, NEW n \in Nat, NEW m \in Nat, NEW turn \in Kept, turn.n = n + 1,
           Limits(h, n, m)
    PROVE  Limits(WithResult(h, turn), n + 1, m)
<1>1. PICK d \in Histories : d = WithResult(h, turn)
  BY WithFields
<1>2. /\ d.tool_turns = Append(h.tool_turns, turn) /\ d.assistant_finals = h.assistant_finals
      /\ d.user_tasks = h.user_tasks
  BY <1>1, WithFields
<1>3. PICK t \in Nat : t = Len(h.tool_turns) /\ t <= n
  <2>1. Len(h.tool_turns) \in Nat
    BY HistoryParts
  <2>2. Len(h.tool_turns) <= n
    BY DEF Limits
  <2> QED
    BY <2>1, <2>2
<1>4. \A i \in 1..t : h.tool_turns[i].n \in Nat /\ h.tool_turns[i].n <= n
  <2>1. \A i \in 1..Len(h.tool_turns) : h.tool_turns[i].n \in 1..MaxResults
    BY HistoryParts
  <2>2. \A i \in 1..Len(h.tool_turns) : h.tool_turns[i].n <= n
    BY DEF Limits
  <2> QED
    BY <1>3, <2>1, <2>2
<1>5. /\ Len(d.tool_turns) = t + 1 /\ d.tool_turns[t + 1] = turn
      /\ \A i \in 1..t : d.tool_turns[i] = h.tool_turns[i]
  BY <1>2, <1>3, HistoryParts
<1>6. \A i \in 1..Len(d.tool_turns) : d.tool_turns[i].n <= n + 1
  <2>1. \A i \in 1..t : d.tool_turns[i].n <= n + 1
    BY <1>4, <1>5
  <2>2. d.tool_turns[t + 1].n <= n + 1
    BY <1>5
  <2> QED
    BY <1>5, <2>1, <2>2, SMTT(40)
<1>7. Len(d.tool_turns) <= n + 1
  BY <1>3, <1>5
<1>8. Limits(d, n + 1, m)
  BY <1>2, <1>6, <1>7 DEF Limits
<1> QED
  BY <1>1, <1>8

(* A task without an answer, at the end of those that have one.             *)
LEMMA TaskSettles ==
    ASSUME NEW h \in Histories, NEW m, NEW l, NEW task \in Asked, task.turn = l, Settled(h, m, 0)
    PROVE  Settled(WithTask(h, task), l, 1)
<1>1. PICK d \in Histories : d = WithTask(h, task)
  BY WithFields
<1>2. /\ d.user_tasks = Append(h.user_tasks, task) /\ d.assistant_finals = h.assistant_finals
      /\ d.compacted_summary = h.compacted_summary
  BY <1>1, WithFields
<1>3. PICK f, t \in Nat : f = Len(h.assistant_finals) /\ t = Len(h.user_tasks)
  <2>1. Len(h.assistant_finals) \in Nat /\ Len(h.user_tasks) \in Nat
    BY HistoryParts
  <2> QED
    BY <2>1
<1>4. f = t
  BY <1>3 DEF Settled
<1>5. /\ Len(d.user_tasks) = t + 1 /\ d.user_tasks[t + 1] = task
      /\ \A i \in 1..t : d.user_tasks[i] = h.user_tasks[i]
  BY <1>2, <1>3, HistoryParts
<1>6. \A i \in 1..t : h.assistant_finals[i] = h.user_tasks[i].turn
  <2>1. \A i \in 1..t : i <= f => h.assistant_finals[i] = h.user_tasks[i].turn
    BY <1>3 DEF Settled, Together
  <2> QED
    BY <1>4, <2>1
<1>7. ASSUME NEW i \in 1..t + 1, i <= f
      PROVE  d.assistant_finals[i] = d.user_tasks[i].turn
  <2>1. i \in 1..t
    BY <1>4, <1>7
  <2> QED
    BY <1>2, <1>5, <1>6, <2>1
<1>8. Together(d)
  BY <1>2, <1>3, <1>5, <1>7 DEF Together
<1>9. AllTogether(d.compacted_summary)
  BY <1>2 DEF Settled
<1>10. Len(d.assistant_finals) + 1 = Len(d.user_tasks) /\ d.user_tasks[Len(d.user_tasks)].turn = l
  BY <1>2, <1>3, <1>4, <1>5
<1> QED
  BY <1>1, <1>8, <1>9, <1>10 DEF Settled

(* add_tool_result leaves tasks and answers alone.                          *)
LEMMA ResultSettles ==
    ASSUME NEW h \in Histories, NEW m, NEW k, NEW turn \in Kept, Settled(h, m, k)
    PROVE  Settled(WithResult(h, turn), m, k)
<1>1. PICK d \in Histories : d = WithResult(h, turn)
  BY WithFields
<1>2. /\ d.assistant_finals = h.assistant_finals /\ d.user_tasks = h.user_tasks
      /\ d.compacted_summary = h.compacted_summary
  BY <1>1, WithFields
<1> QED
  BY <1>1, <1>2 DEF Settled, Together

(* A turn begins.                                                           *)
LEMMA AddUserTaskKeeps ==
    ASSUME ContextParts, NEW text \in Text, AddUserTask(text)
    PROVE  ContextParts'
<1>0. /\ stage = "idle" /\ userTurn < MaxUserTurns /\ userTurn' = userTurn + 1 /\ stage' = "build"
      /\ artifacts' = artifacts /\ results' = results /\ hidden' = hidden
      /\ unanswered' = unanswered /\ compactedAt' = compactedAt
  BY DEF AddUserTask
<1>1. PICK h \in Histories : h = history
  BY PartsHave
<1>2. PICK n, m \in Nat : n = results /\ m = userTurn /\ m < MaxUserTurns /\ MaxUserTurns \in Nat
  BY <1>0, PartsHave
<1>3. PICK task \in Asked : task = [text |-> text, turn |-> userTurn'] /\ task.turn = m + 1
  <2>1. userTurn' \in 1..MaxUserTurns /\ userTurn' = m + 1
    BY <1>0, <1>2
  <2>2. [text |-> text, turn |-> userTurn'] \in Asked
    BY <2>1 DEF Asked
  <2> QED
    BY <2>1, <2>2
<1>4. PICK d \in Histories : d = WithTask(h, task)
  BY WithFields
<1>5. /\ d.user_tasks = Append(h.user_tasks, task) /\ d.tool_turns = h.tool_turns
  BY <1>4, WithFields
<1>6. \/ history' = d /\ repeated' = repeated
      \/ history' = h /\ repeated' = repeated \cup {userTurn'} /\ h.user_tasks # <<>>
  BY <1>1, <1>3, <1>4 DEF AddUserTask, WithTask
<1>7. Sound(h, n, m, 1..m \ repeated) /\ Limits(h, n, m) /\ repeated \subseteq 1..m
  BY <1>1, <1>2, PartsHave
<1>8. history' \in {h, d} /\ history'.tool_turns = h.tool_turns /\ history' \in Histories
  BY <1>5, <1>6
<1>9. SoundPart'
  <2>1. CASE history' = d /\ repeated' = repeated
    <3>1. Sound(d, n, m + 1, 1..m + 1 \ repeated)
      BY <1>3, <1>4, <1>7, TaskMoreSound
    <3> QED
      BY <1>0, <1>2, <2>1, <3>1 DEF SoundPart
  <2>2. CASE history' = h /\ repeated' = repeated \cup {userTurn'}
    <3>1. 1..userTurn' \ repeated' = 1..m \ repeated
      BY <1>0, <1>2, <1>7, <2>2
    <3>2. Begun("user", ToldTasks(h), m + 1)
      <4>1. PICK s \in Seq(Told) : s = ToldTasks(h)
        BY <1>3, ToldMoreTasks
      <4>2. Begun("user", s, m)
        BY <1>7, <4>1 DEF Sound
      <4>3. \A i \in 1..Len(s) : s[i] \in Told
        BY ElementOf
      <4>4. \A i \in 1..Len(s) : s[i].of \in Nat
        BY <4>3 DEF Told
      <4>5. \A i \in 1..Len(s) : s[i].kind = "user" => s[i].of <= m + 1
        BY <4>2, <4>4 DEF Begun
      <4> QED
        BY <4>1, <4>5 DEF Begun
    <3>3. Sound(h, n, m + 1, 1..m \ repeated)
      BY <1>7, <3>2 DEF Sound
    <3> QED
      BY <1>0, <1>2, <2>2, <3>1, <3>3 DEF SoundPart
  <2> QED
    BY <1>6, <2>1, <2>2
<1>10. LimitPart'
  <2>1. Limits(h, n, m + 1) /\ Limits(d, n, m + 1)
    BY <1>3, <1>4, <1>7, TaskMoreLimits
  <2> QED
    BY <1>0, <1>2, <1>8, <2>1 DEF LimitPart
<1>11. Counters'
  <2>1. Counters
    BY DEF ContextParts
  <2>2. unanswered' \in BOOLEAN
    BY <1>0, <2>1, Zenon DEF Counters
  <2>3. userTurn' \in 0..MaxUserTurns /\ repeated' \subseteq 1..userTurn'
    <3>1. userTurn' = m + 1
      BY <1>0, <1>2
    <3>2. repeated' \subseteq repeated \cup {m + 1}
      BY <1>6, <3>1
    <3>3. 1..m \subseteq 1..m + 1 /\ m + 1 \in 1..m + 1 /\ m + 1 \in 0..MaxUserTurns
      BY <1>2
    <3> QED
      BY <1>7, <3>1, <3>2, <3>3
  <2>4. history'.user_tasks # <<>>
    BY <1>5, <1>6, HistoryParts
  <2>5. results' \in 0..MaxResults /\ compactedAt' \in 0..results' /\ stage' \in {"idle", "build", "decide"}
    BY <1>0, <2>1 DEF Counters
  <2> QED
    BY <2>2, <2>3, <2>4, <2>5, Zenon DEF Counters
<1>12. HiddenPart'
  BY <1>0, <1>1, <1>8 DEF ContextParts, HiddenPart, HiddenIsBounded
<1>13. AnswerPart'
  <2>1. AnswerPart /\ Owed = 0 /\ Owed' = 1
    BY <1>0 DEF ContextParts, Owed
  <2>2. CASE unanswered \/ repeated' # {}
    BY <1>0, <2>2 DEF AnswerPart
  <2>3. CASE repeated' = {} /\ ~unanswered
    <3>1. history' = d /\ repeated = {}
      BY <1>6, <2>3
    <3>2. Settled(h, m, 0)
      BY <1>1, <1>2, <2>1, <2>3, <3>1 DEF AnswerPart
    <3>3. Settled(d, m + 1, 1)
      <4>1. PICK l : l = m + 1
        OBVIOUS
      <4>2. task.turn = l
        BY <1>3, <4>1
      <4> QED
        BY <1>4, <3>2, <4>1, <4>2, TaskSettles
    <3> QED
      BY <1>0, <1>2, <2>1, <3>1, <3>3 DEF AnswerPart
  <2> QED
    BY <2>2, <2>3
<1>14. FilePart'
  BY <1>0, <1>1, <1>8, Zenon DEF ContextParts, FilePart, ArtifactIsKept, InPlace
<1> QED
  BY <1>9, <1>10, <1>11, <1>12, <1>13, <1>14, Zenon DEF ContextParts

(* A result is added.                                                       *)
LEMMA AddToolResultKeeps ==
    ASSUME ContextParts, NEW tool \in ToolName, NEW large \in BOOLEAN, NEW writable \in BOOLEAN,
           AddToolResult(tool, large, writable)
    PROVE  ContextParts'
<1>1. PICK h \in Histories : h = history
  BY PartsHave
<1>2. PICK n, m, t \in Nat : /\ n = results /\ m = userTurn /\ t = Len(h.tool_turns) /\ t <= n
                             /\ n < MaxResults /\ MaxResults \in Nat
  <2>1. results < MaxResults
    BY DEF AddToolResult
  <2>2. Len(h.tool_turns) \in Nat /\ Len(h.tool_turns) <= results
    BY <1>1, HistoryParts, PartsHave DEF Limits
  <2> QED
    BY <2>1, <2>2, PartsHave
<1>3. PICK name \in ArtifactName \cup {NoArtifact} :
         /\ name = StoreLarge(tool, large, writable) /\ (name # NoArtifact => name = <<t + 1, tool>>)
  <2>1. t + 1 \in 1..MaxResults /\ <<t + 1, tool>> \in ArtifactName
    BY <1>2 DEF ArtifactName
  <2>2. StoreLarge(tool, large, writable) \in {<<t + 1, tool>>, NoArtifact}
    BY <1>1, <1>2 DEF StoreLarge, ArtifactIndex
  <2> QED
    BY <2>1, <2>2
<1>4. PICK turn \in Kept : turn = Retained(n + 1, name) /\ turn.n = n + 1 /\ turn.artifact = name
  <2>1. n + 1 \in 1..MaxResults
    BY <1>2
  <2> QED
    <3>1. /\ Retained(n + 1, name) \in Kept /\ Retained(n + 1, name).n = n + 1
          /\ Retained(n + 1, name).artifact = name
      BY <2>1 DEF Retained, Kept
    <3> QED
      BY <3>1
<1>5. /\ stage = "decide" /\ stage' = "build" /\ results' = n + 1
      /\ artifacts' = (IF name = NoArtifact THEN artifacts ELSE [artifacts EXCEPT ![name] = n + 1])
      /\ history' = WithResult(h, turn)
      /\ userTurn' = userTurn /\ hidden' = hidden /\ repeated' = repeated
      /\ unanswered' = unanswered /\ compactedAt' = compactedAt
  <2>1. /\ stage = "decide" /\ stage' = "build" /\ results' = results + 1
        /\ artifacts' = (IF StoreLarge(tool, large, writable) = NoArtifact THEN artifacts
                         ELSE [artifacts EXCEPT ![StoreLarge(tool, large, writable)] = results'])
        /\ history' = WithResult(history, Retained(results', StoreLarge(tool, large, writable)))
        /\ userTurn' = userTurn /\ hidden' = hidden /\ repeated' = repeated
        /\ unanswered' = unanswered /\ compactedAt' = compactedAt
    BY Zenon DEF AddToolResult, WithResult
  <2>2. results' = n + 1
    BY <1>2, <2>1
  <2> QED
    BY <1>1, <1>3, <1>4, <2>1, <2>2, Zenon
<1>6. PICK d \in Histories : d = WithResult(h, turn) /\ d = history'
  BY <1>5, WithFields
<1>7. d.tool_turns = Append(h.tool_turns, turn) /\ d.user_tasks = h.user_tasks
  <2>1. d = WithResult(h, turn)
    BY <1>6
  <2> QED
    BY <2>1, WithFields
<1>8. /\ Len(d.tool_turns) = t + 1 /\ d.tool_turns[t + 1] = turn
      /\ \A i \in 1..t : d.tool_turns[i] = h.tool_turns[i]
  BY <1>2, <1>7, HistoryParts
<1>9. SoundPart'
  <2>1. PICK tasks : tasks = 1..userTurn \ repeated
    OBVIOUS
  <2>2. Sound(h, n, m, tasks)
    BY <1>1, <1>2, <2>1, PartsHave
  <2>3. Sound(d, n + 1, m, tasks)
    BY <1>4, <1>6, <2>2, ResultMoreSound
  <2> QED
    BY <1>2, <1>5, <1>6, <2>1, <2>3 DEF SoundPart
<1>10. LimitPart'
  <2>1. Limits(h, n, m)
    BY <1>1, <1>2, PartsHave
  <2>2. Limits(d, n + 1, m)
    BY <1>4, <1>6, <2>1, ResultMoreLimits
  <2> QED
    BY <1>2, <1>5, <1>6, <2>2 DEF LimitPart
<1>11. Counters'
  <2>1. Counters
    BY DEF ContextParts
  <2>2. unanswered' \in BOOLEAN /\ userTurn' \in 0..MaxUserTurns /\ repeated' \subseteq 1..userTurn'
    BY <1>5, <2>1, Zenon DEF Counters
  <2>3. results' \in 0..MaxResults /\ compactedAt' \in 0..results'
    BY <1>2, <1>5, PartsHave
  <2>4. stage' \in {"idle", "build", "decide"} /\ history'.user_tasks # <<>>
    BY <1>1, <1>5, <1>6, <1>7, <2>1 DEF Counters
  <2> QED
    BY <2>2, <2>3, <2>4, Zenon DEF Counters
<1>12. HiddenPart'
  <2>1. hidden \in 0..t
    BY <1>1, <1>2 DEF ContextParts, HiddenPart
  <2>2. hidden' \in 0..Len(d.tool_turns)
    BY <1>5, <1>8, <2>1
  <2> QED
    BY <1>5, <1>6, <2>2 DEF HiddenPart, HiddenIsBounded
<1>13. AnswerPart'
  <2>1. AnswerPart /\ Owed' = Owed
    BY <1>5 DEF ContextParts, Owed
  <2>2. CASE unanswered \/ repeated # {}
    BY <1>5, <2>2 DEF AnswerPart
  <2>3. CASE Settled(h, m, Owed)
    <3>1. PICK k : k = Owed
      OBVIOUS
    <3>2. Settled(d, m, k)
      BY <1>6, <2>3, <3>1, ResultSettles
    <3> QED
      BY <1>2, <1>5, <1>6, <2>1, <3>1, <3>2 DEF AnswerPart
  <2> QED
    BY <1>1, <1>2, <2>1, <2>2, <2>3 DEF AnswerPart
<1>14. FilePart'
  <2>1. artifacts \in [ArtifactName -> 0..n] /\ ArtifactIsKept /\ InPlace
    BY <1>2 DEF ContextParts, FilePart
  <2>2. artifacts' \in [ArtifactName -> 0..results']
    BY <1>2, <1>3, <1>5, <2>1
  <2>3. InPlace'
    <3>1. ASSUME NEW i \in 1..t + 1, d.tool_turns[i].artifact # NoArtifact,
                 d.tool_turns[i].n > compactedAt
          PROVE  d.tool_turns[i].artifact[1] = i
      <4>1. CASE i = t + 1
        BY <1>3, <1>4, <1>8, <3>1, <4>1
      <4>2. CASE i \in 1..t
        BY <1>1, <1>2, <1>8, <2>1, <3>1, <4>2 DEF InPlace
      <4> QED
        BY <4>1, <4>2
    <3> QED
      BY <1>5, <1>6, <1>8, <3>1 DEF InPlace
  <2>4. ArtifactIsKept'
    <3>1. DOMAIN d.tool_turns = 1..t + 1 /\ DOMAIN h.tool_turns = 1..t
      BY <1>2, <1>8, HistoryParts, DomainIsLen
    <3>2. ASSUME NEW i \in 1..t + 1, d.tool_turns[i].artifact # NoArtifact,
                 d.tool_turns[i].n > compactedAt
          PROVE  artifacts'[d.tool_turns[i].artifact] = d.tool_turns[i].n
      <4>1. CASE i = t + 1
        BY <1>3, <1>4, <1>5, <1>8, <2>1, <3>2, <4>1
      <4>2. CASE i \in 1..t
        <5>1. PICK old \in Kept : old = h.tool_turns[i] /\ old = d.tool_turns[i]
          BY <1>2, <1>8, <4>2, HistoryParts, ElementOf
        <5>2. artifacts[old.artifact] = old.n
          BY <1>1, <2>1, <3>1, <3>2, <4>2, <5>1 DEF ArtifactIsKept
        <5>3. old.artifact[1] = i
          BY <1>1, <1>2, <2>1, <3>2, <4>2, <5>1 DEF InPlace
        <5>4. old.artifact \in ArtifactName
          BY <3>2, <5>1 DEF Kept
        <5>5. name # NoArtifact => name[1] = t + 1
          BY <1>3
        <5>6. old.artifact # name
          BY <3>2, <4>2, <5>1, <5>3, <5>5
        <5> QED
          BY <1>5, <2>1, <5>1, <5>2, <5>4, <5>6
      <4> QED
        BY <4>1, <4>2
    <3> QED
      BY <1>5, <1>6, <3>1, <3>2 DEF ArtifactIsKept
  <2> QED
    BY <2>2, <2>3, <2>4 DEF FilePart
<1> QED
  BY <1>9, <1>10, <1>11, <1>12, <1>13, <1>14, Zenon DEF ContextParts

(* The invariant of the conversation.                                       *)
LEMMA ContextSteps ==
    ASSUME ContextParts, [ContextNext]_contextVars
    PROVE  ContextParts'
<1>1. CASE UNCHANGED contextVars
  BY <1>1, Zenon DEF contextVars, ContextParts, Counters, HiddenPart, HiddenIsBounded, AnswerPart, Owed,
     FilePart, ArtifactIsKept, InPlace, SoundPart, LimitPart
<1>2. CASE ContextNext
  BY <1>2, AddUserTaskKeeps, BuildMessagesKeeps, AddToolResultKeeps, AddFinalKeeps, TurnFailsKeeps,
     CompactKeeps, Zenon DEF ContextNext
<1> QED
  BY <1>1, <1>2

(* The history of a conversation, its summary and its artifacts keep the    *)
(* inductive invariant, however results, turns and compactions alternate.   *)
THEOREM ContextInvariant == ContextSpec => []ContextInv
<1>1. ContextInit => ContextParts
  BY ContextStarts
<1>2. ContextParts /\ [ContextNext]_contextVars => ContextParts'
  BY ContextSteps
<1>3. ContextParts => ContextInv
  BY PartsGive
<1> QED
  BY <1>1, <1>2, <1>3, PTL DEF ContextSpec

-----------------------------------------------------------------------------
(* The task tools.                                                         *)

(* What the provers know of the states.                                     *)
LEMMA StateFacts ==
    /\ TaskStates = {"RUNNING", "SUCCEEDED", "FAILED", "CANCELLED", "LOST"}
    /\ \A x : Over(x) <=> x \in {"SUCCEEDED", "FAILED", "CANCELLED", "LOST"}
    /\ None \notin TaskStates /\ "absent" \notin TaskStates
    /\ ~Over("absent") /\ ~Over("RUNNING") /\ ~Over(None)
    /\ \A x : Known(x) <=> x \in {"SUCCEEDED", "FAILED"}
    /\ \A x : Ended(x) \in Codes /\ Ended(x) # None
    /\ None \notin Codes
  BY DEF TaskStates, TERMINAL_TASK_STATES, Over, Known, Ended, None, Codes

(* The fields of a task of the runtime.                                     *)
LEMMA JobFields ==
    /\ \A j \in JobRecord : /\ j.state \in TaskStates \cup {"absent"} /\ j.code \in Codes \cup {None}
                            /\ j.ended \in Codes \cup {None}
                            /\ j.watched \in BOOLEAN /\ j.held \in BOOLEAN
                            /\ j.log \in 0..MaxLog /\ j.err \in 0..MaxLog
    /\ Absent \in JobRecord /\ Absent.state = "absent" /\ Absent.code = None /\ Absent.ended = None
    /\ ~Absent.watched /\ ~Absent.held /\ Absent.log = 0 /\ Absent.err = 0
  BY ToolBoundAssumption DEF JobRecord, Absent

(* The fields of a brief.                                                   *)
LEMMA BriefFields ==
    /\ \A b \in BriefRecord : b.state \in TaskStates \cup {None} /\ b.exit_code \in Codes \cup {None}
    /\ NoBrief \in BriefRecord /\ NoBrief.state = None /\ NoBrief.exit_code = None
    /\ \A state \in TaskStates \cup {None}, code \in Codes \cup {None} :
          LET b == [state |-> state, exit_code |-> code]
          IN  b \in BriefRecord /\ b.state = state /\ b.exit_code = code
  BY DEF BriefRecord, NoBrief

(* The fields of a call of a task tool.                                     *)
LEMMA CallFields ==
    /\ \A c \in TaskCallRecord :
          /\ c.tool \in TaskTool /\ c.pc \in TaskPc /\ c.task \in Task \cup {None} /\ c.waits \in BOOLEAN
          /\ c.state \in TaskStates \cup {None} /\ c.code \in Codes \cup {None}
          /\ c.len \in 0..MaxLog /\ c.err \in 0..MaxLog /\ c.got \in Seq(Char)
    /\ NoTaskCall \in TaskCallRecord
    /\ NoTaskCall.tool = "none" /\ NoTaskCall.pc = "idle" /\ NoTaskCall.task = None
    /\ NoTaskCall.state = None /\ NoTaskCall.code = None /\ NoTaskCall.got = <<>>
    /\ NoTaskCall.len = 0 /\ NoTaskCall.err = 0
  BY ToolBoundAssumption DEF TaskCallRecord, NoTaskCall, TaskTool, TaskPc

(* The calls an action makes of a call.                                     *)
Call(c, tool, pc, t) == [c EXCEPT !.tool = tool, !.pc = pc, !.task = t]
At(c, pc) == [c EXCEPT !.pc = pc]
Read(c, pc, state, code) == [c EXCEPT !.pc = pc, !.state = state, !.code = code]
ReadLen(c, pc, len, err) == [c EXCEPT !.pc = pc, !.len = len, !.err = err]
Got(c, pc, got) == [c EXCEPT !.pc = pc, !.got = got]
LEMMA MovedCall ==
    ASSUME NEW c \in TaskCallRecord, NEW pc \in TaskPc
    PROVE  /\ LET d == At(c, pc)
              IN  /\ d \in TaskCallRecord /\ d.pc = pc /\ d.task = c.task /\ d.got = c.got
                  /\ d.tool = c.tool /\ d.state = c.state /\ d.code = c.code /\ d.len = c.len /\ d.err = c.err
           /\ \A state \in TaskStates \cup {None}, code \in Codes \cup {None} :
                 LET d == Read(c, pc, state, code)
                 IN  /\ d \in TaskCallRecord /\ d.pc = pc /\ d.task = c.task /\ d.got = c.got
                     /\ d.tool = c.tool /\ d.state = state /\ d.code = code /\ d.len = c.len /\ d.err = c.err
           /\ \A len \in 0..MaxLog, err \in 0..MaxLog :
                 LET d == ReadLen(c, pc, len, err)
                 IN  /\ d \in TaskCallRecord /\ d.pc = pc /\ d.task = c.task /\ d.got = c.got
                     /\ d.tool = c.tool /\ d.state = c.state /\ d.code = c.code /\ d.len = len /\ d.err = err
           /\ \A got \in Seq(Char) :
                 LET d == Got(c, pc, got)
                 IN  /\ d \in TaskCallRecord /\ d.pc = pc /\ d.task = c.task /\ d.got = got
                     /\ d.tool = c.tool /\ d.state = c.state /\ d.code = c.code /\ d.len = c.len /\ d.err = c.err
<1>1. LET d == At(c, pc)
      IN  /\ d \in TaskCallRecord /\ d.pc = pc /\ d.task = c.task /\ d.got = c.got
          /\ d.tool = c.tool /\ d.state = c.state /\ d.code = c.code /\ d.len = c.len /\ d.err = c.err
  BY DEF TaskCallRecord, At
<1>2. \A state \in TaskStates \cup {None}, code \in Codes \cup {None} :
         LET d == Read(c, pc, state, code)
         IN  /\ d \in TaskCallRecord /\ d.pc = pc /\ d.task = c.task /\ d.got = c.got
             /\ d.tool = c.tool /\ d.state = state /\ d.code = code /\ d.len = c.len /\ d.err = c.err
  BY DEF TaskCallRecord, Read
<1>3. \A len \in 0..MaxLog, err \in 0..MaxLog :
         LET d == ReadLen(c, pc, len, err)
         IN  /\ d \in TaskCallRecord /\ d.pc = pc /\ d.task = c.task /\ d.got = c.got
             /\ d.tool = c.tool /\ d.state = c.state /\ d.code = c.code /\ d.len = len /\ d.err = err
  BY DEF TaskCallRecord, ReadLen
<1>4. \A got \in Seq(Char) :
         LET d == Got(c, pc, got)
         IN  /\ d \in TaskCallRecord /\ d.pc = pc /\ d.task = c.task /\ d.got = got
             /\ d.tool = c.tool /\ d.state = c.state /\ d.code = c.code /\ d.len = c.len /\ d.err = c.err
  BY DEF TaskCallRecord, Got
<1> QED
  BY <1>1, <1>2, <1>3, <1>4

(* What holds of the record of a job, whatever was written over it: an exit *)
(* code and an outcome are the command's.                                   *)
JobSound(j, cancelled) ==
    /\ j.state = "absent" => j = Absent
    /\ j.code # None => j.ended = j.code
    /\ Known(j.state) => ~j.watched /\ j.ended = Ended(j.state)
    /\ j.state = "CANCELLED" => cancelled
    /\ j.err <= j.log

(* How a job may change: one that is there stays, an end is for good, and   *)
(* output only grows, while it is watched; a handle is dropped for good.    *)
JobGrows(i, j) ==
    /\ i.state # "absent" => j.state # "absent"
    /\ i.ended # None => j.ended = i.ended
    /\ j.log >= i.log /\ j.err >= i.err /\ j.log - j.err >= i.log - i.err
    /\ i.state # "absent" /\ ~i.watched => ~j.watched /\ j.log = i.log /\ j.err = i.err
    /\ i.state # "absent" /\ ~i.held => ~j.held
JobStep ==
    /\ job' \in [Task -> JobRecord]
    /\ \A t \in Task : JobGrows(job[t], job'[t])
    /\ \A t \in Task : JobSound(job'[t], t \in cancels')
    /\ cancels \subseteq cancels' /\ cancels' \subseteq Task

(* The numbers of a job, and what is known of it.                           *)
LEMMA JobNumbers ==
    ASSUME TaskTypeOK, JobsStartOnce
    PROVE  /\ job \in [Task -> JobRecord] /\ cancels \subseteq Task
           /\ \A t \in Task : /\ job[t] \in JobRecord /\ JobSound(job[t], t \in cancels)
                              /\ job[t].log \in Nat /\ job[t].err \in Nat
                              /\ job[t].log \in 0..MaxLog /\ job[t].err <= job[t].log
<1>1. job \in [Task -> JobRecord] /\ cancels \subseteq Task
  BY DEF TaskTypeOK
<1>2. \A t \in Task : job[t] \in JobRecord
  BY <1>1
<1>3. \A t \in Task : job[t].log \in 0..MaxLog /\ job[t].err \in 0..MaxLog
  BY <1>2, JobFields
<1>4. \A t \in Task : JobSound(job[t], t \in cancels) /\ job[t].err <= job[t].log
  BY DEF JobsStartOnce, JobSound
<1> QED
  BY <1>1, <1>2, <1>3, <1>4, ToolBoundAssumption

(* A job that does not change grows.                                        *)
LEMMA SameGrows ==
    ASSUME NEW i \in JobRecord
    PROVE  JobGrows(i, i)
<1>1. i.log \in Nat /\ i.err \in Nat
  BY JobFields, ToolBoundAssumption
<1> QED
  BY <1>1 DEF JobGrows

(* One job changes, the cancels do not.                                     *)

(* A step of one task is a step of the tasks.                               *)
LEMMA OneJob ==
    ASSUME TaskTypeOK, JobsStartOnce, NEW t \in Task, NEW j \in JobRecord,
           job' = [job EXCEPT ![t] = j], cancels' = cancels,
           JobGrows(job[t], j), JobSound(j, t \in cancels)
    PROVE  JobStep /\ job'[t] = j /\ \A u \in Task \ {t} : job'[u] = job[u]
<1>1. job'[t] = j /\ \A u \in Task \ {t} : job'[u] = job[u]
  BY JobNumbers
<1>2. \A u \in Task : JobGrows(job[u], job'[u])
  BY <1>1, JobNumbers, SameGrows
<1>3. \A u \in Task : JobSound(job'[u], u \in cancels')
  BY <1>1, JobNumbers
<1> QED
  BY <1>1, <1>2, <1>3, JobNumbers DEF JobStep

(* The jobs do not change; a cancel may begin.                              *)
LEMMA NoJob ==
    ASSUME TaskTypeOK, JobsStartOnce, job' = job, cancels \subseteq cancels',
           cancels' \subseteq Task
    PROVE  JobStep
<1>1. \A u \in Task : JobGrows(job[u], job'[u])
  BY JobNumbers, SameGrows
<1>2. \A u \in Task : JobSound(job'[u], u \in cancels')
  BY JobNumbers DEF JobSound
<1> QED
  BY <1>1, <1>2, JobNumbers DEF JobStep

(* A job that has printed, ended, was recorded, released, started,          *)
(* cancelled.                                                               *)
PrintedJob(i, err) == [i EXCEPT !.log = @ + 1, !.err = err]
EndedWith(i, code) == [i EXCEPT !.ended = code]
RecordedAs(i, state, code) == [i EXCEPT !.state = state, !.code = code, !.watched = FALSE]
Released(i) == [i EXCEPT !.held = FALSE]
Running(i) == [i EXCEPT !.state = "RUNNING", !.watched = TRUE, !.held = TRUE]
Cancelled(i, code) == [i EXCEPT !.state = "CANCELLED", !.code = code, !.held = FALSE]

(* A task that prints only goes on.                                         *)
LEMMA PrintsStep ==
    ASSUME TaskInv, NEW t \in Task, JobPrints(t)
    PROVE  JobStep /\ \A u \in Task : job[u].state = "absent" => job'[u] = job[u]
<1>1. TaskTypeOK /\ JobsStartOnce
  BY DEF TaskInv
<1>2. PICK i \in JobRecord : i = job[t] /\ JobSound(i, t \in cancels)
  BY <1>1, JobNumbers
<1>3. i.watched /\ i.log < MaxLog /\ i.log \in Nat /\ i.err \in Nat /\ i.err <= i.log
  BY <1>1, <1>2, JobNumbers DEF JobPrints
<1>4. PICK err \in {i.err, i.err + 1} : job' = [job EXCEPT ![t].log = @ + 1, ![t].err = err]
  BY <1>2 DEF JobPrints
<1>5. err \in 0..MaxLog /\ i.log + 1 \in 0..MaxLog /\ err <= i.log + 1 /\ err >= i.err
      /\ i.log + 1 - err >= i.log - i.err /\ err \in Nat
  BY <1>3, <1>4, ToolBoundAssumption
<1>6. PICK j : j = PrintedJob(i, err)
  OBVIOUS
<1>7. /\ j \in JobRecord /\ j.state = i.state /\ j.code = i.code /\ j.ended = i.ended
      /\ j.watched = i.watched /\ j.held = i.held /\ j.log = i.log + 1 /\ j.err = err
  BY <1>5, <1>6 DEF PrintedJob, JobRecord
<1>8. job' = [job EXCEPT ![t] = j]
  BY <1>1, <1>2, <1>4, <1>6, JobNumbers DEF PrintedJob
<1>9. i.state # "absent"
  BY <1>2, <1>3, JobFields DEF JobSound
<1>10. JobGrows(i, j) /\ JobSound(j, t \in cancels)
  BY <1>2, <1>3, <1>5, <1>7, <1>9 DEF JobGrows, JobSound
<1>11. cancels' = cancels
  BY DEF JobPrints
<1> QED
  BY <1>1, <1>2, <1>7, <1>8, <1>9, <1>10, <1>11, OneJob

(* A task that ends only goes on.                                           *)
LEMMA EndsStep ==
    ASSUME TaskInv, NEW t \in Task, JobEnds(t)
    PROVE  JobStep /\ \A u \in Task : job[u].state = "absent" => job'[u] = job[u]
<1>1. TaskTypeOK /\ JobsStartOnce
  BY DEF TaskInv
<1>2. PICK i \in JobRecord : i = job[t] /\ JobSound(i, t \in cancels)
  BY <1>1, JobNumbers
<1>3. i.state # "absent" /\ i.ended = None /\ i.log \in Nat /\ i.err \in Nat
  BY <1>1, <1>2, JobNumbers DEF JobEnds
<1>4. PICK code \in Codes : job' = [job EXCEPT ![t].ended = code]
  BY DEF JobEnds
<1>5. PICK j : j = EndedWith(i, code)
  OBVIOUS
<1>6. /\ j \in JobRecord /\ j.state = i.state /\ j.code = i.code /\ j.ended = code
      /\ j.watched = i.watched /\ j.held = i.held /\ j.log = i.log /\ j.err = i.err
  BY <1>5 DEF EndedWith, JobRecord
<1>7. job' = [job EXCEPT ![t] = j]
  BY <1>1, <1>2, <1>4, <1>5, JobNumbers DEF EndedWith
<1>8. JobGrows(i, j)
  BY <1>3, <1>6 DEF JobGrows
<1>9. i.code = None /\ ~Known(i.state)
  BY <1>2, <1>3, StateFacts, JobFields DEF JobSound
<1>10. JobSound(j, t \in cancels)
  BY <1>2, <1>3, <1>6, <1>9 DEF JobSound
<1>11. cancels' = cancels
  BY DEF JobEnds
<1> QED
  BY <1>1, <1>2, <1>3, <1>6, <1>7, <1>8, <1>10, <1>11, OneJob

(* The watcher of a task that has ended stores what it found: the outcome of *)
(* the command, or that the task was cancelled.                             *)
LEMMA RecordedStep ==
    ASSUME TaskInv, NEW t \in Task, JobRecorded(t)
    PROVE  JobStep /\ \A u \in Task : job[u].state = "absent" => job'[u] = job[u]
<1>1. TaskTypeOK /\ JobsStartOnce
  BY DEF TaskInv
<1>2. PICK i \in JobRecord : i = job[t] /\ JobSound(i, t \in cancels)
  BY <1>1, JobNumbers
<1>3. i.watched /\ i.log \in Nat /\ i.err \in Nat /\ i.ended \in Codes \cup {None}
  BY <1>1, <1>2, JobNumbers, JobFields DEF JobRecorded
<1>4. PICK o \in Outcomes(t) :
         job' = [job EXCEPT ![t].state = o[1], ![t].code = o[2], ![t].watched = FALSE]
  BY DEF JobRecorded
<1>5. PICK state, code : state = o[1] /\ code = o[2]
  OBVIOUS
<1>6. /\ state \in TaskStates /\ state # "absent" /\ code \in {None, i.ended}
      /\ Known(state) => i.ended = Ended(state)
      /\ state = "CANCELLED" => t \in cancels
  BY <1>2, <1>4, <1>5, StateFacts DEF Outcomes, Ended
<1>7. PICK j : j = RecordedAs(i, state, code)
  OBVIOUS
<1>8. /\ j \in JobRecord /\ j.state = state /\ j.code = code /\ j.ended = i.ended
      /\ ~j.watched /\ j.held = i.held /\ j.log = i.log /\ j.err = i.err
  BY <1>3, <1>6, <1>7 DEF RecordedAs, JobRecord
<1>9. job' = [job EXCEPT ![t] = j]
  BY <1>1, <1>2, <1>4, <1>5, <1>7, JobNumbers DEF RecordedAs
<1>10. JobGrows(i, j)
  BY <1>3, <1>6, <1>8 DEF JobGrows
<1>11. JobSound(j, t \in cancels)
  BY <1>2, <1>6, <1>8 DEF JobSound
<1>12. i.state # "absent"
  BY <1>2, <1>3, JobFields DEF JobSound
<1>13. cancels' = cancels
  BY DEF JobRecorded
<1> QED
  BY <1>1, <1>2, <1>8, <1>9, <1>10, <1>11, <1>12, <1>13, OneJob

(* The handle of a task is dropped: its record stays.                       *)
LEMMA ReleasedStep ==
    ASSUME TaskInv, NEW t \in Task, JobReleased(t)
    PROVE  JobStep /\ \A u \in Task : job[u].state = "absent" => job'[u] = job[u]
<1>1. TaskTypeOK /\ JobsStartOnce
  BY DEF TaskInv
<1>2. PICK i \in JobRecord : i = job[t] /\ JobSound(i, t \in cancels)
  BY <1>1, JobNumbers
<1>3. i.held /\ ~i.watched /\ i.log \in Nat /\ i.err \in Nat
  BY <1>1, <1>2, JobNumbers DEF JobReleased
<1>4. PICK j : j = Released(i)
  OBVIOUS
<1>5. /\ j \in JobRecord /\ j.state = i.state /\ j.code = i.code /\ j.ended = i.ended
      /\ j.watched = i.watched /\ ~j.held /\ j.log = i.log /\ j.err = i.err
  BY <1>4 DEF Released, JobRecord
<1>6. job' = [job EXCEPT ![t] = j]
  BY <1>1, <1>2, <1>4, JobNumbers DEF Released, JobReleased
<1>7. i.state # "absent"
  BY <1>2, <1>3, JobFields DEF JobSound
<1>8. JobGrows(i, j) /\ JobSound(j, t \in cancels)
  BY <1>2, <1>3, <1>5, <1>7 DEF JobGrows, JobSound
<1>9. cancels' = cancels
  BY DEF JobReleased
<1> QED
  BY <1>1, <1>2, <1>5, <1>6, <1>7, <1>8, <1>9, OneJob

(* A task that starts runs, and no other changes.                           *)
LEMMA StartedStep ==
    ASSUME TaskInv, NEW t \in Task, job[t].state = "absent", Started(t), cancels' = cancels
    PROVE  JobStep /\ job'[t].state = "RUNNING" /\ \A u \in Task \ {t} : job'[u] = job[u]
<1>1. TaskTypeOK /\ JobsStartOnce
  BY DEF TaskInv
<1>2. PICK i \in JobRecord : i = job[t] /\ i = Absent
  BY <1>1, JobNumbers DEF JobSound
<1>3. PICK j : j = Running(i)
  OBVIOUS
<1>4. "RUNNING" \in TaskStates /\ ~Known("RUNNING")
  BY StateFacts
<1>5. /\ j \in JobRecord /\ j.state = "RUNNING" /\ j.code = i.code /\ j.ended = i.ended
      /\ j.watched /\ j.held /\ j.log = i.log /\ j.err = i.err
  BY <1>3, <1>4 DEF Running, JobRecord
<1>6. job' = [job EXCEPT ![t] = j]
  BY <1>1, <1>2, <1>3, JobNumbers DEF Running, Started
<1>7. JobGrows(i, j) /\ JobSound(j, t \in cancels)
  BY <1>2, <1>4, <1>5, JobFields DEF JobGrows, JobSound
<1> QED
  BY <1>1, <1>2, <1>5, <1>6, <1>7, OneJob

(* A task that is cancelled while it runs is cancelled, any other stays.    *)
LEMMA CancelledStep ==
    ASSUME TaskInv, NEW t \in Task, CancelledJob(t), t \in cancels, cancels' = cancels,
           job[t].state # "absent"
    PROVE  /\ JobStep /\ job'[t].state = "CANCELLED"
           /\ job'[t].code \in Codes \cup {None}
           /\ job'[t].code # None => job'[t].ended = job'[t].code
           /\ \A u \in Task : job[u].state = "absent" => job'[u] = job[u]
<1>1. TaskTypeOK /\ JobsStartOnce
  BY DEF TaskInv
<1>2. PICK i \in JobRecord : i = job[t] /\ JobSound(i, t \in cancels)
  BY <1>1, JobNumbers
<1>3. i.state # "absent" /\ i.log \in Nat /\ i.err \in Nat /\ i.code \in Codes \cup {None}
  BY <1>1, <1>2, JobNumbers, JobFields
<1>4. PICK code \in {None, i.code} :
         job' = [job EXCEPT ![t].state = "CANCELLED", ![t].code = code, ![t].held = FALSE]
  BY <1>2 DEF CancelledJob
<1>5. PICK j : j = Cancelled(i, code)
  OBVIOUS
<1>6. "CANCELLED" \in TaskStates /\ ~Known("CANCELLED") /\ code \in Codes \cup {None}
  BY <1>3, <1>4, StateFacts
<1>7. /\ j \in JobRecord /\ j.state = "CANCELLED" /\ j.code = code /\ j.ended = i.ended
      /\ j.watched = i.watched /\ ~j.held /\ j.log = i.log /\ j.err = i.err
  BY <1>5, <1>6 DEF Cancelled, JobRecord
<1>8. job' = [job EXCEPT ![t] = j]
  BY <1>1, <1>2, <1>4, <1>5, JobNumbers DEF Cancelled
<1>9. JobGrows(i, j)
  BY <1>3, <1>7 DEF JobGrows
<1>10. code # None => i.ended = code
  BY <1>2, <1>4 DEF JobSound
<1>11. JobSound(j, t \in cancels)
  BY <1>2, <1>6, <1>7, <1>10 DEF JobSound
<1>12. JobStep /\ job'[t] = j /\ \A u \in Task \ {t} : job'[u] = job[u]
  BY <1>1, <1>2, <1>7, <1>8, <1>9, <1>11, OneJob
<1> QED
  BY <1>2, <1>3, <1>6, <1>7, <1>10, <1>12

(* What the invariant says, for an action to use.                           *)
LEMMA TaskFacts ==
    ASSUME TaskInv
    PROVE  /\ job \in [Task -> JobRecord] /\ tcall \in TaskCallRecord
           /\ \A t \in Task : job[t] \in JobRecord /\ job[t].log \in Nat /\ job[t].err \in Nat
                              /\ job[t].err <= job[t].log
           /\ task_briefs \in [Task -> BriefRecord] /\ task_log_cursor \in 0..MaxLog
           /\ threads \subseteq {"start", "cancel"} \X Task /\ cancels \subseteq Task
           /\ active_task_id \in Task \cup {None} /\ last_command_exit_code \in Codes \cup {None}
           /\ cuts \in 0..MaxCuts /\ shown \in [Task -> Seq(Char)] /\ partial \subseteq Task
           /\ cursorOf \in Task \cup {None} /\ codeOf \in Task \cup {None}
           /\ returned \subseteq Task /\ sawEnd \subseteq Task
           /\ tcall.pc = "idle" <=> tcall = NoTaskCall
           /\ active_task_id # None => job[active_task_id].state # "absent"
<1>1. TaskTypeOK /\ JobsStartOnce
  BY DEF TaskInv
<1>2. active_task_id # None => job[active_task_id].state # "absent"
  BY <1>1 DEF TaskTypeOK, JobsStartOnce
<1> QED
  BY <1>1, <1>2, JobNumbers DEF TaskTypeOK

(* A step of the jobs alone leaves true what the harness believes.          *)
Believed == ReadIsTrue /\ BriefsAreOfJobs /\ EndsAreSeen /\ LastCodeIsOfJob
            /\ BriefsAreTrue /\ ActiveIsOpen /\ ReturnedIsListed
Counted == CursorIsBehindShown /\ OutputIsWhole
HarnessUnchanged ==
    /\ active_task_id' = active_task_id /\ task_log_cursor' = task_log_cursor
    /\ last_command_exit_code' = last_command_exit_code /\ task_briefs' = task_briefs
    /\ tcall' = tcall /\ cuts' = cuts /\ shown' = shown /\ partial' = partial
    /\ cursorOf' = cursorOf /\ codeOf' = codeOf /\ returned' = returned /\ sawEnd' = sawEnd

(* How the jobs grow, in numbers: no stream begins beside another one that  *)
(* was alone.                                                               *)
LEMMA JobsGrow ==
    ASSUME TaskInv, JobStep, NEW t \in Task
    PROVE  /\ job'[t] \in JobRecord /\ job'[t].log \in Nat /\ job'[t].err \in Nat
           /\ job'[t].log \in 0..MaxLog /\ job'[t].err <= job'[t].log
           /\ job'[t].log >= job[t].log /\ job'[t].err >= job[t].err
           /\ job'[t].log - job'[t].err >= job[t].log - job[t].err
           /\ OneStream(t)' => OneStream(t)
<1>1. job'[t] \in JobRecord /\ JobGrows(job[t], job'[t]) /\ JobSound(job'[t], t \in cancels')
  BY DEF JobStep
<1>2. job'[t].log \in 0..MaxLog /\ job'[t].err \in 0..MaxLog
  BY <1>1, JobFields
<1>3. job'[t].log \in Nat /\ job'[t].err \in Nat /\ job[t].log \in Nat /\ job[t].err \in Nat
      /\ job[t].err <= job[t].log
  BY <1>2, TaskFacts, ToolBoundAssumption
<1>4. /\ job'[t].log >= job[t].log /\ job'[t].err >= job[t].err
      /\ job'[t].log - job'[t].err >= job[t].log - job[t].err /\ job'[t].err <= job'[t].log
  BY <1>1 DEF JobGrows, JobSound
<1>5. OneStream(t)' => OneStream(t)
  BY <1>3, <1>4 DEF OneStream
<1> QED
  BY <1>1, <1>2, <1>3, <1>4, <1>5

(* What the context believes stays true when a task goes on.                *)
LEMMA JobMoves ==
    ASSUME TaskInv, JobStep, HarnessUnchanged, threads' \subseteq threads
    PROVE  TaskTypeOK' /\ Believed' /\ Counted'
<1>0. TaskTypeOK /\ ReadIsTrue /\ BriefsAreOfJobs /\ EndsAreSeen /\ LastCodeIsOfJob /\ BriefsAreTrue
      /\ ActiveIsOpen /\ ReturnedIsListed /\ CursorIsBehindShown /\ OutputIsWhole
  BY DEF TaskInv
<1>a. /\ \A t \in Task : JobGrows(job[t], job'[t]) /\ JobSound(job'[t], t \in cancels')
      /\ cancels \subseteq cancels' /\ cancels' \subseteq Task
  BY DEF JobStep
<1>b. \A t \in Task : /\ job[t].state # "absent" => job'[t].state # "absent"
                      /\ job[t].ended # None => job'[t].ended = job[t].ended
                      /\ job[t].state # "absent" /\ ~job[t].watched =>
                            ~job'[t].watched /\ job'[t].log = job[t].log
                      /\ job[t].state # "absent" /\ ~job[t].held => ~job'[t].held
  BY <1>a DEF JobGrows
<1>1. TaskTypeOK'
  <2>1. active_task_id' # None => job'[active_task_id'] # Absent
    BY <1>b, TaskFacts, JobFields DEF HarnessUnchanged
  <2>2. threads' \subseteq {"start", "cancel"} \X Task
    BY TaskFacts
  <2>3. job' \in [Task -> JobRecord]
    BY DEF JobStep
  <2> QED
    BY <1>0, <1>a, <2>1, <2>2, <2>3 DEF TaskTypeOK, HarnessUnchanged
<1>2. ReadIsTrue'
  <2>1. PICK c \in TaskCallRecord : c = tcall /\ c = tcall'
    BY TaskFacts DEF HarnessUnchanged
  <2>2. CASE c.pc = "idle"
    BY <1>0, <2>1, <2>2 DEF ReadIsTrue, Observing
  <2>3. CASE c.pc # "idle"
    <3>1. c.task \in Task
      BY <1>0, <2>1, <2>3 DEF ReadIsTrue
    <3>2. c.pc \notin {"idle", "launch"} => job[c.task].state # "absent" /\ job'[c.task].state # "absent"
      BY <1>0, <1>b, <2>1, <3>1 DEF ReadIsTrue
    <3>3. c.pc \in {"logs", "observed", "cancelled"} =>
              /\ c.state # None
              /\ Known(c.state) => ~job'[c.task].watched /\ job'[c.task].ended = Ended(c.state)
              /\ c.code # None => job'[c.task].ended = c.code
              /\ c.state = "CANCELLED" => c.task \in cancels'
      BY <1>0, <1>a, <1>b, <2>1, <3>1, <3>2, StateFacts DEF ReadIsTrue
    <3>4. c.pc = "observed" => /\ c.err <= c.len
                               /\ c.err <= job'[c.task].err
                               /\ c.len - c.err <= job'[c.task].log - job'[c.task].err
                               /\ Known(c.state) => c.len = job'[c.task].log
      <4>1. c.len \in Nat /\ c.err \in Nat
        BY CallFields, ToolBoundAssumption
      <4>2. c.pc = "observed" => /\ c.err <= c.len
                                 /\ c.err <= job[c.task].err
                                 /\ c.len - c.err <= job[c.task].log - job[c.task].err
                                 /\ Known(c.state) => c.len = job[c.task].log /\ ~job[c.task].watched
        BY <1>0, <2>1 DEF ReadIsTrue
      <4>3. /\ job[c.task].log \in Nat /\ job[c.task].err \in Nat
            /\ job'[c.task].log \in Nat /\ job'[c.task].err \in Nat
            /\ job'[c.task].err >= job[c.task].err
            /\ job'[c.task].log - job'[c.task].err >= job[c.task].log - job[c.task].err
        BY <3>1, TaskFacts, JobsGrow
      <4>4. c.pc = "observed" /\ Known(c.state) => job'[c.task].log = job[c.task].log
        BY <1>b, <3>1, <3>2, <4>2
      <4> QED
        BY <4>1, <4>2, <4>3, <4>4
    <3>5. c.pc \notin {"get", "logs", "observed"} => c.got = <<>>
      BY <1>0, <2>1 DEF ReadIsTrue, Observing
    <3>6. c.pc = "cancel" /\ job'[c.task].held => c.task \in cancels'
      BY <1>0, <1>a, <1>b, <2>1, <3>1, <3>2 DEF ReadIsTrue
    <3> QED
      BY <2>1, <3>1, <3>2, <3>3, <3>4, <3>5, <3>6 DEF ReadIsTrue, Observing
  <2> QED
    BY <2>2, <2>3
<1>3. BriefsAreOfJobs'
  BY <1>0, <1>b, StateFacts DEF BriefsAreOfJobs, HarnessUnchanged
<1>4. EndsAreSeen'
  BY <1>0, <1>b, TaskFacts DEF EndsAreSeen, HarnessUnchanged
<1>5. LastCodeIsOfJob'
  BY <1>0, <1>b DEF LastCodeIsOfJob, HarnessUnchanged
<1>6. BriefsAreTrue'
  BY <1>0, <1>a, <1>b, StateFacts DEF BriefsAreTrue, Inventory, HarnessUnchanged
<1>7. ActiveIsOpen' /\ ReturnedIsListed'
  BY <1>0 DEF ActiveIsOpen, ReturnedIsListed, Inventory, HarnessUnchanged
<1>c. \A t \in Task : /\ job[t].log \in Nat /\ job'[t].log \in Nat /\ job'[t].log >= job[t].log
                      /\ OneStream(t)' => OneStream(t)
  BY TaskFacts, JobsGrow
<1>8. CursorIsBehindShown'
  <2>2. task_log_cursor \in Nat
    BY TaskFacts, ToolBoundAssumption
  <2>3. \A t \in Task : task_log_cursor <= job[t].log => task_log_cursor <= job'[t].log
    BY <1>c, <2>2
  <2>4. \A t : GotOf(t)' = GotOf(t)
    BY DEF GotOf, Observing, HarnessUnchanged
  <2>5. Observing' <=> Observing
    BY DEF Observing, HarnessUnchanged
  <2> QED
    BY <1>0, <1>c, <2>3, <2>4, <2>5 DEF CursorIsBehindShown, HarnessUnchanged
<1>9. OutputIsWhole'
  <2>1. \A t \in Task : Len(shown[t]) \in Nat
    BY TaskFacts, LenProperties
  <2>2. \A t \in sawEnd : job'[t].log = job[t].log
    BY <1>0, <1>b, TaskFacts DEF EndsAreSeen
  <2>3. \A t \in Task : Len(shown[t]) <= job[t].log => Len(shown[t]) <= job'[t].log
    BY <1>c, <2>1
  <2> QED
    BY <1>0, <1>c, <2>2, <2>3, TaskFacts DEF OutputIsWhole, HarnessUnchanged
<1> QED
  BY <1>1, <1>2, <1>3, <1>4, <1>5, <1>6, <1>7, <1>8, <1>9 DEF Believed, Counted

(* The parts together.                                                      *)
LEMMA TaskInvOf ==
    /\ TaskTypeOK' /\ JobsStartOnce' /\ Believed' /\ Counted' => TaskInv'
    /\ TaskInv => TaskTypeOK /\ JobsStartOnce /\ Believed /\ Counted
  BY Zenon DEF TaskInv, Believed, Counted

(* No job starts twice, and only one that has started is cancelled.         *)
LEMMA StartOnceOf ==
    ASSUME JobStep,
           \A u \in Task : Starting(u)' => job'[u].state = "absent",
           tcall'.pc = "launch" => <<"start", tcall'.task>> \notin threads',
           \A u \in Task : <<"cancel", u>> \in threads' =>
                job'[u].state # "absent" /\ (job'[u].held => u \in cancels')
    PROVE  JobsStartOnce'
  BY DEF JobsStartOnce, JobStep, JobSound

(* The runtime's steps.                                                     *)
LEMMA TaskRuntimeKeeps ==
    ASSUME TaskInv, NEW t \in Task,
           JobPrints(t) \/ JobEnds(t) \/ JobRecorded(t) \/ JobReleased(t) \/ ThreadGoesOn(t)
    PROVE  TaskInv'
<1>0. HarnessUnchanged
  BY DEF JobPrints, JobEnds, JobRecorded, JobReleased, ThreadGoesOn, HarnessUnchanged, taskContext,
         taskHistory
<1>1. JobsStartOnce /\ TaskTypeOK /\ ReadIsTrue
  BY DEF TaskInv
<1>2. ASSUME JobStep, threads' \subseteq threads,
             \A u \in Task : job[u].state = "absent" /\ Starting(u)' => job'[u].state = "absent"
      PROVE  TaskInv'
  <2>1. TaskTypeOK' /\ Believed' /\ Counted'
    BY <1>0, <1>2, JobMoves
  <2>2. JobsStartOnce'
    <3>1. \A u \in Task : Starting(u)' => Starting(u)
      BY <1>0, <1>2 DEF Starting, HarnessUnchanged
    <3>2. \A u \in Task : Starting(u)' => job'[u].state = "absent"
      BY <1>1, <1>2, <3>1 DEF JobsStartOnce
    <3>3. tcall'.pc = "launch" => <<"start", tcall'.task>> \notin threads'
      BY <1>0, <1>1, <1>2 DEF JobsStartOnce, HarnessUnchanged
    <3>4. \A u \in Task : <<"cancel", u>> \in threads' =>
             job[u].state # "absent" /\ (job[u].held => u \in cancels)
      BY <1>1, <1>2 DEF JobsStartOnce
    <3>5. \A u \in Task : job[u].state # "absent" =>
             job'[u].state # "absent" /\ (job'[u].held => job[u].held)
      <4>1. \A u \in Task : job[u] \in JobRecord /\ job'[u] \in JobRecord
        BY <1>2, TaskFacts, JobsGrow
      <4>2. \A u \in Task : JobGrows(job[u], job'[u])
        BY <1>2 DEF JobStep
      <4> QED
        BY <4>1, <4>2, JobFields DEF JobGrows
    <3>6. cancels \subseteq cancels'
      BY <1>2 DEF JobStep
    <3> QED
      BY <1>2, <3>2, <3>3, <3>4, <3>5, <3>6, StartOnceOf
  <2> QED
    BY <2>1, <2>2, TaskInvOf
<1>3. CASE JobPrints(t) \/ JobEnds(t) \/ JobRecorded(t) \/ JobReleased(t)
  <2>1. JobStep /\ \A u \in Task : job[u].state = "absent" => job'[u] = job[u]
    BY <1>3, PrintsStep, EndsStep, RecordedStep, ReleasedStep
  <2>2. threads' = threads
    BY <1>3 DEF JobPrints, JobEnds, JobRecorded, JobReleased
  <2> QED
    BY <1>2, <2>1, <2>2
<1>5. CASE ThreadGoesOn(t) /\ <<"start", t>> \in threads /\ Started(t)
           /\ threads' = threads \ {<<"start", t>>}
  <2>1. job[t].state = "absent" /\ ~(tcall.pc = "launch" /\ tcall.task = t)
    BY <1>1, <1>5 DEF JobsStartOnce, Starting
  <2>2. JobStep /\ \A u \in Task \ {t} : job'[u] = job[u]
    BY <1>5, <2>1, StartedStep DEF ThreadGoesOn
  <2>3. ~Starting(t)'
    BY <1>0, <1>5, <2>1 DEF Starting, HarnessUnchanged
  <2> QED
    BY <1>2, <1>5, <2>2, <2>3
<1>6. CASE ThreadGoesOn(t) /\ <<"cancel", t>> \in threads /\ threads' = threads \ {<<"cancel", t>>}
           /\ IF job[t].held THEN CancelledJob(t) ELSE UNCHANGED job
  <2>1. cancels' = cancels /\ job[t].state # "absent" /\ (job[t].held => t \in cancels)
    BY <1>1, <1>6 DEF JobsStartOnce, ThreadGoesOn
  <2>2. JobStep /\ \A u \in Task : job[u].state = "absent" => job'[u] = job[u]
    BY <1>1, <1>6, <2>1, CancelledStep, NoJob, TaskFacts
  <2> QED
    BY <1>2, <1>6, <2>2
<1> QED
  BY <1>3, <1>5, <1>6 DEF ThreadGoesOn

(* A call begins: nothing but the call changes.                             *)
BriefsUnchanged ==
    /\ active_task_id' = active_task_id /\ last_command_exit_code' = last_command_exit_code
    /\ task_briefs' = task_briefs
HistoryUnchanged ==
    /\ shown' = shown /\ codeOf' = codeOf /\ returned' = returned /\ sawEnd' = sawEnd

(* A step that leaves the jobs, the briefs and what was shown alone, and    *)
(* takes the call from one place to another.                                *)
CallMoves ==
    /\ job' = job /\ cancels \subseteq cancels' /\ cancels' \subseteq Task
    /\ BriefsUnchanged /\ HistoryUnchanged
    /\ cuts' \in 0..MaxCuts /\ partial' \subseteq Task /\ cursorOf' \in Task \cup {None}
    /\ task_log_cursor' \in 0..MaxLog
    /\ tcall' \in TaskCallRecord /\ (tcall'.pc = "idle" <=> tcall' = NoTaskCall)
    /\ threads' \subseteq {"start", "cancel"} \X Task
LEMMA CallMovesTypes ==
    ASSUME TaskInv, CallMoves
    PROVE  TaskTypeOK'
  BY TaskFacts DEF TaskInv, TaskTypeOK, CallMoves, BriefsUnchanged, HistoryUnchanged

(* What the context believes stays true when a call goes on.                *)
LEMMA CallMovesBeliefs ==
    ASSUME TaskInv, CallMoves
    PROVE  /\ BriefsAreTrue' /\ ActiveIsOpen' /\ ReturnedIsListed' /\ LastCodeIsOfJob'
           /\ JobStep /\ EndsAreSeen'
           /\ \A t \in Task :
                /\ job'[t].state = "absent" => task_briefs'[t].state = None /\ shown'[t] = <<>>
                /\ task_briefs'[t].exit_code # None => job'[t].ended = task_briefs'[t].exit_code
           /\ partial \subseteq partial' => OutputIsWhole'
<1>0. /\ job' = job /\ active_task_id' = active_task_id /\ cancels \subseteq cancels'
      /\ last_command_exit_code' = last_command_exit_code /\ task_briefs' = task_briefs
      /\ shown' = shown /\ codeOf' = codeOf /\ returned' = returned /\ sawEnd' = sawEnd
  BY DEF CallMoves, BriefsUnchanged, HistoryUnchanged
<1>1. BriefsAreTrue' /\ ActiveIsOpen' /\ ReturnedIsListed' /\ LastCodeIsOfJob'
  <2>1. BriefsAreTrue'
    BY <1>0 DEF TaskInv, BriefsAreTrue, Inventory
  <2> QED
    BY <1>0, <2>1, Zenon DEF TaskInv, ActiveIsOpen, ReturnedIsListed, LastCodeIsOfJob, Inventory
<1>2. JobStep /\ EndsAreSeen'
  <2>1. JobStep
    BY NoJob DEF TaskInv, CallMoves
  <2> QED
    BY <1>0, <2>1, Zenon DEF TaskInv, EndsAreSeen
<1>3. \A t \in Task :
         /\ job'[t].state = "absent" => task_briefs'[t].state = None /\ shown'[t] = <<>>
         /\ task_briefs'[t].exit_code # None => job'[t].ended = task_briefs'[t].exit_code
  BY <1>0 DEF TaskInv, BriefsAreOfJobs
<1>4. partial \subseteq partial' => OutputIsWhole'
  BY <1>0 DEF TaskInv, OutputIsWhole, OneStream
<1> QED
  BY <1>1, <1>2, <1>3, <1>4

(* run_command and start_task.                                              *)
LEMMA BeginStartKeeps ==
    ASSUME TaskInv, NEW tool \in {"run_command", "start_task"}, NEW t \in Task, NEW waits \in BOOLEAN,
           BeginStart(tool, t, waits)
    PROVE  TaskInv'
<1>0. /\ tcall = NoTaskCall /\ job[t] = Absent /\ <<"start", t>> \notin threads
      /\ tcall' = [NoTaskCall EXCEPT !.tool = tool, !.pc = "launch", !.task = t, !.waits = waits]
      /\ job' = job /\ cancels' = cancels /\ threads' = threads /\ task_log_cursor' = task_log_cursor
      /\ cuts' = cuts /\ partial' = partial /\ cursorOf' = cursorOf
      /\ BriefsUnchanged /\ HistoryUnchanged
  BY DEF BeginStart, Fresh, runtimeTasks, taskContext, taskHistory, BriefsUnchanged, HistoryUnchanged
<1>1. tcall' \in TaskCallRecord /\ tcall'.pc = "launch" /\ tcall'.task = t /\ tcall'.got = <<>>
  <2>1. tool \in TaskTool /\ "launch" \in TaskPc
    BY DEF TaskTool, TaskPc
  <2>2. t \in Task
    BY <1>0
  <2>3. LET c == [NoTaskCall EXCEPT !.tool = tool, !.pc = "launch", !.task = t, !.waits = waits]
        IN  c \in TaskCallRecord /\ c.pc = "launch" /\ c.task = t /\ c.got = <<>>
    BY <2>1, <2>2, CallFields, ZenonT(60) DEF TaskTool, TaskPc, Call, TaskCallRecord
  <2> QED
    BY <1>0, <2>3
<1>2. CallMoves
  BY <1>0, <1>1, TaskFacts, CallFields DEF CallMoves
<1>3. ~Observing' /\ ~Observing
  BY <1>0, <1>1, CallFields DEF Observing
<1>4. TaskTypeOK' /\ OutputIsWhole'
  BY <1>0, <1>2, CallMovesTypes, CallMovesBeliefs
<1>5. JobsStartOnce'
  <2>1. \A u \in Task : Starting(u)' => Starting(u) \/ u = t
    BY <1>0, <1>1 DEF Starting
  <2>2. \A u \in Task : Starting(u)' => job'[u].state = "absent"
    BY <1>0, <2>1, JobFields DEF TaskInv, JobsStartOnce
  <2>3. /\ tcall'.pc = "launch" => <<"start", tcall'.task>> \notin threads'
        /\ \A u \in Task : <<"cancel", u>> \in threads' =>
              job'[u].state # "absent" /\ (job'[u].held => u \in cancels')
    BY <1>0, <1>1 DEF TaskInv, JobsStartOnce
  <2> QED
    BY <1>2, <2>2, <2>3, CallMovesBeliefs, StartOnceOf
<1>6. ReadIsTrue'
  BY <1>1, <1>3 DEF ReadIsTrue
<1>7. BriefsAreOfJobs' /\ EndsAreSeen'
  BY <1>1, <1>2, CallMovesBeliefs DEF BriefsAreOfJobs
<1>8. CursorIsBehindShown'
  <2>1. \A u \in Task : GotOf(u)' = 0 /\ GotOf(u) = 0
    BY <1>3 DEF GotOf
  <2> QED
    BY <1>0, <1>3, <2>1 DEF TaskInv, CursorIsBehindShown, HistoryUnchanged, OneStream
<1>9. BriefsAreTrue' /\ ActiveIsOpen' /\ ReturnedIsListed' /\ LastCodeIsOfJob'
  BY <1>2, CallMovesBeliefs
<1> QED
  BY <1>4, <1>5, <1>6, <1>7, <1>8, <1>9, Zenon DEF TaskInv

(* observe_task and cancel_task.                                            *)
LEMMA BeginObserveKeeps ==
    ASSUME TaskInv, NEW t, NEW ref, BeginObserve(ref, t)
    PROVE  TaskInv'
<1>0. /\ tcall = NoTaskCall /\ t \in Task /\ job[t] # Absent
      /\ tcall' = Call(NoTaskCall, "observe_task", "get", t)
      /\ partial' = (IF cursorOf = t THEN partial ELSE partial \cup {t})
      /\ job' = job /\ cancels' = cancels /\ threads' = threads /\ task_log_cursor' = task_log_cursor
      /\ cuts' = cuts /\ cursorOf' = cursorOf
      /\ BriefsUnchanged /\ HistoryUnchanged
  BY DEF BeginObserve, runtimeTasks, taskContext, Call, BriefsUnchanged, HistoryUnchanged
<1>1. tcall' \in TaskCallRecord /\ tcall'.pc = "get" /\ tcall'.task = t /\ tcall'.got = <<>>
  <2>1. "observe_task" \in TaskTool /\ "get" \in TaskPc
    BY DEF TaskTool, TaskPc
  <2>2. t \in Task
    BY <1>0
  <2>3. LET c == Call(NoTaskCall, "observe_task", "get", t)
        IN  c \in TaskCallRecord /\ c.pc = "get" /\ c.task = t /\ c.got = <<>>
    BY <2>1, <2>2, CallFields DEF TaskTool, TaskPc, Call, TaskCallRecord
  <2> QED
    BY <1>0, <2>3
<1>2. CallMoves
  BY <1>0, <1>1, TaskFacts, CallFields DEF CallMoves
<1>3. Observing' /\ ~Observing
  BY <1>0, <1>1, CallFields DEF Observing
<1>4. TaskTypeOK' /\ OutputIsWhole'
  BY <1>0, <1>2, CallMovesTypes, CallMovesBeliefs
<1>5. JobsStartOnce'
  <2>1. \A u \in Task : Starting(u)' => Starting(u)
    BY <1>0, <1>1 DEF Starting
  <2>2. /\ \A u \in Task : Starting(u)' => job'[u].state = "absent"
        /\ tcall'.pc # "launch"
        /\ \A u \in Task : <<"cancel", u>> \in threads' =>
              job'[u].state # "absent" /\ (job'[u].held => u \in cancels')
    BY <1>0, <1>1, <2>1 DEF TaskInv, JobsStartOnce
  <2> QED
    BY <1>2, <2>2, CallMovesBeliefs, StartOnceOf
<1>6. ReadIsTrue'
  <2>1. job'[t].state # "absent"
    BY <1>0 DEF TaskInv, JobsStartOnce
  <2> QED
    BY <1>0, <1>1, <1>3, <2>1 DEF ReadIsTrue
<1>7. BriefsAreOfJobs' /\ EndsAreSeen'
  BY <1>1, <1>2, CallMovesBeliefs DEF BriefsAreOfJobs
<1>8. CursorIsBehindShown'
  <2>1. \A u \in Task : GotOf(u)' = 0 /\ GotOf(u) = 0
    BY <1>1, <1>3 DEF GotOf
  <2>2. cursorOf' = tcall'.task \/ tcall'.task \in partial'
    BY <1>0, <1>1
  <2> QED
    BY <1>0, <1>1, <1>3, <2>1, <2>2 DEF TaskInv, CursorIsBehindShown, HistoryUnchanged, OneStream
<1>9. BriefsAreTrue' /\ ActiveIsOpen' /\ ReturnedIsListed' /\ LastCodeIsOfJob'
  BY <1>2, CallMovesBeliefs
<1> QED
  BY <1>4, <1>5, <1>6, <1>7, <1>8, <1>9, Zenon DEF TaskInv

(* cancel_task begins.                                                      *)
LEMMA BeginCancelKeeps ==
    ASSUME TaskInv, NEW t, NEW ref, BeginCancel(ref, t)
    PROVE  TaskInv'
<1>0. /\ tcall = NoTaskCall /\ t \in Task /\ job[t] # Absent
      /\ tcall' = Call(NoTaskCall, "cancel_task", "cancel", t)
      /\ partial' = partial /\ job' = job /\ threads' = threads /\ task_log_cursor' = task_log_cursor
      /\ cancels' = IF job[t].held THEN cancels \cup {t} ELSE cancels
      /\ cuts' = cuts /\ cursorOf' = cursorOf
      /\ BriefsUnchanged /\ HistoryUnchanged
  BY DEF BeginCancel, runtimeTasks, taskContext, taskHistory, Call, BriefsUnchanged, HistoryUnchanged
<1>1. tcall' \in TaskCallRecord /\ tcall'.pc = "cancel" /\ tcall'.task = t /\ tcall'.got = <<>>
  <2>1. "cancel_task" \in TaskTool /\ "cancel" \in TaskPc
    BY DEF TaskTool, TaskPc
  <2>2. t \in Task
    BY <1>0
  <2>3. LET c == Call(NoTaskCall, "cancel_task", "cancel", t)
        IN  c \in TaskCallRecord /\ c.pc = "cancel" /\ c.task = t /\ c.got = <<>>
    BY <2>1, <2>2, CallFields DEF TaskTool, TaskPc, Call, TaskCallRecord
  <2> QED
    BY <1>0, <2>3
<1>2. CallMoves
  BY <1>0, <1>1, TaskFacts, CallFields DEF CallMoves
<1>3. ~Observing' /\ ~Observing
  BY <1>0, <1>1, CallFields DEF Observing
<1>4. TaskTypeOK' /\ OutputIsWhole'
  BY <1>0, <1>2, CallMovesTypes, CallMovesBeliefs
<1>5. JobsStartOnce'
  <2>1. \A u \in Task : Starting(u)' => Starting(u)
    BY <1>0, <1>1 DEF Starting
  <2>2. /\ \A u \in Task : Starting(u)' => job'[u].state = "absent"
        /\ tcall'.pc # "launch"
        /\ \A u \in Task : <<"cancel", u>> \in threads' =>
              job'[u].state # "absent" /\ (job'[u].held => u \in cancels')
    BY <1>0, <1>1, <2>1 DEF TaskInv, JobsStartOnce
  <2> QED
    BY <1>2, <2>2, CallMovesBeliefs, StartOnceOf
<1>6. ReadIsTrue'
  <2>1. job'[t].state # "absent"
    BY <1>0 DEF TaskInv, JobsStartOnce
  <2> QED
    BY <1>0, <1>1, <1>3, <2>1 DEF ReadIsTrue
<1>7. BriefsAreOfJobs' /\ EndsAreSeen'
  BY <1>1, <1>2, CallMovesBeliefs DEF BriefsAreOfJobs
<1>8. CursorIsBehindShown'
  <2>1. \A u \in Task : GotOf(u)' = 0 /\ GotOf(u) = 0
    BY <1>3 DEF GotOf
  <2> QED
    BY <1>0, <1>3, <2>1 DEF TaskInv, CursorIsBehindShown, HistoryUnchanged, OneStream
<1>9. BriefsAreTrue' /\ ActiveIsOpen' /\ ReturnedIsListed' /\ LastCodeIsOfJob'
  BY <1>2, CallMovesBeliefs
<1> QED
  BY <1>4, <1>5, <1>6, <1>7, <1>8, <1>9, Zenon DEF TaskInv

(* A call that is cut.                                                      *)
LEMMA TaskCallCutKeeps0 ==
    ASSUME TaskInv, TaskCallCut
    PROVE  TaskInv'
<1>0. /\ tcall.pc # "idle" /\ cuts < MaxCuts /\ cuts' = cuts + 1 /\ tcall' = NoTaskCall
      /\ threads' = threads \cup (IF tcall.pc = "launch" THEN {<<"start", tcall.task>>}
                                  ELSE IF tcall.pc = "cancel" THEN {<<"cancel", tcall.task>>}
                                  ELSE {})
      /\ partial' = (IF tcall.got = <<>> THEN partial ELSE partial \cup {tcall.task})
      /\ job' = job /\ cancels' = cancels
      /\ task_log_cursor' = task_log_cursor /\ cursorOf' = cursorOf
      /\ BriefsUnchanged /\ HistoryUnchanged
  BY DEF TaskCallCut, taskContext, BriefsUnchanged, HistoryUnchanged
<1>1. tcall.task \in Task
  BY <1>0 DEF TaskInv, ReadIsTrue
<1>2. CallMoves
  <2>1. cuts' \in 0..MaxCuts
    BY <1>0, TaskFacts, ToolBoundAssumption
  <2>2. threads' \subseteq {"start", "cancel"} \X Task
    BY <1>0, <1>1, TaskFacts
  <2> QED
    BY <1>0, <1>1, <2>1, <2>2, TaskFacts, CallFields DEF CallMoves
<1>3. ~Observing' /\ tcall'.pc = "idle" /\ tcall'.got = <<>>
  BY <1>0, CallFields DEF Observing
<1>4. TaskTypeOK' /\ OutputIsWhole'
  BY <1>0, <1>2, CallMovesTypes, CallMovesBeliefs
<1>5. JobsStartOnce'
  <2>1. \A u \in Task : Starting(u)' => Starting(u)
    BY <1>0, <1>1, <1>3 DEF Starting
  <2>2. /\ \A u \in Task : Starting(u)' => job'[u].state = "absent"
        /\ tcall'.pc # "launch"
    BY <1>0, <1>3, <2>1 DEF TaskInv, JobsStartOnce
  <2>3. tcall.pc = "cancel" =>
           job[tcall.task].state # "absent" /\ (job[tcall.task].held => tcall.task \in cancels)
    BY <1>0 DEF TaskInv, ReadIsTrue
  <2>4. \A u \in Task : <<"cancel", u>> \in threads' =>
           job'[u].state # "absent" /\ (job'[u].held => u \in cancels')
    BY <1>0, <2>3 DEF TaskInv, JobsStartOnce
  <2> QED
    BY <1>2, <2>2, <2>4, CallMovesBeliefs, StartOnceOf
<1>6. ReadIsTrue'
  BY <1>3 DEF ReadIsTrue
<1>7. BriefsAreOfJobs' /\ EndsAreSeen'
  BY <1>2, <1>3, CallMovesBeliefs DEF BriefsAreOfJobs
<1>8. CursorIsBehindShown'
  <2>1. \A u \in Task \ partial' : GotOf(u)' = 0 /\ GotOf(u) = 0
    <3>1. Observing /\ tcall.got # <<>> => tcall.task \in partial'
      BY <1>0
    <3> QED
      BY <1>3, <3>1 DEF GotOf
  <2>2. partial \subseteq partial'
    BY <1>0
  <2> QED
    BY <1>0, <1>3, <2>1, <2>2 DEF TaskInv, CursorIsBehindShown, HistoryUnchanged, OneStream
<1>9. BriefsAreTrue' /\ ActiveIsOpen' /\ ReturnedIsListed' /\ LastCodeIsOfJob'
  BY <1>2, CallMovesBeliefs
<1> QED
  BY <1>4, <1>5, <1>6, <1>7, <1>8, <1>9, Zenon DEF TaskInv

(* A call that goes on without starting a job or leaving a thread.          *)
LEMMA GoesOnStarts ==
    ASSUME TaskInv, CallMoves, threads' = threads, tcall'.pc # "launch"
    PROVE  JobsStartOnce'
<1>1. job' = job /\ cancels \subseteq cancels'
  BY DEF CallMoves
<1>2. \A u \in Task : Starting(u)' => Starting(u)
  BY DEF Starting
<1>3. /\ \A u \in Task : Starting(u)' => job'[u].state = "absent"
      /\ \A u \in Task : <<"cancel", u>> \in threads' =>
            job'[u].state # "absent" /\ (job'[u].held => u \in cancels')
  BY <1>1, <1>2 DEF TaskInv, JobsStartOnce
<1> QED
  BY <1>3, CallMovesBeliefs, StartOnceOf

(* The jobs change, the harness knows what it knew.                         *)
LEMMA JobBeliefs ==
    ASSUME TaskInv, JobStep, BriefsUnchanged, HistoryUnchanged, partial' = partial
    PROVE  /\ BriefsAreTrue' /\ ActiveIsOpen' /\ ReturnedIsListed' /\ LastCodeIsOfJob'
           /\ EndsAreSeen' /\ OutputIsWhole'
           /\ active_task_id' # None => job'[active_task_id'] # Absent
           /\ \A t \in Task :
                /\ job'[t].state = "absent" => task_briefs'[t].state = None /\ shown'[t] = <<>>
                /\ task_briefs'[t].exit_code # None => job'[t].ended = task_briefs'[t].exit_code
<1>0. /\ BriefsAreTrue /\ ActiveIsOpen /\ ReturnedIsListed /\ LastCodeIsOfJob
      /\ EndsAreSeen /\ OutputIsWhole /\ BriefsAreOfJobs /\ cancels \subseteq cancels'
      /\ active_task_id' = active_task_id /\ last_command_exit_code' = last_command_exit_code
      /\ task_briefs' = task_briefs /\ shown' = shown /\ codeOf' = codeOf
      /\ returned' = returned /\ sawEnd' = sawEnd
  BY DEF TaskInv, BriefsUnchanged, HistoryUnchanged, JobStep
<1>1. \A t \in Task : /\ job[t].state # "absent" => job'[t].state # "absent"
                      /\ job[t].ended # None => job'[t].ended = job[t].ended
                      /\ job[t].state # "absent" /\ ~job[t].watched =>
                            ~job'[t].watched /\ job'[t].log = job[t].log
  BY DEF JobStep, JobGrows
<1>2. BriefsAreTrue'
  BY <1>0, <1>1, StateFacts DEF BriefsAreTrue, Inventory
<1>3. ActiveIsOpen' /\ ReturnedIsListed'
  BY <1>0 DEF ActiveIsOpen, ReturnedIsListed, Inventory
<1>4. LastCodeIsOfJob'
  BY <1>0, <1>1 DEF LastCodeIsOfJob
<1>5. EndsAreSeen'
  BY <1>0, <1>1, TaskFacts DEF EndsAreSeen
<1>6. OutputIsWhole'
  <2>1. \A t \in Task : /\ Len(shown[t]) \in Nat /\ job[t].log \in Nat /\ job'[t].log \in Nat
                        /\ job'[t].log >= job[t].log /\ (OneStream(t)' => OneStream(t))
    BY TaskFacts, LenProperties, JobsGrow
  <2>2. \A t \in sawEnd : job'[t].log = job[t].log
    BY <1>0, <1>1, TaskFacts DEF EndsAreSeen
  <2>3. \A t \in Task : Len(shown[t]) <= job[t].log => Len(shown[t]) <= job'[t].log
    BY <2>1
  <2> QED
    BY <1>0, <2>1, <2>2, <2>3, TaskFacts DEF OutputIsWhole
<1>7. active_task_id' # None => job'[active_task_id'] # Absent
  BY <1>0, <1>1, TaskFacts, JobFields
<1>8. \A t \in Task :
         /\ job'[t].state = "absent" => task_briefs'[t].state = None /\ shown'[t] = <<>>
         /\ task_briefs'[t].exit_code # None => job'[t].ended = task_briefs'[t].exit_code
  BY <1>0, <1>1 DEF BriefsAreOfJobs
<1> QED
  BY <1>2, <1>3, <1>4, <1>5, <1>6, <1>7, <1>8

(* The cursor is where it was, and no call observes.                        *)
LEMMA CursorStays ==
    ASSUME TaskInv, JobStep, ~Observing', UNCHANGED <<task_log_cursor, cursorOf, shown, partial>>,
           \A t \in Task \ partial : GotOf(t) = 0
    PROVE  CursorIsBehindShown'
<1>1. \A t \in Task : /\ job[t].log \in Nat /\ job'[t].log \in Nat
                      /\ job'[t].log >= job[t].log
  BY TaskFacts, JobsGrow
<1>2. task_log_cursor \in Nat
  BY TaskFacts, ToolBoundAssumption
<1>3. \A t \in Task : task_log_cursor <= job[t].log => task_log_cursor <= job'[t].log
  BY <1>1, <1>2
<1>4. \A t \in Task : GotOf(t)' = 0
  BY DEF GotOf
<1> QED
  BY <1>3, <1>4 DEF TaskInv, CursorIsBehindShown

(* The record is read.                                                      *)
LEMMA ReadTaskKeeps ==
    ASSUME TaskInv, ReadTask
    PROVE  TaskInv'
<1>1. PICK c \in TaskCallRecord : c = tcall /\ c.pc = "get"
  BY TaskFacts DEF ReadTask
<1>2. PICK t \in Task : t = c.task /\ job[t].state # "absent"
  BY <1>1 DEF TaskInv, ReadIsTrue
<1>3. PICK j \in JobRecord : j = job[t] /\ j.state \in TaskStates /\ j.code \in Codes \cup {None}
  BY <1>2, TaskFacts, JobFields
<1>4. /\ tcall' = Read(c, "logs", j.state, j.code)
      /\ job' = job /\ cancels' = cancels /\ threads' = threads /\ task_log_cursor' = task_log_cursor
      /\ cuts' = cuts /\ cursorOf' = cursorOf /\ partial' = partial
      /\ BriefsUnchanged /\ HistoryUnchanged
  BY <1>1, <1>2, <1>3
     DEF ReadTask, Read, runtimeTasks, taskContext, taskHistory, BriefsUnchanged, HistoryUnchanged
<1>5. /\ tcall' \in TaskCallRecord /\ tcall'.pc = "logs" /\ tcall'.task = t /\ tcall'.got = c.got
      /\ tcall'.state = j.state /\ tcall'.code = j.code
  <2>1. PICK p \in TaskPc : p = "logs"
    BY DEF TaskPc
  <2>2. PICK x \in TaskStates \cup {None}, y \in Codes \cup {None} : x = j.state /\ y = j.code
    BY <1>3
  <2>3. LET d == Read(c, p, x, y)
        IN  d \in TaskCallRecord /\ d.pc = p /\ d.task = c.task /\ d.got = c.got /\ d.state = x /\ d.code = y
    BY MovedCall
  <2> QED
    BY <1>2, <1>4, <2>1, <2>2, <2>3
<1>6. CallMoves
  BY <1>4, <1>5, TaskFacts, CallFields DEF CallMoves
<1>7. Observing' /\ Observing
  BY <1>1, <1>5 DEF Observing
<1>8. TaskTypeOK' /\ OutputIsWhole'
  BY <1>4, <1>6, CallMovesTypes, CallMovesBeliefs
<1>9. JobsStartOnce'
  BY <1>4, <1>5, <1>6, GoesOnStarts
<1>10. ReadIsTrue'
  <2>1. JobSound(j, t \in cancels')
    BY <1>3, <1>4, JobNumbers DEF TaskInv
  <2> QED
    BY <1>2, <1>3, <1>4, <1>5, <1>7, <2>1, StateFacts, SMTT(40) DEF ReadIsTrue, JobSound
<1>11. BriefsAreOfJobs'
  BY <1>5, <1>6, CallMovesBeliefs DEF BriefsAreOfJobs
<1>12. EndsAreSeen'
  BY <1>6, CallMovesBeliefs
<1>13. CursorIsBehindShown'
  <2>1. \A u \in Task : GotOf(u)' = GotOf(u)
    BY <1>1, <1>2, <1>5, <1>7 DEF GotOf
  <2> QED
    BY <1>1, <1>2, <1>4, <1>5, <1>7, <2>1 DEF TaskInv, CursorIsBehindShown, HistoryUnchanged, OneStream
<1>14. BriefsAreTrue' /\ ActiveIsOpen' /\ ReturnedIsListed' /\ LastCodeIsOfJob'
  BY <1>6, CallMovesBeliefs
<1> QED
  BY <1>8, <1>9, <1>10, <1>11, <1>12, <1>13, <1>14, Zenon DEF TaskInv

(* The log is read.                                                         *)
LEMMA ReadLogsKeeps ==
    ASSUME TaskInv, ReadLogs
    PROVE  TaskInv'
<1>1. PICK c \in TaskCallRecord : c = tcall /\ c.pc = "logs"
  BY TaskFacts DEF ReadLogs
<1>2. PICK t \in Task : t = c.task /\ job[t].state # "absent"
  BY <1>1 DEF TaskInv, ReadIsTrue
<1>3. PICK len \in 0..MaxLog, err \in 0..MaxLog :
         len = job[t].log /\ len \in Nat /\ err = job[t].err /\ err \in Nat /\ err <= len
  BY <1>2, TaskFacts, JobFields
<1>4. /\ \E pc \in {"get", "observed"} : tcall' = ReadLen(c, pc, len, err)
      /\ job' = job /\ cancels' = cancels /\ threads' = threads /\ task_log_cursor' = task_log_cursor
      /\ cuts' = cuts /\ cursorOf' = cursorOf /\ partial' = partial
      /\ BriefsUnchanged /\ HistoryUnchanged
  <2>1. PICK again \in BOOLEAN :
           tcall' = [tcall EXCEPT !.pc = IF again THEN "get" ELSE "observed", !.len = job[tcall.task].log,
                                  !.err = job[tcall.task].err]
    BY DEF ReadLogs
  <2>2. \E pc \in {"get", "observed"} :
           tcall' = [tcall EXCEPT !.pc = pc, !.len = job[tcall.task].log, !.err = job[tcall.task].err]
    BY <2>1
  <2> QED
    BY <1>1, <1>2, <1>3, <2>2
       DEF ReadLogs, ReadLen, runtimeTasks, taskContext, taskHistory, BriefsUnchanged, HistoryUnchanged
<1>5. PICK pc \in {"get", "observed"} : tcall' = ReadLen(c, pc, len, err)
  BY <1>4
<1>6. /\ tcall' \in TaskCallRecord /\ tcall'.pc = pc /\ tcall'.task = t /\ tcall'.got = c.got
      /\ tcall'.state = c.state /\ tcall'.code = c.code /\ tcall'.len = len /\ tcall'.err = err
  <2>1. pc \in TaskPc
    BY <1>5 DEF TaskPc
  <2>2. LET d == ReadLen(c, pc, len, err)
        IN  /\ d \in TaskCallRecord /\ d.pc = pc /\ d.task = c.task /\ d.got = c.got /\ d.state = c.state
            /\ d.code = c.code /\ d.len = len /\ d.err = err
    BY <2>1, MovedCall
  <2> QED
    BY <1>2, <1>5, <2>2
<1>7. CallMoves
  BY <1>4, <1>6, TaskFacts, CallFields DEF CallMoves
<1>8. Observing' /\ Observing
  BY <1>1, <1>5, <1>6 DEF Observing
<1>9. TaskTypeOK' /\ OutputIsWhole'
  BY <1>4, <1>7, CallMovesTypes, CallMovesBeliefs
<1>10. JobsStartOnce'
  BY <1>4, <1>5, <1>6, <1>7, GoesOnStarts
<1>11. ReadIsTrue'
  <2>1. /\ c.state # None
        /\ Known(c.state) => ~job[t].watched /\ job[t].ended = Ended(c.state)
        /\ c.code # None => job[t].ended = c.code
        /\ c.state = "CANCELLED" => t \in cancels
    BY <1>1, <1>2 DEF TaskInv, ReadIsTrue
  <2>2. /\ err <= len /\ err <= job'[t].err /\ len - err <= job'[t].log - job'[t].err
        /\ len = job'[t].log
    BY <1>3, <1>4
  <2> QED
    BY <1>2, <1>4, <1>5, <1>6, <1>8, <2>1, <2>2 DEF ReadIsTrue
<1>12. BriefsAreOfJobs'
  BY <1>5, <1>6, <1>7, CallMovesBeliefs DEF BriefsAreOfJobs
<1>13. EndsAreSeen'
  BY <1>7, CallMovesBeliefs
<1>14. CursorIsBehindShown'
  <2>1. \A u \in Task : GotOf(u)' = GotOf(u)
    BY <1>1, <1>2, <1>6, <1>8 DEF GotOf
  <2>2. \A u \in Task \ partial : cursorOf = u /\ t = u => task_log_cursor <= len
    BY <1>2, <1>3 DEF TaskInv, CursorIsBehindShown
  <2> QED
    BY <1>1, <1>2, <1>4, <1>6, <1>8, <2>1, <2>2 DEF TaskInv, CursorIsBehindShown, HistoryUnchanged, OneStream
<1>15. BriefsAreTrue' /\ ActiveIsOpen' /\ ReturnedIsListed' /\ LastCodeIsOfJob'
  BY <1>7, CallMovesBeliefs
<1> QED
  BY <1>9, <1>10, <1>11, <1>12, <1>13, <1>14, <1>15, Zenon DEF TaskInv

(* The thread starts the task.                                              *)
LEMMA LaunchKeeps ==
    ASSUME TaskInv, Launch
    PROVE  TaskInv'
<1>1. PICK c \in TaskCallRecord : c = tcall /\ c.pc = "launch"
  BY TaskFacts DEF Launch
<1>2. PICK t \in Task : t = c.task
  BY <1>1 DEF TaskInv, ReadIsTrue
<1>3. job[t].state = "absent" /\ <<"start", t>> \notin threads
  BY <1>1, <1>2 DEF TaskInv, JobsStartOnce, Starting
<1>4. JobStep /\ job'[t].state = "RUNNING" /\ \A u \in Task \ {t} : job'[u] = job[u]
  BY <1>1, <1>2, <1>3, StartedStep DEF Launch
<1>5. /\ tcall' = At(c, "launched")
      /\ cancels' = cancels /\ threads' = threads /\ task_log_cursor' = task_log_cursor
      /\ cuts' = cuts /\ cursorOf' = cursorOf /\ partial' = partial
      /\ BriefsUnchanged /\ HistoryUnchanged
  BY <1>1 DEF Launch, At, taskContext, taskHistory, BriefsUnchanged, HistoryUnchanged
<1>6. /\ tcall' \in TaskCallRecord /\ tcall'.pc = "launched" /\ tcall'.task = t /\ tcall'.got = <<>>
  <2>1. PICK p \in TaskPc : p = "launched"
    BY DEF TaskPc
  <2>2. LET d == At(c, p) IN d \in TaskCallRecord /\ d.pc = p /\ d.task = c.task /\ d.got = c.got
    BY MovedCall
  <2>3. c.got = <<>>
    BY <1>1 DEF TaskInv, ReadIsTrue, Observing
  <2> QED
    BY <1>2, <1>5, <2>1, <2>2, <2>3
<1>7. ~Observing' /\ ~Observing
  BY <1>1, <1>6 DEF Observing
<1>8. TaskTypeOK'
  <2>1. active_task_id' # None => job'[active_task_id'] # Absent
    BY <1>4, <1>5, JobBeliefs
  <2>2. tcall'.pc = "idle" <=> tcall' = NoTaskCall
    BY <1>6, CallFields
  <2> QED
    BY <1>4, <1>5, <1>6, <2>1, <2>2, TaskFacts DEF TaskTypeOK, JobStep, BriefsUnchanged, HistoryUnchanged
<1>9. JobsStartOnce'
  <2>1. ~Starting(t)' /\ \A u \in Task : Starting(u)' => Starting(u)
    BY <1>3, <1>5, <1>6 DEF Starting
  <2>2. \A u \in Task : Starting(u)' => job'[u].state = "absent"
    BY <1>4, <2>1 DEF TaskInv, JobsStartOnce
  <2>3. \A u \in Task : <<"cancel", u>> \in threads' =>
           job'[u].state # "absent" /\ (job'[u].held => u \in cancels')
    BY <1>3, <1>4, <1>5 DEF TaskInv, JobsStartOnce
  <2> QED
    BY <1>4, <1>6, <2>2, <2>3, StartOnceOf
<1>10. ReadIsTrue'
  BY <1>4, <1>6, <1>7 DEF ReadIsTrue
<1>11. BriefsAreOfJobs'
  <2>1. task_briefs'[t].state = None /\ shown'[t] = <<>>
    BY <1>3, <1>5 DEF TaskInv, BriefsAreOfJobs, BriefsUnchanged, HistoryUnchanged
  <2> QED
    BY <1>4, <1>5, <1>6, <2>1, JobBeliefs DEF BriefsAreOfJobs
<1>12. EndsAreSeen' /\ OutputIsWhole'
  BY <1>4, <1>5, JobBeliefs
<1>13. CursorIsBehindShown'
  <2>1. \A u \in Task : GotOf(u) = 0
    BY <1>7 DEF GotOf
  <2> QED
    BY <1>4, <1>5, <1>7, <2>1, CursorStays DEF HistoryUnchanged
<1>14. BriefsAreTrue' /\ ActiveIsOpen' /\ ReturnedIsListed' /\ LastCodeIsOfJob'
  BY <1>4, <1>5, JobBeliefs
<1> QED
  BY <1>8, <1>9, <1>10, <1>11, <1>12, <1>13, <1>14, Zenon DEF TaskInv

(* record_task_brief of what is true of the task.                           *)
LEMMA MergedIsTrue ==
    ASSUME TaskInv, NEW t \in Task, NEW state \in TaskStates, NEW code \in Codes \cup {None},
           job[t].state # "absent", Known(state) => job[t].ended = Ended(state),
           code # None => job[t].ended = code, state = "CANCELLED" => t \in cancels,
           job' = job, cancels' = cancels, task_briefs' = Merged(t, state, code)
    PROVE  /\ task_briefs' \in [Task -> BriefRecord] /\ task_briefs'[t].state = state
           /\ \A u \in Task \ {t} : task_briefs'[u] = task_briefs[u]
           /\ \A u \in Task : task_briefs'[u].exit_code # None => job[u].ended = task_briefs'[u].exit_code
           /\ BriefsAreTrue'
           /\ \A u \in Task : job'[u].state = "absent" => task_briefs'[u].state = None
           /\ t \in Inventory' /\ Inventory \subseteq Inventory'
<1>1. task_briefs \in [Task -> BriefRecord] /\ task_briefs[t] \in BriefRecord
  BY TaskFacts
<1>2. PICK e \in Codes \cup {None} : e = IF code = None THEN task_briefs[t].exit_code ELSE code
  BY <1>1, BriefFields
<1>3. PICK b \in BriefRecord : b = [state |-> state, exit_code |-> e] /\ b.state = state /\ b.exit_code = e
  <2>1. LET b == [state |-> state, exit_code |-> e]
        IN  b \in BriefRecord /\ b.state = state /\ b.exit_code = e
    BY DEF BriefRecord
  <2> QED
    BY <2>1
<1>4. task_briefs' = [task_briefs EXCEPT ![t] = b]
  BY <1>1, <1>2, <1>3 DEF Merged
<1>5. task_briefs'[t] = b /\ task_briefs' \in [Task -> BriefRecord]
      /\ \A u \in Task \ {t} : task_briefs'[u] = task_briefs[u]
  BY <1>1, <1>4
<1>6. \A u \in Task : task_briefs'[u].exit_code # None => job[u].ended = task_briefs'[u].exit_code
  BY <1>2, <1>3, <1>5 DEF TaskInv, BriefsAreOfJobs
<1>7. BriefsAreTrue'
  BY <1>3, <1>5, <1>6, StateFacts DEF TaskInv, BriefsAreTrue, Inventory
<1>8. \A u \in Task : job'[u].state = "absent" => task_briefs'[u].state = None
  BY <1>5 DEF TaskInv, BriefsAreOfJobs
<1>9. t \in Inventory' /\ Inventory \subseteq Inventory'
  BY <1>3, <1>5, StateFacts DEF Inventory
<1> QED
  BY <1>3, <1>5, <1>6, <1>7, <1>8, <1>9

(* The starting call is back in the coroutine.                              *)
LEMMA LaunchReturnsKeeps ==
    ASSUME TaskInv, LaunchReturns
    PROVE  TaskInv'
<1>1. PICK c \in TaskCallRecord : c = tcall /\ c.pc = "launched"
  BY TaskFacts DEF LaunchReturns
<1>2. PICK t \in Task : t = c.task /\ job[t].state # "absent"
  BY <1>1 DEF TaskInv, ReadIsTrue
<1>3. task_briefs[t].state = None /\ shown[t] = <<>> /\ c.got = <<>>
  BY <1>1, <1>2 DEF TaskInv, BriefsAreOfJobs, ReadIsTrue, Observing
<1>4. /\ active_task_id' = t /\ task_log_cursor' = 0 /\ cursorOf' = t /\ last_command_exit_code' = None
      /\ job' = job /\ cancels' = cancels /\ threads' = threads /\ cuts' = cuts /\ shown' = shown
      /\ partial' = partial /\ sawEnd' = sawEnd /\ codeOf' = t
  BY <1>1, <1>2 DEF LaunchReturns, runtimeTasks
<1>5. \/ tcall' = At(c, "get") /\ task_briefs' = task_briefs /\ returned' = returned
      \/ tcall' = NoTaskCall /\ task_briefs' = Merged(t, "RUNNING", None) /\ returned' = returned \cup {t}
  BY <1>1, <1>2 DEF LaunchReturns, StartReturns, Recorded, At
<1>6. /\ tcall' \in TaskCallRecord /\ (tcall'.pc = "idle" <=> tcall' = NoTaskCall) /\ tcall'.got = <<>>
      /\ tcall'.pc \in {"idle", "get"} /\ (tcall'.pc = "get" => tcall'.task = t)
  <2>1. PICK p \in TaskPc : p = "get"
    BY DEF TaskPc
  <2>2. LET d == At(c, p) IN d \in TaskCallRecord /\ d.pc = p /\ d.task = c.task /\ d.got = c.got
    BY MovedCall
  <2> QED
    BY <1>2, <1>3, <1>5, <2>1, <2>2, CallFields
<1>7. /\ task_briefs' \in [Task -> BriefRecord]
      /\ \A u \in Task : /\ task_briefs'[u].exit_code # None => job[u].ended = task_briefs'[u].exit_code
                         /\ job'[u].state = "absent" => task_briefs'[u].state = None
      /\ BriefsAreTrue' /\ task_briefs'[t].state \in {None, "RUNNING"} /\ returned' \subseteq Inventory'
      /\ returned' \subseteq Task
  <2>1. CASE task_briefs' = task_briefs /\ returned' = returned
    BY <1>3, <1>4, <2>1, TaskFacts
       DEF TaskInv, BriefsAreOfJobs, BriefsAreTrue, Inventory, ReturnedIsListed
  <2>2. CASE task_briefs' = Merged(t, "RUNNING", None) /\ returned' = returned \cup {t}
    <3>1. PICK r \in TaskStates, n \in Codes \cup {None} : r = "RUNNING" /\ n = None
      BY StateFacts
    <3>2. ~Known(r) /\ r # "CANCELLED"
      BY <3>1, StateFacts
    <3>3. /\ task_briefs' \in [Task -> BriefRecord] /\ task_briefs'[t].state = r
          /\ \A u \in Task : task_briefs'[u].exit_code # None => job[u].ended = task_briefs'[u].exit_code
          /\ BriefsAreTrue'
          /\ \A u \in Task : job'[u].state = "absent" => task_briefs'[u].state = None
          /\ t \in Inventory' /\ Inventory \subseteq Inventory'
      BY <1>2, <1>4, <2>2, <3>1, <3>2, MergedIsTrue
    <3>4. returned \subseteq Inventory /\ returned \subseteq Task
      BY TaskFacts DEF TaskInv, ReturnedIsListed
    <3> QED
      BY <2>2, <3>1, <3>3, <3>4
  <2> QED
    BY <1>5, <2>1, <2>2
<1>8. TaskTypeOK'
  <2>1. job'[active_task_id'] # Absent
    BY <1>2, <1>4, JobFields
  <2> QED
    BY <1>4, <1>6, <1>7, <2>1, TaskFacts, ToolBoundAssumption DEF TaskTypeOK
<1>9. JobsStartOnce'
  <2>1. \A u \in Task : Starting(u)' => Starting(u)
    BY <1>4, <1>6 DEF Starting
  <2>2. JobStep
    BY <1>4, NoJob, TaskFacts DEF TaskInv
  <2>3. /\ \A u \in Task : Starting(u)' => job'[u].state = "absent"
        /\ \A u \in Task : <<"cancel", u>> \in threads' =>
              job'[u].state # "absent" /\ (job'[u].held => u \in cancels')
    BY <1>4, <2>1 DEF TaskInv, JobsStartOnce
  <2> QED
    BY <1>6, <2>2, <2>3, StartOnceOf
<1>10. ReadIsTrue'
  BY <1>2, <1>4, <1>6 DEF ReadIsTrue
<1>11. BriefsAreOfJobs'
  BY <1>4, <1>6, <1>7 DEF TaskInv, BriefsAreOfJobs
<1>12. EndsAreSeen'
  BY <1>4, <1>6 DEF TaskInv, EndsAreSeen
<1>13. CursorIsBehindShown'
  <2>1. GotOf(t)' = 0
    BY <1>6 DEF GotOf
  <2>2. shown'[t] = <<>> /\ Len(shown'[t]) = 0 /\ job'[t].log \in Nat
    BY <1>2, <1>3, <1>4, TaskFacts
  <2>3. Observing' => tcall'.task = t
    BY <1>6 DEF Observing
  <2>4. task_log_cursor' = Len(shown'[t]) + GotOf(t)' /\ task_log_cursor' <= job'[t].log
    BY <1>4, <2>1, <2>2
  <2> QED
    BY <1>4, <1>6, <2>3, <2>4 DEF CursorIsBehindShown
<1>14. ActiveIsOpen' /\ ReturnedIsListed' /\ LastCodeIsOfJob'
  <2>1. ActiveIsOpen'
    BY <1>4, <1>7, StateFacts DEF ActiveIsOpen, Over
  <2> QED
    BY <1>4, <1>7, <2>1 DEF ReturnedIsListed, LastCodeIsOfJob
<1>15. OutputIsWhole'
  BY <1>4 DEF TaskInv, OutputIsWhole, OneStream
<1> QED
  BY <1>7, <1>8, <1>9, <1>10, <1>11, <1>12, <1>13, <1>14, <1>15, Zenon DEF TaskInv

(* The cancelling thread.                                                   *)
LEMMA CancelRunsKeeps ==
    ASSUME TaskInv, CancelRuns
    PROVE  TaskInv'
<1>1. PICK c \in TaskCallRecord : c = tcall /\ c.pc = "cancel"
  BY TaskFacts DEF CancelRuns
<1>2. PICK t \in Task : t = c.task /\ job[t].state # "absent" /\ (job[t].held => t \in cancels)
  BY <1>1 DEF TaskInv, ReadIsTrue
<1>3. /\ cancels' = cancels /\ threads' = threads /\ task_log_cursor' = task_log_cursor
      /\ cuts' = cuts /\ cursorOf' = cursorOf /\ partial' = partial
      /\ BriefsUnchanged /\ HistoryUnchanged
  BY DEF CancelRuns, taskContext, taskHistory, BriefsUnchanged, HistoryUnchanged
<1>4. /\ JobStep /\ \A u \in Task : job[u].state = "absent" => job'[u] = job[u]
      /\ \/ tcall' = NoTaskCall
         \/ /\ job[t].held /\ job'[t].state = "CANCELLED" /\ job'[t].code \in Codes \cup {None}
            /\ job'[t].code # None => job'[t].ended = job'[t].code
            /\ tcall' = Read(c, "cancelled", "CANCELLED", job'[t].code)
  <2>1. CASE job[t].held
    <3>1. CancelledJob(t) /\ tcall' = Read(c, "cancelled", "CANCELLED", job'[t].code)
      BY <1>1, <1>2, <2>1 DEF CancelRuns, Read
    <3> QED
      BY <1>2, <1>3, <2>1, <3>1, CancelledStep
  <2>2. CASE ~job[t].held
    <3>1. job' = job /\ tcall' = NoTaskCall
      BY <1>1, <1>2, <2>2 DEF CancelRuns
    <3> QED
      BY <1>3, <3>1, NoJob, TaskFacts DEF TaskInv
  <2> QED
    BY <2>1, <2>2
<1>5. /\ tcall' \in TaskCallRecord /\ tcall'.got = <<>> /\ tcall'.pc \in {"idle", "cancelled"}
      /\ (tcall'.pc = "idle" <=> tcall' = NoTaskCall)
      /\ tcall'.pc = "cancelled" => /\ tcall'.task = t /\ tcall'.state = "CANCELLED"
                                    /\ tcall'.code # None => job'[t].ended = tcall'.code
                                    /\ t \in cancels
  <2>1. CASE tcall' = NoTaskCall
    BY <2>1, CallFields
  <2>2. CASE /\ job[t].held /\ job'[t].state = "CANCELLED" /\ job'[t].code \in Codes \cup {None}
             /\ job'[t].code # None => job'[t].ended = job'[t].code
             /\ tcall' = Read(c, "cancelled", "CANCELLED", job'[t].code)
    <3>1. PICK p \in TaskPc : p = "cancelled"
      BY DEF TaskPc
    <3>2. PICK x \in TaskStates \cup {None}, y \in Codes \cup {None} :
             x = "CANCELLED" /\ y = job'[t].code
      BY <2>2, StateFacts
    <3>3. LET d == Read(c, p, x, y)
          IN  d \in TaskCallRecord /\ d.pc = p /\ d.task = c.task /\ d.got = c.got /\ d.state = x /\ d.code = y
      BY MovedCall
    <3>4. c.got = <<>>
      BY <1>1 DEF TaskInv, ReadIsTrue, Observing
    <3>5. /\ tcall' \in TaskCallRecord /\ tcall'.pc = "cancelled" /\ tcall'.task = t
          /\ tcall'.got = <<>> /\ tcall'.state = "CANCELLED" /\ tcall'.code = job'[t].code
      BY <1>2, <2>2, <3>1, <3>2, <3>3, <3>4
    <3> QED
      BY <1>2, <2>2, <3>5, CallFields
  <2> QED
    BY <1>4, <2>1, <2>2
<1>6. ~Observing' /\ ~Observing
  BY <1>1, <1>5 DEF Observing
<1>7. TaskTypeOK'
  <2>1. active_task_id' # None => job'[active_task_id'] # Absent
    BY <1>3, <1>4, JobBeliefs
  <2> QED
    BY <1>3, <1>4, <1>5, <2>1, TaskFacts DEF TaskTypeOK, JobStep, BriefsUnchanged, HistoryUnchanged
<1>8. JobsStartOnce'
  <2>1. \A u \in Task : Starting(u)' => Starting(u)
    BY <1>3, <1>5 DEF Starting
  <2>2. \A u \in Task : Starting(u)' => job'[u].state = "absent"
    BY <1>4, <2>1 DEF TaskInv, JobsStartOnce
  <2>3. \A u \in Task : /\ job[u].state # "absent" => job'[u].state # "absent"
                        /\ job[u].state # "absent" /\ ~job[u].held => ~job'[u].held
    BY <1>4 DEF JobStep, JobGrows
  <2>4. \A u \in Task : <<"cancel", u>> \in threads' =>
           job'[u].state # "absent" /\ (job'[u].held => u \in cancels')
    BY <1>3, <2>3 DEF TaskInv, JobsStartOnce
  <2> QED
    BY <1>4, <1>5, <2>2, <2>4, StartOnceOf
<1>9. ReadIsTrue'
  <2>1. job'[t].state # "absent"
    BY <1>2, <1>4 DEF JobStep, JobGrows
  <2> QED
    BY <1>3, <1>5, <1>6, <2>1, StateFacts DEF ReadIsTrue
<1>10. BriefsAreOfJobs'
  BY <1>3, <1>4, <1>5, JobBeliefs DEF BriefsAreOfJobs
<1>11. CursorIsBehindShown'
  <2>1. \A u \in Task : GotOf(u) = 0
    BY <1>6 DEF GotOf
  <2> QED
    BY <1>3, <1>4, <1>6, <2>1, CursorStays DEF HistoryUnchanged
<1>12. /\ BriefsAreTrue' /\ ActiveIsOpen' /\ ReturnedIsListed' /\ LastCodeIsOfJob'
       /\ EndsAreSeen' /\ OutputIsWhole'
  BY <1>3, <1>4, JobBeliefs
<1> QED
  BY <1>7, <1>8, <1>9, <1>10, <1>11, <1>12, Zenon DEF TaskInv

(* cancel_task returns.                                                     *)
LEMMA CancelReturnsKeeps ==
    ASSUME TaskInv, CancelReturns
    PROVE  TaskInv'
<1>1. PICK c \in TaskCallRecord : c = tcall /\ c.pc = "cancelled"
  BY TaskFacts DEF CancelReturns
<1>2. PICK t \in Task : t = c.task /\ job[t].state # "absent"
  BY <1>1 DEF TaskInv, ReadIsTrue
<1>3. PICK state \in TaskStates, code \in Codes \cup {None} :
         /\ state = c.state /\ code = c.code
         /\ Known(state) => job[t].ended = Ended(state)
         /\ code # None => job[t].ended = code
         /\ state = "CANCELLED" => t \in cancels
  BY <1>1, <1>2, CallFields DEF TaskInv, ReadIsTrue
<1>4. /\ active_task_id' = None /\ tcall' = NoTaskCall /\ task_briefs' = Merged(t, state, code)
      /\ task_log_cursor' = task_log_cursor /\ cursorOf' = cursorOf
      /\ last_command_exit_code' = last_command_exit_code
      /\ job' = job /\ cancels' = cancels /\ threads' = threads /\ cuts' = cuts /\ shown' = shown
      /\ partial' = partial /\ sawEnd' = sawEnd /\ returned' = returned /\ codeOf' = codeOf
  BY <1>1, <1>2, <1>3 DEF CancelReturns, Recorded, runtimeTasks, taskHistory
<1>5. /\ task_briefs' \in [Task -> BriefRecord]
      /\ \A u \in Task : task_briefs'[u].exit_code # None => job[u].ended = task_briefs'[u].exit_code
      /\ BriefsAreTrue'
      /\ \A u \in Task : job'[u].state = "absent" => task_briefs'[u].state = None
      /\ Inventory \subseteq Inventory'
  BY <1>2, <1>3, <1>4, MergedIsTrue
<1>6. tcall'.pc = "idle" /\ tcall'.got = <<>> /\ ~Observing' /\ ~Observing
  BY <1>1, <1>4, CallFields DEF Observing
<1>7. TaskTypeOK'
  BY <1>4, <1>5, <1>6, TaskFacts, CallFields DEF TaskTypeOK
<1>8. JobsStartOnce'
  <2>1. \A u \in Task : Starting(u)' => Starting(u)
    BY <1>4, <1>6 DEF Starting
  <2>2. JobStep
    BY <1>4, NoJob, TaskFacts DEF TaskInv
  <2>3. /\ \A u \in Task : Starting(u)' => job'[u].state = "absent"
        /\ \A u \in Task : <<"cancel", u>> \in threads' =>
              job'[u].state # "absent" /\ (job'[u].held => u \in cancels')
    BY <1>4, <2>1 DEF TaskInv, JobsStartOnce
  <2> QED
    BY <1>6, <2>2, <2>3, StartOnceOf
<1>9. ReadIsTrue'
  BY <1>6 DEF ReadIsTrue
<1>10. BriefsAreOfJobs'
  BY <1>4, <1>5, <1>6 DEF TaskInv, BriefsAreOfJobs
<1>11. EndsAreSeen' /\ LastCodeIsOfJob'
  BY <1>4, <1>6 DEF TaskInv, EndsAreSeen, LastCodeIsOfJob
<1>12. CursorIsBehindShown'
  <2>1. \A u \in Task : GotOf(u)' = 0 /\ GotOf(u) = 0
    BY <1>6 DEF GotOf
  <2> QED
    BY <1>4, <1>6, <2>1 DEF TaskInv, CursorIsBehindShown
<1>13. ActiveIsOpen' /\ ReturnedIsListed'
  BY <1>4, <1>5 DEF TaskInv, ActiveIsOpen, ReturnedIsListed
<1>14. OutputIsWhole'
  BY <1>4 DEF TaskInv, OutputIsWhole, OneStream
<1> QED
  BY <1>5, <1>7, <1>8, <1>9, <1>10, <1>11, <1>12, <1>13, <1>14, Zenon DEF TaskInv

(* The joined rows are characters; those of one stream stand in its order.  *)
LEMMA TextOfLogs ==
    ASSUME NEW len \in 0..MaxLog, NEW err \in 0..MaxLog, err <= len, NEW p \in 1..len
    PROVE  /\ LogsText(len, err)[p] \in Char
           /\ err \in {0, len} => LogsText(len, err)[p][2] = p
<1>1. PICK n \in Nat, e \in Nat, m \in Nat : n = len /\ e = err /\ m = MaxLog /\ e <= n /\ n <= m
  BY ToolBoundAssumption
<1>2. PICK out \in Nat : out = len - err
  BY <1>1
<1>3. PICK both \in Nat : both = IF err < out THEN err ELSE out
  BY <1>1, <1>2
<1>4. PICK q \in Nat : q = p /\ q >= 1 /\ q <= n
  BY <1>1
<1>5. LogsText(len, err)[p] =
         IF q > 2 * both THEN <<IF err < out THEN "stdout" ELSE "stderr", q - both>>
         ELSE <<IF q % 2 = 1 THEN "stdout" ELSE "stderr", (q + 1) \div 2>>
  BY <1>2, <1>3, <1>4 DEF LogsText
<1>6. q > 2 * both => q - both \in 1..MaxLog
  BY <1>1, <1>3, <1>4
<1>7. (q + 1) \div 2 \in 1..MaxLog
  BY <1>1, <1>4
<1>8. err \in {0, len} => both = 0 /\ q > 2 * both /\ q - both = q
  BY <1>1, <1>2, <1>3, <1>4
<1>9. PICK x, y : /\ x = IF err < out THEN "stdout" ELSE "stderr"
                  /\ y = IF q % 2 = 1 THEN "stdout" ELSE "stderr"
                  /\ x \in {"stdout", "stderr"} /\ y \in {"stdout", "stderr"}
  OBVIOUS
<1>10. LogsText(len, err)[p] = IF q > 2 * both THEN <<x, q - both>> ELSE <<y, (q + 1) \div 2>>
  BY <1>5, <1>9
<1>11. LogsText(len, err)[p] \in Char
  <2>1. CASE q > 2 * both
    BY <1>6, <1>9, <1>10, <2>1 DEF Char
  <2>2. CASE ~(q > 2 * both)
    BY <1>7, <1>9, <1>10, <2>2 DEF Char
  <2> QED
    BY <2>1, <2>2
<1>12. err \in {0, len} => LogsText(len, err)[p][2] = p
  BY <1>4, <1>8, <1>10
<1> QED
  BY <1>11, <1>12

(* The characters a poll returns: as many as there are behind the cursor,   *)
(* and if the task prints on one stream, those.                             *)
LEMMA ChunkIsNext ==
    ASSUME TaskInv, tcall.pc = "observed"
    PROVE  /\ Chunk \in Seq(Char)
           /\ task_log_cursor <= tcall.len => Len(Chunk) = tcall.len - task_log_cursor
           /\ OneStream(tcall.task) => \A i \in 1..Len(Chunk) : Chunk[i][2] = task_log_cursor + i
<1>1. PICK c \in 0..MaxLog, n \in 0..MaxLog, e \in 0..MaxLog :
         c = task_log_cursor /\ n = tcall.len /\ e = tcall.err
  BY TaskFacts, CallFields
<1>2. PICK k \in Nat : /\ k = (IF n < c THEN 0 ELSE n - c) /\ (c <= n => k = n - c)
                       /\ k <= n /\ (k # 0 => n - k = c)
  BY <1>1, ToolBoundAssumption
<1>3. Chunk = [i \in 1..k |-> LogsText(n, e)[n - k + i]]
  BY <1>1, <1>2 DEF Chunk
<1>4. tcall.task \in Task /\ e <= n /\ e <= job[tcall.task].err
      /\ n - e <= job[tcall.task].log - job[tcall.task].err
  BY <1>1 DEF TaskInv, ReadIsTrue
<1>5. \A i \in 1..k : n - k + i \in 1..n
  BY <1>1, <1>2, ToolBoundAssumption
<1>6. \A i \in 1..k : /\ LogsText(n, e)[n - k + i] \in Char
                      /\ e \in {0, n} => LogsText(n, e)[n - k + i][2] = n - k + i
  BY <1>1, <1>4, <1>5, TextOfLogs
<1>7. Chunk \in Seq(Char) /\ Len(Chunk) = k
  <2>1. PICK f : f = Chunk
    OBVIOUS
  <2>2. f \in [1..k -> Char]
    BY <1>3, <1>6, <2>1
  <2>3. f \in Seq(Char) /\ Len(f) = k
    BY <2>2
  <2> QED
    BY <2>1, <2>3
<1>8. OneStream(tcall.task) => e \in {0, n}
  <2>1. job[tcall.task].err \in Nat /\ job[tcall.task].log \in Nat
    BY <1>4, TaskFacts
  <2>2. n \in Nat /\ e \in Nat
    BY <1>1, ToolBoundAssumption
  <2> QED
    BY <1>4, <2>1, <2>2 DEF OneStream
<1>9. \A i \in 1..k : n - k + i = c + i
  BY <1>1, <1>2, ToolBoundAssumption
<1> QED
  BY <1>1, <1>2, <1>3, <1>6, <1>7, <1>8, <1>9

(* What follows what was shown, in order, makes it longer, in order.        *)
LEMMA Continued ==
    ASSUME NEW s \in Seq(Char), NEW g \in Seq(Char), NEW k \in Nat,
           \A i \in 1..Len(s) : s[i][2] = k + i,
           \A i \in 1..Len(g) : g[i][2] = k + Len(s) + i
    PROVE  \A i \in 1..Len(s \o g) : (s \o g)[i][2] = k + i
<1>1. PICK a \in Nat, b \in Nat : a = Len(s) /\ b = Len(g)
  OBVIOUS
<1>2. Len(s \o g) = a + b
  BY <1>1
<1>3. \A i \in 1..a : (s \o g)[i] = s[i]
  BY <1>1
<1>4. ASSUME NEW i \in (a + 1)..(a + b)
      PROVE  (s \o g)[i][2] = k + i
  <2>1. (s \o g)[i] = g[i - a] /\ i - a \in 1..b
    BY <1>1, <1>4
  <2>2. g[i - a][2] = k + a + (i - a)
    BY <1>1, <2>1
  <2> QED
    BY <1>1, <2>1, <2>2
<1>5. \A i \in 1..(a + b) : i \in 1..a \/ i \in (a + 1)..(a + b)
  BY <1>1
<1> QED
  BY <1>1, <1>2, <1>3, <1>4, <1>5

(* What an observation of a task's own log has returned follows what was    *)
(* shown of it.                                                             *)
LEMMA GotIsNext ==
    ASSUME TaskInv, tcall.pc = "observed"
    PROVE  /\ tcall.got \o Chunk \in Seq(Char)
           /\ tcall.task \notin partial =>
                /\ Len(shown[tcall.task]) + Len(tcall.got \o Chunk) = tcall.len
                /\ OneStream(tcall.task) =>
                      \A i \in 1..Len(tcall.got \o Chunk) :
                          (tcall.got \o Chunk)[i][2] = Len(shown[tcall.task]) + i
<1>1. PICK t \in Task : t = tcall.task
  BY DEF TaskInv, ReadIsTrue
<1>2. Observing
  BY DEF Observing
<1>3. PICK s \in Seq(Char), g \in Seq(Char), h \in Seq(Char) :
         s = shown[t] /\ g = tcall.got /\ h = Chunk
  BY <1>1, TaskFacts, CallFields, ChunkIsNext
<1>4. g \o h \in Seq(Char) /\ Len(g \o h) = Len(g) + Len(h)
  OBVIOUS
<1>5. ASSUME t \notin partial
      PROVE  /\ Len(s) + Len(g \o h) = tcall.len
             /\ OneStream(t) => \A i \in 1..Len(g \o h) : (g \o h)[i][2] = Len(s) + i
  <2>1. cursorOf = t
    BY <1>1, <1>2, <1>5 DEF TaskInv, CursorIsBehindShown
  <2>2. PICK x \in Nat, n \in Nat, m \in Nat, a \in Nat, b \in Nat :
           x = task_log_cursor /\ n = tcall.len /\ m = Len(s) /\ a = Len(g) /\ b = Len(h)
    <3>1. task_log_cursor \in 0..MaxLog /\ tcall.len \in 0..MaxLog
      BY TaskFacts, CallFields
    <3>2. task_log_cursor \in Nat /\ tcall.len \in Nat
      BY <3>1, ToolBoundAssumption
    <3> QED
      BY <3>2
  <2>3. x = m + a /\ x <= n /\ (OneStream(t) => \A i \in 1..Len(g) : g[i][2] = m + i)
    <3>1. /\ task_log_cursor = Len(shown[t]) + GotOf(t)
          /\ OneStream(t) => \A i \in 1..Len(tcall.got) : tcall.got[i][2] = Len(shown[t]) + i
          /\ task_log_cursor <= tcall.len
      BY <1>1, <1>2, <1>5, <2>1 DEF TaskInv, CursorIsBehindShown
    <3>2. GotOf(t) = Len(tcall.got)
      BY <1>1, <1>2 DEF GotOf
    <3> QED
      BY <1>3, <2>2, <3>1, <3>2
  <2>4. b = n - x /\ (OneStream(t) => \A i \in 1..Len(h) : h[i][2] = x + i)
    BY <1>1, <1>3, <2>2, <2>3, ChunkIsNext
  <2>5. m + Len(g \o h) = n
    <3>1. PICK ab \in Nat : ab = Len(g \o h) /\ ab = a + b
      BY <1>4, <2>2
    <3>2. x = m + a /\ x <= n /\ b = n - x
      BY <2>3, <2>4
    <3>3. m + ab = n
      BY <3>1, <3>2
    <3> QED
      BY <3>1, <3>3
  <2>6. ASSUME OneStream(t)
        PROVE  \A i \in 1..Len(g \o h) : (g \o h)[i][2] = m + i
    <3>1. \A i \in 1..Len(g) : g[i][2] = m + i
      BY <2>3, <2>6
    <3>2. \A i \in 1..Len(h) : h[i][2] = m + Len(g) + i
      BY <2>2, <2>3, <2>4, <2>6
    <3> QED
      BY <2>2, <3>1, <3>2, Continued
  <2> QED
    BY <2>2, <2>5, <2>6
<1> QED
  BY <1>1, <1>3, <1>4, <1>5

(* What the end of an observation shows of a task whose log was read at its *)
(* own cursor.                                                              *)
LEMMA ShownIsWhole ==
    ASSUME TaskInv, tcall.pc = "observed", tcall.task \notin partial
    PROVE  LET s == shown[tcall.task] \o (tcall.got \o Chunk)
           IN  /\ s \in Seq(Char) /\ Len(s) = tcall.len /\ Len(s) >= Len(shown[tcall.task])
               /\ OneStream(tcall.task) => \A i \in 1..Len(s) : s[i][2] = i
<1>1. PICK t \in Task : t = tcall.task
  BY DEF TaskInv, ReadIsTrue
<1>2. PICK s \in Seq(Char), g \in Seq(Char) : s = shown[t] /\ g = tcall.got \o Chunk
  BY <1>1, TaskFacts, GotIsNext
<1>3. s \o g \in Seq(Char) /\ Len(s \o g) = Len(s) + Len(g) /\ Len(s) \in Nat /\ Len(g) \in Nat
  OBVIOUS
<1>4. Len(s \o g) = tcall.len /\ Len(s \o g) >= Len(s)
  <2>1. Len(s) + Len(g) = tcall.len
    BY <1>1, <1>2, GotIsNext
  <2>2. PICK a \in Nat, b \in Nat : a = Len(s) /\ b = Len(g)
    BY <1>3
  <2>3. a + b >= a
    OBVIOUS
  <2> QED
    BY <1>3, <2>1, <2>2, <2>3
<1>5. ASSUME OneStream(t)
      PROVE  \A i \in 1..Len(s \o g) : (s \o g)[i][2] = i
  <2>1. PICK z \in Nat : z = 0
    OBVIOUS
  <2>2. \A i \in 1..Len(s) : s[i][2] = i
    BY <1>1, <1>2, <1>5 DEF TaskInv, OutputIsWhole
  <2>3. \A i \in 1..Len(s) : s[i][2] = z + i
    BY <1>3, <2>1, <2>2
  <2>4. \A i \in 1..Len(g) : g[i][2] = Len(s) + i
    BY <1>1, <1>2, <1>5, GotIsNext
  <2>5. \A i \in 1..Len(g) : g[i][2] = z + Len(s) + i
    BY <1>3, <2>1, <2>4
  <2>6. \A i \in 1..Len(s \o g) : (s \o g)[i][2] = z + i
    BY <2>3, <2>5, Continued
  <2> QED
    BY <1>3, <2>1, <2>6
<1> QED
  BY <1>1, <1>2, <1>3, <1>4, <1>5

(* observe_task polls again.                                                *)
LEMMA PollsAgainKeeps ==
    ASSUME TaskInv, tcall.pc = "observed",
           task_log_cursor' = tcall.len, cursorOf' = tcall.task,
           tcall' = Got(tcall, "get", tcall.got \o Chunk),
           job' = job, cancels' = cancels, threads' = threads, cuts' = cuts, partial' = partial,
           BriefsUnchanged, HistoryUnchanged
    PROVE  TaskInv'
<1>1. PICK c \in TaskCallRecord : c = tcall /\ c.pc = "observed"
  BY TaskFacts
<1>2. PICK t \in Task : t = c.task /\ job[t].state # "absent"
  BY <1>1 DEF TaskInv, ReadIsTrue
<1>3. PICK k \in Seq(Char) : k = c.got \o Chunk
  BY <1>1, GotIsNext
<1>4. /\ tcall' \in TaskCallRecord /\ tcall'.pc = "get" /\ tcall'.task = t /\ tcall'.got = k
  <2>1. PICK p \in TaskPc : p = "get"
    BY DEF TaskPc
  <2>2. LET d == Got(c, p, k) IN d \in TaskCallRecord /\ d.pc = p /\ d.task = c.task /\ d.got = k
    BY MovedCall
  <2> QED
    BY <1>1, <1>2, <1>3, <2>1, <2>2
<1>5. CallMoves
  BY <1>1, <1>2, <1>4, TaskFacts, CallFields DEF CallMoves
<1>6. Observing' /\ Observing
  BY <1>1, <1>4 DEF Observing
<1>7. TaskTypeOK' /\ OutputIsWhole'
  BY <1>5, CallMovesTypes, CallMovesBeliefs
<1>8. JobsStartOnce'
  BY <1>4, <1>5, GoesOnStarts
<1>9. ReadIsTrue'
  BY <1>2, <1>4, <1>6 DEF ReadIsTrue
<1>10. BriefsAreOfJobs' /\ EndsAreSeen'
  BY <1>4, <1>5, CallMovesBeliefs DEF BriefsAreOfJobs
<1>11. CursorIsBehindShown'
  <2>1. SUFFICES ASSUME t \notin partial
                 PROVE  /\ tcall.len = Len(shown[t]) + Len(k) /\ tcall.len <= job[t].log
                        /\ OneStream(t) => \A i \in 1..Len(k) : k[i][2] = Len(shown[t]) + i
    <3>1. GotOf(t)' = Len(k)
      BY <1>4, <1>6 DEF GotOf
    <3>2. shown' = shown /\ (OneStream(t)' <=> OneStream(t))
      BY DEF HistoryUnchanged, OneStream
    <3> QED
      BY <1>1, <1>2, <1>4, <1>6, <2>1, <3>1, <3>2, ZenonT(60) DEF CursorIsBehindShown
  <2>2. tcall.len <= job[t].log
    <3>1. /\ tcall.err <= job[t].err /\ tcall.len - tcall.err <= job[t].log - job[t].err
      BY <1>1, <1>2 DEF TaskInv, ReadIsTrue
    <3>2. tcall.len \in Nat /\ tcall.err \in Nat /\ job[t].log \in Nat /\ job[t].err \in Nat
      BY TaskFacts, CallFields, ToolBoundAssumption
    <3> QED
      BY <3>1, <3>2
  <2> QED
    BY <1>1, <1>2, <1>3, <2>1, <2>2, GotIsNext
<1>12. BriefsAreTrue' /\ ActiveIsOpen' /\ ReturnedIsListed' /\ LastCodeIsOfJob'
  BY <1>5, CallMovesBeliefs
<1> QED
  BY <1>7, <1>8, <1>9, <1>10, <1>11, <1>12, Zenon DEF TaskInv

(* An observation ends.                                                     *)
LEMMA ObserveEndsKeeps ==
    ASSUME TaskInv, tcall.pc = "observed", ObserveEnds,
           task_log_cursor' = tcall.len, cursorOf' = tcall.task,
           job' = job, cancels' = cancels, threads' = threads, cuts' = cuts
    PROVE  TaskInv'
<1>1. PICK c \in TaskCallRecord : c = tcall /\ c.pc = "observed"
  BY TaskFacts
<1>2. PICK t \in Task : t = c.task /\ job[t].state # "absent"
  BY <1>1 DEF TaskInv, ReadIsTrue
<1>3. PICK state \in TaskStates, code \in Codes \cup {None} :
         /\ state = c.state /\ code = c.code
         /\ Known(state) => ~job[t].watched /\ job[t].ended = Ended(state) /\ c.len = job[t].log
         /\ code # None => job[t].ended = code
         /\ state = "CANCELLED" => t \in cancels
  BY <1>1, <1>2, CallFields DEF TaskInv, ReadIsTrue
<1>4. /\ tcall' = NoTaskCall /\ task_briefs' = Merged(t, state, code)
      /\ last_command_exit_code' = code /\ codeOf' = t
      /\ active_task_id' = IF Over(state) THEN None ELSE active_task_id
      /\ returned' = (IF c.tool = "observe_task" THEN returned ELSE returned \cup {t})
      /\ sawEnd' = IF Known(state) THEN sawEnd \cup {t} ELSE sawEnd
      /\ partial' \in {partial, partial \cup {t}}
      /\ shown' = [shown EXCEPT ![t] = IF t \in partial' THEN <<>> ELSE @ \o (tcall.got \o Chunk)]
  BY <1>1, <1>2, <1>3 DEF ObserveEnds, SeenState, Recorded, Observed, Over, Known
<1>5. /\ task_briefs' \in [Task -> BriefRecord] /\ task_briefs'[t].state = state
      /\ \A u \in Task \ {t} : task_briefs'[u] = task_briefs[u]
      /\ \A u \in Task : task_briefs'[u].exit_code # None => job[u].ended = task_briefs'[u].exit_code
      /\ BriefsAreTrue'
      /\ \A u \in Task : job'[u].state = "absent" => task_briefs'[u].state = None
      /\ t \in Inventory' /\ Inventory \subseteq Inventory'
  BY <1>2, <1>3, <1>4, MergedIsTrue
<1>6. tcall'.pc = "idle" /\ tcall'.got = <<>> /\ ~Observing' /\ Observing
  BY <1>1, <1>4, CallFields DEF Observing
<1>7. PICK s \in Seq(Char) :
         /\ shown' = [shown EXCEPT ![t] = s]
         /\ t \notin partial' => /\ Len(s) = c.len /\ Len(s) >= Len(shown[t])
                                 /\ OneStream(t) => \A i \in 1..Len(s) : s[i][2] = i
  <2>1. CASE t \in partial'
    <3>0. <<>> \in Seq(Char)
      OBVIOUS
    <3>1. PICK s \in Seq(Char) : s = <<>>
      BY <3>0
    <3> QED
      BY <1>4, <2>1, <3>1
  <2>2. CASE t \notin partial'
    <3>0. tcall.task \notin partial
      BY <1>1, <1>2, <1>4, <2>2
    <3>1. PICK s \in Seq(Char) : /\ s = shown[t] \o (tcall.got \o Chunk)
                                 /\ Len(s) = c.len /\ Len(s) >= Len(shown[t])
                                 /\ OneStream(t) => \A i \in 1..Len(s) : s[i][2] = i
      BY <1>1, <1>2, <3>0, ShownIsWhole
    <3> QED
      BY <1>4, <2>2, <3>1, TaskFacts
  <2> QED
    BY <2>1, <2>2
<1>8. /\ shown' \in [Task -> Seq(Char)] /\ shown'[t] = s
      /\ \A u \in Task \ {t} : shown'[u] = shown[u]
  BY <1>7, TaskFacts
<1>9. c.len \in 0..MaxLog /\ c.len <= job[t].log /\ c.len \in Nat /\ job[t].log \in Nat
  <2>1. /\ tcall.err <= job[t].err /\ tcall.len - tcall.err <= job[t].log - job[t].err
    BY <1>1, <1>2 DEF TaskInv, ReadIsTrue
  <2>2. tcall.len \in Nat /\ tcall.err \in Nat /\ job[t].log \in Nat /\ job[t].err \in Nat
    BY TaskFacts, CallFields, ToolBoundAssumption
  <2> QED
    BY <1>1, <2>1, <2>2, CallFields
<1>10. t \notin partial' /\ t \in sawEnd' => c.len = job[t].log
  <2>1. CASE Known(state)
    BY <1>3, <2>1
  <2>2. CASE ~Known(state)
    <3>1. t \notin partial' /\ t \in sawEnd' => t \notin partial /\ t \in sawEnd
      BY <1>4, <2>2
    <3>2. t \notin partial /\ t \in sawEnd => Len(shown[t]) = job[t].log
      BY DEF TaskInv, OutputIsWhole
    <3> QED
      BY <1>7, <1>9, <3>1, <3>2
  <2> QED
    BY <2>1, <2>2
<1>11. TaskTypeOK'
  <2>1. active_task_id' \in Task \cup {None} /\ (active_task_id' # None => job'[active_task_id'] # Absent)
    BY <1>4, TaskFacts, JobFields
  <2>2. returned' \subseteq Task /\ sawEnd' \subseteq Task /\ partial' \subseteq Task
    BY <1>4, TaskFacts
  <2>3. /\ last_command_exit_code' \in Codes \cup {None} /\ cursorOf' \in Task \cup {None}
        /\ codeOf' \in Task \cup {None}
    BY <1>1, <1>2, <1>4
  <2> QED
    BY <1>1, <1>4, <1>5, <1>6, <1>8, <1>9, <2>1, <2>2, <2>3, TaskFacts, CallFields DEF TaskTypeOK
<1>12. JobsStartOnce'
  <2>1. \A u \in Task : Starting(u)' => Starting(u)
    BY <1>6 DEF Starting
  <2>2. JobStep
    BY NoJob, TaskFacts DEF TaskInv
  <2>3. /\ \A u \in Task : Starting(u)' => job'[u].state = "absent"
        /\ \A u \in Task : <<"cancel", u>> \in threads' =>
              job'[u].state # "absent" /\ (job'[u].held => u \in cancels')
    BY <2>1 DEF TaskInv, JobsStartOnce
  <2> QED
    BY <1>6, <2>2, <2>3, StartOnceOf
<1>13. ReadIsTrue'
  BY <1>6 DEF ReadIsTrue
<1>14. BriefsAreOfJobs'
  BY <1>2, <1>5, <1>6, <1>8 DEF TaskInv, BriefsAreOfJobs
<1>15. EndsAreSeen'
  BY <1>2, <1>3, <1>4 DEF TaskInv, EndsAreSeen
<1>16. LastCodeIsOfJob'
  BY <1>3, <1>4 DEF LastCodeIsOfJob
<1>17. CursorIsBehindShown'
  <2>1. GotOf(t)' = 0
    BY <1>6 DEF GotOf
  <2>2. t \notin partial' => task_log_cursor' = Len(shown'[t]) + 0 /\ task_log_cursor' <= job'[t].log
    BY <1>1, <1>7, <1>8, <1>9
  <2> QED
    BY <1>1, <1>2, <1>6, <2>1, <2>2 DEF CursorIsBehindShown
<1>18. ActiveIsOpen'
  BY <1>3, <1>4, <1>5, TaskFacts DEF TaskInv, ActiveIsOpen, Over
<1>19. ReturnedIsListed'
  BY <1>4, <1>5 DEF TaskInv, ReturnedIsListed
<1>20. OutputIsWhole'
  <2>1. \A u \in Task \ {t} : (u \in sawEnd' => u \in sawEnd) /\ (u \notin partial' => u \notin partial)
    BY <1>4
  <2>2. \A u \in Task : OneStream(u)' <=> OneStream(u)
    BY DEF OneStream
  <2>3. t \notin partial' => /\ Len(shown'[t]) <= job'[t].log
                             /\ t \in sawEnd' => Len(shown'[t]) = job'[t].log
                             /\ OneStream(t)' => \A i \in 1..Len(shown'[t]) : shown'[t][i][2] = i
    BY <1>7, <1>8, <1>9, <1>10, <2>2
  <2>4. \A u \in (Task \ {t}) \ partial' :
           /\ OneStream(u)' => \A i \in 1..Len(shown'[u]) : shown'[u][i][2] = i
           /\ Len(shown'[u]) <= job'[u].log
           /\ u \in sawEnd' => Len(shown'[u]) = job'[u].log
    BY <1>8, <2>1, <2>2 DEF TaskInv, OutputIsWhole
  <2> QED
    BY <2>3, <2>4 DEF OutputIsWhole
<1> QED
  BY <1>5, <1>11, <1>12, <1>13, <1>14, <1>15, <1>16, <1>17, <1>18, <1>19, <1>20, Zenon DEF TaskInv

(* The poll.                                                                *)
LEMMA ObserveReturnsKeeps ==
    ASSUME TaskInv, ObserveReturns
    PROVE  TaskInv'
<1>1. /\ tcall.pc = "observed" /\ task_log_cursor' = tcall.len /\ cursorOf' = tcall.task
      /\ job' = job /\ cancels' = cancels /\ threads' = threads /\ cuts' = cuts
  BY DEF ObserveReturns, runtimeTasks
<1>2. CASE ObserveEnds
  BY <1>1, <1>2, ObserveEndsKeeps
<1>3. CASE ~ObserveEnds
  <2>1. /\ tcall' = Got(tcall, "get", tcall.got \o Chunk)
        /\ BriefsUnchanged /\ HistoryUnchanged /\ partial' = partial
    BY <1>3, Zenon DEF ObserveReturns, Got, BriefsUnchanged, HistoryUnchanged
  <2> QED
    BY <1>1, <2>1, PollsAgainKeeps
<1> QED
  BY <1>2, <1>3

(* At the start nothing runs and nothing is known.                          *)
LEMMA TaskInitInv ==
    ASSUME TaskInit
    PROVE  TaskInv
<1>0. /\ job = [t \in Task |-> Absent] /\ active_task_id = None /\ task_log_cursor = 0
      /\ last_command_exit_code = None /\ task_briefs = [t \in Task |-> NoBrief] /\ tcall = NoTaskCall
      /\ threads = {} /\ cuts = 0 /\ shown = [t \in Task |-> <<>>] /\ partial = {} /\ cursorOf = None
      /\ returned = {} /\ sawEnd = {} /\ cancels = {} /\ codeOf = None
  BY DEF TaskInit
<1>1. /\ \A t \in Task : /\ job[t].state = "absent" /\ job[t] = Absent /\ job[t].code = None
                         /\ job[t].log = 0 /\ job[t].err = 0 /\ Len(shown[t]) = 0
                         /\ task_briefs[t].state = None /\ task_briefs[t].exit_code = None
                         /\ shown[t] = <<>>
      /\ tcall.pc = "idle" /\ tcall.got = <<>>
  BY <1>0, JobFields, BriefFields, CallFields
<1>2. TaskTypeOK
  <2>1. shown \in [Task -> Seq(Char)]
    BY <1>0
  <2> QED
    BY <1>0, <2>1, JobFields, BriefFields, CallFields, ToolBoundAssumption DEF TaskTypeOK
<1>3. JobsStartOnce /\ ReadIsTrue /\ BriefsAreOfJobs /\ EndsAreSeen /\ LastCodeIsOfJob
  BY <1>0, <1>1, StateFacts DEF JobsStartOnce, Starting, ReadIsTrue, BriefsAreOfJobs, EndsAreSeen, LastCodeIsOfJob
<1>4. CursorIsBehindShown
  BY <1>0, <1>1, NoneIsNoTask DEF CursorIsBehindShown, Observing
<1>5. BriefsAreTrue /\ ActiveIsOpen /\ ReturnedIsListed
  BY <1>0, <1>1 DEF BriefsAreTrue, ActiveIsOpen, ReturnedIsListed, Inventory
<1>6. OutputIsWhole
  BY <1>0, <1>1 DEF OutputIsWhole
<1> QED
  BY <1>2, <1>3, <1>4, <1>5, <1>6, Zenon DEF TaskInv

(* Every step of the task tools and of the runtime.                         *)
LEMMA TaskNextKeeps ==
    ASSUME TaskInv, NEW allowed \in BOOLEAN, TaskNext(allowed)
    PROVE  TaskInv'
<1>1. CASE TaskRuntimeStep
  BY <1>1, TaskRuntimeKeeps DEF TaskRuntimeStep
<1>2. CASE TaskCallStep
  BY <1>2, LaunchKeeps, LaunchReturnsKeeps, ReadTaskKeeps, ReadLogsKeeps, ObserveReturnsKeeps,
     CancelRunsKeeps, CancelReturnsKeeps, TaskCallCutKeeps0 DEF TaskCallStep
<1>3. ASSUME NEW t \in Task, NEW waits \in BOOLEAN, StartTask(t, waits)
      PROVE  TaskInv'
  BY <1>3, BeginStartKeeps DEF StartTask
<1>4. ASSUME NEW t \in Task, NEW ref \in {None, t}, BeginObserve(ref, t) \/ BeginCancel(ref, t)
      PROVE  TaskInv'
  BY <1>4, BeginObserveKeeps, BeginCancelKeeps
<1> QED
  BY <1>1, <1>2, <1>3, <1>4 DEF TaskNext

(* A step that leaves the tasks and their tools alone.                      *)
LEMMA TaskStutterKeeps ==
    ASSUME TaskInv, UNCHANGED taskVars
    PROVE  TaskInv'
<1>0. HarnessUnchanged /\ job' = job /\ cancels' = cancels /\ threads' = threads
  BY DEF taskVars, runtimeTasks, taskContext, taskHistory, HarnessUnchanged
<1>1. TaskTypeOK /\ JobsStartOnce
  BY DEF TaskInv
<1>2. JobStep
  BY <1>0, <1>1, NoJob, TaskFacts
<1>3. TaskTypeOK' /\ Believed' /\ Counted'
  BY <1>0, <1>2, JobMoves
<1>4. JobsStartOnce'
  BY <1>0, <1>1, StateFacts DEF JobsStartOnce, Starting, HarnessUnchanged
<1> QED
  BY <1>3, <1>4, TaskInvOf

-----------------------------------------------------------------------------
(* The terminal tools.                                                     *)

(* The fields of a call.                                                    *)
LEMMA TermFields ==
    ASSUME NEW c \in TermCallRecord
    PROVE  /\ c.tool \in TermTool /\ c.pc \in TermPc /\ c.session \in Session \cup {NoSession}
           /\ c.ref \in BOOLEAN /\ c.input \in AllInputs /\ c.state \in SessionStates
           /\ c.first \in BOOLEAN /\ c.page \in Seq(Nat \ {0}) /\ c.stored \in Nat /\ c.text \in Nat
           /\ c.last \in Nat /\ c.got \in Seq(Nat \ {0}) /\ c.meaningful \in BOOLEAN
  BY DEF TermCallRecord

(* The fields of no call.                                                   *)
LEMMA NoTermFields ==
    /\ NoTermCall \in TermCallRecord
    /\ NoTermCall.tool = "none" /\ NoTermCall.pc = "idle" /\ NoTermCall.session = NoSession
    /\ NoTermCall.ref = FALSE /\ NoTermCall.input = "plain" /\ NoTermCall.state = "absent"
    /\ NoTermCall.first = FALSE /\ NoTermCall.page = <<>> /\ NoTermCall.stored = 0
    /\ NoTermCall.text = 0 /\ NoTermCall.last = 0 /\ NoTermCall.got = <<>>
    /\ NoTermCall.meaningful = FALSE
  BY DEF TermCallRecord, NoTermCall, TermTool, TermPc, AllInputs, SessionStates

(* The calls an action makes of a call.                                     *)
BegunOf(tool, s, ref, pc, kind) ==
    [NoTermCall EXCEPT !.tool = tool, !.pc = pc, !.session = s, !.ref = ref, !.input = kind]
MovedTo(c, pc) == [c EXCEPT !.pc = pc]
StoredOf(c, pc, n) == [c EXCEPT !.pc = pc, !.stored = n]
PagedOf(c, n, page) == [c EXCEPT !.pc = "tail", !.stored = n, !.page = page]
TailedOf(c, n) == [c EXCEPT !.pc = "last", !.text = n]
LastOf(c, n) == [c EXCEPT !.pc = "polled", !.last = n]
PolledOf(tool, s, state, got, meaningful, first) ==
    [NoTermCall EXCEPT !.tool = tool, !.pc = "frames", !.session = s, !.state = state, !.got = got,
                       !.meaningful = meaningful, !.first = first]

(* The calls a call becomes.                                                *)
LEMMA MovedTermCall ==
    ASSUME NEW c \in TermCallRecord, NEW pc \in TermPc
    PROVE  LET d == MovedTo(c, pc)
           IN  /\ d \in TermCallRecord /\ d.pc = pc /\ d.tool = c.tool /\ d.session = c.session
               /\ d.input = c.input /\ d.state = c.state /\ d.got = c.got /\ d.stored = c.stored
               /\ d.meaningful = c.meaningful
  BY DEF TermCallRecord, MovedTo, StoredOf, PagedOf, TailedOf, LastOf

(* A thread has run, ...                                                    *)
LEMMA StoredTermCall ==
    ASSUME NEW c \in TermCallRecord, NEW pc \in TermPc, NEW n \in Nat
    PROVE  LET d == StoredOf(c, pc, n)
           IN  /\ d \in TermCallRecord /\ d.pc = pc /\ d.tool = c.tool /\ d.session = c.session
               /\ d.input = c.input /\ d.state = c.state /\ d.got = c.got /\ d.stored = n
               /\ d.meaningful = c.meaningful
  BY DEF TermCallRecord, MovedTo, StoredOf, PagedOf, TailedOf, LastOf

(* ... a page was read, ...                                                 *)
LEMMA PagedTermCall ==
    ASSUME NEW c \in TermCallRecord, NEW n \in Nat, NEW page \in Seq(Nat \ {0})
    PROVE  LET d == PagedOf(c, n, page)
           IN  /\ d \in TermCallRecord /\ d.pc = "tail" /\ d.tool = c.tool /\ d.session = c.session
               /\ d.input = c.input /\ d.state = c.state /\ d.got = c.got /\ d.stored = n /\ d.page = page
               /\ d.meaningful = c.meaningful /\ d.first = c.first
  BY DEF TermCallRecord, MovedTo, StoredOf, PagedOf, TailedOf, LastOf, TermPc, PollPc

(* ... the tail and the last number were read.                              *)
LEMMA TailedTermCall ==
    ASSUME NEW c \in TermCallRecord, NEW n \in Nat
    PROVE  /\ LET d == TailedOf(c, n)
              IN  /\ d \in TermCallRecord /\ d.pc = "last" /\ d.tool = c.tool /\ d.session = c.session
                  /\ d.input = c.input /\ d.state = c.state /\ d.got = c.got /\ d.stored = c.stored
                  /\ d.page = c.page /\ d.meaningful = c.meaningful /\ d.first = c.first /\ d.text = n
           /\ LET d == LastOf(c, n)
              IN  /\ d \in TermCallRecord /\ d.pc = "polled" /\ d.tool = c.tool /\ d.session = c.session
                  /\ d.input = c.input /\ d.state = c.state /\ d.got = c.got /\ d.stored = c.stored
                  /\ d.page = c.page /\ d.meaningful = c.meaningful /\ d.first = c.first
                  /\ d.text = c.text /\ d.last = n
  BY DEF TermCallRecord, MovedTo, StoredOf, PagedOf, TailedOf, LastOf, TermPc, PollPc

(* A frame has a kind; only an output and an echo can be seen.              *)
LEMMA FrameFields ==
    /\ \A f \in Frame : f[1] \in {"out", "echo", "in"}
    /\ \A what \in Outputs : <<"out", what>> \in Frame /\ <<"out", what>>[1] = "out"
    /\ \A n \in Nat \ {0} : /\ <<"in", n>> \in Frame /\ <<"in", n>>[1] = "in"
                            /\ <<"echo", n>> \in Frame /\ <<"echo", n>>[1] = "echo"
    /\ \A f \in Frame : f[1] # "out" => f[2] \in Nat \ {0}
  BY TermBoundAssumption DEF Frame

(* What the invariant says, for an action to use.                           *)
LEMMA TermFacts ==
    ASSUME TerminalInv
    PROVE  /\ term \in [Session -> SessionStates] /\ frames \in [Session -> Seq(Frame)]
           /\ \A s \in Session : frames[s] \in Seq(Frame) /\ Len(frames[s]) \in Nat
           /\ told \subseteq Session /\ active_session_id \in Session \cup {NoSession}
           /\ terminal_cursor \in Nat /\ last_terminal_input \in 0..MaxInputs
           /\ session_briefs \in [Session -> BriefStates]
           /\ active_session_privilege \in {"unknown", "user", "root"}
           /\ scall \in TermCallRecord /\ (scall.session = NoSession <=> scall = NoTermCall)
           /\ scall.pc = "idle" <=> scall = NoTermCall
           /\ scall.pc # "idle" => scall.session \in Session
           /\ sthreads \subseteq {"open", "write", "close"} \X Session \X (1..MaxTermCuts)
           /\ IsFiniteSet(sthreads)
           /\ inputs \in 0..MaxInputs /\ scuts \in 0..MaxTermCuts
           /\ view \in Seq(Nat \ {0}) /\ passed \subseteq Nat /\ owed \in Nat
           /\ disturbed \subseteq Session
<1>1. TerminalTypeOK /\ CallsFit
  BY DEF TerminalInv
<1>2. scall \in TermCallRecord /\ (scall.session = NoSession <=> scall = NoTermCall)
      /\ (scall.pc = "idle" <=> scall = NoTermCall)
  BY <1>1 DEF TerminalTypeOK, CallsFit
<1>3. scall.session \in Session \cup {NoSession}
  BY <1>2, TermFields
<1>4. scall.pc # "idle" => scall.session \in Session
  BY <1>2, <1>3, NoTermFields
<1>5. frames \in [Session -> Seq(Frame)]
  BY <1>1 DEF TerminalTypeOK
<1>6. \A s \in Session : frames[s] \in Seq(Frame)
  BY <1>5
<1>7. \A s \in Session : Len(frames[s]) \in Nat
  BY <1>6
<1> QED
  BY <1>1, <1>2, <1>4, <1>5, <1>6, <1>7 DEF TerminalTypeOK

(* The Booleans of the context.                                             *)
LEMMA TermFlags ==
    ASSUME TerminalInv
    PROVE  /\ terminal_input_pending \in BOOLEAN /\ active_session_stateful \in BOOLEAN
           /\ mixed \in BOOLEAN
           /\ terminal_input_pending => active_session_id # NoSession
  BY DEF TerminalInv, TerminalTypeOK

(* Frames are only added.                                                   *)
FramesGrow ==
    /\ frames' \in [Session -> Seq(Frame)]
    /\ \A s \in Session : /\ Len(frames'[s]) >= Len(frames[s])
                          /\ \A i \in 1..Len(frames[s]) : frames'[s][i] = frames[s][i]
LEMMA FramesStay ==
    ASSUME TerminalInv, frames' = frames
    PROVE  FramesGrow
<1>1. \A s \in Session : Len(frames[s]) \in Nat
  BY TermFacts
<1> QED
  BY <1>1, TermFacts DEF FramesGrow

(* A frame is stored at the end.                                            *)
LEMMA StoredGrows ==
    ASSUME TerminalInv, NEW s \in Session, NEW f \in Frame, Stored(s, f)
    PROVE  /\ FramesGrow /\ Len(frames'[s]) = Len(frames[s]) + 1 /\ frames'[s][Len(frames[s]) + 1] = f
           /\ \A r \in Session \ {s} : frames'[r] = frames[r]
<1>1. PICK q \in Seq(Frame), n \in Nat : q = frames[s] /\ n = Len(q)
  BY TermFacts
<1>2. PICK p \in Seq(Frame) : p = Append(q, f) /\ Len(p) = n + 1 /\ p[n + 1] = f
                              /\ \A i \in 1..n : p[i] = q[i]
  <2>1. Append(q, f) \in Seq(Frame) /\ Len(Append(q, f)) = n + 1 /\ Append(q, f)[n + 1] = f
        /\ \A i \in 1..n : Append(q, f)[i] = q[i]
    BY <1>1
  <2> QED
    BY <2>1
<1>3. frames' = [frames EXCEPT ![s] = p]
  BY <1>1, <1>2 DEF Stored
<1>4. frames \in [Session -> Seq(Frame)] /\ \A r \in Session : Len(frames[r]) \in Nat
  BY TermFacts
<1>5. frames' \in [Session -> Seq(Frame)] /\ frames'[s] = p /\ \A r \in Session \ {s} : frames'[r] = frames[r]
  BY <1>3, <1>4
<1>6. Len(frames'[s]) >= Len(frames[s])
  BY <1>1, <1>2, <1>5
<1>7. \A r \in Session : Len(frames'[r]) >= Len(frames[r])
  <2>1. ASSUME NEW r \in Session, r # s
        PROVE  Len(frames'[r]) >= Len(frames[r])
    <3>1. frames'[r] = frames[r] /\ Len(frames[r]) \in Nat
      BY <1>4, <1>5, <2>1
    <3> QED
      BY <3>1
  <2> QED
    BY <1>6, <2>1
<1>8. \A i \in 1..Len(frames[s]) : frames'[s][i] = frames[s][i]
  <2>1. \A i \in 1..n : p[i] = q[i]
    BY <1>2
  <2> QED
    BY <1>1, <1>5, <2>1
<1>9. \A r \in Session : \A i \in 1..Len(frames[r]) : frames'[r][i] = frames[r][i]
  BY <1>5, <1>8
<1>10. FramesGrow
  BY <1>5, <1>7, <1>9 DEF FramesGrow
<1>11. Len(frames'[s]) = Len(frames[s]) + 1 /\ frames'[s][Len(frames[s]) + 1] = f
  BY <1>1, <1>2, <1>5
<1> QED
  BY <1>5, <1>10, <1>11

(* An echo is stored once.                                                  *)
LEMMA EchoesKept ==
    ASSUME TerminalInv, NEW s \in Session, NEW f \in Frame, Stored(s, f),
           f[1] = "echo" => \A j \in 1..Len(frames[s]) : frames[s][j] # f
    PROVE  EchoesOnce'
<1>1. /\ FramesGrow /\ Len(frames'[s]) = Len(frames[s]) + 1 /\ frames'[s][Len(frames[s]) + 1] = f
      /\ \A r \in Session \ {s} : frames'[r] = frames[r]
  BY StoredGrows
<1>2. PICK n \in Nat : n = Len(frames[s])
  BY TermFacts
<1>3. \A i \in 1..(n + 1) : i \in 1..n \/ i = n + 1
  BY <1>2
<1>4. EchoesOnce
  BY DEF TerminalInv
<1>5. ASSUME NEW i \in 1..(n + 1), NEW j \in 1..(n + 1), frames'[s][i][1] = "echo", frames'[s][i] = frames'[s][j]
      PROVE  i = j
  <2>1. \A k \in 1..n : frames'[s][k] = frames[s][k]
    BY <1>1, <1>2 DEF FramesGrow
  <2> QED
    BY <1>1, <1>2, <1>3, <1>4, <1>5, <2>1 DEF EchoesOnce
<1> QED
  BY <1>1, <1>2, <1>4, <1>5 DEF EchoesOnce

(* What was printed below a length stays.                                   *)
LEMMA PrintedStays ==
    ASSUME TerminalInv, FramesGrow, NEW s \in Session
    PROVE  /\ \A i \in 1..Len(frames[s]) : (i \in Printed(s)' <=> i \in Printed(s)) /\ (Shows(s, i)' <=> Shows(s, i))
           /\ \A i \in Printed(s)' : i \in Nat \ {0} /\ i <= Len(frames'[s])
           /\ \A i \in Printed(s)', n \in Nat : n <= Len(frames[s]) /\ i <= n => i \in Printed(s)
           /\ Len(frames'[s]) \in Nat
<1>1. PICK n \in Nat : n = Len(frames[s])
  BY TermFacts
<1>2. frames'[s] \in Seq(Frame)
  BY DEF FramesGrow
<1>3. PICK m \in Nat : m = Len(frames'[s]) /\ n <= m
  <2>1. Len(frames'[s]) \in Nat
    BY <1>2
  <2>2. Len(frames'[s]) >= n
    BY <1>1 DEF FramesGrow
  <2> QED
    BY <2>1, <2>2
<1>4. \A i \in 1..n : frames'[s][i] = frames[s][i] /\ i \in 1..m
  BY <1>1, <1>3 DEF FramesGrow
<1>5. \A i \in 1..n : (i \in Printed(s)' <=> i \in Printed(s)) /\ (Shows(s, i)' <=> Shows(s, i))
  BY <1>1, <1>3, <1>4 DEF Printed, Shows
<1>6. \A i \in Printed(s)' : i \in 1..m
  BY <1>3 DEF Printed
<1>7. \A i \in Printed(s)', k \in Nat : k <= n /\ i <= k => i \in Printed(s)
  <2>1. \A i \in 1..m, k \in Nat : k <= n /\ i <= k => i \in 1..n
    BY <1>1, <1>3
  <2> QED
    BY <1>5, <1>6, <2>1
<1>8. \A i \in Printed(s)' : i \in Nat \ {0} /\ i <= m
  BY <1>3, <1>6
<1> QED
  BY <1>1, <1>3, <1>5, <1>7, <1>8

(* The view, the cursor and what is owed do not change, and the call polls  *)
(* what it did before or has polled nothing yet.                            *)
SightUnchanged ==
    /\ active_session_id' = active_session_id /\ terminal_cursor' = terminal_cursor
    /\ view' = view /\ passed' = passed /\ mixed' = mixed /\ owed' = owed
    /\ terminal_input_pending' = terminal_input_pending
    /\ last_terminal_input' = last_terminal_input
(* A call that has polled nothing.                                          *)
Unpolled(c, cursor) ==
    /\ c.got = <<>> /\ c.meaningful = FALSE /\ c.pc \notin {"tail", "last", "polled"}
    /\ c.pc = "frames" /\ c.first => cursor = 0
Sight == PageFollows /\ CursorFollowsView /\ OwedIsPending

(* The same call goes on while frames are added.                            *)
LEMMA SightKept ==
    ASSUME TerminalInv, FramesGrow, SightUnchanged, scall' = scall
    PROVE  Sight'
<1>0. /\ active_session_id' = active_session_id /\ terminal_cursor' = terminal_cursor
      /\ view' = view /\ passed' = passed /\ mixed' = mixed /\ owed' = owed
      /\ terminal_input_pending' = terminal_input_pending
      /\ last_terminal_input' = last_terminal_input
  BY DEF SightUnchanged
<1>1. PageFollows /\ CursorFollowsView /\ OwedIsPending
  BY DEF TerminalInv
<1>2. \A s \in Session : /\ Len(frames[s]) \in Nat /\ Len(frames'[s]) \in Nat
                         /\ Len(frames[s]) <= Len(frames'[s])
                         /\ \A n \in Nat : n <= Len(frames[s]) => n <= Len(frames'[s])
  <2>1. \A s \in Session : Len(frames[s]) \in Nat /\ Len(frames'[s]) \in Nat /\ Len(frames'[s]) >= Len(frames[s])
    BY TermFacts, PrintedStays DEF FramesGrow
  <2> QED
    BY <2>1
<1>3. PICK c \in TermCallRecord, k \in Nat : c = scall /\ k = terminal_cursor
  BY TermFacts
<1>4. /\ c.pc # "idle" => c.session \in Session
      /\ c.text \in Nat /\ c.last \in Nat /\ c.stored \in Nat /\ c.page \in Seq(Nat \ {0})
  BY <1>3, TermFacts, TermFields
<1>5. PageFollows'
  <2>1. k + Len(c.page) \in Nat
    BY <1>3, <1>4
  <2> QED
    BY <1>0, <1>1, <1>2, <1>3, <1>4, <2>1 DEF PageFollows
<1>6. CursorFollowsView'
  <2>1. SUFFICES ASSUME ~mixed, active_session_id # NoSession
                 PROVE  /\ terminal_cursor <= Len(frames'[active_session_id])
                        /\ \A i \in Printed(active_session_id)' : i <= terminal_cursor =>
                              i \in Printed(active_session_id)
    BY <1>0, <1>1, Zenon DEF CursorFollowsView
  <2>2. PICK s \in Session : s = active_session_id
    BY <2>1, TermFacts
  <2>3. terminal_cursor <= Len(frames[s]) /\ terminal_cursor \in Nat
    BY <1>1, <2>1, <2>2, TermFacts DEF CursorFollowsView
  <2>4. \A i \in Printed(s)' : i <= terminal_cursor => i \in Printed(s)
    BY <2>3, PrintedStays
  <2>5. Printed(active_session_id)' = Printed(s)' /\ Printed(active_session_id) = Printed(s)
    BY <1>0, <2>2 DEF Printed, Shows
  <2> QED
    BY <1>2, <2>2, <2>3, <2>4, <2>5
<1>7. OwedIsPending'
  <2>1. SUFFICES ASSUME owed # 0
                 PROVE  OwedIsPending'
    BY <1>0 DEF OwedIsPending
  <2>2. PICK s \in Session : s = active_session_id
    BY <1>1, <2>1, TermFacts DEF OwedIsPending
  <2>3. owed <= Len(frames[s]) /\ owed \in Nat
    BY <1>1, <2>1, <2>2, TermFacts DEF OwedIsPending
  <2>4. \A i \in Printed(s)' : i <= owed => i <= terminal_cursor
    BY <1>1, <2>1, <2>2, <2>3, PrintedStays DEF OwedIsPending
  <2>5. ASSUME c.pc \in PollPc, c.session = s, c.meaningful, Answers(s, c.got)
        PROVE  Answers(s, c.got)'
    <3>1. c.got # <<>> => Within(view \o c.got, terminal_cursor) /\ terminal_cursor <= Len(frames[s])
      <4>1. ~mixed
        BY <1>1, <2>1 DEF CursorFollowsView
      <4> QED
        BY <1>1, <1>3, <2>2, <4>1, NoneIsNoSession DEF CursorFollowsView
    <3>2. PICK i \in 1..Len(c.got) : /\ c.got[i] > owed /\ Shows(s, c.got[i])
                                     /\ frames[s][c.got[i]] # <<"echo", last_terminal_input>>
      BY <2>5 DEF Answers
    <3>3. c.got[i] \in 1..Len(frames[s])
      <4>1. PICK v \in Seq(Nat \ {0}), g \in Seq(Nat \ {0}) : v = view /\ g = c.got
        BY <1>3, TermFacts, TermFields
      <4>2. PICK a \in Nat, b \in Nat : a = Len(v) /\ b = Len(g)
        BY <4>1
      <4>3. (v \o g)[a + i] = g[i] /\ a + i \in 1..Len(v \o g)
        BY <3>2, <4>1, <4>2
      <4>4. g[i] <= terminal_cursor /\ terminal_cursor <= Len(frames[s]) /\ g[i] \in Nat \ {0}
        <5>1. g # <<>>
          BY <3>2, <4>1
        <5>2. g[i] \in Nat \ {0}
          BY <3>2, <4>1
        <5> QED
          BY <3>1, <4>1, <4>3, <5>1, <5>2 DEF Within
      <4> QED
        BY <1>2, <4>1, <4>4, TermFacts, SMTT(40)
    <3>4. frames'[s][c.got[i]] = frames[s][c.got[i]]
      BY <3>3 DEF FramesGrow
    <3> QED
      BY <1>0, <3>2, <3>4 DEF Answers, Shows
  <2> QED
    BY <1>0, <1>1, <1>2, <1>3, <2>1, <2>2, <2>3, <2>4, <2>5 DEF OwedIsPending
<1> QED
  BY <1>5, <1>6, <1>7 DEF Sight

(* A call that has polled nothing begins or goes on.                        *)
LEMMA SightBefore ==
    ASSUME TerminalInv, FramesGrow, SightUnchanged, scall.got = <<>>, Unpolled(scall', terminal_cursor)
    PROVE  Sight'
<1>0. /\ active_session_id' = active_session_id /\ terminal_cursor' = terminal_cursor
      /\ view' = view /\ passed' = passed /\ mixed' = mixed /\ owed' = owed
      /\ terminal_input_pending' = terminal_input_pending
      /\ last_terminal_input' = last_terminal_input
  BY DEF SightUnchanged
<1>1. PageFollows /\ CursorFollowsView /\ OwedIsPending
  BY DEF TerminalInv
<1>2. \A s \in Session : /\ Len(frames[s]) \in Nat /\ Len(frames'[s]) \in Nat
                         /\ \A n \in Nat : n <= Len(frames[s]) => n <= Len(frames'[s])
  <2>1. \A s \in Session : Len(frames[s]) \in Nat /\ Len(frames'[s]) \in Nat /\ Len(frames'[s]) >= Len(frames[s])
    BY TermFacts, PrintedStays DEF FramesGrow
  <2> QED
    BY <2>1
<1>3. /\ scall'.got = <<>> /\ scall'.meaningful = FALSE /\ scall'.pc \notin {"tail", "last", "polled"}
      /\ scall'.pc = "frames" /\ scall'.first => terminal_cursor = 0
  BY DEF Unpolled
<1>4. PageFollows'
  BY <1>0, <1>3 DEF PageFollows, PollPc
<1>5. CursorFollowsView'
  <2>1. SUFFICES ASSUME ~mixed, active_session_id # NoSession
                 PROVE  /\ terminal_cursor <= Len(frames'[active_session_id])
                        /\ \A i \in Printed(active_session_id)' : i <= terminal_cursor =>
                              i \in Printed(active_session_id)
    BY <1>0, <1>1, <1>3 DEF CursorFollowsView
  <2>2. PICK s \in Session : s = active_session_id
    BY <2>1, TermFacts
  <2>3. terminal_cursor <= Len(frames[s]) /\ terminal_cursor \in Nat
    BY <1>1, <2>1, <2>2, TermFacts DEF CursorFollowsView
  <2>4. \A i \in Printed(s)' : i <= terminal_cursor => i \in Printed(s)
    BY <2>3, PrintedStays
  <2>5. Printed(active_session_id)' = Printed(s)' /\ Printed(active_session_id) = Printed(s)
    BY <1>0, <2>2 DEF Printed, Shows
  <2> QED
    BY <1>2, <2>2, <2>3, <2>4, <2>5
<1>6. OwedIsPending'
  <2>1. SUFFICES ASSUME owed # 0
                 PROVE  OwedIsPending'
    BY <1>0 DEF OwedIsPending
  <2>2. PICK s \in Session : s = active_session_id
    BY <1>1, <2>1, TermFacts DEF OwedIsPending
  <2>3. owed <= Len(frames[s]) /\ owed \in Nat
    BY <1>1, <2>1, <2>2, TermFacts DEF OwedIsPending
  <2>4. \A i \in Printed(s)' : i <= owed => i <= terminal_cursor
    BY <1>1, <2>1, <2>2, <2>3, PrintedStays DEF OwedIsPending
  <2> QED
    BY <1>0, <1>1, <1>2, <1>3, <2>1, <2>2, <2>3, <2>4 DEF OwedIsPending
<1> QED
  BY <1>4, <1>5, <1>6 DEF Sight

(* The focus moves: the cursor and the view begin anew.                     *)
LEMMA SightAnew ==
    ASSUME TerminalInv, FramesGrow, active_session_id' \in Session \cup {NoSession},
           terminal_cursor' = 0, view' = <<>>, passed' = {}, mixed' = FALSE, owed' = 0,
           Unpolled(scall', 0)
    PROVE  Sight'
<1>1. /\ scall'.got = <<>> /\ scall'.meaningful = FALSE /\ scall'.pc \notin {"tail", "last", "polled"}
  BY DEF Unpolled
<1>2. PageFollows'
  BY <1>1 DEF PageFollows, PollPc
<1>3. CursorFollowsView'
  <2>1. <<>> \o <<>> = <<>> /\ Len(<<>>) = 0
    OBVIOUS
  <2>2. ASSUME active_session_id' # NoSession
        PROVE  /\ 0 <= Len(frames'[active_session_id'])
               /\ \A i \in Printed(active_session_id)' : ~(i <= 0)
    <3>1. PICK s \in Session : s = active_session_id'
      BY <2>2
    <3>2. /\ Len(frames'[s]) \in Nat /\ \A i \in Printed(s)' : i \in Nat \ {0}
      BY PrintedStays
    <3>3. Printed(active_session_id)' = Printed(s)'
      BY <3>1 DEF Printed, Shows
    <3> QED
      BY <3>1, <3>2, <3>3
  <2> QED
    BY <1>1, <2>1, <2>2 DEF CursorFollowsView, Increasing, Within
<1>4. OwedIsPending'
  BY DEF OwedIsPending
<1> QED
  BY <1>2, <1>3, <1>4 DEF Sight

(* A session that is there stays, one that has ended stays ended.           *)
TermGrows ==
    /\ term' \in [Session -> SessionStates]
    /\ \A s \in Session : /\ term[s] # "absent" => term'[s] # "absent"
                          /\ term[s] = "TERMINATED" => term'[s] = "TERMINATED"
LEMMA TermStays ==
    ASSUME TerminalInv, term' = term
    PROVE  TermGrows
  BY TermFacts DEF TermGrows

(* The call still fits, ...                                                 *)
LEMMA CallStays ==
    ASSUME TerminalInv, scall' = scall, TermGrows, active_session_id' = active_session_id,
           scall.pc = "open" => term'[scall.session] = "absent", sthreads' \subseteq sthreads
    PROVE  CallsFit'
<1>1. CallsFit
  BY DEF TerminalInv
<1>2. scall.pc # "idle" => scall.session \in Session
  BY TermFacts
<1>3. scall.pc = "idle" => scall.state # "TERMINATED"
  BY TermFacts, NoTermFields
<1>4. scall'.state = "TERMINATED" => term'[scall'.session] = "TERMINATED"
  BY <1>1, <1>2, <1>3 DEF CallsFit, TermGrows
<1>5. scall'.pc = "closed" => term'[scall'.session] = "TERMINATED"
  BY <1>1, <1>2 DEF CallsFit, TermGrows
<1>6. scall'.pc \notin {"idle", "open"} => term'[scall'.session] # "absent"
  BY <1>1, <1>2 DEF CallsFit, TermGrows
<1> QED
  BY <1>1, <1>4, <1>5, <1>6 DEF CallsFit

(* ... the threads still fit, ...                                           *)
LEMMA ThreadsStay ==
    ASSUME TerminalInv, TermGrows, sthreads' \subseteq sthreads,
           \A th \in sthreads' : th[1] = "open" => term'[th[2]] = "absent"
    PROVE  ThreadsFit'
<1>1. ThreadsFit
  BY DEF TerminalInv
<1>2. \A th \in sthreads : th[2] \in Session
  BY TermFacts
<1> QED
  BY <1>1, <1>2 DEF ThreadsFit, TermGrows

(* The writing threads are finitely many.                                   *)
LEMMA WritingIsFinite ==
    ASSUME TerminalInv
    PROVE  /\ IsFiniteSet(Writing) /\ Cardinality(Writing) \in Nat
           /\ Cardinality(sthreads) \in Nat /\ Cardinality(Writing) <= Cardinality(sthreads)
<1>1. IsFiniteSet(sthreads) /\ Writing \subseteq sthreads
  BY TermFacts DEF Writing
<1>2. IsFiniteSet(Writing) /\ Cardinality(Writing) <= Cardinality(sthreads)
  BY <1>1, FS_Subset
<1> QED
  BY <1>1, <1>2, FS_CardinalityType

(* ... and no more is sent than may be.                                     *)
LEMMA InputsStay ==
    ASSUME TerminalInv, inputs' = inputs, sthreads' \subseteq sthreads, Sending' <= Sending,
           scall'.pc = "written" => scall'.stored \in 1..inputs
    PROVE  InputsFit'
<1>1. InputsFit /\ Sending \in Nat /\ Sending' \in Nat
  BY DEF TerminalInv, Sending
<1>2. Writing' \subseteq Writing
  BY DEF Writing
<1>3. IsFiniteSet(Writing') /\ Cardinality(Writing') <= Cardinality(Writing)
  BY <1>2, WritingIsFinite, FS_Subset
<1>4. Cardinality(Writing') \in Nat /\ Cardinality(Writing) \in Nat /\ inputs \in Nat /\ MaxInputs \in Nat
  BY <1>3, WritingIsFinite, FS_CardinalityType, TermFacts, TermBoundAssumption
<1>5. Cardinality(Writing)' = Cardinality(Writing')
  OBVIOUS
<1>6. inputs + Cardinality(Writing') + Sending' <= MaxInputs
  <2>1. inputs + Cardinality(Writing) + Sending <= MaxInputs
    BY <1>1 DEF InputsFit
  <2> QED
    BY <1>1, <1>3, <1>4, <2>1
<1> QED
  BY <1>5, <1>6 DEF InputsFit

(* The inventory stays true when only the runtime moves.                    *)
LEMMA ListedStay ==
    ASSUME TerminalInv, TermGrows, session_briefs' = session_briefs, active_session_id' = active_session_id
    PROVE  SessionsAreListed'
  BY DEF TerminalInv, SessionsAreListed, TermGrows

(* No frame, no second echo.                                                *)
LEMMA EchoesStay ==
    ASSUME TerminalInv, frames' = frames
    PROVE  EchoesOnce'
  BY DEF TerminalInv, EchoesOnce

(* The context still knows of a root shell that nothing disturbed.          *)
LEMMA RootsStay ==
    ASSUME TerminalInv, TermGrows, active_session_id' = active_session_id,
           told' \ disturbed' \subseteq told \ disturbed, \A s \in told' : term'[s] # "absent",
           Cautious => Cautious',
           scall'.pc \in {"open", "opened"} => scall'.session \notin told \ disturbed
    PROVE  RootIsKnown'
<1>1. RootIsKnown
  BY DEF TerminalInv
<1>2. active_session_id \in Session \cup {NoSession}
  BY TermFacts
<1>3. ASSUME NEW s \in told' \ disturbed'
      PROVE  s = active_session_id' /\ Cautious'
  <2>1. s = active_session_id /\ Cautious
    BY <1>1, <1>3 DEF RootIsKnown
  <2> QED
    BY <1>3, <2>1
<1>4. active_session_id' # NoSession => term'[active_session_id'] # "absent"
  BY <1>1, <1>2 DEF RootIsKnown, TermGrows
<1> QED
  BY <1>3, <1>4 DEF RootIsKnown

(* The parts together.                                                      *)
LEMMA TermInvOf ==
    ASSUME TerminalTypeOK', CallsFit', ThreadsFit', InputsFit', SessionsAreListed', RootIsKnown',
           Sight', EchoesOnce'
    PROVE  TerminalInv'
  BY Zenon DEF TerminalInv, Sight

(* Nothing of the context, the call and the history changes.                *)
TermHarnessUnchanged ==
    /\ active_session_id' = active_session_id /\ terminal_cursor' = terminal_cursor
    /\ terminal_input_pending' = terminal_input_pending
    /\ last_terminal_input' = last_terminal_input
    /\ active_session_privilege' = active_session_privilege
    /\ active_session_stateful' = active_session_stateful
    /\ session_briefs' = session_briefs /\ scuts' = scuts
    /\ view' = view /\ passed' = passed /\ mixed' = mixed /\ owed' = owed
    /\ told' = told /\ disturbed' = disturbed

(* What an unchanged context leaves alone.                                  *)
LEMMA HarnessSight ==
    ASSUME TermHarnessUnchanged
    PROVE  SightUnchanged /\ (Cautious => Cautious') /\ session_briefs' = session_briefs
           /\ active_session_id' = active_session_id /\ disturbed' = disturbed /\ scuts' = scuts
           /\ terminal_cursor' = terminal_cursor /\ told' = told
  BY DEF TermHarnessUnchanged, SightUnchanged, Cautious

(* The types when only the runtime and the call change.                     *)
LEMMA HarnessTypes ==
    ASSUME TerminalInv, TermHarnessUnchanged, term' \in [Session -> SessionStates],
           frames' \in [Session -> Seq(Frame)], inputs' \in 0..MaxInputs,
           scall' \in TermCallRecord, scall'.session = NoSession <=> scall' = NoTermCall,
           sthreads' \subseteq sthreads
    PROVE  TerminalTypeOK'
<1>1. IsFiniteSet(sthreads')
  BY TermFacts, FS_Subset
<1>2. TerminalTypeOK
  BY DEF TerminalInv
<1>3. sthreads' \subseteq {"open", "write", "close"} \X Session \X (1..MaxTermCuts)
  BY TermFacts
<1> QED
  BY <1>1, <1>2, <1>3 DEF TerminalTypeOK, TermHarnessUnchanged

(* A shell prints.                                                          *)
LEMMA ShellPrintsKeeps ==
    ASSUME TerminalInv, NEW s \in Session, ShellPrints(s)
    PROVE  TerminalInv'
<1>0. /\ TermHarnessUnchanged /\ scall' = scall /\ term' = term /\ inputs' = inputs
      /\ sthreads' = sthreads
  BY DEF ShellPrints, TermHarnessUnchanged, sessionContext, sessionState, terminalHistory
<1>1. \E f \in Frame : /\ Stored(s, f)
                       /\ f[1] = "echo" => \A j \in 1..Len(frames[s]) : frames[s][j] # f
  <2>1. CASE \E what \in Outputs : Stored(s, <<"out", what>>)
    BY <2>1, FrameFields
  <2>2. ASSUME NEW i \in 1..Len(frames[s]), frames[s][i][1] = "in",
               \A j \in 1..Len(frames[s]) : frames[s][j] # <<"echo", frames[s][i][2]>>,
               Stored(s, <<"echo", frames[s][i][2]>>)
        PROVE  \E f \in Frame : /\ Stored(s, f)
                                /\ f[1] = "echo" => \A j \in 1..Len(frames[s]) : frames[s][j] # f
    <3>1. frames[s] \in Seq(Frame)
      BY TermFacts
    <3>2. frames[s][i] \in Frame
      BY <3>1
    <3>3. PICK n \in Nat \ {0} : n = frames[s][i][2]
      BY <2>2, <3>2, FrameFields
    <3>4. PICK f \in Frame : f = <<"echo", n>>
      BY FrameFields
    <3> QED
      BY <2>2, <3>3, <3>4
  <2> QED
    BY <2>1, <2>2 DEF ShellPrints
<1>2. FramesGrow /\ EchoesOnce'
  BY <1>1, StoredGrows, EchoesKept
<1>3. Sight'
  BY <1>0, <1>2, HarnessSight, SightKept
<1>4. TermGrows
  BY <1>0, TermStays
<1>5. TerminalTypeOK'
  BY <1>0, <1>2, HarnessTypes, TermFacts DEF FramesGrow
<1>6. CallsFit'
  <2>1. scall.pc = "open" => term'[scall.session] = "absent"
    BY <1>0 DEF TerminalInv, CallsFit
  <2> QED
    BY <1>0, <1>4, <2>1, HarnessSight, CallStays
<1>7. ThreadsFit'
  <2>1. \A th \in sthreads' : th[1] = "open" => term'[th[2]] = "absent"
    BY <1>0 DEF TerminalInv, ThreadsFit
  <2> QED
    BY <1>0, <1>4, <2>1, HarnessSight, ThreadsStay
<1>8. InputsFit'
  BY <1>0 DEF TerminalInv, InputsFit, Sending, Writing
<1>9. SessionsAreListed'
  BY <1>0, <1>4, HarnessSight, ListedStay
<1>10. RootIsKnown'
  BY <1>0, HarnessSight DEF TerminalInv, RootIsKnown
<1> QED
  BY <1>2, <1>3, <1>5, <1>6, <1>7, <1>8, <1>9, <1>10, TermInvOf

(* A session ends.                                                          *)
LEMMA SessionEndsKeeps ==
    ASSUME TerminalInv, NEW s \in Session, SessionEnds(s)
    PROVE  TerminalInv'
<1>0. /\ TermHarnessUnchanged /\ scall' = scall /\ frames' = frames
      /\ inputs' = inputs /\ sthreads' = sthreads
      /\ term[s] = "ACTIVE" /\ term' = [term EXCEPT ![s] = "TERMINATED"]
  BY DEF SessionEnds, TermHarnessUnchanged, sessionContext, sessionState, terminalHistory
<1>1. /\ term \in [Session -> SessionStates] /\ "TERMINATED" \in SessionStates
  BY TermFacts DEF SessionStates
<1>2. TermGrows /\ \A r \in Session : term[r] = "absent" => term'[r] = "absent"
  BY <1>0, <1>1 DEF TermGrows
<1>3. Sight' /\ EchoesOnce'
  BY <1>0, HarnessSight, FramesStay, SightKept, EchoesStay
<1>4. TerminalTypeOK'
  BY <1>0, <1>2, HarnessTypes, TermFacts DEF TermGrows
<1>5. CallsFit'
  <2>1. scall.pc = "open" => term'[scall.session] = "absent"
    BY <1>0, <1>2, TermFacts DEF TerminalInv, CallsFit
  <2> QED
    BY <1>0, <1>2, <2>1, HarnessSight, CallStays
<1>6. ThreadsFit'
  <2>1. \A th \in sthreads' : th[1] = "open" => term'[th[2]] = "absent"
    <3>1. \A th \in sthreads : th[2] \in Session
      BY TermFacts
    <3> QED
      BY <1>0, <1>2, <3>1 DEF TerminalInv, ThreadsFit
  <2> QED
    BY <1>0, <1>2, <2>1, HarnessSight, ThreadsStay
<1>7. InputsFit'
  BY <1>0 DEF TerminalInv, InputsFit, Sending, Writing
<1>8. SessionsAreListed'
  BY <1>0, <1>2, HarnessSight, ListedStay
<1>9. RootIsKnown'
  <2>1. \A r \in told' : term'[r] # "absent"
    BY <1>0, <1>2, HarnessSight, TermFacts DEF TerminalInv, RootIsKnown, TermGrows
  <2>2. scall'.pc \in {"open", "opened"} => scall'.session \notin told \ disturbed
    BY <1>0 DEF TerminalInv, RootIsKnown
  <2> QED
    BY <1>0, <1>2, <2>1, <2>2, HarnessSight, RootsStay
<1> QED
  BY <1>3, <1>4, <1>5, <1>6, <1>7, <1>8, <1>9, TermInvOf

(* A call begins.                                                           *)
LEMMA BeginKeeps ==
    ASSUME TerminalInv, NEW tool \in TermTool \ {"none"}, NEW s \in Session, NEW ref \in BOOLEAN,
           NEW pc \in {"open", "get"}, NEW kind \in AllInputs, Begin(tool, s, ref, pc, kind),
           pc = "open" => /\ tool = "open_terminal" /\ term[s] = "absent"
                          /\ \A th \in sthreads : th[1] = "open" => th[2] # s,
           pc = "get" => term[s] # "absent" /\ (ref \/ s = active_session_id),
           tool \in SendTool => MaySend,
           tool = "request_human_terminal_input" => kind \in {"plain", "typed"}
    PROVE  TerminalInv'
<1>0. /\ TermHarnessUnchanged /\ scall = NoTermCall /\ term' = term /\ frames' = frames
      /\ inputs' = inputs /\ sthreads' = sthreads
      /\ scall' = BegunOf(tool, s, ref, pc, kind)
  BY DEF Begin, BegunOf, TermHarnessUnchanged, runtimeSessions, sessionContext, sessionState, terminalHistory
<1>1. PICK c \in TermCallRecord :
         /\ scall' = c /\ c.tool = tool /\ c.pc = pc /\ c.session = s /\ c.ref = ref
         /\ c.input = kind /\ c.state = "absent" /\ c.got = <<>> /\ c.meaningful = FALSE
  <2>1. pc \in TermPc /\ tool \in TermTool
    BY DEF TermPc
  <2>2. PICK e \in TermCallRecord : e = NoTermCall /\ e.state = "absent" /\ e.got = <<>>
                                   /\ e.meaningful = FALSE
    BY NoTermFields
  <2>3. scall' = [e EXCEPT !.tool = tool, !.pc = pc, !.session = s, !.ref = ref, !.input = kind]
    BY <1>0, <2>2 DEF BegunOf
  <2>4. /\ scall' \in TermCallRecord /\ scall'.tool = tool /\ scall'.pc = pc /\ scall'.session = s
        /\ scall'.ref = ref /\ scall'.input = kind /\ scall'.state = "absent" /\ scall'.got = <<>>
        /\ scall'.meaningful = FALSE
    BY <2>1, <2>2, <2>3 DEF TermCallRecord
  <2> QED
    BY <2>4, Zenon
<1>2. scall.got = <<>> /\ scall.pc = "idle" /\ scall.tool = "none"
  BY <1>0, NoTermFields
<1>3. c # NoTermCall /\ s # NoSession
  <2>1. c.pc # "idle"
    BY <1>1
  <2> QED
    BY <2>1, NoTermFields, NoneIsNoSession
<1>4. TermGrows /\ FramesGrow
  BY <1>0, TermStays, FramesStay
<1>5. Sight' /\ EchoesOnce'
  <2>1. Unpolled(scall', terminal_cursor)
    BY <1>1 DEF Unpolled
  <2> QED
    BY <1>0, <1>2, <1>4, <2>1, HarnessSight, SightBefore, EchoesStay
<1>6. TerminalTypeOK'
  <2>1. scall'.session = NoSession <=> scall' = NoTermCall
    BY <1>1, <1>3
  <2> QED
    BY <1>0, <1>1, <2>1, HarnessTypes, TermFacts
<1>7. CallsFit'
  BY <1>0, <1>1, <1>3, HarnessSight DEF CallsFit, PollPc
<1>8. ThreadsFit'
  <2>1. \A th \in sthreads' : th[1] = "open" => term'[th[2]] = "absent"
    BY <1>0 DEF TerminalInv, ThreadsFit
  <2> QED
    BY <1>0, <1>4, <2>1, HarnessSight, ThreadsStay
<1>9. InputsFit'
  <2>1. Writing' = Writing /\ Cardinality(Writing)' = Cardinality(Writing)
    BY <1>0 DEF Writing
  <2>2. Sending' = (IF tool \in SendTool THEN 1 ELSE 0) /\ Sending = 0
    BY <1>1, <1>2 DEF Sending, SendTool
  <2>3. inputs \in Nat /\ MaxInputs \in Nat
    BY TermFacts, TermBoundAssumption
  <2>4. tool \in SendTool => inputs + Cardinality(Writing) + 1 <= MaxInputs
    BY <2>3, WritingIsFinite DEF MaySend
  <2>5. inputs + Cardinality(Writing) + 0 <= MaxInputs
    BY <2>2 DEF TerminalInv, InputsFit
  <2>6. inputs + Cardinality(Writing) + Sending' <= MaxInputs
    BY <2>2, <2>4, <2>5
  <2> QED
    BY <1>0, <1>1, <2>1, <2>6 DEF InputsFit
<1>10. SessionsAreListed'
  BY <1>0, <1>4, HarnessSight, ListedStay
<1>11. RootIsKnown'
  <2>1. \A r \in told' : term'[r] # "absent"
    BY <1>0, HarnessSight DEF TerminalInv, RootIsKnown
  <2>2. scall'.pc \in {"open", "opened"} => scall'.session \notin told \ disturbed
    BY <1>0, <1>1, <2>1, HarnessSight
  <2> QED
    BY <1>0, <1>2, <1>4, <2>1, <2>2, HarnessSight, RootsStay
<1> QED
  BY <1>5, <1>6, <1>7, <1>8, <1>9, <1>10, <1>11, TermInvOf

(* What an open, a close and a write do to the runtime.                     *)
LEMMA OpenedGrows ==
    ASSUME TerminalInv, NEW s \in Session, Opened(s), term[s] = "absent"
    PROVE  /\ TermGrows /\ term'[s] = "ACTIVE" /\ \A r \in Session \ {s} : term'[r] = term[r]
           /\ frames' = frames /\ inputs' = inputs
<1>1. term \in [Session -> SessionStates] /\ "ACTIVE" \in SessionStates
  BY TermFacts DEF SessionStates
<1> QED
  BY <1>1 DEF Opened, TermGrows

(* A session is closed.                                                     *)
LEMMA ClosedGrows ==
    ASSUME TerminalInv, NEW s \in Session, Closed(s)
    PROVE  /\ TermGrows /\ term'[s] = "TERMINATED" /\ \A r \in Session \ {s} : term'[r] = term[r]
           /\ frames' = frames /\ inputs' = inputs
<1>1. term \in [Session -> SessionStates] /\ "TERMINATED" \in SessionStates
  BY TermFacts DEF SessionStates
<1> QED
  BY <1>1 DEF Closed, TermGrows

(* An input is written.                                                     *)
LEMMA WrittenGrows ==
    ASSUME TerminalInv, NEW s \in Session, Written(s)
    PROVE  FramesGrow /\ EchoesOnce' /\ term' = term /\ term[s] = "ACTIVE" /\ inputs' = inputs + 1
<1>1. inputs + 1 \in Nat \ {0}
  BY TermFacts, TermBoundAssumption
<1>2. PICK f \in Frame : f = <<"in", inputs + 1>> /\ f[1] = "in"
  BY <1>1, FrameFields
<1>3. Stored(s, f) /\ term' = term /\ term[s] = "ACTIVE" /\ inputs' = inputs + 1
  BY <1>2 DEF Written
<1>4. FramesGrow /\ EchoesOnce'
  BY <1>2, <1>3, StoredGrows, EchoesKept
<1> QED
  BY <1>3, <1>4

(* The thread of a call that was cut opens its session.                     *)
LEMMA LateOpenKeeps ==
    ASSUME TerminalInv, NEW th \in sthreads, th[1] = "open", Opened(th[2]),
           sthreads' = sthreads \ {th}, TermHarnessUnchanged, scall' = scall
    PROVE  TerminalInv'
<1>1. PICK s \in Session : s = th[2]
  BY TermFacts
<1>2. term[s] = "absent" /\ \A ti \in sthreads' : ti[1] = "open" => ti[2] # s
  BY <1>1 DEF TerminalInv, ThreadsFit
<1>3. /\ TermGrows /\ term'[s] = "ACTIVE" /\ \A r \in Session \ {s} : term'[r] = term[r]
      /\ frames' = frames /\ inputs' = inputs
  BY <1>1, <1>2, OpenedGrows
<1>4. scall.pc = "open" => scall.session # s /\ term'[scall.session] = "absent"
  BY <1>1, <1>3, TermFacts DEF TerminalInv, CallsFit
<1>5. sthreads' \subseteq sthreads
  OBVIOUS
<1>6. Sight' /\ EchoesOnce'
  BY <1>3, HarnessSight, FramesStay, SightKept, EchoesStay
<1>7. TerminalTypeOK'
  BY <1>3, <1>5, HarnessTypes, TermFacts DEF TermGrows
<1>8. CallsFit'
  BY <1>3, <1>4, <1>5, HarnessSight, CallStays
<1>9. ThreadsFit'
  <2>1. \A ti \in sthreads' : ti[1] = "open" => term'[ti[2]] = "absent"
    <3>1. \A ti \in sthreads : ti[2] \in Session
      BY TermFacts
    <3>2. \A ti \in sthreads' : ti[1] = "open" => term[ti[2]] = "absent" /\ ti[2] \in Session \ {s}
      BY <1>2, <1>5, <3>1 DEF TerminalInv, ThreadsFit
    <3> QED
      BY <1>3, <3>2
  <2> QED
    BY <1>3, <1>5, <2>1, HarnessSight, ThreadsStay
<1>10. InputsFit'
  <2>1. Sending' <= Sending
    BY DEF Sending
  <2>2. scall'.pc = "written" => scall'.stored \in 1..inputs
    BY DEF TerminalInv, InputsFit
  <2> QED
    BY <1>3, <1>5, <2>1, <2>2, InputsStay
<1>11. SessionsAreListed'
  BY <1>3, HarnessSight, ListedStay
<1>12. RootIsKnown'
  <2>1. \A r \in told' : term'[r] # "absent"
    BY <1>3, HarnessSight, TermFacts DEF TerminalInv, RootIsKnown, TermGrows
  <2>2. scall'.pc \in {"open", "opened"} => scall'.session \notin told \ disturbed
    BY DEF TerminalInv, RootIsKnown
  <2> QED
    BY <1>3, <2>1, <2>2, HarnessSight, RootsStay
<1> QED
  BY <1>6, <1>7, <1>8, <1>9, <1>10, <1>11, <1>12, TermInvOf

(* It closes its session, or finds that it has ended.                       *)
LEMMA LateCloseKeeps ==
    ASSUME TerminalInv, NEW th \in sthreads, th[1] # "open",
           \/ Closed(th[2])
           \/ term' = term /\ frames' = frames /\ inputs' = inputs,
           sthreads' = sthreads \ {th}, TermHarnessUnchanged, scall' = scall
    PROVE  TerminalInv'
<1>1. PICK s \in Session : s = th[2]
  BY TermFacts
<1>2. term[s] # "absent"
  BY <1>1 DEF TerminalInv, ThreadsFit
<1>3. /\ TermGrows /\ \A r \in Session : term[r] = "absent" => term'[r] = "absent"
      /\ frames' = frames /\ inputs' = inputs
  BY <1>1, <1>2, ClosedGrows, TermStays
<1>5. sthreads' \subseteq sthreads
  OBVIOUS
<1>6. Sight' /\ EchoesOnce'
  BY <1>3, HarnessSight, FramesStay, SightKept, EchoesStay
<1>7. TerminalTypeOK'
  BY <1>3, <1>5, HarnessTypes, TermFacts DEF TermGrows
<1>8. CallsFit'
  <2>1. scall.pc = "open" => term'[scall.session] = "absent"
    BY <1>3, TermFacts DEF TerminalInv, CallsFit
  <2> QED
    BY <1>3, <1>5, <2>1, HarnessSight, CallStays
<1>9. ThreadsFit'
  <2>1. \A ti \in sthreads' : ti[1] = "open" => term'[ti[2]] = "absent"
    <3>1. \A ti \in sthreads : ti[2] \in Session
      BY TermFacts
    <3>2. \A ti \in sthreads' : ti[1] = "open" => term[ti[2]] = "absent" /\ ti[2] \in Session
      BY <1>5, <3>1 DEF TerminalInv, ThreadsFit
    <3> QED
      BY <1>3, <3>2
  <2> QED
    BY <1>3, <1>5, <2>1, HarnessSight, ThreadsStay
<1>10. InputsFit'
  <2>1. Sending' <= Sending
    BY DEF Sending
  <2>2. scall'.pc = "written" => scall'.stored \in 1..inputs
    BY DEF TerminalInv, InputsFit
  <2> QED
    BY <1>3, <1>5, <2>1, <2>2, InputsStay
<1>11. SessionsAreListed'
  BY <1>3, HarnessSight, ListedStay
<1>12. RootIsKnown'
  <2>1. \A r \in told' : term'[r] # "absent"
    BY <1>3, HarnessSight, TermFacts DEF TerminalInv, RootIsKnown, TermGrows
  <2>2. scall'.pc \in {"open", "opened"} => scall'.session \notin told \ disturbed
    BY DEF TerminalInv, RootIsKnown
  <2> QED
    BY <1>3, <2>1, <2>2, HarnessSight, RootsStay
<1> QED
  BY <1>6, <1>7, <1>8, <1>9, <1>10, <1>11, <1>12, TermInvOf

(* It writes its input.                                                     *)
LEMMA LateWriteKeeps ==
    ASSUME TerminalInv, NEW th \in sthreads, th[1] = "write", Written(th[2]),
           sthreads' = sthreads \ {th}, TermHarnessUnchanged, scall' = scall
    PROVE  TerminalInv'
<1>1. PICK s \in Session : s = th[2]
  BY TermFacts
<1>3. FramesGrow /\ EchoesOnce' /\ term' = term /\ inputs' = inputs + 1
  BY <1>1, WrittenGrows
<1>4. TermGrows
  BY <1>3, TermStays
<1>5. sthreads' \subseteq sthreads
  OBVIOUS
<1>6. Sight'
  BY <1>3, HarnessSight, SightKept
<1>7. InputsFit' /\ inputs' \in 0..MaxInputs
  <2>1. Writing' = Writing \ {th} /\ th \in Writing
    BY DEF Writing
  <2>2. IsFiniteSet(Writing) /\ Cardinality(Writing) \in Nat
    BY WritingIsFinite
  <2>3. Cardinality(Writing \ {th}) = Cardinality(Writing) - 1 /\ IsFiniteSet(Writing \ {th})
    BY <2>1, <2>2, FS_RemoveElement
  <2>4. Cardinality(Writing)' = Cardinality(Writing) - 1
    BY <2>1, <2>3
  <2>5. Sending \in Nat /\ Sending' = Sending
    BY DEF Sending
  <2>6. inputs + Cardinality(Writing) + Sending <= MaxInputs
    BY DEF TerminalInv, InputsFit
  <2>7. inputs \in Nat /\ MaxInputs \in Nat
    BY TermFacts, TermBoundAssumption
  <2>8. Cardinality(Writing) - 1 \in Nat
    BY <2>1, <2>3, FS_CardinalityType
  <2>9. inputs' + (Cardinality(Writing) - 1) + Sending <= MaxInputs /\ inputs' \in 0..MaxInputs
    BY <1>3, <2>2, <2>5, <2>6, <2>7, <2>8
  <2>10. scall'.pc = "written" => scall'.stored \in 1..inputs'
    BY <1>3, <2>7 DEF TerminalInv, InputsFit
  <2> QED
    BY <2>4, <2>5, <2>9, <2>10 DEF InputsFit
<1>8. TerminalTypeOK'
  <2> QED
    BY <1>3, <1>4, <1>5, <1>7, HarnessTypes, TermFacts DEF TermGrows, FramesGrow
<1>9. CallsFit'
  <2>1. scall.pc = "open" => term'[scall.session] = "absent"
    BY <1>3 DEF TerminalInv, CallsFit
  <2> QED
    BY <1>4, <1>5, <2>1, HarnessSight, CallStays
<1>10. ThreadsFit'
  <2>1. \A ti \in sthreads' : ti[1] = "open" => term'[ti[2]] = "absent"
    BY <1>3 DEF TerminalInv, ThreadsFit
  <2> QED
    BY <1>4, <1>5, <2>1, HarnessSight, ThreadsStay
<1>11. SessionsAreListed'
  BY <1>4, HarnessSight, ListedStay
<1>12. RootIsKnown'
  <2>1. \A r \in told' : term'[r] # "absent"
    BY <1>3, HarnessSight DEF TerminalInv, RootIsKnown
  <2>2. scall'.pc \in {"open", "opened"} => scall'.session \notin told \ disturbed
    BY DEF TerminalInv, RootIsKnown
  <2> QED
    BY <1>3, <1>4, <2>1, <2>2, HarnessSight, RootsStay
<1> QED
  BY <1>3, <1>6, <1>7, <1>8, <1>9, <1>10, <1>11, <1>12, TermInvOf

(* The thread of a call that was cut goes on.                               *)
LEMMA TermThreadKeeps ==
    ASSUME TerminalInv, TermThreadGoesOn
    PROVE  TerminalInv'
<1>1. PICK th \in sthreads :
         /\ sthreads' = sthreads \ {th}
         /\ \/ Performs(th[1], th[2])
            \/ th[1] = "write" /\ term[th[2]] # "ACTIVE" /\ UNCHANGED <<term, frames, inputs>>
         /\ UNCHANGED <<sessionContext, scall, scuts, terminalHistory>>
  BY DEF TermThreadGoesOn
<1>2. TermHarnessUnchanged /\ scall' = scall
  BY <1>1 DEF TermHarnessUnchanged, sessionContext, sessionState, terminalHistory
<1>3. th[1] \in {"open", "write", "close"}
  BY TermFacts
<1>4. CASE th[1] = "open"
  BY <1>1, <1>2, <1>4, LateOpenKeeps DEF Performs
<1>5. CASE th[1] = "write"
  BY <1>1, <1>2, <1>5, LateWriteKeeps, LateCloseKeeps DEF Performs
<1>6. CASE th[1] = "close"
  BY <1>1, <1>2, <1>6, LateCloseKeeps DEF Performs
<1> QED
  BY <1>3, <1>4, <1>5, <1>6

(* The thread of a call in progress does its work.                          *)
LEMMA ThreadRunsCall ==
    ASSUME TerminalInv, ThreadRuns
    PROVE  /\ scall.session \in Session /\ scall.input \in AllInputs /\ scall.tool \in TermTool
           /\ TermHarnessUnchanged /\ sthreads' = sthreads
           /\ inputs' \in Nat =>
                /\ scall' \in TermCallRecord /\ scall'.tool = scall.tool /\ scall'.session = scall.session
                /\ scall'.input = scall.input /\ scall'.state = scall.state /\ scall'.stored = inputs'
                /\ scall'.got = <<>> /\ scall'.meaningful = FALSE
                /\ scall'.session # NoSession /\ scall' # NoTermCall
           /\ \/ scall.pc = "open" /\ Opened(scall.session) /\ (inputs' \in Nat => scall'.pc = "opened")
              \/ /\ scall.pc = "write" /\ Written(scall.session)
                 /\ inputs' \in Nat => scall'.pc = "written"
              \/ scall.pc = "close" /\ Closed(scall.session) /\ (inputs' \in Nat => scall'.pc = "closed")
           /\ scall.got = <<>>
<1>1. PICK c \in TermCallRecord : c = scall /\ c.pc \in {"open", "write", "close"}
  BY TermFacts DEF ThreadRuns
<1>2. /\ c.session \in Session /\ c.input \in AllInputs /\ c.tool \in TermTool
      /\ c.got = <<>> /\ c.meaningful = FALSE
  <2>1. c.meaningful \in BOOLEAN
    BY TermFields
  <2>2. c.got = <<>> /\ ~c.meaningful
    BY <1>1 DEF TerminalInv, CallsFit, PollPc
  <2> QED
    BY <1>1, <2>1, <2>2, TermFacts, TermFields
<1>3. TermHarnessUnchanged /\ sthreads' = sthreads
  BY DEF ThreadRuns, TermHarnessUnchanged, sessionContext, sessionState, terminalHistory
<1>4. PICK pc \in TermPc :
         /\ scall' = StoredOf(c, pc, inputs')
         /\ \/ c.pc = "open" /\ Opened(c.session) /\ pc = "opened"
            \/ c.pc = "write" /\ Written(c.session) /\ pc = "written"
            \/ c.pc = "close" /\ Closed(c.session) /\ pc = "closed"
  <2>1. "opened" \in TermPc /\ "written" \in TermPc /\ "closed" \in TermPc
    BY DEF TermPc
  <2>2. CASE c.pc = "open"
    BY <1>1, <2>1, <2>2 DEF ThreadRuns, Performs, StoredOf
  <2>3. CASE c.pc = "write"
    BY <1>1, <2>1, <2>3 DEF ThreadRuns, Performs, StoredOf
  <2>4. CASE c.pc = "close"
    BY <1>1, <2>1, <2>4 DEF ThreadRuns, Performs, StoredOf
  <2> QED
    BY <1>1, <2>2, <2>3, <2>4
<1>5. ASSUME inputs' \in Nat
      PROVE  /\ scall' \in TermCallRecord /\ scall'.tool = c.tool /\ scall'.session = c.session
             /\ scall'.input = c.input /\ scall'.state = c.state /\ scall'.stored = inputs'
             /\ scall'.got = <<>> /\ scall'.meaningful = FALSE /\ scall'.pc = pc
  <2>1. PICK n \in Nat : n = inputs'
    BY <1>5
  <2>2. LET d == StoredOf(c, pc, n)
        IN  /\ d \in TermCallRecord /\ d.pc = pc /\ d.tool = c.tool /\ d.session = c.session
            /\ d.input = c.input /\ d.state = c.state /\ d.got = c.got /\ d.stored = n
            /\ d.meaningful = c.meaningful
    BY StoredTermCall
  <2> QED
    BY <1>2, <1>4, <2>1, <2>2
<1>6. inputs' \in Nat => scall'.session # NoSession /\ scall' # NoTermCall
  BY <1>2, <1>5, NoTermFields, NoneIsNoSession
<1> QED
  BY <1>1, <1>2, <1>3, <1>4, <1>5, <1>6

(* The thread of open_terminal runs.                                        *)
LEMMA OpenRunsKeeps ==
    ASSUME TerminalInv, ThreadRuns, scall.pc = "open"
    PROVE  TerminalInv'
<1>1. PICK s \in Session : s = scall.session
  BY ThreadRunsCall
<1>2. /\ TermHarnessUnchanged /\ sthreads' = sthreads /\ Opened(s) /\ scall.got = <<>>
  BY <1>1, ThreadRunsCall
<1>3. term[s] = "absent" /\ (\A th \in sthreads : th[1] = "open" => th[2] # s) /\ scall.tool = "open_terminal"
  BY <1>1 DEF TerminalInv, CallsFit
<1>4. /\ TermGrows /\ term'[s] = "ACTIVE" /\ \A r \in Session \ {s} : term'[r] = term[r]
      /\ frames' = frames /\ inputs' = inputs
  BY <1>2, <1>3, OpenedGrows
<1>5. /\ scall' \in TermCallRecord /\ scall'.tool = "open_terminal" /\ scall'.session = s
      /\ scall'.state = scall.state /\ scall'.pc = "opened"
      /\ scall'.got = <<>> /\ scall'.meaningful = FALSE
      /\ scall'.session # NoSession /\ scall' # NoTermCall
  <2>1. inputs' \in Nat
    BY <1>4, TermFacts, TermBoundAssumption
  <2> QED
    BY <1>1, <1>3, <2>1, ThreadRunsCall
<1>6. Sight' /\ EchoesOnce'
  <2>1. Unpolled(scall', terminal_cursor)
    BY <1>5 DEF Unpolled
  <2> QED
    BY <1>2, <1>4, <2>1, HarnessSight, FramesStay, SightBefore, EchoesStay
<1>7. TerminalTypeOK'
  BY <1>2, <1>4, <1>5, HarnessTypes, TermFacts DEF TermGrows
<1>8. CallsFit'
  <2>1. scall.state # "TERMINATED"
    BY <1>1, <1>3 DEF TerminalInv, CallsFit
  <2> QED
    BY <1>4, <1>5, <2>1 DEF CallsFit, PollPc
<1>9. ThreadsFit'
  <2>1. \A ti \in sthreads' : ti[1] = "open" => term'[ti[2]] = "absent"
    <3>1. \A ti \in sthreads : ti[2] \in Session
      BY TermFacts
    <3> QED
      BY <1>2, <1>3, <1>4, <3>1 DEF TerminalInv, ThreadsFit
  <2> QED
    BY <1>2, <1>4, <2>1, HarnessSight, ThreadsStay
<1>10. InputsFit'
  <2>1. Sending' = 0 /\ Sending = 0
    BY <1>3, <1>5 DEF Sending, SendTool
  <2>2. scall'.pc # "written"
    BY <1>5
  <2> QED
    BY <1>2, <1>4, <2>1, <2>2, InputsStay
<1>11. SessionsAreListed'
  BY <1>2, <1>4, HarnessSight, ListedStay
<1>12. RootIsKnown'
  <2>1. \A r \in told' : term'[r] # "absent"
    BY <1>2, <1>4, HarnessSight, TermFacts DEF TerminalInv, RootIsKnown, TermGrows
  <2>2. scall'.session \notin told \ disturbed
    BY <1>1, <1>5 DEF TerminalInv, RootIsKnown
  <2> QED
    BY <1>2, <1>4, <2>1, <2>2, HarnessSight, RootsStay
<1> QED
  BY <1>6, <1>7, <1>8, <1>9, <1>10, <1>11, <1>12, TermInvOf

(* The thread of close_terminal runs.                                       *)
LEMMA CloseRunsKeeps ==
    ASSUME TerminalInv, ThreadRuns, scall.pc = "close"
    PROVE  TerminalInv'
<1>1. PICK s \in Session : s = scall.session
  BY ThreadRunsCall
<1>2. /\ TermHarnessUnchanged /\ sthreads' = sthreads /\ Closed(s) /\ scall.got = <<>>
  BY <1>1, ThreadRunsCall
<1>3. term[s] # "absent" /\ scall.tool = "close_terminal"
  BY <1>1 DEF TerminalInv, CallsFit
<1>4. /\ TermGrows /\ term'[s] = "TERMINATED" /\ \A r \in Session \ {s} : term'[r] = term[r]
      /\ frames' = frames /\ inputs' = inputs
  BY <1>2, <1>3, ClosedGrows
<1>5. /\ scall' \in TermCallRecord /\ scall'.tool = "close_terminal" /\ scall'.session = s
      /\ scall'.pc = "closed"
      /\ scall'.got = <<>> /\ scall'.meaningful = FALSE
      /\ scall'.session # NoSession /\ scall' # NoTermCall
  <2>1. inputs' \in Nat
    BY <1>4, TermFacts, TermBoundAssumption
  <2> QED
    BY <1>1, <1>3, <2>1, ThreadRunsCall
<1>6. Sight' /\ EchoesOnce'
  <2>1. Unpolled(scall', terminal_cursor)
    BY <1>5 DEF Unpolled
  <2> QED
    BY <1>2, <1>4, <2>1, HarnessSight, FramesStay, SightBefore, EchoesStay
<1>7. TerminalTypeOK'
  BY <1>2, <1>4, <1>5, HarnessTypes, TermFacts DEF TermGrows
<1>8. CallsFit'
  BY <1>4, <1>5 DEF CallsFit, PollPc
<1>9. ThreadsFit'
  <2>1. \A ti \in sthreads' : ti[1] = "open" => term'[ti[2]] = "absent"
    <3>1. \A ti \in sthreads : ti[2] \in Session
      BY TermFacts
    <3>2. \A ti \in sthreads : ti[1] = "open" => term[ti[2]] = "absent"
      BY DEF TerminalInv, ThreadsFit
    <3> QED
      BY <1>2, <1>3, <1>4, <3>1, <3>2
  <2> QED
    BY <1>2, <1>4, <2>1, HarnessSight, ThreadsStay
<1>10. InputsFit'
  <2>1. Sending' = 0 /\ Sending = 0
    BY <1>3, <1>5 DEF Sending, SendTool
  <2>2. scall'.pc # "written"
    BY <1>5
  <2> QED
    BY <1>2, <1>4, <2>1, <2>2, InputsStay
<1>11. SessionsAreListed'
  BY <1>2, <1>4, HarnessSight, ListedStay
<1>12. RootIsKnown'
  <2>1. \A r \in told' : term'[r] # "absent"
    BY <1>2, <1>4, HarnessSight, TermFacts DEF TerminalInv, RootIsKnown, TermGrows
  <2>2. scall'.pc \notin {"open", "opened"}
    BY <1>5
  <2> QED
    BY <1>2, <1>4, <2>1, <2>2, HarnessSight, RootsStay
<1> QED
  BY <1>6, <1>7, <1>8, <1>9, <1>10, <1>11, <1>12, TermInvOf

(* The thread of an input runs.                                             *)
LEMMA WriteRunsKeeps ==
    ASSUME TerminalInv, ThreadRuns, scall.pc = "write"
    PROVE  TerminalInv'
<1>1. PICK s \in Session, kind \in AllInputs : s = scall.session /\ kind = scall.input
  BY ThreadRunsCall
<1>2. /\ TermHarnessUnchanged /\ sthreads' = sthreads /\ Written(s) /\ scall.got = <<>>
  BY <1>1, ThreadRunsCall
<1>3. /\ scall.tool \in SendTool /\ s = active_session_id /\ scall.state # "absent"
      /\ scall.tool = "request_human_terminal_input" => kind \in {"plain", "typed"}
      /\ scall.state = "TERMINATED" => term[s] = "TERMINATED"
  BY <1>1 DEF TerminalInv, CallsFit
<1>4. /\ FramesGrow /\ EchoesOnce' /\ term' = term /\ term[s] = "ACTIVE" /\ inputs' = inputs + 1
  BY <1>2, WrittenGrows
<1>5. /\ scall' \in TermCallRecord /\ scall'.tool = scall.tool /\ scall'.session = s
      /\ scall'.pc = "written" /\ scall'.input = kind /\ scall'.state = scall.state
      /\ scall'.got = <<>> /\ scall'.meaningful = FALSE /\ scall'.stored = inputs'
      /\ scall'.session # NoSession /\ scall' # NoTermCall
  <2>1. inputs' \in Nat
    BY <1>4, TermFacts, TermBoundAssumption
  <2> QED
    BY <1>1, <2>1, ThreadRunsCall
<1>6. Sight'
  <2>1. Unpolled(scall', terminal_cursor)
    BY <1>5 DEF Unpolled
  <2> QED
    BY <1>2, <1>4, <2>1, HarnessSight, SightBefore
<1>7. TermGrows
  BY <1>4, TermStays
<1>8. InputsFit' /\ inputs' \in 0..MaxInputs
  <2>1. Writing' = Writing /\ Cardinality(Writing)' = Cardinality(Writing)
    BY <1>2 DEF Writing
  <2>2. Sending' = 0 /\ Sending = 1
    BY <1>3, <1>5 DEF Sending
  <2>3. Cardinality(Writing) \in Nat /\ inputs \in Nat /\ MaxInputs \in Nat
    BY WritingIsFinite, TermFacts, TermBoundAssumption
  <2>4. inputs + Cardinality(Writing) + 1 <= MaxInputs
    BY <2>2 DEF TerminalInv, InputsFit
  <2>5. inputs' + Cardinality(Writing) + 0 <= MaxInputs /\ inputs' \in 0..MaxInputs /\ inputs' \in 1..inputs'
    BY <1>4, <2>3, <2>4
  <2> QED
    BY <1>5, <2>1, <2>2, <2>5 DEF InputsFit
<1>9. TerminalTypeOK'
  <2> QED
    BY <1>2, <1>4, <1>5, <1>7, <1>8, HarnessTypes DEF TermGrows, FramesGrow
<1>10. CallsFit'
  BY <1>2, <1>3, <1>4, <1>5, HarnessSight DEF CallsFit, PollPc
<1>11. ThreadsFit'
  <2>1. \A ti \in sthreads' : ti[1] = "open" => term'[ti[2]] = "absent"
    BY <1>2, <1>4 DEF TerminalInv, ThreadsFit
  <2> QED
    BY <1>2, <1>7, <2>1, HarnessSight, ThreadsStay
<1>12. SessionsAreListed'
  BY <1>2, <1>7, HarnessSight, ListedStay
<1>13. RootIsKnown'
  <2>1. \A r \in told' : term'[r] # "absent"
    BY <1>2, <1>4, HarnessSight DEF TerminalInv, RootIsKnown
  <2>2. scall'.pc \notin {"open", "opened"}
    BY <1>5
  <2> QED
    BY <1>2, <1>7, <2>1, <2>2, HarnessSight, RootsStay
<1> QED
  BY <1>4, <1>6, <1>8, <1>9, <1>10, <1>11, <1>12, <1>13, TermInvOf

(* The thread of the call in progress runs.                                 *)
LEMMA ThreadRunsKeeps ==
    ASSUME TerminalInv, ThreadRuns
    PROVE  TerminalInv'
  BY OpenRunsKeeps, CloseRunsKeeps, WriteRunsKeeps DEF ThreadRuns

(* No call is in progress.                                                  *)
LEMMA NoCallFits ==
    ASSUME TerminalInv, scall' = NoTermCall
    PROVE  /\ CallsFit' /\ Sending' = 0 /\ scall'.pc = "idle" /\ scall'.got = <<>>
           /\ \A n \in Nat : Unpolled(scall', n)
           /\ scall' \in TermCallRecord /\ (scall'.session = NoSession <=> scall' = NoTermCall)
<1>1. /\ scall'.pc = "idle" /\ scall'.tool = "none" /\ scall'.got = <<>> /\ scall'.meaningful = FALSE
      /\ scall'.input = "plain" /\ scall'.state = "absent" /\ scall'.session = NoSession
      /\ scall' \in TermCallRecord
  BY NoTermFields
<1>2. CallsFit'
  BY <1>1 DEF CallsFit, PollPc
<1>3. Sending' = 0
  BY <1>1 DEF Sending, SendTool
<1>4. \A n \in Nat : Unpolled(scall', n)
  BY <1>1 DEF Unpolled
<1> QED
  BY <1>1, <1>2, <1>3, <1>4

(* The runtime does not change.                                             *)
TermRuntimeUnchanged ==
    /\ term' = term /\ frames' = frames /\ inputs' = inputs /\ sthreads' = sthreads
LEMMA RuntimeFits ==
    ASSUME TerminalInv, TermRuntimeUnchanged
    PROVE  /\ TermGrows /\ FramesGrow /\ EchoesOnce' /\ ThreadsFit'
           /\ \A r \in told : term'[r] # "absent"
           /\ Sending' <= Sending /\ (scall'.pc = "written" => scall'.stored \in 1..inputs) => InputsFit'
<1>1. term' = term /\ frames' = frames /\ inputs' = inputs /\ sthreads' = sthreads
  BY DEF TermRuntimeUnchanged
<1>2. TermGrows /\ FramesGrow /\ EchoesOnce'
  BY <1>1, TermStays, FramesStay, EchoesStay
<1>3. ThreadsFit'
  <2>1. \A ti \in sthreads' : ti[1] = "open" => term'[ti[2]] = "absent"
    BY <1>1 DEF TerminalInv, ThreadsFit
  <2> QED
    BY <1>1, <1>2, <2>1, ThreadsStay
<1>4. \A r \in told : term'[r] # "absent"
  BY <1>1 DEF TerminalInv, RootIsKnown
<1>5. Sending' <= Sending /\ (scall'.pc = "written" => scall'.stored \in 1..inputs) => InputsFit'
  BY <1>1, InputsStay
<1> QED
  BY <1>2, <1>3, <1>4, <1>5

(* The user answers the secret prompt.                                      *)
LEMMA HumanAnswersKeeps ==
    ASSUME TerminalInv, HumanAnswers
    PROVE  TerminalInv'
<1>0. /\ TermHarnessUnchanged /\ TermRuntimeUnchanged /\ scall.pc = "prompt"
      /\ scall' = NoTermCall \/ scall' = MovedTo(scall, "write")
  BY DEF HumanAnswers, TermHarnessUnchanged, TermRuntimeUnchanged, runtimeSessions, sessionContext,
         sessionState, terminalHistory, MovedTo
<1>1. PICK c \in TermCallRecord : c = scall
  BY TermFacts
<1>2. /\ c.session \in Session /\ c.tool \in SendTool /\ c.got = <<>> /\ ~c.meaningful
      /\ c.meaningful = FALSE /\ c.session = active_session_id /\ c.state # "absent"
      /\ c.tool = "request_human_terminal_input" => c.input \in {"plain", "typed"}
      /\ c.state = "TERMINATED" => term[c.session] = "TERMINATED"
      /\ term[c.session] # "absent"
  <2>1. c.session \in Session /\ c.meaningful \in BOOLEAN
    BY <1>0, <1>1, TermFacts, TermFields
  <2>2. /\ c.tool \in SendTool /\ c.got = <<>> /\ ~c.meaningful
        /\ c.session = active_session_id /\ c.state # "absent"
        /\ c.tool = "request_human_terminal_input" => c.input \in {"plain", "typed"}
        /\ c.state = "TERMINATED" => term[c.session] = "TERMINATED"
        /\ term[c.session] # "absent"
    BY <1>0, <1>1 DEF TerminalInv, CallsFit, PollPc
  <2> QED
    BY <2>1, <2>2
<1>3. /\ CallsFit' /\ Sending' <= Sending /\ scall'.pc \notin {"written", "open", "opened"}
      /\ Unpolled(scall', terminal_cursor) /\ scall' \in TermCallRecord
      /\ (scall'.session = NoSession <=> scall' = NoTermCall)
  <2>1. CASE scall' = NoTermCall
    <3>1. Sending \in Nat /\ terminal_cursor \in Nat
      BY TermFacts DEF Sending
    <3>2. /\ CallsFit' /\ Sending' = 0 /\ scall'.pc = "idle"
          /\ \A n \in Nat : Unpolled(scall', n)
          /\ scall' \in TermCallRecord /\ (scall'.session = NoSession <=> scall' = NoTermCall)
      BY <2>1, NoCallFits
    <3> QED
      BY <3>1, <3>2
  <2>2. CASE scall' = MovedTo(scall, "write")
    <3>1. PICK p \in TermPc : p = "write"
      BY DEF TermPc
    <3>2. LET d == MovedTo(c, p)
          IN  /\ d \in TermCallRecord /\ d.pc = p /\ d.tool = c.tool /\ d.session = c.session
              /\ d.input = c.input /\ d.state = c.state /\ d.got = c.got /\ d.stored = c.stored
              /\ d.meaningful = c.meaningful
      BY MovedTermCall
    <3>3. /\ scall' \in TermCallRecord /\ scall'.pc = "write" /\ scall'.tool = c.tool
          /\ scall'.session = c.session /\ scall'.input = c.input /\ scall'.state = c.state
          /\ scall'.got = <<>> /\ scall'.meaningful = FALSE
      BY <1>1, <1>2, <2>2, <3>1, <3>2
    <3>4. scall'.session # NoSession /\ scall' # NoTermCall
      BY <1>2, <3>3, NoTermFields, NoneIsNoSession
    <3>5. CallsFit'
      BY <1>0, <1>2, <3>3, <3>4, HarnessSight DEF CallsFit, PollPc, TermRuntimeUnchanged
    <3>6. Sending' = 1 /\ Sending = 1
      BY <1>0, <1>1, <1>2, <3>3 DEF Sending
    <3>7. Unpolled(scall', terminal_cursor)
      BY <3>3 DEF Unpolled
    <3> QED
      BY <3>3, <3>4, <3>5, <3>6, <3>7
  <2> QED
    BY <1>0, <2>1, <2>2
<1>4. TermGrows /\ FramesGrow /\ EchoesOnce' /\ ThreadsFit' /\ InputsFit' /\ \A r \in told' : term'[r] # "absent"
  BY <1>0, <1>3, HarnessSight, RuntimeFits
<1>5. Sight'
  BY <1>0, <1>1, <1>2, <1>3, <1>4, HarnessSight, SightBefore
<1>6. TerminalTypeOK'
  BY <1>0, <1>3, HarnessTypes, TermFacts DEF TermRuntimeUnchanged
<1>7. SessionsAreListed'
  BY <1>0, <1>4, HarnessSight, ListedStay
<1>8. RootIsKnown'
  BY <1>0, <1>3, <1>4, HarnessSight, RootsStay DEF TermRuntimeUnchanged
<1> QED
  BY <1>3, <1>4, <1>5, <1>6, <1>7, <1>8, TermInvOf

(* The focus moves: what was in it is disturbed.                            *)
LEMMA RefocusedFacts ==
    ASSUME TerminalInv, NEW s \in Session \cup {NoSession}, Refocused(s)
    PROVE  /\ view' = <<>> /\ passed' = {} /\ mixed' = FALSE /\ owed' = 0 /\ told' = told
           /\ disturbed \subseteq disturbed' /\ disturbed' \subseteq Session
           /\ active_session_id \notin {s, NoSession} => active_session_id \in disturbed'
  BY TermFacts DEF Refocused

(* open_terminal returns.                                                   *)
LEMMA OpenReturnsKeeps ==
    ASSUME TerminalInv, OpenReturns
    PROVE  TerminalInv'
<1>1. PICK s \in Session : s = scall.session /\ scall.pc = "opened"
  BY TermFacts DEF OpenReturns
<1>2. /\ active_session_id' = s /\ terminal_cursor' = 0 /\ active_session_privilege' = "user"
      /\ Refocused(s) /\ session_briefs' = [session_briefs EXCEPT ![s] = "UNKNOWN"]
      /\ scall' = NoTermCall /\ TermRuntimeUnchanged /\ terminal_input_pending' = terminal_input_pending
      /\ last_terminal_input' = last_terminal_input
      /\ active_session_stateful' = active_session_stateful /\ scuts' = scuts
  BY <1>1 DEF OpenReturns, Briefed, TermRuntimeUnchanged, runtimeSessions
<1>3. /\ view' = <<>> /\ passed' = {} /\ mixed' = FALSE /\ owed' = 0 /\ told' = told
      /\ disturbed \subseteq disturbed' /\ disturbed' \subseteq Session
      /\ active_session_id \notin {s, NoSession} => active_session_id \in disturbed'
  BY <1>2, RefocusedFacts
<1>4. /\ CallsFit' /\ Sending' = 0 /\ scall'.pc = "idle" /\ Unpolled(scall', 0)
      /\ scall' \in TermCallRecord /\ (scall'.session = NoSession <=> scall' = NoTermCall)
  BY <1>2, NoCallFits
<1>5. /\ TermGrows /\ FramesGrow /\ EchoesOnce' /\ ThreadsFit' /\ InputsFit'
      /\ \A r \in told' : term'[r] # "absent"
  <2>1. Sending' <= Sending
    BY <1>4 DEF Sending
  <2> QED
    BY <1>2, <1>3, <1>4, <2>1, RuntimeFits
<1>6. Sight'
  BY <1>2, <1>3, <1>4, <1>5, SightAnew
<1>7. session_briefs' \in [Session -> BriefStates] /\ session_briefs'[s] = "UNKNOWN"
      /\ \A r \in Session \ {s} : session_briefs'[r] = session_briefs[r]
  BY <1>2, TermFacts DEF BriefStates
<1>8. TerminalTypeOK'
  <2>1. TerminalTypeOK
    BY DEF TerminalInv
  <2>2. view' \in Seq(Nat \ {0}) /\ passed' \subseteq Nat /\ owed' \in Nat /\ mixed' \in BOOLEAN
        /\ terminal_cursor' \in Nat /\ active_session_id' \in Session /\ active_session_id' # NoSession
    <3>1. <<>> \in Seq(Nat \ {0})
      OBVIOUS
    <3> QED
      BY <1>2, <1>3, <3>1, NoneIsNoSession
  <2> QED
    BY <1>2, <1>3, <1>4, <1>7, <2>1, <2>2 DEF TerminalTypeOK, TermRuntimeUnchanged
<1>9. SessionsAreListed'
  BY <1>2, <1>7 DEF TerminalInv, SessionsAreListed, TermRuntimeUnchanged
<1>10. RootIsKnown'
  <2>1. ASSUME NEW r \in told' \ disturbed'
        PROVE  FALSE
    <3>1. r \in told \ disturbed
      BY <1>2, <1>3, <2>1 DEF TermRuntimeUnchanged
    <3>2. r = active_session_id /\ r # s
      BY <1>1, <3>1 DEF TerminalInv, RootIsKnown
    <3> QED
      BY <1>3, <2>1, <3>1, <3>2, TermFacts, NoneIsNoSession
  <2>2. term'[active_session_id'] # "absent"
    BY <1>1, <1>2 DEF TerminalInv, CallsFit, TermRuntimeUnchanged
  <2> QED
    BY <1>4, <1>5, <2>1, <2>2 DEF RootIsKnown
<1> QED
  BY <1>4, <1>5, <1>6, <1>8, <1>9, <1>10, TermInvOf

(* close_terminal returns.                                                  *)
LEMMA CloseReturnsKeeps ==
    ASSUME TerminalInv, CloseReturns
    PROVE  TerminalInv'
<1>1. PICK s \in Session : s = scall.session /\ scall.pc = "closed"
  BY TermFacts DEF CloseReturns
<1>2. /\ active_session_id' = NoSession /\ terminal_cursor' = 0 /\ active_session_privilege' = "unknown"
      /\ Refocused(NoSession) /\ session_briefs' = [session_briefs EXCEPT ![s] = "TERMINATED"]
      /\ scall' = NoTermCall /\ TermRuntimeUnchanged /\ terminal_input_pending' = FALSE
      /\ last_terminal_input' = 0 /\ active_session_stateful' = FALSE /\ scuts' = scuts
  BY <1>1 DEF CloseReturns, Briefed, TermRuntimeUnchanged, runtimeSessions
<1>3. /\ view' = <<>> /\ passed' = {} /\ mixed' = FALSE /\ owed' = 0 /\ told' = told
      /\ disturbed \subseteq disturbed' /\ disturbed' \subseteq Session
      /\ active_session_id # NoSession => active_session_id \in disturbed'
  BY <1>2, RefocusedFacts
<1>4. /\ CallsFit' /\ Sending' = 0 /\ scall'.pc = "idle" /\ Unpolled(scall', 0)
      /\ scall' \in TermCallRecord /\ (scall'.session = NoSession <=> scall' = NoTermCall)
  BY <1>2, NoCallFits
<1>5. /\ TermGrows /\ FramesGrow /\ EchoesOnce' /\ ThreadsFit' /\ InputsFit'
      /\ \A r \in told' : term'[r] # "absent"
  <2>1. Sending' <= Sending
    BY <1>4 DEF Sending
  <2> QED
    BY <1>2, <1>3, <1>4, <2>1, RuntimeFits
<1>6. Sight'
  BY <1>2, <1>3, <1>4, <1>5, SightAnew
<1>7. session_briefs' \in [Session -> BriefStates] /\ session_briefs'[s] = "TERMINATED"
      /\ \A r \in Session \ {s} : session_briefs'[r] = session_briefs[r]
  BY <1>2, TermFacts DEF BriefStates
<1>8. TerminalTypeOK'
  <2>1. TerminalTypeOK
    BY DEF TerminalInv
  <2>2. view' \in Seq(Nat \ {0}) /\ passed' \subseteq Nat /\ owed' \in Nat /\ mixed' \in BOOLEAN
        /\ terminal_cursor' \in Nat /\ last_terminal_input' \in 0..MaxInputs
    <3>1. <<>> \in Seq(Nat \ {0})
      OBVIOUS
    <3>2. 0 \in 0..MaxInputs
      BY TermBoundAssumption
    <3> QED
      BY <1>2, <1>3, <3>1, <3>2
  <2> QED
    BY <1>2, <1>3, <1>4, <1>7, <2>1, <2>2 DEF TerminalTypeOK, TermRuntimeUnchanged
<1>9. SessionsAreListed'
  <2>1. term'[s] = "TERMINATED"
    BY <1>1, <1>2 DEF TerminalInv, CallsFit, TermRuntimeUnchanged
  <2> QED
    BY <1>2, <1>7, <2>1 DEF TerminalInv, SessionsAreListed, TermRuntimeUnchanged
<1>10. RootIsKnown'
  <2>1. ASSUME NEW r \in told' \ disturbed'
        PROVE  FALSE
    <3>1. r \in told \ disturbed /\ r \in Session
      BY <1>2, <1>3, <2>1, TermFacts DEF TermRuntimeUnchanged
    <3>2. r = active_session_id
      BY <1>1, <3>1 DEF TerminalInv, RootIsKnown
    <3> QED
      BY <1>3, <2>1, <3>1, <3>2, NoneIsNoSession
  <2> QED
    BY <1>2, <1>4, <1>5, <2>1 DEF RootIsKnown
<1> QED
  BY <1>4, <1>5, <1>6, <1>8, <1>9, <1>10, TermInvOf

(* Input never makes the context forget that care is needed.                *)
LEMMA InputIsCautious ==
    ASSUME TerminalInv, NEW kind \in AllInputs, AfterInput(kind)
    PROVE  /\ active_session_privilege' \in {"unknown", "user", "root"}
           /\ active_session_stateful' \in BOOLEAN
           /\ Cautious => Cautious'
           /\ kind = "root" => Cautious'
<1>1. active_session_privilege \in {"unknown", "user", "root"} /\ active_session_stateful \in BOOLEAN
  BY TermFacts, TermFlags
<1>2. CASE kind \in {"ctrl_c", "ctrl_d"}
  <2>1. AfterControl(kind)
    BY <1>2 DEF AfterInput
  <2>2. /\ active_session_privilege' = (IF active_session_privilege = "root" THEN "unknown"
                                        ELSE active_session_privilege)
        /\ active_session_stateful' = (active_session_stateful \/ active_session_privilege = "root"
                                       \/ kind = "ctrl_c")
    BY <2>1 DEF AfterControl
  <2> QED
    BY <1>1, <1>2, <2>2 DEF Cautious
<1>3. CASE kind \notin {"ctrl_c", "ctrl_d"}
  <2>1. AfterCommand(kind)
    BY <1>3 DEF AfterInput
  <2>2. /\ active_session_privilege' =
              (IF kind = "root" THEN "root"
               ELSE IF kind = "exit" /\ active_session_privilege = "root" THEN "unknown"
               ELSE active_session_privilege)
        /\ active_session_stateful' =
              (active_session_stateful \/ (kind = "exit" /\ active_session_privilege = "root")
               \/ kind \in Changing)
    BY <2>1 DEF AfterCommand
  <2> QED
    BY <1>1, <2>2 DEF Cautious, Changing
<1> QED
  BY <1>2, <1>3

(* An input was written.                                                    *)
LEMMA WriteReturnsKeeps ==
    ASSUME TerminalInv, WriteReturns
    PROVE  TerminalInv'
<1>1. PICK s \in Session, kind \in AllInputs, n \in 1..inputs :
         s = scall.session /\ kind = scall.input /\ n = scall.stored /\ scall.pc = "written"
  <2>1. scall \in TermCallRecord /\ scall.pc = "written"
    BY TermFacts DEF WriteReturns
  <2>2. scall.session \in Session /\ scall.input \in AllInputs /\ scall.stored \in 1..inputs
    BY <2>1, TermFacts, TermFields DEF TerminalInv, InputsFit
  <2> QED
    BY <2>1, <2>2
<1>2. /\ scall.tool \in SendTool /\ s = active_session_id /\ scall.got = <<>>
      /\ scall.tool = "request_human_terminal_input" => kind \in {"plain", "typed"}
      /\ scall.state \in {"ACTIVE", "TERMINATED"}
      /\ scall.state = "TERMINATED" => term[s] = "TERMINATED"
  <2>1. scall.state \in SessionStates
    BY TermFacts, TermFields
  <2> QED
    BY <1>1, <2>1 DEF TerminalInv, CallsFit, PollPc, SessionStates
<1>3. /\ last_terminal_input' = n /\ terminal_input_pending' = Submits(kind)
      /\ IF scall.tool = "send" THEN AfterInput(kind) ELSE AfterHumanInput
      /\ session_briefs' = [session_briefs EXCEPT ![s] = scall.state]
      /\ owed' = Submission(s, kind) /\ scall' = NoTermCall /\ TermRuntimeUnchanged
      /\ active_session_id' = active_session_id /\ terminal_cursor' = terminal_cursor
      /\ scuts' = scuts /\ view' = view /\ passed' = passed /\ mixed' = mixed /\ disturbed' = disturbed
      /\ told' = IF scall.tool = "send" /\ kind = "root" THEN told \cup {s} ELSE told
  BY <1>1 DEF WriteReturns, Briefed, TermRuntimeUnchanged, runtimeSessions
<1>4. /\ active_session_privilege' \in {"unknown", "user", "root"}
      /\ active_session_stateful' \in BOOLEAN
      /\ Cautious => Cautious'
      /\ kind = "root" => Cautious'
  <2>1. CASE scall.tool = "send"
    BY <1>3, <2>1, InputIsCautious
  <2>2. CASE scall.tool # "send"
    <3>1. kind # "root"
      BY <1>2, <2>2 DEF SendTool
    <3>2. active_session_privilege' = active_session_privilege
          /\ active_session_stateful' = active_session_stateful
      BY <1>3, <2>2 DEF AfterHumanInput, sessionState
    <3> QED
      BY <3>1, <3>2, TermFacts, TermFlags DEF Cautious
  <2> QED
    BY <2>1, <2>2
<1>5. /\ CallsFit' /\ Sending' = 0 /\ scall'.pc = "idle" /\ scall'.got = <<>>
      /\ scall' \in TermCallRecord /\ (scall'.session = NoSession <=> scall' = NoTermCall)
      /\ \A k \in Nat : Unpolled(scall', k)
  BY <1>3, NoCallFits
<1>6. /\ TermGrows /\ FramesGrow /\ EchoesOnce' /\ ThreadsFit' /\ InputsFit'
      /\ \A r \in told' : term'[r] # "absent"
  <2>1. Sending' <= Sending
    BY <1>5 DEF Sending
  <2>2. /\ TermGrows /\ FramesGrow /\ EchoesOnce' /\ ThreadsFit' /\ InputsFit'
        /\ \A r \in told : term'[r] # "absent"
    BY <1>3, <1>5, <2>1, RuntimeFits
  <2>3. term[s] # "absent"
    BY <1>1 DEF TerminalInv, CallsFit
  <2> QED
    BY <1>3, <2>2, <2>3 DEF TermGrows
<1>7. session_briefs' \in [Session -> BriefStates] /\ session_briefs'[s] = scall.state
      /\ \A r \in Session \ {s} : session_briefs'[r] = session_briefs[r]
  BY <1>2, <1>3, TermFacts DEF BriefStates
<1>8. PICK m \in Nat : m = owed' /\ (m # 0 => /\ Submits(kind) /\ AllSeen(s) /\ ~mixed
                                              /\ m = Len(frames[s]))
  <2>1. Len(frames[s]) \in Nat
    BY TermFacts
  <2> QED
    BY <1>3, <2>1 DEF Submission
<1>9. n \in 0..MaxInputs /\ n # 0
  BY TermFacts, TermBoundAssumption
<1>10. TerminalTypeOK'
  <2>1. TerminalTypeOK
    BY DEF TerminalInv
  <2>2. terminal_input_pending' \in BOOLEAN /\ active_session_id' # NoSession
    BY <1>2, <1>3, NoneIsNoSession DEF Submits
  <2>3. told' \subseteq Session
    BY <1>3, TermFacts
  <2> QED
    BY <1>3, <1>4, <1>5, <1>7, <1>8, <1>9, <2>1, <2>2, <2>3 DEF TerminalTypeOK, TermRuntimeUnchanged
<1>11. SessionsAreListed'
  BY <1>2, <1>3, <1>7 DEF TerminalInv, SessionsAreListed, TermRuntimeUnchanged
<1>12. RootIsKnown'
  <2>1. ASSUME NEW r \in told' \ disturbed'
        PROVE  r = active_session_id' /\ Cautious'
    <3>1. r \in told \ disturbed \/ (r = s /\ kind = "root")
      BY <1>3, <2>1
    <3>2. \/ r = active_session_id /\ Cautious
          \/ r = s /\ kind = "root"
      BY <3>1 DEF TerminalInv, RootIsKnown
    <3> QED
      BY <1>2, <1>3, <1>4, <3>2
  <2>2. active_session_id' # NoSession => term'[active_session_id'] # "absent"
    BY <1>3 DEF TerminalInv, RootIsKnown, TermRuntimeUnchanged
  <2> QED
    BY <1>5, <1>6, <2>1, <2>2 DEF RootIsKnown
<1>13. PageFollows'
  BY <1>5 DEF PageFollows, PollPc
<1>14. CursorFollowsView'
  <2>1. CursorFollowsView
    BY DEF TerminalInv
  <2>2. frames' = frames
    BY <1>3 DEF TermRuntimeUnchanged
  <2>3. Printed(active_session_id)' = Printed(active_session_id)
    BY <1>3, <2>2 DEF Printed, Shows
  <2>4. mixed => owed' = 0
    BY <1>8
  <2> QED
    BY <1>2, <1>3, <1>5, <2>1, <2>2, <2>3, <2>4 DEF CursorFollowsView
<1>15. OwedIsPending'
  <2>1. SUFFICES ASSUME owed' # 0
                 PROVE  OwedIsPending'
    BY DEF OwedIsPending
  <2>2. Submits(kind) /\ AllSeen(s) /\ owed' = Len(frames[s])
    BY <1>8, <2>1
  <2>3. frames' = frames /\ Printed(active_session_id)' = Printed(s)
    BY <1>2, <1>3 DEF TermRuntimeUnchanged, Printed, Shows
  <2>4. terminal_input_pending' /\ active_session_id' # NoSession /\ last_terminal_input' # 0
    BY <1>2, <1>3, <1>9, <2>2, NoneIsNoSession
  <2>5. owed' <= Len(frames'[active_session_id'])
    BY <1>2, <1>3, <1>8, <2>2, <2>3
  <2>6. \A i \in Printed(active_session_id)' : i <= terminal_cursor'
    BY <1>3, <2>2, <2>3 DEF AllSeen
  <2> QED
    BY <1>5, <2>4, <2>5, <2>6 DEF OwedIsPending, PollPc
<1>16. Sight'
  BY <1>13, <1>14, <1>15 DEF Sight
<1> QED
  BY <1>5, <1>6, <1>10, <1>11, <1>12, <1>16, TermInvOf

(* A call that is cut.                                                      *)
LEMMA TermCallCutKeeps ==
    ASSUME TerminalInv, TermCallCut
    PROVE  TerminalInv'
<1>1. PICK c \in TermCallRecord : c = scall /\ c.pc # "idle" /\ c.session \in Session
  BY TermFacts DEF TermCallCut
<1>2. /\ scuts < MaxTermCuts /\ scuts' = scuts + 1
      /\ sthreads' = IF c.pc \in {"open", "write", "close"}
                     THEN sthreads \cup {<<c.pc, c.session, scuts'>>} ELSE sthreads
      /\ told' = told /\ disturbed' = disturbed
      /\ mixed' = (mixed \/ c.got # <<>>)
      /\ view' = IF mixed' THEN <<>> ELSE view
      /\ passed' = IF mixed' THEN {} ELSE passed
      /\ owed' = IF c.pc \in {"write", "written"} \/ mixed' THEN 0 ELSE owed
      /\ scall' = NoTermCall
      /\ term' = term /\ frames' = frames /\ inputs' = inputs
      /\ active_session_id' = active_session_id /\ terminal_cursor' = terminal_cursor
      /\ terminal_input_pending' = terminal_input_pending /\ last_terminal_input' = last_terminal_input
      /\ active_session_privilege' = active_session_privilege
      /\ active_session_stateful' = active_session_stateful /\ session_briefs' = session_briefs
  BY <1>1 DEF TermCallCut, sessionContext, sessionState
<1>3. scuts' \in 0..MaxTermCuts /\ scuts' \in 1..MaxTermCuts
  BY <1>2, TermFacts, TermBoundAssumption
<1>5. /\ CallsFit' /\ Sending' = 0 /\ scall'.pc = "idle" /\ scall'.got = <<>>
      /\ scall' \in TermCallRecord /\ (scall'.session = NoSession <=> scall' = NoTermCall)
  BY <1>2, NoCallFits
<1>6. TermGrows /\ FramesGrow /\ EchoesOnce'
  BY <1>2, TermStays, FramesStay, EchoesStay
<1>7. PICK th : th = <<c.pc, c.session, scuts'>> /\ th[1] = c.pc /\ th[2] = c.session
  <2>1. <<c.pc, c.session, scuts'>>[1] = c.pc /\ <<c.pc, c.session, scuts'>>[2] = c.session
    OBVIOUS
  <2> QED
    BY <2>1, Zenon
<1>8. \/ c.pc \in {"open", "write", "close"} /\ sthreads' = sthreads \cup {th}
      \/ c.pc \notin {"open", "write", "close"} /\ sthreads' = sthreads
  BY <1>2, <1>7
<1>9. /\ sthreads' \subseteq {"open", "write", "close"} \X Session \X (1..MaxTermCuts)
      /\ IsFiniteSet(sthreads')
  <2>1. c.pc \in {"open", "write", "close"} =>
           th \in {"open", "write", "close"} \X Session \X (1..MaxTermCuts)
    <3>1. c.session \in Session /\ scuts' \in 1..MaxTermCuts
      BY <1>1, <1>3
    <3>2. c.pc \in {"open", "write", "close"} =>
             <<c.pc, c.session, scuts'>> \in {"open", "write", "close"} \X Session \X (1..MaxTermCuts)
      BY <3>1
    <3>3. th = <<c.pc, c.session, scuts'>>
      BY <1>7
    <3> QED
      BY <3>2, <3>3, Zenon
  <2>2. sthreads' \subseteq {"open", "write", "close"} \X Session \X (1..MaxTermCuts)
    BY <1>8, <2>1, TermFacts
  <2>3. IsFiniteSet(sthreads')
    <3>1. IsFiniteSet(sthreads)
      BY TermFacts
    <3>2. IsFiniteSet(sthreads \cup {th})
      BY <3>1, FS_AddElement
    <3> QED
      BY <1>8, <3>1, <3>2
  <2> QED
    BY <2>2, <2>3
<1>10. ThreadsFit'
  <2>1. ThreadsFit /\ CallsFit
    BY DEF TerminalInv
  <2>2. /\ c.pc = "open" => term[c.session] = "absent" /\ \A ti \in sthreads : ti[1] = "open" => ti[2] # c.session
        /\ c.pc \in {"write", "close"} => term[c.session] # "absent"
    BY <1>1, <2>1 DEF CallsFit
  <2>4. \A ti \in sthreads' : ti \in sthreads \/ (ti = th /\ c.pc \in {"open", "write", "close"})
    BY <1>8
  <2>5. \A ti \in sthreads' : ti[1] = "open" <=> term'[ti[2]] = "absent"
    BY <1>2, <1>7, <2>1, <2>2, <2>4 DEF ThreadsFit
  <2>6. \A ti, tj \in sthreads' : ti[1] = "open" /\ tj[1] = "open" /\ ti[2] = tj[2] => ti = tj
    BY <1>7, <2>1, <2>2, <2>4 DEF ThreadsFit
  <2> QED
    BY <2>5, <2>6 DEF ThreadsFit
<1>11. InputsFit'
  <2>1. CASE c.pc = "write"
    <3>1. Writing' = Writing \cup {th}
      BY <1>7, <1>8, <2>1 DEF Writing
    <3>2. IsFiniteSet(Writing) /\ Cardinality(Writing) \in Nat
      BY WritingIsFinite
    <3>3. Cardinality(Writing \cup {th}) <= Cardinality(Writing) + 1
          /\ Cardinality(Writing \cup {th}) \in Nat
      <4>1. /\ IsFiniteSet(Writing \cup {th})
            /\ Cardinality(Writing \cup {th}) =
                  IF th \in Writing THEN Cardinality(Writing) ELSE Cardinality(Writing) + 1
        BY <3>2, FS_AddElement
      <4> QED
        BY <3>2, <4>1, FS_CardinalityType
    <3>4. Sending = 1
      BY <1>1, <2>1 DEF TerminalInv, CallsFit, Sending
    <3>5. inputs + Cardinality(Writing) + 1 <= MaxInputs /\ inputs \in Nat /\ MaxInputs \in Nat
      BY <3>4, TermFacts, TermBoundAssumption DEF TerminalInv, InputsFit
    <3>6. Cardinality(Writing)' = Cardinality(Writing \cup {th})
      BY <3>1
    <3>7. inputs + Cardinality(Writing \cup {th}) + 0 <= MaxInputs
      BY <3>2, <3>3, <3>5
    <3> QED
      BY <1>2, <1>5, <3>6, <3>7 DEF InputsFit
  <2>2. CASE c.pc # "write"
    <3>1. Writing' = Writing
      BY <1>7, <1>8, <2>2 DEF Writing
    <3>2. Cardinality(Writing) \in Nat /\ inputs \in Nat /\ MaxInputs \in Nat /\ Sending \in {0, 1}
      BY WritingIsFinite, TermFacts, TermBoundAssumption DEF Sending
    <3>3. inputs + Cardinality(Writing) + Sending <= MaxInputs
      BY DEF TerminalInv, InputsFit
    <3>4. inputs + Cardinality(Writing) + 0 <= MaxInputs
      BY <3>2, <3>3
    <3>5. Cardinality(Writing)' = Cardinality(Writing)
      BY <3>1
    <3> QED
      BY <1>2, <1>5, <3>4, <3>5 DEF InputsFit
  <2> QED
    BY <2>1, <2>2
<1>12. mixed \in BOOLEAN /\ mixed' \in BOOLEAN /\ (mixed' <=> mixed \/ c.got # <<>>)
  BY <1>2, TermFlags
<1>13. TerminalTypeOK'
  <2>1. TerminalTypeOK
    BY DEF TerminalInv
  <2>2. view' \in Seq(Nat \ {0}) /\ passed' \subseteq Nat /\ owed' \in Nat
    <3>1. <<>> \in Seq(Nat \ {0})
      OBVIOUS
    <3> QED
      BY <1>2, <3>1, TermFacts
  <2>3. disturbed' \subseteq Session
    BY <1>1, <1>2, TermFacts
  <2> QED
    BY <1>2, <1>3, <1>5, <1>9, <1>12, <2>1, <2>2, <2>3 DEF TerminalTypeOK
<1>14. SessionsAreListed'
  BY <1>2, <1>6, ListedStay
<1>15. RootIsKnown'
  <2>1. Cautious => Cautious'
    BY <1>2 DEF Cautious
  <2>2. \A r \in told' : term'[r] # "absent"
    BY <1>2 DEF TerminalInv, RootIsKnown
  <2>3. told' \ disturbed' \subseteq told \ disturbed
    BY <1>2
  <2>5. scall'.pc \notin {"open", "opened"}
    BY <1>5
  <2> QED
    BY <1>2, <1>6, <2>1, <2>2, <2>3, <2>5, RootsStay
<1>16. PageFollows'
  BY <1>5 DEF PageFollows, PollPc
<1>17. CursorFollowsView'
  <2>1. CursorFollowsView
    BY DEF TerminalInv
  <2>2. Printed(active_session_id)' = Printed(active_session_id)
    BY <1>2 DEF Printed, Shows
  <2>3. CASE mixed'
    <3>1. view' = <<>> /\ passed' = {} /\ owed' = 0
      BY <1>2, <2>3
    <3> QED
      BY <2>3, <3>1 DEF CursorFollowsView, Increasing
  <2>4. CASE ~mixed'
    <3>1. ~mixed /\ scall.got = <<>> /\ view' = view /\ passed' = passed
      BY <1>1, <1>2, <1>12, <2>4
    <3> QED
      BY <1>2, <1>5, <2>1, <2>2, <2>4, <3>1 DEF CursorFollowsView
  <2> QED
    BY <2>3, <2>4
<1>18. OwedIsPending'
  <2>1. SUFFICES ASSUME owed' # 0
                 PROVE  OwedIsPending'
    BY DEF OwedIsPending
  <2>2. owed' = owed
    BY <1>2, <2>1
  <2>3. Printed(active_session_id)' = Printed(active_session_id)
    BY <1>2 DEF Printed, Shows
  <2> QED
    BY <1>2, <1>5, <2>1, <2>2, <2>3 DEF TerminalInv, OwedIsPending, PollPc
<1>19. Sight'
  BY <1>16, <1>17, <1>18 DEF Sight
<1> QED
  BY <1>5, <1>6, <1>10, <1>11, <1>13, <1>14, <1>15, <1>19, TermInvOf

(* What get_session has found.                                              *)
Activates ==
    LET s == scall.session
    IN  /\ Interactive(s)
        /\ \/ scall.tool = "activate_terminal_session"
           \/ /\ scall.tool \in {"observe_terminal", "send", "request_human_terminal_input"}
              /\ scall.ref /\ active_session_id # s
NextPc == CASE scall.tool = "observe_terminal" -> "frames"
            [] scall.tool = "close_terminal" -> "close"
            [] scall.tool = "send" -> "write"
            [] scall.tool = "request_human_terminal_input" -> "prompt"
            [] OTHER -> "idle"

(* The effect of get_session.                                               *)
LEMMA SessionReadEffect ==
    ASSUME TerminalInv, SessionRead
    PROVE  /\ scall.pc = "get" /\ Applied(scall.session, Activates)
           /\ \/ session_briefs' = session_briefs
                 /\ (scall.tool = "close_terminal" \/ active_session_id' # scall.session)
              \/ session_briefs' = [session_briefs EXCEPT ![scall.session] = term[scall.session]]
           /\ scall' = IF InactiveSession(scall.session) \/ NextPc = "idle" THEN NoTermCall
                       ELSE [scall EXCEPT !.pc = NextPc, !.state = term[scall.session], !.ref = FALSE,
                                          !.first = (NextPc = "frames" /\ terminal_cursor' = 0)]
           /\ TermRuntimeUnchanged /\ last_terminal_input' = last_terminal_input
           /\ active_session_privilege' = active_session_privilege
           /\ active_session_stateful' = active_session_stateful /\ scuts' = scuts
<1>1. /\ scall.pc = "get" /\ Applied(scall.session, Activates)
      /\ IF scall.tool = "close_terminal" \/ (NextPc = "frames" /\ active_session_id' # scall.session)
         THEN UNCHANGED session_briefs ELSE Briefed(scall.session, term[scall.session])
      /\ scall' = IF InactiveSession(scall.session) \/ NextPc = "idle" THEN NoTermCall
                  ELSE [scall EXCEPT !.pc = NextPc, !.state = term[scall.session], !.ref = FALSE,
                                     !.first = (NextPc = "frames" /\ terminal_cursor' = 0)]
      /\ UNCHANGED <<runtimeSessions, last_terminal_input, sessionState, scuts>>
  BY Zenon DEF SessionRead, Activates, NextPc
<1> QED
  BY <1>1 DEF Briefed, TermRuntimeUnchanged, runtimeSessions, sessionState

(* get_session returns: the call goes on in the active session, or ends.    *)
LEMMA SessionReadKeeps ==
    ASSUME TerminalInv, SessionRead
    PROVE  TerminalInv'
<1>1. PICK c \in TermCallRecord, s \in Session : c = scall /\ s = c.session /\ c.pc = "get"
  BY SessionReadEffect, TermFacts
<1>2. /\ TermRuntimeUnchanged /\ last_terminal_input' = last_terminal_input
      /\ active_session_privilege' = active_session_privilege
      /\ active_session_stateful' = active_session_stateful /\ scuts' = scuts
      /\ \/ session_briefs' = session_briefs
            /\ (c.tool = "close_terminal" \/ active_session_id' # s)
         \/ session_briefs' = [session_briefs EXCEPT ![s] = term[s]]
  BY <1>1, SessionReadEffect
<1>3. /\ c.got = <<>> /\ c.meaningful = FALSE /\ term[s] # "absent"
      /\ c.ref \in BOOLEAN /\ (~c.ref => s = active_session_id)
      /\ c.tool = "request_human_terminal_input" => c.input \in {"plain", "typed"}
      /\ term[s] \in SessionStates
  <2>1. c.meaningful \in BOOLEAN /\ c.ref \in BOOLEAN
    BY TermFields
  <2>2. term[s] \in SessionStates
    BY TermFacts
  <2>3. /\ c.got = <<>> /\ ~c.meaningful /\ term[s] # "absent"
        /\ (~c.ref => s = active_session_id)
        /\ c.tool = "request_human_terminal_input" => c.input \in {"plain", "typed"}
    BY <1>1 DEF TerminalInv, CallsFit, PollPc
  <2> QED
    BY <2>1, <2>2, <2>3
<1>4. \/ /\ Activates /\ active_session_id' = s /\ terminal_cursor' = 0
         /\ terminal_input_pending' = FALSE /\ Refocused(s)
      \/ /\ ~Activates /\ active_session_id' = active_session_id
         /\ terminal_cursor' = terminal_cursor
         /\ terminal_input_pending' = terminal_input_pending
         /\ view' = view /\ passed' = passed /\ mixed' = mixed /\ owed' = owed
         /\ disturbed' = disturbed /\ told' = told
  BY <1>1, SessionReadEffect DEF Applied, terminalHistory
<1>5. /\ disturbed \subseteq disturbed' /\ disturbed' \subseteq Session
      /\ active_session_id' \in Session \cup {NoSession} /\ terminal_cursor' \in Nat
      /\ active_session_id' # active_session_id /\ active_session_id # NoSession
            => active_session_id \in disturbed'
      /\ told' = told
  <2>1. CASE Activates
    <3>1. /\ disturbed \subseteq disturbed' /\ disturbed' \subseteq Session
          /\ active_session_id \notin {s, NoSession} => active_session_id \in disturbed'
          /\ told' = told
      BY <1>4, <2>1, RefocusedFacts
    <3> QED
      BY <1>4, <2>1, <3>1
  <2>2. CASE ~Activates
    BY <1>4, <2>2, TermFacts
  <2> QED
    BY <2>1, <2>2
<1>6. terminal_cursor' = 0 \/ (active_session_id' = active_session_id /\ terminal_cursor' = terminal_cursor)
  BY <1>4
<1>7. /\ NextPc \in {"frames", "close", "write", "prompt", "idle"} /\ NextPc \in TermPc
      /\ NextPc = "frames" => c.tool = "observe_terminal"
      /\ NextPc = "close" => c.tool = "close_terminal"
      /\ NextPc = "write" => c.tool = "send"
      /\ NextPc = "prompt" => c.tool = "request_human_terminal_input"
  BY <1>1 DEF NextPc, TermPc, PollPc
<1>8. \/ scall' = NoTermCall
      \/ /\ scall' \in TermCallRecord /\ scall'.tool = c.tool /\ scall'.pc = NextPc
         /\ NextPc # "idle" /\ ~InactiveSession(s)
         /\ scall'.session = s /\ scall'.input = c.input /\ scall'.state = term[s]
         /\ scall'.got = <<>> /\ scall'.meaningful = FALSE /\ scall'.ref = FALSE
         /\ (scall'.pc = "frames" /\ scall'.first => terminal_cursor' = 0)
  <2>1. SUFFICES ASSUME scall' # NoTermCall
                 PROVE  /\ scall' \in TermCallRecord /\ scall'.tool = c.tool /\ scall'.pc = NextPc
                        /\ NextPc # "idle" /\ ~InactiveSession(s)
                        /\ scall'.session = s /\ scall'.input = c.input /\ scall'.state = term[s]
                        /\ scall'.got = <<>> /\ scall'.meaningful = FALSE /\ scall'.ref = FALSE
                        /\ (scall'.pc = "frames" /\ scall'.first => terminal_cursor' = 0)
    OBVIOUS
  <2>2. NextPc # "idle" /\ ~InactiveSession(s)
    BY <1>1, <2>1, SessionReadEffect
  <2>3. PICK first \in BOOLEAN, p \in TermPc, st \in SessionStates :
           /\ first = (NextPc = "frames" /\ terminal_cursor' = 0) /\ p = NextPc /\ st = term[s]
           /\ (first => terminal_cursor' = 0)
    <3>1. (NextPc = "frames" /\ terminal_cursor' = 0) \in BOOLEAN
          /\ NextPc \in TermPc /\ term[s] \in SessionStates
      BY <1>3, <1>7
    <3> QED
      BY <3>1, Zenon
  <2>4. scall' = [c EXCEPT !.pc = p, !.state = st, !.ref = FALSE, !.first = first]
    BY <1>1, <2>1, <2>2, <2>3, SessionReadEffect
  <2>5. /\ scall' \in TermCallRecord /\ scall'.tool = c.tool /\ scall'.pc = p
        /\ scall'.session = c.session /\ scall'.input = c.input /\ scall'.state = st
        /\ scall'.got = c.got /\ scall'.meaningful = c.meaningful /\ scall'.ref = FALSE
        /\ scall'.first = first
    BY <2>4 DEF TermCallRecord
  <2> QED
    BY <1>1, <1>3, <2>2, <2>3, <2>5
<1>9. scall' # NoTermCall => scall'.pc # "idle" /\ s # NoSession
  BY <1>8, NoneIsNoSession
<1>10. /\ scall'.pc \notin {"open", "opened", "written", "tail", "last", "polled"}
       /\ scall' \in TermCallRecord /\ (scall'.session = NoSession <=> scall' = NoTermCall)
       /\ Unpolled(scall', terminal_cursor')
  <2>1. CASE scall' = NoTermCall
    BY <1>5, <2>1, NoCallFits
  <2>2. CASE scall' # NoTermCall
    BY <1>7, <1>8, <1>9, <2>2 DEF Unpolled
  <2> QED
    BY <2>1, <2>2
<1>11. scall'.pc \in {"prompt", "write"} => active_session_id' = s
  <2>1. SUFFICES ASSUME scall'.pc \in {"prompt", "write"}
                 PROVE  active_session_id' = s
    OBVIOUS
  <2>2. scall' # NoTermCall
    BY <2>1, NoTermFields
  <2>3. c.tool \in SendTool /\ ~InactiveSession(s)
    BY <1>7, <1>8, <2>1, <2>2 DEF SendTool
  <2>4. Interactive(s)
    BY <1>1, <2>3 DEF InactiveSession, SendTool
  <2>5. CASE c.ref /\ active_session_id # s
    BY <1>1, <1>4, <2>3, <2>4, <2>5 DEF Activates, SendTool
  <2>6. CASE active_session_id = s
    BY <1>4, <2>6
  <2> QED
    BY <1>3, <2>5, <2>6
<1>12. CallsFit'
  <2>1. CASE scall' = NoTermCall
    BY <2>1, NoCallFits
  <2>2. CASE scall' # NoTermCall
    <3>1. term' = term /\ sthreads' = sthreads
      BY <1>2 DEF TermRuntimeUnchanged
    <3>2. /\ scall'.tool = c.tool /\ scall'.pc = NextPc /\ scall'.session = s /\ scall'.input = c.input
          /\ scall'.state = term[s] /\ scall'.got = <<>> /\ scall'.meaningful = FALSE /\ NextPc # "idle"
      BY <1>8, <2>2
    <3> QED
      BY <1>3, <1>7, <1>11, <2>2, <3>1, <3>2 DEF CallsFit, PollPc, SendTool
  <2> QED
    BY <2>1, <2>2
<1>13. Sending' <= Sending
  <2>1. CASE scall' = NoTermCall
    BY <2>1, NoCallFits DEF Sending
  <2>2. CASE scall' # NoTermCall
    <3>1. scall'.tool = c.tool
      BY <1>8, <2>2
    <3> QED
      BY <1>1, <1>10, <3>1 DEF Sending
  <2> QED
    BY <2>1, <2>2
<1>14. /\ TermGrows /\ FramesGrow /\ EchoesOnce' /\ ThreadsFit' /\ InputsFit'
       /\ \A r \in told' : term'[r] # "absent"
  BY <1>2, <1>5, <1>10, <1>13, RuntimeFits
<1>15. Sight'
  <2>1. CASE Activates
    BY <1>4, <1>5, <1>10, <1>14, <2>1, RefocusedFacts, SightAnew
  <2>2. CASE ~Activates
    <3>1. SightUnchanged
      BY <1>2, <1>4, <2>2 DEF SightUnchanged
    <3>2. scall.got = <<>> /\ Unpolled(scall', terminal_cursor)
      BY <1>1, <1>3, <1>4, <1>10, <2>2
    <3> QED
      BY <1>14, <3>1, <3>2, SightBefore
  <2> QED
    BY <2>1, <2>2
<1>16. /\ session_briefs' \in [Session -> BriefStates]
       /\ \A r \in Session \ {s} : session_briefs'[r] = session_briefs[r]
       /\ (session_briefs'[s] = session_briefs[s] \/ session_briefs'[s] = term[s])
       /\ (active_session_id' = s /\ c.tool # "close_terminal" => session_briefs'[s] = term[s])
  <2>1. term[s] \in BriefStates
    BY <1>3 DEF SessionStates, BriefStates
  <2> QED
    BY <1>2, <2>1, TermFacts
<1>17. TerminalTypeOK'
  <2>1. TerminalTypeOK
    BY DEF TerminalInv
  <2>2. view' \in Seq(Nat \ {0}) /\ passed' \subseteq Nat /\ owed' \in Nat /\ mixed' \in BOOLEAN
        /\ terminal_input_pending' \in BOOLEAN
        /\ (terminal_input_pending' => active_session_id' # NoSession)
    <3>1. <<>> \in Seq(Nat \ {0})
      OBVIOUS
    <3>2. CASE Activates
      <4>1. view' = <<>> /\ passed' = {} /\ mixed' = FALSE /\ owed' = 0
        BY <1>4, <3>2, RefocusedFacts
      <4> QED
        BY <1>4, <3>1, <3>2, <4>1
    <3>3. CASE ~Activates
      BY <1>4, <3>3, TermFacts, TermFlags
    <3> QED
      BY <3>2, <3>3
  <2> QED
    BY <1>2, <1>5, <1>10, <1>16, <2>1, <2>2 DEF TerminalTypeOK, TermRuntimeUnchanged
<1>18. SessionsAreListed'
  <2>1. SessionsAreListed /\ term' = term
    BY <1>2 DEF TerminalInv, TermRuntimeUnchanged
  <2>2. \A r \in Session : session_briefs'[r] = "TERMINATED" => term'[r] = "TERMINATED"
    BY <1>16, <2>1 DEF SessionsAreListed
  <2>3. session_briefs[s] # "None" => session_briefs'[s] # "None"
    BY <1>3, <1>16 DEF SessionStates
  <2>4. active_session_id' # NoSession => session_briefs'[active_session_id'] # "None"
    <3>1. CASE Activates
      <4>1. c.tool # "close_terminal" /\ active_session_id' = s
        BY <1>1, <1>4, <3>1 DEF Activates
      <4> QED
        BY <1>3, <1>16, <4>1 DEF SessionStates
    <3>2. CASE ~Activates
      BY <1>4, <1>16, <2>1, <2>3, <3>2, TermFacts DEF SessionsAreListed
    <3> QED
      BY <3>1, <3>2
  <2> QED
    BY <2>2, <2>4 DEF SessionsAreListed
<1>19. RootIsKnown'
  <2>1. term' = term
    BY <1>2 DEF TermRuntimeUnchanged
  <2>2. Cautious' <=> Cautious
    BY <1>2 DEF Cautious
  <2>3. ASSUME NEW r \in told' \ disturbed'
        PROVE  r = active_session_id' /\ Cautious'
    <3>1. r = active_session_id /\ Cautious /\ r # NoSession
      BY <1>1, <1>5, <2>1, <2>3, TermFacts, NoneIsNoSession DEF TerminalInv, RootIsKnown
    <3>2. r \notin disturbed'
      BY <2>3
    <3> QED
      BY <1>5, <2>2, <3>1, <3>2
  <2>4. active_session_id' # NoSession => term'[active_session_id'] # "absent"
    BY <1>3, <1>4, <2>1 DEF TerminalInv, RootIsKnown
  <2> QED
    BY <1>10, <1>14, <2>3, <2>4 DEF RootIsKnown
<1> QED
  BY <1>12, <1>14, <1>15, <1>17, <1>18, <1>19, TermInvOf

(* A poll goes on.                                                          *)
PollMoves ==
    /\ TermHarnessUnchanged /\ TermRuntimeUnchanged
    /\ scall.pc \in PollPc /\ scall' \in TermCallRecord /\ scall'.pc \in {"tail", "last", "polled"}
    /\ scall'.tool = scall.tool /\ scall'.session = scall.session /\ scall'.input = scall.input
    /\ scall'.state = scall.state /\ scall'.got = scall.got /\ scall'.meaningful = scall.meaningful
LEMMA PollMovesKeeps ==
    ASSUME TerminalInv, PollMoves, Sight'
    PROVE  TerminalInv'
<1>1. /\ TermHarnessUnchanged /\ TermRuntimeUnchanged /\ scall' \in TermCallRecord
      /\ disturbed' = disturbed /\ told' = told /\ active_session_id' = active_session_id
      /\ scall.pc \in PollPc /\ scall'.pc \in {"tail", "last", "polled"}
      /\ scall'.tool = scall.tool /\ scall'.session = scall.session /\ scall'.input = scall.input
      /\ scall'.state = scall.state
  BY HarnessSight DEF PollMoves
<1>2. scall.session \in Session /\ scall.tool = "observe_terminal" /\ scall.pc \notin {"written", "idle", "open"}
  BY <1>1, TermFacts DEF PollPc, TerminalInv, CallsFit
<1>3. scall'.session # NoSession /\ scall' # NoTermCall
  BY <1>1, <1>2, NoTermFields, NoneIsNoSession
<1>4. CallsFit'
  <2>1. CallsFit /\ term' = term
    BY <1>1 DEF TerminalInv, TermRuntimeUnchanged
  <2>2. /\ term[scall.session] # "absent" /\ scall.state # "absent"
        /\ scall.state = "TERMINATED" => term[scall.session] = "TERMINATED"
    BY <1>1, <1>2, <2>1 DEF CallsFit
  <2> QED
    BY <1>1, <1>2, <1>3, <2>1, <2>2 DEF CallsFit, PollPc
<1>5. Sending' = 0 /\ Sending = 0
  BY <1>1, <1>2 DEF Sending, SendTool
<1>6. /\ TermGrows /\ FramesGrow /\ EchoesOnce' /\ ThreadsFit' /\ InputsFit'
      /\ \A r \in told' : term'[r] # "absent"
  BY <1>1, <1>5, RuntimeFits
<1>7. TerminalTypeOK'
  BY <1>1, <1>3, HarnessTypes, TermFacts DEF TermRuntimeUnchanged
<1>8. SessionsAreListed'
  BY <1>1, <1>6, HarnessSight, ListedStay
<1>9. RootIsKnown'
  <2>1. told' \ disturbed' \subseteq told \ disturbed
    BY <1>1
  <2> QED
    BY <1>1, <1>2, <1>6, <2>1, HarnessSight, RootsStay
<1> QED
  BY <1>4, <1>6, <1>7, <1>8, <1>9, TermInvOf

(* What the poll has seen is kept.                                          *)
LEMMA PollSight ==
    ASSUME TerminalInv, PollMoves, PageFollows',
           scall'.pc = "polled" /\ scall'.page = <<>> /\ scall.session = active_session_id /\ ~mixed =>
              terminal_cursor <= scall'.last,
           scall'.page = <<>> /\ scall.session = active_session_id /\ owed # 0 => owed <= scall'.stored
    PROVE  Sight'
<1>1. /\ active_session_id' = active_session_id /\ terminal_cursor' = terminal_cursor
      /\ view' = view /\ passed' = passed /\ mixed' = mixed /\ owed' = owed
      /\ terminal_input_pending' = terminal_input_pending
      /\ last_terminal_input' = last_terminal_input /\ frames' = frames
      /\ scall.pc \in PollPc /\ scall'.pc \in {"tail", "last", "polled"}
      /\ scall'.session = scall.session /\ scall'.got = scall.got /\ scall'.meaningful = scall.meaningful
  BY DEF PollMoves, TermHarnessUnchanged, TermRuntimeUnchanged
<1>2. Printed(active_session_id)' = Printed(active_session_id)
  BY <1>1 DEF Printed, Shows
<1>3. CursorFollowsView'
  BY <1>1, <1>2 DEF TerminalInv, CursorFollowsView
<1>4. OwedIsPending'
  <2>1. Answers(active_session_id, scall.got) => Answers(active_session_id, scall.got)'
    BY <1>1 DEF Answers, Shows
  <2>2. OwedIsPending
    BY DEF TerminalInv
  <2> QED
    BY <1>1, <1>2, <2>1, <2>2 DEF OwedIsPending, PollPc
<1> QED
  BY <1>3, <1>4 DEF Sight

(* The frames of a poll.                                                    *)
LEMMA ReadFramesKeeps ==
    ASSUME TerminalInv, ReadFrames
    PROVE  TerminalInv'
<1>1. PICK c \in TermCallRecord, s \in Session, n \in Nat, k \in Nat :
         c = scall /\ s = c.session /\ c.pc = "frames" /\ n = Len(frames[s]) /\ k = terminal_cursor
  BY TermFacts DEF ReadFrames
<1>2. PICK upto : upto = Least(n, k + FramePage)
  OBVIOUS
<1>3. PICK more : more = IF upto < k THEN 0 ELSE upto - k
  OBVIOUS
<1>4. /\ FramePage \in Nat \ {0} /\ upto \in Nat /\ more \in Nat
      /\ more = 0 => n <= k
      /\ more # 0 => k + more <= n
  <2>1. FramePage \in Nat \ {0}
    BY TermBoundAssumption
  <2>2. upto \in Nat /\ upto <= n /\ (upto = n \/ upto > k)
    BY <1>2, <2>1 DEF Least
  <2> QED
    BY <1>3, <2>1, <2>2
<1>5. PICK page \in Seq(Nat \ {0}) : page = [i \in 1..more |-> k + i] /\ Len(page) = more
  <2>1. \A i \in 1..more : k + i \in Nat \ {0}
    BY <1>4
  <2>2. [i \in 1..more |-> k + i] \in Seq(Nat \ {0})
    BY <1>4, <2>1
  <2>3. Len([i \in 1..more |-> k + i]) = more
    BY <1>4
  <2> QED
    BY <2>2, <2>3
<1>6. PICK m \in Nat : m = IF more = 0 THEN n ELSE 0
  OBVIOUS
<1>7. scall' = PagedOf(c, m, page) /\ TermHarnessUnchanged /\ TermRuntimeUnchanged
  BY <1>1, <1>2, <1>3, <1>5, <1>6 DEF ReadFrames, PagedOf, TermHarnessUnchanged, TermRuntimeUnchanged,
     runtimeSessions, sessionContext, sessionState, terminalHistory
<1>8. /\ scall' \in TermCallRecord /\ scall'.pc = "tail" /\ scall'.tool = c.tool /\ scall'.session = c.session
      /\ scall'.input = c.input /\ scall'.state = c.state /\ scall'.got = c.got /\ scall'.stored = m
      /\ scall'.page = page /\ scall'.meaningful = c.meaningful /\ scall'.first = c.first
  <2>1. LET d == PagedOf(c, m, page)
        IN  /\ d \in TermCallRecord /\ d.pc = "tail" /\ d.tool = c.tool /\ d.session = c.session
            /\ d.input = c.input /\ d.state = c.state /\ d.got = c.got /\ d.stored = m /\ d.page = page
            /\ d.meaningful = c.meaningful /\ d.first = c.first
    BY PagedTermCall
  <2> QED
    BY <1>7, <2>1
<1>9. PollMoves
  BY <1>1, <1>7, <1>8 DEF PollMoves, PollPc
<1>10. page = <<>> <=> more = 0
  BY <1>4, <1>5
<1>11. frames' = frames /\ terminal_cursor' = k
  BY <1>1, <1>7 DEF TermHarnessUnchanged, TermRuntimeUnchanged
<1>12. PageFollows'
  <2>1. /\ scall'.first /\ scall'.got = <<>> => terminal_cursor' = 0
    BY <1>1, <1>8, <1>11 DEF TerminalInv, PageFollows, PollPc
  <2>2. page = [i \in 1..Len(page) |-> k + i]
    BY <1>5
  <2>3. /\ page # <<>> => k + Len(page) <= n
        /\ page = <<>> => m <= k
    BY <1>4, <1>5, <1>6, <1>10
  <2> QED
    BY <1>1, <1>8, <1>11, <2>1, <2>2, <2>3 DEF PageFollows
<1>13. page = <<>> /\ s = active_session_id /\ owed # 0 => owed <= m
  BY <1>1, <1>6, <1>10 DEF TerminalInv, OwedIsPending
<1>14. Sight'
  BY <1>1, <1>8, <1>9, <1>12, <1>13, PollSight
<1> QED
  BY <1>9, <1>14, PollMovesKeeps

(* The tail of a poll.                                                      *)
LEMMA ReadTailKeeps ==
    ASSUME TerminalInv, ReadTail
    PROVE  TerminalInv'
<1>1. PICK c \in TermCallRecord, s \in Session, n \in Nat, k \in Nat :
         c = scall /\ s = c.session /\ c.pc \in {"tail", "last"} /\ n = Len(frames[s]) /\ k = terminal_cursor
  BY TermFacts DEF ReadTail
<1>2. PICK used \in Nat : used = IF c.page = <<>> THEN n ELSE 0
  OBVIOUS
<1>3. PICK text \in Nat : text <= used /\ text = IF c.first THEN used ELSE 0
  <2>1. (IF c.first THEN used ELSE 0) \in Nat /\ (IF c.first THEN used ELSE 0) <= used
    OBVIOUS
  <2> QED
    BY <2>1, Zenon
<1>4. /\ TermHarnessUnchanged /\ TermRuntimeUnchanged
      /\ \/ c.pc = "tail" /\ scall' = TailedOf(c, text)
         \/ c.pc = "last" /\ scall' = LastOf(c, used)
  BY <1>1, <1>2, <1>3 DEF ReadTail, TailedOf, LastOf, TermHarnessUnchanged, TermRuntimeUnchanged,
     runtimeSessions, sessionContext, sessionState, terminalHistory
<1>5. /\ LET d == TailedOf(c, text)
         IN  /\ d \in TermCallRecord /\ d.pc = "last" /\ d.tool = c.tool /\ d.session = c.session
             /\ d.input = c.input /\ d.state = c.state /\ d.got = c.got /\ d.stored = c.stored
             /\ d.page = c.page /\ d.meaningful = c.meaningful /\ d.first = c.first /\ d.text = text
      /\ LET d == LastOf(c, used)
         IN  /\ d \in TermCallRecord /\ d.pc = "polled" /\ d.tool = c.tool /\ d.session = c.session
             /\ d.input = c.input /\ d.state = c.state /\ d.got = c.got /\ d.stored = c.stored
             /\ d.page = c.page /\ d.meaningful = c.meaningful /\ d.first = c.first
             /\ d.text = c.text /\ d.last = used
  BY TailedTermCall
<1>6. /\ scall' \in TermCallRecord /\ scall'.tool = c.tool /\ scall'.session = c.session
      /\ scall'.input = c.input /\ scall'.state = c.state /\ scall'.got = c.got
      /\ scall'.stored = c.stored /\ scall'.page = c.page /\ scall'.meaningful = c.meaningful
      /\ scall'.first = c.first
      /\ \/ c.pc = "tail" /\ scall'.pc = "last" /\ scall'.text = text
         \/ c.pc = "last" /\ scall'.pc = "polled" /\ scall'.text = c.text /\ scall'.last = used
  BY <1>4, <1>5
<1>7. PollMoves
  BY <1>1, <1>4, <1>6 DEF PollMoves, PollPc
<1>8. frames' = frames /\ terminal_cursor' = k
  BY <1>1, <1>4 DEF TermHarnessUnchanged, TermRuntimeUnchanged
<1>9. PageFollows /\ CursorFollowsView /\ OwedIsPending
  BY DEF TerminalInv
<1>10. PageFollows'
  <2>1. scall'.first /\ scall'.got = <<>> => terminal_cursor' = 0
    BY <1>1, <1>6, <1>8, <1>9 DEF PageFollows, PollPc
  <2>2. /\ c.page = [i \in 1..Len(c.page) |-> k + i]
        /\ c.page # <<>> => k + Len(c.page) <= n
        /\ c.page = <<>> => c.stored <= k
    BY <1>1, <1>9 DEF PageFollows
  <2>3. /\ scall'.pc = "last" /\ c.page = <<>> => scall'.text <= n
        /\ scall'.pc = "polled" /\ c.page = <<>> => scall'.text <= scall'.last /\ scall'.last <= n
    BY <1>1, <1>2, <1>3, <1>6, <1>9 DEF PageFollows
  <2> QED
    BY <1>1, <1>6, <1>8, <2>1, <2>2, <2>3 DEF PageFollows
<1>11. scall'.pc = "polled" /\ c.page = <<>> /\ s = active_session_id /\ ~mixed => k <= scall'.last
  BY <1>1, <1>2, <1>6, <1>9, NoneIsNoSession DEF CursorFollowsView
<1>12. c.page = <<>> /\ s = active_session_id /\ owed # 0 => owed <= c.stored
  BY <1>1, <1>9 DEF OwedIsPending
<1>13. Sight'
  BY <1>1, <1>6, <1>7, <1>10, <1>11, <1>12, PollSight
<1> QED
  BY <1>7, <1>13, PollMovesKeeps

(* A sequence that goes up to k, then one that goes on from there.          *)
LEMMA IncreasingConcat ==
    ASSUME NEW a \in Seq(Nat \ {0}), NEW b \in Seq(Nat \ {0}), NEW k \in Nat, NEW m \in Nat, k <= m,
           Increasing(a), Within(a, k), Increasing(b), Within(b, m),
           \A i \in 1..Len(b) : b[i] > k
    PROVE  /\ Increasing(a \o b) /\ Within(a \o b, m)
           /\ \A x : (\E i \in 1..Len(a) : a[i] = x) \/ (\E i \in 1..Len(b) : b[i] = x) =>
                        \E i \in 1..Len(a \o b) : (a \o b)[i] = x
<1>1. PICK p \in Nat, q \in Nat : p = Len(a) /\ q = Len(b)
  OBVIOUS
<1>2. PICK c \in Seq(Nat \ {0}) : c = a \o b /\ Len(c) = p + q /\ \A i \in 1..p : c[i] = a[i]
  <2>1. a \o b \in Seq(Nat \ {0}) /\ Len(a \o b) = p + q /\ \A i \in 1..p : (a \o b)[i] = a[i]
    BY <1>1
  <2> QED
    BY <2>1, Zenon
<1>3. \A i \in 1..q : c[p + i] = b[i] /\ p + i \in 1..(p + q)
  BY <1>1, <1>2
<1>4. \A i \in 1..(p + q) : i \in 1..p \/ (i > p /\ i - p \in 1..q /\ c[i] = b[i - p])
  <2>1. ASSUME NEW i \in 1..(p + q), i \notin 1..p
        PROVE  i > p /\ i - p \in 1..q /\ c[i] = b[i - p]
    <3>1. i > p /\ i - p \in 1..q /\ p + (i - p) = i
      BY <1>1, <2>1
    <3>2. PICK j \in 1..q : j = i - p
      BY <3>1
    <3>3. c[p + j] = b[j] /\ p + j = i
      BY <1>3, <3>1, <3>2
    <3> QED
      BY <3>1, <3>2, <3>3
  <2> QED
    BY <2>1
<1>5. /\ \A i \in 1..p : a[i] \in Nat /\ a[i] <= k
      /\ \A i \in 1..q : b[i] \in Nat /\ b[i] > k /\ b[i] <= m
  <2>1. \A i \in 1..p : a[i] \in Nat
    BY <1>1
  <2>2. \A i \in 1..q : b[i] \in Nat
    BY <1>1
  <2> QED
    BY <1>1, <2>1, <2>2 DEF Within
<1>6. Increasing(c)
  <2>1. SUFFICES ASSUME NEW i \in 1..(p + q), NEW j \in 1..(p + q), i < j
                 PROVE  c[i] < c[j]
    BY <1>2 DEF Increasing
  <2>2. CASE i \in 1..p /\ j \in 1..p
    BY <1>1, <1>2, <2>1, <2>2 DEF Increasing
  <2>3. CASE i \in 1..p /\ j \notin 1..p
    <3>1. PICK v \in 1..q : c[j] = b[v]
      BY <1>4, <2>3
    <3>2. a[i] \in Nat /\ a[i] <= k /\ b[v] \in Nat /\ b[v] > k
      BY <1>5, <2>3
    <3>3. c[i] = a[i]
      BY <1>2, <2>3
    <3> QED
      BY <3>1, <3>2, <3>3
  <2>4. CASE i \notin 1..p /\ j \notin 1..p
    <3>1. PICK u \in 1..q, v \in 1..q : u = i - p /\ v = j - p /\ c[i] = b[u] /\ c[j] = b[v]
      BY <1>4, <2>4
    <3>2. u < v
      BY <1>1, <2>1, <3>1
    <3> QED
      BY <1>1, <3>1, <3>2 DEF Increasing
  <2>5. CASE i \notin 1..p /\ j \in 1..p
    BY <1>1, <2>1, <2>5
  <2> QED
    BY <2>2, <2>3, <2>4, <2>5
<1>7. Within(c, m)
  <2>1. ASSUME NEW i \in 1..(p + q)
        PROVE  c[i] <= m
    <3>1. CASE i \in 1..p
      BY <1>2, <1>5, <3>1
    <3>2. CASE i \notin 1..p
      BY <1>4, <1>5, <3>2
    <3> QED
      BY <3>1, <3>2
  <2> QED
    BY <1>2, <2>1 DEF Within
<1>8. ASSUME NEW x, (\E i \in 1..p : a[i] = x) \/ (\E i \in 1..q : b[i] = x)
      PROVE  \E i \in 1..(p + q) : c[i] = x
  <2>1. \A i \in 1..p : i \in 1..(p + q)
    BY <1>1
  <2>2. CASE \E i \in 1..p : a[i] = x
    BY <1>2, <2>1, <2>2
  <2>3. CASE \E i \in 1..q : b[i] = x
    BY <1>3, <2>3
  <2> QED
    BY <1>8, <2>2, <2>3
<1> QED
  BY <1>1, <1>2, <1>6, <1>7, <1>8

(* Two sequences, one after the other.                                      *)
LEMMA ConcatFields ==
    ASSUME NEW a \in Seq(Nat \ {0}), NEW b \in Seq(Nat \ {0}), NEW p \in Nat, NEW q \in Nat,
           p = Len(a), q = Len(b)
    PROVE  /\ a \o b \in Seq(Nat \ {0}) /\ Len(a \o b) = p + q
           /\ \A i \in 1..p : (a \o b)[i] = a[i]
           /\ \A i \in 1..q : (a \o b)[p + i] = b[i]
  OBVIOUS

(* A result that is too long loses its beginning.                           *)
LEMMA FittingFields ==
    ASSUME NEW g \in Seq(Nat \ {0})
    PROVE  \E d \in Nat, l \in Nat :
              /\ d = Dropped(g) /\ Len(g) = d + l
              /\ Fitting(g) \in Seq(Nat \ {0}) /\ Len(Fitting(g)) = l
              /\ \A i \in 1..l : Fitting(g)[i] = g[d + i]
              /\ \A i \in 1..d : g[i] \in Nat
<1>1. PICK n \in Nat : n = Len(g)
  OBVIOUS
<1>2. PICK d \in Nat, l \in Nat : d = Dropped(g) /\ n = d + l
  <2>1. MaxText \in Nat
    BY TermBoundAssumption
  <2>2. Dropped(g) \in Nat /\ n - Dropped(g) \in Nat /\ n = Dropped(g) + (n - Dropped(g))
    BY <1>1, <2>1 DEF Dropped
  <2> QED
    BY <2>2, Zenon
<1>3. ASSUME NEW i \in 1..l
      PROVE  g[d + i] \in Nat \ {0}
  <2>1. PICK h \in 1..n : h = d + i
    BY <1>2
  <2>2. g[h] \in Nat \ {0}
    BY <1>1
  <2> QED
    BY <2>1, <2>2
<1>4. [i \in 1..l |-> g[d + i]] \in Seq(Nat \ {0}) /\ Len([i \in 1..l |-> g[d + i]]) = l
  BY <1>3
<1>5. Fitting(g) = [i \in 1..l |-> g[d + i]]
  <2>1. Len(g) - Dropped(g) = l
    BY <1>1, <1>2
  <2> QED
    BY <1>2, <2>1 DEF Fitting
<1>6. ASSUME NEW i \in 1..d
      PROVE  g[i] \in Nat
  <2>1. i \in 1..n
    BY <1>2
  <2> QED
    BY <1>1, <2>1
<1>7. PICK f \in Seq(Nat \ {0}) : f = Fitting(g) /\ Len(f) = l /\ \A i \in 1..l : f[i] = g[d + i]
  BY <1>4, <1>5
<1> QED
  BY <1>1, <1>2, <1>6, <1>7

(* What is left of a result is in order, and the rest was dropped.          *)
LEMMA TrimmedFollows ==
    ASSUME NEW v \in Seq(Nat \ {0}), NEW g \in Seq(Nat \ {0}), NEW m \in Nat,
           Increasing(v \o g), Within(v \o g, m)
    PROVE  LET w == v \o Fitting(g)
           IN  /\ w \in Seq(Nat \ {0}) /\ Increasing(w) /\ Within(w, m)
               /\ \A i \in 1..Len(v \o g) :
                     \/ \E j \in 1..Len(w) : w[j] = (v \o g)[i]
                     \/ \E j \in 1..Dropped(g) : g[j] = (v \o g)[i]
<1>1. PICK d \in Nat, l \in Nat :
         /\ d = Dropped(g) /\ Len(g) = d + l
         /\ Fitting(g) \in Seq(Nat \ {0}) /\ Len(Fitting(g)) = l
         /\ \A i \in 1..l : Fitting(g)[i] = g[d + i]
  BY FittingFields
<1>2. PICK p \in Nat, q \in Nat : p = Len(v) /\ q = Len(g)
  OBVIOUS
<1>3. PICK f \in Seq(Nat \ {0}) : f = Fitting(g) /\ Len(f) = l /\ \A i \in 1..l : f[i] = g[d + i]
  BY <1>1
<1>4. q = d + l
  BY <1>1, <1>2
<1>5. PICK a \in Seq(Nat \ {0}) : /\ a = v \o g /\ Len(a) = p + q /\ (\A i \in 1..p : a[i] = v[i])
                                  /\ \A i \in 1..q : a[p + i] = g[i]
  <2>1. /\ v \o g \in Seq(Nat \ {0}) /\ Len(v \o g) = p + q /\ (\A i \in 1..p : (v \o g)[i] = v[i])
        /\ \A i \in 1..q : (v \o g)[p + i] = g[i]
    BY <1>2
  <2> QED
    BY <2>1, Zenon
<1>6. PICK w \in Seq(Nat \ {0}) : /\ w = v \o f /\ Len(w) = p + l /\ (\A i \in 1..p : w[i] = v[i])
                                  /\ \A i \in 1..l : w[p + i] = f[i]
  <2>1. l = Len(f) /\ p = Len(v)
    BY <1>2, <1>3
  <2>2. /\ v \o f \in Seq(Nat \ {0}) /\ Len(v \o f) = p + l /\ (\A i \in 1..p : (v \o f)[i] = v[i])
        /\ \A i \in 1..l : (v \o f)[p + i] = f[i]
    <3>1. v \o f \in Seq(Nat \ {0})
      BY ConcatFields
    <3>2. Len(v \o f) = p + l
      BY <2>1
    <3>3. \A i \in 1..p : (v \o f)[i] = v[i]
      BY <2>1
    <3>4. \A i \in 1..l : (v \o f)[p + i] = f[i]
      BY <2>1
    <3> QED
      BY <3>1, <3>2, <3>3, <3>4
  <2> QED
    BY <2>2, Zenon
<1>7. ASSUME NEW k \in 1..l
      PROVE  \E h \in 1..(p + q) : h = p + k + d /\ w[p + k] = a[h]
  <2>1. PICK e \in 1..q : e = d + k
    BY <1>4
  <2>2. w[p + k] = f[k] /\ f[k] = g[e]
    <3>1. f[k] = g[d + k]
      BY <1>3
    <3>2. w[p + k] = f[k]
      BY <1>6
    <3> QED
      BY <2>1, <3>1, <3>2
  <2>3. PICK h \in 1..(p + q) : h = p + e
    OBVIOUS
  <2>4. a[h] = g[e]
    BY <1>5, <2>3
  <2>5. h = p + k + d
    BY <2>1, <2>3
  <2> QED
    BY <2>2, <2>4, <2>5
<1>8. ASSUME NEW i \in 1..(p + l)
      PROVE  \E h \in 1..(p + q) : h = (IF i <= p THEN i ELSE i + d) /\ w[i] = a[h]
  <2>1. CASE i <= p
    <3>1. i \in 1..p /\ i \in 1..(p + q)
      BY <1>4, <2>1
    <3>2. w[i] = v[i] /\ a[i] = v[i]
      BY <1>5, <1>6, <3>1
    <3> QED
      BY <2>1, <3>1, <3>2
  <2>2. CASE ~(i <= p)
    <3>1. PICK k \in 1..l : p + k = i
      <4>1. i - p \in 1..l /\ p + (i - p) = i
        BY <2>2
      <4> QED
        BY <4>1
    <3> QED
      BY <1>7, <2>2, <3>1
  <2> QED
    BY <2>1, <2>2
<1>9. Increasing(w)
  <2>1. SUFFICES ASSUME NEW i \in 1..(p + l), NEW j \in 1..(p + l), i < j
                 PROVE  w[i] < w[j]
    BY <1>6 DEF Increasing
  <2>2. PICK x \in 1..(p + q) : x = (IF i <= p THEN i ELSE i + d) /\ w[i] = a[x]
    BY <1>8
  <2>3. PICK y \in 1..(p + q) : y = (IF j <= p THEN j ELSE j + d) /\ w[j] = a[y]
    BY <1>8
  <2>4. x = (IF i <= p THEN i ELSE i + d) /\ y = (IF j <= p THEN j ELSE j + d)
    BY <2>2, <2>3
  <2>5. x < y
    BY <2>1, <2>4
  <2> QED
    BY <1>5, <2>2, <2>3, <2>5 DEF Increasing
<1>10. Within(w, m)
  BY <1>5, <1>6, <1>8 DEF Within
<1>11. ASSUME NEW i \in 1..(p + q)
       PROVE  \/ \E j \in 1..(p + l) : w[j] = a[i]
              \/ \E j \in 1..d : g[j] = a[i]
  <2>1. CASE i <= p
    <3>1. i \in 1..p /\ i \in 1..(p + l)
      BY <2>1
    <3> QED
      BY <1>5, <1>6, <3>1
  <2>2. CASE ~(i <= p)
    <3>1. PICK j \in 1..q : p + j = i
      <4>1. i - p \in 1..q /\ p + (i - p) = i
        BY <2>2
      <4> QED
        BY <4>1
    <3>2. a[i] = g[j]
      BY <1>5, <3>1
    <3>3. CASE j <= d
      <4>1. j \in 1..d
        BY <3>3
      <4> QED
        BY <3>2, <4>1
    <3>4. CASE ~(j <= d)
      <4>1. PICK k \in 1..l : d + k = j
        <5>1. j - d \in 1..l /\ d + (j - d) = j
          BY <1>4, <3>4
        <5> QED
          BY <5>1
      <4>2. p + k \in 1..(p + l) /\ p + k + d = i
        BY <3>1, <4>1
      <4> QED
        BY <1>7, <4>2
    <3> QED
      BY <3>3, <3>4
  <2> QED
    BY <2>1, <2>2
<1>12. \A i \in 1..Len(v \o g) : \/ \E j \in 1..Len(w) : w[j] = (v \o g)[i]
                                 \/ \E j \in 1..Dropped(g) : g[j] = (v \o g)[i]
  <2>1. Len(v \o g) = p + q /\ Len(w) = p + l /\ d = Dropped(g) /\ a = v \o g
    BY <1>1, <1>5, <1>6
  <2> QED
    BY <1>11, <2>1
<1>13. w = v \o Fitting(g)
  BY <1>3, <1>6
<1> QED
  BY <1>9, <1>10, <1>12, <1>13

(* The numbers from k on.                                                   *)
LEMMA RunOfNumbers ==
    ASSUME NEW k \in Nat, NEW m \in Nat
    PROVE  LET r == [i \in 1..m |-> k + i]
           IN  /\ r \in Seq(Nat \ {0}) /\ Len(r) = m /\ Increasing(r) /\ Within(r, k + m)
               /\ \A i \in 1..m : r[i] > k /\ r[i] <= k + m
               /\ \A i \in Nat : i > k /\ i <= k + m => \E j \in 1..m : r[j] = i
<1>1. \A i \in 1..m : k + i \in Nat \ {0}
  OBVIOUS
<1>2. PICK r : r = [i \in 1..m |-> k + i]
  OBVIOUS
<1>3. r \in Seq(Nat \ {0}) /\ Len(r) = m /\ \A i \in 1..m : r[i] = k + i
  <2>1. [i \in 1..m |-> k + i] \in Seq(Nat \ {0}) /\ Len([i \in 1..m |-> k + i]) = m
    BY <1>1
  <2> QED
    BY <1>2, <2>1
<1>4. Increasing(r)
  <2>1. \A i, j \in 1..m : i < j => k + i < k + j
    OBVIOUS
  <2> QED
    BY <1>3, <2>1 DEF Increasing
<1>5. \A i \in 1..m : r[i] > k /\ r[i] <= k + m
  BY <1>3
<1>6. Within(r, k + m)
  BY <1>3, <1>5 DEF Within
<1>7. ASSUME NEW i \in Nat, i > k, i <= k + m
      PROVE  \E j \in 1..m : r[j] = i
  <2>1. PICK j \in 1..m : j = i - k /\ k + j = i
    <3>1. i - k \in 1..m /\ k + (i - k) = i
      BY <1>7
    <3> QED
      BY <3>1
  <2> QED
    BY <1>3, <2>1
<1> QED
  BY <1>2, <1>3, <1>4, <1>5, <1>6, <1>7

(* The text of a poll follows the cursor.                                   *)
NewOutput(pt, nc) ==
    /\ Increasing(pt) /\ Within(pt, nc) /\ nc <= Len(frames[scall.session])
    /\ \A i \in 1..Len(pt) : pt[i] > terminal_cursor
    /\ \A i \in 1..nc : i > terminal_cursor =>
          \/ \E j \in 1..Len(pt) : pt[j] = i
          \/ scall.page = <<>> /\ scall.stored < i /\ i <= scall.last
    /\ scall.page # <<>> => terminal_cursor <= nc
LEMMA PollTextFollows ==
    ASSUME TerminalInv, scall.pc = "polled"
    PROVE  /\ PollText(scall.session) \in Seq(Nat \ {0}) /\ NextCursor \in Nat
           /\ NewOutput(PollText(scall.session), NextCursor)
<1>1. PICK c \in TermCallRecord, s \in Session, k \in Nat, n \in Nat :
         c = scall /\ s = c.session /\ k = terminal_cursor /\ n = Len(frames[s])
  BY TermFacts
<1>2. /\ c.page = [i \in 1..Len(c.page) |-> k + i]
      /\ c.page # <<>> => k + Len(c.page) <= n
      /\ c.page = <<>> => c.stored <= k /\ c.text <= c.last /\ c.last <= n
      /\ c.first /\ c.got = <<>> => k = 0
  BY <1>1 DEF TerminalInv, PageFollows, PollPc
<1>3. c.page \in Seq(Nat \ {0}) /\ c.text \in Nat /\ c.last \in Nat /\ c.stored \in Nat
  BY TermFields
<1>4. CASE c.page # <<>>
  <2>1. PICK m \in Nat : m = Len(c.page)
    BY <1>3
  <2>2. m # 0
    BY <1>3, <1>4, <2>1
  <2>3. LET r == [i \in 1..m |-> k + i]
        IN  /\ r \in Seq(Nat \ {0}) /\ Len(r) = m /\ Increasing(r) /\ Within(r, k + m)
            /\ \A i \in 1..m : r[i] > k /\ r[i] <= k + m
            /\ \A i \in Nat : i > k /\ i <= k + m => \E j \in 1..m : r[j] = i
    BY RunOfNumbers
  <2>4. /\ Increasing(c.page) /\ Within(c.page, k + m)
        /\ \A i \in 1..m : c.page[i] > k
        /\ \A i \in Nat : i > k /\ i <= k + m => \E j \in 1..m : c.page[j] = i
    BY <1>2, <2>1, <2>3
  <2>5. PollText(scall.session) = c.page
    BY <1>1, <1>4 DEF PollText
  <2>6. NextCursor = k + m
    BY <1>1, <1>2, <1>4, <2>1, <2>2 DEF NextCursor
  <2>7. k <= k + m /\ k + m \in Nat /\ k + m <= n
    BY <1>2, <1>4, <2>1
  <2>8. NewOutput(c.page, k + m)
    BY <1>1, <1>4, <2>1, <2>4, <2>7 DEF NewOutput
  <2> QED
    BY <1>3, <2>5, <2>6, <2>7, <2>8
<1>5. CASE c.page = <<>>
  <2>1. NextCursor = c.last
    BY <1>1, <1>5 DEF NextCursor
  <2>2. PICK pt : pt = PollText(s)
    OBVIOUS
  <2>3. /\ pt \in Seq(Nat \ {0}) /\ Increasing(pt) /\ Within(pt, c.last)
        /\ \A i \in 1..Len(pt) : pt[i] > k
    <3>1. CASE pt = <<>>
      <4>1. <<>> \in Seq(Nat \ {0}) /\ Len(<<>>) = 0
        OBVIOUS
      <4> QED
        BY <3>1, <4>1 DEF Increasing, Within
    <3>2. CASE pt # <<>>
      <4>1. c.first /\ c.got = <<>> /\ pt = TailText(s)
        BY <1>1, <1>5, <2>2, <3>2 DEF PollText
      <4>2. pt = [i \in 1..c.text |-> i] /\ k = 0
        BY <1>1, <1>2, <3>2, <4>1 DEF TailText
      <4>3. PICK z \in Nat : z = 0
        OBVIOUS
      <4>4. LET r == [i \in 1..c.text |-> z + i]
            IN  /\ r \in Seq(Nat \ {0}) /\ Len(r) = c.text /\ Increasing(r) /\ Within(r, z + c.text)
                /\ \A i \in 1..c.text : r[i] > z /\ r[i] <= z + c.text
        BY <1>3, RunOfNumbers
      <4>5. pt = [i \in 1..c.text |-> z + i]
        BY <1>3, <4>2, <4>3
      <4>6. /\ pt \in Seq(Nat \ {0}) /\ Len(pt) = c.text /\ Increasing(pt)
            /\ \A i \in 1..c.text : pt[i] > 0 /\ pt[i] <= c.text
        BY <1>3, <4>3, <4>4, <4>5
      <4>7. Within(pt, c.last)
        <5>1. \A i \in 1..c.text : pt[i] \in Nat
          BY <4>6
        <5> QED
          BY <1>2, <1>3, <1>5, <4>6, <5>1 DEF Within
      <4> QED
        BY <4>2, <4>6, <4>7
    <3> QED
      BY <3>1, <3>2
  <2>4. \A i \in 1..c.last : i > k => c.stored < i /\ i <= c.last
    BY <1>2, <1>3, <1>5
  <2>5. NewOutput(pt, c.last)
    BY <1>1, <1>2, <1>5, <2>3, <2>4 DEF NewOutput
  <2> QED
    BY <1>1, <1>3, <2>1, <2>2, <2>3, <2>5
<1> QED
  BY <1>4, <1>5

(* The polls of one call, and what they mean.                               *)
PollGot == scall.got \o PollText(scall.session)
PollMeaning == scall.meaningful \/ PollMeans(scall.session)

(* What counts as meaningful answers what is owed: it is no echo of the     *)
(* input, and it was not seen before.                                       *)
LEMMA MeaningAnswers ==
    ASSUME TerminalInv, scall.pc = "polled", owed # 0, scall.session = active_session_id, PollMeaning
    PROVE  Answers(scall.session, PollGot)
<1>1. PICK c \in TermCallRecord, s \in Session, k \in Nat, n \in Nat :
         c = scall /\ s = c.session /\ k = terminal_cursor /\ n = Len(frames[s]) /\ s = active_session_id
  BY TermFacts
<1>2. PICK g \in Seq(Nat \ {0}), pt \in Seq(Nat \ {0}), a \in Nat, b \in Nat :
         g = c.got /\ pt = PollText(s) /\ a = Len(g) /\ b = Len(pt)
  <2>1. c.got \in Seq(Nat \ {0}) /\ PollText(s) \in Seq(Nat \ {0})
    BY <1>1, TermFields, PollTextFollows
  <2>2. Len(c.got) \in Nat /\ Len(PollText(s)) \in Nat
    BY <2>1
  <2> QED
    BY <2>1, <2>2, Zenon
<1>3. PICK w \in Seq(Nat \ {0}) : /\ w = g \o pt /\ Len(w) = a + b
                                  /\ \A i \in 1..a : w[i] = g[i] /\ i \in 1..(a + b)
                                  /\ \A i \in 1..b : w[a + i] = pt[i] /\ a + i \in 1..(a + b)
  <2>1. /\ g \o pt \in Seq(Nat \ {0}) /\ Len(g \o pt) = a + b
        /\ \A i \in 1..a : (g \o pt)[i] = g[i] /\ i \in 1..(a + b)
        /\ \A i \in 1..b : (g \o pt)[a + i] = pt[i] /\ a + i \in 1..(a + b)
    BY <1>2
  <2> QED
    BY <2>1, Zenon
<1>4. w = PollGot
  BY <1>1, <1>2, <1>3 DEF PollGot
<1>5. SUFFICES Answers(s, w)
  BY <1>1, <1>4
<1>6. /\ last_terminal_input # 0 /\ (\A i \in Printed(s) : i <= owed => i <= k)
      /\ c.meaningful => Answers(s, g)
      /\ c.page = <<>> => owed <= c.stored
  BY <1>1, <1>2 DEF TerminalInv, OwedIsPending, PollPc
<1>7. /\ c.page = [i \in 1..Len(c.page) |-> k + i]
      /\ c.page # <<>> => k + Len(c.page) <= n
      /\ c.page = <<>> => c.stored <= k
      /\ c.first /\ c.got = <<>> => k = 0
  BY <1>1 DEF TerminalInv, PageFollows, PollPc
<1>8. CASE c.meaningful
  <2>1. PICK i \in 1..a : /\ g[i] > owed /\ Shows(s, g[i])
                          /\ frames[s][g[i]] # <<"echo", last_terminal_input>>
    BY <1>2, <1>6, <1>8 DEF Answers
  <2>2. w[i] = g[i] /\ i \in 1..Len(w)
    BY <1>3
  <2> QED
    BY <2>1, <2>2 DEF Answers
<1>9. CASE PollMeans(s) /\ c.page = <<>>
  <2>1. pt # <<>>
    BY <1>1, <1>2, <1>9 DEF PollMeans
  <2>2. c.first /\ c.got = <<>>
    BY <1>1, <1>2, <1>9, <2>1 DEF PollText
  <2>3. owed <= c.stored /\ c.stored <= 0 /\ owed \in Nat /\ c.stored \in Nat
    BY <1>6, <1>7, <1>9, <2>2, TermFacts, TermFields
  <2> QED
    BY <2>3
<1>10. CASE PollMeans(s) /\ c.page # <<>>
  <2>1. pt = c.page /\ ~PlainEcho(s, c.page)
    BY <1>1, <1>2, <1>10 DEF PollMeans, PollText
  <2>2. /\ \A i \in 1..b : pt[i] = k + i /\ k + i \in 1..n /\ k + i > k
    <3>1. \A i \in 1..b : pt[i] = k + i
      BY <1>2, <1>7, <2>1
    <3>2. k + b <= n
      BY <1>2, <1>7, <1>10, <2>1
    <3> QED
      BY <1>1, <1>2, <3>1, <3>2
  <2>3. \E i \in 1..b : Shows(s, pt[i]) /\ frames[s][pt[i]] # <<"echo", last_terminal_input>>
    <3>1. SUFFICES ASSUME \A i \in 1..b : Shows(s, pt[i]) => frames[s][pt[i]] = <<"echo", last_terminal_input>>
                   PROVE  FALSE
      BY Zenon
    <3>2. PICK u \in 1..b : Shows(s, pt[u])
      BY <1>2, <2>1 DEF PlainEcho, Visible
    <3>3. ASSUME NEW v \in 1..b, Shows(s, pt[v])
          PROVE  v = u
      <4>1. frames[s][pt[u]] = <<"echo", last_terminal_input>> /\ frames[s][pt[v]] = <<"echo", last_terminal_input>>
        BY <3>1, <3>2, <3>3
      <4>2. frames[s][pt[u]][1] = "echo" /\ frames[s][pt[u]] = frames[s][pt[v]]
        BY <4>1
      <4>3. pt[u] \in 1..n /\ pt[v] \in 1..n /\ pt[u] = k + u /\ pt[v] = k + v
        BY <2>2
      <4>4. pt[u] = pt[v]
        BY <1>1, <4>2, <4>3 DEF TerminalInv, EchoesOnce
      <4> QED
        BY <1>1, <1>2, <4>3, <4>4
    <3>4. Visible(s, c.page) = {u}
      BY <1>2, <2>1, <3>2, <3>3 DEF Visible
    <3> QED
      BY <1>2, <1>6, <2>1, <3>1, <3>2, <3>4 DEF PlainEcho
  <2>4. PICK i \in 1..b : Shows(s, pt[i]) /\ frames[s][pt[i]] # <<"echo", last_terminal_input>>
    BY <2>3
  <2>5. pt[i] \in Printed(s) /\ pt[i] = k + i /\ k + i > k
    BY <1>1, <2>2, <2>4 DEF Printed
  <2>6. pt[i] > owed
    <3>1. ~(pt[i] <= owed)
      <4>1. k + i \in Nat /\ ~(k + i <= k)
        BY <1>1, <1>2
      <4> QED
        BY <1>6, <2>5, <4>1
    <3>2. pt[i] \in Nat /\ owed \in Nat
      BY <1>2, <2>5, TermFacts
    <3> QED
      BY <3>1, <3>2
  <2>7. a + i \in 1..Len(w) /\ w[a + i] = pt[i]
    BY <1>3
  <2> QED
    BY <2>4, <2>6, <2>7 DEF Answers
<1> QED
  BY <1>1, <1>8, <1>9, <1>10 DEF PollMeaning

(* The effect of a poll.                                                    *)
PollEnds(got, meaningful) ==
    /\ scall' = NoTermCall
    /\ terminal_input_pending' = (terminal_input_pending /\ ~meaningful)
    /\ (meaningful /\ AfterOutput(scall.session, got)) \/ (~meaningful /\ UNCHANGED sessionState)
    /\ told' = IF meaningful /\ Says(scall.session, got, "uid0")
               THEN told \cup ({scall.session} \cap {active_session_id}) ELSE told
    /\ Briefed(scall.session, scall.state)
PollAgain(got, meaningful) ==
    /\ scall' = PolledOf(scall.tool, scall.session, scall.state, got, meaningful,
                         scall.first /\ scall.page # <<>>)
    /\ terminal_input_pending' = terminal_input_pending
    /\ active_session_privilege' = active_session_privilege
    /\ active_session_stateful' = active_session_stateful /\ session_briefs' = session_briefs
    /\ told' = told
LEMMA PolledEffect ==
    ASSUME Polled
    PROVE  /\ scall.pc = "polled" /\ terminal_cursor' = NextCursor
           /\ \E ends \in BOOLEAN :
                 /\ \/ ends /\ PollEnds(PollGot, PollMeaning)
                    \/ ~ends /\ PollAgain(PollGot, PollMeaning)
                 /\ PollHistory(scall.session, PollGot, ends)
           /\ TermRuntimeUnchanged /\ active_session_id' = active_session_id
           /\ last_terminal_input' = last_terminal_input /\ scuts' = scuts /\ disturbed' = disturbed
<1>1. /\ scall.pc = "polled" /\ terminal_cursor' = NextCursor
      /\ UNCHANGED <<runtimeSessions, active_session_id, last_terminal_input, scuts, disturbed>>
  BY DEF Polled
<1>2. PICK ends \in BOOLEAN :
         /\ IF ends THEN ObserveTermEnds(scall.session, PollGot, PollMeaning)
            ELSE /\ scall' = PolledOf(scall.tool, scall.session, scall.state, PollGot, PollMeaning,
                                      scall.first /\ scall.page # <<>>)
                 /\ UNCHANGED <<terminal_input_pending, sessionState, session_briefs, told>>
         /\ PollHistory(scall.session, PollGot, ends)
  BY Zenon DEF Polled, PollGot, PollMeaning, PolledOf
<1>3. ends => PollEnds(PollGot, PollMeaning)
  BY <1>2, Zenon DEF ObserveTermEnds, PollEnds
<1>4. ~ends => PollAgain(PollGot, PollMeaning)
  BY <1>2 DEF PollAgain, sessionState
<1>5. \E e \in BOOLEAN :
         /\ \/ e /\ PollEnds(PollGot, PollMeaning)
            \/ ~e /\ PollAgain(PollGot, PollMeaning)
         /\ PollHistory(scall.session, PollGot, e)
  BY <1>2, <1>3, <1>4, Zenon
<1>6. /\ TermRuntimeUnchanged /\ active_session_id' = active_session_id
      /\ last_terminal_input' = last_terminal_input /\ scuts' = scuts /\ disturbed' = disturbed
  BY <1>1 DEF TermRuntimeUnchanged, runtimeSessions
<1> QED
  BY <1>1, <1>5, <1>6, Zenon

(* What output tells leaves the context as cautious as it was.              *)
LEMMA OutputIsCautious ==
    ASSUME TerminalInv, NEW s, NEW got, AfterOutput(s, got)
    PROVE  /\ active_session_privilege' \in {"unknown", "user", "root"}
           /\ active_session_stateful' \in BOOLEAN /\ (Cautious => Cautious')
           /\ Says(s, got, "uid0") => Cautious'
<1>1. PICK u \in BOOLEAN, d \in BOOLEAN :
         /\ u = Says(s, got, "uid0") /\ d = Says(s, got, "denied")
  <2>1. Says(s, got, "uid0") \in BOOLEAN /\ Says(s, got, "denied") \in BOOLEAN
    BY DEF Says
  <2> QED
    BY <2>1, Zenon
<1>2. /\ active_session_privilege' = IF u THEN "root"
                                     ELSE IF d /\ active_session_privilege = "root" THEN "unknown"
                                     ELSE active_session_privilege
      /\ active_session_stateful' =
            (active_session_stateful \/ u \/ (d /\ active_session_privilege = "root"))
  BY <1>1 DEF AfterOutput
<1>3. active_session_privilege' \in {"unknown", "user", "root"}
  BY <1>2, TermFacts
<1>4. active_session_stateful' \in BOOLEAN
  BY <1>2
<1>5. Cautious => Cautious'
  BY <1>2 DEF Cautious
<1>6. u => Cautious'
  BY <1>2 DEF Cautious
<1> QED
  BY <1>1, <1>3, <1>4, <1>5, <1>6

(* What a poll does to the call.                                            *)
LEMMA PollAgainCall ==
    ASSUME TerminalInv, scall.pc = "polled", PollAgain(PollGot, PollMeaning)
    PROVE  /\ scall' \in TermCallRecord /\ scall'.pc = "frames" /\ scall'.tool = "observe_terminal"
           /\ scall'.session = scall.session /\ scall'.input = "plain" /\ scall'.state = scall.state
           /\ scall'.got = PollGot /\ (scall'.meaningful => PollMeaning)
           /\ scall'.first => scall.page # <<>>
<1>1. PICK c \in TermCallRecord, s \in Session : c = scall /\ s = c.session /\ c.tool = "observe_terminal"
  BY TermFacts DEF TerminalInv, CallsFit, PollPc
<1>2. PICK g \in Seq(Nat \ {0}), tool \in TermTool, state \in SessionStates :
         g = PollGot /\ tool = c.tool /\ state = c.state
  <2>1. PollText(scall.session) \in Seq(Nat \ {0}) /\ scall.got \in Seq(Nat \ {0})
    BY <1>1, TermFields, PollTextFollows
  <2>2. PollGot \in Seq(Nat \ {0})
    BY <2>1 DEF PollGot
  <2>3. c.tool \in TermTool /\ c.state \in SessionStates
    BY TermFields
  <2> QED
    BY <2>2, <2>3, Zenon
<1>3. PICK m \in BOOLEAN, f \in BOOLEAN : m = PollMeaning /\ f = (c.first /\ c.page # <<>>)
                                          /\ (m => PollMeaning) /\ (f => c.page # <<>>)
  <2>1. PollMeaning \in BOOLEAN /\ (c.first /\ c.page # <<>>) \in BOOLEAN
    BY DEF PollMeaning
  <2> QED
    BY <2>1, Zenon
<1>4. PICK e \in TermCallRecord : e = NoTermCall /\ e.input = "plain"
  BY NoTermFields
<1>5. scall' = [e EXCEPT !.tool = tool, !.pc = "frames", !.session = s, !.state = state, !.got = g,
                         !.meaningful = m, !.first = f]
  BY <1>1, <1>2, <1>3, <1>4 DEF PollAgain, PolledOf
<1>6. /\ scall' \in TermCallRecord /\ scall'.pc = "frames" /\ scall'.tool = tool
      /\ scall'.session = s /\ scall'.input = e.input /\ scall'.state = state
      /\ scall'.got = g /\ scall'.meaningful = m /\ scall'.first = f
  BY <1>5 DEF TermCallRecord, TermPc, PollPc
<1> QED
  BY <1>1, <1>2, <1>3, <1>4, <1>6

(* What was returned before and what the polls of the call have got.        *)
LEMMA ViewFollows ==
    ASSUME TerminalInv, scall.pc = "polled", ~mixed, scall.session = active_session_id
    PROVE  LET all == view \o PollGot
           IN  /\ PollGot \in Seq(Nat \ {0}) /\ all \in Seq(Nat \ {0})
               /\ terminal_cursor <= NextCursor /\ NextCursor <= Len(frames[active_session_id])
               /\ Increasing(all) /\ Within(all, NextCursor)
               /\ \A i \in Printed(active_session_id) : i <= NextCursor =>
                     \/ i \in passed
                     \/ \E j \in 1..Len(all) : all[j] = i
                     \/ scall.page = <<>> /\ scall.stored < i /\ i <= scall.last
<1>1. PICK c \in TermCallRecord, s \in Session, k \in Nat, nc \in Nat, n \in Nat :
         /\ c = scall /\ s = c.session /\ k = terminal_cursor /\ s = active_session_id
         /\ nc = NextCursor /\ n = Len(frames[s])
  BY TermFacts, PollTextFollows
<1>2. PICK v \in Seq(Nat \ {0}), g \in Seq(Nat \ {0}), pt \in Seq(Nat \ {0}) :
         v = view /\ g = c.got /\ pt = PollText(s)
  <2>1. view \in Seq(Nat \ {0}) /\ c.got \in Seq(Nat \ {0}) /\ PollText(s) \in Seq(Nat \ {0})
    BY <1>1, TermFacts, TermFields, PollTextFollows
  <2> QED
    BY <2>1, Zenon
<1>3. /\ Increasing(pt) /\ Within(pt, nc) /\ nc <= n
      /\ \A i \in 1..Len(pt) : pt[i] > k
      /\ \A i \in 1..nc : i > k =>
            \/ \E j \in 1..Len(pt) : pt[j] = i
            \/ c.page = <<>> /\ c.stored < i /\ i <= c.last
      /\ c.page # <<>> => k <= nc
  BY <1>1, <1>2, PollTextFollows DEF NewOutput
<1>4. PICK w \in Seq(Nat \ {0}) : w = v \o g
  <2>1. v \o g \in Seq(Nat \ {0})
    OBVIOUS
  <2> QED
    BY <2>1, Zenon
<1>5. /\ Increasing(w) /\ Within(w, k)
      /\ c.page = <<>> => k <= c.last
      /\ \A i \in Printed(s) : i <= k => i \in passed \/ \E j \in 1..Len(w) : w[j] = i
  BY <1>1, <1>2, <1>4, NoneIsNoSession DEF TerminalInv, CursorFollowsView
<1>6. k <= nc
  <2>1. c.page = <<>> => nc = c.last
    BY <1>1 DEF NextCursor
  <2> QED
    BY <1>3, <1>5, <2>1
<1>7. /\ Increasing(w \o pt) /\ Within(w \o pt, nc)
      /\ \A x : (\E i \in 1..Len(w) : w[i] = x) \/ (\E i \in 1..Len(pt) : pt[i] = x) =>
                   \E i \in 1..Len(w \o pt) : (w \o pt)[i] = x
  BY <1>3, <1>5, <1>6, IncreasingConcat
<1>8. v \o (g \o pt) = w \o pt /\ g \o pt \in Seq(Nat \ {0}) /\ v \o (g \o pt) \in Seq(Nat \ {0})
  <2>1. (v \o g) \o pt = v \o (g \o pt)
    <3>1. PICK S : S = Nat \ {0}
      OBVIOUS
    <3>2. v \in Seq(S) /\ g \in Seq(S) /\ pt \in Seq(S)
      BY <3>1
    <3> QED
      BY <3>2, ConcatAssociative, SMTT(40)
  <2> QED
    BY <1>4, <2>1
<1>9. PollGot = g \o pt
  BY <1>1, <1>2 DEF PollGot
<1>10. ASSUME NEW i \in Printed(s), i <= nc
       PROVE  \/ i \in passed
              \/ \E j \in 1..Len(w \o pt) : (w \o pt)[j] = i
              \/ c.page = <<>> /\ c.stored < i /\ i <= c.last
  <2>1. i \in Nat /\ i \in 1..nc
    <3>1. i \in 1..n
      BY <1>1, <1>10 DEF Printed
    <3> QED
      BY <1>1, <1>10, <3>1
  <2>2. CASE i <= k
    BY <1>5, <1>7, <1>10, <2>2
  <2>3. CASE ~(i <= k)
    <3>1. i > k
      BY <1>1, <2>1, <2>3
    <3> QED
      BY <1>3, <1>7, <2>1, <3>1
  <2> QED
    BY <2>2, <2>3
<1>11. PICK all : all = w \o pt /\ all = view \o PollGot
  BY <1>2, <1>8, <1>9
<1>12. Printed(active_session_id) = Printed(s)
  BY <1>1
<1>13. /\ PollGot \in Seq(Nat \ {0}) /\ all \in Seq(Nat \ {0})
       /\ terminal_cursor <= NextCursor /\ NextCursor <= Len(frames[active_session_id])
       /\ Increasing(all) /\ Within(all, NextCursor)
  BY <1>1, <1>2, <1>3, <1>6, <1>7, <1>8, <1>9, <1>11
<1>14. \A i \in Printed(active_session_id) : i <= NextCursor =>
          \/ i \in passed
          \/ \E j \in 1..Len(all) : all[j] = i
          \/ scall.page = <<>> /\ scall.stored < i /\ i <= scall.last
  BY <1>1, <1>10, <1>11, <1>12
<1> QED
  BY <1>11, <1>13, <1>14

(* The history of a poll.                                                   *)
LEMMA PollHistoryFacts ==
    ASSUME TerminalInv, scall.pc = "polled", NEW ends \in BOOLEAN,
           PollHistory(scall.session, PollGot, ends)
    PROVE  /\ mixed' \in BOOLEAN /\ (mixed' <=> mixed \/ scall.session # active_session_id)
           /\ view' \in Seq(Nat \ {0}) /\ passed' \subseteq Nat /\ owed' \in Nat
           /\ mixed' => view' = <<>> /\ passed' = {} /\ owed' = 0
           /\ ~mixed' => /\ passed \subseteq passed'
                         /\ \A i \in 1..Len(frames[scall.session]) :
                               scall.page = <<>> /\ scall.stored < i /\ i <= scall.last => i \in passed'
                         /\ ends => /\ view' = view \o Fitting(PollGot)
                                    /\ \A i \in 1..Dropped(PollGot) : PollGot[i] \in passed'
                         /\ ~ends => view' = view
           /\ owed' # 0 => owed' = owed /\ ~mixed' /\ ~(ends /\ Answers(scall.session, PollGot))
<1>1. mixed' = (mixed \/ scall.session # active_session_id)
  BY DEF PollHistory
<1>2. mixed' \in BOOLEAN /\ (mixed' <=> mixed \/ scall.session # active_session_id)
  BY <1>1
<1>3. passed' = IF mixed' THEN {} ELSE passed \cup
          {i \in 1..Len(frames[scall.session]) : scall.page = <<>> /\ scall.stored < i /\ i <= scall.last}
          \cup (IF ends THEN {PollGot[i] : i \in 1..Dropped(PollGot)} ELSE {})
  BY DEF PollHistory
<1>4. view' = IF mixed' THEN <<>> ELSE IF ends THEN view \o Fitting(PollGot) ELSE view
  BY DEF PollHistory
<1>5. owed' = IF mixed' \/ (ends /\ Answers(scall.session, PollGot)) THEN 0 ELSE owed
  <2>1. Answers(scall.session, PollGot) <=>
           \E i \in 1..Len(PollGot) :
              /\ PollGot[i] > owed
              /\ frames[scall.session][PollGot[i]] # <<"echo", last_terminal_input>>
              /\ Shows(scall.session, PollGot[i])
    BY DEF Answers
  <2>2. owed' = IF mixed' \/ (ends /\ \E i \in 1..Len(PollGot) :
                               /\ PollGot[i] > owed
                               /\ frames[scall.session][PollGot[i]] # <<"echo", last_terminal_input>>
                               /\ Shows(scall.session, PollGot[i])) THEN 0 ELSE owed
    BY DEF PollHistory
  <2> QED
    BY <2>1, <2>2
<1>11. PollGot \in Seq(Nat \ {0})
  <2>1. scall.got \in Seq(Nat \ {0})
    BY TermFacts, TermFields
  <2> QED
    BY <2>1, PollTextFollows DEF PollGot
<1>12. Fitting(PollGot) \in Seq(Nat \ {0}) /\ \A i \in 1..Dropped(PollGot) : PollGot[i] \in Nat
  BY <1>11, FittingFields
<1>6. passed' \subseteq Nat
  BY <1>3, <1>12, TermFacts
<1>7. view' \in Seq(Nat \ {0})
  <2>1. <<>> \in Seq(Nat \ {0}) /\ view \in Seq(Nat \ {0})
    BY TermFacts
  <2>2. view \o Fitting(PollGot) \in Seq(Nat \ {0})
    BY <1>12, <2>1
  <2> QED
    BY <1>4, <2>1, <2>2
<1>8. owed' \in Nat /\ (mixed' => owed' = 0)
      /\ (owed' # 0 => owed' = owed /\ ~mixed' /\ ~(ends /\ Answers(scall.session, PollGot)))
  BY <1>5, TermFacts
<1>9. mixed' => view' = <<>> /\ passed' = {}
  BY <1>3, <1>4
<1>10. ~mixed' => /\ passed \subseteq passed'
                  /\ \A i \in 1..Len(frames[scall.session]) :
                        scall.page = <<>> /\ scall.stored < i /\ i <= scall.last => i \in passed'
                  /\ ends => /\ view' = view \o Fitting(PollGot)
                             /\ \A i \in 1..Dropped(PollGot) : PollGot[i] \in passed'
                  /\ ~ends => view' = view
  BY <1>3, <1>4
<1> QED
  BY <1>2, <1>6, <1>7, <1>8, <1>9, <1>10

(* What is seen after a poll.                                               *)
LEMMA PolledSight ==
    ASSUME TerminalInv, scall.pc = "polled", NEW ends \in BOOLEAN,
           PollHistory(scall.session, PollGot, ends), TermRuntimeUnchanged,
           terminal_cursor' = NextCursor, active_session_id' = active_session_id,
           last_terminal_input' = last_terminal_input,
           \/ ends /\ PollEnds(PollGot, PollMeaning)
           \/ ~ends /\ PollAgain(PollGot, PollMeaning)
    PROVE  Sight'
<1>1. /\ frames' = frames /\ Printed(active_session_id)' = Printed(active_session_id)
  BY DEF TermRuntimeUnchanged, Printed, Shows
<1>2. /\ mixed' \in BOOLEAN /\ (mixed' <=> mixed \/ scall.session # active_session_id)
      /\ mixed' => view' = <<>> /\ passed' = {} /\ owed' = 0
      /\ ~mixed' => /\ passed \subseteq passed'
                    /\ \A i \in 1..Len(frames[scall.session]) :
                          scall.page = <<>> /\ scall.stored < i /\ i <= scall.last => i \in passed'
                    /\ ends => /\ view' = view \o Fitting(PollGot)
                               /\ \A i \in 1..Dropped(PollGot) : PollGot[i] \in passed'
                    /\ ~ends => view' = view
      /\ owed' # 0 => owed' = owed /\ ~mixed' /\ ~(ends /\ Answers(scall.session, PollGot))
  BY PollHistoryFacts
<1>3. ends => scall' = NoTermCall /\ scall'.got = <<>> /\ scall'.pc = "idle"
  BY NoTermFields DEF PollEnds
<1>4. ~ends => /\ scall'.pc = "frames" /\ scall'.session = scall.session /\ scall'.got = PollGot
               /\ (scall'.meaningful => PollMeaning) /\ (scall'.first => scall.page # <<>>)
  BY PollAgainCall
<1>5. PageFollows'
  <2>1. ~ends /\ scall'.first => scall'.got # <<>>
    <3>1. PICK c \in TermCallRecord : c = scall
      BY TermFacts
    <3>2. c.page \in Seq(Nat \ {0}) /\ c.got \in Seq(Nat \ {0})
      BY TermFields
    <3>3. c.page # <<>> => PollGot = c.got \o c.page
      BY <3>1 DEF PollGot, PollText
    <3>4. c.page # <<>> => c.got \o c.page # <<>>
      BY <3>2
    <3> QED
      BY <1>4, <3>1, <3>3, <3>4
  <2> QED
    BY <1>3, <1>4, <2>1 DEF PageFollows, PollPc
<1>6. CursorFollowsView'
  <2>1. CASE mixed'
    <3>1. <<>> \in Seq(Nat \ {0}) /\ Len(<<>>) = 0
      OBVIOUS
    <3> QED
      BY <1>2, <2>1, <3>1 DEF CursorFollowsView, Increasing
  <2>2. CASE ~mixed'
    <3>1. ~mixed /\ scall.session = active_session_id
      BY <1>2, <2>2, TermFlags
    <3>2. PICK all : all = view \o PollGot
      OBVIOUS
    <3>3. /\ PollGot \in Seq(Nat \ {0}) /\ all \in Seq(Nat \ {0})
          /\ terminal_cursor <= NextCursor /\ NextCursor <= Len(frames[active_session_id])
          /\ Increasing(all) /\ Within(all, NextCursor)
          /\ \A i \in Printed(active_session_id) : i <= NextCursor =>
                \/ i \in passed
                \/ \E j \in 1..Len(all) : all[j] = i
                \/ scall.page = <<>> /\ scall.stored < i /\ i <= scall.last
      BY <3>1, <3>2, ViewFollows
    <3>8. PICK w : w = view' \o scall'.got
      OBVIOUS
    <3>4. /\ Increasing(w) /\ Within(w, NextCursor) /\ Increasing(view')
          /\ \A i \in 1..Len(all) : all[i] \in passed' \/ \E j \in 1..Len(w) : w[j] = all[i]
      <4>1. CASE ends
        <5>1. PICK v \in Seq(Nat \ {0}), g \in Seq(Nat \ {0}), nc \in Nat :
                 v = view /\ g = PollGot /\ nc = NextCursor
          BY <3>3, TermFacts, PollTextFollows
        <5>2. PICK u \in Seq(Nat \ {0}) :
                 /\ u = v \o Fitting(g) /\ Increasing(u) /\ Within(u, nc)
                 /\ \A i \in 1..Len(v \o g) :
                       \/ \E j \in 1..Len(u) : u[j] = (v \o g)[i]
                       \/ \E j \in 1..Dropped(g) : g[j] = (v \o g)[i]
          <6>1. Increasing(v \o g) /\ Within(v \o g, nc)
            BY <3>2, <3>3, <5>1
          <6> QED
            BY <6>1, TrimmedFollows
        <5>3. u \o <<>> = u
          BY <5>2
        <5>4. view' = u /\ scall'.got = <<>> /\ \A i \in 1..Dropped(g) : g[i] \in passed'
          BY <1>2, <1>3, <2>2, <4>1, <5>1, <5>2
        <5>5. all = v \o g /\ u = w
          BY <3>2, <3>8, <5>1, <5>3, <5>4
        <5>6. \A i \in 1..Len(all) : \/ all[i] \in passed'
                                     \/ \E j \in 1..Len(u) : u[j] = all[i]
          BY <5>2, <5>4, <5>5
        <5>7. Increasing(u) /\ Within(u, NextCursor) /\ view' = u
          BY <5>1, <5>2, <5>4
        <5> QED
          BY <5>5, <5>6, <5>7
      <4>2. CASE ~ends
        <5>1. view' \o scall'.got = all /\ Increasing(view')
          BY <1>2, <1>4, <2>2, <3>2, <4>2 DEF TerminalInv, CursorFollowsView
        <5> QED
          BY <3>3, <3>8, <5>1
      <4> QED
        BY <4>1, <4>2
    <3>5. ASSUME NEW i \in Printed(active_session_id)', i <= terminal_cursor'
          PROVE  i \in passed' \/ \E j \in 1..Len(w) : w[j] = i
      <4>1. i \in 1..Len(frames[scall.session])
        BY <1>1, <3>1, <3>5 DEF Printed
      <4>2. i \in passed' \/ \E j \in 1..Len(all) : all[j] = i
        BY <1>1, <1>2, <2>2, <3>3, <3>5, <4>1
      <4> QED
        BY <3>4, <4>2
    <3>6. scall'.got # <<>> => scall'.session = active_session_id'
      BY <1>3, <1>4, <3>1
    <3>7. scall'.pc # "polled"
      BY <1>3, <1>4
    <3> QED
      BY <1>1, <2>2, <3>3, <3>4, <3>5, <3>6, <3>7, <3>8 DEF CursorFollowsView
  <2> QED
    BY <2>1, <2>2
<1>7. OwedIsPending'
  <2>1. SUFFICES ASSUME owed' # 0
                 PROVE  OwedIsPending'
    BY DEF OwedIsPending
  <2>2. owed' = owed /\ owed # 0 /\ ~mixed' /\ ~mixed /\ scall.session = active_session_id
        /\ ~(ends /\ Answers(scall.session, PollGot))
    BY <1>2, <2>1, TermFlags
  <2>3. PollMeaning => Answers(scall.session, PollGot)
    BY <2>2, MeaningAnswers
  <2>4. /\ terminal_input_pending /\ active_session_id # NoSession /\ last_terminal_input # 0
        /\ owed <= Len(frames[active_session_id])
        /\ \A i \in Printed(active_session_id) : i <= owed => i <= terminal_cursor
    BY <2>2 DEF TerminalInv, OwedIsPending
  <2>5. terminal_input_pending'
    <3>1. CASE ends
      BY <2>2, <2>3, <2>4, <3>1 DEF PollEnds
    <3>2. CASE ~ends
      BY <2>4, <3>2 DEF PollAgain
    <3> QED
      BY <3>1, <3>2
  <2>6. ASSUME NEW i \in Printed(active_session_id), i <= owed
        PROVE  i <= NextCursor
    <3>1. i <= terminal_cursor /\ terminal_cursor <= NextCursor
      BY <2>2, <2>4, <2>6, ViewFollows
    <3>2. i \in Nat /\ terminal_cursor \in Nat /\ NextCursor \in Nat
      <4>1. i \in 1..Len(frames[active_session_id])
        BY <2>6 DEF Printed
      <4> QED
        BY <4>1, TermFacts, PollTextFollows
    <3> QED
      BY <3>1, <3>2
  <2>7. scall'.pc \in PollPc /\ scall'.meaningful => Answers(active_session_id, scall.got)'
    <3>1. scall'.pc \in PollPc => ~ends
      BY <1>3 DEF PollPc
    <3>2. ~ends /\ scall'.meaningful => Answers(scall.session, PollGot) /\ scall'.got = PollGot
      BY <1>4, <2>3
    <3>3. ASSUME ~ends, scall'.meaningful
          PROVE  Answers(active_session_id, scall.got)'
      <4>1. PICK g : g = PollGot /\ scall'.got = g /\ Answers(active_session_id, g)
        BY <2>2, <3>2, <3>3
      <4> QED
        BY <1>1, <2>2, <4>1 DEF Answers, Shows
    <3> QED
      BY <3>1, <3>3
  <2>8. scall'.pc \notin {"tail", "last", "polled"}
    BY <1>3, <1>4
  <2> QED
    BY <1>1, <2>2, <2>4, <2>5, <2>6, <2>7, <2>8 DEF OwedIsPending
<1> QED
  BY <1>5, <1>6, <1>7 DEF Sight

(* A poll: the call ends or polls again.                                    *)
LEMMA PolledKeeps ==
    ASSUME TerminalInv, Polled
    PROVE  TerminalInv'
<1>1. PICK ends \in BOOLEAN :
         /\ \/ ends /\ PollEnds(PollGot, PollMeaning)
            \/ ~ends /\ PollAgain(PollGot, PollMeaning)
         /\ PollHistory(scall.session, PollGot, ends)
  BY PolledEffect
<1>2. /\ scall.pc = "polled" /\ terminal_cursor' = NextCursor
      /\ TermRuntimeUnchanged /\ active_session_id' = active_session_id
      /\ last_terminal_input' = last_terminal_input /\ scuts' = scuts /\ disturbed' = disturbed
  BY PolledEffect
<1>3. Sight'
  BY <1>1, <1>2, PolledSight
<1>4. PICK c \in TermCallRecord, s \in Session : c = scall /\ s = c.session
  BY <1>2, TermFacts
<1>5. /\ c.tool = "observe_terminal" /\ term[s] # "absent" /\ c.state # "absent"
      /\ c.state = "TERMINATED" => term[s] = "TERMINATED"
      /\ c.state \in SessionStates
  BY <1>2, <1>4, TermFields DEF TerminalInv, CallsFit, PollPc
<1>6. ends => scall' = NoTermCall
  BY <1>1 DEF PollEnds
<1>7. ~ends => /\ scall' \in TermCallRecord /\ scall'.pc = "frames" /\ scall'.tool = "observe_terminal"
               /\ scall'.session = s /\ scall'.input = "plain" /\ scall'.state = c.state
  BY <1>1, <1>2, <1>4, PollAgainCall
<1>8. /\ CallsFit' /\ Sending' = 0 /\ scall'.pc \notin {"written", "open", "opened"}
      /\ scall' \in TermCallRecord /\ (scall'.session = NoSession <=> scall' = NoTermCall)
  <2>1. CASE ends
    BY <1>6, <2>1, NoCallFits
  <2>2. CASE ~ends
    <3>1. /\ scall' \in TermCallRecord /\ scall'.pc = "frames" /\ scall'.tool = "observe_terminal"
          /\ scall'.session = s /\ scall'.input = "plain" /\ scall'.state = c.state
      BY <1>7, <2>2
    <3>2. scall' # NoTermCall /\ scall'.session # NoSession
      BY <3>1, NoTermFields, NoneIsNoSession
    <3>3. term' = term
      BY <1>2 DEF TermRuntimeUnchanged
    <3>4. CallsFit'
      BY <1>5, <3>1, <3>2, <3>3 DEF CallsFit, PollPc
    <3>5. Sending' = 0
      BY <3>1 DEF Sending, SendTool
    <3> QED
      BY <3>1, <3>2, <3>4, <3>5
  <2> QED
    BY <2>1, <2>2
<1>9. /\ TermGrows /\ FramesGrow /\ EchoesOnce' /\ ThreadsFit' /\ InputsFit'
      /\ \A r \in told : term'[r] # "absent"
  <2>1. Sending' <= Sending
    BY <1>8 DEF Sending
  <2> QED
    BY <1>2, <1>8, <2>1, RuntimeFits
<1>10. /\ active_session_privilege' \in {"unknown", "user", "root"}
       /\ active_session_stateful' \in BOOLEAN /\ (Cautious => Cautious')
       /\ told' = told \/ (told' = told \cup ({s} \cap {active_session_id}) /\ Cautious')
  <2>3. told' = told \/ (/\ told' = told \cup ({s} \cap {active_session_id})
                         /\ AfterOutput(scall.session, PollGot) /\ Says(scall.session, PollGot, "uid0"))
    BY <1>1, <1>4 DEF PollEnds, PollAgain
  <2>1. CASE active_session_privilege' = active_session_privilege /\ active_session_stateful' = active_session_stateful
    BY <2>1, <2>3, TermFacts, TermFlags, OutputIsCautious DEF Cautious
  <2>2. CASE AfterOutput(scall.session, PollGot)
    BY <2>2, <2>3, OutputIsCautious
  <2> QED
    BY <1>1, <2>1, <2>2 DEF PollEnds, PollAgain, sessionState
<1>11. /\ terminal_input_pending' \in BOOLEAN
       /\ terminal_input_pending' => active_session_id' # NoSession
  <2>1. CASE ends
    BY <1>1, <1>2, <2>1, TermFlags DEF PollEnds
  <2>2. CASE ~ends
    BY <1>1, <1>2, <2>2, TermFlags DEF PollAgain
  <2> QED
    BY <2>1, <2>2
<1>12. /\ session_briefs' \in [Session -> BriefStates]
       /\ \A r \in Session \ {s} : session_briefs'[r] = session_briefs[r]
       /\ session_briefs'[s] \in {session_briefs[s], c.state}
  <2>1. c.state \in BriefStates
    BY <1>5 DEF SessionStates, BriefStates
  <2>2. session_briefs' = session_briefs \/ session_briefs' = [session_briefs EXCEPT ![s] = c.state]
    BY <1>1, <1>4 DEF PollEnds, PollAgain, Briefed
  <2> QED
    BY <2>1, <2>2, TermFacts
<1>13. TerminalTypeOK'
  <2>1. TerminalTypeOK
    BY DEF TerminalInv
  <2>2. /\ mixed' \in BOOLEAN /\ view' \in Seq(Nat \ {0}) /\ passed' \subseteq Nat /\ owed' \in Nat
        /\ terminal_cursor' \in Nat
    BY <1>1, <1>2, PollHistoryFacts, PollTextFollows
  <2>3. told' \subseteq Session
    BY <1>10, TermFacts
  <2> QED
    BY <1>2, <1>8, <1>10, <1>11, <1>12, <2>1, <2>2, <2>3 DEF TerminalTypeOK, TermRuntimeUnchanged
<1>14. SessionsAreListed'
  <2>1. SessionsAreListed /\ term' = term
    BY <1>2 DEF TerminalInv, TermRuntimeUnchanged
  <2>2. c.state # "None"
    BY <1>5 DEF SessionStates
  <2>3. \A r \in Session : session_briefs'[r] = "TERMINATED" => term'[r] = "TERMINATED"
    BY <1>5, <1>12, <2>1 DEF SessionsAreListed
  <2>4. active_session_id' # NoSession => session_briefs'[active_session_id'] # "None"
    BY <1>2, <1>12, <2>1, <2>2, TermFacts DEF SessionsAreListed
  <2> QED
    BY <2>3, <2>4 DEF SessionsAreListed
<1>15. RootIsKnown'
  <2>1. RootIsKnown /\ term' = term
    BY <1>2 DEF TerminalInv, TermRuntimeUnchanged
  <2>2. ASSUME NEW r \in told' \ disturbed'
        PROVE  r = active_session_id' /\ Cautious'
    BY <1>2, <1>10, <2>1, <2>2 DEF RootIsKnown
  <2>3. \A r \in told' : term'[r] # "absent"
    BY <1>5, <1>9, <1>10, <2>1
  <2>4. active_session_id' # NoSession => term'[active_session_id'] # "absent"
    BY <1>2, <2>1 DEF RootIsKnown
  <2> QED
    BY <1>8, <2>2, <2>3, <2>4 DEF RootIsKnown
<1> QED
  BY <1>3, <1>8, <1>9, <1>13, <1>14, <1>15, TermInvOf

(* At the start there is no terminal.                                       *)
LEMMA TerminalInitInv ==
    ASSUME TerminalInit
    PROVE  TerminalInv
<1>0. /\ term = [s \in Session |-> "absent"] /\ frames = [s \in Session |-> <<>>]
      /\ told = {} /\ inputs = 0
      /\ active_session_id = NoSession /\ terminal_cursor = 0
      /\ terminal_input_pending = FALSE /\ last_terminal_input = 0
      /\ active_session_privilege = "unknown" /\ active_session_stateful = FALSE
      /\ session_briefs = [s \in Session |-> "None"]
      /\ scall = NoTermCall /\ sthreads = {} /\ scuts = 0
      /\ view = <<>> /\ passed = {} /\ mixed = FALSE /\ owed = 0 /\ disturbed = {}
  BY DEF TerminalInit
<1>1. /\ scall.tool = "none" /\ scall.pc = "idle" /\ scall.session = NoSession /\ scall.ref = FALSE
      /\ scall.input = "plain" /\ scall.state = "absent" /\ scall.got = <<>> /\ scall.meaningful = FALSE
      /\ scall \in TermCallRecord
  BY <1>0, NoTermFields
<1>2. <<>> \in Seq(Frame) /\ <<>> \in Seq(Nat \ {0}) /\ Len(<<>>) = 0 /\ <<>> \o <<>> = <<>>
  OBVIOUS
<1>3. TerminalTypeOK
  <2>1. term \in [Session -> SessionStates] /\ session_briefs \in [Session -> BriefStates]
    BY <1>0 DEF SessionStates, BriefStates
  <2>2. frames \in [Session -> Seq(Frame)]
    BY <1>0, <1>2
  <2>3. IsFiniteSet(sthreads)
    BY <1>0, FS_EmptySet
  <2>4. 0 \in 0..MaxInputs /\ 0 \in 0..MaxTermCuts
    BY TermBoundAssumption
  <2> QED
    BY <1>0, <1>1, <1>2, <2>1, <2>2, <2>3, <2>4 DEF TerminalTypeOK
<1>4. CallsFit
  BY <1>0, <1>1 DEF CallsFit, PollPc
<1>5. ThreadsFit
  BY <1>0 DEF ThreadsFit
<1>6. InputsFit
  <2>1. Writing = {} /\ Sending = 0
    BY <1>0, <1>1 DEF Writing, Sending, SendTool
  <2>2. Cardinality({}) = 0
    BY FS_EmptySet
  <2>3. Cardinality(Writing) = 0
    BY <2>1, <2>2
  <2> QED
    BY <1>0, <1>1, <2>1, <2>3, TermBoundAssumption DEF InputsFit
<1>7. SessionsAreListed /\ RootIsKnown
  BY <1>0, <1>1 DEF SessionsAreListed, RootIsKnown
<1>8. PageFollows /\ OwedIsPending
  BY <1>0, <1>1 DEF PageFollows, OwedIsPending, PollPc
<1>9. CursorFollowsView
  BY <1>0, <1>1, <1>2 DEF CursorFollowsView, Increasing, Within
<1>10. EchoesOnce
  BY <1>0, <1>2 DEF EchoesOnce
<1> QED
  BY <1>3, <1>4, <1>5, <1>6, <1>7, <1>8, <1>9, <1>10, Zenon DEF TerminalInv

(* A call of one of the tools begins.                                       *)
TermBegins(s) ==
    \/ BeginOpen(s) \/ Inspect(s) \/ Activate(s)
    \/ \E ref \in BOOLEAN :
          \/ ObserveTerminal(s, ref) \/ CloseTerminal(s, ref)
          \/ TerminalCommand(s, ref) \/ SendControl(s, ref) \/ RequestHumanInput(s, ref)
LEMMA BeginOnKeeps ==
    ASSUME TerminalInv, NEW tool \in TermTool \ {"none"}, NEW s \in Session, NEW ref \in BOOLEAN,
           NEW kind \in AllInputs, BeginOn(tool, s, ref, kind), tool \in SendTool => MaySend,
           tool = "request_human_terminal_input" => kind \in {"plain", "typed"}
    PROVE  TerminalInv'
<1>1. PICK pc \in {"open", "get"} : pc = "get"
  OBVIOUS
<1>2. Begin(tool, s, ref, pc, kind) /\ term[s] # "absent" /\ (ref \/ s = active_session_id)
  BY <1>1 DEF BeginOn, Refers
<1> QED
  BY <1>1, <1>2, BeginKeeps

(* A call of any terminal tool begins.                                      *)
LEMMA TermBeginsKeeps ==
    ASSUME TerminalInv, NEW s \in Session, TermBegins(s)
    PROVE  TerminalInv'
<1>0. /\ {"open_terminal", "inspect_terminal_session", "activate_terminal_session", "observe_terminal",
          "close_terminal", "send", "request_human_terminal_input"} \subseteq TermTool \ {"none"}
      /\ {"open_terminal", "inspect_terminal_session", "activate_terminal_session", "observe_terminal",
          "close_terminal"} \cap SendTool = {}
      /\ "plain" \in AllInputs /\ Inputs \subseteq AllInputs
  BY TermBoundAssumption DEF TermTool, SendTool, AllInputs
<1>1. ASSUME BeginOpen(s)
      PROVE  TerminalInv'
  <2>1. PICK tool \in TermTool \ {"none"}, pc \in {"open", "get"}, kind \in AllInputs, ref \in BOOLEAN :
           tool = "open_terminal" /\ pc = "open" /\ kind = "plain" /\ ref = FALSE
    BY <1>0
  <2>2. Begin(tool, s, ref, pc, kind) /\ tool \notin SendTool
    BY <1>0, <1>1, <2>1 DEF BeginOpen
  <2>3. /\ tool = "open_terminal" /\ term[s] = "absent"
        /\ \A th \in sthreads : th[1] = "open" => th[2] # s
    BY <1>1, <2>1 DEF BeginOpen
  <2> QED
    BY <2>1, <2>2, <2>3, BeginKeeps
<1>2. ASSUME NEW tool \in {"inspect_terminal_session", "activate_terminal_session", "observe_terminal",
                           "close_terminal"}, NEW ref \in BOOLEAN, BeginOn(tool, s, ref, "plain")
      PROVE  TerminalInv'
  <2>1. tool \in TermTool \ {"none"} /\ tool \notin SendTool /\ tool # "request_human_terminal_input"
    BY <1>0
  <2>2. PICK kind \in AllInputs : kind = "plain" /\ BeginOn(tool, s, ref, kind)
    BY <1>0, <1>2
  <2> QED
    BY <2>1, <2>2, BeginOnKeeps
<1>3. ASSUME NEW tool \in {"send", "request_human_terminal_input"}, NEW ref \in BOOLEAN,
             NEW kind \in AllInputs, BeginOn(tool, s, ref, kind), MaySend,
             tool = "request_human_terminal_input" => kind \in {"plain", "typed"}
      PROVE  TerminalInv'
  <2>1. tool \in TermTool \ {"none"}
    BY <1>0
  <2> QED
    BY <1>3, <2>1, BeginOnKeeps
<1>4. CASE Inspect(s) \/ Activate(s)
  BY <1>2, <1>4 DEF Inspect, Activate
<1>5. ASSUME NEW ref \in BOOLEAN, ObserveTerminal(s, ref) \/ CloseTerminal(s, ref)
      PROVE  TerminalInv'
  BY <1>2, <1>5 DEF ObserveTerminal, CloseTerminal
<1>6. ASSUME NEW ref \in BOOLEAN, TerminalCommand(s, ref) \/ SendControl(s, ref)
      PROVE  TerminalInv'
  <2>1. PICK kind \in Inputs : BeginOn("send", s, ref, kind) /\ MaySend
    BY <1>6 DEF TerminalCommand, SendControl
  <2> QED
    BY <1>0, <1>3, <2>1
<1>7. ASSUME NEW ref \in BOOLEAN, RequestHumanInput(s, ref)
      PROVE  TerminalInv'
  <2>1. PICK kind \in Inputs : /\ kind \in {"plain", "typed"} /\ MaySend
                               /\ BeginOn("request_human_terminal_input", s, ref, kind)
    BY <1>7 DEF RequestHumanInput
  <2> QED
    BY <1>0, <1>3, <2>1
<1> QED
  BY <1>1, <1>4, <1>5, <1>6, <1>7 DEF TermBegins

(* Every step of the terminal tools and of the runtime.                     *)
LEMMA TermStepKeeps ==
    ASSUME TerminalInv, TermRuntimeStep \/ TermCallStep \/ \E s \in Session : TermBegins(s)
    PROVE  TerminalInv'
<1>1. CASE TermRuntimeStep
  BY <1>1, ShellPrintsKeeps, SessionEndsKeeps, TermThreadKeeps DEF TermRuntimeStep
<1>2. CASE TermCallStep
  BY <1>2, OpenReturnsKeeps, SessionReadKeeps, HumanAnswersKeeps, ThreadRunsKeeps, WriteReturnsKeeps,
     CloseReturnsKeeps, ReadFramesKeeps, ReadTailKeeps, PolledKeeps, TermCallCutKeeps DEF TermCallStep
<1>3. ASSUME NEW s \in Session, TermBegins(s)
      PROVE  TerminalInv'
  BY <1>3, TermBeginsKeeps
<1> QED
  BY <1>1, <1>2, <1>3

(* A step that leaves the terminals and their tools alone.                  *)
LEMMA TermStutterKeeps ==
    ASSUME TerminalInv, UNCHANGED terminalVars
    PROVE  TerminalInv'
<1>0. TermHarnessUnchanged /\ TermRuntimeUnchanged /\ scall' = scall
  BY DEF terminalVars, runtimeSessions, sessionContext, sessionState, terminalHistory,
         TermHarnessUnchanged, TermRuntimeUnchanged
<1>1. disturbed' = disturbed /\ told' = told /\ active_session_id' = active_session_id
  BY <1>0, HarnessSight
<1>2. /\ TermGrows /\ FramesGrow /\ EchoesOnce' /\ ThreadsFit' /\ \A r \in told' : term'[r] # "absent"
  BY <1>0, <1>1, RuntimeFits
<1>3. term' = term /\ frames' = frames /\ inputs' = inputs /\ sthreads' = sthreads
  BY <1>0 DEF TermRuntimeUnchanged
<1>4. Sight'
  BY <1>0, <1>2, HarnessSight, SightKept
<1>5. TerminalTypeOK'
  BY <1>0, <1>3, HarnessTypes, TermFacts
<1>6. CallsFit'
  BY <1>0, <1>1, <1>3 DEF TerminalInv, CallsFit
<1>7. InputsFit'
  BY <1>0, <1>3 DEF TerminalInv, InputsFit, Sending, Writing
<1>8. SessionsAreListed'
  BY <1>0, <1>2, HarnessSight, ListedStay
<1>9. RootIsKnown'
  BY <1>0, <1>3, HarnessSight DEF TerminalInv, RootIsKnown
<1> QED
  BY <1>2, <1>4, <1>5, <1>6, <1>7, <1>8, <1>9, TermInvOf

(* A disturbance is not forgotten.                                          *)
LEMMA DisturbedStay ==
    ASSUME TerminalInv, TermRuntimeStep \/ TermCallStep \/ \E s \in Session : TermBegins(s)
    PROVE  disturbed \subseteq disturbed'
<1>1. CASE TermRuntimeStep
  BY <1>1 DEF TermRuntimeStep, ShellPrints, SessionEnds, TermThreadGoesOn, terminalHistory
<1>2. CASE OpenReturns \/ CloseReturns
  BY <1>2 DEF OpenReturns, CloseReturns, Refocused
<1>3. CASE SessionRead
  <2>1. Applied(scall.session, Activates)
    BY <1>3, SessionReadEffect
  <2> QED
    BY <2>1 DEF Applied, Refocused, terminalHistory
<1>4. CASE HumanAnswers \/ ReadFrames \/ ReadTail
  BY <1>4 DEF HumanAnswers, ReadFrames, ReadTail, terminalHistory
<1>5. CASE ThreadRuns \/ WriteReturns
  BY <1>5 DEF ThreadRuns, WriteReturns, terminalHistory
<1>6. CASE Polled
  BY <1>6, PolledEffect
<1>7. CASE TermCallCut
  BY <1>7 DEF TermCallCut
<1>8. ASSUME NEW s \in Session, TermBegins(s)
      PROVE  disturbed \subseteq disturbed'
  <2>1. disturbed' = disturbed
    BY <1>8 DEF TermBegins, BeginOpen, Inspect, Activate, ObserveTerminal, CloseTerminal,
       TerminalCommand, SendControl, RequestHumanInput, BeginOn, Begin, terminalHistory
  <2> QED
    BY <2>1
<1> QED
  BY <1>1, <1>2, <1>3, <1>4, <1>5, <1>6, <1>7, <1>8 DEF TermCallStep

(* Without a call only the runtime moves.                                   *)
LEMMA TermAtRest ==
    ASSUME scall = NoTermCall, TermRuntimeStep \/ TermCallStep
    PROVE  owed' = owed /\ scall' = scall
<1>1. scall.pc = "idle"
  BY NoTermFields
<1>2. CASE TermRuntimeStep
  BY <1>2 DEF TermRuntimeStep, ShellPrints, SessionEnds, TermThreadGoesOn, terminalHistory
<1>3. ~TermCallStep
  BY <1>1 DEF TermCallStep, OpenReturns, SessionRead, HumanAnswers, ThreadRuns, WriteReturns,
     CloseReturns, ReadFrames, ReadTail, Polled, TermCallCut
<1> QED
  BY <1>2, <1>3

-----------------------------------------------------------------------------
(* The tools together, and the conversation.                               *)

(* Without a call only the runtime moves.                                   *)
LEMMA TaskAtRest ==
    ASSUME tcall = NoTaskCall, TaskRuntimeStep \/ TaskCallStep
    PROVE  tcall' = tcall
<1>1. tcall.pc = "idle"
  BY CallFields
<1>2. CASE TaskRuntimeStep
  BY <1>2 DEF TaskRuntimeStep, JobPrints, JobEnds, JobRecorded, JobReleased, ThreadGoesOn
<1>3. ~TaskCallStep
  BY <1>1 DEF TaskCallStep, Launch, LaunchReturns, ReadTask, ReadLogs, ObserveReturns,
     CancelRuns, CancelReturns, TaskCallCut
<1> QED
  BY <1>2, <1>3

(* What a step of the task tools is, and one of the terminal tools.         *)
TaskBegins ==
    \E t \in Task : \/ \E waits \in BOOLEAN : StartTask(t, waits)
                    \/ \E ref \in {None, t} : BeginObserve(ref, t) \/ BeginCancel(ref, t)
LEMMA TaskSteps ==
    ASSUME TaskInv, TaskRuntimeStep \/ TaskCallStep \/ TaskBegins
    PROVE  TaskInv'
<1>1. TaskNext(TRUE)
  BY Zenon DEF TaskNext, TaskBegins
<1> QED
  BY <1>1, TaskNextKeeps

(* At the start there is no work.                                           *)
LEMMA WorkStarts ==
    ASSUME WorkInit
    PROVE  WorkInv
<1>1. TaskInv /\ TerminalInv
  BY TaskInitInv, TerminalInitInv DEF WorkInit
<1>2. answered = FALSE /\ deserted = {}
  BY DEF WorkInit
<1> QED
  BY <1>1, <1>2 DEF WorkInv, NoShellDeserted, AnswerIsBacked

(* The parts of the work invariant.                                         *)
LEMMA WorkParts ==
    ASSUME WorkInv
    PROVE  /\ TaskInv /\ TerminalInv /\ deserted \subseteq disturbed /\ deserted \subseteq Session
           /\ answered \in BOOLEAN
           /\ answered => owed = 0 /\ tcall = NoTaskCall /\ scall = NoTermCall
  BY DEF WorkInv, NoShellDeserted, AnswerIsBacked

(* The parts together.                                                      *)
LEMMA WorkInvOf ==
    ASSUME TaskInv', TerminalInv', deserted' \subseteq disturbed', deserted' \subseteq Session,
           answered' \in BOOLEAN,
           answered' => owed' = 0 /\ tcall' = NoTaskCall /\ scall' = NoTermCall
    PROVE  WorkInv'
<1>1. LastCodeIsOfJob' /\ ReturnedIsListed'
  BY DEF TaskInv
<1>2. AnswerIsBacked'
  BY <1>1 DEF AnswerIsBacked, LastCodeIsOfJob, ReturnedIsListed, Inventory
<1> QED
  BY <1>2 DEF WorkInv, NoShellDeserted

(* What both kinds of tools leave alone.                                    *)
LEMMA TaskToolsKeep ==
    ASSUME WorkInv, TaskNext(Idle), UNCHANGED <<terminalVars, answered, deserted>>
    PROVE  WorkInv'
<1>1. /\ TaskInv /\ TerminalInv /\ deserted \subseteq disturbed /\ deserted \subseteq Session
      /\ answered \in BOOLEAN
      /\ answered => owed = 0 /\ tcall = NoTaskCall /\ scall = NoTermCall
  BY WorkParts
<1>2. /\ UNCHANGED terminalVars /\ answered' = answered /\ deserted' = deserted
      /\ disturbed' = disturbed /\ owed' = owed /\ scall' = scall
  BY DEF terminalVars, terminalHistory
<1>3. TaskRuntimeStep \/ TaskCallStep \/ (Idle /\ TaskBegins)
  BY Zenon DEF TaskNext, TaskBegins
<1>4. TaskInv'
  BY <1>1, <1>3, TaskSteps
<1>5. TerminalInv'
  BY <1>1, <1>2, TermStutterKeeps
<1>6. answered => tcall' = NoTaskCall
  <2>1. answered => TaskRuntimeStep \/ TaskCallStep
    BY <1>3 DEF Idle
  <2> QED
    BY <1>1, <2>1, TaskAtRest
<1> QED
  BY <1>1, <1>2, <1>4, <1>5, <1>6, WorkInvOf

(* A step of the terminal tools leaves the tasks alone.                     *)
LEMMA TerminalToolsKeep ==
    ASSUME WorkInv, TerminalNext(Idle), UNCHANGED <<taskVars, answered, deserted>>
    PROVE  WorkInv'
<1>1. /\ TaskInv /\ TerminalInv /\ deserted \subseteq disturbed /\ deserted \subseteq Session
      /\ answered \in BOOLEAN
      /\ answered => owed = 0 /\ tcall = NoTaskCall /\ scall = NoTermCall
  BY WorkParts
<1>2. /\ UNCHANGED taskVars /\ answered' = answered /\ deserted' = deserted /\ tcall' = tcall
  BY DEF taskVars
<1>3. TermRuntimeStep \/ TermCallStep \/ (Idle /\ \E s \in Session : TermBegins(s))
  BY Zenon DEF TerminalNext, TermBegins
<1>4. TerminalInv' /\ disturbed \subseteq disturbed'
  BY <1>1, <1>3, TermStepKeeps, DisturbedStay
<1>5. TaskInv'
  BY <1>1, <1>2, TaskStutterKeeps
<1>6. answered => owed' = 0 /\ scall' = NoTermCall
  <2>1. answered => TermRuntimeStep \/ TermCallStep
    BY <1>3 DEF Idle
  <2> QED
    BY <1>1, <2>1, TermAtRest
<1>7. deserted' \subseteq disturbed'
  BY <1>1, <1>2, <1>4
<1> QED
  BY <1>1, <1>2, <1>4, <1>5, <1>6, <1>7, WorkInvOf

(* A command starts beside the terminals: the guard saw every root shell    *)
(* that nothing disturbed.                                                  *)
LEMMA RunCommandKeeps ==
    ASSUME WorkInv, NEW t \in Task, NEW waits \in BOOLEAN, NEW force_clean \in BOOLEAN,
           NEW target \in {"session", "other"}, RunCommand(t, waits, target, force_clean)
    PROVE  WorkInv'
<1>1. /\ TaskInv /\ TerminalInv /\ deserted \subseteq disturbed /\ deserted \subseteq Session
  BY WorkParts
<1>2. /\ Idle /\ (force_clean \/ ~LeavesSilently(target)) /\ BeginStart("run_command", t, waits)
      /\ deserted' = IF force_clean \/ target # "session" THEN deserted
                     ELSE deserted \cup ({active_session_id} \cap told)
      /\ UNCHANGED terminalVars /\ answered' = answered
  BY DEF RunCommand
<1>3. disturbed' = disturbed
  BY <1>2 DEF terminalVars, terminalHistory
<1>4. TaskInv'
  <2>1. PICK tool \in {"run_command", "start_task"} : tool = "run_command"
    OBVIOUS
  <2>2. BeginStart(tool, t, waits)
    BY <1>2, <2>1
  <2> QED
    BY <1>1, <2>2, BeginStartKeeps
<1>5. TerminalInv'
  BY <1>1, <1>2, TermStutterKeeps
<1>6. answered' \in BOOLEAN /\ ~answered'
  <2>1. answered \in BOOLEAN
    BY WorkParts
  <2> QED
    BY <1>2, <2>1 DEF Idle
<1>7. deserted' \subseteq disturbed' /\ deserted' \subseteq Session
  <2>1. CASE force_clean \/ target # "session"
    BY <1>1, <1>2, <1>3, <2>1
  <2>2. CASE ~force_clean /\ target = "session"
    <3>1. ASSUME active_session_id \in told
          PROVE  active_session_id \in disturbed /\ active_session_id \in Session
      <4>1. active_session_id \in Session
        BY <1>1, <3>1, TermFacts
      <4>2. active_session_id # NoSession
        BY <4>1, NoneIsNoSession
      <4>3. ~Cautious
        BY <1>2, <2>2, <4>2 DEF LeavesSilently, Cautious
      <4> QED
        BY <1>1, <3>1, <4>1, <4>3 DEF TerminalInv, RootIsKnown
    <3> QED
      BY <1>1, <1>2, <1>3, <2>2, <3>1
  <2> QED
    BY <2>1, <2>2
<1> QED
  BY <1>4, <1>5, <1>6, <1>7, WorkInvOf

(* An answer is accepted, and the next turn begins.                         *)
LEMMA AnswerKeeps ==
    ASSUME WorkInv, FinalAccepted \/ NextTurn
    PROVE  WorkInv'
<1>1. /\ TaskInv /\ TerminalInv /\ deserted \subseteq disturbed /\ deserted \subseteq Session
  BY WorkParts
<1>2. UNCHANGED taskVars /\ UNCHANGED terminalVars /\ deserted' = deserted
  BY DEF FinalAccepted, NextTurn
<1>3. disturbed' = disturbed /\ owed' = owed /\ scall' = scall /\ tcall' = tcall
  BY <1>2 DEF taskVars, terminalVars, terminalHistory
<1>4. TaskInv' /\ TerminalInv'
  BY <1>1, <1>2, TaskStutterKeeps, TermStutterKeeps
<1>5. answered' \in BOOLEAN
  BY DEF FinalAccepted, NextTurn
<1>6. ASSUME FinalAccepted
      PROVE  owed' = 0 /\ tcall' = NoTaskCall /\ scall' = NoTermCall
  <2>1. /\ tcall = NoTaskCall /\ scall = NoTermCall
        /\ ~(terminal_input_pending /\ active_session_id # NoSession)
    BY <1>6 DEF FinalAccepted, Idle, Refused
  <2>2. owed = 0
    BY <1>1, <2>1 DEF TerminalInv, OwedIsPending
  <2> QED
    BY <1>3, <2>1, <2>2
<1>7. NextTurn => ~answered'
  BY DEF NextTurn
<1> QED
  BY <1>1, <1>2, <1>3, <1>4, <1>5, <1>6, <1>7, WorkInvOf

(* Every step of the tools.                                                 *)
LEMMA WorkSteps ==
    ASSUME WorkInv, [WorkNext]_workVars
    PROVE  WorkInv'
<1>1. CASE TaskNext(Idle) /\ UNCHANGED <<terminalVars, answered, deserted>>
  BY <1>1, TaskToolsKeep
<1>2. CASE TerminalNext(Idle) /\ UNCHANGED <<taskVars, answered, deserted>>
  BY <1>2, TerminalToolsKeep
<1>3. CASE \E t \in Task, waits, force_clean \in BOOLEAN, target \in {"session", "other"} :
              RunCommand(t, waits, target, force_clean)
  BY <1>3, RunCommandKeeps
<1>4. CASE FinalAccepted \/ NextTurn
  BY <1>4, AnswerKeeps
<1>5. CASE UNCHANGED workVars
  <2>1. /\ TaskInv /\ TerminalInv /\ deserted \subseteq disturbed /\ deserted \subseteq Session
        /\ answered \in BOOLEAN
        /\ answered => owed = 0 /\ tcall = NoTaskCall /\ scall = NoTermCall
    BY WorkParts
  <2>2. UNCHANGED taskVars /\ UNCHANGED terminalVars /\ deserted' = deserted /\ answered' = answered
    BY <1>5 DEF workVars
  <2>3. disturbed' = disturbed /\ owed' = owed /\ scall' = scall /\ tcall' = tcall
    BY <2>2 DEF taskVars, terminalVars, terminalHistory
  <2>4. TaskInv' /\ TerminalInv'
    BY <2>1, <2>2, TaskStutterKeeps, TermStutterKeeps
  <2> QED
    BY <2>1, <2>2, <2>3, <2>4, WorkInvOf
<1> QED
  BY <1>1, <1>2, <1>3, <1>4, <1>5, Zenon DEF WorkNext

-----------------------------------------------------------------------------
(* The inductive invariant of the tools holds in every conversation.        *)
THEOREM WorkInvariant == WorkSpec => []WorkInv
<1>1. WorkInit => WorkInv
  BY WorkStarts
<1>2. WorkInv /\ [WorkNext]_workVars => WorkInv'
  BY WorkSteps
<1> QED
  BY <1>1, <1>2, PTL DEF WorkSpec

(* A conversation is one of the tools and one of the messages.              *)
LEMMA ConversationIsBoth == ConversationSpec => WorkSpec /\ ContextSpec
<1>1. ConversationInit => WorkInit /\ ContextInit
  BY DEF ConversationInit
<1>2. [ToolsStep \/ MessagesStep]_conversationVars => [WorkNext]_workVars /\ [ContextNext]_contextVars
  BY DEF ToolsStep, MessagesStep, conversationVars
<1> QED
  BY <1>1, <1>2, PTL DEF ConversationSpec, WorkSpec, ContextSpec

(* What the tools and the context keep in memory has its type.              *)
THEOREM WorkTypes == ConversationSpec => []WorkTypeOK
<1>1. WorkInv /\ ContextInv => WorkTypeOK
  BY DEF WorkInv, TaskInv, TerminalInv, ContextInv, WorkTypeOK
<1> QED
  BY <1>1, ConversationIsBoth, WorkInvariant, ContextInvariant, PTL

(* An outcome or exit code in the inventory is how the command ended, a     *)
(* terminal called ended has ended, and no task or terminal that a call     *)
(* returned is left out.                                                    *)
THEOREM InventoryTrue == ConversationSpec => []InventoryIsTrue
<1>1. WorkInv => InventoryIsTrue
  BY DEF WorkInv, TaskInv, TerminalInv, InventoryIsTrue
<1> QED
  BY <1>1, ConversationIsBoth, WorkInvariant, PTL

(* The observations of a task that prints on one stream and of terminals    *)
(* return what was printed once, in order and completely, but for another   *)
(* task's cursor, a call that was cut, a result marked truncated and the    *)
(* race between the two requests of a poll.                                 *)
THEOREM OutputReturned == ConversationSpec => []OutputIsReturned
<1>1. ASSUME WorkInv
      PROVE  OutputIsReturned
  <2>1. TaskInv /\ TerminalInv
    BY <1>1, WorkParts
  <2>2. OutputIsWhole
    BY <2>1 DEF TaskInv
  <2>3. ShownInOrder
    BY <2>1 DEF TerminalInv, CursorFollowsView, Increasing, ShownInOrder
  <2>4. SkippedHasCause
    <3>1. scall = NoTermCall => view \o scall.got = view
      <4>1. view \in Seq(Nat \ {0})
        BY <2>1, TermFacts
      <4> QED
        BY <4>1, NoTermFields
    <3> QED
      BY <2>1, <3>1 DEF TerminalInv, CursorFollowsView, SkippedHasCause
  <2> QED
    BY <2>2, <2>3, <2>4 DEF OutputIsReturned
<1> QED
  BY <1>1, ConversationIsBoth, WorkInvariant, PTL

(* run_command never leaves a root shell that the context was told of and   *)
(* that the focus was on all the time, unless force_clean was asked for.    *)
THEOREM ShellsKept == ConversationSpec => []NoShellDeserted
<1>1. WorkInv => NoShellDeserted
  BY DEF WorkInv
<1> QED
  BY <1>1, ConversationIsBoth, WorkInvariant, PTL

(* validate_final accepts no answer while the last submission of the active *)
(* terminal is unanswered and nothing was sent or activated since; the exit *)
(* code it relies on is how the task last started or observed ended; and    *)
(* every task a call returned is in the inventory.                          *)
THEOREM AnswersBacked == ConversationSpec => []AnswerIsBacked
<1>1. WorkInv => AnswerIsBacked
  BY DEF WorkInv
<1> QED
  BY <1>1, ConversationIsBoth, WorkInvariant, PTL

(* The prompt leaves out nothing but what a summary tells, or a bounded     *)
(* number of results.                                                       *)
THEOREM PromptWhole == ConversationSpec => []PromptIsWhole
<1>1. ContextInv => PromptIsWhole
  BY DEF ContextInv
<1> QED
  BY <1>1, ConversationIsBoth, ContextInvariant, PTL

(* The prompt shows an answer beside the task it answers.                   *)
THEOREM AnswersPaired == ConversationSpec => []AnswersArePaired
<1>1. ContextInv => AnswersArePaired
  BY DEF ContextInv
<1> QED
  BY <1>1, ConversationIsBoth, ContextInvariant, PTL

(* The artifact a tool turn names holds the result of that turn.            *)
THEOREM ArtifactKept == ConversationSpec => []ArtifactIsKept
<1>1. ContextInv => ArtifactIsKept
  BY DEF ContextInv
<1> QED
  BY <1>1, ConversationIsBoth, ContextInvariant, PTL

=============================================================================
