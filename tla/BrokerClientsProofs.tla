------------------------- MODULE BrokerClientsProofs --------------------------
(***************************************************************************)
(* Proofs about BrokerClients, the composition of the tmux installation,   *)
(* the writer leases and inputs, and the remote connections behind one     *)
(* broker that may be restarted: for every set of calls, owners, requests, *)
(* attempts, conversations, endpoints and environments and any number of   *)
(* faults.                                                                 *)
(*                                                                         *)
(* The three components share no variable and meet in the restart and the  *)
(* probe of a connection only, so each has an inductive invariant of its   *)
(* own - InstallInv, LeaseInv with InputInv, ConnectInv - proved against   *)
(* its own steps and its part of those two.  They are put together at the  *)
(* end.                                                                    *)
(***************************************************************************)
EXTENDS BrokerClients, FiniteSetTheorems, SequenceTheorems, WellFoundedInduction, TLAPS

-----------------------------------------------------------------------------
(***************************************************************************)
(* The installation. What the tool has read of its terminal is a prefix of *)
(* what was shown, so that the prompts it has answered are prompts of      *)
(* sudo.                                                                   *)
(***************************************************************************)

(* What PromptsIn counts is finite, and grows with what it counts in.       *)
LEMMA CountType ==
    ASSUME NEW s, NEW n \in Nat
    PROVE  /\ IsFiniteSet({i \in 1..n : s[i] = "PROMPT"})
           /\ Cardinality({i \in 1..n : s[i] = "PROMPT"}) \in Nat
<1>1. IsFiniteSet(1..n)
  BY FS_Interval
<1>2. {i \in 1..n : s[i] = "PROMPT"} \in SUBSET (1..n)
  OBVIOUS
<1> QED
  BY <1>1, <1>2, FS_Subset, FS_CardinalityType

(* Frames that stay where they are are counted alike.                       *)
LEMMA CountGrows ==
    ASSUME NEW s, NEW t, NEW m \in Nat, NEW n \in Nat, m <= n,
           \A i \in 1..m : s[i] = t[i]
    PROVE  /\ Cardinality({i \in 1..m : s[i] = "PROMPT"})
                 <= Cardinality({i \in 1..n : t[i] = "PROMPT"})
           /\ (\E i \in m+1..n : t[i] = "PROMPT") =>
                 Cardinality({i \in 1..m : s[i] = "PROMPT"}) + 1
                    <= Cardinality({i \in 1..n : t[i] = "PROMPT"})
<1> DEFINE S == {i \in 1..m : s[i] = "PROMPT"}
           T == {i \in 1..n : t[i] = "PROMPT"}
<1>1. IsFiniteSet(T) /\ Cardinality(S) \in Nat /\ Cardinality(T) \in Nat
  BY CountType
<1>2. S \in SUBSET T
  OBVIOUS
<1>3. Cardinality(S) <= Cardinality(T) /\ (Cardinality(S) = Cardinality(T) => S = T)
  BY <1>1, <1>2, FS_Subset, Zenon
<1>4. (\E i \in m+1..n : t[i] = "PROMPT") => S # T
  OBVIOUS
<1> HIDE DEF S, T
<1>5. (\E i \in m+1..n : t[i] = "PROMPT") => Cardinality(S) + 1 <= Cardinality(T)
  BY <1>1, <1>3, <1>4
<1> QED
  BY <1>3, <1>5 DEF S, T

(* Appending shows more frames and changes none.                            *)
LEMMA AppendFrames ==
    ASSUME NEW s \in Seq(Marker), NEW t \in Seq(Marker)
    PROVE  /\ s \o t \in Seq(Marker) /\ Len(s \o t) = Len(s) + Len(t)
           /\ \A i \in 1..Len(s) : (s \o t)[i] = s[i]
           /\ Markers(s \o t) = Markers(s) \cup Markers(t)
<1>1. s \o t \in Seq(Marker) /\ Len(s \o t) = Len(s) + Len(t)
  OBVIOUS
<1>2. \A i \in 1..Len(s) + Len(t) :
         (s \o t)[i] = IF i <= Len(s) THEN s[i] ELSE t[i - Len(s)]
  BY ConcatProperties
<1>3. DOMAIN (s \o t) = 1..Len(s) + Len(t) /\ DOMAIN s = 1..Len(s) /\ DOMAIN t = 1..Len(t)
  BY <1>1, LenProperties
<1>4. ASSUME NEW x PROVE x \in Markers(s \o t) <=> x \in Markers(s) \cup Markers(t)
  <2>1. ASSUME NEW i \in 1..Len(t) PROVE Len(s) + i \in 1..Len(s) + Len(t) /\ (s \o t)[Len(s) + i] = t[i]
    BY <1>2
  <2>2. ASSUME NEW i \in 1..Len(s) PROVE i \in 1..Len(s) + Len(t) /\ (s \o t)[i] = s[i]
    BY <1>2
  <2>3. ASSUME NEW i \in 1..Len(s) + Len(t), i > Len(s)
        PROVE  i - Len(s) \in 1..Len(t) /\ (s \o t)[i] = t[i - Len(s)]
    BY <1>2, <2>3
  <2>4. ASSUME x \in Markers(s \o t) PROVE x \in Markers(s) \cup Markers(t)
    <3>1. PICK i \in 1..Len(s) + Len(t) : x = (s \o t)[i]
      BY <1>3, <2>4 DEF Markers
    <3>2. CASE i <= Len(s)
      BY <1>3, <2>2, <3>1, <3>2 DEF Markers
    <3>3. CASE i > Len(s)
      BY <1>3, <2>3, <3>1, <3>3 DEF Markers
    <3> QED
      BY <3>2, <3>3
  <2>5. ASSUME x \in Markers(s) PROVE x \in Markers(s \o t)
    BY <1>3, <2>2, <2>5 DEF Markers
  <2>6. ASSUME x \in Markers(t) PROVE x \in Markers(s \o t)
    BY <1>3, <2>1, <2>6 DEF Markers
  <2> QED
    BY <2>4, <2>5, <2>6
<1> QED
  BY <1>1, <1>2, <1>4

(* The new frames are those past the cursor.                                *)
LEMMA NewFrames ==
    ASSUME InstallTypeOK
    PROVE  /\ \A x \in Markers(New) : \E i \in tool.cursor + 1 .. Len(frames) : frames[i] = x
           /\ Markers(New) \subseteq Markers(frames)
           /\ Markers(frames) \subseteq Marker
<1> DEFINE m == tool.cursor + 1
           n == Len(frames)
<1>1. frames \in Seq(Marker) /\ m \in 1..n+1 /\ n \in Nat /\ tool.cursor \in 0..n
  BY DEF InstallTypeOK, Tools
<1>2. \A i \in m..n : frames[i] \in Marker
  BY <1>1
<1>3. /\ SubSeq(frames, m, n) \in Seq(Marker)
      /\ Len(SubSeq(frames, m, n)) = IF m <= n THEN n - m + 1 ELSE 0
      /\ \A i \in 1 .. n - m + 1 : SubSeq(frames, m, n)[i] = frames[m + i - 1]
  BY <1>1, <1>2, SubSeqProperties, SMTT(60)
<1> DEFINE t == SubSeq(frames, m, n)
<1>4. DOMAIN t = 1..Len(t) /\ DOMAIN frames = 1..n
  BY <1>1, <1>3, LenProperties
<1>5. ASSUME NEW x \in Markers(t) PROVE \E i \in m..n : frames[i] = x
  <2>1. PICK i \in 1..Len(t) : t[i] = x
    BY <1>4 DEF Markers
  <2>2. i \in 1 .. n - m + 1
    BY <1>1, <1>3, <2>1
  <2>3. frames[m + i - 1] = x
    BY <1>3, <2>1, <2>2
  <2>4. m + i - 1 \in m..n
    BY <1>1, <2>2
  <2> QED
    BY <2>3, <2>4
<1>6. Markers(frames) \subseteq Marker /\ \A i \in m..n : frames[i] \in Markers(frames)
  BY <1>1, <1>4, SMTT(60) DEF Markers
<1> QED
  BY <1>5, <1>6 DEF New
(* What the command or the broker adds to the terminal.                     *)
LEMMA ShowsFrames ==
    ASSUME InstallTypeOK, NEW ms \in Seq(Marker), Shows(ms)
    PROVE  /\ frames' \in Seq(Marker) /\ Len(frames') <= MaxFrames
           /\ Len(frames') \in Nat /\ Len(frames) \in Nat /\ Len(frames) <= Len(frames')
           /\ 0..Len(frames) \subseteq 0..Len(frames')
           /\ \A i \in 1..Len(frames) : frames'[i] = frames[i]
           /\ Markers(frames') = Markers(frames) \cup Markers(ms)
<1>1. frames \in Seq(Marker) /\ frames' = frames \o ms
  BY DEF InstallTypeOK, Shows
<1>2. Len(frames) \in Nat /\ Len(ms) \in Nat
  BY <1>1, LenProperties
<1> QED
  BY <1>1, <1>2, AppendFrames DEF Shows

(* The rows a process of the installer starts with are well-typed.          *)
LEMMA NewTool ==
    ASSUME NEW n \in Nat, NEW pc \in ToolPc
    PROVE  /\ \A k \in 0..n : [NoTool EXCEPT !.pc = pc, !.cursor = k] \in Tools(n)
           /\ [NoTool EXCEPT !.pc = pc] \in Tools(n) /\ NoTool \in Tools(n)
<1>1. 0 \in 0..n /\ 0 \in 0..MaxPasswordAttempts /\ "idle" \in ToolPc
  BY InstallAssumption DEF ToolPc
<1>2. {} \in SUBSET Marker
  OBVIOUS
<1> QED
  BY <1>1, <1>2 DEF Tools, NoTool

(* What is left behind is a set of rows.                                    *)
LEMMA LeftRows ==
    ASSUME InstallTypeOK, NEW why \in {"cut", "close"}, NEW state
    PROVE  Left(why, state) \subseteq LeftRow
<1>1. ComesToInstall(state) \in BOOLEAN
  BY Zenon DEF ComesToInstall
<1> QED
  BY <1>1 DEF Left, LeftRow, InstallTypeOK

(* Every step of the installation keeps its types.                          *)
LEMMA InstallTypeStep ==
    ASSUME InstallInv, InstallNext
    PROVE  InstallTypeOK'
<1> USE InstallAssumption DEF InstallInv, InstallTypeOK
<1>0. Len(frames) \in Nat
  BY LenProperties
<1>e. <<>> \in Seq(Marker) /\ <<>> \in Seq(BOOLEAN) /\ Len(<<>>) = 0
  BY EmptySeq, Zenon
<1>1. CASE EnsureTool
  <2>1. tool' \in Tools(0)
    BY <1>1, NewTool DEF EnsureTool, ToolPc
  <2>2. Len(frames') = 0 /\ frames' \in Seq(Marker) /\ typed' \in Seq(BOOLEAN)
    BY <1>1, <1>e DEF EnsureTool
  <2>3. installs' \in 0..MaxInstalls
    BY <1>1 DEF EnsureTool
  <2>4. tool' \in Tools(Len(frames')) /\ Len(frames') <= MaxFrames
    BY <2>1, <2>2
  <2>5. /\ UNCHANGED <<present, privilege, program, left, status>>
        /\ asked' \in Nat /\ wrong' \in Nat /\ stale' \in BOOLEAN
    BY <1>1 DEF EnsureTool, host
  <2> QED
    BY <2>2, <2>3, <2>4, <2>5
<1>2. CASE OpenTerminal
  BY <1>2 DEF OpenTerminal, host, Tools, ToolPc
<1>3. CASE Observe
  <2>1. ObservedText \subseteq Marker
    BY NewFrames DEF ObservedText
  <2>2. Len(frames) \in 0..Len(frames)
    BY <1>0
  <2>3. "FAILED" \in Marker
    BY DEF Marker
  <2> QED
    BY <1>3, <2>1, <2>2, <2>3 DEF Observe, host, Tools, ToolPc
<1>4. CASE NobodyToAsk
  <2>1. "FAILED" \in Marker
    BY DEF Marker
  <2> QED
    BY <1>4, <2>1 DEF NobodyToAsk, host, Tools, ToolPc
<1>5. CASE InstallCut
  <2>1. tool' \in Tools(Len(frames))
    <3>1. tool.cursor \in 0..Len(frames) /\ CutTo \in ToolPc
      BY DEF CutTo, ToolPc, Tools
    <3> QED
      BY <1>0, <1>5, <3>1, NewTool DEF InstallCut
  <2>2. left' \subseteq LeftRow
    <3>1. Left("cut", "starts") \subseteq LeftRow
      BY LeftRows
    <3> QED
      BY <1>5, <3>1 DEF InstallCut
  <2>3. present' \in BOOLEAN
    BY <1>5 DEF InstallCut
  <2> QED
    BY <1>5, <2>1, <2>2, <2>3 DEF InstallCut
<1>6. ASSUME NEW works \in BOOLEAN, Close(works) PROVE InstallTypeOK'
  <2>1. present' \in BOOLEAN
    BY <1>6 DEF Close
  <2>2. left' \subseteq LeftRow
    <3>1. Left("close", program) \subseteq LeftRow
      BY LeftRows
    <3> QED
      BY <1>6, <3>1 DEF Close
  <2>3. tool' \in Tools(Len(frames))
    BY <1>0, <1>6 DEF Close, NoTool, Tools, ToolPc
  <2> QED
    BY <1>6, <2>1, <2>2, <2>3 DEF Close
<1>7. CASE Record
  BY <1>7, <1>e DEF Record, NoTool, host, Status, Tools, ToolPc
<1>8. ASSUME NEW yes \in BOOLEAN, Automatic(yes) PROVE InstallTypeOK'
  <2>1. present' \in BOOLEAN
    BY <1>8 DEF Automatic
  <2>2. \A seen \in Prints(yes) : seen \subseteq Marker
    BY DEF Prints, Marker
  <2> QED
    BY <1>8, <2>1, <2>2 DEF Automatic, Tools, ToolPc
<1>9. ASSUME NEW yes \in BOOLEAN, Ask(yes) PROVE InstallTypeOK'
  <2>1. <<"REDACTED">> \in Seq(Marker)
    BY DEF Marker
  <2>2. typed' \in Seq(BOOLEAN)
    <3>1. Append(typed, yes) \in Seq(BOOLEAN)
      BY <1>9, AppendProperties, Zenon
    <3> QED
      BY <1>9, <3>1 DEF Ask
  <2>3. tool.attempts + 1 \in 0..MaxPasswordAttempts
    BY <1>9 DEF Ask, AskedIsPrompted, MayAsk, Tools
  <2>4. tool' \in Tools(Len(frames'))
    BY <1>9, <2>1, <2>3, ShowsFrames DEF Ask, Tools, ToolPc
  <2>5. /\ UNCHANGED <<present, privilege, program, wrong, left, status, installs, stale>>
        /\ asked' \in Nat
    BY <1>9 DEF Ask, host
  <2> QED
    BY <1>9, <2>1, <2>2, <2>4, <2>5, ShowsFrames DEF Ask
<1>10. ASSUME NEW late \in BOOLEAN, Decide(late) PROVE InstallTypeOK'
  <2>1. "FAILED" \in Marker
    BY DEF Marker
  <2> QED
    BY <1>10, <2>1 DEF Decide, host, Tools, ToolPc
<1>11. ASSUME NEW works \in BOOLEAN, Installs(works) PROVE InstallTypeOK'
  <2>1. <<IF works THEN "INSTALLED" ELSE "FAILED">> \in Seq(Marker)
    BY DEF Marker
  <2>2. present' \in BOOLEAN
    BY <1>11 DEF Installs
  <2>3. tool' \in Tools(Len(frames'))
    BY <1>11, <2>1, ShowsFrames DEF Installs, Tools
  <2> QED
    BY <1>11, <2>1, <2>2, <2>3, ShowsFrames DEF Installs
<1>12. ASSUME NEW answer \in {"nobody", "no", "yes"}, Elevate(answer) PROVE InstallTypeOK'
  <2>1. "FAILED" \in Marker
    BY DEF Marker
  <2> QED
    <3>1. tool' \in Tools(Len(frames))
      <4>1. [NoTool EXCEPT !.pc = "open"] \in Tools(Len(frames))
        BY <1>0, NewTool, "open" \in ToolPc DEF ToolPc
      <4> QED
        BY <1>12, <2>1, <4>1 DEF Elevate, Tools, ToolPc
    <3> QED
      BY <1>12, <3>1 DEF Elevate, host
<1>13. CASE ProgramStarts
  <2>1. PICK ms \in Seq(Marker) : Shows(ms) /\ program' \in {"ended", "installs", "asks"}
    <3>1. /\ <<"PRESENT">> \in Seq(Marker) /\ <<"MISSING", "AUTH_OK">> \in Seq(Marker)
          /\ <<"MISSING", "FAILED">> \in Seq(Marker) /\ <<"MISSING", "PROMPT">> \in Seq(Marker)
      BY DEF Marker
    <3> QED
      BY <1>13, <3>1 DEF ProgramStarts, Privilege
  <2>2. tool' \in Tools(Len(frames'))
    BY <1>13, <2>1, ShowsFrames DEF ProgramStarts, Tools
  <2> QED
    BY <1>13, <2>1, <2>2, ShowsFrames DEF ProgramStarts, host
<1>14. CASE SudoReads
  <2>1. PICK ms \in Seq(Marker) : Shows(ms) /\ program' \in {"ended", "installs", "asks"}
    <3>1. /\ <<"AUTH_OK">> \in Seq(Marker) /\ <<"SORRY", "PROMPT">> \in Seq(Marker)
          /\ <<"INCORRECT">> \in Seq(Marker)
      BY DEF Marker
    <3> QED
      BY <1>14, <3>1 DEF SudoReads
  <2>2. tool' \in Tools(Len(frames'))
    BY <1>14, <2>1, ShowsFrames DEF SudoReads, Tools
  <2>3. typed' \in Seq(BOOLEAN) /\ wrong' \in Nat
    <3>1. Tail(typed) \in Seq(BOOLEAN)
      BY <1>14, HeadTailProperties, Zenon DEF SudoReads
    <3>2. typed' \in Seq(BOOLEAN)
      BY <1>14, <3>1 DEF SudoReads
    <3>3. wrong' \in {wrong, wrong + 1}
      BY <1>14 DEF SudoReads
    <3> QED
      BY <3>2, <3>3
  <2> QED
    BY <1>14, <2>1, <2>2, <2>3, ShowsFrames DEF SudoReads, host
<1>15. CASE LeftEnds
  BY <1>15 DEF LeftEnds
<1> QED
  BY <1>1, <1>2, <1>3, <1>4, <1>5, <1>6, <1>7, <1>8, <1>9, <1>10, <1>11, <1>12, <1>13, <1>14,
     <1>15 DEF InstallNext

(* The markers of success are printed when they are true, and stay so.      *)
LEMMA SuccessStep ==
    ASSUME InstallInv, InstallNext
    PROVE  (PresentIsTrue /\ SuccessIsTrue)'
<1> DEFINE Success == {"PRESENT", "INSTALLED"}
<1> USE DEF InstallInv, PresentIsTrue, SuccessIsTrue
<1>0. present \in BOOLEAN /\ tool.seen \subseteq Marker /\ frames \in Seq(Marker)
  BY DEF InstallTypeOK, Tools
<1>1. CASE EnsureTool
  <2>1. tool'.seen = {} /\ Markers(frames') = {}
    BY <1>1 DEF EnsureTool, NoTool, Markers
  <2> QED
    BY <1>1, <2>1 DEF EnsureTool, host
<1>2. CASE OpenTerminal
  BY <1>2 DEF OpenTerminal, host, InstallTypeOK, Tools
<1>3. CASE Observe
  <2>1. ObservedText \subseteq Markers(frames)
    BY NewFrames DEF ObservedText
  <2>2. tool'.seen \subseteq tool.seen \cup ObservedText \cup {"FAILED"}
    BY <1>3 DEF Observe, InstallTypeOK, Tools
  <2> QED
    BY <1>3, <2>1, <2>2 DEF Observe, host
<1>4. CASE NobodyToAsk
  BY <1>4 DEF NobodyToAsk, host, InstallTypeOK, Tools
<1>5. CASE InstallCut
  <2>1. present => present'
    BY <1>5 DEF InstallCut
  <2>2. tool'.seen = {}
    BY <1>5 DEF InstallCut, NoTool
  <2> QED
    BY <1>5, <2>1, <2>2 DEF InstallCut
<1>6. ASSUME NEW works \in BOOLEAN, Close(works) PROVE (PresentIsTrue /\ SuccessIsTrue)'
  <2>1. present => present'
    BY <1>6 DEF Close
  <2>2. tool'.seen \subseteq tool.seen
    BY <1>6 DEF Close, NoTool, InstallTypeOK, Tools
  <2> QED
    BY <1>6, <2>1, <2>2 DEF Close
<1>7. CASE Record
  <2>1. tool'.seen = {} /\ Markers(frames') = {}
    BY <1>7 DEF Record, NoTool, Markers
  <2> QED
    BY <1>7, <2>1 DEF Record, Status, host
<1>8. ASSUME NEW yes \in BOOLEAN, Automatic(yes) PROVE (PresentIsTrue /\ SuccessIsTrue)'
  <2>1. PICK seen \in Prints(yes) :
           /\ present' \in IF yes /\ privilege \in {"root", "nopasswd"} /\ "FAILED" \notin seen
                          THEN {present, TRUE} ELSE {present}
           /\ "INSTALLED" \in seen => present'
           /\ tool' = [tool EXCEPT !.seen = seen,
                         !.pc = IF yes /\ NeedsElevation(seen) THEN "approve" ELSE "record"]
    BY <1>8 DEF Automatic
  <2>2. present => present'
    BY <2>1
  <2>3. "PRESENT" \in seen => present
    BY <2>1 DEF Prints
  <2>4. tool'.seen = seen
    BY <2>1 DEF InstallTypeOK, Tools
  <2> QED
    BY <1>8, <2>1, <2>2, <2>3, <2>4 DEF Automatic
<1>9. ASSUME NEW yes \in BOOLEAN, Ask(yes) PROVE (PresentIsTrue /\ SuccessIsTrue)'
  <2>1. <<"REDACTED">> \in Seq(Marker) /\ Markers(<<"REDACTED">>) = {"REDACTED"}
    BY DEF Marker, Markers
  <2>2. Markers(frames') = Markers(frames) \cup {"REDACTED"}
    BY <1>9, <2>1, ShowsFrames DEF Ask
  <2>3. tool'.seen = tool.seen
    BY <1>9 DEF Ask, InstallTypeOK, Tools
  <2> QED
    BY <1>9, <2>2, <2>3 DEF Ask, host
<1>10. ASSUME NEW late \in BOOLEAN, Decide(late) PROVE (PresentIsTrue /\ SuccessIsTrue)'
  <2>1. tool'.seen \subseteq tool.seen \cup {"FAILED"}
    BY <1>10 DEF Decide, InstallTypeOK, Tools
  <2> QED
    BY <1>10, <2>1 DEF Decide, host
<1>11. ASSUME NEW works \in BOOLEAN, Installs(works) PROVE (PresentIsTrue /\ SuccessIsTrue)'
  <2> DEFINE m == IF works THEN "INSTALLED" ELSE "FAILED"
  <2>1. <<m>> \in Seq(Marker) /\ Markers(<<m>>) = {m}
    BY DEF Marker, Markers
  <2>2. Markers(frames') = Markers(frames) \cup {m}
    BY <1>11, <2>1, ShowsFrames DEF Installs
  <2>3. present' = (present \/ works)
    BY <1>11 DEF Installs
  <2> QED
    BY <1>11, <2>2, <2>3 DEF Installs
<1>12. ASSUME NEW answer \in {"nobody", "no", "yes"}, Elevate(answer)
       PROVE  (PresentIsTrue /\ SuccessIsTrue)'
  <2>1. tool'.seen \subseteq tool.seen \cup {"FAILED"}
    BY <1>12 DEF Elevate, NoTool, InstallTypeOK, Tools
  <2> QED
    BY <1>12, <2>1 DEF Elevate, host
<1>13. CASE ProgramStarts
  <2>1. PICK ms \in Seq(Marker) : /\ Shows(ms)
                                  /\ Markers(ms) \cap Success # {} => present
    <3>1. /\ <<"PRESENT">> \in Seq(Marker) /\ <<"MISSING", "AUTH_OK">> \in Seq(Marker)
          /\ <<"MISSING", "FAILED">> \in Seq(Marker) /\ <<"MISSING", "PROMPT">> \in Seq(Marker)
      BY DEF Marker
    <3>2. \A a, b \in Marker : Markers(<<a, b>>) = {a, b}
      BY DEF Markers
    <3>3. /\ Markers(<<"MISSING", "AUTH_OK">>) \cap Success = {}
          /\ Markers(<<"MISSING", "FAILED">>) \cap Success = {}
          /\ Markers(<<"MISSING", "PROMPT">>) \cap Success = {}
      BY <3>2 DEF Marker
    <3> QED
      BY <1>0, <1>13, <3>1, <3>3 DEF ProgramStarts, Privilege, InstallTypeOK, Tools
  <2>2. Markers(frames') = Markers(frames) \cup Markers(ms)
    BY <2>1, ShowsFrames
  <2> QED
    BY <1>13, <2>1, <2>2 DEF ProgramStarts, host
<1>14. CASE SudoReads
  <2>1. PICK ms \in Seq(Marker) : Shows(ms) /\ Markers(ms) \cap Success = {}
    <3>1. /\ <<"AUTH_OK">> \in Seq(Marker) /\ <<"SORRY", "PROMPT">> \in Seq(Marker)
          /\ <<"INCORRECT">> \in Seq(Marker)
      BY DEF Marker
    <3>2. \A a, b \in Marker : Markers(<<a, b>>) = {a, b} /\ Markers(<<a>>) = {a}
      BY DEF Markers
    <3>3. /\ Markers(<<"AUTH_OK">>) \cap Success = {}
          /\ Markers(<<"SORRY", "PROMPT">>) \cap Success = {}
          /\ Markers(<<"INCORRECT">>) \cap Success = {}
      BY <3>2 DEF Marker
    <3> QED
      BY <1>14, <3>1, <3>3 DEF SudoReads
  <2>2. Markers(frames') = Markers(frames) \cup Markers(ms)
    BY <2>1, ShowsFrames
  <2> QED
    BY <1>14, <2>1, <2>2 DEF SudoReads, host
<1>15. CASE LeftEnds
  <2>1. present => present'
    BY <1>15, Zenon DEF LeftEnds
  <2>3. UNCHANGED <<frames, tool, status>>
    BY <1>15 DEF LeftEnds
  <2>2. Markers(frames') = Markers(frames)
    BY <2>3 DEF Markers
  <2> QED
    BY <2>1, <2>2, <2>3
<1> QED
  BY <1>1, <1>2, <1>3, <1>4, <1>5, <1>6, <1>7, <1>8, <1>9, <1>10, <1>11, <1>12, <1>13, <1>14,
     <1>15 DEF InstallNext

(* The terminal is closed on every way out of the tool.                     *)
LEMMA WatchedStep ==
    ASSUME InstallInv, InstallNext
    PROVE  TerminalIsWatched'
<1> USE DEF InstallInv, InstallTypeOK, Tools, TerminalIsWatched, Unopened
<1>1. CASE EnsureTool
  BY <1>1 DEF EnsureTool, NoTool
<1>2. CASE OpenTerminal
  BY <1>2 DEF OpenTerminal
<1>3. CASE Observe
  BY <1>3 DEF Observe
<1>4. CASE NobodyToAsk
  BY <1>4 DEF NobodyToAsk
<1>5. CASE InstallCut
  BY <1>5 DEF InstallCut, CutTo, NoTool
<1>6. ASSUME NEW works \in BOOLEAN, Close(works) PROVE TerminalIsWatched'
  BY <1>6 DEF Close
<1>7. CASE Record
  BY <1>7 DEF Record, NoTool
<1>8. ASSUME NEW yes \in BOOLEAN, Automatic(yes) PROVE TerminalIsWatched'
  BY <1>8 DEF Automatic
<1>9. ASSUME NEW yes \in BOOLEAN, Ask(yes) PROVE TerminalIsWatched'
  BY <1>9 DEF Ask
<1>10. ASSUME NEW late \in BOOLEAN, Decide(late) PROVE TerminalIsWatched'
  BY <1>10 DEF Decide
<1>11. ASSUME NEW works \in BOOLEAN, Installs(works) PROVE TerminalIsWatched'
  BY <1>11 DEF Installs
<1>12. ASSUME NEW answer \in {"nobody", "no", "yes"}, Elevate(answer) PROVE TerminalIsWatched'
  BY <1>12 DEF Elevate, NoTool
<1>13. CASE ProgramStarts
  BY <1>13 DEF ProgramStarts
<1>14. CASE SudoReads
  BY <1>14 DEF SudoReads
<1>15. CASE LeftEnds
  BY <1>15 DEF LeftEnds
<1> QED
  BY <1>1, <1>2, <1>3, <1>4, <1>5, <1>6, <1>7, <1>8, <1>9, <1>10, <1>11, <1>12, <1>13, <1>14,
     <1>15 DEF InstallNext

(* A prompt the tool has read past stays one, and only an observation adds  *)
(* to them.                                                                 *)
LEMMA AskedStep ==
    ASSUME InstallInv, InstallNext
    PROVE  AskedIsPrompted'
<1> DEFINE P(n) == Cardinality({i \in 1..n : frames[i] = "PROMPT"})
           Q(n) == Cardinality({i \in 1..n : frames'[i] = "PROMPT"})
           Counted == /\ tool.pc # "idle" /\ ~stale =>
                            asked + (IF tool.pc = "ask" THEN 1 ELSE 0) <= P(tool.cursor)
           Counted1 == /\ tool'.pc # "idle" /\ ~stale' =>
                             asked' + (IF tool'.pc = "ask" THEN 1 ELSE 0) <= Q(tool'.cursor)
<1>0. /\ Len(frames) \in Nat /\ tool.cursor \in 0..Len(frames) /\ asked \in Nat
      /\ tool.cursor \in Nat /\ tool \in Tools(Len(frames)) /\ stale \in BOOLEAN
  BY LenProperties DEF InstallInv, InstallTypeOK, Tools
<1>1. \A n \in Nat : P(n) \in Nat /\ Q(n) \in Nat
  BY CountType
<1>2. UNCHANGED frames => \A n \in Nat : P(n) = Q(n)
  OBVIOUS
<1>3. ASSUME NEW ms \in Seq(Marker), Shows(ms) PROVE \A n \in 0..Len(frames) : P(n) <= Q(n)
  <2>1. InstallTypeOK
    BY DEF InstallInv
  <2>2. \A i \in 1..Len(frames) : frames'[i] = frames[i]
    BY <1>3, <2>1, ShowsFrames
  <2>3. \A n \in 0..Len(frames) : n \in Nat /\ \A i \in 1..n : frames[i] = frames'[i]
    BY <1>0, <2>2
  <2> HIDE DEF P, Q
  <2>4. ASSUME NEW n \in 0..Len(frames) PROVE P(n) <= Q(n)
    BY <2>3, CountGrows, SMTT(60) DEF P, Q
  <2> QED
    BY <2>4
<1>4. /\ tool.pc \in Unopened => asked = 0
      /\ tool.pc = "ask" => tool.attempts < MaxPasswordAttempts
      /\ Counted
  BY DEF InstallInv, AskedIsPrompted, PromptsIn, MayAsk
<1>5. SUFFICES ASSUME TRUE
               PROVE  /\ tool'.pc \in Unopened => asked' = 0
                      /\ tool'.pc = "ask" => tool'.attempts < MaxPasswordAttempts
                      /\ Counted1
  BY DEF AskedIsPrompted, PromptsIn, MayAsk
<1> HIDE DEF P, Q
<1> USE DEF Unopened, Tools
<1>6. CASE EnsureTool
  BY <1>1, <1>6 DEF EnsureTool, NoTool
<1>7. CASE OpenTerminal
  BY <1>0, <1>2, <1>4, <1>7 DEF OpenTerminal
<1>8. CASE Observe
  <2> DEFINE text == ObservedText
             accepted == tool.accepted \/ "AUTH_OK" \in tool.seen \cup text
             prompted == "PROMPT" \in text /\ ~accepted
  <2>1. /\ tool'.cursor = Len(frames) /\ tool'.attempts = tool.attempts
        /\ tool'.pc = IF ~prompted THEN "decide" ELSE IF MayAsk THEN "ask" ELSE "close"
        /\ stale' = (stale \/ (prompted /\ New = <<>>))
        /\ UNCHANGED <<frames, asked>> /\ tool.pc = "observe"
    BY <1>0, <1>8 DEF Observe
  <2>2. P(tool.cursor) <= P(Len(frames))
    BY <1>0, CountGrows DEF P
  <2>3. "PROMPT" \in text /\ New # <<>> => P(tool.cursor) + 1 <= P(Len(frames))
    <3>1. ASSUME "PROMPT" \in text, New # <<>>
          PROVE  \E i \in tool.cursor + 1 .. Len(frames) : frames[i] = "PROMPT"
      BY <3>1, NewFrames DEF ObservedText, InstallInv
    <3>2. /\ Len(frames) \in Nat /\ tool.cursor \in Nat /\ tool.cursor <= Len(frames)
          /\ \A i \in 1..tool.cursor : frames[i] = frames[i]
      BY <1>0
    <3>3. (\E i \in tool.cursor + 1 .. Len(frames) : frames[i] = "PROMPT")
             => Cardinality({i \in 1..tool.cursor : frames[i] = "PROMPT"}) + 1
                   <= Cardinality({i \in 1..Len(frames) : frames[i] = "PROMPT"})
      BY <3>2, CountGrows
    <3> QED
      BY <3>1, <3>3 DEF P
  <2> HIDE DEF text, accepted, prompted
  <2>4. prompted => "PROMPT" \in text
    BY DEF prompted
  <2>5. /\ P(tool.cursor) \in Nat /\ P(Len(frames)) \in Nat
        /\ P(Len(frames)) = Q(Len(frames))
    BY <1>0, <1>1, <1>2, <2>1
  <2>6. tool'.pc \notin Unopened /\ (tool'.pc = "ask" => prompted /\ MayAsk)
    BY <2>1
  <2>7. ASSUME ~stale' PROVE asked' + (IF tool'.pc = "ask" THEN 1 ELSE 0) <= Q(tool'.cursor)
    <3>1. ~stale /\ asked <= P(tool.cursor)
      BY <1>0, <1>4, <2>1, <2>5, <2>7
    <3>2. CASE tool'.pc = "ask"
      <4>1. New # <<>> /\ "PROMPT" \in text
        BY <2>1, <2>4, <2>6, <2>7, <3>2
      <4> QED
        BY <1>0, <2>1, <2>3, <2>5, <3>1, <3>2, <4>1
    <3>3. CASE tool'.pc # "ask"
      BY <1>0, <2>1, <2>2, <2>5, <3>1, <3>3
    <3> QED
      BY <3>2, <3>3
  <2> QED
    BY <2>1, <2>6, <2>7 DEF MayAsk
<1>9. CASE NobodyToAsk
  BY <1>0, <1>1, <1>2, <1>4, <1>9 DEF NobodyToAsk
<1>10. CASE InstallCut
  BY <1>0, <1>1, <1>2, <1>4, <1>10 DEF InstallCut, CutTo, NoTool
<1>11. ASSUME NEW works \in BOOLEAN, Close(works)
       PROVE  /\ tool'.pc \in Unopened => asked' = 0
              /\ tool'.pc = "ask" => tool'.attempts < MaxPasswordAttempts
              /\ Counted1
  BY <1>0, <1>1, <1>2, <1>4, <1>11 DEF Close, NoTool
<1>12. CASE Record
  BY <1>12 DEF Record, NoTool
<1>13. ASSUME NEW yes \in BOOLEAN, Automatic(yes)
       PROVE  /\ tool'.pc \in Unopened => asked' = 0
              /\ tool'.pc = "ask" => tool'.attempts < MaxPasswordAttempts
              /\ Counted1
  BY <1>0, <1>1, <1>2, <1>4, <1>13 DEF Automatic
<1>14. ASSUME NEW yes \in BOOLEAN, Ask(yes)
       PROVE  /\ tool'.pc \in Unopened => asked' = 0
              /\ tool'.pc = "ask" => tool'.attempts < MaxPasswordAttempts
              /\ Counted1
  <2>1. <<"REDACTED">> \in Seq(Marker)
    BY DEF Marker
  <2>2. P(tool.cursor) <= Q(tool.cursor)
    BY <1>0, <1>3, <1>14, <2>1 DEF Ask
  <2>3. /\ tool'.pc = "decide" /\ tool'.cursor = tool.cursor /\ tool.pc = "ask"
        /\ asked' = asked + 1 /\ stale' = stale
    BY <1>0, <1>14 DEF Ask
  <2>4. P(tool.cursor) \in Nat /\ Q(tool.cursor) \in Nat
    BY <1>0, <1>1
  <2> QED
    BY <1>0, <1>4, <2>2, <2>3, <2>4
<1>15. ASSUME NEW late \in BOOLEAN, Decide(late)
       PROVE  /\ tool'.pc \in Unopened => asked' = 0
              /\ tool'.pc = "ask" => tool'.attempts < MaxPasswordAttempts
              /\ Counted1
  BY <1>0, <1>1, <1>2, <1>4, <1>15 DEF Decide
<1>16. ASSUME NEW answer \in {"nobody", "no", "yes"}, Elevate(answer)
       PROVE  /\ tool'.pc \in Unopened => asked' = 0
              /\ tool'.pc = "ask" => tool'.attempts < MaxPasswordAttempts
              /\ Counted1
  BY <1>0, <1>1, <1>2, <1>4, <1>16 DEF Elevate, NoTool
<1>17. ASSUME NEW ms \in Seq(Marker), Shows(ms), UNCHANGED <<tool, asked, stale>>
       PROVE  /\ tool'.pc \in Unopened => asked' = 0
              /\ tool'.pc = "ask" => tool'.attempts < MaxPasswordAttempts
              /\ Counted1
  <2>1. P(tool.cursor) <= Q(tool.cursor) /\ P(tool.cursor) \in Nat /\ Q(tool.cursor) \in Nat
    BY <1>0, <1>1, <1>3, <1>17
  <2> QED
    BY <1>0, <1>4, <1>17, <2>1
<1>18. ASSUME NEW works \in BOOLEAN, Installs(works)
       PROVE  \E ms \in Seq(Marker) : Shows(ms) /\ UNCHANGED <<tool, asked, stale>>
  <2>1. <<IF works THEN "INSTALLED" ELSE "FAILED">> \in Seq(Marker)
    BY DEF Marker
  <2> QED
    BY <1>18, <2>1 DEF Installs
<1>19. CASE ProgramStarts \/ SudoReads
  <2>1. /\ <<"PRESENT">> \in Seq(Marker) /\ <<"MISSING", "AUTH_OK">> \in Seq(Marker)
        /\ <<"MISSING", "FAILED">> \in Seq(Marker) /\ <<"MISSING", "PROMPT">> \in Seq(Marker)
        /\ <<"AUTH_OK">> \in Seq(Marker) /\ <<"SORRY", "PROMPT">> \in Seq(Marker)
        /\ <<"INCORRECT">> \in Seq(Marker)
    BY DEF Marker
  <2>2. privilege \in Privilege /\ present \in BOOLEAN
    BY DEF InstallInv, InstallTypeOK
  <2>3. \E ms \in Seq(Marker) : Shows(ms) /\ UNCHANGED <<tool, asked, stale>>
    BY <1>19, <2>1, <2>2 DEF ProgramStarts, SudoReads, Privilege
  <2> QED
    BY <1>17, <2>3
<1>20. CASE LeftEnds
  <2>1. UNCHANGED <<frames, tool, asked, stale>>
    BY <1>20 DEF LeftEnds
  <2> QED
    BY <1>0, <1>1, <1>2, <1>4, <2>1
<1> QED
  BY <1>6, <1>7, <1>8, <1>9, <1>10, <1>11, <1>12, <1>13, <1>14, <1>15, <1>16, <1>17, <1>18, <1>19,
     <1>20 DEF InstallNext

(* Nothing is installed at first, and nothing is claimed.                   *)
LEMMA InstallInitially == InstallInit => InstallInv
<1> SUFFICES ASSUME InstallInit PROVE InstallInv
  OBVIOUS
<1>1. InstallTypeOK
  <2>1. tool \in Tools(0)
    BY NewTool DEF InstallInit, ToolPc
  <2>2. <<>> \in Seq(Marker) /\ <<>> \in Seq(BOOLEAN) /\ Len(<<>>) = 0
    BY EmptySeq, Zenon
  <2>3. /\ frames \in Seq(Marker) /\ Len(frames) = 0 /\ typed \in Seq(BOOLEAN)
        /\ tool \in Tools(Len(frames))
    BY <2>1, <2>2 DEF InstallInit
  <2>4. /\ present \in BOOLEAN /\ privilege \in Privilege /\ program = "none"
        /\ status = "unknown" /\ installs = 0 /\ asked = 0 /\ wrong = 0 /\ stale = FALSE
        /\ left = {}
    BY DEF InstallInit
  <2>5. /\ Len(frames) <= MaxFrames /\ installs \in 0..MaxInstalls
        /\ asked \in Nat /\ wrong \in Nat
    BY <2>3, <2>4, InstallAssumption
  <2>6. stale \in BOOLEAN
    BY <2>4
  <2> QED
    BY <2>3, <2>4, <2>5, <2>6 DEF InstallTypeOK
<1>2. Markers(frames) = {} /\ tool.seen = {} /\ tool.pc = "idle"
  BY DEF InstallInit, NoTool, Markers
<1> QED
  BY <1>1, <1>2 DEF InstallInit, InstallInv, PresentIsTrue, SuccessIsTrue, TerminalIsWatched,
                    AskedIsPrompted, Unopened

(* The tool, a probe, a restart of the broker.                              *)
LEMMA InstallInvStep ==
    ASSUME InstallInv, InstallNext \/ ProbeTool \/ BrokerInstall \/ UNCHANGED installVars
    PROVE  InstallInv'
<1>1. CASE InstallNext
  BY <1>1, InstallTypeStep, SuccessStep, WatchedStep, AskedStep DEF InstallInv
<1>2. CASE ProbeTool
  BY <1>2 DEF ProbeTool, host, InstallInv, InstallTypeOK, PresentIsTrue, SuccessIsTrue,
              TerminalIsWatched, AskedIsPrompted, MayAsk, PromptsIn, Markers
<1>3. CASE BrokerInstall
  <2>1. tool' \in Tools(Len(frames)) /\ tool'.seen \subseteq tool.seen
    <3>1. Len(frames) \in Nat /\ "idle" \in ToolPc /\ NoTool.seen = {}
      BY LenProperties DEF InstallInv, InstallTypeOK, ToolPc, NoTool
    <3> QED
      BY <1>3, <3>1, NewTool DEF BrokerInstall, InstallInv, InstallTypeOK
  <2>2. tool'.pc \in {"idle", "record"} /\ (tool'.pc # "idle" => tool' = tool)
    BY <1>3 DEF BrokerInstall, NoTool
  <2>3. (InstallTypeOK /\ PresentIsTrue)'
    BY <1>3, <2>1 DEF BrokerInstall, host, InstallInv, InstallTypeOK, PresentIsTrue
  <2>4. SuccessIsTrue'
    BY <1>3, <2>1 DEF BrokerInstall, host, InstallInv, SuccessIsTrue, Markers
  <2>5. AskedIsPrompted'
    BY <1>3, <2>2 DEF BrokerInstall, InstallInv, AskedIsPrompted, Unopened, PromptsIn
  <2> QED
    BY <1>3, <2>3, <2>4, <2>5 DEF BrokerInstall, InstallInv, TerminalIsWatched
<1>4. CASE UNCHANGED installVars
  BY <1>4 DEF installVars, InstallInv, InstallTypeOK, PresentIsTrue, SuccessIsTrue,
              TerminalIsWatched, AskedIsPrompted, MayAsk, PromptsIn, Markers
<1> QED
  BY <1>1, <1>2, <1>3, <1>4

(* What the tool reads past is part of what was printed.                    *)
LEMMA InstallInvImplies ==
    ASSUME InstallInv
    PROVE  InstallTypeOK /\ InstallIsTruthful /\ NoInstallLeft
<1>1. Len(frames) \in Nat /\ tool.cursor \in 0..Len(frames) /\ asked \in Nat
  BY LenProperties DEF InstallInv, InstallTypeOK, Tools
<1>2. /\ PromptsIn(tool.cursor) <= Prompts
      /\ PromptsIn(tool.cursor) \in Nat /\ Prompts \in Nat
  <2> DEFINE C(n) == Cardinality({i \in 1..n : frames[i] = "PROMPT"})
  <2>1. tool.cursor \in Nat /\ tool.cursor <= Len(frames)
    BY <1>1
  <2>2. C(tool.cursor) \in Nat /\ C(Len(frames)) \in Nat
    BY <1>1, <2>1, CountType
  <2>3. C(tool.cursor) <= C(Len(frames))
    BY <1>1, <2>1, CountGrows
  <2> QED
    BY <2>2, <2>3 DEF PromptsIn, Prompts
<1>3. AskedAsOftenAsSudo
  BY <1>1, <1>2 DEF InstallInv, AskedIsPrompted, AskedAsOftenAsSudo
<1> QED
  BY <1>3 DEF InstallInv, InstallIsTruthful, NoInstallLeft, TerminalIsWatched

-----------------------------------------------------------------------------
(***************************************************************************)
(* The writer leases and the inputs. A grant is the latest lease of its    *)
(* session until it expires, is forced, or two acquires race; a write puts *)
(* one text in the buffer and pastes it.                                   *)
(***************************************************************************)

(* Every finite set of rows has a latest one: a smallest set without would  *)
(* have one when a row is taken away.                                       *)
LEMMA LatestExists ==
    ASSUME NEW S \in SUBSET LeaseRow, IsFiniteSet(S), S # {}
    PROVE  \E a \in S : \A b \in S : Later(a, b)
<1> DEFINE Bad(T) == T # {} /\ ~\E a \in T : \A b \in T : Later(a, b)
           Sizes == {n \in Nat : \E T \in SUBSET S : Bad(T) /\ Cardinality(T) = n}
<1>1. SUFFICES ASSUME Bad(S) PROVE FALSE
  OBVIOUS
<1>2. Cardinality(S) \in Sizes
  <2>1. Cardinality(S) \in Nat
    BY FS_CardinalityType
  <2> QED
    BY <1>1, <2>1
<1>3. PICK n \in Sizes : \A m \in Sizes : ~(m < n)
  <2>1. Sizes \subseteq Nat /\ Sizes # {}
    BY <1>2
  <2> HIDE DEF Sizes
  <2>2. \E x \in Sizes : \A y \in Sizes : ~(<<y, x>> \in OpToRel(<, Nat))
    BY <2>1, WFMin, NatLessThanWellFounded
  <2> QED
    BY <2>1, <2>2 DEF OpToRel
<1>4. PICK T \in SUBSET S : Bad(T) /\ Cardinality(T) = n
  OBVIOUS
<1>5. PICK x \in T : TRUE
  BY <1>4
<1>6. IsFiniteSet(T) /\ Cardinality(T) \in Nat
  BY FS_Subset, FS_CardinalityType
<1> DEFINE U == T \ {x}
<1>7. IsFiniteSet(U) /\ Cardinality(U) \in Nat /\ Cardinality(U) = n - 1
  <2>1. IsFiniteSet(U) /\ Cardinality(U) = n - 1
    BY <1>4, <1>5, <1>6, FS_RemoveElement
  <2> QED
    BY <2>1, FS_CardinalityType
<1>8. ~Bad(U)
  <2>1. SUFFICES ASSUME Bad(U) PROVE FALSE
    OBVIOUS
  <2>2. Cardinality(U) \in Sizes
    BY <1>7, <2>1
  <2> QED
    BY <1>3, <1>7, <2>2
<1>9. \A r \in S : /\ r.version \in Nat /\ r.expires \in Nat /\ r.id \in Int
  BY DEF LeaseRow, LeaseId
<1>10. CASE U = {}
  <2>1. \A b \in T : Later(x, b)
    BY <1>5, <1>9, <1>10 DEF Later
  <2> QED
    BY <1>4, <1>5, <2>1
<1>11. CASE U # {}
  <2>1. PICK a \in U : \A b \in U : Later(a, b)
    BY <1>8, <1>11
  <2>2. a \in S /\ x \in S
    OBVIOUS
  <2>3. CASE Later(a, x)
    BY <1>4, <2>1, <2>3
  <2>4. CASE ~Later(a, x)
    <3>1. \A b \in T : Later(x, b)
      BY <1>9, <2>1, <2>2, <2>4 DEF Later
    <3> QED
      BY <1>4, <1>5, <3>1
  <2> QED
    BY <2>3, <2>4
<1> QED
  BY <1>10, <1>11

(* So get_for_session is a latest row, and no other is when ids differ.     *)
LEMMA SessionLease ==
    ASSUME LeaseTypeOK, IsFiniteSet(leases)
    PROVE  /\ leases = {} => get_for_session = NoLease
           /\ leases # {} => /\ get_for_session \in leases
                             /\ \A b \in leases : Later(get_for_session, b)
           /\ get_for_session = NoLease => leases = {}
           /\ get_for_session.version \in Nat /\ get_for_session.expires \in Nat
           /\ \A a \in leases : a.version <= get_for_session.version
           /\ \A a \in leases : (\A b \in leases : b = a \/ b.version < a.version)
                 => a = get_for_session
<1>1. leases \subseteq LeaseRow
  BY DEF LeaseTypeOK
<1>2. \A r \in LeaseRow : /\ r.version \in Nat /\ r.expires \in Nat /\ r.id \in Int
                          /\ r # NoLease
  BY DEF LeaseRow, LeaseId, NoLease
<1>3. CASE leases = {}
  BY <1>3 DEF get_for_session, NoLease
<1>4. CASE leases # {}
  <2>1. get_for_session \in leases /\ \A b \in leases : Later(get_for_session, b)
    BY <1>1, <1>4, LatestExists DEF get_for_session
  <2>2. \A a \in leases : a.version <= get_for_session.version
    BY <1>1, <1>2, <2>1 DEF Later
  <2> QED
    BY <1>1, <1>2, <1>4, <2>1, <2>2
<1> QED
  BY <1>3, <1>4

(* The places of a call and what it knows there.                            *)
CallOK(c) ==
    /\ c.pc = "new" => c = NewCall
    /\ c.pc = "store" => c.op \in {"acquire", "renew"} /\ c.lease # NoLease
    /\ c.pc = "validate" => c.op = "renew"
    /\ c.pc \in {"set", "paste", "touch"} => c.op \in {"renew", "write", "submit"}
    /\ c.pc = "resolve" => c.op = "submit"
    /\ c.op = "submit" => c.request \in Request

(* A call that begins is well-typed.                                        *)
LEMMA NewCallOK == NewCall \in CallRow
  BY DEF NewCall, CallRow, CallPc, Ended, NoLease, NoRequest

(* What Validated makes of a call.                                          *)
LEMMA ValidatedCall ==
    ASSUME LeaseTypeOK, IsFiniteSet(leases), NEW k \in Call, NEW begun \in CallRow,
           begun.op \in {"renew", "write", "submit"},
           begun.op = "submit" => begun.request \in Request,
           Validated(k, begun)
    PROVE  /\ call'[k] \in CallRow /\ call' = [call EXCEPT ![k] = call'[k]]
           /\ call'[k].pc \in {"set", "error"}
           /\ call'[k].op = begun.op /\ call'[k].request = begun.request
           /\ call'[k].lease = begun.lease /\ call'[k].forced = begun.forced
           /\ call'[k].raced = begun.raced /\ call'[k].alone = begun.alone
           /\ call'[k].broken = begun.broken /\ call'[k].defies = begun.defies
           /\ call'[k].pc = "set" => /\ ~Refuses(get_for_session, call'[k].owner)
                                      /\ call'[k].until = get_for_session.expires
<1>1. get_for_session.expires \in Nat /\ call \in [Call -> CallRow]
  BY SessionLease DEF LeaseTypeOK
<1>2. CASE Refuses(get_for_session, begun.owner)
  <2>1. call'[k] = [begun EXCEPT !.pc = "error", !.owner = "nobody"] /\ call' = [call EXCEPT ![k] = call'[k]]
    BY <1>1, <1>2 DEF Validated, Moves
  <2> QED
    BY <2>1 DEF CallRow, CallPc, Ended
<1>3. CASE ~Refuses(get_for_session, begun.owner)
  <2>1. /\ call'[k] = [begun EXCEPT !.pc = "set", !.until = get_for_session.expires]
        /\ call' = [call EXCEPT ![k] = call'[k]]
    BY <1>1, <1>3 DEF Validated, Moves
  <2>2. call'[k].owner = begun.owner
    BY <2>1 DEF CallRow
  <2> QED
    BY <1>1, <1>3, <2>1, <2>2 DEF CallRow, CallPc, Ended
<1> QED
  BY <1>2, <1>3

(* Types from the calls one by one.                                         *)
LEMMA TypeFromCalls ==
    ASSUME LeaseTypeOK, call' \in [Call -> CallRow], \A k \in Call : CallOK(call'[k]),
           \A k \in Call : call'[k].op = "submit" => requests'[call'[k].request] # "absent",
           backend' \in Backend, attached' \in BOOLEAN, shell' \in BOOLEAN,
           now' \in 0..MaxClock, failures' \in 0..MaxFailures,
           leases' \subseteq LeaseRow, \A a, b \in leases' : a.id = b.id => a = b,
           buffer' \in Call \cup {NoData}, pasted' \in Seq(Call),
           requests' \in [Request -> {"absent", "PENDING", "RESOLVED"}],
           buffer' # NoData => backend' = "tmux"
    PROVE  LeaseTypeOK'
  BY DEF LeaseTypeOK, CallOK

CallFields(c, d) ==
    /\ c.op = d.op /\ c.request = d.request /\ c.lease = d.lease
    /\ c.forced = d.forced /\ c.raced = d.raced

(* At moves a call and leaves its data alone.                               *)
Moved(c, pc, o) == [c EXCEPT !.pc = pc, !.owner = o]
LEMMA MoveRow ==
    ASSUME NEW c \in CallRow, NEW pc \in CallPc, NEW o \in Owner \cup {"nobody"}
    PROVE  /\ Moved(c, pc, o) \in CallRow /\ CallFields(Moved(c, pc, o), c)
           /\ Moved(c, pc, o).pc = pc /\ Moved(c, pc, o).owner = o
           /\ Moved(c, pc, o).until = c.until /\ Moved(c, pc, o).alone = c.alone
           /\ Moved(c, pc, o).broken = c.broken /\ Moved(c, pc, o).defies = c.defies
  BY DEF CallRow, CallFields, Moved

(* A call that moves on keeps its fields, except that an end forgets its    *)
(* grant.                                                                   *)
LEMMA AtRow ==
    ASSUME call \in [Call -> CallRow], NEW k \in Call, NEW pc \in CallPc
    PROVE  /\ At(k, pc) \in CallRow /\ At(k, pc).pc = pc
           /\ CallFields(At(k, pc), call[k])
           /\ At(k, pc).until = call[k].until /\ At(k, pc).alone = call[k].alone
           /\ At(k, pc).broken = call[k].broken /\ At(k, pc).defies = call[k].defies
           /\ pc \notin Ended => At(k, pc).owner = call[k].owner
<1> DEFINE o == IF pc \in Ended THEN "nobody" ELSE call[k].owner
<1>1. call[k] \in CallRow
  OBVIOUS
<1>2. o \in Owner \cup {"nobody"}
  BY <1>1 DEF CallRow
<1>3. At(k, pc) = Moved(call[k], pc, o)
  BY DEF At, Moved
<1>4. pc \notin Ended => o = call[k].owner
  OBVIOUS
<1> HIDE DEF o
<1> QED
  BY <1>1, <1>2, <1>3, <1>4, MoveRow

(* A change of what a write notes of itself.                                *)
Shared(c, b) == [c EXCEPT !.alone = b]
Broke(c, b) == [c EXCEPT !.broken = b]
Gave(c, d, b) == [c EXCEPT !.defies = d, !.until = 0, !.broken = b]
LEMMA NoteRow ==
    ASSUME NEW c \in CallRow, NEW b \in BOOLEAN, NEW d \in BOOLEAN
    PROVE  /\ Shared(c, b) \in CallRow /\ CallFields(Shared(c, b), c)
           /\ Shared(c, b).pc = c.pc /\ Shared(c, b).owner = c.owner
           /\ Shared(c, b).until = c.until /\ Shared(c, b).alone = b
           /\ Shared(c, b).broken = c.broken /\ Shared(c, b).defies = c.defies
           /\ Broke(c, b) \in CallRow /\ CallFields(Broke(c, b), c)
           /\ Broke(c, b).pc = c.pc /\ Broke(c, b).owner = c.owner
           /\ Broke(c, b).until = c.until /\ Broke(c, b).alone = c.alone
           /\ Broke(c, b).broken = b /\ Broke(c, b).defies = c.defies
           /\ Gave(c, d, b) \in CallRow /\ CallFields(Gave(c, d, b), c)
           /\ Gave(c, d, b).pc = c.pc /\ Gave(c, d, b).owner = c.owner
           /\ Gave(c, d, b).until = 0 /\ Gave(c, d, b).alone = c.alone
           /\ Gave(c, d, b).broken = b /\ Gave(c, d, b).defies = d
<1>1. /\ Shared(c, b) \in CallRow /\ CallFields(Shared(c, b), c)
      /\ Shared(c, b).pc = c.pc /\ Shared(c, b).owner = c.owner
      /\ Shared(c, b).until = c.until /\ Shared(c, b).alone = b
      /\ Shared(c, b).broken = c.broken /\ Shared(c, b).defies = c.defies
  BY DEF CallRow, CallFields, Shared
<1>2. /\ Broke(c, b) \in CallRow /\ CallFields(Broke(c, b), c)
      /\ Broke(c, b).pc = c.pc /\ Broke(c, b).owner = c.owner
      /\ Broke(c, b).until = c.until /\ Broke(c, b).alone = c.alone
      /\ Broke(c, b).broken = b /\ Broke(c, b).defies = c.defies
  BY DEF CallRow, CallFields, Broke
<1>3. /\ Gave(c, d, b) \in CallRow /\ CallFields(Gave(c, d, b), c)
      /\ Gave(c, d, b).pc = c.pc /\ Gave(c, d, b).owner = c.owner
      /\ Gave(c, d, b).until = 0 /\ Gave(c, d, b).alone = c.alone
      /\ Gave(c, d, b).broken = b /\ Gave(c, d, b).defies = d
  BY DEF CallRow, CallFields, Gave
<1> QED
  BY <1>1, <1>2, <1>3

(* Validated, WriteEnds and Resolves, WriteBegins, WritePastes and          *)
(* CommandFails: what becomes of the calls.                                 *)
LEMMA WriteBeginsCalls ==
    ASSUME LeaseTypeOK, NEW k \in Call, WriteBegins(k)
    PROVE  /\ call' \in [Call -> CallRow]
           /\ \A j \in Call : CallFields(call'[j], call[j])
           /\ \A j \in Call \ {k} :
                 /\ call'[j].pc = call[j].pc /\ call'[j].owner = call[j].owner
                 /\ call'[j].until = call[j].until /\ call'[j].defies = call[j].defies
                 /\ call'[j].broken = call[j].broken
                 /\ call'[k].pc = "paste" /\ InTmux(j) => ~call'[j].alone
                 /\ ~(call'[k].pc = "paste" /\ InTmux(j)) => call'[j] = call[j]
           /\ \/ /\ call'[k].pc = "error" /\ call'[k].defies = call[k].defies
                 /\ call'[k].alone = call[k].alone /\ call'[k].broken = call[k].broken
                 /\ UNCHANGED <<attached, buffer, pasted>>
              \/ /\ call'[k].pc = "touch" /\ call'[k].until = 0
                 /\ call'[k].defies = (HeldAgainst(call[k].owner, call[k].until) # {})
                 /\ call'[k].alone = call[k].alone
                 /\ call'[k].broken = (call[k].broken \/ ~shell)
                 /\ pasted' = IF shell THEN Append(pasted, k) ELSE pasted
                 /\ UNCHANGED <<attached, buffer>> /\ backend = "pty"
              \/ /\ call'[k].pc = "paste" /\ call'[k].until = call[k].until
                 /\ call'[k].owner = call[k].owner /\ call'[k].defies = call[k].defies
                 /\ call'[k].alone = ~\E i \in Call : InTmux(i)
                 /\ call'[k].broken = call[k].broken
                 /\ attached' = TRUE /\ buffer' = k /\ UNCHANGED pasted /\ backend = "tmux"
<1>1. call \in [Call -> CallRow] /\ {"error", "touch", "paste"} \subseteq CallPc
      /\ "paste" \notin Ended
  BY DEF LeaseTypeOK, CallPc, Ended
<1>2. CASE Moves(k, At(k, "error")) /\ UNCHANGED <<attached, buffer, pasted>>
  <2>1. call' = [call EXCEPT ![k] = At(k, "error")]
    BY <1>2 DEF Moves
  <2>2. /\ At(k, "error") \in CallRow /\ At(k, "error").pc = "error"
        /\ CallFields(At(k, "error"), call[k])
        /\ At(k, "error").alone = call[k].alone
        /\ At(k, "error").broken = call[k].broken /\ At(k, "error").defies = call[k].defies
    BY <1>1, AtRow
  <2> QED
    BY <1>1, <1>2, <2>1, <2>2 DEF CallFields
<1>3. CASE Gives(k, k, "touch") /\ UNCHANGED <<attached, buffer>> /\ backend = "pty"
  <2> DEFINE d == HeldAgainst(call[k].owner, call[k].until) # {}
             b == call[k].broken \/ ~shell
             c == At(k, "touch")
  <2>1. /\ c \in CallRow /\ c.pc = "touch"
        /\ CallFields(c, call[k]) /\ c.alone = call[k].alone /\ c.broken = call[k].broken
    BY <1>1, AtRow
  <2>2. call' = [call EXCEPT ![k] = Gave(c, d, b)]
    BY <1>3, <2>1 DEF Gives, Moves, Gave
  <2>3. d \in BOOLEAN /\ b \in BOOLEAN
    OBVIOUS
  <2>4. pasted' = IF shell THEN Append(pasted, k) ELSE pasted
    BY <1>3 DEF Gives
  <2> HIDE DEF c
  <2>5. /\ Gave(c, d, b) \in CallRow /\ CallFields(Gave(c, d, b), c)
        /\ Gave(c, d, b).pc = c.pc /\ Gave(c, d, b).owner = c.owner
        /\ Gave(c, d, b).until = 0 /\ Gave(c, d, b).alone = c.alone
        /\ Gave(c, d, b).broken = b /\ Gave(c, d, b).defies = d
    BY <2>1, <2>3, NoteRow
  <2>6. call'[k] = Gave(c, d, b) /\ call' \in [Call -> CallRow]
        /\ \A j \in Call \ {k} : call'[j] = call[j]
    BY <1>1, <2>2, <2>5
  <2> QED
    BY <1>3, <2>1, <2>4, <2>5, <2>6, ZenonT(60) DEF CallFields
<1>4. CASE /\ attached' = TRUE /\ buffer' = Filled(k) /\ UNCHANGED pasted /\ backend = "tmux"
           /\ call' = [j \in Call |-> IF j = k THEN [At(k, "paste") EXCEPT !.alone =
                                                       ~\E i \in Call : InTmux(i)]
                                     ELSE IF InTmux(j) THEN [call[j] EXCEPT !.alone = FALSE]
                                     ELSE call[j]]
  <2> DEFINE b == ~\E i \in Call : InTmux(i)
             c == At(k, "paste")
  <2>1. /\ c \in CallRow /\ c.pc = "paste" /\ c.owner = call[k].owner
        /\ CallFields(c, call[k]) /\ c.until = call[k].until
        /\ c.broken = call[k].broken /\ c.defies = call[k].defies
    BY <1>1, AtRow
  <2>2. call' = [j \in Call |-> IF j = k THEN Shared(c, b)
                                ELSE IF InTmux(j) THEN Shared(call[j], FALSE) ELSE call[j]]
    BY <1>4 DEF Shared
  <2>3. b \in BOOLEAN
    OBVIOUS
  <2> HIDE DEF c, b
  <2>4. /\ Shared(c, b) \in CallRow /\ CallFields(Shared(c, b), c)
        /\ Shared(c, b).pc = c.pc /\ Shared(c, b).owner = c.owner
        /\ Shared(c, b).until = c.until /\ Shared(c, b).alone = b
        /\ Shared(c, b).broken = c.broken /\ Shared(c, b).defies = c.defies
    BY <2>1, <2>3, NoteRow
  <2>5. \A j \in Call :
          LET s == Shared(call[j], FALSE)
          IN  /\ s \in CallRow /\ CallFields(s, call[j])
              /\ s.pc = call[j].pc /\ s.owner = call[j].owner
              /\ s.until = call[j].until /\ s.alone = FALSE
              /\ s.broken = call[j].broken /\ s.defies = call[j].defies
    BY <1>1, NoteRow
  <2>6. call' \in [Call -> CallRow]
    BY <1>1, <2>2, <2>4, <2>5
  <2>7. call'[k] = Shared(c, b)
    BY <2>2
  <2>8. \A j \in Call \ {k} : call'[j] = IF InTmux(j) THEN Shared(call[j], FALSE) ELSE call[j]
    BY <2>2
  <2>9. buffer' = k
    BY <1>4 DEF Filled
  <2>10. \A j \in Call \ {k} :
           /\ CallFields(call'[j], call[j])
           /\ call'[j].pc = call[j].pc /\ call'[j].owner = call[j].owner
           /\ call'[j].until = call[j].until /\ call'[j].defies = call[j].defies
           /\ call'[j].broken = call[j].broken
           /\ InTmux(j) => ~call'[j].alone
           /\ ~InTmux(j) => call'[j] = call[j]
    <3> TAKE j \in Call \ {k}
    <3>1. CASE InTmux(j)
      BY <2>5, <2>8, <3>1
    <3>2. CASE ~InTmux(j)
      BY <2>8, <3>2 DEF CallFields
    <3> QED
      BY <3>1, <3>2
  <2>11. /\ CallFields(call'[k], call[k])
         /\ call'[k].pc = "paste" /\ call'[k].until = call[k].until
         /\ call'[k].owner = call[k].owner /\ call'[k].defies = call[k].defies
         /\ call'[k].broken = call[k].broken
    BY <2>1, <2>4, <2>7 DEF CallFields
  <2>12. call'[k].alone = ~\E i \in Call : InTmux(i)
    BY <2>4, <2>7, Zenon DEF b
  <2>13. attached' = TRUE /\ UNCHANGED pasted /\ backend = "tmux"
    BY <1>4
  <2> HIDE DEF b
  <2>14. \A j \in Call : CallFields(call'[j], call[j])
    BY <2>10, <2>11
  <2> QED
    BY <2>6, <2>9, <2>10, <2>11, <2>12, <2>13, <2>14
<1> QED
  BY <1>2, <1>3, <1>4 DEF WriteBegins
(* paste-buffer moves one call.                                             *)
LEMMA WritePastesCalls ==
    ASSUME LeaseTypeOK, NEW k \in Call, WritePastes(k)
    PROVE  /\ call' \in [Call -> CallRow] /\ \A j \in Call \ {k} : call'[j] = call[j]
           /\ CallFields(call'[k], call[k]) /\ call'[k].alone = call[k].alone
           /\ call'[k].broken = (call[k].broken \/ ~shell)
           /\ \/ /\ buffer = NoData \/ ~shell
                 /\ call'[k].pc = "error" /\ call'[k].defies = call[k].defies
                 /\ UNCHANGED <<pasted, buffer>>
              \/ /\ buffer # NoData /\ shell
                 /\ call'[k].pc = "touch" /\ call'[k].until = 0
                 /\ call'[k].defies = (HeldAgainst(call[k].owner, call[k].until) # {})
                 /\ pasted' = Append(pasted, buffer) /\ buffer' = NoData
<1>1. call \in [Call -> CallRow] /\ {"error", "touch"} \subseteq CallPc /\ shell \in BOOLEAN
  BY DEF LeaseTypeOK, CallPc, Ended
<1> DEFINE b == call[k].broken \/ ~shell
<1>b. b \in BOOLEAN
  OBVIOUS
<1>2. CASE buffer = NoData \/ ~shell
  <2> DEFINE c == At(k, "error")
  <2>1. /\ c \in CallRow /\ c.pc = "error" /\ CallFields(c, call[k])
        /\ c.alone = call[k].alone /\ c.broken = call[k].broken /\ c.defies = call[k].defies
    BY <1>1, AtRow
  <2>2. /\ call' = [call EXCEPT ![k] = Broke(c, b)] /\ UNCHANGED <<pasted, buffer>>
    BY <1>2, <2>1 DEF WritePastes, Moves, Broke
  <2> HIDE DEF c, b
  <2>3. /\ Broke(c, b) \in CallRow /\ CallFields(Broke(c, b), c) /\ Broke(c, b).pc = c.pc
        /\ Broke(c, b).alone = c.alone /\ Broke(c, b).broken = b /\ Broke(c, b).defies = c.defies
    BY <1>b, <2>1, NoteRow
  <2>4. call'[k] = Broke(c, b) /\ call' \in [Call -> CallRow]
        /\ \A j \in Call \ {k} : call'[j] = call[j]
    BY <1>1, <2>2, <2>3
  <2>5. CallFields(call'[k], call[k])
    BY <2>1, <2>3, <2>4 DEF CallFields
  <2> USE DEF b
  <2> QED
    BY <1>2, <2>1, <2>2, <2>3, <2>4, <2>5
<1>3. CASE ~(buffer = NoData \/ ~shell)
  <2> DEFINE d == HeldAgainst(call[k].owner, call[k].until) # {}
             c == At(k, "touch")
  <2>1. /\ c \in CallRow /\ c.pc = "touch"
        /\ CallFields(c, call[k]) /\ c.alone = call[k].alone /\ c.broken = call[k].broken
    BY <1>1, AtRow
  <2>2. call' = [call EXCEPT ![k] = Gave(c, d, b)]
    BY <1>3, <2>1 DEF WritePastes, Gives, Moves, Gave
  <2>3. d \in BOOLEAN
    OBVIOUS
  <2>4. pasted' = Append(pasted, buffer) /\ buffer' = NoData
    BY <1>3 DEF WritePastes, Gives, AfterPaste
  <2> HIDE DEF c
  <2>5. /\ Gave(c, d, b) \in CallRow /\ CallFields(Gave(c, d, b), c)
        /\ Gave(c, d, b).pc = c.pc /\ Gave(c, d, b).owner = c.owner
        /\ Gave(c, d, b).until = 0 /\ Gave(c, d, b).alone = c.alone
        /\ Gave(c, d, b).broken = b /\ Gave(c, d, b).defies = d
    BY <1>b, <2>1, <2>3, NoteRow
  <2>6. call'[k] = Gave(c, d, b) /\ call' \in [Call -> CallRow]
        /\ \A j \in Call \ {k} : call'[j] = call[j]
    BY <1>1, <2>2, <2>5
  <2>7. CallFields(call'[k], call[k])
    BY <2>1, <2>5, <2>6 DEF CallFields
  <2> QED
    BY <1>3, <2>1, <2>4, <2>5, <2>6, <2>7
<1> QED
  BY <1>2, <1>3

(* A remote command that fails ends its call and disturbs the others.       *)
LEMMA CommandFailsCalls ==
    ASSUME LeaseTypeOK, NEW k \in Call, CommandFails(k)
    PROVE  /\ call' \in [Call -> CallRow]
           /\ \A j \in Call : CallFields(call'[j], call[j]) /\ call'[j].defies = call[j].defies
           /\ \A j \in Call \ {k} :
                 /\ call'[j].pc = call[j].pc /\ call'[j].owner = call[j].owner
                 /\ call'[j].until = call[j].until /\ call'[j].broken = call[j].broken
                 /\ InTmux(j) => ~call'[j].alone
                 /\ ~InTmux(j) => call'[j] = call[j]
           /\ call'[k].pc = "error" /\ call'[k].broken
<1>1. call \in [Call -> CallRow] /\ {"error"} \subseteq CallPc
  BY DEF LeaseTypeOK, CallPc, Ended
<1> DEFINE c == At(k, "error")
<1>2. /\ c \in CallRow /\ c.pc = "error" /\ CallFields(c, call[k]) /\ c.defies = call[k].defies
  BY <1>1, AtRow
<1>3. call' = [j \in Call |-> IF j = k THEN Broke(c, TRUE)
                              ELSE IF InTmux(j) THEN Shared(call[j], FALSE) ELSE call[j]]
  BY DEF CommandFails, Broke, Shared
<1> HIDE DEF c
<1>4. /\ Broke(c, TRUE) \in CallRow /\ CallFields(Broke(c, TRUE), c) /\ Broke(c, TRUE).pc = c.pc
      /\ Broke(c, TRUE).broken = TRUE /\ Broke(c, TRUE).defies = c.defies
  BY <1>2, NoteRow
<1>5. \A j \in Call :
        LET s == Shared(call[j], FALSE)
        IN  /\ s \in CallRow /\ CallFields(s, call[j])
            /\ s.pc = call[j].pc /\ s.owner = call[j].owner
            /\ s.until = call[j].until /\ s.alone = FALSE
            /\ s.broken = call[j].broken /\ s.defies = call[j].defies
  BY <1>1, NoteRow
<1>6. call' \in [Call -> CallRow]
  BY <1>1, <1>3, <1>4, <1>5
<1>7. call'[k] = Broke(c, TRUE)
  BY <1>3
<1>8. \A j \in Call \ {k} : call'[j] = IF InTmux(j) THEN Shared(call[j], FALSE) ELSE call[j]
  BY <1>3
<1>9. \A j \in Call \ {k} :
         /\ CallFields(call'[j], call[j])
         /\ call'[j].pc = call[j].pc /\ call'[j].owner = call[j].owner
         /\ call'[j].until = call[j].until /\ call'[j].defies = call[j].defies
         /\ call'[j].broken = call[j].broken
         /\ InTmux(j) => ~call'[j].alone
         /\ ~InTmux(j) => call'[j] = call[j]
  <2> TAKE j \in Call \ {k}
  <2>1. CASE InTmux(j)
    BY <1>5, <1>8, <2>1
  <2>2. CASE ~InTmux(j)
    BY <1>8, <2>2 DEF CallFields
  <2> QED
    BY <2>1, <2>2
<1>10. CallFields(call'[k], call[k]) /\ call'[k].defies = call[k].defies
       /\ call'[k].pc = "error" /\ call'[k].broken
  BY <1>2, <1>4, <1>7 DEF CallFields
<1> QED
  BY <1>6, <1>9, <1>10

(* WriteEnds and Resolves.                                                  *)
LEMMA ReplyCalls ==
    ASSUME LeaseTypeOK, NEW k \in Call, WriteEnds(k) \/ Resolves(k)
    PROVE  /\ call' \in [Call -> CallRow] /\ \A j \in Call \ {k} : call'[j] = call[j]
           /\ CallFields(call'[k], call[k]) /\ call'[k].alone = call[k].alone
           /\ call'[k].broken = call[k].broken /\ call'[k].defies = call[k].defies
           /\ call'[k].pc \in {"resolve", "ok"}
           /\ call'[k].pc = "resolve" => call[k].op = "submit"
           /\ call'[k].pc = "ok" /\ call[k].op = "submit" => call[k].pc = "resolve"
<1>1. call \in [Call -> CallRow] /\ {"resolve", "ok"} \subseteq CallPc
  BY DEF LeaseTypeOK, CallPc, Ended
<1>2. PICK pc \in {"resolve", "ok"} :
         /\ call' = [call EXCEPT ![k] = At(k, pc)] /\ (pc = "resolve" => call[k].op = "submit")
         /\ pc = "ok" /\ call[k].op = "submit" => call[k].pc = "resolve"
  BY DEF WriteEnds, Resolves, Moves
<1>3. /\ At(k, pc) \in CallRow /\ At(k, pc).pc = pc /\ CallFields(At(k, pc), call[k])
      /\ At(k, pc).alone = call[k].alone
      /\ At(k, pc).broken = call[k].broken /\ At(k, pc).defies = call[k].defies
  BY <1>1, AtRow
<1> QED
  BY <1>1, <1>2, <1>3

(* What a call has beside its lease.                                        *)
WriteFields(c, d) ==
    /\ c.pc = d.pc /\ c.op = d.op /\ c.request = d.request /\ c.owner = d.owner
    /\ c.alone = d.alone /\ c.broken = d.broken /\ c.defies = d.defies

(* A lease that is forgotten.                                               *)
Forgot(c) == [c EXCEPT !.lease = NoLease, !.forced = FALSE]
LEMMA ForgotRow ==
    ASSUME NEW c \in CallRow
    PROVE  /\ Forgot(c) \in CallRow /\ WriteFields(Forgot(c), c) /\ Forgot(c).until = c.until
           /\ Forgot(c).raced = c.raced
           /\ Forgot(c).lease = NoLease /\ Forgot(c).forced = FALSE
  BY DEF CallRow, WriteFields, Forgot

(* The calls whose lease was taken over forget it and keep the rest.        *)
LEMMA ForgetCalls ==
    ASSUME call \in [Call -> CallRow], NEW ks \in SUBSET Call
    PROVE  /\ Forget(ks) \in [Call -> CallRow]
           /\ \A j \in Call : /\ WriteFields(Forget(ks)[j], call[j])
                              /\ Forget(ks)[j].until = call[j].until
                              /\ Forget(ks)[j].raced = call[j].raced
           /\ \A j \in ks : Forget(ks)[j].lease = NoLease
           /\ \A j \in Call \ ks : Forget(ks)[j] = call[j]
<1>1. Forget(ks) = [j \in Call |-> IF j \in ks THEN Forgot(call[j]) ELSE call[j]]
  BY DEF Forget, Forgot
<1>2. \A j \in Call : /\ Forgot(call[j]) \in CallRow /\ WriteFields(Forgot(call[j]), call[j])
                      /\ Forgot(call[j]).until = call[j].until
                      /\ Forgot(call[j]).raced = call[j].raced
                      /\ Forgot(call[j]).lease = NoLease
  BY ForgotRow
<1>3. \A j \in Call : WriteFields(call[j], call[j])
  BY DEF WriteFields
<1> QED
  BY <1>1, <1>2, <1>3

(* What acquire builds, or the error it ends with.                          *)
Acquires(op, owner, force, lease) ==
    [NewCall EXCEPT !.op = op, !.owner = owner, !.pc = "store", !.forced = force, !.lease = lease]
Failed(op) == [NewCall EXCEPT !.pc = "error", !.op = op]
LEMMA FailedRow ==
    ASSUME NEW op \in {"acquire", "renew"}
    PROVE  /\ Failed(op) \in CallRow /\ Failed(op).pc = "error" /\ Failed(op).op = op
           /\ Failed(op).lease = NoLease /\ Failed(op).defies = FALSE /\ Failed(op).raced = FALSE
  BY DEF Failed, CallRow, CallPc, NewCall, NoRequest, Ended

(* An acquire that reads takes one row and disturbs the others at most by   *)
(* taking their lease over.                                                 *)
Acquiring(k) ==
    \E owner \in Owner, op \in {"acquire", "renew"}, force \in BOOLEAN, ttl \in Ttl, id \in LeaseId :
        AcquireRead(k, op, owner, force, ttl, id)
LEMMA AcquireReadCalls ==
    ASSUME LeaseTypeOK, IsFiniteSet(leases), NEW k \in Call, Acquiring(k)
    PROVE  /\ call' \in [Call -> CallRow]
           /\ \A j \in Call \ {k} :
                 /\ WriteFields(call'[j], call[j]) /\ call'[j].until = call[j].until
                 /\ call'[j].raced = call[j].raced
                 /\ j \notin Granted => call'[j] = call[j]
                 /\ call'[j] = call[j] \/ call'[j].lease = NoLease
           /\ call'[k].op \in {"acquire", "renew"}
           /\ call'[k].raced = FALSE /\ call'[k].defies = FALSE
           /\ \/ call'[k].pc = "error" /\ call'[k].lease = NoLease
              \/ /\ call'[k].pc = "store" /\ call'[k].lease \in LeaseRow
                 /\ call'[k].lease.expires > now
                 /\ call'[k].lease.version = get_for_session.version + 1
                 /\ leases # {} => call'[k].lease.id = get_for_session.id
                 /\ call'[k].forced => \A j \in Granted \ {k} : call'[j].lease = NoLease
                 /\ call'[k].forced \/ get_for_session.expires <= now
<1>0. PICK owner \in Owner, op \in {"acquire", "renew"}, force \in BOOLEAN, ttl \in Ttl, id \in LeaseId :
         AcquireRead(k, op, owner, force, ttl, id)
  BY DEF Acquiring
<1> DEFINE before == IF force THEN Forget(Granted) ELSE call
           lease == [id |-> id, owner |-> owner, expires |-> now + ttl,
                     version |-> get_for_session.version + 1]
<1>1. call \in [Call -> CallRow] /\ now \in Nat
  BY LeaseAssumption DEF LeaseTypeOK
<1>2. lease \in LeaseRow
  <2>1. now + ttl \in Nat /\ get_for_session.version + 1 \in Nat \ {0}
    BY <1>1, LeaseAssumption, SessionLease
  <2> QED
    BY <2>1 DEF LeaseRow
<1>3. lease.id = id /\ lease.expires = now + ttl /\ lease.version = get_for_session.version + 1
  OBVIOUS
<1> HIDE DEF lease
<1>4. /\ before \in [Call -> CallRow]
      /\ \A j \in Call : /\ WriteFields(before[j], call[j]) /\ before[j].until = call[j].until
                         /\ before[j].raced = call[j].raced
                         /\ j \notin Granted => before[j] = call[j]
                         /\ force /\ j \in Granted => before[j].lease = NoLease
                         /\ ~force => before[j] = call[j]
  <2>1. Granted \subseteq Call
    BY DEF Granted
  <2>2. CASE force
    BY <1>1, <2>1, <2>2, ForgetCalls
  <2>3. CASE ~force
    BY <1>1, <2>3 DEF WriteFields
  <2> QED
    BY <2>2, <2>3
<1>5. call' = [before EXCEPT ![k] =
                 IF Conflicts(get_for_session, force) THEN Failed(op)
                 ELSE Acquires(op, owner, force, lease)]
  BY <1>0 DEF AcquireRead, Failed, Acquires, lease
<1> HIDE DEF before
<1>6. \A j \in Call \ {k} : call'[j] = before[j]
  BY <1>4, <1>5
<1>7. CASE Conflicts(get_for_session, force)
  <2>1. call'[k] = Failed(op)
    BY <1>4, <1>5, <1>7
  <2>2. /\ Failed(op) \in CallRow /\ Failed(op).pc = "error" /\ Failed(op).op = op
        /\ Failed(op).lease = NoLease /\ Failed(op).defies = FALSE /\ Failed(op).raced = FALSE
    BY FailedRow
  <2> QED
    BY <1>4, <1>5, <1>6, <1>7, <2>1, <2>2
<1>8. CASE ~Conflicts(get_for_session, force)
  <2> DEFINE c == Acquires(op, owner, force, lease)
  <2>1. call'[k] = c
    BY <1>4, <1>5, <1>8
  <2>2. /\ c \in CallRow /\ c.pc = "store" /\ c.op = op /\ c.forced = force
        /\ c.lease = lease /\ c.raced = FALSE /\ c.defies = FALSE
    BY <1>2 DEF Acquires, CallRow, CallPc, NewCall, NoRequest
  <2>e. lease.expires > now /\ (leases # {} => lease.id = get_for_session.id)
    BY <1>0, <1>1, <1>3, LeaseAssumption, SessionLease DEF AcquireRead
  <2>f. force \/ get_for_session.expires <= now
    BY <1>1, <1>8, SessionLease DEF Conflicts
  <2> HIDE DEF c
  <2>3. call' \in [Call -> CallRow]
    BY <1>4, <1>5, <1>8, <2>2 DEF c
  <2>4. \A j \in Call \ {k} :
           /\ WriteFields(call'[j], call[j]) /\ call'[j].until = call[j].until
           /\ call'[j].raced = call[j].raced
           /\ j \notin Granted => call'[j] = call[j]
           /\ call'[j] = call[j] \/ call'[j].lease = NoLease
    BY <1>4, <1>6
  <2>5. force => \A j \in Granted \ {k} : call'[j].lease = NoLease
    <3>1. Granted \subseteq Call
      BY DEF Granted
    <3> QED
      BY <1>4, <1>6, <3>1
  <2>6. /\ call'[k].op \in {"acquire", "renew"} /\ ~call'[k].raced /\ ~call'[k].defies
        /\ call'[k].raced = FALSE /\ call'[k].defies = FALSE
        /\ call'[k].pc = "store" /\ call'[k].lease = lease /\ call'[k].forced = force
    BY <2>1, <2>2
  <2>7. call'[k].forced => \A j \in Granted \ {k} : call'[j].lease = NoLease
    BY <2>5, <2>6
  <2>8. call'[k].forced \/ get_for_session.expires <= now
    BY <2>f, <2>6
  <2> QED
    BY <1>2, <1>3, <2>3, <2>4, <2>6, <2>7, <2>8, <2>e
<1> QED
  BY <1>7, <1>8

(* upsert: the acquire ends, others that have read are raced.               *)
Stored(c, lease, forced) == [c EXCEPT !.lease = lease, !.forced = forced, !.raced = FALSE]
Overlapped(c, raced, until) == [c EXCEPT !.raced = raced, !.until = until]
LEMMA StoredRow ==
    ASSUME NEW c \in CallRow, NEW lease \in LeaseRow \cup {NoLease}, NEW b \in BOOLEAN
    PROVE  /\ Stored(c, lease, b) \in CallRow /\ WriteFields(Stored(c, lease, b), c)
           /\ Stored(c, lease, b).lease = lease /\ Stored(c, lease, b).forced = b
  BY DEF Stored, CallRow, WriteFields

(* A call another acquire has overlapped.                                   *)
LEMMA OverlappedRow ==
    ASSUME NEW c \in CallRow, NEW b \in BOOLEAN, NEW u \in Nat
    PROVE  /\ Overlapped(c, b, u) \in CallRow /\ WriteFields(Overlapped(c, b, u), c)
           /\ Overlapped(c, b, u).lease = c.lease /\ Overlapped(c, b, u).forced = c.forced
           /\ Overlapped(c, b, u).raced = b /\ Overlapped(c, b, u).until = u
  BY DEF Overlapped, CallRow, WriteFields

(* An acquire that stores marks the acquires it races with, and no others.  *)
StoreRaced(k) == call[k].raced \/ Storing \ {k} # {} \/ call[k].lease.expires <= now
LEMMA AcquireStoreCalls ==
    ASSUME LeaseTypeOK, NEW k \in Call, AcquireStore(k)
    PROVE  /\ call' \in [Call -> CallRow]
           /\ \A j \in Call \ {k} :
                 /\ WriteFields(call'[j], call[j])
                 /\ call'[j].lease = call[j].lease /\ call'[j].forced = call[j].forced
                 /\ j \in Storing => call'[j].raced
                 /\ StoreRaced(k) \/ call[k].forced => call'[j].until = 0
                 /\ ~(StoreRaced(k) \/ call[k].forced) => call'[j].until = call[j].until
                 /\ call[j].pc = "new" => call'[j] = NewCall
           /\ call'[k].op = call[k].op /\ call'[k].request = call[k].request
           /\ call'[k].defies = call[k].defies
           /\ call'[k].pc = IF call[k].op = "renew" THEN "validate" ELSE "ok"
           /\ StoreRaced(k) => call'[k].lease = NoLease
           /\ ~StoreRaced(k) => call'[k].lease = call[k].lease /\ call'[k].forced = call[k].forced
<1>1. /\ call \in [Call -> CallRow] /\ {"validate", "ok"} \subseteq CallPc
      /\ \A j \in Call : /\ call[j].until \in Nat /\ call[j].forced \in BOOLEAN
                         /\ call[j].raced \in BOOLEAN /\ call[j].lease \in LeaseRow \cup {NoLease}
                         /\ call[j].pc = "new" => call[j] = NewCall
  BY DEF LeaseTypeOK, CallPc, Ended, CallRow
<1> DEFINE pc == IF call[k].op = "renew" THEN "validate" ELSE "ok"
           c == At(k, pc)
           lease == IF StoreRaced(k) THEN NoLease ELSE call[k].lease
           f == call[k].forced /\ ~StoreRaced(k)
           r == [j \in Call |-> call[j].raced \/ j \in Storing \ {k}]
           u == [j \in Call |-> IF StoreRaced(k) \/ call[k].forced THEN 0 ELSE call[j].until]
<1>2. /\ c \in CallRow /\ c.pc = pc /\ CallFields(c, call[k]) /\ c.defies = call[k].defies
  BY <1>1, AtRow
<1>3. c.forced = call[k].forced /\ c.op = call[k].op /\ c.request = call[k].request
  BY <1>2 DEF CallFields
<1>4. call' = [j \in Call |-> IF j = k THEN Stored(c, lease, f)
                              ELSE Overlapped(call[j], r[j], u[j])]
  BY <1>3 DEF AcquireStore, Stored, Overlapped, StoreRaced
<1>5. /\ lease \in LeaseRow \cup {NoLease} /\ f \in BOOLEAN
      /\ r \in [Call -> BOOLEAN] /\ u \in [Call -> Nat]
  BY <1>1
<1> HIDE DEF c, lease, r, u
<1>6. /\ Stored(c, lease, f) \in CallRow /\ WriteFields(Stored(c, lease, f), c)
      /\ Stored(c, lease, f).lease = lease /\ Stored(c, lease, f).forced = f
  BY <1>2, <1>5, StoredRow
<1>7. \A j \in Call :
         LET o == Overlapped(call[j], r[j], u[j])
         IN  /\ o \in CallRow /\ WriteFields(o, call[j])
             /\ o.lease = call[j].lease /\ o.forced = call[j].forced
             /\ o.raced = r[j] /\ o.until = u[j]
  <2> TAKE j \in Call
  <2>1. call[j] \in CallRow /\ r[j] \in BOOLEAN /\ u[j] \in Nat
    BY <1>1, <1>5
  <2> QED
    BY <2>1, OverlappedRow, Zenon
<1>8. call' \in [Call -> CallRow]
  BY <1>4, <1>6, <1>7
<1>9. call'[k] = Stored(c, lease, f) /\ \A j \in Call \ {k} : call'[j] = Overlapped(call[j], r[j], u[j])
  BY <1>4
<1>10. \A j \in Call \ {k} :
          /\ WriteFields(call'[j], call[j])
          /\ call'[j].lease = call[j].lease /\ call'[j].forced = call[j].forced
          /\ j \in Storing => call'[j].raced
          /\ StoreRaced(k) \/ call[k].forced => call'[j].until = 0
          /\ ~(StoreRaced(k) \/ call[k].forced) => call'[j].until = call[j].until
  <2> TAKE j \in Call \ {k}
  <2>1. /\ WriteFields(call'[j], call[j]) /\ call'[j].lease = call[j].lease
        /\ call'[j].forced = call[j].forced /\ call'[j].raced = r[j] /\ call'[j].until = u[j]
    BY <1>7, <1>9
  <2>2. j \in Storing => r[j]
    BY DEF r
  <2>3. u[j] = IF StoreRaced(k) \/ call[k].forced THEN 0 ELSE call[j].until
    BY DEF u
  <2> QED
    BY <2>1, <2>2, <2>3
<1>11. \A j \in Call \ {k} : call[j].pc = "new" => call'[j] = NewCall
  <2> SUFFICES ASSUME NEW j \in Call \ {k}, call[j].pc = "new" PROVE call'[j] = NewCall
    OBVIOUS
  <2>1. call[j] = NewCall /\ j \notin Storing /\ ~call[j].raced /\ call[j].until = 0
    BY <1>1 DEF Storing, NewCall
  <2>2. u[j] = 0 /\ r[j] = FALSE
    BY <1>5, <2>1 DEF u, r
  <2>3. call'[j] = Overlapped(NewCall, FALSE, 0)
    BY <1>9, <2>1, <2>2
  <2> QED
    BY <2>3 DEF Overlapped, NewCall
<1>12. /\ call'[k].op = call[k].op /\ call'[k].request = call[k].request
       /\ call'[k].defies = call[k].defies /\ call'[k].pc = pc
  BY <1>2, <1>3, <1>6, <1>9 DEF WriteFields
<1>13. /\ StoreRaced(k) => call'[k].lease = NoLease
       /\ ~StoreRaced(k) => call'[k].lease = call[k].lease /\ call'[k].forced = call[k].forced
  <2>1. CASE StoreRaced(k)
    BY <1>6, <1>9, <2>1 DEF lease
  <2>2. CASE ~StoreRaced(k)
    BY <1>1, <1>6, <1>9, <2>2 DEF lease
  <2> QED
    BY <2>1, <2>2
<1> QED
  BY <1>8, <1>10, <1>11, <1>12, <1>13

(* A restart loses what is under way.                                       *)
Lost(op, request) == [NewCall EXCEPT !.pc = "lost", !.op = op, !.request = request]
LEMMA BrokerLeasesCalls ==
    ASSUME LeaseTypeOK, BrokerLeases
    PROVE  /\ call' \in [Call -> CallRow]
           /\ \A j \in Call :
                 \/ /\ call[j].pc \in Ended \cup {"new"} /\ call'[j] = call[j]
                 \/ /\ call[j].pc \notin Ended \cup {"new"}
                    /\ call'[j].pc = "lost" /\ call'[j].op = call[j].op
                    /\ call'[j].request = call[j].request
                    /\ call'[j].lease = NoLease /\ call'[j].defies = FALSE
<1>1. call \in [Call -> CallRow]
  BY DEF LeaseTypeOK
<1>2. \A j \in Call : LET l == Lost(call[j].op, call[j].request)
                      IN  /\ l \in CallRow /\ l.pc = "lost" /\ l.op = call[j].op
                          /\ l.request = call[j].request /\ l.lease = NoLease /\ l.defies = FALSE
  BY <1>1 DEF Lost, CallRow, CallPc, Ended, NewCall
<1>3. call' = [j \in Call |-> IF call[j].pc \in Ended \cup {"new"} THEN call[j]
                              ELSE Lost(call[j].op, call[j].request)]
  BY DEF BrokerLeases, Lost
<1> QED
  BY <1>1, <1>2, <1>3

(* A validated call is one that has just begun, or the renewed one.         *)
LEMMA ValidatedBegins ==
    ASSUME LeaseTypeOK, NEW k \in Call,
           \/ \E owner \in Owner : Write(k, owner)
           \/ \E owner \in Owner, r \in Request : SubmitInput(k, owner, r)
           \/ RenewedWrite(k)
    PROVE  \E begun \in CallRow :
             /\ Validated(k, begun) /\ begun.op \in {"renew", "write", "submit"}
             /\ begun.lease = call[k].lease /\ begun.forced = call[k].forced
             /\ begun.raced = call[k].raced /\ begun.defies = call[k].defies
             /\ begun.op = "submit" => /\ begun.request \in Request
                                       /\ requests[begun.request] # "absent"
             /\ call[k].pc \in {"new", "validate"}
<1>1. call[k] \in CallRow /\ (call[k].pc = "new" => call[k] = NewCall)
      /\ (call[k].pc = "validate" => call[k].op = "renew")
  BY DEF LeaseTypeOK
<1>2. ASSUME NEW owner \in Owner, Write(k, owner)
      PROVE  \E begun \in CallRow :
               /\ Validated(k, begun) /\ begun.op = "write"
               /\ begun.lease = call[k].lease /\ begun.forced = call[k].forced
               /\ begun.raced = call[k].raced /\ begun.defies = call[k].defies
               /\ call[k].pc = "new"
  <2> DEFINE begun == [NewCall EXCEPT !.op = "write", !.owner = owner]
  <2>1. /\ begun \in CallRow /\ begun.op = "write"
        /\ begun.lease = NewCall.lease /\ begun.forced = NewCall.forced
        /\ begun.raced = NewCall.raced /\ begun.defies = NewCall.defies
    BY NewCallOK DEF CallRow
  <2>2. Validated(k, begun) /\ call[k].pc = "new"
    BY <1>2 DEF Write
  <2> HIDE DEF begun
  <2> QED
    BY <1>1, <2>1, <2>2
<1>3. ASSUME NEW owner \in Owner, NEW r \in Request, SubmitInput(k, owner, r)
      PROVE  \E begun \in CallRow :
               /\ Validated(k, begun) /\ begun.op = "submit"
               /\ begun.lease = call[k].lease /\ begun.forced = call[k].forced
               /\ begun.raced = call[k].raced /\ begun.defies = call[k].defies
               /\ begun.request = r /\ requests[r] # "absent"
               /\ call[k].pc = "new"
  <2> DEFINE begun == [NewCall EXCEPT !.op = "submit", !.owner = owner, !.request = r]
  <2>1. /\ begun \in CallRow /\ begun.op = "submit" /\ begun.request = r
        /\ begun.lease = NewCall.lease /\ begun.forced = NewCall.forced
        /\ begun.raced = NewCall.raced /\ begun.defies = NewCall.defies
    BY NewCallOK DEF CallRow
  <2>2. Validated(k, begun) /\ call[k].pc = "new" /\ requests[r] # "absent"
    BY <1>3 DEF SubmitInput
  <2> HIDE DEF begun
  <2> QED
    BY <1>1, <2>1, <2>2
<1>4. ASSUME RenewedWrite(k)
      PROVE  Validated(k, call[k]) /\ call[k].pc = "validate"
  BY <1>4 DEF RenewedWrite
<1> QED
  BY <1>1, <1>2, <1>3, <1>4

(* The actions that leave the leases and the time alone, and every call's  *)
(* part in an acquire.                                                      *)
QuietLease ==
    /\ UNCHANGED <<leases, now>> /\ call' \in [Call -> CallRow]
    /\ \A j \in Call : /\ call'[j].lease = call[j].lease /\ call'[j].forced = call[j].forced
                       /\ call'[j].raced = call[j].raced
                       /\ call'[j].pc = "store" <=> call[j].pc = "store"

(* The types.                                                               *)
LEMMA LeaseTypeStep ==
    ASSUME LeaseTypeOK, IsFiniteSet(leases), LeaseNext \/ BrokerLeases
    PROVE  LeaseTypeOK'
<1>0. /\ call \in [Call -> CallRow] /\ \A k \in Call : CallOK(call[k])
      /\ \A k \in Call : call[k].op = "submit" => requests[call[k].request] # "absent"
      /\ backend \in Backend /\ attached \in BOOLEAN /\ shell \in BOOLEAN
      /\ now \in 0..MaxClock /\ failures \in 0..MaxFailures
      /\ leases \subseteq LeaseRow /\ \A a, b \in leases : a.id = b.id => a = b
      /\ buffer \in Call \cup {NoData} /\ pasted \in Seq(Call)
      /\ requests \in [Request -> {"absent", "PENDING", "RESOLVED"}]
      /\ buffer # NoData => backend = "tmux"
  BY DEF LeaseTypeOK, CallOK
<1>n. MaxClock \in Nat /\ MaxFailures \in Nat /\ CallOK(NewCall)
  BY LeaseAssumption DEF CallOK, NewCall
<1>a. \A k \in Call : Append(pasted, k) \in Seq(Call)
  BY <1>0
<1>1. ASSUME NEW k \in Call, Acquiring(k) PROVE LeaseTypeOK'
  <2>1. UNCHANGED <<backend, attached, shell, leases, now, buffer, pasted, requests, failures>>
    BY <1>1 DEF Acquiring, AcquireRead
  <2>2. /\ call' \in [Call -> CallRow]
        /\ \A j \in Call \ {k} : /\ WriteFields(call'[j], call[j])
                                 /\ j \notin Granted => call'[j] = call[j]
        /\ call'[k].op \in {"acquire", "renew"}
        /\ call'[k].pc = "error" \/ (call'[k].pc = "store" /\ call'[k].lease \in LeaseRow)
    BY <1>1, AcquireReadCalls
  <2>3. \A j \in Granted : call[j].pc \notin {"new", "store"}
    BY <1>0 DEF Granted, Storing, CallOK, NewCall
  <2>4. CallOK(call'[k])
    <3>1. NoLease \notin LeaseRow
      BY DEF NoLease, LeaseRow, LeaseId
    <3> QED
      BY <2>2, <3>1 DEF CallOK
  <2>5. \A j \in Call \ {k} : CallOK(call'[j])
    BY <1>0, <2>2, <2>3 DEF CallOK, WriteFields
  <2>6. \A j \in Call : call'[j].op = "submit" => requests'[call'[j].request] # "absent"
    BY <1>0, <2>1, <2>2 DEF WriteFields
  <2> QED
    BY <1>0, <2>1, <2>2, <2>4, <2>5, <2>6, TypeFromCalls
<1>2. ASSUME NEW k \in Call, NEW begun \in CallRow, Validated(k, begun),
             begun.op \in {"renew", "write", "submit"},
             begun.op = "submit" => /\ begun.request \in Request
                                    /\ requests[begun.request] # "absent"
      PROVE  LeaseTypeOK'
  <2>1. UNCHANGED <<backend, attached, shell, leases, now, buffer, pasted, requests, failures>>
    BY <1>2 DEF Validated
  <2>2. /\ call'[k] \in CallRow /\ call' = [call EXCEPT ![k] = call'[k]]
        /\ call'[k].pc \in {"set", "error"}
        /\ call'[k].op = begun.op /\ call'[k].request = begun.request
    BY <1>2, ValidatedCall
  <2>3. call' \in [Call -> CallRow] /\ \A j \in Call \ {k} : call'[j] = call[j]
    BY <1>0, <2>2
  <2>4. CallOK(call'[k])
    BY <1>2, <2>2 DEF CallOK
  <2>5. \A j \in Call : call'[j].op = "submit" => requests'[call'[j].request] # "absent"
    BY <1>0, <1>2, <2>1, <2>2, <2>3
  <2> QED
    BY <1>0, <2>1, <2>3, <2>4, <2>5, TypeFromCalls
<1>3. ASSUME NEW k \in Call, AcquireStore(k) PROVE LeaseTypeOK'
  <2>1. UNCHANGED <<backend, attached, shell, now, buffer, pasted, requests, failures>>
    BY <1>3 DEF AcquireStore
  <2>2. call[k].lease \in LeaseRow /\ call[k].op \in {"acquire", "renew"}
    BY <1>0, <1>3 DEF AcquireStore, CallOK, CallRow
  <2>3. leases' \subseteq LeaseRow /\ \A a, b \in leases' : a.id = b.id => a = b
    BY <1>0, <1>3, <2>2 DEF AcquireStore, Upserted
  <2>4. /\ call' \in [Call -> CallRow]
        /\ \A j \in Call \ {k} : /\ WriteFields(call'[j], call[j])
                                 /\ call'[j].lease = call[j].lease
                                 /\ call[j].pc = "new" => call'[j] = NewCall
        /\ call'[k].op = call[k].op /\ call'[k].request = call[k].request
        /\ call'[k].pc = IF call[k].op = "renew" THEN "validate" ELSE "ok"
    BY <1>3, AcquireStoreCalls
  <2>5. CallOK(call'[k])
    BY <2>2, <2>4 DEF CallOK
  <2>6. \A j \in Call \ {k} : CallOK(call'[j])
    BY <1>0, <2>4 DEF CallOK, WriteFields
  <2>7. \A j \in Call : call'[j].op = "submit" => requests'[call'[j].request] # "absent"
    BY <1>0, <2>1, <2>4 DEF WriteFields
  <2> QED
    BY <1>0, <2>1, <2>3, <2>4, <2>5, <2>6, <2>7, TypeFromCalls
<1>4. ASSUME NEW k \in Call, WriteBegins(k) PROVE LeaseTypeOK'
  <2>1. UNCHANGED <<backend, shell, leases, now, requests, failures>> /\ call[k].pc = "set"
    BY <1>4 DEF WriteBegins
  <2>2. /\ call' \in [Call -> CallRow]
        /\ \A j \in Call : CallFields(call'[j], call[j])
        /\ \A j \in Call \ {k} : call'[j].pc = call[j].pc /\ (~InTmux(j) => call'[j] = call[j])
    BY <1>4, WriteBeginsCalls
  <2>3. \/ call'[k].pc \in {"error", "touch"} /\ UNCHANGED <<attached, buffer>>
           /\ pasted' \in {pasted, Append(pasted, k)}
        \/ call'[k].pc = "paste" /\ attached' = TRUE /\ buffer' = k /\ UNCHANGED pasted
           /\ backend = "tmux"
    BY <1>4, WriteBeginsCalls
  <2>4. CallOK(call'[k])
    BY <1>0, <2>1, <2>2, <2>3 DEF CallOK, CallFields
  <2>5. \A j \in Call \ {k} : CallOK(call'[j])
    BY <1>0, <2>2 DEF CallOK, CallFields, InTmux
  <2>6. \A j \in Call : call'[j].op = "submit" => requests'[call'[j].request] # "absent"
    BY <1>0, <2>1, <2>2 DEF CallFields
  <2>7. /\ attached' \in BOOLEAN /\ buffer' \in Call \cup {NoData} /\ pasted' \in Seq(Call)
        /\ buffer' # NoData => backend' = "tmux"
    BY <1>0, <1>a, <2>1, <2>3
  <2> QED
    BY <1>0, <2>1, <2>2, <2>4, <2>5, <2>6, <2>7, TypeFromCalls
<1>5. ASSUME NEW k \in Call, WritePastes(k) PROVE LeaseTypeOK'
  <2>1. UNCHANGED <<backend, attached, shell, leases, now, requests, failures>> /\ call[k].pc = "paste"
    BY <1>5 DEF WritePastes, InTmux
  <2>2. /\ call' \in [Call -> CallRow] /\ \A j \in Call \ {k} : call'[j] = call[j]
        /\ CallFields(call'[k], call[k]) /\ call'[k].pc \in {"error", "touch"}
        /\ \/ UNCHANGED <<pasted, buffer>>
           \/ buffer # NoData /\ pasted' = Append(pasted, buffer) /\ buffer' = NoData
    BY <1>5, WritePastesCalls
  <2>4. CallOK(call'[k])
    BY <1>0, <2>1, <2>2 DEF CallOK, CallFields
  <2>6. \A j \in Call : call'[j].op = "submit" => requests'[call'[j].request] # "absent"
    BY <1>0, <2>1, <2>2 DEF CallFields
  <2>7. /\ buffer' \in Call \cup {NoData} /\ pasted' \in Seq(Call)
        /\ buffer' # NoData => backend' = "tmux"
    BY <1>0, <1>a, <2>1, <2>2
  <2> QED
    BY <1>0, <2>1, <2>2, <2>4, <2>6, <2>7, TypeFromCalls
<1>6. ASSUME NEW k \in Call, CommandFails(k) PROVE LeaseTypeOK'
  <2>1. /\ UNCHANGED <<backend, attached, shell, leases, now, requests>> /\ call[k].pc \in {"set", "paste"}
        /\ failures < MaxFailures /\ failures' = failures + 1 /\ backend = "tmux"
        /\ buffer' \in {buffer, k, NoData}
        /\ pasted' = pasted \/ (buffer # NoData /\ pasted' = Append(pasted, buffer))
    BY <1>6 DEF CommandFails, InTmux, Filled, AfterPaste
  <2>2. /\ call' \in [Call -> CallRow]
        /\ \A j \in Call : CallFields(call'[j], call[j])
        /\ \A j \in Call \ {k} : call'[j].pc = call[j].pc /\ (~InTmux(j) => call'[j] = call[j])
        /\ call'[k].pc = "error"
    BY <1>6, CommandFailsCalls
  <2>4. CallOK(call'[k])
    BY <1>0, <2>2 DEF CallOK, CallFields
  <2>5. \A j \in Call \ {k} : CallOK(call'[j])
    BY <1>0, <2>2 DEF CallOK, CallFields, InTmux
  <2>6. \A j \in Call : call'[j].op = "submit" => requests'[call'[j].request] # "absent"
    BY <1>0, <2>1, <2>2 DEF CallFields
  <2>7. /\ buffer' \in Call \cup {NoData} /\ pasted' \in Seq(Call)
        /\ buffer' # NoData => backend' = "tmux"
    BY <1>0, <1>a, <2>1
  <2>8. failures' \in 0..MaxFailures
    BY <1>0, <1>n, <2>1
  <2> QED
    BY <1>0, <2>1, <2>2, <2>4, <2>5, <2>6, <2>7, <2>8, TypeFromCalls
<1>7. ASSUME NEW k \in Call, WriteEnds(k) \/ Resolves(k) PROVE LeaseTypeOK'
  <2>1. /\ UNCHANGED <<backend, attached, shell, leases, now, buffer, pasted, failures>>
        /\ requests' \in {requests, [requests EXCEPT ![call[k].request] = "RESOLVED"]}
    BY <1>7 DEF WriteEnds, Resolves
  <2>2. /\ call' \in [Call -> CallRow] /\ \A j \in Call \ {k} : call'[j] = call[j]
        /\ CallFields(call'[k], call[k]) /\ call'[k].pc \in {"resolve", "ok"}
        /\ call'[k].pc = "resolve" => call[k].op = "submit"
    BY <1>7, ReplyCalls
  <2>4. CallOK(call'[k])
    BY <1>0, <2>2 DEF CallOK, CallFields
  <2>5. /\ requests' \in [Request -> {"absent", "PENDING", "RESOLVED"}]
        /\ \A r \in Request : requests[r] # "absent" => requests'[r] # "absent"
    BY <1>0, <2>1
  <2>6. \A j \in Call : call'[j].op = "submit" => requests'[call'[j].request] # "absent"
    BY <1>0, <2>2, <2>5 DEF CallFields, CallOK
  <2> QED
    BY <1>0, <2>1, <2>2, <2>4, <2>5, <2>6, TypeFromCalls
<1>8. ASSUME NEW r \in Request, CreateRequest(r) PROVE LeaseTypeOK'
  <2>1. /\ UNCHANGED <<backend, attached, shell, leases, now, call, buffer, pasted, failures>>
        /\ requests' = [requests EXCEPT ![r] = "PENDING"]
    BY <1>8 DEF CreateRequest
  <2>2. /\ requests' \in [Request -> {"absent", "PENDING", "RESOLVED"}]
        /\ \A q \in Request : requests[q] # "absent" => requests'[q] # "absent"
    BY <1>0, <2>1
  <2>3. \A j \in Call : call'[j].op = "submit" => requests'[call'[j].request] # "absent"
    BY <1>0, <2>1, <2>2 DEF CallOK
  <2> QED
    BY <1>0, <2>1, <2>2, <2>3, TypeFromCalls
<1>9. ASSUME Tick PROVE LeaseTypeOK'
  <2> DEFINE ks == {k \in Granted : call[k].lease.expires <= now'}
  <2>1. /\ UNCHANGED <<backend, attached, shell, leases, buffer, pasted, requests, failures>>
        /\ now' \in 0..MaxClock /\ call' = Forget(ks)
    BY <1>0, <1>9, <1>n DEF Tick
  <2>2. ks \in SUBSET Call /\ \A j \in ks : call[j].pc \notin {"new", "store"}
    BY <1>0 DEF Granted, Storing, CallOK, NewCall
  <2> HIDE DEF ks
  <2>3. /\ call' \in [Call -> CallRow] /\ \A j \in Call : WriteFields(call'[j], call[j])
        /\ \A j \in Call \ ks : call'[j] = call[j]
    BY <1>0, <2>1, <2>2, ForgetCalls
  <2>4. \A j \in Call : CallOK(call'[j])
    BY <1>0, <2>2, <2>3 DEF CallOK, WriteFields
  <2>5. \A j \in Call : call'[j].op = "submit" => requests'[call'[j].request] # "absent"
    BY <1>0, <2>1, <2>3 DEF WriteFields
  <2> QED
    BY <1>0, <2>1, <2>3, <2>4, <2>5, TypeFromCalls
<1>10. ASSUME ShellEnds PROVE LeaseTypeOK'
  BY <1>0, <1>10, TypeFromCalls DEF ShellEnds
<1>11. ASSUME BrokerLeases PROVE LeaseTypeOK'
  <2>1. /\ UNCHANGED <<backend, leases, now, pasted, requests, failures>>
        /\ attached' \in BOOLEAN /\ shell' \in BOOLEAN /\ buffer' = NoData
    BY <1>11 DEF BrokerLeases
  <2>2. /\ call' \in [Call -> CallRow]
        /\ \A j \in Call : \/ call'[j] = call[j]
                           \/ /\ call'[j].pc = "lost" /\ call'[j].op = call[j].op
                              /\ call'[j].request = call[j].request
    BY <1>11, BrokerLeasesCalls
  <2>3. \A j \in Call : CallOK(call'[j])
    BY <1>0, <2>2 DEF CallOK
  <2>4. \A j \in Call : call'[j].op = "submit" => requests'[call'[j].request] # "absent"
    BY <1>0, <2>1, <2>2
  <2> QED
    BY <1>0, <2>1, <2>2, <2>3, <2>4, TypeFromCalls
<1> QED
  BY <1>1, <1>2, <1>3, <1>4, <1>5, <1>6, <1>7, <1>8, <1>9, <1>10, <1>11, ValidatedBegins
     DEF LeaseNext, Acquiring

(* The steps of a write move no lease.                                      *)
LEMMA QuietCalls ==
    ASSUME LeaseTypeOK, IsFiniteSet(leases), NEW k \in Call,
           \/ \E owner \in Owner : Write(k, owner)
           \/ \E owner \in Owner, r \in Request : SubmitInput(k, owner, r)
           \/ RenewedWrite(k) \/ WriteBegins(k) \/ WritePastes(k) \/ CommandFails(k)
           \/ WriteEnds(k) \/ Resolves(k)
    PROVE  QuietLease
<1>0. call \in [Call -> CallRow]
  BY DEF LeaseTypeOK
<1>1. ASSUME \/ \E owner \in Owner : Write(k, owner)
             \/ \E owner \in Owner, r \in Request : SubmitInput(k, owner, r)
             \/ RenewedWrite(k)
      PROVE  QuietLease
  <2>1. PICK begun \in CallRow :
             /\ Validated(k, begun) /\ begun.op \in {"renew", "write", "submit"}
             /\ begun.lease = call[k].lease /\ begun.forced = call[k].forced
             /\ begun.raced = call[k].raced
             /\ begun.op = "submit" => begun.request \in Request
             /\ call[k].pc \in {"new", "validate"}
    BY <1>1, ValidatedBegins
  <2>2. /\ call'[k] \in CallRow /\ call' = [call EXCEPT ![k] = call'[k]]
        /\ call'[k].pc \in {"set", "error"}
        /\ call'[k].lease = begun.lease /\ call'[k].forced = begun.forced
        /\ call'[k].raced = begun.raced
    BY <2>1, ValidatedCall
  <2>3. call' \in [Call -> CallRow] /\ \A j \in Call \ {k} : call'[j] = call[j]
    BY <1>0, <2>2
  <2>4. UNCHANGED <<leases, now>>
    BY <2>1 DEF Validated
  <2> QED
    BY <2>1, <2>2, <2>3, <2>4 DEF QuietLease
<1>2. ASSUME WriteBegins(k) PROVE QuietLease
  <2>1. UNCHANGED <<leases, now>> /\ call[k].pc = "set"
    BY <1>2 DEF WriteBegins
  <2>2. /\ call' \in [Call -> CallRow]
        /\ \A j \in Call : CallFields(call'[j], call[j])
        /\ \A j \in Call \ {k} : call'[j].pc = call[j].pc
        /\ call'[k].pc \in {"error", "touch", "paste"}
    BY <1>2, WriteBeginsCalls
  <2> QED
    BY <2>1, <2>2 DEF QuietLease, CallFields
<1>3. ASSUME WritePastes(k) PROVE QuietLease
  <2>1. UNCHANGED <<leases, now>> /\ call[k].pc = "paste"
    BY <1>3 DEF WritePastes, InTmux
  <2>2. /\ call' \in [Call -> CallRow] /\ \A j \in Call \ {k} : call'[j] = call[j]
        /\ CallFields(call'[k], call[k]) /\ call'[k].pc \in {"error", "touch"}
    BY <1>3, WritePastesCalls
  <2> QED
    BY <2>1, <2>2 DEF QuietLease, CallFields
<1>4. ASSUME CommandFails(k) PROVE QuietLease
  <2>1. UNCHANGED <<leases, now>> /\ call[k].pc \in {"set", "paste"}
    BY <1>4 DEF CommandFails, InTmux
  <2>2. /\ call' \in [Call -> CallRow]
        /\ \A j \in Call : CallFields(call'[j], call[j])
        /\ \A j \in Call \ {k} : call'[j].pc = call[j].pc
        /\ call'[k].pc = "error"
    BY <1>4, CommandFailsCalls
  <2> QED
    BY <2>1, <2>2 DEF QuietLease, CallFields
<1>5. ASSUME WriteEnds(k) \/ Resolves(k) PROVE QuietLease
  <2>1. UNCHANGED <<leases, now>> /\ call[k].pc \in {"touch", "resolve"}
    BY <1>5 DEF WriteEnds, Resolves
  <2>2. /\ call' \in [Call -> CallRow] /\ \A j \in Call \ {k} : call'[j] = call[j]
        /\ CallFields(call'[k], call[k]) /\ call'[k].pc \in {"resolve", "ok"}
    BY <1>5, ReplyCalls
  <2> QED
    BY <2>1, <2>2 DEF QuietLease, CallFields
<1> QED
  BY <1>1, <1>2, <1>3, <1>4, <1>5

(* Such steps keep what is known of the leases.                             *)
LEMMA QuietLeaseStep ==
    ASSUME QuietLease, GrantedIsLatest, StoringIsNext
    PROVE  GrantedIsLatest' /\ StoringIsNext' /\ get_for_session' = get_for_session
<1>1. Storing' = Storing /\ Granted' = Granted
  BY DEF QuietLease, Storing, Granted
<1>2. get_for_session' = get_for_session /\ UNCHANGED <<leases, now>>
  BY DEF QuietLease, get_for_session, Later
<1>3. \A j \in Call : /\ call'[j].lease = call[j].lease /\ call'[j].forced = call[j].forced
                      /\ call'[j].raced = call[j].raced
  BY DEF QuietLease
<1>4. Storing \subseteq Call /\ Granted \subseteq Call
  BY DEF Storing, Granted
<1>5. GrantedIsLatest'
  BY <1>1, <1>2, <1>3, <1>4 DEF GrantedIsLatest
<1>6. StoringIsNext'
  BY <1>1, <1>2, <1>3, <1>4 DEF StoringIsNext
<1> QED
  BY <1>2, <1>5, <1>6

(* While a lease is granted it is the one that the index finds.             *)
LEMMA GrantedIsFound ==
    ASSUME LeaseTypeOK, IsFiniteSet(leases), GrantedIsLatest, NEW k \in Granted
    PROVE  call[k].lease = get_for_session /\ get_for_session.expires > now
  BY SessionLease DEF GrantedIsLatest

(* Granted leases stay the latest, and acquires store the next.             *)
LEMMA LatestStep ==
    ASSUME LeaseTypeOK, IsFiniteSet(leases), GrantedIsLatest, StoringIsNext,
           LeaseNext \/ BrokerLeases
    PROVE  GrantedIsLatest' /\ StoringIsNext'
<1>0. call \in [Call -> CallRow] /\ now \in Nat
  BY LeaseAssumption DEF LeaseTypeOK
<1>r. \A a \in leases : a.version \in Nat
  BY DEF LeaseTypeOK, LeaseRow
<1>1. ASSUME NEW k \in Call, Acquiring(k) PROVE GrantedIsLatest' /\ StoringIsNext'
  <2>1. UNCHANGED <<leases, now>> /\ call[k].pc = "new" /\ get_for_session' = get_for_session
    BY <1>1 DEF Acquiring, AcquireRead, get_for_session, Later
  <2>2. /\ \A j \in Call \ {k} :
                 /\ call'[j].pc = call[j].pc
                 /\ j \notin Granted => call'[j] = call[j]
                 /\ call'[j] = call[j] \/ call'[j].lease = NoLease
        /\ \/ call'[k].pc = "error" /\ call'[k].lease = NoLease
           \/ /\ call'[k].pc = "store"
              /\ call'[k].lease.version = get_for_session.version + 1
              /\ leases # {} => call'[k].lease.id = get_for_session.id
              /\ call'[k].forced => \A j \in Granted \ {k} : call'[j].lease = NoLease
              /\ call'[k].forced \/ get_for_session.expires <= now
    BY <1>1, AcquireReadCalls DEF WriteFields
  <2>3. \A j \in Granted' : j \in Granted /\ j # k /\ call'[j] = call[j]
    BY <2>1, <2>2 DEF Granted, Storing
  <2>4. \A j \in Storing' \ {k} : j \in Storing /\ call'[j] = call[j]
    BY <2>2 DEF Granted, Storing
  <2>5. Storing' # {} => Granted' = {}
    <3>1. CASE call'[k].pc = "error"
      <4>1. k \notin Storing'
        BY <3>1 DEF Storing
      <4> QED
        BY <2>3, <2>4, <4>1 DEF GrantedIsLatest
    <3>2. CASE call'[k].pc = "store" /\ call'[k].forced
      BY <2>2, <2>3, <3>2 DEF Granted
    <3>3. CASE call'[k].pc = "store" /\ ~call'[k].forced
      <4>1. get_for_session.expires <= now
        BY <2>2, <3>3
      <4>2. Granted = {}
        BY <1>0, <4>1, GrantedIsFound, SessionLease
      <4> QED
        BY <2>3, <4>2
    <3> QED
      BY <2>2, <3>1, <3>2, <3>3
  <2>6. GrantedIsLatest'
    BY <2>1, <2>3, <2>5 DEF GrantedIsLatest
  <2>7. StoringIsNext'
    <3>1. ASSUME NEW j \in Storing', ~call'[j].raced
          PROVE  /\ call'[j].lease.version = get_for_session.version + 1
                 /\ leases # {} => call'[j].lease.id = get_for_session.id
                 /\ call'[j].forced \/ get_for_session.expires <= now
      <4>1. CASE j = k
        <5>1. call'[k].pc = "store"
          BY <3>1, <4>1 DEF Storing
        <5> QED
          BY <2>2, <4>1, <5>1
      <4>2. CASE j # k
        BY <2>4, <3>1, <4>2 DEF StoringIsNext
      <4> QED
        BY <4>1, <4>2
    <3> QED
      BY <2>1, <3>1 DEF StoringIsNext
  <2> QED
    BY <2>6, <2>7
<1>2. ASSUME NEW k \in Call, AcquireStore(k) PROVE GrantedIsLatest' /\ StoringIsNext'
  <2>1. /\ leases' = {a \in leases : a.id # call[k].lease.id} \cup {call[k].lease}
        /\ now' = now /\ k \in Storing
    BY <1>2 DEF AcquireStore, Upserted, Storing
  <2>2. /\ \A j \in Call \ {k} :
              /\ call'[j].pc = call[j].pc /\ call'[j].lease = call[j].lease
              /\ j \in Storing => call'[j].raced
        /\ call'[k].pc = IF call[k].op = "renew" THEN "validate" ELSE "ok"
        /\ StoreRaced(k) => call'[k].lease = NoLease
        /\ ~StoreRaced(k) => call'[k].lease = call[k].lease
    BY <1>2, AcquireStoreCalls DEF WriteFields
  <2>3. Granted = {} /\ Storing' = Storing \ {k} /\ Granted' \subseteq {k}
    <3>1. Granted = {}
      BY <2>1 DEF GrantedIsLatest
    <3>2. Storing' = Storing \ {k}
      BY <2>2 DEF Storing
    <3>3. Granted' \subseteq {k}
      BY <2>2, <3>1 DEF Granted, Storing
    <3> QED
      BY <3>1, <3>2, <3>3
  <2>4. StoringIsNext'
    <3>1. \A j \in Storing' : call'[j].raced
      BY <2>2, <2>3 DEF Storing
    <3> QED
      BY <3>1 DEF StoringIsNext
  <2>5. CASE StoreRaced(k)
    <3>1. Granted' = {}
      BY <2>2, <2>3, <2>5 DEF Granted
    <3> QED
      BY <2>4, <3>1 DEF GrantedIsLatest
  <2>6. CASE ~StoreRaced(k)
    <3>1. Storing' = {} /\ ~call[k].raced /\ ~(call[k].lease.expires <= now)
      BY <2>3, <2>6 DEF StoreRaced
    <3>2. call[k].lease.version = get_for_session.version + 1
      BY <2>1, <3>1 DEF StoringIsNext
    <3>3. \A a \in leases : a.version < call[k].lease.version
      BY <1>r, <3>2, SessionLease
    <3>4. call[k].lease.expires > now
      <4>1. call[k].lease.expires \in Nat
        BY <1>0 DEF CallRow, LeaseRow, NoLease
      <4> QED
        BY <1>0, <3>1, <4>1
    <3>5. call'[k].lease = call[k].lease
      BY <2>2, <2>6
    <3> QED
      BY <2>1, <2>3, <2>4, <3>1, <3>3, <3>4, <3>5 DEF GrantedIsLatest
  <2> QED
    BY <2>5, <2>6
<1>3. ASSUME Tick PROVE GrantedIsLatest' /\ StoringIsNext'
  <2> DEFINE ks == {j \in Granted : call[j].lease.expires <= now'}
  <2>1. /\ UNCHANGED leases /\ now' = now + 1 /\ call' = Forget(ks)
        /\ get_for_session' = get_for_session
    BY <1>3 DEF Tick, get_for_session, Later
  <2>2. ks \in SUBSET Call /\ ks \subseteq Granted
    BY DEF Granted
  <2>g. \A j \in Granted \ ks : ~(call[j].lease.expires <= now')
    OBVIOUS
  <2> HIDE DEF ks
  <2>3. /\ \A j \in Call : call'[j].pc = call[j].pc
        /\ \A j \in ks : call'[j].lease = NoLease
        /\ \A j \in Call \ ks : call'[j] = call[j]
    BY <1>0, <2>1, <2>2, ForgetCalls DEF WriteFields
  <2>4. Storing' = Storing
    BY <2>3 DEF Storing
  <2>5. Granted' = Granted \ ks
    BY <2>2, <2>3, <2>4 DEF Granted
  <2>6. \A j \in Granted' : /\ call'[j] = call[j] /\ call[j].lease.expires > now'
    <3>1. \A j \in Granted : call[j].lease.expires \in Nat
      BY <1>0 DEF Granted, CallRow, LeaseRow, NoLease
    <3>2. Granted \subseteq Call
      BY DEF Granted
    <3> QED
      BY <1>0, <2>1, <2>3, <2>5, <2>g, <3>1, <3>2
  <2>7. GrantedIsLatest'
    BY <2>1, <2>4, <2>5, <2>6 DEF GrantedIsLatest
  <2>8. \A j \in Storing : call'[j] = call[j]
    BY <2>2, <2>3 DEF Storing, Granted
  <2>9. get_for_session.expires <= now => get_for_session.expires <= now'
    BY <1>0, <2>1, SessionLease
  <2>10. StoringIsNext'
    BY <2>1, <2>4, <2>8, <2>9 DEF StoringIsNext
  <2> QED
    BY <2>7, <2>10
<1>4. ASSUME BrokerLeases PROVE GrantedIsLatest' /\ StoringIsNext'
  <2>1. UNCHANGED <<leases, now>>
    BY <1>4 DEF BrokerLeases
  <2>2. \A j \in Call : \/ call[j].pc # "store" /\ call'[j] = call[j]
                        \/ call'[j].pc = "lost" /\ call'[j].lease = NoLease
    BY <1>4, BrokerLeasesCalls DEF Ended
  <2>3. Storing' = {}
    BY <2>2 DEF Storing
  <2>4. \A j \in Granted' : j \in Granted /\ call'[j] = call[j]
    BY <2>2 DEF Granted, Storing
  <2> QED
    BY <2>1, <2>3, <2>4 DEF GrantedIsLatest, StoringIsNext
<1>5. ASSUME (\E r \in Request : CreateRequest(r)) \/ ShellEnds
      PROVE  GrantedIsLatest' /\ StoringIsNext'
  <2>1. QuietLease
    BY <1>0, <1>5 DEF CreateRequest, ShellEnds, QuietLease
  <2> QED
    BY <2>1, QuietLeaseStep
<1>6. ASSUME NEW k \in Call,
           \/ \E owner \in Owner : Write(k, owner)
           \/ \E owner \in Owner, r \in Request : SubmitInput(k, owner, r)
           \/ RenewedWrite(k) \/ WriteBegins(k) \/ WritePastes(k) \/ CommandFails(k)
           \/ WriteEnds(k) \/ Resolves(k)
      PROVE  GrantedIsLatest' /\ StoringIsNext'
  BY <1>6, QuietCalls, QuietLeaseStep
<1> QED
  BY <1>1, <1>2, <1>3, <1>4, <1>5, <1>6 DEF LeaseNext, Acquiring

(* A write whose lease has time left is that lease's owner.                 *)
LEMMA WriteHeldStep ==
    ASSUME LeaseTypeOK, IsFiniteSet(leases), StoringIsNext, WriteIsHeld,
           LeaseNext \/ BrokerLeases
    PROVE  WriteIsHeld'
<1>0. call \in [Call -> CallRow] /\ now \in Nat /\ \A j \in Call : call[j].until \in Nat
  BY LeaseAssumption DEF LeaseTypeOK, CallRow
<1>1. ASSUME UNCHANGED <<leases, now>>, NEW k \in Call,
             \A j \in Call \ {k} : /\ call'[j].pc = call[j].pc /\ call'[j].owner = call[j].owner
                                   /\ call'[j].until = call[j].until,
             call'[k].pc \in {"set", "paste"} /\ call'[k].until > now =>
                /\ leases # {} /\ get_for_session.owner = call'[k].owner
                /\ get_for_session.expires = call'[k].until
      PROVE  WriteIsHeld'
  <2>1. get_for_session' = get_for_session
    BY <1>1 DEF get_for_session, Later
  <2> QED
    BY <1>1, <2>1 DEF WriteIsHeld
<1>2. ASSUME NEW k \in Call, Acquiring(k) PROVE WriteIsHeld'
  <2>1. UNCHANGED <<leases, now>>
    BY <1>2 DEF Acquiring, AcquireRead
  <2>2. /\ \A j \in Call \ {k} : WriteFields(call'[j], call[j]) /\ call'[j].until = call[j].until
        /\ call'[k].pc \in {"error", "store"}
    BY <1>2, AcquireReadCalls
  <2> QED
    BY <1>1, <2>1, <2>2 DEF WriteFields
<1>3. ASSUME NEW k \in Call,
             \/ \E owner \in Owner : Write(k, owner)
             \/ \E owner \in Owner, r \in Request : SubmitInput(k, owner, r)
             \/ RenewedWrite(k)
      PROVE  WriteIsHeld'
  <2>1. PICK begun \in CallRow :
             /\ Validated(k, begun) /\ begun.op \in {"renew", "write", "submit"}
             /\ begun.op = "submit" => begun.request \in Request
    BY <1>3, ValidatedBegins
  <2>2. /\ call' = [call EXCEPT ![k] = call'[k]]
        /\ call'[k].pc \in {"set", "error"}
        /\ call'[k].pc = "set" => /\ ~Refuses(get_for_session, call'[k].owner)
                                  /\ call'[k].until = get_for_session.expires
    BY <2>1, ValidatedCall
  <2>3. \A j \in Call \ {k} : call'[j] = call[j]
    BY <1>0, <2>2
  <2>4. UNCHANGED <<leases, now>>
    BY <2>1 DEF Validated
  <2> QED
    BY <1>1, <2>2, <2>3, <2>4, SessionLease DEF Refuses
<1>4. ASSUME NEW k \in Call, AcquireStore(k) PROVE WriteIsHeld'
  <2>1. now' = now /\ call[k].pc = "store"
    BY <1>4 DEF AcquireStore
  <2>2. /\ \A j \in Call \ {k} :
              /\ call'[j].pc = call[j].pc
              /\ StoreRaced(k) \/ call[k].forced => call'[j].until = 0
              /\ ~(StoreRaced(k) \/ call[k].forced) => call'[j].until = call[j].until
        /\ call'[k].pc \notin {"set", "paste"}
    BY <1>4, AcquireStoreCalls DEF WriteFields
  <2>3. ASSUME NEW j \in Call, call'[j].pc \in {"set", "paste"}, call'[j].until > now'
        PROVE  FALSE
    <3>1. j # k /\ call'[j].pc = call[j].pc
      BY <2>2, <2>3
    <3>2. ~(StoreRaced(k) \/ call[k].forced)
      BY <1>0, <2>1, <2>2, <2>3, <3>1
    <3>3. call[j].until > now /\ get_for_session.expires = call[j].until
      BY <2>1, <2>2, <2>3, <3>1, <3>2 DEF WriteIsHeld
    <3>4. k \in Storing /\ ~call[k].raced
      BY <2>1, <3>2 DEF Storing, StoreRaced
    <3>5. get_for_session.expires <= now
      BY <3>2, <3>4 DEF StoringIsNext
    <3> QED
      BY <1>0, <3>3, <3>5
  <2> QED
    BY <2>3 DEF WriteIsHeld
<1>5. ASSUME NEW k \in Call, WriteBegins(k) PROVE WriteIsHeld'
  <2>1. UNCHANGED <<leases, now>> /\ call[k].pc = "set"
    BY <1>5 DEF WriteBegins
  <2>2. /\ \A j \in Call \ {k} :
              /\ call'[j].pc = call[j].pc /\ call'[j].owner = call[j].owner
              /\ call'[j].until = call[j].until
        /\ \/ call'[k].pc \in {"error", "touch"}
           \/ call'[k].until = call[k].until /\ call'[k].owner = call[k].owner
    BY <1>5, WriteBeginsCalls
  <2>3. call'[k].pc \in {"set", "paste"} /\ call'[k].until > now =>
           /\ leases # {} /\ get_for_session.owner = call'[k].owner
           /\ get_for_session.expires = call'[k].until
    BY <2>1, <2>2 DEF WriteIsHeld
  <2> QED
    BY <1>1, <2>1, <2>2, <2>3
<1>6. ASSUME NEW k \in Call, WritePastes(k) PROVE WriteIsHeld'
  <2>1. UNCHANGED <<leases, now>>
    BY <1>6 DEF WritePastes
  <2>2. /\ \A j \in Call \ {k} : call'[j] = call[j] /\ call'[k].pc \in {"error", "touch"}
    BY <1>6, WritePastesCalls
  <2>3. call'[k].pc \in {"error", "touch"}
    BY <1>6, WritePastesCalls
  <2> QED
    BY <1>1, <2>1, <2>2, <2>3
<1>7. ASSUME NEW k \in Call, CommandFails(k) PROVE WriteIsHeld'
  <2>1. UNCHANGED <<leases, now>>
    BY <1>7 DEF CommandFails
  <2>2. /\ \A j \in Call \ {k} :
              /\ call'[j].pc = call[j].pc /\ call'[j].owner = call[j].owner
              /\ call'[j].until = call[j].until
        /\ call'[k].pc = "error"
    BY <1>7, CommandFailsCalls
  <2> QED
    BY <1>1, <2>1, <2>2
<1>8. ASSUME NEW k \in Call, WriteEnds(k) \/ Resolves(k) PROVE WriteIsHeld'
  <2>1. UNCHANGED <<leases, now>>
    BY <1>8 DEF WriteEnds, Resolves
  <2>2. (\A j \in Call \ {k} : call'[j] = call[j]) /\ call'[k].pc \in {"resolve", "ok"}
    BY <1>8, ReplyCalls
  <2> QED
    BY <1>1, <2>1, <2>2
<1>9. ASSUME (\E r \in Request : CreateRequest(r)) \/ ShellEnds PROVE WriteIsHeld'
  <2>1. UNCHANGED <<leases, now, call>>
    BY <1>9 DEF CreateRequest, ShellEnds
  <2>2. get_for_session' = get_for_session
    BY <2>1 DEF get_for_session, Later
  <2> QED
    BY <2>1, <2>2 DEF WriteIsHeld
<1>10. ASSUME Tick PROVE WriteIsHeld'
  <2>1. /\ UNCHANGED leases /\ now' = now + 1 /\ get_for_session' = get_for_session
        /\ call' = Forget({j \in Granted : call[j].lease.expires <= now'})
    BY <1>10 DEF Tick, get_for_session, Later
  <2>2. {j \in Granted : call[j].lease.expires <= now'} \in SUBSET Call
    BY DEF Granted
  <2>3. \A j \in Call : /\ call'[j].pc = call[j].pc /\ call'[j].owner = call[j].owner
                        /\ call'[j].until = call[j].until
    BY <1>0, <2>1, <2>2, ForgetCalls DEF WriteFields
  <2>4. \A j \in Call : call[j].until > now' => call[j].until > now
    BY <1>0, <2>1
  <2> QED
    BY <2>1, <2>3, <2>4 DEF WriteIsHeld
<1>11. ASSUME BrokerLeases PROVE WriteIsHeld'
  <2>1. \A j \in Call : call'[j].pc \notin {"set", "paste"}
    BY <1>11, BrokerLeasesCalls DEF Ended
  <2> QED
    BY <2>1 DEF WriteIsHeld
<1> QED
  BY <1>2, <1>3, <1>4, <1>5, <1>6, <1>7, <1>8, <1>9, <1>10, <1>11 DEF LeaseNext, Acquiring

(* What reaches the shell under a lease meets no other owner's.             *)
LEMMA NothingHeldAgainst ==
    ASSUME LeaseInv, NEW k \in Call, call[k].pc \in {"set", "paste"}
    PROVE  HeldAgainst(call[k].owner, call[k].until) = {}
<1>1. SUFFICES ASSUME NEW j \in Granted, call[j].lease.owner # call[k].owner, now < call[k].until
               PROVE  FALSE
  BY DEF HeldAgainst
<1>2. call[j].lease = get_for_session
  BY GrantedIsFound DEF LeaseInv
<1>3. now \in Nat /\ call[k].until \in Nat
  BY LeaseAssumption DEF LeaseInv, LeaseTypeOK, CallRow
<1>4. get_for_session.owner = call[k].owner
  BY <1>1, <1>3 DEF LeaseInv, WriteIsHeld
<1> QED
  BY <1>1, <1>2, <1>4

(* A grant is overtaken only once it has expired, by force or by a race of  *)
(* two acquires.                                                            *)
LEMMA RespectedStep ==
    ASSUME LeaseInv, LeaseNext \/ BrokerLeases
    PROVE  LeaseIsRespected'
<1>0. LeaseTypeOK /\ IsFiniteSet(leases) /\ call \in [Call -> CallRow]
      /\ \A j \in Call : ~call[j].defies
  BY DEF LeaseInv, LeaseTypeOK, LeaseIsRespected
<1>1. ASSUME NEW k \in Call, Acquiring(k) PROVE LeaseIsRespected'
  <2>1. /\ \A j \in Call \ {k} : call'[j].defies = call[j].defies
        /\ ~call'[k].defies
    BY <1>0, <1>1, AcquireReadCalls DEF WriteFields
  <2> QED
    BY <1>0, <2>1 DEF LeaseIsRespected
<1>2. ASSUME NEW k \in Call,
             \/ \E owner \in Owner : Write(k, owner)
             \/ \E owner \in Owner, r \in Request : SubmitInput(k, owner, r)
             \/ RenewedWrite(k)
      PROVE  LeaseIsRespected'
  <2>1. PICK begun \in CallRow :
             /\ Validated(k, begun) /\ begun.op \in {"renew", "write", "submit"}
             /\ begun.defies = call[k].defies
             /\ begun.op = "submit" => begun.request \in Request
    BY <1>0, <1>2, ValidatedBegins
  <2>2. /\ call' = [call EXCEPT ![k] = call'[k]] /\ call'[k].defies = begun.defies
    BY <1>0, <2>1, ValidatedCall
  <2> QED
    BY <1>0, <2>1, <2>2 DEF LeaseIsRespected
<1>3. ASSUME NEW k \in Call, AcquireStore(k) PROVE LeaseIsRespected'
  <2>1. \A j \in Call : call'[j].defies = call[j].defies
    BY <1>0, <1>3, AcquireStoreCalls DEF WriteFields
  <2> QED
    BY <1>0, <2>1 DEF LeaseIsRespected
<1>4. ASSUME NEW k \in Call, WriteBegins(k) PROVE LeaseIsRespected'
  <2>1. call[k].pc = "set"
    BY <1>4 DEF WriteBegins
  <2>2. HeldAgainst(call[k].owner, call[k].until) = {}
    BY <2>1, NothingHeldAgainst
  <2>3. /\ \A j \in Call \ {k} : call'[j].defies = call[j].defies
        /\ \/ call'[k].defies = call[k].defies
           \/ call'[k].defies = (HeldAgainst(call[k].owner, call[k].until) # {})
    BY <1>0, <1>4, WriteBeginsCalls
  <2> QED
    BY <1>0, <2>2, <2>3 DEF LeaseIsRespected
<1>5. ASSUME NEW k \in Call, WritePastes(k) PROVE LeaseIsRespected'
  <2>1. call[k].pc = "paste"
    BY <1>5 DEF WritePastes, InTmux
  <2>2. HeldAgainst(call[k].owner, call[k].until) = {}
    BY <2>1, NothingHeldAgainst
  <2>3. /\ \A j \in Call \ {k} : call'[j] = call[j]
        /\ \/ call'[k].defies = call[k].defies
           \/ call'[k].defies = (HeldAgainst(call[k].owner, call[k].until) # {})
    BY <1>0, <1>5, WritePastesCalls
  <2> QED
    BY <1>0, <2>2, <2>3 DEF LeaseIsRespected
<1>6. ASSUME NEW k \in Call, CommandFails(k) PROVE LeaseIsRespected'
  <2>1. \A j \in Call : call'[j].defies = call[j].defies
    BY <1>0, <1>6, CommandFailsCalls
  <2> QED
    BY <1>0, <2>1 DEF LeaseIsRespected
<1>7. ASSUME NEW k \in Call, WriteEnds(k) \/ Resolves(k) PROVE LeaseIsRespected'
  <2>1. (\A j \in Call \ {k} : call'[j] = call[j]) /\ call'[k].defies = call[k].defies
    BY <1>0, <1>7, ReplyCalls
  <2> QED
    BY <1>0, <2>1 DEF LeaseIsRespected
<1>8. ASSUME (\E r \in Request : CreateRequest(r)) \/ ShellEnds PROVE LeaseIsRespected'
  BY <1>0, <1>8 DEF CreateRequest, ShellEnds, LeaseIsRespected
<1>9. ASSUME Tick PROVE LeaseIsRespected'
  <2>1. /\ call' = Forget({j \in Granted : call[j].lease.expires <= now'})
        /\ {j \in Granted : call[j].lease.expires <= now'} \in SUBSET Call
    BY <1>9 DEF Tick, Granted
  <2>2. \A j \in Call : call'[j].defies = call[j].defies
    BY <1>0, <2>1, ForgetCalls DEF WriteFields
  <2> QED
    BY <1>0, <2>2 DEF LeaseIsRespected
<1>10. ASSUME BrokerLeases PROVE LeaseIsRespected'
  <2>1. \A j \in Call : call'[j] = call[j] \/ ~call'[j].defies
    BY <1>0, <1>10, BrokerLeasesCalls
  <2> QED
    BY <1>0, <2>1 DEF LeaseIsRespected
<1> QED
  BY <1>1, <1>2, <1>3, <1>4, <1>5, <1>6, <1>7, <1>8, <1>9, <1>10 DEF LeaseNext, Acquiring

(* The rows stay finitely many.                                             *)
LEMMA LeasesFinite ==
    ASSUME LeaseTypeOK, IsFiniteSet(leases), LeaseNext \/ BrokerLeases
    PROVE  IsFiniteSet(leases')
<1>1. ASSUME NEW k \in Call, AcquireStore(k) PROVE IsFiniteSet(leases')
  <2> DEFINE kept == {a \in leases : a.id # call[k].lease.id}
  <2>1. leases' = kept \cup {call[k].lease}
    BY <1>1 DEF AcquireStore, Upserted
  <2>2. IsFiniteSet(kept)
    BY FS_Subset
  <2> QED
    BY <2>1, <2>2, FS_AddElement
<1>2. ASSUME NEW k \in Call, Acquiring(k) PROVE UNCHANGED leases
  BY <1>2 DEF Acquiring, AcquireRead
<1>3. ASSUME NEW k \in Call,
           \/ \E owner \in Owner : Write(k, owner)
           \/ \E owner \in Owner, r \in Request : SubmitInput(k, owner, r)
           \/ RenewedWrite(k) \/ WriteBegins(k) \/ WritePastes(k) \/ CommandFails(k)
           \/ WriteEnds(k) \/ Resolves(k)
      PROVE  UNCHANGED leases
  BY <1>3, QuietCalls DEF QuietLease
<1>4. ASSUME (\E r \in Request : CreateRequest(r)) \/ Tick \/ ShellEnds \/ BrokerLeases
      PROVE  UNCHANGED leases
  BY <1>4 DEF CreateRequest, Tick, ShellEnds, BrokerLeases
<1> QED
  BY <1>1, <1>2, <1>3, <1>4 DEF LeaseNext, Acquiring

(* Every step keeps LeaseInv.                                               *)
LEMMA LeaseInvStep ==
    ASSUME LeaseInv, LeaseNext \/ BrokerLeases
    PROVE  LeaseInv'
<1>1. /\ LeaseTypeOK /\ IsFiniteSet(leases)
      /\ GrantedIsLatest /\ StoringIsNext /\ WriteIsHeld
  BY DEF LeaseInv
<1>2. LeaseTypeOK' /\ IsFiniteSet(leases')
  BY <1>1, LeaseTypeStep, LeasesFinite
<1>3. GrantedIsLatest' /\ StoringIsNext' /\ WriteIsHeld'
  BY <1>1, LatestStep, WriteHeldStep
<1>4. LeaseIsRespected'
  BY RespectedStep
<1> QED
  BY <1>2, <1>3, <1>4 DEF LeaseInv

(* No lease is held at first.                                               *)
LEMMA LeaseInitially == LeaseInit => LeaseInv
<1> SUFFICES ASSUME LeaseInit PROVE LeaseInv
  OBVIOUS
<1>1. /\ backend \in Backend /\ attached = TRUE /\ shell = TRUE
      /\ leases = {} /\ now = 0 /\ call = [k \in Call |-> NewCall]
      /\ buffer = NoData /\ pasted = <<>>
      /\ requests = [r \in Request |-> "absent"] /\ failures = 0
  BY DEF LeaseInit
<1>2. LeaseTypeOK
  <2>1. call \in [Call -> CallRow] /\ \A k \in Call : call[k] = NewCall
    BY <1>1, NewCallOK
  <2>2. \A k \in Call : call[k].pc = "new" /\ call[k].op = "none"
    BY <2>1 DEF NewCall
  <2>3. <<>> \in Seq(Call)
    OBVIOUS
  <2> QED
    BY <1>1, <2>1, <2>2, <2>3, LeaseAssumption DEF LeaseTypeOK
<1>3. \A k \in Call : /\ call[k].pc = "new" /\ call[k].lease = NoLease /\ call[k].defies = FALSE
  BY <1>1 DEF NewCall
<1>4. Storing = {} /\ Granted = {}
  BY <1>3 DEF Storing, Granted
<1>5. IsFiniteSet(leases)
  BY <1>1, FS_EmptySet
<1> QED
  BY <1>2, <1>3, <1>4, <1>5 DEF LeaseInv, GrantedIsLatest, StoringIsNext, WriteIsHeld, LeaseIsRespected

(* Whose data the shell has, when it is given more.                         *)
Once == \A i, j \in DOMAIN pasted : pasted[i] = pasted[j] => i = j
LEMMA GivenAppend ==
    ASSUME pasted \in Seq(Call), Once, NEW x \in Call, x \notin Given, pasted' = Append(pasted, x)
    PROVE  Given' = Given \cup {x} /\ Once'
<1>1. /\ DOMAIN pasted = 1..Len(pasted) /\ Len(pasted) \in Nat
      /\ DOMAIN pasted' = 1..(Len(pasted) + 1)
      /\ \A i \in 1..Len(pasted) : pasted'[i] = pasted[i]
      /\ pasted'[Len(pasted) + 1] = x
  OBVIOUS
<1>2. \A i \in DOMAIN pasted' : i = Len(pasted) + 1 \/ i \in DOMAIN pasted
  BY <1>1
<1>3. \A i \in DOMAIN pasted : pasted[i] # x /\ i \in DOMAIN pasted' /\ pasted'[i] = pasted[i]
  BY <1>1 DEF Given
<1>4. Given' = Given \cup {x}
  <2>1. Given' = {pasted'[i] : i \in DOMAIN pasted'}
    BY DEF Given
  <2>2. \A y \in Given' : y \in Given \cup {x}
    BY <1>1, <1>2, <1>3, <2>1 DEF Given
  <2>3. x \in Given' /\ \A y \in Given : y \in Given'
    BY <1>1, <1>3, <2>1 DEF Given
  <2> QED
    BY <2>2, <2>3
<1>5. Once'
  <2>1. SUFFICES ASSUME NEW i \in DOMAIN pasted', NEW j \in DOMAIN pasted', pasted'[i] = pasted'[j]
                 PROVE  i = j
    BY DEF Once
  <2>2. i \in DOMAIN pasted <=> j \in DOMAIN pasted
    BY <1>1, <1>2, <1>3, <2>1
  <2> QED
    BY <1>2, <1>3, <2>1, <2>2 DEF Once
<1> QED
  BY <1>4, <1>5

Early == {"new", "store", "validate", "set"}
Answered == {"touch", "resolve", "ok"}
InputKept == DataIsOnce /\ AloneHasBuffer /\ RepliesAreTrue
Notes(c, d) == c.op = d.op /\ c.alone = d.alone /\ c.broken = d.broken

(* The actions that touch neither the buffer nor the shell.                 *)
LEMMA QuietInput ==
    ASSUME InputKept, UNCHANGED <<buffer, pasted>>,
           \A j \in Call :
              /\ call'[j].pc \in Early => call[j].pc \in Early
              /\ call'[j].pc = "paste" => call[j].pc = "paste" /\ call'[j].alone = call[j].alone
              /\ call'[j].pc \in Answered =>
                    call'[j].op = "acquire" \/ (call[j].pc \in Answered /\ Notes(call'[j], call[j]))
              /\ call'[j].pc = "error" =>
                    call[j].pc \in Early \/ (call[j].pc = "error" /\ Notes(call'[j], call[j]))
    PROVE  InputKept'
<1>1. Given' = Given
  BY DEF Given
<1>2. DataIsOnce'
  BY <1>1 DEF InputKept, DataIsOnce, Early
<1>3. AloneHasBuffer'
  BY DEF InputKept, AloneHasBuffer, InTmux
<1>4. RepliesAreTrue'
  <2>1. SUFFICES ASSUME NEW k \in Call, call'[k].op # "acquire", call'[k].alone, ~call'[k].broken
                 PROVE  /\ call'[k].pc \in Answered => k \in Given
                        /\ call'[k].pc = "error" => k \notin Given /\ buffer # k
    BY <1>1 DEF RepliesAreTrue, Answered
  <2>2. CASE call'[k].pc \in Answered
    <3>1. call[k].pc \in Answered /\ Notes(call'[k], call[k])
      BY <2>1, <2>2
    <3> QED
      BY <2>1, <2>2, <3>1 DEF InputKept, RepliesAreTrue, Answered, Notes
  <2>3. CASE call'[k].pc = "error"
    <3>1. CASE call[k].pc \in Early
      BY <2>3, <3>1 DEF InputKept, DataIsOnce, Early, Answered
    <3>2. CASE call[k].pc = "error" /\ Notes(call'[k], call[k])
      BY <2>1, <2>3, <3>2 DEF InputKept, RepliesAreTrue, Answered, Notes
    <3> QED
      BY <2>3, <3>1, <3>2
  <2> QED
    BY <2>2, <2>3
<1> QED
  BY <1>2, <1>3, <1>4 DEF InputKept

(* A write that begins keeps what is known of the inputs.                   *)
LEMMA WriteBeginsInput ==
    ASSUME LeaseTypeOK, InputKept, NEW k \in Call, WriteBegins(k)
    PROVE  InputKept'
<1>0. /\ pasted \in Seq(Call) /\ Once /\ buffer \notin Given
      /\ \A j \in Call : call[j].pc \in Early => j \notin Given /\ buffer # j
  BY DEF LeaseTypeOK, InputKept, DataIsOnce, Once, Early
<1>1. call[k].pc = "set" /\ k \notin Given /\ buffer # k
  BY <1>0 DEF WriteBegins, Early
<1>2. /\ call' \in [Call -> CallRow]
      /\ \A j \in Call : CallFields(call'[j], call[j])
      /\ \A j \in Call \ {k} :
            /\ call'[j].pc = call[j].pc /\ call'[j].broken = call[j].broken
            /\ call'[k].pc = "paste" /\ InTmux(j) => ~call'[j].alone
            /\ ~(call'[k].pc = "paste" /\ InTmux(j)) => call'[j] = call[j]
  BY WriteBeginsCalls
<1>3. CASE call'[k].pc = "error" /\ UNCHANGED <<buffer, pasted>>
  <2>1. \A j \in Call \ {k} : call'[j] = call[j]
    BY <1>2, <1>3
  <2> QED
    BY <1>1, <1>3, <2>1, QuietInput DEF Early, Answered, Notes
<1>4. CASE /\ call'[k].pc = "touch" /\ call'[k].broken = (call[k].broken \/ ~shell)
           /\ pasted' = IF shell THEN Append(pasted, k) ELSE pasted
           /\ UNCHANGED buffer
  <2>1. \A j \in Call \ {k} : call'[j] = call[j]
    BY <1>2, <1>4
  <2>2. CASE shell
    <3>1. Given' = Given \cup {k} /\ Once'
      BY <1>0, <1>1, <1>4, <2>2, GivenAppend
    <3>2. DataIsOnce'
      BY <1>0, <1>1, <1>4, <2>1, <3>1 DEF DataIsOnce, Once, Early
    <3>3. AloneHasBuffer'
      BY <1>1, <1>4, <2>1 DEF InputKept, AloneHasBuffer, InTmux
    <3>4. RepliesAreTrue'
      BY <1>1, <1>4, <2>1, <3>1 DEF InputKept, RepliesAreTrue
    <3> QED
      BY <3>2, <3>3, <3>4 DEF InputKept
  <2>3. CASE ~shell
    <3>1. pasted' = pasted /\ call'[k].broken
      BY <1>4, <2>3
    <3>2. Given' = Given
      BY <3>1 DEF Given
    <3>3. DataIsOnce'
      BY <1>0, <1>1, <1>4, <2>1, <3>1, <3>2 DEF DataIsOnce, Once, Early
    <3>4. AloneHasBuffer'
      BY <1>1, <1>4, <2>1 DEF InputKept, AloneHasBuffer, InTmux
    <3>5. RepliesAreTrue'
      BY <1>1, <1>4, <2>1, <3>1, <3>2 DEF InputKept, RepliesAreTrue
    <3> QED
      BY <3>3, <3>4, <3>5 DEF InputKept
  <2> QED
    BY <2>2, <2>3
<1>5. CASE /\ call'[k].pc = "paste" /\ call'[k].alone = ~\E i \in Call : InTmux(i)
           /\ buffer' = k /\ UNCHANGED pasted
  <2>1. Given' = Given
    BY <1>5 DEF Given
  <2>2. DataIsOnce'
    BY <1>0, <1>1, <1>2, <1>5, <2>1 DEF DataIsOnce, Once, Early
  <2>3. AloneHasBuffer'
    <3>1. SUFFICES ASSUME NEW j \in Call, call'[j].pc = "paste", call'[j].alone
                   PROVE  buffer' = j /\ \A i \in Call : call'[i].pc = "paste" => i = j
      BY DEF AloneHasBuffer, InTmux
    <3>2. j = k
      BY <1>2, <1>5, <3>1 DEF InTmux
    <3>3. ~\E i \in Call : InTmux(i)
      BY <1>5, <3>1, <3>2
    <3> QED
      BY <1>2, <1>5, <3>2, <3>3 DEF InTmux
  <2>4. RepliesAreTrue'
    <3>1. SUFFICES ASSUME NEW j \in Call, call'[j].op # "acquire", call'[j].alone, ~call'[j].broken
                   PROVE  /\ call'[j].pc \in Answered => j \in Given
                          /\ call'[j].pc = "error" => j \notin Given /\ k # j
      BY <1>5, <2>1 DEF RepliesAreTrue, Answered
    <3>2. CASE j = k
      BY <1>5, <3>2 DEF Answered
    <3>3. CASE j # k /\ InTmux(j)
      BY <1>2, <3>3 DEF Answered, InTmux
    <3>4. CASE j # k /\ ~InTmux(j)
      BY <1>2, <3>1, <3>4 DEF Answered, InputKept, RepliesAreTrue
    <3> QED
      BY <3>2, <3>3, <3>4
  <2> QED
    BY <2>2, <2>3, <2>4 DEF InputKept
<1> QED
  BY <1>3, <1>4, <1>5, WriteBeginsCalls

(* So does one that pastes its text,                                        *)
LEMMA WritePastesInput ==
    ASSUME LeaseTypeOK, InputKept, NEW k \in Call, WritePastes(k)
    PROVE  InputKept'
<1>0. /\ pasted \in Seq(Call) /\ Once /\ buffer \notin Given /\ buffer \in Call \cup {NoData}
      /\ \A j \in Call : call[j].pc \in Early => j \notin Given /\ buffer # j
      /\ NoData \notin Call /\ Given \subseteq Call
  <2>1. pasted \in Seq(Call) /\ Once /\ buffer \notin Given /\ buffer \in Call \cup {NoData}
    BY DEF LeaseTypeOK, InputKept, DataIsOnce, Once
  <2>2. Given \subseteq Call
    BY <2>1 DEF Given
  <2> QED
    BY <2>1, <2>2, LeaseAssumption DEF InputKept, DataIsOnce, Early
<1>1. call[k].pc = "paste" /\ InTmux(k)
  BY DEF WritePastes, InTmux
<1>2. /\ \A j \in Call \ {k} : call'[j] = call[j]
      /\ CallFields(call'[k], call[k]) /\ call'[k].alone = call[k].alone
      /\ call'[k].broken = (call[k].broken \/ ~shell)
  BY WritePastesCalls
<1>3. CASE /\ buffer = NoData \/ ~shell
           /\ call'[k].pc = "error" /\ UNCHANGED <<pasted, buffer>>
  <2>1. Given' = Given
    BY <1>3 DEF Given
  <2>2. DataIsOnce'
    BY <1>0, <1>2, <1>3, <2>1 DEF DataIsOnce, Once, Early
  <2>3. AloneHasBuffer'
    BY <1>2, <1>3 DEF InputKept, AloneHasBuffer, InTmux
  <2>4. ~(call'[k].alone /\ ~call'[k].broken)
    <3>1. SUFFICES ASSUME call'[k].alone, ~call'[k].broken PROVE FALSE
      OBVIOUS
    <3>2. shell /\ call[k].alone
      BY <1>2, <3>1
    <3>3. buffer = k
      BY <1>1, <3>2 DEF InputKept, AloneHasBuffer
    <3> QED
      BY <1>0, <1>3, <3>2, <3>3
  <2>5. RepliesAreTrue'
    BY <1>2, <1>3, <2>1, <2>4 DEF InputKept, RepliesAreTrue
  <2> QED
    BY <2>2, <2>3, <2>5 DEF InputKept
<1>4. CASE /\ buffer # NoData /\ shell /\ call'[k].pc = "touch"
           /\ pasted' = Append(pasted, buffer) /\ buffer' = NoData
  <2>1. Given' = Given \cup {buffer} /\ Once' /\ buffer \in Call
    BY <1>0, <1>4, GivenAppend
  <2>2. DataIsOnce'
    BY <1>0, <1>2, <1>4, <2>1 DEF DataIsOnce, Once, Early
  <2>3. AloneHasBuffer'
    <3>1. SUFFICES ASSUME NEW j \in Call, call'[j].pc = "paste", call'[j].alone PROVE FALSE
      BY DEF AloneHasBuffer, InTmux
    <3>2. j # k /\ call'[j] = call[j]
      BY <1>2, <1>4, <3>1
    <3>3. k = j
      BY <1>1, <3>1, <3>2 DEF InputKept, AloneHasBuffer, InTmux
    <3> QED
      BY <3>2, <3>3
  <2>4. RepliesAreTrue'
    <3>1. SUFFICES ASSUME NEW j \in Call, call'[j].op # "acquire", call'[j].alone, ~call'[j].broken
                   PROVE  /\ call'[j].pc \in Answered => j \in Given'
                          /\ call'[j].pc = "error" => j \notin Given' /\ buffer' # j
      BY DEF RepliesAreTrue, Answered
    <3>2. CASE j = k
      <4>1. buffer = k
        BY <1>1, <1>2, <3>1, <3>2 DEF InputKept, AloneHasBuffer
      <4> QED
        BY <1>4, <2>1, <3>2, <4>1
    <3>3. CASE j # k
      BY <1>0, <1>2, <1>4, <2>1, <3>1, <3>3 DEF Answered, InputKept, RepliesAreTrue
    <3> QED
      BY <3>2, <3>3
  <2> QED
    BY <2>2, <2>3, <2>4 DEF InputKept
<1> QED
  BY <1>3, <1>4, WritePastesCalls

(* and a command of tmux that fails.                                        *)
LEMMA CommandFailsInput ==
    ASSUME LeaseTypeOK, InputKept, NEW k \in Call, CommandFails(k)
    PROVE  InputKept'
<1>0. /\ pasted \in Seq(Call) /\ Once /\ buffer \notin Given /\ buffer \in Call \cup {NoData}
      /\ \A j \in Call : call[j].pc \in Early => j \notin Given /\ buffer # j
      /\ NoData \notin Call /\ Given \subseteq Call
  <2>1. pasted \in Seq(Call) /\ Once /\ buffer \notin Given /\ buffer \in Call \cup {NoData}
    BY DEF LeaseTypeOK, InputKept, DataIsOnce, Once
  <2>2. Given \subseteq Call
    BY <2>1 DEF Given
  <2> QED
    BY <2>1, <2>2, LeaseAssumption DEF InputKept, DataIsOnce, Early
<1>1. /\ \A j \in Call : CallFields(call'[j], call[j])
      /\ \A j \in Call \ {k} :
            /\ call'[j].pc = call[j].pc
            /\ InTmux(j) => ~call'[j].alone
            /\ ~InTmux(j) => call'[j] = call[j]
      /\ call'[k].pc = "error" /\ call'[k].broken
  BY CommandFailsCalls
<1>2. AloneHasBuffer'
  BY <1>1 DEF AloneHasBuffer, InTmux
<1>3. \/ call[k].pc = "set" /\ buffer' \in {buffer, k} /\ UNCHANGED pasted
      \/ UNCHANGED <<pasted, buffer>>
      \/ buffer # NoData /\ pasted' = Append(pasted, buffer) /\ buffer' = NoData
  BY DEF CommandFails, Filled, AfterPaste
<1>4. /\ Once' /\ buffer' \notin Given'
      /\ Given \subseteq Given' /\ buffer' \in {buffer, k, NoData}
      /\ \A j \in Call \ {k} : j \notin Given /\ buffer # j => j \notin Given' /\ buffer' # j
  <2>1. CASE call[k].pc = "set" /\ buffer' \in {buffer, k} /\ UNCHANGED pasted
    <3>1. Given' = Given /\ k \notin Given /\ Once'
      BY <1>0, <2>1 DEF Given, Early, Once
    <3> QED
      BY <1>0, <2>1, <3>1
  <2>2. CASE UNCHANGED <<pasted, buffer>>
    <3>1. Given' = Given /\ Once'
      BY <1>0, <2>2 DEF Given, Once
    <3> QED
      BY <1>0, <2>2, <3>1
  <2>3. CASE buffer # NoData /\ pasted' = Append(pasted, buffer) /\ buffer' = NoData
    <3>1. Given' = Given \cup {buffer} /\ Once' /\ buffer \in Call
      BY <1>0, <2>3, GivenAppend
    <3> QED
      BY <1>0, <2>3, <3>1
  <2> QED
    BY <1>3, <2>1, <2>2, <2>3
<1>5. DataIsOnce'
  BY <1>0, <1>1, <1>4 DEF DataIsOnce, Once, Early
<1>6. RepliesAreTrue'
  <2>1. SUFFICES ASSUME NEW j \in Call, call'[j].op # "acquire", call'[j].alone, ~call'[j].broken
                 PROVE  /\ call'[j].pc \in Answered => j \in Given'
                        /\ call'[j].pc = "error" => j \notin Given' /\ buffer' # j
    BY DEF RepliesAreTrue, Answered
  <2>2. j # k
    BY <1>1, <2>1
  <2>3. CASE InTmux(j)
    BY <1>1, <2>1, <2>2, <2>3
  <2>4. CASE ~InTmux(j)
    <3>1. call'[j] = call[j]
      BY <1>1, <2>2, <2>4
    <3>2. /\ call[j].pc \in Answered => j \in Given
          /\ call[j].pc = "error" => j \notin Given /\ buffer # j
      BY <2>1, <3>1 DEF InputKept, RepliesAreTrue, Answered
    <3> QED
      BY <1>4, <2>2, <3>1, <3>2
  <2> QED
    BY <2>3, <2>4
<1> QED
  BY <1>2, <1>5, <1>6 DEF InputKept

(* Input stays where its reply says.                                        *)
LEMMA InputKeptStep ==
    ASSUME LeaseTypeOK, IsFiniteSet(leases), InputKept, LeaseNext \/ BrokerLeases
    PROVE  InputKept'
<1>0. call \in [Call -> CallRow]
  BY DEF LeaseTypeOK
<1>1. ASSUME NEW k \in Call, Acquiring(k) PROVE InputKept'
  <2>1. UNCHANGED <<buffer, pasted>> /\ call[k].pc = "new"
    BY <1>1 DEF Acquiring, AcquireRead
  <2>2. /\ \A j \in Call \ {k} : WriteFields(call'[j], call[j])
        /\ call'[k].pc \in {"error", "store"}
    BY <1>1, AcquireReadCalls
  <2> QED
    BY <2>1, <2>2, QuietInput DEF WriteFields, Notes, Early, Answered
<1>2. ASSUME NEW k \in Call,
             \/ \E owner \in Owner : Write(k, owner)
             \/ \E owner \in Owner, r \in Request : SubmitInput(k, owner, r)
             \/ RenewedWrite(k)
      PROVE  InputKept'
  <2>1. PICK begun \in CallRow :
             /\ Validated(k, begun) /\ begun.op \in {"renew", "write", "submit"}
             /\ begun.op = "submit" => begun.request \in Request
             /\ call[k].pc \in {"new", "validate"}
    BY <1>2, ValidatedBegins
  <2>2. /\ call' = [call EXCEPT ![k] = call'[k]] /\ call'[k].pc \in {"set", "error"}
    BY <2>1, ValidatedCall
  <2>3. UNCHANGED <<buffer, pasted>>
    BY <2>1 DEF Validated
  <2>4. \A j \in Call \ {k} : call'[j] = call[j]
    BY <1>0, <2>2
  <2> QED
    BY <2>1, <2>2, <2>3, <2>4, QuietInput DEF Notes, Early, Answered
<1>3. ASSUME NEW k \in Call, AcquireStore(k) PROVE InputKept'
  <2>1. UNCHANGED <<buffer, pasted>> /\ call[k].pc = "store" /\ call[k].op \in {"acquire", "renew"}
    BY <1>3 DEF AcquireStore, LeaseTypeOK
  <2>2. /\ \A j \in Call \ {k} : WriteFields(call'[j], call[j])
        /\ call'[k].pc = IF call[k].op = "renew" THEN "validate" ELSE "ok"
        /\ call'[k].op = call[k].op
    BY <1>3, AcquireStoreCalls
  <2> QED
    BY <2>1, <2>2, QuietInput DEF WriteFields, Notes, Early, Answered
<1>4. ASSUME NEW k \in Call, WriteEnds(k) \/ Resolves(k) PROVE InputKept'
  <2>1. UNCHANGED <<buffer, pasted>> /\ call[k].pc \in {"touch", "resolve"}
    BY <1>4 DEF WriteEnds, Resolves
  <2>2. /\ \A j \in Call \ {k} : call'[j] = call[j]
        /\ CallFields(call'[k], call[k]) /\ call'[k].alone = call[k].alone
        /\ call'[k].broken = call[k].broken /\ call'[k].pc \in {"resolve", "ok"}
    BY <1>4, ReplyCalls
  <2> QED
    BY <2>1, <2>2, QuietInput DEF CallFields, Notes, Early, Answered
<1>5. ASSUME (\E r \in Request : CreateRequest(r)) \/ ShellEnds PROVE InputKept'
  <2>1. UNCHANGED <<buffer, pasted, call>>
    BY <1>5 DEF CreateRequest, ShellEnds
  <2> QED
    BY <2>1, QuietInput DEF Notes
<1>6. ASSUME Tick PROVE InputKept'
  <2>1. /\ call' = Forget({j \in Granted : call[j].lease.expires <= now'})
        /\ {j \in Granted : call[j].lease.expires <= now'} \in SUBSET Call
        /\ UNCHANGED <<buffer, pasted>>
    BY <1>6 DEF Tick, Granted
  <2>2. \A j \in Call : WriteFields(call'[j], call[j])
    BY <1>0, <2>1, ForgetCalls
  <2> QED
    BY <2>1, <2>2, QuietInput DEF WriteFields, Notes
<1>7. ASSUME BrokerLeases PROVE InputKept'
  <2>1. UNCHANGED pasted /\ buffer' = NoData /\ Given' = Given
    BY <1>7 DEF BrokerLeases, Given
  <2>2. \A j \in Call : \/ call[j].pc \in Ended \cup {"new"} /\ call'[j] = call[j]
                        \/ call'[j].pc = "lost"
    BY <1>7, BrokerLeasesCalls
  <2>3. Given \subseteq Call /\ NoData \notin Call
    <3>1. pasted \in Seq(Call)
      BY DEF LeaseTypeOK
    <3> QED
      BY <3>1, LeaseAssumption DEF Given
  <2>4. DataIsOnce'
    BY <2>1, <2>2, <2>3 DEF InputKept, DataIsOnce, Ended
  <2>5. AloneHasBuffer'
    BY <2>2 DEF AloneHasBuffer, InTmux, Ended
  <2>6. RepliesAreTrue'
    BY <2>1, <2>2, <2>3 DEF InputKept, RepliesAreTrue
  <2> QED
    BY <2>4, <2>5, <2>6 DEF InputKept
<1> QED
  BY <1>1, <1>2, <1>3, <1>4, <1>5, <1>6, <1>7, WriteBeginsInput, WritePastesInput,
     CommandFailsInput DEF LeaseNext, Acquiring

(* An answer that was accepted stays.                                       *)
LEMMA AnsweredStep ==
    ASSUME LeaseTypeOK, IsFiniteSet(leases), ResolvedHasAnswer, LeaseNext \/ BrokerLeases
    PROVE  ResolvedHasAnswer'
<1>0. /\ call \in [Call -> CallRow] /\ requests \in [Request -> {"absent", "PENDING", "RESOLVED"}]
      /\ \A k \in Call : call[k].pc = "resolve" => call[k].op = "submit"
  BY DEF LeaseTypeOK
<1> DEFINE Same(j) == /\ call'[j].pc = call[j].pc /\ call'[j].op = call[j].op
                      /\ call'[j].request = call[j].request
<1>1. ASSUME \A r \in Request : requests'[r] = "RESOLVED" => requests[r] = "RESOLVED",
             \A j \in Call : call[j].pc # "ok" \/ Same(j)
      PROVE  ResolvedHasAnswer'
  BY <1>1 DEF ResolvedHasAnswer
<1>2. ASSUME NEW k \in Call, Acquiring(k) PROVE ResolvedHasAnswer'
  <2>1. UNCHANGED requests /\ call[k].pc = "new"
    BY <1>2 DEF Acquiring, AcquireRead
  <2>2. \A j \in Call \ {k} : Same(j)
    BY <1>2, AcquireReadCalls DEF WriteFields
  <2> QED
    BY <1>1, <2>1, <2>2
<1>3. ASSUME NEW k \in Call,
             \/ \E owner \in Owner : Write(k, owner)
             \/ \E owner \in Owner, r \in Request : SubmitInput(k, owner, r)
             \/ RenewedWrite(k)
      PROVE  ResolvedHasAnswer'
  <2>1. PICK begun \in CallRow :
             /\ Validated(k, begun) /\ begun.op \in {"renew", "write", "submit"}
             /\ begun.op = "submit" => begun.request \in Request
             /\ call[k].pc \in {"new", "validate"}
    BY <1>3, ValidatedBegins
  <2>2. call' = [call EXCEPT ![k] = call'[k]]
    BY <2>1, ValidatedCall
  <2>3. UNCHANGED requests
    BY <2>1 DEF Validated
  <2>4. \A j \in Call \ {k} : Same(j)
    BY <1>0, <2>2
  <2> QED
    BY <1>1, <2>1, <2>3, <2>4
<1>4. ASSUME NEW k \in Call, AcquireStore(k) PROVE ResolvedHasAnswer'
  <2>1. UNCHANGED requests /\ call[k].pc = "store"
    BY <1>4 DEF AcquireStore
  <2>2. \A j \in Call \ {k} : Same(j)
    BY <1>4, AcquireStoreCalls DEF WriteFields
  <2> QED
    BY <1>1, <2>1, <2>2
<1>5. ASSUME NEW k \in Call, WriteBegins(k) \/ CommandFails(k) PROVE ResolvedHasAnswer'
  <2>1. UNCHANGED requests /\ call[k].pc \in {"set", "paste"}
    BY <1>5 DEF WriteBegins, CommandFails, InTmux
  <2>2. \A j \in Call \ {k} : Same(j)
    <3>1. CASE WriteBegins(k)
      BY <3>1, WriteBeginsCalls DEF CallFields
    <3>2. CASE CommandFails(k)
      BY <3>2, CommandFailsCalls DEF CallFields
    <3> QED
      BY <1>5, <3>1, <3>2
  <2> QED
    BY <1>1, <2>1, <2>2
<1>6. ASSUME NEW k \in Call, WritePastes(k) PROVE ResolvedHasAnswer'
  <2>1. UNCHANGED requests /\ call[k].pc = "paste"
    BY <1>6 DEF WritePastes, InTmux
  <2>2. \A j \in Call \ {k} : Same(j)
    BY <1>6, WritePastesCalls
  <2> QED
    BY <1>1, <2>1, <2>2
<1>7. ASSUME NEW k \in Call, WriteEnds(k) PROVE ResolvedHasAnswer'
  <2>1. UNCHANGED requests /\ call[k].pc = "touch"
    BY <1>7 DEF WriteEnds
  <2>2. \A j \in Call \ {k} : Same(j)
    BY <1>7, ReplyCalls
  <2> QED
    BY <1>1, <2>1, <2>2
<1>8. ASSUME NEW k \in Call, Resolves(k) PROVE ResolvedHasAnswer'
  <2>1. /\ requests' = [requests EXCEPT ![call[k].request] = "RESOLVED"]
        /\ call[k].pc = "resolve" /\ call[k].op = "submit"
    BY <1>0, <1>8 DEF Resolves
  <2>2. /\ \A j \in Call \ {k} : Same(j)
        /\ call'[k].op = call[k].op /\ call'[k].request = call[k].request
    BY <1>8, ReplyCalls DEF CallFields
  <2>3. call'[k].pc = "ok"
    <3>1. call' = [call EXCEPT ![k] = At(k, "ok")] /\ "ok" \in CallPc
      BY <1>8 DEF Resolves, Moves, CallPc, Ended
    <3>2. At(k, "ok").pc = "ok"
      BY <1>0, <3>1, AtRow
    <3> QED
      BY <1>0, <3>1, <3>2
  <2>4. SUFFICES ASSUME NEW r \in Request, requests'[r] = "RESOLVED"
                 PROVE  \E j \in Call : call'[j].pc = "ok" /\ call'[j].op = "submit" /\ call'[j].request = r
    BY DEF ResolvedHasAnswer
  <2>5. CASE r = call[k].request
    BY <2>1, <2>2, <2>3, <2>5
  <2>6. CASE r # call[k].request
    <3>1. requests[r] = "RESOLVED"
      BY <1>0, <2>1, <2>4, <2>6
    <3>2. PICK j \in Call : call[j].pc = "ok" /\ call[j].op = "submit" /\ call[j].request = r
      BY <3>1 DEF ResolvedHasAnswer
    <3> QED
      BY <2>1, <2>2, <3>2
  <2> QED
    BY <2>5, <2>6
<1>9. ASSUME NEW r \in Request, CreateRequest(r) PROVE ResolvedHasAnswer'
  <2>1. UNCHANGED call /\ requests' = [requests EXCEPT ![r] = "PENDING"]
    BY <1>9 DEF CreateRequest
  <2> QED
    BY <1>0, <1>1, <2>1
<1>10. ASSUME ShellEnds PROVE ResolvedHasAnswer'
  BY <1>1, <1>10 DEF ShellEnds
<1>11. ASSUME Tick PROVE ResolvedHasAnswer'
  <2>1. /\ call' = Forget({j \in Granted : call[j].lease.expires <= now'})
        /\ {j \in Granted : call[j].lease.expires <= now'} \in SUBSET Call
        /\ UNCHANGED requests
    BY <1>11 DEF Tick, Granted
  <2>2. \A j \in Call : Same(j)
    BY <1>0, <2>1, ForgetCalls DEF WriteFields
  <2> QED
    BY <1>1, <2>1, <2>2
<1>12. ASSUME BrokerLeases PROVE ResolvedHasAnswer'
  <2>1. UNCHANGED requests
    BY <1>12 DEF BrokerLeases
  <2>2. \A j \in Call : call[j].pc # "ok" \/ Same(j)
    BY <1>12, BrokerLeasesCalls DEF Ended
  <2> QED
    BY <1>1, <2>1, <2>2
<1> QED
  BY <1>2, <1>3, <1>4, <1>5, <1>6, <1>7, <1>8, <1>9, <1>10, <1>11, <1>12 DEF LeaseNext, Acquiring

(* Every step keeps InputInv.                                               *)
LEMMA InputInvStep ==
    ASSUME LeaseInv, InputInv, LeaseNext \/ BrokerLeases
    PROVE  InputInv'
  BY InputKeptStep, AnsweredStep DEF LeaseInv, InputInv, InputKept

(* No input is there at first.                                              *)
LEMMA InputInitially == LeaseInit => InputInv
<1> SUFFICES ASSUME LeaseInit PROVE InputInv
  OBVIOUS
<1>1. /\ \A k \in Call : call[k].pc = "new"
      /\ buffer = NoData /\ pasted = <<>> /\ requests = [r \in Request |-> "absent"]
  BY DEF LeaseInit, NewCall
<1>2. DOMAIN pasted = {} /\ Given = {}
  BY <1>1 DEF Given
<1>3. NoData \notin Call
  BY LeaseAssumption
<1> QED
  BY <1>1, <1>2, <1>3 DEF InputInv, DataIsOnce, AloneHasBuffer, RepliesAreTrue, ResolvedHasAnswer, InTmux

(* Data that is in the shell's input once is counted once.                  *)
LEMMA CountOnce ==
    ASSUME Once, NEW k
    PROVE  /\ k \in Given => Count(k) = 1
           /\ k \notin Given => Count(k) = 0
<1>1. CASE k \in Given
  <2>1. PICK i \in DOMAIN pasted : pasted[i] = k
    BY <1>1 DEF Given
  <2>2. {j \in DOMAIN pasted : pasted[j] = k} = {i}
    BY <2>1 DEF Once
  <2> QED
    BY <1>1, <2>2, FS_Singleton DEF Count
<1>2. CASE k \notin Given
  <2>1. {j \in DOMAIN pasted : pasted[j] = k} = {}
    BY <1>2 DEF Given
  <2> QED
    BY <1>2, <2>1, FS_EmptySet DEF Count
<1> QED
  BY <1>1, <1>2

(* What the invariant says of an input is what is promised.                 *)
LEMMA InputInvImplies == InputInv => InputIsFaithful
<1> SUFFICES ASSUME InputInv PROVE InputIsFaithful
  OBVIOUS
<1>1. Once
  BY DEF InputInv, DataIsOnce, Once
<1>2. \A k \in Call : (k \in Given => Count(k) = 1) /\ (k \notin Given => Count(k) = 0)
  BY <1>1, CountOnce
<1>3. GivenOnce
  BY <1>2 DEF GivenOnce
<1>4. ReplyIsTrue
  BY <1>2 DEF InputInv, RepliesAreTrue, ReplyIsTrue
<1>5. ResolvedWasGiven
  <2>1. SUFFICES ASSUME NEW r \in Request, requests[r] = "RESOLVED"
                 PROVE  \E k \in Call : call[k].request = r
                           /\ (Count(k) = 1 \/ ~call[k].alone \/ call[k].broken)
    BY DEF ResolvedWasGiven
  <2>2. PICK k \in Call : call[k].pc = "ok" /\ call[k].op = "submit" /\ call[k].request = r
    BY <2>1 DEF InputInv, ResolvedHasAnswer
  <2> QED
    BY <1>2, <2>2 DEF InputInv, RepliesAreTrue
<1> QED
  BY <1>3, <1>4, <1>5 DEF InputIsFaithful

-----------------------------------------------------------------------------
(***************************************************************************)
(* The remote connections. Row lemmas and the effects of the actions; the  *)
(* types, with every attempt in place; then the parts of ConnectInv one by *)
(* one: passwords, attempts that are alone, what they have ensured, lost   *)
(* passwords, and the count of approvals.                                  *)
(***************************************************************************)

(* Stage: a row that goes on, or what is left of one that is over.          *)
StillData(n, o) ==
    /\ n.by = o.by /\ n.want = o.want /\ n.auth = o.auth /\ n.secret = o.secret
    /\ n.endpoint = o.endpoint /\ n.environment = o.environment
    /\ n.trusting = o.trusting /\ n.waited = o.waited /\ n.alone = o.alone
IsOver(n, o) ==
    /\ n.pc \in Over /\ n.want = "none" /\ n.secret = NoSecret /\ n.trusting = FALSE
    /\ n.trusted = FALSE /\ n.waited = o.waited /\ n.alone = o.alone
OverRow(o, pc) == [NewAttempt EXCEPT !.pc = pc, !.waited = o.waited, !.alone = o.alone]
GoesOn(o, pc) == [o EXCEPT !.pc = pc]
LEMMA OverIsRow ==
    ASSUME NEW o \in AttemptRow, NEW pc \in Over
    PROVE  OverRow(o, pc) \in AttemptRow /\ OverRow(o, pc).pc = pc /\ IsOver(OverRow(o, pc), o)
  BY DEF OverRow, NewAttempt, AttemptRow, AttemptPc, Over, NoId, IsOver

(* An attempt that goes on keeps its data.                                  *)
LEMMA GoesOnIsRow ==
    ASSUME NEW o \in AttemptRow, NEW pc \in AttemptPc
    PROVE  /\ GoesOn(o, pc) \in AttemptRow /\ GoesOn(o, pc).pc = pc
           /\ StillData(GoesOn(o, pc), o)
           /\ GoesOn(o, pc).trusted = o.trusted /\ GoesOn(o, pc).todo = o.todo
  BY DEF GoesOn, AttemptRow, StillData

(* An attempt at its next stage, or over when nobody waits for it.          *)
LEMMA StageRow ==
    ASSUME attempt \in [Attempt -> AttemptRow], NEW a \in Attempt, NEW pc \in AttemptPc
    PROVE  /\ Stage(a, pc) \in AttemptRow /\ Stage(a, pc).pc = pc
           /\ Stage(a, pc).waited = attempt[a].waited /\ Stage(a, pc).alone = attempt[a].alone
           /\ pc \in Over => IsOver(Stage(a, pc), attempt[a])
           /\ pc \notin Over => /\ StillData(Stage(a, pc), attempt[a])
                                /\ Stage(a, pc).trusted = attempt[a].trusted
                                /\ Stage(a, pc).todo = attempt[a].todo
<1>0. attempt[a] \in AttemptRow
  OBVIOUS
<1>1. CASE pc \in Over
  <2>1. Stage(a, pc) = OverRow(attempt[a], pc)
    BY <1>1 DEF Stage, OverRow
  <2>2. Stage(a, pc) \in AttemptRow /\ Stage(a, pc).pc = pc /\ IsOver(Stage(a, pc), attempt[a])
    BY <1>0, <1>1, <2>1, OverIsRow
  <2>3. Stage(a, pc).waited = attempt[a].waited /\ Stage(a, pc).alone = attempt[a].alone
    BY <2>2 DEF IsOver
  <2> QED
    BY <1>1, <2>2, <2>3
<1>2. CASE pc \notin Over
  <2>1. Stage(a, pc) = GoesOn(attempt[a], pc)
    BY <1>2 DEF Stage, GoesOn
  <2> QED
    BY <1>0, <1>2, <2>1, GoesOnIsRow DEF StillData
<1> QED
  BY <1>1, <1>2

(* The changes that actions make to a row beside its stage.                 *)
WithTrusted(o, b) == [o EXCEPT !.trusted = b]
WithTrusting(o) == [o EXCEPT !.trusting = TRUE]
WithSecret(o, s) == [o EXCEPT !.secret = s]
WithEnvironment(o, v) == [o EXCEPT !.environment = v]
ForProbe(o) == [o EXCEPT !.want = "probe"]
Unwaited(o) == [o EXCEPT !.waited = FALSE]
Lonely(o, b) == [o EXCEPT !.alone = b]
Restarted(o) == [o EXCEPT !.trusted = FALSE, !.todo = {}]
LEMMA TrustedRow ==
    ASSUME NEW o \in AttemptRow, NEW b \in BOOLEAN
    PROVE  /\ WithTrusted(o, b) \in AttemptRow
           /\ StillData(WithTrusted(o, b), o)
           /\ WithTrusted(o, b).pc = o.pc
           /\ WithTrusted(o, b).todo = o.todo
           /\ WithTrusted(o, b).trusted = b
  BY DEF WithTrusted, AttemptRow, StillData

(* An attempt whose person has accepted the host key.                       *)
LEMMA TrustingRow ==
    ASSUME NEW o \in AttemptRow
    PROVE  /\ WithTrusting(o) \in AttemptRow
           /\ WithTrusting(o).pc = o.pc
           /\ WithTrusting(o).by = o.by
           /\ WithTrusting(o).want = o.want
           /\ WithTrusting(o).auth = o.auth
           /\ WithTrusting(o).secret = o.secret
           /\ WithTrusting(o).endpoint = o.endpoint
           /\ WithTrusting(o).environment = o.environment
           /\ WithTrusting(o).todo = o.todo
           /\ WithTrusting(o).trusted = o.trusted
           /\ WithTrusting(o).waited = o.waited
           /\ WithTrusting(o).alone = o.alone
           /\ WithTrusting(o).trusting = TRUE
  BY DEF WithTrusting, AttemptRow

(* An attempt that has stored its password.                                 *)
LEMMA SecretRow ==
    ASSUME NEW o \in AttemptRow, NEW s \in Attempt
    PROVE  /\ WithSecret(o, s) \in AttemptRow
           /\ WithSecret(o, s).pc = o.pc
           /\ WithSecret(o, s).by = o.by
           /\ WithSecret(o, s).want = o.want
           /\ WithSecret(o, s).auth = o.auth
           /\ WithSecret(o, s).endpoint = o.endpoint
           /\ WithSecret(o, s).environment = o.environment
           /\ WithSecret(o, s).todo = o.todo
           /\ WithSecret(o, s).trusting = o.trusting
           /\ WithSecret(o, s).trusted = o.trusted
           /\ WithSecret(o, s).waited = o.waited
           /\ WithSecret(o, s).alone = o.alone
           /\ WithSecret(o, s).secret = s
  BY DEF WithSecret, AttemptRow

(* An attempt that has found its environment.                               *)
LEMMA EnvironmentIsRow ==
    ASSUME NEW o \in AttemptRow, NEW v \in EnvironmentId
    PROVE  /\ WithEnvironment(o, v) \in AttemptRow
           /\ WithEnvironment(o, v).pc = o.pc
           /\ WithEnvironment(o, v).by = o.by
           /\ WithEnvironment(o, v).want = o.want
           /\ WithEnvironment(o, v).auth = o.auth
           /\ WithEnvironment(o, v).secret = o.secret
           /\ WithEnvironment(o, v).endpoint = o.endpoint
           /\ WithEnvironment(o, v).todo = o.todo
           /\ WithEnvironment(o, v).trusting = o.trusting
           /\ WithEnvironment(o, v).trusted = o.trusted
           /\ WithEnvironment(o, v).waited = o.waited
           /\ WithEnvironment(o, v).alone = o.alone
           /\ WithEnvironment(o, v).environment = v
  BY DEF WithEnvironment, AttemptRow

(* An attempt that goes on to probe.                                        *)
LEMMA ProbeRow ==
    ASSUME NEW o \in AttemptRow
    PROVE  /\ ForProbe(o) \in AttemptRow
           /\ ForProbe(o).pc = o.pc
           /\ ForProbe(o).by = o.by
           /\ ForProbe(o).auth = o.auth
           /\ ForProbe(o).secret = o.secret
           /\ ForProbe(o).endpoint = o.endpoint
           /\ ForProbe(o).environment = o.environment
           /\ ForProbe(o).todo = o.todo
           /\ ForProbe(o).trusting = o.trusting
           /\ ForProbe(o).trusted = o.trusted
           /\ ForProbe(o).waited = o.waited
           /\ ForProbe(o).alone = o.alone
           /\ ForProbe(o).want = "probe"
  BY DEF ForProbe, AttemptRow

(* An attempt nobody waits for any more.                                    *)
LEMMA UnwaitedRow ==
    ASSUME NEW o \in AttemptRow
    PROVE  /\ Unwaited(o) \in AttemptRow
           /\ Unwaited(o).pc = o.pc
           /\ Unwaited(o).by = o.by
           /\ Unwaited(o).want = o.want
           /\ Unwaited(o).auth = o.auth
           /\ Unwaited(o).secret = o.secret
           /\ Unwaited(o).endpoint = o.endpoint
           /\ Unwaited(o).environment = o.environment
           /\ Unwaited(o).todo = o.todo
           /\ Unwaited(o).trusting = o.trusting
           /\ Unwaited(o).trusted = o.trusted
           /\ Unwaited(o).alone = o.alone
           /\ Unwaited(o).waited = FALSE
  BY DEF Unwaited, AttemptRow

(* An attempt with its mark of being alone.                                 *)
LEMMA LonelyRow ==
    ASSUME NEW o \in AttemptRow, NEW b \in BOOLEAN
    PROVE  /\ Lonely(o, b) \in AttemptRow
           /\ Lonely(o, b).pc = o.pc
           /\ Lonely(o, b).by = o.by
           /\ Lonely(o, b).want = o.want
           /\ Lonely(o, b).auth = o.auth
           /\ Lonely(o, b).secret = o.secret
           /\ Lonely(o, b).endpoint = o.endpoint
           /\ Lonely(o, b).environment = o.environment
           /\ Lonely(o, b).todo = o.todo
           /\ Lonely(o, b).trusting = o.trusting
           /\ Lonely(o, b).trusted = o.trusted
           /\ Lonely(o, b).waited = o.waited
           /\ Lonely(o, b).alone = b
  BY DEF Lonely, AttemptRow

(* An attempt whose broker was restarted has lost its trust.                *)
LEMMA RestartedRow ==
    ASSUME NEW o \in AttemptRow
    PROVE  /\ Restarted(o) \in AttemptRow
           /\ StillData(Restarted(o), o)
           /\ Restarted(o).pc = o.pc
           /\ Restarted(o).trusted = FALSE
           /\ Restarted(o).todo = {}
  BY DEF Restarted, AttemptRow, StillData

(* The rows of env.ensure_ssh.                                              *)
Listed(o, pc, todo, e) == [o EXCEPT !.pc = pc, !.todo = todo, !.endpoint = e]
Rotated(o, todo, pc) == [o EXCEPT !.todo = todo, !.pc = pc]
Ensured(o, e) == [o EXCEPT !.pc = "environments", !.endpoint = e]
SameAttempt(n, o) ==
    /\ n.by = o.by /\ n.want = o.want /\ n.auth = o.auth /\ n.secret = o.secret
    /\ n.trusting = o.trusting /\ n.trusted = o.trusted /\ n.waited = o.waited /\ n.alone = o.alone
LEMMA ListedRow ==
    ASSUME NEW o \in AttemptRow, NEW pc \in AttemptPc, NEW todo \in SUBSET EndpointId,
           NEW e \in EndpointId \cup {NoId}
    PROVE  /\ Listed(o, pc, todo, e) \in AttemptRow /\ SameAttempt(Listed(o, pc, todo, e), o)
           /\ Listed(o, pc, todo, e).pc = pc /\ Listed(o, pc, todo, e).todo = todo
           /\ Listed(o, pc, todo, e).endpoint = e
  BY DEF Listed, AttemptRow, SameAttempt

(* An attempt that rotates the endpoints it has listed.                     *)
LEMMA RotatedRow ==
    ASSUME NEW o \in AttemptRow, NEW pc \in AttemptPc, NEW todo \in SUBSET EndpointId
    PROVE  /\ Rotated(o, todo, pc) \in AttemptRow /\ SameAttempt(Rotated(o, todo, pc), o)
           /\ Rotated(o, todo, pc).pc = pc /\ Rotated(o, todo, pc).todo = todo
           /\ Rotated(o, todo, pc).endpoint = o.endpoint
  BY DEF Rotated, AttemptRow, SameAttempt

(* An attempt that has its endpoint.                                        *)
LEMMA EnsuredRow ==
    ASSUME NEW o \in AttemptRow, NEW e \in EndpointId
    PROVE  /\ Ensured(o, e) \in AttemptRow /\ SameAttempt(Ensured(o, e), o)
           /\ Ensured(o, e).pc = "environments" /\ Ensured(o, e).endpoint = e
  BY DEF Ensured, AttemptRow, AttemptPc, SameAttempt

(* Attempts with the same data are the same attempt.                        *)
LEMMA StillIsSame ==
    ASSUME NEW n, NEW o, StillData(n, o), n.trusted = o.trusted
    PROVE  SameAttempt(n, o) /\ n.endpoint = o.endpoint /\ n.environment = o.environment
  BY DEF StillData, SameAttempt

(* A row of one attempt changes.                                            *)
OneMoves(a) ==
    /\ attempt' \in [Attempt -> AttemptRow] /\ \A b \in Attempt \ {a} : attempt'[b] = attempt[b]
LEMMA Moving ==
    ASSUME attempt \in [Attempt -> AttemptRow], NEW a \in Attempt, NEW n \in AttemptRow,
           Proceeds(a, n)
    PROVE  OneMoves(a) /\ attempt'[a] = n
  BY DEF Proceeds, OneMoves

(* The lowest of some numbers.                                              *)
LEMMA Lowest ==
    ASSUME NEW S \in SUBSET Nat, S # {}
    PROVE  \E e \in S : \A f \in S : e <= f
<1>1. \E x \in S : \A y \in S : ~(<<y, x>> \in OpToRel(<, Nat))
  BY WFMin, NatLessThanWellFounded
<1>2. PICK x \in S : \A y \in S : ~(y < x)
  BY <1>1 DEF OpToRel
<1>3. \A f \in S : x <= f
  BY <1>2
<1> QED
  BY <1>3

(* The effect of storing the password.                                      *)
LEMMA PutSecretRow ==
    ASSUME ConnectTypeOK, NEW a \in Attempt, PutSecret(a)
    PROVE  /\ OneMoves(a) /\ attempt[a].pc = "put"
           /\ UNCHANGED <<stored, connections, trust, known, context, faults, history>>
           /\ \/ /\ secrets' = secrets \cup {a} /\ attempt[a].waited
                 /\ attempt'[a].pc = "list" /\ attempt'[a].secret = a
                 /\ attempt'[a].by = attempt[a].by /\ attempt'[a].want = attempt[a].want
                 /\ attempt'[a].auth = attempt[a].auth /\ attempt'[a].alone = attempt[a].alone
                 /\ attempt'[a].trusting = attempt[a].trusting
                 /\ attempt'[a].trusted = attempt[a].trusted
              \/ /\ attempt'[a].pc = "failed" /\ IsOver(attempt'[a], attempt[a])
                 /\ secrets' = secrets \/ (secrets' = secrets \cup {a} /\ ~attempt[a].waited)
<1>0. /\ attempt \in [Attempt -> AttemptRow] /\ {"list", "failed"} \subseteq AttemptPc
      /\ "list" \notin Over /\ "failed" \in Over
  BY DEF ConnectTypeOK, AttemptPc, Over
<1>1. /\ Stage(a, "failed") \in AttemptRow /\ Stage(a, "failed").pc = "failed"
      /\ IsOver(Stage(a, "failed"), attempt[a])
  BY <1>0, StageRow
<1>2. /\ Stage(a, "list") \in AttemptRow /\ Stage(a, "list").pc = "list"
      /\ StillData(Stage(a, "list"), attempt[a]) /\ Stage(a, "list").trusted = attempt[a].trusted
  BY <1>0, StageRow
<1> DEFINE n == WithSecret(Stage(a, "list"), a)
<1>3. /\ n \in AttemptRow /\ n.pc = "list" /\ n.secret = a
      /\ n.by = attempt[a].by /\ n.want = attempt[a].want /\ n.auth = attempt[a].auth
      /\ n.alone = attempt[a].alone /\ n.trusting = attempt[a].trusting
      /\ n.trusted = attempt[a].trusted
  BY <1>2, SecretRow DEF StillData
<1>4. \/ secrets' = secrets \cup {a} /\ attempt[a].waited /\ Proceeds(a, n)
      \/ /\ Proceeds(a, Stage(a, "failed"))
         /\ secrets' = secrets \/ (secrets' = secrets \cup {a} /\ ~attempt[a].waited)
  BY DEF PutSecret, WithSecret
<1>5. /\ attempt[a].pc = "put"
      /\ UNCHANGED <<stored, connections, trust, known, context, faults, history>>
  BY DEF PutSecret
<1> HIDE DEF n
<1>6. CASE secrets' = secrets \cup {a} /\ attempt[a].waited /\ Proceeds(a, n)
  <2>1. OneMoves(a) /\ attempt'[a] = n
    BY <1>0, <1>3, <1>6, Moving
  <2> QED
    BY <1>3, <1>5, <1>6, <2>1
<1>7. CASE /\ Proceeds(a, Stage(a, "failed"))
           /\ secrets' = secrets \/ (secrets' = secrets \cup {a} /\ ~attempt[a].waited)
  <2>1. OneMoves(a) /\ attempt'[a] = Stage(a, "failed")
    BY <1>0, <1>1, <1>7, Moving
  <2> QED
    BY <1>1, <1>5, <1>7, <2>1
<1> QED
  BY <1>4, <1>6, <1>7

(* The effect of listing the endpoints.                                     *)
LEMMA EnsureListRow ==
    ASSUME ConnectTypeOK, NEW a \in Attempt, EnsureList(a)
    PROVE  /\ OneMoves(a) /\ attempt[a].pc = "list" /\ SameAttempt(attempt'[a], attempt[a])
           /\ UNCHANGED <<stored, secrets, connections, trust, known, context, faults, history>>
           /\ attempt'[a].pc \in {"rotate", "add", "environments"}
           /\ attempt'[a].pc = "add" => \A r \in endpoints : r.auth # attempt[a].auth
           /\ attempt'[a].pc # "add" =>
                 \E r \in endpoints : r.id = attempt'[a].endpoint /\ r.auth = attempt[a].auth
           /\ attempt'[a].pc = "environments" =>
                 \A r \in endpoints : r.auth = attempt[a].auth => r.secret = attempt[a].secret
           /\ \A r \in endpoints : r.auth = attempt[a].auth =>
                 (r.secret = attempt[a].secret \/ r.id \in attempt'[a].todo)
           /\ \A e \in attempt'[a].todo : \E r \in endpoints : r.id = e /\ r.auth = attempt[a].auth
<1> DEFINE same == {row \in endpoints : SameIdentity(row, a)}
           todo == {row.id : row \in {r \in same : Stale(r, attempt[a].secret)}}
           first == IF same = {} THEN NoId
                    ELSE CHOOSE e \in {r.id : r \in same} : \A r \in same : e <= r.id
           pc == IF todo # {} THEN "rotate" ELSE IF same = {} THEN "add" ELSE "environments"
<1>0. /\ attempt \in [Attempt -> AttemptRow]
      /\ \A r \in endpoints : r.id \in EndpointId /\ r.id \in Nat
      /\ pc \in {"rotate", "add", "environments"} /\ {"rotate", "add", "environments"} \subseteq AttemptPc
  BY ConnectAssumption DEF ConnectTypeOK, EndpointRow, AttemptPc
<1>1. /\ \A r \in endpoints : r \in same <=> r.auth = attempt[a].auth
      /\ same \subseteq endpoints
  BY DEF SameIdentity
<1>2. /\ todo \in SUBSET EndpointId
      /\ \A r \in same : r.secret = attempt[a].secret \/ r.id \in todo
      /\ \A e \in todo : \E r \in same : r.id = e
  BY <1>0, <1>1 DEF Stale
<1>3. same # {} => \E r \in same : r.id = first
  <2>1. SUFFICES ASSUME same # {} PROVE \E r \in same : r.id = first
    OBVIOUS
  <2> DEFINE ids == {r.id : r \in same}
  <2>2. ids \in SUBSET Nat /\ ids # {}
    BY <1>0, <1>1, <2>1
  <2>3. \E e \in ids : \A f \in ids : e <= f
    BY <2>2, Lowest
  <2>4. \E e \in ids : \A r \in same : e <= r.id
    BY <2>3
  <2>5. first \in ids
    BY <2>1, <2>4
  <2> QED
    BY <2>5
<1>4. first \in EndpointId \cup {NoId}
  BY <1>0, <1>1, <1>3
<1>5. Proceeds(a, Listed(attempt[a], pc, todo, first))
  BY DEF EnsureList, Listed
<1>6. /\ attempt[a].pc = "list"
      /\ UNCHANGED <<stored, secrets, connections, trust, known, context, faults, history>>
  BY DEF EnsureList
<1>p. /\ pc = "add" => same = {}
      /\ pc = "environments" => todo = {} /\ same # {}
      /\ pc = "rotate" => same # {}
  BY <1>2
<1> HIDE DEF pc, todo, first, same
<1> DEFINE n == Listed(attempt[a], pc, todo, first)
<1>7. /\ n \in AttemptRow /\ SameAttempt(n, attempt[a])
      /\ n.pc = pc /\ n.todo = todo /\ n.endpoint = first
  <2>1. attempt[a] \in AttemptRow /\ pc \in AttemptPc
    BY <1>0
  <2> QED
    BY <1>2, <1>4, <2>1, ListedRow
<1> HIDE DEF n
<1>8. OneMoves(a) /\ attempt'[a] = n
  BY <1>0, <1>5, <1>7, Moving DEF n
<1>9. pc # "add" => \E r \in endpoints : r.id = first /\ r.auth = attempt[a].auth
  BY <1>0, <1>1, <1>3, <1>p
<1>10. \A e \in todo : \E r \in endpoints : r.id = e /\ r.auth = attempt[a].auth
  BY <1>1, <1>2
<1>11. /\ pc = "add" => \A r \in endpoints : r.auth # attempt[a].auth
       /\ \A r \in endpoints : r.auth = attempt[a].auth => (r.secret = attempt[a].secret \/ r.id \in todo)
       /\ pc = "environments" =>
             \A r \in endpoints : r.auth = attempt[a].auth => r.secret = attempt[a].secret
  BY <1>1, <1>2, <1>p
<1> QED
  BY <1>0, <1>6, <1>7, <1>8, <1>9, <1>10, <1>11

(* The row of an endpoint.                                                  *)
LEMMA RowOf ==
    ASSUME ConnectTypeOK, NEW r \in endpoints
    PROVE  Row(r.id) = r
  BY DEF ConnectTypeOK, Row

(* Rotating keeps the ids and the auth methods.                             *)
LEMMA RotateRow ==
    ASSUME ConnectTypeOK, NEW a \in Attempt, InPlace(a), Rotate(a)
    PROVE  /\ OneMoves(a) /\ attempt[a].pc = "rotate" /\ SameAttempt(attempt'[a], attempt[a])
           /\ attempt'[a].endpoint = attempt[a].endpoint
           /\ UNCHANGED <<environments, secrets, connections, trust, known, context, faults, history>>
           /\ attempt'[a].pc \in {"rotate", "environments"}
           /\ \E s \in endpoints :
                 LET q == [s EXCEPT !.secret = attempt[a].secret]
                 IN  /\ s.auth = attempt[a].auth /\ s.id \in attempt[a].todo
                     /\ q \in EndpointRow /\ q.id = s.id /\ q.auth = s.auth
                     /\ q.secret = attempt[a].secret
                     /\ endpoints' = (endpoints \ {s}) \cup {q}
                     /\ attempt'[a].todo = attempt[a].todo \ {s.id}
                     /\ attempt'[a].pc = "environments" => attempt[a].todo = {s.id}
<1>0. /\ attempt \in [Attempt -> AttemptRow] /\ endpoints \subseteq EndpointRow
      /\ \A r, s \in endpoints : r.id = s.id => r = s
      /\ {"rotate", "environments"} \subseteq AttemptPc
      /\ attempt[a] \in AttemptRow /\ attempt[a].todo \in SUBSET EndpointId
      /\ attempt[a].secret \in Attempt \cup {NoSecret}
  BY DEF ConnectTypeOK, AttemptPc, AttemptRow
<1>1. PICK e \in attempt[a].todo :
         /\ attempt[a].pc = "rotate"
         /\ endpoints' = {row \in endpoints : row.id # e}
                            \cup {[Row(e) EXCEPT !.secret = attempt[a].secret]}
         /\ Proceeds(a, [attempt[a] EXCEPT !.todo = @ \ {e},
                         !.pc = IF attempt[a].todo = {e} THEN "environments" ELSE "rotate"])
         /\ UNCHANGED <<environments, secrets, connections, trust, known, context, faults, history>>
  BY DEF Rotate
<1>2. PICK s \in endpoints : s.id = e /\ s.auth = attempt[a].auth
  BY <1>1 DEF InPlace
<1>3. Row(e) = s
  BY <1>2, RowOf
<1> DEFINE q == [s EXCEPT !.secret = attempt[a].secret]
           pc == IF attempt[a].todo = {e} THEN "environments" ELSE "rotate"
           todo == attempt[a].todo \ {e}
           n == Rotated(attempt[a], todo, pc)
<1>4. q \in EndpointRow /\ q.id = s.id /\ q.auth = s.auth /\ q.secret = attempt[a].secret
  BY <1>0 DEF EndpointRow
<1>5. endpoints' = (endpoints \ {s}) \cup {q}
  BY <1>0, <1>1, <1>2, <1>3
<1>6. Proceeds(a, n)
  BY <1>0, <1>1 DEF Rotated, Proceeds, AttemptRow
<1>7. pc \in AttemptPc /\ todo \in SUBSET EndpointId /\ pc \in {"rotate", "environments"}
      /\ (pc = "environments" => attempt[a].todo = {e})
  BY <1>0
<1>8. /\ n \in AttemptRow /\ SameAttempt(n, attempt[a]) /\ n.pc = pc /\ n.todo = todo
      /\ n.endpoint = attempt[a].endpoint
  BY <1>0, <1>7, RotatedRow
<1> HIDE DEF n, pc
<1>9. OneMoves(a) /\ attempt'[a] = n
  BY <1>0, <1>6, <1>8, Moving
<1>10. attempt'[a].todo = attempt[a].todo \ {s.id}
  BY <1>2, <1>8, <1>9
<1> QED
  BY <1>1, <1>2, <1>4, <1>5, <1>7, <1>8, <1>9, <1>10

(* The effect of adding an endpoint.                                        *)
LEMMA AddEndpointRow ==
    ASSUME ConnectTypeOK, NEW a \in Attempt, NEW e \in EndpointId, AddEndpoint(a, e)
    PROVE  /\ OneMoves(a) /\ attempt[a].pc = "add" /\ SameAttempt(attempt'[a], attempt[a])
           /\ UNCHANGED <<environments, secrets, connections, trust, known, context, faults, history>>
           /\ attempt'[a].pc = "environments" /\ attempt'[a].endpoint = e
           /\ \A r \in endpoints : r.id # e
           /\ endpoints' = endpoints \cup {[id |-> e, auth |-> attempt[a].auth,
                                            secret |-> attempt[a].secret]}
<1>0. attempt \in [Attempt -> AttemptRow] /\ attempt[a] \in AttemptRow
  BY DEF ConnectTypeOK
<1> DEFINE n == Ensured(attempt[a], e)
<1>1. Proceeds(a, n)
  BY DEF AddEndpoint, Ensured
<1>2. /\ n \in AttemptRow /\ SameAttempt(n, attempt[a])
      /\ n.pc = "environments" /\ n.endpoint = e
  BY <1>0, EnsuredRow
<1> HIDE DEF n
<1>3. OneMoves(a) /\ attempt'[a] = n
  BY <1>0, <1>1, <1>2, Moving
<1>4. /\ attempt[a].pc = "add" /\ \A r \in endpoints : r.id # e
      /\ UNCHANGED <<environments, secrets, connections, trust, known, context, faults, history>>
      /\ endpoints' = endpoints \cup {[id |-> e, auth |-> attempt[a].auth,
                                       secret |-> attempt[a].secret]}
  BY DEF AddEndpoint
<1> QED
  BY <1>2, <1>3, <1>4

(* A row that goes on with what it knows, or one that is over.              *)
LEMMA GoesOnRow ==
    ASSUME attempt \in [Attempt -> AttemptRow], NEW a \in Attempt, NEW pc \in AttemptPc \ Over
    PROVE  /\ Stage(a, pc) \in AttemptRow /\ Stage(a, pc).pc = pc
           /\ SameAttempt(Stage(a, pc), attempt[a])
           /\ Stage(a, pc).endpoint = attempt[a].endpoint
           /\ Stage(a, pc).environment = attempt[a].environment
           /\ Stage(a, pc).todo = attempt[a].todo
<1>1. /\ Stage(a, pc) \in AttemptRow /\ Stage(a, pc).pc = pc
      /\ StillData(Stage(a, pc), attempt[a])
      /\ Stage(a, pc).trusted = attempt[a].trusted
      /\ Stage(a, pc).todo = attempt[a].todo
  BY StageRow
<1> QED
  BY <1>1 DEF StillData, SameAttempt

(* An attempt that takes an environment goes on, or is over when nobody     *)
(* waits.                                                                   *)
LEMMA AdoptingRow ==
    ASSUME ConnectTypeOK, NEW a \in Attempt, NEW v \in EnvironmentId
    PROVE  /\ Adopting(a, v) \in AttemptRow
           /\ attempt[a].waited => /\ SameAttempt(Adopting(a, v), attempt[a])
                                   /\ Adopting(a, v).pc = "connect"
                                   /\ Adopting(a, v).endpoint = attempt[a].endpoint
                                   /\ Adopting(a, v).environment = v
           /\ ~attempt[a].waited => /\ IsOver(Adopting(a, v), attempt[a])
                                    /\ Adopting(a, v).pc = "failed"
<1>0. /\ attempt \in [Attempt -> AttemptRow] /\ "connect" \in AttemptPc \ Over
      /\ "failed" \in AttemptPc /\ "failed" \in Over
  BY DEF ConnectTypeOK, AttemptPc, Over, Linked
<1>1. CASE attempt[a].waited
  <2> DEFINE o == Stage(a, "connect")
  <2>1. /\ o \in AttemptRow /\ o.pc = "connect" /\ SameAttempt(o, attempt[a])
        /\ o.endpoint = attempt[a].endpoint
    BY <1>0, GoesOnRow
  <2>2. Adopting(a, v) = WithEnvironment(o, v)
    BY <1>1 DEF Adopting, WithEnvironment
  <2> HIDE DEF o
  <2> DEFINE n == WithEnvironment(o, v)
  <2>3. /\ n \in AttemptRow /\ n.pc = o.pc /\ n.endpoint = o.endpoint /\ n.environment = v
        /\ n.by = o.by /\ n.want = o.want /\ n.auth = o.auth /\ n.secret = o.secret
        /\ n.trusting = o.trusting /\ n.trusted = o.trusted /\ n.waited = o.waited
        /\ n.alone = o.alone
    BY <2>1, EnvironmentIsRow
  <2> HIDE DEF n
  <2>4. SameAttempt(n, attempt[a])
    BY <2>1, <2>3 DEF SameAttempt
  <2>5. Adopting(a, v) = n
    BY <2>2 DEF n
  <2> QED
    BY <1>1, <2>1, <2>3, <2>4, <2>5
<1>2. CASE ~attempt[a].waited
  <2>1. Adopting(a, v) = Stage(a, "failed")
    BY <1>2 DEF Adopting
  <2> QED
    BY <1>0, <1>2, <2>1, StageRow
<1> QED
  BY <1>1, <1>2

(* The effect of looking for the environment.                               *)
LEMMA EnsureEnvironmentRow ==
    ASSUME ConnectTypeOK, NEW a \in Attempt, EnsureEnvironment(a)
    PROVE  /\ OneMoves(a) /\ attempt[a].pc = "environments"
           /\ UNCHANGED <<stored, secrets, connections, known, context, faults, history>>
           /\ trust' = IF attempt[a].trusting THEN trust \cup {attempt[a].endpoint} ELSE trust
           /\ \/ /\ attempt'[a].pc = "create" /\ SameAttempt(attempt'[a], attempt[a])
                 /\ attempt'[a].endpoint = attempt[a].endpoint
                 /\ \A r \in environments : r.endpoint # attempt[a].endpoint
              \/ /\ attempt'[a].pc = "connect" /\ SameAttempt(attempt'[a], attempt[a])
                 /\ attempt'[a].endpoint = attempt[a].endpoint
                 /\ [id |-> attempt'[a].environment, endpoint |-> attempt'[a].endpoint]
                       \in environments
              \/ /\ attempt'[a].pc = "failed" /\ IsOver(attempt'[a], attempt[a])
                 /\ ~attempt[a].waited
<1>0. /\ attempt \in [Attempt -> AttemptRow] /\ "create" \in AttemptPc \ Over
      /\ environments \subseteq EnvironmentRow
  BY DEF ConnectTypeOK, AttemptPc, Over, Linked
<1>1. /\ attempt[a].pc = "environments"
      /\ UNCHANGED <<stored, secrets, connections, known, context, faults, history>>
      /\ trust' = IF attempt[a].trusting THEN trust \cup {attempt[a].endpoint} ELSE trust
  BY DEF EnsureEnvironment
<1>2. CASE /\ \A r \in environments : r.endpoint # attempt[a].endpoint
           /\ Proceeds(a, Stage(a, "create"))
  <2>1. /\ Stage(a, "create") \in AttemptRow /\ Stage(a, "create").pc = "create"
        /\ SameAttempt(Stage(a, "create"), attempt[a])
        /\ Stage(a, "create").endpoint = attempt[a].endpoint
    BY <1>0, GoesOnRow
  <2>2. OneMoves(a) /\ attempt'[a] = Stage(a, "create")
    BY <1>0, <1>2, <2>1, Moving
  <2> QED
    BY <1>1, <1>2, <2>1, <2>2
<1>3. ASSUME NEW row \in environments, row.endpoint = attempt[a].endpoint,
             Proceeds(a, Adopting(a, row.id))
      PROVE  /\ OneMoves(a)
             /\ \/ /\ attempt'[a].pc = "connect" /\ SameAttempt(attempt'[a], attempt[a])
                   /\ attempt'[a].endpoint = attempt[a].endpoint
                   /\ [id |-> attempt'[a].environment, endpoint |-> attempt'[a].endpoint]
                         \in environments
                \/ /\ attempt'[a].pc = "failed" /\ IsOver(attempt'[a], attempt[a])
                   /\ ~attempt[a].waited
  <2>1. row.id \in EnvironmentId /\ row = [id |-> row.id, endpoint |-> row.endpoint]
    BY <1>0 DEF EnvironmentRow
  <2>2. Adopting(a, row.id) \in AttemptRow
    BY <2>1, AdoptingRow
  <2>3. OneMoves(a) /\ attempt'[a] = Adopting(a, row.id)
    BY <1>0, <1>3, <2>2, Moving
  <2>4. CASE attempt[a].waited
    <3>1. /\ SameAttempt(attempt'[a], attempt[a]) /\ attempt'[a].pc = "connect"
          /\ attempt'[a].endpoint = attempt[a].endpoint /\ attempt'[a].environment = row.id
      BY <2>1, <2>3, <2>4, AdoptingRow
    <3> QED
      BY <1>3, <2>1, <2>3, <3>1
  <2>5. CASE ~attempt[a].waited
    BY <2>1, <2>3, <2>5, AdoptingRow
  <2> QED
    BY <2>4, <2>5
<1>4. \/ /\ \A r \in environments : r.endpoint # attempt[a].endpoint
         /\ Proceeds(a, Stage(a, "create"))
      \/ \E row \in environments : /\ row.endpoint = attempt[a].endpoint
                                    /\ Proceeds(a, Adopting(a, row.id))
  BY DEF EnsureEnvironment
<1> QED
  BY <1>1, <1>2, <1>3, <1>4

(* The effect of creating it.                                               *)
LEMMA CreateEnvironmentRow ==
    ASSUME ConnectTypeOK, NEW a \in Attempt, NEW v \in EnvironmentId, CreateEnvironment(a, v)
    PROVE  /\ OneMoves(a) /\ attempt[a].pc = "create"
           /\ UNCHANGED <<endpoints, secrets, connections, trust, known, context, faults, history>>
           /\ environments' = environments \cup {[id |-> v, endpoint |-> attempt[a].endpoint]}
           /\ \/ /\ attempt'[a].pc = "connect" /\ SameAttempt(attempt'[a], attempt[a])
                 /\ attempt'[a].endpoint = attempt[a].endpoint
                 /\ [id |-> attempt'[a].environment, endpoint |-> attempt'[a].endpoint]
                       \in environments'
              \/ /\ attempt'[a].pc = "failed" /\ IsOver(attempt'[a], attempt[a])
                 /\ ~attempt[a].waited
<1>0. attempt \in [Attempt -> AttemptRow] /\ Adopting(a, v) \in AttemptRow
  BY AdoptingRow DEF ConnectTypeOK
<1>1. /\ attempt[a].pc = "create" /\ Proceeds(a, Adopting(a, v))
      /\ UNCHANGED <<endpoints, secrets, connections, trust, known, context, faults, history>>
      /\ environments' = environments \cup {[id |-> v, endpoint |-> attempt[a].endpoint]}
  BY DEF CreateEnvironment
<1>2. OneMoves(a) /\ attempt'[a] = Adopting(a, v)
  BY <1>0, <1>1, Moving
<1>3. CASE attempt[a].waited
  <2>1. /\ SameAttempt(attempt'[a], attempt[a]) /\ attempt'[a].pc = "connect"
        /\ attempt'[a].endpoint = attempt[a].endpoint /\ attempt'[a].environment = v
    BY <1>2, <1>3, AdoptingRow
  <2> QED
    BY <1>1, <1>2, <2>1
<1>4. CASE ~attempt[a].waited
  BY <1>1, <1>2, <1>4, AdoptingRow
<1> QED
  BY <1>3, <1>4

(* How an error is dealt with: the attempt is over, to be approved, or to   *)
(* delete its password.                                                     *)
Errs(n, o) ==
    \/ n.pc = "ok" /\ IsOver(n, o) /\ o.want = "probe"
    \/ n.pc = "failed" /\ IsOver(n, o) /\ (o.want = "work" \/ ~o.waited \/ o.secret = NoSecret)
    \/ /\ n.pc = "approve" /\ o.want \notin {"work", "probe"} /\ StillData(n, o)
       /\ n.trusted = FALSE /\ ~o.trusting
    \/ /\ n.pc = "delete" /\ o.want \notin {"work", "probe"} /\ o.secret # NoSecret
       /\ StillData(n, o) /\ n.trusted = FALSE
LEMMA OnErrorRow ==
    ASSUME attempt \in [Attempt -> AttemptRow], NEW a \in Attempt, NEW u
    PROVE  LET n == WithTrusted(Stage(a, OnError(a, u)), FALSE)
           IN  n \in AttemptRow /\ Errs(n, attempt[a])
<1> DEFINE pc == OnError(a, u)
           o == Stage(a, pc)
           n == WithTrusted(o, FALSE)
<1>1. /\ pc \in {"ok", "failed", "approve", "delete"}
      /\ pc = "ok" => attempt[a].want = "probe"
      /\ pc = "failed" => attempt[a].want = "work" \/ ~attempt[a].waited \/ attempt[a].secret = NoSecret
      /\ pc \in {"approve", "delete"} => attempt[a].want \notin {"work", "probe"}
      /\ pc = "approve" => ~attempt[a].trusting
      /\ pc = "delete" => attempt[a].secret # NoSecret
  BY DEF OnError
<1> HIDE DEF pc
<1>2. /\ {"ok", "failed", "approve", "delete"} \subseteq AttemptPc
      /\ pc \in {"ok", "failed"} <=> pc \in Over
  BY <1>1 DEF AttemptPc, Over
<1>3. /\ o \in AttemptRow /\ o.pc = pc
      /\ pc \in Over => IsOver(o, attempt[a])
      /\ pc \notin Over => StillData(o, attempt[a])
  BY <1>1, <1>2, StageRow
<1> HIDE DEF o
<1>4. /\ n \in AttemptRow /\ n.pc = pc /\ StillData(n, o) /\ n.trusted = FALSE
  BY <1>3, TrustedRow
<1> HIDE DEF n
<1>5. CASE pc \in Over
  <2>1. IsOver(n, attempt[a])
    BY <1>3, <1>4, <1>5 DEF IsOver, StillData
  <2> QED
    BY <1>1, <1>2, <1>4, <1>5, <2>1 DEF Errs, n, o, pc
<1>6. CASE pc \notin Over
  <2>1. StillData(n, attempt[a])
    BY <1>3, <1>4, <1>6 DEF StillData
  <2> QED
    BY <1>1, <1>2, <1>4, <1>6, <2>1 DEF Errs, n, o, pc
<1> QED
  BY <1>5, <1>6

(* An error where the row has no trust to give up.                          *)
LEMMA PlainErrorRow ==
    ASSUME attempt \in [Attempt -> AttemptRow], NEW a \in Attempt, NEW u, attempt[a].trusted = FALSE
    PROVE  Stage(a, OnError(a, u)) \in AttemptRow /\ Errs(Stage(a, OnError(a, u)), attempt[a])
<1> DEFINE pc == OnError(a, u)
           o == Stage(a, pc)
<1>1. /\ pc \in {"ok", "failed", "approve", "delete"}
      /\ pc = "ok" => attempt[a].want = "probe"
      /\ pc = "failed" => attempt[a].want = "work" \/ ~attempt[a].waited \/ attempt[a].secret = NoSecret
      /\ pc \in {"approve", "delete"} => attempt[a].want \notin {"work", "probe"}
      /\ pc = "approve" => ~attempt[a].trusting
      /\ pc = "delete" => attempt[a].secret # NoSecret
  BY DEF OnError
<1> HIDE DEF pc
<1>2. /\ {"ok", "failed", "approve", "delete"} \subseteq AttemptPc
      /\ pc \in {"ok", "failed"} <=> pc \in Over
  BY <1>1 DEF AttemptPc, Over
<1>3. /\ o \in AttemptRow /\ o.pc = pc
      /\ pc \in Over => IsOver(o, attempt[a])
      /\ pc \notin Over => StillData(o, attempt[a]) /\ o.trusted = attempt[a].trusted
  BY <1>1, <1>2, StageRow
<1> HIDE DEF o
<1> QED
  BY <1>1, <1>2, <1>3 DEF Errs, o, pc

(* The effect of opening the connection, or of finding it open.             *)
LEMMA StartConnectRow ==
    ASSUME ConnectTypeOK, NEW a \in Attempt, InPlace(a), StartConnect(a)
    PROVE  /\ OneMoves(a) /\ attempt[a].pc = "connect"
           /\ UNCHANGED <<stored, secrets, connections, known, context, faults, approvals, unverified>>
           /\ \/ /\ attempt[a].endpoint \in connections /\ trust' = trust \ {attempt[a].endpoint}
                 /\ UNCHANGED shared
                 /\ attempt'[a].pc = "use" /\ SameAttempt(attempt'[a], attempt[a])
                 /\ attempt'[a].endpoint = attempt[a].endpoint
                 /\ attempt'[a].environment = attempt[a].environment
              \/ /\ UNCHANGED <<trust, shared>> /\ Errs(attempt'[a], attempt[a])
              \/ /\ UNCHANGED trust
                 /\ \A r \in endpoints : r.id = attempt[a].endpoint => r.secret \in secrets \cup {NoSecret}
                 /\ attempt'[a].pc = "connecting" /\ StillData(attempt'[a], attempt[a])
                 /\ attempt'[a].trusted => attempt[a].endpoint \in trust
                 /\ shared => shared'
                 /\ attempt'[a].trusted =>
                       shared' \/ ~\E b \in Attempt : attempt[b].trusted /\ attempt[b].pc = "connecting"
                                                     /\ attempt[b].endpoint = attempt[a].endpoint
<1> DEFINE e == attempt[a].endpoint
           lost == Row(e).secret # NoSecret /\ Row(e).secret \notin secrets
           rival == \E b \in Running : attempt[b].pc = "connecting" /\ attempt[b].endpoint = e
                                       /\ attempt[b].trusted
<1>0. /\ attempt \in [Attempt -> AttemptRow] /\ {"use", "connecting"} \subseteq AttemptPc \ Over
  BY DEF ConnectTypeOK, AttemptPc, Over, Linked
<1>1. /\ attempt[a].pc = "connect"
      /\ UNCHANGED <<stored, secrets, connections, known, context, faults, approvals, unverified>>
  BY DEF StartConnect
<1>2. CASE e \in connections /\ trust' = trust \ {e} /\ Proceeds(a, Stage(a, "use")) /\ UNCHANGED shared
  <2>1. /\ Stage(a, "use") \in AttemptRow /\ Stage(a, "use").pc = "use"
        /\ SameAttempt(Stage(a, "use"), attempt[a]) /\ Stage(a, "use").endpoint = e
        /\ Stage(a, "use").environment = attempt[a].environment
    BY <1>0, GoesOnRow
  <2>2. OneMoves(a) /\ attempt'[a] = Stage(a, "use")
    BY <1>0, <1>2, <2>1, Moving
  <2> QED
    BY <1>1, <1>2, <2>1, <2>2
<1>3. CASE Proceeds(a, Stage(a, OnError(a, FALSE))) /\ UNCHANGED <<trust, shared>>
  <2>1. attempt[a].trusted = FALSE
    <3>1. attempt[a].trusted \in BOOLEAN
      BY <1>0 DEF AttemptRow
    <3> QED
      BY <1>1, <3>1 DEF InPlace
  <2>2. /\ Stage(a, OnError(a, FALSE)) \in AttemptRow
        /\ Errs(Stage(a, OnError(a, FALSE)), attempt[a])
    BY <1>0, <2>1, PlainErrorRow
  <2>3. OneMoves(a) /\ attempt'[a] = Stage(a, OnError(a, FALSE))
    BY <1>0, <1>3, <2>2, Moving
  <2> QED
    BY <1>1, <1>3, <2>2, <2>3
<1>4. CASE /\ ~lost /\ Proceeds(a, [Stage(a, "connecting") EXCEPT !.trusted = e \in trust])
           /\ shared' = (shared \/ (rival /\ e \in trust)) /\ UNCHANGED trust
  <2> DEFINE o == Stage(a, "connecting")
             n == WithTrusted(o, e \in trust)
  <2>1. /\ o \in AttemptRow /\ o.pc = "connecting" /\ StillData(o, attempt[a])
    BY <1>0, StageRow
  <2>2. Proceeds(a, n)
    BY <1>4 DEF WithTrusted
  <2> HIDE DEF o
  <2>3. (e \in trust) \in BOOLEAN
    OBVIOUS
  <2>4. /\ n \in AttemptRow /\ n.pc = "connecting" /\ StillData(n, o) /\ n.trusted = (e \in trust)
    BY <2>1, <2>3, TrustedRow
  <2> HIDE DEF n
  <2>5. OneMoves(a) /\ attempt'[a] = n
    BY <1>0, <2>2, <2>4, Moving
  <2>6. StillData(n, attempt[a])
    BY <2>1, <2>4 DEF StillData
  <2>7. \A r \in endpoints : r.id = e => r.secret \in secrets \cup {NoSecret}
    BY <1>4, RowOf
  <2>8. (shared => shared') /\ (n.trusted => e \in trust)
    BY <1>4, <2>4
  <2>9. n.trusted => shared' \/ ~\E b \in Attempt : attempt[b].trusted /\ attempt[b].pc = "connecting"
                                                    /\ attempt[b].endpoint = e
    <3>1. \A b \in Attempt : attempt[b].pc = "connecting" => b \in Running
      BY DEF Running, Over
    <3> QED
      BY <1>4, <2>8, <3>1
  <2> QED
    BY <1>1, <1>4, <2>4, <2>5, <2>6, <2>7, <2>8, <2>9
<1> QED
  BY <1>2, <1>3, <1>4 DEF StartConnect

(* The effect of its answer; the trust it was granted is spent.             *)
LEMMA EndConnectRow ==
    ASSUME ConnectTypeOK, NEW a \in Attempt, NEW works \in BOOLEAN, EndConnect(a, works)
    PROVE  /\ OneMoves(a) /\ attempt[a].pc = "connecting"
           /\ UNCHANGED <<stored, secrets, known, context, approvals, shared>>
           /\ trust' = trust \ {attempt[a].endpoint} /\ faults' \in 0..MaxFaults
           /\ \/ /\ connections' = connections \cup {attempt[a].endpoint}
                 /\ attempt'[a].pc = "use" /\ StillData(attempt'[a], attempt[a])
                 /\ attempt'[a].trusted = FALSE
                 /\ unverified' = unverified \/ (attempt[a].trusted /\ unverified' = unverified + 1)
              \/ UNCHANGED <<connections, unverified>> /\ Errs(attempt'[a], attempt[a])
<1> DEFINE e == attempt[a].endpoint
           trusted == known \/ attempt[a].trusted
<1>0. /\ attempt \in [Attempt -> AttemptRow] /\ "use" \in AttemptPc \ Over
      /\ faults \in 0..MaxFaults /\ MaxFaults \in Nat
  BY ConnectAssumption DEF ConnectTypeOK, AttemptPc, Over, Linked
<1>1. /\ attempt[a].pc = "connecting"
      /\ UNCHANGED <<stored, secrets, known, context, approvals, shared>>
      /\ trust' = trust \ {e}
  BY DEF EndConnect, AfterConnect
<1>2. faults' \in 0..MaxFaults
  <2>1. faults' = faults \/ (faults < MaxFaults /\ faults' = faults + 1)
    BY DEF EndConnect
  <2> QED
    BY <1>0, <2>1
<1>3. CASE works /\ trusted
  <2>1. /\ connections' = connections \cup {e}
        /\ unverified' = IF known \/ ~attempt[a].trusted THEN unverified ELSE unverified + 1
        /\ Proceeds(a, WithTrusted(Stage(a, "use"), FALSE))
    BY <1>3 DEF EndConnect, WithTrusted
  <2>2. unverified' = unverified \/ (attempt[a].trusted /\ unverified' = unverified + 1)
    BY <2>1
  <2> DEFINE o == Stage(a, "use")
             n == WithTrusted(o, FALSE)
  <2>3. o \in AttemptRow /\ o.pc = "use" /\ StillData(o, attempt[a])
    BY <1>0, StageRow
  <2>4. Proceeds(a, n)
    BY <2>1
  <2> HIDE DEF o
  <2>5. n \in AttemptRow /\ n.pc = "use" /\ StillData(n, o) /\ n.trusted = FALSE
    BY <2>3, TrustedRow
  <2> HIDE DEF n
  <2>6. StillData(n, attempt[a])
    BY <2>3, <2>5 DEF StillData
  <2>7. OneMoves(a) /\ attempt'[a] = n
    BY <1>0, <2>4, <2>5, Moving
  <2> QED
    BY <1>1, <1>2, <2>1, <2>2, <2>5, <2>6, <2>7
<1>4. CASE ~(works /\ trusted)
  <2> DEFINE n == WithTrusted(Stage(a, OnError(a, ~trusted)), FALSE)
  <2>1. Proceeds(a, n) /\ UNCHANGED <<connections, unverified>>
    BY <1>4 DEF EndConnect, WithTrusted
  <2>2. n \in AttemptRow /\ Errs(n, attempt[a])
    BY <1>0, OnErrorRow
  <2> HIDE DEF n
  <2>3. OneMoves(a) /\ attempt'[a] = n
    BY <1>0, <2>1, <2>2, Moving
  <2> QED
    BY <1>1, <1>2, <2>1, <2>2, <2>3
<1> QED
  BY <1>3, <1>4

(* The effect of the person's decision on the host key.                     *)
LEMMA ApproveRow ==
    ASSUME ConnectTypeOK, NEW a \in Attempt, NEW yes \in BOOLEAN, Approve(a, yes)
    PROVE  /\ OneMoves(a) /\ attempt[a].pc = "approve"
           /\ UNCHANGED <<stored, secrets, connections, trust, known, context, faults, unverified, shared>>
           /\ \/ /\ approvals' = approvals + 1 /\ attempt'[a].pc = "list"
                 /\ attempt'[a].by = attempt[a].by /\ attempt'[a].want = attempt[a].want
                 /\ attempt'[a].auth = attempt[a].auth /\ attempt'[a].secret = attempt[a].secret
                 /\ attempt'[a].trusted = attempt[a].trusted
                 /\ attempt'[a].alone = attempt[a].alone
              \/ /\ UNCHANGED approvals /\ attempt'[a].pc = "failed"
                 /\ IsOver(attempt'[a], attempt[a]) /\ attempt[a].secret = NoSecret
              \/ /\ UNCHANGED approvals /\ attempt'[a].pc = "delete"
                 /\ SameAttempt(attempt'[a], attempt[a]) /\ attempt[a].secret # NoSecret
                 /\ attempt'[a].endpoint = attempt[a].endpoint
<1>0. /\ attempt \in [Attempt -> AttemptRow] /\ {"list", "delete"} \subseteq AttemptPc \ Over
      /\ "failed" \in AttemptPc /\ "failed" \in Over
  BY DEF ConnectTypeOK, AttemptPc, Over, Linked
<1>1. /\ attempt[a].pc = "approve"
      /\ UNCHANGED <<stored, secrets, connections, trust, known, context, faults, unverified, shared>>
  BY DEF Approve
<1>2. CASE yes
  <2> DEFINE o == Stage(a, "list")
             n == WithTrusting(o)
  <2>1. Proceeds(a, n) /\ approvals' = approvals + 1
    BY <1>2 DEF Approve, WithTrusting
  <2>2. o \in AttemptRow /\ o.pc = "list" /\ SameAttempt(o, attempt[a])
    BY <1>0, GoesOnRow
  <2> HIDE DEF o
  <2>3. /\ n \in AttemptRow /\ n.pc = o.pc /\ n.by = o.by /\ n.want = o.want /\ n.auth = o.auth
        /\ n.secret = o.secret /\ n.trusted = o.trusted /\ n.alone = o.alone
    BY <2>2, TrustingRow
  <2> HIDE DEF n
  <2>4. OneMoves(a) /\ attempt'[a] = n
    BY <1>0, <2>1, <2>3, Moving
  <2> QED
    BY <1>1, <2>1, <2>2, <2>3, <2>4 DEF SameAttempt
<1>3. CASE ~yes /\ attempt[a].secret = NoSecret
  <2>1. Proceeds(a, Stage(a, "failed")) /\ UNCHANGED approvals
    BY <1>3 DEF Approve
  <2>2. /\ Stage(a, "failed") \in AttemptRow /\ Stage(a, "failed").pc = "failed"
        /\ IsOver(Stage(a, "failed"), attempt[a])
    BY <1>0, StageRow
  <2>3. OneMoves(a) /\ attempt'[a] = Stage(a, "failed")
    BY <1>0, <2>1, <2>2, Moving
  <2> QED
    BY <1>1, <1>3, <2>1, <2>2, <2>3
<1>4. CASE ~yes /\ attempt[a].secret # NoSecret
  <2>1. Proceeds(a, Stage(a, "delete")) /\ UNCHANGED approvals
    BY <1>4 DEF Approve
  <2>2. /\ Stage(a, "delete") \in AttemptRow /\ Stage(a, "delete").pc = "delete"
        /\ SameAttempt(Stage(a, "delete"), attempt[a])
        /\ Stage(a, "delete").endpoint = attempt[a].endpoint
    BY <1>0, GoesOnRow
  <2>3. OneMoves(a) /\ attempt'[a] = Stage(a, "delete")
    BY <1>0, <2>1, <2>2, Moving
  <2> QED
    BY <1>1, <1>4, <2>1, <2>2, <2>3
<1> QED
  BY <1>2, <1>3, <1>4

(* The effect of deleting the password of an attempt that failed.           *)
LEMMA GiveUpRow ==
    ASSUME ConnectTypeOK, NEW a \in Attempt, GiveUp(a)
    PROVE  /\ OneMoves(a) /\ attempt[a].pc = "delete" /\ secrets' = secrets \ {a}
           /\ UNCHANGED <<stored, connections, trust, known, context, faults, history>>
           /\ attempt'[a].pc = "failed" /\ IsOver(attempt'[a], attempt[a])
<1>0. /\ attempt \in [Attempt -> AttemptRow] /\ "failed" \in AttemptPc /\ "failed" \in Over
  BY DEF ConnectTypeOK, AttemptPc, Over, Linked
<1>1. /\ Stage(a, "failed") \in AttemptRow /\ Stage(a, "failed").pc = "failed"
      /\ IsOver(Stage(a, "failed"), attempt[a])
  BY <1>0, StageRow
<1>2. /\ attempt[a].pc = "delete" /\ secrets' = secrets \ {a} /\ Proceeds(a, Stage(a, "failed"))
      /\ UNCHANGED <<stored, connections, trust, known, context, faults, history>>
  BY DEF GiveUp, DeleteSecret
<1>3. OneMoves(a) /\ attempt'[a] = Stage(a, "failed")
  BY <1>0, <1>1, <1>2, Moving
<1> QED
  BY <1>1, <1>2, <1>3

(* A call that is cut keeps its data, or is over.                           *)
NowCut(n, o) ==
    /\ n.by = o.by /\ n.want = o.want /\ n.auth = o.auth /\ n.secret = o.secret
    /\ n.endpoint = o.endpoint /\ n.environment = o.environment /\ n.todo = o.todo
    /\ n.trusting = o.trusting /\ n.trusted = o.trusted /\ n.alone = o.alone
LEMMA CutRow ==
    ASSUME ConnectTypeOK, NEW a \in Attempt, Cut(a)
    PROVE  /\ OneMoves(a) /\ a \in Running /\ attempt'[a].waited = FALSE
           /\ faults' \in 0..MaxFaults
           /\ UNCHANGED <<stored, secrets, connections, trust, known, context, history>>
           /\ \/ /\ attempt[a].pc # "approve" /\ attempt'[a].pc = attempt[a].pc
                 /\ NowCut(attempt'[a], attempt[a])
              \/ /\ attempt[a].pc = "approve" /\ attempt'[a].pc = "failed"
                 /\ attempt'[a].want = "none" /\ attempt'[a].secret = NoSecret
                 /\ attempt'[a].trusting = FALSE /\ attempt'[a].trusted = FALSE
                 /\ attempt'[a].alone = attempt[a].alone
<1>0. /\ attempt \in [Attempt -> AttemptRow] /\ "failed" \in AttemptPc /\ "failed" \in Over
      /\ attempt[a].pc \in AttemptPc
      /\ faults \in 0..MaxFaults /\ MaxFaults \in Nat
  BY ConnectAssumption DEF ConnectTypeOK, AttemptPc, AttemptRow, Over, Linked
<1>1. /\ a \in Running /\ faults < MaxFaults /\ faults' = faults + 1
      /\ UNCHANGED <<stored, secrets, connections, trust, known, context, history>>
  BY DEF Cut
<1>2. faults' \in 0..MaxFaults
  BY <1>0, <1>1
<1>3. CASE attempt[a].pc = "approve"
  <2> DEFINE o == Stage(a, "failed")
             n == Unwaited(o)
  <2>1. Proceeds(a, n)
    BY <1>3 DEF Cut, Unwaited
  <2>2. o \in AttemptRow /\ o.pc = "failed" /\ IsOver(o, attempt[a])
    BY <1>0, StageRow
  <2> HIDE DEF o
  <2>3. /\ n \in AttemptRow /\ n.pc = o.pc /\ n.want = o.want /\ n.secret = o.secret
        /\ n.trusting = o.trusting /\ n.trusted = o.trusted /\ n.alone = o.alone
        /\ n.waited = FALSE
    BY <2>2, UnwaitedRow
  <2> HIDE DEF n
  <2>4. OneMoves(a) /\ attempt'[a] = n
    BY <1>0, <2>1, <2>3, Moving
  <2> QED
    BY <1>1, <1>2, <1>3, <2>2, <2>3, <2>4 DEF IsOver
<1>4. CASE attempt[a].pc # "approve"
  <2> DEFINE o == Stage(a, attempt[a].pc)
             n == Unwaited(o)
  <2>1. Proceeds(a, n)
    BY <1>4 DEF Cut, Unwaited
  <2>2. attempt[a].pc \in AttemptPc \ Over
    BY <1>0, <1>1 DEF Running
  <2>3. /\ o \in AttemptRow /\ o.pc = attempt[a].pc /\ SameAttempt(o, attempt[a])
        /\ o.endpoint = attempt[a].endpoint /\ o.environment = attempt[a].environment
        /\ o.todo = attempt[a].todo
    BY <1>0, <2>2, GoesOnRow
  <2> HIDE DEF o
  <2>4. /\ n \in AttemptRow /\ n.pc = o.pc /\ n.by = o.by /\ n.want = o.want /\ n.auth = o.auth
        /\ n.secret = o.secret /\ n.endpoint = o.endpoint /\ n.environment = o.environment
        /\ n.todo = o.todo /\ n.trusting = o.trusting /\ n.trusted = o.trusted
        /\ n.alone = o.alone /\ n.waited = FALSE
    BY <2>3, UnwaitedRow
  <2> HIDE DEF n
  <2>5. OneMoves(a) /\ attempt'[a] = n
    BY <1>0, <2>1, <2>4, Moving
  <2>6. NowCut(n, attempt[a])
    BY <2>3, <2>4 DEF SameAttempt, NowCut
  <2> QED
    BY <1>1, <1>2, <1>4, <2>3, <2>4, <2>5, <2>6
<1> QED
  BY <1>3, <1>4

(* What a conversation is connected to is not changed by a probe.           *)
SameTarget(d, c) ==
    /\ d.mode = c.mode /\ d.endpoint = c.endpoint /\ d.environment = c.environment
    /\ d.sound = c.sound
ProbedRow(c, r) == [c EXCEPT !.remote = r]
LEMMA ProbedIsRow ==
    ASSUME NEW c \in ContextRow, NEW r \in {"unknown", "ok"}
    PROVE  ProbedRow(c, r) \in ContextRow /\ SameTarget(ProbedRow(c, r), c)
  BY DEF ProbedRow, ContextRow, SameTarget

(* A step that leaves the contexts alone leaves their targets alone.        *)
TargetsStay ==
    context' \in [Conversation -> ContextRow]
    /\ \A c \in Conversation : SameTarget(context'[c], context[c])
LEMMA ContextStays ==
    ASSUME ConnectTypeOK, UNCHANGED context
    PROVE  TargetsStay
  BY DEF ConnectTypeOK, TargetsStay, SameTarget

(* So does the result of a probe.                                           *)
LEMMA ProbedStays ==
    ASSUME ConnectTypeOK, NEW a \in Attempt, attempt[a].by \in Conversation, NEW works \in BOOLEAN,
           context' = Probed(a, works)
    PROVE  TargetsStay
<1> DEFINE k == attempt[a].by
           r == IF works THEN "ok" ELSE "unknown"
<1>0. context \in [Conversation -> ContextRow] /\ r \in {"unknown", "ok"}
  BY DEF ConnectTypeOK
<1>1. context' = [context EXCEPT ![k] = ProbedRow(context[k], r)]
  BY DEF Probed, ProbedRow
<1> HIDE DEF r
<1>2. ProbedRow(context[k], r) \in ContextRow /\ SameTarget(ProbedRow(context[k], r), context[k])
  BY <1>0, ProbedIsRow
<1>3. context' \in [Conversation -> ContextRow]
  BY <1>0, <1>1, <1>2
<1>4. \A c \in Conversation : SameTarget(context'[c], context[c])
  <2>1. TAKE c \in Conversation
  <2>2. CASE c = k
    BY <1>0, <1>1, <1>2, <2>2
  <2>3. CASE c # k
    BY <1>0, <1>1, <2>3 DEF SameTarget
  <2> QED
    BY <2>2, <2>3
<1> QED
  BY <1>3, <1>4 DEF TargetsStay

(* The effect of a request over the connection.                             *)
LEMMA WorkRow ==
    ASSUME ConnectTypeOK, NEW a \in Attempt, NEW works \in BOOLEAN, InPlace(a), Work(a, works)
    PROVE  /\ OneMoves(a) /\ attempt[a].pc = "use"
           /\ UNCHANGED <<stored, secrets, trust, known, history>>
           /\ connections' \subseteq connections /\ faults' \in 0..MaxFaults
           /\ \/ TargetsStay /\ Errs(attempt'[a], attempt[a])
              \/ /\ TargetsStay /\ IsOver(attempt'[a], attempt[a])
                 /\ attempt'[a].pc = "ok" \/ (attempt'[a].pc = "failed" /\ ~attempt[a].waited)
              \/ /\ context' = Adopted(a) /\ attempt[a].want = "root"
                 /\ attempt'[a].pc = "connect" /\ attempt'[a].want = "probe"
                 /\ attempt'[a].by = attempt[a].by /\ attempt'[a].secret = attempt[a].secret
                 /\ attempt'[a].endpoint = attempt[a].endpoint
                 /\ attempt'[a].trusted = attempt[a].trusted
                 /\ attempt'[a].alone = attempt[a].alone
<1>0. /\ attempt \in [Attempt -> AttemptRow] /\ "connect" \in AttemptPc \ Over
      /\ {"ok", "failed"} \subseteq AttemptPc /\ {"ok", "failed"} \subseteq Over
      /\ faults \in 0..MaxFaults /\ MaxFaults \in Nat
  BY ConnectAssumption DEF ConnectTypeOK, AttemptPc, Over, Linked
<1>1. /\ attempt[a].pc = "use" /\ UNCHANGED <<stored, secrets, trust, known, history>>
      /\ works \/ faults < MaxFaults
      /\ faults' = IF works THEN faults ELSE faults + 1
  BY DEF Work
<1>2. connections' \subseteq connections
  BY DEF Work, Healthy
<1>3. faults' \in 0..MaxFaults
  BY <1>0, <1>1
<1>4. a \in Running
  BY <1>1 DEF Running, Over
<1>5. attempt[a].by \in Conversation /\ attempt[a].want \in {"root", "work", "probe"}
  BY <1>4 DEF InPlace
<1>6. attempt[a].trusted = FALSE
  <2>1. attempt[a].trusted \in BOOLEAN
    BY <1>0 DEF AttemptRow
  <2> QED
    BY <1>1, <2>1 DEF InPlace
<1>7. ASSUME ~(attempt[a].waited /\ attempt[a].want = "root" /\ works)
      PROVE  TargetsStay
  <2>1. UNCHANGED context \/ context' = Probed(a, works)
    BY <1>7, <1>5 DEF Work
  <2> QED
    BY <1>5, <2>1, ContextStays, ProbedStays
<1>8. CASE ~works
  <2> DEFINE n == Stage(a, OnError(a, FALSE))
  <2>1. Proceeds(a, n)
    BY <1>8 DEF Work
  <2>2. n \in AttemptRow /\ Errs(n, attempt[a])
    BY <1>0, <1>6, PlainErrorRow
  <2> HIDE DEF n
  <2>3. OneMoves(a) /\ attempt'[a] = n
    BY <1>0, <2>1, <2>2, Moving
  <2> QED
    BY <1>1, <1>2, <1>3, <1>7, <1>8, <2>2, <2>3
<1>9. CASE works /\ ~(attempt[a].want = "root" /\ attempt[a].waited)
  <2> DEFINE pc == IF attempt[a].waited THEN "ok" ELSE "failed"
             n == Stage(a, pc)
  <2>1. Proceeds(a, n)
    BY <1>9 DEF Work
  <2>2. pc \in AttemptPc /\ pc \in Over /\ (pc = "ok" \/ (pc = "failed" /\ ~attempt[a].waited))
    BY <1>0
  <2> HIDE DEF pc
  <2>3. n \in AttemptRow /\ n.pc = pc /\ IsOver(n, attempt[a])
    BY <1>0, <2>2, StageRow
  <2> HIDE DEF n
  <2>4. OneMoves(a) /\ attempt'[a] = n
    BY <1>0, <2>1, <2>3, Moving
  <2> QED
    BY <1>1, <1>2, <1>3, <1>7, <1>9, <2>2, <2>3, <2>4
<1>10. CASE works /\ attempt[a].want = "root" /\ attempt[a].waited
  <2> DEFINE o == Stage(a, "connect")
             n == ForProbe(o)
  <2>1. Proceeds(a, n)
    BY <1>10 DEF Work, ForProbe
  <2>2. context' = Adopted(a)
    BY <1>10 DEF Work
  <2>3. /\ o \in AttemptRow /\ o.pc = "connect" /\ SameAttempt(o, attempt[a])
        /\ o.endpoint = attempt[a].endpoint
    BY <1>0, GoesOnRow
  <2> HIDE DEF o
  <2>4. /\ n \in AttemptRow /\ n.pc = o.pc /\ n.by = o.by /\ n.want = "probe"
        /\ n.secret = o.secret /\ n.endpoint = o.endpoint /\ n.trusted = o.trusted
        /\ n.alone = o.alone
    BY <2>3, ProbeRow
  <2> HIDE DEF n
  <2>5. OneMoves(a) /\ attempt'[a] = n
    BY <1>0, <2>1, <2>4, Moving
  <2>6. /\ attempt'[a].by = attempt[a].by /\ attempt'[a].secret = attempt[a].secret
        /\ attempt'[a].trusted = attempt[a].trusted /\ attempt'[a].alone = attempt[a].alone
    BY <2>3, <2>4, <2>5 DEF SameAttempt
  <2> QED
    BY <1>1, <1>2, <1>3, <1>10, <2>2, <2>3, <2>4, <2>5, <2>6
<1> QED
  BY <1>8, <1>9, <1>10

(* A row of what a conversation is connected to.                            *)
AdoptedRow(t) == [mode |-> "ssh", endpoint |-> t.endpoint, environment |-> t.environment,
                  remote |-> "unknown", sound |-> t.alone]
LEMMA AdoptedIsRow ==
    ASSUME NEW t \in AttemptRow
    PROVE  /\ AdoptedRow(t) \in ContextRow /\ AdoptedRow(t).mode = "ssh"
           /\ AdoptedRow(t).endpoint = t.endpoint /\ AdoptedRow(t).environment = t.environment
           /\ AdoptedRow(t).sound = t.alone
  BY DEF AdoptedRow, ContextRow, AttemptRow

(* A conversation that adopts an attempt works on its endpoint; the others  *)
(* stay.                                                                    *)
LEMMA AdoptedTarget ==
    ASSUME ConnectTypeOK, NEW a \in Attempt, attempt[a].by \in Conversation, context' = Adopted(a)
    PROVE  /\ context' \in [Conversation -> ContextRow]
           /\ \A c \in Conversation : c # attempt[a].by => context'[c] = context[c]
           /\ context'[attempt[a].by].mode = "ssh"
           /\ context'[attempt[a].by].endpoint = attempt[a].endpoint
           /\ context'[attempt[a].by].environment = attempt[a].environment
           /\ context'[attempt[a].by].sound = attempt[a].alone
<1>0. context \in [Conversation -> ContextRow] /\ attempt[a] \in AttemptRow
  BY DEF ConnectTypeOK
<1> DEFINE n == AdoptedRow(attempt[a])
<1>1. context' = [context EXCEPT ![attempt[a].by] = n]
  BY DEF Adopted, AdoptedRow
<1>2. /\ n \in ContextRow /\ n.mode = "ssh" /\ n.endpoint = attempt[a].endpoint
      /\ n.environment = attempt[a].environment /\ n.sound = attempt[a].alone
  BY <1>0, AdoptedIsRow
<1> HIDE DEF n
<1>3. context'[attempt[a].by] = n
  BY <1>0, <1>1
<1> QED
  BY <1>0, <1>1, <1>2, <1>3

(* A call begins; a row of another attempt may no longer be alone.          *)
Disturbed(n, o) ==
    /\ n.pc = o.pc /\ n.by = o.by /\ n.want = o.want /\ n.auth = o.auth /\ n.secret = o.secret
    /\ n.endpoint = o.endpoint /\ n.environment = o.environment /\ n.todo = o.todo
    /\ n.trusting = o.trusting /\ n.trusted = o.trusted /\ n.waited = o.waited
LEMMA DisturbedRow ==
    ASSUME NEW o \in AttemptRow
    PROVE  /\ Lonely(o, FALSE) \in AttemptRow /\ Disturbed(Lonely(o, FALSE), o)
           /\ Lonely(o, FALSE).alone = FALSE
  BY DEF Lonely, AttemptRow, Disturbed
RootRow(c, auth, pc, S) ==
    [NewAttempt EXCEPT !.pc = pc, !.by = c, !.want = "root", !.auth = auth, !.alone = S = {}]
UseRow(c, e) ==
    [NewAttempt EXCEPT !.pc = "connect", !.by = c, !.want = "work", !.endpoint = e, !.alone = TRUE]

(* Targets stay, and none is sound any more.                                *)
NoneSound ==
    /\ context' \in [Conversation -> ContextRow]
    /\ \A c \in Conversation : /\ context'[c].mode = context[c].mode
                               /\ context'[c].endpoint = context[c].endpoint
                               /\ context'[c].environment = context[c].environment
                               /\ context'[c].sound = FALSE
Unsound(c) == [c EXCEPT !.sound = FALSE]
LEMMA UnsoundRow ==
    ASSUME NEW c \in ContextRow
    PROVE  /\ Unsound(c) \in ContextRow /\ Unsound(c).mode = c.mode
           /\ Unsound(c).endpoint = c.endpoint /\ Unsound(c).environment = c.environment
           /\ Unsound(c).sound = FALSE
  BY DEF Unsound, ContextRow

(* The effect of connect: the attempt and its rivals are marked.            *)
LEMMA ConnectRow ==
    ASSUME ConnectTypeOK, AttemptsInPlace, NEW a \in Attempt, NEW c \in Conversation, NEW auth \in Auth,
           Connect(a, c, auth)
    PROVE  /\ attempt' \in [Attempt -> AttemptRow] /\ attempt[a].pc = "new"
           /\ UNCHANGED <<stored, secrets, connections, trust, known, faults, history>>
           /\ \/ attempt'[a].pc = "put" /\ attempt'[a].auth = "password"
              \/ attempt'[a].pc = "list" /\ attempt'[a].auth = "agent"
           /\ attempt'[a].by = c /\ attempt'[a].want = "root" /\ attempt'[a].auth \in Auth
           /\ attempt'[a].secret = NoSecret /\ attempt'[a].trusting = FALSE
           /\ attempt'[a].trusted = FALSE /\ (attempt'[a].alone => Connecting = {})
           /\ \A b \in Attempt \ {a} :
                 \/ attempt'[b] = attempt[b] /\ b \notin Connecting
                 \/ /\ Disturbed(attempt'[b], attempt[b]) /\ attempt'[b].alone = FALSE
                    /\ b \in Connecting
           /\ NoneSound
<1> DEFINE pc == IF auth = "password" THEN "put" ELSE "list"
           n == RootRow(c, auth, pc, Connecting)
<1>0. /\ attempt \in [Attempt -> AttemptRow] /\ context \in [Conversation -> ContextRow]
      /\ pc \in {"put", "list"}
      /\ (pc = "put" <=> auth = "password")
  BY DEF ConnectTypeOK
<1>1. /\ attempt[a].pc = "new"
      /\ UNCHANGED <<stored, secrets, connections, trust, known, faults, history>>
      /\ context' = [k \in Conversation |->
            IF context[k].endpoint # NoId THEN Unsound(context[k]) ELSE context[k]]
  BY DEF Connect, Begins, Unsound
<1> DEFINE begun == [NewAttempt EXCEPT !.pc = pc, !.by = c, !.want = "root", !.auth = auth]
<1>2. Begins(a, begun) /\ begun.want = "root"
  BY DEF Connect, NewAttempt
<1>3. [begun EXCEPT !.alone = begun.want = "work" \/ Connecting = {}] = n
  BY <1>0 DEF RootRow, NewAttempt
<1>5. /\ n \in AttemptRow /\ n.pc = pc /\ n.by = c /\ n.want = "root" /\ n.auth = auth
      /\ n.secret = NoSecret /\ n.trusting = FALSE /\ n.trusted = FALSE
      /\ n.alone => Connecting = {}
  BY <1>0 DEF RootRow, NewAttempt, AttemptRow, AttemptPc, NoId
<1> HIDE DEF n, begun
<1>4. attempt' = [b \in Attempt |-> IF b = a THEN n ELSE
                    IF b \in Connecting THEN Lonely(attempt[b], FALSE) ELSE attempt[b]]
  BY <1>2, <1>3 DEF Begins, Lonely
<1> HIDE DEF pc
<1>6. /\ attempt'[a] = n
      /\ \A b \in Attempt \ {a} : attempt'[b] =
            IF b \in Connecting THEN Lonely(attempt[b], FALSE) ELSE attempt[b]
  BY <1>4
<1>7. \A b \in Attempt : /\ Lonely(attempt[b], FALSE) \in AttemptRow
                         /\ Disturbed(Lonely(attempt[b], FALSE), attempt[b])
                         /\ Lonely(attempt[b], FALSE).alone = FALSE
  BY <1>0, DisturbedRow
<1>8. attempt' \in [Attempt -> AttemptRow]
  BY <1>0, <1>4, <1>5, <1>7
<1>9. \A b \in Attempt \ {a} :
         \/ attempt'[b] = attempt[b] /\ b \notin Connecting
         \/ /\ Disturbed(attempt'[b], attempt[b]) /\ attempt'[b].alone = FALSE
            /\ b \in Connecting
  BY <1>6, <1>7
<1>10. NoneSound
  <2>1. \A k \in Conversation : /\ Unsound(context[k]) \in ContextRow
                                /\ Unsound(context[k]).mode = context[k].mode
                                /\ Unsound(context[k]).endpoint = context[k].endpoint
                                /\ Unsound(context[k]).environment = context[k].environment
                                /\ Unsound(context[k]).sound = FALSE
    BY <1>0, UnsoundRow
  <2>2. context' \in [Conversation -> ContextRow]
    BY <1>0, <1>1, <2>1
  <2>3. ASSUME NEW k \in Conversation
        PROVE  /\ context'[k].mode = context[k].mode
               /\ context'[k].endpoint = context[k].endpoint
               /\ context'[k].environment = context[k].environment
               /\ context'[k].sound = FALSE
    <3>1. CASE context[k].endpoint # NoId
      BY <1>1, <2>1, <3>1
    <3>2. CASE context[k].endpoint = NoId
      <4>1. context'[k] = context[k]
        BY <1>1, <3>2
      <4>2. context[k].mode = "local"
        BY <3>2 DEF ConnectTypeOK
      <4>3. context[k].sound \in BOOLEAN
        BY <1>0 DEF ContextRow
      <4>4. ~context[k].sound
        BY <4>2 DEF AttemptsInPlace
      <4> QED
        BY <4>1, <4>3, <4>4
    <3> QED
      BY <3>1, <3>2
  <2> QED
    BY <2>2, <2>3 DEF NoneSound
<1>11. attempt'[a].alone => Connecting = {}
  BY <1>5, <1>6
<1>12. /\ \/ attempt'[a].pc = "put" /\ attempt'[a].auth = "password"
          \/ attempt'[a].pc = "list" /\ attempt'[a].auth = "agent"
       /\ attempt'[a].auth \in Auth
  BY <1>0, <1>5, <1>6, ConnectAssumption
<1> QED
  BY <1>0, <1>1, <1>5, <1>6, <1>8, <1>9, <1>10, <1>11, <1>12

(* The effect of a call on a conversation that is connected.                *)
LEMMA UseIsMade ==
    ASSUME ConnectTypeOK, NEW a \in Attempt, NEW c \in Conversation, Use(a, c)
    PROVE  /\ OneMoves(a) /\ attempt[a].pc = "new" /\ context[c].mode = "ssh"
           /\ UNCHANGED <<stored, secrets, connections, trust, known, context, faults, history>>
           /\ attempt'[a].pc = "connect" /\ attempt'[a].by = c /\ attempt'[a].want = "work"
           /\ attempt'[a].secret = NoSecret /\ attempt'[a].trusting = FALSE
           /\ attempt'[a].trusted = FALSE /\ attempt'[a].alone = TRUE
           /\ attempt'[a].endpoint = context[c].endpoint
<1> DEFINE e == context[c].endpoint
           n == UseRow(c, e)
           begun == [NewAttempt EXCEPT !.pc = "connect", !.by = c, !.want = "work", !.endpoint = e]
<1>0. attempt \in [Attempt -> AttemptRow] /\ e \in EndpointId \cup {NoId}
  BY DEF ConnectTypeOK, ContextRow
<1>1. /\ attempt[a].pc = "new" /\ context[c].mode = "ssh"
      /\ UNCHANGED <<stored, secrets, connections, trust, known, context, faults, history>>
  BY DEF Use, Begins
<1>2. Begins(a, begun) /\ begun.want = "work"
  BY DEF Use, NewAttempt
<1>3. [begun EXCEPT !.alone = begun.want = "work" \/ Connecting = {}] = n
  BY DEF UseRow, NewAttempt
<1> HIDE DEF begun
<1>5. /\ n \in AttemptRow /\ n.pc = "connect" /\ n.by = c /\ n.want = "work"
      /\ n.secret = NoSecret /\ n.trusting = FALSE /\ n.trusted = FALSE
      /\ n.alone = TRUE /\ n.endpoint = e
  BY <1>0 DEF UseRow, NewAttempt, AttemptRow, AttemptPc, NoId, Linked
<1> HIDE DEF n, e
<1>4. attempt' = [b \in Attempt |-> IF b = a THEN n ELSE attempt[b]]
  BY <1>2, <1>3 DEF Begins
<1>6. /\ attempt'[a] = n /\ attempt' \in [Attempt -> AttemptRow]
      /\ \A b \in Attempt \ {a} : attempt'[b] = attempt[b]
  BY <1>0, <1>4, <1>5
<1> QED
  BY <1>1, <1>5, <1>6 DEF OneMoves, e

(* The broker restarts: requests that were under way fail.                  *)
LEMMA RestartErrs ==
    ASSUME attempt \in [Attempt -> AttemptRow], NEW a \in Attempt
    PROVE  LET n == Restarted(Stage(a, OnError(a, FALSE)))
           IN  n \in AttemptRow /\ Errs(n, attempt[a]) /\ n.pc # "approve"
<1> DEFINE o == Stage(a, OnError(a, FALSE))
           m == WithTrusted(o, FALSE)
           n == Restarted(o)
<1>1. m \in AttemptRow /\ Errs(m, attempt[a])
  BY OnErrorRow
<1>2. o \in AttemptRow /\ o.pc # "approve"
  <2>1. OnError(a, FALSE) \in AttemptPc /\ OnError(a, FALSE) # "approve"
    BY DEF OnError, AttemptPc, Over, Linked
  <2> QED
    BY <2>1, StageRow
<1> HIDE DEF o
<1>3. m.pc = o.pc /\ StillData(m, o) /\ m.trusted = FALSE
  BY <1>2, TrustedRow
<1>4. n \in AttemptRow /\ n.pc = o.pc /\ StillData(n, o) /\ n.trusted = FALSE
  BY <1>2, RestartedRow
<1> HIDE DEF m, n
<1>5. Errs(n, attempt[a])
  BY <1>1, <1>3, <1>4 DEF Errs, IsOver, StillData
<1> QED
  BY <1>2, <1>4, <1>5 DEF n, o

(* The effect of a restart of the broker.                                   *)
LEMMA RestartRow ==
    ASSUME ConnectTypeOK, BrokerConnections
    PROVE  /\ attempt' \in [Attempt -> AttemptRow] /\ NoneSound
           /\ secrets' = {} /\ connections' = {} /\ trust' = {}
           /\ UNCHANGED <<stored, known, faults, history>>
           /\ \A b \in Attempt :
                 \/ /\ attempt'[b] = attempt[b]
                    /\ b \notin Running \/ attempt[b].pc \in {"approve", "delete"}
                 \/ /\ b \in Running /\ attempt[b].pc \notin {"approve", "delete"}
                    /\ Errs(attempt'[b], attempt[b]) /\ attempt'[b].pc # "approve"
<1>0. attempt \in [Attempt -> AttemptRow] /\ context \in [Conversation -> ContextRow]
  BY DEF ConnectTypeOK
<1>1. /\ secrets' = {} /\ connections' = {} /\ trust' = {}
      /\ UNCHANGED <<stored, known, faults, history>>
  BY DEF BrokerConnections
<1>2. attempt' = [b \in Attempt |->
          IF b \notin Running \/ attempt[b].pc \in {"approve", "delete"} THEN attempt[b]
          ELSE Restarted(Stage(b, OnError(b, FALSE)))]
  BY DEF BrokerConnections, Restarted
<1>3. \A b \in Attempt : /\ Restarted(Stage(b, OnError(b, FALSE))) \in AttemptRow
                         /\ Errs(Restarted(Stage(b, OnError(b, FALSE))), attempt[b])
                         /\ Restarted(Stage(b, OnError(b, FALSE))).pc # "approve"
  BY <1>0, RestartErrs
<1>4. attempt' \in [Attempt -> AttemptRow]
  BY <1>0, <1>2, <1>3
<1>5. \A b \in Attempt :
         \/ /\ attempt'[b] = attempt[b]
            /\ b \notin Running \/ attempt[b].pc \in {"approve", "delete"}
         \/ /\ b \in Running /\ attempt[b].pc \notin {"approve", "delete"}
            /\ Errs(attempt'[b], attempt[b]) /\ attempt'[b].pc # "approve"
  BY <1>2, <1>3
<1>6. NoneSound
  <2>1. context' = [c \in Conversation |-> Unsound(context[c])]
    BY DEF BrokerConnections, Unsound
  <2>2. \A k \in Conversation : /\ Unsound(context[k]) \in ContextRow
                                /\ Unsound(context[k]).mode = context[k].mode
                                /\ Unsound(context[k]).endpoint = context[k].endpoint
                                /\ Unsound(context[k]).environment = context[k].environment
                                /\ Unsound(context[k]).sound = FALSE
    BY <1>0, UnsoundRow
  <2>3. context' \in [Conversation -> ContextRow]
    BY <2>1, <2>2
  <2>4. \A k \in Conversation : context'[k] = Unsound(context[k])
    BY <2>1
  <2> QED
    BY <2>2, <2>3, <2>4 DEF NoneSound
<1> QED
  BY <1>1, <1>4, <1>5, <1>6

(* Rows of endpoints are never removed and keep their auth method; rows of  *)
(* environments stay.                                                       *)
RowsStay ==
    /\ \A r \in endpoints : \E s \in endpoints' : s.id = r.id /\ s.auth = r.auth
    /\ environments \subseteq environments'
LEMMA StoredStays ==
    ASSUME UNCHANGED stored
    PROVE  RowsStay
  BY DEF stored, RowsStay

(* What an attempt is for, from where it is.                                *)
LEMMA WantsRoot ==
    ASSUME NEW a \in Attempt, InPlace(a),
           attempt[a].pc \in {"put", "list", "rotate", "add", "environments", "create", "approve",
                              "delete"}
    PROVE  a \in Running /\ a \in Connecting /\ attempt[a].want = "root"
<1>1. a \in Running
  BY DEF Running, Over
<1>2. attempt[a].want \in {"root", "work", "probe"}
  BY <1>1 DEF InPlace
<1>3. attempt[a].want \notin {"work", "probe"}
  BY DEF InPlace, Linked
<1> QED
  BY <1>1, <1>2, <1>3 DEF Connecting

(* An attempt at its connection is running and its endpoint is stored.      *)
LEMMA LinkedRuns ==
    ASSUME NEW a \in Attempt, InPlace(a), attempt[a].pc \in Linked
    PROVE  /\ a \in Running /\ attempt[a].want \in {"root", "work", "probe"}
           /\ attempt[a].by \in Conversation
           /\ \E r \in endpoints : r.id = attempt[a].endpoint
                                   /\ (attempt[a].want = "root" => r.auth = attempt[a].auth)
<1>1. a \in Running
  BY DEF Running, Over, Linked
<1>2. attempt[a].want \in {"root", "work", "probe"} /\ attempt[a].by \in Conversation
  BY <1>1 DEF InPlace
<1>3. \E r \in endpoints : r.id = attempt[a].endpoint
                           /\ (attempt[a].want = "root" => r.auth = attempt[a].auth)
  BY DEF InPlace
<1> QED
  BY <1>1, <1>2, <1>3

(* The secret of an attempt for the root.                                   *)
LEMMA SecretOf ==
    ASSUME ConnectTypeOK, NEW a \in Attempt, InPlace(a), attempt[a].want = "root"
    PROVE  /\ attempt[a].auth = "agent" => attempt[a].secret = NoSecret
           /\ attempt[a].auth \in {"password", "agent"} /\ attempt[a].auth \in Auth
           /\ attempt[a].auth # "agent" /\ attempt[a].pc # "put" => attempt[a].secret = a
           /\ attempt[a].secret \in {a, NoSecret} /\ a # NoSecret
  BY ConnectAssumption DEF InPlace

(* Being in place.                                                          *)
LEMMA OverInPlace ==
    ASSUME NEW a \in Attempt, NEW o, IsOver(attempt'[a], o)
    PROVE  InPlace(a)'
<1> DEFINE t == attempt'[a]
<1>1. /\ t.pc \in Over /\ t.want = "none" /\ t.trusting = FALSE /\ t.trusted = FALSE
  BY DEF IsOver
<1>2. t.pc \notin {"new", "put", "rotate", "environments", "create"} \cup Linked
  BY <1>1 DEF Over, Linked
<1>3. a \notin Running'
  BY <1>1 DEF Running
<1> QED
  BY <1>1, <1>2, <1>3 DEF InPlace

(* An attempt that rests, or is only disturbed, stays in place.             *)
LEMMA SameInPlace ==
    ASSUME ConnectTypeOK, NEW a \in Attempt, InPlace(a), RowsStay,
           attempt'[a] = attempt[a] \/ Disturbed(attempt'[a], attempt[a]),
           attempt[a].pc = "new" => attempt'[a] = attempt[a]
    PROVE  InPlace(a)'
<1> DEFINE t == attempt[a]
           u == attempt'[a]
<1>1. /\ u.pc = t.pc /\ u.by = t.by /\ u.want = t.want /\ u.auth = t.auth /\ u.secret = t.secret
      /\ u.endpoint = t.endpoint /\ u.environment = t.environment /\ u.todo = t.todo
      /\ u.trusting = t.trusting /\ u.trusted = t.trusted
  BY DEF Disturbed
<1>2. a \in Running' <=> a \in Running
  BY <1>1 DEF Running
<1> HIDE DEF t, u
<1>3. u.pc = "new" => u = NewAttempt
  BY <1>1 DEF InPlace, t, u
<1>4. /\ u.pc \in Over => u.want = "none" /\ ~u.trusting
      /\ u.want \in {"work", "probe"} => u.pc \in Linked
      /\ u.trusted => u.pc = "connecting"
      /\ u.want = "work" => u.secret = NoSecret
  BY <1>1 DEF InPlace, t
<1>5. a \in Running' => u.by \in Conversation /\ u.want \in {"root", "work", "probe"}
  BY <1>1, <1>2 DEF InPlace, t
<1>6. u.want = "root" =>
        /\ u.auth \in Auth /\ (u.pc = "put" => u.auth = "password" /\ ~u.trusting)
        /\ u.secret = IF u.pc = "put" \/ u.auth = "agent" THEN NoSecret ELSE a
        /\ u.pc \in Linked => [id |-> u.environment, endpoint |-> u.endpoint] \in environments'
  BY <1>1 DEF InPlace, t, RowsStay
<1>7. u.pc = "rotate" => \A e \in u.todo : \E r \in endpoints' : r.id = e /\ r.auth = u.auth
  <2>1. SUFFICES ASSUME u.pc = "rotate", NEW e \in u.todo
                 PROVE  \E r \in endpoints' : r.id = e /\ r.auth = u.auth
    OBVIOUS
  <2>2. PICK r \in endpoints : r.id = e /\ r.auth = u.auth
    BY <1>1, <2>1 DEF InPlace, t
  <2> QED
    BY <2>2 DEF RowsStay
<1>8. u.pc \in {"rotate", "environments", "create"} \cup Linked =>
         \E r \in endpoints' : r.id = u.endpoint /\ (u.want = "root" => r.auth = u.auth)
  <2>1. SUFFICES ASSUME u.pc \in {"rotate", "environments", "create"} \cup Linked
                 PROVE  \E r \in endpoints' : r.id = u.endpoint /\ (u.want = "root" => r.auth = u.auth)
    OBVIOUS
  <2>2. PICK r \in endpoints : r.id = u.endpoint /\ (u.want = "root" => r.auth = u.auth)
    BY <1>1, <2>1 DEF InPlace, t
  <2> QED
    BY <2>2 DEF RowsStay
<1> QED
  BY <1>3, <1>4, <1>5, <1>6, <1>7, <1>8 DEF InPlace, u

(* An attempt under way that is given a row of the same data.               *)
LEMMA GoesInPlace ==
    ASSUME ConnectTypeOK, NEW a \in Attempt, InPlace(a), RowsStay, a \in Running,
           attempt[a].pc # "put",
           attempt'[a].by = attempt[a].by, attempt'[a].want = attempt[a].want,
           attempt'[a].auth = attempt[a].auth, attempt'[a].secret = attempt[a].secret,
           attempt'[a].pc \notin Over \cup {"new", "put"},
           attempt[a].want # "root" => attempt'[a].pc \in Linked,
           attempt'[a].trusted => attempt'[a].pc = "connecting",
           attempt'[a].pc = "rotate" =>
              \A e \in attempt'[a].todo : \E r \in endpoints' : r.id = e /\ r.auth = attempt[a].auth,
           attempt'[a].pc \in {"rotate", "environments", "create"} \cup Linked =>
              \E r \in endpoints' : r.id = attempt'[a].endpoint
                                    /\ (attempt[a].want = "root" => r.auth = attempt[a].auth),
           attempt[a].want = "root" /\ attempt'[a].pc \in Linked =>
              [id |-> attempt'[a].environment, endpoint |-> attempt'[a].endpoint] \in environments'
    PROVE  InPlace(a)'
<1> DEFINE t == attempt[a]
           u == attempt'[a]
<1>1. t.by \in Conversation /\ t.want \in {"root", "work", "probe"}
  BY DEF InPlace
<1>2. t.want = "work" => t.secret = NoSecret
  BY DEF InPlace
<1>3. t.want = "root" => t.auth \in Auth /\ t.secret = IF t.auth = "agent" THEN NoSecret ELSE a
  BY DEF InPlace
<1> QED
  BY <1>1, <1>2, <1>3 DEF InPlace

(* An attempt that ends with an error is in place.                          *)
LEMMA ErrsInPlace ==
    ASSUME ConnectTypeOK, NEW a \in Attempt, InPlace(a), RowsStay, a \in Running,
           Errs(attempt'[a], attempt[a]), attempt[a].pc # "put" \/ attempt'[a].pc # "approve"
    PROVE  InPlace(a)'
<1>1. CASE IsOver(attempt'[a], attempt[a])
  BY <1>1, OverInPlace
<1>2. CASE ~IsOver(attempt'[a], attempt[a])
  <2>1. /\ attempt'[a].pc \in {"approve", "delete"} /\ StillData(attempt'[a], attempt[a])
        /\ attempt'[a].trusted = FALSE /\ attempt[a].want \notin {"work", "probe"}
        /\ attempt'[a].pc = "delete" => attempt[a].secret # NoSecret
    BY <1>2 DEF Errs
  <2>2. attempt[a].want = "root"
    BY <2>1 DEF InPlace
  <2>3. attempt[a].pc # "put"
    BY <2>1, <2>2 DEF InPlace
  <2>4. /\ attempt'[a].by = attempt[a].by /\ attempt'[a].want = attempt[a].want
        /\ attempt'[a].auth = attempt[a].auth /\ attempt'[a].secret = attempt[a].secret
    BY <2>1 DEF StillData
  <2>5. /\ attempt'[a].pc \notin Over \cup {"new", "put"}
        /\ attempt'[a].pc \notin {"rotate", "environments", "create"} \cup Linked
    BY <2>1 DEF Over, Linked
  <2> QED
    BY <2>1, <2>2, <2>3, <2>4, <2>5, GoesInPlace
<1> QED
  BY <1>1, <1>2

(* The parts of AttemptsInPlace.                                            *)
LEMMA OneInPlace ==
    ASSUME ConnectTypeOK, AttemptsInPlace, NEW a \in Attempt, OneMoves(a), RowsStay, InPlace(a)'
    PROVE  \A b \in Attempt : InPlace(b)'
<1>1. ASSUME NEW b \in Attempt, b # a PROVE InPlace(b)'
  <2>1. InPlace(b) /\ attempt'[b] = attempt[b]
    BY <1>1 DEF AttemptsInPlace, OneMoves
  <2> QED
    BY <2>1, SameInPlace
<1> QED
  BY <1>1

(* The targets of the conversations stay stored.                            *)
LEMMA TargetsInPlace ==
    ASSUME ConnectTypeOK, AttemptsInPlace, RowsStay, TargetsStay \/ NoneSound
    PROVE  \A c \in Conversation : IF context'[c].mode = "local" THEN ~context'[c].sound
                                   ELSE \E r \in endpoints' : r.id = context'[c].endpoint
<1>1. TAKE c \in Conversation
<1>2. /\ context'[c].mode = context[c].mode /\ context'[c].endpoint = context[c].endpoint
  BY DEF TargetsStay, SameTarget, NoneSound
<1>3. context'[c].sound = context[c].sound \/ context'[c].sound = FALSE
  BY DEF TargetsStay, SameTarget, NoneSound
<1>4. CASE context[c].mode = "local"
  BY <1>2, <1>3, <1>4 DEF AttemptsInPlace
<1>5. CASE context[c].mode # "local"
  <2>1. PICK r \in endpoints : r.id = context[c].endpoint
    BY <1>5 DEF AttemptsInPlace
  <2> QED
    BY <1>2, <1>5, <2>1 DEF RowsStay
<1> QED
  BY <1>4, <1>5

(* The connections are to endpoints that are stored.                        *)
LEMMA LinksInPlace ==
    ASSUME AttemptsInPlace, RowsStay, NEW a \in Attempt,
           \/ connections' \subseteq connections
           \/ attempt[a].pc \in Linked /\ connections' = connections \cup {attempt[a].endpoint}
    PROVE  \A e \in connections' : \E r \in endpoints' : r.id = e
<1>1. TAKE e \in connections'
<1>2. \E r \in endpoints : r.id = e
  <2>1. CASE e \in connections
    BY <2>1 DEF AttemptsInPlace
  <2>2. CASE e \notin connections
    <3>1. attempt[a].pc \in Linked /\ e = attempt[a].endpoint /\ InPlace(a)
      BY <1>1, <2>2 DEF AttemptsInPlace
    <3> QED
      BY <3>1, LinkedRuns
  <2> QED
    BY <2>1, <2>2
<1> QED
  BY <1>2 DEF RowsStay

(* Each action.                                                             *)
LEMMA PutSecretInPlace ==
    ASSUME ConnectTypeOK, NEW a \in Attempt, InPlace(a), PutSecret(a)
    PROVE  InPlace(a)'
<1>1. attempt[a].pc = "put" /\ RowsStay
  BY PutSecretRow, StoredStays
<1>2. attempt[a].want = "root" /\ a \in Running /\ attempt[a].by \in Conversation
  BY <1>1, WantsRoot DEF InPlace
<1>3. attempt[a].auth = "password" /\ attempt[a].auth \in Auth
  BY <1>1, <1>2 DEF InPlace
<1>4. attempt[a].trusted = FALSE
  BY <1>1 DEF InPlace, ConnectTypeOK, AttemptRow
<1>5. CASE IsOver(attempt'[a], attempt[a])
  BY <1>5, OverInPlace
<1>6. CASE ~IsOver(attempt'[a], attempt[a])
  <2>1. /\ attempt'[a].pc = "list" /\ attempt'[a].secret = a
        /\ attempt'[a].by = attempt[a].by /\ attempt'[a].want = attempt[a].want
        /\ attempt'[a].auth = attempt[a].auth /\ attempt'[a].trusted = attempt[a].trusted
    BY <1>6, PutSecretRow
  <2> QED
    BY <1>2, <1>3, <1>4, <2>1 DEF InPlace, Over, Linked
<1> QED
  BY <1>5, <1>6

(* Listing the endpoints keeps the attempt in place.                        *)
LEMMA EnsureListInPlace ==
    ASSUME ConnectTypeOK, NEW a \in Attempt, InPlace(a), EnsureList(a)
    PROVE  InPlace(a)'
<1>1. /\ attempt[a].pc = "list" /\ UNCHANGED stored /\ SameAttempt(attempt'[a], attempt[a])
      /\ attempt'[a].pc \in {"rotate", "add", "environments"}
      /\ attempt'[a].pc # "add" =>
            \E r \in endpoints : r.id = attempt'[a].endpoint /\ r.auth = attempt[a].auth
      /\ \A e \in attempt'[a].todo : \E r \in endpoints : r.id = e /\ r.auth = attempt[a].auth
  BY EnsureListRow
<1>2. RowsStay /\ endpoints' = endpoints
  BY <1>1, StoredStays DEF stored
<1>3. attempt[a].want = "root" /\ a \in Running
  BY <1>1, WantsRoot
<1>4. attempt[a].trusted = FALSE
  BY <1>1 DEF InPlace, ConnectTypeOK, AttemptRow
<1>5. /\ attempt'[a].by = attempt[a].by /\ attempt'[a].want = attempt[a].want
      /\ attempt'[a].auth = attempt[a].auth /\ attempt'[a].secret = attempt[a].secret
      /\ attempt'[a].trusted = attempt[a].trusted
  BY <1>1 DEF SameAttempt
<1>6. attempt'[a].pc \notin Over \cup {"new", "put"} /\ attempt'[a].pc \notin Linked
  BY <1>1 DEF Over, Linked
<1>7. /\ attempt'[a].pc = "rotate" =>
            \A e \in attempt'[a].todo : \E r \in endpoints' : r.id = e /\ r.auth = attempt[a].auth
      /\ attempt'[a].pc \in {"rotate", "environments", "create"} \cup Linked =>
            \E r \in endpoints' : r.id = attempt'[a].endpoint
                                  /\ (attempt[a].want = "root" => r.auth = attempt[a].auth)
  BY <1>1, <1>2, <1>6
<1> QED
  BY <1>1, <1>2, <1>3, <1>4, <1>5, <1>6, <1>7, GoesInPlace

(* A rotation keeps every endpoint under its id.                            *)
LEMMA RotateRowsStay ==
    ASSUME ConnectTypeOK, NEW a \in Attempt, InPlace(a), Rotate(a)
    PROVE  RowsStay
<1>1. PICK s \in endpoints :
                 LET q == [s EXCEPT !.secret = attempt[a].secret]
                 IN  /\ q.id = s.id /\ q.auth = s.auth
                     /\ endpoints' = (endpoints \ {s}) \cup {q}
  BY RotateRow
<1>2. UNCHANGED environments
  BY RotateRow
<1> DEFINE q == [s EXCEPT !.secret = attempt[a].secret]
<1>3. q.id = s.id /\ q.auth = s.auth /\ endpoints' = (endpoints \ {s}) \cup {q}
  BY <1>1
<1> HIDE DEF q
<1> QED
  BY <1>2, <1>3 DEF RowsStay

(* A rotation keeps the attempt in place.                                   *)
LEMMA RotateInPlace ==
    ASSUME ConnectTypeOK, NEW a \in Attempt, InPlace(a), Rotate(a)
    PROVE  InPlace(a)'
<1>1. /\ attempt[a].pc = "rotate" /\ SameAttempt(attempt'[a], attempt[a])
      /\ attempt'[a].endpoint = attempt[a].endpoint
      /\ attempt'[a].pc \in {"rotate", "environments"}
      /\ attempt'[a].todo \subseteq attempt[a].todo
  BY RotateRow
<1>2. RowsStay
  BY RotateRowsStay
<1>3. attempt[a].want = "root" /\ a \in Running
  BY <1>1, WantsRoot
<1>4. attempt[a].trusted = FALSE
  BY <1>1 DEF InPlace, ConnectTypeOK, AttemptRow
<1>5. /\ attempt'[a].by = attempt[a].by /\ attempt'[a].want = attempt[a].want
      /\ attempt'[a].auth = attempt[a].auth /\ attempt'[a].secret = attempt[a].secret
      /\ attempt'[a].trusted = attempt[a].trusted
  BY <1>1 DEF SameAttempt
<1>6. attempt'[a].pc \notin Over \cup {"new", "put"} /\ attempt'[a].pc \notin Linked
  BY <1>1 DEF Over, Linked
<1>7. \A e \in attempt[a].todo : \E r \in endpoints' : r.id = e /\ r.auth = attempt[a].auth
  <2>1. TAKE e \in attempt[a].todo
  <2>2. PICK r \in endpoints : r.id = e /\ r.auth = attempt[a].auth
    BY <1>1 DEF InPlace
  <2> QED
    BY <1>2, <2>2 DEF RowsStay
<1>8. \E r \in endpoints' : r.id = attempt'[a].endpoint /\ r.auth = attempt[a].auth
  <2>1. PICK r \in endpoints : r.id = attempt[a].endpoint /\ r.auth = attempt[a].auth
    BY <1>1, <1>3 DEF InPlace
  <2> QED
    BY <1>1, <1>2, <2>1 DEF RowsStay
<1> QED
  BY <1>1, <1>2, <1>3, <1>4, <1>5, <1>6, <1>7, <1>8, GoesInPlace

(* So does adding the endpoint.                                             *)
LEMMA AddEndpointInPlace ==
    ASSUME ConnectTypeOK, NEW a \in Attempt, InPlace(a), NEW e \in EndpointId, AddEndpoint(a, e)
    PROVE  RowsStay /\ InPlace(a)'
<1>1. /\ attempt[a].pc = "add" /\ SameAttempt(attempt'[a], attempt[a])
      /\ attempt'[a].pc = "environments" /\ attempt'[a].endpoint = e /\ UNCHANGED environments
      /\ endpoints' = endpoints \cup {[id |-> e, auth |-> attempt[a].auth,
                                       secret |-> attempt[a].secret]}
  BY AddEndpointRow
<1>2. RowsStay
  BY <1>1 DEF RowsStay
<1>3. attempt[a].want = "root" /\ a \in Running
  BY <1>1, WantsRoot
<1>4. attempt[a].trusted = FALSE
  BY <1>1 DEF InPlace, ConnectTypeOK, AttemptRow
<1>5. /\ attempt'[a].by = attempt[a].by /\ attempt'[a].want = attempt[a].want
      /\ attempt'[a].auth = attempt[a].auth /\ attempt'[a].secret = attempt[a].secret
      /\ attempt'[a].trusted = attempt[a].trusted
  BY <1>1 DEF SameAttempt
<1>6. attempt'[a].pc \notin Over \cup {"new", "put"} /\ attempt'[a].pc \notin Linked
  BY <1>1 DEF Over, Linked
<1>7. \E r \in endpoints' : r.id = attempt'[a].endpoint /\ r.auth = attempt[a].auth
  <2>1. [id |-> e, auth |-> attempt[a].auth, secret |-> attempt[a].secret] \in endpoints'
    BY <1>1
  <2> QED
    BY <1>1, <2>1
<1>8. InPlace(a)'
  BY <1>1, <1>2, <1>3, <1>4, <1>5, <1>6, <1>7, GoesInPlace
<1> QED
  BY <1>2, <1>8

(* Trust is granted to an attempt that is connecting only.                  *)
LEMMA Untrusted ==
    ASSUME ConnectTypeOK, NEW a \in Attempt, InPlace(a), attempt[a].pc # "connecting"
    PROVE  attempt[a].trusted = FALSE
  BY DEF InPlace, ConnectTypeOK, AttemptRow

(* The step to the creation of an environment, or to the connection.        *)
LEMMA EnvironmentInPlace ==
    ASSUME ConnectTypeOK, NEW a \in Attempt, InPlace(a), RowsStay, UNCHANGED endpoints,
           attempt[a].pc \in {"environments", "create"}, attempt'[a].pc \in {"create", "connect"},
           SameAttempt(attempt'[a], attempt[a]), attempt'[a].endpoint = attempt[a].endpoint,
           attempt'[a].pc = "connect" =>
              [id |-> attempt'[a].environment, endpoint |-> attempt'[a].endpoint] \in environments'
    PROVE  InPlace(a)'
<1>1. attempt[a].want = "root" /\ a \in Running /\ attempt[a].trusted = FALSE
  BY WantsRoot, Untrusted
<1>2. /\ attempt'[a].by = attempt[a].by /\ attempt'[a].want = attempt[a].want
      /\ attempt'[a].auth = attempt[a].auth /\ attempt'[a].secret = attempt[a].secret
      /\ attempt'[a].trusted = attempt[a].trusted
  BY DEF SameAttempt
<1>3. /\ attempt'[a].pc \notin Over \cup {"new", "put"} /\ attempt'[a].pc # "rotate"
      /\ attempt'[a].pc \in Linked => attempt'[a].pc = "connect"
  BY DEF Over, Linked
<1>4. \E r \in endpoints' : r.id = attempt'[a].endpoint
                            /\ (attempt[a].want = "root" => r.auth = attempt[a].auth)
  BY DEF InPlace
<1> QED
  BY <1>1, <1>2, <1>3, <1>4, GoesInPlace

(* The look for the environment keeps the attempt in place.                 *)
LEMMA EnsureEnvironmentInPlace ==
    ASSUME ConnectTypeOK, NEW a \in Attempt, InPlace(a), EnsureEnvironment(a)
    PROVE  RowsStay /\ InPlace(a)'
<1>1. UNCHANGED stored /\ attempt[a].pc = "environments"
  BY EnsureEnvironmentRow
<1>2. RowsStay /\ UNCHANGED endpoints /\ UNCHANGED environments
  BY <1>1, StoredStays DEF stored
<1>3. CASE IsOver(attempt'[a], attempt[a])
  BY <1>2, <1>3, OverInPlace
<1>4. CASE ~IsOver(attempt'[a], attempt[a])
  <2>1. /\ attempt'[a].pc \in {"create", "connect"} /\ SameAttempt(attempt'[a], attempt[a])
        /\ attempt'[a].endpoint = attempt[a].endpoint
        /\ attempt'[a].pc = "connect" =>
              [id |-> attempt'[a].environment, endpoint |-> attempt'[a].endpoint] \in environments
    BY <1>4, EnsureEnvironmentRow
  <2> QED
    BY <1>1, <1>2, <2>1, EnvironmentInPlace
<1> QED
  BY <1>3, <1>4

(* So does its creation,                                                    *)
LEMMA CreateEnvironmentInPlace ==
    ASSUME ConnectTypeOK, NEW a \in Attempt, InPlace(a), NEW v \in EnvironmentId,
           CreateEnvironment(a, v)
    PROVE  RowsStay /\ InPlace(a)'
<1>1. UNCHANGED endpoints /\ attempt[a].pc = "create" /\ environments \subseteq environments'
  BY CreateEnvironmentRow
<1>2. RowsStay
  BY <1>1 DEF RowsStay
<1>3. CASE IsOver(attempt'[a], attempt[a])
  BY <1>2, <1>3, OverInPlace
<1>4. CASE ~IsOver(attempt'[a], attempt[a])
  <2>1. /\ attempt'[a].pc \in {"create", "connect"} /\ SameAttempt(attempt'[a], attempt[a])
        /\ attempt'[a].endpoint = attempt[a].endpoint
        /\ [id |-> attempt'[a].environment, endpoint |-> attempt'[a].endpoint] \in environments'
    BY <1>4, CreateEnvironmentRow
  <2> QED
    BY <1>1, <1>2, <2>1, EnvironmentInPlace
<1> QED
  BY <1>3, <1>4

(* An attempt that has its rows goes on with the connection.                *)
LEMMA LinkedInPlace ==
    ASSUME ConnectTypeOK, NEW a \in Attempt, InPlace(a), RowsStay, UNCHANGED <<endpoints, environments>>,
           attempt[a].pc \in Linked, attempt'[a].pc \in Linked,
           attempt'[a].by = attempt[a].by, attempt'[a].want = attempt[a].want,
           attempt'[a].auth = attempt[a].auth, attempt'[a].secret = attempt[a].secret,
           attempt'[a].endpoint = attempt[a].endpoint,
           attempt'[a].environment = attempt[a].environment,
           attempt'[a].trusted => attempt'[a].pc = "connecting"
    PROVE  InPlace(a)'
<1>1. a \in Running
  BY LinkedRuns
<1>2. /\ attempt[a].pc # "put" /\ attempt'[a].pc \notin Over \cup {"new", "put"}
      /\ attempt'[a].pc # "rotate"
  BY DEF Over, Linked
<1>3. \E r \in endpoints' : r.id = attempt'[a].endpoint
                            /\ (attempt[a].want = "root" => r.auth = attempt[a].auth)
  BY LinkedRuns
<1>4. attempt[a].want = "root" =>
         [id |-> attempt'[a].environment, endpoint |-> attempt'[a].endpoint] \in environments'
  BY DEF InPlace
<1> QED
  BY <1>1, <1>2, <1>3, <1>4, GoesInPlace

(* the start of the connection,                                             *)
LEMMA StartConnectInPlace ==
    ASSUME ConnectTypeOK, NEW a \in Attempt, InPlace(a), StartConnect(a)
    PROVE  RowsStay /\ InPlace(a)'
<1>1. UNCHANGED stored /\ attempt[a].pc = "connect"
  BY StartConnectRow
<1>2. RowsStay /\ UNCHANGED <<endpoints, environments>> /\ attempt[a].pc \in Linked
      /\ attempt[a].pc # "put" /\ {"use", "connecting"} \subseteq Linked
  BY <1>1, StoredStays DEF stored, Linked
<1>3. a \in Running /\ attempt[a].trusted = FALSE
  BY <1>1, <1>2, LinkedRuns, Untrusted
<1>4. CASE Errs(attempt'[a], attempt[a])
  BY <1>2, <1>3, <1>4, ErrsInPlace
<1>5. CASE ~Errs(attempt'[a], attempt[a])
  <2>1. CASE /\ attempt'[a].pc = "use" /\ SameAttempt(attempt'[a], attempt[a])
             /\ attempt'[a].endpoint = attempt[a].endpoint
             /\ attempt'[a].environment = attempt[a].environment
    <3>1. /\ attempt'[a].by = attempt[a].by /\ attempt'[a].want = attempt[a].want
          /\ attempt'[a].auth = attempt[a].auth /\ attempt'[a].secret = attempt[a].secret
          /\ attempt'[a].trusted = attempt[a].trusted
      BY <2>1 DEF SameAttempt
    <3> QED
      BY <1>2, <1>3, <2>1, <3>1, LinkedInPlace
  <2>2. CASE attempt'[a].pc = "connecting" /\ StillData(attempt'[a], attempt[a])
    <3>1. /\ attempt'[a].by = attempt[a].by /\ attempt'[a].want = attempt[a].want
          /\ attempt'[a].auth = attempt[a].auth /\ attempt'[a].secret = attempt[a].secret
          /\ attempt'[a].endpoint = attempt[a].endpoint
          /\ attempt'[a].environment = attempt[a].environment
      BY <2>2 DEF StillData
    <3> QED
      BY <1>2, <2>2, <3>1, LinkedInPlace
  <2> QED
    BY <1>5, <2>1, <2>2, StartConnectRow
<1> QED
  BY <1>4, <1>5

(* its answer,                                                              *)
LEMMA EndConnectInPlace ==
    ASSUME ConnectTypeOK, NEW a \in Attempt, InPlace(a), NEW works \in BOOLEAN, EndConnect(a, works)
    PROVE  RowsStay /\ InPlace(a)'
<1>1. UNCHANGED stored /\ attempt[a].pc = "connecting"
  BY EndConnectRow
<1>2. RowsStay /\ UNCHANGED <<endpoints, environments>> /\ attempt[a].pc \in Linked
      /\ attempt[a].pc # "put" /\ "use" \in Linked
  BY <1>1, StoredStays DEF stored, Linked
<1>3. a \in Running
  BY <1>2, LinkedRuns
<1>4. CASE Errs(attempt'[a], attempt[a])
  BY <1>2, <1>3, <1>4, ErrsInPlace
<1>5. CASE ~Errs(attempt'[a], attempt[a])
  <2>1. attempt'[a].pc = "use" /\ StillData(attempt'[a], attempt[a]) /\ attempt'[a].trusted = FALSE
    BY <1>5, EndConnectRow
  <2>2. /\ attempt'[a].by = attempt[a].by /\ attempt'[a].want = attempt[a].want
        /\ attempt'[a].auth = attempt[a].auth /\ attempt'[a].secret = attempt[a].secret
        /\ attempt'[a].endpoint = attempt[a].endpoint
        /\ attempt'[a].environment = attempt[a].environment
    BY <2>1 DEF StillData
  <2> QED
    BY <1>2, <2>1, <2>2, LinkedInPlace
<1> QED
  BY <1>4, <1>5

(* the decision of the person,                                              *)
LEMMA ApproveInPlace ==
    ASSUME ConnectTypeOK, NEW a \in Attempt, InPlace(a), NEW yes \in BOOLEAN, Approve(a, yes)
    PROVE  RowsStay /\ InPlace(a)'
<1>1. UNCHANGED stored /\ attempt[a].pc = "approve"
  BY ApproveRow
<1>2. RowsStay /\ attempt[a].want = "root" /\ a \in Running /\ attempt[a].trusted = FALSE
  BY <1>1, StoredStays, WantsRoot, Untrusted
<1>3. CASE IsOver(attempt'[a], attempt[a])
  BY <1>2, <1>3, OverInPlace
<1>4. CASE ~IsOver(attempt'[a], attempt[a])
  <2>1. attempt'[a].pc \in {"list", "delete"}
    BY <1>4, ApproveRow
  <2>2. /\ attempt'[a].by = attempt[a].by /\ attempt'[a].want = attempt[a].want
        /\ attempt'[a].auth = attempt[a].auth /\ attempt'[a].secret = attempt[a].secret
        /\ attempt'[a].trusted = attempt[a].trusted
    BY <1>4, ApproveRow DEF SameAttempt
  <2>3. /\ attempt'[a].pc \notin Over \cup {"new", "put"}
        /\ attempt'[a].pc \notin {"rotate", "environments", "create"} \cup Linked
    BY <2>1 DEF Over, Linked
  <2> QED
    BY <1>1, <1>2, <2>1, <2>2, <2>3, GoesInPlace
<1> QED
  BY <1>3, <1>4

(* the deletion of the password,                                            *)
LEMMA GiveUpInPlace ==
    ASSUME ConnectTypeOK, NEW a \in Attempt, InPlace(a), GiveUp(a)
    PROVE  RowsStay /\ InPlace(a)'
<1>1. UNCHANGED stored /\ IsOver(attempt'[a], attempt[a])
  BY GiveUpRow
<1> QED
  BY <1>1, StoredStays, OverInPlace

(* a call that is cut,                                                      *)
LEMMA CutInPlace ==
    ASSUME ConnectTypeOK, NEW a \in Attempt, InPlace(a), Cut(a)
    PROVE  RowsStay /\ InPlace(a)'
<1>1. UNCHANGED stored /\ a \in Running
  BY CutRow
<1>2. RowsStay /\ UNCHANGED <<endpoints, environments>>
  BY <1>1, StoredStays DEF stored
<1>3. CASE attempt[a].pc = "approve"
  <2>1. /\ attempt'[a].pc = "failed" /\ attempt'[a].want = "none"
        /\ attempt'[a].trusting = FALSE /\ attempt'[a].trusted = FALSE
    BY <1>3, CutRow
  <2>2. InPlace(a)'
    BY <2>1 DEF InPlace, Over, Linked, Running
  <2> QED
    BY <1>2, <2>2
<1>4. CASE attempt[a].pc # "approve"
  <2>1. attempt'[a].pc = attempt[a].pc /\ NowCut(attempt'[a], attempt[a])
    BY <1>4, CutRow
  <2>2. attempt[a].pc # "new"
    BY <1>1 DEF Running
  <2>3. InPlace(a)'
    BY <1>1, <1>2, <2>1, <2>2 DEF InPlace, NowCut, Running
  <2> QED
    BY <1>2, <2>3
<1> QED
  BY <1>3, <1>4

(* a request over the connection,                                           *)
LEMMA WorkInPlace ==
    ASSUME ConnectTypeOK, NEW a \in Attempt, InPlace(a), NEW works \in BOOLEAN, Work(a, works)
    PROVE  RowsStay /\ InPlace(a)'
<1>1. UNCHANGED stored /\ attempt[a].pc = "use"
  BY WorkRow
<1>2. RowsStay /\ UNCHANGED <<endpoints, environments>> /\ attempt[a].pc \in Linked
      /\ attempt[a].pc # "put"
  BY <1>1, StoredStays DEF stored, Linked
<1>3. a \in Running /\ attempt[a].trusted = FALSE /\ attempt[a].by \in Conversation
  BY <1>1, <1>2, LinkedRuns, Untrusted
<1>4. CASE Errs(attempt'[a], attempt[a])
  BY <1>2, <1>3, <1>4, ErrsInPlace
<1>5. CASE IsOver(attempt'[a], attempt[a])
  BY <1>2, <1>5, OverInPlace
<1>6. CASE ~Errs(attempt'[a], attempt[a]) /\ ~IsOver(attempt'[a], attempt[a])
  <2>1. /\ attempt'[a].pc = "connect" /\ attempt'[a].want = "probe"
        /\ attempt'[a].by = attempt[a].by /\ attempt'[a].endpoint = attempt[a].endpoint
        /\ attempt'[a].trusted = attempt[a].trusted
    BY <1>6, WorkRow
  <2>2. \E r \in endpoints' : r.id = attempt'[a].endpoint
    BY <1>2, <2>1, LinkedRuns
  <2>3. InPlace(a)'
    BY <1>3, <2>1, <2>2 DEF InPlace, Over, Linked
  <2> QED
    BY <1>2, <2>3
<1> QED
  BY <1>4, <1>5, <1>6

(* a call that begins,                                                      *)
LEMMA UseInPlace ==
    ASSUME ConnectTypeOK, AttemptsInPlace, NEW a \in Attempt, NEW c \in Conversation, Use(a, c)
    PROVE  RowsStay /\ InPlace(a)'
<1>1. /\ UNCHANGED stored /\ context[c].mode = "ssh"
      /\ attempt'[a].pc = "connect" /\ attempt'[a].by = c /\ attempt'[a].want = "work"
      /\ attempt'[a].secret = NoSecret /\ attempt'[a].trusted = FALSE
      /\ attempt'[a].endpoint = context[c].endpoint
  BY UseIsMade
<1>2. RowsStay /\ UNCHANGED <<endpoints, environments>>
  BY <1>1, StoredStays DEF stored
<1>3. \E r \in endpoints' : r.id = attempt'[a].endpoint
  BY <1>1, <1>2 DEF AttemptsInPlace
<1>4. InPlace(a)'
  BY <1>1, <1>3 DEF InPlace, Over, Linked
<1> QED
  BY <1>2, <1>4

(* an attempt that begins                                                   *)
LEMMA ConnectInPlace ==
    ASSUME ConnectTypeOK, AttemptsInPlace, NEW a \in Attempt, NEW c \in Conversation, NEW auth \in Auth,
           Connect(a, c, auth)
    PROVE  RowsStay /\ \A b \in Attempt : InPlace(b)'
<1>1. /\ UNCHANGED stored
      /\ \/ attempt'[a].pc = "put" /\ attempt'[a].auth = "password"
         \/ attempt'[a].pc = "list" /\ attempt'[a].auth = "agent"
      /\ attempt'[a].by = c /\ attempt'[a].want = "root" /\ attempt'[a].auth \in Auth
      /\ attempt'[a].secret = NoSecret /\ attempt'[a].trusting = FALSE
      /\ attempt'[a].trusted = FALSE
  BY ConnectRow
<1>2. RowsStay
  BY <1>1, StoredStays
<1>4. InPlace(a)'
  BY <1>1 DEF InPlace, Over, Linked
<1>6. \A b \in Attempt \ {a} :
                 \/ attempt'[b] = attempt[b] /\ b \notin Connecting
                 \/ /\ Disturbed(attempt'[b], attempt[b]) /\ attempt'[b].alone = FALSE
                    /\ b \in Connecting
  BY ConnectRow
<1>5. ASSUME NEW b \in Attempt, b # a PROVE InPlace(b)'
  <2>1. attempt'[b] = attempt[b] \/ Disturbed(attempt'[b], attempt[b])
    BY <1>5, <1>6
  <2>2. attempt[b].pc = "new" => attempt'[b] = attempt[b]
    <3>1. SUFFICES ASSUME attempt[b].pc = "new" PROVE attempt'[b] = attempt[b]
      OBVIOUS
    <3>2. b \notin Connecting
      BY <3>1 DEF Connecting, Running
    <3> QED
      BY <1>5, <1>6, <3>2
  <2>3. InPlace(b)
    BY DEF AttemptsInPlace
  <2> QED
    BY <1>2, <2>1, <2>2, <2>3, SameInPlace
<1> QED
  BY <1>2, <1>4, <1>5

(* and a restart of the broker.                                             *)
LEMMA RestartInPlace ==
    ASSUME ConnectTypeOK, AttemptsInPlace, BrokerConnections
    PROVE  RowsStay /\ \A b \in Attempt : InPlace(b)'
<1>1. RowsStay
  BY RestartRow, StoredStays
<1>2. ASSUME NEW b \in Attempt PROVE InPlace(b)'
  <2>1. InPlace(b)
    BY DEF AttemptsInPlace
  <2>2. CASE attempt'[b] = attempt[b]
    BY <1>1, <2>1, <2>2, SameInPlace
  <2>3. CASE b \in Running /\ Errs(attempt'[b], attempt[b]) /\ attempt'[b].pc # "approve"
    BY <1>1, <2>1, <2>3, ErrsInPlace
  <2> QED
    BY <2>2, <2>3, RestartRow
<1> QED
  BY <1>1, <1>2

(* The step of one attempt keeps all attempts, connections and targets in   *)
(* place.                                                                   *)
LEMMA MoveInPlace ==
    ASSUME ConnectTypeOK, AttemptsInPlace, NEW a \in Attempt, OneMoves(a), RowsStay, InPlace(a)',
           TargetsStay,
           \/ connections' \subseteq connections
           \/ attempt[a].pc \in Linked /\ connections' = connections \cup {attempt[a].endpoint}
    PROVE  AttemptsInPlace'
<1>1. \A b \in Attempt : InPlace(b)'
  BY OneInPlace
<1>2. \A e \in connections' : \E r \in endpoints' : r.id = e
  BY LinksInPlace
<1>3. \A c \in Conversation : IF context'[c].mode = "local" THEN ~context'[c].sound
                              ELSE \E r \in endpoints' : r.id = context'[c].endpoint
  BY TargetsInPlace
<1> QED
  BY <1>1, <1>2, <1>3 DEF AttemptsInPlace

(* A conversation that adopts the attempt keeps all in place.               *)
LEMMA AdoptedInPlace ==
    ASSUME ConnectTypeOK, AttemptsInPlace, NEW a \in Attempt, OneMoves(a), UNCHANGED stored, InPlace(a)',
           attempt[a].pc = "use", context' = Adopted(a), connections' \subseteq connections
    PROVE  AttemptsInPlace'
<1>0. RowsStay /\ UNCHANGED endpoints
  BY StoredStays DEF stored
<1>1. \A b \in Attempt : InPlace(b)'
  BY <1>0, OneInPlace
<1>2. \A e \in connections' : \E r \in endpoints' : r.id = e
  BY <1>0, LinksInPlace
<1>3. ASSUME NEW c \in Conversation
      PROVE  IF context'[c].mode = "local" THEN ~context'[c].sound
             ELSE \E r \in endpoints' : r.id = context'[c].endpoint
  <2>1. InPlace(a) /\ attempt[a].pc \in Linked
    BY DEF AttemptsInPlace, Linked
  <2>2. attempt[a].by \in Conversation /\ \E r \in endpoints : r.id = attempt[a].endpoint
    BY <2>1, LinkedRuns
  <2>3. CASE c = attempt[a].by
    <3>1. context'[c].mode = "ssh" /\ context'[c].endpoint = attempt[a].endpoint
      BY <2>2, <2>3, AdoptedTarget
    <3> QED
      BY <1>0, <2>2, <3>1
  <2>4. CASE c # attempt[a].by
    <3>1. context'[c] = context[c]
      BY <2>2, <2>4, AdoptedTarget
    <3> QED
      BY <1>0, <3>1 DEF AttemptsInPlace
  <2> QED
    BY <2>3, <2>4
<1> QED
  BY <1>1, <1>2, <1>3 DEF AttemptsInPlace

(* ConnectTypeOK in two parts: the stored rows, and what is kept beside.    *)
StoredOK ==
    /\ endpoints \subseteq EndpointRow /\ environments \subseteq EnvironmentRow
    /\ \A r, s \in endpoints : r.id = s.id => r = s
    /\ \A r \in endpoints : r.secret = NoSecret <=> r.auth = "agent"
    /\ \A r \in environments : \E s \in endpoints : s.id = r.endpoint
KeptOK ==
    /\ secrets \subseteq Attempt /\ connections \subseteq EndpointId /\ trust \subseteq EndpointId
    /\ known \in BOOLEAN /\ shared \in BOOLEAN
    /\ faults \in 0..MaxFaults /\ approvals \in Nat /\ unverified \in Nat
TargetsOK ==
    /\ context \in [Conversation -> ContextRow]
    /\ \A c \in Conversation : context[c].mode = "local" <=> context[c].endpoint = NoId
LEMMA TypeParts ==
    ASSUME ConnectTypeOK
    PROVE  StoredOK /\ KeptOK /\ TargetsOK /\ attempt \in [Attempt -> AttemptRow]
  BY DEF ConnectTypeOK, StoredOK, KeptOK, TargetsOK

(* The types of the next state, put together.                               *)
LEMMA PartsType ==
    ASSUME StoredOK', KeptOK', TargetsOK', attempt' \in [Attempt -> AttemptRow], AttemptsInPlace'
    PROVE  ConnectTypeOK'
<1>1. \A a \in Attempt : attempt'[a].pc \in Linked => attempt'[a].endpoint # NoId
  <2>1. SUFFICES ASSUME NEW a \in Attempt, attempt'[a].pc \in Linked
                 PROVE  attempt'[a].endpoint # NoId
    OBVIOUS
  <2>2. InPlace(a)'
    BY DEF AttemptsInPlace
  <2>3. \E r \in endpoints' : r.id = attempt'[a].endpoint
    BY <2>1, <2>2 DEF InPlace
  <2> QED
    BY <2>3, ConnectAssumption DEF StoredOK, EndpointRow
<1> QED
  BY <1>1 DEF ConnectTypeOK, StoredOK, KeptOK, TargetsOK

(* The stored rows keep their types when they do not change.                *)
LEMMA StoredKept ==
    ASSUME ConnectTypeOK, UNCHANGED stored
    PROVE  StoredOK'
  BY TypeParts DEF StoredOK, stored

(* So do the targets of the conversations,                                  *)
LEMMA TargetsKept ==
    ASSUME ConnectTypeOK, TargetsStay \/ NoneSound
    PROVE  TargetsOK'
  BY TypeParts DEF TargetsOK, TargetsStay, SameTarget, NoneSound

(* and the contexts.                                                        *)
LEMMA ContextKept ==
    ASSUME ConnectTypeOK, UNCHANGED context
    PROVE  TargetsOK' /\ TargetsStay
  BY TypeParts, ContextStays DEF TargetsOK

(* The rows that an attempt writes.                                         *)
LEMMA RotateStored ==
    ASSUME ConnectTypeOK, NEW a \in Attempt, InPlace(a), Rotate(a)
    PROVE  StoredOK'
<1>1. attempt[a].pc = "rotate" /\ attempt[a].want = "root" /\ UNCHANGED environments
  BY RotateRow, WantsRoot
<1>2. PICK s \in endpoints :
                 LET q == [s EXCEPT !.secret = attempt[a].secret]
                 IN  /\ s.auth = attempt[a].auth /\ q \in EndpointRow
                     /\ q.id = s.id /\ q.auth = s.auth /\ q.secret = attempt[a].secret
                     /\ endpoints' = (endpoints \ {s}) \cup {q}
  BY RotateRow
<1> DEFINE q == [s EXCEPT !.secret = attempt[a].secret]
<1>3. /\ s.auth = attempt[a].auth /\ q \in EndpointRow
      /\ q.id = s.id /\ q.auth = s.auth /\ q.secret = attempt[a].secret
      /\ endpoints' = (endpoints \ {s}) \cup {q}
  BY <1>2
<1> HIDE DEF q
<1>4. q.secret = NoSecret <=> q.auth = "agent"
  BY <1>1, <1>3, SecretOf
<1>5. StoredOK
  BY TypeParts
<1>6. \A r \in environments : \E t \in endpoints' : t.id = r.endpoint
  BY <1>3, <1>5 DEF StoredOK
<1>7. \A r, t \in endpoints' : r.id = t.id => r = t
  BY <1>3, <1>5 DEF StoredOK
<1> QED
  BY <1>1, <1>3, <1>4, <1>5, <1>6, <1>7 DEF StoredOK

(* An endpoint that is added has an id of its own.                          *)
LEMMA AddEndpointStored ==
    ASSUME ConnectTypeOK, NEW a \in Attempt, InPlace(a), NEW e \in EndpointId, AddEndpoint(a, e)
    PROVE  StoredOK'
<1> DEFINE q == [id |-> e, auth |-> attempt[a].auth, secret |-> attempt[a].secret]
<1>1. /\ attempt[a].pc = "add" /\ UNCHANGED environments /\ \A r \in endpoints : r.id # e
      /\ endpoints' = endpoints \cup {q}
  BY AddEndpointRow
<1>2. attempt[a].want = "root" /\ attempt[a].pc # "put"
  BY <1>1, WantsRoot
<1>3. /\ attempt[a].auth \in Auth /\ attempt[a].secret \in Attempt \cup {NoSecret}
      /\ attempt[a].secret = NoSecret <=> attempt[a].auth = "agent"
  BY <1>2, SecretOf
<1>4. q \in EndpointRow /\ q.id = e /\ (q.secret = NoSecret <=> q.auth = "agent")
  BY <1>3 DEF EndpointRow
<1> HIDE DEF q
<1>5. StoredOK
  BY TypeParts
<1> QED
  BY <1>1, <1>4, <1>5 DEF StoredOK

(* So has an environment that is created.                                   *)
LEMMA CreateEnvironmentStored ==
    ASSUME ConnectTypeOK, NEW a \in Attempt, InPlace(a), NEW v \in EnvironmentId,
           CreateEnvironment(a, v)
    PROVE  StoredOK'
<1> DEFINE q == [id |-> v, endpoint |-> attempt[a].endpoint]
<1>1. attempt[a].pc = "create" /\ UNCHANGED endpoints /\ environments' = environments \cup {q}
  BY CreateEnvironmentRow
<1>2. \E r \in endpoints : r.id = attempt[a].endpoint
  BY <1>1 DEF InPlace
<1>3. StoredOK
  BY TypeParts
<1>4. q \in EnvironmentRow /\ q.endpoint = attempt[a].endpoint
  BY <1>2, <1>3 DEF EnvironmentRow, StoredOK, EndpointRow
<1> HIDE DEF q
<1> QED
  BY <1>1, <1>2, <1>3, <1>4 DEF StoredOK

(* The two invariants are kept by every action.                             *)
TypeInPlace == ConnectTypeOK /\ AttemptsInPlace
LEMMA MoveType ==
    ASSUME TypeInPlace, NEW a \in Attempt, OneMoves(a), RowsStay, InPlace(a)', StoredOK', KeptOK',
           UNCHANGED context,
           \/ connections' \subseteq connections
           \/ attempt[a].pc \in Linked /\ connections' = connections \cup {attempt[a].endpoint}
    PROVE  TypeInPlace'
<1>1. TargetsStay /\ TargetsOK'
  BY ContextKept DEF TypeInPlace
<1>2. AttemptsInPlace'
  BY <1>1, MoveInPlace DEF TypeInPlace
<1> QED
  BY <1>1, <1>2, PartsType DEF TypeInPlace, OneMoves

(* What TypeInPlace says of one attempt.                                    *)
LEMMA InPlaceOf ==
    ASSUME TypeInPlace, NEW a \in Attempt
    PROVE  InPlace(a) /\ ConnectTypeOK /\ AttemptsInPlace /\ KeptOK
  BY TypeParts DEF TypeInPlace, AttemptsInPlace

(* One lemma per action: it keeps TypeInPlace.  Storing the password;       *)
LEMMA PutSecretType ==
    ASSUME TypeInPlace, NEW a \in Attempt, PutSecret(a)
    PROVE  TypeInPlace'
<1>1. InPlace(a) /\ ConnectTypeOK /\ AttemptsInPlace /\ KeptOK
  BY InPlaceOf
<1>2. OneMoves(a) /\ UNCHANGED context
  BY <1>1, PutSecretRow
<1>3. RowsStay /\ InPlace(a)'
  BY <1>1, PutSecretInPlace, PutSecretRow, StoredStays
<1>4. StoredOK'
  BY <1>1, PutSecretRow, StoredKept
<1>5. KeptOK'
  BY <1>1, PutSecretRow DEF KeptOK, history
<1>6. connections' \subseteq connections
  BY <1>1, PutSecretRow
<1> QED
  BY <1>2, <1>3, <1>4, <1>5, <1>6, MoveType

(* listing the endpoints;                                                   *)
LEMMA EnsureListType ==
    ASSUME TypeInPlace, NEW a \in Attempt, EnsureList(a)
    PROVE  TypeInPlace'
<1>1. InPlace(a) /\ ConnectTypeOK /\ AttemptsInPlace /\ KeptOK
  BY InPlaceOf
<1>2. OneMoves(a) /\ UNCHANGED context
  BY <1>1, EnsureListRow
<1>3. RowsStay /\ InPlace(a)'
  BY <1>1, EnsureListInPlace, EnsureListRow, StoredStays
<1>4. StoredOK'
  BY <1>1, EnsureListRow, StoredKept
<1>5. KeptOK'
  BY <1>1, EnsureListRow DEF KeptOK, history
<1>6. connections' \subseteq connections
  BY <1>1, EnsureListRow
<1> QED
  BY <1>2, <1>3, <1>4, <1>5, <1>6, MoveType

(* rotating one of them;                                                    *)
LEMMA RotateType ==
    ASSUME TypeInPlace, NEW a \in Attempt, Rotate(a)
    PROVE  TypeInPlace'
<1>1. InPlace(a) /\ ConnectTypeOK /\ AttemptsInPlace /\ KeptOK
  BY InPlaceOf
<1>2. OneMoves(a) /\ UNCHANGED context
  BY <1>1, RotateRow
<1>3. RowsStay /\ InPlace(a)'
  BY <1>1, RotateInPlace, RotateRowsStay
<1>4. StoredOK'
  BY <1>1, RotateStored
<1>5. KeptOK'
  BY <1>1, RotateRow DEF KeptOK, history
<1>6. connections' \subseteq connections
  BY <1>1, RotateRow
<1> QED
  BY <1>2, <1>3, <1>4, <1>5, <1>6, MoveType

(* adding an endpoint;                                                      *)
LEMMA AddEndpointType ==
    ASSUME TypeInPlace, NEW a \in Attempt, NEW e \in EndpointId, AddEndpoint(a, e)
    PROVE  TypeInPlace'
<1>1. InPlace(a) /\ ConnectTypeOK /\ AttemptsInPlace /\ KeptOK
  BY InPlaceOf
<1>2. OneMoves(a) /\ UNCHANGED context
  BY <1>1, AddEndpointRow
<1>3. RowsStay /\ InPlace(a)'
  BY <1>1, AddEndpointInPlace
<1>4. StoredOK'
  BY <1>1, AddEndpointStored
<1>5. KeptOK'
  BY <1>1, AddEndpointRow DEF KeptOK, history
<1>6. connections' \subseteq connections
  BY <1>1, AddEndpointRow
<1> QED
  BY <1>2, <1>3, <1>4, <1>5, <1>6, MoveType

(* looking for the environment;                                             *)
LEMMA EnsureEnvironmentType ==
    ASSUME TypeInPlace, NEW a \in Attempt, EnsureEnvironment(a)
    PROVE  TypeInPlace'
<1>1. InPlace(a) /\ ConnectTypeOK /\ AttemptsInPlace /\ KeptOK
  BY InPlaceOf
<1>2. OneMoves(a) /\ UNCHANGED context
  BY <1>1, EnsureEnvironmentRow
<1>3. RowsStay /\ InPlace(a)'
  BY <1>1, EnsureEnvironmentInPlace
<1>4. StoredOK'
  BY <1>1, EnsureEnvironmentRow, StoredKept
<1>5. KeptOK'
  <2>1. \E r \in endpoints : r.id = attempt[a].endpoint
    BY <1>1, EnsureEnvironmentRow DEF InPlace
  <2>2. attempt[a].endpoint \in EndpointId
    BY <1>1, <2>1 DEF ConnectTypeOK, EndpointRow
  <2> QED
    BY <1>1, <2>2, EnsureEnvironmentRow DEF KeptOK, history
<1>6. connections' \subseteq connections
  BY <1>1, EnsureEnvironmentRow
<1> QED
  BY <1>2, <1>3, <1>4, <1>5, <1>6, MoveType

(* creating it;                                                             *)
LEMMA CreateEnvironmentType ==
    ASSUME TypeInPlace, NEW a \in Attempt, NEW v \in EnvironmentId, CreateEnvironment(a, v)
    PROVE  TypeInPlace'
<1>1. InPlace(a) /\ ConnectTypeOK /\ AttemptsInPlace /\ KeptOK
  BY InPlaceOf
<1>2. OneMoves(a) /\ UNCHANGED context
  BY <1>1, CreateEnvironmentRow
<1>3. RowsStay /\ InPlace(a)'
  BY <1>1, CreateEnvironmentInPlace
<1>4. StoredOK'
  BY <1>1, CreateEnvironmentStored
<1>5. KeptOK'
  BY <1>1, CreateEnvironmentRow DEF KeptOK, history
<1>6. connections' \subseteq connections
  BY <1>1, CreateEnvironmentRow
<1> QED
  BY <1>2, <1>3, <1>4, <1>5, <1>6, MoveType

(* opening the connection;                                                  *)
LEMMA StartConnectType ==
    ASSUME TypeInPlace, NEW a \in Attempt, StartConnect(a)
    PROVE  TypeInPlace'
<1>1. InPlace(a) /\ ConnectTypeOK /\ AttemptsInPlace /\ KeptOK
  BY InPlaceOf
<1>2. OneMoves(a) /\ UNCHANGED context
  BY <1>1, StartConnectRow
<1>3. RowsStay /\ InPlace(a)'
  BY <1>1, StartConnectInPlace
<1>4. StoredOK'
  BY <1>1, StartConnectRow, StoredKept
<1>5. KeptOK'
  <2>1. shared' \in BOOLEAN
    BY <1>1 DEF StartConnect, KeptOK
  <2>2. trust' \subseteq trust
    BY <1>1, StartConnectRow
  <2>3. UNCHANGED <<secrets, connections, known, faults, approvals, unverified>>
    BY <1>1, StartConnectRow
  <2> QED
    BY <1>1, <2>1, <2>2, <2>3 DEF KeptOK
<1>6. connections' \subseteq connections
  BY <1>1, StartConnectRow
<1> QED
  BY <1>2, <1>3, <1>4, <1>5, <1>6, MoveType

(* its answer;                                                              *)
LEMMA EndConnectType ==
    ASSUME TypeInPlace, NEW a \in Attempt, NEW works \in BOOLEAN, EndConnect(a, works)
    PROVE  TypeInPlace'
<1>1. InPlace(a) /\ ConnectTypeOK /\ AttemptsInPlace /\ KeptOK
  BY InPlaceOf
<1>2. OneMoves(a) /\ UNCHANGED context
  BY <1>1, EndConnectRow
<1>3. RowsStay /\ InPlace(a)'
  BY <1>1, EndConnectInPlace
<1>4. StoredOK'
  BY <1>1, EndConnectRow, StoredKept
<1>5. KeptOK'
  <2>1. \E r \in endpoints : r.id = attempt[a].endpoint
    BY <1>1, EndConnectRow, LinkedRuns DEF Linked
  <2>2. attempt[a].endpoint \in EndpointId
    BY <1>1, <2>1 DEF ConnectTypeOK, EndpointRow
  <2>3. UNCHANGED <<secrets, known, approvals, shared>> /\ trust' \subseteq trust /\ faults' \in 0..MaxFaults
    BY <1>1, EndConnectRow
  <2>4. connections' \subseteq connections \cup {attempt[a].endpoint}
    BY <1>1, EndConnectRow
  <2>5. unverified' = unverified \/ unverified' = unverified + 1
    BY <1>1, EndConnectRow
  <2> QED
    BY <1>1, <2>2, <2>3, <2>4, <2>5 DEF KeptOK
<1>6. \/ connections' \subseteq connections
      \/ attempt[a].pc \in Linked /\ connections' = connections \cup {attempt[a].endpoint}
  BY <1>1, EndConnectRow DEF Linked
<1> QED
  BY <1>2, <1>3, <1>4, <1>5, <1>6, MoveType

(* the decision of the person;                                              *)
LEMMA ApproveType ==
    ASSUME TypeInPlace, NEW a \in Attempt, NEW yes \in BOOLEAN, Approve(a, yes)
    PROVE  TypeInPlace'
<1>1. InPlace(a) /\ ConnectTypeOK /\ AttemptsInPlace /\ KeptOK
  BY InPlaceOf
<1>2. OneMoves(a) /\ UNCHANGED context
  BY <1>1, ApproveRow
<1>3. RowsStay /\ InPlace(a)'
  BY <1>1, ApproveInPlace
<1>4. StoredOK'
  BY <1>1, ApproveRow, StoredKept
<1>5. KeptOK'
  BY <1>1, ApproveRow DEF KeptOK, history
<1>6. connections' \subseteq connections
  BY <1>1, ApproveRow
<1> QED
  BY <1>2, <1>3, <1>4, <1>5, <1>6, MoveType

(* the deletion of the password;                                            *)
LEMMA GiveUpType ==
    ASSUME TypeInPlace, NEW a \in Attempt, GiveUp(a)
    PROVE  TypeInPlace'
<1>1. InPlace(a) /\ ConnectTypeOK /\ AttemptsInPlace /\ KeptOK
  BY InPlaceOf
<1>2. OneMoves(a) /\ UNCHANGED context
  BY <1>1, GiveUpRow
<1>3. RowsStay /\ InPlace(a)'
  BY <1>1, GiveUpInPlace
<1>4. StoredOK'
  BY <1>1, GiveUpRow, StoredKept
<1>5. KeptOK'
  BY <1>1, GiveUpRow DEF KeptOK, history
<1>6. connections' \subseteq connections
  BY <1>1, GiveUpRow
<1> QED
  BY <1>2, <1>3, <1>4, <1>5, <1>6, MoveType

(* a call that is cut;                                                      *)
LEMMA CutType ==
    ASSUME TypeInPlace, NEW a \in Attempt, Cut(a)
    PROVE  TypeInPlace'
<1>1. InPlace(a) /\ ConnectTypeOK /\ AttemptsInPlace /\ KeptOK
  BY InPlaceOf
<1>2. OneMoves(a) /\ UNCHANGED context
  BY <1>1, CutRow
<1>3. RowsStay /\ InPlace(a)'
  BY <1>1, CutInPlace
<1>4. StoredOK'
  BY <1>1, CutRow, StoredKept
<1>5. KeptOK'
  BY <1>1, CutRow DEF KeptOK, history
<1>6. connections' \subseteq connections
  BY <1>1, CutRow
<1> QED
  BY <1>2, <1>3, <1>4, <1>5, <1>6, MoveType

(* a call on a conversation that is connected;                              *)
LEMMA UseType ==
    ASSUME TypeInPlace, NEW a \in Attempt, NEW c \in Conversation, Use(a, c)
    PROVE  TypeInPlace'
<1>1. InPlace(a) /\ ConnectTypeOK /\ AttemptsInPlace /\ KeptOK
  BY InPlaceOf
<1>2. OneMoves(a) /\ UNCHANGED context
  BY <1>1, UseIsMade
<1>3. RowsStay /\ InPlace(a)'
  BY <1>1, UseInPlace
<1>4. StoredOK'
  BY <1>1, UseIsMade, StoredKept
<1>5. KeptOK'
  BY <1>1, UseIsMade DEF KeptOK, history
<1>6. connections' \subseteq connections
  BY <1>1, UseIsMade
<1> QED
  BY <1>2, <1>3, <1>4, <1>5, <1>6, MoveType

(* a request over the connection;                                           *)
LEMMA WorkType ==
    ASSUME TypeInPlace, NEW a \in Attempt, NEW works \in BOOLEAN, Work(a, works)
    PROVE  TypeInPlace'
<1>1. InPlace(a) /\ ConnectTypeOK /\ AttemptsInPlace /\ KeptOK
  BY InPlaceOf
<1>2. /\ OneMoves(a) /\ attempt[a].pc = "use" /\ UNCHANGED <<stored, secrets, trust, known, history>>
      /\ connections' \subseteq connections /\ faults' \in 0..MaxFaults
      /\ TargetsStay \/ context' = Adopted(a)
  BY <1>1, WorkRow
<1>3. RowsStay /\ InPlace(a)'
  BY <1>1, WorkInPlace
<1>4. StoredOK'
  BY <1>1, <1>2, StoredKept
<1>5. KeptOK'
  BY <1>1, <1>2 DEF KeptOK, history
<1>6. TargetsOK' /\ AttemptsInPlace'
  <2>1. CASE TargetsStay
    BY <1>1, <1>2, <1>3, <2>1, TargetsKept, MoveInPlace
  <2>2. CASE context' = Adopted(a)
    <3>1. AttemptsInPlace'
      BY <1>1, <1>2, <1>3, <2>2, AdoptedInPlace
    <3>2. attempt[a].by \in Conversation /\ attempt[a].endpoint # NoId
      BY <1>1, <1>2, LinkedRuns DEF Linked, ConnectTypeOK
    <3>3. /\ context' \in [Conversation -> ContextRow]
          /\ \A c \in Conversation : c # attempt[a].by => context'[c] = context[c]
          /\ context'[attempt[a].by].mode = "ssh"
          /\ context'[attempt[a].by].endpoint = attempt[a].endpoint
      BY <1>1, <2>2, <3>2, AdoptedTarget
    <3>4. TargetsOK'
      BY <1>1, <3>2, <3>3 DEF TargetsOK, ConnectTypeOK
    <3> QED
      BY <3>1, <3>4
  <2> QED
    BY <1>2, <2>1, <2>2
<1> QED
  BY <1>2, <1>4, <1>5, <1>6, PartsType DEF OneMoves, TypeInPlace

(* an attempt that begins;                                                  *)
LEMMA ConnectType ==
    ASSUME TypeInPlace, NEW a \in Attempt, NEW c \in Conversation, NEW auth \in Auth,
           Connect(a, c, auth)
    PROVE  TypeInPlace'
<1>1. ConnectTypeOK /\ AttemptsInPlace /\ KeptOK
  BY InPlaceOf
<1>2. NoneSound /\ attempt' \in [Attempt -> AttemptRow]
  BY <1>1, ConnectRow
<1>3. UNCHANGED <<stored, secrets, connections, trust, known, faults, history>>
  BY <1>1, ConnectRow
<1>4. RowsStay /\ \A b \in Attempt : InPlace(b)'
  BY <1>1, ConnectInPlace
<1>5. StoredOK' /\ TargetsOK' /\ KeptOK'
  BY <1>1, <1>2, <1>3, StoredKept, TargetsKept DEF KeptOK, history
<1>6. \A e \in connections' : \E r \in endpoints' : r.id = e
  BY <1>1, <1>3, <1>4, LinksInPlace
<1>7. AttemptsInPlace'
  BY <1>1, <1>2, <1>4, <1>6, TargetsInPlace DEF AttemptsInPlace
<1> QED
  BY <1>2, <1>5, <1>7, PartsType DEF TypeInPlace

(* a restart of the broker;                                                 *)
LEMMA RestartType ==
    ASSUME TypeInPlace, BrokerConnections
    PROVE  TypeInPlace'
<1>1. ConnectTypeOK /\ AttemptsInPlace /\ KeptOK
  BY TypeParts DEF TypeInPlace
<1>2. /\ NoneSound /\ attempt' \in [Attempt -> AttemptRow]
      /\ secrets' = {} /\ connections' = {} /\ trust' = {}
      /\ UNCHANGED <<stored, known, faults, history>>
  BY <1>1, RestartRow
<1>3. RowsStay /\ \A b \in Attempt : InPlace(b)'
  BY <1>1, RestartInPlace
<1>4. StoredOK' /\ TargetsOK'
  BY <1>1, <1>2, StoredKept, TargetsKept
<1>5. KeptOK'
  BY <1>1, <1>2 DEF KeptOK, history
<1>6. AttemptsInPlace'
  BY <1>1, <1>2, <1>3, TargetsInPlace DEF AttemptsInPlace
<1> QED
  BY <1>2, <1>4, <1>5, <1>6, PartsType DEF TypeInPlace

(* a connection that breaks.                                                *)
LEMMA LossType ==
    ASSUME TypeInPlace, NEW e \in EndpointId, ConnectionLost(e)
    PROVE  TypeInPlace'
<1>1. ConnectTypeOK /\ AttemptsInPlace /\ KeptOK /\ MaxFaults \in Nat
  BY TypeParts, ConnectAssumption DEF TypeInPlace
<1>2. /\ connections' \subseteq connections /\ faults < MaxFaults /\ faults' = faults + 1
      /\ UNCHANGED <<stored, secrets, trust, known, context, attempt, history>>
  BY DEF ConnectionLost
<1>3. RowsStay /\ TargetsStay /\ TargetsOK' /\ StoredOK'
  BY <1>1, <1>2, StoredStays, ContextKept, StoredKept
<1>4. KeptOK'
  BY <1>1, <1>2 DEF KeptOK, history
<1>5. \A b \in Attempt : InPlace(b)'
  BY <1>1, <1>2, <1>3, SameInPlace DEF AttemptsInPlace
<1>6. \A f \in connections' : \E r \in endpoints' : r.id = f
  BY <1>1, <1>2 DEF AttemptsInPlace, stored
<1>7. AttemptsInPlace'
  BY <1>1, <1>3, <1>5, <1>6, TargetsInPlace DEF AttemptsInPlace
<1>8. attempt' \in [Attempt -> AttemptRow]
  BY <1>1, <1>2 DEF ConnectTypeOK
<1> QED
  BY <1>3, <1>4, <1>7, <1>8, PartsType DEF TypeInPlace

(* Every step keeps the types and every attempt in place.                   *)
LEMMA ConnectTypeStep ==
    ASSUME TypeInPlace, ConnectNext \/ BrokerConnections
    PROVE  TypeInPlace'
  BY PutSecretType, EnsureListType, RotateType, AddEndpointType, EnsureEnvironmentType,
     CreateEnvironmentType, StartConnectType, EndConnectType, ApproveType, GiveUpType, CutType,
     UseType, WorkType, ConnectType, RestartType, LossType DEF ConnectNext

(* Passwords in the store.                                                  *)
Held(a) == \/ attempt[a].pc \notin Over /\ attempt[a].secret = a
           \/ attempt[a].pc = "ok"
           \/ attempt[a].pc = "failed" /\ ~attempt[a].waited
LEMMA RunsWithSecret ==
    ASSUME SecretIsHeld, NEW a \in Attempt, a \in Running, a \in secrets
    PROVE  attempt[a].secret = a
  BY DEF SecretIsHeld, Running, Over

(* An attempt that goes on holds its password.                              *)
LEMMA HeldGoesOn ==
    ASSUME SecretIsHeld, NEW a \in Attempt, a \in Running, a \in secrets,
           attempt'[a].pc \notin Over, attempt'[a].secret = attempt[a].secret
    PROVE  Held(a)'
  BY RunsWithSecret DEF Held

(* One that ends well, or unwaited, may leave it.                           *)
LEMMA HeldIsOver ==
    ASSUME NEW a \in Attempt, IsOver(attempt'[a], attempt[a]),
           attempt'[a].pc = "ok" \/ (attempt'[a].pc = "failed" /\ ~attempt[a].waited)
    PROVE  Held(a)'
  BY DEF Held, IsOver

(* One that ends with an error goes on to delete it.                        *)
LEMMA HeldErrs ==
    ASSUME TypeInPlace, SecretIsHeld, NEW a \in Attempt, a \in Running, a \in secrets,
           Errs(attempt'[a], attempt[a])
    PROVE  Held(a)'
<1>1. attempt[a].secret = a /\ a # NoSecret
  BY RunsWithSecret, ConnectAssumption
<1>2. attempt[a].want # "work"
  BY <1>1, InPlaceOf DEF InPlace
<1>3. CASE attempt'[a].pc = "ok" /\ IsOver(attempt'[a], attempt[a])
  BY <1>3, HeldIsOver
<1>4. CASE attempt'[a].pc = "failed" /\ IsOver(attempt'[a], attempt[a]) /\ ~attempt[a].waited
  BY <1>4, HeldIsOver
<1>5. CASE attempt'[a].pc \in {"approve", "delete"} /\ StillData(attempt'[a], attempt[a])
  BY <1>1, <1>5 DEF Held, StillData, Over
<1> QED
  BY <1>1, <1>2, <1>3, <1>4, <1>5 DEF Errs

(* It is enough to look at the attempt that moves.                          *)
LEMMA MoveHeld ==
    ASSUME SecretIsHeld, TypeInPlace, NEW a \in Attempt, OneMoves(a), secrets' \subseteq secrets \cup {a},
           a \in secrets' => Held(a)'
    PROVE  SecretIsHeld'
  BY InPlaceOf DEF SecretIsHeld, OneMoves, Held, KeptOK

(* An attempt between its beginning and its end is running.                 *)
LEMMA RunsAt ==
    ASSUME NEW a \in Attempt, attempt[a].pc \notin Over \cup {"new"}
    PROVE  a \in Running
  BY DEF Running

(* An attempt that has not begun has no password and no rival,              *)
LEMMA NewIsNew ==
    ASSUME TypeInPlace, NEW a \in Attempt, attempt[a].pc = "new"
    PROVE  attempt[a].secret = NoSecret /\ attempt[a].alone = TRUE /\ a \notin Connecting
<1>1. attempt[a] = NewAttempt
  BY InPlaceOf DEF InPlace
<1>2. a \notin Connecting
  BY DEF Connecting, Running
<1> QED
  BY <1>1, <1>2 DEF NewAttempt

(* nor is one stored for it.                                                *)
LEMMA NewHasNone ==
    ASSUME TypeInPlace, SecretIsHeld, NEW a \in Attempt, attempt[a].pc = "new"
    PROVE  a \notin secrets
<1>1. attempt[a].secret # a
  BY NewIsNew, ConnectAssumption
<1> QED
  BY <1>1 DEF SecretIsHeld

(* No step leaves a password to nobody.                                     *)
LEMMA SecretIsHeldStep ==
    ASSUME TypeInPlace, SecretIsHeld, ConnectNext \/ BrokerConnections
    PROVE  SecretIsHeld'
<1>0. ASSUME NEW a \in Attempt PROVE InPlace(a) /\ ConnectTypeOK /\ AttemptsInPlace
  BY InPlaceOf
<1>1. ASSUME NEW a \in Attempt, PutSecret(a) PROVE SecretIsHeld'
  <2>1. /\ OneMoves(a) /\ attempt[a].pc = "put"
        /\ \/ secrets' = secrets \cup {a} /\ attempt'[a].pc = "list" /\ attempt'[a].secret = a
           \/ /\ attempt'[a].pc = "failed" /\ IsOver(attempt'[a], attempt[a])
              /\ secrets' = secrets \/ (secrets' = secrets \cup {a} /\ ~attempt[a].waited)
    BY <1>0, <1>1, PutSecretRow
  <2>2. a \notin secrets
    <3>1. a \in Running /\ attempt[a].want = "root"
      BY <1>0, <2>1, WantsRoot
    <3>2. attempt[a].secret = NoSecret /\ a # NoSecret
      BY <1>0, <2>1, <3>1, ConnectAssumption DEF InPlace
    <3> QED
      BY <3>1, <3>2, RunsWithSecret
  <2>3. a \in secrets' => Held(a)'
    BY <2>1, <2>2, HeldIsOver DEF Held, Over
  <2> QED
    BY <2>1, <2>3, MoveHeld
<1>2. ASSUME NEW a \in Attempt, EnsureList(a) PROVE SecretIsHeld'
  <2>1. /\ OneMoves(a) /\ attempt[a].pc = "list" /\ SameAttempt(attempt'[a], attempt[a])
        /\ attempt'[a].pc \in {"rotate", "add", "environments"} /\ UNCHANGED secrets
    BY <1>0, <1>2, EnsureListRow
  <2>2. a \in Running /\ attempt'[a].pc \notin Over /\ attempt'[a].secret = attempt[a].secret
    BY <2>1 DEF Running, Over, SameAttempt
  <2> QED
    BY <2>1, <2>2, HeldGoesOn, MoveHeld
<1>3. ASSUME NEW a \in Attempt, Rotate(a) PROVE SecretIsHeld'
  <2>1. /\ OneMoves(a) /\ attempt[a].pc = "rotate" /\ SameAttempt(attempt'[a], attempt[a])
        /\ attempt'[a].pc \in {"rotate", "environments"} /\ UNCHANGED secrets
    BY <1>0, <1>3, RotateRow
  <2>2. a \in Running /\ attempt'[a].pc \notin Over /\ attempt'[a].secret = attempt[a].secret
    BY <2>1 DEF Running, Over, SameAttempt
  <2> QED
    BY <2>1, <2>2, HeldGoesOn, MoveHeld
<1>4. ASSUME NEW a \in Attempt, NEW e \in EndpointId, AddEndpoint(a, e) PROVE SecretIsHeld'
  <2>1. /\ OneMoves(a) /\ attempt[a].pc = "add" /\ SameAttempt(attempt'[a], attempt[a])
        /\ attempt'[a].pc = "environments" /\ UNCHANGED secrets
    BY <1>0, <1>4, AddEndpointRow
  <2>2. a \in Running /\ attempt'[a].pc \notin Over /\ attempt'[a].secret = attempt[a].secret
    BY <2>1 DEF Running, Over, SameAttempt
  <2> QED
    BY <2>1, <2>2, HeldGoesOn, MoveHeld
<1>5. ASSUME NEW a \in Attempt, EnsureEnvironment(a) PROVE SecretIsHeld'
  <2>1. /\ OneMoves(a) /\ attempt[a].pc = "environments" /\ UNCHANGED secrets
        /\ \/ /\ attempt'[a].pc \in {"create", "connect"} /\ SameAttempt(attempt'[a], attempt[a])
           \/ /\ attempt'[a].pc = "failed" /\ IsOver(attempt'[a], attempt[a])
              /\ ~attempt[a].waited
    BY <1>0, <1>5, EnsureEnvironmentRow
  <2>2. a \in Running
    BY <2>1 DEF Running, Over
  <2>3. \/ attempt'[a].pc \notin Over /\ attempt'[a].secret = attempt[a].secret
        \/ IsOver(attempt'[a], attempt[a]) /\ attempt'[a].pc = "failed" /\ ~attempt[a].waited
    BY <2>1 DEF Over, SameAttempt
  <2> QED
    BY <2>1, <2>2, <2>3, HeldGoesOn, HeldIsOver, MoveHeld
<1>6. ASSUME NEW a \in Attempt, NEW v \in EnvironmentId, CreateEnvironment(a, v) PROVE SecretIsHeld'
  <2>1. /\ OneMoves(a) /\ attempt[a].pc = "create" /\ UNCHANGED secrets
        /\ \/ /\ attempt'[a].pc \in {"create", "connect"} /\ SameAttempt(attempt'[a], attempt[a])
           \/ /\ attempt'[a].pc = "failed" /\ IsOver(attempt'[a], attempt[a])
              /\ ~attempt[a].waited
    BY <1>0, <1>6, CreateEnvironmentRow
  <2>2. a \in Running
    BY <2>1 DEF Running, Over
  <2>3. \/ attempt'[a].pc \notin Over /\ attempt'[a].secret = attempt[a].secret
        \/ IsOver(attempt'[a], attempt[a]) /\ attempt'[a].pc = "failed" /\ ~attempt[a].waited
    BY <2>1 DEF Over, SameAttempt
  <2> QED
    BY <2>1, <2>2, <2>3, HeldGoesOn, HeldIsOver, MoveHeld
<1>7. ASSUME NEW a \in Attempt, StartConnect(a) PROVE SecretIsHeld'
  <2>1. /\ OneMoves(a) /\ attempt[a].pc = "connect" /\ UNCHANGED secrets
        /\ \/ attempt'[a].pc = "use" /\ SameAttempt(attempt'[a], attempt[a])
           \/ Errs(attempt'[a], attempt[a])
           \/ attempt'[a].pc = "connecting" /\ StillData(attempt'[a], attempt[a])
    BY <1>0, <1>7, StartConnectRow
  <2>2. a \in Running
    BY <2>1 DEF Running, Over
  <2>3. \/ attempt'[a].pc \notin Over /\ attempt'[a].secret = attempt[a].secret
        \/ Errs(attempt'[a], attempt[a])
    BY <2>1 DEF Over, SameAttempt, StillData
  <2> QED
    BY <2>1, <2>2, <2>3, HeldGoesOn, HeldErrs, MoveHeld
<1>8. ASSUME NEW a \in Attempt, NEW ok \in BOOLEAN, EndConnect(a, ok) PROVE SecretIsHeld'
  <2>1. /\ OneMoves(a) /\ attempt[a].pc = "connecting" /\ UNCHANGED secrets
        /\ \/ Errs(attempt'[a], attempt[a])
           \/ attempt'[a].pc = "use" /\ StillData(attempt'[a], attempt[a])
    BY <1>0, <1>8, EndConnectRow
  <2>2. a \in Running
    BY <2>1 DEF Running, Over
  <2>3. \/ attempt'[a].pc \notin Over /\ attempt'[a].secret = attempt[a].secret
        \/ Errs(attempt'[a], attempt[a])
    BY <2>1 DEF Over, StillData
  <2> QED
    BY <2>1, <2>2, <2>3, HeldGoesOn, HeldErrs, MoveHeld
<1>9. ASSUME NEW a \in Attempt, NEW ok \in BOOLEAN, Approve(a, ok) PROVE SecretIsHeld'
  <2>1. /\ OneMoves(a) /\ attempt[a].pc = "approve" /\ UNCHANGED secrets
        /\ \/ attempt'[a].pc = "list" /\ attempt'[a].secret = attempt[a].secret
           \/ attempt[a].secret = NoSecret
           \/ attempt'[a].pc = "delete" /\ SameAttempt(attempt'[a], attempt[a])
    BY <1>0, <1>9, ApproveRow
  <2>2. a \in Running /\ a # NoSecret
    BY <2>1, ConnectAssumption DEF Running, Over
  <2>3. \/ attempt'[a].pc \notin Over /\ attempt'[a].secret = attempt[a].secret
        \/ attempt[a].secret = NoSecret
    BY <2>1 DEF Over, SameAttempt
  <2> QED
    BY <2>1, <2>2, <2>3, HeldGoesOn, RunsWithSecret, MoveHeld
<1>10. ASSUME NEW a \in Attempt, NEW ok \in BOOLEAN, Work(a, ok) PROVE SecretIsHeld'
  <2>1. /\ OneMoves(a) /\ attempt[a].pc = "use" /\ UNCHANGED secrets
        /\ \/ Errs(attempt'[a], attempt[a])
           \/ /\ IsOver(attempt'[a], attempt[a])
              /\ attempt'[a].pc = "ok" \/ (attempt'[a].pc = "failed" /\ ~attempt[a].waited)
           \/ attempt'[a].pc = "connect" /\ attempt'[a].secret = attempt[a].secret
    BY <1>0, <1>10, WorkRow
  <2>2. a \in Running /\ (attempt'[a].pc = "connect" => attempt'[a].pc \notin Over)
    BY <2>1 DEF Running, Over
  <2> QED
    BY <2>1, <2>2, HeldGoesOn, HeldErrs, HeldIsOver, MoveHeld
<1>11. ASSUME NEW a \in Attempt, GiveUp(a) PROVE SecretIsHeld'
  BY <1>0, <1>11, GiveUpRow, MoveHeld
<1>12. ASSUME NEW a \in Attempt, Cut(a) PROVE SecretIsHeld'
  <2>1. /\ OneMoves(a) /\ a \in Running /\ attempt'[a].waited = FALSE /\ UNCHANGED secrets
        /\ \/ attempt'[a].pc = attempt[a].pc /\ NowCut(attempt'[a], attempt[a])
           \/ attempt'[a].pc = "failed"
    BY <1>0, <1>12, CutRow
  <2>2. a \in secrets => Held(a)'
    <3>1. CASE attempt'[a].pc = "failed"
      BY <2>1, <3>1 DEF Held
    <3>2. CASE attempt'[a].pc = attempt[a].pc /\ NowCut(attempt'[a], attempt[a])
      <4>1. attempt'[a].pc \notin Over /\ attempt'[a].secret = attempt[a].secret
        BY <2>1, <3>2 DEF NowCut, Running
      <4> QED
        BY <2>1, <4>1, HeldGoesOn
    <3> QED
      BY <2>1, <3>1, <3>2
  <2> QED
    BY <2>1, <2>2, MoveHeld
<1>13. ASSUME NEW a \in Attempt, NEW c \in Conversation, Use(a, c) PROVE SecretIsHeld'
  <2>1. OneMoves(a) /\ attempt[a].pc = "new" /\ UNCHANGED secrets
    BY <1>0, <1>13, UseIsMade
  <2>2. a \notin secrets
    BY <2>1, NewHasNone
  <2> QED
    BY <2>1, <2>2, MoveHeld
<1>14. ASSUME NEW a \in Attempt, NEW c \in Conversation, NEW auth \in Auth, Connect(a, c, auth)
       PROVE  SecretIsHeld'
  <2>1. attempt[a].pc = "new" /\ UNCHANGED secrets
    BY <1>0, <1>14, ConnectRow
  <2>2. a \notin secrets
    BY <2>1, NewHasNone
  <2>3. \A b \in Attempt \ {a} : attempt'[b] = attempt[b] \/ Disturbed(attempt'[b], attempt[b])
    BY <1>0, <1>14, ConnectRow
  <2>4. \A b \in Attempt \ {a} : /\ attempt'[b].pc = attempt[b].pc
                                 /\ attempt'[b].secret = attempt[b].secret
                                 /\ attempt'[b].waited = attempt[b].waited
    BY <2>3 DEF Disturbed
  <2>5. secrets \subseteq Attempt
    BY <1>0, <1>14 DEF ConnectTypeOK
  <2> QED
    BY <2>1, <2>2, <2>4, <2>5 DEF SecretIsHeld
<1>15. ASSUME NEW e \in EndpointId, ConnectionLost(e) PROVE SecretIsHeld'
  BY <1>15 DEF ConnectionLost, SecretIsHeld
<1>16. ASSUME BrokerConnections PROVE SecretIsHeld'
  BY <1>16 DEF BrokerConnections, SecretIsHeld
<1> QED
  BY <1>1, <1>2, <1>3, <1>4, <1>5, <1>6, <1>7, <1>8, <1>9, <1>10, <1>11, <1>12, <1>13, <1>14,
     <1>15, <1>16 DEF ConnectNext

(* The actions by what they may change: those of an attempt that wants the  *)
(* root and has yet to connect, and those of one that is connecting.        *)
RootMoves(a) ==
    \/ PutSecret(a) \/ EnsureList(a) \/ Rotate(a) \/ EnsureEnvironment(a) \/ GiveUp(a)
    \/ \E e \in EndpointId : AddEndpoint(a, e)
    \/ \E v \in EnvironmentId : CreateEnvironment(a, v)
    \/ \E ok \in BOOLEAN : Approve(a, ok)
LinkMoves(a) == StartConnect(a) \/ Cut(a) \/ \E ok \in BOOLEAN : EndConnect(a, ok) \/ Work(a, ok)
LEMMA Steps ==
    ASSUME ConnectNext
    PROVE  \/ \E a \in Attempt : \/ RootMoves(a) \/ LinkMoves(a)
                                 \/ \E c \in Conversation : Use(a, c)
                                 \/ \E c \in Conversation, auth \in Auth : Connect(a, c, auth)
           \/ \E e \in EndpointId : ConnectionLost(e)
  BY DEF ConnectNext, RootMoves, LinkMoves

(* A row never comes to be alone, nor to want more than it did.             *)
Calmer(n, o) ==
    \/ n.pc \in Over \/ n.want = "work"
    \/ /\ o.pc \notin Over \cup {"new"} /\ o.want # "work" /\ n.alone = o.alone
       /\ o.want = "probe" => n.want = "probe"
LEMMA SameIsCalm ==
    ASSUME TypeInPlace, NEW a \in Attempt, a \in Running,
           attempt'[a].want = attempt[a].want, attempt'[a].alone = attempt[a].alone
    PROVE  Calmer(attempt'[a], attempt[a])
  BY DEF Calmer, Running

(* An attempt that is over disturbs nobody.                                 *)
LEMMA OverIsCalm ==
    ASSUME NEW a, NEW o, IsOver(attempt'[a], o)
    PROVE  Calmer(attempt'[a], attempt[a])
  BY DEF Calmer, IsOver

(* Nor does one that ends with an error.                                    *)
LEMMA ErrsIsCalm ==
    ASSUME TypeInPlace, NEW a \in Attempt, a \in Running, Errs(attempt'[a], attempt[a])
    PROVE  Calmer(attempt'[a], attempt[a])
<1>1. IsOver(attempt'[a], attempt[a]) \/ StillData(attempt'[a], attempt[a])
  BY DEF Errs
<1>2. StillData(attempt'[a], attempt[a]) =>
         attempt'[a].want = attempt[a].want /\ attempt'[a].alone = attempt[a].alone
  BY DEF StillData
<1> QED
  BY <1>1, <1>2, OverIsCalm, SameIsCalm

(* The same attempt is alone, or is not, as before.                         *)
LEMMA SameAlone ==
    ASSUME NEW n, NEW o, SameAttempt(n, o) \/ StillData(n, o) \/ NowCut(n, o)
    PROVE  n.want = o.want /\ n.alone = o.alone
  BY DEF SameAttempt, StillData, NowCut

(* A step of an attempt that sets the endpoint up moves it alone.           *)
LEMMA RootMoving ==
    ASSUME TypeInPlace, NEW a \in Attempt, RootMoves(a)
    PROVE  /\ OneMoves(a) /\ a \in Connecting /\ attempt[a].want = "root"
           /\ Calmer(attempt'[a], attempt[a]) /\ UNCHANGED <<connections, context>>
<1>0. InPlace(a) /\ ConnectTypeOK
  BY InPlaceOf
<1>1. SUFFICES /\ OneMoves(a) /\ UNCHANGED <<connections, context>>
               /\ attempt[a].pc \in {"put", "list", "rotate", "add", "environments", "create",
                                     "approve", "delete"}
               /\ \/ attempt'[a].want = attempt[a].want /\ attempt'[a].alone = attempt[a].alone
                  \/ IsOver(attempt'[a], attempt[a])
  BY <1>0, WantsRoot, SameIsCalm, OverIsCalm
<1>2. CASE PutSecret(a)
  BY <1>0, <1>2, PutSecretRow
<1>3. CASE EnsureList(a)
  BY <1>0, <1>3, EnsureListRow, SameAlone
<1>4. CASE Rotate(a)
  BY <1>0, <1>4, RotateRow, SameAlone
<1>5. CASE EnsureEnvironment(a)
  BY <1>0, <1>5, EnsureEnvironmentRow, SameAlone
<1>6. CASE GiveUp(a)
  BY <1>0, <1>6, GiveUpRow
<1>7. ASSUME NEW e \in EndpointId, AddEndpoint(a, e)
      PROVE  /\ OneMoves(a) /\ UNCHANGED <<connections, context>> /\ attempt[a].pc = "add"
             /\ attempt'[a].want = attempt[a].want /\ attempt'[a].alone = attempt[a].alone
  BY <1>0, <1>7, AddEndpointRow, SameAlone
<1>8. ASSUME NEW v \in EnvironmentId, CreateEnvironment(a, v)
      PROVE  /\ OneMoves(a) /\ UNCHANGED <<connections, context>> /\ attempt[a].pc = "create"
             /\ \/ attempt'[a].want = attempt[a].want /\ attempt'[a].alone = attempt[a].alone
                \/ IsOver(attempt'[a], attempt[a])
  BY <1>0, <1>8, CreateEnvironmentRow, SameAlone
<1>9. ASSUME NEW ok \in BOOLEAN, Approve(a, ok)
      PROVE  /\ OneMoves(a) /\ UNCHANGED <<connections, context>> /\ attempt[a].pc = "approve"
             /\ \/ attempt'[a].want = attempt[a].want /\ attempt'[a].alone = attempt[a].alone
                \/ IsOver(attempt'[a], attempt[a])
  BY <1>0, <1>9, ApproveRow, SameAlone
<1> QED
  BY <1>2, <1>3, <1>4, <1>5, <1>6, <1>7, <1>8, <1>9 DEF RootMoves

(* A step at the connection leaves what is stored alone; only a success     *)
(* changes a target.                                                        *)
LEMMA LinkMoving ==
    ASSUME TypeInPlace, NEW a \in Attempt, LinkMoves(a)
    PROVE  /\ OneMoves(a) /\ a \in Running /\ Calmer(attempt'[a], attempt[a])
           /\ UNCHANGED <<stored, secrets>>
           /\ \/ TargetsStay
              \/ /\ context' = Adopted(a) /\ attempt[a].pc = "use" /\ attempt[a].want = "root"
                 /\ attempt'[a].want = "probe"
<1>0. InPlace(a) /\ ConnectTypeOK
  BY InPlaceOf
<1>1. CASE StartConnect(a)
  <2>1. /\ OneMoves(a) /\ attempt[a].pc = "connect" /\ UNCHANGED <<stored, secrets, context>>
        /\ \/ attempt'[a].want = attempt[a].want /\ attempt'[a].alone = attempt[a].alone
           \/ Errs(attempt'[a], attempt[a])
    BY <1>0, <1>1, StartConnectRow, SameAlone
  <2>2. a \in Running
    BY <2>1 DEF Running, Over
  <2> QED
    BY <1>0, <2>1, <2>2, SameIsCalm, ErrsIsCalm, ContextStays
<1>2. CASE Cut(a)
  <2>1. /\ OneMoves(a) /\ a \in Running /\ UNCHANGED <<stored, secrets, context>>
        /\ \/ attempt'[a].want = attempt[a].want /\ attempt'[a].alone = attempt[a].alone
           \/ attempt'[a].pc = "failed"
    BY <1>0, <1>2, CutRow, SameAlone
  <2>2. Calmer(attempt'[a], attempt[a])
    <3>1. CASE attempt'[a].pc = "failed"
      BY <3>1 DEF Calmer, Over
    <3> QED
      BY <2>1, <3>1, SameIsCalm
  <2> QED
    BY <1>0, <2>1, <2>2, ContextStays
<1>3. ASSUME NEW ok \in BOOLEAN, EndConnect(a, ok)
      PROVE  /\ OneMoves(a) /\ a \in Running /\ Calmer(attempt'[a], attempt[a])
             /\ UNCHANGED <<stored, secrets>> /\ TargetsStay
  <2>1. /\ OneMoves(a) /\ attempt[a].pc = "connecting" /\ UNCHANGED <<stored, secrets, context>>
        /\ \/ attempt'[a].want = attempt[a].want /\ attempt'[a].alone = attempt[a].alone
           \/ Errs(attempt'[a], attempt[a])
    BY <1>0, <1>3, EndConnectRow, SameAlone
  <2>2. a \in Running
    BY <2>1 DEF Running, Over
  <2> QED
    BY <1>0, <2>1, <2>2, SameIsCalm, ErrsIsCalm, ContextStays
<1>4. ASSUME NEW ok \in BOOLEAN, Work(a, ok)
      PROVE  /\ OneMoves(a) /\ a \in Running /\ Calmer(attempt'[a], attempt[a])
             /\ UNCHANGED <<stored, secrets>>
             /\ \/ TargetsStay
                \/ /\ context' = Adopted(a) /\ attempt[a].pc = "use" /\ attempt[a].want = "root"
                   /\ attempt'[a].want = "probe"
  <2>1. /\ OneMoves(a) /\ attempt[a].pc = "use" /\ UNCHANGED <<stored, secrets>>
        /\ \/ TargetsStay /\ Errs(attempt'[a], attempt[a])
           \/ TargetsStay /\ IsOver(attempt'[a], attempt[a])
           \/ /\ context' = Adopted(a) /\ attempt[a].want = "root" /\ attempt'[a].want = "probe"
              /\ attempt'[a].alone = attempt[a].alone
    BY <1>0, <1>4, WorkRow
  <2>2. a \in Running
    BY <2>1 DEF Running, Over
  <2>3. CASE TargetsStay /\ Errs(attempt'[a], attempt[a])
    BY <2>1, <2>2, <2>3, ErrsIsCalm
  <2>4. CASE TargetsStay /\ IsOver(attempt'[a], attempt[a])
    BY <2>1, <2>2, <2>4, OverIsCalm
  <2>5. CASE /\ context' = Adopted(a) /\ attempt[a].want = "root" /\ attempt'[a].want = "probe"
             /\ attempt'[a].alone = attempt[a].alone
    <3>1. Calmer(attempt'[a], attempt[a])
      BY <2>2, <2>5 DEF Calmer, Running
    <3> QED
      BY <2>1, <2>2, <2>5, <3>1
  <2> QED
    BY <2>1, <2>3, <2>4, <2>5
<1> QED
  BY <1>1, <1>2, <1>3, <1>4 DEF LinkMoves

(* After a restart no attempt is more alone than before.                    *)
LEMMA RestartCalm ==
    ASSUME TypeInPlace, BrokerConnections, NEW b \in Attempt
    PROVE  attempt'[b] = attempt[b] \/ Calmer(attempt'[b], attempt[b])
  BY InPlaceOf, RestartRow, ErrsIsCalm

(* What is connecting after a step, and alone, was so before.               *)
LEMMA WasConnecting ==
    ASSUME NEW b \in Attempt, b \in Connecting',
           attempt'[b] = attempt[b] \/ Calmer(attempt'[b], attempt[b])
    PROVE  /\ b \in Connecting /\ attempt'[b].alone = attempt[b].alone
           /\ attempt[b].want = "probe" => attempt'[b].want = "probe"
<1>1. attempt'[b].pc \notin Over \cup {"new"} /\ attempt'[b].want # "work"
  BY DEF Connecting, Running
<1>2. \/ attempt'[b] = attempt[b]
      \/ /\ attempt[b].pc \notin Over \cup {"new"} /\ attempt[b].want # "work"
         /\ attempt'[b].alone = attempt[b].alone
         /\ attempt[b].want = "probe" => attempt'[b].want = "probe"
  BY <1>1 DEF Calmer
<1>3. attempt[b].pc \notin Over \cup {"new"} /\ attempt[b].want # "work"
  BY <1>1, <1>2
<1> QED
  BY <1>2, <1>3 DEF Connecting, Running

(* The sets of attempts that connect and run.                               *)
LEMMA ConnectingIsAttempt ==
    Connecting \subseteq Attempt /\ Connecting' \subseteq Attempt /\ Running \subseteq Attempt
  BY DEF Connecting, Running

(* Where nobody becomes more alone, who is alone stays single.              *)
LEMMA CalmIsSingle ==
    ASSUME AloneIsSingle,
           \A b \in Attempt : attempt'[b] = attempt[b] \/ Calmer(attempt'[b], attempt[b]),
           \A c \in Conversation : context'[c].sound => context[c].sound
    PROVE  AloneIsSingle'
<1>1. \A b \in Connecting' : /\ b \in Connecting /\ attempt'[b].alone = attempt[b].alone
                             /\ attempt[b].want = "probe" => attempt'[b].want = "probe"
  BY WasConnecting, ConnectingIsAttempt
<1> QED
  BY <1>1 DEF AloneIsSingle

(* A target that stays is as sound as it was.                               *)
LEMMA TargetsSound ==
    ASSUME TargetsStay, NEW c \in Conversation
    PROVE  context'[c].sound = context[c].sound
  BY DEF TargetsStay, SameTarget

(* An attempt that is alone has no rival and no sound target beside it.     *)
LEMMA AloneIsSingleStep ==
    ASSUME TypeInPlace, AloneIsSingle, ConnectNext \/ BrokerConnections
    PROVE  AloneIsSingle'
<1>0. ConnectTypeOK /\ AttemptsInPlace
  BY DEF TypeInPlace
<1>1. ASSUME NEW a \in Attempt, RootMoves(a) PROVE AloneIsSingle'
  <2>1. OneMoves(a) /\ Calmer(attempt'[a], attempt[a]) /\ UNCHANGED context
    BY <1>1, RootMoving
  <2> QED
    BY <2>1, CalmIsSingle DEF OneMoves
<1>2. ASSUME NEW a \in Attempt, LinkMoves(a) PROVE AloneIsSingle'
  <2>1. OneMoves(a) /\ a \in Running /\ Calmer(attempt'[a], attempt[a])
    BY <1>2, LinkMoving
  <2>2. \A b \in Attempt : attempt'[b] = attempt[b] \/ Calmer(attempt'[b], attempt[b])
    BY <2>1 DEF OneMoves
  <2>3. CASE TargetsStay
    BY <2>2, <2>3, TargetsSound, CalmIsSingle
  <2>4. CASE /\ context' = Adopted(a) /\ attempt[a].pc = "use" /\ attempt[a].want = "root"
             /\ attempt'[a].want = "probe"
    <3>1. a \in Connecting
      BY <2>1, <2>4 DEF Connecting
    <3>2. attempt[a].by \in Conversation
      BY <2>1, InPlaceOf DEF InPlace
    <3>3. \A b \in Connecting' : b \in Connecting /\ attempt'[b].alone = attempt[b].alone
      BY <2>2, WasConnecting, ConnectingIsAttempt
    <3>4. \A b, d \in Connecting' : attempt'[b].alone => b = d
      BY <3>3 DEF AloneIsSingle
    <3>5. \A c \in Conversation : context[c].sound = FALSE \/ ~context[c].sound
      BY <2>4, <3>1 DEF AloneIsSingle
    <3>6. ASSUME NEW c \in Conversation, context'[c].sound
          PROVE  \A b \in Connecting' : attempt'[b].want = "probe"
      <4>1. c = attempt[a].by
        BY <1>0, <2>4, <3>2, <3>5, <3>6, AdoptedTarget
      <4>2. context'[c].sound = attempt[a].alone
        BY <1>0, <2>4, <3>2, <4>1, AdoptedTarget
      <4>3. \A b \in Connecting' : b = a
        BY <3>1, <3>3, <3>6, <4>2 DEF AloneIsSingle
      <4> QED
        BY <2>4, <4>3
    <3> QED
      BY <3>4, <3>6 DEF AloneIsSingle
  <2> QED
    BY <1>2, <2>3, <2>4, LinkMoving
<1>3. ASSUME NEW a \in Attempt, NEW c \in Conversation, Use(a, c) PROVE AloneIsSingle'
  <2>1. OneMoves(a) /\ attempt'[a].want = "work" /\ UNCHANGED context
    BY <1>0, <1>3, UseIsMade
  <2>2. Calmer(attempt'[a], attempt[a])
    BY <2>1 DEF Calmer
  <2> QED
    BY <2>1, <2>2, CalmIsSingle DEF OneMoves
<1>4. ASSUME NEW a \in Attempt, NEW c \in Conversation, NEW auth \in Auth, Connect(a, c, auth)
      PROVE  AloneIsSingle'
  <2>1. \A b \in Attempt \ {a} :
                 \/ attempt'[b] = attempt[b] /\ b \notin Connecting
                 \/ /\ Disturbed(attempt'[b], attempt[b]) /\ attempt'[b].alone = FALSE
                    /\ b \in Connecting
    BY <1>0, <1>4, ConnectRow
  <2>2. attempt'[a].alone => Connecting = {}
    BY <1>0, <1>4, ConnectRow
  <2>3. NoneSound
    BY <1>0, <1>4, ConnectRow
  <2>4. \A b \in Connecting' \ {a} : b \in Connecting /\ attempt'[b].alone = FALSE
    BY <2>1 DEF Connecting, Running
  <2>5. \A b, d \in Connecting' : attempt'[b].alone => b = d
    BY <2>2, <2>4
  <2>6. \A k \in Conversation : ~context'[k].sound
    BY <2>3 DEF NoneSound
  <2> QED
    BY <2>5, <2>6 DEF AloneIsSingle
<1>5. ASSUME NEW e \in EndpointId, ConnectionLost(e) PROVE AloneIsSingle'
  BY <1>5, CalmIsSingle DEF ConnectionLost
<1>6. ASSUME BrokerConnections PROVE AloneIsSingle'
  <2>1. \A c \in Conversation : ~context'[c].sound
    BY <1>0, <1>6, RestartRow DEF NoneSound
  <2> QED
    BY <1>6, <2>1, RestartCalm, CalmIsSingle
<1> QED
  BY <1>1, <1>2, <1>3, <1>4, <1>5, <1>6, Steps

(* What an attempt that is alone has ensured.                               *)
HasEnsured(a) ==
    LET t == attempt[a]
    IN  /\ t.pc = "add" => \A r \in endpoints : r.auth # t.auth
        /\ t.pc = "create" => \A r \in environments : r.endpoint # t.endpoint
        /\ t.pc = "rotate" =>
              \A r \in endpoints : r.auth = t.auth => (r.secret = t.secret \/ r.id \in t.todo)
        /\ t.pc \in {"environments", "create"} \cup Linked =>
              \A r \in endpoints : r.id = t.endpoint => r.secret = t.secret
LEMMA EnsuredDef ==
    AloneHasEnsured <=>
        \A a \in Connecting : attempt[a].alone /\ attempt[a].want = "root" => HasEnsured(a)
  BY DEF AloneHasEnsured, HasEnsured

(* AloneHasEnsured in the next state, attempt by attempt.                   *)
LEMMA EnsuredDefNext ==
    AloneHasEnsured' <=>
        \A a \in Connecting' : attempt'[a].alone /\ attempt'[a].want = "root" => HasEnsured(a)'
  BY DEF AloneHasEnsured, HasEnsured

(* Before it has listed the endpoints an attempt has ensured nothing.       *)
LEMMA EnsuredVacuous ==
    ASSUME NEW a, attempt'[a].pc \in {"put", "list", "approve", "delete"}
    PROVE  HasEnsured(a)'
  BY DEF HasEnsured, Linked

(* What it has ensured stays while it and the store rest,                   *)
LEMMA EnsuredStays ==
    ASSUME NEW a, HasEnsured(a), UNCHANGED stored, attempt'[a].pc = attempt[a].pc,
           attempt'[a].auth = attempt[a].auth, attempt'[a].endpoint = attempt[a].endpoint,
           attempt'[a].secret = attempt[a].secret, attempt'[a].todo = attempt[a].todo
    PROVE  HasEnsured(a)'
  BY DEF HasEnsured, stored

(* and when it goes on to its connection.                                   *)
LEMMA EnsuredLinked ==
    ASSUME NEW a, HasEnsured(a), UNCHANGED endpoints,
           attempt[a].pc \in {"environments", "create"} \cup Linked, attempt'[a].pc \in Linked,
           attempt'[a].endpoint = attempt[a].endpoint, attempt'[a].secret = attempt[a].secret
    PROVE  HasEnsured(a)'
  BY DEF HasEnsured, Linked
(* Others change no rows while an attempt is alone.                         *)
LEMMA OthersEnsured ==
    ASSUME AloneHasEnsured, AloneIsSingle, NEW a \in Attempt, OneMoves(a),
           UNCHANGED stored \/ a \in Connecting,
           NEW b \in Attempt, b # a, b \in Connecting', attempt'[b].alone, attempt'[b].want = "root"
    PROVE  HasEnsured(b)'
<1>1. attempt'[b] = attempt[b]
  BY DEF OneMoves
<1>2. b \in Connecting
  BY <1>1 DEF Connecting, Running
<1>3. UNCHANGED stored
  BY <1>1, <1>2 DEF AloneIsSingle
<1>4. HasEnsured(b)
  BY <1>1, <1>2, EnsuredDef
<1> QED
  BY <1>1, <1>3, <1>4, EnsuredStays

(* It is enough to look at the attempt that moves: the others are not alone.*)
LEMMA MoveEnsured ==
    ASSUME AloneHasEnsured, AloneIsSingle, NEW a \in Attempt, OneMoves(a),
           UNCHANGED stored \/ a \in Connecting,
           a \in Connecting' /\ attempt'[a].alone /\ attempt'[a].want = "root" => HasEnsured(a)'
    PROVE  AloneHasEnsured'
<1>1. ASSUME NEW b \in Connecting', attempt'[b].alone, attempt'[b].want = "root"
      PROVE  HasEnsured(b)'
  <2>1. b \in Attempt
    BY ConnectingIsAttempt
  <2>2. CASE b = a
    BY <1>1, <2>2
  <2>3. CASE b # a
    BY <1>1, <2>1, <2>3, OthersEnsured
  <2> QED
    BY <2>2, <2>3
<1> QED
  BY <1>1, EnsuredDefNext

(* Listing the endpoints ensures those that need no rotation.               *)
LEMMA EnsureListEnsured ==
    ASSUME TypeInPlace, NEW a \in Attempt, EnsureList(a)
    PROVE  HasEnsured(a)'
<1>0. ConnectTypeOK /\ InPlace(a)
  BY InPlaceOf
<1>1. /\ SameAttempt(attempt'[a], attempt[a]) /\ UNCHANGED stored
      /\ attempt'[a].pc \in {"rotate", "add", "environments"}
  BY <1>0, EnsureListRow
<1>2. /\ attempt'[a].pc = "add" => \A r \in endpoints : r.auth # attempt[a].auth
      /\ attempt'[a].pc # "add" =>
            \E r \in endpoints : r.id = attempt'[a].endpoint /\ r.auth = attempt[a].auth
  BY <1>0, EnsureListRow
<1>3. attempt'[a].pc = "environments" =>
         \A r \in endpoints : r.auth = attempt[a].auth => r.secret = attempt[a].secret
  BY <1>0, EnsureListRow
<1>4. \A r \in endpoints : r.auth = attempt[a].auth =>
                 (r.secret = attempt[a].secret \/ r.id \in attempt'[a].todo)
  BY <1>0, EnsureListRow
<1>5. UNCHANGED endpoints /\ attempt'[a].secret = attempt[a].secret /\ attempt'[a].auth = attempt[a].auth
  BY <1>1 DEF stored, SameAttempt
<1>6. attempt'[a].pc = "environments" =>
         \A r \in endpoints' : r.id = attempt'[a].endpoint => r.secret = attempt'[a].secret
  BY <1>0, <1>2, <1>3, <1>5 DEF ConnectTypeOK
<1>7. attempt'[a].pc \notin {"create"} \cup Linked
  BY <1>1 DEF Linked
<1> QED
  BY <1>1, <1>2, <1>4, <1>5, <1>6, <1>7 DEF HasEnsured

(* A rotation ensures one more.                                             *)
LEMMA RotateEnsured ==
    ASSUME TypeInPlace, NEW a \in Attempt, Rotate(a), HasEnsured(a)
    PROVE  HasEnsured(a)'
<1>0. ConnectTypeOK /\ InPlace(a)
  BY InPlaceOf
<1>1. /\ attempt[a].pc = "rotate" /\ SameAttempt(attempt'[a], attempt[a])
      /\ attempt'[a].endpoint = attempt[a].endpoint
      /\ attempt'[a].pc \in {"rotate", "environments"}
  BY <1>0, RotateRow
<1>2. PICK s \in endpoints :
                 LET q == [s EXCEPT !.secret = attempt[a].secret]
                 IN  /\ q.id = s.id /\ q.auth = s.auth
                     /\ q.secret = attempt[a].secret
                     /\ endpoints' = (endpoints \ {s}) \cup {q}
                     /\ attempt'[a].todo = attempt[a].todo \ {s.id}
                     /\ attempt'[a].pc = "environments" => attempt[a].todo = {s.id}
  BY <1>0, RotateRow
<1> DEFINE q == [s EXCEPT !.secret = attempt[a].secret]
<1>3. /\ q.id = s.id /\ q.auth = s.auth /\ q.secret = attempt[a].secret
      /\ endpoints' = (endpoints \ {s}) \cup {q}
      /\ attempt'[a].todo = attempt[a].todo \ {s.id}
      /\ attempt'[a].pc = "environments" => attempt[a].todo = {s.id}
  BY <1>2
<1> HIDE DEF q
<1>4. attempt'[a].secret = attempt[a].secret /\ attempt'[a].auth = attempt[a].auth
  BY <1>1 DEF SameAttempt
<1>5. attempt[a].want = "root"
  BY <1>0, <1>1, WantsRoot
<1>6. \A r \in endpoints : r.auth = attempt[a].auth =>
          (r.secret = attempt[a].secret \/ r.id \in attempt[a].todo)
  BY <1>1 DEF HasEnsured
<1>7. \A r, t \in endpoints : r.id = t.id => r = t
  BY <1>0 DEF ConnectTypeOK
<1>8. \A r \in endpoints' : r.auth = attempt[a].auth =>
          (r.secret = attempt[a].secret \/ r.id \in attempt'[a].todo)
  BY <1>3, <1>6, <1>7
<1>9. ASSUME attempt'[a].pc = "environments", NEW r \in endpoints', r.id = attempt[a].endpoint
      PROVE  r.secret = attempt[a].secret
  <2>1. PICK t \in endpoints : t.id = attempt[a].endpoint /\ t.auth = attempt[a].auth
    BY <1>0, <1>1, <1>5 DEF InPlace
  <2>2. CASE r = q
    BY <1>3, <2>2
  <2>3. CASE r # q
    <3>1. r \in endpoints /\ r # s
      BY <1>3, <2>3
    <3>2. r = t
      BY <1>7, <1>9, <2>1, <3>1
    <3>3. r.id # s.id
      BY <1>7, <3>1
    <3> QED
      BY <1>3, <1>6, <1>9, <2>1, <3>1, <3>2, <3>3
  <2> QED
    BY <2>2, <2>3
<1>10. attempt'[a].pc \notin {"add", "create"} \cup Linked
  BY <1>1 DEF Linked
<1> QED
  BY <1>1, <1>4, <1>8, <1>9, <1>10 DEF HasEnsured

(* An endpoint that is added is ensured.                                    *)
LEMMA AddEndpointEnsured ==
    ASSUME TypeInPlace, NEW a \in Attempt, NEW e \in EndpointId, AddEndpoint(a, e)
    PROVE  HasEnsured(a)'
<1>0. ConnectTypeOK
  BY InPlaceOf
<1> DEFINE q == [id |-> e, auth |-> attempt[a].auth, secret |-> attempt[a].secret]
<1>1. /\ attempt'[a].pc = "environments" /\ attempt'[a].endpoint = e
      /\ \A r \in endpoints : r.id # e
      /\ endpoints' = endpoints \cup {q} /\ SameAttempt(attempt'[a], attempt[a])
  BY <1>0, AddEndpointRow
<1>2. q.secret = attempt[a].secret
  OBVIOUS
<1> HIDE DEF q
<1>3. attempt'[a].secret = attempt[a].secret
  BY <1>1 DEF SameAttempt
<1>4. \A r \in endpoints' : r.id = attempt'[a].endpoint => r.secret = attempt'[a].secret
  BY <1>1, <1>2, <1>3
<1> QED
  BY <1>1, <1>4 DEF HasEnsured

(* Every step keeps what an attempt that is alone has ensured.              *)
LEMMA AloneHasEnsuredStep ==
    ASSUME TypeInPlace, AloneIsSingle, AloneHasEnsured, ConnectNext \/ BrokerConnections
    PROVE  AloneHasEnsured'
<1>0. ConnectTypeOK /\ AttemptsInPlace /\ \A a \in Attempt : InPlace(a)
  BY DEF TypeInPlace, AttemptsInPlace
<1>1. ASSUME NEW a \in Attempt, RootMoves(a) PROVE AloneHasEnsured'
  <2>1. /\ OneMoves(a) /\ a \in Connecting /\ attempt[a].want = "root"
        /\ Calmer(attempt'[a], attempt[a])
    BY <1>1, RootMoving
  <2>2. SUFFICES ASSUME a \in Connecting', attempt'[a].alone, attempt'[a].want = "root"
                 PROVE  HasEnsured(a)'
    BY <2>1, MoveEnsured
  <2>3. HasEnsured(a)
    BY <2>1, <2>2, WasConnecting, EnsuredDef
  <2>4. attempt'[a].pc \notin Over
    BY <2>2 DEF Connecting, Running
  <2>5. CASE PutSecret(a)
    BY <1>0, <2>4, <2>5, PutSecretRow, EnsuredVacuous DEF Over
  <2>6. CASE EnsureList(a)
    BY <2>6, EnsureListEnsured
  <2>7. CASE Rotate(a)
    BY <2>3, <2>7, RotateEnsured
  <2>8. CASE EnsureEnvironment(a)
    <3>1. /\ attempt[a].pc = "environments" /\ UNCHANGED stored
          /\ SameAttempt(attempt'[a], attempt[a]) /\ attempt'[a].endpoint = attempt[a].endpoint
          /\ \/ attempt'[a].pc = "create" /\ \A r \in environments : r.endpoint # attempt[a].endpoint
             \/ attempt'[a].pc = "connect"
      BY <1>0, <2>4, <2>8, EnsureEnvironmentRow DEF IsOver
    <3>2. attempt'[a].secret = attempt[a].secret /\ UNCHANGED <<endpoints, environments>>
      BY <3>1 DEF SameAttempt, stored
    <3>3. \A r \in endpoints : r.id = attempt[a].endpoint => r.secret = attempt[a].secret
      BY <2>3, <3>1 DEF HasEnsured
    <3> QED
      BY <3>1, <3>2, <3>3 DEF HasEnsured
  <2>9. CASE GiveUp(a)
    BY <1>0, <2>4, <2>9, GiveUpRow DEF IsOver
  <2>10. ASSUME NEW e \in EndpointId, AddEndpoint(a, e) PROVE HasEnsured(a)'
    BY <2>10, AddEndpointEnsured
  <2>11. ASSUME NEW v \in EnvironmentId, CreateEnvironment(a, v) PROVE HasEnsured(a)'
    <3>1. /\ attempt[a].pc = "create" /\ UNCHANGED endpoints /\ attempt'[a].pc = "connect"
          /\ SameAttempt(attempt'[a], attempt[a]) /\ attempt'[a].endpoint = attempt[a].endpoint
      BY <1>0, <2>4, <2>11, CreateEnvironmentRow DEF IsOver
    <3>2. attempt'[a].secret = attempt[a].secret /\ attempt'[a].pc \in Linked
      BY <3>1 DEF SameAttempt, Linked
    <3> QED
      BY <2>3, <3>1, <3>2, EnsuredLinked
  <2>12. ASSUME NEW ok \in BOOLEAN, Approve(a, ok) PROVE HasEnsured(a)'
    <3>1. attempt'[a].pc \in {"list", "delete"}
      BY <1>0, <2>4, <2>12, ApproveRow DEF Over
    <3> QED
      BY <3>1, EnsuredVacuous
  <2> QED
    BY <1>1, <2>5, <2>6, <2>7, <2>8, <2>9, <2>10, <2>11, <2>12 DEF RootMoves
<1>2. ASSUME NEW a \in Attempt, LinkMoves(a) PROVE AloneHasEnsured'
  <2>1. /\ OneMoves(a) /\ a \in Running /\ Calmer(attempt'[a], attempt[a]) /\ UNCHANGED stored
    BY <1>2, LinkMoving
  <2>2. SUFFICES ASSUME a \in Connecting', attempt'[a].alone, attempt'[a].want = "root"
                 PROVE  HasEnsured(a)'
    BY <2>1, MoveEnsured
  <2>3. a \in Connecting /\ attempt[a].alone
    BY <2>1, <2>2, WasConnecting
  <2>4. attempt'[a].pc \notin Over /\ UNCHANGED endpoints
    BY <2>1, <2>2 DEF Connecting, Running, stored
  <2>5. ASSUME attempt[a].want = "root" PROVE HasEnsured(a)
    BY <2>3, <2>5, EnsuredDef
  <2>6. ASSUME Errs(attempt'[a], attempt[a]) PROVE HasEnsured(a)'
    <3>1. attempt'[a].pc \in {"approve", "delete"}
      BY <2>4, <2>6 DEF Errs, IsOver
    <3> QED
      BY <3>1, EnsuredVacuous
  <2>7. ASSUME attempt[a].pc \in Linked, attempt'[a].pc \in Linked,
               SameAttempt(attempt'[a], attempt[a]) \/ StillData(attempt'[a], attempt[a]),
               attempt'[a].endpoint = attempt[a].endpoint
        PROVE  HasEnsured(a)'
    <3>1. attempt'[a].secret = attempt[a].secret /\ attempt'[a].want = attempt[a].want
      BY <2>7 DEF SameAttempt, StillData
    <3> QED
      BY <2>2, <2>4, <2>5, <2>7, <3>1, EnsuredLinked
  <2>8. CASE StartConnect(a)
    <3>1. CASE attempt'[a].pc = "connecting" /\ StillData(attempt'[a], attempt[a])
      <4>1. attempt'[a].endpoint = attempt[a].endpoint
        BY <3>1 DEF StillData
      <4>2. attempt[a].pc = "connect"
        BY <1>0, <2>8, StartConnectRow
      <4> QED
        BY <2>7, <3>1, <4>1, <4>2 DEF Linked
    <3>2. CASE attempt'[a].pc = "use" /\ SameAttempt(attempt'[a], attempt[a])
               /\ attempt'[a].endpoint = attempt[a].endpoint
      <4>2. attempt[a].pc = "connect"
        BY <1>0, <2>8, StartConnectRow
      <4> QED
        BY <2>7, <3>2, <4>2 DEF Linked
    <3> QED
      BY <1>0, <2>6, <2>8, <3>1, <3>2, StartConnectRow
  <2>9. CASE Cut(a)
    <3>1. attempt'[a].pc = attempt[a].pc /\ NowCut(attempt'[a], attempt[a])
      BY <1>0, <2>4, <2>9, CutRow DEF Over
    <3>2. /\ attempt'[a].auth = attempt[a].auth /\ attempt'[a].endpoint = attempt[a].endpoint
          /\ attempt'[a].secret = attempt[a].secret /\ attempt'[a].todo = attempt[a].todo
          /\ attempt'[a].want = attempt[a].want
      BY <3>1 DEF NowCut
    <3> QED
      BY <2>1, <2>2, <2>5, <3>1, <3>2, EnsuredStays
  <2>10. ASSUME NEW ok \in BOOLEAN, EndConnect(a, ok) PROVE HasEnsured(a)'
    <3>1. CASE attempt'[a].pc = "use" /\ StillData(attempt'[a], attempt[a])
      <4>1. attempt'[a].endpoint = attempt[a].endpoint
        BY <3>1 DEF StillData
      <4>2. attempt[a].pc = "connecting"
        BY <1>0, <2>10, EndConnectRow
      <4> QED
        BY <2>7, <3>1, <4>1, <4>2 DEF Linked
    <3> QED
      BY <1>0, <2>6, <2>10, <3>1, EndConnectRow
  <2>11. ASSUME NEW ok \in BOOLEAN, Work(a, ok) PROVE HasEnsured(a)'
    <3>1. \/ Errs(attempt'[a], attempt[a]) \/ IsOver(attempt'[a], attempt[a])
          \/ attempt'[a].want = "probe"
      BY <1>0, <2>11, WorkRow
    <3>2. ~IsOver(attempt'[a], attempt[a])
      BY <2>4 DEF IsOver
    <3> QED
      BY <2>2, <2>6, <3>1, <3>2
  <2> QED
    BY <1>2, <2>8, <2>9, <2>10, <2>11 DEF LinkMoves
<1>3. ASSUME NEW a \in Attempt, NEW c \in Conversation, Use(a, c) PROVE AloneHasEnsured'
  BY <1>0, <1>3, UseIsMade, MoveEnsured
<1>4. ASSUME NEW a \in Attempt, NEW c \in Conversation, NEW auth \in Auth, Connect(a, c, auth)
      PROVE  AloneHasEnsured'
  <2>1. \A b \in Attempt \ {a} :
                 \/ attempt'[b] = attempt[b] /\ b \notin Connecting
                 \/ /\ Disturbed(attempt'[b], attempt[b]) /\ attempt'[b].alone = FALSE
                    /\ b \in Connecting
    BY <1>0, <1>4, ConnectRow
  <2>2. attempt'[a].pc \in {"put", "list"}
    BY <1>0, <1>4, ConnectRow
  <2>3. ASSUME NEW b \in Connecting', attempt'[b].alone PROVE HasEnsured(b)'
    <3>1. b \in Attempt
      BY ConnectingIsAttempt
    <3>2. b = a
      BY <2>1, <2>3, <3>1 DEF Connecting, Running
    <3> QED
      BY <2>2, <3>2, EnsuredVacuous
  <2> QED
    BY <2>3, EnsuredDefNext
<1>5. ASSUME NEW e \in EndpointId, ConnectionLost(e) PROVE AloneHasEnsured'
  BY <1>5 DEF ConnectionLost, stored, AloneHasEnsured, Connecting, Running
<1>6. ASSUME BrokerConnections PROVE AloneHasEnsured'
  <2>1. ASSUME NEW b \in Connecting' PROVE HasEnsured(b)'
    <3>1. b \in Attempt /\ attempt'[b].pc \notin Over \cup {"new"}
      BY <2>1 DEF Connecting, Running
    <3>2. attempt'[b].pc \in {"approve", "delete"}
      <4>1. CASE attempt'[b] = attempt[b]
                 /\ (b \notin Running \/ attempt[b].pc \in {"approve", "delete"})
        BY <3>1, <4>1 DEF Running
      <4>2. CASE Errs(attempt'[b], attempt[b])
        BY <3>1, <4>2 DEF Errs, IsOver
      <4> QED
        BY <1>0, <1>6, <3>1, <4>1, <4>2, RestartRow
    <3> QED
      BY <3>2, EnsuredVacuous
  <2> QED
    BY <2>1, EnsuredDefNext
<1> QED
  BY <1>1, <1>2, <1>3, <1>4, <1>5, <1>6, Steps

(* Who is not alone stays so, and rows are ensured once by those who are.   *)
AllAlone == \A a \in Attempt : attempt[a].alone
OnceEach ==
    /\ \A r, s \in endpoints : r.auth = s.auth => r = s
    /\ \A r, s \in environments : r.endpoint = s.endpoint => r = s
LEMMA AloneBefore ==
    ASSUME TypeInPlace, ConnectNext \/ BrokerConnections, AllAlone'
    PROVE  AllAlone
<1>0. ConnectTypeOK /\ AttemptsInPlace /\ \A a \in Attempt : InPlace(a)
  BY DEF TypeInPlace, AttemptsInPlace
<1>1. ASSUME NEW a \in Attempt, OneMoves(a), attempt'[a].alone => attempt[a].alone PROVE AllAlone
  BY <1>1 DEF AllAlone, OneMoves
<1>2. ASSUME NEW a \in Attempt, PutSecret(a) PROVE AllAlone
  BY <1>0, <1>1, <1>2, PutSecretRow DEF IsOver
<1>3. ASSUME NEW a \in Attempt, EnsureList(a) PROVE AllAlone
  BY <1>0, <1>1, <1>3, EnsureListRow, SameAlone
<1>4. ASSUME NEW a \in Attempt, Rotate(a) PROVE AllAlone
  BY <1>0, <1>1, <1>4, RotateRow, SameAlone
<1>5. ASSUME NEW a \in Attempt, NEW e \in EndpointId, AddEndpoint(a, e) PROVE AllAlone
  BY <1>0, <1>1, <1>5, AddEndpointRow, SameAlone
<1>6. ASSUME NEW a \in Attempt, EnsureEnvironment(a) PROVE AllAlone
  <2>1. OneMoves(a) /\ (SameAttempt(attempt'[a], attempt[a]) \/ IsOver(attempt'[a], attempt[a]))
    BY <1>0, <1>6, EnsureEnvironmentRow
  <2> QED
    BY <1>1, <2>1, SameAlone DEF IsOver
<1>7. ASSUME NEW a \in Attempt, NEW v \in EnvironmentId, CreateEnvironment(a, v) PROVE AllAlone
  <2>1. OneMoves(a) /\ (SameAttempt(attempt'[a], attempt[a]) \/ IsOver(attempt'[a], attempt[a]))
    BY <1>0, <1>7, CreateEnvironmentRow
  <2> QED
    BY <1>1, <2>1, SameAlone DEF IsOver
<1>8. ASSUME NEW a \in Attempt, Errs(attempt'[a], attempt[a])
      PROVE  attempt'[a].alone => attempt[a].alone
  BY <1>8 DEF Errs, IsOver, StillData
<1>9. ASSUME NEW a \in Attempt, StartConnect(a) PROVE AllAlone
  BY <1>0, <1>1, <1>8, <1>9, StartConnectRow, SameAlone
<1>10. ASSUME NEW a \in Attempt, NEW ok \in BOOLEAN, EndConnect(a, ok) PROVE AllAlone
  BY <1>0, <1>1, <1>8, <1>10, EndConnectRow, SameAlone
<1>11. ASSUME NEW a \in Attempt, NEW ok \in BOOLEAN, Approve(a, ok) PROVE AllAlone
  <2>1. OneMoves(a) /\ (attempt'[a].alone = attempt[a].alone \/ IsOver(attempt'[a], attempt[a]))
    BY <1>0, <1>11, ApproveRow, SameAlone
  <2> QED
    BY <1>1, <2>1 DEF IsOver
<1>12. ASSUME NEW a \in Attempt, NEW ok \in BOOLEAN, Work(a, ok) PROVE AllAlone
  <2>1. OneMoves(a) /\ \/ attempt'[a].alone = attempt[a].alone
                       \/ IsOver(attempt'[a], attempt[a]) \/ Errs(attempt'[a], attempt[a])
    BY <1>0, <1>12, WorkRow
  <2> QED
    BY <1>1, <1>8, <2>1 DEF IsOver
<1>13. ASSUME NEW a \in Attempt, GiveUp(a) PROVE AllAlone
  BY <1>0, <1>1, <1>13, GiveUpRow DEF IsOver
<1>14. ASSUME NEW a \in Attempt, Cut(a) PROVE AllAlone
  BY <1>0, <1>1, <1>14, CutRow, SameAlone
<1>15. ASSUME NEW a \in Attempt, NEW c \in Conversation, Use(a, c) PROVE AllAlone
  BY <1>0, <1>1, <1>15, UseIsMade, NewIsNew
<1>16. ASSUME NEW a \in Attempt, NEW c \in Conversation, NEW auth \in Auth, Connect(a, c, auth)
       PROVE  AllAlone
  <2>1. \A b \in Attempt \ {a} :
                 \/ attempt'[b] = attempt[b] /\ b \notin Connecting
                 \/ /\ Disturbed(attempt'[b], attempt[b]) /\ attempt'[b].alone = FALSE
                    /\ b \in Connecting
    BY <1>0, <1>16, ConnectRow
  <2>2. attempt[a].pc = "new"
    BY <1>0, <1>16, ConnectRow
  <2>3. attempt[a].alone
    BY <2>2, NewIsNew
  <2> QED
    BY <2>1, <2>3 DEF AllAlone
<1>17. ASSUME NEW e \in EndpointId, ConnectionLost(e) PROVE AllAlone
  BY <1>17 DEF ConnectionLost, AllAlone
<1>18. ASSUME BrokerConnections PROVE AllAlone
  <2>1. \A b \in Attempt : attempt'[b] = attempt[b] \/ Errs(attempt'[b], attempt[b])
    BY <1>0, <1>18, RestartRow
  <2> QED
    BY <1>8, <2>1 DEF AllAlone
<1> QED
  BY <1>2, <1>3, <1>4, <1>5, <1>6, <1>7, <1>9, <1>10, <1>11, <1>12, <1>13, <1>14, <1>15, <1>16,
     <1>17, <1>18 DEF ConnectNext

(* The steps that change what is stored.                                    *)
LEMMA StoredSteps ==
    ASSUME ConnectNext \/ BrokerConnections
    PROVE  \/ UNCHANGED stored
           \/ \E a \in Attempt : \/ Rotate(a) \/ \E e \in EndpointId : AddEndpoint(a, e)
                                 \/ \E v \in EnvironmentId : CreateEnvironment(a, v)
  BY ZenonT(60) DEF ConnectNext, BrokerConnections, Connect, Use, PutSecret, EnsureList, EnsureEnvironment,
         StartConnect, EndConnect, Approve, Work, GiveUp, Cut, ConnectionLost

(* No step stores the wanted environment twice.                             *)
LEMMA EnsuredOnceStep ==
    ASSUME TypeInPlace, AloneHasEnsured, EnsuredOnce, ConnectNext \/ BrokerConnections
    PROVE  EnsuredOnce'
<1>0. ConnectTypeOK /\ \A a \in Attempt : InPlace(a)
  BY DEF TypeInPlace, AttemptsInPlace
<1>1. SUFFICES ASSUME AllAlone' PROVE OnceEach'
  BY DEF EnsuredOnce, AllAlone, OnceEach
<1>2. AllAlone
  BY <1>1, AloneBefore
<1>3. OnceEach
  BY <1>2 DEF EnsuredOnce, AllAlone, OnceEach
<1>4. ASSUME NEW a \in Attempt, RootMoves(a) PROVE HasEnsured(a)
  BY <1>2, <1>4, RootMoving, EnsuredDef DEF AllAlone
<1>5. CASE UNCHANGED stored
  BY <1>3, <1>5 DEF OnceEach, stored
<1>6. ASSUME NEW a \in Attempt, Rotate(a) PROVE OnceEach'
  <2>1. UNCHANGED environments /\ \E s \in endpoints :
                 LET q == [s EXCEPT !.secret = attempt[a].secret]
                 IN  q.auth = s.auth /\ endpoints' = (endpoints \ {s}) \cup {q}
    BY <1>0, <1>6, RotateRow
  <2>2. PICK s \in endpoints :
                 LET q == [s EXCEPT !.secret = attempt[a].secret]
                 IN  q.auth = s.auth /\ endpoints' = (endpoints \ {s}) \cup {q}
    BY <2>1
  <2> DEFINE q == [s EXCEPT !.secret = attempt[a].secret]
  <2>3. q.auth = s.auth /\ endpoints' = (endpoints \ {s}) \cup {q}
    BY <2>2
  <2> HIDE DEF q
  <2> QED
    BY <1>3, <2>1, <2>3 DEF OnceEach
<1>7. ASSUME NEW a \in Attempt, NEW e \in EndpointId, AddEndpoint(a, e) PROVE OnceEach'
  <2> DEFINE q == [id |-> e, auth |-> attempt[a].auth, secret |-> attempt[a].secret]
  <2>1. /\ attempt[a].pc = "add" /\ endpoints' = endpoints \cup {q} /\ UNCHANGED environments
    BY <1>0, <1>7, AddEndpointRow
  <2>2. q.auth = attempt[a].auth
    OBVIOUS
  <2> HIDE DEF q
  <2>3. RootMoves(a)
    BY <1>7 DEF RootMoves
  <2>4. \A r \in endpoints : r.auth # attempt[a].auth
    BY <1>4, <2>1, <2>3 DEF HasEnsured
  <2> QED
    BY <1>3, <2>1, <2>2, <2>4 DEF OnceEach
<1>8. ASSUME NEW a \in Attempt, NEW v \in EnvironmentId, CreateEnvironment(a, v) PROVE OnceEach'
  <2> DEFINE q == [id |-> v, endpoint |-> attempt[a].endpoint]
  <2>1. /\ attempt[a].pc = "create" /\ environments' = environments \cup {q} /\ UNCHANGED endpoints
    BY <1>0, <1>8, CreateEnvironmentRow
  <2>2. q.endpoint = attempt[a].endpoint
    OBVIOUS
  <2> HIDE DEF q
  <2>3. RootMoves(a)
    BY <1>8 DEF RootMoves
  <2>4. \A r \in environments : r.endpoint # attempt[a].endpoint
    BY <1>4, <2>1, <2>3 DEF HasEnsured
  <2> QED
    BY <1>3, <2>1, <2>2, <2>4 DEF OnceEach
<1> QED
  BY <1>5, <1>6, <1>7, <1>8, StoredSteps

(* After a restart, connections are made without a password only.           *)
AgentLinks ==
    /\ secrets = {}
    /\ \A r \in endpoints : r.id \in connections => r.auth = "agent"
    /\ \A b \in Attempt, r \in endpoints :
          attempt[b].pc = "connecting" /\ r.id = attempt[b].endpoint => r.auth = "agent"
LostTo(a) ==
    attempt[a].alone /\ attempt[a].want = "root" /\ attempt[a].secret = a /\ a \notin secrets
LEMMA LostDef ==
    LostIsLost <=> \A a \in Connecting : LostTo(a) =>
                      attempt[a].pc \notin {"connecting", "use"} /\ AgentLinks
  BY DEF LostIsLost, LostTo, AgentLinks

(* LostIsLost in the next state, attempt by attempt.                        *)
LEMMA LostDefNext ==
    LostIsLost' <=> \A a \in Connecting' : LostTo(a)' =>
                      attempt'[a].pc \notin {"connecting", "use"} /\ AgentLinks'
  BY DEF LostIsLost, LostTo, AgentLinks

(* A step that opens no connection keeps AgentLinks.                        *)
LEMMA QuietLinks ==
    ASSUME AgentLinks, NEW a \in Attempt, OneMoves(a), attempt'[a].pc # "connecting",
           UNCHANGED <<endpoints, secrets>>, connections' \subseteq connections
    PROVE  AgentLinks'
  BY DEF AgentLinks, OneMoves

(* So does a step that sets the endpoint up,                                *)
LEMMA RootLinks ==
    ASSUME TypeInPlace, AgentLinks, NEW a \in Attempt, RootMoves(a), a \in Connecting',
           UNCHANGED secrets
    PROVE  AgentLinks' /\ attempt'[a].pc \notin {"connecting", "use"}
<1>0. ConnectTypeOK /\ AttemptsInPlace /\ \A b \in Attempt : InPlace(b)
  BY DEF TypeInPlace, AttemptsInPlace
<1>1. OneMoves(a) /\ UNCHANGED connections
  BY RootMoving
<1>2. attempt'[a].pc \notin Over
  BY DEF Connecting, Running
<1>3. CASE PutSecret(a)
  <2>1. attempt'[a].pc \notin {"connecting", "use"} /\ UNCHANGED stored
    BY <1>0, <1>3, PutSecretRow
  <2> QED
    BY <1>1, <2>1, QuietLinks DEF stored
<1>4. CASE EnsureList(a)
  <2>1. attempt'[a].pc \notin {"connecting", "use"} /\ UNCHANGED stored
    BY <1>0, <1>4, EnsureListRow
  <2> QED
    BY <1>1, <2>1, QuietLinks DEF stored
<1>5. CASE EnsureEnvironment(a)
  <2>1. attempt'[a].pc \notin {"connecting", "use"} /\ UNCHANGED stored
    BY <1>0, <1>5, EnsureEnvironmentRow
  <2> QED
    BY <1>1, <2>1, QuietLinks DEF stored
<1>6. CASE GiveUp(a)
  <2>1. attempt'[a].pc \notin {"connecting", "use"} /\ UNCHANGED stored
    BY <1>0, <1>6, GiveUpRow
  <2> QED
    BY <1>1, <2>1, QuietLinks DEF stored
<1>7. ASSUME NEW ok \in BOOLEAN, Approve(a, ok)
      PROVE  AgentLinks' /\ attempt'[a].pc \notin {"connecting", "use"}
  <2>1. attempt'[a].pc \notin {"connecting", "use"} /\ UNCHANGED stored
    BY <1>0, <1>7, ApproveRow
  <2> QED
    BY <1>1, <2>1, QuietLinks DEF stored
<1>8. ASSUME NEW v \in EnvironmentId, CreateEnvironment(a, v)
      PROVE  AgentLinks' /\ attempt'[a].pc \notin {"connecting", "use"}
  <2>1. attempt'[a].pc \notin {"connecting", "use"} /\ UNCHANGED endpoints
    BY <1>0, <1>8, CreateEnvironmentRow
  <2> QED
    BY <1>1, <2>1, QuietLinks
<1>9. ASSUME NEW e \in EndpointId, AddEndpoint(a, e)
      PROVE  AgentLinks' /\ attempt'[a].pc \notin {"connecting", "use"}
  <2> DEFINE q == [id |-> e, auth |-> attempt[a].auth, secret |-> attempt[a].secret]
  <2>1. /\ attempt'[a].pc = "environments" /\ endpoints' = endpoints \cup {q}
        /\ \A r \in endpoints : r.id # e
    BY <1>0, <1>9, AddEndpointRow
  <2>2. q.id = e
    OBVIOUS
  <2> HIDE DEF q
  <2>3. e \notin connections
    BY <1>0, <2>1 DEF AttemptsInPlace
  <2>4. \A b \in Attempt : attempt[b].pc = "connecting" => attempt[b].endpoint # e
    BY <1>0, <2>1, LinkedRuns DEF Linked
  <2>5. \A b \in Attempt : attempt'[b].pc = "connecting" =>
                              attempt[b].pc = "connecting" /\ attempt'[b].endpoint = attempt[b].endpoint
    BY <1>1, <2>1 DEF OneMoves
  <2> QED
    BY <1>1, <2>1, <2>2, <2>3, <2>4, <2>5 DEF AgentLinks
<1>10. CASE Rotate(a)
  <2>1. attempt'[a].pc \notin {"connecting", "use"}
    BY <1>0, <1>10, RotateRow
  <2>2. PICK s \in endpoints :
                 LET q == [s EXCEPT !.secret = attempt[a].secret]
                 IN  q.id = s.id /\ q.auth = s.auth /\ endpoints' = (endpoints \ {s}) \cup {q}
    BY <1>0, <1>10, RotateRow
  <2> DEFINE q == [s EXCEPT !.secret = attempt[a].secret]
  <2>3. q.id = s.id /\ q.auth = s.auth /\ endpoints' = (endpoints \ {s}) \cup {q}
    BY <2>2
  <2> HIDE DEF q
  <2>4. \A r \in endpoints' : \E t \in endpoints : t.id = r.id /\ t.auth = r.auth
    BY <2>3
  <2>5. \A b \in Attempt : attempt'[b].pc = "connecting" =>
                              attempt[b].pc = "connecting" /\ attempt'[b].endpoint = attempt[b].endpoint
    BY <1>1, <2>1 DEF OneMoves
  <2> QED
    BY <1>1, <2>1, <2>4, <2>5 DEF AgentLinks
<1> QED
  BY <1>3, <1>4, <1>5, <1>6, <1>7, <1>8, <1>9, <1>10 DEF RootMoves

(* and one at the connection.                                               *)
LEMMA LinkLinks ==
    ASSUME TypeInPlace, AgentLinks, NEW a \in Attempt, LinkMoves(a)
    PROVE  AgentLinks'
<1>0. ConnectTypeOK /\ InPlace(a)
  BY InPlaceOf
<1>1. OneMoves(a) /\ UNCHANGED <<endpoints, secrets>>
  BY LinkMoving DEF stored
<1>2. Errs(attempt'[a], attempt[a]) => attempt'[a].pc # "connecting"
  BY DEF Errs
<1>3. CASE StartConnect(a)
  <2>1. UNCHANGED connections
    BY <1>0, <1>3, StartConnectRow
  <2>2. CASE attempt'[a].pc # "connecting"
    BY <1>1, <2>1, <2>2, QuietLinks
  <2>3. CASE attempt'[a].pc = "connecting"
    <3>1. /\ \A r \in endpoints : r.id = attempt[a].endpoint => r.secret \in secrets \cup {NoSecret}
          /\ StillData(attempt'[a], attempt[a])
      BY <1>0, <1>2, <1>3, <2>3, StartConnectRow
    <3>2. attempt'[a].endpoint = attempt[a].endpoint
      BY <3>1 DEF StillData
    <3>3. \A r \in endpoints : r.id = attempt[a].endpoint => r.auth = "agent"
      BY <1>0, <3>1 DEF AgentLinks, ConnectTypeOK
    <3> QED
      BY <1>1, <2>1, <3>2, <3>3 DEF AgentLinks, OneMoves
  <2> QED
    BY <2>2, <2>3
<1>4. CASE Cut(a)
  <2>1. /\ UNCHANGED connections
        /\ \/ attempt'[a].pc = attempt[a].pc /\ NowCut(attempt'[a], attempt[a])
           \/ attempt'[a].pc = "failed"
    BY <1>0, <1>4, CutRow
  <2>2. CASE attempt'[a].pc = "failed"
    BY <1>1, <2>1, <2>2, QuietLinks
  <2>3. CASE attempt'[a].pc = attempt[a].pc /\ NowCut(attempt'[a], attempt[a])
    <3>1. attempt'[a].endpoint = attempt[a].endpoint
      BY <2>3 DEF NowCut
    <3> QED
      BY <1>1, <2>1, <2>3, <3>1 DEF AgentLinks, OneMoves
  <2> QED
    BY <2>1, <2>2, <2>3
<1>5. ASSUME NEW ok \in BOOLEAN, EndConnect(a, ok) PROVE AgentLinks'
  <2>1. /\ attempt[a].pc = "connecting"
        /\ connections' \subseteq connections \cup {attempt[a].endpoint}
    BY <1>0, <1>5, EndConnectRow
  <2>2. attempt'[a].pc # "connecting"
    BY <1>0, <1>2, <1>5, EndConnectRow
  <2> QED
    BY <1>1, <2>1, <2>2 DEF AgentLinks, OneMoves
<1>6. ASSUME NEW ok \in BOOLEAN, Work(a, ok) PROVE AgentLinks'
  <2>1. connections' \subseteq connections
    BY <1>0, <1>6, WorkRow
  <2>2. attempt'[a].pc # "connecting"
    BY <1>0, <1>2, <1>6, WorkRow
  <2> QED
    BY <1>1, <2>1, <2>2, QuietLinks
<1> QED
  BY <1>3, <1>4, <1>5, <1>6 DEF LinkMoves

(* An attempt for the root that is connecting after its step was so before, *)
(* with the same password, unless it was just given one.                    *)
LEMMA LinkKeepsSecret ==
    ASSUME TypeInPlace, NEW a \in Attempt, LinkMoves(a), a \in Connecting', attempt'[a].want = "root"
    PROVE  attempt'[a].secret = attempt[a].secret /\ attempt[a].want = "root"
<1>0. ConnectTypeOK /\ InPlace(a)
  BY InPlaceOf
<1>1. attempt'[a].pc \notin Over
  BY DEF Connecting, Running
<1>2. \/ Errs(attempt'[a], attempt[a]) \/ SameAttempt(attempt'[a], attempt[a])
      \/ StillData(attempt'[a], attempt[a]) \/ NowCut(attempt'[a], attempt[a])
  <2>1. CASE StartConnect(a)
    BY <1>0, <2>1, StartConnectRow
  <2>2. CASE Cut(a)
    BY <1>0, <1>1, <2>2, CutRow DEF Over
  <2>3. ASSUME NEW ok \in BOOLEAN, EndConnect(a, ok)
        PROVE  Errs(attempt'[a], attempt[a]) \/ StillData(attempt'[a], attempt[a])
    BY <1>0, <2>3, EndConnectRow
  <2>4. ASSUME NEW ok \in BOOLEAN, Work(a, ok) PROVE Errs(attempt'[a], attempt[a])
    <3>1. ~IsOver(attempt'[a], attempt[a])
      BY <1>1 DEF IsOver
    <3> QED
      BY <1>0, <2>4, <3>1, WorkRow
  <2> QED
    BY <2>1, <2>2, <2>3, <2>4 DEF LinkMoves
<1>3. \/ SameAttempt(attempt'[a], attempt[a]) \/ StillData(attempt'[a], attempt[a])
      \/ NowCut(attempt'[a], attempt[a])
  BY <1>1, <1>2 DEF Errs, IsOver
<1> QED
  BY <1>3 DEF SameAttempt, StillData, NowCut

(* An attempt whose password is lost stays without.                         *)
LEMMA RootKeepsSecret ==
    ASSUME TypeInPlace, NEW a \in Attempt, RootMoves(a), a \in Connecting', a \notin secrets'
    PROVE  attempt'[a].secret = attempt[a].secret /\ UNCHANGED secrets
<1>0. ConnectTypeOK /\ InPlace(a)
  BY InPlaceOf
<1>1. attempt'[a].pc \notin Over
  BY DEF Connecting, Running
<1>2. CASE PutSecret(a)
  BY <1>0, <1>1, <1>2, PutSecretRow DEF Over
<1>3. CASE EnsureList(a)
  BY <1>0, <1>3, EnsureListRow DEF SameAttempt
<1>4. CASE Rotate(a)
  <2>1. SameAttempt(attempt'[a], attempt[a]) /\ UNCHANGED secrets
    BY <1>0, <1>4, RotateRow
  <2> QED
    BY <2>1 DEF SameAttempt
<1>5. CASE EnsureEnvironment(a)
  <2>1. SameAttempt(attempt'[a], attempt[a]) /\ UNCHANGED secrets
    BY <1>0, <1>1, <1>5, EnsureEnvironmentRow DEF Over
  <2> QED
    BY <2>1 DEF SameAttempt
<1>6. CASE GiveUp(a)
  BY <1>0, <1>1, <1>6, GiveUpRow DEF Over
<1>7. ASSUME NEW e \in EndpointId, AddEndpoint(a, e)
      PROVE  attempt'[a].secret = attempt[a].secret /\ UNCHANGED secrets
  <2>1. SameAttempt(attempt'[a], attempt[a]) /\ UNCHANGED secrets
    BY <1>0, <1>7, AddEndpointRow
  <2> QED
    BY <2>1 DEF SameAttempt
<1>8. ASSUME NEW v \in EnvironmentId, CreateEnvironment(a, v)
      PROVE  attempt'[a].secret = attempt[a].secret /\ UNCHANGED secrets
  <2>1. SameAttempt(attempt'[a], attempt[a]) /\ UNCHANGED secrets
    BY <1>0, <1>1, <1>8, CreateEnvironmentRow DEF Over
  <2> QED
    BY <2>1 DEF SameAttempt
<1>9. ASSUME NEW ok \in BOOLEAN, Approve(a, ok)
      PROVE  attempt'[a].secret = attempt[a].secret /\ UNCHANGED secrets
  <2>1. /\ UNCHANGED secrets
        /\ attempt'[a].secret = attempt[a].secret \/ SameAttempt(attempt'[a], attempt[a])
    BY <1>0, <1>1, <1>9, ApproveRow DEF Over
  <2> QED
    BY <2>1 DEF SameAttempt
<1> QED
  BY <1>2, <1>3, <1>4, <1>5, <1>6, <1>7, <1>8, <1>9 DEF RootMoves

(* An attempt whose password is lost makes no connection.                   *)
LEMMA LostStartsNone ==
    ASSUME TypeInPlace, AgentLinks, AloneHasEnsured, NEW a \in Attempt, a \in Connecting, LostTo(a),
           StartConnect(a)
    PROVE  attempt'[a].pc \notin {"connecting", "use"}
<1>0. ConnectTypeOK /\ InPlace(a)
  BY InPlaceOf
<1>1. attempt[a].pc = "connect" /\ attempt[a].want = "root" /\ attempt[a].secret = a /\ secrets = {}
  BY <1>0, StartConnectRow DEF LostTo, AgentLinks
<1>2. attempt[a].auth # "agent" /\ a # NoSecret
  BY <1>0, <1>1, SecretOf
<1>3. PICK r \in endpoints : r.id = attempt[a].endpoint /\ r.auth = attempt[a].auth
  BY <1>0, <1>1, LinkedRuns DEF Linked
<1>4. r.secret = a
  <2>1. HasEnsured(a)
    BY EnsuredDef DEF LostTo
  <2> QED
    BY <1>1, <1>3, <2>1 DEF HasEnsured, Linked
<1>5. attempt[a].endpoint \notin connections
  BY <1>2, <1>3 DEF AgentLinks
<1>6. ~(r.secret \in secrets \cup {NoSecret})
  BY <1>1, <1>2, <1>4
<1>7. Errs(attempt'[a], attempt[a])
  BY <1>0, <1>3, <1>5, <1>6, StartConnectRow
<1> QED
  BY <1>7 DEF Errs, IsOver, Over

(* An attempt that has lost its password does not get through.              *)
LEMMA LostIsLostStep ==
    ASSUME TypeInPlace, AloneIsSingle, AloneHasEnsured, LostIsLost, ConnectNext \/ BrokerConnections
    PROVE  LostIsLost'
<1>0. ConnectTypeOK /\ AttemptsInPlace /\ \A b \in Attempt : InPlace(b)
  BY DEF TypeInPlace, AttemptsInPlace
<1>1. SUFFICES ASSUME NEW b \in Connecting', LostTo(b)'
               PROVE  attempt'[b].pc \notin {"connecting", "use"} /\ AgentLinks'
  BY LostDefNext
<1>2. /\ b \in Attempt /\ attempt'[b].alone /\ attempt'[b].want = "root"
      /\ attempt'[b].secret = b /\ b \notin secrets' /\ b # NoSecret
  BY <1>1, ConnectingIsAttempt, ConnectAssumption DEF LostTo
<1>3. ASSUME NEW a \in Attempt, OneMoves(a), b # a
      PROVE  attempt'[b] = attempt[b] /\ b \in Connecting
  BY <1>1, <1>2, <1>3 DEF OneMoves, Connecting, Running
<1>4. ASSUME NEW a \in Attempt, RootMoves(a)
      PROVE  attempt'[b].pc \notin {"connecting", "use"} /\ AgentLinks'
  <2>1. OneMoves(a) /\ a \in Connecting /\ Calmer(attempt'[a], attempt[a]) /\ attempt[a].want = "root"
    BY <1>4, RootMoving
  <2>2. b = a
    BY <1>2, <1>3, <2>1 DEF AloneIsSingle
  <2>3. attempt[a].alone
    BY <1>1, <1>2, <2>1, <2>2, WasConnecting
  <2>4. attempt[a].secret = a /\ UNCHANGED secrets
    BY <1>1, <1>2, <1>4, <2>2, RootKeepsSecret
  <2>5. LostTo(a)
    BY <1>2, <2>1, <2>2, <2>3, <2>4 DEF LostTo
  <2>6. AgentLinks
    BY <2>1, <2>5, LostDef
  <2> QED
    BY <1>1, <1>4, <2>2, <2>4, <2>6, RootLinks
<1>5. ASSUME NEW a \in Attempt, LinkMoves(a)
      PROVE  attempt'[b].pc \notin {"connecting", "use"} /\ AgentLinks'
  <2>1. OneMoves(a) /\ a \in Running /\ Calmer(attempt'[a], attempt[a]) /\ UNCHANGED secrets
    BY <1>5, LinkMoving
  <2>2. CASE b # a
    <3>1. attempt'[b] = attempt[b] /\ b \in Connecting
      BY <1>3, <2>1, <2>2
    <3>2. LostTo(b)
      BY <1>2, <2>1, <3>1 DEF LostTo
    <3>3. attempt[b].pc \notin {"connecting", "use"} /\ AgentLinks
      BY <3>1, <3>2, LostDef
    <3> QED
      BY <1>5, <3>1, <3>3, LinkLinks
  <2>3. CASE b = a
    <3>1. a \in Connecting /\ attempt[a].alone
      BY <1>1, <1>2, <2>1, <2>3, WasConnecting
    <3>2. attempt[a].secret = a /\ attempt[a].want = "root"
      BY <1>1, <1>2, <1>5, <2>3, LinkKeepsSecret
    <3>3. LostTo(a)
      BY <1>2, <2>1, <2>3, <3>1, <3>2 DEF LostTo
    <3>4. attempt[a].pc \notin {"connecting", "use"} /\ AgentLinks
      BY <3>1, <3>3, LostDef
    <3>5. AgentLinks'
      BY <1>5, <3>4, LinkLinks
    <3>6. CASE StartConnect(a)
      BY <2>3, <3>1, <3>3, <3>4, <3>5, <3>6, LostStartsNone
    <3>7. CASE Cut(a)
      <4>1. attempt'[a].pc = attempt[a].pc \/ attempt'[a].pc = "failed"
        BY <1>0, <3>7, CutRow
      <4> QED
        BY <2>3, <3>4, <3>5, <4>1
    <3>8. ASSUME NEW ok \in BOOLEAN, EndConnect(a, ok) PROVE FALSE
      BY <1>0, <3>4, <3>8, EndConnectRow
    <3>9. ASSUME NEW ok \in BOOLEAN, Work(a, ok) PROVE FALSE
      BY <1>0, <3>4, <3>9, WorkRow
    <3> QED
      BY <1>5, <3>6, <3>7, <3>8, <3>9 DEF LinkMoves
  <2> QED
    BY <2>2, <2>3
<1>6. ASSUME NEW a \in Attempt, NEW c \in Conversation, Use(a, c)
      PROVE  attempt'[b].pc \notin {"connecting", "use"} /\ AgentLinks'
  <2>1. /\ OneMoves(a) /\ attempt'[a].want = "work" /\ attempt'[a].pc = "connect"
        /\ UNCHANGED <<stored, secrets, connections>>
    BY <1>0, <1>6, UseIsMade
  <2>2. b # a
    BY <1>2, <2>1
  <2>3. attempt'[b] = attempt[b] /\ b \in Connecting
    BY <1>3, <2>1, <2>2
  <2>4. LostTo(b)
    BY <1>2, <2>1, <2>3 DEF LostTo
  <2>5. attempt[b].pc \notin {"connecting", "use"} /\ AgentLinks
    BY <2>3, <2>4, LostDef
  <2> QED
    BY <2>1, <2>3, <2>5, QuietLinks DEF stored
<1>7. ASSUME NEW a \in Attempt, NEW c \in Conversation, NEW auth \in Auth, Connect(a, c, auth)
      PROVE  FALSE
  <2>1. \A d \in Attempt \ {a} :
                 \/ attempt'[d] = attempt[d] /\ d \notin Connecting
                 \/ /\ Disturbed(attempt'[d], attempt[d]) /\ attempt'[d].alone = FALSE
                    /\ d \in Connecting
    BY <1>0, <1>7, ConnectRow
  <2>2. attempt'[a].secret = NoSecret
    BY <1>0, <1>7, ConnectRow
  <2>3. b = a
    BY <1>1, <1>2, <2>1 DEF Connecting, Running
  <2> QED
    BY <1>2, <2>2, <2>3
<1>8. ASSUME NEW e \in EndpointId, ConnectionLost(e)
      PROVE  attempt'[b].pc \notin {"connecting", "use"} /\ AgentLinks'
  <2>1. connections' \subseteq connections /\ UNCHANGED <<endpoints, secrets, attempt>>
    BY <1>8 DEF ConnectionLost, stored
  <2>2. b \in Connecting /\ LostTo(b)
    BY <1>1, <1>2, <2>1 DEF LostTo, Connecting, Running
  <2>3. attempt[b].pc \notin {"connecting", "use"} /\ AgentLinks
    BY <2>2, LostDef
  <2> QED
    BY <2>1, <2>3 DEF AgentLinks
<1>9. ASSUME BrokerConnections
      PROVE  attempt'[b].pc \notin {"connecting", "use"} /\ AgentLinks'
  <2>1. \A d \in Attempt : attempt'[d].pc \notin {"connecting", "use"}
    <3>1. TAKE d \in Attempt
    <3>2. CASE attempt'[d] = attempt[d]
                 /\ (d \notin Running \/ attempt[d].pc \in {"approve", "delete"})
      BY <3>2 DEF Running, Over
    <3>3. CASE Errs(attempt'[d], attempt[d])
      BY <3>3 DEF Errs
    <3> QED
      BY <1>0, <1>9, <3>2, <3>3, RestartRow
  <2>2. secrets' = {} /\ connections' = {}
    BY <1>0, <1>9, RestartRow
  <2> QED
    BY <1>2, <2>1, <2>2 DEF AgentLinks
<1> QED
  BY <1>4, <1>5, <1>6, <1>7, <1>8, <1>9, Steps

(* A conversation that is connected, and what it needs to be so again.      *)
CanReconnect(c) ==
    /\ [id |-> context[c].environment, endpoint |-> context[c].endpoint] \in environments
    /\ \E row \in endpoints : row.id = context[c].endpoint /\ row.secret \in secrets \cup {NoSecret}
LEMMA ReconnectStays ==
    ASSUME ConnectedCanReconnect, TargetsStay, UNCHANGED <<stored, secrets>>
    PROVE  ConnectedCanReconnect'
<1>1. ASSUME NEW c \in Conversation, context'[c].sound PROVE CanReconnect(c)'
  <2>1. /\ context'[c].sound = context[c].sound /\ context'[c].endpoint = context[c].endpoint
        /\ context'[c].environment = context[c].environment
    BY DEF TargetsStay, SameTarget
  <2>2. CanReconnect(c)
    BY <1>1, <2>1 DEF ConnectedCanReconnect, CanReconnect
  <2> QED
    BY <2>1, <2>2 DEF CanReconnect, stored
<1> QED
  BY <1>1 DEF ConnectedCanReconnect, CanReconnect

(* A conversation that is soundly connected can connect again after every   *)
(* step.                                                                    *)
LEMMA ReconnectStep ==
    ASSUME TypeInPlace, AloneIsSingle, AloneHasEnsured, LostIsLost, ConnectedCanReconnect,
           ConnectNext \/ BrokerConnections
    PROVE  ConnectedCanReconnect'
<1>0. ConnectTypeOK /\ AttemptsInPlace /\ \A b \in Attempt : InPlace(b)
  BY DEF TypeInPlace, AttemptsInPlace
<1>1. ASSUME NEW a \in Attempt, RootMoves(a) PROVE ConnectedCanReconnect'
  <2>1. a \in Connecting /\ attempt[a].want = "root" /\ UNCHANGED context
    BY <1>1, RootMoving
  <2>2. \A c \in Conversation : ~context'[c].sound
    BY <2>1 DEF AloneIsSingle
  <2> QED
    BY <2>2 DEF ConnectedCanReconnect
<1>2. ASSUME NEW a \in Attempt, LinkMoves(a) PROVE ConnectedCanReconnect'
  <2>1. UNCHANGED <<stored, secrets>> /\ a \in Running
    BY <1>2, LinkMoving
  <2>2. CASE TargetsStay
    BY <2>1, <2>2, ReconnectStays
  <2>3. CASE context' = Adopted(a) /\ attempt[a].pc = "use" /\ attempt[a].want = "root"
    <3>1. attempt[a].by \in Conversation
      BY <1>0, <2>1 DEF InPlace
    <3>2. a \in Connecting
      BY <2>1, <2>3 DEF Connecting
    <3>3. ASSUME NEW c \in Conversation, context'[c].sound PROVE CanReconnect(c)'
      <4>1. CASE c # attempt[a].by
        <5>1. context'[c] = context[c]
          BY <1>0, <2>3, <3>1, <4>1, AdoptedTarget
        <5>2. CanReconnect(c)
          BY <3>3, <5>1 DEF ConnectedCanReconnect, CanReconnect
        <5> QED
          BY <2>1, <5>1, <5>2 DEF CanReconnect, stored
      <4>2. CASE c = attempt[a].by
        <5>1. /\ context'[c].endpoint = attempt[a].endpoint
              /\ context'[c].environment = attempt[a].environment
              /\ context'[c].sound = attempt[a].alone
          BY <1>0, <2>3, <3>1, <4>2, AdoptedTarget
        <5>2. attempt[a].alone
          BY <3>3, <5>1
        <5>3. [id |-> attempt[a].environment, endpoint |-> attempt[a].endpoint] \in environments
          BY <1>0, <2>3 DEF InPlace, Linked
        <5>4. PICK r \in endpoints : r.id = attempt[a].endpoint
          BY <1>0, <2>3, LinkedRuns DEF Linked
        <5>5. HasEnsured(a)
          BY <2>3, <3>2, <5>2, EnsuredDef
        <5>6. r.secret = attempt[a].secret
          BY <2>3, <5>4, <5>5 DEF HasEnsured, Linked
        <5>7. attempt[a].secret \in secrets \cup {NoSecret}
          <6>1. attempt[a].secret \in {a, NoSecret}
            BY <1>0, <2>3, SecretOf
          <6>2. ~LostTo(a)
            BY <2>3, <3>2, LostDef
          <6> QED
            BY <2>3, <5>2, <6>1, <6>2 DEF LostTo
        <5> QED
          BY <2>1, <5>1, <5>3, <5>4, <5>6, <5>7 DEF CanReconnect, stored
      <4> QED
        BY <4>1, <4>2
    <3> QED
      BY <3>3 DEF ConnectedCanReconnect, CanReconnect
  <2> QED
    BY <1>2, <2>2, <2>3, LinkMoving
<1>3. ASSUME NEW a \in Attempt, NEW c \in Conversation, Use(a, c) PROVE ConnectedCanReconnect'
  BY <1>0, <1>3, UseIsMade, ContextStays, ReconnectStays
<1>4. ASSUME NEW a \in Attempt, NEW c \in Conversation, NEW auth \in Auth, Connect(a, c, auth)
      PROVE  ConnectedCanReconnect'
  <2>1. NoneSound
    BY <1>0, <1>4, ConnectRow
  <2> QED
    BY <2>1 DEF NoneSound, ConnectedCanReconnect
<1>5. ASSUME NEW e \in EndpointId, ConnectionLost(e) PROVE ConnectedCanReconnect'
  <2>1. UNCHANGED <<stored, secrets, context>>
    BY <1>5 DEF ConnectionLost
  <2> QED
    BY <1>0, <2>1, ContextStays, ReconnectStays
<1>6. ASSUME BrokerConnections PROVE ConnectedCanReconnect'
  <2>1. NoneSound
    BY <1>0, <1>6, RestartRow
  <2> QED
    BY <2>1 DEF NoneSound, ConnectedCanReconnect
<1> QED
  BY <1>1, <1>2, <1>3, <1>4, <1>5, <1>6, Steps

(* Trust only shrinks with a row that is not given any.                     *)
Setting == {"list", "rotate", "add", "environments"}
LessTrust(n, o) ==
    /\ n.trusted => o.trusted /\ n.endpoint = o.endpoint
    /\ n.trusting /\ n.pc \in Setting => o.trusting /\ o.pc \in Setting
Unshared ==
    \A a, b \in Attempt :
       attempt[a].trusted /\ attempt[b].trusted /\ attempt[a].endpoint = attempt[b].endpoint => a = b
Counted ==
    /\ IsFiniteSet(Trusting) /\ IsFiniteSet(Trusted)
    /\ unverified + Cardinality(Trusting) + Cardinality(Trusted) <= approvals
LEMMA CountedDef ==
    TrustIsCounted <=> (shared \/ (Counted /\ Unshared))
  BY DEF TrustIsCounted, Counted, Unshared

(* TrustIsCounted in the next state.                                        *)
LEMMA CountedDefNext ==
    TrustIsCounted' <=> (shared' \/ (Counted' /\ Unshared'))
  BY DEF TrustIsCounted, Counted, Unshared

(* Fewer grants of trust need no more approvals.                            *)
LEMMA CountedShrinks ==
    ASSUME KeptOK, Counted, Trusting' \subseteq Trusting, Trusted' \subseteq Trusted,
           UNCHANGED <<approvals, unverified>>
    PROVE  Counted'
<1>1. /\ IsFiniteSet(Trusting') /\ Cardinality(Trusting') <= Cardinality(Trusting)
      /\ IsFiniteSet(Trusted') /\ Cardinality(Trusted') <= Cardinality(Trusted)
  BY FS_Subset DEF Counted
<1>2. /\ Cardinality(Trusting) \in Nat /\ Cardinality(Trusted) \in Nat
      /\ Cardinality(Trusting') \in Nat /\ Cardinality(Trusted') \in Nat
  BY <1>1, FS_CardinalityType DEF Counted
<1> QED
  BY <1>1, <1>2 DEF Counted, KeptOK

(* The attempts that hold an approval they have not used.                   *)
LEMMA SettingTrusts ==
    Trusting = {a \in Attempt : attempt[a].trusting /\ attempt[a].pc \in Setting}
    /\ Trusting' = {a \in Attempt : attempt'[a].trusting /\ attempt'[a].pc \in Setting}
  BY DEF Trusting, Setting

(* A step that grants no trust keeps the count.                             *)
LEMMA LessTrustStep ==
    ASSUME KeptOK, TrustIsCounted, KeptOK', trust' \subseteq trust,
           \A b \in Attempt : LessTrust(attempt'[b], attempt[b]),
           UNCHANGED <<approvals, unverified>>, shared => shared'
    PROVE  TrustIsCounted'
<1>1. SUFFICES ASSUME ~shared' PROVE Counted' /\ Unshared'
  BY CountedDefNext
<1>2. Counted /\ Unshared
  BY <1>1, CountedDef
<1>3. Trusting' \subseteq Trusting
  BY SettingTrusts DEF LessTrust
<1>4. \A b \in Attempt : attempt'[b].trusted =>
                            attempt[b].trusted /\ attempt'[b].endpoint = attempt[b].endpoint
  BY DEF LessTrust
<1>5. Trusted' \subseteq Trusted
  BY <1>4 DEF Trusted
<1>6. Unshared'
  BY <1>2, <1>4 DEF Unshared
<1> QED
  BY <1>2, <1>3, <1>5, <1>6, CountedShrinks

(* It is enough to look at the attempt that moves.                          *)
LEMMA OneLessTrust ==
    ASSUME NEW a \in Attempt, OneMoves(a), LessTrust(attempt'[a], attempt[a])
    PROVE  \A b \in Attempt : LessTrust(attempt'[b], attempt[b])
  BY DEF OneMoves, LessTrust

(* An attempt without trust needs none.                                     *)
LEMMA NoTrust ==
    ASSUME NEW a, attempt'[a].trusted = FALSE,
           attempt'[a].trusting = FALSE \/ attempt'[a].pc \notin Setting
    PROVE  LessTrust(attempt'[a], attempt[a])
  BY DEF LessTrust

(* An attempt that is over has none.                                        *)
LEMMA OverNoTrust ==
    ASSUME NEW a, IsOver(attempt'[a], attempt[a])
    PROVE  LessTrust(attempt'[a], attempt[a])
  BY NoTrust DEF IsOver

(* Nor has one that ends with an error.                                     *)
LEMMA ErrsNoTrust ==
    ASSUME NEW a, Errs(attempt'[a], attempt[a])
    PROVE  LessTrust(attempt'[a], attempt[a])
<1>1. CASE IsOver(attempt'[a], attempt[a])
  BY <1>1, OverNoTrust
<1>2. CASE attempt'[a].pc \in {"approve", "delete"} /\ attempt'[a].trusted = FALSE
  BY <1>2, NoTrust DEF Setting
<1> QED
  BY <1>1, <1>2 DEF Errs

(* An attempt that goes on has no more trust than before.                   *)
LEMMA SameTrusts ==
    ASSUME TypeInPlace, NEW a \in Attempt, attempt[a].pc # "connecting",
           SameAttempt(attempt'[a], attempt[a]),
           attempt[a].pc \in Setting \/ attempt'[a].pc \notin Setting
    PROVE  LessTrust(attempt'[a], attempt[a])
<1>1. attempt[a].trusted = FALSE
  BY InPlaceOf, Untrusted
<1> QED
  BY <1>1 DEF SameAttempt, LessTrust

(* The approval becomes a grant for the endpoint.                           *)
LEMMA EnsureEnvironmentTrust ==
    ASSUME TypeInPlace, TrustIsCounted, NEW a \in Attempt, EnsureEnvironment(a), attempt[a].trusting
    PROVE  TrustIsCounted'
<1>0. ConnectTypeOK /\ InPlace(a) /\ KeptOK
  BY InPlaceOf
<1>1. /\ OneMoves(a) /\ attempt[a].pc = "environments" /\ UNCHANGED history
      /\ trust' = trust \cup {attempt[a].endpoint}
  BY <1>0, EnsureEnvironmentRow
<1>2. attempt'[a].pc \notin Setting
  BY <1>0, EnsureEnvironmentRow DEF Setting
<1>3. attempt[a].trusted = FALSE
  BY <1>0, <1>1, Untrusted
<1>4. attempt'[a].trusted = FALSE
  <2>1. SameAttempt(attempt'[a], attempt[a]) \/ IsOver(attempt'[a], attempt[a])
    BY <1>0, EnsureEnvironmentRow
  <2> QED
    BY <1>3, <2>1 DEF SameAttempt, IsOver
<1>5. SUFFICES ASSUME ~shared PROVE Counted' /\ Unshared'
  BY <1>1, CountedDefNext DEF history
<1>6. Counted /\ Unshared
  BY <1>5, CountedDef
<1>7. a \in Trusting /\ Trusting' = Trusting \ {a}
  BY <1>1, <1>2, SettingTrusts DEF OneMoves, Setting
<1> DEFINE e == attempt[a].endpoint
<1>8. Trusted' \subseteq Trusted \cup {e}
  BY <1>1, <1>4 DEF Trusted, OneMoves
<1>9. Unshared'
  BY <1>1, <1>4, <1>6 DEF Unshared, OneMoves
<1> HIDE DEF e
<1>10. /\ IsFiniteSet(Trusting') /\ Cardinality(Trusting') = Cardinality(Trusting) - 1
       /\ Cardinality(Trusting) \in Nat /\ Cardinality(Trusted) \in Nat
  BY <1>6, <1>7, FS_RemoveElement, FS_CardinalityType DEF Counted
<1>11. IsFiniteSet(Trusted \cup {e}) /\ Cardinality(Trusted \cup {e}) <= Cardinality(Trusted) + 1
  <2>1. IsFiniteSet(Trusted)
    BY <1>6 DEF Counted
  <2>2. /\ IsFiniteSet(Trusted \cup {e})
        /\ Cardinality(Trusted \cup {e}) = IF e \in Trusted THEN Cardinality(Trusted)
                                           ELSE Cardinality(Trusted) + 1
    BY <2>1, FS_AddElement
  <2> QED
    BY <1>10, <2>2
<1>12. IsFiniteSet(Trusted') /\ Cardinality(Trusted') <= Cardinality(Trusted \cup {e})
  BY <1>8, <1>11, FS_Subset
<1>13. Cardinality(Trusting') \in Nat /\ Cardinality(Trusted') \in Nat
       /\ Cardinality(Trusted \cup {e}) \in Nat
  BY <1>10, <1>11, <1>12, FS_CardinalityType
<1>14. unverified + Cardinality(Trusting) + Cardinality(Trusted) <= approvals
  BY <1>6 DEF Counted
<1>15. UNCHANGED <<approvals, unverified>> /\ approvals \in Nat /\ unverified \in Nat
  BY <1>0, <1>1 DEF history, KeptOK
<1>16. unverified' + Cardinality(Trusting') + Cardinality(Trusted') <= approvals'
  BY <1>10, <1>11, <1>12, <1>13, <1>14, <1>15
<1> QED
  BY <1>9, <1>10, <1>12, <1>16 DEF Counted

(* The grant becomes an unverified connection.                              *)
LEMMA EndConnectTrust ==
    ASSUME TypeInPlace, TrustIsCounted, NEW a \in Attempt, NEW ok \in BOOLEAN, EndConnect(a, ok),
           attempt[a].trusted, unverified' = unverified + 1
    PROVE  TrustIsCounted'
<1>0. ConnectTypeOK /\ InPlace(a) /\ KeptOK
  BY InPlaceOf
<1>1. /\ OneMoves(a) /\ attempt[a].pc = "connecting" /\ UNCHANGED <<approvals, shared>>
      /\ trust' = trust \ {attempt[a].endpoint}
  BY <1>0, EndConnectRow
<1>2. attempt'[a].trusted = FALSE /\ attempt'[a].pc \notin Setting
  <2>1. Errs(attempt'[a], attempt[a]) => attempt'[a].trusted = FALSE /\ attempt'[a].pc \notin Setting
    BY DEF Errs, IsOver, Setting
  <2> QED
    BY <1>0, <2>1, EndConnectRow DEF Setting
<1>3. SUFFICES ASSUME ~shared PROVE Counted' /\ Unshared'
  BY <1>1, CountedDefNext
<1>4. Counted /\ Unshared
  BY <1>3, CountedDef
<1> DEFINE e == attempt[a].endpoint
<1>5. Trusting' \subseteq Trusting
  BY <1>1, <1>2, SettingTrusts DEF OneMoves
<1>6. e \in Trusted
  <2>1. \E r \in endpoints : r.id = e
    BY <1>0, <1>1, LinkedRuns DEF Linked
  <2>2. e \in EndpointId
    BY <1>0, <2>1 DEF ConnectTypeOK, EndpointRow
  <2> QED
    BY <2>2 DEF Trusted
<1>7. Trusted' \subseteq Trusted \ {e}
  <2>1. ASSUME NEW f \in Trusted' PROVE f \in Trusted /\ f # e
    <3>1. f \in EndpointId /\ (f \in trust' \/ \E b \in Attempt : attempt'[b].trusted /\ attempt'[b].endpoint = f)
      BY <2>1 DEF Trusted
    <3>2. CASE f \in trust'
      BY <1>1, <3>1, <3>2 DEF Trusted
    <3>3. ASSUME NEW b \in Attempt, attempt'[b].trusted, attempt'[b].endpoint = f
          PROVE  f \in Trusted /\ f # e
      <4>1. b # a
        BY <1>2, <3>3
      <4>2. attempt'[b] = attempt[b]
        BY <1>1, <4>1 DEF OneMoves
      <4>3. f # e
        BY <1>4, <3>3, <4>1, <4>2 DEF Unshared
      <4> QED
        BY <3>1, <3>3, <4>2, <4>3 DEF Trusted
    <3> QED
      BY <3>1, <3>2, <3>3
  <2> QED
    BY <2>1
<1>8. Unshared'
  BY <1>1, <1>2, <1>4 DEF Unshared, OneMoves
<1> HIDE DEF e
<1>9. /\ IsFiniteSet(Trusted \ {e}) /\ Cardinality(Trusted \ {e}) = Cardinality(Trusted) - 1
      /\ Cardinality(Trusting) \in Nat /\ Cardinality(Trusted) \in Nat
  BY <1>4, <1>6, FS_RemoveElement, FS_CardinalityType DEF Counted
<1>10. /\ IsFiniteSet(Trusting') /\ Cardinality(Trusting') <= Cardinality(Trusting)
       /\ IsFiniteSet(Trusted') /\ Cardinality(Trusted') <= Cardinality(Trusted \ {e})
  BY <1>4, <1>5, <1>7, <1>9, FS_Subset DEF Counted
<1>11. Cardinality(Trusting') \in Nat /\ Cardinality(Trusted') \in Nat
  BY <1>10, FS_CardinalityType
<1>12. unverified + Cardinality(Trusting) + Cardinality(Trusted) <= approvals
  BY <1>4 DEF Counted
<1>13. UNCHANGED approvals /\ approvals \in Nat /\ unverified \in Nat
  BY <1>0, <1>1 DEF KeptOK
<1>14. unverified' + Cardinality(Trusting') + Cardinality(Trusted') <= approvals'
  BY <1>9, <1>10, <1>11, <1>12, <1>13
<1> QED
  BY <1>8, <1>10, <1>14 DEF Counted

(* An approval pays for one grant.                                          *)
LEMMA ApproveTrust ==
    ASSUME TypeInPlace, TrustIsCounted, NEW a \in Attempt, NEW ok \in BOOLEAN, Approve(a, ok),
           approvals' = approvals + 1
    PROVE  TrustIsCounted'
<1>0. ConnectTypeOK /\ InPlace(a) /\ KeptOK
  BY InPlaceOf
<1>1. /\ OneMoves(a) /\ attempt[a].pc = "approve" /\ UNCHANGED <<trust, unverified, shared>>
  BY <1>0, ApproveRow
<1>2. attempt[a].trusted = FALSE
  BY <1>0, <1>1, Untrusted
<1>3. attempt'[a].trusted = FALSE
  <2>1. attempt'[a].trusted = attempt[a].trusted \/ SameAttempt(attempt'[a], attempt[a])
        \/ IsOver(attempt'[a], attempt[a])
    BY <1>0, ApproveRow
  <2> QED
    BY <1>2, <2>1 DEF SameAttempt, IsOver
<1>4. SUFFICES ASSUME ~shared PROVE Counted' /\ Unshared'
  BY <1>1, CountedDefNext
<1>5. Counted /\ Unshared
  BY <1>4, CountedDef
<1>6. Trusting' \subseteq Trusting \cup {a}
  BY <1>1, SettingTrusts DEF OneMoves
<1>7. Trusted' \subseteq Trusted
  BY <1>1, <1>3 DEF Trusted, OneMoves
<1>8. Unshared'
  BY <1>1, <1>3, <1>5 DEF Unshared, OneMoves
<1>9. Cardinality(Trusting) \in Nat /\ Cardinality(Trusted) \in Nat
  BY <1>5, FS_CardinalityType DEF Counted
<1>10. IsFiniteSet(Trusting \cup {a}) /\ Cardinality(Trusting \cup {a}) <= Cardinality(Trusting) + 1
  BY <1>5, <1>9, FS_AddElement, SMTT(60) DEF Counted
<1>11. /\ IsFiniteSet(Trusting') /\ Cardinality(Trusting') <= Cardinality(Trusting \cup {a})
       /\ IsFiniteSet(Trusted') /\ Cardinality(Trusted') <= Cardinality(Trusted)
  BY <1>5, <1>6, <1>7, <1>10, FS_Subset DEF Counted
<1>12. Cardinality(Trusting') \in Nat /\ Cardinality(Trusted') \in Nat
       /\ Cardinality(Trusting \cup {a}) \in Nat
  BY <1>10, <1>11, FS_CardinalityType
<1>13. unverified + Cardinality(Trusting) + Cardinality(Trusted) <= approvals
  BY <1>5 DEF Counted
<1>14. UNCHANGED unverified /\ approvals \in Nat /\ unverified \in Nat
  BY <1>0, <1>1 DEF KeptOK
<1>15. unverified' + Cardinality(Trusting') + Cardinality(Trusted') <= approvals'
  BY <1>9, <1>10, <1>11, <1>12, <1>13, <1>14
<1> QED
  BY <1>8, <1>11, <1>15 DEF Counted

(* A connection takes the grant of its endpoint.                            *)
LEMMA StartConnectTrust ==
    ASSUME TypeInPlace, TypeInPlace', TrustIsCounted, NEW a \in Attempt, StartConnect(a)
    PROVE  TrustIsCounted'
<1>0. ConnectTypeOK /\ InPlace(a) /\ KeptOK /\ KeptOK'
  BY InPlaceOf, TypeParts DEF TypeInPlace, ConnectTypeOK, KeptOK
<1>1. /\ OneMoves(a) /\ attempt[a].pc = "connect" /\ UNCHANGED <<approvals, unverified>>
      /\ trust' \subseteq trust
  BY <1>0, StartConnectRow
<1>2. CASE /\ attempt'[a].pc = "use" /\ SameAttempt(attempt'[a], attempt[a]) /\ UNCHANGED shared
  <2>1. LessTrust(attempt'[a], attempt[a])
    BY <1>1, <1>2, SameTrusts DEF Setting
  <2> QED
    BY <1>0, <1>1, <1>2, <2>1, OneLessTrust, LessTrustStep
<1>3. CASE Errs(attempt'[a], attempt[a]) /\ UNCHANGED <<trust, shared>>
  BY <1>0, <1>1, <1>3, ErrsNoTrust, OneLessTrust, LessTrustStep
<1>4. CASE /\ attempt'[a].pc = "connecting" /\ StillData(attempt'[a], attempt[a]) /\ UNCHANGED trust
           /\ attempt'[a].trusted => attempt[a].endpoint \in trust
           /\ shared => shared'
           /\ attempt'[a].trusted =>
                 shared' \/ ~\E b \in Attempt : attempt[b].trusted /\ attempt[b].pc = "connecting"
                                               /\ attempt[b].endpoint = attempt[a].endpoint
  <2>1. SUFFICES ASSUME ~shared' PROVE Counted' /\ Unshared'
    BY CountedDefNext
  <2>2. Counted /\ Unshared
    BY <1>4, <2>1, CountedDef
  <2>3. attempt'[a].endpoint = attempt[a].endpoint
    BY <1>4 DEF StillData
  <2>4. Trusting' \subseteq Trusting
    BY <1>1, <1>4, SettingTrusts DEF OneMoves, Setting
  <2>5. Trusted' \subseteq Trusted
    BY <1>1, <1>4, <2>3 DEF Trusted, OneMoves
  <2>6. \A b \in Attempt : attempt[b].trusted => attempt[b].pc = "connecting"
    BY InPlaceOf DEF InPlace
  <2>7. Unshared'
    BY <1>1, <1>4, <2>1, <2>2, <2>3, <2>6 DEF Unshared, OneMoves
  <2> QED
    BY <1>0, <1>1, <2>2, <2>4, <2>5, <2>7, CountedShrinks
<1> QED
  BY <1>0, <1>2, <1>3, <1>4, StartConnectRow

(* An approval is spent once: the step of every action.                     *)
LEMMA RootTrust ==
    ASSUME TypeInPlace, TypeInPlace', TrustIsCounted, NEW a \in Attempt, RootMoves(a)
    PROVE  TrustIsCounted'
<1>0. ConnectTypeOK /\ InPlace(a) /\ KeptOK /\ KeptOK' /\ OneMoves(a)
  BY InPlaceOf, TypeParts, RootMoving DEF TypeInPlace, ConnectTypeOK, KeptOK
<1>1. SUFFICES ASSUME ~(EnsureEnvironment(a) /\ attempt[a].trusting),
                      ~(\E ok \in BOOLEAN : Approve(a, ok) /\ approvals' = approvals + 1)
               PROVE  /\ LessTrust(attempt'[a], attempt[a])
                      /\ trust' \subseteq trust /\ UNCHANGED <<approvals, unverified, shared>>
  BY <1>0, EnsureEnvironmentTrust, ApproveTrust, OneLessTrust, LessTrustStep
<1>2. CASE PutSecret(a)
  <2>1. attempt[a].pc = "put" /\ UNCHANGED <<trust, history>>
    BY <1>0, <1>2, PutSecretRow
  <2>2. attempt[a].trusted = FALSE
    BY <1>0, <2>1, Untrusted
  <2>3. attempt[a].want = "root"
    BY <1>0, <2>1, WantsRoot
  <2>4. ~attempt[a].trusting
    BY <1>0, <2>1, <2>3 DEF InPlace
  <2>5. CASE IsOver(attempt'[a], attempt[a])
    BY <2>1, <2>5, OverNoTrust DEF history
  <2>6. CASE attempt'[a].trusting = attempt[a].trusting /\ attempt'[a].trusted = attempt[a].trusted
    <3>1. attempt'[a].trusted = FALSE /\ ~attempt'[a].trusting
      BY <2>2, <2>4, <2>6
    <3>2. LessTrust(attempt'[a], attempt[a])
      BY <3>1 DEF LessTrust
    <3> QED
      BY <2>1, <3>2 DEF history
  <2> QED
    BY <1>0, <1>2, <2>5, <2>6, PutSecretRow
<1>3. CASE EnsureList(a)
  <2>1. attempt[a].pc = "list" /\ SameAttempt(attempt'[a], attempt[a]) /\ UNCHANGED <<trust, history>>
    BY <1>0, <1>3, EnsureListRow
  <2>2. LessTrust(attempt'[a], attempt[a])
    BY <2>1, SameTrusts DEF Setting
  <2> QED
    BY <2>1, <2>2 DEF history
<1>4. CASE Rotate(a)
  <2>1. attempt[a].pc = "rotate" /\ SameAttempt(attempt'[a], attempt[a]) /\ UNCHANGED <<trust, history>>
    BY <1>0, <1>4, RotateRow
  <2>2. LessTrust(attempt'[a], attempt[a])
    BY <2>1, SameTrusts DEF Setting
  <2> QED
    BY <2>1, <2>2 DEF history
<1>5. ASSUME NEW e \in EndpointId, AddEndpoint(a, e)
      PROVE  /\ LessTrust(attempt'[a], attempt[a])
             /\ trust' \subseteq trust /\ UNCHANGED <<approvals, unverified, shared>>
  <2>1. attempt[a].pc = "add" /\ SameAttempt(attempt'[a], attempt[a]) /\ UNCHANGED <<trust, history>>
    BY <1>0, <1>5, AddEndpointRow
  <2>2. LessTrust(attempt'[a], attempt[a])
    BY <2>1, SameTrusts DEF Setting
  <2> QED
    BY <2>1, <2>2 DEF history
<1>6. CASE EnsureEnvironment(a)
  <2>1. /\ attempt[a].pc = "environments" /\ UNCHANGED history
        /\ trust' = IF attempt[a].trusting THEN trust \cup {attempt[a].endpoint} ELSE trust
        /\ SameAttempt(attempt'[a], attempt[a]) \/ IsOver(attempt'[a], attempt[a])
    BY <1>0, <1>6, EnsureEnvironmentRow
  <2>2. trust' = trust
    BY <1>1, <1>6, <2>1
  <2>3. LessTrust(attempt'[a], attempt[a])
    BY <2>1, SameTrusts, OverNoTrust DEF Setting
  <2> QED
    BY <2>1, <2>2, <2>3 DEF history
<1>7. ASSUME NEW v \in EnvironmentId, CreateEnvironment(a, v)
      PROVE  /\ LessTrust(attempt'[a], attempt[a])
             /\ trust' \subseteq trust /\ UNCHANGED <<approvals, unverified, shared>>
  <2>1. /\ attempt[a].pc = "create" /\ UNCHANGED <<trust, history>>
        /\ \/ SameAttempt(attempt'[a], attempt[a]) /\ attempt'[a].pc = "connect"
           \/ IsOver(attempt'[a], attempt[a])
    BY <1>0, <1>7, CreateEnvironmentRow
  <2>2. LessTrust(attempt'[a], attempt[a])
    BY <2>1, SameTrusts, OverNoTrust DEF Setting
  <2> QED
    BY <2>1, <2>2 DEF history
<1>8. CASE GiveUp(a)
  <2>1. IsOver(attempt'[a], attempt[a]) /\ UNCHANGED <<trust, history>>
    BY <1>0, <1>8, GiveUpRow
  <2> QED
    BY <2>1, OverNoTrust DEF history
<1>9. ASSUME NEW ok \in BOOLEAN, Approve(a, ok)
      PROVE  /\ LessTrust(attempt'[a], attempt[a])
             /\ trust' \subseteq trust /\ UNCHANGED <<approvals, unverified, shared>>
  <2>1. /\ attempt[a].pc = "approve" /\ UNCHANGED <<trust, unverified, shared>>
    BY <1>0, <1>9, ApproveRow
  <2>2. approvals' # approvals + 1
    BY <1>1, <1>9
  <2>3. /\ approvals' = approvals
        /\ IsOver(attempt'[a], attempt[a]) \/ (SameAttempt(attempt'[a], attempt[a])
                                               /\ attempt'[a].pc = "delete")
    BY <1>0, <1>9, <2>2, ApproveRow
  <2>4. LessTrust(attempt'[a], attempt[a])
    BY <2>1, <2>3, SameTrusts, OverNoTrust DEF Setting
  <2> QED
    BY <2>1, <2>3, <2>4
<1> QED
  BY <1>2, <1>3, <1>4, <1>5, <1>6, <1>7, <1>8, <1>9 DEF RootMoves

(* The steps at the connection keep the count.                              *)
LEMMA LinkTrust ==
    ASSUME TypeInPlace, TypeInPlace', TrustIsCounted, NEW a \in Attempt, LinkMoves(a)
    PROVE  TrustIsCounted'
<1>0. ConnectTypeOK /\ InPlace(a) /\ KeptOK /\ KeptOK' /\ OneMoves(a)
  BY InPlaceOf, TypeParts, LinkMoving DEF TypeInPlace, ConnectTypeOK, KeptOK
<1>1. SUFFICES ASSUME ~StartConnect(a),
                      ~(\E ok \in BOOLEAN : EndConnect(a, ok) /\ attempt[a].trusted
                                            /\ unverified' = unverified + 1)
               PROVE  /\ LessTrust(attempt'[a], attempt[a])
                      /\ trust' \subseteq trust /\ UNCHANGED <<approvals, unverified, shared>>
  BY <1>0, StartConnectTrust, EndConnectTrust, OneLessTrust, LessTrustStep
<1>2. CASE Cut(a)
  <2>1. /\ UNCHANGED <<trust, history>>
        /\ \/ attempt'[a].pc = attempt[a].pc /\ NowCut(attempt'[a], attempt[a])
           \/ attempt'[a].trusting = FALSE /\ attempt'[a].trusted = FALSE
    BY <1>0, <1>2, CutRow
  <2>2. CASE attempt'[a].pc = attempt[a].pc /\ NowCut(attempt'[a], attempt[a])
    BY <2>1, <2>2 DEF NowCut, LessTrust, history
  <2>3. CASE attempt'[a].trusting = FALSE /\ attempt'[a].trusted = FALSE
    BY <2>1, <2>3, NoTrust DEF history
  <2> QED
    BY <2>1, <2>2, <2>3
<1>3. ASSUME NEW ok \in BOOLEAN, EndConnect(a, ok)
      PROVE  /\ LessTrust(attempt'[a], attempt[a])
             /\ trust' \subseteq trust /\ UNCHANGED <<approvals, unverified, shared>>
  <2>1. /\ UNCHANGED <<approvals, shared>> /\ trust' = trust \ {attempt[a].endpoint}
    BY <1>0, <1>3, EndConnectRow
  <2>2. ~(attempt[a].trusted /\ unverified' = unverified + 1)
    BY <1>1, <1>3
  <2>3. /\ unverified' = unverified
        /\ Errs(attempt'[a], attempt[a]) \/ (attempt'[a].pc = "use" /\ attempt'[a].trusted = FALSE)
    BY <1>0, <1>3, <2>2, EndConnectRow
  <2>4. LessTrust(attempt'[a], attempt[a])
    BY <2>3, ErrsNoTrust, NoTrust DEF Setting
  <2> QED
    BY <2>1, <2>3, <2>4
<1>4. ASSUME NEW ok \in BOOLEAN, Work(a, ok)
      PROVE  /\ LessTrust(attempt'[a], attempt[a])
             /\ trust' \subseteq trust /\ UNCHANGED <<approvals, unverified, shared>>
  <2>1. UNCHANGED <<trust, history>> /\ attempt[a].pc = "use"
    BY <1>0, <1>4, WorkRow
  <2>2. attempt[a].trusted = FALSE
    BY <1>0, <2>1, Untrusted
  <2>3. CASE attempt'[a].pc = "connect" /\ attempt'[a].trusted = attempt[a].trusted
    BY <2>1, <2>2, <2>3, NoTrust DEF history, Setting
  <2>4. CASE Errs(attempt'[a], attempt[a])
    BY <2>1, <2>4, ErrsNoTrust DEF history
  <2>5. CASE IsOver(attempt'[a], attempt[a])
    BY <2>1, <2>5, OverNoTrust DEF history
  <2> QED
    BY <1>0, <1>4, <2>3, <2>4, <2>5, WorkRow
<1> QED
  BY <1>1, <1>2, <1>3, <1>4 DEF LinkMoves

(* Every step keeps the count.                                              *)
LEMMA TrustIsCountedStep ==
    ASSUME TypeInPlace, TrustIsCounted, ConnectNext \/ BrokerConnections
    PROVE  TrustIsCounted'
<1>0. TypeInPlace' /\ KeptOK /\ KeptOK' /\ ConnectTypeOK /\ AttemptsInPlace
  BY ConnectTypeStep, TypeParts DEF TypeInPlace, ConnectTypeOK, KeptOK
<1>1. ASSUME NEW a \in Attempt, RootMoves(a) PROVE TrustIsCounted'
  BY <1>0, <1>1, RootTrust
<1>2. ASSUME NEW a \in Attempt, LinkMoves(a) PROVE TrustIsCounted'
  BY <1>0, <1>2, LinkTrust
<1>3. ASSUME NEW a \in Attempt, NEW c \in Conversation, Use(a, c) PROVE TrustIsCounted'
  <2>1. /\ OneMoves(a) /\ UNCHANGED <<trust, history>>
        /\ attempt'[a].trusting = FALSE /\ attempt'[a].trusted = FALSE
    BY <1>0, <1>3, UseIsMade
  <2>2. \A b \in Attempt : LessTrust(attempt'[b], attempt[b])
    BY <2>1, NoTrust, OneLessTrust
  <2> QED
    BY <1>0, <2>1, <2>2, LessTrustStep DEF history
<1>4. ASSUME NEW a \in Attempt, NEW c \in Conversation, NEW auth \in Auth, Connect(a, c, auth)
      PROVE  TrustIsCounted'
  <2>1. /\ UNCHANGED <<trust, history>>
        /\ attempt'[a].trusting = FALSE /\ attempt'[a].trusted = FALSE
        /\ \A b \in Attempt \ {a} : attempt'[b] = attempt[b] \/ Disturbed(attempt'[b], attempt[b])
    BY <1>0, <1>4, ConnectRow
  <2>2. \A b \in Attempt : LessTrust(attempt'[b], attempt[b])
    BY <2>1 DEF Disturbed, LessTrust
  <2> QED
    BY <1>0, <2>1, <2>2, LessTrustStep DEF history
<1>5. ASSUME NEW e \in EndpointId, ConnectionLost(e) PROVE TrustIsCounted'
  <2>1. UNCHANGED <<trust, history, attempt>>
    BY <1>5 DEF ConnectionLost
  <2>2. \A b \in Attempt : LessTrust(attempt'[b], attempt[b])
    BY <2>1 DEF LessTrust
  <2> QED
    BY <1>0, <2>1, <2>2, LessTrustStep DEF history
<1>6. ASSUME BrokerConnections PROVE TrustIsCounted'
  <2>1. /\ trust' = {} /\ UNCHANGED history
        /\ \A b \in Attempt : attempt'[b] = attempt[b] \/ Errs(attempt'[b], attempt[b])
    BY <1>0, <1>6, RestartRow
  <2>2. ASSUME NEW b \in Attempt PROVE LessTrust(attempt'[b], attempt[b])
    <3>1. CASE attempt'[b] = attempt[b]
      BY <3>1 DEF LessTrust
    <3> QED
      BY <2>1, <3>1, ErrsNoTrust
  <2> QED
    BY <1>0, <2>1, <2>2, LessTrustStep DEF history
<1> QED
  BY <1>1, <1>2, <1>3, <1>4, <1>5, <1>6, Steps

(* The inductive invariant of connecting, its start, and what it says.      *)
LEMMA ConnectInvStep ==
    ASSUME ConnectInv, ConnectNext \/ BrokerConnections
    PROVE  ConnectInv'
<1>1. TypeInPlace
  BY DEF ConnectInv, TypeInPlace
<1>2. /\ SecretIsHeld /\ AloneIsSingle /\ AloneHasEnsured /\ LostIsLost /\ TrustIsCounted
      /\ EnsuredOnce /\ ConnectedCanReconnect
  BY DEF ConnectInv
<1>3. TypeInPlace'
  BY <1>1, ConnectTypeStep
<1>4. SecretIsHeld'
  BY <1>1, <1>2, SecretIsHeldStep
<1>5. AloneIsSingle' /\ AloneHasEnsured'
  BY <1>1, <1>2, AloneIsSingleStep, AloneHasEnsuredStep
<1>6. LostIsLost'
  BY <1>1, <1>2, LostIsLostStep
<1>7. TrustIsCounted'
  BY <1>1, <1>2, TrustIsCountedStep
<1>8. EnsuredOnce' /\ ConnectedCanReconnect'
  BY <1>1, <1>2, EnsuredOnceStep, ReconnectStep
<1> QED
  BY <1>3, <1>4, <1>5, <1>6, <1>7, <1>8 DEF ConnectInv, TypeInPlace

(* Stuttering keeps ConnectInv.                                             *)
LEMMA ConnectInvStutters ==
    ASSUME ConnectInv, UNCHANGED connectVars
    PROVE  ConnectInv'
<1>1. ConnectTypeOK' /\ AttemptsInPlace' /\ SecretIsHeld'
  BY DEF ConnectInv, connectVars, ConnectTypeOK, AttemptsInPlace, InPlace, SecretIsHeld, Running
<1>2. AloneIsSingle' /\ AloneHasEnsured' /\ LostIsLost'
  BY DEF ConnectInv, connectVars, AloneIsSingle, AloneHasEnsured, LostIsLost, Connecting, Running
<1>3. TrustIsCounted'
  BY DEF ConnectInv, connectVars, TrustIsCounted, Trusting, Trusted
<1>4. EnsuredOnce' /\ ConnectedCanReconnect'
  BY DEF ConnectInv, connectVars, EnsuredOnce, ConnectedCanReconnect
<1> QED
  BY <1>1, <1>2, <1>3, <1>4 DEF ConnectInv

(* No attempt has begun at first.                                           *)
LEMMA ConnectInitially ==
    ConnectInit => ConnectInv
<1> SUFFICES ASSUME ConnectInit PROVE ConnectInv
  OBVIOUS
<1>1. /\ \A a \in Attempt : attempt[a] = NewAttempt
      /\ \A c \in Conversation : context[c] = Local
  BY DEF ConnectInit
<1>2. NewAttempt \in AttemptRow /\ Local \in ContextRow
  BY DEF NewAttempt, Local, AttemptRow, ContextRow, AttemptPc, NoId
<1>3. ConnectTypeOK
  <2>1. attempt \in [Attempt -> AttemptRow] /\ context \in [Conversation -> ContextRow]
    BY <1>2 DEF ConnectInit
  <2>2. \A a \in Attempt : attempt[a].pc \notin Linked
    BY <1>1 DEF NewAttempt, Linked
  <2>3. \A c \in Conversation : context[c].mode = "local" /\ context[c].endpoint = NoId
    BY <1>1 DEF Local
  <2>4. faults \in 0..MaxFaults
    BY ConnectAssumption DEF ConnectInit
  <2> QED
    BY <2>1, <2>2, <2>3, <2>4 DEF ConnectTypeOK, ConnectInit
<1>4. Running = {} /\ Connecting = {}
  BY <1>1 DEF Running, Connecting, NewAttempt
<1>5. AttemptsInPlace
  <2>1. ASSUME NEW a \in Attempt PROVE InPlace(a)
    <3>1. attempt[a] = NewAttempt /\ a \notin Running
      BY <1>1, <1>4
    <3>2. /\ NewAttempt.pc = "new" /\ NewAttempt.want = "none" /\ ~NewAttempt.trusted
          /\ NewAttempt.secret = NoSecret
      BY DEF NewAttempt
    <3> QED
      BY <3>1, <3>2 DEF InPlace, Over, Linked
  <2>2. \A c \in Conversation : context[c].mode = "local" /\ ~context[c].sound
    BY <1>1 DEF Local
  <2> QED
    BY <2>1, <2>2 DEF AttemptsInPlace, ConnectInit
<1>6. SecretIsHeld /\ AloneIsSingle /\ AloneHasEnsured /\ LostIsLost
  <2>1. \A c \in Conversation : ~context[c].sound
    BY <1>1 DEF Local
  <2> QED
    BY <1>4, <2>1 DEF SecretIsHeld, AloneIsSingle, AloneHasEnsured, LostIsLost, ConnectInit
<1>7. TrustIsCounted
  <2>1. Trusting = {} /\ Trusted = {}
    BY <1>1 DEF Trusting, Trusted, NewAttempt, ConnectInit
  <2>2. IsFiniteSet({}) /\ Cardinality({}) = 0
    BY FS_EmptySet
  <2>3. IsFiniteSet(Trusting) /\ IsFiniteSet(Trusted)
    BY <2>1, <2>2
  <2>4. Cardinality(Trusting) = 0 /\ Cardinality(Trusted) = 0
    BY <2>1, <2>2
  <2>5. unverified + Cardinality(Trusting) + Cardinality(Trusted) <= approvals
    BY <2>4 DEF ConnectInit
  <2>6. \A a \in Attempt : ~attempt[a].trusted
    BY <1>1 DEF NewAttempt
  <2> QED
    BY <2>3, <2>5, <2>6 DEF TrustIsCounted
<1>8. EnsuredOnce /\ ConnectedCanReconnect
  BY <1>5, <1>1 DEF EnsuredOnce, ConnectedCanReconnect, ConnectInit, Local
<1> QED
  BY <1>3, <1>5, <1>6, <1>7, <1>8 DEF ConnectInv

(* The invariant implies what is promised of the connections.               *)
LEMMA ConnectInvImplies ==
    ASSUME ConnectInv
    PROVE  ConnectTypeOK /\ NoPasswordLeft /\ ConnectingIsOnce /\ ConnectedCanReconnect
<1>1. NoPasswordLeft
  <2>1. SUFFICES ASSUME NEW a \in secrets
                 PROVE  a \in Running \/ attempt[a].pc = "ok" \/ ~attempt[a].waited
    BY DEF NoPasswordLeft
  <2>2. a \in Attempt
    BY DEF ConnectInv, ConnectTypeOK
  <2>3. CASE attempt[a].pc \notin Over /\ attempt[a].secret = a
    <3>1. TypeInPlace
      BY DEF ConnectInv, TypeInPlace
    <3>2. attempt[a].pc # "new"
      BY <2>2, <2>3, <3>1, NewIsNew, ConnectAssumption
    <3> QED
      BY <2>2, <2>3, <3>2 DEF Running
  <2> QED
    BY <2>3 DEF ConnectInv, SecretIsHeld
<1>2. TrustIsSpent
  <2>1. CASE ~shared
    <3>1. /\ IsFiniteSet(Trusting) /\ IsFiniteSet(Trusted)
          /\ unverified + Cardinality(Trusting) + Cardinality(Trusted) <= approvals
      BY <2>1 DEF ConnectInv, TrustIsCounted
    <3>2. Cardinality(Trusting) \in Nat /\ Cardinality(Trusted) \in Nat
      BY <3>1, FS_CardinalityType
    <3>3. unverified \in Nat /\ approvals \in Nat
      BY DEF ConnectInv, ConnectTypeOK
    <3> QED
      BY <3>1, <3>2, <3>3 DEF TrustIsSpent
  <2> QED
    BY <2>1 DEF TrustIsSpent
<1> QED
  BY <1>1, <1>2 DEF ConnectInv, ConnectingIsOnce

-----------------------------------------------------------------------------
(***************************************************************************)
(* The clients together.  The three invariants share no variable: a step   *)
(* moves one of them, or, when the broker restarts, each by its own part.  *)
(***************************************************************************)
ClientsInv == LeaseInv /\ InputInv /\ ConnectInv /\ InstallInv

(* A step of somebody else leaves the leases and their writes as they are.  *)
LEMMA LeaseStutters ==
    ASSUME LeaseInv, InputInv, UNCHANGED leaseVars
    PROVE  LeaseInv' /\ InputInv'
<1>1. LeaseTypeOK' /\ IsFiniteSet(leases)'
  BY DEF LeaseInv, LeaseTypeOK, leaseVars
<1>2. GrantedIsLatest' /\ StoringIsNext' /\ WriteIsHeld' /\ LeaseIsRespected'
  BY DEF LeaseInv, leaseVars, GrantedIsLatest, StoringIsNext, WriteIsHeld, LeaseIsRespected,
         Granted, Storing, get_for_session
<1>3. DataIsOnce' /\ AloneHasBuffer' /\ RepliesAreTrue' /\ ResolvedHasAnswer'
  BY DEF InputInv, leaseVars, DataIsOnce, AloneHasBuffer, RepliesAreTrue, ResolvedHasAnswer,
         InTmux, Given
<1> QED
  BY <1>1, <1>2, <1>3 DEF LeaseInv, InputInv

(* The invariant of the clients holds at the start and is kept by a step.   *)
LEMMA ClientsInitially == ClientsInit => ClientsInv
  BY LeaseInitially, InputInitially, ConnectInitially, InstallInitially DEF ClientsInit, ClientsInv

(* Every step of the composed system keeps the three invariants.            *)
LEMMA ClientsStep == ClientsInv /\ [ClientsNext]_clientVars => ClientsInv'
<1> SUFFICES ASSUME ClientsInv, [ClientsNext]_clientVars PROVE ClientsInv'
  OBVIOUS
<1>0. LeaseInv /\ InputInv /\ ConnectInv /\ InstallInv
  BY DEF ClientsInv
<1>1. CASE Writing
  <2>1. LeaseNext /\ UNCHANGED connectVars /\ UNCHANGED installVars
    BY <1>1 DEF Writing
  <2> QED
    BY <1>0, <2>1, LeaseInvStep, InputInvStep, ConnectInvStutters, InstallInvStep DEF ClientsInv
<1>2. CASE Conversing
  <2>1. ConnectNext /\ (ProbeTool \/ UNCHANGED installVars) /\ UNCHANGED leaseVars
    BY <1>2 DEF Conversing
  <2> QED
    BY <1>0, <2>1, LeaseStutters, ConnectInvStep, InstallInvStep DEF ClientsInv
<1>3. CASE Installing
  <2>1. InstallNext /\ UNCHANGED leaseVars /\ UNCHANGED connectVars
    BY <1>3 DEF Installing
  <2> QED
    BY <1>0, <2>1, LeaseStutters, ConnectInvStutters, InstallInvStep DEF ClientsInv
<1>4. CASE BrokerRestart
  <2>1. BrokerLeases /\ BrokerConnections /\ BrokerInstall
    BY <1>4 DEF BrokerRestart
  <2> QED
    BY <1>0, <2>1, LeaseInvStep, InputInvStep, ConnectInvStep, InstallInvStep DEF ClientsInv
<1>5. CASE UNCHANGED clientVars
  <2>1. UNCHANGED leaseVars /\ UNCHANGED connectVars /\ UNCHANGED installVars
    BY <1>5 DEF clientVars
  <2> QED
    BY <1>0, <2>1, LeaseStutters, ConnectInvStutters, InstallInvStep DEF ClientsInv
<1> QED
  BY <1>1, <1>2, <1>3, <1>4, <1>5 DEF ClientsNext

(* Every behaviour of the clients and the broker keeps them.                *)
LEMMA ClientsInvHolds == ClientsSpec => []ClientsInv
  BY ClientsInitially, ClientsStep, PTL DEF ClientsSpec

(* The state of every client of the broker is always well formed.           *)
THEOREM ClientsTypeCorrect == ClientsSpec => []ClientsTypeOK
<1>1. ClientsInv => ClientsTypeOK
  BY ConnectInvImplies, InstallInvImplies DEF ClientsInv, ClientsTypeOK, LeaseInv
<1> QED
  BY <1>1, ClientsInvHolds, PTL

(* A lease granted without force keeps the input of everybody else out for  *)
(* its time, whatever number of clients acquires, renews and writes.        *)
THEOREM LeasesAreRespected == ClientsSpec => []LeaseIsRespected
<1>1. ClientsInv => LeaseIsRespected
  BY DEF ClientsInv, LeaseInv
<1> QED
  BY <1>1, ClientsInvHolds, PTL

(* Input reaches the shell once, as its sender is told, however the writes  *)
(* overlap on the buffer of the tmux handle.                                *)
THEOREM InputsAreFaithful == ClientsSpec => []InputIsFaithful
<1>1. ClientsInv => InputIsFaithful
  BY InputInvImplies DEF ClientsInv
<1> QED
  BY <1>1, ClientsInvHolds, PTL

(* A conversation whose connection was made undisturbed can connect again:  *)
(* the rows and the password it needs are there.                            *)
THEOREM ConnectedStaysReconnectable == ClientsSpec => []ConnectedCanReconnect
<1>1. ClientsInv => ConnectedCanReconnect
  BY ConnectInvImplies DEF ClientsInv
<1> QED
  BY <1>1, ClientsInvHolds, PTL

(* Ensuring an endpoint is idempotent, and an approval of a host key is     *)
(* spent on one connection.                                                 *)
THEOREM ConnectsOnce == ClientsSpec => []ConnectingIsOnce
<1>1. ClientsInv => ConnectingIsOnce
  BY ConnectInvImplies DEF ClientsInv
<1> QED
  BY <1>1, ClientsInvHolds, PTL

(* Neither a password in the broker's store nor a terminal with a running   *)
(* sudo outlives the call that made it.                                     *)
THEOREM LeavesNothingBehind == ClientsSpec => []NothingLeftBehind
<1>1. ClientsInv => NothingLeftBehind
  BY ConnectInvImplies, InstallInvImplies DEF ClientsInv, NothingLeftBehind
<1> QED
  BY <1>1, ClientsInvHolds, PTL

(* The installer tells the truth: tmux is there when the context says so,   *)
(* and the user is asked for no password that sudo did not ask for.         *)
THEOREM InstallerIsTruthful == ClientsSpec => []InstallIsTruthful
<1>1. ClientsInv => InstallIsTruthful
  BY InstallInvImplies DEF ClientsInv
<1> QED
  BY <1>1, ClientsInvHolds, PTL
===============================================================================
