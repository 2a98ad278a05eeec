---------------------------- MODULE FileSyncProofs ----------------------------
(***************************************************************************)
(* Proofs, for every set of paths, texts, edits and threads and any number *)
(* of calls, outside changes and failures, that FileSync keeps its types,  *)
(* applies what was approved, guards its writes and lets the mirror drift  *)
(* from the stored manifest only for a known cause.                        *)
(*                                                                         *)
(* An action is used through an "effect" lemma: which thread it moves,     *)
(* what that thread does next and what becomes of the others.  The         *)
(* conjuncts of FileInv are proved from the effects alone.                 *)
(***************************************************************************)
EXTENDS FileSync, TLAPS

(* The rows the actions make of a worker's, field by field.                 *)
ReadBack(o, text) == [o EXCEPT !.pc = "readback", !.base = text]
LEMMA ReadBackRow ==
    ASSUME NEW o \in WorkRow, NEW text \in Content
    PROVE  /\ ReadBack(o, text) \in WorkRow /\ ReadBack(o, text).pc = "readback"
           /\ ReadBack(o, text).base = text /\ ReadBack(o, text).path = o.path
           /\ ReadBack(o, text).previewed = o.previewed
           /\ ReadBack(o, text).expected = o.expected /\ ReadBack(o, text).alone = o.alone
  BY DEF ReadBack, WorkRow, WorkPc

(* The change is shown; it goes to the person, or is prepared at once.      *)
Shown(o, base, pc) == [o EXCEPT !.previewed = base, !.pc = pc]
LEMMA ShownRow ==
    ASSUME NEW o \in WorkRow, NEW base \in Content \cup {Missing}, NEW pc \in {"approve", "prepare"}
    PROVE  /\ Shown(o, base, pc) \in WorkRow /\ Shown(o, base, pc).pc = pc
           /\ Shown(o, base, pc).previewed = base /\ Shown(o, base, pc).path = o.path
           /\ Shown(o, base, pc).expected = o.expected /\ Shown(o, base, pc).alone = o.alone
  BY ZenonT(60) DEF Shown, WorkRow, WorkPc, Early

(* The person has approved.                                                 *)
Approved(o) == [o EXCEPT !.pc = "prepare"]
LEMMA ApprovedRow ==
    ASSUME NEW o \in WorkRow
    PROVE  /\ Approved(o) \in WorkRow /\ Approved(o).pc = "prepare"
           /\ Approved(o).previewed = o.previewed /\ Approved(o).path = o.path
           /\ Approved(o).expected = o.expected /\ Approved(o).alone = o.alone
  BY DEF Approved, WorkRow, WorkPc, Early

(* The change is prepared: its base and its guard are fixed.                *)
Prepared(o, base, guard) == [o EXCEPT !.pc = "write", !.base = base, !.guard = guard]
LEMMA PreparedRow ==
    ASSUME NEW o \in WorkRow, NEW base \in Content \cup {Missing}, NEW guard \in Content \cup {NoText}
    PROVE  /\ Prepared(o, base, guard) \in WorkRow /\ Prepared(o, base, guard).pc = "write"
           /\ Prepared(o, base, guard).base = base /\ Prepared(o, base, guard).guard = guard
           /\ Prepared(o, base, guard).path = o.path /\ Prepared(o, base, guard).change = o.change
           /\ Prepared(o, base, guard).previewed = o.previewed
           /\ Prepared(o, base, guard).expected = o.expected
           /\ Prepared(o, base, guard).alone = o.alone
  BY DEF Prepared, WorkRow, WorkPc

(* A thread at rest.                                                        *)
LEMMA NoWorkRow ==
    /\ NoWork \in WorkRow /\ NoWork.pc = "idle" /\ NoWork.path = NoText /\ NoWork.alone = TRUE
    /\ NoWork.previewed = NoText /\ NoWork.expected = NoText /\ NoWork.tool = "none"
    /\ NoWork.todo = {}
  BY DEF NoWork, WorkRow, WorkPc, Empty, NoEdit, Known, Target, Place

(* A change with target sync goes on to push the file.                      *)
ToPush(tool, p) == [NoWork EXCEPT !.pc = "scan", !.tool = tool, !.target = "sync", !.path = p]
LEMMA ToPushRow ==
    ASSUME NEW o \in WorkRow, NEW p \in Path
    PROVE  /\ ToPush(o.tool, p) \in WorkRow /\ ToPush(o.tool, p).pc = "scan"
           /\ ToPush(o.tool, p).path = p /\ ToPush(o.tool, p).previewed = NoText
  BY ZenonT(60) DEF ToPush, NoWork, WorkRow, WorkPc, Pushing, Empty, NoEdit, Known, Target

(* The text is written and the coroutine has still to record it.            *)
Wrote(tool, p, text) == [NoWork EXCEPT !.pc = "wrote", !.tool = tool, !.path = p, !.base = text]
LEMMA WroteRow ==
    ASSUME NEW o \in WorkRow, NEW p \in Path, NEW text \in Content
    PROVE  /\ Wrote(o.tool, p, text) \in WorkRow /\ Wrote(o.tool, p, text).pc = "wrote"
           /\ Wrote(o.tool, p, text).path = p /\ Wrote(o.tool, p, text).base = text
           /\ Wrote(o.tool, p, text).previewed = NoText
  BY DEF Wrote, NoWork, WorkRow, WorkPc, Empty, NoEdit, Known, Target, Place
(* A row but for alone, which a write to its path takes.                    *)
Beside(n, o) ==
    /\ n.pc = o.pc /\ n.tool = o.tool /\ n.path = o.path /\ n.change = o.change
    /\ n.expected = o.expected /\ n.previewed = o.previewed /\ n.base = o.base
    /\ n.guard = o.guard /\ n.scan = o.scan /\ n.prev = o.prev /\ n.todo = o.todo
    /\ n.alone => o.alone
Hindered(o, p) == [o EXCEPT !.alone = @ /\ o.path # p]
LEMMA HinderedRow ==
    ASSUME NEW o \in WorkRow, NEW p \in Path
    PROVE  /\ Hindered(o, p) \in WorkRow /\ Beside(Hindered(o, p), o)
           /\ Hindered(o, p).alone => o.path # p
           /\ o.path # p => Hindered(o, p) = o
<1>1. Hindered(o, p) \in WorkRow /\ Beside(Hindered(o, p), o) /\ (Hindered(o, p).alone => o.path # p)
  BY DEF Hindered, WorkRow, Beside
<1>2. ASSUME o.path # p PROVE Hindered(o, p) = o
  BY <1>2 DEF Hindered, WorkRow
<1> QED
  BY <1>1, <1>2

(* A push that another one has joined.                                      *)
Overlapped(o) == [o EXCEPT !.alone = FALSE]
LEMMA OverlappedRow ==
    ASSUME NEW o \in WorkRow
    PROVE  Overlapped(o) \in WorkRow /\ Beside(Overlapped(o), o) /\ Overlapped(o).alone = FALSE
  BY DEF Overlapped, WorkRow, Beside

(* A push that has planned; it is alone when the set S of the others is     *)
(* empty. S is a parameter, and not the Boolean, so that the provers can    *)
(* instantiate it.                                                          *)
Planned(o, scan, prev, todo, S) ==
    [o EXCEPT !.pc = "upload", !.scan = scan, !.prev = prev, !.todo = todo, !.alone = (S = {})]
LEMMA PlannedRow ==
    ASSUME NEW o \in WorkRow, NEW scan \in Known, NEW prev \in Known, NEW todo \in SUBSET Path, NEW S
    PROVE  /\ Planned(o, scan, prev, todo, S) \in WorkRow
           /\ Planned(o, scan, prev, todo, S).pc = "upload"
           /\ Planned(o, scan, prev, todo, S).scan = scan
           /\ Planned(o, scan, prev, todo, S).prev = prev
           /\ Planned(o, scan, prev, todo, S).todo = todo
           /\ Planned(o, scan, prev, todo, S).tool = o.tool
           /\ Planned(o, scan, prev, todo, S).path = o.path
           /\ Planned(o, scan, prev, todo, S).alone => S = {}
<1>1. "upload" \in WorkPc /\ (S = {}) \in BOOLEAN
  BY DEF WorkPc, Pushing
<1>2. CASE S = {}
  <2>1. Planned(o, scan, prev, todo, S) =
           [o EXCEPT !.pc = "upload", !.scan = scan, !.prev = prev, !.todo = todo, !.alone = TRUE]
    BY <1>2 DEF Planned
  <2>2. Planned(o, scan, prev, todo, S) \in WorkRow
    BY <1>1, <2>1 DEF WorkRow
  <2> QED
    BY <1>2, <2>1, <2>2 DEF WorkRow
<1>3. CASE S # {}
  <2>1. Planned(o, scan, prev, todo, S) =
           [o EXCEPT !.pc = "upload", !.scan = scan, !.prev = prev, !.todo = todo, !.alone = FALSE]
    BY <1>3 DEF Planned
  <2> QED
    BY <1>1, <1>3, <2>1 DEF WorkRow
<1> QED
  BY <1>2, <1>3

(* A push that has uploaded the file p.                                     *)
Less(o, p) == [o EXCEPT !.todo = @ \ {p}]
LEMMA LessRow ==
    ASSUME NEW o \in WorkRow, NEW p
    PROVE  /\ Less(o, p) \in WorkRow /\ Less(o, p).todo = o.todo \ {p} /\ Less(o, p).pc = o.pc
           /\ Less(o, p).tool = o.tool /\ Less(o, p).path = o.path /\ Less(o, p).scan = o.scan
           /\ Less(o, p).prev = o.prev /\ Less(o, p).alone = o.alone
  BY DEF Less, WorkRow

(* A push that has written the remote manifest.                             *)
ToSave(o) == [o EXCEPT !.pc = "save"]
LEMMA ToSaveRow ==
    ASSUME NEW o \in WorkRow
    PROVE  /\ ToSave(o) \in WorkRow /\ ToSave(o).todo = o.todo /\ ToSave(o).pc = "save"
           /\ ToSave(o).tool = o.tool /\ ToSave(o).path = o.path /\ ToSave(o).scan = o.scan
           /\ ToSave(o).prev = o.prev /\ ToSave(o).alone = o.alone
  BY DEF ToSave, WorkRow, WorkPc, Pushing

(* The type invariant in two parts, the workers and the rest.               *)
RestOK ==
    /\ disk \in [Place -> [Path -> Content \cup {Missing}]]
    /\ snapshot \in Known /\ manifest \in Known
    /\ config \in [approval : BOOLEAN, allow_unguarded_write : BOOLEAN]
    /\ calls \in 0..MaxCalls /\ changes \in 0..MaxChanges /\ failures \in 0..MaxFailures
    /\ seen \subseteq Path \X Content /\ applied \in ChangeRow /\ cause \in [Path -> Cause]
WorkOK(w) ==
    /\ worker[w].pc = "idle" <=> worker[w] = NoWork
    /\ worker[w].pc \in {"read", "readback", "wrote"} \cup Early => caller = w
    /\ worker[w].pc \in {"read", "readback", "write", "wrote"} \cup Early => worker[w].path \in Path
    /\ worker[w].pc \in {"readback", "wrote"} => worker[w].base \in Content
    /\ worker[w].pc = "write" => /\ worker[w].base # NoText
                                 /\ worker[w].change[worker[w].base] \in Content
    /\ worker[w].pc = "save" => worker[w].todo = {}
WorkersOK ==
    /\ caller \in Worker \cup {NoOne} /\ worker \in [Worker -> WorkRow]
    /\ \A w \in Worker : WorkOK(w)
    /\ caller # NoOne => worker[caller] # NoWork
LEMMA TypeIs == FileTypeOK <=> RestOK /\ WorkersOK
  BY DEF FileTypeOK, RestOK, WorkersOK, WorkOK

(* The same of the next state.                                              *)
LEMMA TypeIsNext == FileTypeOK' <=> RestOK' /\ WorkersOK'
  BY DEF FileTypeOK, RestOK, WorkersOK, WorkOK

(* How a step changes a worker: its row, or its call ends.                  *)
OneWorks(w) ==
    worker' \in [Worker -> WorkRow] /\ \A v \in Worker \ {w} : worker'[v] = worker[v]
Goes(w) == OneWorks(w) /\ caller' = caller
Ends(w) == OneWorks(w) /\ worker'[w] = NoWork /\ caller' = IF caller = w THEN NoOne ELSE caller
LEMMA DoneEnds ==
    ASSUME worker \in [Worker -> WorkRow], NEW w \in Worker, Done(w)
    PROVE  Ends(w)
  BY NoWorkRow DEF Done, Ends, OneWorks

(* A thread that moves on takes the work it is given.                       *)
LEMMA MovesGoes ==
    ASSUME worker \in [Worker -> WorkRow], NEW w \in Worker, NEW n \in WorkRow, Moves(w, n)
    PROVE  Goes(w) /\ worker'[w] = n
  BY DEF Moves, Goes, OneWorks

(* The threads keep their types when one ends.                              *)
LEMMA EndsWorkers ==
    ASSUME WorkersOK, NEW w \in Worker, Ends(w)
    PROVE  WorkersOK'
<1>1. WorkOK(w)'
  BY NoWorkRow DEF WorkOK, Ends, Early
<1>2. ASSUME NEW v \in Worker, v # w PROVE WorkOK(v)'
  <2>1. worker'[v] = worker[v] /\ WorkOK(v)
    BY <1>2 DEF Ends, OneWorks, WorkersOK
  <2>2. caller = v => caller' = v
    BY <1>2 DEF Ends
  <2> QED
    BY <2>1, <2>2 DEF WorkOK
<1>3. /\ caller' \in Worker \cup {NoOne} /\ worker' \in [Worker -> WorkRow]
      /\ caller' # NoOne => caller' = caller /\ caller # w
  BY DEF Ends, OneWorks, WorkersOK
<1>4. caller' # NoOne => worker'[caller'] # NoWork
  BY <1>3 DEF Ends, OneWorks, WorkersOK
<1> QED
  BY <1>1, <1>2, <1>3, <1>4 DEF WorkersOK

(* They keep them when one moves on to work that is well-typed.             *)
LEMMA GoesWorkers ==
    ASSUME WorkersOK, NEW w \in Worker, Goes(w), WorkOK(w)', worker'[w].pc # "idle"
    PROVE  WorkersOK'
<1>1. ASSUME NEW v \in Worker, v # w PROVE WorkOK(v)'
  <2>1. worker'[v] = worker[v] /\ WorkOK(v) /\ caller' = caller
    BY <1>1 DEF Goes, OneWorks, WorkersOK
  <2> QED
    BY <2>1 DEF WorkOK
<1>2. worker'[w] # NoWork
  BY NoWorkRow
<1>3. caller' # NoOne => worker'[caller'] # NoWork
  BY <1>2 DEF Goes, OneWorks, WorkersOK
<1> QED
  BY <1>1, <1>3 DEF WorkersOK, Goes, OneWorks

(* A text read in text mode is a content again.                             *)
LEMMA TextModeIsText ==
    ASSUME NEW content \in Content \cup {Missing}
    PROVE  /\ InTextMode(content) \in Content \cup {Missing}
           /\ content # Missing => InTextMode(content) \in Content
  BY FileAssumption DEF InTextMode

(* What each step does.                                                     *)
LEMMA TextIsText ==
    ASSUME FileTypeOK, NEW target, NEW p \in Path
    PROVE  TextAt(target, p) \in Content \cup {Missing}
<1>1. disk["local"][p] \in Content \cup {Missing}
      /\ disk[At(target)][p] \in Content \cup {Missing}
  BY DEF At, FileTypeOK, Place
<1> QED
  BY <1>1, TextModeIsText DEF TextAt

(* read_file ends at a missing file and goes on with its text otherwise.    *)
LEMMA ReadTextEffect ==
    ASSUME FileTypeOK, NEW w \in Worker, ReadText(w)
    PROVE  \/ Ends(w)
           \/ /\ Goes(w) /\ worker[w].pc = "read" /\ worker'[w].pc = "readback"
              /\ worker'[w].base \in Content /\ worker'[w].path = worker[w].path
<1> DEFINE text == TextAt(worker[w].target, worker[w].path)
<1>1. worker[w].pc = "read" /\ worker \in [Worker -> WorkRow] /\ worker[w].path \in Path
  BY DEF ReadText, FileTypeOK
<1>2. text \in Content \cup {Missing}
  BY <1>1, TextIsText
<1> HIDE DEF text
<1>3. CASE text = Missing
  BY <1>1, <1>3, DoneEnds DEF ReadText, text
<1>4. CASE text # Missing
  <2>1. Moves(w, ReadBack(worker[w], text))
    BY <1>4 DEF ReadText, ReadBack, text
  <2>2. text \in Content /\ worker[w] \in WorkRow
    BY <1>1, <1>2, <1>4
  <2>3. ReadBack(worker[w], text) \in WorkRow /\ ReadBack(worker[w], text).pc = "readback"
        /\ ReadBack(worker[w], text).base = text /\ ReadBack(worker[w], text).path = worker[w].path
    BY <2>2, ReadBackRow
  <2>4. Goes(w) /\ worker'[w] = ReadBack(worker[w], text)
    BY <1>1, <2>1, <2>3, MovesGoes
  <2> QED
    BY <1>1, <2>2, <2>3, <2>4
<1> QED
  BY <1>3, <1>4

(* A guard is a hash, or none.                                              *)
LEMMA GuardIs ==
    ASSUME FileTypeOK, NEW p \in Path, NEW base, NEW expected \in Content \cup {NoText}
    PROVE  Guard(p, base, expected) \in Content \cup {NoText}
  BY DEF Guard, FileTypeOK, Known

(* The preview ends the call, or shows a change that is acceptable and is   *)
(* guarded unless the configuration lets it pass.                           *)
LEMMA PreviewEffect ==
    ASSUME FileTypeOK, NEW w \in Worker, Preview(w)
    PROVE  LET base == TextAt(worker[w].target, worker[w].path)
           IN \/ Ends(w)
              \/ /\ Goes(w) /\ worker[w].pc = "preview" /\ worker'[w].pc \in {"approve", "prepare"}
                 /\ worker'[w].previewed = base /\ worker'[w].path = worker[w].path
                 /\ worker'[w].expected = worker[w].expected /\ worker'[w].alone = worker[w].alone
                 /\ Acceptable(worker[w], base)
                 /\ config.allow_unguarded_write \/ ~Unguarded(worker[w], base)
<1> DEFINE base == TextAt(worker[w].target, worker[w].path)
           pc == IF config.approval THEN "approve" ELSE "prepare"
<1>1. worker[w].pc = "preview" /\ worker \in [Worker -> WorkRow] /\ worker[w].path \in Path
  BY DEF Preview, FileTypeOK, Early
<1>2. base \in Content \cup {Missing} /\ pc \in {"approve", "prepare"} /\ worker[w] \in WorkRow
  BY <1>1, TextIsText
<1>3. CASE ~Acceptable(worker[w], base) \/ (Unguarded(worker[w], base) /\ ~config.allow_unguarded_write)
  BY <1>1, <1>3, DoneEnds DEF Preview
<1>4. CASE ~(~Acceptable(worker[w], base)
             \/ (Unguarded(worker[w], base) /\ ~config.allow_unguarded_write))
  <2>1. Moves(w, Shown(worker[w], base, pc))
    BY <1>4 DEF Preview, Shown
  <2> HIDE DEF base, pc
  <2>2. /\ Shown(worker[w], base, pc) \in WorkRow /\ Shown(worker[w], base, pc).pc = pc
        /\ Shown(worker[w], base, pc).previewed = base
        /\ Shown(worker[w], base, pc).path = worker[w].path
        /\ Shown(worker[w], base, pc).expected = worker[w].expected
        /\ Shown(worker[w], base, pc).alone = worker[w].alone
    BY <1>2, ShownRow
  <2>3. Goes(w) /\ worker'[w] = Shown(worker[w], base, pc)
    BY <1>1, <2>1, <2>2, MovesGoes
  <2>4. /\ Goes(w) /\ worker[w].pc = "preview" /\ worker'[w].pc \in {"approve", "prepare"}
        /\ worker'[w].previewed = base /\ worker'[w].path = worker[w].path
        /\ worker'[w].expected = worker[w].expected /\ worker'[w].alone = worker[w].alone
    BY <1>1, <1>2, <2>2, <2>3
  <2> QED
    BY <1>4, <2>4 DEF base
<1> QED
  BY <1>3, <1>4

(* The person ends the call, or the change goes on as it was shown.         *)
LEMMA ApproveEffect ==
    ASSUME FileTypeOK, NEW w \in Worker, Approve(w)
    PROVE  \/ Ends(w)
           \/ /\ Goes(w) /\ worker[w].pc = "approve" /\ worker'[w].pc = "prepare"
              /\ worker'[w].previewed = worker[w].previewed /\ worker'[w].path = worker[w].path
              /\ worker'[w].expected = worker[w].expected /\ worker'[w].alone = worker[w].alone
<1>1. worker[w].pc = "approve" /\ worker \in [Worker -> WorkRow] /\ worker[w] \in WorkRow
  BY DEF Approve, FileTypeOK
<1>2. Done(w) \/ Moves(w, Approved(worker[w]))
  BY DEF Approve, Approved
<1> QED
  BY <1>1, <1>2, DoneEnds, MovesGoes, ApprovedRow

(* The second preparation ends the call, or fixes a base and a guard that   *)
(* are acceptable now.                                                      *)
LEMMA PrepareEffect ==
    ASSUME FileTypeOK, NEW w \in Worker, Prepare(w)
    PROVE  LET base == TextAt(worker[w].target, worker[w].path)
           IN \/ Ends(w)
              \/ /\ Goes(w) /\ worker[w].pc = "prepare" /\ worker'[w].pc = "write"
                 /\ worker'[w].previewed = worker[w].previewed /\ worker'[w].path = worker[w].path
                 /\ worker'[w].expected = worker[w].expected /\ worker'[w].alone = worker[w].alone
                 /\ worker'[w].base = base /\ worker'[w].change = worker[w].change
                 /\ worker'[w].guard = Guard(worker[w].path, base, worker[w].expected)
                 /\ Acceptable(worker[w], base)
<1> DEFINE base == TextAt(worker[w].target, worker[w].path)
           guard == Guard(worker[w].path, base, worker[w].expected)
<1>1. worker[w].pc = "prepare" /\ worker \in [Worker -> WorkRow] /\ worker[w].path \in Path
  BY DEF Prepare, FileTypeOK, Early
<1>2. base \in Content \cup {Missing} /\ worker[w] \in WorkRow
  BY <1>1, TextIsText
<1>3. guard \in Content \cup {NoText}
  <2>1. worker[w].expected \in Content \cup {NoText}
    BY <1>2 DEF WorkRow
  <2> QED
    BY <1>1, <2>1, GuardIs
<1>4. CASE ~Acceptable(worker[w], base)
  BY <1>1, <1>4, DoneEnds DEF Prepare
<1>5. CASE Acceptable(worker[w], base)
  <2>1. Moves(w, Prepared(worker[w], base, guard))
    BY <1>5 DEF Prepare, Prepared
  <2> HIDE DEF base, guard
  <2>2. Prepared(worker[w], base, guard) \in WorkRow
    BY <1>2, <1>3, PreparedRow
  <2>3. Goes(w) /\ worker'[w] = Prepared(worker[w], base, guard)
    BY <1>1, <2>1, <2>2, MovesGoes
  <2>4. /\ Goes(w) /\ worker[w].pc = "prepare" /\ worker'[w].pc = "write"
        /\ worker'[w].previewed = worker[w].previewed /\ worker'[w].path = worker[w].path
        /\ worker'[w].expected = worker[w].expected /\ worker'[w].alone = worker[w].alone
        /\ worker'[w].base = base /\ worker'[w].change = worker[w].change
        /\ worker'[w].guard = guard
    BY <1>1, <1>2, <1>3, <2>3, PreparedRow
  <2> QED
    BY <1>5, <2>4 DEF base, guard
<1> QED
  BY <1>4, <1>5
(* A write takes alone from those who are at the same path.                 *)
LEMMA WriteTextEffect ==
    ASSUME FileTypeOK, NEW w \in Worker, WriteText(w)
    PROVE  /\ worker[w].pc = "write" /\ worker[w].path \in Path /\ UNCHANGED caller
           /\ worker' \in [Worker -> WorkRow]
           /\ \A v \in Worker \ {w} : /\ Beside(worker'[v], worker[v])
                                      /\ worker'[v].alone => worker[v].path # worker[w].path
                                      /\ worker[v].path # worker[w].path => worker'[v] = worker[v]
           /\ \/ worker'[w].pc = "scan"
              \/ /\ worker'[w].pc = "wrote" /\ caller = w
                 /\ worker'[w].path \in Path /\ worker'[w].base \in Content
              \/ worker'[w] = NoWork /\ caller # w
<1> DEFINE t == worker[w]
           p == t.path
           text == t.change[t.base]
           n == IF t.target = "sync" THEN ToPush(t.tool, p)
                ELSE IF caller = w THEN Wrote(t.tool, p, text) ELSE NoWork
<1>1. t.pc = "write" /\ UNCHANGED caller
  BY DEF WriteText
<1>2. worker \in [Worker -> WorkRow] /\ t \in WorkRow /\ p \in Path /\ text \in Content
  BY <1>1 DEF FileTypeOK
<1>3. worker' = [v \in Worker |-> IF v # w THEN Hindered(worker[v], p) ELSE n]
  BY DEF WriteText, Hindered, ToPush, Wrote
<1>4. /\ n \in WorkRow
      /\ \/ n.pc = "scan"
         \/ n.pc = "wrote" /\ caller = w /\ n.path \in Path /\ n.base \in Content
         \/ n = NoWork /\ caller # w
  <2> HIDE DEF text
  <2>1. CASE t.target = "sync"
    <3>1. ToPush(t.tool, p) \in WorkRow /\ ToPush(t.tool, p).pc = "scan"
      BY <1>2, ToPushRow
    <3> QED
      BY <2>1, <3>1
  <2>2. CASE t.target # "sync" /\ caller = w
    <3>1. /\ Wrote(t.tool, p, text) \in WorkRow /\ Wrote(t.tool, p, text).pc = "wrote"
          /\ Wrote(t.tool, p, text).path = p /\ Wrote(t.tool, p, text).base = text
      BY <1>2, WroteRow
    <3> QED
      BY <1>2, <2>2, <3>1
  <2>3. CASE t.target # "sync" /\ caller # w
    BY <2>3, NoWorkRow
  <2> QED
    BY <2>1, <2>2, <2>3
<1> HIDE DEF n
<1>5. worker' \in [Worker -> WorkRow]
  <2>1. \A v \in Worker : Hindered(worker[v], p) \in WorkRow
    BY <1>2, HinderedRow
  <2> QED
    BY <1>3, <1>4, <2>1
<1>6. ASSUME NEW v \in Worker \ {w}
      PROVE  /\ Beside(worker'[v], worker[v])
             /\ worker'[v].alone => worker[v].path # p
             /\ worker[v].path # p => worker'[v] = worker[v]
  <2>1. worker'[v] = Hindered(worker[v], p) /\ worker[v] \in WorkRow
    BY <1>2, <1>3
  <2> QED
    BY <1>2, <2>1, HinderedRow
<1>7. worker'[w] = n
  BY <1>3
<1> QED
  BY <1>1, <1>2, <1>4, <1>5, <1>6, <1>7

(* A scan knows texts, or nothing, of every path.                           *)
LEMMA ScanIsKnown == FileTypeOK => Scan \in Known
  BY DEF FileTypeOK, Scan, Skipped, Known, Place

(* The engine finds no conflicts, so the plan is the uploads.               *)
LEMMA PlanIs ==
    Plan = Uploads(Scan, manifest) /\ Plan \subseteq Path
  BY DEF Plan, Conflicts, Uploads

(* A push stops at a skipped file, or plans from the scan and the stored    *)
(* manifest, and sees every push that uploads beside it.                    *)
Rivals(w) == {v \in Worker \ {w} : worker[v].pc \in Pushing \ {"scan"}}
LEMMA PlanPushEffect ==
    ASSUME FileTypeOK, NEW w \in Worker, PlanPush(w)
    PROVE  /\ worker[w].pc = "scan"
           /\ \/ Ends(w)
              \/ /\ UNCHANGED caller /\ worker' \in [Worker -> WorkRow]
                 /\ worker'[w].pc = "upload" /\ worker'[w].scan = Scan /\ worker'[w].prev = manifest
                 /\ worker'[w].tool = worker[w].tool /\ worker'[w].path = worker[w].path
                 /\ worker'[w].alone => Rivals(w) = {}
                 /\ \A p \in Plan : worker[w].tool = "push" \/ p = worker[w].path =>
                       p \in worker'[w].todo
                 /\ \A v \in Worker \ {w} :
                       \/ v \notin Rivals(w) /\ worker'[v] = worker[v]
                       \/ /\ v \in Rivals(w) /\ Beside(worker'[v], worker[v])
                          /\ worker'[v].alone = FALSE
<1> DEFINE t == worker[w]
           single == t.tool = "change"
           todo == IF single THEN Plan \cap {t.path} ELSE Plan
           n == Planned(t, Scan, manifest, todo, Rivals(w))
<1>1. t.pc = "scan" /\ worker \in [Worker -> WorkRow] /\ t \in WorkRow
  BY DEF PlanPush, FileTypeOK
<1>2. CASE single /\ Scan[t.path] = NoText
  BY <1>1, <1>2, DoneEnds DEF PlanPush
<1>3. CASE ~(single /\ Scan[t.path] = NoText)
  <2>1. /\ UNCHANGED caller
        /\ worker' = [v \in Worker |-> IF v = w THEN n
                                       ELSE IF v \in Rivals(w) THEN Overlapped(worker[v])
                                       ELSE worker[v]]
    BY <1>3 DEF PlanPush, Planned, Overlapped, Rivals
  <2>2. todo \in SUBSET Path
    BY PlanIs
  <2>3. Scan \in Known /\ manifest \in Known
    BY ScanIsKnown DEF FileTypeOK
  <2>4. \A p \in Plan : t.tool = "push" \/ p = t.path => p \in todo
    OBVIOUS
  <2> HIDE DEF todo
  <2>5. /\ n \in WorkRow /\ n.pc = "upload" /\ n.scan = Scan /\ n.prev = manifest /\ n.todo = todo
        /\ n.tool = t.tool /\ n.path = t.path /\ (n.alone => Rivals(w) = {})
    BY <1>1, <2>2, <2>3, PlannedRow
  <2> HIDE DEF n
  <2>6. worker' \in [Worker -> WorkRow]
    <3>1. \A v \in Worker : Overlapped(worker[v]) \in WorkRow
      BY <1>1, OverlappedRow
    <3> QED
      BY <1>1, <2>1, <2>5, <3>1
  <2>7. ASSUME NEW v \in Worker \ {w}
        PROVE  \/ v \notin Rivals(w) /\ worker'[v] = worker[v]
               \/ v \in Rivals(w) /\ Beside(worker'[v], worker[v]) /\ worker'[v].alone = FALSE
    <3>1. CASE v \in Rivals(w)
      <4>1. worker'[v] = Overlapped(worker[v]) /\ worker[v] \in WorkRow
        BY <1>1, <2>1, <3>1
      <4> QED
        BY <3>1, <4>1, OverlappedRow
    <3>2. CASE v \notin Rivals(w)
      BY <2>1, <3>2
    <3> QED
      BY <3>1, <3>2
  <2>8. worker'[w] = n
    BY <2>1
  <2> QED
    BY <1>1, <2>1, <2>4, <2>5, <2>6, <2>7, <2>8
<1> QED
  BY <1>1, <1>2, <1>3

(* An upload leaves a cause and touches one file of the mirror.             *)
LEMMA UploadedEffect ==
    ASSUME FileTypeOK, NEW p \in Path, NEW scanned, disk["local"][p] # Missing,
           Uploaded(p, scanned)
    PROVE  /\ disk' \in [Place -> [Path -> Content \cup {Missing}]]
           /\ cause' \in [Path -> Cause] /\ cause'[p] # "none"
           /\ \A q \in Path \ {p} : cause'[q] = cause[q] /\ disk'["remote"][q] = disk["remote"][q]
<1> DEFINE text == InTextMode(disk["local"][p])
           why == IF disk["local"][p] # scanned THEN "stale scan"
                  ELSE IF text # disk["local"][p] THEN "newlines" ELSE "unrecorded"
<1>1. disk["local"][p] \in Content \cup {Missing}
  BY DEF FileTypeOK, Place
<1>2. text \in Content /\ why \in Cause /\ why # "none"
  BY <1>1, TextModeIsText DEF Cause
<1>3. disk' = [disk EXCEPT !["remote"][p] = text] /\ cause' = [cause EXCEPT ![p] = why]
  BY DEF Uploaded
<1> HIDE DEF text, why
<1> QED
  BY <1>2, <1>3 DEF FileTypeOK, Place

(* A push ends at a file that has gone, or uploads it.                      *)
LEMMA UploadEffect ==
    ASSUME FileTypeOK, NEW w \in Worker, NEW p \in Path, Upload(w, p)
    PROVE  /\ worker[w].pc = "upload"
           /\ \/ Ends(w) /\ UNCHANGED <<disk, cause>>
              \/ /\ Goes(w) /\ worker'[w].pc = "upload" /\ worker'[w].todo = worker[w].todo \ {p}
                 /\ worker'[w].tool = worker[w].tool /\ worker'[w].path = worker[w].path
                 /\ worker'[w].scan = worker[w].scan /\ worker'[w].prev = worker[w].prev
                 /\ worker'[w].alone = worker[w].alone
                 /\ disk["local"][p] # Missing
                 /\ Uploaded(p, worker[w].scan[p])
<1>1. worker[w].pc = "upload" /\ worker \in [Worker -> WorkRow] /\ worker[w] \in WorkRow
  BY DEF Upload, FileTypeOK
<1>2. CASE disk["local"][p] = Missing
  BY <1>1, <1>2, DoneEnds DEF Upload
<1>3. CASE disk["local"][p] # Missing
  <2>1. Moves(w, Less(worker[w], p)) /\ Uploaded(p, worker[w].scan[p])
    BY <1>3 DEF Upload, Less
  <2>2. Goes(w) /\ worker'[w] = Less(worker[w], p)
    BY <1>1, <2>1, LessRow, MovesGoes
  <2> QED
    BY <1>1, <1>3, <2>1, <2>2, LessRow
<1> QED
  BY <1>1, <1>2, <1>3

(* The remote manifest is written when nothing is left to upload.           *)
LEMMA WriteManifestEffect ==
    ASSUME FileTypeOK, NEW w \in Worker, WriteManifest(w)
    PROVE  /\ Goes(w) /\ worker[w].pc = "upload" /\ worker'[w].pc = "save" /\ worker[w].todo = {}
           /\ worker'[w].todo = {} /\ worker'[w].tool = worker[w].tool
           /\ worker'[w].path = worker[w].path
           /\ worker'[w].scan = worker[w].scan /\ worker'[w].prev = worker[w].prev
           /\ worker'[w].alone = worker[w].alone
<1>1. worker[w].pc = "upload" /\ worker \in [Worker -> WorkRow] /\ worker[w] \in WorkRow
      /\ worker[w].todo = {}
  BY DEF WriteManifest, FileTypeOK
<1>2. Moves(w, ToSave(worker[w]))
  BY DEF WriteManifest, ToSave
<1> QED
  BY <1>1, <1>2, ToSaveRow, MovesGoes

(* A call begins when no other one is waited for.                           *)
Begun(w) ==
    /\ caller = NoOne /\ worker[w] = NoWork /\ OneWorks(w) /\ caller' = w
    /\ calls < MaxCalls /\ calls' = calls + 1 /\ applied' = NoChange
    /\ UNCHANGED <<disk, snapshot, manifest, config, changes, failures, seen, cause>>
    /\ worker'[w].pc \in {"read", "preview", "prepare", "scan"} /\ worker'[w].previewed = NoText
    /\ worker'[w].pc # "scan" => worker'[w].path \in Path
    /\ worker'[w].pc = "prepare" => config.allow_unguarded_write
LEMMA BeginCallIs ==
    ASSUME FileTypeOK, NEW w \in Worker, NEW n \in WorkRow, BeginCall(w, n),
           n.pc \in {"read", "preview", "prepare", "scan"}, n.previewed = NoText,
           n.pc # "scan" => n.path \in Path, n.pc = "prepare" => config.allow_unguarded_write
    PROVE  Begun(w)
<1>1. worker' = [worker EXCEPT ![w] = n] /\ worker \in [Worker -> WorkRow]
  BY DEF BeginCall, FileTypeOK
<1>2. OneWorks(w) /\ worker'[w] = n
  BY <1>1 DEF OneWorks
<1> QED
  BY <1>2 DEF BeginCall, Begun

(* What the calls of the agent begin with is well-typed.                    *)
Reading(target, p) ==
    [NoWork EXCEPT !.pc = "read", !.tool = "read", !.target = target, !.path = p]
Changing(pc, target, p, change, expected) ==
    [NoWork EXCEPT !.pc = pc, !.tool = "change", !.target = target, !.path = p,
                   !.change = change, !.expected = expected]
Starting == [NoWork EXCEPT !.pc = "scan", !.tool = "push", !.target = "sync"]
LEMMA ReadingRow ==
    ASSUME NEW target \in Target, NEW p \in Path
    PROVE  /\ Reading(target, p) \in WorkRow /\ Reading(target, p).pc = "read"
           /\ Reading(target, p).previewed = NoText /\ Reading(target, p).path = p
  BY DEF Reading, NoWork, WorkRow, WorkPc, Empty, NoEdit, Known

(* The same of write_file and edit_file.                                    *)
LEMMA ChangingRow ==
    ASSUME NEW pc \in {"preview", "prepare"}, NEW target \in Target, NEW p \in Path,
           NEW change \in [Content \cup {Missing} -> Content \cup {"absent", "ambiguous"}],
           NEW expected \in Content \cup {NoText}
    PROVE  /\ Changing(pc, target, p, change, expected) \in WorkRow
           /\ Changing(pc, target, p, change, expected).pc = pc
           /\ Changing(pc, target, p, change, expected).previewed = NoText
           /\ Changing(pc, target, p, change, expected).path = p
  BY DEF Changing, NoWork, WorkRow, WorkPc, Early, Empty, NoEdit, Known

(* The same of sync_push.                                                   *)
LEMMA StartingRow ==
    Starting \in WorkRow /\ Starting.pc = "scan" /\ Starting.previewed = NoText
  BY DEF Starting, NoWork, WorkRow, WorkPc, Pushing, Empty, NoEdit, Known, Target

(* read_file begins a call.                                                 *)
LEMMA BeginReadIs ==
    ASSUME FileTypeOK, NEW w \in Worker, NEW target \in Target, NEW p \in Path,
           BeginReadFile(w, target, p)
    PROVE  Begun(w)
<1>1. BeginCall(w, Reading(target, p))
  BY DEF BeginReadFile, Reading
<1> QED
  BY <1>1, ReadingRow, BeginCallIs

(* write_file and edit_file begin a call, previewed where they must be.     *)
LEMMA BeginChangeIs ==
    ASSUME FileTypeOK, NEW w \in Worker, NEW target \in Target, NEW p \in Path,
           NEW change \in [Content \cup {Missing} -> Content \cup {"absent", "ambiguous"}],
           NEW expected \in Content \cup {NoText}, BeginChange(w, target, p, change, expected)
    PROVE  Begun(w)
<1> DEFINE pc == IF Previewed THEN "preview" ELSE "prepare"
<1>1. BeginCall(w, Changing(pc, target, p, change, expected))
  BY DEF BeginChange, Changing
<1>2. pc \in {"preview", "prepare"} /\ (pc = "prepare" => config.allow_unguarded_write)
  BY DEF Previewed
<1> HIDE DEF pc
<1>3. /\ Changing(pc, target, p, change, expected) \in WorkRow
      /\ Changing(pc, target, p, change, expected).pc = pc
      /\ Changing(pc, target, p, change, expected).previewed = NoText
      /\ Changing(pc, target, p, change, expected).path = p
  BY <1>2, ChangingRow
<1> QED
  BY <1>1, <1>2, <1>3, BeginCallIs

(* sync_push begins a call.                                                 *)
LEMMA BeginPushIs ==
    ASSUME FileTypeOK, NEW w \in Worker, BeginPush(w)
    PROVE  Begun(w)
<1>1. BeginCall(w, Starting)
  BY DEF BeginPush, Starting
<1> QED
  BY <1>1, StartingRow, BeginCallIs

(* The steps, the beginnings of a call as one.                              *)
FileSteps ==
    \/ \E w \in Worker : FileStep(w) \/ Begun(w)
    \/ \E pl \in Place, p \in Path, c \in Content \cup {Missing} : OthersChange(pl, p, c)
    \/ CallCut
LEMMA NextIsSteps ==
    ASSUME FileTypeOK, FileNext
    PROVE  FileSteps
<1>1. ASSUME NEW w \in Worker, NEW target \in Target, NEW p \in Path,
             NEW expected \in Content \cup {NoText}, NEW write \in Writes,
             BeginWriteFile(w, target, p, write, expected)
      PROVE  Begun(w)
  <2>1. write \in [Content \cup {Missing} -> Content \cup {"absent", "ambiguous"}]
    BY DEF Writes
  <2> QED
    BY <1>1, <2>1, BeginChangeIs DEF BeginWriteFile
<1>2. ASSUME NEW w \in Worker, NEW target \in Target, NEW p \in Path,
             NEW expected \in Content \cup {NoText}, NEW edit \in Edits,
             BeginEditFile(w, target, p, edit, expected)
      PROVE  Begun(w)
  <2>1. edit \in [Content \cup {Missing} -> Content \cup {"absent", "ambiguous"}]
    BY FileAssumption
  <2> QED
    BY <1>2, <2>1, BeginChangeIs DEF BeginEditFile
<1> QED
  BY <1>1, <1>2, BeginReadIs, BeginPushIs DEF FileNext, FileSteps

(* The threads keep their types when a call begins.                         *)
LEMMA BegunWorkers ==
    ASSUME WorkersOK, NEW w \in Worker, Begun(w)
    PROVE  WorkersOK'
<1>1. WorkOK(w)'
  BY NoWorkRow DEF Begun, WorkOK, Early
<1>2. ASSUME NEW v \in Worker, v # w PROVE WorkOK(v)'
  <2>1. worker'[v] = worker[v] /\ WorkOK(v)
    BY <1>2 DEF Begun, OneWorks, WorkersOK
  <2>2. caller # v
    BY FileAssumption DEF Begun
  <2> QED
    BY <2>1, <2>2 DEF WorkOK
<1>3. worker'[w] # NoWork
  BY NoWorkRow DEF Begun
<1> QED
  BY <1>1, <1>2, <1>3 DEF WorkersOK, Begun, OneWorks

(* A call that is cut: its thread goes on where it writes, or is no more.   *)
LEMMA CutEffect ==
    ASSUME FileTypeOK, CallCut
    PROVE  /\ caller \in Worker /\ caller' = NoOne
           /\ UNCHANGED <<disk, snapshot, manifest, config, calls, changes, fileHistory>>
           /\ failures' \in 0..MaxFailures
           /\ \/ worker' = worker /\ worker[caller].pc \in {"write"} \cup Pushing
              \/ OneWorks(caller) /\ worker'[caller] = NoWork
<1>1. caller \in Worker /\ worker \in [Worker -> WorkRow]
  BY DEF FileTypeOK, CallCut
<1>2. failures' \in 0..MaxFailures
  BY FileAssumption DEF CallCut, FileTypeOK
<1>3. CASE worker[caller].pc \in {"write"} \cup Pushing
  BY <1>1, <1>2, <1>3 DEF CallCut
<1>4. CASE worker[caller].pc \notin {"write"} \cup Pushing
  <2>1. worker' = [worker EXCEPT ![caller] = NoWork]
    BY <1>4 DEF CallCut
  <2>2. OneWorks(caller) /\ worker'[caller] = NoWork
    BY <1>1, <2>1, NoWorkRow DEF OneWorks
  <2> QED
    BY <1>1, <1>2, <2>2 DEF CallCut
<1> QED
  BY <1>3, <1>4

(* They keep them when a call is cut.                                       *)
LEMMA CutWorkers ==
    ASSUME FileTypeOK, CallCut
    PROVE  WorkersOK'
<1>1. WorkersOK /\ caller \in Worker /\ caller' = NoOne
  BY TypeIs, CutEffect
<1>2. CASE worker' = worker /\ worker[caller].pc \in {"write"} \cup Pushing
  <2>1. ASSUME NEW v \in Worker PROVE WorkOK(v)'
    <3>1. WorkOK(v) /\ worker'[v] = worker[v]
      BY <1>1, <1>2 DEF WorkersOK
    <3>2. worker[v].pc \notin {"read", "readback", "wrote"} \cup Early
      BY <1>2, <3>1 DEF WorkOK, Pushing, Early
    <3> QED
      BY <3>1, <3>2 DEF WorkOK
  <2> QED
    BY <1>1, <1>2, <2>1 DEF WorkersOK
<1>3. CASE OneWorks(caller) /\ worker'[caller] = NoWork
  <2>1. Ends(caller)
    BY <1>1, <1>3 DEF Ends
  <2> QED
    BY <1>1, <2>1, EndsWorkers
<1> QED
  BY <1>2, <1>3, CutEffect

(* The type invariant: the workers of each step, then the rest.             *)
LEMMA BesideWorkOK ==
    ASSUME NEW v \in Worker, WorkOK(v), UNCHANGED caller, Beside(worker'[v], worker[v]),
           worker[v].pc # "idle"
    PROVE  WorkOK(v)'
<1>1. worker'[v] # NoWork
  BY NoWorkRow DEF Beside
<1> QED
  BY <1>1 DEF WorkOK, Beside

(* They keep them whatever a thread does.                                   *)
LEMMA StepWorkers ==
    ASSUME FileTypeOK, NEW w \in Worker, FileStep(w)
    PROVE  WorkersOK'
<1>0. WorkersOK /\ WorkOK(w) /\ worker[w] \in WorkRow
  BY TypeIs DEF WorkersOK
<1>1. CASE ReadText(w)
  <2>1. CASE /\ Goes(w) /\ worker[w].pc = "read" /\ worker'[w].pc = "readback"
             /\ worker'[w].base \in Content /\ worker'[w].path = worker[w].path
    <3>1. WorkOK(w)'
      BY <1>0, <2>1, NoWorkRow DEF WorkOK, Early, Goes
    <3> QED
      BY <1>0, <2>1, <3>1, GoesWorkers
  <2> QED
    BY <1>0, <1>1, <2>1, ReadTextEffect, EndsWorkers
<1>2. CASE ReadReturns(w) \/ WriteReturns(w) \/ SaveState(w) \/ RemoteFails(w)
  <2>1. Ends(w)
    BY <1>0, <1>2, DoneEnds DEF ReadReturns, WriteReturns, SaveState, RemoteFails, WorkersOK
  <2> QED
    BY <1>0, <2>1, EndsWorkers
<1>3. CASE Preview(w)
  <2>1. CASE /\ Goes(w) /\ worker[w].pc = "preview" /\ worker'[w].pc \in {"approve", "prepare"}
             /\ worker'[w].path = worker[w].path
    <3>1. WorkOK(w)'
      BY <1>0, <2>1, NoWorkRow DEF WorkOK, Early, Goes
    <3> QED
      BY <1>0, <2>1, <3>1, GoesWorkers
  <2> QED
    BY <1>0, <1>3, <2>1, PreviewEffect, EndsWorkers
<1>4. CASE Approve(w)
  <2>1. CASE /\ Goes(w) /\ worker[w].pc = "approve" /\ worker'[w].pc = "prepare"
             /\ worker'[w].path = worker[w].path
    <3>1. WorkOK(w)'
      BY <1>0, <2>1, NoWorkRow DEF WorkOK, Early, Goes
    <3> QED
      BY <1>0, <2>1, <3>1, GoesWorkers
  <2> QED
    BY <1>0, <1>4, <2>1, ApproveEffect, EndsWorkers
<1>5. CASE Prepare(w)
  <2> DEFINE base == TextAt(worker[w].target, worker[w].path)
  <2>1. CASE /\ Goes(w) /\ worker[w].pc = "prepare" /\ worker'[w].pc = "write"
             /\ worker'[w].path = worker[w].path /\ worker'[w].base = base
             /\ worker'[w].change = worker[w].change /\ Acceptable(worker[w], base)
    <3>1. base # NoText
      <4>1. worker[w].path \in Path
        BY <1>0, <2>1 DEF WorkOK, Early
      <4>2. base \in Content \cup {Missing}
        BY <4>1, TextIsText
      <4> QED
        BY <4>2, FileAssumption DEF Missing, NoText
    <3>2. worker'[w].change[worker'[w].base] \in Content
      BY <2>1 DEF Acceptable
    <3> HIDE DEF base
    <3>3. WorkOK(w)'
      BY <1>0, <2>1, <3>1, <3>2, NoWorkRow DEF WorkOK, Early, Goes
    <3> QED
      BY <1>0, <2>1, <3>3, GoesWorkers
  <2> QED
    BY <1>0, <1>5, <2>1, PrepareEffect, EndsWorkers
<1>6. CASE WriteText(w)
  <2>1. /\ worker[w].path \in Path /\ caller' = caller
        /\ worker' \in [Worker -> WorkRow]
        /\ \A v \in Worker \ {w} : /\ Beside(worker'[v], worker[v])
                                   /\ worker[v].path # worker[w].path => worker'[v] = worker[v]
        /\ \/ worker'[w].pc = "scan"
           \/ /\ worker'[w].pc = "wrote" /\ caller = w
              /\ worker'[w].path \in Path /\ worker'[w].base \in Content
           \/ worker'[w] = NoWork /\ caller # w
    BY <1>6, WriteTextEffect
  <2>2. WorkOK(w)'
    <3>1. CASE worker'[w].pc = "scan"
      BY <3>1, NoWorkRow DEF WorkOK, Early
    <3>2. CASE /\ worker'[w].pc = "wrote" /\ caller = w
               /\ worker'[w].path \in Path /\ worker'[w].base \in Content
      BY <2>1, <3>2, NoWorkRow DEF WorkOK, Early
    <3>3. CASE worker'[w] = NoWork
      BY <3>3, NoWorkRow DEF WorkOK, Early
    <3> QED
      BY <2>1, <3>1, <3>2, <3>3
  <2>3. ASSUME NEW v \in Worker, v # w PROVE WorkOK(v)' /\ (worker[v] # NoWork => worker'[v] # NoWork)
    <3>0. WorkOK(v)
      BY <1>0 DEF WorkersOK
    <3>1. CASE worker[v].path # worker[w].path
      <4>1. worker'[v] = worker[v]
        BY <2>1, <2>3, <3>1
      <4> QED
        BY <2>1, <3>0, <4>1 DEF WorkOK
    <3>2. CASE worker[v].path = worker[w].path
      <4>1. worker[v] # NoWork
        BY <2>1, <3>2, NoWorkRow, FileAssumption
      <4>2. worker[v].pc # "idle"
        BY <3>0, <4>1 DEF WorkOK
      <4>3. WorkOK(v)'
        BY <2>1, <2>3, <3>0, <4>2, BesideWorkOK
      <4>4. worker'[v].pc # "idle"
        BY <2>1, <2>3, <4>2 DEF Beside
      <4> QED
        BY <4>3, <4>4, NoWorkRow
    <3> QED
      BY <3>1, <3>2
  <2>4. caller' # NoOne => worker'[caller'] # NoWork
    <3>1. SUFFICES ASSUME caller # NoOne PROVE worker'[caller] # NoWork
      BY <2>1
    <3>2. CASE caller = w
      BY <2>1, <3>2, NoWorkRow
    <3>3. CASE caller # w
      BY <1>0, <2>3, <3>1, <3>3 DEF WorkersOK
    <3> QED
      BY <3>2, <3>3
  <2> QED
    BY <1>0, <2>1, <2>2, <2>3, <2>4 DEF WorkersOK
<1>7. CASE PlanPush(w)
  <2>1. CASE /\ caller' = caller /\ worker' \in [Worker -> WorkRow] /\ worker'[w].pc = "upload"
             /\ \A v \in Worker \ {w} :
                       \/ v \notin Rivals(w) /\ worker'[v] = worker[v]
                       \/ v \in Rivals(w) /\ Beside(worker'[v], worker[v])
    <3>1. WorkOK(w)' /\ worker'[w] # NoWork
      BY <2>1, NoWorkRow DEF WorkOK, Early
    <3>2. ASSUME NEW v \in Worker, v # w
          PROVE  WorkOK(v)' /\ (worker[v] # NoWork => worker'[v] # NoWork)
      <4>0. WorkOK(v)
        BY <1>0 DEF WorkersOK
      <4>1. CASE worker'[v] = worker[v]
        BY <2>1, <4>0, <4>1 DEF WorkOK
      <4>2. CASE v \in Rivals(w) /\ Beside(worker'[v], worker[v])
        <5>1. worker[v].pc # "idle"
          BY <4>2 DEF Rivals, Pushing
        <5>2. WorkOK(v)'
          BY <2>1, <4>0, <4>2, <5>1, BesideWorkOK
        <5>3. worker'[v].pc # "idle"
          BY <4>2, <5>1 DEF Beside
        <5> QED
          BY <5>2, <5>3, NoWorkRow
      <4> QED
        BY <2>1, <3>2, <4>1, <4>2
    <3> QED
      BY <1>0, <2>1, <3>1, <3>2 DEF WorkersOK
  <2>2. CASE Ends(w)
    BY <1>0, <2>2, EndsWorkers
  <2> QED
    BY <1>7, <2>1, <2>2, PlanPushEffect
<1>8. CASE WriteManifest(w)
  <2>1. Goes(w) /\ worker'[w].pc = "save" /\ worker'[w].todo = {}
    BY <1>8, WriteManifestEffect
  <2>2. WorkOK(w)'
    BY <2>1, NoWorkRow DEF WorkOK, Early
  <2> QED
    BY <1>0, <2>1, <2>2, GoesWorkers
<1>9. ASSUME NEW p \in Path, Upload(w, p) PROVE WorkersOK'
  <2>1. CASE Goes(w) /\ worker'[w].pc = "upload"
    <3>1. WorkOK(w)'
      BY <2>1, NoWorkRow DEF WorkOK, Early
    <3> QED
      BY <1>0, <2>1, <3>1, GoesWorkers
  <2> QED
    BY <1>0, <1>9, <2>1, UploadEffect, EndsWorkers
<1> QED
  BY <1>1, <1>2, <1>3, <1>4, <1>5, <1>6, <1>7, <1>8, <1>9 DEF FileStep

(* The other variables keep their types when they do not change.            *)
LEMMA RestSame ==
    ASSUME RestOK, UNCHANGED <<disk, snapshot, manifest, config, fileBounds, fileHistory>>
    PROVE  RestOK'
  BY DEF RestOK, fileBounds, fileHistory

(* A snapshot that is recorded is of one path, and is seen.                 *)
LEMMA RecordedOK ==
    ASSUME FileTypeOK, NEW p \in Path, NEW text \in Content, Recorded(p, text)
    PROVE  /\ snapshot' \in Known /\ seen' \subseteq Path \X Content
           /\ snapshot'[p] = text /\ \A q \in Path \ {p} : snapshot'[q] = snapshot[q]
           /\ seen' = seen \cup {<<p, text>>}
  BY DEF FileTypeOK, Recorded, Known

(* They keep them whatever a thread does.                                   *)
LEMMA StepRest ==
    ASSUME FileTypeOK, NEW w \in Worker, FileStep(w)
    PROVE  RestOK'
<1>0. RestOK /\ WorkOK(w) /\ worker[w] \in WorkRow
  BY TypeIs DEF WorkersOK
<1>1. CASE ReadText(w) \/ Preview(w) \/ Approve(w) \/ Prepare(w) \/ PlanPush(w) \/ WriteManifest(w)
  <2>1. UNCHANGED <<disk, snapshot, manifest, config, fileBounds, fileHistory>>
    BY <1>1 DEF ReadText, Preview, Approve, Prepare, PlanPush, WriteManifest
  <2> QED
    BY <1>0, <2>1, RestSame
<1>2. CASE ReadReturns(w) \/ WriteReturns(w)
  <2>1. /\ worker[w].pc \in {"readback", "wrote"} /\ Recorded(worker[w].path, worker[w].base)
        /\ UNCHANGED <<disk, manifest, config, fileBounds, applied, cause>>
    BY <1>2 DEF ReadReturns, WriteReturns
  <2>2. worker[w].path \in Path /\ worker[w].base \in Content
    BY <1>0, <2>1 DEF WorkOK
  <2>3. snapshot' \in Known /\ seen' \subseteq Path \X Content
    BY <2>1, <2>2, RecordedOK
  <2> QED
    BY <1>0, <2>1, <2>3 DEF RestOK, fileBounds
<1>3. CASE WriteText(w)
  <2> DEFINE t == worker[w]
             text == t.change[t.base]
  <2>1. /\ t.pc = "write" /\ Written(t.target, t.path, text)
        /\ applied' = Applying(t, TextAt(t.target, t.path))
        /\ cause' = IF At(t.target) = "remote" THEN [cause EXCEPT ![t.path] = "direct"] ELSE cause
        /\ Recorded(t.path, text) \/ UNCHANGED <<snapshot, seen>>
        /\ UNCHANGED <<manifest, config, fileBounds>>
    BY <1>3 DEF WriteText
  <2>2. t.path \in Path /\ text \in Content
    BY <1>0, <2>1 DEF WorkOK
  <2> HIDE DEF text
  <2>3. snapshot' \in Known /\ seen' \subseteq Path \X Content
    BY <1>0, <2>1, <2>2, RecordedOK DEF RestOK
  <2>4. disk' \in [Place -> [Path -> Content \cup {Missing}]]
    BY <1>0, <2>1, <2>2 DEF RestOK, Written, At, Place
  <2>5. cause' \in [Path -> Cause]
    BY <1>0, <2>1, <2>2 DEF RestOK, Cause
  <2>6. applied' \in ChangeRow
    BY <1>0, <2>1 DEF Applying, ChangeRow, WorkRow
  <2> QED
    BY <1>0, <2>1, <2>3, <2>4, <2>5, <2>6 DEF RestOK, fileBounds
<1>4. ASSUME NEW p \in Path, Upload(w, p) PROVE RestOK'
  <2>1. disk' \in [Place -> [Path -> Content \cup {Missing}]] /\ cause' \in [Path -> Cause]
    BY <1>0, <1>4, UploadEffect, UploadedEffect DEF RestOK
  <2>2. UNCHANGED <<snapshot, manifest, config, fileBounds, seen, applied>>
    BY <1>4 DEF Upload
  <2> QED
    BY <1>0, <2>1, <2>2 DEF RestOK, fileBounds
<1>5. CASE RemoteFails(w)
  <2>1. disk' \in [Place -> [Path -> Content \cup {Missing}]] /\ cause' \in [Path -> Cause]
    <3>1. CASE UNCHANGED <<disk, cause>>
      BY <1>0, <3>1 DEF RestOK
    <3>2. CASE \E p \in worker[w].todo : /\ disk["local"][p] # Missing
                                         /\ Uploaded(p, worker[w].scan[p])
      <4>1. worker[w].todo \subseteq Path
        BY <1>0 DEF WorkRow
      <4> QED
        BY <3>2, <4>1, UploadedEffect
    <3> QED
      BY <1>5, <3>1, <3>2 DEF RemoteFails
  <2>2. failures' \in 0..MaxFailures
    BY <1>0, <1>5, FileAssumption DEF RemoteFails, RestOK
  <2>3. UNCHANGED <<snapshot, manifest, config, calls, changes, seen, applied>>
    BY <1>5 DEF RemoteFails
  <2> QED
    BY <1>0, <2>1, <2>2, <2>3 DEF RestOK
<1>6. CASE SaveState(w)
  <2>1. manifest' \in Known
    BY <1>0, <1>6 DEF SaveState, Saved, WorkRow
  <2>2. cause' \in [Path -> Cause]
    BY <1>0, <1>6 DEF SaveState, RestOK, Cause
  <2>3. UNCHANGED <<disk, snapshot, config, fileBounds, seen, applied>>
    BY <1>6 DEF SaveState
  <2> QED
    BY <1>0, <2>1, <2>2, <2>3 DEF RestOK, fileBounds
<1> QED
  BY <1>1, <1>2, <1>3, <1>4, <1>5, <1>6 DEF FileStep

(* Every step keeps the types.                                              *)
LEMMA FileTypeStep ==
    ASSUME FileTypeOK, FileSteps
    PROVE  FileTypeOK'
<1>0. RestOK /\ WorkersOK
  BY TypeIs
<1>1. ASSUME NEW w \in Worker, FileStep(w) PROVE FileTypeOK'
  BY <1>1, StepWorkers, StepRest, TypeIsNext
<1>2. ASSUME NEW w \in Worker, Begun(w) PROVE FileTypeOK'
  <2>1. RestOK'
    <3>1. NoChange \in ChangeRow
      BY DEF NoChange, ChangeRow
    <3>2. calls' \in 0..MaxCalls
      BY <1>0, <1>2, FileAssumption DEF Begun, RestOK
    <3> QED
      BY <1>0, <1>2, <3>1, <3>2 DEF Begun, RestOK
  <2> QED
    BY <1>0, <1>2, <2>1, BegunWorkers, TypeIsNext
<1>3. ASSUME NEW pl \in Place, NEW p \in Path, NEW c \in Content \cup {Missing},
             OthersChange(pl, p, c)
      PROVE  FileTypeOK'
  <2>1. WorkersOK'
    BY <1>0, <1>3 DEF OthersChange, WorkersOK, WorkOK
  <2>2. RestOK'
    <3>1. disk' \in [Place -> [Path -> Content \cup {Missing}]]
      BY <1>0, <1>3 DEF OthersChange, RestOK
    <3>2. cause' \in [Path -> Cause]
      BY <1>0, <1>3 DEF OthersChange, RestOK, Cause
    <3>3. changes' \in 0..MaxChanges
      BY <1>0, <1>3, FileAssumption DEF OthersChange, RestOK
    <3> QED
      BY <1>0, <1>3, <3>1, <3>2, <3>3 DEF OthersChange, RestOK
  <2> QED
    BY <2>1, <2>2, TypeIsNext
<1>4. CASE CallCut
  <2>1. RestOK'
    BY <1>0, <1>4, CutEffect DEF RestOK, fileHistory
  <2> QED
    BY <1>4, <2>1, CutWorkers, TypeIsNext
<1> QED
  BY <1>1, <1>2, <1>3, <1>4 DEF FileSteps

(* The snapshots change when a call records a text, while it is waited for  *)
(* or as it writes.                                                         *)
LEMMA SnapshotSteps ==
    ASSUME FileTypeOK, FileSteps
    PROVE  \/ UNCHANGED <<snapshot, seen>>
           \/ \E w \in Worker, text \in Content :
                 /\ worker[w].path \in Path /\ Recorded(worker[w].path, text)
                 /\ (caller = w /\ worker'[w] = NoWork) \/ WriteText(w)
<1>1. ASSUME NEW w \in Worker, ReadReturns(w) \/ WriteReturns(w)
      PROVE  \E text \in Content : /\ worker[w].path \in Path /\ Recorded(worker[w].path, text)
                                   /\ caller = w /\ worker'[w] = NoWork
  <2>1. /\ worker[w].pc \in {"readback", "wrote"} /\ Recorded(worker[w].path, worker[w].base)
        /\ Done(w)
    BY <1>1 DEF ReadReturns, WriteReturns
  <2>2. worker[w].path \in Path /\ worker[w].base \in Content /\ caller = w
    BY <2>1 DEF FileTypeOK
  <2>3. worker'[w] = NoWork
    BY <2>1, DoneEnds DEF FileTypeOK, Ends
  <2> QED
    BY <2>1, <2>2, <2>3
<1>2. ASSUME NEW w \in Worker, WriteText(w)
      PROVE  \/ UNCHANGED <<snapshot, seen>>
             \/ \E text \in Content : worker[w].path \in Path /\ Recorded(worker[w].path, text)
  <2>1. worker[w].path \in Path /\ worker[w].change[worker[w].base] \in Content
    BY <1>2 DEF WriteText, FileTypeOK
  <2> QED
    BY <1>2, <2>1 DEF WriteText
<1>3. ASSUME NEW w \in Worker, FileStep(w)
      PROVE  ReadReturns(w) \/ WriteReturns(w) \/ WriteText(w) \/ UNCHANGED <<snapshot, seen>>
  BY <1>3 DEF FileStep, ReadText, Preview, Approve, Prepare, PlanPush, WriteManifest, SaveState,
              RemoteFails, Upload, fileHistory
<1>4. ASSUME NEW w \in Worker, Begun(w) PROVE UNCHANGED <<snapshot, seen>>
  BY <1>4 DEF Begun
<1>5. ASSUME NEW pl \in Place, NEW p \in Path, NEW c \in Content \cup {Missing},
             OthersChange(pl, p, c)
      PROVE  UNCHANGED <<snapshot, seen>>
  BY <1>5 DEF OthersChange
<1>6. CallCut => UNCHANGED <<snapshot, seen>>
  BY DEF CallCut, fileHistory
<1> QED
  BY <1>1, <1>2, <1>3, <1>4, <1>5, <1>6 DEF FileSteps

(* A snapshot is of a text that was seen, and is never taken back.          *)
LEMMA SnapshotsGrow ==
    ASSUME FileTypeOK, SnapshotIsSeen, FileSteps
    PROVE  /\ SnapshotIsSeen' /\ seen \subseteq seen'
           /\ \A p \in Path : snapshot[p] # NoText => snapshot'[p] # NoText
<1>1. CASE UNCHANGED <<snapshot, seen>>
  BY <1>1 DEF SnapshotIsSeen
<1>2. ASSUME NEW w \in Worker, NEW text \in Content, worker[w].path \in Path,
             Recorded(worker[w].path, text)
      PROVE  /\ SnapshotIsSeen' /\ seen \subseteq seen'
             /\ \A p \in Path : snapshot[p] # NoText => snapshot'[p] # NoText
  <2> DEFINE p == worker[w].path
  <2>1. /\ snapshot'[p] = text /\ \A q \in Path \ {p} : snapshot'[q] = snapshot[q]
        /\ seen' = seen \cup {<<p, text>>}
    BY <1>2, RecordedOK
  <2>2. text # NoText
    BY FileAssumption
  <2> QED
    BY <1>2, <2>1, <2>2 DEF SnapshotIsSeen
<1> QED
  BY <1>1, <1>2, SnapshotSteps

(* What becomes of a worker's row that has to do with a change.             *)
ShownAs(v) ==
    LET base == TextAt(worker[v].target, worker[v].path)
    IN  /\ worker[v].pc = "preview" /\ worker'[v].pc \in {"approve", "prepare"}
        /\ worker'[v].previewed = base /\ worker'[v].path = worker[v].path
        /\ worker'[v].expected = worker[v].expected
        /\ Acceptable(worker[v], base)
        /\ config.allow_unguarded_write \/ ~Unguarded(worker[v], base)
IsApproved(v) ==
    /\ worker[v].pc = "approve" /\ worker'[v].pc = "prepare"
    /\ worker'[v].previewed = worker[v].previewed /\ worker'[v].path = worker[v].path
    /\ worker'[v].expected = worker[v].expected /\ worker'[v].alone = worker[v].alone
IsPrepared(v) ==
    LET base == TextAt(worker[v].target, worker[v].path)
    IN  /\ worker[v].pc = "prepare" /\ worker'[v].pc = "write"
        /\ worker'[v].previewed = worker[v].previewed /\ worker'[v].path = worker[v].path
        /\ worker'[v].expected = worker[v].expected /\ worker'[v].alone = worker[v].alone
        /\ worker'[v].base = base
        /\ worker'[v].guard = Guard(worker[v].path, base, worker[v].expected)
        /\ Acceptable(worker[v], base)
Late == {"approve", "prepare", "write"}
Elsewhere(v) ==
    \/ worker'[v].pc \notin Late \cup {"preview"}
    \/ /\ worker'[v].previewed = NoText /\ worker'[v].pc \in {"preview", "prepare"}
       /\ worker'[v].pc = "prepare" => config.allow_unguarded_write
LEMMA BesideItself == \A o : Beside(o, o)
  BY DEF Beside

(* What can happen to the change of a thread in one step: nothing, it is at *)
(* a place where it does not matter, or it is shown, approved or prepared   *)
(* while the snapshots stay.                                                *)
LEMMA WorkerSteps ==
    ASSUME FileTypeOK, FileSteps, NEW v \in Worker
    PROVE  \/ Beside(worker'[v], worker[v])
           \/ Elsewhere(v)
           \/ UNCHANGED <<snapshot, seen>> /\ (ShownAs(v) \/ IsApproved(v) \/ IsPrepared(v))
<1>0. ASSUME NEW w \in Worker, OneWorks(w), v # w PROVE Beside(worker'[v], worker[v])
  BY <1>0, BesideItself DEF OneWorks
<1>1. ASSUME NEW w \in Worker, Ends(w) PROVE Beside(worker'[v], worker[v]) \/ Elsewhere(v)
  <2>1. CASE v = w
    BY <1>1, <2>1, NoWorkRow DEF Ends, Elsewhere, Late
  <2> QED
    BY <1>0, <1>1, <2>1 DEF Ends
<1>2. ASSUME NEW w \in Worker, FileStep(w)
      PROVE  \/ Beside(worker'[v], worker[v])
             \/ Elsewhere(v)
             \/ UNCHANGED <<snapshot, seen>> /\ (ShownAs(v) \/ IsApproved(v) \/ IsPrepared(v))
  <2>1. CASE ReadText(w)
    <3>1. CASE Goes(w) /\ worker'[w].pc = "readback"
      BY <1>0, <3>1 DEF Goes, Elsewhere, Late
    <3> QED
      BY <1>1, <2>1, <3>1, ReadTextEffect
  <2>2. CASE ReadReturns(w) \/ WriteReturns(w) \/ SaveState(w) \/ RemoteFails(w)
    <3>1. Done(w)
      BY <2>2 DEF ReadReturns, WriteReturns, SaveState, RemoteFails
    <3> QED
      BY <1>1, <3>1, DoneEnds DEF FileTypeOK
  <2>3. CASE Preview(w)
    <3>1. UNCHANGED <<snapshot, seen>>
      BY <2>3 DEF Preview, fileHistory
    <3>2. Ends(w) \/ (OneWorks(w) /\ ShownAs(w))
      BY <2>3, PreviewEffect DEF ShownAs, Goes
    <3> QED
      BY <1>0, <1>1, <3>1, <3>2
  <2>4. CASE Approve(w)
    <3>1. UNCHANGED <<snapshot, seen>>
      BY <2>4 DEF Approve, fileHistory
    <3>2. Ends(w) \/ (OneWorks(w) /\ IsApproved(w))
      BY <2>4, ApproveEffect DEF IsApproved, Goes
    <3> QED
      BY <1>0, <1>1, <3>1, <3>2
  <2>5. CASE Prepare(w)
    <3>1. UNCHANGED <<snapshot, seen>>
      BY <2>5 DEF Prepare, fileHistory
    <3>2. Ends(w) \/ (OneWorks(w) /\ IsPrepared(w))
      BY <2>5, PrepareEffect DEF IsPrepared, Goes
    <3> QED
      BY <1>0, <1>1, <3>1, <3>2
  <2>6. CASE WriteText(w)
    <3>1. worker'[w].pc \in {"scan", "wrote"} \/ worker'[w] = NoWork
      BY <2>6, WriteTextEffect
    <3>2. v # w => Beside(worker'[v], worker[v])
      BY <2>6, WriteTextEffect
    <3> QED
      BY <3>1, <3>2, NoWorkRow DEF Elsewhere, Late
  <2>7. CASE PlanPush(w)
    <3>1. CASE Ends(w)
      BY <1>1, <3>1
    <3>2. CASE /\ worker'[w].pc = "upload"
               /\ \A u \in Worker \ {w} : worker'[u] = worker[u] \/ Beside(worker'[u], worker[u])
      BY <3>2, BesideItself DEF Elsewhere, Late
    <3> QED
      BY <2>7, <3>1, <3>2, PlanPushEffect
  <2>8. CASE WriteManifest(w)
    <3>1. OneWorks(w) /\ worker'[w].pc = "save"
      BY <2>8, WriteManifestEffect DEF Goes
    <3> QED
      BY <1>0, <3>1 DEF Elsewhere, Late
  <2>9. ASSUME NEW p \in Path, Upload(w, p) PROVE Beside(worker'[v], worker[v]) \/ Elsewhere(v)
    <3>1. Ends(w) \/ (OneWorks(w) /\ worker'[w].pc = "upload")
      BY <2>9, UploadEffect DEF Goes
    <3> QED
      BY <1>0, <1>1, <3>1 DEF Elsewhere, Late
  <2> QED
    BY <1>2, <2>1, <2>2, <2>3, <2>4, <2>5, <2>6, <2>7, <2>8, <2>9 DEF FileStep
<1>3. ASSUME NEW w \in Worker, Begun(w) PROVE Beside(worker'[v], worker[v]) \/ Elsewhere(v)
  <2>1. CASE v = w
    BY <1>3, <2>1 DEF Begun, Elsewhere, Late
  <2> QED
    BY <1>0, <1>3, <2>1 DEF Begun
<1>4. ASSUME NEW pl \in Place, NEW p \in Path, NEW c \in Content \cup {Missing},
             OthersChange(pl, p, c)
      PROVE  Beside(worker'[v], worker[v])
  BY <1>4, BesideItself DEF OthersChange
<1>5. ASSUME CallCut PROVE Beside(worker'[v], worker[v]) \/ Elsewhere(v)
  <2>1. caller \in Worker
    BY <1>5, CutEffect
  <2>2. CASE worker' = worker
    BY <2>2, BesideItself
  <2>3. CASE OneWorks(caller) /\ worker'[caller] = NoWork
    <3>1. CASE v = caller
      BY <2>3, <3>1, NoWorkRow DEF Elsewhere, Late
    <3> QED
      BY <1>0, <2>1, <2>3, <3>1
  <2> QED
    BY <1>5, <2>2, <2>3, CutEffect
<1> QED
  BY <1>2, <1>3, <1>4, <1>5 DEF FileSteps

(* The snapshot of a change that is alone stays while it is looked at.      *)
LEMMA SnapshotStays ==
    ASSUME FileTypeOK, FileSteps, NEW v \in Worker, Beside(worker'[v], worker[v]),
           worker[v].pc \in Early, worker'[v].alone
    PROVE  snapshot'[worker[v].path] = snapshot[worker[v].path]
<1>1. caller = v /\ worker[v].path \in Path
  BY DEF FileTypeOK
<1>2. worker'[v].pc = worker[v].pc
  BY DEF Beside
<1>3. CASE UNCHANGED <<snapshot, seen>>
  BY <1>3
<1>4. ASSUME NEW w \in Worker, NEW text \in Content, worker[w].path \in Path,
             Recorded(worker[w].path, text), (caller = w /\ worker'[w] = NoWork) \/ WriteText(w)
      PROVE  snapshot'[worker[v].path] = snapshot[worker[v].path]
  <2>1. CASE caller = w /\ worker'[w] = NoWork
    BY <1>1, <1>2, <2>1, NoWorkRow DEF Early
  <2>2. CASE WriteText(w)
    <3>1. worker[w].pc = "write"
      BY <2>2, WriteTextEffect
    <3>2. v # w
      BY <3>1 DEF Early
    <3>3. worker[v].path # worker[w].path
      BY <2>2, <3>2, WriteTextEffect
    <3>4. \A q \in Path \ {worker[w].path} : snapshot'[q] = snapshot[q]
      BY <1>4, RecordedOK
    <3> QED
      BY <1>1, <3>3, <3>4
  <2> QED
    BY <1>4, <2>1, <2>2
<1> QED
  BY <1>3, <1>4, SnapshotSteps

(* PreviewIsKept, thread by thread.                                         *)
Kept(v) ==
    worker[v].previewed # NoText /\ worker[v].expected = NoText /\ worker[v].alone =>
        /\ worker[v].pc \in Early => snapshot[worker[v].path] \in {NoText, worker[v].previewed}
        /\ worker[v].pc = "write" => worker[v].guard \in {NoText, worker[v].previewed}
LEMMA KeptIs == (PreviewIsKept <=> \A v \in Worker : Kept(v))
                /\ (PreviewIsKept' <=> \A v \in Worker : Kept(v)')
  BY DEF PreviewIsKept, Kept

(* Without a hash of its own a change is guarded by the snapshot.           *)
LEMMA GuardOf ==
    ASSUME NEW p, NEW base
    PROVE  Guard(p, base, NoText) = snapshot[p]
  BY DEF Guard

(* What guarded the preview guards the change when it is prepared.          *)
LEMMA PreviewIsKeptStep ==
    ASSUME FileTypeOK, PreviewIsKept, FileSteps
    PROVE  PreviewIsKept'
<1>1. SUFFICES ASSUME NEW v \in Worker PROVE Kept(v)'
  BY KeptIs
<1>2. SUFFICES ASSUME worker'[v].previewed # NoText, worker'[v].expected = NoText, worker'[v].alone
               PROVE  /\ worker'[v].pc \in Early =>
                            snapshot'[worker'[v].path] \in {NoText, worker'[v].previewed}
                      /\ worker'[v].pc = "write" => worker'[v].guard \in {NoText, worker'[v].previewed}
  BY DEF Kept
<1>3. Kept(v)
  BY KeptIs
<1>4. CASE Beside(worker'[v], worker[v])
  <2>1. /\ worker[v].previewed # NoText /\ worker[v].expected = NoText /\ worker[v].alone
        /\ worker'[v].pc = worker[v].pc /\ worker'[v].path = worker[v].path
        /\ worker'[v].guard = worker[v].guard /\ worker'[v].previewed = worker[v].previewed
    BY <1>2, <1>4 DEF Beside
  <2>2. worker[v].pc \in Early => snapshot'[worker[v].path] = snapshot[worker[v].path]
    BY <1>2, <1>4, SnapshotStays
  <2> QED
    BY <1>3, <2>1, <2>2 DEF Kept
<1>5. CASE Elsewhere(v)
  BY <1>2, <1>5 DEF Elsewhere, Late, Early
<1>6. CASE UNCHANGED <<snapshot, seen>> /\ ShownAs(v)
  <2> DEFINE base == TextAt(worker[v].target, worker[v].path)
  <2>1. Guard(worker[v].path, base, NoText) \in {NoText, base}
    BY <1>2, <1>6 DEF ShownAs, Acceptable
  <2>2. snapshot[worker[v].path] \in {NoText, base}
    BY <2>1, GuardOf
  <2> QED
    BY <1>6, <2>2 DEF ShownAs
<1>7. CASE UNCHANGED <<snapshot, seen>> /\ IsApproved(v)
  BY <1>2, <1>3, <1>7 DEF Kept, IsApproved, Early
<1>8. CASE UNCHANGED <<snapshot, seen>> /\ IsPrepared(v)
  <2>1. snapshot[worker[v].path] \in {NoText, worker[v].previewed}
    BY <1>2, <1>3, <1>8 DEF Kept, IsPrepared, Early
  <2>2. worker'[v].guard = snapshot[worker[v].path]
    BY <1>2, <1>8, GuardOf DEF IsPrepared
  <2> QED
    BY <1>8, <2>1, <2>2 DEF IsPrepared, Early
<1> QED
  BY <1>4, <1>5, <1>6, <1>7, <1>8, WorkerSteps

(* The base of a guarded change is the text its guard names.                *)
LEMMA PreparedIsGuardedStep ==
    ASSUME FileTypeOK, SnapshotIsSeen, PreparedIsGuarded, FileSteps
    PROVE  PreparedIsGuarded'
<1>1. SUFFICES ASSUME NEW v \in Worker, worker'[v].pc = "write", worker'[v].expected = NoText,
                      worker'[v].guard # NoText
               PROVE  /\ worker'[v].guard = worker'[v].base
                      /\ <<worker'[v].path, worker'[v].base>> \in seen'
  BY DEF PreparedIsGuarded
<1>2. seen \subseteq seen'
  BY SnapshotsGrow
<1>3. CASE Beside(worker'[v], worker[v])
  BY <1>1, <1>2, <1>3 DEF Beside, PreparedIsGuarded
<1>4. CASE Elsewhere(v)
  BY <1>1, <1>4 DEF Elsewhere, Late
<1>5. CASE UNCHANGED <<snapshot, seen>> /\ IsPrepared(v)
  <2> DEFINE base == TextAt(worker[v].target, worker[v].path)
  <2>1. /\ worker'[v].guard = Guard(worker[v].path, base, NoText) /\ worker'[v].base = base
        /\ Guard(worker[v].path, base, NoText) \in {NoText, base} /\ worker'[v].path = worker[v].path
    BY <1>1, <1>5 DEF IsPrepared, Acceptable
  <2>2. worker'[v].guard = snapshot[worker[v].path] /\ worker'[v].guard = worker'[v].base
    BY <1>1, <2>1, GuardOf
  <2>3. worker[v].path \in Path
    BY <1>5 DEF IsPrepared, FileTypeOK, Early
  <2>4. <<worker[v].path, snapshot[worker[v].path]>> \in seen
    BY <1>1, <2>2, <2>3 DEF SnapshotIsSeen
  <2> QED
    BY <1>5, <2>1, <2>2, <2>4
<1>6. CASE ShownAs(v) \/ IsApproved(v)
  BY <1>1, <1>6 DEF ShownAs, IsApproved
<1> QED
  BY <1>3, <1>4, <1>5, <1>6, WorkerSteps

(* A change is unguarded when it has neither a hash nor a snapshot.         *)
LEMMA GuardedBy ==
    ASSUME FileTypeOK, NEW p \in Path, NEW base \in Content \cup {Missing}, NEW expected
    PROVE  (Guard(p, base, expected) # NoText) <=> (expected # NoText \/ snapshot[p] # NoText)
<1>1. base # NoText
  BY FileAssumption DEF Missing, NoText
<1> QED
  BY <1>1 DEF Guard

(* The configuration does not change.                                       *)
LEMMA ConfigStays == FileSteps => config' = config
  BY DEF FileSteps, FileStep, ReadText, ReadReturns, Preview, Approve, Prepare, WriteText, WriteReturns,

(* What the preview has let pass stays guarded: snapshots are not taken     *)
(* back.                                                                    *)
         PlanPush, WriteManifest, SaveState, RemoteFails, Upload, Begun, OthersChange, CallCut
LEMMA RefusedUnguardedStep ==
    ASSUME FileTypeOK, SnapshotIsSeen, RefusedUnguarded, FileSteps
    PROVE  RefusedUnguarded'
<1>1. SUFFICES ASSUME NEW v \in Worker, ~config.allow_unguarded_write
               PROVE  /\ worker'[v].pc \in {"approve", "prepare"} =>
                            worker'[v].expected # NoText \/ snapshot'[worker'[v].path] # NoText
                      /\ worker'[v].pc = "write" => worker'[v].guard # NoText
  BY ConfigStays DEF RefusedUnguarded
<1>2. /\ worker[v].pc \in {"approve", "prepare"} =>
            worker[v].expected # NoText \/ snapshot[worker[v].path] # NoText
      /\ worker[v].pc = "write" => worker[v].guard # NoText
  BY <1>1 DEF RefusedUnguarded
<1>3. worker[v].pc \in Early => worker[v].path \in Path
  BY DEF FileTypeOK
<1>4. \A p \in Path : snapshot[p] # NoText => snapshot'[p] # NoText
  BY SnapshotsGrow
<1>5. CASE Beside(worker'[v], worker[v])
  BY <1>2, <1>3, <1>4, <1>5 DEF Beside, Early
<1>6. CASE Elsewhere(v)
  BY <1>1, <1>6 DEF Elsewhere, Late
<1> DEFINE base == TextAt(worker[v].target, worker[v].path)
<1>7. worker[v].pc \in Early => base \in Content \cup {Missing}
  BY <1>3, TextIsText
<1>8. CASE UNCHANGED <<snapshot, seen>> /\ ShownAs(v)
  <2>1. Guard(worker[v].path, base, worker[v].expected) # NoText
    BY <1>1, <1>8 DEF ShownAs, Unguarded
  <2>2. worker[v].path \in Path /\ base \in Content \cup {Missing}
    BY <1>3, <1>7, <1>8 DEF ShownAs, Early
  <2> HIDE DEF base
  <2>3. worker[v].expected # NoText \/ snapshot[worker[v].path] # NoText
    BY <2>1, <2>2, GuardedBy
  <2> QED
    BY <1>8, <2>3 DEF ShownAs
<1>9. CASE UNCHANGED <<snapshot, seen>> /\ IsApproved(v)
  BY <1>2, <1>9 DEF IsApproved
<1>10. CASE UNCHANGED <<snapshot, seen>> /\ IsPrepared(v)
  <2>1. worker[v].path \in Path /\ base \in Content \cup {Missing}
    BY <1>3, <1>7, <1>10 DEF IsPrepared, Early
  <2>2. /\ worker'[v].guard = Guard(worker[v].path, base, worker[v].expected)
        /\ worker[v].expected # NoText \/ snapshot[worker[v].path] # NoText
        /\ worker'[v].pc = "write"
    BY <1>2, <1>10 DEF IsPrepared
  <2> HIDE DEF base
  <2> QED
    BY <2>1, <2>2, GuardedBy
<1> QED
  BY <1>5, <1>6, <1>8, <1>9, <1>10, WorkerSteps

(* What reaches a disk.                                                     *)
LEMMA AppliedSteps ==
    ASSUME FileSteps
    PROVE  \/ applied' \in {applied, NoChange}
           \/ \E w \in Worker : WriteText(w)
  BY DEF FileSteps, FileStep, ReadText, ReadReturns, Preview, Approve, Prepare, WriteReturns,
         PlanPush, WriteManifest, SaveState, RemoteFails, Upload, Begun, OthersChange, CallCut,
         fileHistory

(* What is remembered of a change that is written.                          *)
LEMMA ApplyingIs ==
    ASSUME NEW w \in Worker, WriteText(w)
    PROVE  /\ worker[w].pc = "write"
           /\ applied'.base = worker[w].base /\ applied'.guard = worker[w].guard
           /\ applied'.expected = worker[w].expected /\ applied'.previewed = worker[w].previewed
           /\ applied'.alone = worker[w].alone
           /\ \E old : applied'.known = (old # worker[w].base \/ <<worker[w].path, old>> \in seen)
  BY DEF WriteText, Applying

(* The three properties of the writes, from what holds of the change before *)
(* it is written.                                                           *)
GuardsHold == NoBlindOverwrite /\ ApprovedIsApplied /\ UnguardedIsRefused
LEMMA AppliedStep ==
    ASSUME FileTypeOK, PreviewIsKept, PreparedIsGuarded, RefusedUnguarded, GuardsHold, FileSteps
    PROVE  GuardsHold'
<1>0. config' = config
  BY ConfigStays
<1>1. CASE applied' = applied
  BY <1>0, <1>1 DEF GuardsHold, NoBlindOverwrite, ApprovedIsApplied, UnguardedIsRefused
<1>2. CASE applied' = NoChange
  <2>1. applied'.guard = NoText
    BY <1>2 DEF NoChange
  <2> QED
    BY <1>2, <2>1 DEF GuardsHold, NoBlindOverwrite, ApprovedIsApplied, UnguardedIsRefused
<1>3. ASSUME NEW w \in Worker, WriteText(w) PROVE GuardsHold'
  <2>1. NoBlindOverwrite'
    <3>1. SUFFICES ASSUME worker[w].guard # NoText, worker[w].expected = NoText PROVE applied'.known
      BY <1>3, ApplyingIs DEF NoBlindOverwrite
    <3>2. <<worker[w].path, worker[w].base>> \in seen
      BY <1>3, <3>1, ApplyingIs DEF PreparedIsGuarded
    <3> QED
      BY <1>3, <3>2, ApplyingIs
  <2>2. ApprovedIsApplied'
    <3>1. SUFFICES ASSUME worker[w].previewed # NoText, worker[w].guard # NoText,
                          worker[w].expected = NoText, worker[w].alone
                   PROVE  worker[w].previewed = worker[w].base
      BY <1>3, ApplyingIs DEF ApprovedIsApplied
    <3>2. worker[w].pc = "write"
      BY <1>3, ApplyingIs
    <3>3. worker[w].guard = worker[w].base
      BY <3>1, <3>2 DEF PreparedIsGuarded
    <3>4. Kept(w)
      BY KeptIs
    <3> QED
      BY <3>1, <3>2, <3>3, <3>4 DEF Kept
  <2>3. UnguardedIsRefused'
    BY <1>0, <1>3, ApplyingIs DEF RefusedUnguarded, UnguardedIsRefused
  <2> QED
    BY <2>1, <2>2, <2>3 DEF GuardsHold
<1> QED
  BY <1>1, <1>2, <1>3, AppliedSteps

(* Pushes.  Where the mirror changes, the cause is known; only the state    *)
(* that a push stores takes a cause away.                                   *)
CauseKept ==
    /\ manifest' = manifest
    /\ \A p \in Path : \/ cause'[p] # "none"
                       \/ cause'[p] = cause[p] /\ disk'["remote"][p] = disk["remote"][p]
LEMMA CauseUnchanged == UNCHANGED <<manifest, disk, cause>> => CauseKept
  BY DEF CauseKept

(* An upload gives the file a cause.                                        *)
LEMMA CauseUploaded ==
    ASSUME FileTypeOK, NEW p \in Path, NEW scanned, disk["local"][p] # Missing, UNCHANGED manifest,
           Uploaded(p, scanned)
    PROVE  CauseKept /\ cause'[p] # "none"
  BY UploadedEffect DEF CauseKept

(* Every step but the storing of the state keeps the causes.                *)
LEMMA CauseSteps ==
    ASSUME FileTypeOK, FileSteps
    PROVE  CauseKept \/ \E w \in Worker : SaveState(w)
<1>0. RestOK
  BY TypeIs
<1>1. ASSUME NEW w \in Worker, FileStep(w) PROVE CauseKept \/ SaveState(w)
  <2>1. CASE \/ ReadText(w) \/ Preview(w) \/ Approve(w) \/ Prepare(w) \/ PlanPush(w)
             \/ WriteManifest(w) \/ ReadReturns(w) \/ WriteReturns(w)
    <3>1. UNCHANGED <<manifest, disk, cause>>
      BY <2>1 DEF ReadText, Preview, Approve, Prepare, PlanPush, WriteManifest, ReadReturns,
                  WriteReturns, fileHistory
    <3> QED
      BY <3>1, CauseUnchanged
  <2>2. CASE WriteText(w)
    <3> DEFINE t == worker[w]
               text == t.change[t.base]
    <3>1. /\ t.pc = "write" /\ disk' = [disk EXCEPT ![At(t.target)][t.path] = text]
          /\ cause' = IF At(t.target) = "remote" THEN [cause EXCEPT ![t.path] = "direct"] ELSE cause
          /\ manifest' = manifest
      BY <2>2 DEF WriteText, Written
    <3>2. t.path \in Path
      BY <3>1 DEF FileTypeOK
    <3> HIDE DEF text
    <3>3. CASE At(t.target) = "remote"
      BY <1>0, <3>1, <3>2, <3>3 DEF RestOK, CauseKept, Place
    <3>4. CASE At(t.target) # "remote"
      <4>1. disk'["remote"] = disk["remote"] /\ cause' = cause
        BY <1>0, <3>1, <3>4 DEF RestOK, Place
      <4> QED
        BY <3>1, <4>1 DEF CauseKept
    <3> QED
      BY <3>3, <3>4
  <2>3. ASSUME NEW p \in Path, Upload(w, p) PROVE CauseKept
    <3>1. UNCHANGED manifest
      BY <2>3 DEF Upload
    <3> QED
      BY <2>3, <3>1, UploadEffect, CauseUploaded, CauseUnchanged
  <2>4. CASE RemoteFails(w)
    <3>1. UNCHANGED manifest /\ worker[w].todo \subseteq Path
      BY <2>4 DEF RemoteFails, FileTypeOK, WorkRow
    <3> QED
      BY <2>4, <3>1, CauseUploaded, CauseUnchanged DEF RemoteFails
  <2> QED
    BY <1>1, <2>1, <2>2, <2>3, <2>4 DEF FileStep
<1>2. ASSUME NEW w \in Worker, Begun(w) PROVE CauseKept
  BY <1>2, CauseUnchanged DEF Begun
<1>3. ASSUME NEW pl \in Place, NEW p \in Path, NEW c \in Content \cup {Missing},
             OthersChange(pl, p, c)
      PROVE  CauseKept
  BY <1>0, <1>3 DEF OthersChange, RestOK, Place, CauseKept
<1>4. CallCut => CauseKept
  BY CauseUnchanged DEF CallCut, fileHistory
<1> QED
  BY <1>1, <1>2, <1>3, <1>4 DEF FileSteps

(* A worker that uploads after a step did so before, or has just planned.   *)
GoesOn(v) ==
    /\ v \in Uploading /\ (worker'[v].alone => worker[v].alone)
    /\ worker'[v].scan = worker[v].scan /\ worker'[v].prev = worker[v].prev
    /\ worker'[v].tool = worker[v].tool /\ worker'[v].path = worker[v].path
    /\ \A p \in Path : p \in worker[v].todo => p \in worker'[v].todo \/ cause'[p] # "none"
LEMMA BesideGoesOn ==
    ASSUME NEW v \in Worker, v \in Uploading', Beside(worker'[v], worker[v])
    PROVE  GoesOn(v)
  BY DEF Beside, GoesOn, Uploading

(* Nothing else begins to upload.                                           *)
LEMMA PushSteps ==
    ASSUME FileTypeOK, FileSteps, NEW v \in Worker, v \in Uploading'
    PROVE  GoesOn(v) \/ PlanPush(v)
<1>0. worker'[v] # NoWork /\ worker'[v].pc \in {"upload", "save"}
  BY NoWorkRow DEF Uploading
<1>1. SUFFICES ASSUME ~PlanPush(v) PROVE GoesOn(v)
  OBVIOUS
<1>2. GoesOn(v)
  <2>1. CASE Beside(worker'[v], worker[v])
    BY <2>1, BesideGoesOn
  <2>2. ASSUME NEW w \in Worker, OneWorks(w), v # w PROVE GoesOn(v)
    BY <2>2, BesideItself, BesideGoesOn DEF OneWorks
  <2>3. ASSUME NEW w \in Worker, FileStep(w), v = w PROVE GoesOn(v)
    <3>1. ~Ends(v)
      BY <1>0 DEF Ends
    <3>2. ~Done(v)
      BY <3>1, DoneEnds DEF FileTypeOK
    <3>3. WriteManifest(v) => GoesOn(v)
      <4> SUFFICES ASSUME WriteManifest(v) PROVE GoesOn(v)
        OBVIOUS
      <4> QED
        BY WriteManifestEffect DEF GoesOn, Uploading
    <3>4. ASSUME NEW p \in Path, Upload(v, p) PROVE GoesOn(v)
      <4>1. /\ worker[v].pc = "upload" /\ worker'[v].todo = worker[v].todo \ {p}
            /\ worker'[v].tool = worker[v].tool /\ worker'[v].path = worker[v].path
            /\ worker'[v].scan = worker[v].scan /\ worker'[v].prev = worker[v].prev
            /\ worker'[v].alone = worker[v].alone
            /\ disk["local"][p] # Missing
            /\ Uploaded(p, worker[v].scan[p])
        BY <3>1, <3>4, UploadEffect
      <4>2. cause'[p] # "none"
        BY <4>1, UploadedEffect
      <4> QED
        BY <4>1, <4>2 DEF GoesOn, Uploading
    <3>5. ~ReadText(v) /\ ~Preview(v) /\ ~Approve(v) /\ ~Prepare(v)
      BY <1>0, <3>1, ReadTextEffect, PreviewEffect, ApproveEffect, PrepareEffect
    <3>6. ~WriteText(v)
      BY <1>0, WriteTextEffect
    <3>7. ~ReadReturns(v) /\ ~WriteReturns(v) /\ ~SaveState(v) /\ ~RemoteFails(v)
      BY <3>2 DEF ReadReturns, WriteReturns, SaveState, RemoteFails
    <3> QED
      BY <1>1, <2>3, <3>3, <3>4, <3>5, <3>6, <3>7 DEF FileStep
  <2>4. ASSUME NEW w \in Worker, FileStep(w), v # w PROVE GoesOn(v)
    <3>1. CASE WriteText(w)
      BY <2>1, <2>4, <3>1, WriteTextEffect
    <3>2. CASE PlanPush(w)
      <4>1. Ends(w) \/ worker'[v] = worker[v] \/ Beside(worker'[v], worker[v])
        BY <2>4, <3>2, PlanPushEffect
      <4> QED
        BY <2>1, <2>2, <2>4, <4>1, BesideItself DEF Ends
    <3>3. CASE ReadReturns(w) \/ WriteReturns(w) \/ SaveState(w) \/ RemoteFails(w)
      <4>1. Done(w)
        BY <3>3 DEF ReadReturns, WriteReturns, SaveState, RemoteFails
      <4> QED
        BY <2>2, <2>4, <4>1, DoneEnds DEF FileTypeOK, Ends
    <3>4. CASE ReadText(w) \/ Preview(w) \/ Approve(w) \/ Prepare(w) \/ WriteManifest(w)
      <4>1. Ends(w) \/ Goes(w)
        BY <3>4, ReadTextEffect, PreviewEffect, ApproveEffect, PrepareEffect, WriteManifestEffect
      <4> QED
        BY <2>2, <2>4, <4>1 DEF Ends, Goes
    <3>5. ASSUME NEW p \in Path, Upload(w, p) PROVE GoesOn(v)
      <4>1. Ends(w) \/ Goes(w)
        BY <3>5, UploadEffect
      <4> QED
        BY <2>2, <2>4, <4>1 DEF Ends, Goes
    <3> QED
      BY <2>4, <3>1, <3>2, <3>3, <3>4, <3>5 DEF FileStep
  <2>5. ASSUME NEW w \in Worker, Begun(w) PROVE GoesOn(v)
    BY <1>0, <2>2, <2>5 DEF Begun
  <2>6. ASSUME NEW pl \in Place, NEW p \in Path, NEW c \in Content \cup {Missing},
               OthersChange(pl, p, c)
        PROVE  GoesOn(v)
    BY <2>1, <2>6, BesideItself DEF OthersChange
  <2>7. CallCut => GoesOn(v)
    <3> SUFFICES ASSUME CallCut PROVE GoesOn(v)
      OBVIOUS
    <3> QED
      BY <1>0, <2>1, <2>2, CutEffect, BesideItself
  <2> QED
    BY <2>3, <2>4, <2>5, <2>6, <2>7 DEF FileSteps
<1> QED
  BY <1>2

(* A push that has planned finds every other push in its way.              *)
LEMMA PlannedAmongRivals ==
    ASSUME FileTypeOK, NEW w \in Worker, PlanPush(w), NEW v \in Worker \ {w},
           w \in Uploading', v \in Uploading'
    PROVE  worker'[v].alone = FALSE /\ ~worker'[w].alone
<1>1. worker'[w].pc \in {"upload", "save"} /\ worker'[v].pc \in {"upload", "save"}
  BY DEF Uploading
<1>2. ~Ends(w)
  BY <1>1, NoWorkRow DEF Ends
<1>3. \/ v \notin Rivals(w) /\ worker'[v] = worker[v]
      \/ v \in Rivals(w) /\ worker'[v].alone = FALSE
  BY <1>2, PlanPushEffect
<1>4. v \notin Rivals(w) => worker[v].pc \notin {"upload", "save"}
  BY DEF Rivals, Pushing
<1>5. worker'[w].alone => Rivals(w) = {}
  BY <1>2, PlanPushEffect
<1> QED
  BY <1>1, <1>3, <1>4, <1>5

(* Two pushes never upload side by side and both count as alone.           *)
LEMMA PushesAloneStep ==
    ASSUME FileTypeOK, PushesAlone, FileSteps
    PROVE  PushesAlone'
<1> SUFFICES ASSUME NEW u \in Uploading', NEW v \in Uploading', worker'[u].alone, u # v
             PROVE  FALSE
  BY DEF PushesAlone
<1>1. u \in Worker /\ v \in Worker
  BY DEF Uploading
<1>2. CASE PlanPush(u)
  BY <1>1, <1>2, PlannedAmongRivals
<1>3. CASE PlanPush(v)
  BY <1>1, <1>3, PlannedAmongRivals
<1>4. CASE GoesOn(u) /\ GoesOn(v)
  BY <1>4 DEF GoesOn, PushesAlone
<1> QED
  BY <1>1, <1>2, <1>3, <1>4, PushSteps

(* A push that is alone keeps the manifest it has planned with: nobody but *)
(* another push stores one.                                                *)
LEMMA AloneKeepsManifest ==
    ASSUME FileTypeOK, PushesAlone, FileSteps, NEW v \in Worker, v \in Uploading', GoesOn(v),
           worker'[v].alone
    PROVE  CauseKept
<1> SUFFICES ASSUME NEW w \in Worker, SaveState(w) PROVE FALSE
  BY CauseSteps
<1>1. worker[w].pc = "save" /\ Done(w)
  BY DEF SaveState
<1>2. w \in Uploading
  BY <1>1 DEF Uploading
<1>3. v = w
  BY <1>2 DEF GoesOn, PushesAlone
<1>4. worker'[w] = NoWork
  BY <1>1, DoneEnds DEF FileTypeOK, Ends
<1> QED
  BY <1>3, <1>4, NoWorkRow DEF Uploading

(* PushIsWhole, push by push.                                               *)
Whole(v) ==
    worker[v].alone =>
        /\ worker[v].prev = manifest
        /\ \A p \in Uploads(worker[v].scan, worker[v].prev) :
              worker[v].tool = "push" \/ p = worker[v].path => p \in worker[v].todo \/ cause[p] # "none"
LEMMA WholeIs == /\ PushIsWhole <=> \A v \in Uploading : Whole(v)
                 /\ PushIsWhole' <=> \A v \in Uploading' : Whole(v)'
  BY DEF PushIsWhole, Whole

(* A push that is alone stays whole.                                        *)
LEMMA PushIsWholeStep ==
    ASSUME FileTypeOK, PushesAlone, PushIsWhole, FileSteps
    PROVE  PushIsWhole'
<1> SUFFICES ASSUME NEW v \in Uploading', worker'[v].alone PROVE Whole(v)'
  BY WholeIs DEF Whole
<1>0. v \in Worker
  BY DEF Uploading
<1>1. CASE PlanPush(v)
  <2>1. ~Ends(v)
    BY <1>0, NoWorkRow DEF Ends, Uploading
  <2>2. /\ worker'[v].scan = Scan /\ worker'[v].prev = manifest
        /\ worker'[v].tool = worker[v].tool /\ worker'[v].path = worker[v].path
        /\ \A p \in Plan : worker[v].tool = "push" \/ p = worker[v].path => p \in worker'[v].todo
    BY <1>0, <1>1, <2>1, PlanPushEffect
  <2>3. manifest' = manifest
    BY <1>1 DEF PlanPush
  <2>4. Uploads(worker'[v].scan, worker'[v].prev) = Plan
    BY <2>2, PlanIs
  <2>5. Uploads(worker[v].scan, worker[v].prev)' = Uploads(worker'[v].scan, worker'[v].prev)
    BY DEF Uploads
  <2> QED
    BY <2>2, <2>3, <2>4, <2>5 DEF Whole
<1>2. CASE GoesOn(v)
  <2>1. /\ v \in Uploading /\ worker[v].alone
        /\ worker'[v].scan = worker[v].scan /\ worker'[v].prev = worker[v].prev
        /\ worker'[v].tool = worker[v].tool /\ worker'[v].path = worker[v].path
        /\ \A p \in Path : p \in worker[v].todo => p \in worker'[v].todo \/ cause'[p] # "none"
    BY <1>2 DEF GoesOn
  <2>2. CauseKept
    BY <1>0, <1>2, AloneKeepsManifest
  <2>3. /\ manifest' = manifest
        /\ \A p \in Path : cause[p] # "none" => cause'[p] # "none"
    BY <2>2 DEF CauseKept
  <2>4. /\ worker[v].prev = manifest
        /\ \A p \in Uploads(worker[v].scan, worker[v].prev) :
              worker[v].tool = "push" \/ p = worker[v].path => p \in worker[v].todo \/ cause[p] # "none"
    BY <2>1, WholeIs DEF Whole
  <2>5. /\ Uploads(worker'[v].scan, worker'[v].prev) = Uploads(worker[v].scan, worker[v].prev)
        /\ Uploads(worker[v].scan, worker[v].prev) \subseteq Path
    BY <2>1 DEF Uploads
  <2>6. Uploads(worker[v].scan, worker[v].prev)' = Uploads(worker'[v].scan, worker'[v].prev)
    BY DEF Uploads
  <2> QED
    BY <2>1, <2>3, <2>4, <2>5, <2>6 DEF Whole
<1> QED
  BY <1>0, <1>1, <1>2, PushSteps

(* The mirror differs from the manifest only for a known cause.            *)
LEMMA SaveKeepsCauses ==
    ASSUME FileTypeOK, PushIsWhole, DriftHasCause, NEW w \in Worker, SaveState(w)
    PROVE  DriftHasCause'
<1> DEFINE scan == worker[w].scan
           left == IF worker[w].tool = "push" THEN {}
                   ELSE Uploads(scan, worker[w].prev) \ {worker[w].path}
<1>1. /\ worker[w].pc = "save" /\ manifest' = scan /\ disk' = disk
      /\ \A p \in Path : scan[p] \notin {NoText, disk["remote"][p]} =>
            cause'[p] = IF p \in left THEN "not pushed"
                        ELSE IF worker[w].alone THEN cause[p] ELSE "overlap"
  BY DEF SaveState, Saved
<1>2. w \in Uploading /\ worker[w].todo = {}
  BY <1>1 DEF Uploading, FileTypeOK
<1> SUFFICES ASSUME NEW p \in Path, scan[p] \notin {NoText, disk["remote"][p]}
             PROVE  cause'[p] # "none"
  BY <1>1 DEF DriftHasCause
<1>3. CASE p \in left \/ ~worker[w].alone
  BY <1>1, <1>3
<1>4. CASE p \notin left /\ worker[w].alone
  <2>1. cause'[p] = cause[p]
    BY <1>1, <1>4
  <2>2. worker[w].prev = manifest
    BY <1>2, <1>4, WholeIs DEF Whole
  <2>3. CASE p \in Uploads(scan, worker[w].prev)
    <3>1. worker[w].tool = "push" \/ p = worker[w].path
      BY <1>4, <2>3
    <3>2. p \in worker[w].todo \/ cause[p] # "none"
      BY <1>2, <1>4, <2>3, <3>1, WholeIs DEF Whole
    <3> QED
      BY <1>2, <2>1, <3>2
  <2>4. CASE p \notin Uploads(scan, worker[w].prev)
    <3>1. scan[p] = manifest[p]
      BY <2>2, <2>4 DEF Uploads
    <3> QED
      BY <2>1, <3>1 DEF DriftHasCause
  <2> QED
    BY <2>3, <2>4
<1> QED
  BY <1>3, <1>4

(* No step lets the mirror drift without a cause.                           *)
LEMMA DriftHasCauseStep ==
    ASSUME FileTypeOK, PushIsWhole, DriftHasCause, FileSteps
    PROVE  DriftHasCause'
<1>1. ASSUME CauseKept PROVE DriftHasCause'
  BY <1>1 DEF CauseKept, DriftHasCause
<1> QED
  BY <1>1, CauseSteps, SaveKeepsCauses

-----------------------------------------------------------------------------
(* FileInv holds at first and every step keeps it.                         *)
LEMMA FileInitInv == FileInit => FileInv
<1> SUFFICES ASSUME FileInit PROVE FileInv
  OBVIOUS
<1>1. worker \in [Worker -> WorkRow] /\ \A w \in Worker : worker[w] = NoWork
  BY NoWorkRow DEF FileInit
<1>2. /\ caller = NoOne /\ seen = {} /\ applied = NoChange /\ calls = 0 /\ changes = 0
      /\ failures = 0 /\ cause = [p \in Path |-> "none"]
      /\ config \in [approval : BOOLEAN, allow_unguarded_write : BOOLEAN]
      /\ \A p \in Path : snapshot[p] = NoText /\ manifest[p] = NoText
  BY DEF FileInit, Empty
<1>3. snapshot \in Known /\ manifest \in Known
  BY DEF FileInit, Empty, Known
<1>4. disk \in [Place -> [Path -> Content \cup {Missing}]]
  BY DEF FileInit
<1>5. applied \in ChangeRow
  BY <1>2 DEF NoChange, ChangeRow
<1>6. /\ calls \in 0..MaxCalls /\ changes \in 0..MaxChanges /\ failures \in 0..MaxFailures
  BY <1>2, FileAssumption
<1>7. cause \in [Path -> Cause] /\ seen \subseteq Path \X Content
  BY <1>2 DEF Cause
<1>8. WorkersOK
  BY <1>1, <1>2, NoWorkRow DEF WorkersOK, WorkOK, Early
<1>9. RestOK
  BY <1>2, <1>3, <1>4, <1>5, <1>6, <1>7 DEF RestOK
<1>10. FileTypeOK
  BY <1>8, <1>9, TypeIs
<1>11. SnapshotIsSeen /\ DriftHasCause
  BY <1>2 DEF SnapshotIsSeen, DriftHasCause
<1>12. PreviewIsKept
  BY <1>1, NoWorkRow DEF PreviewIsKept
<1>13. PreparedIsGuarded /\ RefusedUnguarded
  BY <1>1, NoWorkRow DEF PreparedIsGuarded, RefusedUnguarded
<1>14. PushesAlone /\ PushIsWhole
  BY <1>1, NoWorkRow DEF PushesAlone, PushIsWhole, Uploading
<1>15. NoBlindOverwrite /\ ApprovedIsApplied /\ UnguardedIsRefused
  BY <1>2 DEF NoBlindOverwrite, ApprovedIsApplied, UnguardedIsRefused, NoChange
<1> QED
  BY <1>10, <1>11, <1>12, <1>13, <1>14, <1>15 DEF FileInv

(* Every step keeps FileInv, part by part.                                  *)
LEMMA FileInvStep ==
    ASSUME FileInv, FileNext
    PROVE  FileInv'
<1>1. /\ FileTypeOK /\ SnapshotIsSeen /\ PreviewIsKept /\ PreparedIsGuarded /\ RefusedUnguarded
      /\ PushesAlone /\ PushIsWhole /\ DriftHasCause
      /\ NoBlindOverwrite /\ ApprovedIsApplied /\ UnguardedIsRefused
  BY DEF FileInv
<1>2. FileSteps
  BY <1>1, NextIsSteps
<1>3. FileTypeOK' /\ SnapshotIsSeen'
  BY <1>1, <1>2, FileTypeStep, SnapshotsGrow
<1>4. PreviewIsKept' /\ PreparedIsGuarded' /\ RefusedUnguarded'
  BY <1>1, <1>2, PreviewIsKeptStep, PreparedIsGuardedStep, RefusedUnguardedStep
<1>5. PushesAlone' /\ PushIsWhole' /\ DriftHasCause'
  BY <1>1, <1>2, PushesAloneStep, PushIsWholeStep, DriftHasCauseStep
<1>6. GuardsHold
  BY <1>1 DEF GuardsHold
<1>7. GuardsHold'
  BY <1>1, <1>2, <1>6, AppliedStep
<1>8. NoBlindOverwrite' /\ ApprovedIsApplied' /\ UnguardedIsRefused'
  BY <1>7 DEF GuardsHold
<1> QED
  BY <1>3, <1>4, <1>5, <1>8 DEF FileInv

(* Stuttering keeps it.                                                     *)
LEMMA FileInvStays == FileInv /\ UNCHANGED fileVars => FileInv'
<1> SUFFICES ASSUME FileInv, UNCHANGED fileVars PROVE FileInv'
  OBVIOUS
<1>1. UNCHANGED <<disk, snapshot, manifest, config, worker, caller, calls, changes, failures,
                  seen, applied, cause>>
  BY DEF fileVars, fileBounds, fileHistory
<1>2. FileTypeOK' /\ SnapshotIsSeen' /\ DriftHasCause'
  BY <1>1 DEF FileInv, FileTypeOK, SnapshotIsSeen, DriftHasCause
<1>3. PreviewIsKept' /\ PreparedIsGuarded' /\ RefusedUnguarded'
  BY <1>1 DEF FileInv, PreviewIsKept, PreparedIsGuarded, RefusedUnguarded
<1>4. PushesAlone' /\ PushIsWhole'
  BY <1>1 DEF FileInv, PushesAlone, PushIsWhole, Uploading, Uploads
<1>5. NoBlindOverwrite' /\ ApprovedIsApplied' /\ UnguardedIsRefused'
  BY <1>1 DEF FileInv, NoBlindOverwrite, ApprovedIsApplied, UnguardedIsRefused
<1> QED
  BY <1>2, <1>3, <1>4, <1>5 DEF FileInv

(* Every behaviour of the file tools and the sync engine keeps FileInv.    *)
THEOREM FileInvariant == FileSpec => []FileInv
<1>1. FileInv /\ [FileNext]_fileVars => FileInv'
  BY FileInvStep, FileInvStays
<1> QED
  BY FileInitInv, <1>1, PTL DEF FileSpec

(* Type correctness: among the rest, only the thread the agent waits for   *)
(* reads, previews or prepares, a change that is about to be written       *)
(* yields a text, and a push that stores its state has nothing left to     *)
(* upload.                                                                 *)
THEOREM FileTypeCorrect == FileSpec => []FileTypeOK
<1>1. FileInv => FileTypeOK
  BY DEF FileInv
<1> QED
  BY FileInvariant, <1>1, PTL

(* What a person approved is what write_file and edit_file do, whatever    *)
(* people, tasks and threads of cut calls do while the approval is open.   *)
THEOREM ApprovalsAreApplied == FileSpec => []ApprovedIsApplied
<1>1. FileInv => ApprovedIsApplied
  BY DEF FileInv
<1> QED
  BY FileInvariant, <1>1, PTL

(* A write is guarded where the configuration or a snapshot guards it: no  *)
(* text the agent never saw is destroyed under a snapshot's guard, and     *)
(* allow_unguarded_write = false is kept though the second preparation     *)
(* does not look at it.                                                    *)
THEOREM WritesStayGuarded == FileSpec => []WritesAreGuarded
<1>1. FileInv => WritesAreGuarded
  BY DEF FileInv, WritesAreGuarded
<1> QED
  BY FileInvariant, <1>1, PTL

(* The mirror drifts from the stored manifest only for one of the listed   *)
(* causes, for every number of threads, pushes and outside changes.        *)
THEOREM DriftIsExplained == FileSpec => []DriftHasCause
<1>1. FileInv => DriftHasCause
  BY DEF FileInv
<1> QED
  BY FileInvariant, <1>1, PTL
===============================================================================
