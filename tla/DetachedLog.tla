------------------------------ MODULE DetachedLog ------------------------------
(***************************************************************************)
(* The output of a detached task: the log file the command appends to, the *)
(* _run task of the handle that tails it in chunks, TaskService.on_output, *)
(* the rows of LogRepository, and the resume offset a restarted runtime    *)
(* computes from them.                                                     *)
(*                                                                         *)
(* The command runs in a session of its own under a launcher, which writes *)
(* the status file when the command ends.  A launcher that is killed       *)
(* writes none and may leave the command printing; _run takes it for ended *)
(* once its pid no longer answers, which a zombie or a reused pid does.    *)
(*                                                                         *)
(* The file is a sequence of bytes: "a" is a one-byte character, "H" "L"   *)
(* the two bytes of one character.  A row records which bytes of the file  *)
(* its chunk was decoded from and the offset stored with it, which counts  *)
(* decoded characters.                                                     *)
(***************************************************************************)
EXTENDS Naturals, Sequences, FiniteSets

CONSTANTS
    ChunkSize,   \* bytes of one read (4096 in the code)
    MaxBytes,    \* bound on the size of the log file
    MaxCrashes   \* bound on the crashes and shutdowns of the runtime

ASSUME LogAssumption ==
    /\ ChunkSize \in Nat \ {0}
    /\ MaxBytes \in Nat
    /\ MaxCrashes \in Nat

Byte == {"a", "H", "L"}
Character == {<<"a">>, <<"H", "L">>}

VARIABLES
    file,      \* the log file
    exited,    \* the command ended
    killed,    \* the launcher died before it could write the status file
    up,        \* the runtime runs
    crashes,
    rows,      \* the rows of LogRepository for this task, in insertion order
    final,     \* how the task record became terminal
    tail,      \* where the _run task is
    draining,  \* _run has seen the completion
    printed,   \* history: the size of the file when it did
    offset,    \* the byte position of _run
    counter,   \* on_output's offset_counter["stdout"]
    chunk      \* the row on_output is about to append

vars == <<file, exited, killed, up, crashes, rows, final, tail, draining, printed, offset,
          counter, chunk>>

Row == [offset : Nat, from : Nat, to : Nat]
NoChunk == [offset |-> 0, from |-> 0, to |-> 0]

TypeOK ==
    /\ file \in Seq(Byte)
    /\ exited \in BOOLEAN /\ killed \in BOOLEAN /\ up \in BOOLEAN /\ draining \in BOOLEAN
    /\ crashes \in 0..MaxCrashes
    /\ rows \in Seq(Row)
    /\ final \in {"running", "watched", "reconciled", "cancelled"}
    /\ tail \in {"off", "read", "append", "check", "resolved"}
    /\ printed \in Nat /\ offset \in Nat /\ counter \in Nat
    /\ chunk \in Row

Init ==
    /\ file = <<>> /\ exited = FALSE /\ killed = FALSE
    /\ up = TRUE /\ crashes = 0
    /\ rows = <<>> /\ final = "running"
    /\ tail = "read" /\ draining = FALSE /\ printed = 0
    /\ offset = 0 /\ counter = 0 /\ chunk = NoChunk

-----------------------------------------------------------------------------
(* len(bytes.decode("utf-8", errors="replace")): the two bytes of one      *)
(* character make one character; a byte cut off from its partner makes one *)
(* replacement character.                                                  *)
Decoded(from, to) ==
    LET pairs == {i \in from + 1 .. to : i < to /\ file[i] = "H" /\ file[i + 1] = "L"}
    IN  (to - from) - Cardinality(pairs)

(* LogRepository.resume_offset: the row with the greatest offset gives its *)
(* offset plus the length of its chunk.  Both count characters, and the    *)
(* caller seeks to it as a position in bytes.                              *)
ResumeAt(row) == row.offset + Decoded(row.from, row.to)
LastRows == {i \in 1..Len(rows) : \A j \in 1..Len(rows) : rows[j].offset <= rows[i].offset}
(* Mutation of ResumeOffsets: the start of the last chunk.                 *)
ResumeAtChunkStart == IF rows = <<>> THEN {0} ELSE {rows[i].offset : i \in LastRows}
ResumeOffsets == IF rows = <<>> THEN {0} ELSE {ResumeAt(rows[i]) : i \in LastRows}

-----------------------------------------------------------------------------
(* The status file exists.                                                 *)
Status == exited /\ ~killed

(* The command prints a character.                                         *)
CommandPrints(c) ==
    /\ ~exited
    /\ Len(file) + Len(c) <= MaxBytes
    /\ file' = file \o c
    /\ UNCHANGED <<exited, killed, up, crashes, rows, final, tail, draining, printed, offset, counter, chunk>>

Exit ==
    /\ ~exited
    /\ exited' = TRUE
    /\ UNCHANGED <<file, killed, up, crashes, rows, final, tail, draining, printed, offset, counter, chunk>>

(* The launcher dies (kill -9, out of memory); the command goes on.        *)
LauncherDies ==
    /\ ~exited /\ ~killed
    /\ killed' = TRUE
    /\ UNCHANGED <<file, exited, up, crashes, rows, final, tail, draining, printed, offset, counter, chunk>>

(* _run reads the next bytes; on_output takes the counter as the chunk's   *)
(* offset and advances it by the decoded length before it stores the row.  *)
ChunkEnd == IF Len(file) - offset <= ChunkSize THEN Len(file) ELSE offset + ChunkSize

TailRead ==
    /\ tail = "read"
    /\ offset < Len(file)
    /\ chunk' = [offset |-> counter, from |-> offset, to |-> ChunkEnd]
    /\ counter' = counter + Decoded(offset, ChunkEnd)
    /\ offset' = ChunkEnd
    /\ tail' = "append"
    /\ UNCHANGED <<file, exited, killed, up, crashes, rows, final, draining, printed>>

TailAppend ==
    /\ tail = "append"
    /\ rows' = Append(rows, chunk)
    /\ chunk' = NoChunk
    /\ tail' = "read"
    /\ UNCHANGED <<file, exited, killed, up, crashes, final, draining, printed, offset, counter>>

(* No bytes left: in the drain the future is resolved, otherwise the       *)
(* completion is checked.                                                  *)
TailEmpty ==
    /\ tail = "read"
    /\ offset >= Len(file)
    /\ tail' = IF draining THEN "resolved" ELSE "check"
    /\ UNCHANGED <<file, exited, killed, up, crashes, rows, final, draining, printed, offset, counter, chunk>>

(* Mutation of TailCheck: the completion resolves the future at once,      *)
(* without the drain.                                                      *)
TailCheckResolves ==
    /\ tail = "check"
    /\ \/ (Status \/ killed) /\ tail' = "resolved" /\ printed' = Len(file)
       \/ ~Status /\ tail' = "read" /\ UNCHANGED printed
    /\ UNCHANGED <<file, exited, killed, up, crashes, rows, final, draining, offset, counter, chunk>>

(* Mutation of TailCheck: the loop never looks at the status file.         *)
TailCheckForgotten ==
    /\ tail = "check"
    /\ tail' = "read"
    /\ UNCHANGED <<file, exited, killed, up, crashes, rows, final, draining, printed, offset, counter, chunk>>

(* _check_completion: the status file, or a launcher that answers no       *)
(* signal; a dead one may still answer.                                    *)
TailCheck ==
    /\ tail = "check"
    /\ tail' = "read"
    /\ \/ (Status \/ killed) /\ draining' = TRUE /\ printed' = Len(file)
       \/ ~Status /\ UNCHANGED <<draining, printed>>
    /\ UNCHANGED <<file, exited, killed, up, crashes, rows, final, offset, counter, chunk>>

(* The watcher closes the handle and stores the outcome: the exit code of  *)
(* the status file, or LOST without one.                                   *)
Finish ==
    /\ tail = "resolved"
    /\ tail' = "off"
    /\ final' = "watched"
    /\ UNCHANGED <<file, exited, killed, up, crashes, rows, draining, printed, offset, counter, chunk>>

(* cancel() that gets no completion within its timeout: the launcher's     *)
(* group is killed, close() cancels _run at its await, and the task is     *)
(* stored CANCELLED.  One that is answered in time ends as Finish does; a  *)
(* reattached task cannot be cancelled.                                    *)
CancelTimesOut ==
    /\ crashes = 0
    /\ tail \in {"read", "append", "check"}
    /\ tail' = "off"
    /\ final' = "cancelled"
    /\ killed' = (killed \/ ~exited)
    /\ chunk' = NoChunk
    /\ UNCHANGED <<file, exited, up, crashes, rows, draining, printed, offset, counter>>

(* A crash, or close() at shutdown, which cancels _run at its await: the   *)
(* chunk in on_output's hands is stored or lost.                           *)
Crash ==
    /\ up
    /\ crashes < MaxCrashes
    /\ crashes' = crashes + 1
    /\ up' = FALSE
    /\ tail' = "off"
    /\ draining' = FALSE
    /\ chunk' = NoChunk
    /\ UNCHANGED <<file, exited, killed, rows, final, printed, offset, counter>>

(* reattach_on_startup with a status file: the outcome is stored and no    *)
(* handle is created.                                                      *)
ReattachFinished ==
    /\ ~up /\ final = "running"
    /\ Status
    /\ up' = TRUE
    /\ final' = "reconciled"
    /\ UNCHANGED <<file, exited, killed, crashes, rows, tail, draining, printed, offset, counter, chunk>>

(* reattach_on_startup of a live task: the file is tailed from the resume  *)
(* offset, which also seeds the counter.                                   *)
ReattachAlive ==
    /\ ~up /\ final = "running"
    /\ ~Status
    /\ up' = TRUE
    /\ tail' = "read"
    /\ \E n \in ResumeOffsets : offset' = n /\ counter' = n
    /\ UNCHANGED <<file, exited, killed, crashes, rows, final, draining, printed, chunk>>

(* reattach_on_startup of a task whose launcher is gone: it is LOST.       *)
ReattachGone ==
    /\ ~up /\ final = "running"
    /\ ~Status /\ killed
    /\ up' = TRUE
    /\ final' = "reconciled"
    /\ UNCHANGED <<file, exited, killed, crashes, rows, tail, draining, printed, offset, counter, chunk>>

(* A terminal record is not reconciled.                                    *)
BootTerminal ==
    /\ ~up /\ final # "running"
    /\ up' = TRUE
    /\ UNCHANGED <<file, exited, killed, crashes, rows, final, tail, draining, printed, offset, counter, chunk>>

-----------------------------------------------------------------------------
TailStep == TailRead \/ TailAppend \/ TailEmpty \/ TailCheck \/ Finish
Boot == ReattachFinished \/ ReattachAlive \/ ReattachGone \/ BootTerminal

Next ==
    \/ \E c \in Character : CommandPrints(c)
    \/ Exit \/ LauncherDies \/ TailStep \/ CancelTimesOut \/ Crash \/ Boot

Spec == Init /\ [][Next]_vars

(* The event loop runs _run and the watcher.                               *)
FairSpec == Spec /\ WF_vars(TailStep)

-----------------------------------------------------------------------------
Stored == IF rows = <<>> THEN 0 ELSE rows[Len(rows)].to

(* As long as the command prints one-byte characters, the stored rows are  *)
(* the file's bytes from its beginning, each byte exactly once and in      *)
(* order: nothing is lost or stored twice by a crash between the read and  *)
(* the insert, or by the resume after it.                                  *)
OneByte == \A i \in 1..Len(file) : file[i] = "a"
Consecutive ==
    \A i \in 1..Len(rows) : rows[i].from = IF i = 1 THEN 0 ELSE rows[i - 1].to
LogIsPrefix == OneByte => Consecutive

(* "Resolving only after the drain guarantees the watcher cannot close the *)
(* handle and truncate the final output": when a watcher has finalized the *)
(* task, everything printed before it saw the completion is stored, and    *)
(* all of the output if the status file ended the task.  What a command    *)
(* prints after its launcher was found dead is not waited for, and a       *)
(* cancel that times out cuts the output off.                              *)
WatchedIsComplete ==
    final = "watched" => Stored >= printed /\ (Status => Stored = Len(file))

(* get_task_logs sorts by offset: that is the order in which the chunks    *)
(* were stored, also across restarts and with characters of any width.     *)
OffsetsIncrease ==
    \A i, j \in 1..Len(rows) : i < j => rows[i].offset < rows[j].offset

(* The stored log is the output: a prefix of it, in order, and all of it   *)
(* when a watcher has finalized the task.                                  *)
LogIsFaithful == LogIsPrefix /\ OffsetsIncrease /\ WatchedIsComplete

(* While the runtime is up, a task with a status file is finalized in the  *)
(* end.                                                                    *)
OutputIsStored ==
    (Status /\ up) ~> (~up \/ final # "running")

(* LogRepository.resume_offset: "already-persisted bytes are not           *)
(* re-appended".                                                           *)
NotReappended ==
    \A i, j \in 1..Len(rows) : i < j => rows[i].to <= rows[j].from

-----------------------------------------------------------------------------
(* The inductive invariant.  A stored offset, which counts characters,     *)
(* never passes the byte position of its chunk, and the counter is always  *)
(* behind the offsets already stored.                                      *)
RowsInv ==
    \A i \in 1..Len(rows) :
        /\ rows[i].from < rows[i].to /\ rows[i].to <= Len(file)
        /\ rows[i].offset <= rows[i].from

(* Between two chunks the tailer is where the last row ends, or, after a   *)
(* resume at a character count, somewhere before the end of the file.      *)
TailInv ==
    /\ tail \in {"read", "check", "resolved"} =>
          /\ counter <= offset /\ offset <= Len(file)
          /\ \A i \in 1..Len(rows) : rows[i].offset < counter
          /\ offset = Stored \/ offset < Len(file)
    /\ tail = "append" =>
          /\ chunk.offset <= chunk.from /\ chunk.from < chunk.to /\ chunk.to <= Len(file)
          /\ \A i \in 1..Len(rows) : rows[i].offset < chunk.offset
          /\ chunk.offset < counter /\ counter <= offset /\ offset = chunk.to
    /\ ~up => tail = "off"

DrainInv ==
    /\ draining \/ tail = "resolved" \/ final = "watched" => exited \/ killed
    /\ printed <= Len(file)
    /\ tail = "resolved" =>
          /\ offset = Stored /\ printed <= offset
          /\ Status => offset = Len(file)
    /\ final # "running" => tail = "off"

(* With one-byte characters the offsets are byte positions, and the tailer *)
(* goes on exactly where the last row ends.                                *)
ByteOffsets ==
    OneByte =>
        /\ \A i \in 1..Len(rows) : rows[i].offset = rows[i].from
        /\ tail \in {"read", "check", "resolved"} => offset = Stored /\ counter = Stored
        /\ tail = "append" =>
              chunk.from = Stored /\ chunk.offset = Stored /\ counter = chunk.to

LogInv ==
    /\ RowsInv /\ OffsetsIncrease /\ TailInv /\ DrainInv
    /\ LogIsPrefix /\ ByteOffsets /\ WatchedIsComplete
=============================================================================
