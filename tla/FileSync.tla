------------------------------- MODULE FileSync -------------------------------
(***************************************************************************)
(* The file tools of the harness - read_file, write_file, edit_file on the *)
(* local disk, the remote one or, with target "sync", the local one and    *)
(* its remote mirror - and the sync engine: sync_push and push_file.       *)
(*                                                                         *)
(* The agent makes one call at a time; a call that times out leaves its    *)
(* thread behind, so two of them can overlap.  People, tasks and terminals *)
(* change the files whenever they like.                                    *)
(*                                                                         *)
(* A scan, and an upload (read here, write there), are single steps: what  *)
(* others do to the files in between can as well be done before or after.  *)
(***************************************************************************)
EXTENDS Naturals, FiniteSets

CONSTANTS
    Path,        \* the files of the workspace
    Ignored,     \* those the ignore patterns match
    Content,     \* contents that are not empty, which stand for their sha256 too
    Translated,  \* what Path.read_text makes of a content: line ends become \n
    Large,       \* those over max_file_bytes
    Edits,       \* edits: from a text to a text, "absent" or "ambiguous"
    Worker,      \* threads
    MaxCalls,    \* bound on the calls of the agent
    MaxChanges,  \* bound on the changes made by others
    MaxFailures  \* bound on the remote requests that fail and calls that are cut

Missing == "missing"
NoText == "None"
NoOne == "nobody"
Place == {"local", "remote"}
Target == Place \cup {"sync"}
(* write_file replaces whatever is there.                                  *)
Writes == {[x \in Content \cup {Missing} |-> c] : c \in Content}

ASSUME FileAssumption ==
    /\ Ignored \subseteq Path /\ Large \subseteq Content
    /\ Translated \in [Content -> Content]
    /\ \A c \in Content : Translated[Translated[c]] = Translated[c]
    /\ Edits \subseteq [Content \cup {Missing} -> Content \cup {"absent", "ambiguous"}]
    /\ {Missing, NoText, "absent", "ambiguous"} \cap Content = {}
    /\ MaxCalls \in Nat /\ MaxChanges \in Nat /\ MaxFailures \in Nat
    /\ NoOne \notin Worker /\ NoText \notin Path

VARIABLES
    disk,         \* the text of a file at a place, or Missing
    snapshot,     \* file_snapshots: the text last read or written per path,
                  \* whichever place it was at
    manifest,     \* the stored SyncState: what was pushed last, per path
    config,       \* whether changes are shown to a person; allow_unguarded_write
    worker,       \* what a thread is doing
    caller,       \* the thread the agent waits for
    calls, changes, failures,
    seen,         \* history: the texts the agent has read or written, per path
    applied,      \* history: the change that reached a disk since the last call began
    cause         \* history: why the mirror may differ from the manifest, per path

fileBounds == <<calls, changes, failures>>
fileHistory == <<seen, applied, cause>>
fileVars == <<disk, snapshot, manifest, config, worker, caller, fileBounds, fileHistory>>

(* previewed and base: the text when the change was shown and when it was  *)
(* prepared; guard: the hash it was prepared with; scan, prev, todo: a     *)
(* push; alone: no thread of a call that was cut got in its way.           *)
Empty == [p \in Path |-> NoText]
NoEdit == [x \in Content \cup {Missing} |-> "absent"]
NoWork == [pc |-> "idle", tool |-> "none", target |-> "local", path |-> NoText,
           change |-> NoEdit, expected |-> NoText, previewed |-> NoText, base |-> NoText,
           guard |-> NoText, scan |-> Empty, prev |-> Empty, todo |-> {},
           alone |-> TRUE]
NoChange == [base |-> NoText, guard |-> NoText, expected |-> NoText, previewed |-> NoText,
             known |-> FALSE, alone |-> TRUE]

FileInit ==
    /\ \E here \in [Path -> Content \cup {Missing}] :
          disk = [pl \in Place |-> IF pl = "local" THEN here ELSE [p \in Path |-> Missing]]
    /\ snapshot = Empty /\ manifest = Empty
    /\ config \in [approval : BOOLEAN, allow_unguarded_write : BOOLEAN]
    /\ worker = [w \in Worker |-> NoWork] /\ caller = NoOne
    /\ calls = 0 /\ changes = 0 /\ failures = 0
    /\ seen = {} /\ applied = NoChange
    /\ cause = [p \in Path |-> "none"]

(* Where a target is read and written.  The runtime decodes the bytes; the *)
(* harness itself, for target sync, reads in text mode.                    *)
At(target) == IF target = "remote" THEN "remote" ELSE "local"
InTextMode(content) == IF content = Missing THEN Missing ELSE Translated[content]
TextAt(target, p) ==
    IF target = "sync" THEN InTextMode(disk["local"][p]) ELSE disk[At(target)][p]
Written(target, p, text) == disk' = [disk EXCEPT ![At(target)][p] = text]
(* Target sync writes the local file and pushes in one thread.             *)
Pushing == {"scan", "upload", "save"}

Early == {"preview", "approve", "prepare"}
WorkPc == {"idle", "read", "readback", "write", "wrote"} \cup Early \cup Pushing
Known == [Path -> Content \cup {NoText}]
WorkRow == [pc : WorkPc, tool : {"none", "read", "change", "push"}, target : Target,
            path : Path \cup {NoText},
            change : [Content \cup {Missing} -> Content \cup {"absent", "ambiguous"}],
            expected : Content \cup {NoText}, previewed : Content \cup {Missing, NoText},
            base : Content \cup {Missing, NoText}, guard : Content \cup {NoText},
            scan : Known, prev : Known, todo : SUBSET Path, alone : BOOLEAN]
ChangeRow == [base : Content \cup {Missing, NoText}, guard : Content \cup {NoText},
              expected : Content \cup {NoText}, previewed : Content \cup {Missing, NoText},
              known : BOOLEAN, alone : BOOLEAN]
Cause == {"none", "others", "direct", "unrecorded", "newlines", "stale scan", "overlap",
          "not pushed"}

FileTypeOK ==
    /\ disk \in [Place -> [Path -> Content \cup {Missing}]]
    /\ snapshot \in Known /\ manifest \in Known
    /\ config \in [approval : BOOLEAN, allow_unguarded_write : BOOLEAN]
    /\ caller \in Worker \cup {NoOne}
    /\ worker \in [Worker -> WorkRow]
    /\ \A w \in Worker :
          /\ worker[w].pc = "idle" <=> worker[w] = NoWork
          /\ worker[w].pc \in {"read", "readback", "wrote"} \cup Early => caller = w
          /\ worker[w].pc \in {"read", "readback", "write", "wrote"} \cup Early =>
                worker[w].path \in Path
          /\ worker[w].pc \in {"readback", "wrote"} => worker[w].base \in Content
          /\ worker[w].pc = "write" => /\ worker[w].base # NoText
                                       /\ worker[w].change[worker[w].base] \in Content
          /\ worker[w].pc = "save" => worker[w].todo = {}
    /\ caller # NoOne => worker[caller] # NoWork
    /\ calls \in 0..MaxCalls /\ changes \in 0..MaxChanges /\ failures \in 0..MaxFailures
    /\ seen \subseteq Path \X Content /\ applied \in ChangeRow /\ cause \in [Path -> Cause]

-----------------------------------------------------------------------------
(* Others change a file.                                                   *)
OthersChange(pl, p, c) ==
    /\ changes < MaxChanges /\ disk[pl][p] # c
    /\ disk' = [disk EXCEPT ![pl][p] = c]
    /\ changes' = changes + 1
    /\ cause' = IF pl = "remote" THEN [cause EXCEPT ![p] = "others"] ELSE cause
    /\ UNCHANGED <<snapshot, manifest, config, worker, caller, calls, failures, seen, applied>>

(* A call begins.  Without a person to ask, and unguarded writes allowed,  *)
(* a change is not previewed.  A read with target sync reads the local     *)
(* file after a status, which changes nothing.                             *)
Previewed == config.approval \/ ~config.allow_unguarded_write
BeginCall(w, work) ==
    /\ caller = NoOne /\ worker[w] = NoWork /\ calls < MaxCalls
    /\ caller' = w /\ calls' = calls + 1
    /\ worker' = [worker EXCEPT ![w] = work]
    /\ applied' = NoChange
    /\ UNCHANGED <<disk, snapshot, manifest, config, changes, failures, seen, cause>>
BeginReadFile(w, target, p) ==
    BeginCall(w, [NoWork EXCEPT !.pc = "read", !.tool = "read", !.target = target, !.path = p])
BeginChange(w, target, p, change, expected) ==
    BeginCall(w, [NoWork EXCEPT !.pc = IF Previewed THEN "preview" ELSE "prepare",
                                !.tool = "change", !.target = target, !.path = p,
                                !.change = change, !.expected = expected])
BeginWriteFile(w, target, p, write, expected) == BeginChange(w, target, p, write, expected)
BeginEditFile(w, target, p, edit, expected) == BeginChange(w, target, p, edit, expected)
BeginPush(w) == BeginCall(w, [NoWork EXCEPT !.pc = "scan", !.tool = "push", !.target = "sync"])

(* The call of w is over, or its thread when nobody waits any more.        *)
Done(w) ==
    /\ worker' = [worker EXCEPT ![w] = NoWork]
    /\ caller' = IF caller = w THEN NoOne ELSE caller
Moves(w, work) == worker' = [worker EXCEPT ![w] = work] /\ UNCHANGED caller

(* read_file: the thread reads, the coroutine records a snapshot.          *)
ReadText(w) ==
    LET text == TextAt(worker[w].target, worker[w].path)
    IN  /\ worker[w].pc = "read"
        /\ IF text = Missing THEN Done(w)
           ELSE Moves(w, [worker[w] EXCEPT !.pc = "readback", !.base = text])
        /\ UNCHANGED <<disk, snapshot, manifest, config, fileBounds, fileHistory>>

(* record_file_snapshot.                                                   *)
Recorded(p, text) ==
    /\ snapshot' = [snapshot EXCEPT ![p] = text]
    /\ seen' = seen \cup {<<p, text>>}
ReadReturns(w) ==
    /\ worker[w].pc = "readback"
    /\ Recorded(worker[w].path, worker[w].base)
    /\ Done(w)
    /\ UNCHANGED <<disk, manifest, config, fileBounds, applied, cause>>

-----------------------------------------------------------------------------
(* write_file and edit_file.                                               *)

(* The hash a change is guarded by: the argument; the snapshot when there  *)
(* is none, or when the text is the snapshot's and not the argument's.     *)
Guard(p, base, expected) ==
    IF expected = NoText \/ (base # expected /\ base = snapshot[p]) THEN snapshot[p]
    ELSE expected

(* Mutation of Acceptable: the hash is compared with the snapshot.         *)
AcceptableSnapshot(work, base) ==
    /\ work.change[base] \in Content
    /\ Guard(work.path, base, work.expected) \in {NoText, base, snapshot[work.path]}

(* _prepare_text_change and _prepare_edit_change: an edit needs its old    *)
(* text once, and a guarded change the text that is expected.              *)
Acceptable(work, base) ==
    /\ work.change[base] \in Content
    /\ Guard(work.path, base, work.expected) \in {NoText, base}

Unguarded(work, base) == Guard(work.path, base, work.expected) = NoText

(* Mutation of Preview: an unguarded write is only warned about.           *)
PreviewWarns(w) ==
    LET work == worker[w]
        base == TextAt(work.target, work.path)
    IN  /\ work.pc = "preview"
        /\ IF ~Acceptable(work, base) THEN Done(w)
           ELSE Moves(w, [work EXCEPT !.previewed = base,
                             !.pc = IF config.approval THEN "approve" ELSE "prepare"])
        /\ UNCHANGED <<disk, snapshot, manifest, config, fileBounds, fileHistory>>

(* approval_preview prepares the change once to show it.                   *)
Preview(w) ==
    LET work == worker[w]
        base == TextAt(work.target, work.path)
    IN  /\ work.pc = "preview"
        /\ IF ~Acceptable(work, base) \/ (Unguarded(work, base) /\ ~config.allow_unguarded_write)
           THEN Done(w)
           ELSE Moves(w, [work EXCEPT !.previewed = base,
                             !.pc = IF config.approval THEN "approve" ELSE "prepare"])
        /\ UNCHANGED <<disk, snapshot, manifest, config, fileBounds, fileHistory>>

(* The person approves or does not; meanwhile the file may change.         *)
Approve(w) ==
    /\ worker[w].pc = "approve"
    /\ Done(w) \/ Moves(w, [worker[w] EXCEPT !.pc = "prepare"])
    /\ UNCHANGED <<disk, snapshot, manifest, config, fileBounds, fileHistory>>

(* Mutation of Prepare: what was approved is not checked again.            *)
PrepareApproved(w) ==
    LET work == worker[w]
        base == TextAt(work.target, work.path)
    IN  /\ work.pc = "prepare"
        /\ IF Acceptable(work, base) \/ (work.previewed # NoText /\ work.change[base] \in Content)
           THEN Moves(w, [work EXCEPT !.pc = "write", !.base = base,
                                      !.guard = Guard(work.path, base, work.expected)])
           ELSE Done(w)
        /\ UNCHANGED <<disk, snapshot, manifest, config, fileBounds, fileHistory>>

(* _execute prepares it again.                                             *)
Prepare(w) ==
    LET work == worker[w]
        base == TextAt(work.target, work.path)
    IN  /\ work.pc = "prepare"
        /\ IF Acceptable(work, base)
           THEN Moves(w, [work EXCEPT !.pc = "write", !.base = base,
                                      !.guard = Guard(work.path, base, work.expected)])
           ELSE Done(w)
        /\ UNCHANGED <<disk, snapshot, manifest, config, fileBounds, fileHistory>>

(* History of a change; the text it replaces is the base, or has come in   *)
(* between.                                                                *)
Applying(work, old) ==
    [base |-> work.base, guard |-> work.guard, expected |-> work.expected,
     previewed |-> work.previewed, alone |-> work.alone,
     known |-> old # work.base \/ <<work.path, old>> \in seen]

(* The text is written.  With target sync the thread records the snapshot  *)
(* itself and goes on to push the file.                                    *)
WriteText(w) ==
    LET work == worker[w]
        pl == At(work.target)
        p == work.path
        text == work.change[work.base]
    IN  /\ work.pc = "write"
        /\ Written(work.target, p, text)
        /\ applied' = Applying(work, TextAt(work.target, p))
        /\ cause' = IF pl = "remote" THEN [cause EXCEPT ![p] = "direct"] ELSE cause
        /\ IF work.target = "sync" THEN Recorded(p, text) ELSE UNCHANGED <<snapshot, seen>>
        /\ worker' = [v \in Worker |->
              IF v # w THEN [worker[v] EXCEPT !.alone = @ /\ worker[v].path # p]
              ELSE IF work.target = "sync"
              THEN [NoWork EXCEPT !.pc = "scan", !.tool = work.tool, !.target = "sync", !.path = p]
              ELSE IF caller = w
              THEN [NoWork EXCEPT !.pc = "wrote", !.tool = work.tool, !.path = p, !.base = text]
              ELSE NoWork]
        /\ UNCHANGED <<manifest, config, caller, fileBounds>>
WriteReturns(w) ==
    /\ worker[w].pc = "wrote"
    /\ Recorded(worker[w].path, worker[w].base)
    /\ Done(w)
    /\ UNCHANGED <<disk, manifest, config, fileBounds, applied, cause>>

-----------------------------------------------------------------------------
(* The sync engine.                                                        *)

(* scan_local_manifest.                                                    *)
Skipped(p) == p \in Ignored \/ disk["local"][p] \in Large \cup {Missing}
Scan == [p \in Path |-> IF Skipped(p) THEN NoText ELSE disk["local"][p]]

(* _detect_remote_conflicts.  The engine passes no remote manifest.        *)
Conflicts(last, remote) == IF remote = NoText THEN {} ELSE {p \in Path : last[p] # remote[p]}

(* Mutation of Uploads: a file that was pushed before is not looked at.    *)
UploadsNewOnly(local, last) == {p \in Path : local[p] # NoText /\ last[p] = NoText}

(* plan_push: the uploads.  What was deleted is planned with delete_remote *)
(* and never carried out.                                                  *)
Uploads(local, last) == {p \in Path : local[p] # NoText /\ local[p] # last[p]}

Plan == IF Conflicts(manifest, NoText) # {} THEN {} ELSE Uploads(Scan, manifest)

(* The scan, the stored manifest and the plan.  push_file stops at a file  *)
(* the scan has skipped, and uploads no other.                             *)
PlanPush(w) ==
    LET work == worker[w]
        single == work.tool = "change"
        others == {v \in Worker \ {w} : worker[v].pc \in Pushing \ {"scan"}}
    IN  /\ work.pc = "scan"
        /\ IF single /\ Scan[work.path] = NoText THEN Done(w)
           ELSE /\ worker' = [v \in Worker |->
                     IF v = w THEN [work EXCEPT
                        !.pc = "upload", !.scan = Scan, !.prev = manifest,
                        !.todo = IF single THEN Plan \cap {work.path} ELSE Plan,
                        !.alone = (others = {})]
                     ELSE IF v \in others THEN [worker[v] EXCEPT !.alone = FALSE]
                     ELSE worker[v]]
                /\ UNCHANGED caller
        /\ UNCHANGED <<disk, snapshot, manifest, config, fileBounds, fileHistory>>

(* The file is read again, in text mode, and written to the mirror: with   *)
(* other line ends it is not the content the scan has hashed.  A file that *)
(* has gone ends the push.                                                 *)
Uploaded(p, scanned) ==
    LET here == disk["local"][p]
        text == InTextMode(here)
    IN  /\ disk' = [disk EXCEPT !["remote"][p] = text]
        /\ cause' = [cause EXCEPT ![p] = IF here # scanned THEN "stale scan"
                                         ELSE IF text # here THEN "newlines" ELSE "unrecorded"]
Upload(w, p) ==
    /\ worker[w].pc = "upload" /\ p \in worker[w].todo
    /\ IF disk["local"][p] = Missing
       THEN Done(w) /\ UNCHANGED <<disk, cause>>
       ELSE /\ Uploaded(p, worker[w].scan[p])
            /\ Moves(w, [worker[w] EXCEPT !.todo = @ \ {p}])
    /\ UNCHANGED <<snapshot, manifest, config, fileBounds, seen, applied>>

(* A remote request - an upload, or the manifest after the last - fails,   *)
(* done or not done, and with it the push.                                 *)
RemoteFails(w) ==
    /\ worker[w].pc = "upload" /\ failures < MaxFailures
    /\ failures' = failures + 1
    /\ \/ UNCHANGED <<disk, cause>>
       \/ \E p \in worker[w].todo :
             /\ disk["local"][p] # Missing
             /\ Uploaded(p, worker[w].scan[p])
    /\ Done(w)
    /\ UNCHANGED <<snapshot, manifest, config, calls, changes, seen, applied>>

(* The remote manifest, which nothing reads.                               *)
WriteManifest(w) ==
    /\ worker[w].pc = "upload" /\ worker[w].todo = {}
    /\ Moves(w, [worker[w] EXCEPT !.pc = "save"])
    /\ UNCHANGED <<disk, snapshot, manifest, config, fileBounds, fileHistory>>

(* The state is stored: the whole scan, also by push_file.                 *)
Saved(scan) == manifest' = scan
SaveState(w) ==
    LET scan == worker[w].scan
        left == IF worker[w].tool = "push" THEN {} ELSE Uploads(scan, worker[w].prev) \ {worker[w].path}
        why(p) == IF p \in left THEN "not pushed"
                  ELSE IF worker[w].alone THEN cause[p] ELSE "overlap"
    IN  /\ worker[w].pc = "save"
        /\ Saved(scan)
        /\ cause' = [p \in Path |-> IF scan[p] \in {NoText, disk["remote"][p]} THEN "none"
                                    ELSE why(p)]
        /\ Done(w)
        /\ UNCHANGED <<disk, snapshot, config, fileBounds, seen, applied>>

(* The registry's timeout: what a thread has begun to write, it finishes.  *)
CallCut ==
    /\ caller # NoOne /\ worker[caller].pc # "approve" /\ failures < MaxFailures
    /\ failures' = failures + 1
    /\ caller' = NoOne
    /\ worker' = IF worker[caller].pc \in {"write"} \cup Pushing THEN worker
                 ELSE [worker EXCEPT ![caller] = NoWork]
    /\ UNCHANGED <<disk, snapshot, manifest, config, calls, changes, fileHistory>>

FileStep(w) ==
    \/ ReadText(w) \/ ReadReturns(w) \/ Preview(w) \/ Approve(w) \/ Prepare(w)
    \/ WriteText(w) \/ WriteReturns(w)
    \/ PlanPush(w) \/ WriteManifest(w) \/ SaveState(w) \/ RemoteFails(w)
    \/ \E p \in Path : Upload(w, p)

FileNext ==
    \/ \E w \in Worker :
          \/ FileStep(w)
          \/ BeginPush(w)
          \/ \E target \in Target, p \in Path :
                \/ BeginReadFile(w, target, p)
                \/ \E expected \in Content \cup {NoText} :
                      \/ \E write \in Writes : BeginWriteFile(w, target, p, write, expected)
                      \/ \E edit \in Edits : BeginEditFile(w, target, p, edit, expected)
    \/ \E pl \in Place, p \in Path, c \in Content \cup {Missing} : OthersChange(pl, p, c)
    \/ CallCut

FileSpec == FileInit /\ [][FileNext]_fileVars

-----------------------------------------------------------------------------
(* A change without a hash of its own never destroys a text of an existing *)
(* file that the agent has neither read nor written - whatever people and  *)
(* cut calls did since - unless no snapshot was there to guard it or the   *)
(* text came in after the change was prepared.                             *)
NoBlindOverwrite ==
    applied.guard # NoText /\ applied.expected = NoText => applied.known

(* What a person approved is what is done: a guarded change is applied to  *)
(* the text its diff was shown against, however long the approval took,    *)
(* unless it named a hash of its own beside the snapshot's or the thread   *)
(* of a call that was cut wrote the file meanwhile.                        *)
ApprovedIsApplied ==
    /\ applied.previewed # NoText /\ applied.guard # NoText
    /\ applied.expected = NoText /\ applied.alone
    => applied.previewed = applied.base

(* allow_unguarded_write = false is kept, though only the preview looks.   *)
UnguardedIsRefused ==
    ~config.allow_unguarded_write /\ applied # NoChange => applied.guard # NoText

(* The mirror differs from the manifest - so that status says IN_SYNC and  *)
(* is wrong - only where others or a remote write changed it, an upload    *)
(* was not recorded or was translated to other line ends, the file changed *)
(* between scan and upload, pushes overlapped, or push_file recorded a     *)
(* file it did not push.  A push that is alone and unhindered mends every  *)
(* other difference.                                                       *)
DriftHasCause ==
    \A p \in Path :
        manifest[p] \notin {NoText, disk["remote"][p]} => cause[p] # "none"

(* No write goes unguarded that the configuration or a snapshot guards.    *)
WritesAreGuarded == NoBlindOverwrite /\ UnguardedIsRefused

-----------------------------------------------------------------------------
(* What these rest on.  A snapshot is of a text the agent has seen.        *)
SnapshotIsSeen == \A p \in Path : snapshot[p] # NoText => <<p, snapshot[p]>> \in seen

(* Once a change was previewed, the snapshot that guarded it stays what it *)
(* was until it is prepared, unless the thread of a call that was cut got  *)
(* in its way; then the text it was prepared with is the one it guards.    *)
PreviewIsKept ==
    \A w \in Worker : LET t == worker[w]
                       IN  t.previewed # NoText /\ t.expected = NoText /\ t.alone =>
        /\ t.pc \in Early => snapshot[t.path] \in {NoText, t.previewed}
        /\ t.pc = "write" => t.guard \in {NoText, t.previewed}
PreparedIsGuarded ==
    \A w \in Worker : worker[w].pc = "write" /\ worker[w].expected = NoText
                          /\ worker[w].guard # NoText =>
        worker[w].guard = worker[w].base /\ <<worker[w].path, worker[w].base>> \in seen
RefusedUnguarded ==
    ~config.allow_unguarded_write => \A w \in Worker :
        /\ worker[w].pc \in {"approve", "prepare"} =>
              worker[w].expected # NoText \/ snapshot[worker[w].path] # NoText
        /\ worker[w].pc = "write" => worker[w].guard # NoText

(* A push that is alone still has the stored manifest, and what it has     *)
(* uploaded is known to be unrecorded.                                     *)
Uploading == {w \in Worker : worker[w].pc \in {"upload", "save"}}
PushesAlone == \A v, w \in Uploading : worker[v].alone => v = w
PushIsWhole ==
    \A w \in Uploading : worker[w].alone =>
        /\ worker[w].prev = manifest
        /\ \A p \in Uploads(worker[w].scan, worker[w].prev) :
              worker[w].tool = "push" \/ p = worker[w].path => p \in worker[w].todo \/ cause[p] # "none"

FileInv ==
    /\ FileTypeOK /\ SnapshotIsSeen /\ PreviewIsKept /\ PreparedIsGuarded /\ RefusedUnguarded
    /\ PushesAlone /\ PushIsWhole
    /\ NoBlindOverwrite /\ ApprovedIsApplied /\ UnguardedIsRefused /\ DriftHasCause
=============================================================================
