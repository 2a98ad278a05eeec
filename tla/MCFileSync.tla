------------------------------- MODULE MCFileSync -------------------------------
(***************************************************************************)
(* FileSync for TLC.                                                       *)
(***************************************************************************)
EXTENDS FileSync, TLC

CONSTANTS Lf, Crlf   \* the same lines with either line end

(* An edit that is found in every text and in no missing file.             *)
MCEdits == {[x \in Content \cup {Missing} |->
                IF x = Missing THEN "absent" ELSE CHOOSE y \in Content : y # x]}
(* The last content is the first with other line ends.                     *)
MCTranslated == [x \in Content |-> IF x = Crlf THEN Lf ELSE x]
Symmetric == Permutations(Worker) \cup Permutations(Path)

(* Bound on the calls, changes and failures together; a failure meets      *)
(* fewer calls than MaxCalls, and no change of another hand.  Of the two   *)
(* reasons for a preview, one at a time.                                   *)
CONSTANT MaxTogether
Together ==
    /\ calls + changes + failures <= MaxTogether
    /\ failures = 0 \/ (changes = 0 /\ calls < MaxCalls)
BoundedInit == FileInit /\ (config.approval => config.allow_unguarded_write)
BoundedSpec == BoundedInit /\ [][FileNext /\ Together']_fileVars
=============================================================================
