---------------------------- MODULE MCSessionService ----------------------------
(***************************************************************************)
(* SessionService for TLC.                                                 *)
(***************************************************************************)
EXTENDS SessionService, TLC

(* Handles are interchangeable.                                            *)
Handles == Permutations(Handle)

(* A client that calls everything.                                         *)
AllCalls == [c \in Caller |-> {"create", "get", "write", "resize", "terminate"}]

(* One client creates the session and writes to it, the others end it.     *)
Writer == CHOOSE c \in Caller : TRUE
WriterAndEnders ==
    [c \in Caller |-> IF c = Writer THEN {"create", "write"} ELSE {"terminate"}]
=============================================================================
