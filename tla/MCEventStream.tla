----------------------------- MODULE MCEventStream -----------------------------
(***************************************************************************)
(* EventStream for TLC.                                                    *)
(***************************************************************************)
EXTENDS EventStream

(* An event client that filters by resource type.                          *)
WantsSession == [c \in EventClient |-> {SessionKind}]

(* Streams share nothing but the stores and the bus, and neither changes   *)
(* with who listens: one client at a time is enough.  A client that has    *)
(* received something keeps the others from opening a stream.              *)
OneClient ==
    \A c, d \in Client :
        c # d => pc[c] = "closed" \/ (pc[d] = "closed" /\ received[d] = <<>>)

OneClientSpec ==
    /\ Init
    /\ [][Next /\ OneClient']_vars
    /\ \A e \in Emitter : WF_vars(EmitStep(e))
    /\ \A c \in Client : WF_vars(StreamStep(c))
=============================================================================
