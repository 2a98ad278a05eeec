----------------------------- MODULE BrokerClients -----------------------------
(***************************************************************************)
(* Clients of one broker: writers of a terminal session, conversations     *)
(* that connect to a remote host, and the installation of tmux there.      *)
(* What they share is the broker, which may restart under all of them.     *)
(***************************************************************************)
EXTENDS WriterLease, RemoteConnect, TmuxInstall

CONSTANT MaxRestarts
VARIABLE restarts

clientVars == <<leaseVars, connectVars, installVars, restarts>>

ClientsInit == LeaseInit /\ ConnectInit /\ InstallInit /\ restarts = 0

(* ensure_tool has nothing to do without a remote runtime.                 *)
Remote == \E c \in Conversation : context[c].mode = "ssh" /\ ~Waiting(c)

BrokerRestart ==
    /\ restarts < MaxRestarts /\ restarts' = restarts + 1
    /\ BrokerLeases /\ BrokerConnections /\ BrokerInstall

Writing == LeaseNext /\ UNCHANGED <<connectVars, installVars, restarts>>
(* A probe that succeeds also records whether tmux is there.               *)
Probes(a) ==
    /\ attempt[a].want = "probe" /\ attempt[a].waited
    /\ attempt'[a].pc = "ok" /\ context'[attempt[a].by].remote = "ok"
Conversing ==
    /\ ConnectNext
    /\ IF \E a \in Attempt : Probes(a) THEN ProbeTool ELSE UNCHANGED installVars
    /\ UNCHANGED <<leaseVars, restarts>>
Installing == InstallNext /\ Remote /\ UNCHANGED <<leaseVars, connectVars, restarts>>

ClientsNext == Writing \/ Conversing \/ Installing \/ BrokerRestart
ClientsSpec == ClientsInit /\ [][ClientsNext]_clientVars

ClientsTypeOK == LeaseTypeOK /\ ConnectTypeOK /\ InstallTypeOK

(* What the clients of the broker leave behind.  An attempt that fails     *)
(* leaves no password in the store: one that is there is of an attempt     *)
(* under way, of one that succeeded, or of one that was cut, since the     *)
(* clause that deletes it catches no cancellation.  A call that installs   *)
(* leaves no open terminal that it has not asked to be closed: one stays   *)
(* where that request failed, or where the call was cut while opening it.  *)
NothingLeftBehind == NoPasswordLeft /\ NoInstallLeft
=============================================================================
