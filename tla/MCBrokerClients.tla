---------------------------- MODULE MCBrokerClients ----------------------------
(* Writers alone, conversations alone, or one conversation with its tmux   *)
(* installation.  Three writers, or three attempts, meet neither a fault   *)
(* nor a restart, two of them one of the two.                              *)
EXTENDS BrokerClients, TLC

NoWriter == \A k \in Call : call[k] = NewCall
Writers == Cardinality({k \in Call : call[k] # NewCall})
NoConversation == \A a \in Attempt : attempt[a] = NewAttempt
Attempts == Cardinality({a \in Attempt : attempt[a] # NewAttempt})
HostFixed == ~present /\ privilege = "root"

Scope ==
    \/ /\ NoConversation /\ known /\ HostFixed
       /\ restarts + failures + (IF shell \/ (restarts = 1 /\ backend = "pty") THEN 0 ELSE 1)
             + Writers <= 3
       /\ NoWriter \/ \A r \in Request : requests[r] # "absent"
    \/ /\ NoWriter /\ backend = "tmux" /\ shell /\ now = 0
       /\ \A r \in Request : requests[r] = "absent"
       /\ \/ installs = 0 /\ HostFixed /\ Attempts + restarts + faults <= 3
          \/ known /\ Attempts <= 1 /\ faults = 0

ScopedNext ==
    \/ NoConversation /\ Writing /\ Scope'
    \/ NoWriter /\ (Conversing \/ Installing) /\ Scope'
    \/ BrokerRestart /\ Scope'
ScopedInit == ClientsInit /\ Scope
ScopedSpec == ScopedInit /\ [][ScopedNext]_clientVars

(* The requests and the clients of the two parts have the same names.      *)
Symmetric == Permutations(Call \cup Attempt) \cup Permutations(Owner \cup Conversation)
=============================================================================
