----------------------------- MODULE RemoteConnect -----------------------------
(***************************************************************************)
(* Connecting conversations to one SSH host through the broker:            *)
(* request_ssh_connection and ensure_remote_runtime (store the password,   *)
(* env.ensure_ssh, create the remote root, retry once with a host key the  *)
(* user trusts, forget the password on failure, adopt the target, probe    *)
(* it), the broker's handlers behind them, its secrets, and the cache of   *)
(* SSH connections that every later request goes through.                  *)
(***************************************************************************)
EXTENDS Naturals, FiniteSets

CONSTANTS
    Conversation,  \* harnesses or chats that share the broker
    Attempt,       \* calls of theirs; each is made once
    Auth,          \* auth methods, part of an endpoint's identity
    EndpointId, EnvironmentId,   \* ids in the order of their rows
    MaxFaults      \* bound on failing connections, cut calls and lost connections

NoId == 0
NoSecret == "None"

ASSUME ConnectAssumption ==
    /\ EndpointId \subseteq Nat \ {NoId} /\ EnvironmentId \subseteq Nat \ {NoId}
    /\ Auth \subseteq {"password", "agent"} /\ NoSecret \notin Attempt
    /\ MaxFaults \in Nat

VARIABLES
    endpoints,     \* stored rows of this host: its auth and password_secret_ref
    environments,  \* stored rows: the endpoint they were created for
    secrets,       \* InMemorySecretStore; a reference is named after its attempt
    connections,   \* cached live connections, by endpoint
    trust,         \* endpoints the transport trusts for one connection
    known,         \* the host's key is in known_hosts
    context,       \* the runtime target of a conversation
    attempt,
    faults,
    approvals, unverified,  \* history: keys trusted by the user, and by a connection
    shared         \* history: two connections were tried at once under one trust

connectVars == <<endpoints, environments, secrets, connections, trust, known, context,
                 attempt, faults, approvals, unverified, shared>>
history == <<approvals, unverified, shared>>
stored == <<endpoints, environments>>

(* want: what the connection is for; todo: rows still to be given the new  *)
(* secret; trusting: the user approved the key; trusted: the transport     *)
(* does; waited: somebody waits for the result; alone: no other attempt to *)
(* connect ran at the same time.                                           *)
NewAttempt == [pc |-> "new", by |-> "nobody", want |-> "none", auth |-> "none",
               secret |-> NoSecret, endpoint |-> NoId, environment |-> NoId, todo |-> {},
               trusting |-> FALSE, trusted |-> FALSE, waited |-> TRUE, alone |-> TRUE]
Local == [mode |-> "local", endpoint |-> NoId, environment |-> NoId, remote |-> "unknown",
          sound |-> FALSE]

ConnectInit ==
    /\ endpoints = {} /\ environments = {} /\ secrets = {} /\ connections = {} /\ trust = {}
    /\ known \in BOOLEAN
    /\ context = [c \in Conversation |-> Local]
    /\ attempt = [a \in Attempt |-> NewAttempt]
    /\ faults = 0 /\ approvals = 0 /\ unverified = 0 /\ shared = FALSE

Over == {"ok", "failed"}
Running == {a \in Attempt : attempt[a].pc \notin Over \cup {"new"}}
Connecting == {a \in Running : attempt[a].want # "work"}
Waiting(c) == \E a \in Running : attempt[a].by = c /\ attempt[a].waited
Row(e) == CHOOSE row \in endpoints : row.id = e

Linked == {"connect", "connecting", "use"}
AttemptPc == {"new", "put", "list", "rotate", "add", "environments", "create", "approve",
              "delete"} \cup Linked \cup Over
AttemptRow == [pc : AttemptPc, by : Conversation \cup {"nobody"},
               want : {"none", "root", "work", "probe"}, auth : Auth \cup {"none"},
               secret : Attempt \cup {NoSecret}, endpoint : EndpointId \cup {NoId},
               environment : EnvironmentId \cup {NoId}, todo : SUBSET EndpointId,
               trusting : BOOLEAN, trusted : BOOLEAN, waited : BOOLEAN, alone : BOOLEAN]
EndpointRow == [id : EndpointId, auth : Auth, secret : Attempt \cup {NoSecret}]
EnvironmentRow == [id : EnvironmentId, endpoint : EndpointId]
ContextRow == [mode : {"local", "ssh"}, endpoint : EndpointId \cup {NoId},
               environment : EnvironmentId \cup {NoId}, remote : {"unknown", "ok"},
               sound : BOOLEAN]
ConnectTypeOK ==
    /\ endpoints \subseteq EndpointRow /\ environments \subseteq EnvironmentRow
    /\ secrets \subseteq Attempt /\ connections \subseteq EndpointId /\ trust \subseteq EndpointId
    /\ known \in BOOLEAN /\ shared \in BOOLEAN
    /\ faults \in 0..MaxFaults /\ approvals \in Nat /\ unverified \in Nat
    /\ attempt \in [Attempt -> AttemptRow] /\ context \in [Conversation -> ContextRow]
    /\ \A r, s \in endpoints : r.id = s.id => r = s
    /\ \A r \in endpoints : r.secret = NoSecret <=> r.auth = "agent"
    /\ \A r \in environments : \E s \in endpoints : s.id = r.endpoint
    /\ \A a \in Attempt : attempt[a].pc \in Linked => attempt[a].endpoint # NoId
    /\ \A c \in Conversation : context[c].mode = "local" <=> context[c].endpoint = NoId

-----------------------------------------------------------------------------
Proceeds(a, change) == attempt' = [attempt EXCEPT ![a] = change]
(* Nobody waits for the rest of a call that was cut.                       *)
Stage(a, pc) ==
    IF pc \in Over THEN [NewAttempt EXCEPT !.pc = pc, !.waited = attempt[a].waited,
                                           !.alone = attempt[a].alone]
    ELSE [attempt[a] EXCEPT !.pc = pc]

(* A conversation without a remote target asks for one, by the tool or at  *)
(* the start of a turn; one that has a target uses it.                     *)
Begins(a, begun) ==
    /\ attempt[a].pc = "new" /\ ~Waiting(begun.by)
    /\ attempt' = [b \in Attempt |->
          IF b = a THEN [begun EXCEPT !.alone = begun.want = "work" \/ Connecting = {}]
          ELSE IF b \in Connecting /\ begun.want # "work" THEN [attempt[b] EXCEPT !.alone = FALSE]
          ELSE attempt[b]]
Connect(a, c, auth) ==
    /\ context[c].mode = "local"
    /\ Begins(a, [NewAttempt EXCEPT !.pc = IF auth = "password" THEN "put" ELSE "list",
                                    !.by = c, !.want = "root", !.auth = auth])
    /\ context' = [k \in Conversation |->
          IF context[k].endpoint # NoId THEN [context[k] EXCEPT !.sound = FALSE] ELSE context[k]]
    /\ UNCHANGED <<stored, secrets, connections, trust, known, faults, history>>
Use(a, c) ==
    /\ context[c].mode = "ssh"
    /\ Begins(a, [NewAttempt EXCEPT !.pc = "connect", !.by = c, !.want = "work",
                                    !.endpoint = context[c].endpoint])
    /\ UNCHANGED <<stored, secrets, connections, trust, known, context, faults, history>>

(* The prompt for the password, and secret.put; or the user cancels.       *)
PutSecret(a) ==
    /\ attempt[a].pc = "put"
    /\ \/ /\ secrets' = secrets \cup {a}
          /\ Proceeds(a, IF attempt[a].waited THEN [Stage(a, "list") EXCEPT !.secret = a]
                      ELSE Stage(a, "failed"))
       \/ Proceeds(a, Stage(a, "failed")) /\ UNCHANGED secrets
    /\ UNCHANGED <<stored, connections, trust, known, context, faults, history>>

-----------------------------------------------------------------------------
(* Mutation of Stale: a row that has a secret keeps it.                    *)
StaleNever(row, secret) == row.secret = NoSecret /\ secret # NoSecret
Stale(row, secret) == row.secret # secret

(* Mutations of SameIdentity: the secret is compared too; the auth method  *)
(* is not.                                                                 *)
SameIdentityAndSecret(row, a) ==
    row.auth = attempt[a].auth /\ row.secret = attempt[a].secret
SameIdentityAnyAuth(row, a) == TRUE
SameIdentity(row, a) == row.auth = attempt[a].auth

(* env.ensure_ssh: the rows of the same identity; those with another       *)
(* secret are stored again with the new one, the first is taken.           *)
EnsureList(a) ==
    LET same == {row \in endpoints : SameIdentity(row, a)}
        todo == {row.id : row \in {r \in same : Stale(r, attempt[a].secret)}}
        first == IF same = {} THEN NoId
                 ELSE CHOOSE e \in {r.id : r \in same} : \A r \in same : e <= r.id
    IN  /\ attempt[a].pc = "list"
        /\ Proceeds(a, [attempt[a] EXCEPT
               !.pc = IF todo # {} THEN "rotate" ELSE IF same = {} THEN "add" ELSE "environments",
               !.todo = todo, !.endpoint = first])
        /\ UNCHANGED <<stored, secrets, connections, trust, known, context, faults, history>>
Rotate(a) ==
    \E e \in attempt[a].todo :
       /\ attempt[a].pc = "rotate" /\ \A f \in attempt[a].todo : e <= f
       /\ endpoints' = {row \in endpoints : row.id # e}
                          \cup {[Row(e) EXCEPT !.secret = attempt[a].secret]}
       /\ Proceeds(a, [attempt[a] EXCEPT !.todo = @ \ {e},
                       !.pc = IF attempt[a].todo = {e} THEN "environments" ELSE "rotate"])
       /\ UNCHANGED <<environments, secrets, connections, trust, known, context, faults, history>>
AddEndpoint(a, e) ==
    /\ attempt[a].pc = "add" /\ \A row \in endpoints : row.id # e
    /\ endpoints' = endpoints \cup {[id |-> e, auth |-> attempt[a].auth,
                                     secret |-> attempt[a].secret]}
    /\ Proceeds(a, [attempt[a] EXCEPT !.pc = "environments", !.endpoint = e])
    /\ UNCHANGED <<environments, secrets, connections, trust, known, context, faults, history>>

(* The reply, upon which the remote root is created.                       *)
Adopting(a, v) ==
    IF attempt[a].waited THEN [Stage(a, "connect") EXCEPT !.environment = v] ELSE Stage(a, "failed")

(* The trust is set, then an environment of the endpoint is looked for.    *)
EnsureEnvironment(a) ==
    LET mine == {row \in environments : row.endpoint = attempt[a].endpoint}
    IN  /\ attempt[a].pc = "environments"
        /\ trust' = IF attempt[a].trusting THEN trust \cup {attempt[a].endpoint} ELSE trust
        /\ \/ mine = {} /\ Proceeds(a, Stage(a, "create"))
           \/ \E row \in mine : /\ \A other \in mine : row.id <= other.id
                                /\ Proceeds(a, Adopting(a, row.id))
        /\ UNCHANGED <<stored, secrets, connections, known, context, faults, history>>
CreateEnvironment(a, v) ==
    /\ attempt[a].pc = "create" /\ \A row \in environments : row.id # v
    /\ environments' = environments \cup {[id |-> v, endpoint |-> attempt[a].endpoint]}
    /\ Proceeds(a, Adopting(a, v))
    /\ UNCHANGED <<endpoints, secrets, connections, trust, known, context, faults, history>>

-----------------------------------------------------------------------------
(* How an attempt goes on after an error: a first untrusted key may be     *)
(* approved, any other error deletes the password; the probe and the work  *)
(* of a connected conversation just fail.                                  *)
OnError(a, untrusted) ==
    IF attempt[a].want = "probe" THEN "ok"
    ELSE IF attempt[a].want = "work" \/ ~attempt[a].waited THEN "failed"
    ELSE IF untrusted /\ ~attempt[a].trusting THEN "approve"
    ELSE IF attempt[a].secret = NoSecret THEN "failed" ELSE "delete"

(* SSHTransportProvider.connect up to asyncssh.connect: a live connection  *)
(* is shared, and uses the trust up; a password that is gone is an error.  *)
StartConnect(a) ==
    LET e == attempt[a].endpoint
        lost == Row(e).secret # NoSecret /\ Row(e).secret \notin secrets
        rival == \E b \in Running : attempt[b].pc = "connecting" /\ attempt[b].endpoint = e
                                    /\ attempt[b].trusted
    IN  /\ attempt[a].pc = "connect"
        /\ \/ /\ e \in connections
              /\ trust' = trust \ {e} /\ Proceeds(a, Stage(a, "use"))
              /\ UNCHANGED shared
           \/ /\ e \notin connections /\ lost
              /\ Proceeds(a, Stage(a, OnError(a, FALSE)))
              /\ UNCHANGED <<trust, shared>>
           \/ /\ e \notin connections /\ ~lost
              /\ Proceeds(a, [Stage(a, "connecting") EXCEPT !.trusted = e \in trust])
              /\ shared' = (shared \/ (rival /\ e \in trust))
              /\ UNCHANGED trust
        /\ UNCHANGED <<stored, secrets, connections, known, context, faults, approvals, unverified>>

(* Mutation of AfterConnect: the trust stays.                              *)
AfterConnectKept(e) == trust
AfterConnect(e) == trust \ {e}

(* asyncssh.connect returns: with a connection if the key is known or      *)
(* trusted, else with an error.                                            *)
EndConnect(a, works) ==
    LET e == attempt[a].endpoint
        trusted == known \/ attempt[a].trusted
    IN  /\ attempt[a].pc = "connecting"
        /\ works \/ ~trusted \/ faults < MaxFaults
        /\ faults' = IF ~works /\ trusted THEN faults + 1 ELSE faults
        /\ trust' = AfterConnect(e)
        /\ IF works /\ trusted
             THEN /\ connections' = connections \cup {e}
                  /\ unverified' = IF known \/ ~attempt[a].trusted THEN unverified
                                   ELSE unverified + 1
                  /\ Proceeds(a, [Stage(a, "use") EXCEPT !.trusted = FALSE])
             ELSE /\ Proceeds(a, [Stage(a, OnError(a, ~trusted)) EXCEPT !.trusted = FALSE])
                  /\ UNCHANGED <<connections, unverified>>
        /\ UNCHANGED <<stored, secrets, known, context, approvals, shared>>

(* The user is shown the key, and lets the attempt be made once more.      *)
Approve(a, yes) ==
    /\ attempt[a].pc = "approve"
    /\ Proceeds(a, IF yes THEN [Stage(a, "list") EXCEPT !.trusting = TRUE]
                ELSE Stage(a, IF attempt[a].secret = NoSecret THEN "failed" ELSE "delete"))
    /\ approvals' = IF yes THEN approvals + 1 ELSE approvals
    /\ UNCHANGED <<stored, secrets, connections, trust, known, context, faults, unverified, shared>>

(* The conversation adopts the target.                                     *)
Adopted(a) ==
    [context EXCEPT ![attempt[a].by] =
        [mode |-> "ssh", endpoint |-> attempt[a].endpoint, environment |-> attempt[a].environment,
         remote |-> "unknown", sound |-> attempt[a].alone]]
(* probe_remote_environment records what it finds, or that it failed.      *)
Probed(a, works) ==
    [context EXCEPT ![attempt[a].by].remote = IF works THEN "ok" ELSE "unknown"]
(* A probe that fails drops the connection it was made on.                 *)
Healthy(a, works) ==
    IF attempt[a].want = "probe" /\ ~works THEN connections \ {attempt[a].endpoint}
    ELSE connections

(* The connection does its work: creates the remote root, after which the  *)
(* target is adopted and probed; the probe; or whatever else.              *)
Work(a, works) ==
    /\ attempt[a].pc = "use" /\ (works \/ faults < MaxFaults)
    /\ faults' = IF works THEN faults ELSE faults + 1
    /\ connections' = Healthy(a, works)
    /\ context' = IF ~attempt[a].waited THEN context
                  ELSE IF attempt[a].want = "probe" THEN Probed(a, works)
                  ELSE IF attempt[a].want = "root" /\ works THEN Adopted(a)
                  ELSE context
    /\ Proceeds(a, IF ~works THEN Stage(a, OnError(a, FALSE))
                ELSE IF attempt[a].want = "root" /\ attempt[a].waited
                       THEN [Stage(a, "connect") EXCEPT !.want = "probe"]
                ELSE Stage(a, IF attempt[a].waited THEN "ok" ELSE "failed"))
    /\ UNCHANGED <<stored, secrets, trust, known, history>>

(* Mutation of DeleteSecret: the password of a failed attempt is kept.     *)
DeleteSecretKeeps(a) == secrets
DeleteSecret(a) == secrets \ {a}

GiveUp(a) ==
    /\ attempt[a].pc = "delete"
    /\ secrets' = DeleteSecret(a)
    /\ Proceeds(a, Stage(a, "failed"))
    /\ UNCHANGED <<stored, connections, trust, known, context, faults, history>>

-----------------------------------------------------------------------------
(* The tool timeout cuts a call: the request under way goes on, nothing    *)
(* after it happens, and what is caught as Exception is not caught.        *)
Cut(a) ==
    /\ attempt[a].waited /\ a \in Running /\ faults < MaxFaults
    /\ faults' = faults + 1
    /\ Proceeds(a, [Stage(a, IF attempt[a].pc = "approve" THEN "failed" ELSE attempt[a].pc)
                    EXCEPT !.waited = FALSE])
    /\ UNCHANGED <<stored, secrets, connections, trust, known, context, history>>
ConnectionLost(e) ==
    /\ e \in connections /\ faults < MaxFaults /\ faults' = faults + 1
    /\ connections' = connections \ {e}
    /\ UNCHANGED <<stored, secrets, trust, known, context, attempt, history>>
(* The broker restarts: secrets, connections and trust are in its memory.  *)
BrokerConnections ==
    /\ secrets' = {} /\ connections' = {} /\ trust' = {}
    /\ attempt' = [a \in Attempt |->
          IF a \notin Running \/ attempt[a].pc \in {"approve", "delete"} THEN attempt[a]
          ELSE [Stage(a, OnError(a, FALSE)) EXCEPT !.trusted = FALSE, !.todo = {}]]
    /\ context' = [c \in Conversation |-> [context[c] EXCEPT !.sound = FALSE]]
    /\ UNCHANGED <<stored, known, faults, history>>

ConnectNext ==
    \/ \E a \in Attempt :
          \/ \E c \in Conversation :
                \/ \E auth \in Auth : Connect(a, c, auth)
                \/ Use(a, c)
          \/ PutSecret(a) \/ EnsureList(a) \/ Rotate(a) \/ EnsureEnvironment(a)
          \/ \E e \in EndpointId : AddEndpoint(a, e)
          \/ \E v \in EnvironmentId : CreateEnvironment(a, v)
          \/ StartConnect(a) \/ GiveUp(a) \/ Cut(a)
          \/ \E ok \in BOOLEAN : EndConnect(a, ok) \/ Approve(a, ok) \/ Work(a, ok)
    \/ \E e \in EndpointId : ConnectionLost(e)

-----------------------------------------------------------------------------
(* A conversation that is connected can connect again: its endpoint and    *)
(* environment are stored and belong together, and the password the row    *)
(* names is still there - as long as no other attempt to connect ran       *)
(* beside or after its own and the broker did not restart.                 *)
ConnectedCanReconnect ==
    \A c \in Conversation : context[c].sound =>
        /\ [id |-> context[c].environment, endpoint |-> context[c].endpoint] \in environments
        /\ \E row \in endpoints : row.id = context[c].endpoint
                                  /\ row.secret \in secrets \cup {NoSecret}

(* An attempt that fails takes its password back: one in the store belongs *)
(* to an attempt that is under way, that succeeded, or that was cut -      *)
(* where the clause that deletes it is passed by.                          *)
NoPasswordLeft ==
    \A a \in secrets : a \in Running \/ attempt[a].pc = "ok" \/ ~attempt[a].waited

(* Ensuring is idempotent: an identity has two endpoint rows, or an        *)
(* endpoint two environments, only if attempts overlapped.                 *)
EnsuredOnce ==
    \/ \E a \in Attempt : ~attempt[a].alone
    \/ /\ \A r, s \in endpoints : r.auth = s.auth => r = s
       /\ \A r, s \in environments : r.endpoint = s.endpoint => r = s

(* A key is trusted once per approval: there are no more connections to an *)
(* unverified host than approvals of the user, unless two connections were *)
(* tried at once.                                                          *)
TrustIsSpent == unverified <= approvals \/ shared

(* Connecting does once what is to be done once: rows and trust.           *)
ConnectingIsOnce == EnsuredOnce /\ TrustIsSpent

-----------------------------------------------------------------------------
(* What these rest on.  An attempt is where its data says: one that wants  *)
(* a connection for the root has the password it was given, the endpoint   *)
(* rows of its identity it has to rotate, the rows it has ensured.         *)
InPlace(a) ==
    LET t == attempt[a]
    IN  /\ t.pc = "new" => t = NewAttempt
        /\ t.pc \in Over => t.want = "none" /\ ~t.trusting
        /\ a \in Running => t.by \in Conversation /\ t.want \in {"root", "work", "probe"}
        /\ t.want \in {"work", "probe"} => t.pc \in Linked
        /\ t.trusted => t.pc = "connecting"
        /\ t.want = "work" => t.secret = NoSecret
        /\ t.want = "root" =>
              /\ t.auth \in Auth /\ (t.pc = "put" => t.auth = "password" /\ ~t.trusting)
              /\ t.secret = IF t.pc = "put" \/ t.auth = "agent" THEN NoSecret ELSE a
              /\ t.pc \in Linked =>
                    [id |-> t.environment, endpoint |-> t.endpoint] \in environments
        /\ t.pc = "rotate" =>
              \A e \in t.todo : \E r \in endpoints : r.id = e /\ r.auth = t.auth
        /\ t.pc \in {"rotate", "environments", "create"} \cup Linked =>
              \E r \in endpoints : r.id = t.endpoint /\ (t.want = "root" => r.auth = t.auth)
AttemptsInPlace ==
    /\ \A a \in Attempt : InPlace(a)
    /\ \A e \in connections : \E r \in endpoints : r.id = e
    /\ \A c \in Conversation : IF context[c].mode = "local" THEN ~context[c].sound
                               ELSE \E r \in endpoints : r.id = context[c].endpoint

SecretIsHeld ==
    \A a \in secrets : \/ attempt[a].pc \notin Over /\ attempt[a].secret = a
                       \/ attempt[a].pc = "ok"
                       \/ attempt[a].pc = "failed" /\ ~attempt[a].waited

(* Attempts that are alone are, and what they have ensured stays so.       *)
AloneIsSingle ==
    /\ \A a, b \in Connecting : attempt[a].alone => a = b
    /\ \A c \in Conversation : context[c].sound => \A a \in Connecting : attempt[a].want = "probe"
AloneHasEnsured ==
    \A a \in Connecting : attempt[a].alone /\ attempt[a].want = "root" =>
        LET t == attempt[a]
        IN  /\ t.pc = "add" => \A r \in endpoints : r.auth # t.auth
            /\ t.pc = "create" => \A r \in environments : r.endpoint # t.endpoint
            /\ t.pc = "rotate" =>
                  \A r \in endpoints : r.auth = t.auth => (r.secret = t.secret \/ r.id \in t.todo)
            /\ t.pc \in {"environments", "create"} \cup Linked =>
                  \A r \in endpoints : r.id = t.endpoint => r.secret = t.secret
(* A restart takes the password of an attempt that is being approved: with *)
(* that password, it finds no connection and makes none.                   *)
LostIsLost ==
    \A a \in Connecting : attempt[a].alone /\ attempt[a].want = "root" /\ attempt[a].secret = a
                            /\ a \notin secrets =>
        /\ attempt[a].pc \notin {"connecting", "use"} /\ secrets = {}
        /\ \A r \in endpoints : r.id \in connections => r.auth = "agent"
        /\ \A b \in Attempt, r \in endpoints :
              attempt[b].pc = "connecting" /\ r.id = attempt[b].endpoint => r.auth = "agent"

(* An approval is with an attempt that has yet to set the trust, or with   *)
(* the endpoint that is trusted, or was spent.                             *)
Trusting == {a \in Attempt : attempt[a].trusting
                             /\ attempt[a].pc \in {"list", "rotate", "add", "environments"}}
Trusted == {e \in EndpointId : \/ e \in trust
                               \/ \E a \in Attempt : attempt[a].trusted /\ attempt[a].endpoint = e}
TrustIsCounted ==
    \/ shared
    \/ /\ IsFiniteSet(Trusting) /\ IsFiniteSet(Trusted)
       /\ unverified + Cardinality(Trusting) + Cardinality(Trusted) <= approvals
       /\ \A a, b \in Attempt :
             attempt[a].trusted /\ attempt[b].trusted /\ attempt[a].endpoint = attempt[b].endpoint
                => a = b

ConnectInv ==
    /\ ConnectTypeOK /\ AttemptsInPlace /\ SecretIsHeld
    /\ AloneIsSingle /\ AloneHasEnsured /\ LostIsLost /\ TrustIsCounted
    /\ EnsuredOnce /\ ConnectedCanReconnect
=============================================================================
