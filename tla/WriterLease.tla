------------------------------ MODULE WriterLease ------------------------------
(***************************************************************************)
(* Writing to one terminal session through the broker: the writer leases,  *)
(* session.acquire_lease and session.write, the write of the SDK that      *)
(* renews the lease first, and input requests answered through the same    *)
(* lease.  Every await of the handlers is a place where another request    *)
(* gets its turn.                                                          *)
(***************************************************************************)
EXTENDS Naturals, Sequences, FiniteSets

CONSTANTS
    Call,         \* requests of clients; each is made once
    Owner,        \* owner ids
    Request,      \* input requests of the session
    Ttl,          \* what ttl_seconds can be
    MaxClock,     \* bound on the time
    MaxFailures   \* bound on the remote commands that fail

NoData == "empty"
LeaseId == 1..Cardinality(Call)
Backend == {"tmux", "pty"}

ASSUME LeaseAssumption ==
    /\ IsFiniteSet(Call) /\ NoData \notin Call /\ Ttl \subseteq Nat \ {0}
    /\ MaxClock \in Nat /\ MaxFailures \in Nat

VARIABLES
    backend,      \* what the session runs on
    attached,     \* active.session_handles has a handle of the session
    shell,        \* the program in the terminal runs
    leases,       \* the stored WriterLease rows
    now,
    call,         \* a request, from the client's to the broker's end
    buffer,       \* the tmux buffer of the handle: whose data it holds
    pasted,       \* whose data the shell got, in order
    requests,     \* the stored status of an InputRequest
    failures

leaseVars == <<backend, attached, shell, leases, now, call, buffer, pasted, requests,
               failures>>

NoLease == [id |-> 0, owner |-> "nobody", expires |-> 0, version |-> 0]
NoRequest == "none"

(* lease: what acquire is about to store, then what the client was granted *)
(* as long as it has time left and no acquire took it by force or          *)
(* overlapped (raced); forced: how it was granted; until: when the lease   *)
(* expires that a write was validated with, or 0 when that one was taken   *)
(* by force or by an overlapping acquire; alone: no other write was        *)
(* between its two tmux commands; broken: a command failed, or the shell   *)
(* was gone; defies: it reached the shell against a lease it had to honour.*)
NewCall == [pc |-> "new", op |-> "none", owner |-> "nobody", lease |-> NoLease,
            forced |-> FALSE, raced |-> FALSE, request |-> NoRequest, until |-> 0,
            alone |-> TRUE, broken |-> FALSE, defies |-> FALSE]

LeaseInit ==
    /\ backend \in Backend /\ attached = TRUE /\ shell = TRUE
    /\ leases = {} /\ now = 0
    /\ call = [k \in Call |-> NewCall]
    /\ buffer = NoData /\ pasted = <<>>
    /\ requests = [r \in Request |-> "absent"]
    /\ failures = 0

Ended == {"ok", "error", "lost"}
InTmux(k) == call[k].pc = "paste"
LeaseRow == [id : LeaseId, owner : Owner, expires : Nat, version : Nat \ {0}]
CallPc == {"new", "store", "validate", "set", "paste", "touch", "resolve"} \cup Ended
CallRow == [pc : CallPc, op : {"none", "acquire", "renew", "write", "submit"},
            owner : Owner \cup {"nobody"}, lease : LeaseRow \cup {NoLease},
            forced : BOOLEAN, raced : BOOLEAN, request : Request \cup {NoRequest},
            until : Nat, alone : BOOLEAN, broken : BOOLEAN, defies : BOOLEAN]
LeaseTypeOK ==
    /\ backend \in Backend /\ attached \in BOOLEAN /\ shell \in BOOLEAN
    /\ now \in 0..MaxClock /\ failures \in 0..MaxFailures
    /\ call \in [Call -> CallRow]
    /\ \A k \in Call :
          /\ call[k].pc = "new" => call[k] = NewCall
          /\ call[k].pc = "store" => call[k].op \in {"acquire", "renew"} /\ call[k].lease # NoLease
          /\ call[k].pc = "validate" => call[k].op = "renew"
          /\ call[k].pc \in {"set", "paste", "touch"} => call[k].op \in {"renew", "write", "submit"}
          /\ call[k].pc = "resolve" => call[k].op = "submit"
          /\ call[k].op = "submit" =>
                call[k].request \in Request /\ requests[call[k].request] # "absent"
    /\ leases \subseteq LeaseRow /\ \A a, b \in leases : a.id = b.id => a = b
    /\ buffer \in Call \cup {NoData} /\ pasted \in Seq(Call)
    /\ requests \in [Request -> {"absent", "PENDING", "RESOLVED"}]
    /\ buffer # NoData => backend = "tmux"

-----------------------------------------------------------------------------
(* The latest lease: of the highest version, then the one that expires     *)
(* last, then the first of the list, which the index sorts by id.          *)
Later(a, b) ==
    \/ a.version > b.version
    \/ a.version = b.version /\ a.expires > b.expires
    \/ a.version = b.version /\ a.expires = b.expires /\ a.id <= b.id
get_for_session ==
    IF leases = {} THEN NoLease ELSE CHOOSE a \in leases : \A b \in leases : Later(a, b)

Storing == {k \in Call : call[k].pc = "store"}
Granted == {k \in Call \ Storing : call[k].lease # NoLease}
(* The leases of others that a write which is valid until then must not    *)
(* meet: those that were granted without force in its time.                *)
HeldAgainst(owner, until) ==
    {k \in Granted : call[k].lease.owner # owner /\ ~call[k].forced /\ now < until}
Forget(ks) == [k \in Call |-> IF k \in ks THEN [call[k] EXCEPT !.lease = NoLease, !.forced = FALSE]
                              ELSE call[k]]

Moves(k, change) == call' = [call EXCEPT ![k] = change]
At(k, pc) == [call[k] EXCEPT !.pc = pc, !.owner = IF pc \in Ended THEN "nobody" ELSE @]

-----------------------------------------------------------------------------
(* create_request.                                                         *)
CreateRequest(r) ==
    /\ requests[r] = "absent"
    /\ requests' = [requests EXCEPT ![r] = "PENDING"]
    /\ UNCHANGED <<backend, attached, shell, leases, now, call, buffer, pasted, failures>>

Conflicts(current, force) == current.expires > now /\ ~force

(* acquire up to the upsert, for acquire_lease or for a write of the SDK   *)
(* that renews the lease, by force: the lease that is read decides, and    *)
(* the next version of it is built.                                        *)
AcquireRead(k, op, owner, force, ttl, id) ==
    LET current == get_for_session
        begun == [NewCall EXCEPT !.op = op, !.owner = owner]
        before == IF force THEN Forget(Granted) ELSE call
    IN  /\ call[k].pc = "new" /\ (op = "renew" => force)
        /\ IF current = NoLease THEN \A j \in Call : call[j].lease.id # id ELSE id = current.id
        /\ call' = [before EXCEPT ![k] =
               IF Conflicts(current, force) THEN [NewCall EXCEPT !.pc = "error", !.op = op]
               ELSE [begun EXCEPT !.pc = "store", !.forced = force,
                        !.lease = [id |-> id, owner |-> owner, expires |-> now + ttl,
                                   version |-> current.version + 1]]]
        /\ UNCHANGED <<backend, attached, shell, leases, now, buffer, pasted, requests, failures>>

(* Mutation of Upserted: the row is added beside its older version.        *)
UpsertedBeside(lease) == leases \cup {lease}
Upserted(lease) == {a \in leases : a.id # lease.id} \cup {lease}

(* leases.upsert.  Another acquire that has read and not stored yet will   *)
(* not see this lease.                                                     *)
AcquireStore(k) ==
    LET lease == call[k].lease
        others == Storing \ {k}
        raced == call[k].raced \/ others # {} \/ lease.expires <= now
        held(j) == IF raced \/ call[k].forced THEN 0 ELSE call[j].until
    IN  /\ call[k].pc = "store"
        /\ leases' = Upserted(lease)
        /\ call' = [j \in Call |->
               IF j = k THEN [At(k, IF call[k].op = "renew" THEN "validate" ELSE "ok")
                                 EXCEPT !.lease = IF raced THEN NoLease ELSE lease,
                                        !.forced = @ /\ ~raced, !.raced = FALSE]
               ELSE [call[j] EXCEPT !.raced = @ \/ j \in others, !.until = held(j)]]
        /\ UNCHANGED <<backend, attached, shell, now, buffer, pasted, requests, failures>>

(* Mutation of Refuses: the owner is not compared.                         *)
RefusesAnyOwner(lease, owner) == lease = NoLease \/ lease.expires <= now
Refuses(lease, owner) ==
    lease = NoLease \/ lease.expires <= now \/ lease.owner # owner

(* session.write, and submit_input once it has its request: validate.      *)
Validated(k, begun) ==
    /\ Moves(k, IF Refuses(get_for_session, begun.owner)
                THEN [begun EXCEPT !.pc = "error", !.owner = "nobody"]
                ELSE [begun EXCEPT !.pc = "set", !.until = get_for_session.expires])
    /\ UNCHANGED <<backend, attached, shell, leases, now, buffer, pasted, requests, failures>>
Write(k, owner) ==
    call[k].pc = "new" /\ Validated(k, [NewCall EXCEPT !.op = "write", !.owner = owner])
SubmitInput(k, owner, r) ==
    /\ call[k].pc = "new" /\ requests[r] # "absent"
    /\ Validated(k, [NewCall EXCEPT !.op = "submit", !.owner = owner, !.request = r])
RenewedWrite(k) == call[k].pc = "validate" /\ Validated(k, call[k])

-----------------------------------------------------------------------------
(* SessionService.write: the session is looked up, which attaches a tmux   *)
(* session that lost its handle to a restart; without a handle the write   *)
(* fails.  The write of a pty goes out at once, that of tmux fills the     *)
(* buffer of the handle.                                                   *)
Reachable == attached \/ (backend = "tmux" /\ shell)
(* What the shell is given by k.                                           *)
Gives(k, data, pc) ==
    /\ pasted' = IF shell THEN Append(pasted, data) ELSE pasted
    /\ Moves(k, [At(k, pc) EXCEPT !.defies = HeldAgainst(call[k].owner, call[k].until) # {},
                                  !.until = 0, !.broken = @ \/ ~shell])
(* Mutation of Filled: a buffer that was left behind is kept.              *)
FilledOnce(k) == IF buffer = NoData THEN k ELSE buffer
Filled(k) == k

WriteBegins(k) ==
    /\ call[k].pc = "set"
    /\ \/ /\ ~Reachable /\ Moves(k, At(k, "error"))
          /\ UNCHANGED <<attached, buffer, pasted>>
       \/ /\ Reachable /\ backend = "pty" /\ Gives(k, k, "touch")
          /\ UNCHANGED <<attached, buffer>>
       \/ /\ Reachable /\ backend = "tmux"
          /\ attached' = TRUE /\ buffer' = Filled(k)
          /\ call' = [j \in Call |-> IF j = k THEN [At(k, "paste") EXCEPT !.alone =
                                                       ~\E i \in Call : InTmux(i)]
                                     ELSE IF InTmux(j) THEN [call[j] EXCEPT !.alone = FALSE]
                                     ELSE call[j]]
          /\ UNCHANGED pasted
    /\ UNCHANGED <<backend, shell, leases, now, requests, failures>>

(* Mutation of AfterPaste: paste-buffer without -d.                        *)
AfterPasteKept == buffer
AfterPaste == NoData

(* paste-buffer -d: whatever the buffer holds by now; tmux fails when the  *)
(* buffer, or the session, is gone.                                        *)
WritePastes(k) ==
    /\ InTmux(k)
    /\ IF buffer = NoData \/ ~shell
         THEN /\ Moves(k, [At(k, "error") EXCEPT !.broken = @ \/ ~shell])
              /\ UNCHANGED <<pasted, buffer>>
         ELSE Gives(k, buffer, "touch") /\ buffer' = AfterPaste
    /\ UNCHANGED <<backend, attached, shell, leases, now, requests, failures>>

(* A remote command fails, before or after it took effect.                 *)
CommandFails(k) ==
    /\ failures < MaxFailures /\ failures' = failures + 1
    /\ backend = "tmux" /\ attached
    /\ \/ /\ call[k].pc = "set" /\ buffer' \in {buffer, Filled(k)} /\ UNCHANGED pasted
       \/ /\ InTmux(k) /\ \/ UNCHANGED <<pasted, buffer>>
                          \/ buffer # NoData /\ shell /\ pasted' = Append(pasted, buffer)
                             /\ buffer' = AfterPaste
    /\ call' = [j \in Call |-> IF j = k THEN [At(k, "error") EXCEPT !.broken = TRUE]
                               ELSE IF InTmux(j) THEN [call[j] EXCEPT !.alone = FALSE]
                               ELSE call[j]]
    /\ UNCHANGED <<backend, attached, shell, leases, now, requests>>

(* The session is touched and a redacted frame is stored; the answer to a  *)
(* request then resolves it.                                               *)
WriteEnds(k) ==
    /\ call[k].pc = "touch"
    /\ Moves(k, At(k, IF call[k].op = "submit" THEN "resolve" ELSE "ok"))
    /\ UNCHANGED <<backend, attached, shell, leases, now, buffer, pasted, requests, failures>>

(* Mutation of Resolves: the request is resolved before the write.         *)
ResolvesFirst(k) ==
    /\ call[k].pc = "set" /\ call[k].op = "submit"
    /\ requests' = [requests EXCEPT ![call[k].request] = "RESOLVED"]
    /\ Moves(k, call[k])
    /\ UNCHANGED <<backend, attached, shell, leases, now, buffer, pasted, failures>>
Resolves(k) ==
    /\ call[k].pc = "resolve"
    /\ requests' = [requests EXCEPT ![call[k].request] = "RESOLVED"]
    /\ Moves(k, At(k, "ok"))
    /\ UNCHANGED <<backend, attached, shell, leases, now, buffer, pasted, failures>>

-----------------------------------------------------------------------------
(* Time passes; the program in the terminal ends, and with it the handle.  *)
Tick ==
    /\ now < MaxClock /\ now' = now + 1
    /\ call' = Forget({k \in Granted : call[k].lease.expires <= now'})
    /\ UNCHANGED <<backend, attached, shell, leases, buffer, pasted, requests, failures>>
ShellEnds ==
    /\ shell /\ shell' = FALSE
    /\ attached' \in {attached, FALSE}
    /\ UNCHANGED <<backend, leases, now, call, buffer, pasted, requests, failures>>

(* The broker restarts: requests under way are lost to their clients, and  *)
(* with the handles go the pipes of a pty and the buffer's name.           *)
BrokerLeases ==
    /\ attached' = FALSE /\ shell' = (shell /\ backend = "tmux")
    /\ buffer' = NoData
    /\ call' = [k \in Call |-> IF call[k].pc \in Ended \cup {"new"} THEN call[k]
                               ELSE [NewCall EXCEPT !.pc = "lost", !.op = call[k].op,
                                                    !.request = call[k].request]]
    /\ UNCHANGED <<backend, leases, now, pasted, requests, failures>>

LeaseNext ==
    \/ \E k \in Call :
          \/ \E owner \in Owner :
                \/ \E op \in {"acquire", "renew"}, force \in BOOLEAN, ttl \in Ttl, id \in LeaseId :
                      AcquireRead(k, op, owner, force, ttl, id)
                \/ Write(k, owner)
                \/ \E r \in Request : SubmitInput(k, owner, r)
          \/ AcquireStore(k) \/ RenewedWrite(k)
          \/ WriteBegins(k) \/ WritePastes(k) \/ CommandFails(k)
          \/ WriteEnds(k) \/ Resolves(k)
    \/ \E r \in Request : CreateRequest(r)
    \/ Tick \/ ShellEnds

-----------------------------------------------------------------------------
Count(k) == Cardinality({i \in DOMAIN pasted : pasted[i] = k})

(* What a lease is for: while a lease that was granted without force has   *)
(* time left, nobody else's input reaches the shell - unless an acquire    *)
(* overlapped with it or took it by force, or the write was validated with *)
(* a lease that has expired, or was lost in one of these ways, since.      *)
LeaseIsRespected == \A k \in Call : ~call[k].defies

(* Input is never doubled: not by writes that overlap on the one buffer,   *)
(* nor by a command that fails after its effect.                           *)
GivenOnce == \A k \in Call : Count(k) <= 1

(* A write that shared the buffer with no other one, and met neither a     *)
(* failing command nor a shell that was ending, tells the truth: a reply   *)
(* means the shell got this data, an error that it did not.                *)
ReplyIsTrue ==
    \A k \in Call : call[k].op # "acquire" /\ call[k].alone /\ ~call[k].broken =>
        /\ call[k].pc \in {"touch", "resolve", "ok"} => Count(k) = 1
        /\ call[k].pc = "error" => Count(k) = 0

(* A resolved request was answered: the shell got the data of one of the   *)
(* answers, or one of them shared the buffer with another write or came    *)
(* when the shell was ending.                                              *)
ResolvedWasGiven ==
    \A r \in Request : requests[r] = "RESOLVED" =>
        \E k \in Call : call[k].request = r
                        /\ (Count(k) = 1 \/ ~call[k].alone \/ call[k].broken)

(* Input goes where its sender is told it went: once, and not if the reply *)
(* is an error.                                                            *)
InputIsFaithful == GivenOnce /\ ReplyIsTrue /\ ResolvedWasGiven

-----------------------------------------------------------------------------
(* What LeaseIsRespected rests on.  A granted lease is the latest row by   *)
(* its version, and no acquire is under way beside it; an acquire that     *)
(* nobody overlapped stores the successor of the row it has read; a write  *)
(* that is still held to its lease has that of the latest row.             *)
GrantedIsLatest ==
    /\ Storing # {} => Granted = {}
    /\ \A k \in Granted :
          /\ call[k].lease \in leases /\ call[k].lease.expires > now
          /\ \A a \in leases : a = call[k].lease \/ a.version < call[k].lease.version
StoringIsNext ==
    \A k \in Storing : ~call[k].raced =>
        /\ call[k].lease.version = get_for_session.version + 1
        /\ leases # {} => call[k].lease.id = get_for_session.id
        /\ call[k].forced \/ get_for_session.expires <= now
WriteIsHeld ==
    \A k \in Call : call[k].pc \in {"set", "paste"} /\ call[k].until > now =>
        /\ leases # {}
        /\ get_for_session.owner = call[k].owner /\ get_for_session.expires = call[k].until
LeaseInv ==
    /\ LeaseTypeOK /\ IsFiniteSet(leases)
    /\ GrantedIsLatest /\ StoringIsNext /\ WriteIsHeld /\ LeaseIsRespected

(* What InputIsFaithful rests on: data is nowhere before its write begins, *)
(* in the buffer or with the shell after; a write that is alone between    *)
(* its commands has its own data in the buffer.                            *)
Given == {pasted[i] : i \in DOMAIN pasted}
DataIsOnce ==
    /\ \A i, j \in DOMAIN pasted : pasted[i] = pasted[j] => i = j
    /\ buffer \notin Given
    /\ \A k \in Call : call[k].pc \in {"new", "store", "validate", "set"} =>
          k \notin Given /\ buffer # k
AloneHasBuffer ==
    \A k \in Call : InTmux(k) /\ call[k].alone =>
        buffer = k /\ \A j \in Call : InTmux(j) => j = k
RepliesAreTrue ==
    \A k \in Call : call[k].op # "acquire" /\ call[k].alone /\ ~call[k].broken =>
        /\ call[k].pc \in {"touch", "resolve", "ok"} => k \in Given
        /\ call[k].pc = "error" => k \notin Given /\ buffer # k
ResolvedHasAnswer ==
    \A r \in Request : requests[r] = "RESOLVED" =>
        \E k \in Call : call[k].pc = "ok" /\ call[k].op = "submit" /\ call[k].request = r
InputInv == DataIsOnce /\ AloneHasBuffer /\ RepliesAreTrue /\ ResolvedHasAnswer
=============================================================================
