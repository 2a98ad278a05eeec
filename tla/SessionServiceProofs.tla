-------------------------- MODULE SessionServiceProofs --------------------------
(***************************************************************************)
(* Proofs, for every set of clients and handles, any exit codes, and any   *)
(* number of crashes and failures of the connection, that SessionService   *)
(* keeps its types, that the exit code in the session table is the         *)
(* command's own, that no end is claimed of a command that runs, and that  *)
(* a registered handle is attended to.                                     *)
(***************************************************************************)
EXTENDS SessionService, TLAPS

(* A coroutine of the declared type that holds only real exit codes, and   *)
(* waits only on a handle.                                                 *)
Good(co) ==
    /\ co \in Coroutine
    /\ IsReal(co.copy.exit_code) /\ IsReal(co.code)
    /\ co.pc = "wait" => co.on \in Handle

(* Where a coroutine is when it does not wait.                             *)
Busy == Pc \ {"wait"}

GoodRecord(record) == record \in SessionRecord /\ IsReal(record.exit_code)

(* The part of the invariant that a step of a coroutine can disturb.       *)
ActorsGood == actor \in [Actor -> Coroutine] /\ \A a \in Actor : Good(actor[a])

(* None is no exit code.                                                   *)
LEMMA NoneIsReal == IsReal(None) /\ None \notin ExitCode
BY CodeAssumption DEF IsReal, None

(* What Rec builds.                                                        *)
LEMMA RecordFacts ==
    ASSUME NEW s \in SessionState, NEW x \in ExitCode \cup {None}
    PROVE  Rec(s, x) \in SessionRecord /\ Rec(s, x).exit_code = x /\ Rec(s, x).state = s
BY DEF Rec, SessionRecord

(* A row that is not there yet holds no exit code.                         *)
LEMMA AbsentFacts == GoodRecord(AbsentSession)
<1>1. "ABSENT" \in SessionState
  BY DEF SessionState
<1> QED
  BY <1>1, RecordFacts, NoneIsReal DEF AbsentSession, GoodRecord

(* A record with another state keeps its exit code.                        *)
LEMMA WithStateFacts ==
    ASSUME NEW r, GoodRecord(r), NEW s \in SessionState
    PROVE  GoodRecord(WithState(r, s))
<1>1. r.exit_code \in ExitCode \cup {None}
  BY DEF GoodRecord, SessionRecord
<1> QED
  BY <1>1, RecordFacts DEF WithState, GoodRecord

(* A coroutine at rest, and the calls that begin, hold no exit code.       *)
LEMMA CallFacts ==
    ASSUME NEW op \in Op, NEW pc \in Busy
    PROVE  /\ Good(Idle)
           /\ Good(Call(op, pc))
           /\ Call(op, pc).copy = AbsentSession
<1>1. AbsentSession \in SessionRecord /\ IsReal(AbsentSession.exit_code)
  BY AbsentFacts DEF GoodRecord
<1>2. Idle \in Coroutine /\ Idle.copy = AbsentSession /\ Idle.code = None /\ Idle.pc = "idle"
  BY <1>1 DEF Idle, Coroutine, Op, Pc, Looking
<1>3. /\ Call(op, pc) \in Coroutine /\ Call(op, pc).copy = AbsentSession
      /\ Call(op, pc).code = None /\ Call(op, pc).pc # "wait"
  BY <1>2 DEF Call, Coroutine, Busy
<1> QED
  BY <1>1, <1>2, <1>3, NoneIsReal DEF Good

(* A coroutine at rest is a good one.                                      *)
LEMMA IdleGood == Good(Idle)
BY CallFacts DEF Op, Pc, Busy

(* The steps of a coroutine keep what it holds.                            *)
LEMMA StepFacts ==
    ASSUME NEW co, Good(co), NEW pc \in Busy, NEW h \in Handle \cup {None},
           NEW r, GoodRecord(r), NEW look \in Looking
    PROVE  /\ Good(At(co, pc))
           /\ Good(Holding(co, pc, r))
           /\ Good(Using(co, pc, h))
           /\ Good([At(co, pc) EXCEPT !.look = look])
           /\ Good([Using(co, pc, h) EXCEPT !.look = look])
           /\ Good([co EXCEPT !.look = look])
BY DEF Good, GoodRecord, At, Holding, Using, Coroutine, Busy

(* A watcher that reports a real exit code is a good coroutine.            *)
LEMMA ReportingFacts ==
    ASSUME NEW pc \in Busy, NEW x \in ExitCode \cup {None}, IsReal(x)
    PROVE  Good(Reporting(pc, x))
<1>1. "watch" \in Op
  BY DEF Op
<1>2. Good(Call("watch", pc))
  BY <1>1, CallFacts
<1> QED
  BY <1>2 DEF Good, Reporting, Coroutine, Busy, Call, Idle

(* Where get and reattach_on_startup lead to.                              *)
LEMMA ReclaimedFacts ==
    ASSUME NEW co, Good(co)
    PROVE  Good(Reclaimed(co))
<1>1. co.code \in ExitCode \cup {None} /\ IsReal(co.code) /\ co.op \in Op
  BY DEF Good, Coroutine
<1>2. "reget" \in Busy
  BY DEF Pc, Busy
<1>3. Good(Reporting("reget", co.code)) /\ Good(Call(co.op, "reget"))
  BY <1>1, <1>2, ReportingFacts, CallFacts
<1> QED
  BY <1>3, IdleGood DEF Reclaimed

(* What get's caller does next keeps what the coroutine holds.             *)
LEMMA DispatchFacts ==
    ASSUME NEW co, Good(co), active \in Handle \cup {None}
    PROVE  Good(Dispatch(co))
<1>1. /\ co.code \in ExitCode \cup {None} /\ IsReal(co.code)
      /\ GoodRecord(co.copy)
  BY DEF Good, Coroutine, GoodRecord
<1>2. {"send", "kill", "end"} \subseteq Busy /\ "terminate" \in Op /\ "file" \in Looking
  BY DEF Pc, Busy, Op, Looking
<1>3. Good(Using(co, "send", active)) /\ Good(Using(co, "kill", active))
  BY <1>1, <1>2, StepFacts
<1>4. Good(Holding(Call("terminate", "end"), "end", co.copy))
  BY <1>1, <1>2, CallFacts, StepFacts
<1>5. Good(Reporting("end", co.code))
  BY <1>1, <1>2, ReportingFacts
<1> QED
  BY <1>3, <1>4, <1>5, IdleGood DEF Dispatch
(* What _tmux_status finds is a real exit code, or none.                   *)
LEMMA FoundFacts ==
    ASSUME TypeOK, RealInv, NEW look \in Looking, NEW found \in LookNext(look)
    PROVE  CodeOf(found) \in ExitCode \cup {None} /\ IsReal(CodeOf(found))
<1>1. found \in ExitCode => found = status
  <2>1. CASE look = "file"
    <3>1. LookNext(look) = {StatusFound("probe"), "raised"}
      BY <2>1 DEF LookNext
    <3> QED
      BY <3>1, CodeAssumption DEF StatusFound, TypeOK, None
  <2>2. CASE look = "late"
    <3>1. LookNext(look) = {StatusFound("gone"), "raised"}
      BY <2>2 DEF LookNext
    <3> QED
      BY <3>1, CodeAssumption DEF StatusFound, TypeOK, None
  <2>3. CASE look = "probe"
    <3>1. LookNext(look) = {IF tmux = "alive" THEN "alive" ELSE "late", "unknown", "raised"}
      BY <2>3 DEF LookNext
    <3> QED
      BY <3>1, CodeAssumption
  <2> QED
    BY <2>1, <2>2, <2>3 DEF Looking
<1>2. IsReal(status)
  BY DEF RealInv
<1> QED
  BY <1>1, <1>2, NoneIsReal DEF CodeOf, IsReal

(* The count of failures stays within its bound.                           *)
LEMMA FaultFacts ==
    ASSUME TypeOK, NEW b \in BOOLEAN, FaultIff(b) \/ Fault \/ UNCHANGED faults
    PROVE  faults' \in 0..MaxFaults
BY SessionBoundAssumption DEF TypeOK, FaultIff, Fault

(* The invariants, for each coroutine and the record it holds.             *)
LEMMA InvActors ==
    ASSUME TypeOK, RealInv
    PROVE  /\ ActorsGood
           /\ GoodRecord(session)
           /\ \A a \in Actor : GoodRecord(actor[a].copy) /\ actor[a].look \in Looking
                             /\ actor[a].on \in Handle \cup {None}
BY DEF TypeOK, RealInv, ActorsGood, Good, GoodRecord, Coroutine

(* A coroutine that becomes a good one leaves the others good.             *)
LEMMA BecomesFacts ==
    ASSUME ActorsGood, NEW a \in Actor, NEW co, Good(co), Becomes(a, co), UNCHANGED command
    PROVE  ActorsGood'
BY DEF ActorsGood, Good, Becomes, IsReal

(* The invariant after a step that leaves the command and its file alone.  *)
LEMMA Keeps ==
    ASSUME TypeOK, RealInv, ActorsGood', GoodRecord(session'),
           runtime' \in {"booting", "up", "stopping", "down"},
           crashes' \in 0..MaxCrashes, faults' \in 0..MaxFaults,
           active' \in Handle \cup {None},
           run' \in [Handle -> {"unused", "off", "died"} \cup Looking],
           completion' \in [Handle -> {"pending"} \cup ExitCode \cup {None}],
           \A h \in Handle : IsReal(completion'[h]),
           UNCHANGED <<tmux, command, status>>
    PROVE  TypeOK' /\ RealInv'
BY DEF TypeOK, RealInv, ActorsGood, Good, GoodRecord, IsReal

(* A step of one coroutine, which may also write the record.               *)
LEMMA CoroutineStep ==
    ASSUME TypeOK, RealInv, NEW a \in Actor, NEW co, Good(co), Becomes(a, co),
           GoodRecord(session'), faults' \in 0..MaxFaults,
           UNCHANGED <<runtime, crashes, active, run, completion, tmux, command, status>>
    PROVE  TypeOK' /\ RealInv'
<1>1. ActorsGood'
  BY InvActors, BecomesFacts
<1> QED
  BY <1>1, Keeps DEF TypeOK, RealInv
(* Resolving a future with a real code keeps the futures real.             *)
LEMMA ResolveFacts ==
    ASSUME TypeOK, RealInv, NEW h, NEW x \in ExitCode \cup {None}, IsReal(x), Resolve(h, x)
    PROVE  /\ completion' \in [Handle -> {"pending"} \cup ExitCode \cup {None}]
           /\ \A g \in Handle : IsReal(completion'[g])
<1>1. completion \in [Handle -> {"pending"} \cup ExitCode \cup {None}]
      /\ \A g \in Handle : IsReal(completion[g])
  BY DEF TypeOK, RealInv
<1>2. completion' \in [Handle -> {"pending"} \cup ExitCode \cup {None}]
  BY <1>1 DEF Resolve
<1>3. \A g \in Handle : completion'[g] = completion[g] \/ completion'[g] = x
  BY <1>1 DEF Resolve
<1> QED
  BY <1>1, <1>2, <1>3

(* A step that kills the session: a command killed while it runs had no    *)
(* exit code anybody could hold.                                           *)
LEMMA KillStep ==
    ASSUME TypeOK, RealInv, NEW a \in Actor, NEW co, Good(co), Becomes(a, co),
           faults' \in 0..MaxFaults, KillSession \/ UNCHANGED <<tmux, command>>,
           UNCHANGED <<runtime, crashes, session, active, run, completion, status>>
    PROVE  TypeOK' /\ RealInv'
<1>1. ActorsGood
  BY InvActors
<1>2. actor' \in [Actor -> Coroutine] /\ \A b \in Actor : Good(actor'[b])
  BY <1>1 DEF ActorsGood, Becomes, Good
<1>3. TypeOK'
  BY <1>2 DEF TypeOK, KillSession
<1>4. \A b \in Actor : (/\ IsReal(actor[b].copy.exit_code) /\ IsReal(actor[b].code)
                        /\ actor[b].pc = "wait" => actor[b].on \in Handle)'
  BY <1>2, CodeAssumption DEF Good, IsReal, KillSession
<1>5. IsReal(session.exit_code)' /\ IsReal(status)' /\ \A h \in Handle : IsReal(completion[h])'
  BY CodeAssumption DEF RealInv, IsReal, KillSession
<1>6. (status = "partial" => command \in ExitCode)' /\ (tmux = "absent" => command = "absent")'
  BY CodeAssumption DEF RealInv, KillSession
<1> QED
  BY <1>3, <1>4, <1>5, <1>6 DEF RealInv

-----------------------------------------------------------------------------
(* get and the reattachment, for a client, a watcher or the recovery.      *)
LEMMA GetStepKeeps ==
    ASSUME TypeOK, RealInv, NEW a \in Actor, GetStep(a)
    PROVE  TypeOK' /\ RealInv'
<1> DEFINE me == actor[a]
<1>0. /\ Good(me) /\ GoodRecord(me.copy) /\ GoodRecord(session)
      /\ me.look \in Looking /\ me.on \in Handle \cup {None}
      /\ active \in Handle \cup {None} /\ faults \in 0..MaxFaults
  BY InvActors DEF ActorsGood, TypeOK
<1>p. /\ {"check", "ready", "status", "attach", "activate", "register", "start"} \subseteq Busy
      /\ {"DETACHED", "TERMINATED", "DISCONNECTED", "ACTIVE"} \subseteq SessionState
      /\ "file" \in Looking /\ "watch" \in Op
  BY DEF Pc, Busy, SessionState, Looking, Op
<1>d. Good(Dispatch(me)) /\ Good(Reclaimed(me)) /\ Good(Idle)
  BY <1>0, DispatchFacts, ReclaimedFacts, IdleGood
<1>1. CASE Read(a)
  <2>1. Good(Holding(me, "check", session)) /\ Good(Holding(me, "ready", session))
    BY <1>0, <1>p, StepFacts
  <2>2. PICK co : Good(co) /\ Becomes(a, co)
    BY <1>1, <2>1 DEF Read
  <2> QED
    BY <1>0, <1>1, <2>2, CoroutineStep DEF Read, host
<1>2. CASE Check(a)
  <2>1. Good([At(me, "status") EXCEPT !.look = "file"])
    BY <1>0, <1>p, StepFacts
  <2>2. PICK co : Good(co) /\ Becomes(a, co)
    BY <1>2, <2>1, <1>d DEF Check
  <2> QED
    BY <1>0, <1>2, <2>2, CoroutineStep DEF Check, host
<1>3. CASE Ready(a)
  BY <1>0, <1>3, <1>d, CoroutineStep DEF Ready, host
<1>4. CASE LookOn(a)
  <2>1. PICK found \in Looking : Becomes(a, [me EXCEPT !.look = found])
    BY <1>4 DEF LookOn
  <2>2. Good([me EXCEPT !.look = found])
    BY <1>0, <1>p, <2>1, StepFacts
  <2> QED
    BY <1>0, <1>4, <2>1, <2>2, CoroutineStep DEF LookOn, host
<1>5. CASE ReattachDeferred(a)
  <2>1. GoodRecord(session') /\ faults' \in 0..MaxFaults
    BY <1>0, <1>5, <1>p, WithStateFacts, FaultFacts DEF ReattachDeferred, Upsert
  <2> QED
    BY <2>1, <1>5, <1>d, CoroutineStep DEF ReattachDeferred, host
<1>6. CASE ReattachFinished(a)
  <2>1. PICK found \in LookNext(me.look) : session' = Rec("TERMINATED", CodeOf(found))
    BY <1>6 DEF ReattachFinished, Upsert
  <2>2. GoodRecord(session')
    BY <2>1, <1>0, <1>p, FoundFacts, RecordFacts DEF GoodRecord
  <2> QED
    BY <2>2, <1>0, <1>6, <1>d, CoroutineStep DEF ReattachFinished, host
<1>7. CASE NotReclaimed(a)
  <2>1. faults' \in 0..MaxFaults
    BY <1>0, <1>7, SessionBoundAssumption DEF NotReclaimed, FaultIff, Fault
  <2>2. GoodRecord(session')
    BY <1>7, <1>0, <1>p, WithStateFacts DEF NotReclaimed, Upsert
  <2>3. PICK co : Good(co) /\ Becomes(a, co)
    BY <1>7, <1>d DEF NotReclaimed
  <2> QED
    BY <2>1, <2>2, <2>3, <1>7, CoroutineStep DEF NotReclaimed, host
<1>8. CASE ReattachAlive(a)
  <2>1. Good([At(me, "attach") EXCEPT !.look = "file"])
    BY <1>0, <1>p, StepFacts
  <2> QED
    BY <1>0, <1>8, <2>1, CoroutineStep DEF ReattachAlive, host
<1>9. CASE Attach(a)
  <2>1. PICK h \in Handle : NewHandle(a, me, h)
    BY <1>9 DEF Attach
  <2>2. Good([Using(me, "activate", h) EXCEPT !.look = "file"])
    BY <1>0, <1>p, StepFacts
  <2>3. ActorsGood'
    BY <1>9, <2>1, <2>2, InvActors, BecomesFacts DEF NewHandle, Attach, host
  <2>4. run' \in [Handle -> {"unused", "off", "died"} \cup Looking]
    BY <2>1, <1>p DEF NewHandle, TypeOK
  <2> QED
    BY <1>0, <1>9, <2>3, <2>4, Keeps DEF Attach, host, TypeOK, RealInv
<1>10. CASE Activate(a)
  <2>1. GoodRecord(session') /\ Good(At(me, "register"))
    BY <1>0, <1>10, <1>p, WithStateFacts, StepFacts DEF Activate, Upsert
  <2> QED
    BY <1>0, <2>1, <1>10, CoroutineStep DEF Activate, host
<1>11. CASE Register(a)
  <2>1. Good(Call("watch", "start"))
    BY <1>p, CallFacts
  <2>2. ActorsGood'
    <3>1. actor' = [actor EXCEPT ![a] = Reclaimed(me), ![me.on] = Call("watch", "start")]
      BY <1>11 DEF Register, host
    <3>2. UNCHANGED command
      BY <1>11 DEF Register, host
    <3>3. ActorsGood
      BY InvActors
    <3>4. actor' \in [Actor -> Coroutine]
      BY <3>1, <3>3, <2>1, <1>d DEF ActorsGood, Good
    <3>5. \A b \in Actor : Good(actor'[b])
      BY <3>1, <3>3, <2>1, <1>d DEF ActorsGood
    <3> QED
      BY <3>2, <3>4, <3>5 DEF ActorsGood, Good, IsReal
  <2> QED
    BY <1>0, <2>2, <1>11, Keeps DEF Register, host, TypeOK, RealInv
<1> QED
  BY <1>1, <1>2, <1>3, <1>4, <1>5, <1>6, <1>7, <1>8, <1>9, <1>10, <1>11 DEF GetStep
(* create, write, resize, terminate and the end of a session.              *)
LEMMA CallStepKeeps ==
    ASSUME TypeOK, RealInv, NEW a \in Actor, CallStep(a) \/ Store(a) \/ End(a)
    PROVE  TypeOK' /\ RealInv'
<1> DEFINE me == actor[a]
<1>0. /\ Good(me) /\ GoodRecord(me.copy) /\ GoodRecord(session)
      /\ me.look \in Looking /\ me.on \in Handle \cup {None}
      /\ me.code \in ExitCode \cup {None} /\ IsReal(me.code)
      /\ active \in Handle \cup {None} /\ faults \in 0..MaxFaults
  BY InvActors DEF ActorsGood, TypeOK, Good, Coroutine
<1>p. /\ {"activate", "store", "close", "end", "pop", "detach"} \subseteq Busy
      /\ "TERMINATED" \in SessionState
      /\ "file" \in Looking /\ {"watch", "terminate"} \subseteq Op
  BY DEF Pc, Busy, SessionState, Looking, Op
<1>i. Good(Idle)
  BY IdleGood
<1>1. CASE CreatePiped(a)
  <2>1. PICK h \in Handle : NewHandle(a, me, h)
    BY <1>1 DEF CreatePiped
  <2>2. Good([Using(me, "activate", h) EXCEPT !.look = "file"])
    BY <1>0, <1>p, StepFacts
  <2>3. ActorsGood'
    BY <1>1, <2>1, <2>2, InvActors, BecomesFacts DEF NewHandle, CreatePiped, host
  <2>4. run' \in [Handle -> {"unused", "off", "died"} \cup Looking]
    BY <2>1, <1>p DEF NewHandle, TypeOK
  <2> QED
    BY <1>0, <1>1, <2>3, <2>4, Keeps DEF CreatePiped, host, TypeOK, RealInv
<1>2. CASE CreateFails(a)
  <2>1. faults' \in 0..MaxFaults
    BY <1>0, <1>2, SessionBoundAssumption DEF CreateFails, FaultIff, Fault
  <2> QED
    BY <1>0, <1>2, <1>i, <2>1, CoroutineStep DEF CreateFails, host
<1>3. CASE Send(a)
  <2>1. faults' \in 0..MaxFaults
    BY <1>0, <1>3, SessionBoundAssumption DEF Send, FaultIff, Fault
  <2>2. Good(At(me, "store"))
    BY <1>0, <1>p, StepFacts
  <2>3. PICK co : Good(co) /\ Becomes(a, co)
    BY <1>3, <1>i, <2>2 DEF Send
  <2> QED
    BY <1>0, <1>3, <2>1, <2>3, CoroutineStep DEF Send, host
<1>4. CASE Kill(a) \/ KillRaises(a)
  <2>1. Good(At(me, "close"))
    BY <1>0, <1>p, StepFacts
  <2>2. PICK co : Good(co) /\ Becomes(a, co)
    BY <1>4, <1>i, <2>1 DEF Kill, KillRaises
  <2>3. faults' \in 0..MaxFaults
    BY <1>0, <1>4, SessionBoundAssumption DEF Kill, KillRaises, Fault
  <2>4. KillSession \/ UNCHANGED <<tmux, command>>
    BY <1>4 DEF Kill, KillRaises
  <2>5. UNCHANGED <<runtime, crashes, session, active, run, completion, status>>
    BY <1>4 DEF Kill, KillRaises
  <2> QED
    BY <2>2, <2>3, <2>4, <2>5, KillStep
<1>5. CASE CloseRaises(a)
  BY <1>0, <1>5, <1>i, CoroutineStep DEF CloseRaises, host
<1>6. CASE Close(a)
  <2>1. Good(Holding(Call("terminate", "end"), "end", me.copy))
    BY <1>0, <1>p, CallFacts, StepFacts
  <2>2. ActorsGood'
    BY <1>6, <2>1, InvActors, BecomesFacts DEF Close, host
  <2>3. run' \in [Handle -> {"unused", "off", "died"} \cup Looking]
    BY <1>6 DEF Close, TypeOK
  <2>4. /\ completion' \in [Handle -> {"pending"} \cup ExitCode \cup {None}]
        /\ \A h \in Handle : IsReal(completion'[h])
    BY <1>6, NoneIsReal, ResolveFacts DEF Close
  <2> QED
    BY <1>0, <1>6, <2>2, <2>3, <2>4, Keeps DEF Close, host, TypeOK, RealInv
<1>7. CASE Store(a)
  <2>1. Good(At(me, "detach"))
    BY <1>0, <1>p, StepFacts
  <2>2. PICK co : Good(co) /\ Becomes(a, co)
    BY <1>7, <1>i, <2>1 DEF Store
  <2> QED
    BY <1>0, <1>7, <2>2, CoroutineStep DEF Store, Upsert, host
<1>8. CASE End(a)
  <2>1. Good(Call("watch", "pop"))
    BY <1>p, CallFacts
  <2>2. PICK co : Good(co) /\ Becomes(a, co)
    BY <1>8, <1>i, <2>1 DEF End
  <2>3. GoodRecord(Rec("TERMINATED", me.code)) /\ GoodRecord(WithState(me.copy, "TERMINATED"))
    BY <1>0, <1>p, RecordFacts, WithStateFacts DEF GoodRecord
  <2>4. GoodRecord(session')
    BY <1>8, <2>3 DEF End, Upsert
  <2> QED
    BY <1>0, <1>8, <2>2, <2>4, CoroutineStep DEF End, host
<1> QED
  BY <1>1, <1>2, <1>3, <1>4, <1>5, <1>6, <1>7, <1>8 DEF CallStep
(* A handle's _run task and the watcher of a handle.                       *)
LEMMA HandleStepKeeps ==
    ASSUME TypeOK, RealInv, NEW h \in Handle, WatchStep(h) \/ RunStep(h)
    PROVE  TypeOK' /\ RealInv'
<1>0. /\ h \in Actor /\ ActorsGood /\ Good(actor[h]) /\ GoodRecord(session)
      /\ GoodRecord(actor[h].copy) /\ "file" \in Looking
      /\ active \in Handle \cup {None} /\ faults \in 0..MaxFaults
  BY InvActors DEF ActorsGood, TypeOK, Actor, Looking
<1>p. "get" \in Busy /\ "wait" \in Pc
  BY DEF Pc, Busy
<1>i. Good(Idle)
  BY IdleGood
<1>1. CASE WatchStart(h)
  <2>1. active # None => Good(Using(actor[h], "wait", active))
    BY <1>0, <1>p DEF Good, Using, Coroutine
  <2>2. PICK co : Good(co) /\ Becomes(h, co)
    BY <1>1, <1>i, <2>1 DEF WatchStart
  <2> QED
    BY <1>0, <1>1, <2>2, CoroutineStep DEF WatchStart, host
<1>2. CASE WatchWait(h)
  <2>1. actor[h].on \in Handle
    BY <1>0, <1>2 DEF WatchWait, Good
  <2>2. /\ completion[actor[h].on] \in ExitCode \cup {None}
        /\ IsReal(completion[actor[h].on])
    BY <1>2, <2>1 DEF WatchWait, TypeOK, RealInv
  <2>3. Good(Reporting("get", completion[actor[h].on]))
    BY <2>2, <1>p, ReportingFacts
  <2> QED
    BY <1>0, <1>2, <2>3, CoroutineStep DEF WatchWait, host
<1>3. CASE WatchPop(h)
  <2>1. ActorsGood'
    BY <1>0, <1>3, <1>i, BecomesFacts DEF WatchPop, host
  <2> QED
    BY <1>0, <1>3, <2>1, Keeps DEF WatchPop, host, TypeOK, RealInv
<1>4. CASE RunStep(h)
  <2>1. PICK found \in LookNext(run[h]) :
          /\ run[h] \in Looking
          /\ run' = [run EXCEPT ![h] =
                CASE found \in Looking -> found
                  [] found = "alive" -> "file"
                  [] found = "raised" -> "died"
                  [] OTHER -> "off"]
          /\ Resolve(h, CodeOf(found)) \/ UNCHANGED completion
          /\ FaultIff(found \in {"unknown", "raised"})
    BY <1>4 DEF RunStep
  <2>2. run' \in [Handle -> {"unused", "off", "died"} \cup Looking]
    BY <2>1, <1>0 DEF TypeOK
  <2>3. /\ completion' \in [Handle -> {"pending"} \cup ExitCode \cup {None}]
        /\ \A g \in Handle : IsReal(completion'[g])
    <3>1. CodeOf(found) \in ExitCode \cup {None} /\ IsReal(CodeOf(found))
      BY <2>1, FoundFacts
    <3>2. CASE Resolve(h, CodeOf(found))
      BY <3>1, <3>2, ResolveFacts
    <3>3. CASE UNCHANGED completion
      BY <3>3 DEF TypeOK, RealInv
    <3> QED
      BY <2>1, <3>2, <3>3
  <2>4. faults' \in 0..MaxFaults
    BY <1>0, <2>1, SessionBoundAssumption DEF FaultIff, Fault
  <2>5. ActorsGood'
    BY <1>0, <1>4 DEF RunStep, host, ActorsGood, Good, IsReal
  <2> QED
    BY <1>0, <1>4, <2>2, <2>3, <2>4, <2>5, Keeps DEF RunStep, host, TypeOK
<1> QED
  BY <1>1, <1>2, <1>3, <1>4 DEF WatchStep
(* The host, crashes, the shutdown and the start of the runtime.           *)
LEMMA HostStepKeeps ==
    ASSUME TypeOK, RealInv,
           \/ \E code \in ExitCode : CommandExits(code)
           \/ ShellOpens \/ ShellWrites \/ ShellExits \/ TmuxDies
    PROVE  TypeOK' /\ RealInv'
<1>1. TypeOK'
  BY DEF TypeOK, CommandExits, ShellOpens, ShellWrites, ShellExits, TmuxDies, KillSession, memory,
         RealInv
<1>2. UNCHANGED <<session, actor, completion>>
  BY DEF CommandExits, ShellOpens, ShellWrites, ShellExits, TmuxDies, memory
<1>3. \A x \in ExitCode : command = x => command' = x
  BY CodeAssumption
     DEF CommandExits, ShellOpens, ShellWrites, ShellExits, TmuxDies, KillSession
<1>4. /\ IsReal(status)'
      /\ (status = "partial" => command \in ExitCode)'
      /\ (tmux = "absent" => command = "absent")'
  BY CodeAssumption
     DEF CommandExits, ShellOpens, ShellWrites, ShellExits, TmuxDies, KillSession, RealInv, IsReal,
         None
<1> QED
  BY <1>1, <1>2, <1>3, <1>4 DEF RealInv, IsReal

(* A runtime that has gone down holds nothing.                             *)
LEMMA ForgetFacts ==
    ASSUME TypeOK, RealInv, Forget, UNCHANGED command
    PROVE  /\ ActorsGood'
           /\ active' \in Handle \cup {None}
           /\ run' \in [Handle -> {"unused", "off", "died"} \cup Looking]
           /\ completion' \in [Handle -> {"pending"} \cup ExitCode \cup {None}]
           /\ \A h \in Handle : IsReal(completion'[h])
<1>1. Good(Idle) /\ Idle \in Coroutine
  BY IdleGood DEF Good
<1>2. actor' \in [Actor -> Coroutine] /\ \A a \in Actor : actor'[a] = Idle
  BY <1>1 DEF Forget
<1>3. ActorsGood'
  BY <1>1, <1>2 DEF ActorsGood, Good, IsReal
<1>4. /\ completion' \in [Handle -> {"pending"} \cup ExitCode \cup {None}]
      /\ \A h \in Handle : IsReal(completion'[h])
  BY CodeAssumption DEF Forget, IsReal
<1> QED
  BY <1>3, <1>4 DEF Forget

(* Crashes, the shutdown and the start keep types and exit codes.          *)
LEMMA RuntimeKeeps ==
    ASSUME TypeOK, RealInv, Crash \/ ShutdownBegin \/ Boot \/ RuntimeStep
    PROVE  TypeOK' /\ RealInv'
<1> DEFINE me == actor[Runtime]
<1>0. /\ Runtime \in Actor /\ ActorsGood /\ Good(me) /\ GoodRecord(session)
      /\ active \in Handle \cup {None} /\ faults \in 0..MaxFaults /\ crashes \in 0..MaxCrashes
      /\ "file" \in Looking
  BY InvActors DEF ActorsGood, TypeOK, Actor, Looking
<1>p. /\ {"get", "store", "detach", "dispose", "status"} \subseteq Busy
      /\ "DETACHED" \in SessionState /\ {"shutdown", "recover"} \subseteq Op
  BY DEF Pc, Busy, SessionState, Op
<1>1. CASE Crash
  <2>1. crashes' \in 0..MaxCrashes
    BY <1>0, <1>1, SessionBoundAssumption DEF Crash
  <2> QED
    BY <1>0, <1>1, <2>1, ForgetFacts, Keeps DEF Crash, host
<1>2. CASE ShutdownBegin
  <2>1. Good(Call("shutdown", "dispose")) /\ Good(Using(Call("shutdown", "get"), "get", active))
    BY <1>0, <1>p, CallFacts, StepFacts
  <2>2. PICK co : Good(co) /\ Becomes(Runtime, co)
    BY <1>2, <2>1 DEF ShutdownBegin
  <2>3. ActorsGood'
    BY <1>0, <1>2, <2>2, BecomesFacts DEF ShutdownBegin, host
  <2> QED
    BY <1>0, <1>2, <2>3, Keeps DEF ShutdownBegin, host, TypeOK, RealInv
<1>3. CASE ShutdownRead
  <2>1. GoodRecord(WithState(session, "DETACHED"))
    BY <1>0, <1>p, WithStateFacts
  <2>2. Good(Holding(me, "store", WithState(session, "DETACHED"))) /\ Good(At(me, "detach"))
    BY <1>0, <1>p, <2>1, StepFacts
  <2>3. PICK co : Good(co) /\ Becomes(Runtime, co)
    BY <1>3, <2>2 DEF ShutdownRead
  <2> QED
    BY <1>0, <1>3, <2>3, CoroutineStep DEF ShutdownRead, host
<1>4. CASE ShutdownDetach
  <2>1. Good(At(me, "dispose"))
    BY <1>0, <1>p, StepFacts
  <2>2. ActorsGood'
    BY <1>0, <1>4, <2>1, BecomesFacts DEF ShutdownDetach, host
  <2>3. run' \in [Handle -> {"unused", "off", "died"} \cup Looking]
    BY <1>4 DEF ShutdownDetach, TypeOK
  <2> QED
    BY <1>0, <1>4, <2>2, <2>3, Keeps DEF ShutdownDetach, host, TypeOK, RealInv
<1>5. CASE ShutdownEnd
  <2>1. crashes' \in 0..MaxCrashes
    BY <1>0, <1>5, SessionBoundAssumption DEF ShutdownEnd
  <2> QED
    BY <1>0, <1>5, <2>1, ForgetFacts, Keeps DEF ShutdownEnd, host
<1>6. CASE Boot
  <2>1. Good(Holding(Call("recover", "status"), "status", session))
    BY <1>0, <1>p, CallFacts, StepFacts
  <2>2. ActorsGood'
    <3>1. CASE session.state \in SessionRecoverableStates
      BY <1>0, <1>6, <3>1, <2>1, BecomesFacts DEF Boot, host
    <3>2. CASE session.state \notin SessionRecoverableStates
      BY <1>0, <1>6, <3>2 DEF Boot, host, ActorsGood, Good, IsReal
    <3> QED
      BY <3>1, <3>2
  <2> QED
    BY <1>0, <1>6, <2>2, Keeps DEF Boot, host, TypeOK, RealInv
<1>7. CASE BootDone
  <2>1. ActorsGood'
    BY <1>0, <1>7 DEF BootDone, host, memory, ActorsGood, Good, IsReal
  <2> QED
    BY <1>0, <1>7, <2>1, Keeps DEF BootDone, host, memory, TypeOK, RealInv
<1> QED
  BY <1>1, <1>2, <1>3, <1>4, <1>5, <1>6, <1>7 DEF RuntimeStep

(* A client starts a call, or creates the session.                         *)
LEMMA BeginKeeps ==
    ASSUME TypeOK, RealInv, NEW c \in Caller,
           CreateStart(c) \/ \E op \in Calls[c] \ {"create"} : Begin(c, op)
    PROVE  TypeOK' /\ RealInv'
<1>0. c \in Actor /\ ActorsGood /\ GoodRecord(session) /\ faults \in 0..MaxFaults
  BY InvActors DEF Actor, TypeOK
<1>p. {"pipe", "get"} \subseteq Busy /\ {"create", "get", "write", "resize", "terminate"} \subseteq Op
  BY DEF Pc, Busy, Op
<1>1. CASE CreateStart(c)
  <2>1. command = "absent" /\ tmux' = "alive" /\ command' = "running"
    BY <1>1 DEF CreateStart, RealInv
  <2>2. Good(Call("create", "pipe"))
    BY <1>p, CallFacts
  <2>3. actor' \in [Actor -> Coroutine] /\ \A b \in Actor : Good(actor'[b])
    BY <1>0, <1>1, <2>2 DEF CreateStart, Becomes, ActorsGood, Good
  <2>4. UNCHANGED <<session, completion, status>>
    BY <1>1 DEF CreateStart
  <2>5. \A x \in ExitCode : command # x
    BY <2>1, CodeAssumption
  <2>6. TypeOK'
    BY <1>1, <2>1, <2>3 DEF CreateStart, TypeOK
  <2>7. /\ IsReal(session.exit_code)' /\ IsReal(status)'
        /\ \A h \in Handle : IsReal(completion[h])'
        /\ (status = "partial" => command \in ExitCode)'
        /\ (tmux = "absent" => command = "absent")'
    BY <2>1, <2>4, <2>5 DEF RealInv, IsReal
  <2>8. \A b \in Actor : (/\ IsReal(actor[b].copy.exit_code) /\ IsReal(actor[b].code)
                          /\ actor[b].pc = "wait" => actor[b].on \in Handle)'
    BY <2>3, <2>5 DEF Good, IsReal
  <2> QED
    BY <2>6, <2>7, <2>8 DEF RealInv
<1>2. ASSUME NEW op \in Calls[c] \ {"create"}, Begin(c, op)
      PROVE  TypeOK' /\ RealInv'
  <2>1. op \in Op
    BY <1>p, CallsAssumption
  <2>2. Good(Call(op, "get"))
    BY <2>1, <1>p, CallFacts
  <2> QED
    BY <1>0, <1>2, <2>2, CoroutineStep DEF Begin, host
<1> QED
  BY <1>1, <1>2

-----------------------------------------------------------------------------
(* TypeOK and RealInv hold in every reachable state of the session         *)
(* service: the inductive argument behind the two theorems below.          *)
THEOREM SessionInductive == Spec => [](TypeOK /\ RealInv)
<1>1. Init => TypeOK /\ RealInv
  <2> SUFFICES ASSUME Init PROVE TypeOK /\ RealInv
    OBVIOUS
  <2>1. Good(Idle) /\ GoodRecord(AbsentSession)
    BY IdleGood, AbsentFacts
  <2>2. TypeOK
    BY <2>1, SessionBoundAssumption DEF Init, TypeOK, Good, GoodRecord, None
  <2>3. RealInv
    BY <2>1, CodeAssumption DEF Init, RealInv, Good, GoodRecord, IsReal, None
  <2> QED
    BY <2>2, <2>3
<1>2. TypeOK /\ RealInv /\ [Next]_vars => TypeOK' /\ RealInv'
  <2> SUFFICES ASSUME TypeOK, RealInv, [Next]_vars PROVE TypeOK' /\ RealInv'
    OBVIOUS
  <2>1. ASSUME NEW c \in Caller,
               CreateStart(c) \/ \E op \in Calls[c] \ {"create"} : Begin(c, op)
        PROVE  TypeOK' /\ RealInv'
    BY <2>1, BeginKeeps
  <2>2. ASSUME NEW a \in Actor, ActorStep(a)
        PROVE  TypeOK' /\ RealInv'
    BY <2>2, GetStepKeeps, CallStepKeeps DEF ActorStep
  <2>3. ASSUME NEW h \in Handle, WatchStep(h) \/ RunStep(h)
        PROVE  TypeOK' /\ RealInv'
    BY <2>3, HandleStepKeeps
  <2>4. CASE \/ \E code \in ExitCode : CommandExits(code)
             \/ ShellOpens \/ ShellWrites \/ ShellExits \/ TmuxDies
    BY <2>4, HostStepKeeps
  <2>5. CASE Crash \/ ShutdownBegin \/ Boot \/ RuntimeStep
    BY <2>5, RuntimeKeeps
  <2>6. CASE UNCHANGED vars
    BY <2>6 DEF vars, memory, host, TypeOK, RealInv, IsReal
  <2> QED
    BY <2>1, <2>2, <2>3, <2>4, <2>5, <2>6 DEF Next
<1> QED
  BY <1>1, <1>2, PTL DEF Spec

(* Every variable of the session service keeps its type.                   *)
THEOREM SessionTypeCorrect == Spec => []TypeOK
BY SessionInductive, PTL

(* Whatever copies the calls of any number of clients write over one       *)
(* another, however the connection fails and the runtime is restarted, an  *)
(* exit code in the session table is the one of the command.               *)
THEOREM ExitCodesAreReal == Spec => []ExitCodeIsReal
<1>1. TypeOK /\ RealInv => ExitCodeIsReal
  BY DEF TypeOK, RealInv, ExitCodeIsReal, IsReal, SessionRecord
<1> QED
  BY <1>1, SessionInductive, PTL

-----------------------------------------------------------------------------
(* The fields of a coroutine that moves, starts a call or reports.         *)
LEMMA CoroutineFields ==
    ASSUME NEW co \in Coroutine, NEW pc \in Pc, NEW op \in Op, NEW r \in SessionRecord,
           NEW h \in Handle \cup {None}, NEW look \in Looking, NEW x \in ExitCode \cup {None}
    PROVE  /\ At(co, pc).pc = pc /\ At(co, pc).op = co.op /\ At(co, pc).copy = co.copy
           /\ At(co, pc).look = co.look /\ At(co, pc).on = co.on
           /\ Holding(co, pc, r).pc = pc /\ Holding(co, pc, r).op = co.op
           /\ Holding(co, pc, r).copy = r /\ Holding(co, pc, r).look = co.look
           /\ Holding(co, pc, r).on = co.on
           /\ Using(co, pc, h).pc = pc /\ Using(co, pc, h).op = co.op
           /\ Using(co, pc, h).copy = co.copy /\ Using(co, pc, h).look = co.look
           /\ Using(co, pc, h).on = h
           /\ Call(op, pc).pc = pc /\ Call(op, pc).op = op /\ Call(op, pc).copy = AbsentSession
           /\ Call(op, pc).look = "file" /\ Call(op, pc).on = None /\ Call(op, pc) \in Coroutine
           /\ Reporting(pc, x).pc = pc /\ Reporting(pc, x).op = "watch"
           /\ Reporting(pc, x).copy = AbsentSession /\ Reporting(pc, x).look = "file"
           /\ Idle.pc = "idle" /\ Idle.op = "none" /\ Idle.copy = AbsentSession
           /\ Idle.look = "file" /\ Idle.on = None /\ Idle \in Coroutine
           /\ AbsentSession.state = "ABSENT" /\ AbsentSession \in SessionRecord
<1>1. AbsentSession.state = "ABSENT" /\ AbsentSession \in SessionRecord
  BY AbsentFacts DEF GoodRecord, AbsentSession, Rec
<1>2. /\ Idle.pc = "idle" /\ Idle.op = "none" /\ Idle.copy = AbsentSession
      /\ Idle.look = "file" /\ Idle.on = None /\ Idle \in Coroutine
  BY IdleGood DEF Good, Idle
<1>3. /\ At(co, pc).pc = pc /\ At(co, pc).op = co.op /\ At(co, pc).copy = co.copy
      /\ At(co, pc).look = co.look /\ At(co, pc).on = co.on
  BY DEF At, Coroutine
<1>4. /\ Holding(co, pc, r).pc = pc /\ Holding(co, pc, r).op = co.op
      /\ Holding(co, pc, r).copy = r /\ Holding(co, pc, r).look = co.look
      /\ Holding(co, pc, r).on = co.on
  BY DEF Holding, Coroutine
<1>5. /\ Using(co, pc, h).pc = pc /\ Using(co, pc, h).op = co.op
      /\ Using(co, pc, h).copy = co.copy /\ Using(co, pc, h).look = co.look
      /\ Using(co, pc, h).on = h
  BY DEF Using, Coroutine
<1>6. /\ Call(op, pc).pc = pc /\ Call(op, pc).op = op /\ Call(op, pc).copy = AbsentSession
      /\ Call(op, pc).look = "file" /\ Call(op, pc).on = None /\ Call(op, pc) \in Coroutine
  BY <1>2 DEF Call, Coroutine
<1>7. "watch" \in Op
  BY DEF Op
<1>8. /\ Call("watch", pc).pc = pc /\ Call("watch", pc).op = "watch"
      /\ Call("watch", pc).copy = AbsentSession /\ Call("watch", pc).look = "file"
      /\ Call("watch", pc) \in Coroutine
  BY <1>2, <1>7 DEF Call, Coroutine
<1>9. /\ Reporting(pc, x).pc = pc /\ Reporting(pc, x).op = "watch"
      /\ Reporting(pc, x).copy = AbsentSession /\ Reporting(pc, x).look = "file"
  BY <1>8 DEF Reporting, Coroutine
<1> QED
  BY <1>1, <1>2, <1>3, <1>4, <1>5, <1>6, <1>9

(* The fields of a coroutine at rest and of a row not there yet.           *)
LEMMA IdleFields ==
    /\ Idle.pc = "idle" /\ Idle.op = "none" /\ Idle.copy = AbsentSession
    /\ Idle.look = "file" /\ Idle.on = None /\ Idle \in Coroutine
    /\ AbsentSession.state = "ABSENT" /\ AbsentSession \in SessionRecord
<1>1. "idle" \in Pc /\ "none" \in Op /\ "file" \in Looking
  BY DEF Pc, Op, Looking
<1> QED
  BY <1>1, CoroutineFields, AbsentFacts, IdleGood DEF GoodRecord, Good

(* What the call of a client or a watcher does once it has a record.       *)
LEMMA DispatchShape ==
    ASSUME NEW co \in Coroutine, NEW d, d = Dispatch(co), active \in Handle \cup {None}
    PROVE  \/ /\ d.pc \in {"send", "kill"} /\ d.copy = co.copy /\ d.look = co.look
              /\ d.op = co.op /\ co.op \in {"write", "resize", "terminate"} /\ active # None
           \/ /\ d.pc = "end" /\ d.op = "terminate" /\ co.op = "terminate"
              /\ d.copy = co.copy /\ d.look = "file" /\ active = None
           \/ /\ d.pc = "end" /\ d.op = "watch" /\ co.op = "watch"
              /\ d.copy = AbsentSession /\ d.look = "file"
           \/ d = Idle /\ co.op \notin {"terminate", "watch"}
<1>0. /\ co.copy \in SessionRecord /\ co.code \in ExitCode \cup {None}
      /\ {"send", "kill", "end"} \subseteq Pc /\ "terminate" \in Op
  BY DEF Coroutine, Pc, Op
<1>1. /\ Using(co, "send", active).pc = "send" /\ Using(co, "send", active).op = co.op
      /\ Using(co, "send", active).copy = co.copy /\ Using(co, "send", active).look = co.look
      /\ Using(co, "kill", active).pc = "kill" /\ Using(co, "kill", active).op = co.op
      /\ Using(co, "kill", active).copy = co.copy /\ Using(co, "kill", active).look = co.look
  BY <1>0, CoroutineFields DEF Using, Coroutine
<1>2. /\ Call("terminate", "end").op = "terminate" /\ Call("terminate", "end").look = "file"
      /\ Call("terminate", "end") \in Coroutine
  BY <1>0, CallFacts DEF Call, Idle, Good, Busy
<1>3. LET e == Holding(Call("terminate", "end"), "end", co.copy)
      IN  e.pc = "end" /\ e.op = "terminate" /\ e.copy = co.copy /\ e.look = "file"
  BY <1>0, <1>2 DEF Holding, Coroutine
<1>4. LET e == Reporting("end", co.code)
      IN  e.pc = "end" /\ e.op = "watch" /\ e.copy = AbsentSession /\ e.look = "file"
  BY <1>0, IdleFields DEF Reporting, Call, Coroutine
<1>5. CASE co.op \in {"write", "resize"} /\ active # None
  <2>1. d = Using(co, "send", active)
    BY <1>5 DEF Dispatch
  <2> QED
    BY <1>5, <2>1, <1>1
<1>6. CASE co.op = "terminate" /\ active # None
  <2>0. co.op \notin {"write", "resize", "watch"}
    BY <1>6
  <2>1. d = Using(co, "kill", active)
    BY <1>6, <2>0, Zenon DEF Dispatch
  <2> QED
    BY <1>6, <2>1, <1>1
<1>7. CASE co.op = "terminate" /\ active = None
  <2>1. d = Holding(Call("terminate", "end"), "end", co.copy)
    BY <1>7 DEF Dispatch
  <2> QED
    BY <1>7, <2>1, <1>3
<1>8. CASE co.op = "watch"
  <2>1. d = Reporting("end", co.code)
    BY <1>8 DEF Dispatch
  <2> QED
    BY <1>8, <2>1, <1>4
<1>9. CASE co.op \notin {"terminate", "watch"} /\ ~(co.op \in {"write", "resize"} /\ active # None)
  <2>1. d = Idle
    BY <1>9 DEF Dispatch
  <2> QED
    BY <1>9, <2>1
<1> QED
  BY <1>5, <1>6, <1>7, <1>8, <1>9

(* What follows a reattachment: the end of the coroutine or a second read. *)
LEMMA ReclaimedShape ==
    ASSUME NEW co \in Coroutine, NEW d, d = Reclaimed(co)
    PROVE  \/ d = Idle /\ co.op \in {"recover", "create"}
           \/ /\ d.pc = "reget" /\ d.op = co.op /\ d.copy = AbsentSession /\ d.look = "file"
              /\ co.op \notin {"recover", "create"}
<1>0. co.op \in Op /\ co.code \in ExitCode \cup {None} /\ "reget" \in Pc
  BY DEF Coroutine, Pc
<1>1. LET e == Reporting("reget", co.code)
      IN  e.pc = "reget" /\ e.op = "watch" /\ e.copy = AbsentSession /\ e.look = "file"
  BY <1>0, IdleFields DEF Reporting, Call, Coroutine
<1>2. LET e == Call(co.op, "reget")
      IN  e.pc = "reget" /\ e.op = co.op /\ e.copy = AbsentSession /\ e.look = "file"
  BY <1>0, IdleFields DEF Call, Coroutine
<1> QED
  BY <1>1, <1>2 DEF Reclaimed

-----------------------------------------------------------------------------
(* RegisteredIsAttended.                                                   *)

(* A step of one coroutine that leaves the handles and the runtime alone:  *)
(* a watcher must go on watching, the runtime's coroutine must stay on     *)
(* duty.                                                                   *)
LEMMA AttendMove ==
    ASSUME TypeOK, AttendInv, NEW a \in Actor, NEW co, Becomes(a, co),
           UNCHANGED <<runtime, active, run, completion>>,
           a \in Handle => OnWatch(co) /\ co.pc \notin {"idle", "wait"},
           a = Runtime => OnDuty(co) /\ (co.op = "shutdown" <=> actor[a].op = "shutdown"),
           co.pc \in {"activate", "register"} => co.on \in Handle /\ run[co.on] # "unused"
    PROVE  AttendInv'
<1>0. Runtime \in Actor /\ Handle \subseteq Actor
  BY DEF Actor
<1>1. actor'[a] = co /\ \A b \in Actor : b # a => actor'[b] = actor[b]
  BY DEF Becomes, TypeOK
<1>2. \A h \in Handle : OnWatch(actor[h])'
  BY <1>0, <1>1 DEF AttendInv, OnWatch
<1>3. OnDuty(actor[Runtime])' /\ (actor'[Runtime].op = "shutdown" <=> runtime' = "stopping")
  BY <1>0, <1>1 DEF AttendInv, OnDuty
<1>4. \A b \in Actor : Built(actor[b])'
  BY <1>1 DEF AttendInv, Built
<1>5. active' # None => \E h \in Handle : Watching(actor[h])'
  <2> SUFFICES ASSUME active' # None PROVE \E h \in Handle : Watching(actor[h])'
    OBVIOUS
  <2>1. PICK h \in Handle : Watching(actor[h])
    BY DEF AttendInv
  <2>2. Watching(actor[h])'
    BY <1>0, <1>1, <2>1 DEF Watching
  <2> QED
    BY <2>2
<1> QED
  BY <1>2, <1>3, <1>4, <1>5 DEF AttendInv

(* A coroutine that builds a handle is no watcher's end.                   *)
LEMMA AttendNew ==
    ASSUME TypeOK, AttendInv, NEW a \in Actor, NEW h \in Handle, NewHandle(a, actor[a], h),
           actor[a].pc \notin {"idle", "wait"},
           a = Runtime => actor[a].op = "recover",
           UNCHANGED <<runtime, active, completion>>
    PROVE  AttendInv'
<1> DEFINE me == actor[a]
<1>0. /\ me \in Coroutine /\ "activate" \in Pc /\ "file" \in Looking
      /\ Runtime \in Actor /\ Handle \subseteq Actor
  BY DEF TypeOK, Pc, Looking, Actor
<1>1. PICK co : co = [Using(me, "activate", h) EXCEPT !.look = "file"] /\ Becomes(a, co)
  BY DEF NewHandle
<1>2. /\ co.pc = "activate" /\ co.op = me.op /\ co.on = h
      /\ actor'[a] = co /\ \A b \in Actor : b # a => actor'[b] = actor[b]
  BY <1>0, <1>1 DEF Using, Coroutine, Becomes, TypeOK
<1>3. run'[h] = "file" /\ \A g \in Handle : g # h => run'[g] = run[g]
  BY DEF NewHandle, TypeOK
<1>4. \A g \in Handle : OnWatch(actor[g])'
  BY <1>0, <1>2 DEF AttendInv, OnWatch, WatchPc
<1>5. OnDuty(actor[Runtime])' /\ (actor'[Runtime].op = "shutdown" <=> runtime' = "stopping")
  BY <1>0, <1>2 DEF AttendInv, OnDuty
<1>6. \A b \in Actor : Built(actor[b])'
  BY <1>2, <1>3 DEF AttendInv, Built
<1>7. active' # None => run'[active'] # "unused" /\ \E g \in Handle : Watching(actor[g])'
  <2> SUFFICES ASSUME active' # None
               PROVE  run'[active'] # "unused" /\ \E g \in Handle : Watching(actor[g])'
    OBVIOUS
  <2>1. PICK g \in Handle : Watching(actor[g])
    BY DEF AttendInv
  <2>2. Watching(actor[g])'
    BY <1>0, <1>2, <2>1 DEF Watching
  <2>3. active \in Handle /\ run[active] # "unused"
    BY DEF AttendInv, TypeOK
  <2> QED
    BY <1>3, <2>2, <2>3
<1>8. \A g \in Handle : completion'[g] = "pending" /\ runtime' # "stopping" =>
          run'[g] \in Looking \cup {"unused", "died"}
  BY <1>0, <1>3 DEF AttendInv
<1> QED
  BY <1>4, <1>5, <1>6, <1>7, <1>8 DEF AttendInv

(* get and the reattachment keep the watchers.                             *)
LEMMA GetStepAttends ==
    ASSUME TypeOK, AttendInv, NEW a \in Actor, GetStep(a)
    PROVE  AttendInv'
<1> DEFINE me == actor[a]
<1>0. /\ me \in Coroutine /\ active \in Handle \cup {None} /\ session \in SessionRecord
      /\ me.copy \in SessionRecord /\ me.look \in Looking /\ me.op \in Op
      /\ Runtime \in Actor /\ Handle \subseteq Actor /\ Runtime \notin Handle
  BY ActorAssumption DEF TypeOK, Coroutine, Actor
<1>p. /\ {"check", "ready", "status", "attach", "activate", "register"} \subseteq Pc
      /\ "file" \in Looking
  BY DEF Pc, Looking
<1>w. /\ a \in Handle => me.pc = "idle" \/ (me.op = "watch" /\ me.pc \in WatchPc)
      /\ a = Runtime => OnDuty(me)
      /\ Built(me)
  BY DEF AttendInv, OnWatch
<1>d. ASSUME Becomes(a, Dispatch(me)), me.pc \in {"check", "ready", "status", "attach"},
             UNCHANGED <<runtime, active, run, completion>>, a # Runtime
      PROVE  AttendInv'
  <2>1. PICK d : d = Dispatch(me)
    OBVIOUS
  <2>2. /\ d.pc \in {"send", "kill", "end", "idle"}
        /\ me.op = "watch" => d.pc = "end" /\ d.op = "watch"
    BY <1>0, <2>1, DispatchShape, IdleFields
  <2>3. a \in Handle => OnWatch(d) /\ d.pc \notin {"idle", "wait"}
    BY <1>d, <1>w, <2>2 DEF OnWatch, WatchPc
  <2> QED
    BY <1>d, <2>1, <2>2, <2>3, AttendMove
<1>r. ASSUME Becomes(a, Reclaimed(me)), me.pc = "status",
             UNCHANGED <<runtime, active, run, completion>>
      PROVE  AttendInv'
  <2>1. PICK d : d = Reclaimed(me)
    OBVIOUS
  <2>2. \/ d.pc = "idle" /\ d.op = "none" /\ me.op \in {"recover", "create"}
        \/ d.pc = "reget" /\ d.op = me.op /\ me.op \notin {"recover", "create"}
    BY <1>0, <2>1, ReclaimedShape, IdleFields
  <2>3. a \in Handle => OnWatch(d) /\ d.pc \notin {"idle", "wait"}
    BY <1>r, <1>w, <2>2 DEF OnWatch, WatchPc
  <2>4. a = Runtime => OnDuty(d) /\ (d.op = "shutdown" <=> me.op = "shutdown")
    BY <1>r, <1>w, <2>2 DEF OnDuty
  <2> QED
    BY <1>r, <2>1, <2>2, <2>3, <2>4, AttendMove
<1>m. ASSUME NEW co, Becomes(a, co), co.op = me.op, UNCHANGED <<runtime, active, run, completion>>,
             \/ me.pc \in {"get", "reget", "check", "status"} /\ co.pc \in {"check", "ready", "status", "attach"}
             \/ me.pc = "attach" /\ co.pc = "attach"
             \/ me.pc = "activate" /\ co.pc = "register" /\ co.on = me.on,
             a = Runtime => me.pc \in {"status", "attach", "activate"} /\ co.pc # "check" /\ co.pc # "ready"
      PROVE  AttendInv'
  <2>1. a \in Handle => OnWatch(co) /\ co.pc \notin {"idle", "wait"}
    BY <1>m, <1>w DEF OnWatch, WatchPc
  <2>2. a = Runtime => OnDuty(co) /\ (co.op = "shutdown" <=> me.op = "shutdown")
    BY <1>m, <1>w DEF OnDuty
  <2>3. co.pc \in {"activate", "register"} => co.on \in Handle /\ run[co.on] # "unused"
    BY <1>m, <1>w DEF Built
  <2> QED
    BY <1>m, <2>1, <2>2, <2>3, AttendMove
<1>1. CASE Read(a)
  <2>1. PICK pc \in {"check", "ready"} :
          /\ Becomes(a, Holding(me, pc, session)) /\ me.pc \in {"get", "reget"}
          /\ me.op # "shutdown"
          /\ UNCHANGED <<runtime, active, run, completion>>
    BY <1>1 DEF Read, host
  <2>2. PICK co : co = Holding(me, pc, session)
    OBVIOUS
  <2>3. co.pc = pc /\ co.op = me.op
    BY <2>1, <2>2, <1>0, <1>p DEF Holding, Coroutine
  <2>4. a # Runtime
    BY <1>w, <2>1 DEF OnDuty
  <2> QED
    BY <1>m, <2>1, <2>2, <2>3, <2>4
<1>2. CASE Check(a)
  <2>0. me.pc = "check" /\ UNCHANGED <<runtime, active, run, completion>>
    BY <1>2 DEF Check, host
  <2>a. a # Runtime
    BY <1>w, <2>0 DEF OnDuty
  <2>1. CASE ReattachNeeded(me.copy)
    <3>1. PICK co : co = [At(me, "status") EXCEPT !.look = "file"] /\ Becomes(a, co)
      BY <1>2, <2>1 DEF Check
    <3>2. co.pc = "status" /\ co.op = me.op
      BY <3>1, <1>0, <1>p DEF At, Coroutine
    <3> QED
      BY <1>m, <2>0, <2>a, <3>1, <3>2
  <2>2. CASE ~ReattachNeeded(me.copy)
    <3>1. Becomes(a, Dispatch(me))
      BY <1>2, <2>2 DEF Check
    <3> QED
      BY <1>d, <2>0, <2>a, <3>1
  <2> QED
    BY <2>1, <2>2
<1>3. CASE Ready(a)
  <2>0. /\ me.pc = "ready" /\ Becomes(a, Dispatch(me))
        /\ UNCHANGED <<runtime, active, run, completion>>
    BY <1>3 DEF Ready, host
  <2>a. a # Runtime
    BY <1>w, <2>0 DEF OnDuty
  <2> QED
    BY <1>d, <2>0, <2>a
<1>4. CASE LookOn(a)
  <2>1. PICK found \in Looking : Becomes(a, [me EXCEPT !.look = found])
    BY <1>4 DEF LookOn
  <2>2. me.pc \in {"status", "attach"} /\ UNCHANGED <<runtime, active, run, completion>>
    BY <1>4 DEF LookOn, host
  <2>4. PICK co : co = [me EXCEPT !.look = found]
    OBVIOUS
  <2>5. co.pc = me.pc /\ co.op = me.op
    BY <1>0, <2>4 DEF Coroutine
  <2> QED
    BY <1>m, <2>1, <2>2, <2>4, <2>5
<1>5. CASE ReattachDeferred(a)
  BY <1>5, <1>r DEF ReattachDeferred, host
<1>6. CASE ReattachFinished(a)
  BY <1>6, <1>r DEF ReattachFinished, host
<1>7. CASE NotReclaimed(a)
  <2>2. UNCHANGED <<runtime, active, run, completion>> /\ me.pc \in {"status", "attach"}
    BY <1>7 DEF NotReclaimed, host
  <2>6. CASE me.op = "recover"
    <3>1. Becomes(a, Idle)
      BY <1>7, <2>6 DEF NotReclaimed
    <3>2. a \notin Handle
      BY <1>w, <2>2, <2>6
    <3>3. OnDuty(Idle) /\ Idle.op # "shutdown" /\ Idle.pc \notin {"activate", "register"}
      BY IdleFields DEF OnDuty
    <3> QED
      BY <2>2, <2>6, <3>1, <3>2, <3>3, AttendMove
  <2>7. CASE me.op # "recover"
    <3>1. Becomes(a, Dispatch(me))
      BY <1>7, <2>7 DEF NotReclaimed
    <3>2. a # Runtime
      BY <1>w, <2>2, <2>7 DEF OnDuty
    <3> QED
      BY <1>d, <2>2, <3>1, <3>2
  <2> QED
    BY <2>6, <2>7
<1>8. CASE ReattachAlive(a)
  <2>0. me.pc = "status" /\ UNCHANGED <<runtime, active, run, completion>>
    BY <1>8 DEF ReattachAlive, host
  <2>1. PICK co : co = [At(me, "attach") EXCEPT !.look = "file"] /\ Becomes(a, co)
    BY <1>8 DEF ReattachAlive
  <2>2. co.pc = "attach" /\ co.op = me.op
    BY <2>1, <1>0, <1>p DEF At, Coroutine
  <2> QED
    BY <1>m, <2>0, <2>1, <2>2
<1>9. CASE Attach(a)
  <2>0. me.pc = "attach" /\ UNCHANGED <<runtime, active, completion>>
    BY <1>9 DEF Attach, host
  <2>1. PICK h \in Handle : NewHandle(a, me, h)
    BY <1>9 DEF Attach
  <2>2. a = Runtime => me.op = "recover"
    BY <1>w, <2>0 DEF OnDuty
  <2> QED
    BY <2>0, <2>1, <2>2, AttendNew
<1>10. CASE Activate(a)
  <2>1. /\ me.pc = "activate" /\ Becomes(a, At(me, "register"))
        /\ UNCHANGED <<runtime, active, run, completion>>
    BY <1>10 DEF Activate, host
  <2>2. PICK co : co = At(me, "register")
    OBVIOUS
  <2>3. co.pc = "register" /\ co.op = me.op /\ co.on = me.on
    BY <1>0, <1>p, <2>2 DEF At, Coroutine
  <2> QED
    BY <1>m, <2>1, <2>2, <2>3
<1>11. CASE Register(a)
  <2>0. PICK g : g = me.on
    OBVIOUS
  <2>1. /\ me.pc = "register" /\ active' = g
        /\ actor' = [actor EXCEPT ![a] = Reclaimed(me), ![g] = Call("watch", "start")]
        /\ UNCHANGED <<runtime, run, completion>>
    BY <1>11, <2>0 DEF Register, host
  <2>g. g \in Handle /\ run[g] # "unused"
    BY <1>w, <2>0, <2>1 DEF Built
  <2>r. PICK d, w : d = Reclaimed(me) /\ w = Call("watch", "start")
    OBVIOUS
  <2>3. w.pc = "start" /\ w.op = "watch"
    BY <2>r, IdleFields DEF Call, Coroutine, Op, Pc
  <2>4. \/ d.pc = "idle" /\ d.op = "none" /\ me.op \in {"recover", "create"}
        \/ d.pc = "reget" /\ d.op = me.op /\ me.op \notin {"recover", "create"}
    BY <1>0, <2>r, ReclaimedShape, IdleFields
  <2>5. /\ a # g => actor'[a] = d
        /\ actor'[g] = w
        /\ \A b \in Actor : b # a /\ b # g => actor'[b] = actor[b]
    BY <1>0, <2>1, <2>r, <2>g DEF TypeOK
  <2>6. \A h \in Handle : OnWatch(actor[h])'
    <3> TAKE h \in Handle
    <3>1. CASE h = g
      BY <2>3, <2>5, <3>1 DEF OnWatch, WatchPc
    <3>2. CASE h = a /\ h # g
      BY <1>w, <2>1, <2>4, <2>5, <3>2 DEF OnWatch, WatchPc
    <3>3. CASE h # a /\ h # g
      BY <1>0, <2>5, <3>3 DEF AttendInv, OnWatch
    <3> QED
      BY <3>1, <3>2, <3>3
  <2>7. OnDuty(actor[Runtime])' /\ (actor'[Runtime].op = "shutdown" <=> runtime' = "stopping")
    BY <1>0, <1>w, <2>1, <2>4, <2>5, <2>g DEF AttendInv, OnDuty
  <2>8. \A b \in Actor : Built(actor[b])'
    BY <2>1, <2>3, <2>4, <2>5 DEF AttendInv, Built
  <2>9. Watching(actor[g])'
    BY <2>3, <2>5 DEF Watching
  <2>10. \A h \in Handle : completion'[h] = "pending" /\ runtime' # "stopping" =>
            run'[h] \in Looking \cup {"unused", "died"}
    BY <2>1 DEF AttendInv
  <2> QED
    BY <2>1, <2>g, <2>6, <2>7, <2>8, <2>9, <2>10 DEF AttendInv
<1> QED
  BY <1>1, <1>2, <1>3, <1>4, <1>5, <1>6, <1>7, <1>8, <1>9, <1>10, <1>11 DEF GetStep

(* The outcomes of a step of _tmux_status.                                 *)
LEMMA LookFinds ==
    ASSUME TypeOK, NEW look \in Looking, NEW found \in LookNext(look)
    PROVE  found \in Looking \cup Found
<1>1. CASE look = "file"
  <2>1. found \in {StatusFound("probe"), "raised"}
    BY <1>1 DEF LookNext
  <2> QED
    BY <2>1 DEF StatusFound, Finished, Found, Looking, TypeOK
<1>2. CASE look = "late"
  <2>1. found \in {StatusFound("gone"), "raised"}
    BY <1>2 DEF LookNext
  <2> QED
    BY <2>1 DEF StatusFound, Finished, Found, Looking, TypeOK
<1>3. CASE look = "probe"
  <2>1. found \in {IF tmux = "alive" THEN "alive" ELSE "late", "unknown", "raised"}
    BY <1>3 DEF LookNext
  <2> QED
    BY <2>1 DEF Found, Looking
<1> QED
  BY <1>1, <1>2, <1>3 DEF Looking

(* create, write, resize, terminate and the end of a session.              *)
LEMMA CallStepAttends ==
    ASSUME TypeOK, AttendInv, NEW a \in Actor, CallStep(a) \/ Store(a) \/ End(a)
    PROVE  AttendInv'
<1> DEFINE me == actor[a]
<1>0. /\ me \in Coroutine /\ active \in Handle \cup {None}
      /\ me.copy \in SessionRecord /\ me.on \in Handle \cup {None}
      /\ Runtime \in Actor /\ Handle \subseteq Actor /\ Runtime \notin Handle
  BY ActorAssumption DEF TypeOK, Coroutine, Actor
<1>p. /\ {"store", "close", "end", "pop", "detach"} \subseteq Pc
      /\ {"watch", "terminate"} \subseteq Op
  BY DEF Pc, Op
<1>w. /\ a \in Handle => me.pc = "idle" \/ (me.op = "watch" /\ me.pc \in WatchPc)
      /\ a = Runtime => OnDuty(me)
      /\ Built(me)
  BY DEF AttendInv, OnWatch
<1>c. me.pc \in {"pipe", "send", "kill", "close"} => a \notin Handle /\ a # Runtime
  BY <1>w DEF OnDuty, WatchPc
<1>m. ASSUME NEW co, Becomes(a, co), a \notin Handle, a # Runtime,
             co.pc \notin {"activate", "register"},
             UNCHANGED <<runtime, active, run, completion>>
      PROVE  AttendInv'
  BY <1>m, AttendMove
<1>1. CASE CreatePiped(a)
  <2>0. me.pc = "pipe" /\ UNCHANGED <<runtime, active, completion>>
    BY <1>1 DEF CreatePiped, host
  <2>1. PICK h \in Handle : NewHandle(a, me, h)
    BY <1>1 DEF CreatePiped
  <2> QED
    BY <1>c, <2>0, <2>1, AttendNew
<1>2. CASE CreateFails(a) \/ CloseRaises(a) \/ Send(a) \/ Kill(a) \/ KillRaises(a)
  <2>1. /\ me.pc \in {"pipe", "close", "send", "kill"}
        /\ UNCHANGED <<runtime, active, run, completion>>
    BY <1>2 DEF CreateFails, CloseRaises, Send, Kill, KillRaises
  <2>2. PICK co : Becomes(a, co) /\ co \in {Idle, At(me, "store"), At(me, "close")}
    BY <1>2 DEF CreateFails, CloseRaises, Send, Kill, KillRaises
  <2>3. co.pc \in {"idle", "store", "close"}
    BY <1>0, <1>p, <2>2, IdleFields DEF At, Coroutine
  <2> QED
    BY <1>c, <1>m, <2>1, <2>2, <2>3
<1>6. CASE Close(a)
  <2>1. /\ me.pc = "close" /\ active' = None
        /\ run' = [run EXCEPT ![me.on] = "off"] /\ Resolve(me.on, None)
        /\ Becomes(a, Holding(Call("terminate", "end"), "end", me.copy))
        /\ UNCHANGED runtime
    BY <1>6 DEF Close, host
  <2>2. PICK d : d = Call("terminate", "end")
    OBVIOUS
  <2>3. d \in Coroutine
    BY <1>p, <2>2, IdleFields DEF Call, Coroutine
  <2>4. PICK co : co = Holding(d, "end", me.copy)
    OBVIOUS
  <2>5. /\ co.pc = "end" /\ actor'[a] = co
        /\ \A b \in Actor : b # a => actor'[b] = actor[b]
    BY <1>0, <1>p, <2>1, <2>2, <2>3, <2>4 DEF Holding, Coroutine, Becomes, TypeOK
  <2>6. \A h \in Handle : OnWatch(actor[h])'
    BY <1>0, <1>c, <2>1, <2>5 DEF AttendInv, OnWatch
  <2>7. OnDuty(actor[Runtime])' /\ (actor'[Runtime].op = "shutdown" <=> runtime' = "stopping")
    BY <1>0, <1>c, <2>1, <2>5 DEF AttendInv, OnDuty
  <2>8. \A b \in Actor : Built(actor[b])'
    <3>1. \A h \in Handle : run[h] # "unused" => run'[h] # "unused"
      BY <2>1 DEF TypeOK
    <3> QED
      BY <2>5, <3>1 DEF AttendInv, Built
  <2>9. \A h \in Handle : completion'[h] = "pending" /\ runtime' # "stopping" =>
           run'[h] \in Looking \cup {"unused", "died"}
    <3> TAKE h \in Handle
    <3>1. CASE h = me.on
      <4>1. completion'[h] # "pending"
        BY <2>1, <3>1 DEF Resolve, TypeOK, None
      <4> QED
        BY <4>1
    <3>2. CASE h # me.on
      BY <2>1, <3>2 DEF AttendInv, Resolve, TypeOK
    <3> QED
      BY <3>1, <3>2
  <2> QED
    BY <2>1, <2>6, <2>7, <2>8, <2>9 DEF AttendInv
<1>7. CASE Store(a)
  <2>1. me.pc = "store" /\ UNCHANGED <<runtime, active, run, completion>> /\ a \notin Handle
    BY <1>7, <1>w DEF Store, host, WatchPc
  <2>2. CASE a # Runtime
    <3>1. PICK co : Becomes(a, co) /\ co \in {Idle, At(me, "detach")}
      BY <1>7 DEF Store
    <3>2. co.pc \in {"idle", "detach"}
      BY <1>0, <1>p, <3>1, IdleFields DEF At, Coroutine
    <3> QED
      BY <1>m, <2>1, <2>2, <3>1, <3>2
  <2>3. CASE a = Runtime
    <3>1. me.op = "shutdown"
      BY <1>w, <2>1, <2>3 DEF OnDuty
    <3>2. PICK co : co = At(me, "detach") /\ Becomes(a, co)
      BY <1>7, <3>1 DEF Store
    <3>3. co.pc = "detach" /\ co.op = "shutdown"
      BY <1>0, <1>p, <3>1, <3>2 DEF At, Coroutine
    <3>4. OnDuty(co)
      BY <3>3 DEF OnDuty
    <3> QED
      BY <2>1, <3>1, <3>2, <3>3, <3>4, AttendMove
  <2> QED
    BY <2>2, <2>3
<1>8. CASE End(a)
  <2>1. me.pc = "end" /\ UNCHANGED <<runtime, active, run, completion>> /\ a # Runtime
    BY <1>8, <1>w DEF End, host, OnDuty
  <2>2. CASE a \in Handle
    <3>1. me.op = "watch"
      BY <1>w, <2>1, <2>2
    <3>2. PICK co : co = Call("watch", "pop") /\ Becomes(a, co)
      BY <1>8, <3>1 DEF End
    <3>3. co.pc = "pop" /\ co.op = "watch"
      BY <1>p, <3>2, IdleFields DEF Call, Coroutine
    <3>4. OnWatch(co)
      BY <3>3 DEF OnWatch, WatchPc
    <3> QED
      BY <2>1, <3>2, <3>3, <3>4, AttendMove
  <2>3. CASE a \notin Handle
    <3>1. PICK co : Becomes(a, co) /\ co \in {Idle, Call("watch", "pop")}
      BY <1>8 DEF End
    <3>2. co.pc \in {"idle", "pop"}
      BY <1>p, <3>1, IdleFields DEF Call, Coroutine
    <3> QED
      BY <1>m, <2>1, <2>3, <3>1, <3>2
  <2> QED
    BY <2>2, <2>3
<1> QED
  BY <1>1, <1>2, <1>6, <1>7, <1>8 DEF CallStep

(* A handle's _run task and the watcher of a handle.                       *)
LEMMA HandleStepAttends ==
    ASSUME TypeOK, RealInv, AttendInv, NEW h \in Handle, WatchStep(h) \/ RunStep(h)
    PROVE  AttendInv'
<1> DEFINE me == actor[h]
<1>0. /\ h \in Actor /\ me \in Coroutine /\ active \in Handle \cup {None}
      /\ Runtime \in Actor /\ Handle \subseteq Actor /\ Runtime \notin Handle
  BY ActorAssumption DEF TypeOK, Coroutine, Actor
<1>p. {"get", "wait"} \subseteq Pc
  BY DEF Pc
<1>w. me.pc = "idle" \/ (me.op = "watch" /\ me.pc \in WatchPc)
  BY DEF AttendInv, OnWatch
<1>o. ASSUME NEW co, Becomes(h, co), OnWatch(co), co.pc \notin {"activate", "register"},
             UNCHANGED <<runtime, run, completion>>,
             active' = None \/ (active' = active /\ (co.pc = "wait" /\ co.on = active))
      PROVE  AttendInv'
  <2>1. actor'[h] = co /\ \A b \in Actor : b # h => actor'[b] = actor[b]
    BY <1>0, <1>o DEF Becomes, TypeOK
  <2>2. \A g \in Handle : OnWatch(actor[g])'
    BY <1>0, <1>o, <2>1 DEF AttendInv, OnWatch
  <2>3. OnDuty(actor[Runtime])' /\ (actor'[Runtime].op = "shutdown" <=> runtime' = "stopping")
    BY <1>0, <1>o, <2>1 DEF AttendInv, OnDuty
  <2>4. \A b \in Actor : Built(actor[b])'
    BY <1>o, <2>1 DEF AttendInv, Built
  <2>5. active' # None => run'[active'] # "unused" /\ Watching(actor[h])'
    BY <1>o, <2>1 DEF AttendInv, Watching
  <2> QED
    BY <1>o, <2>2, <2>3, <2>4, <2>5 DEF AttendInv
<1>1. CASE WatchStart(h)
  <2>1. me.pc = "start" /\ UNCHANGED <<runtime, active, run, completion>>
    BY <1>1 DEF WatchStart, host
  <2>2. CASE active = None
    <3>1. Becomes(h, Idle) /\ OnWatch(Idle) /\ Idle.pc = "idle"
      BY <1>1, <2>2, IdleFields DEF WatchStart, OnWatch
    <3> QED
      BY <1>o, <2>1, <2>2, <3>1
  <2>3. CASE active # None
    <3>1. PICK co : co = Using(me, "wait", active) /\ Becomes(h, co)
      BY <1>1, <2>3 DEF WatchStart
    <3>2. co.pc = "wait" /\ co.op = me.op /\ co.on = active
      BY <1>0, <1>p, <3>1 DEF Using, Coroutine
    <3>3. OnWatch(co)
      BY <1>w, <2>1, <3>2 DEF OnWatch, WatchPc
    <3> QED
      BY <1>o, <2>1, <3>1, <3>2, <3>3
  <2> QED
    BY <2>2, <2>3
<1>2. CASE WatchWait(h)
  <2>1. /\ me.pc = "wait" /\ completion[me.on] # "pending"
        /\ UNCHANGED <<runtime, active, run, completion>>
    BY <1>2 DEF WatchWait, host
  <2>2. me.on \in Handle
    BY <1>0, <2>1 DEF RealInv
  <2>4. PICK x : x = completion[me.on]
    OBVIOUS
  <2>5. x \in ExitCode \cup {None}
    BY <2>1, <2>2, <2>4 DEF TypeOK
  <2>6. PICK co : co = Reporting("get", x) /\ Becomes(h, co)
    BY <1>2, <2>4 DEF WatchWait
  <2>7. co.pc = "get" /\ co.op = "watch"
    BY <1>p, <2>5, <2>6, IdleFields DEF Reporting, Call, Coroutine, Op
  <2>8. OnWatch(co)
    BY <2>7 DEF OnWatch, WatchPc
  <2> QED
    BY <1>0, <2>1, <2>6, <2>7, <2>8, AttendMove
<1>3. CASE WatchPop(h)
  <2>1. active' = None /\ Becomes(h, Idle) /\ UNCHANGED <<runtime, run, completion>>
    BY <1>3 DEF WatchPop, host
  <2>2. OnWatch(Idle) /\ Idle.pc = "idle"
    BY IdleFields DEF OnWatch
  <2> QED
    BY <1>o, <2>1, <2>2
<1>4. CASE RunStep(h)
  <2>1. PICK found \in LookNext(run[h]) :
          /\ run[h] \in Looking
          /\ run' = [run EXCEPT ![h] =
                CASE found \in Looking -> found
                  [] found = "alive" -> "file"
                  [] found = "raised" -> "died"
                  [] OTHER -> "off"]
          /\ IF found \in Finished \cup {"gone", "unknown"}
             THEN Resolve(h, CodeOf(found))
             ELSE UNCHANGED completion
    BY <1>4 DEF RunStep
  <2>2. UNCHANGED <<runtime, active, actor>>
    BY <1>4 DEF RunStep, host
  <2>f. found \in Looking \cup Found
    BY <2>1, LookFinds
  <2>s. /\ "file" \in Looking /\ "off" \notin Looking /\ "died" \notin Looking
        /\ "unused" \notin Looking
    BY DEF Looking
  <2>3. run'[h] # "unused" /\ \A g \in Handle : g # h => run'[g] = run[g]
    BY <2>1, <2>s DEF TypeOK
  <2>4. \A g \in Handle : g # h => completion'[g] = completion[g]
    BY <2>1 DEF Resolve, TypeOK
  <2>5. completion'[h] = "pending" => run'[h] \in Looking \cup {"unused", "died"}
    <3>1. CASE found \in Finished \cup {"gone", "unknown"}
      <4>1. CodeOf(found) # "pending"
        BY CodeAssumption DEF CodeOf, None
      <4>2. completion'[h] # "pending"
        BY <2>1, <3>1, <4>1 DEF Resolve, TypeOK
      <4> QED
        BY <4>2
    <3>2. CASE found \notin Finished \cup {"gone", "unknown"}
      <4>1. found \in Looking \cup {"alive", "raised"}
        BY <2>f, <3>2 DEF Found
      <4> QED
        BY <2>1, <2>s, <4>1 DEF TypeOK
    <3> QED
      BY <3>1, <3>2
  <2>6. \A b \in Actor : Built(actor[b])'
    BY <2>2, <2>3 DEF AttendInv, Built
  <2>7. active' # None => run'[active'] # "unused" /\ \E g \in Handle : Watching(actor[g])'
    BY <1>0, <2>2, <2>3 DEF AttendInv, Watching
  <2>8. \A g \in Handle : completion'[g] = "pending" /\ runtime' # "stopping" =>
           run'[g] \in Looking \cup {"unused", "died"}
    BY <2>2, <2>3, <2>4, <2>5 DEF AttendInv
  <2>9. (\A g \in Handle : OnWatch(actor[g]))' /\ OnDuty(actor[Runtime])'
    BY <2>2 DEF AttendInv, OnWatch, OnDuty
  <2> QED
    BY <2>2, <2>6, <2>7, <2>8, <2>9 DEF AttendInv
<1> QED
  BY <1>1, <1>2, <1>3, <1>4 DEF WatchStep

-----------------------------------------------------------------------------
(* EndIsHonest.                                                            *)

(* A step of one or two coroutines of a session that exists.               *)
LEMMA HonestStep ==
    ASSUME TypeOK, HonestInv, tmux # "absent", UNCHANGED <<tmux, command>>,
           UNCHANGED session \/ session'.state # "ABSENT",
           active' # None => session'.state # "ABSENT",
           active # None => active' # None \/ (faults' = 0 => Ended),
           faults' = 0 => faults = 0,
           \A h \in Handle : run'[h] = "late" => tmux = "gone",
           faults' = 0 => (session'.state \in Ending => Ended),
           faults' = 0 => \A h \in Handle : completion'[h] # "pending" => Ended,
           \A b \in Actor : \/ actor'[b] = actor[b]
                            \/ OnRecord(actor[b])' /\ (faults' = 0 => Truthful(actor[b])')
    PROVE  HonestInv'
<1>1. \A b \in Actor : OnRecord(actor[b])'
  <2> TAKE b \in Actor
  <2>1. CASE actor'[b] = actor[b]
    BY <2>1 DEF HonestInv, OnRecord
  <2> QED
    BY <2>1
<1>2. faults' = 0 => \A b \in Actor : Truthful(actor[b])'
  <2> SUFFICES ASSUME faults' = 0, NEW b \in Actor PROVE Truthful(actor[b])'
    OBVIOUS
  <2>1. CASE actor'[b] = actor[b]
    <3>1. Truthful(actor[b])
      BY DEF HonestInv
    <3> QED
      BY <2>1, <3>1 DEF Truthful, Ended
  <2> QED
    BY <2>1
<1>3. Untouched'
  BY DEF Untouched
<1> QED
  BY <1>1, <1>2, <1>3 DEF HonestInv, Ended

(* A session that nobody has touched lets no coroutine of its own move.    *)
LEMMA TouchedFacts ==
    ASSUME TypeOK, HonestInv, NEW a \in Actor, actor[a].pc \notin {"idle", "dispose"}
    PROVE  tmux # "absent"
<1>1. Idle.pc = "idle"
  BY IdleFields
<1>2. Call("shutdown", "dispose").pc = "dispose"
  BY IdleFields DEF Call, Coroutine, Op, Pc
<1> QED
  BY <1>1, <1>2 DEF HonestInv, Untouched

(* The step of one coroutine that leaves the handles alone.                *)
LEMMA HonestMove ==
    ASSUME TypeOK, HonestInv, NEW a \in Actor, actor[a].pc \notin {"idle", "dispose"},
           NEW co, Becomes(a, co), UNCHANGED <<active, run, completion, tmux, command>>,
           UNCHANGED session \/ session'.state # "ABSENT",
           faults' = 0 => faults = 0,
           faults' = 0 => (session'.state \in Ending => Ended),
           OnRecord(actor[a])', faults' = 0 => Truthful(actor[a])'
    PROVE  HonestInv'
<1>1. tmux # "absent"
  BY TouchedFacts
<1>2. \A b \in Actor : \/ actor'[b] = actor[b]
                       \/ OnRecord(actor[b])' /\ (faults' = 0 => Truthful(actor[b])')
  <2> TAKE b \in Actor
  <2>1. b # a => actor'[b] = actor[b]
    BY DEF Becomes, TypeOK
  <2> QED
    BY <2>1
<1>3. active' # None => session'.state # "ABSENT"
  BY DEF HonestInv
<1>4. \A h \in Handle : run'[h] = "late" => tmux = "gone"
  BY DEF HonestInv
<1>5. faults' = 0 => \A h \in Handle : completion'[h] # "pending" => Ended
  BY DEF HonestInv
<1> QED
  BY <1>1, <1>2, <1>3, <1>4, <1>5, HonestStep

(* What _tmux_status finds shows an end, unless the connection failed.     *)
LEMMA FoundShows ==
    ASSUME TypeOK, RealInv, HonestInv, NEW look \in Looking, look = "late" => tmux = "gone",
           tmux # "absent", NEW found \in LookNext(look)
    PROVE  /\ found = "late" => tmux = "gone"
           /\ found \in Finished \cup {"gone"} => Ended
<1>1. tmux = "gone" => Ended
  BY DEF HonestInv
<1>2. /\ status \in ExitCode \cup {"partial"} => Ended
      /\ {"partial", "running", "unreadable", "probe", "gone", "raised", "late", "alive", "unknown"}
           \cap ExitCode = {}
      /\ status \in {None, "partial"} \cup ExitCode /\ tmux \in {"alive", "gone"}
  BY CodeAssumption DEF RealInv, IsReal, Ended, TypeOK
<1>3. CASE look = "file"
  <2>1. found \in {StatusFound("probe"), "raised"}
    BY <1>3 DEF LookNext
  <2> QED
    BY <1>2, <2>1 DEF StatusFound, Finished
<1>4. CASE look = "late"
  <2>1. found \in {StatusFound("gone"), "raised"}
    BY <1>4 DEF LookNext
  <2> QED
    BY <1>1, <1>2, <1>4, <2>1 DEF StatusFound, Finished
<1>5. CASE look = "probe"
  <2>1. found \in {IF tmux = "alive" THEN "alive" ELSE "late", "unknown", "raised"}
    BY <1>5 DEF LookNext
  <2> QED
    BY <1>2, <2>1 DEF Finished
<1> QED
  BY <1>3, <1>4, <1>5 DEF Looking

(* A handle is built in a session that exists.                             *)
LEMMA HonestNew ==
    ASSUME TypeOK, HonestInv, NEW a \in Actor, NEW h \in Handle, NewHandle(a, actor[a], h),
           actor[a].pc \notin {"idle", "dispose", "start", "wait"},
           UNCHANGED <<active, completion, tmux, command, session, faults>>
    PROVE  HonestInv'
<1> DEFINE me == actor[a]
<1>0. /\ me \in Coroutine /\ OnRecord(me) /\ (faults = 0 => Truthful(me))
      /\ "activate" \in Pc /\ "file" \in Looking
  BY DEF TypeOK, HonestInv, Pc, Looking
<1>1. PICK co : co = [Using(me, "activate", h) EXCEPT !.look = "file"] /\ Becomes(a, co)
  BY DEF NewHandle
<1>2. /\ co.pc = "activate" /\ co.op = me.op /\ co.copy = me.copy /\ co.look = "file"
      /\ actor'[a] = co /\ \A b \in Actor : b # a => actor'[b] = actor[b]
  BY <1>0, <1>1 DEF Using, Coroutine, Becomes, TypeOK
<1>3. OnRecord(actor[a])'
  BY <1>0, <1>2 DEF OnRecord
<1>4. ASSUME faults' = 0 PROVE Truthful(actor[a])'
  BY <1>0, <1>2, <1>4 DEF Truthful, Ended
<1>5. \A g \in Handle : run'[g] = "late" => tmux = "gone"
  BY DEF NewHandle, HonestInv, TypeOK
<1>6. \A b \in Actor : \/ actor'[b] = actor[b]
                       \/ OnRecord(actor[b])' /\ (faults' = 0 => Truthful(actor[b])')
  BY <1>2, <1>3, <1>4
<1>7. /\ faults' = 0 => (session'.state \in Ending => Ended)
      /\ faults' = 0 => \A g \in Handle : completion'[g] # "pending" => Ended
      /\ active' # None => session'.state # "ABSENT"
  BY DEF HonestInv
<1>8. tmux # "absent"
  BY TouchedFacts
<1> QED
  BY <1>5, <1>6, <1>7, <1>8, HonestStep

(* A call that has no handle and nothing to reattach knows of an end.      *)
LEMMA HonestDispatch ==
    ASSUME TypeOK, HonestInv, NEW a \in Actor, Becomes(a, Dispatch(actor[a])),
           UNCHANGED <<active, tmux, command, session>>,
           actor[a].pc \in {"check", "ready", "status", "attach"}, faults' = 0 => faults = 0,
           faults' = 0 /\ active = None /\ actor[a].op = "terminate" => Ended
    PROVE  OnRecord(actor[a])' /\ (faults' = 0 => Truthful(actor[a])')
<1>0. /\ actor[a] \in Coroutine /\ active \in Handle \cup {None}
      /\ OnRecord(actor[a]) /\ (faults = 0 => Truthful(actor[a]))
  BY DEF TypeOK, HonestInv
<1>1. PICK d : d = Dispatch(actor[a]) /\ actor'[a] = d
  BY DEF Becomes, TypeOK
<1>2. \/ /\ d.pc \in {"send", "kill"} /\ d.copy = actor[a].copy /\ d.look = actor[a].look
         /\ d.op = actor[a].op /\ actor[a].op \in {"write", "resize", "terminate"} /\ active # None
      \/ /\ d.pc = "end" /\ d.op = "terminate" /\ actor[a].op = "terminate"
         /\ d.copy = actor[a].copy /\ d.look = "file" /\ active = None
      \/ /\ d.pc = "end" /\ d.op = "watch" /\ actor[a].op = "watch"
         /\ d.copy = AbsentSession /\ d.look = "file"
      \/ d = Idle /\ actor[a].op \notin {"terminate", "watch"}
  BY <1>0, <1>1, DispatchShape
<1>3. OnRecord(actor[a])'
  BY <1>0, <1>1, <1>2, IdleFields DEF OnRecord
<1>4. ASSUME faults' = 0 PROVE Truthful(actor[a])'
  BY <1>0, <1>1, <1>2, <1>4, IdleFields DEF Truthful, Ended, Ending
<1> QED
  BY <1>3, <1>4

(* After a reattachment there is a handle, or an end.                      *)
LEMMA HonestReclaimed ==
    ASSUME TypeOK, HonestInv, NEW a \in Actor, actor'[a] = Reclaimed(actor[a]),
           UNCHANGED <<tmux, command>>, session'.state # "ABSENT",
           faults' = 0 => Ended \/ active' # None,
           faults' = 0 /\ actor[a].op = "watch" => Ended
    PROVE  OnRecord(actor[a])' /\ (faults' = 0 => Truthful(actor[a])')
<1>0. actor[a] \in Coroutine
  BY DEF TypeOK, HonestInv
<1>1. PICK d : d = Reclaimed(actor[a]) /\ actor'[a] = d
  OBVIOUS
<1>2. \/ d = Idle /\ actor[a].op \in {"recover", "create"}
      \/ /\ d.pc = "reget" /\ d.op = actor[a].op /\ d.copy = AbsentSession /\ d.look = "file"
         /\ actor[a].op \notin {"recover", "create"}
  BY <1>0, <1>1, ReclaimedShape
<1>3. OnRecord(actor[a])'
  BY <1>0, <1>1, <1>2, IdleFields DEF OnRecord
<1>4. ASSUME faults' = 0 PROVE Truthful(actor[a])'
  BY <1>0, <1>1, <1>2, <1>4, IdleFields DEF Truthful, Ended, Ending
<1> QED
  BY <1>3, <1>4

(* get and the reattachment say the truth.                                 *)
LEMMA GetStepHonest ==
    ASSUME TypeOK, RealInv, AttendInv, HonestInv, NEW a \in Actor, GetStep(a)
    PROVE  HonestInv'
<1> DEFINE me == actor[a]
<1>0. /\ me \in Coroutine /\ active \in Handle \cup {None} /\ session \in SessionRecord
      /\ me.copy \in SessionRecord /\ me.look \in Looking /\ me.op \in Op
      /\ me.on \in Handle \cup {None} /\ faults \in Nat
      /\ OnRecord(me) /\ (faults = 0 => Truthful(me))
      /\ (faults = 0 => (session.state \in Ending => Ended))
  BY SessionBoundAssumption DEF TypeOK, HonestInv, Coroutine
<1>a. \A co : Becomes(a, co) => actor'[a] = co
  BY DEF Becomes, TypeOK
<1>p. /\ {"check", "ready", "status", "attach", "activate", "register"} \subseteq Pc
      /\ "file" \in Looking
  BY DEF Pc, Looking
<1>1. CASE Read(a)
  <2>1. PICK pc \in {"check", "ready"} :
          /\ Becomes(a, Holding(me, pc, session)) /\ me.pc \in {"get", "reget"}
          /\ pc = "ready" => me.pc = "reget"
          /\ UNCHANGED <<active, run, completion, tmux, command, session, faults>>
    BY <1>1 DEF Read, host
  <2>2. PICK co : co = Holding(me, pc, session)
    OBVIOUS
  <2>3. /\ co.pc = pc /\ co.op = me.op /\ co.copy = session /\ co.look = me.look
        /\ actor'[a] = co
    BY <2>1, <2>2, <1>0, <1>p, <1>a DEF Holding, Coroutine
  <2>4. OnRecord(actor[a])'
    BY <1>0, <2>1, <2>3 DEF OnRecord
  <2>5. ASSUME faults' = 0 PROVE Truthful(actor[a])'
    BY <1>0, <2>1, <2>3, <2>5 DEF Truthful, Ended
  <2> QED
    BY <1>0, <2>1, <2>4, <2>5, HonestMove
<1>2. CASE Check(a)
  <2>0. me.pc = "check" /\ UNCHANGED <<active, run, completion, tmux, command, session, faults>>
    BY <1>2 DEF Check, host
  <2>1. CASE ReattachNeeded(me.copy)
    <3>1. PICK co : co = [At(me, "status") EXCEPT !.look = "file"] /\ Becomes(a, co)
      BY <1>2, <2>1 DEF Check
    <3>2. /\ co.pc = "status" /\ co.op = me.op /\ co.copy = me.copy /\ co.look = "file"
          /\ actor'[a] = co
      BY <3>1, <1>0, <1>p, <1>a DEF At, Coroutine
    <3>3. OnRecord(actor[a])'
      BY <1>0, <2>0, <3>2 DEF OnRecord
    <3>4. ASSUME faults' = 0 PROVE Truthful(actor[a])'
      BY <1>0, <2>0, <3>2, <3>4 DEF Truthful, Ended
    <3> QED
      BY <1>0, <2>0, <3>1, <3>3, <3>4, HonestMove
  <2>2. CASE ~ReattachNeeded(me.copy)
    <3>1. Becomes(a, Dispatch(me))
      BY <1>2, <2>2 DEF Check
    <3>2. faults' = 0 /\ active = None => Ended
      BY <1>0, <2>0, <2>2
         DEF ReattachNeeded, ReattachableStates, SessionRecord, SessionState, OnRecord, Truthful,
             Ending
    <3>3. OnRecord(actor[a])' /\ (faults' = 0 => Truthful(actor[a])')
      BY <2>0, <3>1, <3>2, HonestDispatch
    <3> QED
      BY <1>0, <2>0, <3>1, <3>3, HonestMove
  <2> QED
    BY <2>1, <2>2
<1>3. CASE Ready(a)
  <2>0. /\ me.pc = "ready" /\ Becomes(a, Dispatch(me))
        /\ UNCHANGED <<active, run, completion, tmux, command, session, faults>>
    BY <1>3 DEF Ready, host
  <2>1. faults' = 0 /\ active = None => Ended
    BY <1>0, <2>0 DEF Truthful
  <2>2. OnRecord(actor[a])' /\ (faults' = 0 => Truthful(actor[a])')
    BY <2>0, <2>1, HonestDispatch
  <2> QED
    BY <1>0, <2>0, <2>2, HonestMove
<1>4. CASE LookOn(a)
  <2>0. me.pc \in {"status", "attach"} /\ tmux # "absent"
    BY <1>4, TouchedFacts DEF LookOn
  <2>1. PICK found \in LookNext(me.look) :
          found \in Looking /\ Becomes(a, [me EXCEPT !.look = found])
    BY <1>4 DEF LookOn
  <2>2. UNCHANGED <<active, run, completion, tmux, command, session, faults>>
    BY <1>4 DEF LookOn, host
  <2>3. found = "late" => tmux = "gone"
    BY <1>0, <2>0, FoundShows DEF OnRecord
  <2>4. PICK co : co = [me EXCEPT !.look = found]
    OBVIOUS
  <2>5. /\ co.pc = me.pc /\ co.op = me.op /\ co.copy = me.copy /\ co.look = found
        /\ actor'[a] = co
    BY <1>0, <1>a, <2>1, <2>4 DEF Coroutine
  <2>6. OnRecord(actor[a])'
    BY <1>0, <2>2, <2>3, <2>5 DEF OnRecord
  <2>7. ASSUME faults' = 0 PROVE Truthful(actor[a])'
    BY <1>0, <2>2, <2>5, <2>7 DEF Truthful, Ended
  <2> QED
    BY <1>0, <2>0, <2>1, <2>2, <2>6, <2>7, HonestMove
<1>5. CASE ReattachDeferred(a)
  <2>1. /\ me.pc = "status" /\ Becomes(a, Reclaimed(me)) /\ faults' # 0
        /\ session' = WithState(me.copy, "DETACHED")
        /\ UNCHANGED <<active, run, completion, tmux, command>>
    BY <1>0, <1>5 DEF ReattachDeferred, host, Fault, Upsert
  <2>2. session'.state = "DETACHED"
    BY <2>1 DEF WithState, Rec
  <2>3. OnRecord(actor[a])'
    BY <1>a, <2>1, <2>2, HonestReclaimed
  <2> QED
    BY <1>0, <2>1, <2>2, <2>3, HonestMove
<1>6. CASE ReattachFinished(a)
  <2>1. /\ me.pc = "status" /\ Becomes(a, Reclaimed(me))
        /\ UNCHANGED <<active, run, completion, tmux, command, faults>>
    BY <1>6 DEF ReattachFinished, host
  <2>2. PICK found \in LookNext(me.look) :
          found \in Finished /\ session' = Rec("TERMINATED", CodeOf(found))
    BY <1>6 DEF ReattachFinished, Upsert
  <2>3. session'.state = "TERMINATED"
    BY <2>2 DEF Rec
  <2>4. tmux # "absent"
    BY <2>1, TouchedFacts
  <2>5. Ended
    BY <1>0, <2>2, <2>4, FoundShows DEF OnRecord
  <2>6. OnRecord(actor[a])' /\ (faults' = 0 => Truthful(actor[a])')
    BY <1>a, <2>1, <2>3, <2>5, HonestReclaimed
  <2> QED
    BY <1>0, <2>1, <2>3, <2>5, <2>6, HonestMove
<1>7. CASE NotReclaimed(a)
  <2>1. PICK found \in LookNext(me.look) :
          /\ \/ me.pc = "status" /\ found \in {"gone", "raised"}
             \/ me.pc = "attach" /\ found \in Found \ {"alive"}
          /\ FaultIff(found \in {"unknown", "raised"})
    BY <1>7 DEF NotReclaimed
  <2>2. UNCHANGED <<active, run, completion, tmux, command>> /\ me.pc \in {"status", "attach"}
    BY <1>7 DEF NotReclaimed, host
  <2>3. tmux # "absent"
    BY <2>2, TouchedFacts
  <2>4. faults' = 0 => faults = 0 /\ found \notin {"unknown", "raised"}
    BY <1>0, <2>1 DEF FaultIff, Fault
  <2>5. faults' = 0 => Ended
    BY <1>0, <2>1, <2>3, <2>4, FoundShows DEF OnRecord, Found
  <2>6. CASE me.op = "recover"
    <3>1. session' = WithState(me.copy, "DISCONNECTED") /\ Becomes(a, Idle)
      BY <1>7, <2>6 DEF NotReclaimed, Upsert
    <3>2. session'.state = "DISCONNECTED" /\ actor'[a] = Idle
      BY <1>a, <3>1 DEF WithState, Rec
    <3>3. OnRecord(actor[a])' /\ Truthful(actor[a])'
      BY <3>2, IdleFields DEF OnRecord, Truthful, Ending
    <3> QED
      BY <1>0, <2>2, <2>4, <2>5, <3>1, <3>2, <3>3, HonestMove
  <2>7. CASE me.op # "recover"
    <3>1. Becomes(a, Dispatch(me)) /\ UNCHANGED session
      BY <1>7, <2>7 DEF NotReclaimed
    <3>2. OnRecord(actor[a])' /\ (faults' = 0 => Truthful(actor[a])')
      BY <2>2, <2>4, <2>5, <3>1, HonestDispatch
    <3> QED
      BY <1>0, <2>2, <2>4, <3>1, <3>2, HonestMove
  <2> QED
    BY <2>6, <2>7
<1>8. CASE ReattachAlive(a)
  <2>0. me.pc = "status" /\ UNCHANGED <<active, run, completion, tmux, command, session, faults>>
    BY <1>8 DEF ReattachAlive, host
  <2>1. PICK co : co = [At(me, "attach") EXCEPT !.look = "file"] /\ Becomes(a, co)
    BY <1>8 DEF ReattachAlive
  <2>2. /\ co.pc = "attach" /\ co.op = me.op /\ co.copy = me.copy /\ co.look = "file"
        /\ actor'[a] = co
    BY <2>1, <1>0, <1>p, <1>a DEF At, Coroutine
  <2>3. OnRecord(actor[a])'
    BY <1>0, <2>0, <2>2 DEF OnRecord
  <2>4. ASSUME faults' = 0 PROVE Truthful(actor[a])'
    BY <1>0, <2>0, <2>2, <2>4 DEF Truthful, Ended
  <2> QED
    BY <1>0, <2>0, <2>1, <2>3, <2>4, HonestMove
<1>9. CASE Attach(a)
  <2>0. /\ me.pc = "attach"
        /\ UNCHANGED <<active, completion, tmux, command, session, faults>>
    BY <1>9 DEF Attach, host
  <2>1. PICK h \in Handle : NewHandle(a, me, h)
    BY <1>9 DEF Attach
  <2> QED
    BY <2>0, <2>1, HonestNew
<1>10. CASE Activate(a)
  <2>1. /\ me.pc = "activate" /\ Becomes(a, At(me, "register"))
        /\ session' = WithState(me.copy, "ACTIVE")
        /\ UNCHANGED <<active, run, completion, tmux, command, faults>>
    BY <1>10 DEF Activate, host, Upsert
  <2>2. PICK co : co = At(me, "register")
    OBVIOUS
  <2>3. /\ co.pc = "register" /\ co.op = me.op /\ co.copy = me.copy /\ co.look = me.look
        /\ actor'[a] = co /\ session'.state = "ACTIVE"
    BY <1>0, <1>a, <1>p, <2>1, <2>2 DEF At, Coroutine, WithState, Rec
  <2>4. OnRecord(actor[a])'
    BY <1>0, <2>1, <2>3 DEF OnRecord
  <2>5. ASSUME faults' = 0 PROVE Truthful(actor[a])'
    BY <1>0, <2>1, <2>3, <2>5 DEF Truthful, Ended
  <2>6. faults' = 0 => (session'.state \in Ending => Ended)
    BY <2>3 DEF Ending
  <2> QED
    BY <1>0, <2>1, <2>3, <2>4, <2>5, <2>6, HonestMove
<1>11. CASE Register(a)
  <2> DEFINE g == me.on
  <2>1. /\ me.pc = "register" /\ active' = g
        /\ actor' = [actor EXCEPT ![a] = Reclaimed(me), ![g] = Call("watch", "start")]
        /\ UNCHANGED <<run, completion, tmux, command, session, faults>>
    BY <1>11 DEF Register, host
  <2>2. session.state # "ABSENT" /\ tmux # "absent"
    BY <1>0, <2>1, TouchedFacts DEF OnRecord
  <2>w. PICK w : w = Call("watch", "start")
    OBVIOUS
  <2>3. w.pc = "start" /\ w.op = "watch" /\ w.copy = AbsentSession /\ w.look = "file"
    BY <2>w, IdleFields DEF Call, Coroutine, Op, Pc
  <2>4. /\ a # g => actor'[a] = Reclaimed(me)
        /\ \A b \in Actor : b = g => actor'[b] = w
        /\ \A b \in Actor : b # a /\ b # g => actor'[b] = actor[b]
    BY <2>1, <2>w DEF TypeOK
  <2>g. g \in Handle
    BY <2>1 DEF AttendInv, Built
  <2>5. \A b \in Actor : b = g => OnRecord(actor[b])' /\ (faults' = 0 => Truthful(actor[b])')
    BY <2>1, <2>2, <2>3, <2>4, IdleFields DEF OnRecord, Truthful, Ending
  <2>6. a # g => OnRecord(actor[a])' /\ (faults' = 0 => Truthful(actor[a])')
    <3>1. active' # None
      BY <2>1, <2>g, ActorAssumption DEF None
    <3>2. faults' = 0 /\ me.op = "watch" => Ended
      BY <1>0, <2>1 DEF Truthful
    <3> QED
      BY <2>1, <2>2, <2>4, <3>1, <3>2, HonestReclaimed
  <2>7. \A b \in Actor : \/ actor'[b] = actor[b]
                         \/ OnRecord(actor[b])' /\ (faults' = 0 => Truthful(actor[b])')
    BY <2>4, <2>5, <2>6
  <2>8. active # None => active' # None
    BY <2>1, <2>g, ActorAssumption DEF None
  <2>9. /\ \A h \in Handle : run'[h] = "late" => tmux = "gone"
        /\ faults' = 0 => \A h \in Handle : completion'[h] # "pending" => Ended
    BY <2>1 DEF HonestInv
  <2> QED
    BY <1>0, <2>1, <2>2, <2>7, <2>8, <2>9, HonestStep
<1> QED
  BY <1>1, <1>2, <1>3, <1>4, <1>5, <1>6, <1>7, <1>8, <1>9, <1>10, <1>11 DEF GetStep

(* create, write, resize, terminate and the end of a session.              *)
LEMMA CallStepHonest ==
    ASSUME TypeOK, RealInv, HonestInv, NEW a \in Actor, CallStep(a) \/ Store(a) \/ End(a)
    PROVE  HonestInv'
<1> DEFINE me == actor[a]
<1>0. /\ me \in Coroutine /\ active \in Handle \cup {None} /\ session \in SessionRecord
      /\ me.copy \in SessionRecord /\ me.look \in Looking /\ me.op \in Op
      /\ me.on \in Handle \cup {None} /\ faults \in Nat
      /\ OnRecord(me) /\ (faults = 0 => Truthful(me))
      /\ (faults = 0 => (session.state \in Ending => Ended))
  BY SessionBoundAssumption DEF TypeOK, HonestInv, Coroutine
<1>a. \A co : Becomes(a, co) => actor'[a] = co
  BY DEF Becomes, TypeOK
<1>p. {"store", "close", "end", "pop", "detach"} \subseteq Pc /\ {"watch", "terminate"} \subseteq Op
  BY DEF Pc, Op
<1>i. actor'[a] = Idle => OnRecord(actor[a])' /\ Truthful(actor[a])'
  BY IdleFields DEF OnRecord, Truthful, Ending
<1>1. CASE CreatePiped(a)
  <2>0. /\ me.pc = "pipe"
        /\ UNCHANGED <<active, completion, tmux, command, session, faults>>
    BY <1>1 DEF CreatePiped, host
  <2>1. PICK h \in Handle : NewHandle(a, me, h)
    BY <1>1 DEF CreatePiped
  <2> QED
    BY <2>0, <2>1, HonestNew
<1>2. CASE CreateFails(a) \/ CloseRaises(a)
  <2>1. /\ me.pc \in {"pipe", "close"} /\ Becomes(a, Idle)
        /\ UNCHANGED <<active, run, completion, tmux, command, session>>
        /\ faults' = 0 => faults = 0
    BY <1>0, <1>2 DEF CreateFails, CloseRaises, host, FaultIff, Fault
  <2> QED
    BY <1>0, <1>a, <1>i, <2>1, HonestMove
<1>3. CASE Send(a)
  <2>0. /\ me.pc = "send"
        /\ UNCHANGED <<active, run, completion, tmux, command, session>>
        /\ faults' = 0 => faults = 0
    BY <1>0, <1>3 DEF Send, host, FaultIff, Fault
  <2>1. CASE Becomes(a, Idle)
    BY <1>0, <1>a, <1>i, <2>0, <2>1, HonestMove
  <2>2. CASE Becomes(a, At(me, "store"))
    <3>1. PICK co : co = At(me, "store")
      OBVIOUS
    <3>2. /\ co.pc = "store" /\ co.op = me.op /\ co.copy = me.copy /\ co.look = me.look
          /\ actor'[a] = co
      BY <1>0, <1>a, <1>p, <2>2, <3>1 DEF At, Coroutine
    <3>3. OnRecord(actor[a])'
      BY <1>0, <2>0, <3>2 DEF OnRecord
    <3>4. ASSUME faults' = 0 PROVE Truthful(actor[a])'
      BY <1>0, <2>0, <3>2, <3>4 DEF Truthful, Ended
    <3> QED
      BY <1>0, <2>0, <2>2, <3>3, <3>4, HonestMove
  <2> QED
    BY <1>3, <2>1, <2>2 DEF Send
<1>4. CASE Kill(a) \/ KillRaises(a)
  <2>0. /\ me.pc = "kill"
        /\ UNCHANGED <<active, run, completion, session>>
        /\ faults' = 0 => UNCHANGED faults /\ Kill(a)
    BY <1>0, <1>4 DEF Kill, KillRaises, Fault
  <2>t. tmux # "absent"
    BY <2>0, TouchedFacts
  <2>1. /\ Ended => Ended' 
        /\ tmux = "gone" => tmux' = "gone"
        /\ tmux' # "absent" /\ (tmux' = "gone" => Ended')
        /\ faults' = 0 => Ended'
    BY <1>4, <2>0, <2>t DEF Kill, KillRaises, KillSession, Ended, HonestInv
  <2>2. PICK co : Becomes(a, co) /\ co \in {Idle, At(me, "close")}
    BY <1>4 DEF Kill, KillRaises
  <2>3. co.pc \in {"idle", "close"} /\ co.look \in {"file", me.look} /\ actor'[a] = co
        /\ \A b \in Actor : b # a => actor'[b] = actor[b]
    BY <1>0, <1>a, <1>p, <2>2, IdleFields DEF At, Coroutine, Becomes, TypeOK
  <2>4. \A b \in Actor : OnRecord(actor[b])'
    <3>1. OnRecord(actor[a])'
      BY <1>0, <2>0, <2>1, <2>3 DEF OnRecord
    <3>2. \A b \in Actor : b # a => OnRecord(actor[b])'
      BY <2>0, <2>1, <2>3 DEF OnRecord, HonestInv
    <3> QED
      BY <3>1, <3>2
  <2>5. faults' = 0 => \A b \in Actor : Truthful(actor[b])'
    BY <2>1 DEF Truthful
  <2>6. Untouched' /\ (tmux = "gone" => Ended)' /\ (active # None => session.state # "ABSENT")'
        /\ \A h \in Handle : (run[h] = "late" => tmux = "gone")'
    BY <2>0, <2>1 DEF Untouched, HonestInv
  <2> QED
    BY <2>0, <2>1, <2>4, <2>5, <2>6 DEF HonestInv
<1>6. CASE Close(a)
  <2>1. /\ me.pc = "close" /\ active' = None
        /\ run' = [run EXCEPT ![me.on] = "off"]
        /\ Becomes(a, Holding(Call("terminate", "end"), "end", me.copy))
        /\ UNCHANGED <<session, tmux, command, faults>>
    BY <1>6 DEF Close, host
  <2>2. faults = 0 => Ended
    BY <1>0, <2>1 DEF Truthful
  <2>3. PICK co : co = Holding(Call("terminate", "end"), "end", me.copy)
    OBVIOUS
  <2>c. PICK d : d = Call("terminate", "end")
    OBVIOUS
  <2>d. d \in Coroutine /\ d.look = "file"
    BY <1>p, <2>c, IdleFields DEF Call, Coroutine
  <2>4. /\ co.pc = "end" /\ co.look = "file" /\ actor'[a] = co
        /\ \A b \in Actor : b # a => actor'[b] = actor[b]
    BY <1>0, <1>a, <1>p, <2>1, <2>3, <2>c, <2>d DEF Holding, Coroutine, Becomes, TypeOK
  <2>5. OnRecord(actor[a])' /\ (faults' = 0 => Truthful(actor[a])')
    BY <2>1, <2>2, <2>4 DEF OnRecord, Truthful, Ended
  <2>6. \A b \in Actor : \/ actor'[b] = actor[b]
                         \/ OnRecord(actor[b])' /\ (faults' = 0 => Truthful(actor[b])')
    BY <2>4, <2>5
  <2>7. \A h \in Handle : run'[h] = "late" => tmux = "gone"
    BY <2>1 DEF HonestInv, TypeOK
  <2>8. tmux # "absent"
    BY <2>1, TouchedFacts
  <2> QED
    BY <1>0, <2>1, <2>2, <2>6, <2>7, <2>8, HonestStep
<1>7. CASE Store(a)
  <2>1. /\ me.pc = "store" /\ session' = me.copy
        /\ UNCHANGED <<active, run, completion, tmux, command, faults>>
    BY <1>7 DEF Store, Upsert, host
  <2>2. PICK co : Becomes(a, co) /\ co \in {Idle, At(me, "detach")}
    BY <1>7 DEF Store
  <2>3. /\ co = Idle \/ (co.pc = "detach" /\ co.op = me.op /\ co.copy = me.copy
                         /\ co.look = me.look)
        /\ actor'[a] = co
    BY <1>0, <1>a, <1>p, <2>2 DEF At, Coroutine
  <2>4. session'.state # "ABSENT" /\ (faults' = 0 => (session'.state \in Ending => Ended))
    BY <1>0, <2>1 DEF OnRecord, Truthful
  <2>5. OnRecord(actor[a])' /\ (faults' = 0 => Truthful(actor[a])')
    <3>1. CASE co = Idle
      BY <1>i, <2>3, <3>1
    <3>2. CASE co # Idle
      BY <1>0, <2>1, <2>3, <3>2 DEF OnRecord, Truthful, Ended
    <3> QED
      BY <3>1, <3>2
  <2> QED
    BY <1>0, <2>1, <2>2, <2>4, <2>5, HonestMove
<1>8. CASE End(a)
  <2>1. /\ me.pc = "end"
        /\ UNCHANGED <<active, run, completion, tmux, command, faults>>
        /\ session' \in {Rec("TERMINATED", me.code), WithState(me.copy, "TERMINATED")}
    BY <1>8 DEF End, Upsert, host
  <2>2. PICK co : Becomes(a, co) /\ co \in {Idle, Call("watch", "pop")}
    BY <1>8 DEF End
  <2>3. /\ co = Idle \/ (co.pc = "pop" /\ co.copy = AbsentSession /\ co.look = "file")
        /\ actor'[a] = co
    BY <1>0, <1>a, <1>p, <2>2, IdleFields DEF Call, Coroutine
  <2>4. session'.state = "TERMINATED" /\ (faults = 0 => Ended)
    BY <1>0, <2>1 DEF WithState, Rec, Truthful
  <2>5. OnRecord(actor[a])' /\ (faults' = 0 => Truthful(actor[a])')
    <3>1. CASE co = Idle
      BY <1>i, <2>3, <3>1
    <3>2. CASE co # Idle
      BY <1>0, <2>1, <2>3, <2>4, <3>2 DEF OnRecord, Truthful, Ended
    <3> QED
      BY <3>1, <3>2
  <2> QED
    BY <1>0, <2>1, <2>2, <2>4, <2>5, HonestMove
<1> QED
  BY <1>1, <1>2, <1>3, <1>4, <1>6, <1>7, <1>8 DEF CallStep

(* A handle's _run task and the watcher of a handle.                       *)
LEMMA HandleStepHonest ==
    ASSUME TypeOK, RealInv, HonestInv, NEW h \in Handle, WatchStep(h) \/ RunStep(h)
    PROVE  HonestInv'
<1> DEFINE me == actor[h]
<1>0. /\ h \in Actor /\ me \in Coroutine /\ active \in Handle \cup {None}
      /\ me.copy \in SessionRecord /\ faults \in Nat
      /\ OnRecord(me) /\ (faults = 0 => Truthful(me))
      /\ (faults = 0 => (session.state \in Ending => Ended))
  BY SessionBoundAssumption DEF TypeOK, HonestInv, Coroutine, Actor
<1>a. \A co : Becomes(h, co) => actor'[h] = co
  BY <1>0 DEF Becomes, TypeOK
<1>p. {"get", "wait"} \subseteq Pc
  BY DEF Pc
<1>i. actor'[h] = Idle => OnRecord(actor[h])' /\ Truthful(actor[h])'
  BY IdleFields DEF OnRecord, Truthful, Ending
<1>1. CASE WatchStart(h)
  <2>1. /\ me.pc = "start"
        /\ UNCHANGED <<active, run, completion, tmux, command, session, faults>>
    BY <1>1 DEF WatchStart, host
  <2>2. PICK co : Becomes(h, co) /\ co \in {Idle, Using(me, "wait", active)}
    BY <1>1 DEF WatchStart
  <2>3. /\ co = Idle \/ (co.pc = "wait" /\ co.op = me.op /\ co.copy = me.copy
                         /\ co.look = me.look)
        /\ actor'[h] = co
    BY <1>0, <1>a, <1>p, <2>2 DEF Using, Coroutine
  <2>5. OnRecord(actor[h])' /\ (faults' = 0 => Truthful(actor[h])')
    <3>1. CASE co = Idle
      BY <1>i, <2>3, <3>1
    <3>2. CASE co # Idle
      BY <1>0, <2>1, <2>3, <3>2 DEF OnRecord, Truthful, Ended
    <3> QED
      BY <3>1, <3>2
  <2> QED
    BY <1>0, <2>1, <2>2, <2>5, HonestMove
<1>2. CASE WatchWait(h)
  <2>1. /\ me.pc = "wait" /\ completion[me.on] # "pending"
        /\ UNCHANGED <<active, run, completion, tmux, command, session, faults>>
    BY <1>2 DEF WatchWait, host
  <2>2. me.on \in Handle
    BY <1>0, <2>1 DEF RealInv
  <2>3. faults = 0 => Ended
    BY <2>1, <2>2 DEF HonestInv
  <2>4. PICK x : x = completion[me.on]
    OBVIOUS
  <2>5. x \in ExitCode \cup {None}
    BY <2>1, <2>2, <2>4 DEF TypeOK
  <2>6. PICK co : co = Reporting("get", x) /\ Becomes(h, co)
    BY <1>2, <2>4 DEF WatchWait
  <2>7. /\ co.pc = "get" /\ co.copy = AbsentSession /\ co.look = "file" /\ actor'[h] = co
    BY <1>a, <1>p, <2>5, <2>6, IdleFields DEF Reporting, Call, Coroutine, Op
  <2>8. OnRecord(actor[h])' /\ (faults' = 0 => Truthful(actor[h])')
    BY <1>0, <2>1, <2>3, <2>7, IdleFields DEF OnRecord, Truthful, Ended
  <2> QED
    BY <1>0, <2>1, <2>6, <2>8, HonestMove
<1>3. CASE WatchPop(h)
  <2>1. /\ me.pc = "pop" /\ active' = None /\ Becomes(h, Idle)
        /\ UNCHANGED <<run, completion, tmux, command, session, faults>>
    BY <1>3 DEF WatchPop, host
  <2>2. faults = 0 => Ended
    BY <1>0, <2>1 DEF Truthful
  <2>3. \A b \in Actor : \/ actor'[b] = actor[b]
                         \/ OnRecord(actor[b])' /\ (faults' = 0 => Truthful(actor[b])')
    BY <1>0, <1>a, <1>i, <2>1 DEF Becomes, TypeOK
  <2>4. /\ \A g \in Handle : run'[g] = "late" => tmux = "gone"
        /\ faults' = 0 => \A g \in Handle : completion'[g] # "pending" => Ended
    BY <2>1 DEF HonestInv
  <2>5. tmux # "absent"
    BY <1>0, <2>1, TouchedFacts
  <2> QED
    BY <1>0, <2>1, <2>2, <2>3, <2>4, <2>5, HonestStep
<1>4. CASE RunStep(h)
  <2>1. PICK found \in LookNext(run[h]) :
          /\ run[h] \in Looking
          /\ run' = [run EXCEPT ![h] =
                CASE found \in Looking -> found
                  [] found = "alive" -> "file"
                  [] found = "raised" -> "died"
                  [] OTHER -> "off"]
          /\ IF found \in Finished \cup {"gone", "unknown"}
             THEN Resolve(h, CodeOf(found))
             ELSE UNCHANGED completion
          /\ FaultIff(found \in {"unknown", "raised"})
    BY <1>4 DEF RunStep
  <2>2. UNCHANGED <<active, actor, tmux, command, session>>
    BY <1>4 DEF RunStep, host
  <2>3. tmux # "absent"
    BY <2>1 DEF HonestInv, Untouched, Looking
  <2>4. /\ found = "late" => tmux = "gone"
        /\ found \in Finished \cup {"gone"} => Ended
    BY <2>1, <2>3, FoundShows DEF HonestInv
  <2>5. faults' = 0 => faults = 0 /\ found \notin {"unknown", "raised"}
    BY <1>0, <2>1 DEF FaultIff, Fault
  <2>6. \A g \in Handle : run'[g] = "late" => tmux = "gone"
    <3>1. run'[h] = "late" => found = "late"
      BY <2>1 DEF TypeOK
    <3>2. \A g \in Handle : g # h => run'[g] = run[g]
      BY <2>1 DEF TypeOK
    <3> QED
      BY <2>4, <3>1, <3>2 DEF HonestInv
  <2>7. ASSUME faults' = 0, NEW g \in Handle, completion'[g] # "pending" PROVE Ended
    <3>1. CASE found \in Finished \cup {"gone", "unknown"}
      BY <2>4, <2>5, <2>7, <3>1
    <3>2. CASE found \notin Finished \cup {"gone", "unknown"}
      BY <2>1, <2>5, <2>7, <3>2 DEF HonestInv
    <3> QED
      BY <3>1, <3>2
  <2>8. active' # None => session'.state # "ABSENT"
    BY <2>2 DEF HonestInv
  <2> QED
    BY <1>0, <2>2, <2>3, <2>5, <2>6, <2>7, <2>8, HonestStep
<1> QED
  BY <1>1, <1>2, <1>3, <1>4 DEF WatchStep

(* The command, the shell and the tmux server.                             *)
LEMMA HostStepHonest ==
    ASSUME TypeOK, RealInv, HonestInv,
           \/ \E code \in ExitCode : CommandExits(code)
           \/ ShellOpens \/ ShellWrites \/ ShellExits \/ TmuxDies
    PROVE  HonestInv'
<1>1. UNCHANGED <<session, active, run, completion, actor, faults>>
  BY DEF CommandExits, ShellOpens, ShellWrites, ShellExits, TmuxDies, memory
<1>2. /\ tmux = "gone" => tmux' = "gone"
      /\ tmux' = "absent" => tmux = "absent"
      /\ Ended => Ended'
  BY CodeAssumption
     DEF CommandExits, ShellOpens, ShellWrites, ShellExits, TmuxDies, KillSession, Ended
<1>3. tmux' = "gone" => Ended'
  BY CodeAssumption
     DEF CommandExits, ShellOpens, ShellWrites, ShellExits, TmuxDies, KillSession, Ended, HonestInv,
         RealInv, IsReal
<1>4. Untouched'
  BY <1>1, <1>2 DEF HonestInv, Untouched
<1>5. \A a \in Actor : OnRecord(actor[a])'
  BY <1>1, <1>2 DEF HonestInv, OnRecord
<1>6. faults' = 0 => \A a \in Actor : Truthful(actor[a])'
  BY <1>1, <1>2 DEF HonestInv, Truthful
<1>7. /\ \A h \in Handle : (run[h] = "late" => tmux = "gone")'
      /\ (active # None => session.state # "ABSENT")'
      /\ (faults = 0 => (session.state \in Ending => Ended))'
      /\ (faults = 0 => \A h \in Handle : completion[h] # "pending" => Ended)'
  BY <1>1, <1>2 DEF HonestInv
<1> QED
  BY <1>1, <1>3, <1>4, <1>5, <1>6, <1>7 DEF HonestInv

(* A runtime that has gone down claims nothing but its record.             *)
LEMMA ForgetHonest ==
    ASSUME TypeOK, HonestInv, Forget, UNCHANGED <<session, tmux, command, status, faults>>
    PROVE  HonestInv'
<1>1. /\ active' = None /\ \A a \in Actor : actor'[a] = Idle
      /\ \A h \in Handle : run'[h] = "unused" /\ completion'[h] = "pending"
  BY DEF Forget
<1>2. \A a \in Actor : OnRecord(actor[a])' /\ Truthful(actor[a])'
  BY <1>1, IdleFields DEF OnRecord, Truthful, Ending
<1>3. Untouched'
  BY <1>1 DEF HonestInv, Untouched
<1> QED
  BY <1>1, <1>2, <1>3 DEF HonestInv, Ended

(* Crashes, the shutdown and the start of the runtime.                     *)
LEMMA RuntimeHonest ==
    ASSUME TypeOK, RealInv, HonestInv, Crash \/ ShutdownBegin \/ Boot \/ RuntimeStep
    PROVE  HonestInv'
<1> DEFINE me == actor[Runtime]
<1>0. /\ Runtime \in Actor /\ me \in Coroutine /\ active \in Handle \cup {None}
      /\ me.copy \in SessionRecord /\ session \in SessionRecord
      /\ OnRecord(me) /\ (faults = 0 => Truthful(me))
      /\ (faults = 0 => (session.state \in Ending => Ended))
  BY DEF TypeOK, HonestInv, Coroutine, Actor
<1>a. \A co : Becomes(Runtime, co) => actor'[Runtime] = co
                /\ \A b \in Actor : b # Runtime => actor'[b] = actor[b]
  BY <1>0 DEF Becomes, TypeOK
<1>p. {"get", "dispose", "store", "detach", "status"} \subseteq Pc /\ {"shutdown", "recover"} \subseteq Op
  BY DEF Pc, Op
<1>h. /\ \A h \in Handle : run[h] = "late" => tmux = "gone"
      /\ faults = 0 => \A h \in Handle : completion[h] # "pending" => Ended
      /\ active # None => session.state # "ABSENT"
  BY DEF HonestInv
<1>s. ASSUME UNCHANGED <<session, active, completion, tmux, command, faults>>, tmux # "absent",
             \A h \in Handle : run'[h] = "late" => tmux = "gone",
             NEW co, Becomes(Runtime, co), OnRecord(actor[Runtime])',
             faults' = 0 => Truthful(actor[Runtime])'
      PROVE  HonestInv'
  <2>1. \A b \in Actor : \/ actor'[b] = actor[b]
                         \/ OnRecord(actor[b])' /\ (faults' = 0 => Truthful(actor[b])')
    BY <1>a, <1>s
  <2> QED
    BY <1>0, <1>h, <1>s, <2>1, HonestStep
<1>1. CASE Crash \/ ShutdownEnd
  BY <1>1, ForgetHonest DEF Crash, ShutdownEnd, host
<1>2. CASE ShutdownBegin
  <2>1. UNCHANGED <<session, active, run, completion, tmux, command, faults>>
    BY <1>2 DEF ShutdownBegin, host
  <2>2. PICK d : d = Call("shutdown", "dispose")
    OBVIOUS
  <2>3. d.pc = "dispose" /\ d.op = "shutdown" /\ d.copy = AbsentSession /\ d.look = "file"
    BY <1>p, <2>2, IdleFields DEF Call, Coroutine
  <2>4. CASE active = None
    <3>1. Becomes(Runtime, d)
      BY <1>2, <2>2, <2>4 DEF ShutdownBegin
    <3>2. OnRecord(actor[Runtime])' /\ Truthful(actor[Runtime])'
      BY <1>a, <2>3, <3>1, IdleFields DEF OnRecord, Truthful, Ending
    <3>3. CASE tmux # "absent"
      BY <1>h, <1>s, <2>1, <3>1, <3>2, <3>3
    <3>4. CASE tmux = "absent"
      <4>1. Untouched'
        BY <1>a, <2>1, <2>2, <3>1, <3>4 DEF Untouched, HonestInv
      <4>2. \A b \in Actor : OnRecord(actor[b])'
        BY <1>a, <2>1, <3>1, <3>2 DEF OnRecord, HonestInv
      <4>3. faults' = 0 => \A b \in Actor : Truthful(actor[b])'
        <5> SUFFICES ASSUME faults' = 0, NEW b \in Actor PROVE Truthful(actor[b])'
          OBVIOUS
        <5>1. CASE b = Runtime
          BY <3>2, <5>1
        <5>2. CASE b # Runtime
          <6>1. Truthful(actor[b])
            BY <2>1 DEF HonestInv
          <6> QED
            BY <1>a, <2>1, <3>1, <5>2, <6>1 DEF Truthful, Ended
        <5> QED
          BY <5>1, <5>2
      <4> QED
        BY <1>0, <1>h, <2>1, <4>1, <4>2, <4>3 DEF HonestInv, Ended
    <3> QED
      BY <3>3, <3>4
  <2>5. CASE active # None
    <3>1. tmux # "absent" /\ session.state # "ABSENT"
      BY <2>5 DEF HonestInv, Untouched
    <3>c. PICK e : e = Call("shutdown", "get")
      OBVIOUS
    <3>d. e \in Coroutine /\ e.copy = AbsentSession /\ e.look = "file" /\ e.op = "shutdown"
      BY <1>p, <3>c, IdleFields DEF Call, Coroutine
    <3>2. PICK co : co = Using(e, "get", active) /\ Becomes(Runtime, co)
      BY <1>2, <2>5, <3>c DEF ShutdownBegin
    <3>3. co.pc = "get" /\ co.op = "shutdown" /\ co.copy = AbsentSession /\ co.look = "file"
      BY <1>0, <1>p, <3>2, <3>d DEF Using, Coroutine
    <3>4. OnRecord(actor[Runtime])' /\ Truthful(actor[Runtime])'
      BY <1>a, <2>1, <3>1, <3>2, <3>3, IdleFields DEF OnRecord, Truthful, Ending
    <3> QED
      BY <1>h, <1>s, <2>1, <3>1, <3>2, <3>4
  <2> QED
    BY <2>4, <2>5
<1>3. CASE ShutdownRead
  <2>1. /\ me.op = "shutdown" /\ me.pc = "get"
        /\ UNCHANGED <<session, active, run, completion, tmux, command, faults>>
    BY <1>3 DEF ShutdownRead, host
  <2>2. tmux # "absent"
    BY <1>0, <2>1, TouchedFacts
  <2>3. PICK r : r = WithState(session, "DETACHED")
    OBVIOUS
  <2>4. r.state = "DETACHED" /\ r \in SessionRecord
    BY <1>0, <2>3 DEF WithState, Rec, SessionRecord, SessionState
  <2>5. PICK co : Becomes(Runtime, co) /\ co \in {Holding(me, "store", r), At(me, "detach")}
    BY <1>3, <2>3 DEF ShutdownRead
  <2>6. /\ co.op = me.op /\ co.look = me.look
        /\ \/ co.pc = "store" /\ co.copy = r
           \/ co.pc = "detach" /\ co.copy = me.copy
    BY <1>0, <1>p, <2>4, <2>5 DEF Holding, At, Coroutine
  <2>7. OnRecord(actor[Runtime])' /\ (faults' = 0 => Truthful(actor[Runtime])')
    BY <1>0, <1>a, <2>1, <2>4, <2>5, <2>6 DEF OnRecord, Truthful, Ended, Ending
  <2> QED
    BY <1>h, <1>s, <2>1, <2>2, <2>5, <2>7
<1>4. CASE ShutdownDetach
  <2>1. /\ me.pc = "detach" /\ Becomes(Runtime, At(me, "dispose"))
        /\ run' = [run EXCEPT ![me.on] = IF @ = "died" THEN @ ELSE "off"]
        /\ UNCHANGED <<session, active, completion, tmux, command, faults>>
    BY <1>4 DEF ShutdownDetach, host
  <2>2. tmux # "absent"
    BY <1>0, <2>1, TouchedFacts
  <2>3. \A h \in Handle : run'[h] = "late" => tmux = "gone"
    BY <1>h, <2>1 DEF TypeOK
  <2>4. PICK co : co = At(me, "dispose")
    OBVIOUS
  <2>5. co.pc = "dispose" /\ co.op = me.op /\ co.copy = me.copy /\ co.look = me.look
    BY <1>0, <1>p, <2>4 DEF At, Coroutine
  <2>6. OnRecord(actor[Runtime])' /\ (faults' = 0 => Truthful(actor[Runtime])')
    BY <1>0, <1>a, <2>1, <2>4, <2>5 DEF OnRecord, Truthful, Ended
  <2> QED
    BY <1>s, <2>1, <2>2, <2>3, <2>4, <2>6
<1>6. CASE Boot
  <2>1. UNCHANGED <<session, active, run, completion, tmux, command, faults>>
    BY <1>6 DEF Boot, host
  <2>2. CASE session.state \in SessionRecoverableStates
    <3>c. PICK e : e = Call("recover", "status")
      OBVIOUS
    <3>d. e \in Coroutine /\ e.look = "file" /\ e.op = "recover"
      BY <1>p, <3>c, IdleFields DEF Call, Coroutine
    <3>2. PICK co : co = Holding(e, "status", session) /\ Becomes(Runtime, co)
      BY <1>6, <2>2, <3>c DEF Boot
    <3>3. co.pc = "status" /\ co.op = "recover" /\ co.copy = session /\ co.look = "file"
      BY <1>0, <1>p, <3>2, <3>d DEF Holding, Coroutine
    <3>4. tmux # "absent"
      BY <2>2, IdleFields DEF HonestInv, Untouched, SessionRecoverableStates
    <3>5. OnRecord(actor[Runtime])' /\ (faults' = 0 => Truthful(actor[Runtime])')
      BY <1>0, <1>a, <2>1, <2>2, <3>2, <3>3
         DEF OnRecord, Truthful, Ended, Ending, SessionRecoverableStates
    <3> QED
      BY <1>h, <1>s, <2>1, <3>2, <3>4, <3>5
  <2>3. CASE session.state \notin SessionRecoverableStates
    <3>1. UNCHANGED actor
      BY <1>6, <2>3 DEF Boot
    <3> QED
      BY <2>1, <3>1 DEF HonestInv, Untouched, OnRecord, Truthful, Ended
  <2> QED
    BY <2>2, <2>3
<1>7. CASE BootDone
  BY <1>7 DEF BootDone, host, memory, HonestInv, Untouched, OnRecord, Truthful, Ended
<1> QED
  BY <1>1, <1>2, <1>3, <1>4, <1>6, <1>7 DEF RuntimeStep

(* A client starts a call, or creates the session: what nobody has touched *)
(* claims no end.                                                          *)
LEMMA BeginHonest ==
    ASSUME TypeOK, RealInv, HonestInv, NEW c \in Caller,
           CreateStart(c) \/ \E op \in Calls[c] \ {"create"} : Begin(c, op)
    PROVE  HonestInv'
<1>0. /\ c \in Actor /\ actor[c] \in Coroutine /\ {"get", "pipe", "dispose"} \subseteq Pc
      /\ {"create", "get", "write", "resize", "terminate", "shutdown"} \subseteq Op
  BY DEF TypeOK, Actor, Pc, Op
<1>a. \A co : Becomes(c, co) => actor'[c] = co
                /\ \A b \in Actor : b # c => actor'[b] = actor[b]
  BY <1>0 DEF Becomes, TypeOK
<1>1. CASE CreateStart(c)
  <2>1. /\ tmux = "absent" /\ tmux' = "alive" /\ Becomes(c, Call("create", "pipe"))
        /\ UNCHANGED <<session, active, run, completion, status, faults>>
    BY <1>1 DEF CreateStart
  <2>2. PICK co : co = Call("create", "pipe")
    OBVIOUS
  <2>3. co.pc = "pipe" /\ co.op = "create" /\ co.copy = AbsentSession /\ co.look = "file"
    BY <1>0, <2>2, IdleFields DEF Call, Coroutine
  <2>4. \A b \in Actor : b # c => /\ actor'[b].pc \in {"idle", "dispose"}
                                  /\ actor'[b].op \in {"none", "shutdown"}
                                  /\ actor'[b].copy = AbsentSession /\ actor'[b].look = "file"
    <3>1. PICK d : d = Call("shutdown", "dispose")
      OBVIOUS
    <3>2. d.pc = "dispose" /\ d.op = "shutdown" /\ d.copy = AbsentSession /\ d.look = "file"
      BY <1>0, <3>1, IdleFields DEF Call, Coroutine
    <3> QED
      BY <1>a, <2>1, <3>1, <3>2, IdleFields DEF HonestInv, Untouched
  <2>5. \A b \in Actor : OnRecord(actor[b])' /\ Truthful(actor[b])'
    BY <1>a, <2>1, <2>2, <2>3, <2>4, IdleFields DEF OnRecord, Truthful, Ending
  <2>6. /\ session'.state = "ABSENT" /\ active' = None
        /\ \A h \in Handle : run'[h] = "unused" /\ completion'[h] = "pending"
    BY <2>1, IdleFields DEF HonestInv, Untouched
  <2> QED
    BY <2>1, <2>5, <2>6 DEF HonestInv, Untouched, Ending
<1>2. ASSUME NEW op \in Calls[c] \ {"create"}, Begin(c, op)
      PROVE  HonestInv'
  <2>0. op \in {"get", "write", "resize", "terminate"}
    BY CallsAssumption
  <2>1. /\ session # AbsentSession /\ Becomes(c, Call(op, "get"))
        /\ UNCHANGED <<session, active, run, completion, tmux, command, faults>>
    BY <1>2 DEF Begin, host
  <2>2. PICK co : co = Call(op, "get")
    OBVIOUS
  <2>3. co.pc = "get" /\ co.op = op /\ co.copy = AbsentSession /\ co.look = "file"
    BY <1>0, <2>0, <2>2, IdleFields DEF Call, Coroutine
  <2>4. tmux # "absent"
    BY <2>1 DEF HonestInv, Untouched
  <2>5. session.state # "ABSENT"
    BY <2>1 DEF HonestInv
  <2>6. OnRecord(actor[c])' /\ Truthful(actor[c])'
    BY <1>a, <2>0, <2>1, <2>2, <2>3, <2>5, IdleFields DEF OnRecord, Truthful, Ending
  <2>7. \A b \in Actor : \/ actor'[b] = actor[b]
                         \/ OnRecord(actor[b])' /\ (faults' = 0 => Truthful(actor[b])')
    BY <1>a, <2>1, <2>6
  <2>8. /\ \A h \in Handle : run[h] = "late" => tmux = "gone"
        /\ faults = 0 => (session.state \in Ending => Ended)
        /\ faults = 0 => \A h \in Handle : completion[h] # "pending" => Ended
        /\ active # None => session.state # "ABSENT"
    BY DEF HonestInv
  <2> QED
    BY <2>1, <2>4, <2>7, <2>8, HonestStep
<1> QED
  BY <1>1, <1>2

(* Crashes, the shutdown and the start of the runtime.                     *)
LEMMA RuntimeAttends ==
    ASSUME TypeOK, AttendInv, Crash \/ ShutdownBegin \/ Boot \/ RuntimeStep
    PROVE  AttendInv'
<1> DEFINE me == actor[Runtime]
<1>0. /\ Runtime \in Actor /\ me \in Coroutine /\ active \in Handle \cup {None}
      /\ me.on \in Handle \cup {None} /\ session \in SessionRecord
      /\ Handle \subseteq Actor /\ Runtime \notin Handle
  BY ActorAssumption DEF TypeOK, Coroutine, Actor
<1>a. \A co : Becomes(Runtime, co) => actor'[Runtime] = co
                /\ \A b \in Actor : b # Runtime => actor'[b] = actor[b]
  BY <1>0 DEF Becomes, TypeOK
<1>p. {"get", "dispose", "store", "detach", "status"} \subseteq Pc /\ {"shutdown", "recover"} \subseteq Op
  BY DEF Pc, Op
(* The runtime's coroutine moves: it stays on duty, and handles may end    *)
(* in the shutdown.                                                        *)
<1>s. ASSUME UNCHANGED <<active, completion>>, NEW co, Becomes(Runtime, co), OnDuty(co),
             co.op = "shutdown" <=> runtime' = "stopping",
             co.pc \notin {"activate", "register"},
             \A h \in Handle : run[h] # "unused" => run'[h] # "unused",
             \A h \in Handle : \/ run'[h] = run[h] /\ runtime # "stopping"
                               \/ runtime' = "stopping"
      PROVE  AttendInv'
  <2>1. \A h \in Handle : OnWatch(actor[h])'
    BY <1>0, <1>a, <1>s DEF AttendInv, OnWatch
  <2>2. OnDuty(actor[Runtime])' /\ (actor'[Runtime].op = "shutdown" <=> runtime' = "stopping")
    BY <1>a, <1>s DEF OnDuty
  <2>3. \A b \in Actor : Built(actor[b])'
    BY <1>a, <1>s DEF AttendInv, Built
  <2>4. active' # None => run'[active'] # "unused" /\ \E h \in Handle : Watching(actor[h])'
    BY <1>0, <1>a, <1>s DEF AttendInv, Watching
  <2>5. \A h \in Handle : completion'[h] = "pending" /\ runtime' # "stopping" =>
           run'[h] \in Looking \cup {"unused", "died"}
    BY <1>s DEF AttendInv
  <2> QED
    BY <2>1, <2>2, <2>3, <2>4, <2>5 DEF AttendInv
<1>1. CASE Crash \/ ShutdownEnd
  <2>1. /\ active' = None /\ runtime' = "down"
        /\ \A b \in Actor : actor'[b] = Idle
        /\ \A h \in Handle : run'[h] = "unused"
    BY <1>1 DEF Crash, ShutdownEnd, Forget
  <2>2. \A h \in Handle : OnWatch(actor[h])'
    BY <1>0, <2>1, IdleFields DEF OnWatch
  <2>3. OnDuty(actor[Runtime])' /\ actor'[Runtime].op # "shutdown"
    BY <1>0, <2>1, IdleFields DEF OnDuty
  <2>4. \A b \in Actor : Built(actor[b])'
    BY <2>1, IdleFields DEF Built
  <2> QED
    BY <2>1, <2>2, <2>3, <2>4 DEF AttendInv
<1>2. CASE ShutdownBegin
  <2>1. runtime' = "stopping" /\ UNCHANGED <<active, run, completion>>
    BY <1>2 DEF ShutdownBegin, host
  <2>2. PICK d, e : d = Call("shutdown", "dispose") /\ e = Call("shutdown", "get")
    OBVIOUS
  <2>3. d.pc = "dispose" /\ d.op = "shutdown" /\ e \in Coroutine /\ e.op = "shutdown"
    BY <1>p, <2>2, IdleFields DEF Call, Coroutine
  <2>4. PICK co : Becomes(Runtime, co) /\ co \in {d, Using(e, "get", active)}
    BY <1>2, <2>2 DEF ShutdownBegin
  <2>5. co.op = "shutdown" /\ co.pc \in {"dispose", "get"}
    BY <1>0, <1>p, <2>3, <2>4 DEF Using, Coroutine
  <2>6. OnDuty(co)
    BY <2>5 DEF OnDuty
  <2> QED
    BY <1>s, <2>1, <2>4, <2>5, <2>6
<1>3. CASE ShutdownRead
  <2>1. me.op = "shutdown" /\ me.pc = "get" /\ UNCHANGED <<runtime, active, run, completion>>
    BY <1>3 DEF ShutdownRead, host
  <2>2. PICK r : r = WithState(session, "DETACHED")
    OBVIOUS
  <2>3. PICK co : Becomes(Runtime, co) /\ co \in {Holding(me, "store", r), At(me, "detach")}
    BY <1>3, <2>2 DEF ShutdownRead
  <2>4. co.op = "shutdown" /\ co.pc \in {"store", "detach"}
    BY <1>0, <1>p, <2>1, <2>3 DEF Holding, At, Coroutine
  <2>5. OnDuty(co) /\ runtime = "stopping"
    BY <2>1, <2>4 DEF OnDuty, AttendInv
  <2> QED
    BY <1>s, <2>1, <2>3, <2>4, <2>5
<1>4. CASE ShutdownDetach
  <2>1. /\ me.pc = "detach" /\ Becomes(Runtime, At(me, "dispose"))
        /\ run' = [run EXCEPT ![me.on] = IF @ = "died" THEN @ ELSE "off"]
        /\ UNCHANGED <<runtime, active, completion>>
    BY <1>4 DEF ShutdownDetach, host
  <2>2. me.op = "shutdown" /\ runtime = "stopping"
    BY <2>1 DEF AttendInv, OnDuty
  <2>3. \A h \in Handle : run[h] # "unused" => run'[h] # "unused"
    BY <2>1 DEF TypeOK
  <2>4. PICK co : co = At(me, "dispose")
    OBVIOUS
  <2>5. co.pc = "dispose" /\ co.op = "shutdown"
    BY <1>0, <1>p, <2>2, <2>4 DEF At, Coroutine
  <2>6. OnDuty(co)
    BY <2>5 DEF OnDuty
  <2> QED
    BY <1>s, <2>1, <2>2, <2>3, <2>4, <2>5, <2>6
<1>6. CASE Boot
  <2>1. /\ runtime = "down" /\ runtime' = "booting"
        /\ UNCHANGED <<active, run, completion>>
    BY <1>6 DEF Boot, host
  <2>2. CASE session.state \in SessionRecoverableStates
    <3>c. PICK e : e = Call("recover", "status")
      OBVIOUS
    <3>d. e \in Coroutine /\ e.op = "recover"
      BY <1>p, <3>c, IdleFields DEF Call, Coroutine
    <3>2. PICK co : co = Holding(e, "status", session) /\ Becomes(Runtime, co)
      BY <1>6, <2>2, <3>c DEF Boot
    <3>3. co.pc = "status" /\ co.op = "recover"
      BY <1>0, <1>p, <3>2, <3>d DEF Holding, Coroutine
    <3>4. OnDuty(co)
      BY <3>3 DEF OnDuty
    <3> QED
      BY <1>s, <2>1, <3>2, <3>3, <3>4
  <2>3. CASE session.state \notin SessionRecoverableStates
    <3>1. UNCHANGED actor
      BY <1>6, <2>3 DEF Boot
    <3> QED
      BY <2>1, <3>1 DEF AttendInv, OnWatch, OnDuty, Built, Watching
  <2> QED
    BY <2>2, <2>3
<1>7. CASE BootDone
  <2>1. runtime = "booting" /\ runtime' = "up" /\ UNCHANGED <<active, run, completion, actor>>
    BY <1>7 DEF BootDone, memory
  <2> QED
    BY <2>1 DEF AttendInv, OnWatch, OnDuty, Built, Watching
<1> QED
  BY <1>1, <1>2, <1>3, <1>4, <1>6, <1>7 DEF RuntimeStep

(* A client starts a call, or creates the session.                         *)
LEMMA BeginAttends ==
    ASSUME TypeOK, AttendInv, NEW c \in Caller,
           CreateStart(c) \/ \E op \in Calls[c] \ {"create"} : Begin(c, op)
    PROVE  AttendInv'
<1>0. /\ c \in Actor /\ c \notin Handle /\ c # Runtime /\ {"get", "pipe"} \subseteq Pc
      /\ {"create", "get", "write", "resize", "terminate"} \subseteq Op
  BY ActorAssumption DEF Actor, Pc, Op
<1>1. PICK op \in Op, pc \in {"get", "pipe"} : Becomes(c, Call(op, pc))
  BY <1>0, CallsAssumption DEF CreateStart, Begin
<1>2. UNCHANGED <<runtime, active, run, completion>>
  BY DEF CreateStart, Begin
<1>3. PICK co : co = Call(op, pc)
  OBVIOUS
<1>4. co.pc = pc
  BY <1>0, <1>3, IdleFields DEF Call, Coroutine
<1> QED
  BY <1>0, <1>1, <1>2, <1>3, <1>4, AttendMove

(* The invariants of the session service hold in every reachable state.    *)
THEOREM SessionInvariant == Spec => [](AttendInv /\ HonestInv)
<1>1. Init => AttendInv /\ HonestInv
  <2> SUFFICES ASSUME Init PROVE AttendInv /\ HonestInv
    OBVIOUS
  <2>1. /\ \A a \in Actor : actor[a] = Idle
        /\ \A h \in Handle : run[h] = "unused" /\ completion[h] = "pending"
        /\ Runtime \in Actor /\ Handle \subseteq Actor
        /\ active = None /\ runtime = "up" /\ session = AbsentSession
        /\ tmux = "absent" /\ command = "absent"
    BY DEF Init, Actor
  <2>2. AttendInv
    BY <2>1, IdleFields DEF AttendInv, OnWatch, OnDuty, Built
  <2>3. HonestInv
    BY <2>1, IdleFields DEF HonestInv, Untouched, OnRecord, Truthful, Ending, Ended
  <2> QED
    BY <2>2, <2>3
<1>2. TypeOK /\ RealInv /\ AttendInv /\ HonestInv /\ [Next]_vars => AttendInv' /\ HonestInv'
  <2> SUFFICES ASSUME TypeOK, RealInv, AttendInv, HonestInv, [Next]_vars
               PROVE  AttendInv' /\ HonestInv'
    OBVIOUS
  <2>1. ASSUME NEW c \in Caller,
               CreateStart(c) \/ \E op \in Calls[c] \ {"create"} : Begin(c, op)
        PROVE  AttendInv' /\ HonestInv'
    BY <2>1, BeginAttends, BeginHonest
  <2>2. ASSUME NEW a \in Actor, ActorStep(a)
        PROVE  AttendInv' /\ HonestInv'
    BY <2>2, GetStepAttends, CallStepAttends, GetStepHonest, CallStepHonest DEF ActorStep
  <2>3. ASSUME NEW h \in Handle, WatchStep(h) \/ RunStep(h)
        PROVE  AttendInv' /\ HonestInv'
    BY <2>3, HandleStepAttends, HandleStepHonest
  <2>4. CASE \/ \E code \in ExitCode : CommandExits(code)
             \/ ShellOpens \/ ShellWrites \/ ShellExits \/ TmuxDies
    <3>1. UNCHANGED <<runtime, active, run, completion, actor>>
      BY <2>4 DEF CommandExits, ShellOpens, ShellWrites, ShellExits, TmuxDies, memory
    <3>2. AttendInv'
      BY <3>1 DEF AttendInv, OnWatch, OnDuty, Built, Watching
    <3> QED
      BY <2>4, <3>2, HostStepHonest
  <2>5. CASE Crash \/ ShutdownBegin \/ Boot \/ RuntimeStep
    BY <2>5, RuntimeAttends, RuntimeHonest
  <2>6. CASE UNCHANGED vars
    <3>1. UNCHANGED <<runtime, session, active, run, completion, actor, tmux, command, faults>>
      BY <2>6 DEF vars, memory, host
    <3>2. AttendInv'
      BY <3>1 DEF AttendInv, OnWatch, OnDuty, Built, Watching
    <3>3. HonestInv'
      BY <3>1 DEF HonestInv, Untouched, OnRecord, Truthful, Ended
    <3> QED
      BY <3>2, <3>3
  <2> QED
    BY <2>1, <2>2, <2>3, <2>4, <2>5, <2>6 DEF Next
<1> QED
  BY <1>1, <1>2, SessionInductive, PTL DEF Spec

(* The record of a session is honest: its exit code is the command's, and, *)
(* as long as no connection has failed, a session called TERMINATED or     *)
(* DISCONNECTED runs no more - whatever reattachments, terminates,         *)
(* watchers, crashes and restarts overlap.                                 *)
THEOREM RecordsAreHonest == Spec => []RecordIsHonest
<1>1. HonestInv => EndIsHonest
  BY DEF HonestInv, EndIsHonest, Ending, Ended
<1> QED
  BY <1>1, ExitCodesAreReal, SessionInvariant, PTL DEF RecordIsHonest

(* A registered handle has somebody who will drop it: with any number of   *)
(* clients and handles, under failures of the connection, and through the  *)
(* shutdown, unless an exception has ended the handle's own _run task.     *)
THEOREM RegisteredStaysAttended == Spec => []RegisteredIsAttended
<1>1. TypeOK /\ AttendInv => RegisteredIsAttended
  <2> SUFFICES ASSUME TypeOK, AttendInv, active # None, run[active] # "died" PROVE Attended
    BY DEF RegisteredIsAttended
  <2>0. active \in Handle /\ Runtime \in Actor /\ Handle \subseteq Actor
    BY DEF TypeOK, Actor
  <2>1. PICK h \in Handle : Watching(actor[h])
    BY DEF AttendInv
  <2>2. CASE actor[h].pc # "wait"
    BY <2>0, <2>1, <2>2 DEF Watching, Attended
  <2>3. CASE actor[h].pc = "wait"
    <3>1. actor[h].on = active
      BY <2>1, <2>3 DEF Watching
    <3>2. CASE runtime = "stopping"
      <4>1. actor[Runtime].op = "shutdown" /\ OnDuty(actor[Runtime])
        BY <3>2 DEF AttendInv
      <4>2. actor[Runtime].pc \notin {"idle", "wait"}
        BY <4>1 DEF OnDuty
      <4> QED
        BY <2>0, <4>2 DEF Attended
    <3>3. CASE runtime # "stopping"
      <4>1. completion[active] # "pending" \/ run[active] \in Looking
        BY <2>0, <3>3 DEF AttendInv
      <4> QED
        BY <2>3, <3>1, <4>1 DEF Attended
    <3> QED
      BY <3>2, <3>3
  <2> QED
    BY <2>2, <2>3
<1> QED
  BY <1>1, SessionTypeCorrect, SessionInvariant, PTL
=============================================================================
