--------------------------- MODULE EventStreamProofs ---------------------------
(***************************************************************************)
(* Theorems about EventStream, for every set of emitters and clients and   *)
(* every bound.                                                            *)
(***************************************************************************)
EXTENDS EventStream, TLAPS

(* Sending an item keeps the types.                                        *)
LEMMA DeliverType ==
    ASSUME TypeOK, NEW c \in Client, NEW n \in Nat, NEW rows \in SUBSET Nat,
           NEW waiting \in Seq(Nat), Deliver(c, n, rows, waiting),
           UNCHANGED <<stores, emitter, breaks>>
    PROVE  TypeOK'
<1> USE DEF TypeOK
<1>1. received' \in [Client -> Seq(Nat)] /\ last' \in [Client -> Nat]
  BY DEF Deliver
<1>2. CASE LimitReached(c, sent[c] + 1)
  <2>1. Ends(c)
    BY <1>2 DEF Deliver
  <2>2. /\ pc' \in [Client -> {"closed", "query", "send", "live"}]
        /\ todo' \in [Client -> SUBSET Nat]
        /\ queue' \in [Client -> Seq(Nat)]
    BY <2>1 DEF Ends
  <2>3. sent' \in [Client -> Nat] /\ limit' \in [Client -> Nat]
    BY <2>1 DEF Ends
  <2> QED
    BY <1>1, <2>2, <2>3 DEF stores
<1>3. CASE ~LimitReached(c, sent[c] + 1)
  <2>1. sent' \in [Client -> Nat]
    <3>1. sent' = [sent EXCEPT ![c] = IF limit[c] = 0 THEN sent[c] ELSE sent[c] + 1]
      BY <1>3 DEF Deliver
    <3>2. (IF limit[c] = 0 THEN sent[c] ELSE sent[c] + 1) \in Nat
      OBVIOUS
    <3> QED
      BY <3>1, <3>2
  <2>2. todo' \in [Client -> SUBSET Nat]
    BY <1>3 DEF Deliver
  <2>3. queue' \in [Client -> Seq(Nat)]
    BY <1>3 DEF Deliver
  <2> QED
    BY <1>1, <1>3, <2>1, <2>2, <2>3 DEF Deliver, stores
<1> QED
  BY <1>2, <1>3

(* Every variable of the streams keeps its type.                           *)
THEOREM StreamTypeCorrect == Spec => []TypeOK
<1> USE StreamBoundAssumption, KindAssumption
<1>1. Init => TypeOK
  BY DEF Init, TypeOK, Idle, Holding
<1>2. TypeOK /\ [Next]_vars => TypeOK'
  <2> SUFFICES ASSUME TypeOK, [Next]_vars PROVE TypeOK'
    OBVIOUS
  <2> USE DEF TypeOK, Holding, Idle, stores, streams
  <2>1. ASSUME NEW e \in Emitter, FrameThenEvent(e) PROVE TypeOK'
    <3>1. [Idle EXCEPT !.pc = "append"] \in Holding
      OBVIOUS
    <3>2. emitter' \in [Emitter -> Holding]
      BY <2>1, <3>1 DEF FrameThenEvent
    <3>3. frames' \in Seq({"output", "input"})
      BY <2>1 DEF FrameThenEvent
    <3> QED
      BY <2>1, <3>2, <3>3 DEF FrameThenEvent
  <2>2. ASSUME NEW e \in Emitter, StoreEvent(e) PROVE TypeOK'
    BY <2>2 DEF StoreEvent
  <2>3. ASSUME NEW e \in Emitter, Publish(e) PROVE TypeOK'
    BY <2>3 DEF Publish
  <2>4. ASSUME NEW e \in Emitter, NEW kind \in Kind, Change(e, kind) PROVE TypeOK'
    BY <2>4 DEF Change
  <2>5. CASE InputFrame
    BY <2>5 DEF InputFrame
  <2>6. ASSUME NEW c \in Client, NEW max \in Limits, Subscribe(c, max) PROVE TypeOK'
    BY <2>6 DEF Subscribe
  <2>7. ASSUME NEW c \in Client, Query(c) PROVE TypeOK'
    <3>1. Backlog(c) \in SUBSET Nat /\ NextPage(c) \in SUBSET Nat
      BY DEF Backlog, NextPage
    <3>2. todo' \in [Client -> SUBSET Nat]
      BY <2>7, <3>1 DEF Query
    <3>3. pc' \in [Client -> {"closed", "query", "send", "live"}]
      BY <2>7 DEF Query
    <3> QED
      BY <2>7, <3>2, <3>3 DEF Query
  <2>8. ASSUME NEW c \in Client, SendRow(c) PROVE TypeOK'
    <3>1. PICK n \in todo[c] : Deliver(c, n, todo[c] \ {n}, queue[c])
      BY <2>8 DEF SendRow
    <3> QED
      BY <2>8, <3>1, DeliverType DEF SendRow
  <2>9. ASSUME NEW c \in Client, RowsSent(c) PROVE TypeOK'
    BY <2>9 DEF RowsSent
  <2>10. ASSUME NEW c \in Client, TakeEvent(c) PROVE TypeOK'
    <3>1. Head(queue[c]) \in Nat /\ Tail(queue[c]) \in Seq(Nat)
      BY <2>10 DEF TakeEvent
    <3>2. CASE Fresh(c, Head(queue[c])) /\ Wanted(c, Head(queue[c]))
      BY <2>10, <3>1, <3>2, DeliverType DEF TakeEvent
    <3>3. CASE ~(Fresh(c, Head(queue[c])) /\ Wanted(c, Head(queue[c])))
      BY <2>10, <3>1, <3>3 DEF TakeEvent, Dequeue
    <3> QED
      BY <3>2, <3>3
  <2>11. ASSUME NEW c \in Client, TakeWakeup(c) PROVE TypeOK'
    <3>1. Tail(queue[c]) \in Seq(Nat)
      BY <2>11 DEF TakeWakeup
    <3> QED
      BY <2>11, <3>1 DEF TakeWakeup, Dequeue
  <2>12. ASSUME NEW c \in Client, TimesOut(c) PROVE TypeOK'
    BY <2>12 DEF TimesOut, Ends
  <2>13. ASSUME NEW c \in Client, ConnectionBreaks(c) PROVE TypeOK'
    BY <2>13 DEF ConnectionBreaks, Ends
  <2>14. CASE Crash
    BY <2>14 DEF Crash
  <2>15. CASE UNCHANGED vars
    BY <2>15 DEF vars
  <2> QED
    BY <2>1, <2>2, <2>3, <2>4, <2>5, <2>6, <2>7, <2>8, <2>9, <2>10, <2>11, <2>12,
       <2>13, <2>14, <2>15 DEF Next, EmitStep, StreamStep
<1> QED
  BY <1>1, <1>2, PTL DEF Spec

-----------------------------------------------------------------------------
(* The steps of one stream, and what they leave alone.                     *)

ClientStep(c) ==
    \/ \E max \in Limits : Subscribe(c, max)
    \/ StreamStep(c) \/ TimesOut(c) \/ ConnectionBreaks(c)

Same(c) ==
    /\ pc'[c] = pc[c] /\ last'[c] = last[c] /\ todo'[c] = todo[c]
    /\ queue'[c] = queue[c] /\ received'[c] = received[c]

LEMMA DeliverOthers ==
    ASSUME TypeOK, NEW c \in Client, NEW d \in Client, c # d,
           NEW n, NEW rows, NEW waiting, Deliver(d, n, rows, waiting)
    PROVE  Same(c)
<1> USE DEF TypeOK, Same
<1>1. received'[c] = received[c] /\ last'[c] = last[c]
  BY DEF Deliver
<1>2. CASE LimitReached(d, sent[d] + 1)
  <2>1. Ends(d)
    BY <1>2 DEF Deliver
  <2> QED
    BY <1>1, <2>1 DEF Ends
<1>3. CASE ~LimitReached(d, sent[d] + 1)
  BY <1>1, <1>3 DEF Deliver
<1> QED
  BY <1>2, <1>3

(* A stream leaves the stores, the emitters and the other streams alone.   *)
LEMMA ClientStepOthers ==
    ASSUME TypeOK, NEW d \in Client, ClientStep(d)
    PROVE  /\ UNCHANGED <<stores, emitter>>
           /\ \A c \in Client : c # d => Same(c)
<1>1. ASSUME NEW max \in Limits, Subscribe(d, max)
      PROVE  UNCHANGED <<stores, emitter>> /\ \A c \in Client : c # d => Same(c)
  BY <1>1 DEF Subscribe, Same, TypeOK
<1>2. CASE Query(d)
  <2>1. pc' \in [Client -> {"closed", "query", "send", "live"}]
        /\ \A c \in Client : c # d => pc'[c] = pc[c]
    BY <1>2 DEF Query, TypeOK
  <2>2. \A c \in Client : c # d => todo'[c] = todo[c]
    BY <1>2 DEF Query, TypeOK
  <2> QED
    BY <1>2, <2>1, <2>2 DEF Query, Same
<1>3. CASE SendRow(d)
  <2>1. PICK n \in todo[d] : Deliver(d, n, todo[d] \ {n}, queue[d])
    BY <1>3 DEF SendRow
  <2> QED
    BY <1>3, <2>1, DeliverOthers DEF SendRow
<1>4. CASE RowsSent(d)
  BY <1>4 DEF RowsSent, Same, TypeOK
<1>5. CASE TakeEvent(d)
  <2>1. CASE Fresh(d, Head(queue[d])) /\ Wanted(d, Head(queue[d]))
    BY <1>5, <2>1, DeliverOthers DEF TakeEvent
  <2>2. CASE ~(Fresh(d, Head(queue[d])) /\ Wanted(d, Head(queue[d])))
    BY <1>5, <2>2 DEF TakeEvent, Dequeue, Same, TypeOK
  <2> QED
    BY <2>1, <2>2
<1>6. CASE TakeWakeup(d)
  BY <1>6 DEF TakeWakeup, Dequeue, Same, TypeOK
<1>7. CASE TimesOut(d)
  BY <1>7 DEF TimesOut, Ends, Same, TypeOK
<1>8. CASE ConnectionBreaks(d)
  BY <1>8 DEF ConnectionBreaks, Ends, Same, TypeOK
<1> QED
  BY <1>1, <1>2, <1>3, <1>4, <1>5, <1>6, <1>7, <1>8 DEF ClientStep, StreamStep

-----------------------------------------------------------------------------
(* Frames.                                                                 *)

(* The next frame sent is the one after the last.                          *)
LEMMA FrameClientStep ==
    ASSUME TypeOK, NEW c \in FrameClient, FrameInv(c), ClientStep(c)
    PROVE  FrameInv(c)'
<1> USE DEF Client
<1>0. c \notin EventClient /\ c \in Client /\ frames' = frames
  BY ClientAssumption, ClientStepOthers DEF stores
<1>1. ASSUME NEW max \in Limits, Subscribe(c, max) PROVE FrameInv(c)'
  BY <1>1, <1>0 DEF Subscribe, FrameInv
<1>2. CASE Query(c)
  <2>1. last'[c] = last[c] /\ received'[c] = received[c] /\ todo'[c] = NextPage(c)
    BY <1>0, <1>2 DEF Query, TypeOK
  <2> QED
    BY <1>0, <2>1, StreamBoundAssumption DEF FrameInv, NextPage, TypeOK
<1>3. CASE SendRow(c)
  <2>1. PICK n \in todo[c] : (\A m \in todo[c] : n <= m)
                           /\ Deliver(c, n, todo[c] \ {n}, queue[c])
    BY <1>3 DEF SendRow
  <2>2. n \in Nat /\ last[c] \in Nat /\ n = last[c] + 1
    <3>1. n \in 1..Len(frames) /\ Len(frames) \in Nat /\ last[c] \in Nat /\ n > last[c]
      BY <1>0, <2>1 DEF FrameInv, TypeOK
    <3>2. last[c] + 1 < n => last[c] + 1 \in todo[c]
      BY <2>1, <3>1 DEF FrameInv
    <3> QED
      BY <2>1, <3>1, <3>2
  <2>3. last'[c] = n /\ received'[c] = Append(received[c], n)
    BY <1>0, <2>1, <2>2 DEF Deliver, TypeOK
  <2>4. todo'[c] = todo[c] \ {n} \/ todo'[c] = {}
    <3>1. CASE LimitReached(c, sent[c] + 1)
      BY <1>0, <2>1, <3>1 DEF Deliver, Ends, TypeOK
    <3>2. CASE ~LimitReached(c, sent[c] + 1)
      BY <1>0, <2>1, <3>2 DEF Deliver, TypeOK
    <3> QED
      BY <3>1, <3>2
  <2>5. received[c] \in Seq(Nat) /\ Len(received[c]) = last[c]
        /\ \A i \in 1..Len(received[c]) : received[c][i] = i
    BY <1>0 DEF FrameInv, TypeOK
  <2>6. Len(received'[c]) = n /\ \A i \in 1..Len(received'[c]) : received'[c][i] = i
    BY <2>2, <2>3, <2>5
  <2>7. ASSUME NEW m \in todo'[c]
        PROVE  m \in 1..Len(frames) /\ m > n
               /\ \A k \in 1..Len(frames) : n < k /\ k < m => k \in todo'[c]
    <3>1. m \in todo[c] /\ m # n /\ todo'[c] = todo[c] \ {n}
      BY <2>4, <2>7
    <3>2. m \in 1..Len(frames) /\ n <= m
          /\ \A k \in 1..Len(frames) : last[c] < k /\ k < m => k \in todo[c]
      BY <2>1, <3>1 DEF FrameInv
    <3> QED
      BY <2>2, <3>1, <3>2
  <2> QED
    BY <1>0, <2>3, <2>6, <2>7 DEF FrameInv
<1>4. CASE RowsSent(c)
  BY <1>4, <1>0 DEF RowsSent, FrameInv
<1>5. ~TakeEvent(c)
  BY <1>0 DEF TakeEvent
<1>6. CASE TakeWakeup(c)
  BY <1>6, <1>0 DEF TakeWakeup, FrameInv
<1>7. ASSUME Ends(c), UNCHANGED <<last, received>> PROVE FrameInv(c)'
  <2>1. todo'[c] = {}
    BY <1>0, <1>7 DEF Ends, TypeOK
  <2> QED
    BY <1>0, <1>7, <2>1 DEF FrameInv
<1> QED
  BY <1>1, <1>2, <1>3, <1>4, <1>5, <1>6, <1>7
  DEF ClientStep, StreamStep, TimesOut, ConnectionBreaks

LEMMA FrameStep ==
    ASSUME TypeOK, NEW c \in FrameClient, FrameInv(c), [Next]_vars
    PROVE  FrameInv(c)'
<1> USE DEF Client
<1>1. ASSUME UNCHANGED <<frames, last, received, todo>> PROVE FrameInv(c)'
  BY <1>1 DEF FrameInv
<1>2. ASSUME NEW x \in {"output", "input"}, frames' = Append(frames, x),
             UNCHANGED <<last, received, todo>>
      PROVE  FrameInv(c)'
  <2>1. Len(frames') = Len(frames) + 1 /\ Len(frames) \in Nat
    BY <1>2 DEF TypeOK
  <2>2. c \in Client /\ todo[c] \in SUBSET Nat /\ last[c] \in Nat
    BY DEF TypeOK
  <2> QED
    BY <1>2, <2>1, <2>2 DEF FrameInv
<1>3. ASSUME NEW d \in Client, ClientStep(d) PROVE FrameInv(c)'
  <2>1. CASE c = d
    BY <1>3, <2>1, FrameClientStep
  <2>2. CASE c # d
    <3>1. Same(c) /\ frames' = frames
      BY <1>3, <2>2, ClientStepOthers DEF stores
    <3> QED
      BY <3>1 DEF Same, FrameInv
  <2> QED
    BY <2>1, <2>2
<1>4. CASE Crash
  BY <1>4 DEF Crash, FrameInv, stores
<1>5. ASSUME NEW e \in Emitter, FrameThenEvent(e) PROVE FrameInv(c)'
  BY <1>2, <1>5 DEF FrameThenEvent, streams
<1>6. CASE InputFrame
  BY <1>2, <1>6 DEF InputFrame, streams
<1>7. ASSUME NEW e \in Emitter, EmitStep(e) PROVE FrameInv(c)'
  BY <1>1, <1>7 DEF EmitStep, StoreEvent, Publish, streams
<1>8. ASSUME NEW e \in Emitter, NEW kind \in Kind, Change(e, kind) PROVE FrameInv(c)'
  BY <1>1, <1>8 DEF Change, stores, streams
<1>9. CASE UNCHANGED vars
  BY <1>1, <1>9 DEF vars, stores, streams
<1> QED
  BY <1>3, <1>4, <1>5, <1>6, <1>7, <1>8, <1>9 DEF Next, ClientStep

-----------------------------------------------------------------------------
(* The bus.                                                                *)

LEMMA AppendHas ==
    ASSUME NEW s \in Seq(Nat), NEW x \in Nat, NEW n
    PROVE  Has(Append(s, x), n) <=> Has(s, n) \/ n = x
<1>1. Has(s, n) => Has(Append(s, x), n)
  <2> SUFFICES ASSUME NEW i \in 1..Len(s), s[i] = n PROVE Has(Append(s, x), n)
    BY DEF Has
  <2>1. i \in 1..Len(Append(s, x)) /\ Append(s, x)[i] = n
    OBVIOUS
  <2> QED
    BY <2>1 DEF Has
<1>2. Has(Append(s, x), x)
  <2>1. Len(s) + 1 \in 1..Len(Append(s, x)) /\ Append(s, x)[Len(s) + 1] = x
    OBVIOUS
  <2> QED
    BY <2>1 DEF Has
<1>3. Has(Append(s, x), n) /\ n # x => Has(s, n)
  <2> SUFFICES ASSUME NEW i \in 1..Len(Append(s, x)), Append(s, x)[i] = n, n # x
               PROVE  Has(s, n)
    BY DEF Has
  <2>1. i \in 1..Len(s) /\ s[i] = n
    OBVIOUS
  <2> QED
    BY <2>1 DEF Has
<1> QED
  BY <1>1, <1>2, <1>3

LEMMA AppendAt ==
    ASSUME NEW s \in Seq(Nat), NEW x \in Nat, NEW i \in 1..Len(Append(s, x))
    PROVE  \/ i \in 1..Len(s) /\ Append(s, x)[i] = s[i]
           \/ i = Len(s) + 1 /\ Append(s, x)[i] = x
OBVIOUS

LEMMA TailHas ==
    ASSUME NEW s \in Seq(Nat), s # <<>>, NEW n, Has(s, n), n # Head(s)
    PROVE  Has(Tail(s), n)
<1>1. PICK i \in 1..Len(s) : s[i] = n
  BY DEF Has
<1>2. i # 1 /\ Len(s) \in Nat
  BY <1>1
<1>3. i - 1 \in 1..Len(Tail(s)) /\ Tail(s)[i - 1] = n
  BY <1>1, <1>2
<1> QED
  BY <1>3 DEF Has

(* A number that is published before n makes n an overtaken one.           *)
LEMMA PublishedFirst ==
    ASSUME TypeOK, NEW m \in Nat, NEW n \in Nat, m > n, Has(published, m), ~Has(published, n)
    PROVE  Overtaken(published, n)
<1>1. PICK i \in 1..Len(published) : published[i] = m
  BY DEF Has
<1>2. Len(published) \in Nat
  BY DEF TypeOK
<1>3. \A j \in 1..i : published[j] # n
  BY <1>1, <1>2 DEF Has
<1> QED
  BY <1>1, <1>3 DEF Overtaken

(* What was overtaken or published stays so.                               *)
LEMMA PublishedGrows ==
    ASSUME TypeOK, NEW x \in Nat, published' = Append(published, x), NEW n
    PROVE  /\ Overtaken(published, n) => Overtaken(published', n)
           /\ Has(published', n) <=> Has(published, n) \/ n = x
<1>1. published \in Seq(Nat)
  BY DEF TypeOK
<1>2. ASSUME Overtaken(published, n) PROVE Overtaken(published', n)
  <2>1. PICK i \in 1..Len(published) : published[i] > n /\ \A j \in 1..i : published[j] # n
    BY <1>2 DEF Overtaken
  <2>2. /\ i \in 1..Len(published') /\ published'[i] = published[i]
        /\ \A j \in 1..i : published'[j] = published[j]
    BY <1>1, <2>1
  <2>3. published'[i] > n /\ \A j \in 1..i : published'[j] # n
    BY <2>1, <2>2
  <2> QED
    BY <2>2, <2>3 DEF Overtaken
<1> QED
  BY <1>1, <1>2, AppendHas

LEMMA BusStep ==
    ASSUME TypeOK, BusInv, [Next]_vars
    PROVE  BusInv'
<1>1. ASSUME NEW e \in Emitter, NEW r, r.pc = "append",
             emitter' = [emitter EXCEPT ![e] = r], UNCHANGED <<events, published>>
      PROVE  BusInv'
  <2>1. \A f \in Emitter : emitter'[f].pc = "publish" =>
            emitter[f].pc = "publish" /\ emitter'[f].seq = emitter[f].seq
    BY <1>1 DEF TypeOK
  <2> QED
    BY <1>1, <2>1 DEF BusInv
<1>2. ASSUME NEW e \in Emitter, FrameThenEvent(e) PROVE BusInv'
  <2>1. [Idle EXCEPT !.pc = "append"].pc = "append"
    BY DEF Idle
  <2> QED
    BY <1>1, <1>2, <2>1 DEF FrameThenEvent
<1>3. ASSUME NEW e \in Emitter, NEW kind \in Kind, Change(e, kind) PROVE BusInv'
  <2>1. [Idle EXCEPT !.pc = "append", !.kind = kind].pc = "append"
    BY DEF Idle
  <2> QED
    BY <1>1, <1>3, <2>1 DEF Change, stores
<1>4. ASSUME NEW e \in Emitter, StoreEvent(e) PROVE BusInv'
  <2>1. /\ Len(events) \in Nat /\ Len(events') = Len(events) + 1
        /\ published' = published /\ published \in Seq(Nat)
    BY <1>4 DEF StoreEvent, TypeOK
  <2>2. \A f \in Emitter : f # e => emitter'[f] = emitter[f]
    BY <1>4 DEF StoreEvent, TypeOK
  <2>3. emitter'[e].seq = Len(events) + 1
    BY <1>4 DEF StoreEvent, TypeOK
  <2>4. ~Has(published, Len(events) + 1)
    BY <2>1 DEF BusInv, Has
  <2>5. \A f \in Emitter : f # e /\ emitter[f].pc = "publish" =>
            emitter[f].seq \in 1..Len(events) /\ ~Has(published, emitter[f].seq)
    BY DEF BusInv
  <2> QED
    <3>1. \A f \in Emitter : emitter'[f].pc = "publish" =>
              emitter'[f].seq \in 1..Len(events') /\ ~Has(published', emitter'[f].seq)
      BY <2>1, <2>2, <2>3, <2>4, <2>5
    <3>2. \A f \in Emitter : f # e /\ emitter[f].pc = "publish" => emitter[f].seq # Len(events) + 1
      BY <2>1, <2>5
    <3>3. \A f, g \in Emitter : emitter'[f].pc = "publish" /\ emitter'[g].pc = "publish" =>
              f = g \/ emitter'[f].seq # emitter'[g].seq
      BY <2>2, <2>3, <3>2 DEF BusInv
    <3>4. \A i \in 1..Len(published') : published'[i] \in 1..Len(events')
      BY <2>1 DEF BusInv
    <3> QED
      BY <3>1, <3>3, <3>4 DEF BusInv
<1>5. ASSUME NEW e \in Emitter, Publish(e) PROVE BusInv'
  <2> DEFINE s == emitter[e].seq
  <2>1. s \in Nat /\ s \in 1..Len(events) /\ published \in Seq(Nat)
        /\ published' = Append(published, s) /\ events' = events
    BY <1>5 DEF Publish, TypeOK, BusInv, Holding
  <2>2. emitter'[e].pc = "idle" /\ \A f \in Emitter : f # e => emitter'[f] = emitter[f]
    BY <1>5 DEF Publish, TypeOK, Idle
  <2>3. ASSUME NEW f \in Emitter, emitter'[f].pc = "publish"
        PROVE  /\ emitter'[f] = emitter[f] /\ f # e
               /\ emitter[f].seq \in 1..Len(events) /\ ~Has(published', emitter[f].seq)
    <3>1. f # e /\ emitter'[f] = emitter[f]
      BY <2>2, <2>3
    <3>2. emitter[f].seq # s /\ ~Has(published, emitter[f].seq) /\ emitter[f].seq \in 1..Len(events)
      BY <1>5, <2>3, <3>1 DEF Publish, BusInv
    <3> QED
      BY <2>1, <3>1, <3>2, AppendHas
  <2>4. ASSUME NEW i \in 1..Len(published') PROVE published'[i] \in 1..Len(events')
    <3>1. i \in 1..Len(published) \/ i = Len(published) + 1
      BY <2>1
    <3>2. i \in 1..Len(published) => published'[i] = published[i]
      BY <2>1
    <3>3. published'[Len(published) + 1] = s
      BY <2>1
    <3> QED
      BY <2>1, <3>1, <3>2, <3>3 DEF BusInv
  <2>5. \A f, g \in Emitter : emitter'[f].pc = "publish" /\ emitter'[g].pc = "publish" =>
            f = g \/ emitter'[f].seq # emitter'[g].seq
    BY <2>3 DEF BusInv
  <2> QED
    BY <2>1, <2>3, <2>4, <2>5 DEF BusInv
<1>6. CASE Crash
  BY <1>6 DEF Crash, BusInv, Idle, stores
<1>7. CASE UNCHANGED <<events, published, emitter>>
  BY <1>7 DEF BusInv
<1>8. ASSUME NEW d \in Client, ClientStep(d) PROVE BusInv'
  BY <1>7, <1>8, ClientStepOthers DEF stores
<1>9. CASE InputFrame
  BY <1>7, <1>9 DEF InputFrame
<1>10. CASE UNCHANGED vars
  BY <1>7, <1>10 DEF vars, stores
<1> QED
  BY <1>2, <1>3, <1>4, <1>5, <1>6, <1>8, <1>9, <1>10 DEF Next, ClientStep, EmitStep

-----------------------------------------------------------------------------
(* Events: the steps of other actors.                                      *)

LEMMA EventSame ==
    ASSUME NEW c \in EventClient, EventInv(c), Same(c), UNCHANGED <<events, published>>
    PROVE  EventInv(c)'
<1> QED
  BY DEF Wanted, EventInv, BacklogInv, PendingInv, QueueInv, Same

(* A new number is above everything a stream has seen and is in no queue.  *)
LEMMA EventStored ==
    ASSUME TypeOK, BusInv, NEW c \in EventClient, EventInv(c), NEW e \in Emitter, StoreEvent(e)
    PROVE  EventInv(c)'
<1>0. /\ c \in Client /\ Len(events) \in Nat /\ Len(events') = Len(events) + 1
      /\ last[c] \in Nat /\ todo[c] \in SUBSET Nat
      /\ UNCHANGED <<published, pc, last, todo, queue, received>>
  BY DEF StoreEvent, TypeOK, Client, streams
<1>1. \A n : Overtaken(published', n) <=> Overtaken(published, n)
  BY <1>0 DEF Overtaken
<1>2. \A n \in 1..Len(events) : Wanted(c, n)' <=> Wanted(c, n)
  <2>1. \A n \in 1..Len(events) : events'[n] = events[n]
    BY DEF StoreEvent, TypeOK
  <2> QED
    BY <2>1 DEF Wanted
<1>3. BacklogInv(c)'
  BY <1>0, <1>2 DEF EventInv, BacklogInv
<1>4. ~Has(published, Len(events) + 1)
  BY <1>0 DEF BusInv, Has, TypeOK
<1>5. PendingInv(c)'
  BY <1>0, <1>2, <1>4 DEF EventInv, PendingInv
<1>6. QueueInv(c)'
  BY <1>0, <1>1 DEF EventInv, QueueInv
<1>7. \A n \in 1..Len(events') :
        n <= last[c] /\ Wanted(c, n)' => Has(received[c], n) \/ Overtaken(published', n)
  <2> SUFFICES ASSUME NEW n \in 1..Len(events'), n <= last[c], Wanted(c, n)'
               PROVE  Has(received[c], n) \/ Overtaken(published', n)
    OBVIOUS
  <2>1. n \in 1..Len(events)
    BY <1>0 DEF EventInv
  <2> QED
    BY <1>1, <1>2, <2>1 DEF EventInv
<1>8. last[c] <= Len(events')
  BY <1>0 DEF EventInv
<1> QED
  BY <1>0, <1>3, <1>5, <1>6, <1>7, <1>8 DEF EventInv

(* A published event is in the queue of every open stream; if a greater    *)
(* number is before it there, it was published before it.                  *)
LEMMA EventPublished ==
    ASSUME TypeOK, BusInv, NEW c \in EventClient, EventInv(c), NEW e \in Emitter, Publish(e)
    PROVE  EventInv(c)'
<1> DEFINE s == emitter[e].seq
<1>0. /\ c \in Client /\ s \in Nat /\ published' = Append(published, s)
      /\ queue[c] \in Seq(Nat) /\ published \in Seq(Nat)
      /\ UNCHANGED <<events, pc, last, todo, received>> /\ ~Has(published, s)
  BY DEF Publish, TypeOK, Client, Holding, BusInv
<1>1. /\ pc[c] # "closed" => queue'[c] = Append(queue[c], s)
      /\ pc[c] = "closed" => queue'[c] = queue[c]
  BY <1>0 DEF Publish, Subscribed
<1> HIDE DEF s
<1>2. \A n : Overtaken(published, n) => Overtaken(published', n)
  BY <1>0, PublishedGrows
<1>3. \A n : Has(published', n) <=> Has(published, n) \/ n = s
  BY <1>0, PublishedGrows
<1>4. \A n : Wanted(c, n)' <=> Wanted(c, n)
  BY <1>0 DEF Wanted
<1>5. BacklogInv(c)'
  BY <1>0, <1>4 DEF EventInv, BacklogInv
<1>6. PendingInv(c)'
  <2> SUFFICES ASSUME pc[c] \in {"send", "live"}, NEW n \in 1..Len(events), Has(published', n),
                      n > last[c], Wanted(c, n)
               PROVE  n \in todo[c] \/ Has(queue'[c], n)
    BY <1>0, <1>4 DEF PendingInv
  <2>0. queue'[c] = Append(queue[c], s)
    BY <1>1
  <2>1. Has(queue'[c], n) <=> Has(queue[c], n) \/ n = s
    BY <1>0, <2>0, AppendHas
  <2>2. Has(published, n) => n \in todo[c] \/ Has(queue[c], n)
    BY DEF EventInv, PendingInv
  <2> QED
    BY <1>3, <2>1, <2>2
<1>7. QueueInv(c)'
  <2>1. CASE pc[c] = "closed"
    <3>1. queue'[c] = <<>>
      BY <1>1, <2>1 DEF EventInv
    <3> QED
      BY <3>1 DEF QueueInv
  <2>2. CASE pc[c] # "closed"
    <3>0. queue'[c] = Append(queue[c], s) /\ Len(queue[c]) \in Nat
      BY <1>0, <1>1, <2>2
    <3>1. ASSUME NEW i \in 1..Len(queue'[c])
          PROVE  \/ i \in 1..Len(queue[c]) /\ queue'[c][i] = queue[c][i]
                 \/ i = Len(queue[c]) + 1 /\ queue'[c][i] = s
      <4>1. i \in 1..Len(Append(queue[c], s))
        BY <3>0, <3>1
      <4>2. \/ i \in 1..Len(queue[c]) /\ Append(queue[c], s)[i] = queue[c][i]
            \/ i = Len(queue[c]) + 1 /\ Append(queue[c], s)[i] = s
        BY <1>0, <4>1, AppendAt
      <4> QED
        BY <3>0, <4>2
    <3>2. ASSUME NEW i \in 1..Len(queue'[c]) PROVE Has(published', queue'[c][i])
      <4>1. CASE i \in 1..Len(queue[c]) /\ queue'[c][i] = queue[c][i]
        BY <1>3, <4>1 DEF EventInv, QueueInv
      <4>2. CASE queue'[c][i] = s
        BY <1>3, <4>2
      <4> QED
        BY <3>1, <4>1, <4>2
    <3>3. ASSUME NEW i \in 1..Len(queue'[c]), NEW j \in 1..Len(queue'[c]),
                 i < j, queue'[c][i] > queue'[c][j]
          PROVE  Overtaken(published', queue'[c][j])
      <4>1. i \in 1..Len(queue[c]) /\ queue'[c][i] = queue[c][i]
        BY <3>0, <3>1, <3>3
      <4>2. CASE j \in 1..Len(queue[c]) /\ queue'[c][j] = queue[c][j]
        BY <1>2, <3>3, <4>1, <4>2 DEF EventInv, QueueInv
      <4>3. CASE queue'[c][j] = s
        <5>1. Has(published, queue[c][i]) /\ queue[c][i] \in Nat /\ queue[c][i] > s
          BY <1>0, <3>3, <4>1, <4>3, SMTT(60) DEF EventInv, QueueInv
        <5>2. Overtaken(published, s)
          BY <1>0, <5>1, PublishedFirst
        <5> QED
          BY <1>2, <4>3, <5>2
      <4> QED
        BY <3>1, <3>3, <4>2, <4>3
    <3> QED
      BY <3>2, <3>3 DEF QueueInv
  <2> QED
    BY <2>1, <2>2
<1>8. pc[c] = "closed" => queue'[c] = <<>>
  BY <1>1 DEF EventInv
<1> QED
  BY <1>0, <1>2, <1>4, <1>5, <1>6, <1>7, <1>8 DEF EventInv

-----------------------------------------------------------------------------
(* Events: the steps of the stream itself.                                 *)

(* The stream ends: nothing is left to be said about its queue.            *)
LEMMA EventEnds ==
    ASSUME TypeOK, NEW c \in EventClient, EventInv(c), Ends(c),
           UNCHANGED <<events, published, last, received>>
    PROVE  EventInv(c)'
<1>1. pc'[c] = "closed" /\ todo'[c] = {} /\ queue'[c] = <<>>
  BY DEF Ends, TypeOK, Client
<1>2. BacklogInv(c)' /\ PendingInv(c)' /\ QueueInv(c)'
  BY <1>1 DEF BacklogInv, PendingInv, QueueInv
<1> QED
  BY <1>1, <1>2 DEF EventInv, Wanted

(* Sending n, of which it is known that no wanted event between the last   *)
(* one and n is missing, and that what remains is accounted for.           *)
LEMMA EventDelivered ==
    ASSUME TypeOK, NEW c \in EventClient, EventInv(c), UNCHANGED <<events, published>>,
           NEW n \in 1..Len(events), n > last[c],
           NEW rows \in SUBSET Nat, NEW waiting \in Seq(Nat), Deliver(c, n, rows, waiting),
           pc[c] # "send" => rows = {}, pc[c] \in {"send", "live"},
           \A k \in 1..Len(events) : last[c] < k /\ k < n /\ Wanted(c, k) => Overtaken(published, k),
           \A m \in rows :
               /\ m \in 1..Len(events) /\ m > n
               /\ \A k \in 1..Len(events) : n < k /\ k < m /\ Wanted(c, k) => k \in rows,
           \A k \in 1..Len(events) : Has(published, k) /\ k > n /\ Wanted(c, k) =>
               k \in rows \/ Has(waiting, k),
           \A i \in 1..Len(waiting) : Has(published, waiting[i]),
           \A i, j \in 1..Len(waiting) :
               i < j /\ waiting[i] > waiting[j] => Overtaken(published, waiting[j])
    PROVE  EventInv(c)'
<1>0. /\ c \in Client /\ n \in Nat /\ Len(events) \in Nat /\ last[c] \in Nat
      /\ received[c] \in Seq(Nat)
  BY DEF TypeOK, Client
<1>1. last'[c] = n /\ received'[c] = Append(received[c], n)
  BY <1>0 DEF Deliver, TypeOK
<1>2. \A k : Has(received'[c], k) <=> Has(received[c], k) \/ k = n
  BY <1>0, <1>1, AppendHas
<1>3. ASSUME NEW i \in 1..Len(received'[c])
      PROVE  \/ i \in 1..Len(received[c]) /\ received'[c][i] = received[c][i]
             \/ i = Len(received[c]) + 1 /\ received'[c][i] = n
  <2>1. i \in 1..Len(Append(received[c], n))
    BY <1>1, <1>3
  <2>2. \/ i \in 1..Len(received[c]) /\ Append(received[c], n)[i] = received[c][i]
        \/ i = Len(received[c]) + 1 /\ Append(received[c], n)[i] = n
    BY <1>0, <2>1, AppendAt
  <2> QED
    BY <1>1, <2>2
<1>4. \A i \in 1..Len(received[c]) : received[c][i] \in Nat /\ received[c][i] <= last[c]
  BY <1>0 DEF EventInv
<1>5. ASSUME NEW i \in 1..Len(received'[c]) PROVE received'[c][i] <= n
  <2>1. CASE i \in 1..Len(received[c]) /\ received'[c][i] = received[c][i]
    BY <1>0, <1>4, <2>1
  <2>2. CASE received'[c][i] = n
    BY <1>0, <2>2
  <2> QED
    BY <1>3, <2>1, <2>2
<1>6. Increasing(received'[c])
  <2> SUFFICES ASSUME NEW i \in 1..Len(received'[c]), NEW j \in 1..Len(received'[c]), i < j
               PROVE  received'[c][i] < received'[c][j]
    BY DEF Increasing
  <2>1. i \in 1..Len(received[c]) /\ received'[c][i] = received[c][i]
    <3>1. Len(received[c]) \in Nat /\ (j \in 1..Len(received[c]) \/ j = Len(received[c]) + 1)
      BY <1>0, <1>3
    <3>2. i # Len(received[c]) + 1
      BY <3>1
    <3> QED
      BY <1>3, <3>2
  <2>2. CASE j \in 1..Len(received[c]) /\ received'[c][j] = received[c][j]
    BY <2>1, <2>2 DEF EventInv, Increasing
  <2>3. CASE received'[c][j] = n
    BY <1>0, <1>4, <2>1, <2>3
  <2> QED
    BY <1>3, <2>2, <2>3
<1>7. ASSUME NEW k \in 1..Len(events), k <= n, Wanted(c, k)
      PROVE  Has(received'[c], k) \/ Overtaken(published, k)
  <2>1. k <= last[c] \/ (last[c] < k /\ k < n) \/ k = n
    BY <1>0, <1>7
  <2> QED
    BY <1>2, <1>7, <2>1 DEF EventInv
<1>8. CASE LimitReached(c, sent[c] + 1)
  <2>1. pc'[c] = "closed" /\ todo'[c] = {} /\ queue'[c] = <<>>
    BY <1>0, <1>8 DEF Deliver, Ends, TypeOK
  <2>2. BacklogInv(c)' /\ PendingInv(c)' /\ QueueInv(c)'
    BY <2>1 DEF BacklogInv, PendingInv, QueueInv
  <2> QED
    BY <1>0, <1>1, <1>5, <1>6, <1>7, <2>1, <2>2 DEF EventInv, Wanted
<1>9. CASE ~LimitReached(c, sent[c] + 1)
  <2>1. pc'[c] = pc[c] /\ todo'[c] = rows /\ queue'[c] = waiting
    BY <1>0, <1>9 DEF Deliver, TypeOK
  <2>2. BacklogInv(c)'
    BY <1>1, <2>1 DEF BacklogInv, Wanted
  <2>3. PendingInv(c)'
    BY <1>1, <2>1 DEF PendingInv, Wanted
  <2>4. QueueInv(c)'
    BY <2>1 DEF QueueInv
  <2> QED
    BY <1>0, <1>1, <1>5, <1>6, <1>7, <2>1, <2>2, <2>3, <2>4 DEF EventInv, Wanted
<1> QED
  BY <1>8, <1>9

LEMMA EventClientStep ==
    ASSUME TypeOK, BusInv, NEW c \in EventClient, EventInv(c), ClientStep(c)
    PROVE  EventInv(c)'
<1>0. /\ c \in Client /\ c \notin FrameClient /\ UNCHANGED <<events, published>>
      /\ Len(events) \in Nat /\ last[c] \in Nat /\ todo[c] \in SUBSET Nat /\ queue[c] \in Seq(Nat)
  BY ClientAssumption, ClientStepOthers DEF stores, TypeOK, Client
<1>1. ASSUME NEW max \in Limits, Subscribe(c, max) PROVE EventInv(c)'
  <2>1. pc'[c] = "query" /\ pc[c] = "closed" /\ UNCHANGED <<last, todo, queue, received>>
    BY <1>0, <1>1 DEF Subscribe, TypeOK
  <2>2. BacklogInv(c)' /\ PendingInv(c)' /\ QueueInv(c)'
    BY <1>0, <2>1 DEF EventInv, BacklogInv, PendingInv, QueueInv, Wanted
  <2> QED
    BY <1>0, <2>1, <2>2 DEF EventInv, Wanted
<1>2. CASE Query(c)
  <2>1. pc'[c] = "send" /\ todo'[c] = Backlog(c) /\ UNCHANGED <<last, queue, received>>
        /\ pc[c] = "query"
    BY <1>0, <1>2 DEF Query, TypeOK
  <2>2. BacklogInv(c)'
    BY <1>0, <2>1 DEF BacklogInv, Backlog, Wanted
  <2>3. PendingInv(c)'
    BY <1>0, <2>1 DEF PendingInv, Backlog, Wanted
  <2>4. QueueInv(c)'
    BY <1>0, <2>1 DEF EventInv, QueueInv
  <2> QED
    BY <1>0, <2>1, <2>2, <2>3, <2>4 DEF EventInv, Wanted
<1>3. CASE SendRow(c)
  <2>1. PICK n \in todo[c] : (\A m \in todo[c] : n <= m)
                           /\ Deliver(c, n, todo[c] \ {n}, queue[c])
    BY <1>3 DEF SendRow
  <2> DEFINE rows == todo[c] \ {n}
  <2>2. n \in 1..Len(events) /\ n > last[c] /\ pc[c] = "send" /\ rows \in SUBSET Nat /\ n \in Nat
    BY <1>0, <1>3, <2>1 DEF EventInv, BacklogInv, SendRow
  <2>3. \A k \in 1..Len(events) : ~(last[c] < k /\ k < n /\ Wanted(c, k))
    BY <1>0, <2>1, <2>2 DEF EventInv, BacklogInv
  <2>4. ASSUME NEW m \in rows
        PROVE  /\ m \in 1..Len(events) /\ m > n
               /\ \A k \in 1..Len(events) : n < k /\ k < m /\ Wanted(c, k) => k \in rows
    <3>1. m \in 1..Len(events) /\ n <= m /\ n # m
      BY <2>1, <2>4 DEF EventInv, BacklogInv
    <3>2. \A k \in 1..Len(events) : last[c] < k /\ k < m /\ Wanted(c, k) => k \in todo[c]
      BY <2>4 DEF EventInv, BacklogInv
    <3> QED
      BY <1>0, <2>2, <3>1, <3>2
  <2>5. ASSUME NEW k \in 1..Len(events), Has(published, k), k > n, Wanted(c, k)
        PROVE  k \in rows \/ Has(queue[c], k)
    <3>1. k > last[c] /\ k # n
      BY <1>0, <2>2, <2>5
    <3> QED
      BY <2>2, <2>5, <3>1 DEF EventInv, PendingInv
  <2>6. /\ \A i \in 1..Len(queue[c]) : Has(published, queue[c][i])
        /\ \A i, j \in 1..Len(queue[c]) :
              i < j /\ queue[c][i] > queue[c][j] => Overtaken(published, queue[c][j])
    BY DEF EventInv, QueueInv
  <2>7. Deliver(c, n, rows, queue[c])
    BY <2>1
  <2> HIDE DEF rows
  <2> QED
    BY <1>0, <2>2, <2>3, <2>4, <2>5, <2>6, <2>7, EventDelivered
<1>4. CASE RowsSent(c)
  <2>1. pc'[c] = "live" /\ pc[c] = "send" /\ todo[c] = {} /\ UNCHANGED <<last, todo, queue, received>>
    BY <1>0, <1>4 DEF RowsSent, TypeOK
  <2>2. BacklogInv(c)' /\ PendingInv(c)' /\ QueueInv(c)'
    BY <1>0, <2>1 DEF EventInv, BacklogInv, PendingInv, QueueInv, Wanted
  <2> QED
    BY <1>0, <2>1, <2>2 DEF EventInv, Wanted
<1>5. CASE TakeEvent(c)
  <2> DEFINE q == queue[c]
             n == Head(q)
  <2>1. /\ q \in Seq(Nat) /\ q # <<>> /\ n \in Nat /\ Tail(q) \in Seq(Nat) /\ Len(q) \in Nat
        /\ n = q[1] /\ 1 \in 1..Len(q) /\ pc[c] = "live" /\ todo[c] = {}
        /\ Len(Tail(q)) = Len(q) - 1
        /\ \A i \in 1..Len(Tail(q)) : Tail(q)[i] = q[i + 1] /\ i + 1 \in 1..Len(q)
    BY <1>0, <1>5 DEF TakeEvent, EventInv
  <2>2. Has(published, n) /\ n \in 1..Len(events)
    <3>1. Has(published, n)
      BY <2>1 DEF EventInv, QueueInv
    <3> QED
      BY <3>1 DEF BusInv, Has
  <2>3. /\ \A i \in 1..Len(Tail(q)) : Has(published, Tail(q)[i])
        /\ \A i, j \in 1..Len(Tail(q)) :
              i < j /\ Tail(q)[i] > Tail(q)[j] => Overtaken(published, Tail(q)[j])
    <3>1. /\ \A i \in 1..Len(q) : Has(published, q[i])
          /\ \A i, j \in 1..Len(q) : i < j /\ q[i] > q[j] => Overtaken(published, q[j])
      BY DEF EventInv, QueueInv
    <3>2. \A i, j \in 1..Len(Tail(q)) : i < j => i + 1 < j + 1
      BY <2>1
    <3> QED
      BY <2>1, <3>1, <3>2
  <2>4. ASSUME NEW k \in 1..Len(events), Has(published, k), k > last[c], Wanted(c, k), k # n
        PROVE  Has(Tail(q), k)
    <3>1. Has(q, k)
      BY <2>1, <2>4 DEF EventInv, PendingInv
    <3> QED
      BY <2>1, <2>4, <3>1, TailHas
  <2>5. CASE Fresh(c, n) /\ Wanted(c, n)
    <3>1. n > last[c] /\ Deliver(c, n, {}, Tail(q))
      BY <1>5, <2>5 DEF TakeEvent, Fresh
    <3>2. ASSUME NEW k \in 1..Len(events), last[c] < k, k < n, Wanted(c, k)
          PROVE  Overtaken(published, k)
      <4>1. CASE ~Has(published, k)
        BY <2>1, <2>2, <3>2, <4>1, PublishedFirst
      <4>2. CASE Has(published, k)
        <5>1. PICK j \in 1..Len(q) : q[j] = k
          BY <2>1, <3>2, <4>2 DEF EventInv, PendingInv, Has
        <5>2. 1 < j /\ q[1] > q[j]
          BY <2>1, <3>2, <5>1
        <5> QED
          BY <2>1, <5>1, <5>2 DEF EventInv, QueueInv
      <4> QED
        BY <4>1, <4>2
    <3>3. \A k \in 1..Len(events) : Has(published, k) /\ k > n /\ Wanted(c, k) => Has(Tail(q), k)
      BY <1>0, <2>1, <2>4, <3>1
    <3> HIDE DEF q, n
    <3> QED
      BY <1>0, <2>1, <2>2, <2>3, <3>1, <3>2, <3>3, EventDelivered
  <2>6. CASE ~(Fresh(c, n) /\ Wanted(c, n))
    <3>1. queue'[c] = Tail(q) /\ UNCHANGED <<pc, last, todo, received>>
      BY <1>0, <1>5, <2>6 DEF TakeEvent, Dequeue, TypeOK
    <3>2. PendingInv(c)'
      <4> SUFFICES ASSUME NEW k \in 1..Len(events), Has(published, k), k > last[c], Wanted(c, k)
                   PROVE  Has(Tail(q), k)
        BY <1>0, <3>1 DEF PendingInv, Wanted
      <4>1. k # n
        BY <2>6 DEF Fresh
      <4> QED
        BY <2>4, <4>1
    <3>3. QueueInv(c)'
      BY <1>0, <2>3, <3>1 DEF QueueInv
    <3>4. BacklogInv(c)'
      BY <2>1, <3>1 DEF BacklogInv
    <3> QED
      BY <1>0, <2>1, <3>1, <3>2, <3>3, <3>4 DEF EventInv, Wanted
  <2> QED
    BY <2>5, <2>6
<1>6. ~TakeWakeup(c)
  BY <1>0 DEF TakeWakeup
<1>7. CASE TimesOut(c) \/ ConnectionBreaks(c)
  BY <1>0, <1>7, EventEnds DEF TimesOut, ConnectionBreaks
<1> QED
  BY <1>1, <1>2, <1>3, <1>4, <1>5, <1>6, <1>7 DEF ClientStep, StreamStep

-----------------------------------------------------------------------------
(* StreamInv is inductive relative to TypeOK.                              *)
LEMMA StreamInvStep == TypeOK /\ StreamInv /\ [Next]_vars => StreamInv'
<1> SUFFICES ASSUME TypeOK, StreamInv, [Next]_vars PROVE StreamInv'
  OBVIOUS
<1>1. BusInv'
  BY BusStep DEF StreamInv
<1>2. \A c \in FrameClient : FrameInv(c)'
  BY FrameStep DEF StreamInv
<1>3. ASSUME NEW c \in EventClient PROVE EventInv(c)'
  <2>0. EventInv(c) /\ BusInv /\ c \in Client
    BY DEF StreamInv, Client
  <2>1. ASSUME UNCHANGED <<events, published, pc, last, todo, queue, received>>
        PROVE  EventInv(c)'
    BY <2>0, <2>1, EventSame DEF Same
  <2>2. ASSUME NEW e \in Emitter, FrameThenEvent(e) PROVE EventInv(c)'
    BY <2>1, <2>2 DEF FrameThenEvent, streams
  <2>3. ASSUME NEW e \in Emitter, NEW kind \in Kind, Change(e, kind) PROVE EventInv(c)'
    BY <2>1, <2>3 DEF Change, stores, streams
  <2>4. CASE InputFrame \/ UNCHANGED vars
    BY <2>1, <2>4 DEF InputFrame, vars, stores, streams
  <2>5. ASSUME NEW e \in Emitter, StoreEvent(e) PROVE EventInv(c)'
    BY <2>0, <2>5, EventStored
  <2>6. ASSUME NEW e \in Emitter, Publish(e) PROVE EventInv(c)'
    BY <2>0, <2>6, EventPublished
  <2>7. ASSUME NEW d \in Client, ClientStep(d) PROVE EventInv(c)'
    <3>1. CASE c = d
      BY <2>0, <2>7, <3>1, EventClientStep
    <3>2. CASE c # d
      <4>1. Same(c) /\ UNCHANGED <<events, published>>
        BY <2>0, <2>7, <3>2, ClientStepOthers DEF stores
      <4> QED
        BY <2>0, <4>1, EventSame
    <3> QED
      BY <3>1, <3>2
  <2>8. CASE Crash
    <3>1. pc'[c] = "closed" /\ todo'[c] = {} /\ queue'[c] = <<>>
          /\ UNCHANGED <<events, published, last, received>>
      BY <2>0, <2>8 DEF Crash, stores
    <3>2. BacklogInv(c)' /\ PendingInv(c)' /\ QueueInv(c)'
      BY <3>1 DEF BacklogInv, PendingInv, QueueInv
    <3> QED
      BY <2>0, <3>1, <3>2 DEF EventInv, Wanted
  <2> QED
    BY <2>2, <2>3, <2>4, <2>5, <2>6, <2>7, <2>8 DEF Next, ClientStep, EmitStep
<1> QED
  BY <1>1, <1>2, <1>3 DEF StreamInv

LEMMA StreamInvHolds == Spec => []StreamInv
<1>1. Init => StreamInv
  <2> SUFFICES ASSUME Init PROVE StreamInv
    OBVIOUS
  <2>1. BusInv
    BY DEF Init, BusInv, Idle
  <2>2. ASSUME NEW c \in EventClient PROVE EventInv(c)
    <3>1. /\ pc[c] = "closed" /\ last[c] = 0 /\ todo[c] = {} /\ queue[c] = <<>>
          /\ received[c] = <<>> /\ events = <<>>
      BY DEF Init, Client
    <3> QED
      BY <3>1 DEF EventInv, BacklogInv, PendingInv, QueueInv, Increasing
  <2>3. ASSUME NEW c \in FrameClient PROVE FrameInv(c)
    BY DEF Init, Client, FrameInv
  <2> QED
    BY <2>1, <2>2, <2>3 DEF StreamInv
<1> QED
  BY <1>1, StreamInvStep, StreamTypeCorrect, PTL DEF Spec

(* An event client never receives an event twice or after a later one.     *)
THEOREM EventsArriveInOrder == Spec => []EventsInOrder
<1>1. StreamInv => EventsInOrder
  BY DEF StreamInv, EventInv, EventsInOrder
<1> QED
  BY <1>1, StreamInvHolds, PTL

(* A wanted event that a client has passed over was published after a      *)
(* later one: nothing else makes the filter by number skip an event,       *)
(* neither the gap between subscription and query nor a reconnection.      *)
THEOREM OnlyOvertakenIsSkipped == Spec => []NothingSkipped
<1>1. StreamInv => NothingSkipped
  BY DEF StreamInv, EventInv, NothingSkipped
<1> QED
  BY <1>1, StreamInvHolds, PTL

(* A frame stream sends a terminal's frames from the first on, each once   *)
(* and without a gap, for every page size and limit and however often the  *)
(* connection breaks or the runtime crashes.                               *)
THEOREM FramesArriveInOrder == Spec => []FramesInOrder
<1>1. StreamInv => FramesInOrder
  BY DEF StreamInv, FrameInv, FramesInOrder
<1> QED
  BY <1>1, StreamInvHolds, PTL

(* The three together: what a client has received, on however many streams *)
(* one after another, is what the tables hold, but for overtaken events.   *)
THEOREM ReceivedIsStored == Spec => []StreamsAreFaithful
<1>1. EventsInOrder /\ NothingSkipped /\ FramesInOrder => StreamsAreFaithful
  BY DEF StreamsAreFaithful
<1> QED
  BY <1>1, EventsArriveInOrder, OnlyOvertakenIsSkipped, FramesArriveInOrder, PTL
=============================================================================
