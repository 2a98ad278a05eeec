------------------------------ MODULE EventStream ------------------------------
(***************************************************************************)
(* The two streams of the broker, event.subscribe and                      *)
(* session.subscribe_frames, over the event store, the in-memory event bus *)
(* and the terminal frames of one session.                                 *)
(*                                                                         *)
(* A service stores an event and publishes it in two steps, and other      *)
(* coroutines run in between.  A stream subscribes a queue first, reads    *)
(* the table second and only then looks at the queue.  Its client notes    *)
(* the last number it received and passes it when it subscribes again,     *)
(* after a limit, a timeout, a broken connection or a crash.               *)
(*                                                                         *)
(* Sequence numbers of events are the AUTOINCREMENT keys 1, 2, ...; the    *)
(* seq of a frame is counted from 1 here and from 0 in the code, so that   *)
(* "nothing received yet" is 0 for both.                                   *)
(***************************************************************************)
EXTENDS Naturals, Sequences, FiniteSets

CONSTANTS
    Emitter,      \* coroutines that emit events
    EventClient,  \* clients of event.subscribe
    FrameClient,  \* clients of session.subscribe_frames
    Kind,         \* what the filters of a subscription tell apart
    SessionKind,  \* the events of the session whose frames are streamed
    Wants,        \* per event client: the kinds its filters let through
    Limits,       \* the max_items a client may ask for, 0 for none
    Page,         \* the frames of one query (500 in the code)
    MaxEvents,    \* bound on the stored events
    MaxFrames,    \* bound on the stored frames
    MaxBreaks     \* bound on the broken connections and crashes

Client == EventClient \cup FrameClient

ASSUME ClientAssumption == EventClient \cap FrameClient = {}
ASSUME KindAssumption ==
    /\ SessionKind \in Kind
    /\ Wants \in [EventClient -> SUBSET Kind]
ASSUME StreamBoundAssumption ==
    /\ Limits \subseteq Nat
    /\ Page \in Nat \ {0}
    /\ MaxEvents \in Nat /\ MaxFrames \in Nat /\ MaxBreaks \in Nat

VARIABLES
    events,     \* the event table: the kinds of events 1, 2, ...
    frames,     \* the frame table: "output" (followed by an event) or "input"
    published,  \* the events in the order in which they were published
    emitter,    \* per emitter: the event in its hands
    pc,         \* per client: where its stream is
    last,       \* per client: last_sequence or last_seq, the next after_...
    todo,       \* per client: rows of the last query that are still to be sent
    queue,      \* per client: its queue on the bus
    sent,       \* per client: items sent on this stream, counted towards a limit
    limit,      \* per client: max_items of this stream
    received,   \* per client: the numbers it has received on all its streams
    breaks

stores == <<events, frames, published>>
streams == <<pc, last, todo, queue, sent, limit, received>>
vars == <<stores, emitter, streams, breaks>>

Holding == [pc : {"idle", "append", "publish"}, kind : Kind, seq : Nat]
Idle == [pc |-> "idle", kind |-> SessionKind, seq |-> 0]

TypeOK ==
    /\ events \in Seq(Kind)
    /\ frames \in Seq({"output", "input"})
    /\ published \in Seq(Nat)
    /\ emitter \in [Emitter -> Holding]
    /\ pc \in [Client -> {"closed", "query", "send", "live"}]
    /\ last \in [Client -> Nat]
    /\ todo \in [Client -> SUBSET Nat]
    /\ queue \in [Client -> Seq(Nat)]
    /\ sent \in [Client -> Nat]
    /\ limit \in [Client -> Nat]
    /\ received \in [Client -> Seq(Nat)]
    /\ breaks \in 0..MaxBreaks

Init ==
    /\ events = <<>> /\ frames = <<>> /\ published = <<>>
    /\ emitter = [e \in Emitter |-> Idle]
    /\ pc = [c \in Client |-> "closed"]
    /\ last = [c \in Client |-> 0]
    /\ todo = [c \in Client |-> {}]
    /\ queue = [c \in Client |-> <<>>]
    /\ sent = [c \in Client |-> 0]
    /\ limit = [c \in Client |-> 0]
    /\ received = [c \in Client |-> <<>>]
    /\ breaks = 0

-----------------------------------------------------------------------------
(* The services.                                                           *)

(* The bound on events covers those that are about to be stored.           *)
RoomForEvent ==
    Len(events) + Cardinality({e \in Emitter : emitter[e].pc = "append"}) < MaxEvents

(* on_output and resize store a frame, under the lock of the repository,   *)
(* and then emit an event of the session.                                  *)
FrameThenEvent(e) ==
    /\ emitter[e].pc = "idle" /\ RoomForEvent
    /\ Len(frames) < MaxFrames
    /\ frames' = Append(frames, "output")
    /\ emitter' = [emitter EXCEPT ![e] = [Idle EXCEPT !.pc = "append"]]
    /\ UNCHANGED <<events, published, streams, breaks>>

(* write stores its redacted input and emits nothing.                      *)
InputFrame ==
    /\ Len(frames) < MaxFrames
    /\ frames' = Append(frames, "input")
    /\ UNCHANGED <<events, published, emitter, streams, breaks>>

(* Any other change that is announced.                                     *)
Change(e, kind) ==
    /\ emitter[e].pc = "idle" /\ RoomForEvent
    /\ emitter' = [emitter EXCEPT ![e] = [Idle EXCEPT !.pc = "append", !.kind = kind]]
    /\ UNCHANGED <<stores, streams, breaks>>

(* SqlAlchemyEventStore.append.                                            *)
StoreEvent(e) ==
    /\ emitter[e].pc = "append"
    /\ events' = Append(events, emitter[e].kind)
    /\ emitter' = [emitter EXCEPT ![e] =
          [pc |-> "publish", kind |-> emitter[e].kind, seq |-> Len(events) + 1]]
    /\ UNCHANGED <<frames, published, streams, breaks>>

(* Mutation of Publish: a stream gets a queue only once its backlog is sent. *)
PublishToLive(e) ==
    /\ emitter[e].pc = "publish"
    /\ published' = Append(published, emitter[e].seq)
    /\ queue' = [c \in Client |->
          IF pc[c] = "live" THEN Append(queue[c], emitter[e].seq) ELSE queue[c]]
    /\ emitter' = [emitter EXCEPT ![e] = Idle]
    /\ UNCHANGED <<events, frames, pc, last, todo, sent, limit, received, breaks>>

(* InMemoryEventBus.publish: every subscribed queue gets the event.        *)
Subscribed(c) == pc[c] # "closed"
Publish(e) ==
    /\ emitter[e].pc = "publish"
    /\ published' = Append(published, emitter[e].seq)
    /\ queue' = [c \in Client |->
          IF Subscribed(c) THEN Append(queue[c], emitter[e].seq) ELSE queue[c]]
    /\ emitter' = [emitter EXCEPT ![e] = Idle]
    /\ UNCHANGED <<events, frames, pc, last, todo, sent, limit, received, breaks>>

-----------------------------------------------------------------------------
(* The streams.                                                            *)

(* The queue is subscribed before the first query.                         *)
Subscribe(c, max) ==
    /\ pc[c] = "closed"
    /\ pc' = [pc EXCEPT ![c] = "query"]
    /\ limit' = [limit EXCEPT ![c] = max]
    /\ UNCHANGED <<stores, emitter, last, todo, queue, sent, received, breaks>>

Wanted(c, n) == events[n] \in Wants[c]

(* Mutations of Backlog and NextPage: off by one at the last number.       *)
BacklogOffByOne(c) == {n \in 1..Len(events) : n > last[c] + 1 /\ Wanted(c, n)}
NextPageOffByOne(c) == {n \in 1..Len(frames) : n >= last[c] /\ n <= last[c] + Page}
(* list_events, without the events the client has or does not want.        *)
Backlog(c) == {n \in 1..Len(events) : n > last[c] /\ Wanted(c, n)}
(* list_frames: the next page.                                             *)
NextPage(c) == {n \in 1..Len(frames) : n > last[c] /\ n <= last[c] + Page}

(* An event stream queries once; a frame stream queries until there is     *)
(* nothing left.                                                           *)
Query(c) ==
    /\ pc[c] = "query"
    /\ IF c \in EventClient
       THEN /\ todo' = [todo EXCEPT ![c] = Backlog(c)]
            /\ pc' = [pc EXCEPT ![c] = "send"]
       ELSE /\ todo' = [todo EXCEPT ![c] = NextPage(c)]
            /\ pc' = [pc EXCEPT ![c] = IF NextPage(c) = {} THEN "live" ELSE "send"]
    /\ UNCHANGED <<stores, emitter, last, queue, sent, limit, received, breaks>>

LimitReached(c, n) == limit[c] # 0 /\ n >= limit[c]

(* A stream ends: its queue is unsubscribed, its variables are gone.       *)
Ends(c) ==
    /\ pc' = [pc EXCEPT ![c] = "closed"]
    /\ todo' = [todo EXCEPT ![c] = {}]
    /\ queue' = [queue EXCEPT ![c] = <<>>]
    /\ sent' = [sent EXCEPT ![c] = 0]
    /\ limit' = [limit EXCEPT ![c] = 0]

(* An item is sent, after which rows and waiting are left to be dealt      *)
(* with; the stream ends at its limit.                                     *)
Deliver(c, n, rows, waiting) ==
    /\ received' = [received EXCEPT ![c] = Append(@, n)]
    /\ last' = [last EXCEPT ![c] = IF n > @ THEN n ELSE @]
    /\ IF LimitReached(c, sent[c] + 1)
       THEN Ends(c)
       ELSE /\ sent' = [sent EXCEPT ![c] = IF limit[c] = 0 THEN @ ELSE @ + 1]
            /\ todo' = [todo EXCEPT ![c] = rows]
            /\ queue' = [queue EXCEPT ![c] = waiting]
            /\ UNCHANGED <<pc, limit>>

(* Rows are sent in ascending order.                                       *)
SendRow(c) ==
    /\ pc[c] = "send"
    /\ \E n \in todo[c] :
          /\ \A m \in todo[c] : n <= m
          /\ Deliver(c, n, todo[c] \ {n}, queue[c])
    /\ UNCHANGED <<stores, emitter, breaks>>

(* Mutation of RowsSent: one page for each event.                          *)
RowsSentOnce(c) ==
    /\ pc[c] = "send" /\ todo[c] = {}
    /\ pc' = [pc EXCEPT ![c] = "live"]
    /\ UNCHANGED <<stores, emitter, last, todo, queue, sent, limit, received, breaks>>

RowsSent(c) ==
    /\ pc[c] = "send" /\ todo[c] = {}
    /\ pc' = [pc EXCEPT ![c] = IF c \in EventClient THEN "live" ELSE "query"]
    /\ UNCHANGED <<stores, emitter, last, todo, queue, sent, limit, received, breaks>>

Dequeue(c) == queue' = [queue EXCEPT ![c] = Tail(@)]

(* Mutation of Fresh: the queue is not compared with the backlog.          *)
FreshAlways(c, n) == TRUE
(* An event stream drops what it does not want and every number that is    *)
(* not above the last one it sent.                                         *)
Fresh(c, n) == n > last[c]
TakeEvent(c) ==
    LET n == Head(queue[c])
    IN  /\ c \in EventClient
        /\ pc[c] = "live" /\ queue[c] # <<>>
        /\ IF Fresh(c, n) /\ Wanted(c, n)
           THEN Deliver(c, n, {}, Tail(queue[c]))
           ELSE Dequeue(c) /\ UNCHANGED <<pc, last, todo, sent, limit, received>>
        /\ UNCHANGED <<stores, emitter, breaks>>

(* A frame stream takes an event of its session as the sign to query.      *)
TakeWakeup(c) ==
    /\ c \in FrameClient
    /\ pc[c] = "live" /\ queue[c] # <<>>
    /\ Dequeue(c)
    /\ pc' = [pc EXCEPT ![c] = IF events[Head(queue[c])] = SessionKind THEN "query" ELSE @]
    /\ UNCHANGED <<stores, emitter, last, todo, sent, limit, received, breaks>>

(* The deadline of the stream is noticed when it would wait.               *)
TimesOut(c) ==
    /\ pc[c] = "live"
    /\ Ends(c)
    /\ UNCHANGED <<stores, emitter, last, received, breaks>>

(* A send fails; what was to be sent is lost with the stream.              *)
ConnectionBreaks(c) ==
    /\ pc[c] # "closed"
    /\ breaks < MaxBreaks
    /\ breaks' = breaks + 1
    /\ Ends(c)
    /\ UNCHANGED <<stores, emitter, last, received>>

(* The runtime crashes and is started again: events in the hands of an     *)
(* emitter are lost, or stored and never published.                        *)
Crash ==
    /\ breaks < MaxBreaks
    /\ breaks' = breaks + 1
    /\ emitter' = [e \in Emitter |-> Idle]
    /\ pc' = [c \in Client |-> "closed"]
    /\ todo' = [c \in Client |-> {}]
    /\ queue' = [c \in Client |-> <<>>]
    /\ sent' = [c \in Client |-> 0]
    /\ limit' = [c \in Client |-> 0]
    /\ UNCHANGED <<stores, last, received>>

-----------------------------------------------------------------------------
EmitStep(e) == StoreEvent(e) \/ Publish(e)
StreamStep(c) == Query(c) \/ SendRow(c) \/ RowsSent(c) \/ TakeEvent(c) \/ TakeWakeup(c)

Next ==
    \/ \E e \in Emitter :
          \/ FrameThenEvent(e) \/ EmitStep(e)
          \/ \E kind \in Kind : Change(e, kind)
    \/ InputFrame
    \/ \E c \in Client :
          \/ \E max \in Limits : Subscribe(c, max)
          \/ StreamStep(c) \/ TimesOut(c) \/ ConnectionBreaks(c)
    \/ Crash

Spec == Init /\ [][Next]_vars

(* The event loop runs the emitters and the streams.                       *)
FairSpec ==
    /\ Spec
    /\ \A e \in Emitter : WF_vars(EmitStep(e))
    /\ \A c \in Client : WF_vars(StreamStep(c))

-----------------------------------------------------------------------------
Increasing(s) == \A i, j \in 1..Len(s) : i < j => s[i] < s[j]
Has(s, n) == \E i \in 1..Len(s) : s[i] = n

(* What is in the backlog and also in the queue is sent once, and events   *)
(* arrive in the order of their numbers, on one stream and from one stream *)
(* to the next.                                                            *)
EventsInOrder == \A c \in EventClient : Increasing(received[c])

(* In the order of publication p a later event comes before n.             *)
Overtaken(p, n) ==
    \E i \in 1..Len(p) :
        /\ p[i] > n
        /\ \A j \in 1..i : p[j] # n

(* The filter by sequence number costs a client no event but those that    *)
(* were published out of order: one that the client wanted and that is     *)
(* below the last number it received has been received or was overtaken.   *)
NothingSkipped ==
    \A c \in EventClient : \A n \in 1..Len(events) :
        n <= last[c] /\ Wanted(c, n) => Has(received[c], n) \/ Overtaken(published, n)

(* A terminal's frames arrive from the first one on, each once, without a  *)
(* gap, whatever page, limit, crash or reconnection comes in between.      *)
FramesInOrder ==
    \A c \in FrameClient : \A i \in 1..Len(received[c]) : received[c][i] = i

(* What a client has received, over all its streams: each item once, in    *)
(* order, and no gap but of events that were overtaken.                    *)
StreamsAreFaithful == EventsInOrder /\ NothingSkipped /\ FramesInOrder

(* A frame that is followed by an event reaches every open stream: the     *)
(* event is published after the frame is stored, so no query that misses   *)
(* the frame can be the last one.                                          *)
FramesArrive ==
    \A c \in FrameClient : \A n \in 1..MaxFrames :
        (n <= Len(frames) /\ frames[n] = "output" /\ Subscribed(c))
            ~> (Has(received[c], n) \/ ~Subscribed(c))

(* An open stream receives every event it wants once it is published, if   *)
(* it was not overtaken: also when it is published between the             *)
(* subscription, the query and the first look at the queue.                *)
EventsArrive ==
    \A c \in EventClient : \A n \in 1..MaxEvents :
        (Has(published, n) /\ Wanted(c, n) /\ ~Overtaken(published, n) /\ Subscribed(c))
            ~> (Has(received[c], n) \/ ~Subscribed(c))
-----------------------------------------------------------------------------
(* The inductive invariant.  An event is published once, after it was      *)
(* stored.                                                                 *)
BusInv ==
    /\ \A e \in Emitter : emitter[e].pc = "publish" =>
          emitter[e].seq \in 1..Len(events) /\ ~Has(published, emitter[e].seq)
    /\ \A e, f \in Emitter : emitter[e].pc = "publish" /\ emitter[f].pc = "publish" =>
          e = f \/ emitter[e].seq # emitter[f].seq
    /\ \A i \in 1..Len(published) : published[i] \in 1..Len(events)

(* The backlog holds every wanted event up to its last one.                *)
BacklogInv(c) ==
    \A m \in todo[c] :
        /\ m \in 1..Len(events) /\ m > last[c]
        /\ \A n \in 1..Len(events) : last[c] < n /\ n < m /\ Wanted(c, n) => n \in todo[c]

(* Whatever is published and not yet sent is in the backlog or the queue,  *)
(* and a number behind a greater one in the queue was overtaken.           *)
PendingInv(c) ==
    pc[c] \in {"send", "live"} =>
        \A n \in 1..Len(events) : Has(published, n) /\ n > last[c] /\ Wanted(c, n) =>
            n \in todo[c] \/ Has(queue[c], n)
QueueInv(c) ==
    /\ \A i \in 1..Len(queue[c]) : Has(published, queue[c][i])
    /\ \A i, j \in 1..Len(queue[c]) :
          i < j /\ queue[c][i] > queue[c][j] => Overtaken(published, queue[c][j])

EventInv(c) ==
    /\ last[c] <= Len(events)
    /\ \A i \in 1..Len(received[c]) : received[c][i] <= last[c]
    /\ Increasing(received[c])
    /\ pc[c] # "send" => todo[c] = {}
    /\ pc[c] = "closed" => queue[c] = <<>>
    /\ BacklogInv(c) /\ PendingInv(c) /\ QueueInv(c)
    /\ \A n \in 1..Len(events) :
          n <= last[c] /\ Wanted(c, n) => Has(received[c], n) \/ Overtaken(published, n)

(* A frame client has received the frames 1 to last, and a page goes on    *)
(* with the next one.                                                      *)
FrameInv(c) ==
    /\ Len(received[c]) = last[c]
    /\ \A i \in 1..Len(received[c]) : received[c][i] = i
    /\ \A m \in todo[c] :
          /\ m \in 1..Len(frames) /\ m > last[c]
          /\ \A n \in 1..Len(frames) : last[c] < n /\ n < m => n \in todo[c]

StreamInv ==
    /\ BusInv
    /\ \A c \in EventClient : EventInv(c)
    /\ \A c \in FrameClient : FrameInv(c)
=============================================================================
