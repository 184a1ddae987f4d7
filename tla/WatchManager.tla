---------------------------- MODULE WatchManager ----------------------------
(***************************************************************************)
(* The WatchManager of src/src/watch.ts: the singleton of a namespace that *)
(* multiplexes its Watchers over one gRPC stream, with the AttachQueue     *)
(* that creates them on the server one at a time.                          *)
(*                                                                         *)
(* JavaScript runs one callback at a time, so one action is one callback:  *)
(* a call of the user (new Watcher, cancel()), the resolution of           *)
(* client.watch(), a 'data', 'error' or 'end' event of a stream, a timer,  *)
(* a promise continuation.  The etcd server and the gRPC stream are        *)
(* external and modelled from what watch.ts expects of them: per stream,   *)
(* two FIFO channels and a table of watches whose ids the server assigns.  *)
(*                                                                         *)
(* The arrays `watchers` and `queue` only ever append the newest watcher   *)
(* and drop elements, so both stay in the order in which the watchers were *)
(* attached.  Each is the set of its elements, with rank[w] the position   *)
(* of w in that order.                                                     *)
(***************************************************************************)
EXTENDS Naturals, Sequences

CONSTANTS
    Watcher,    \* the Watcher objects the program may create
    Stream,     \* slots for gRPC streams; a slot is reused once its stream is gone
    None,       \* no stream; also an entry of the server's table that was cancelled
    FaultKinds, \* what the environment may do: see Fault
    MaxFaults,  \* bound: how many faults the environment injects in a behaviour
    AttachInGap \* whether the user may create a watcher in a 'disconnected'
                \* listener, which runs between a stream's 'error' and its 'end'

\* The ways in which the environment may deviate from a stable connection.
Fault == {"openFail",  \* client.watch() rejects
          "fail",      \* an open stream breaks
          "end",       \* the server closes a stream gracefully
          "refuse",    \* the server answers a create with created + canceled
          "drop"}      \* the server cancels a watch nobody asked it to cancel

ASSUME WatchAssumption ==
    /\ None \notin Watcher \cup Stream
    /\ FaultKinds \subseteq Fault
    /\ AttachInGap \in BOOLEAN
    /\ MaxFaults \in Nat

VARIABLES
    state,           \* WatchManager.state
    stream,          \* WatchManager.stream, the current stream
    watchers,        \* WatchManager.watchers
    expectedClosers, \* WatchManager.expectedClosers
    timers,          \* number of reconnect timers set and not yet fired
    thrown,          \* a ClientRuntimeError escaped from a stream's listener
    queue,           \* AttachQueue.queue of the current stream
    queueState,      \* AttachQueue.state
    rank,            \* position of a watcher in attach order, 0 before it exists
    attaches,        \* number of watchers attached so far
    id,              \* Watcher.id
    fired,           \* which of 'end' and 'error' a watcher has emitted
    cancelling,      \* how far a watcher's cancel() promise has got
    phase,           \* the life of each stream
    toServer,        \* requests in flight on each stream
    toClient,        \* responses in flight on each stream
    served,          \* the server's table of each stream: id |-> watcher
    faults           \* number of faults injected so far

manager == <<state, stream, watchers, expectedClosers, timers, thrown>>
attachQueue == <<queue, queueState>>
objects == <<rank, attaches, id, fired, cancelling>>
links == <<phase, toServer, toClient, served>>
vars == <<manager, attachQueue, objects, links, faults>>

NoId == 0                      \* `null`; the server's ids are 1, 2, ...

\* A stream slot is "none" (free), "opening" (client.watch() is in flight),
\* "open", "errorDue" (broken or cancelled, its 'error' event is to come) or
\* "endDue" (its 'error' event has fired and its 'end' event is to come).
Phase == {"none", "opening", "open", "errorDue", "endDue"}

\* cancel() is "no" (not called), waits for an "id", is to "resume" after
\* the event it waited for, waits for the "end" event, or is "done".
CancelState == {"no", "id", "resume", "end", "done"}

CreateRequest(w) == [kind |-> "create", id |-> NoId, owner |-> w]
CancelRequest(w) == [kind |-> "cancel", id |-> id[w], owner |-> w]

\* `owner` is for the properties: the watcher a message is about.  The
\* client's handlers never look at it.
Response(k, i, w) == [kind |-> k, id |-> i, owner |-> w]

Request == [kind : {"create", "cancel"}, id : Nat, owner : Watcher]
Answer == [kind : {"created", "refused", "canceled", "data"},
           id : Nat, owner : Watcher]

Init ==
    /\ state = "Idle" /\ stream = None /\ watchers = {}
    /\ expectedClosers = {} /\ timers = 0 /\ thrown = FALSE
    /\ queue = {} /\ queueState = "Idle"
    /\ rank = [w \in Watcher |-> 0] /\ attaches = 0
    /\ id = [w \in Watcher |-> NoId]
    /\ fired = [w \in Watcher |-> {}]
    /\ cancelling = [w \in Watcher |-> "no"]
    /\ phase = [s \in Stream |-> "none"]
    /\ toServer = [s \in Stream |-> <<>>]
    /\ toClient = [s \in Stream |-> <<>>]
    /\ served = [s \in Stream |-> <<>>]
    /\ faults = 0

-----------------------------------------------------------------------------
(***************************************************************************)
(* Helpers.                                                                *)
(***************************************************************************)

\* Seeded bug: pop() in place of shift().
Last(S) == CHOOSE w \in S : \A v \in S : rank[v] <= rank[w]

\* The element of an array of watchers that shift() or find() returns.
First(S) == CHOOSE w \in S : \A v \in S : rank[w] <= rank[v]

Holding(i) == {w \in watchers : id[w] = i}

\* No callback but user code called from a 'disconnected' listener runs
\* between the 'error' event of a stream and its 'end' event.
Gap == \E s \in Stream : phase[s] = "endDue"

\* The event loop may take up a new event: no 'end' and no promise
\* continuation (a microtask) of the last one is left to run.
Turn == ~Gap /\ \A w \in Watcher : cancelling[w] # "resume"

\* The requests in flight once m is written to s; a write to a stream that
\* is not open is lost.  ph is the phase of the streams at the write.
Write(ph, s, m) ==
    IF ph[s] = "open" THEN [toServer EXCEPT ![s] = Append(@, m)] ELSE toServer

Cancelled(ph, s) == IF ph[s] = "open" THEN [ph EXCEPT ![s] = "errorDue"] ELSE ph

\* The streams take phase ph; what was in flight on one not open is gone,
\* and so is the server's table of it.
Links(ph, down) ==
    LET Keep(f) == [s \in Stream |-> IF ph[s] = "open" THEN f[s] ELSE <<>>]
    IN  /\ phase' = ph
        /\ toServer' = Keep(toServer)
        /\ toClient' = Keep(down)
        /\ served' = Keep(served)

Inject(k) ==
    /\ k \in FaultKinds
    /\ faults < MaxFaults
    /\ faults' = faults + 1

\* Seeded bug: readQueue without its early return for an empty queue.
ReadQueueNoReturn(q, ph, s) ==
    /\ queue' = q
    /\ queueState' = "Attaching"
    /\ toServer' = IF q = {} THEN toServer
                             ELSE Write(ph, s, CreateRequest(First(q)))

\* AttachQueue.readQueue, the queue being q: create its first watcher on s.
ReadQueue(q, ph, s) ==
    /\ queue' = q
    /\ queueState' = IF q = {} THEN "Idle" ELSE "Attaching"
    /\ toServer' = IF q = {} THEN toServer
                             ELSE Write(ph, s, CreateRequest(First(q)))

\* Seeded bugs: attach() that reads the queue in any state, or in none.
EnqueueEagerly(w) == ReadQueue(queue \cup {w}, phase, stream)
EnqueueOnly(w) == queue' = queue \cup {w} /\ UNCHANGED <<queueState, toServer>>

\* AttachQueue.attach of one watcher.
Enqueue(w) ==
    IF queueState = "Idle"
    THEN ReadQueue(queue \cup {w}, phase, stream)
    ELSE queue' = queue \cup {w} /\ UNCHANGED <<queueState, toServer>>

\* Seeded bug: destroy() that leaves the third state of the enum QueueState.
DestroyQueueReading == queue' = {} /\ queueState' = "ReadingRevision"

DestroyQueue == queue' = {} /\ queueState' = "Idle"

\* The watchers in S emit 'end', which resolves the cancel()s that wait for it.
EmitEnd(S) ==
    /\ fired' = [w \in Watcher |-> fired[w] \cup IF w \in S THEN {"end"} ELSE {}]
    /\ cancelling' = [w \in Watcher |-> IF w \in S /\ cancelling[w] = "end"
                                        THEN "done" ELSE cancelling[w]]

EmitError(w) ==
    /\ fired' = [fired EXCEPT ![w] = @ \cup {"error"}]
    /\ UNCHANGED cancelling

\* 'connected' or 'disconnected' of the watchers in S wakes a cancel() that
\* waits for an id.
Wake(S) ==
    cancelling' = [w \in Watcher |-> IF w \in S /\ cancelling[w] = "id"
                                     THEN "resume" ELSE cancelling[w]]

\* Seeded bug: the expected closers are cleared before they emit 'end'.
EstablishStreamSilently(ws) ==
    /\ state' = "Connecting"
    /\ watchers' = ws \ expectedClosers
    /\ UNCHANGED <<fired, cancelling>>
    /\ expectedClosers' = {}
    /\ \E s \in Stream :
         /\ phase[s] = "none"
         /\ phase' = [phase EXCEPT ![s] = "opening"]

\* WatchManager.establishStream, past its early return; ws is watchers.
EstablishStream(ws) ==
    /\ state' = "Connecting"
    /\ watchers' = ws \ expectedClosers
    /\ EmitEnd(expectedClosers)
    /\ expectedClosers' = {}
    /\ \E s \in Stream :
         /\ phase[s] = "none"
         /\ phase' = [phase EXCEPT ![s] = "opening"]

\* Seeded bug: handleError keeps the ids of the broken stream.
KeepIds == id

ResetIds == [w \in Watcher |-> IF w \in watchers THEN NoId ELSE id[w]]

\* Seeded bug: only the loss of an established connection is retried.
ScheduleIfConnected ==
    timers' = IF state = "Connected" THEN timers + 1 ELSE timers

ScheduleReconnect == timers' = timers + 1

\* WatchManager.handleError; ph is the phase of the streams at the call.
HandleError(ph) ==
    /\ IF state = "Connected"
       THEN DestroyQueue /\ Links(Cancelled(ph, stream), toClient)
       ELSE UNCHANGED attachQueue /\ Links(ph, toClient)
    /\ state' = "Idle"
    /\ id' = ResetIds
    /\ Wake(watchers)
    /\ ScheduleReconnect
    /\ UNCHANGED <<stream, watchers, expectedClosers, thrown, rank, attaches, fired>>

-----------------------------------------------------------------------------
(***************************************************************************)
(* Calls of the user.                                                      *)
(***************************************************************************)

\* new Watcher(...), which calls WatchManager.attach.
Attach(w) ==
    /\ rank[w] = 0
    /\ Gap => AttachInGap
    /\ attaches' = attaches + 1
    /\ rank' = [rank EXCEPT ![w] = attaches']
    /\ UNCHANGED <<stream, timers, thrown, id, toClient, served, faults>>
    /\ \/ /\ state = "Idle"
          /\ EstablishStream(watchers \cup {w})
          /\ UNCHANGED <<attachQueue, toServer>>
       \/ /\ state = "Connecting"
          /\ watchers' = watchers \cup {w}
          /\ UNCHANGED <<state, expectedClosers, attachQueue, fired,
                         cancelling, phase, toServer>>
       \/ /\ state = "Connected"
          /\ watchers' = watchers \cup {w}
          /\ Enqueue(w)
          /\ UNCHANGED <<state, expectedClosers, fired, cancelling, phase>>

\* WatchManager.detach: a manager that is not connected forgets the watcher,
\* a watcher with no id waits for one, any other is cancelled on the server.
Detach(w) ==
    /\ UNCHANGED <<state, stream, timers, thrown, attachQueue, rank, attaches,
                   id, fired, phase, toClient, served, faults>>
    /\ \/ /\ state # "Connected"
          /\ watchers' = watchers \ {w}
          /\ cancelling' = [cancelling EXCEPT ![w] = "done"]
          /\ UNCHANGED <<expectedClosers, toServer>>
       \/ /\ state = "Connected"
          /\ id[w] = NoId
          /\ cancelling' = [cancelling EXCEPT ![w] = "id"]
          /\ UNCHANGED <<watchers, expectedClosers, toServer>>
       \/ /\ state = "Connected"
          /\ id[w] # NoId
          /\ expectedClosers' = expectedClosers \cup {w}
          /\ toServer' = Write(phase, stream, CancelRequest(w))
          /\ cancelling' = [cancelling EXCEPT ![w] = "end"]
          /\ UNCHANGED watchers

\* Watcher.cancel.  The user cancels a watcher once, and not after it ended
\* or failed.
Cancel(w) ==
    /\ w \in watchers
    /\ cancelling[w] = "no"
    /\ Detach(w)

\* The continuation of a cancel() that waited for 'connected' or 'disconnected'.
DetachResume(w) ==
    /\ ~Gap
    /\ cancelling[w] = "resume"
    /\ Detach(w)

-----------------------------------------------------------------------------
(***************************************************************************)
(* Events of the streams and of the reconnect timers.                      *)
(***************************************************************************)

\* client.watch() resolves.  If every watcher left in the meantime, the new
\* stream is destroyed at once.
StreamOpens(s) ==
    /\ Turn
    /\ phase[s] = "opening"
    /\ state' = "Connected"
    /\ stream' = s
    /\ IF watchers = {}
       THEN /\ phase' = [phase EXCEPT ![s] = "errorDue"]
            /\ DestroyQueue
            /\ UNCHANGED toServer
       ELSE /\ phase' = [phase EXCEPT ![s] = "open"]
            /\ ReadQueue(watchers, phase', s)
    /\ UNCHANGED <<watchers, expectedClosers, timers, thrown, objects,
                   toClient, served, faults>>

\* client.watch() rejects.
OpenFails(s) ==
    /\ Turn
    /\ phase[s] = "opening"
    /\ Inject("openFail")
    /\ HandleError([phase EXCEPT ![s] = "none"])

\* An open stream breaks; the program has not been told yet.
StreamFails(s) ==
    /\ phase[s] = "open"
    /\ Inject("fail")
    /\ Links([phase EXCEPT ![s] = "errorDue"], toClient)
    /\ UNCHANGED <<manager, attachQueue, objects>>

\* The 'error' event of a broken or cancelled stream.
StreamError(s) ==
    /\ Turn
    /\ phase[s] = "errorDue"
    /\ HandleError([phase EXCEPT ![s] = "endDue"])
    /\ UNCHANGED faults

\* The 'end' event that follows it.
StreamEnd(s) ==
    /\ phase[s] = "endDue"
    /\ HandleError([phase EXCEPT ![s] = "none"])
    /\ UNCHANGED faults

\* The server closes the stream with status OK, having sent all it had to:
\* 'end' with no 'error'.
GracefulEnd(s) ==
    /\ Turn
    /\ phase[s] = "open"
    /\ toClient[s] = <<>>
    /\ Inject("end")
    /\ HandleError([phase EXCEPT ![s] = "none"])

\* Seeded bug: the timer does not look at the state again.
TimerFiresUnchecked ==
    /\ Turn
    /\ timers > 0
    /\ timers' = timers - 1
    /\ IF watchers # {}
       THEN EstablishStream(watchers)
       ELSE UNCHANGED <<state, watchers, expectedClosers, fired, cancelling, phase>>
    /\ UNCHANGED <<stream, thrown, attachQueue, rank, attaches, id,
                   toServer, toClient, served, faults>>

\* A reconnect timer fires: establishStream if the manager is still idle and
\* has watchers.
TimerFires ==
    /\ Turn
    /\ timers > 0
    /\ timers' = timers - 1
    /\ IF state = "Idle" /\ watchers # {}
       THEN EstablishStream(watchers)
       ELSE UNCHANGED <<state, watchers, expectedClosers, fired, cancelling, phase>>
    /\ UNCHANGED <<stream, thrown, attachQueue, rank, attaches, id,
                   toServer, toClient, served, faults>>

-----------------------------------------------------------------------------
(***************************************************************************)
(* Responses of the server, delivered on an open stream.                   *)
(***************************************************************************)

Arrives(s, kind) ==
    /\ Turn
    /\ phase[s] = "open"
    /\ toClient[s] # <<>>
    /\ Head(toClient[s]).kind = kind

Received(s) == [toClient EXCEPT ![s] = Tail(@)]

\* A ClientRuntimeError escapes from the listener, which does nothing else.
Throw(s) ==
    /\ thrown' = TRUE
    /\ toClient' = Received(s)
    /\ UNCHANGED <<state, stream, watchers, expectedClosers, timers,
                   attachQueue, objects, phase, toServer, served, faults>>

\* AttachQueue.handleCreate.
OnCreated(s) ==
    /\ Arrives(s, "created")
    /\ IF queue = {}
       THEN Throw(s)
       ELSE LET w == First(queue)
            IN  /\ id' = [id EXCEPT ![w] = Head(toClient[s]).id]
                /\ Wake({w})
                /\ ReadQueue(queue \ {w}, phase, stream)
                /\ toClient' = Received(s)
                /\ UNCHANGED <<manager, rank, attaches, fired, phase,
                               served, faults>>

\* A canceled watcher ends if its user asked for it and fails otherwise.
Finish(w) == IF w \in expectedClosers THEN EmitEnd({w}) ELSE EmitError(w)

\* WatchManager.handleCancelResponse, down being what is still in flight.
\* The caller says whether to destroy the stream once no watcher is left.
HandleCancelResponse(w, down, destroy) ==
    /\ watchers' = watchers \ {w}
    /\ expectedClosers' = expectedClosers \ {w}
    /\ Finish(w)
    /\ IF destroy /\ watchers' = {}
       THEN DestroyQueue /\ Links(Cancelled(phase, stream), down)
       ELSE UNCHANGED attachQueue /\ Links(phase, down)
    /\ UNCHANGED <<state, stream, timers, thrown, rank, attaches, id, faults>>

\* WatchManager.handleCreatedResponse of a response that is also canceled.
OnRefused(s) ==
    /\ Arrives(s, "refused")
    /\ IF Holding(NoId) = {}
       THEN Throw(s)
       ELSE HandleCancelResponse(First(Holding(NoId)), Received(s), FALSE)

\* WatchManager.handleResponse of a canceled response.
OnCanceled(s) ==
    /\ Arrives(s, "canceled")
    /\ LET S == Holding(Head(toClient[s]).id)
       IN  IF S = {} THEN Throw(s)
                     ELSE HandleCancelResponse(First(S), Received(s), TRUE)

\* WatchManager.handleResponse of a data response: 'data' on the watcher.
OnData(s) ==
    /\ Arrives(s, "data")
    /\ IF Holding(Head(toClient[s]).id) = {}
       THEN Throw(s)
       ELSE /\ toClient' = Received(s)
            /\ UNCHANGED <<manager, attachQueue, objects, phase, toServer,
                           served, faults>>

-----------------------------------------------------------------------------
(***************************************************************************)
(* The etcd server (external).                                             *)
(***************************************************************************)

Asked(s, kind) == toServer[s] # <<>> /\ Head(toServer[s]).kind = kind

\* The server handles the first request on s and answers with the sequence a.
Answers(s, a) ==
    /\ toServer' = [toServer EXCEPT ![s] = Tail(@)]
    /\ toClient' = [toClient EXCEPT ![s] = @ \o a]
    /\ UNCHANGED <<manager, attachQueue, objects, phase>>

ServerCreates(s) ==
    /\ Asked(s, "create")
    /\ LET w == Head(toServer[s]).owner
       IN  /\ Answers(s, <<Response("created", Len(served[s]) + 1, w)>>)
           /\ served' = [served EXCEPT ![s] = Append(@, w)]
    /\ UNCHANGED faults

ServerRefuses(s) ==
    /\ Asked(s, "create")
    /\ Answers(s, <<Response("refused", NoId, Head(toServer[s]).owner)>>)
    /\ Inject("refuse")
    /\ UNCHANGED served

Serves(s, i) == i \in DOMAIN served[s] /\ served[s][i] # None

\* A cancel of an id that the server does not serve gets no answer.
ServerCancels(s) ==
    /\ Asked(s, "cancel")
    /\ LET i == Head(toServer[s]).id
       IN  IF Serves(s, i)
           THEN /\ Answers(s, <<Response("canceled", i, served[s][i])>>)
                /\ served' = [served EXCEPT ![s][i] = None]
           ELSE Answers(s, <<>>) /\ UNCHANGED served
    /\ UNCHANGED faults

\* The server cancels a watch on its own.
ServerDrops(s) ==
    \E i \in DOMAIN served[s] :
        /\ Serves(s, i)
        /\ Inject("drop")
        /\ toClient' = [toClient EXCEPT ![s] = Append(@, Response("canceled", i, served[s][i]))]
        /\ served' = [served EXCEPT ![s][i] = None]
        /\ UNCHANGED <<manager, attachQueue, objects, phase, toServer>>

\* The server reports an event.  Bound: one report per watch is in flight.
ServerSends(s) ==
    \E i \in DOMAIN served[s] :
        LET m == Response("data", i, served[s][i])
        IN  /\ Serves(s, i)
            /\ \A k \in DOMAIN toClient[s] : toClient[s][k] # m
            /\ toClient' = [toClient EXCEPT ![s] = Append(@, m)]
            /\ UNCHANGED <<manager, attachQueue, objects, phase, toServer,
                           served, faults>>

-----------------------------------------------------------------------------
User == \E w \in Watcher : Attach(w) \/ Cancel(w)

Events(s) ==
    \/ StreamOpens(s) \/ OpenFails(s) \/ StreamFails(s)
    \/ StreamError(s) \/ StreamEnd(s) \/ GracefulEnd(s)
    \/ OnCreated(s) \/ OnRefused(s) \/ OnCanceled(s) \/ OnData(s)

Server(s) ==
    \/ ServerCreates(s) \/ ServerRefuses(s) \/ ServerCancels(s)
    \/ ServerDrops(s) \/ ServerSends(s)

Next ==
    \/ User
    \/ \E w \in Watcher : DetachResume(w)
    \/ \E s \in Stream : Events(s) \/ Server(s)
    \/ TimerFires

Spec == Init /\ [][Next]_vars

\* The event loop runs every callback that is due, and a server that is
\* connected answers every request.  Nothing obliges the user, the faults or
\* a report of an event.
Fairness ==
    /\ WF_vars(TimerFires)
    /\ \A w \in Watcher : WF_vars(DetachResume(w))
    /\ \A s \in Stream :
        /\ WF_vars(StreamOpens(s))
        /\ WF_vars(StreamError(s))
        /\ WF_vars(StreamEnd(s))
        /\ WF_vars(OnCreated(s) \/ OnRefused(s) \/ OnCanceled(s) \/ OnData(s))
        /\ WF_vars(ServerCreates(s) \/ ServerCancels(s))

FairSpec == Spec /\ Fairness

-----------------------------------------------------------------------------
(***************************************************************************)
(* Properties.                                                             *)
(***************************************************************************)

\* Types, and the bounds on the counters.
TypeOK ==
    /\ state \in {"Idle", "Connecting", "Connected"}
    /\ stream \in Stream \cup {None}
    /\ watchers \subseteq Watcher
    /\ expectedClosers \subseteq Watcher
    /\ timers \in Nat
    /\ thrown \in BOOLEAN
    /\ queue \subseteq Watcher
    /\ queueState \in {"Idle", "Attaching"}
    /\ rank \in [Watcher -> Nat]
    /\ attaches \in Nat
    /\ id \in [Watcher -> Nat]
    /\ fired \in [Watcher -> SUBSET {"end", "error"}]
    /\ cancelling \in [Watcher -> CancelState]
    /\ phase \in [Stream -> Phase]
    /\ toServer \in [Stream -> Seq(Request)]
    /\ toClient \in [Stream -> Seq(Answer)]
    /\ served \in [Stream -> Seq(Watcher \cup {None})]
    /\ faults \in 0..MaxFaults

\* watch.ts:103-106: the manager multiplexes all keys over a single stream.
\* Never are two streams opening or open, and `stream` is the one that is
\* open, for all the timers, errors and 'end' events that race to replace it.
SingleStream ==
    /\ \A s, t \in Stream :
         {phase[s], phase[t]} \subseteq {"opening", "open"} => s = t
    /\ \A s \in Stream :
         /\ phase[s] = "open" => state = "Connected" /\ stream = s
         /\ phase[s] = "opening" => state = "Connecting"

\* The watcher that the handlers of watch.ts pick for the response m.
Picked(m) ==
    LET S == IF m.kind = "created" THEN queue
             ELSE IF m.kind = "refused" THEN Holding(NoId) ELSE Holding(m.id)
    IN  IF S = {} THEN None ELSE First(S)

\* The lookups of handleCreate, handleCreatedResponse and handleResponse
\* (first of the queue, first without an id, first with the id) find the
\* watcher that the server means, so that no event, refusal or cancellation
\* reaches another user's watcher and no lookup throws a ClientRuntimeError.
ResponsesRouted ==
    \A s \in Stream : toClient[s] # <<>> =>
        Picked(Head(toClient[s])) = Head(toClient[s]).owner

\* watch.ts:584-586, "Cancels the watcher": a cancel request names no watch
\* of another watcher.  The server may already have ended the one it names.
CancelsOwnWatch ==
    \A s \in Stream : \A k \in DOMAIN toServer[s] :
        LET m == toServer[s][k]
        IN  m.kind = "cancel" /\ m.id \in DOMAIN served[s] =>
                served[s][m.id] \in {m.owner, None}

\* Ids and the queue never take one watcher for another, in what arrives and
\* in what is sent (watch.ts:338-357 and 584-589).
RoutedToOwner == ResponsesRouted /\ CancelsOwnWatch

\* The creates of s that the server has not answered, or whose answer the
\* client has not seen.
Creating(s) ==
    {k \in DOMAIN toServer[s] : toServer[s][k].kind = "create"} \X {"toServer"}
    \cup
    {k \in DOMAIN toClient[s] : toClient[s][k].kind \in {"created", "refused"}}
      \X {"toClient"}

\* watch.ts:30-33: watchers are attached one at a time; a 'created' response
\* names no watcher, so two creates in flight could not be told apart.
OneAttachAtATime ==
    \A s \in Stream : \A c, d \in Creating(s) : c = d

\* The queue never waits for nothing: while it is Attaching on an open
\* stream, a create is in flight (watch.ts:60-63, "fires the next one as
\* necessary").
AttachInFlight ==
    \A s \in Stream :
        (phase[s] = "open" /\ stream = s /\ queueState = "Attaching")
            => Creating(s) # {}

\* As long as there is a watcher, the manager is connected, or connecting,
\* or is going to be told of an error, or has a timer that will reconnect.
ReconnectScheduled ==
    watchers # {} =>
        \/ state = "Connecting" /\ \E s \in Stream : phase[s] = "opening"
        \/ state = "Idle" /\ timers > 0
        \/ state = "Connected" /\ phase[stream] \in {"open", "errorDue"}

\* What makes SingleStream and ReconnectScheduled inductive when no watcher
\* is attached in a gap: one slot at most is in use, its phase and the state
\* determine each other, and an idle manager with watchers has a timer.
ConnectionInv ==
    /\ \A s, t \in Stream : phase[s] # "none" /\ phase[t] # "none" => s = t
    /\ \A s \in Stream :
         /\ phase[s] = "opening" => state = "Connecting"
         /\ phase[s] \in {"open", "errorDue"} => state = "Connected" /\ stream = s
         /\ phase[s] = "endDue" => state = "Idle"
    /\ state = "Connecting" => \E s \in Stream : phase[s] = "opening"
    /\ state = "Connected" => stream \in Stream /\ phase[stream] \in {"open", "errorDue"}
    /\ state = "Idle" /\ watchers # {} => timers > 0

\* The manager implements the life of watchers that it promises.
Status(w) ==
    IF rank[w] = 0 THEN "new"
    ELSE IF "end" \in fired[w] THEN "closed"
    ELSE IF "error" \in fired[w] THEN "failed"
    ELSE IF w \notin watchers THEN "closed"
    ELSE IF id[w] # NoId THEN "subscribed" ELSE "subscribing"

Lifecycle == INSTANCE WatcherLifecycle WITH
    socket <- state,
    status <- [w \in Watcher |-> Status(w)],
    asked <- {w \in Watcher : cancelling[w] # "no"}

ImplementsLifecycle == Lifecycle!Spec

\* Once faults stop, every watcher gets its id, unless it is cancelled or
\* the server cancels it.
EventuallySubscribed ==
    \A w \in Watcher : w \in watchers ~> (w \notin watchers \/ id[w] # NoId)

\* Every cancel() resolves.
CancelResolves ==
    \A w \in Watcher : (cancelling[w] # "no") ~> (cancelling[w] = "done")

=============================================================================
