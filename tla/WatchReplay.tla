----------------------------- MODULE WatchReplay -----------------------------
(***************************************************************************)
(* The revisions of one Watcher of src/src/watch.ts: from which revision   *)
(* it asks to be created again after each disconnection, and which events  *)
(* its listeners see in the end.  WatchManager has the connection, the ids *)
(* and the queue; here a watcher is down, being created, or connected.     *)
(*                                                                         *)
(* A revision is a natural number.  Those in `events` changed a key of the *)
(* watcher, the others changed something else.  The pool connects to any   *)
(* member of the cluster, and one member may lag behind another.           *)
(***************************************************************************)
EXTENDS Naturals, Sequences

CONSTANTS
    MaxRev,        \* bound: the last revision of the store
    MaxBreaks,     \* bound: how often the stream breaks
    BreakInReplay  \* whether it may break while a backlog is being sent

ASSUME ReplayAssumption ==
    /\ MaxRev \in Nat \ {0}
    /\ MaxBreaks \in Nat
    /\ BreakInReplay \in BOOLEAN

Revision == 1..MaxRev
Unset == 0  \* start_revision before the first response; no watch at the server

VARIABLES
    conn,      \* "down", "creating", "connected", or "error" for good
    start,     \* request.start_revision
    delivered, \* how often each revision was emitted to the listeners
    rev,       \* the revision of the store
    events,    \* the revisions that changed a key of the watcher
    compacted, \* the store no longer has the events below this revision
    local,     \* the revision of the member at the end of the stream
    next,      \* the next revision that member will send
    toClient,  \* responses in flight
    stamped,   \* the last header.revision ahead of events yet to be sent
    promised,  \* the first revision the watcher was created for
    lagged,    \* the stream was moved to a member behind what was seen
    breaks

watcher == <<conn, start, delivered>>
store == <<rev, events, compacted>>
server == <<local, next, toClient, stamped>>
history == <<promised, lagged, breaks>>
vars == <<watcher, store, server, history>>

Response == [kind : {"created", "data", "canceled"},
             revision : Revision, events : SUBSET Revision]

TypeOK ==
    /\ conn \in {"down", "creating", "connected", "error"}
    /\ start \in 0..MaxRev + 1
    /\ delivered \in [Revision -> Nat]
    /\ rev \in Revision
    /\ events \subseteq 2..rev
    /\ compacted \in 0..rev
    /\ local \in 1..rev
    /\ next \in 0..MaxRev + 1
    /\ toClient \in Seq(Response)
    /\ stamped \in 0..rev
    /\ promised \in 0..MaxRev + 1
    /\ lagged \in BOOLEAN
    /\ breaks \in 0..MaxBreaks

\* startRevision() may have been called, with a revision the program knows.
Init ==
    /\ conn = "down"
    /\ start \in {Unset, 1, 2}
    /\ delivered = [r \in Revision |-> 0]
    /\ rev = 1
    /\ events = {}
    /\ compacted = 0
    /\ local = 1
    /\ next = Unset
    /\ toClient = <<>>
    /\ stamped = 0
    /\ promised = Unset
    /\ lagged = FALSE
    /\ breaks = 0

(***************************************************************************)
(* The watcher                                                             *)
(***************************************************************************)
\* Seeded bug: the revision just seen is asked for again.
UpdateRevisionSame(res) == start' = res.revision

\* Seeded bug: a revision is added twice.
UpdateRevisionTwice(res) == start' = res.revision + 2

\* Watcher.updateRevision, on 'connected' and at the end of 'data'.
UpdateRevision(res) == start' = res.revision + 1

\* AttachQueue.readQueue, for the first time or after a reconnection, which
\* goes to whatever member the pool picks.
Create ==
    /\ conn = "down"
    /\ conn' = "creating"
    /\ local' \in 1..rev
    /\ lagged' = (lagged \/ local' + 1 < start)
    /\ UNCHANGED <<start, delivered, store, next, toClient, stamped, promised, breaks>>

Receives(kind) ==
    /\ toClient # <<>>
    /\ Head(toClient).kind = kind
    /\ toClient' = Tail(toClient)
    /\ UNCHANGED <<store, local, next, stamped, lagged, breaks>>

\* The listener of 'connected'.
OnCreated ==
    /\ Receives("created")
    /\ conn' = "connected"
    /\ UpdateRevision(Head(toClient))
    /\ promised' = IF promised # Unset THEN promised
                   ELSE IF start # Unset THEN start
                   ELSE Head(toClient).revision + 1
    /\ UNCHANGED delivered

\* The listener of 'data': 'put' and 'delete' for each event.
OnData ==
    /\ Receives("data")
    /\ delivered' = [r \in Revision |->
                       IF r \in Head(toClient).events THEN delivered[r] + 1
                       ELSE delivered[r]]
    /\ UpdateRevision(Head(toClient))
    /\ UNCHANGED <<conn, promised>>

\* Seeded bug: a canceled watch is only given up at the server.
OnCanceledSilently ==
    /\ Receives("canceled")
    /\ UNCHANGED watcher
    /\ UNCHANGED promised

\* WatchManager.handleCancelResponse: the watcher emits 'error'.
OnCanceled ==
    /\ Receives("canceled")
    /\ conn' = "error"
    /\ UNCHANGED <<start, delivered, promised>>

(***************************************************************************)
(* The stream and the store                                                *)
(***************************************************************************)
Send(kind, es) ==
    toClient' = Append(toClient, [kind |-> kind, revision |-> local, events |-> es])

\* The watch is made at start_revision, or after the member's revision.
ServerCreates ==
    /\ conn = "creating"
    /\ toClient = <<>>
    /\ Send("created", {})
    /\ next' = IF start = Unset THEN local + 1 ELSE start
    /\ stamped' = local
    /\ UNCHANGED <<watcher, store, local, history>>

Watching == next # Unset /\ next <= local

Gone == Watching /\ next < compacted /\ compacted <= local

\* Events are sent in order and perhaps in batches, each with the member's
\* revision in its header.
ServerSends ==
    /\ Watching
    /\ ~Gone
    /\ \E n \in next..local :
         LET es == events \cap next..n
         IN  /\ next' = n + 1
             /\ IF es = {} THEN UNCHANGED <<toClient, stamped>>
                ELSE /\ Send("data", es)
                     /\ stamped' = IF n < local THEN local ELSE stamped
    /\ UNCHANGED <<watcher, store, local, history>>

\* progress_notify: a response with no events, once the watch is in sync.
ServerNotifies ==
    /\ next > local
    /\ toClient = <<>>
    /\ conn = "connected"
    /\ Send("data", {})
    /\ UNCHANGED <<watcher, store, local, next, stamped, history>>

\* What the watch should send next has been compacted.
ServerCancels ==
    /\ Gone
    /\ Send("canceled", {})
    /\ next' = Unset
    /\ UNCHANGED <<watcher, store, local, stamped, history>>

CatchesUp ==
    /\ local < rev
    /\ local' = local + 1
    /\ UNCHANGED <<watcher, store, next, toClient, stamped, history>>

\* Some key changes; the member at the end of the stream may be the first to know.
Change ==
    /\ rev < MaxRev
    /\ rev' = rev + 1
    /\ events' \in {events, events \cup {rev'}}
    /\ local' \in {local, IF local = rev THEN rev' ELSE local}
    /\ UNCHANGED <<watcher, compacted, next, toClient, stamped, history>>

Compact ==
    /\ compacted' \in compacted + 1 .. rev
    /\ UNCHANGED <<watcher, rev, events, server, history>>

\* A backlog is underway: an event that is not newer than the header of some
\* response of this stream has yet to be received.
Replaying ==
    /\ conn = "connected"
    /\ \E r \in events : promised <= r /\ r <= stamped /\ delivered[r] = 0

\* Seeded bug: the request is made anew for each connection.
ResetStart == start' = Unset

\* Watcher.request outlives the connection.
KeepStart == UNCHANGED start

\* WatchManager.handleError: 'disconnected', and a reconnection in time.
Break ==
    /\ conn \in {"creating", "connected"}
    /\ breaks < MaxBreaks
    /\ BreakInReplay \/ ~Replaying
    /\ conn' = "down"
    /\ KeepStart
    /\ next' = Unset
    /\ toClient' = <<>>
    /\ stamped' = 0
    /\ breaks' = breaks + 1
    /\ UNCHANGED <<delivered, store, local, promised, lagged>>

ClientActs == Create \/ OnCreated \/ OnData \/ OnCanceled
ServerActs == ServerCreates \/ ServerSends \/ ServerCancels \/ CatchesUp
Next == ClientActs \/ ServerActs \/ ServerNotifies \/ Change \/ Compact \/ Break

\* The manager reconnects (WatchManager), the server answers and its members
\* catch up with each other.  Nothing has to change, break or be compacted.
Fairness ==
    /\ WF_vars(Create) /\ WF_vars(OnCreated) /\ WF_vars(OnData) /\ WF_vars(OnCanceled)
    /\ WF_vars(ServerCreates) /\ WF_vars(ServerSends)
    /\ WF_vars(ServerCancels) /\ WF_vars(CatchesUp)

Spec == Init /\ [][Next]_vars
FairSpec == Spec /\ Fairness

(***************************************************************************)
(* Properties                                                              *)
(***************************************************************************)
Promised == {r \in events : promised # Unset /\ promised <= r}

InFlight(r) == \E i \in 1..Len(toClient) : r \in toClient[i].events

\* The watch that there is, or else the next one, starts at or before r.
StillDue(r) == IF next # Unset THEN next <= r ELSE start <= r

\* watch.ts:378-379: the watcher replays changes when reconnecting.  Every
\* event from the first connection on was emitted, is on its way, or will be
\* sent by the watch; or the watcher is told it was canceled.
NothingLost ==
    \/ conn = "error"
    \/ \E i \in 1..Len(toClient) : toClient[i].kind = "canceled"
    \/ \A r \in Promised : delivered[r] > 0 \/ InFlight(r) \/ StillDue(r)

\* updateRevision adds one: no event is emitted twice, over any number of
\* reconnections, unless a member that lags set start_revision back.
EmittedOnce == ~lagged => \A r \in Revision : delivered[r] <= 1

\* Every event is emitted in the end, or the watcher's 'error' is.
EventuallyEmitted ==
    \A r \in Revision : (r \in Promised) ~> (delivered[r] > 0 \/ conn = "error")
=============================================================================
