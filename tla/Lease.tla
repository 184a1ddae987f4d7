-------------------------------- MODULE Lease --------------------------------
(***************************************************************************)
(* A Lease of src/src/lease.ts: the grant, the loop that keeps it alive    *)
(* over a sequence of streams, and the ways in which it is closed.         *)
(*                                                                         *)
(* Time advances in ticks of a third of the TTL divided by Beat, and only  *)
(* when no timer is due.  A retry comes Delay ticks after an error.  The   *)
(* network is up or down.  While it is up every message arrives within the *)
(* tick, unless its stream breaks.  While it is down nothing arrives: what *)
(* is written stays on its way until the network is up again, or is lost   *)
(* with the stream.                                                        *)
(* The server renews a lease for TTL ticks at a time.                      *)
(***************************************************************************)
EXTENDS Naturals

CONSTANTS
    Beat,      \* ticks between two heartbeats: a third of the TTL
    Delay,     \* the 100 ms before a retry, in ticks
    Stream,    \* slots for keepalive streams; a slot is reused when it is free
    None,      \* no stream
    Off,       \* a timer that is not set
    MaxFails,  \* bound: how many streams fail between two renewals of the lease
    MaxDowns   \* bound: how often the network goes down

TTL == 3 * Beat
Stale == 2 * TTL  \* keepalive() gives up beyond this age

ASSUME LeaseAssumption ==
    /\ Beat \in Nat \ {0}
    /\ Delay \in 1..Beat  \* the third of a TTL is 333 ms at least
    /\ Stream # {}
    /\ None \notin Stream
    /\ Off \notin Nat
    /\ MaxFails \in Nat
    /\ MaxDowns \in Nat

VARIABLES
    auto,      \* the option autoKeepAlive
    leaseID,   \* the promise leaseID: "pending", "id" or "error"
    state,     \* innerState
    age,       \* ticks since lastKeepAlive, up to Stale + 1
    teardown,  \* the stream that the callback `teardown` closes, or None
    retries,   \* how many keepalive() calls setTimeout holds, by the ticks left
    phase,     \* "none", "opening", "open", "ended" by us, or "broken"
    beat,      \* ticks until the stream's setInterval fires
    silence,   \* ticks until the stream's debounce fires
    revoking,  \* revoke() is "no", waits for the "id", is "sent", or is "done"
    put,       \* a leased put is "none", "sent", or answered "ok" or "bad"
    once,      \* a keepaliveOnce(), likewise
    lost,      \* 'lost' was emitted
    ttl,       \* what is left of the lease on the server, 0 if there is none
    grant,     \* the LeaseGrant call: "sent", "applied" or "done"
    request,   \* streams with a keepalive request in flight
    answer,    \* the response in flight on each stream: "none", "ok" or "bad"
    down,      \* the network is down
    fails,     \* streams that failed while it was up, since the last renewal
    downs

flags == <<auto, leaseID, state, age, lost>>
loop == <<teardown, retries, phase, beat, silence>>
calls == <<revoking, put, once, grant>>
wire == <<request, answer>>
network == <<down, fails, downs>>
vars == <<flags, loop, calls, wire, ttl, network>>

Init ==
    /\ auto \in BOOLEAN
    /\ leaseID = "pending" /\ state = "Pending" /\ age = 0
    /\ teardown = None /\ retries = [d \in 0..Delay |-> 0]
    /\ phase = [s \in Stream |-> "none"]
    /\ beat = [s \in Stream |-> Off]
    /\ silence = [s \in Stream |-> Off]
    /\ revoking = "no" /\ put = "none" /\ once = "none"
    /\ lost = FALSE
    /\ ttl = 0 /\ grant = "sent"
    /\ request = {}
    /\ answer = [s \in Stream |-> "none"]
    /\ down = FALSE /\ fails = 0 /\ downs = 0

-----------------------------------------------------------------------------
(***************************************************************************)
(* Helpers.                                                                *)
(***************************************************************************)

Free(s) ==
    phase[s] = "none" /\ beat[s] = Off /\ silence[s] = Off /\ request \cap {s} = {}

\* The ticks left to the retries that wait.
Waiting == {d \in 0..Delay : retries[d] > 0}

SetRetry == retries' = [retries EXCEPT ![Delay] = @ + 1]

\* The callback `teardown`: stop the timers of its stream and end it.  ph and
\* sil are the phases and the debounce timers at the call.
Teardown(ph, sil) ==
    /\ teardown' = None
    /\ beat' = [s \in Stream |-> IF s = teardown THEN Off ELSE beat[s]]
    /\ silence' = [s \in Stream |-> IF s = teardown THEN Off ELSE sil[s]]
    /\ phase' = [s \in Stream |-> IF s = teardown /\ ph[s] = "open"
                                  THEN "ended" ELSE ph[s]]

Close(ph, sil) == state' = "Revoked" /\ Teardown(ph, sil)

\* emitLoss, and the same lines at the head of keepalive().
EmitLoss(ph, sil) == Close(ph, sil) /\ lost' = TRUE

\* Seeded bug: an error starts another loop beside the first.
HandleErrorNoTeardown(bad, ph, sil) ==
    /\ phase' = ph
    /\ silence' = sil
    /\ SetRetry
    /\ UNCHANGED <<state, lost, teardown, beat>>

\* handleKeepaliveError, for a lease that the server does not know (bad) or
\* for any other error.
HandleKeepaliveError(bad, ph, sil) ==
    IF state = "Revoked"
    THEN /\ UNCHANGED <<state, lost, retries, teardown, beat>>
         /\ phase' = ph
         /\ silence' = sil
    ELSE IF bad
    THEN EmitLoss(ph, sil) /\ UNCHANGED retries
    ELSE /\ Teardown(ph, sil)
         /\ SetRetry
         /\ UNCHANGED <<state, lost>>

\* Seeded bug: keepalive() never gives up.
NeverTooOld(a) == FALSE

TooOld(a) == a > Stale

\* Bound: a retry that finds no free slot waits, as streams that were ended
\* during an outage linger.
CanRetry == TooOld(age) \/ \E s \in Stream : Free(s)

\* keepalive() at age a: give up, or open another stream.
Keepalive(a) ==
    IF TooOld(a)
    THEN EmitLoss(phase, silence)
    ELSE /\ \E s \in Stream : /\ Free(s)
                              /\ phase' = [phase EXCEPT ![s] = "opening"]
         /\ UNCHANGED <<state, lost, teardown, beat, silence>>

-----------------------------------------------------------------------------
(***************************************************************************)
(* The grant.                                                              *)
(***************************************************************************)

ServerGrants ==
    /\ ~down
    /\ grant = "sent"
    /\ grant' = "applied"
    /\ ttl' = TTL
    /\ UNCHANGED <<flags, loop, revoking, put, once, wire, network>>

\* The grant is answered.  A lease that was closed meanwhile is not kept alive.
GrantSucceeds ==
    /\ ~down
    /\ grant = "applied"
    /\ grant' = "done"
    /\ leaseID' = "id"
    /\ IF state = "Revoked"
       THEN UNCHANGED <<state, age, lost, teardown, phase, beat, silence>>
       ELSE /\ age' = 0
            /\ state' = "Alive"
            /\ IF auto
               THEN /\ \E s \in Stream : /\ Free(s)
                                         /\ phase' = [phase EXCEPT ![s] = "opening"]
                    /\ UNCHANGED <<lost, teardown, beat, silence>>
               ELSE UNCHANGED <<lost, teardown, phase, beat, silence>>
    /\ UNCHANGED <<auto, retries, revoking, put, once, wire, ttl, network>>

\* The server refuses, or the connection is lost before or after it grants.
GrantFails ==
    /\ grant = "sent" \/ (grant = "applied" /\ down)
    /\ grant' = "done"
    /\ leaseID' = "error"
    /\ EmitLoss(phase, silence)
    /\ UNCHANGED <<auto, age, retries, revoking, put, once, wire, ttl, network>>

-----------------------------------------------------------------------------
(***************************************************************************)
(* The keepalive loop.                                                     *)
(***************************************************************************)

\* The 100 ms after an error are over.
RetryFires ==
    /\ 0 \in Waiting
    /\ retries' = [retries EXCEPT ![0] = @ - 1]
    /\ Keepalive(age)
    /\ UNCHANGED <<auto, leaseID, age, calls, wire, ttl, network>>

\* Seeded bug: a heartbeat once per TTL.
IntervalTTL == TTL

Interval == Beat

\* leaseKeepAlive() resolves, at once, whether or not the server can be reached:
\* set the timers and send a first heartbeat.  The teardown of this stream
\* replaces whatever teardown there was.
StreamOpens(s) ==
    /\ phase[s] = "opening"
    /\ IF state = "Revoked"
       THEN /\ phase' = [phase EXCEPT ![s] = "ended"]
            /\ UNCHANGED <<teardown, beat, silence, request>>
       ELSE /\ phase' = [phase EXCEPT ![s] = "open"]
            /\ beat' = [beat EXCEPT ![s] = Interval]
            /\ silence' = [silence EXCEPT ![s] = TTL]
            /\ teardown' = s
            /\ request' = request \cup {s}
    /\ UNCHANGED <<flags, retries, calls, answer, ttl, network>>

\* The bounds: streams fail while the network has always been up, or it goes
\* down, and then streams break during the outage only.
MoreFails == downs = 0 /\ fails < MaxFails
MoreDowns == downs < MaxDowns

CountFail == IF down THEN UNCHANGED fails ELSE MoreFails /\ fails' = fails + 1

\* leaseKeepAlive() rejects: every host is blocked by its breaker, or the user
\* cannot be authenticated.
OpenFails(s) ==
    /\ phase[s] = "opening"
    /\ CountFail
    /\ HandleKeepaliveError(FALSE, [phase EXCEPT ![s] = "none"], silence)
    /\ UNCHANGED <<auto, leaseID, age, calls, wire, ttl, down, downs>>

\* The interval of s fires: fireKeepAlive.  A write on a stream that is not
\* open is lost.
BeatFires(s) ==
    /\ beat[s] = 0
    /\ beat' = [beat EXCEPT ![s] = Interval]
    /\ request' = IF phase[s] = "open" THEN request \cup {s} ELSE request
    /\ UNCHANGED <<flags, teardown, retries, phase, silence, calls, answer, ttl, network>>

\* The debounce of s fires: nothing came for a whole TTL.
DebounceFires(s) ==
    /\ silence[s] = 0
    /\ HandleKeepaliveError(FALSE, phase, [silence EXCEPT ![s] = Off])
    /\ UNCHANGED <<auto, leaseID, age, calls, wire, ttl, network>>

StreamError(s) ==
    /\ phase[s] = "broken"
    /\ HandleKeepaliveError(FALSE, [phase EXCEPT ![s] = "none"], silence)
    /\ UNCHANGED <<auto, leaseID, age, calls, wire, ttl, network>>

\* 'data': a response comes, even on a stream that we ended.
OnData(s) ==
    /\ ~down
    /\ phase[s] \in {"open", "ended"}
    /\ answer[s] # "none"
    /\ answer' = [answer EXCEPT ![s] = "none"]
    /\ IF answer[s] = "bad"
       THEN HandleKeepaliveError(TRUE, phase, silence) /\ UNCHANGED age
       ELSE /\ age' = 0
            /\ silence' = [silence EXCEPT ![s] = TTL]
            /\ UNCHANGED <<state, lost, retries, teardown, phase, beat>>
    /\ UNCHANGED <<auto, leaseID, calls, request, ttl, network>>

-----------------------------------------------------------------------------
(***************************************************************************)
(* Calls of the user.                                                      *)
(***************************************************************************)

Release ==
    /\ Close(phase, silence)
    /\ UNCHANGED <<auto, leaseID, age, lost, retries, calls, wire, ttl, network>>

Revoke ==
    /\ revoking = "no"
    /\ revoking' = "id"
    /\ Close(phase, silence)
    /\ UNCHANGED <<auto, leaseID, age, lost, retries, put, once, grant, wire, ttl, network>>

\* revoke() has its id, or learns that there is none.
RevokeSends ==
    /\ revoking = "id"
    /\ leaseID # "pending"
    /\ revoking' = IF leaseID = "id" THEN "sent" ELSE "done"
    /\ UNCHANGED <<flags, loop, put, once, grant, wire, ttl, network>>

ServerRevokes ==
    /\ ~down
    /\ revoking = "sent"
    /\ revoking' = "done"
    /\ ttl' = 0
    /\ UNCHANGED <<flags, loop, put, once, grant, wire, network>>

\* The revocation fails; the lease is left to expire.
RevokeFails ==
    /\ down
    /\ revoking = "sent"
    /\ revoking' = "done"
    /\ UNCHANGED <<flags, loop, put, once, grant, wire, ttl, network>>

\* Bound: the user starts one call of the next two at a time, and none once the
\* lease is closed (those under way then go on).
Idle == leaseID = "id" /\ state # "Revoked" /\ put = "none" /\ once = "none"

\* lease.put(...)
Put ==
    /\ Idle
    /\ put' = "sent"
    /\ UNCHANGED <<flags, loop, revoking, once, grant, wire, ttl, network>>

\* The put is answered: LeaseClientWrapper.exec looks at the error, if any.
PutReturns ==
    /\ put # "none"
    /\ put' = "none"
    /\ \/ /\ put = "bad" /\ ~down
          /\ EmitLoss(phase, silence)
       \/ /\ put = "ok" \/ down
          /\ UNCHANGED <<state, lost, teardown, phase, beat, silence>>
    /\ UNCHANGED <<auto, leaseID, age, retries, revoking, once, grant, wire, ttl, network>>

\* keepaliveOnce()
KeepaliveOnce ==
    /\ Idle
    /\ once' = "sent"
    /\ UNCHANGED <<flags, loop, revoking, put, grant, wire, ttl, network>>

OnceReturns ==
    /\ once # "none"
    /\ once' = "none"
    /\ \/ /\ once = "ok" /\ ~down
          /\ age' = 0
          /\ UNCHANGED <<state, lost, teardown, phase, beat, silence>>
       \/ /\ once = "bad" /\ ~down
          /\ EmitLoss(phase, silence)
          /\ UNCHANGED age
       \/ /\ down
          /\ UNCHANGED <<state, age, lost, teardown, phase, beat, silence>>
    /\ UNCHANGED <<auto, leaseID, retries, revoking, put, grant, wire, ttl, network>>

-----------------------------------------------------------------------------
(***************************************************************************)
(* The server, the network and time (external).                            *)
(***************************************************************************)

Verdict == IF ttl > 0 THEN "ok" ELSE "bad"

\* A lease that exists has its whole TTL again.
Renew ==
    IF ttl > 0
    THEN ttl' = TTL /\ fails' = 0
    ELSE UNCHANGED <<ttl, fails>>

\* Bound: one response is in flight per stream.
ServerRenews(s) ==
    /\ ~down
    /\ s \in request
    /\ answer[s] = "none"
    /\ request' = request \ {s}
    /\ answer' = [answer EXCEPT ![s] = Verdict]
    /\ Renew
    /\ UNCHANGED <<flags, loop, calls, down, downs>>

ServerAnswersPut ==
    /\ ~down
    /\ put = "sent"
    /\ put' = Verdict
    /\ UNCHANGED <<flags, loop, revoking, once, grant, wire, ttl, network>>

ServerAnswersOnce ==
    /\ ~down
    /\ once = "sent"
    /\ once' = Verdict
    /\ Renew
    /\ UNCHANGED <<flags, loop, revoking, put, grant, wire, down, downs>>

\* The server closes its side of a stream that we ended.
ServerEnds(s) ==
    /\ ~down
    /\ phase[s] = "ended"
    /\ s \notin request /\ answer[s] = "none"
    /\ phase' = [phase EXCEPT ![s] = "none"]
    /\ UNCHANGED <<flags, teardown, retries, beat, silence, calls, wire, ttl, network>>

StreamBreaks(s) ==
    /\ phase[s] \in {"open", "ended"}
    /\ CountFail
    /\ phase' = [phase EXCEPT ![s] = "broken"]
    /\ request' = request \ {s}
    /\ answer' = [answer EXCEPT ![s] = "none"]
    /\ UNCHANGED <<flags, teardown, retries, beat, silence, calls, ttl, down, downs>>

NetDown ==
    /\ ~down
    /\ MoreDowns
    /\ down' = TRUE
    /\ downs' = downs + 1
    /\ UNCHANGED <<flags, loop, calls, wire, ttl, fails>>

NetUp ==
    /\ down
    /\ down' = FALSE
    /\ UNCHANGED <<flags, loop, calls, wire, ttl, fails, downs>>

\* A timer is due, an event is to be emitted, or a message is to arrive.
Busy ==
    \/ revoking = "id" /\ leaseID # "pending"
    \/ 0 \in Waiting /\ CanRetry
    \/ \E s \in Stream : beat[s] = 0 \/ silence[s] = 0 \/ phase[s] = "broken"
    \/ /\ ~down
       /\ \/ request # {}
          \/ \E s \in Stream : answer[s] # "none" \/ phase[s] \in {"opening", "ended"}
          \/ grant # "done"
          \/ put # "none" \/ once # "none" \/ revoking = "sent"

Elapse(timer) == [s \in Stream |-> IF timer[s] = Off THEN Off ELSE timer[s] - 1]

\* A tick less for every retry; one that could not run still waits.
ElapseRetries ==
    [d \in 0..Delay |-> (IF d < Delay THEN retries[d + 1] ELSE 0)
                        + (IF d = 0 THEN retries[0] ELSE 0)]

Tick ==
    /\ ~Busy
    /\ age' = IF age > Stale THEN age ELSE age + 1
    /\ ttl' = IF ttl = 0 THEN 0 ELSE ttl - 1
    /\ beat' = Elapse(beat)
    /\ silence' = Elapse(silence)
    /\ retries' = ElapseRetries
    /\ UNCHANGED <<auto, leaseID, state, lost, teardown, phase, calls, wire, network>>

-----------------------------------------------------------------------------
User == Release \/ Revoke \/ Put \/ KeepaliveOnce

Client ==
    \/ GrantSucceeds \/ GrantFails \/ RetryFires
    \/ RevokeSends \/ RevokeFails \/ PutReturns \/ OnceReturns
    \/ \E s \in Stream :
         \/ StreamOpens(s) \/ OpenFails(s) \/ BeatFires(s)
         \/ DebounceFires(s) \/ StreamError(s) \/ OnData(s)

Server ==
    \/ ServerGrants \/ ServerRevokes \/ ServerAnswersPut \/ ServerAnswersOnce
    \/ \E s \in Stream : ServerRenews(s) \/ ServerEnds(s)

Network == NetDown \/ NetUp \/ \E s \in Stream : StreamBreaks(s)

Next == User \/ Client \/ Server \/ Network \/ Tick

Spec == Init /\ [][Next]_vars

\* What runs on a stream of the client.
Callback(s) ==
    \/ StreamOpens(s) \/ OpenFails(s) \/ BeatFires(s)
    \/ DebounceFires(s) \/ StreamError(s) \/ OnData(s)

\* Timers and callbacks run, a server that can be reached answers, and time goes
\* on.  Nothing obliges the user, nor the network to fail or to recover.
Fairness ==
    /\ SF_vars(Tick)
    /\ WF_vars(RetryFires)
    /\ WF_vars(PutReturns \/ OnceReturns)
    /\ WF_vars(ServerAnswersPut \/ ServerAnswersOnce)
    /\ \A s \in Stream : WF_vars(Callback(s)) /\ WF_vars(ServerRenews(s) \/ ServerEnds(s))

FairSpec == Spec /\ Fairness

-----------------------------------------------------------------------------
(***************************************************************************)
(* Properties.                                                             *)
(***************************************************************************)

Timer(limit) == 0..limit \cup {Off}

\* Types, and the bounds on the counters.
TypeOK ==
    /\ auto \in BOOLEAN
    /\ leaseID \in {"pending", "id", "error"}
    /\ state \in {"Pending", "Alive", "Revoked"}
    /\ age \in 0..(Stale + 1)
    /\ lost \in BOOLEAN
    /\ teardown \in Stream \cup {None}
    /\ retries \in [0..Delay -> Nat]
    /\ phase \in [Stream -> {"none", "opening", "open", "ended", "broken"}]
    /\ beat \in [Stream -> Timer(Beat)]
    /\ silence \in [Stream -> Timer(TTL)]
    /\ revoking \in {"no", "id", "sent", "done"}
    /\ {put, once} \subseteq {"none", "sent", "ok", "bad"}
    /\ ttl \in 0..TTL
    /\ grant \in {"sent", "applied", "done"}
    /\ request \subseteq Stream
    /\ answer \in [Stream -> {"none", "ok", "bad"}]
    /\ down \in BOOLEAN
    /\ fails \in 0..MaxFails
    /\ downs \in 0..MaxDowns

\* The streams on which a loop runs or is about to.
Loops == {s \in Stream : beat[s] # Off \/ phase[s] = "opening"}

\* The network has not gone down so far, though streams may have broken.
Steady == downs = 0

\* One loop at most keeps the lease alive: `teardown` can stop only one.
AtMostOneLoop ==
    Steady => /\ \A s, t \in Loops : s = t
              /\ \A d, e \in Waiting : d = e /\ retries[d] = 1
              /\ Waiting # {} => Loops = {}

\* lease.ts:191-195: release() "stops making heartbeats for the lease", and so
\* does every other way of closing it: no interval is left running.
\* (After an outage a second loop may be left over.)
HeartbeatsStop == Steady /\ state = "Revoked" => \A s \in Stream : beat[s] = Off

\* As long as the lease is not closed, a retry is set, a stream is opening, or
\* the current stream has an error or a timeout to come.
LoopGoesOn ==
    state = "Alive" /\ auto =>
        \/ Waiting # {}
        \/ \E s \in Stream : phase[s] = "opening"
        \/ teardown # None /\ (phase[teardown] = "broken" \/ silence[teardown] # Off)

\* lease.ts:309-386: while the lease is open one loop keeps it alive, and none
\* when it is closed, whichever of the timers, errors and closings comes first.
OneLoop == AtMostOneLoop /\ HeartbeatsStop /\ LoopGoesOn

\* The streams that fail in a row between two renewals take less than two thirds
\* of the TTL: the third is what the first heartbeat may have waited for.
RetriesInTime == MaxFails * Delay < 2 * Beat

\* lease.ts:329-334, 384: while the network is up, a heartbeat every third of the
\* TTL and a retry 100 ms after an error keep the lease alive on the server,
\* though streams break again and again.  It holds if RetriesInTime.
LeaseKept == Steady /\ state = "Alive" /\ auto => ttl > 0

\* lease.ts:246-247: keepalive() gives up only when "our TTL has definitely
\* expired".  The code does not keep to it: the server may have renewed the lease
\* each time, and every answer was lost with its stream.
GivesUpInTime == [][RetryFires /\ lost' # lost => ttl = 0]_vars

\* A lease that expired on the server does not stay Alive for ever.
LossNoticed == (state = "Alive" /\ auto /\ ttl = 0) ~> (state = "Revoked")

==============================================================================
