--------------------------- MODULE ConnectionPool ---------------------------
(***************************************************************************)
(* The ConnectionPool of src/src/connection-pool.ts: exec() with its       *)
(* global retry, withConnection() over shuffled hosts, a circuit breaker   *)
(* per host, the cached clients, and the Authenticator's token.            *)
(*                                                                         *)
(* A unary call is a stack of exec() frames: one that is told that its     *)
(* token is invalid calls exec() again, inside the host's breaker.  A      *)
(* stream (watch and leaseKeepAlive of rpc.ts) is opened by                *)
(* withConnection() and may report an error later.                         *)
(*                                                                         *)
(* The policies are cockatiel's defaults: retry() and circuitBreaker()     *)
(* with a ConsecutiveBreaker, modelled from how the pool uses them.        *)
(***************************************************************************)
EXTENDS Naturals, Sequences, FiniteSets, Errors

CONSTANTS
    Calls,        \* the number of calls made on the pool
    Hosts,        \* the number of hosts
    Retries,      \* maxAttempts of the global retry
    Threshold,    \* of the ConsecutiveBreaker
    MaxFaults,    \* bound: errors that are not about the token
    MaxExpiries   \* bound: tokens that etcd stops to accept

ASSUME PoolAssumption ==
    /\ Calls \in Nat
    /\ Hosts \in Nat \ {0}
    /\ Threshold \in Nat \ {0}
    /\ Retries \in Nat
    /\ MaxFaults \in Nat
    /\ MaxExpiries \in Nat

Call == 1..Calls     \* in the order in which they are made
Host == 1..Hosts

\* A call calls itself at most once for every token that expires.
Depth == MaxExpiries + 1

\* Promises of metadata.  The innermost frame of each call may hold one, one is
\* current and one is fresh; 0 is the metadata of a client without
\* options.auth, or no promise.
Promise == 1..(Calls + 2)

VARIABLES
    auth,      \* whether options.auth is set
    circuit,   \* of a host: "closed", "open", "cooled" (open for long enough) or "half"
    count,     \* of a host: its consecutive failures
    tester,    \* of a half-open host: the frame whose call is the test
    cached,    \* hosts that have cachedServices
    shut,      \* whether close() was called
    awaitingMetadata,  \* the current promise, or 0
    promise,   \* its state: "free", "asking" host at, "token", or an error
    valid,     \* the promises whose token etcd accepts
    kind,      \* of a call: "new", "unary" or "stream"
    stack,     \* of a call: its frames, the innermost last
    result,    \* of a call: "none", "ok" or an error
    seen,      \* of a call: the errors that its hosts answered
    faults, expiries

breakers == <<circuit, count, tester>>
tokens == <<awaitingMetadata, promise, valid>>
calls == <<kind, stack, result, seen>>
bounds == <<faults, expiries>>
vars == <<auth, breakers, cached, shut, tokens, calls, bounds>>

Init ==
    /\ auth \in BOOLEAN
    /\ circuit = [h \in Host |-> "closed"]
    /\ count = [h \in Host |-> 0]
    /\ tester = [h \in Host |-> <<>>]
    /\ cached = {}
    /\ shut = FALSE
    /\ awaitingMetadata = 0
    /\ promise = [p \in Promise |-> [state |-> "free", at |-> 0]]
    /\ valid = {}
    /\ kind = [c \in Call |-> "new"]
    /\ stack = [c \in Call |-> <<>>]
    /\ result = [c \in Call |-> "none"]
    /\ seen = [c \in Call |-> {}]
    /\ faults = 0
    /\ expiries = 0

\* What may be wrong with a call but its token: an error that is recoverable,
\* and one that is not.
Failure == {[code |-> 14, text |-> ""], [code |-> 7, text |-> "permissionDenied"]}

Fault == faults < MaxFaults /\ faults' = faults + 1 /\ UNCHANGED expiries

(***************************************************************************)
(* Frames                                                                  *)
(***************************************************************************)
Running(c) == stack[c] # <<>>
Top(c) == stack[c][Len(stack[c])]
Frames == UNION {{<<c, d>> : d \in DOMAIN stack[c]} : c \in Call}
Held == {stack[f[1]][f[2]].meta : f \in Frames}

\* The top frame becomes f.
Goes(c, f) == stack' = [stack EXCEPT ![c][Len(stack[c])] = f]

\* A withConnection() of the metadata p.
Connection(p, tries, round, last) ==
    [at |-> "meta", meta |-> p, tries |-> tries, round |-> round, left |-> Hosts,
     host |-> 0, test |-> FALSE, on |-> <<>>, last |-> last, out |-> "none"]

(***************************************************************************)
(* Authenticator                                                           *)
(***************************************************************************)
\* The next promise; one that no frame holds any more is forgotten.
Fresh == CHOOSE p \in Promise : p # awaitingMetadata /\ p \notin Held

Authenticates(p) ==
    /\ awaitingMetadata' = p
    /\ promise' = [promise EXCEPT ![p] = [state |-> "asking", at |-> 1]]
    /\ valid' = valid \ {p}

\* getMetadata() returns p.
getMetadata(p) ==
    IF ~auth THEN p = 0 /\ UNCHANGED tokens
    ELSE IF awaitingMetadata # 0 THEN p = awaitingMetadata /\ UNCHANGED tokens
    ELSE p = Fresh /\ Authenticates(p)

\* A host answers authenticate with a token, which the waiting calls get.
Authenticated(p) ==
    /\ promise[p].state = "asking"
    /\ promise' = [promise EXCEPT ![p] = [state |-> "token", at |-> 0]]
    /\ valid' = valid \cup {p}
    /\ UNCHANGED <<auth, breakers, cached, shut, awaitingMetadata, calls, bounds>>

\* It answers with an error, and the next host is asked.  After the last one
\* the promise is rejected and the current promise, which may be another by
\* now, is dropped.
NotAuthenticated(p) ==
    /\ promise[p].state = "asking"
    /\ Fault
    /\ IF promise[p].at < Hosts
       THEN /\ promise' = [promise EXCEPT ![p].at = @ + 1]
            /\ UNCHANGED awaitingMetadata
       ELSE /\ \E raw \in {[code |-> 14, text |-> ""], [code |-> 3, text |-> "authFailed"]} :
                 promise' = [promise EXCEPT ![p] = [state |-> castGrpcError(raw), at |-> 0]]
            /\ awaitingMetadata' = 0
    /\ UNCHANGED <<auth, breakers, cached, shut, valid, calls>>

\* etcd stops to accept a token.
Expire(p) ==
    /\ p \in valid
    /\ expiries < MaxExpiries /\ expiries' = expiries + 1
    /\ valid' = valid \ {p}
    /\ UNCHANGED <<auth, breakers, cached, shut, awaitingMetadata, promise, calls, faults>>

(***************************************************************************)
(* Circuit breakers                                                        *)
(***************************************************************************)
\* The open time of a host is over.
Cool(h) ==
    /\ circuit[h] = "open"
    /\ circuit' = [circuit EXCEPT ![h] = "cooled"]
    /\ UNCHANGED <<auth, count, tester, cached, shut, tokens, calls, bounds>>

\* What was called through a breaker settles with e.  Its test decides; other
\* calls count, whatever the breaker's state is by now.
Settled(h, test, e) ==
    /\ count' = [count EXCEPT ![h] = IF e = "ok" THEN 0
                                     ELSE IF isRecoverableError(e) /\ @ < Threshold THEN @ + 1
                                     ELSE @]
    /\ circuit' = [circuit EXCEPT ![h] =
         IF isRecoverableError(e)
         THEN IF (test \/ count'[h] = Threshold) /\ @ # "cooled" THEN "open" ELSE @
         ELSE IF test /\ @ = "half" THEN "closed" ELSE @]
    /\ tester' = [tester EXCEPT ![h] = IF circuit'[h] = "half" THEN @ ELSE <<>>]

\* resetAllServices() of a host that failed.
Resets(h, e) == cached' = IF isRecoverableError(e) THEN cached \ {h} ELSE cached

\* The frames of s that wait for the test f go on.
Wake(s, f) ==
    [c \in Call |-> [d \in DOMAIN s[c] |->
        IF s[c][d].at = "wait" /\ s[c][d].on = f
        THEN [s[c][d] EXCEPT !.on = <<>>, !.at = IF s[c][d].out = "none" THEN "enter" ELSE "mark"]
        ELSE s[c][d]]]

(***************************************************************************)
(* exec() and withConnection()                                             *)
(***************************************************************************)
Begin(c, k) ==
    /\ kind[c] = "new" /\ \A b \in Call : b < c => kind[b] # "new"
    /\ kind' = [kind EXCEPT ![c] = k]
    /\ \E p \in Promise \cup {0} :
         getMetadata(p) /\ stack' = [stack EXCEPT ![c] = <<Connection(p, 0, {}, "none")>>]
    /\ UNCHANGED <<auth, breakers, cached, shut, result, seen, bounds>>

\* The global policy tries once more.
Again(c, e) == kind[c] = "unary" /\ isRecoverableError(e) /\ Top(c).tries < Retries

\* Seeded bug: the error that broke the circuit is forgotten.
ReportsBroken(c, e) == e

\* The last error of a host, of which an exec() inside does not speak.
LastAfter(c, e) == IF Top(c).at = "sent" THEN e ELSE Top(c).last

\* What exec() settles with: the last error of a host rather than the broken
\* circuit's.
Reported(c, e) == IF e = "BrokenCircuitError" /\ Top(c).last # "none" THEN Top(c).last ELSE e

\* A withConnection() settles with e, and so does its exec() unless it tries
\* again, and the call through a breaker that made this exec(), if there is one.
StackAfter(c, e) ==
    LET n == Len(stack[c])
    IN  [stack EXCEPT ![c] =
            IF Again(c, e)
            THEN [@ EXCEPT ![n] = [Connection(0, Top(c).tries + 1, Top(c).round,
                                              LastAfter(c, e)) EXCEPT !.at = "backoff"]]
            ELSE [d \in 1..(n - 1) |->
                    IF d = n - 1 THEN [@[d] EXCEPT !.at = "ends", !.out = Reported(c, e)]
                                 ELSE @[d]]]

ResultAfter(c, e) ==
    [result EXCEPT ![c] = IF Len(stack[c]) > 1 \/ Again(c, e) THEN @ ELSE Reported(c, e)]

Rejects(c, e) == stack' = StackAfter(c, e) /\ result' = ResultAfter(c, e)

\* What was called through the breaker of the host settles with e.
Settles(c, e) ==
    LET f == Top(c)
        s == StackAfter(c, e)
    IN  /\ Settled(f.host, f.test, e)
        /\ Resets(f.host, e)
        /\ stack' = IF f.test THEN Wake(s, <<c, Len(stack[c])>>) ELSE s
        /\ result' = ResultAfter(c, e)

\* The backoff is over.
Retry(c) ==
    /\ Running(c) /\ Top(c).at = "backoff"
    /\ \E p \in Promise \cup {0} :
         getMetadata(p) /\ Goes(c, Connection(p, Top(c).tries, Top(c).round, Top(c).last))
    /\ UNCHANGED <<auth, breakers, cached, shut, kind, result, seen, bounds>>

\* The metadata that withConnection() waits for.
HasMetadata(f) == \A p \in {f.meta} \ {0} : promise[p].state = "token"

NoMetadata(c) ==
    /\ Running(c) /\ Top(c).at = "meta"
    /\ Top(c).meta # 0 /\ promise[Top(c).meta].state \notin {"asking", "token"}
    /\ Rejects(c, promise[Top(c).meta].state)
    /\ UNCHANGED <<auth, breakers, cached, shut, tokens, kind, seen, bounds>>

\* The breaker of the host h: it blocks, waits for the test that is under way,
\* or calls through, as a test if it has been open long enough.
\* getServiceClient() then gives the cached client, or makes one unless the
\* host is closed; a call is sent, and a stream is opened, which is a success
\* for the breaker.  f is the frame without the host.
Block(c, f, h) ==
    /\ circuit[h] = "open"
    /\ Goes(c, [f EXCEPT !.at = "draw"])
    /\ UNCHANGED <<breakers, cached, result>>

Wait(c, f, h) ==
    /\ circuit[h] = "half"
    /\ Goes(c, [f EXCEPT !.at = "wait", !.host = h, !.on = tester[h]])
    /\ UNCHANGED <<breakers, cached, result>>

CallThrough(c, f, h) ==
    /\ circuit[h] \in {"closed", "cooled"} /\ (h \in cached \/ ~shut)
    /\ cached' = cached \cup {h}
    /\ IF kind[c] = "unary"
       THEN /\ Goes(c, [f EXCEPT !.at = "sent", !.host = h, !.test = circuit[h] = "cooled"])
            /\ IF circuit[h] = "closed" THEN UNCHANGED <<circuit, tester>>
               ELSE /\ circuit' = [circuit EXCEPT ![h] = "half"]
                    /\ tester' = [tester EXCEPT ![h] = <<c, Len(stack[c])>>]
            /\ UNCHANGED <<count, result>>
       ELSE /\ Goes(c, [Connection(0, 0, {}, "none") EXCEPT !.at = "open", !.host = h])
            /\ result' = [result EXCEPT ![c] = "ok"]
            /\ count' = [count EXCEPT ![h] = 0]
            /\ circuit' = [circuit EXCEPT ![h] = "closed"]
            /\ UNCHANGED tester

\* The ClientClosedError is no failure of the host.
IsClosed(c, f, h) ==
    /\ circuit[h] \in {"closed", "cooled"} /\ h \notin cached /\ shut
    /\ circuit' = [circuit EXCEPT ![h] = "closed"]
    /\ Rejects(c, "ClientClosedError")
    /\ UNCHANGED <<count, tester, cached>>

Enters(c, f, h) == Block(c, f, h) \/ Wait(c, f, h) \/ CallThrough(c, f, h) \/ IsClosed(c, f, h)

\* The next host of the shuffle, of a new round if this one is through.
Draw(c) ==
    /\ Running(c) /\ Top(c).at \in {"meta", "draw"} /\ Top(c).left > 0
    /\ HasMetadata(Top(c))
    /\ LET rest == IF Top(c).round = {} THEN Host ELSE Top(c).round
       IN  \E h \in rest :
             Enters(c, [Top(c) EXCEPT !.round = rest \ {h}, !.left = @ - 1], h)
    /\ UNCHANGED <<auth, shut, tokens, kind, seen, bounds>>

\* The test that it waited for is over.
Enter(c) ==
    /\ Running(c) /\ Top(c).at = "enter"
    /\ Enters(c, [Top(c) EXCEPT !.host = 0], Top(c).host)
    /\ UNCHANGED <<auth, shut, tokens, kind, seen, bounds>>

\* All draws were blocked.
Blocked(c) ==
    /\ Running(c) /\ Top(c).at = "draw" /\ Top(c).left = 0
    /\ Rejects(c, "BrokenCircuitError")
    /\ UNCHANGED <<auth, breakers, cached, shut, tokens, kind, seen, bounds>>

\* The host answers a call.
Sent(c) == Running(c) /\ Top(c).at = "sent"

Answers(c, e) ==
    /\ Settles(c, e)
    /\ seen' = [seen EXCEPT ![c] = IF e = "ok" THEN @ ELSE @ \cup {e}]

TokenInvalid(c) == Top(c).meta # 0 /\ Top(c).meta \notin valid

Serve(c) ==
    /\ Sent(c) /\ ~TokenInvalid(c)
    /\ Answers(c, "ok")
    /\ UNCHANGED <<auth, shut, tokens, kind, bounds>>

Fail(c) ==
    /\ Sent(c)
    /\ Fault
    /\ \E raw \in Failure : Answers(c, castGrpcError(raw))
    /\ UNCHANGED <<auth, shut, tokens, kind>>

\* Seeded bug: the old token is kept.
RefuseInvalid(c) ==
    /\ Sent(c) /\ TokenInvalid(c)
    /\ stack' = [stack EXCEPT ![c] =
           Append([@ EXCEPT ![Len(stack[c])].at = "nested"],
                  Connection(Top(c).meta, 0, {}, "none"))]
    /\ seen' = [seen EXCEPT ![c] = @ \cup {"EtcdInvalidAuthTokenError"}]
    /\ UNCHANGED <<auth, breakers, cached, shut, tokens, kind, result, bounds>>

\* It does not accept the token: exec() is called again, with a new one.
Refuse(c) ==
    /\ Sent(c) /\ TokenInvalid(c)
    /\ LET e == castGrpcError([code |-> 16, text |-> "invalidAuthToken"])
       IN  IF e = "EtcdInvalidAuthTokenError"
           THEN /\ Authenticates(Fresh)
                /\ stack' = [stack EXCEPT ![c] =
                     Append([@ EXCEPT ![Len(stack[c])].at = "nested", ![Len(stack[c])].meta = 0],
                            Connection(Fresh, 0, {}, "none"))]
                /\ seen' = [seen EXCEPT ![c] = @ \cup {e}]
                /\ UNCHANGED <<breakers, cached, result>>
           ELSE Answers(c, e) /\ UNCHANGED tokens
    /\ UNCHANGED <<auth, shut, kind, bounds>>

\* Seeded bug: an exec() inside that fails is not heard of.
ReturnsResult(c) ==
    /\ Running(c) /\ Top(c).at = "ends" /\ Top(c).out = "ok"
    /\ Settles(c, "ok")
    /\ UNCHANGED <<auth, shut, tokens, kind, seen, bounds>>

\* The exec() inside has settled.
Returns(c) ==
    /\ Running(c) /\ Top(c).at = "ends"
    /\ Settles(c, Top(c).out)
    /\ UNCHANGED <<auth, shut, tokens, kind, seen, bounds>>

(***************************************************************************)
(* Streams, and close()                                                    *)
(***************************************************************************)
\* The stream reports an error: markFailed().
Breaks(c) ==
    /\ Running(c) /\ Top(c).at = "open"
    /\ Fault
    /\ \E raw \in Failure :
         /\ Goes(c, [Top(c) EXCEPT !.at = "mark", !.out = castGrpcError(raw)])
         /\ Resets(Top(c).host, castGrpcError(raw))
    /\ UNCHANGED <<auth, breakers, shut, tokens, kind, result, seen>>

\* A call through the breaker that throws the stream's error.
Mark(c) ==
    /\ Running(c) /\ Top(c).at = "mark"
    /\ LET f == Top(c)
       IN  IF circuit[f.host] = "half"
           THEN /\ Goes(c, [f EXCEPT !.at = "wait", !.on = tester[f.host]])
                /\ UNCHANGED breakers
           ELSE /\ stack' = [stack EXCEPT ![c] = <<>>]
                /\ IF circuit[f.host] = "closed" THEN Settled(f.host, FALSE, f.out)
                   ELSE IF circuit[f.host] = "cooled"
                   THEN /\ count' = [count EXCEPT ![f.host] =
                                IF isRecoverableError(f.out) /\ @ < Threshold THEN @ + 1 ELSE @]
                        /\ circuit' = [circuit EXCEPT ![f.host] =
                                IF isRecoverableError(f.out) THEN "open" ELSE "closed"]
                        /\ UNCHANGED tester
                   ELSE UNCHANGED breakers
    /\ UNCHANGED <<auth, cached, shut, tokens, kind, result, seen, bounds>>

\* Seeded bug: the clients in use are left alone.
closeHosts ==
    /\ ~shut /\ shut' = TRUE
    /\ UNCHANGED <<auth, breakers, cached, tokens, calls, bounds>>

\* Every host drops its clients, and makes no new ones.
close ==
    /\ ~shut /\ shut' = TRUE
    /\ cached' = {}
    /\ UNCHANGED <<auth, breakers, tokens, calls, bounds>>

Step(c) ==
    \/ NoMetadata(c) \/ Draw(c) \/ Enter(c) \/ Blocked(c) \/ Serve(c) \/ Refuse(c)
    \/ Returns(c) \/ Retry(c) \/ Mark(c)

Next ==
    \/ \E c \in Call :
         \/ \E k \in {"unary", "stream"} : Begin(c, k)
         \/ Step(c) \/ Fail(c) \/ Breaks(c)
    \/ \E p \in Promise : Authenticated(p) \/ NotAuthenticated(p) \/ Expire(p)
    \/ \E h \in Host : Cool(h)
    \/ close

Spec == Init /\ [][Next]_vars

\* Continuations run, hosts answer and the backoff ends.  Calls and promises
\* make finitely many steps, so none can starve another and one condition is
\* enough for all.  Time need not be long enough for a breaker to cool, and no
\* call has to be made.
Progress == (\E c \in Call : Step(c)) \/ \E p \in Promise : Authenticated(p)

FairSpec == Spec /\ WF_vars(Progress)

(***************************************************************************)
(* Properties                                                              *)
(***************************************************************************)
ErrorKind ==
    {"GRPCUnavailableError", "EtcdPermissionDeniedError", "EtcdInvalidAuthTokenError",
     "GRPCInvalidArgumentError", "EtcdAuthenticationFailedError", "GRPCUnauthenticatedError",
     "BrokenCircuitError", "ClientClosedError"}

\* The frame whose call tests a host, or none.
Tester == {<<>>} \cup (Call \X (1..Depth))

Frame ==
    [at : {"meta", "draw", "enter", "wait", "sent", "nested", "ends", "backoff", "open", "mark"},
     meta : Promise \cup {0}, tries : 0..Retries, round : SUBSET Host, left : 0..Hosts,
     host : Host \cup {0}, test : BOOLEAN, on : Tester,
     last : ErrorKind \cup {"none"}, out : ErrorKind \cup {"none", "ok"}]

\* Types.  They include that exec() calls itself no deeper than tokens expire,
\* and that there is always a host to draw.
TypeOK ==
    /\ auth \in BOOLEAN /\ shut \in BOOLEAN
    /\ circuit \in [Host -> {"closed", "open", "cooled", "half"}]
    /\ count \in [Host -> 0..Threshold]
    /\ tester \in [Host -> Tester]
    /\ cached \subseteq Host
    /\ awaitingMetadata \in Promise \cup {0}
    /\ promise \in [Promise -> [state : {"free", "asking", "token"} \cup ErrorKind, at : 0..Hosts]]
    /\ valid \subseteq Promise
    /\ kind \in [Call -> {"new", "unary", "stream"}]
    /\ stack \in [Call -> Seq(Frame)]
    /\ \A c \in Call : Len(stack[c]) <= Depth
    /\ result \in [Call -> ErrorKind \cup {"none", "ok"}]
    /\ seen \in [Call -> SUBSET ErrorKind]
    /\ faults \in 0..MaxFaults /\ expiries \in 0..MaxExpiries

\* connection-pool.ts:339-341: a call that failed before its hosts were all
\* blocked reports how it failed.  (One that was sent again because of its
\* token may forget it.)
ErrorIsTheCause ==
    \A c \in Call :
        result[c] = "BrokenCircuitError" /\ "EtcdInvalidAuthTokenError" \notin seen[c]
            => seen[c] = {}

\* connection-pool.ts:326-328: no call fails because its token has expired.
TokenReplaced ==
    \A c \in Call : result[c] \notin {"EtcdInvalidAuthTokenError", "GRPCUnauthenticatedError"}

\* connection-pool.ts:195: once the client is closed no client of a host sends a
\* call or opens a stream, whatever call was under way, waits or retries.  (Of
\* authenticate requests this says nothing: they have clients of their own, which
\* close() does not know, and are sent then too.)
NoCallOnceClosed ==
    [][shut => \A c \in Call : stack'[c] # <<>> /\ stack'[c] # stack[c] =>
                 stack'[c][Len(stack'[c])].at \notin {"sent", "open"}]_vars

\* errors.ts:12: a call that is made when the client is closed is told so.  It
\* is not if it first has to authenticate, and every host refuses or fails.
ClosedIsTold ==
    \A c \in Call : [](shut /\ kind[c] = "new" => [](result[c] \in {"none", "ClientClosedError"}))

\* Calls that wait for tests of one another.
Waits(c, W) ==
    Running(c) /\ Top(c).at = "wait" /\ Top(c).on[1] \in W
CircularWait == \E W \in SUBSET Call : W # {} /\ \A c \in W : Waits(c, W)

\* Every call settles, unless the test of a half-open breaker waits for itself.
Pending == \E c \in Call : kind[c] # "new" /\ result[c] = "none"
CallsEnd == Pending ~> (~Pending \/ CircularWait)
=============================================================================
