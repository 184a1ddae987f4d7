------------------------ MODULE ConnectionPoolProofs ------------------------
(***************************************************************************)
(* Theorems about ConnectionPool, for every number of calls, hosts,        *)
(* retries, faults and tokens that expire.                                 *)
(***************************************************************************)
EXTENDS ConnectionPool, FiniteSetTheorems, SequenceTheorems, TLAPS

(***************************************************************************)
(* The invariant.  The parts that are about one call are operators of its  *)
(* frames q, of what the tokens are and of how many have expired.          *)
(***************************************************************************)
\* The errors that a call can be told of.
Told ==
    {"GRPCUnavailableError", "EtcdPermissionDeniedError", "EtcdAuthenticationFailedError",
     "BrokenCircuitError", "ClientClosedError"}

\* Of these, the one that exec() tries again for: what its last error can be.
Tried == {"none", "GRPCUnavailableError"}

\* Frames that know of no others.
ToldFrame == {f \in Frame : f.last \in Tried /\ f.out \in Told \cup {"none", "ok"}}

\* The promises of a token that etcd stopped to accept.
Expired == {p \in Promise : promise[p].state = "token" /\ p \notin valid}

Inner(q) == q[Len(q)]

\* A frame that waits for the exec() inside it holds no promise any more.
Outer(q) ==
    \A d \in DOMAIN q : d # Len(q) =>
        q[d].at = "nested" /\ q[d].meta = 0 /\ q[d].host \in Host

\* A frame holds a promise that was asked for.  One that is past
\* withConnection()'s await has its token, one that is past the draw its host,
\* one that ends what it ends with, and the exec() of one whose token expired
\* was not made since then.  P are the
\* promises, X those that expired, k is how often one did.
Placed(f, n, P, X, k) ==
    /\ f.meta # 0 => P[f.meta].state # "free"
    /\ f.at \in {"draw", "enter", "wait", "sent", "open", "mark"} /\ f.meta # 0 =>
         P[f.meta].state = "token"
    /\ f.at \in {"enter", "wait", "sent", "ends", "open", "mark"} => f.host \in Host
    /\ f.at = "ends" => f.out # "none"
    /\ f.meta \in X => n <= k

Sound(q, P, X, k) ==
    /\ q \in Seq(ToldFrame)
    /\ Len(q) <= k + 1
    /\ Outer(q)
    /\ q # <<>> => Placed(Inner(q), Len(q), P, X, k)

\* What a call of kind k that has the result r knows of the errors e it was
\* answered with.
Knows(q, k, r, e) ==
    /\ k = "new" => q = <<>> /\ r = "none"
    /\ k # "unary" => e = {}
    /\ q # <<>> => r \in {"none", "ok"}
    /\ q # <<>> => (Inner(q).at = "sent" => k = "unary")
    /\ q # <<>> /\ "EtcdInvalidAuthTokenError" \notin e =>
         Len(q) = 1 /\ (e # {} => Inner(q).last # "none")
    /\ r = "BrokenCircuitError" /\ "EtcdInvalidAuthTokenError" \notin e => e = {}

Promised ==
    [state : {"free", "asking", "token", "GRPCUnavailableError", "EtcdAuthenticationFailedError"},
     at : 0..Hosts]

\* The types of all but the stack.
Fields ==
    /\ auth \in BOOLEAN /\ shut \in BOOLEAN
    /\ circuit \in [Host -> {"closed", "open", "cooled", "half"}]
    /\ count \in [Host -> 0..Threshold]
    /\ tester \in [Host -> Tester]
    /\ cached \subseteq Host
    /\ awaitingMetadata \in Promise \cup {0}
    /\ promise \in [Promise -> Promised]
    /\ valid \subseteq Promise
    /\ kind \in [Call -> {"new", "unary", "stream"}]
    /\ result \in [Call -> Told \cup {"none", "ok"}]
    /\ seen \in [Call -> SUBSET ErrorKind]
    /\ faults \in 0..MaxFaults /\ expiries \in 0..MaxExpiries

\* The current promise a was asked for.  If its token has expired, no exec() was
\* made since then.
Current(S, a, P, X, k) ==
    /\ a # 0 => P[a].state # "free"
    /\ a \in X => 1 <= k /\ \A c \in Call : Len(S[c]) <= k

Stacks == DOMAIN stack = Call /\ \A c \in Call : Sound(stack[c], promise, Expired, expiries)
Causes == \A c \in Call : Knows(stack[c], kind[c], result[c], seen[c])

PoolInv ==
    /\ Fields
    /\ stack = [c \in Call |-> stack[c]]
    /\ Stacks
    /\ Current(stack, awaitingMetadata, promise, Expired, expiries)
    /\ Causes
    /\ shut => cached = {}

-----------------------------------------------------------------------------
(***************************************************************************)
(* Errors and frames                                                       *)
(***************************************************************************)
LEMMA Casts ==
    /\ castGrpcError([code |-> 14, text |-> ""]) = "GRPCUnavailableError"
    /\ castGrpcError([code |-> 7, text |-> "permissionDenied"]) = "EtcdPermissionDeniedError"
    /\ castGrpcError([code |-> 3, text |-> "authFailed"]) = "EtcdAuthenticationFailedError"
    /\ castGrpcError([code |-> 16, text |-> "invalidAuthToken"]) = "EtcdInvalidAuthTokenError"
BY DEF castGrpcError, grpcMessageToError, grpcCodeToError

\* Of what a call can be told, one error is recoverable.
LEMMA OneRecoverable ==
    ASSUME NEW e \in Told \cup {"ok"}
    PROVE  isRecoverableError(e) <=> e = "GRPCUnavailableError"
BY DEF Told, isRecoverableError, Recoverable

LEMMA ConnectionFrame ==
    ASSUME NEW p \in Promise \cup {0}, NEW tries \in 0..Retries, NEW round \in SUBSET Host,
           NEW last \in Tried
    PROVE  Connection(p, tries, round, last) \in ToldFrame
BY PoolAssumption DEF Connection, ToldFrame, Frame, Tried, Told, ErrorKind, Tester, Host

\* That of a stream, which starts to pick a host with nothing known.
LEMMA BlankFrame == Connection(0, 0, {}, "none") \in ToldFrame
<1>1. 0 \in Promise \cup {0} /\ 0 \in 0..Retries /\ {} \in SUBSET Host
  BY PoolAssumption
<1>2. "none" \in Tried
  BY DEF Tried
<1> QED BY <1>1, <1>2, ConnectionFrame

\* What the fields of a frame may become.
LEMMA FrameChanges ==
    ASSUME NEW f \in ToldFrame
    PROVE  /\ \A a \in {"meta", "draw", "enter", "wait", "sent", "nested", "ends",
                        "backoff", "open", "mark"} : [f EXCEPT !.at = a] \in ToldFrame
           /\ \A h \in Host \cup {0} : [f EXCEPT !.host = h] \in ToldFrame
           /\ \A b \in BOOLEAN : [f EXCEPT !.test = b] \in ToldFrame
           /\ \A t \in Tester : [f EXCEPT !.on = t] \in ToldFrame
           /\ \A e \in Told \cup {"none", "ok"} : [f EXCEPT !.out = e] \in ToldFrame
           /\ \A r \in SUBSET Host : [f EXCEPT !.round = r] \in ToldFrame
           /\ f.left > 0 => [f EXCEPT !.left = @ - 1] \in ToldFrame
           /\ [f EXCEPT !.meta = 0] \in ToldFrame
<1>1. ASSUME NEW a \in {"meta", "draw", "enter", "wait", "sent", "nested", "ends",
                         "backoff", "open", "mark"}
      PROVE  [f EXCEPT !.at = a] \in ToldFrame
  BY DEF ToldFrame, Frame
<1>2. ASSUME NEW h \in Host \cup {0} PROVE [f EXCEPT !.host = h] \in ToldFrame
  BY DEF ToldFrame, Frame
<1>3. ASSUME NEW b \in BOOLEAN PROVE [f EXCEPT !.test = b] \in ToldFrame
  BY DEF ToldFrame, Frame
<1>4. ASSUME NEW t \in Tester PROVE [f EXCEPT !.on = t] \in ToldFrame
  BY DEF ToldFrame, Frame
<1>5. ASSUME NEW e \in Told \cup {"none", "ok"} PROVE [f EXCEPT !.out = e] \in ToldFrame
  BY DEF ToldFrame, Frame, Told, ErrorKind
<1>6. ASSUME NEW r \in SUBSET Host PROVE [f EXCEPT !.round = r] \in ToldFrame
  BY DEF ToldFrame, Frame
<1>7. f.left > 0 => [f EXCEPT !.left = @ - 1] \in ToldFrame
  BY PoolAssumption DEF ToldFrame, Frame
<1>8. [f EXCEPT !.meta = 0] \in ToldFrame
  BY DEF ToldFrame, Frame
<1> QED
  BY <1>1, <1>2, <1>3, <1>4, <1>5, <1>6, <1>7, <1>8

-----------------------------------------------------------------------------
(***************************************************************************)
(* Frames of one call                                                      *)
(***************************************************************************)
LEMMA SoundFrames ==
    ASSUME NEW P, NEW X, NEW k \in Nat, NEW q, Sound(q, P, X, k)
    PROVE  /\ q \in Seq(ToldFrame) /\ Len(q) \in Nat /\ DOMAIN q = 1..Len(q)
           /\ \A d \in 1..Len(q) : q[d] \in ToldFrame
           /\ q = <<>> <=> Len(q) = 0
           /\ Outer(q) /\ Len(q) <= k + 1
BY DEF Sound

LEMMA SoundInner ==
    ASSUME NEW P, NEW X, NEW k \in Nat, NEW q, Sound(q, P, X, k), q # <<>>
    PROVE  /\ Len(q) \in Nat \ {0} /\ Inner(q) \in ToldFrame
           /\ Placed(Inner(q), Len(q), P, X, k)
           /\ Len(q) \in DOMAIN q /\ DOMAIN q = 1..Len(q)
BY DEF Sound, Inner

\* Goes(c, f).
LEMMA InnerReplaced ==
    ASSUME NEW P, NEW X, NEW k \in Nat, NEW q, Sound(q, P, X, k), q # <<>>,
           NEW f \in ToldFrame, Placed(f, Len(q), P, X, k),
           NEW r, r = [q EXCEPT ![Len(q)] = f]
    PROVE  Sound(r, P, X, k) /\ Len(r) = Len(q) /\ Inner(r) = f /\ r # <<>>
<1>1. /\ q \in Seq(ToldFrame) /\ Len(q) \in Nat \ {0} /\ Len(q) \in 1..Len(q)
      /\ Outer(q) /\ Len(q) <= k + 1 /\ DOMAIN q = 1..Len(q)
  BY DEF Sound
<1>2. r \in Seq(ToldFrame) /\ Len(r) = Len(q)
  BY <1>1, ExceptSeq
<1>3. r[Len(q)] = f /\ \A d \in DOMAIN q : d # Len(q) => r[d] = q[d]
  BY <1>1
<1>4. Inner(r) = f /\ r # <<>>
  BY <1>1, <1>2, <1>3 DEF Inner
<1>5. Outer(r)
  BY <1>1, <1>2, <1>3 DEF Outer
<1> QED
  BY <1>1, <1>2, <1>4, <1>5 DEF Sound

\* The exec() inside settles with e.
Returned(q, e) ==
    [d \in 1..(Len(q) - 1) |->
        IF d = Len(q) - 1 THEN [q[d] EXCEPT !.at = "ends", !.out = e] ELSE q[d]]

LEMMA InnerReturned ==
    ASSUME NEW P, NEW X, 0 \notin X, NEW k \in Nat, NEW q, Sound(q, P, X, k), q # <<>>,
           NEW e \in Told \cup {"ok"}
    PROVE  /\ Sound(Returned(q, e), P, X, k) /\ Len(Returned(q, e)) = Len(q) - 1
           /\ Returned(q, e) # <<>> =>
                Inner(Returned(q, e)).at = "ends" /\ Inner(Returned(q, e)).out = e
<1> DEFINE n == Len(q)
           r == Returned(q, e)
<1>1. /\ Len(q) \in Nat \ {0} /\ DOMAIN q = 1..Len(q)
      /\ Outer(q) /\ Len(q) <= k + 1
      /\ \A d \in 1..Len(q) : q[d] \in ToldFrame
  BY SoundFrames
<1>2. ASSUME NEW d \in 1..(n - 1)
      PROVE  /\ q[d].meta = 0 /\ q[d].host \in Host
             /\ q[d].at = "nested" /\ q[d] \in ToldFrame
  BY <1>1 DEF Outer
<1>3. ASSUME NEW d \in 1..(n - 1)
      PROVE  LET f == [q[d] EXCEPT !.at = "ends", !.out = e]
             IN  f \in ToldFrame /\ f.at = "ends" /\ f.out = e /\ f.meta = 0 /\ f.host \in Host
  <2>1. [q[d] EXCEPT !.at = "ends"] \in ToldFrame
    BY <1>2, FrameChanges
  <2>2. [[q[d] EXCEPT !.at = "ends"] EXCEPT !.out = e] \in ToldFrame
    BY <2>1, FrameChanges
  <2>3. q[d] \in Frame
    BY <1>2 DEF ToldFrame
  <2> QED
    BY <1>2, <2>2, <2>3 DEF Frame
<1>4. \A d \in 1..(n - 1) :
        r[d] = IF d = n - 1 THEN [q[d] EXCEPT !.at = "ends", !.out = e] ELSE q[d]
  BY DEF Returned
<1>5. r = [d \in 1..(n - 1) |-> r[d]]
  BY DEF Returned
<1> HIDE DEF r
<1>6. \A d \in 1..(n - 1) : r[d] \in ToldFrame
  BY <1>2, <1>3, <1>4
<1>7. r \in Seq(ToldFrame) /\ Len(r) = n - 1 /\ DOMAIN r = 1..(n - 1)
  BY <1>1, <1>5, <1>6
<1>8. \A d \in 1..(n - 1) : d # n - 1 => r[d] = q[d]
  BY <1>4
<1>9. Outer(r)
  BY <1>2, <1>7, <1>8 DEF Outer
<1>10. r # <<>> => /\ Inner(r).at = "ends" /\ Inner(r).out = e
                   /\ Inner(r).meta = 0 /\ Inner(r).host \in Host
  <2> SUFFICES ASSUME r # <<>>
               PROVE  /\ r[n - 1].at = "ends" /\ r[n - 1].out = e
                      /\ r[n - 1].meta = 0 /\ r[n - 1].host \in Host
    BY <1>7 DEF Inner
  <2>1. n - 1 \in 1..(n - 1)
    BY <1>1, <1>7
  <2> QED
    BY <1>3, <1>4, <2>1
<1>11. r # <<>> => Placed(Inner(r), Len(r), P, X, k)
  <2>1. e # "none"
    BY DEF Told
  <2> QED
    BY <1>10, <2>1 DEF Placed
<1> QED
  BY <1>1, <1>7, <1>9, <1>10, <1>11 DEF Sound, r

\* What a call waits for is over.
Woken(q, f) ==
    [d \in DOMAIN q |->
        IF q[d].at = "wait" /\ q[d].on = f
        THEN [q[d] EXCEPT !.on = <<>>, !.at = IF q[d].out = "none" THEN "enter" ELSE "mark"]
        ELSE q[d]]

LEMMA WokenSound ==
    ASSUME NEW P, NEW X, NEW k \in Nat, NEW q, Sound(q, P, X, k), NEW f
    PROVE  /\ Sound(Woken(q, f), P, X, k) /\ Len(Woken(q, f)) = Len(q)
           /\ \/ Woken(q, f) = q
              \/ q # <<>> /\ Inner(Woken(q, f)).at \in {"enter", "mark"}
           /\ q # <<>> => Inner(Woken(q, f)).last = Inner(q).last
<1> DEFINE r == Woken(q, f)
<1>1. /\ q \in Seq(ToldFrame) /\ Len(q) \in Nat /\ DOMAIN q = 1..Len(q)
      /\ Outer(q) /\ Len(q) <= k + 1
      /\ \A d \in 1..Len(q) : q[d] \in ToldFrame
  BY SoundFrames
<1>2. r = [d \in 1..Len(q) |-> r[d]]
  BY <1>1 DEF Woken
<1>3. ASSUME NEW d \in 1..Len(q)
      PROVE  /\ r[d] \in ToldFrame
             /\ r[d] = q[d] \/ (q[d].at = "wait" /\ r[d].at \in {"enter", "mark"})
             /\ r[d].meta = q[d].meta /\ r[d].host = q[d].host /\ r[d].last = q[d].last
  <2>1. CASE q[d].at = "wait" /\ q[d].on = f
    <3>1. r[d] = [q[d] EXCEPT !.on = <<>>, !.at = IF q[d].out = "none" THEN "enter" ELSE "mark"]
      BY <1>1, <2>1 DEF Woken
    <3> QED
      BY <1>1, <2>1, <3>1 DEF ToldFrame, Frame, Tester
  <2>2. CASE ~(q[d].at = "wait" /\ q[d].on = f)
    BY <1>1, <2>2 DEF Woken
  <2> QED
    BY <2>1, <2>2
<1> HIDE DEF r
<1>4. r \in Seq(ToldFrame) /\ Len(r) = Len(q) /\ DOMAIN r = 1..Len(q)
  BY <1>1, <1>2, <1>3
<1>5. \A d \in 1..Len(q) : d # Len(q) => r[d] = q[d]
  BY <1>1, <1>3 DEF Outer
<1>6. Outer(r)
  BY <1>1, <1>4, <1>5 DEF Outer
<1>7. ASSUME q # <<>>
      PROVE  /\ Placed(Inner(r), Len(r), P, X, k)
             /\ r = q \/ Inner(r).at \in {"enter", "mark"}
             /\ Inner(r).last = Inner(q).last
  <2>1. Len(q) \in 1..Len(q) /\ Placed(Inner(q), Len(q), P, X, k)
    BY <1>1, <1>7 DEF Sound
  <2>2. CASE r[Len(q)] = q[Len(q)]
    <3>1. \A d \in 1..Len(q) : r[d] = q[d]
      BY <1>5, <2>2
    <3>2. q = [d \in 1..Len(q) |-> q[d]]
      BY <1>1
    <3>3. r = q
      BY <1>2, <3>1, <3>2
    <3> QED
      BY <2>1, <3>3
  <2>3. CASE r[Len(q)] # q[Len(q)]
    BY <1>3, <1>4, <2>1, <2>3 DEF Placed, Inner
  <2> QED
    BY <2>2, <2>3
<1>8. CASE q = <<>>
  <2>1. r = <<>>
    BY <1>4, <1>8
  <2> QED
    BY <1>8, <2>1 DEF r
<1>9. CASE q # <<>>
  <2>1. r # <<>>
    BY <1>1, <1>4, <1>9
  <2> QED
    BY <1>1, <1>4, <1>6, <1>7, <1>9, <2>1 DEF Sound, r
<1> QED
  BY <1>8, <1>9

\* A call that does nothing while tokens come, go and expire.
LEMMA StaysSound ==
    ASSUME NEW P, NEW X, NEW k \in Nat, NEW q, Sound(q, P, X, k),
           NEW P2, NEW X2, NEW k2 \in Nat, k <= k2,
           q # <<>> /\ Inner(q).meta # 0 =>
             LET m == Inner(q).meta
             IN  /\ P[m].state # "free" => P2[m].state # "free"
                 /\ P[m].state = "token" => P2[m].state = "token",
           q # <<>> => (Inner(q).meta \in X2 => Inner(q).meta \in X \/ k < k2)
    PROVE  Sound(q, P2, X2, k2)
<1>1. q \in Seq(ToldFrame) /\ Len(q) \in Nat /\ Len(q) <= k2 + 1 /\ Outer(q)
  BY DEF Sound
<1>2. ASSUME q # <<>> PROVE Placed(Inner(q), Len(q), P2, X2, k2)
  <2>1. Placed(Inner(q), Len(q), P, X, k) /\ Len(q) <= k + 1
    BY <1>2 DEF Sound
  <2>2. Inner(q).meta \in X2 => Len(q) <= k2
    BY <1>1, <1>2, <2>1 DEF Placed
  <2> QED
    BY <1>2, <2>1, <2>2 DEF Placed
<1> QED
  BY <1>1, <1>2 DEF Sound

-----------------------------------------------------------------------------
(***************************************************************************)
(* Promises                                                                *)
(***************************************************************************)
\* Only innermost frames hold promises.
LEMMA InnerHolds ==
    ASSUME Stacks, expiries \in Nat
    PROVE  /\ \A c \in Call : stack[c] # <<>> => Inner(stack[c]).meta \in Held
           /\ Held \subseteq Promise \cup {0}
           /\ \A p \in Held : p = 0 \/ \E c \in Call : stack[c] # <<>> /\ p = Inner(stack[c]).meta
<1>1. ASSUME NEW c \in Call
      PROVE  Sound(stack[c], promise, Expired, expiries)
  BY DEF Stacks
<1>2. ASSUME NEW c \in Call, stack[c] # <<>> PROVE Inner(stack[c]).meta \in Held
  <2>1. Len(stack[c]) \in DOMAIN stack[c]
    BY <1>1, <1>2, SoundInner
  <2>2. <<c, Len(stack[c])>> \in Frames
    BY <2>1 DEF Frames
  <2> QED
    BY <2>2 DEF Held, Inner
<1>3. ASSUME NEW c \in Call, NEW d \in DOMAIN stack[c]
      PROVE  stack[c] # <<>> /\ (stack[c][d].meta = 0 \/ stack[c][d] = Inner(stack[c]))
  <2>1. DOMAIN stack[c] = 1..Len(stack[c]) /\ (stack[c] = <<>> <=> Len(stack[c]) = 0)
        /\ Outer(stack[c])
    BY <1>1, SoundFrames
  <2> QED
    BY <2>1 DEF Outer, Inner
<1>4. ASSUME NEW p \in Held
      PROVE  p = 0 \/ \E c \in Call : stack[c] # <<>> /\ p = Inner(stack[c]).meta
  <2>1. PICK f \in Frames : p = stack[f[1]][f[2]].meta
    BY <1>4 DEF Held
  <2>2. PICK c \in Call : \E d \in DOMAIN stack[c] : f = <<c, d>>
    BY <2>1 DEF Frames
  <2>3. PICK d \in DOMAIN stack[c] : f = <<c, d>>
    BY <2>2
  <2> QED
    BY <1>3, <2>1, <2>3
<1>5. Held \subseteq Promise \cup {0}
  <2>1. ASSUME NEW c \in Call, stack[c] # <<>> PROVE Inner(stack[c]).meta \in Promise \cup {0}
    <3>1. Inner(stack[c]) \in ToldFrame
      BY <1>1, <2>1, SoundInner
    <3> QED
      BY <3>1 DEF ToldFrame, Frame
  <2> QED
    BY <1>4, <2>1
<1> QED
  BY <1>2, <1>4, <1>5

\* There are more promises than calls and the current one.
LEMMA FreshIsFree ==
    ASSUME Stacks, expiries \in Nat
    PROVE  Fresh \in Promise /\ Fresh # awaitingMetadata /\ Fresh \notin Held
<1> DEFINE of == [c \in Call |-> IF stack[c] # <<>> THEN Inner(stack[c]).meta ELSE 0]
           H == {of[c] : c \in Call}
           U == H \cup {awaitingMetadata}
<1>1. IsFiniteSet(Call) /\ Cardinality(Call) = Calls
  BY FS_Interval, PoolAssumption DEF Call
<1>2. of \in Surjection(Call, H)
  BY DEF Surjection
<1>3. IsFiniteSet(H) /\ Cardinality(H) <= Calls
  <2> HIDE DEF of, H
  <2> QED
    BY <1>1, <1>2, FS_Surjection
<1>4. IsFiniteSet(U) /\ Cardinality(U) <= Calls + 1 /\ Cardinality(U) \in Nat
  <2> HIDE DEF H
  <2>1. Cardinality(H) \in Nat
    BY <1>3, FS_CardinalityType
  <2>2. IsFiniteSet(H \cup {awaitingMetadata})
        /\ Cardinality(H \cup {awaitingMetadata}) =
             IF awaitingMetadata \in H THEN Cardinality(H) ELSE Cardinality(H) + 1
    BY <1>3, FS_AddElement
  <2> QED
    BY <1>3, <2>1, <2>2, PoolAssumption
<1>5. IsFiniteSet(Promise) /\ Cardinality(Promise) = Calls + 2
  BY FS_Interval, PoolAssumption DEF Promise
<1>6. \E p \in Promise : p \notin U
  <2> HIDE DEF U
  <2> SUFFICES ASSUME Promise \subseteq U PROVE FALSE
    OBVIOUS
  <2>1. Cardinality(Promise) <= Cardinality(U)
    BY <1>4, FS_Subset
  <2> QED
    BY <1>4, <1>5, <2>1, PoolAssumption
<1>7. PICK p \in Promise : p \notin U
  BY <1>6
<1>8. p \notin Held
  <2> SUFFICES ASSUME p \in Held PROVE FALSE
    OBVIOUS
  <2>1. p # 0
    BY PoolAssumption DEF Promise
  <2>2. PICK c \in Call : stack[c] # <<>> /\ p = Inner(stack[c]).meta
    BY <2>1, InnerHolds
  <2>3. of[c] = p
    BY <2>2
  <2> QED
    BY <1>7, <2>3
<1> QED
  BY <1>7, <1>8 DEF Fresh

\* A new promise has no token yet, and disturbs no call.
LEMMA AuthenticatesEffect ==
    ASSUME Fields, Stacks, Authenticates(Fresh)
    PROVE  /\ Fresh \in Promise /\ awaitingMetadata' = Fresh
           /\ promise'[Fresh].state = "asking" /\ Fresh \notin Expired'
           /\ \A m \in Held \ {0} : promise'[m] = promise[m]
           /\ \A m \in Held : m \in Expired' => m \in Expired
           /\ promise' \in [Promise -> Promised] /\ valid' \subseteq Promise
<1>1. expiries \in Nat
  BY PoolAssumption DEF Fields
<1>2. Fresh \in Promise /\ Fresh \notin Held /\ Held \subseteq Promise \cup {0}
  BY <1>1, FreshIsFree, InnerHolds
<1>3. /\ promise' = [promise EXCEPT ![Fresh] = [state |-> "asking", at |-> 1]]
      /\ valid' = valid \ {Fresh} /\ awaitingMetadata' = Fresh
  BY DEF Authenticates
<1>4. /\ promise'[Fresh].state = "asking"
      /\ \A p \in Promise : p # Fresh => promise'[p] = promise[p]
  BY <1>2, <1>3 DEF Fields
<1>5. Fresh \notin Expired' /\ \A p \in Promise : p # Fresh => (p \in Expired' <=> p \in Expired)
  BY <1>3, <1>4 DEF Expired
<1>6. 0 \notin Expired'
  BY PoolAssumption DEF Expired, Promise
<1>7. [state |-> "asking", at |-> 1] \in Promised
  BY PoolAssumption DEF Promised
<1>8. promise' \in [Promise -> Promised]
  BY <1>3, <1>7 DEF Fields
<1> QED
  BY <1>2, <1>3, <1>4, <1>5, <1>6, <1>8 DEF Fields

\* getMetadata() returns a promise whose token, if it has expired, was there
\* before any exec() under way.
LEMMA getMetadataEffect ==
    ASSUME PoolInv, NEW p \in Promise \cup {0}, getMetadata(p)
    PROVE  /\ p # 0 => promise'[p].state # "free"
           /\ awaitingMetadata' # 0 => promise'[awaitingMetadata'].state # "free"
           /\ p \in Expired' \/ awaitingMetadata' \in Expired' =>
                1 <= expiries /\ \A c \in Call : Len(stack[c]) <= expiries
           /\ \A m \in Held \ {0} : promise'[m] = promise[m]
           /\ \A m \in Held : m \in Expired' => m \in Expired
           /\ awaitingMetadata' \in Promise \cup {0}
           /\ promise' \in [Promise -> Promised] /\ valid' \subseteq Promise
<1>1. CASE UNCHANGED tokens /\ p \in {0, awaitingMetadata}
  <2>1. 0 \notin Expired'
    BY PoolAssumption DEF Expired, Promise
  <2>2. Expired' = Expired
    BY <1>1 DEF Expired, tokens
  <2> QED
    BY <1>1, <2>1, <2>2 DEF tokens, PoolInv, Fields, Current
<1>2. CASE p = Fresh /\ Authenticates(p)
  BY <1>2, AuthenticatesEffect DEF PoolInv
<1> QED
  BY <1>1, <1>2 DEF getMetadata

-----------------------------------------------------------------------------
(***************************************************************************)
(* Steps of one call that leave the tokens alone                           *)
(***************************************************************************)
\* What may become of a call when another makes a step.
Bystands(q, r) ==
    \/ r = q
    \/ /\ q # <<>> /\ r # <<>> /\ Len(r) = Len(q)
       /\ Inner(r).at \in {"enter", "mark"} /\ Inner(r).last = Inner(q).last

\* No call is sent, and no stream opened.
Quiet ==
    \A c \in Call : stack'[c] # <<>> /\ stack'[c] # stack[c] =>
        Inner(stack'[c]).at \notin {"sent", "open"}

Acts(c) ==
    /\ UNCHANGED <<tokens, expiries>>
    /\ DOMAIN stack' = Call
    /\ \A b \in Call :
         Sound(stack'[b], promise, Expired, expiries) /\ Len(stack'[b]) <= Len(stack[b])
    /\ \A b \in Call \ {c} :
         /\ Bystands(stack[b], stack'[b])
         /\ kind'[b] = kind[b] /\ result'[b] = result[b] /\ seen'[b] = seen[b]
    /\ Knows(stack'[c], kind'[c], result'[c], seen'[c])
    /\ shut /\ cached = {} /\ stack'[c] # <<>> => Inner(stack'[c]).at \notin {"sent", "open"}

\* The invariant about the calls, and that a closed pool is quiet.
CallsNext ==
    /\ Stacks'
    /\ Current(stack', awaitingMetadata', promise', Expired', expiries')
    /\ Causes'
    /\ shut /\ cached = {} => Quiet

LEMMA CallNow ==
    ASSUME PoolInv, NEW c \in Call
    PROVE  /\ Sound(stack[c], promise, Expired, expiries)
           /\ Knows(stack[c], kind[c], result[c], seen[c])
           /\ expiries \in Nat /\ 0 \notin Expired /\ Len(stack[c]) \in Nat
<1>1. expiries \in Nat
  BY PoolAssumption DEF PoolInv, Fields
<1>2. 0 \notin Expired
  BY PoolAssumption DEF Expired, Promise
<1> QED
  BY <1>1, <1>2, SoundFrames DEF PoolInv, Stacks, Causes

LEMMA BystanderKnows ==
    ASSUME NEW q, NEW r, Bystands(q, r), NEW k, NEW u, NEW e, Knows(q, k, u, e)
    PROVE  Knows(r, k, u, e)
BY DEF Bystands, Knows

LEMMA TokensKept ==
    ASSUME UNCHANGED tokens
    PROVE  promise' = promise /\ Expired' = Expired
BY DEF tokens, Expired

LEMMA ActsKeeps ==
    ASSUME PoolInv, NEW c \in Call, Acts(c)
    PROVE  CallsNext
<1>1. promise' = promise /\ Expired' = Expired /\ UNCHANGED <<awaitingMetadata, expiries>>
  BY TokensKept DEF Acts, tokens
<1>2. Stacks'
  BY <1>1 DEF Stacks, Acts
<1>3. Current(stack', awaitingMetadata', promise', Expired', expiries')
  <2> SUFFICES ASSUME awaitingMetadata \in Expired
               PROVE  1 <= expiries /\ \A b \in Call : Len(stack'[b]) <= expiries
    BY <1>1 DEF Current, PoolInv
  <2> SUFFICES ASSUME NEW b \in Call PROVE Len(stack'[b]) <= expiries
    BY DEF PoolInv, Current
  <2>1. 1 <= expiries /\ Len(stack[b]) <= expiries
    BY DEF PoolInv, Current
  <2>2. Len(stack'[b]) <= Len(stack[b]) /\ Sound(stack'[b], promise, Expired, expiries)
    BY DEF Acts
  <2>3. Len(stack[b]) \in Nat /\ expiries \in Nat
    BY CallNow
  <2>4. Len(stack'[b]) \in Nat
    BY <2>2, <2>3, SoundFrames
  <2> QED
    BY <2>1, <2>2, <2>3, <2>4
<1>4. Causes'
  <2> SUFFICES ASSUME NEW b \in Call
               PROVE  Knows(stack'[b], kind'[b], result'[b], seen'[b])
    BY DEF Causes
  <2>1. CASE b = c
    BY <2>1 DEF Acts
  <2>2. CASE b # c
    <3>1. Knows(stack[b], kind[b], result[b], seen[b])
      BY CallNow
    <3>2. /\ Bystands(stack[b], stack'[b])
          /\ kind'[b] = kind[b] /\ result'[b] = result[b] /\ seen'[b] = seen[b]
      BY <2>2 DEF Acts
    <3> QED
      BY <3>1, <3>2, BystanderKnows
  <2> QED
    BY <2>1, <2>2
<1>5. shut /\ cached = {} => Quiet
  BY DEF Acts, Quiet, Bystands
<1> QED
  BY <1>2, <1>3, <1>4, <1>5 DEF CallsNext

LEMMA GoesEffect ==
    ASSUME PoolInv, NEW c \in Call, Running(c), NEW f \in ToldFrame,
           Placed(f, Len(stack[c]), promise, Expired, expiries), Goes(c, f)
    PROVE  /\ DOMAIN stack' = Call /\ \A b \in Call \ {c} : stack'[b] = stack[b]
           /\ Sound(stack'[c], promise, Expired, expiries)
           /\ Len(stack'[c]) = Len(stack[c]) /\ Inner(stack'[c]) = f /\ stack'[c] # <<>>
<1>1. /\ Sound(stack[c], promise, Expired, expiries) /\ stack[c] # <<>> /\ expiries \in Nat
      /\ DOMAIN stack = Call
  BY CallNow DEF Running, PoolInv, Stacks
<1>2. stack'[c] = [stack[c] EXCEPT ![Len(stack[c])] = f]
  BY <1>1 DEF Goes
<1>3. DOMAIN stack' = Call /\ \A b \in Call \ {c} : stack'[b] = stack[b]
  BY <1>1 DEF Goes
<1>4. /\ Sound(stack'[c], promise, Expired, expiries)
      /\ Len(stack'[c]) = Len(stack[c]) /\ Inner(stack'[c]) = f /\ stack'[c] # <<>>
  BY <1>1, <1>2, InnerReplaced
<1> QED
  BY <1>3, <1>4

LEMMA GoesActs ==
    ASSUME PoolInv, NEW c \in Call, Running(c), NEW f \in ToldFrame,
           Placed(f, Len(stack[c]), promise, Expired, expiries), Goes(c, f),
           UNCHANGED <<tokens, expiries, kind, seen>>,
           result' = result \/ result' = [result EXCEPT ![c] = "ok"],
           f.at = "sent" => kind[c] = "unary",
           kind[c] = "unary" => f.last = Inner(stack[c]).last,
           shut /\ cached = {} => f.at \notin {"sent", "open"}
    PROVE  Acts(c)
<1>1. /\ DOMAIN stack' = Call /\ \A b \in Call \ {c} : stack'[b] = stack[b]
      /\ Sound(stack'[c], promise, Expired, expiries)
      /\ Len(stack'[c]) = Len(stack[c]) /\ Inner(stack'[c]) = f /\ stack'[c] # <<>>
  BY GoesEffect
<1>2. \A b \in Call : Sound(stack[b], promise, Expired, expiries) /\ Len(stack[b]) \in Nat
  BY CallNow
<1>3. \A b \in Call :
        Sound(stack'[b], promise, Expired, expiries) /\ Len(stack'[b]) <= Len(stack[b])
  BY <1>1, <1>2
<1>4. \A b \in Call \ {c} :
        /\ Bystands(stack[b], stack'[b])
        /\ kind'[b] = kind[b] /\ result'[b] = result[b] /\ seen'[b] = seen[b]
  BY <1>1 DEF Bystands, PoolInv, Fields
<1>5. Knows(stack'[c], kind'[c], result'[c], seen'[c])
  <2>1. Knows(stack[c], kind[c], result[c], seen[c]) /\ stack[c] # <<>>
    BY CallNow DEF Running
  <2>2. result'[c] \in {result[c], "ok"} /\ kind'[c] = kind[c] /\ seen'[c] = seen[c]
    BY DEF PoolInv, Fields
  <2> QED
    BY <1>1, <2>1, <2>2 DEF Knows
<1> QED
  BY <1>1, <1>3, <1>4, <1>5 DEF Acts

\* A frame of exec() that e was told to, which tries again or is gone.
LEMMA StackAfterEffect ==
    ASSUME PoolInv, NEW c \in Call, Running(c), NEW e \in Told \cup {"ok"},
           NEW s, s = StackAfter(c, e)
    PROVE  /\ DOMAIN s = Call /\ \A b \in Call \ {c} : s[b] = stack[b]
           /\ Sound(s[c], promise, Expired, expiries)
           /\ s[c] # <<>> => Inner(s[c]).at \in {"backoff", "ends"}
           /\ Again(c, e) => /\ Len(s[c]) = Len(stack[c]) /\ s[c] # <<>>
                             /\ Inner(s[c]).last = LastAfter(c, e)
           /\ ~Again(c, e) => Len(s[c]) = Len(stack[c]) - 1
<1>1. /\ Sound(stack[c], promise, Expired, expiries) /\ stack[c] # <<>> /\ expiries \in Nat
      /\ DOMAIN stack = Call /\ 0 \notin Expired
  BY CallNow DEF Running, PoolInv, Stacks
<1>2. Top(c) = Inner(stack[c]) /\ Top(c) \in ToldFrame
  BY <1>1, SoundInner DEF Top, Inner
<1>3. DOMAIN s = Call /\ \A b \in Call \ {c} : s[b] = stack[b]
  BY <1>1 DEF StackAfter
<1>4. CASE Again(c, e)
  <2> DEFINE f == [Connection(0, Top(c).tries + 1, Top(c).round, LastAfter(c, e))
                     EXCEPT !.at = "backoff"]
  <2>1. s[c] = [stack[c] EXCEPT ![Len(stack[c])] = f]
    BY <1>1, <1>4 DEF StackAfter
  <2>2. e = "GRPCUnavailableError" /\ Top(c).tries < Retries
    BY <1>4, OneRecoverable DEF Again
  <2>3. LastAfter(c, e) \in Tried
    BY <1>2, <2>2 DEF LastAfter, Tried, ToldFrame
  <2>4. Top(c).tries + 1 \in 0..Retries /\ Top(c).round \in SUBSET Host
    BY <1>2, <2>2, PoolAssumption DEF ToldFrame, Frame
  <2>5. Connection(0, Top(c).tries + 1, Top(c).round, LastAfter(c, e)) \in ToldFrame
    BY <2>3, <2>4, ConnectionFrame
  <2>6. f \in ToldFrame
    BY <2>5, FrameChanges
  <2>7. f.at = "backoff" /\ f.meta = 0 /\ f.last = LastAfter(c, e)
    BY DEF Connection
  <2>8. Placed(f, Len(stack[c]), promise, Expired, expiries)
    BY <1>1, <2>7 DEF Placed
  <2> HIDE DEF f
  <2>9. /\ Sound(s[c], promise, Expired, expiries) /\ Len(s[c]) = Len(stack[c])
        /\ Inner(s[c]) = f /\ s[c] # <<>>
    BY <1>1, <2>1, <2>6, <2>8, InnerReplaced
  <2> QED
    BY <1>3, <1>4, <2>7, <2>9
<1>5. CASE ~Again(c, e)
  <2>1. Reported(c, e) \in Told \cup {"ok"}
    BY <1>2 DEF Reported, ToldFrame, Tried, Told
  <2>2. s[c] = Returned(stack[c], Reported(c, e))
    BY <1>1, <1>5 DEF StackAfter, Returned
  <2>3. /\ Sound(s[c], promise, Expired, expiries) /\ Len(s[c]) = Len(stack[c]) - 1
        /\ s[c] # <<>> => Inner(s[c]).at = "ends"
    BY <1>1, <2>1, <2>2, InnerReturned
  <2> QED
    BY <1>3, <1>5, <2>3
<1> QED
  BY <1>4, <1>5

\* What a call knows once exec() has handled e.
LEMMA SettledKnows ==
    ASSUME PoolInv, NEW c \in Call, Running(c), NEW e \in Told \cup {"ok"},
           NEW q,
           q # <<>> => Inner(q).at # "sent",
           Again(c, e) => /\ Len(q) = Len(stack[c]) /\ q # <<>>
                          /\ Inner(q).last = LastAfter(c, e),
           ~Again(c, e) => Len(q) = Len(stack[c]) - 1,
           q = <<>> <=> Len(q) = 0,
           NEW S, \/ S = seen[c]
                  \/ Top(c).at = "sent" /\ e # "BrokenCircuitError" /\ S = seen[c] \cup {e}
    PROVE  Knows(q, kind[c], ResultAfter(c, e)[c], S)
<1>1. /\ Knows(stack[c], kind[c], result[c], seen[c]) /\ stack[c] # <<>>
      /\ Top(c) = Inner(stack[c]) /\ result[c] \in {"none", "ok"}
      /\ Len(stack[c]) \in Nat \ {0}
  BY CallNow, SoundInner DEF Running, Top, Inner, Knows
<1>2. ResultAfter(c, e)[c] =
        IF Len(stack[c]) > 1 \/ Again(c, e) THEN result[c] ELSE Reported(c, e)
  BY DEF ResultAfter, PoolInv, Fields
<1>3. kind[c] # "new" /\ (kind[c] # "unary" => S = {})
  BY <1>1 DEF Knows
<1>4. CASE Again(c, e)
  <2>1. e = "GRPCUnavailableError"
    BY <1>4, OneRecoverable DEF Again
  <2>2. S # {} /\ "EtcdInvalidAuthTokenError" \notin S => Inner(q).last # "none"
    BY <1>1, <1>4, <2>1 DEF LastAfter, Knows
  <2>3. "EtcdInvalidAuthTokenError" \notin S => Len(q) = 1
    BY <1>1, <1>4 DEF Knows
  <2> QED
    BY <1>1, <1>2, <1>3, <1>4, <2>2, <2>3 DEF Knows
<1>5. CASE ~Again(c, e) /\ Len(stack[c]) > 1
  <2>1. "EtcdInvalidAuthTokenError" \in seen[c]
    BY <1>1, <1>5 DEF Knows
  <2>2. "EtcdInvalidAuthTokenError" \in S
    BY <2>1
  <2> QED
    BY <1>1, <1>2, <1>3, <1>5, <2>2 DEF Knows
<1>6. CASE ~Again(c, e) /\ Len(stack[c]) = 1
  <2>1. q = <<>>
    BY <1>6
  <2>2. Top(c).last \in Tried
    BY <1>1, CallNow, SoundInner DEF ToldFrame
  <2>3. Reported(c, e) = "BrokenCircuitError" => e = "BrokenCircuitError" /\ Top(c).last = "none"
    BY <2>2 DEF Reported, Tried
  <2>4. Reported(c, e) = "BrokenCircuitError" /\ "EtcdInvalidAuthTokenError" \notin S => S = {}
    BY <1>1, <2>3 DEF Knows
  <2> QED
    BY <1>2, <1>3, <1>6, <2>1, <2>4 DEF Knows
<1>7. Len(stack[c]) > 1 \/ Len(stack[c]) = 1
  <2>1. Len(stack[c]) \in Nat \ {0}
    BY <1>1
  <2>2. \A n \in Nat \ {0} : n > 1 \/ n = 1
    OBVIOUS
  <2> QED
    BY <2>1, <2>2, Zenon
<1> QED
  BY <1>4, <1>5, <1>6, <1>7, Zenon

\* What becomes of the calls once e was handled, and the calls that waited for f.
LEMMA WakeEffect ==
    ASSUME NEW s, NEW f
    PROVE  DOMAIN Wake(s, f) = Call /\ \A b \in Call : Wake(s, f)[b] = Woken(s[b], f)
BY DEF Wake, Woken

LEMMA SettlesActs ==
    ASSUME PoolInv, NEW c \in Call, Running(c), NEW e \in Told \cup {"ok"},
           NEW s, s = StackAfter(c, e), NEW f, stack' = s \/ stack' = Wake(s, f),
           result' = ResultAfter(c, e),
           UNCHANGED <<tokens, expiries, kind>>,
           \/ seen' = seen
           \/ /\ Top(c).at = "sent" /\ e # "BrokenCircuitError"
              /\ seen' = [seen EXCEPT ![c] = @ \cup {e}]
    PROVE  Acts(c)
<1>1. /\ DOMAIN s = Call /\ \A b \in Call \ {c} : s[b] = stack[b]
      /\ Sound(s[c], promise, Expired, expiries)
      /\ s[c] # <<>> => Inner(s[c]).at \in {"backoff", "ends"}
      /\ Again(c, e) => /\ Len(s[c]) = Len(stack[c]) /\ s[c] # <<>>
                        /\ Inner(s[c]).last = LastAfter(c, e)
      /\ ~Again(c, e) => Len(s[c]) = Len(stack[c]) - 1
  BY StackAfterEffect
<1>2. \A b \in Call : Sound(stack[b], promise, Expired, expiries) /\ Len(stack[b]) \in Nat
  BY CallNow
<1>3. expiries \in Nat
  BY CallNow
<1>4. \A b \in Call : Sound(s[b], promise, Expired, expiries) /\ Len(s[b]) <= Len(stack[b])
  BY <1>1, <1>2
<1>5. ASSUME NEW b \in Call
      PROVE  /\ Sound(stack'[b], promise, Expired, expiries) /\ Len(stack'[b]) = Len(s[b])
             /\ \/ stack'[b] = s[b]
                \/ s[b] # <<>> /\ Inner(stack'[b]).at \in {"enter", "mark"}
             /\ s[b] # <<>> => Inner(stack'[b]).last = Inner(s[b]).last
  <2>1. stack'[b] = s[b] \/ stack'[b] = Woken(s[b], f)
    BY WakeEffect
  <2>2. CASE stack'[b] = s[b]
    BY <1>4, <2>2
  <2>3. CASE stack'[b] = Woken(s[b], f)
    <3>1. PICK q : q = s[b]
      OBVIOUS
    <3>2. Sound(q, promise, Expired, expiries)
      BY <1>4, <3>1
    <3>3. /\ Sound(Woken(q, f), promise, Expired, expiries) /\ Len(Woken(q, f)) = Len(q)
          /\ \/ Woken(q, f) = q
             \/ q # <<>> /\ Inner(Woken(q, f)).at \in {"enter", "mark"}
          /\ q # <<>> => Inner(Woken(q, f)).last = Inner(q).last
      BY <1>3, <3>2, WokenSound
    <3> QED
      BY <2>3, <3>1, <3>3
  <2> QED
    BY <2>1, <2>2, <2>3
<1>6. ASSUME NEW b \in Call
      PROVE  stack'[b] = <<>> <=> s[b] = <<>>
  <2>1. /\ stack'[b] = <<>> <=> Len(stack'[b]) = 0
        /\ s[b] = <<>> <=> Len(s[b]) = 0
    BY <1>3, <1>4, <1>5, SoundFrames
  <2> QED
    BY <1>5, <2>1
<1>7. DOMAIN stack' = Call
  BY <1>1, WakeEffect
<1>8. \A b \in Call \ {c} :
        /\ Bystands(stack[b], stack'[b])
        /\ kind'[b] = kind[b] /\ result'[b] = result[b] /\ seen'[b] = seen[b]
  <2> SUFFICES ASSUME NEW b \in Call \ {c}
               PROVE  /\ Bystands(stack[b], stack'[b])
                      /\ kind'[b] = kind[b] /\ result'[b] = result[b] /\ seen'[b] = seen[b]
    OBVIOUS
  <2>1. s[b] = stack[b]
    BY <1>1
  <2>2. Bystands(stack[b], stack'[b])
    BY <1>5, <1>6, <2>1 DEF Bystands
  <2>3. kind'[b] = kind[b] /\ result'[b] = result[b] /\ seen'[b] = seen[b]
    BY DEF ResultAfter, PoolInv, Fields
  <2> QED
    BY <2>2, <2>3
<1>9. Knows(stack'[c], kind[c], ResultAfter(c, e)[c], seen'[c])
  <2>1. stack'[c] # <<>> => Inner(stack'[c]).at # "sent"
    BY <1>1, <1>5, <1>6
  <2>2. Again(c, e) => /\ Len(stack'[c]) = Len(stack[c]) /\ stack'[c] # <<>>
                       /\ Inner(stack'[c]).last = LastAfter(c, e)
    BY <1>1, <1>5, <1>6
  <2>3. ~Again(c, e) => Len(stack'[c]) = Len(stack[c]) - 1
    BY <1>1, <1>5
  <2>4. stack'[c] = <<>> <=> Len(stack'[c]) = 0
    BY <1>3, <1>5, SoundFrames
  <2>5. \/ seen'[c] = seen[c]
        \/ Top(c).at = "sent" /\ e # "BrokenCircuitError" /\ seen'[c] = seen[c] \cup {e}
    BY DEF PoolInv, Fields
  <2> QED
    BY <2>1, <2>2, <2>3, <2>4, <2>5, SettledKnows
<1>10. stack'[c] # <<>> => Inner(stack'[c]).at \notin {"sent", "open"}
  BY <1>1, <1>5, <1>6
<1>11. Knows(stack'[c], kind'[c], result'[c], seen'[c])
  BY <1>9
<1>12. \A b \in Call :
         Sound(stack'[b], promise, Expired, expiries) /\ Len(stack'[b]) <= Len(stack[b])
  BY <1>4, <1>5
<1> QED
  BY <1>7, <1>8, <1>10, <1>11, <1>12 DEF Acts

LEMMA RejectsActs ==
    ASSUME PoolInv, NEW c \in Call, Running(c), NEW e \in Told \cup {"ok"}, Rejects(c, e),
           UNCHANGED <<tokens, expiries, kind, seen>>
    PROVE  Acts(c)
BY SettlesActs DEF Rejects

-----------------------------------------------------------------------------
(***************************************************************************)
(* The actions of a call                                                   *)
(***************************************************************************)
\* The innermost frame of a call under way.
LEMMA TopNow ==
    ASSUME PoolInv, NEW c \in Call, Running(c)
    PROVE  /\ stack[c] # <<>> /\ Top(c) = Inner(stack[c]) /\ Top(c) \in ToldFrame
           /\ Placed(Top(c), Len(stack[c]), promise, Expired, expiries)
           /\ kind[c] # "new" /\ (Top(c).at = "sent" => kind[c] = "unary")
           /\ Len(stack[c]) \in Nat \ {0}
<1>1. /\ Sound(stack[c], promise, Expired, expiries) /\ expiries \in Nat
      /\ Knows(stack[c], kind[c], result[c], seen[c]) /\ stack[c] # <<>>
  BY CallNow DEF Running
<1>2. Top(c) = Inner(stack[c])
  BY DEF Top, Inner
<1>3. /\ Inner(stack[c]) \in ToldFrame /\ Len(stack[c]) \in Nat \ {0}
      /\ Placed(Inner(stack[c]), Len(stack[c]), promise, Expired, expiries)
  BY <1>1, SoundInner
<1> QED
  BY <1>1, <1>2, <1>3 DEF Knows

LEMMA NoMetadataActs ==
    ASSUME PoolInv, NEW c \in Call, NoMetadata(c)
    PROVE  Acts(c)
<1>1. /\ Running(c) /\ Rejects(c, promise[Top(c).meta].state)
      /\ Top(c).meta # 0 /\ promise[Top(c).meta].state \notin {"asking", "token"}
      /\ UNCHANGED <<tokens, expiries, kind, seen>>
  BY DEF NoMetadata, bounds
<1>2. Top(c).meta \in Promise /\ promise[Top(c).meta].state # "free"
  BY <1>1, TopNow DEF Placed, ToldFrame, Frame
<1>3. promise[Top(c).meta].state \in Told \cup {"ok"}
  BY <1>1, <1>2 DEF PoolInv, Fields, Promised, Told
<1> QED
  BY <1>1, <1>3, RejectsActs

LEMMA BlockedActs ==
    ASSUME PoolInv, NEW c \in Call, Blocked(c)
    PROVE  Acts(c)
<1>1. "BrokenCircuitError" \in Told \cup {"ok"}
  BY DEF Told
<1> QED
  BY <1>1, RejectsActs DEF Blocked, bounds

\* f is the frame with which the call goes on to the host h.
LEMMA EntersActs ==
    ASSUME PoolInv, NEW c \in Call, Running(c), NEW f \in ToldFrame, NEW h \in Host,
           f.meta = Top(c).meta, f.last = Top(c).last,
           f.meta # 0 => promise[f.meta].state = "token",
           Enters(c, f, h), UNCHANGED <<tokens, kind, seen, expiries>>
    PROVE  Acts(c)
<1>1. /\ Placed(Top(c), Len(stack[c]), promise, Expired, expiries)
      /\ Top(c) = Inner(stack[c]) /\ kind[c] # "new"
  BY TopNow
<1>2. CASE Block(c, f, h)
  <2> DEFINE g == [f EXCEPT !.at = "draw"]
  <2>1. g \in ToldFrame
    BY FrameChanges
  <2>2. g.at = "draw" /\ g.meta = f.meta /\ g.last = f.last
    BY DEF ToldFrame, Frame
  <2>3. Goes(c, g) /\ UNCHANGED result
    BY <1>2 DEF Block
  <2> HIDE DEF g
  <2>4. Placed(g, Len(stack[c]), promise, Expired, expiries)
    BY <1>1, <2>2 DEF Placed
  <2> QED
    BY <1>1, <2>1, <2>2, <2>3, <2>4, GoesActs
<1>3. CASE Wait(c, f, h)
  <2> DEFINE g == [f EXCEPT !.at = "wait", !.host = h, !.on = tester[h]]
  <2>1. g \in ToldFrame
    <3>1. tester[h] \in Tester
      BY DEF PoolInv, Fields
    <3>2. [f EXCEPT !.at = "wait"] \in ToldFrame
      BY FrameChanges
    <3>3. [[f EXCEPT !.at = "wait"] EXCEPT !.host = h] \in ToldFrame
      BY <3>2, FrameChanges
    <3> QED
      BY <3>1, <3>3, FrameChanges
  <2>2. g.at = "wait" /\ g.host = h /\ g.meta = f.meta /\ g.last = f.last
    BY DEF ToldFrame, Frame
  <2>3. Goes(c, g) /\ UNCHANGED result
    BY <1>3 DEF Wait
  <2> HIDE DEF g
  <2>4. Placed(g, Len(stack[c]), promise, Expired, expiries)
    BY <1>1, <2>2 DEF Placed
  <2> QED
    BY <1>1, <2>1, <2>2, <2>3, <2>4, GoesActs
<1>4. CASE CallThrough(c, f, h) /\ kind[c] = "unary"
  <2> DEFINE g == [f EXCEPT !.at = "sent", !.host = h, !.test = circuit[h] = "cooled"]
  <2>1. g \in ToldFrame
    <3>1. [f EXCEPT !.at = "sent"] \in ToldFrame
      BY FrameChanges
    <3>2. [[f EXCEPT !.at = "sent"] EXCEPT !.host = h] \in ToldFrame
      BY <3>1, FrameChanges
    <3>3. (circuit[h] = "cooled") \in BOOLEAN
      OBVIOUS
    <3> QED
      BY <3>2, <3>3, FrameChanges
  <2>2. g.at = "sent" /\ g.host = h /\ g.meta = f.meta /\ g.last = f.last
    BY DEF ToldFrame, Frame
  <2>3. Goes(c, g) /\ UNCHANGED result /\ (h \in cached \/ ~shut)
    BY <1>4 DEF CallThrough
  <2> HIDE DEF g
  <2>4. Placed(g, Len(stack[c]), promise, Expired, expiries)
    BY <1>1, <2>2 DEF Placed
  <2>5. ~(shut /\ cached = {})
    BY <2>3
  <2> QED
    BY <1>1, <1>4, <2>1, <2>2, <2>3, <2>4, <2>5, GoesActs
<1>5. CASE CallThrough(c, f, h) /\ kind[c] # "unary"
  <2> DEFINE g == [Connection(0, 0, {}, "none") EXCEPT !.at = "open", !.host = h]
  <2>1. g \in ToldFrame
    <3>1. Connection(0, 0, {}, "none") \in ToldFrame
      BY BlankFrame
    <3>2. [Connection(0, 0, {}, "none") EXCEPT !.at = "open"] \in ToldFrame
      BY <3>1, FrameChanges
    <3>3. [[Connection(0, 0, {}, "none") EXCEPT !.at = "open"] EXCEPT !.host = h] \in ToldFrame
      BY <3>2, FrameChanges
    <3> QED
      BY <3>3
  <2>2. g.at = "open" /\ g.host = h /\ g.meta = 0
    BY DEF Connection
  <2>3. Goes(c, g) /\ result' = [result EXCEPT ![c] = "ok"] /\ (h \in cached \/ ~shut)
    BY <1>5 DEF CallThrough
  <2> HIDE DEF g
  <2>4. Placed(g, Len(stack[c]), promise, Expired, expiries)
    BY <2>2, CallNow DEF Placed
  <2>5. ~(shut /\ cached = {})
    BY <2>3
  <2> QED
    BY <1>5, <2>1, <2>2, <2>3, <2>4, <2>5, GoesActs
<1>6. CASE IsClosed(c, f, h)
  <2>1. "ClientClosedError" \in Told \cup {"ok"}
    BY DEF Told
  <2> QED
    BY <1>6, <2>1, RejectsActs DEF IsClosed
<1> QED
  BY <1>2, <1>3, <1>4, <1>5, <1>6 DEF Enters


LEMMA DrawActs ==
    ASSUME PoolInv, NEW c \in Call, Draw(c)
    PROVE  Acts(c)
<1> DEFINE rest == IF Top(c).round = {} THEN Host ELSE Top(c).round
<1>1. /\ Running(c) /\ Top(c).left > 0 /\ HasMetadata(Top(c))
      /\ UNCHANGED <<tokens, kind, seen, expiries>>
  BY DEF Draw, bounds
<1>2. PICK h \in rest : Enters(c, [Top(c) EXCEPT !.round = rest \ {h}, !.left = @ - 1], h)
  BY DEF Draw
<1> DEFINE f == [Top(c) EXCEPT !.round = rest \ {h}, !.left = @ - 1]
<1>3. Top(c) \in ToldFrame
  BY <1>1, TopNow
<1>4. rest \in SUBSET Host
  BY <1>3 DEF ToldFrame, Frame
<1>5. f \in ToldFrame /\ f.meta = Top(c).meta /\ f.last = Top(c).last
  <2>1. [Top(c) EXCEPT !.left = @ - 1] \in ToldFrame
    BY <1>1, <1>3, FrameChanges
  <2>2. [[Top(c) EXCEPT !.left = @ - 1] EXCEPT !.round = rest \ {h}] \in ToldFrame
    BY <1>4, <2>1, FrameChanges
  <2>3. [[Top(c) EXCEPT !.left = @ - 1] EXCEPT !.round = rest \ {h}] = f
    BY <1>3 DEF ToldFrame, Frame
  <2> QED
    BY <1>3, <2>2, <2>3 DEF ToldFrame, Frame
<1>6. f.meta # 0 => promise[f.meta].state = "token"
  BY <1>1, <1>5 DEF HasMetadata
<1>7. Enters(c, f, h) /\ h \in Host
  BY <1>2, <1>4
<1> HIDE DEF f, rest
<1> QED
  BY <1>1, <1>5, <1>6, <1>7, EntersActs

LEMMA EnterActs ==
    ASSUME PoolInv, NEW c \in Call, Enter(c)
    PROVE  Acts(c)
<1> DEFINE f == [Top(c) EXCEPT !.host = 0]
<1>1. /\ Running(c) /\ Top(c).at = "enter" /\ Enters(c, f, Top(c).host)
      /\ UNCHANGED <<tokens, kind, seen, expiries>>
  BY DEF Enter, bounds
<1>2. Top(c) \in ToldFrame /\ Placed(Top(c), Len(stack[c]), promise, Expired, expiries)
  BY <1>1, TopNow
<1>3. f \in ToldFrame /\ f.meta = Top(c).meta /\ f.last = Top(c).last
  <2>1. f \in ToldFrame
    BY <1>2, FrameChanges
  <2> QED
    BY <1>2, <2>1 DEF ToldFrame, Frame
<1>4. Top(c).host \in Host /\ (f.meta # 0 => promise[f.meta].state = "token")
  BY <1>1, <1>2, <1>3 DEF Placed
<1> HIDE DEF f
<1> QED
  BY <1>1, <1>3, <1>4, EntersActs

\* A host answers, or an exec() inside returns.
LEMMA ServeActs ==
    ASSUME PoolInv, NEW c \in Call, Serve(c)
    PROVE  Acts(c)
<1>1. /\ Running(c) /\ Settles(c, "ok") /\ seen' = [seen EXCEPT ![c] = @]
      /\ UNCHANGED <<tokens, kind, expiries>>
  BY DEF Serve, Sent, Answers, bounds
<1>2. seen' = seen
  BY <1>1 DEF PoolInv, Fields
<1> QED
  BY <1>1, <1>2, SettlesActs DEF Settles

LEMMA FailActs ==
    ASSUME PoolInv, NEW c \in Call, Fail(c)
    PROVE  Acts(c)
<1>1. PICK raw \in Failure : Answers(c, castGrpcError(raw))
  BY DEF Fail
<1> DEFINE e == castGrpcError(raw)
<1>2. e \in {"GRPCUnavailableError", "EtcdPermissionDeniedError"}
  BY Casts DEF Failure
<1>3. /\ Running(c) /\ Top(c).at = "sent" /\ Settles(c, e)
      /\ seen' = [seen EXCEPT ![c] = @ \cup {e}] /\ UNCHANGED <<tokens, kind, expiries>>
  BY <1>1, <1>2 DEF Fail, Sent, Answers, Fault
<1>4. e \in Told \cup {"ok"} /\ e # "BrokenCircuitError"
  BY <1>2 DEF Told
<1> HIDE DEF e
<1> QED
  BY <1>3, <1>4, SettlesActs DEF Settles

LEMMA ReturnsActs ==
    ASSUME PoolInv, NEW c \in Call, Returns(c)
    PROVE  Acts(c)
<1>1. /\ Running(c) /\ Top(c).at = "ends" /\ Settles(c, Top(c).out)
      /\ UNCHANGED <<tokens, kind, seen, expiries>>
  BY DEF Returns, bounds
<1>2. Top(c).out \in Told \cup {"ok"}
  BY <1>1, TopNow DEF ToldFrame, Placed
<1> QED
  BY <1>1, <1>2, SettlesActs DEF Settles

LEMMA BreaksActs ==
    ASSUME PoolInv, NEW c \in Call, Breaks(c)
    PROVE  Acts(c)
<1>1. PICK raw \in Failure : Goes(c, [Top(c) EXCEPT !.at = "mark", !.out = castGrpcError(raw)])
  BY DEF Breaks
<1> DEFINE f == [Top(c) EXCEPT !.at = "mark", !.out = castGrpcError(raw)]
<1>2. castGrpcError(raw) \in Told
  BY Casts DEF Failure, Told
<1>3. /\ Running(c) /\ Top(c).at = "open" /\ UNCHANGED <<tokens, expiries, kind, result, seen>>
  BY DEF Breaks, Fault
<1>4. Top(c) \in ToldFrame /\ Placed(Top(c), Len(stack[c]), promise, Expired, expiries)
      /\ Top(c) = Inner(stack[c])
  BY <1>3, TopNow
<1>5. f \in ToldFrame
  <2>1. [Top(c) EXCEPT !.at = "mark"] \in ToldFrame
    BY <1>4, FrameChanges
  <2>2. [[Top(c) EXCEPT !.at = "mark"] EXCEPT !.out = castGrpcError(raw)] \in ToldFrame
    BY <1>2, <2>1, FrameChanges
  <2> QED
    BY <2>2
<1>6. f.at = "mark" /\ f.meta = Top(c).meta /\ f.host = Top(c).host /\ f.last = Top(c).last
  BY <1>4 DEF ToldFrame, Frame
<1>7. Goes(c, f)
  BY <1>1
<1> HIDE DEF f
<1>8. Placed(f, Len(stack[c]), promise, Expired, expiries)
  BY <1>3, <1>4, <1>6 DEF Placed
<1> QED
  BY <1>3, <1>4, <1>5, <1>6, <1>7, <1>8, GoesActs

LEMMA MarkActs ==
    ASSUME PoolInv, NEW c \in Call, Mark(c)
    PROVE  Acts(c)
<1>1. /\ Running(c) /\ Top(c).at = "mark" /\ UNCHANGED <<tokens, expiries, kind, result, seen>>
  BY DEF Mark, bounds
<1>2. Top(c) \in ToldFrame /\ Placed(Top(c), Len(stack[c]), promise, Expired, expiries)
      /\ Top(c) = Inner(stack[c])
  BY <1>1, TopNow
<1>3. CASE circuit[Top(c).host] = "half"
  <2> DEFINE f == [Top(c) EXCEPT !.at = "wait", !.on = tester[Top(c).host]]
  <2>1. Goes(c, f)
    BY <1>3 DEF Mark
  <2>2. tester[Top(c).host] \in Tester
    BY <1>1, <1>2 DEF Placed, PoolInv, Fields
  <2>3. f \in ToldFrame
    <3>1. [Top(c) EXCEPT !.at = "wait"] \in ToldFrame
      BY <1>2, FrameChanges
    <3>2. [[Top(c) EXCEPT !.at = "wait"] EXCEPT !.on = tester[Top(c).host]] \in ToldFrame
      BY <2>2, <3>1, FrameChanges
    <3> QED
      BY <3>2
  <2>4. f.at = "wait" /\ f.meta = Top(c).meta /\ f.host = Top(c).host /\ f.last = Top(c).last
    BY <1>2 DEF ToldFrame, Frame
  <2> HIDE DEF f
  <2>5. Placed(f, Len(stack[c]), promise, Expired, expiries)
    BY <1>1, <1>2, <2>4 DEF Placed
  <2> QED
    BY <1>1, <1>2, <2>1, <2>3, <2>4, <2>5, GoesActs
<1>4. CASE circuit[Top(c).host] # "half"
  <2>1. stack' = [stack EXCEPT ![c] = <<>>]
    BY <1>4 DEF Mark
  <2>2. DOMAIN stack' = Call /\ stack'[c] = <<>> /\ \A b \in Call \ {c} : stack'[b] = stack[b]
    BY <2>1 DEF PoolInv, Stacks
  <2>3. \A b \in Call : Sound(stack[b], promise, Expired, expiries) /\ Len(stack[b]) \in Nat
    BY CallNow
  <2>4. Sound(<<>>, promise, Expired, expiries) /\ Len(<<>>) = 0
    BY CallNow DEF Sound, Outer
  <2>5. \A b \in Call :
          Sound(stack'[b], promise, Expired, expiries) /\ Len(stack'[b]) <= Len(stack[b])
    BY <2>2, <2>3, <2>4
  <2>6. Knows(stack[c], kind[c], result[c], seen[c]) /\ stack[c] # <<>> /\ kind[c] # "new"
    BY <1>1, CallNow, TopNow DEF Running
  <2>7. Knows(stack'[c], kind'[c], result'[c], seen'[c])
    BY <1>1, <2>2, <2>6 DEF Knows
  <2>8. \A b \in Call \ {c} : Bystands(stack[b], stack'[b])
    BY <2>2 DEF Bystands
  <2> QED
    BY <1>1, <2>2, <2>5, <2>7, <2>8 DEF Acts
<1> QED
  BY <1>3, <1>4

-----------------------------------------------------------------------------
(***************************************************************************)
(* Steps that change the tokens                                            *)
(***************************************************************************)
\* What the promises that are held may become.
HeldStay ==
    /\ expiries' \in Nat /\ expiries <= expiries'
    /\ \A m \in Held \ {0} :
         /\ promise[m].state # "free" => promise'[m].state # "free"
         /\ promise[m].state = "token" => promise'[m].state = "token"
    /\ \A m \in Held : m \in Expired' => m \in Expired \/ expiries < expiries'

LEMMA CallStays ==
    ASSUME PoolInv, HeldStay, NEW c \in Call
    PROVE  Sound(stack[c], promise', Expired', expiries')
<1>1. Sound(stack[c], promise, Expired, expiries) /\ expiries \in Nat
  BY CallNow
<1>2. stack[c] # <<>> => Inner(stack[c]).meta \in Held
  BY <1>1, InnerHolds DEF PoolInv
<1>3. PICK P2, X2, k2 : P2 = promise' /\ X2 = Expired' /\ k2 = expiries'
  OBVIOUS
<1>4. k2 \in Nat /\ expiries <= k2
  BY <1>3 DEF HeldStay
<1>5. stack[c] # <<>> /\ Inner(stack[c]).meta # 0 =>
        LET m == Inner(stack[c]).meta
        IN  /\ promise[m].state # "free" => P2[m].state # "free"
            /\ promise[m].state = "token" => P2[m].state = "token"
  BY <1>2, <1>3 DEF HeldStay
<1>6. stack[c] # <<>> =>
        (Inner(stack[c]).meta \in X2 => Inner(stack[c]).meta \in Expired \/ expiries < k2)
  BY <1>2, <1>3 DEF HeldStay
<1>7. Sound(stack[c], P2, X2, k2)
  BY <1>1, <1>4, <1>5, <1>6, StaysSound
<1> QED
  BY <1>3, <1>7

\* No call makes a step.
LEMMA TokensNext ==
    ASSUME PoolInv, HeldStay, UNCHANGED calls,
           Current(stack, awaitingMetadata', promise', Expired', expiries')
    PROVE  CallsNext
<1>1. UNCHANGED <<kind, stack, result, seen>>
  BY DEF calls
<1>2. Stacks'
  BY <1>1, CallStays DEF Stacks, PoolInv
<1>3. Causes'
  BY <1>1 DEF Causes, PoolInv
<1> QED
  BY <1>1, <1>2, <1>3 DEF CallsNext, Quiet

\* One call does.
LEMMA ChangesNext ==
    ASSUME PoolInv, HeldStay, NEW c \in Call, DOMAIN stack' = Call,
           \A b \in Call \ {c} :
             /\ stack'[b] = stack[b]
             /\ kind'[b] = kind[b] /\ result'[b] = result[b] /\ seen'[b] = seen[b],
           Sound(stack'[c], promise', Expired', expiries'),
           Knows(stack'[c], kind'[c], result'[c], seen'[c]),
           Inner(stack'[c]).at \notin {"sent", "open"},
           Current(stack', awaitingMetadata', promise', Expired', expiries')
    PROVE  CallsNext
<1>1. Stacks'
  <2>1. \A b \in Call : Sound(stack[b], promise', Expired', expiries')
    BY CallStays
  <2> QED
    BY <2>1 DEF Stacks
<1>2. Causes'
  <2>1. \A b \in Call : Knows(stack[b], kind[b], result[b], seen[b])
    BY CallNow
  <2> QED
    BY <2>1 DEF Causes
<1>3. Quiet
  BY DEF Quiet
<1> QED
  BY <1>1, <1>2, <1>3 DEF CallsNext

LEMMA AuthenticatedNext ==
    ASSUME PoolInv, NEW p \in Promise, Authenticated(p)
    PROVE  CallsNext
<1>1. /\ promise[p].state = "asking"
      /\ promise' = [promise EXCEPT ![p] = [state |-> "token", at |-> 0]]
      /\ valid' = valid \cup {p} /\ UNCHANGED <<awaitingMetadata, calls, expiries>>
  BY DEF Authenticated, bounds
<1>2. /\ promise'[p].state = "token"
      /\ \A m \in Promise : m # p => promise'[m] = promise[m]
  BY <1>1 DEF PoolInv, Fields
<1>3. \A m : m \in Expired' => m \in Expired
  BY <1>1, <1>2 DEF Expired
<1>4. Held \subseteq Promise \cup {0} /\ expiries \in Nat
  BY InnerHolds, PoolAssumption DEF PoolInv, Fields
<1>5. HeldStay
  BY <1>1, <1>2, <1>3, <1>4 DEF HeldStay
<1>6. Current(stack, awaitingMetadata', promise', Expired', expiries')
  BY <1>1, <1>2, <1>3 DEF Current, PoolInv, Fields
<1> QED
  BY <1>1, <1>5, <1>6, TokensNext

LEMMA NotAuthenticatedEffect ==
    ASSUME Fields, NEW p \in Promise, NotAuthenticated(p)
    PROVE  /\ promise[p].state = "asking"
           /\ promise' \in [Promise -> Promised]
           /\ promise'[p].state \notin {"free", "token"}
           /\ \A m \in Promise : m # p => promise'[m] = promise[m]
           /\ awaitingMetadata' \in {0, awaitingMetadata}
<1>1. /\ promise[p].state = "asking" /\ promise[p].at \in 0..Hosts
      /\ promise[p] \in Promised /\ promise \in [Promise -> Promised]
  BY DEF NotAuthenticated, Fields, Promised
<1>2. CASE promise[p].at < Hosts
  <2>1. [promise[p] EXCEPT !.at = @ + 1] \in Promised
    BY <1>1, <1>2, PoolAssumption DEF Promised
  <2>2. promise' = [promise EXCEPT ![p] = [promise[p] EXCEPT !.at = @ + 1]]
        /\ UNCHANGED awaitingMetadata
    BY <1>2 DEF NotAuthenticated
  <2>3. [promise[p] EXCEPT !.at = @ + 1].state = "asking"
    BY <1>1 DEF Promised
  <2> QED
    BY <1>1, <2>1, <2>2, <2>3
<1>3. CASE ~(promise[p].at < Hosts)
  <2>1. PICK u \in {"GRPCUnavailableError", "EtcdAuthenticationFailedError"} :
          promise' = [promise EXCEPT ![p] = [state |-> u, at |-> 0]]
    BY <1>3, Casts DEF NotAuthenticated
  <2>2. 0 \in 0..Hosts
    BY PoolAssumption
  <2>3. [state |-> u, at |-> 0] \in Promised
    BY <2>2 DEF Promised
  <2>4. awaitingMetadata' = 0
    BY <1>3 DEF NotAuthenticated
  <2> QED
    BY <1>1, <2>1, <2>2, <2>3, <2>4
<1> QED
  BY <1>2, <1>3

LEMMA NotAuthenticatedNext ==
    ASSUME PoolInv, NEW p \in Promise, NotAuthenticated(p)
    PROVE  CallsNext
<1>1. UNCHANGED <<valid, calls, expiries>>
  BY DEF NotAuthenticated, Fault
<1>2. /\ promise[p].state = "asking" /\ promise'[p].state \notin {"free", "token"}
      /\ \A m \in Promise : m # p => promise'[m] = promise[m]
      /\ awaitingMetadata' \in {0, awaitingMetadata}
  BY NotAuthenticatedEffect DEF PoolInv
<1>3. \A m : m \in Expired' => m \in Expired
  BY <1>1, <1>2 DEF Expired
<1>4. Held \subseteq Promise \cup {0} /\ expiries \in Nat
  BY InnerHolds, PoolAssumption DEF PoolInv, Fields
<1>5. HeldStay
  BY <1>1, <1>2, <1>3, <1>4 DEF HeldStay
<1>6. Current(stack, awaitingMetadata', promise', Expired', expiries')
  <2>1. 0 \notin Expired
    BY PoolAssumption DEF Expired, Promise
  <2> QED
    BY <1>1, <1>2, <1>3, <2>1 DEF Current, PoolInv, Fields
<1> QED
  BY <1>1, <1>5, <1>6, TokensNext

LEMMA ExpireNext ==
    ASSUME PoolInv, NEW p \in Promise, Expire(p)
    PROVE  CallsNext
<1>1. /\ expiries' = expiries + 1 /\ valid' = valid \ {p}
      /\ UNCHANGED <<awaitingMetadata, promise, calls>>
  BY DEF Expire
<1>2. expiries \in Nat
  BY PoolAssumption DEF PoolInv, Fields
<1>3. HeldStay
  BY <1>1, <1>2 DEF HeldStay
<1>4. Current(stack, awaitingMetadata', promise', Expired', expiries')
  <2>1. ASSUME NEW c \in Call PROVE Len(stack[c]) <= expiries'
    BY <1>1, <1>2, SoundFrames, CallNow
  <2> QED
    BY <1>1, <1>2, <2>1 DEF Current, PoolInv
<1> QED
  BY <1>1, <1>3, <1>4, TokensNext

\* exec() asks for the metadata and goes on.
LEMMA getMetadataStays ==
    ASSUME PoolInv, NEW p \in Promise \cup {0}, getMetadata(p), UNCHANGED expiries
    PROVE  HeldStay
<1>1. expiries \in Nat
  BY CallNow, PoolAssumption DEF PoolInv, Fields
<1> QED
  BY <1>1, getMetadataEffect DEF HeldStay

LEMMA BeginNext ==
    ASSUME PoolInv, NEW c \in Call, NEW k \in {"unary", "stream"}, Begin(c, k)
    PROVE  CallsNext
<1>1. PICK p \in Promise \cup {0} :
        getMetadata(p) /\ stack' = [stack EXCEPT ![c] = <<Connection(p, 0, {}, "none")>>]
  BY DEF Begin
<1>2. /\ kind[c] = "new" /\ kind' = [kind EXCEPT ![c] = k]
      /\ UNCHANGED <<result, seen, expiries>>
  BY DEF Begin, bounds
<1>3. /\ Knows(stack[c], kind[c], result[c], seen[c]) /\ expiries \in Nat
      /\ result[c] = "none" /\ seen[c] = {}
  BY <1>2, CallNow DEF Knows
<1> DEFINE f == Connection(p, 0, {}, "none")
<1>4. f \in ToldFrame /\ f.meta = p /\ f.at = "meta"
  <2>1. 0 \in 0..Retries /\ {} \in SUBSET Host /\ "none" \in Tried
    BY PoolAssumption DEF Tried
  <2>2. f \in ToldFrame
    BY <2>1, ConnectionFrame
  <2> QED
    BY <2>2 DEF Connection
<1> HIDE DEF f
<1>5. stack'[c] = <<f>> /\ DOMAIN stack' = Call /\ \A b \in Call \ {c} : stack'[b] = stack[b]
  BY <1>1 DEF PoolInv, Stacks, f
<1>6. /\ p # 0 => promise'[p].state # "free"
      /\ awaitingMetadata' # 0 => promise'[awaitingMetadata'].state # "free"
      /\ p \in Expired' \/ awaitingMetadata' \in Expired' =>
           1 <= expiries /\ \A b \in Call : Len(stack[b]) <= expiries
  BY <1>1, getMetadataEffect
<1>7. Placed(f, 1, promise', Expired', expiries')
  BY <1>2, <1>4, <1>6 DEF Placed
<1>8. /\ <<f>> \in Seq(ToldFrame) /\ Len(<<f>>) = 1 /\ Inner(<<f>>) = f /\ <<f>> # <<>>
      /\ Outer(<<f>>)
  BY <1>4 DEF Inner, Outer
<1>9. Sound(stack'[c], promise', Expired', expiries')
  BY <1>2, <1>3, <1>5, <1>7, <1>8 DEF Sound
<1>10. Knows(stack'[c], kind'[c], result'[c], seen'[c])
  <2>1. kind'[c] = k /\ result'[c] = "none" /\ seen'[c] = {}
    BY <1>2, <1>3 DEF PoolInv, Fields
  <2> QED
    BY <1>4, <1>5, <1>8, <2>1 DEF Knows
<1>11. Current(stack', awaitingMetadata', promise', Expired', expiries')
  BY <1>2, <1>5, <1>6, <1>8 DEF Current
<1>12. \A b \in Call \ {c} :
         kind'[b] = kind[b] /\ result'[b] = result[b] /\ seen'[b] = seen[b]
  BY <1>2 DEF PoolInv, Fields
<1>13. HeldStay
  BY <1>1, <1>2, getMetadataStays
<1>14. Inner(stack'[c]).at = "meta"
  BY <1>4, <1>5, <1>8
<1> QED
  BY <1>5, <1>9, <1>10, <1>11, <1>12, <1>13, <1>14, ChangesNext

LEMMA RetryNext ==
    ASSUME PoolInv, NEW c \in Call, Retry(c)
    PROVE  CallsNext
<1>1. PICK p \in Promise \cup {0} :
        getMetadata(p) /\ Goes(c, Connection(p, Top(c).tries, Top(c).round, Top(c).last))
  BY DEF Retry
<1>2. Running(c) /\ UNCHANGED <<kind, result, seen, expiries>>
  BY DEF Retry, bounds
<1>3. stack[c] # <<>> /\ Top(c) = Inner(stack[c]) /\ Top(c) \in ToldFrame
  BY <1>2, TopNow
<1> DEFINE f == Connection(p, Top(c).tries, Top(c).round, Top(c).last)
<1>4. f \in ToldFrame /\ f.meta = p /\ f.at = "meta" /\ f.last = Inner(stack[c]).last
  <2>1. Top(c).tries \in 0..Retries /\ Top(c).round \in SUBSET Host /\ Top(c).last \in Tried
    BY <1>3 DEF ToldFrame, Frame
  <2>2. f \in ToldFrame
    BY <2>1, ConnectionFrame
  <2> QED
    BY <1>3, <2>2 DEF Connection
<1> HIDE DEF f
<1>5. /\ stack'[c] = [stack[c] EXCEPT ![Len(stack[c])] = f]
      /\ DOMAIN stack' = Call /\ \A b \in Call \ {c} : stack'[b] = stack[b]
  BY <1>1 DEF Goes, PoolInv, Stacks, f
<1>6. /\ p # 0 => promise'[p].state # "free"
      /\ awaitingMetadata' # 0 => promise'[awaitingMetadata'].state # "free"
      /\ p \in Expired' \/ awaitingMetadata' \in Expired' =>
           1 <= expiries /\ \A b \in Call : Len(stack[b]) <= expiries
  BY <1>1, getMetadataEffect
<1>7. HeldStay
  BY <1>1, <1>2, getMetadataStays
<1>8. Placed(f, Len(stack[c]), promise', Expired', expiries')
  BY <1>2, <1>4, <1>6 DEF Placed
<1>9. /\ Sound(stack'[c], promise', Expired', expiries') /\ stack'[c] # <<>>
      /\ Len(stack'[c]) = Len(stack[c]) /\ Inner(stack'[c]) = f
  <2>1. PICK P, X, k, q : P = promise' /\ X = Expired' /\ k = expiries' /\ q = stack'[c]
    OBVIOUS
  <2>2. Sound(stack[c], P, X, k) /\ Placed(f, Len(stack[c]), P, X, k) /\ k \in Nat
    BY <1>7, <1>8, <2>1, CallStays DEF HeldStay
  <2>3. q = [stack[c] EXCEPT ![Len(stack[c])] = f]
    BY <1>5, <2>1
  <2>4. Sound(q, P, X, k) /\ Len(q) = Len(stack[c]) /\ Inner(q) = f /\ q # <<>>
    BY <1>3, <1>4, <2>2, <2>3, InnerReplaced
  <2> QED
    BY <2>1, <2>4
<1>10. Knows(stack'[c], kind'[c], result'[c], seen'[c])
  <2>1. Knows(stack[c], kind[c], result[c], seen[c]) /\ kind[c] # "new"
    BY <1>2, CallNow, TopNow
  <2> QED
    BY <1>2, <1>3, <1>4, <1>9, <2>1 DEF Knows
<1>11. Current(stack', awaitingMetadata', promise', Expired', expiries')
  BY <1>2, <1>5, <1>6, <1>9 DEF Current
<1>12. \A b \in Call \ {c} :
         kind'[b] = kind[b] /\ result'[b] = result[b] /\ seen'[b] = seen[b]
  BY <1>2
<1>13. Inner(stack'[c]).at = "meta"
  BY <1>4, <1>9
<1> QED
  BY <1>5, <1>7, <1>9, <1>10, <1>11, <1>12, <1>13, ChangesNext

\* exec() calls itself, with a promise that no frame holds.
Nested(q, g) == Append([q EXCEPT ![Len(q)].at = "nested", ![Len(q)].meta = 0], g)

LEMMA NestedSound ==
    ASSUME NEW P, NEW X, NEW k \in Nat, NEW q, Sound(q, P, X, k), q # <<>>,
           Inner(q).host \in Host, Len(q) <= k,
           NEW g \in ToldFrame, Placed(g, Len(q) + 1, P, X, k)
    PROVE  Sound(Nested(q, g), P, X, k) /\ Inner(Nested(q, g)) = g /\ Nested(q, g) # <<>>
<1> DEFINE f == [Inner(q) EXCEPT !.at = "nested", !.meta = 0]
           r == [q EXCEPT ![Len(q)] = f]
<1>1. /\ q \in Seq(ToldFrame) /\ Len(q) \in Nat \ {0} /\ Len(q) \in 1..Len(q)
      /\ Outer(q) /\ DOMAIN q = 1..Len(q) /\ Inner(q) \in ToldFrame
  BY SoundFrames, SoundInner
<1>2. f \in ToldFrame /\ f.at = "nested" /\ f.meta = 0 /\ f.host \in Host
  <2>1. [Inner(q) EXCEPT !.at = "nested"] \in ToldFrame
    BY <1>1, FrameChanges
  <2>2. [[Inner(q) EXCEPT !.at = "nested"] EXCEPT !.meta = 0] \in ToldFrame
    BY <2>1, FrameChanges
  <2> QED
    BY <1>1, <2>2 DEF ToldFrame, Frame
<1>3. Nested(q, g) = Append(r, g)
  BY DEF Nested, Inner
<1> HIDE DEF f
<1>4. /\ r \in Seq(ToldFrame) /\ Len(r) = Len(q) /\ r[Len(q)] = f
      /\ \A d \in 1..Len(q) : d # Len(q) => r[d] = q[d]
  <2>1. r \in Seq(ToldFrame) /\ Len(r) = Len(q)
    BY <1>1, <1>2, ExceptSeq
  <2>2. r[Len(q)] = f /\ \A d \in DOMAIN q : d # Len(q) => r[d] = q[d]
    BY <1>1
  <2> QED
    BY <1>1, <2>1, <2>2
<1> HIDE DEF r
<1>5. /\ Append(r, g) \in Seq(ToldFrame) /\ Len(Append(r, g)) = Len(q) + 1
      /\ Append(r, g)[Len(q) + 1] = g
      /\ \A d \in 1..Len(q) : Append(r, g)[d] = r[d]
  BY <1>1, <1>4, AppendProperties
<1>6. Inner(Append(r, g)) = g /\ Append(r, g) # <<>>
  BY <1>1, <1>5 DEF Inner
<1>7. Outer(Append(r, g))
  <2>1. PICK u, n : u = Append(r, g) /\ n = Len(q)
    OBVIOUS
  <2>2. /\ n \in Nat \ {0} /\ Len(u) = n + 1 /\ u \in Seq(ToldFrame)
        /\ \A d \in 1..n : u[d] = r[d]
    BY <1>1, <1>5, <2>1
  <2>3. /\ r[n] = f /\ \A d \in 1..n : d # n => r[d] = q[d]
        /\ \A d \in 1..n : d # n => q[d].at = "nested" /\ q[d].meta = 0 /\ q[d].host \in Host
    BY <1>1, <1>4, <2>1 DEF Outer
  <2>4. DOMAIN u = 1..(n + 1)
    BY <2>2
  <2>5. ASSUME NEW d \in 1..(n + 1), d # n + 1
        PROVE  u[d].at = "nested" /\ u[d].meta = 0 /\ u[d].host \in Host
    <3>1. d \in 1..n
      BY <2>2, <2>5
    <3> QED
      BY <1>2, <2>2, <2>3, <3>1
  <2>6. Outer(u)
    BY <2>2, <2>4, <2>5 DEF Outer
  <2> QED
    BY <2>1, <2>6
<1> QED
  BY <1>1, <1>3, <1>5, <1>6, <1>7 DEF Sound

LEMMA RefuseNext ==
    ASSUME PoolInv, NEW c \in Call, Refuse(c)
    PROVE  CallsNext
<1>1. /\ Running(c) /\ Top(c).at = "sent" /\ Top(c).meta # 0 /\ Top(c).meta \notin valid
      /\ Authenticates(Fresh)
      /\ stack' = [stack EXCEPT ![c] = Nested(stack[c], Connection(Fresh, 0, {}, "none"))]
      /\ seen' = [seen EXCEPT ![c] = @ \cup {"EtcdInvalidAuthTokenError"}]
      /\ UNCHANGED <<kind, result, expiries>>
  BY Casts DEF Refuse, Sent, TokenInvalid, bounds, Nested
<1>2. /\ stack[c] # <<>> /\ Top(c) = Inner(stack[c]) /\ Top(c) \in ToldFrame
      /\ Placed(Top(c), Len(stack[c]), promise, Expired, expiries) /\ kind[c] = "unary"
      /\ Len(stack[c]) \in Nat \ {0}
  BY <1>1, TopNow
<1>3. Top(c).meta \in Expired
  BY <1>1, <1>2 DEF Placed, Expired, ToldFrame, Frame
<1>4. Len(stack[c]) <= expiries /\ Inner(stack[c]).host \in Host
  BY <1>1, <1>2, <1>3 DEF Placed
<1>5. /\ Fresh \in Promise /\ awaitingMetadata' = Fresh
      /\ promise'[Fresh].state = "asking" /\ Fresh \notin Expired'
      /\ \A m \in Held \ {0} : promise'[m] = promise[m]
      /\ \A m \in Held : m \in Expired' => m \in Expired
  BY <1>1, AuthenticatesEffect DEF PoolInv
<1>6. HeldStay
  BY <1>1, <1>5, CallNow DEF HeldStay
<1> DEFINE g == Connection(Fresh, 0, {}, "none")
<1>7. g \in ToldFrame /\ g.meta = Fresh /\ g.at = "meta"
  <2>1. 0 \in 0..Retries /\ {} \in SUBSET Host /\ "none" \in Tried
    BY PoolAssumption DEF Tried
  <2>2. g \in ToldFrame
    BY <1>5, <2>1, ConnectionFrame
  <2> QED
    BY <2>2 DEF Connection
<1> HIDE DEF g
<1>8. Placed(g, Len(stack[c]) + 1, promise', Expired', expiries')
  BY <1>5, <1>7 DEF Placed
<1>9. stack'[c] = Nested(stack[c], g) /\ DOMAIN stack' = Call
      /\ \A b \in Call \ {c} : stack'[b] = stack[b]
  BY <1>1 DEF PoolInv, Stacks, g
<1>10. /\ Sound(stack'[c], promise', Expired', expiries') /\ stack'[c] # <<>>
       /\ Inner(stack'[c]) = g
  <2>1. PICK P, X, k : P = promise' /\ X = Expired' /\ k = expiries'
    OBVIOUS
  <2>2. /\ Sound(stack[c], P, X, k) /\ Placed(g, Len(stack[c]) + 1, P, X, k) /\ k \in Nat
        /\ Len(stack[c]) <= k
    BY <1>1, <1>4, <1>6, <1>8, <2>1, CallStays DEF HeldStay
  <2>3. /\ Sound(Nested(stack[c], g), P, X, k) /\ Inner(Nested(stack[c], g)) = g
        /\ Nested(stack[c], g) # <<>>
    BY <1>2, <1>4, <1>7, <2>2, NestedSound
  <2> QED
    BY <1>9, <2>1, <2>3
<1>11. Knows(stack'[c], kind'[c], result'[c], seen'[c])
  <2>1. Knows(stack[c], kind[c], result[c], seen[c])
    BY CallNow
  <2>2. /\ seen'[c] = seen[c] \cup {"EtcdInvalidAuthTokenError"}
        /\ kind'[c] = "unary" /\ result'[c] = result[c]
    BY <1>1, <1>2 DEF PoolInv, Fields
  <2> QED
    BY <1>2, <1>7, <1>10, <2>1, <2>2 DEF Knows
<1>12. Current(stack', awaitingMetadata', promise', Expired', expiries')
  BY <1>5 DEF Current
<1>13. \A b \in Call \ {c} :
         kind'[b] = kind[b] /\ result'[b] = result[b] /\ seen'[b] = seen[b]
  BY <1>1 DEF PoolInv, Fields
<1>14. Inner(stack'[c]).at = "meta"
  BY <1>7, <1>10
<1> QED
  BY <1>6, <1>9, <1>10, <1>11, <1>12, <1>13, <1>14, ChangesNext

-----------------------------------------------------------------------------
(***************************************************************************)
(* The rest of the state                                                   *)
(***************************************************************************)
Breakers ==
    /\ circuit \in [Host -> {"closed", "open", "cooled", "half"}]
    /\ count \in [Host -> 0..Threshold]
    /\ tester \in [Host -> Tester]

Tokens ==
    /\ awaitingMetadata \in Promise \cup {0}
    /\ promise \in [Promise -> Promised]
    /\ valid \subseteq Promise

Outcomes ==
    /\ kind \in [Call -> {"new", "unary", "stream"}]
    /\ result \in [Call -> Told \cup {"none", "ok"}]
    /\ seen \in [Call -> SUBSET ErrorKind]

\* The pool makes no client once it is closed.
Clients == cached' \subseteq Host /\ (shut => cached' \subseteq cached)

\* The invariant but for the part about the calls.
RestNext ==
    /\ Fields'
    /\ stack' = [c \in Call |-> stack'[c]]
    /\ shut' => cached' = {}

LEMMA PartsNow ==
    ASSUME PoolInv
    PROVE  /\ Breakers /\ Tokens /\ Outcomes /\ cached \subseteq Host
           /\ faults \in 0..MaxFaults /\ expiries \in 0..MaxExpiries
BY DEF PoolInv, Fields, Breakers, Tokens, Outcomes

\* Every action but close().
LEMMA RestKept ==
    ASSUME PoolInv, UNCHANGED <<auth, shut>>, Breakers', Tokens', Outcomes', Clients,
           faults' \in 0..MaxFaults, expiries' \in 0..MaxExpiries,
           \/ stack' = stack
           \/ \E c \in Call : \E q : stack' = [stack EXCEPT ![c] = q]
           \/ \E s, f : stack' = Wake(s, f)
    PROVE  RestNext
<1>1. Fields'
  BY DEF PoolInv, Fields, Breakers, Tokens, Outcomes, Clients
<1>2. stack' = [c \in Call |-> stack'[c]]
  <2>1. stack = [c \in Call |-> stack[c]]
    BY DEF PoolInv
  <2>2. CASE stack' = stack
    BY <2>1, <2>2
  <2>3. ASSUME NEW c \in Call, NEW q, stack' = [stack EXCEPT ![c] = q]
        PROVE  stack' = [b \in Call |-> stack'[b]]
    BY <2>1, <2>3
  <2>4. ASSUME NEW s, NEW f, stack' = Wake(s, f)
        PROVE  stack' = [b \in Call |-> stack'[b]]
    BY <2>4 DEF Wake
  <2> QED
    BY <2>2, <2>3, <2>4
<1>3. shut' => cached' = {}
  BY DEF Clients, PoolInv
<1> QED
  BY <1>1, <1>2, <1>3 DEF RestNext

LEMMA SettledTyped ==
    ASSUME Breakers, NEW h \in Host, NEW test, NEW e, Settled(h, test, e)
    PROVE  Breakers'
<1>1. count' \in [Host -> 0..Threshold]
  BY PoolAssumption DEF Settled, Breakers
<1>2. circuit' \in [Host -> {"closed", "open", "cooled", "half"}]
  <2> DEFINE u == IF isRecoverableError(e)
                  THEN IF (test \/ count'[h] = Threshold) /\ circuit[h] # "cooled"
                       THEN "open" ELSE circuit[h]
                  ELSE IF test /\ circuit[h] = "half" THEN "closed" ELSE circuit[h]
  <2>1. circuit' = [circuit EXCEPT ![h] = u]
    BY DEF Settled
  <2>2. u \in {"closed", "open", "cooled", "half"}
    BY DEF Breakers
  <2> HIDE DEF u
  <2> QED
    BY <2>1, <2>2 DEF Breakers
<1>3. tester' \in [Host -> Tester]
  BY DEF Settled, Breakers, Tester
<1> QED
  BY <1>1, <1>2, <1>3 DEF Breakers

LEMMA ReportedTold ==
    ASSUME PoolInv, NEW c \in Call, Running(c), NEW e \in Told \cup {"ok"}
    PROVE  Reported(c, e) \in Told \cup {"ok"}
BY TopNow DEF Reported, ToldFrame, Tried, Told

LEMMA ResultTyped ==
    ASSUME PoolInv, NEW c \in Call, Running(c), NEW e \in Told \cup {"ok"}
    PROVE  ResultAfter(c, e) \in [Call -> Told \cup {"none", "ok"}]
<1>1. result \in [Call -> Told \cup {"none", "ok"}]
  BY DEF PoolInv, Fields
<1>2. PICK u : u = IF Len(stack[c]) > 1 \/ Again(c, e) THEN result[c] ELSE Reported(c, e)
  OBVIOUS
<1>3. u \in Told \cup {"none", "ok"}
  BY <1>1, <1>2, ReportedTold
<1>4. ResultAfter(c, e) = [result EXCEPT ![c] = u]
  BY <1>2 DEF ResultAfter
<1> QED
  BY <1>1, <1>3, <1>4

LEMMA RejectsRest ==
    ASSUME PoolInv, NEW c \in Call, Running(c), NEW e \in Told \cup {"ok"}, Rejects(c, e),
           UNCHANGED <<auth, cached, shut, tokens, kind, seen, bounds>>, Breakers'
    PROVE  RestNext
<1>1. Tokens' /\ Outcomes'
  <2>1. result' \in [Call -> Told \cup {"none", "ok"}]
    BY ResultTyped DEF Rejects
  <2> QED
    BY <2>1, PartsNow DEF Tokens, Outcomes, tokens
<1>2. Clients /\ faults' \in 0..MaxFaults /\ expiries' \in 0..MaxExpiries
  BY PartsNow DEF Clients, bounds
<1>3. \E q : stack' = [stack EXCEPT ![c] = q]
  BY DEF Rejects, StackAfter
<1> QED
  BY <1>1, <1>2, <1>3, RestKept

LEMMA SettlesRest ==
    ASSUME PoolInv, NEW c \in Call, Running(c), NEW e \in Told \cup {"ok"}, Settles(c, e),
           Top(c).host \in Host,
           UNCHANGED <<auth, shut, tokens, kind>>,
           seen' \in [Call -> SUBSET ErrorKind],
           faults' \in 0..MaxFaults, expiries' \in 0..MaxExpiries
    PROVE  RestNext
<1>1. Breakers'
  BY PartsNow, SettledTyped DEF Settles
<1>2. Tokens' /\ Outcomes'
  <2>1. result' \in [Call -> Told \cup {"none", "ok"}]
    BY ResultTyped DEF Settles
  <2> QED
    BY <2>1, PartsNow DEF Tokens, Outcomes, tokens
<1>3. Clients
  BY PartsNow DEF Clients, Settles, Resets
<1>4. \/ \E q : stack' = [stack EXCEPT ![c] = q]
      \/ \E s, f : stack' = Wake(s, f)
  BY DEF Settles, StackAfter
<1> QED
  BY <1>1, <1>2, <1>3, <1>4, RestKept

LEMMA EntersRest ==
    ASSUME PoolInv, NEW c \in Call, Running(c), NEW f, NEW h \in Host, Enters(c, f, h),
           UNCHANGED <<auth, shut, tokens, kind, seen, bounds>>
    PROVE  RestNext
<1>1. Tokens' /\ faults' \in 0..MaxFaults /\ expiries' \in 0..MaxExpiries
  BY PartsNow DEF Tokens, tokens, bounds
<1>2. CASE Block(c, f, h) \/ Wait(c, f, h)
  <2>1. UNCHANGED <<circuit, count, tester, cached, result>>
    BY <1>2 DEF Block, Wait, breakers
  <2>2. Breakers' /\ Outcomes' /\ Clients
    BY <2>1, PartsNow DEF Breakers, Outcomes, Clients
  <2>3. \E q : stack' = [stack EXCEPT ![c] = q]
    BY <1>2 DEF Block, Wait, Goes
  <2> QED
    BY <1>1, <2>2, <2>3, RestKept
<1>3. CASE CallThrough(c, f, h)
  <2>1. Clients
    BY <1>3, PartsNow DEF CallThrough, Clients, PoolInv
  <2>2. \E q : stack' = [stack EXCEPT ![c] = q]
    BY <1>3 DEF CallThrough, Goes
  <2>3. <<c, Len(stack[c])>> \in Tester
    <3>1. Len(stack[c]) \in Nat \ {0} /\ Len(stack[c]) <= expiries + 1
      BY TopNow, CallNow, SoundFrames
    <3>2. Len(stack[c]) \in 1..Depth
      BY <3>1, PartsNow, PoolAssumption DEF Depth
    <3> QED
      BY <3>2 DEF Tester
  <2>4. Breakers'
    <3>1. tester' \in [Host -> Tester]
      BY <1>3, <2>3, PartsNow DEF CallThrough, Breakers
    <3>2. count' \in [Host -> 0..Threshold]
      BY <1>3, PartsNow, PoolAssumption DEF CallThrough, Breakers
    <3>3. circuit' \in [Host -> {"closed", "open", "cooled", "half"}]
      BY <1>3, PartsNow DEF CallThrough, Breakers
    <3> QED
      BY <3>1, <3>2, <3>3 DEF Breakers
  <2>5. Outcomes'
    BY <1>3, PartsNow DEF CallThrough, Outcomes
  <2> QED
    BY <1>1, <2>1, <2>2, <2>4, <2>5, RestKept
<1>4. CASE IsClosed(c, f, h)
  <2>1. "ClientClosedError" \in Told \cup {"ok"}
    BY DEF Told
  <2>2. Breakers'
    BY <1>4, PartsNow DEF IsClosed, Breakers
  <2> QED
    BY <1>4, <2>1, <2>2, RejectsRest DEF IsClosed
<1> QED
  BY <1>2, <1>3, <1>4 DEF Enters

-----------------------------------------------------------------------------
\* Action by action.
LEMMA NoMetadataRest ==
    ASSUME PoolInv, NEW c \in Call, NoMetadata(c)
    PROVE  RestNext
<1>1. /\ Running(c) /\ Rejects(c, promise[Top(c).meta].state)
      /\ Top(c).meta # 0 /\ promise[Top(c).meta].state \notin {"asking", "token"}
      /\ UNCHANGED <<auth, breakers, cached, shut, tokens, kind, seen, bounds>>
  BY DEF NoMetadata
<1>2. Top(c).meta \in Promise /\ promise[Top(c).meta].state # "free"
  BY <1>1, TopNow DEF Placed, ToldFrame, Frame
<1>3. promise[Top(c).meta].state \in Told \cup {"ok"}
  BY <1>1, <1>2 DEF PoolInv, Fields, Promised, Told
<1>4. Breakers'
  BY <1>1, PartsNow DEF Breakers, breakers
<1> QED
  BY <1>1, <1>3, <1>4, RejectsRest

LEMMA BlockedRest ==
    ASSUME PoolInv, NEW c \in Call, Blocked(c)
    PROVE  RestNext
<1>1. "BrokenCircuitError" \in Told \cup {"ok"}
  BY DEF Told
<1>2. Breakers'
  BY PartsNow DEF Blocked, Breakers, breakers
<1> QED
  BY <1>1, <1>2, RejectsRest DEF Blocked

LEMMA DrawRest ==
    ASSUME PoolInv, NEW c \in Call, Draw(c)
    PROVE  RestNext
<1> DEFINE rest == IF Top(c).round = {} THEN Host ELSE Top(c).round
<1>1. /\ Running(c) /\ UNCHANGED <<auth, shut, tokens, kind, seen, bounds>>
      /\ \E h \in rest : Enters(c, [Top(c) EXCEPT !.round = rest \ {h}, !.left = @ - 1], h)
  BY DEF Draw
<1>2. rest \subseteq Host
  BY <1>1, TopNow DEF ToldFrame, Frame
<1> QED
  BY <1>1, <1>2, EntersRest

LEMMA EnterRest ==
    ASSUME PoolInv, NEW c \in Call, Enter(c)
    PROVE  RestNext
<1>1. Running(c) /\ Top(c).at = "enter"
  BY DEF Enter
<1>2. Top(c).host \in Host
  BY <1>1, TopNow DEF Placed
<1> QED
  BY <1>1, <1>2, EntersRest DEF Enter

LEMMA FaultTyped ==
    ASSUME PoolInv, Fault
    PROVE  faults' \in 0..MaxFaults /\ expiries' \in 0..MaxExpiries
BY PartsNow, PoolAssumption DEF Fault

LEMMA ServeRest ==
    ASSUME PoolInv, NEW c \in Call, Serve(c)
    PROVE  RestNext
<1>1. /\ Running(c) /\ Top(c).at = "sent" /\ Settles(c, "ok")
      /\ seen' = [seen EXCEPT ![c] = @] /\ UNCHANGED <<auth, shut, tokens, kind, bounds>>
  BY DEF Serve, Sent, Answers
<1>2. Top(c).host \in Host
  BY <1>1, TopNow DEF Placed
<1>3. /\ seen' \in [Call -> SUBSET ErrorKind]
      /\ faults' \in 0..MaxFaults /\ expiries' \in 0..MaxExpiries
  BY <1>1, PartsNow DEF Outcomes, bounds
<1> QED
  BY <1>1, <1>2, <1>3, SettlesRest

LEMMA FailRest ==
    ASSUME PoolInv, NEW c \in Call, Fail(c)
    PROVE  RestNext
<1>1. PICK e \in {"GRPCUnavailableError", "EtcdPermissionDeniedError"} : Answers(c, e)
  BY Casts DEF Fail, Failure
<1>2. /\ Running(c) /\ Top(c).at = "sent" /\ Settles(c, e)
      /\ seen' = [seen EXCEPT ![c] = @ \cup {e}] /\ UNCHANGED <<auth, shut, tokens, kind>>
  BY <1>1 DEF Fail, Sent, Answers
<1>3. Top(c).host \in Host
  BY <1>2, TopNow DEF Placed
<1>4. e \in Told \cup {"ok"} /\ e \in ErrorKind
  BY DEF Told, ErrorKind
<1>5. seen' \in [Call -> SUBSET ErrorKind]
  BY <1>2, <1>4, PartsNow DEF Outcomes
<1>6. faults' \in 0..MaxFaults /\ expiries' \in 0..MaxExpiries
  BY FaultTyped DEF Fail
<1> QED
  BY <1>2, <1>3, <1>4, <1>5, <1>6, SettlesRest

LEMMA ReturnsRest ==
    ASSUME PoolInv, NEW c \in Call, Returns(c)
    PROVE  RestNext
<1>1. /\ Running(c) /\ Top(c).at = "ends" /\ Settles(c, Top(c).out)
      /\ UNCHANGED <<auth, shut, tokens, kind, seen, bounds>>
  BY DEF Returns
<1>2. Top(c).host \in Host /\ Top(c).out \in Told \cup {"ok"}
  BY <1>1, TopNow DEF Placed, ToldFrame
<1>3. /\ seen' \in [Call -> SUBSET ErrorKind]
      /\ faults' \in 0..MaxFaults /\ expiries' \in 0..MaxExpiries
  BY <1>1, PartsNow DEF Outcomes, bounds
<1> QED
  BY <1>1, <1>2, <1>3, SettlesRest

LEMMA BreaksRest ==
    ASSUME PoolInv, NEW c \in Call, Breaks(c)
    PROVE  RestNext
<1>1. UNCHANGED <<auth, breakers, shut, tokens, kind, result, seen>> /\ Fault
  BY DEF Breaks
<1>2. Clients
  BY <1>1, PartsNow DEF Breaks, Resets, Clients
<1>3. \E q : stack' = [stack EXCEPT ![c] = q]
  BY DEF Breaks, Goes
<1>4. Breakers' /\ Tokens' /\ Outcomes'
  BY <1>1, PartsNow DEF Breakers, breakers, Tokens, tokens, Outcomes
<1> QED
  BY <1>1, <1>2, <1>3, <1>4, FaultTyped, RestKept

LEMMA MarkRest ==
    ASSUME PoolInv, NEW c \in Call, Mark(c)
    PROVE  RestNext
<1>1. /\ UNCHANGED <<auth, cached, shut, tokens, kind, result, seen, bounds>>
      /\ Running(c) /\ Top(c).at = "mark"
  BY DEF Mark
<1>2. Top(c).host \in Host
  BY <1>1, TopNow DEF Placed
<1>3. \E q : stack' = [stack EXCEPT ![c] = q]
  BY DEF Mark, Goes
<1>4. Breakers'
  <2>1. CASE UNCHANGED breakers
    BY <2>1, PartsNow DEF Breakers, breakers
  <2>2. CASE Settled(Top(c).host, FALSE, Top(c).out)
    BY <1>2, <2>2, PartsNow, SettledTyped
  <2>3. CASE circuit[Top(c).host] = "cooled"
    <3>1. /\ count' = [count EXCEPT ![Top(c).host] =
                IF isRecoverableError(Top(c).out) /\ @ < Threshold THEN @ + 1 ELSE @]
          /\ circuit' = [circuit EXCEPT ![Top(c).host] =
                IF isRecoverableError(Top(c).out) THEN "open" ELSE "closed"]
          /\ UNCHANGED tester
      BY <2>3 DEF Mark
    <3>2. count' \in [Host -> 0..Threshold]
      BY <1>2, <3>1, PartsNow, PoolAssumption DEF Breakers
    <3> QED
      BY <1>2, <3>1, <3>2, PartsNow DEF Breakers
  <2> QED
    BY <2>1, <2>2, <2>3 DEF Mark
<1>5. Tokens' /\ Outcomes' /\ Clients /\ faults' \in 0..MaxFaults /\ expiries' \in 0..MaxExpiries
  BY <1>1, PartsNow DEF Tokens, tokens, Outcomes, Clients, bounds
<1> QED
  BY <1>1, <1>3, <1>4, <1>5, RestKept

\* The steps that ask for a token leave the pool's hosts alone.
LEMMA AsksRest ==
    ASSUME PoolInv, UNCHANGED <<auth, breakers, cached, shut, bounds>>, Tokens', Outcomes',
           \E c \in Call : \E q : stack' = [stack EXCEPT ![c] = q]
    PROVE  RestNext
<1>1. Breakers' /\ Clients /\ faults' \in 0..MaxFaults /\ expiries' \in 0..MaxExpiries
  BY PartsNow DEF Breakers, breakers, Clients, bounds
<1> QED
  BY <1>1, RestKept

LEMMA BeginRest ==
    ASSUME PoolInv, NEW c \in Call, NEW k \in {"unary", "stream"}, Begin(c, k)
    PROVE  RestNext
<1>1. PICK p \in Promise \cup {0} : getMetadata(p)
  BY DEF Begin
<1>2. Tokens'
  BY <1>1, getMetadataEffect DEF Tokens
<1>3. Outcomes'
  BY PartsNow DEF Begin, Outcomes
<1>4. \E q : stack' = [stack EXCEPT ![c] = q]
  BY DEF Begin
<1> QED
  BY <1>2, <1>3, <1>4, AsksRest DEF Begin

LEMMA RetryRest ==
    ASSUME PoolInv, NEW c \in Call, Retry(c)
    PROVE  RestNext
<1>1. PICK p \in Promise \cup {0} : getMetadata(p)
  BY DEF Retry
<1>2. Tokens'
  BY <1>1, getMetadataEffect DEF Tokens
<1>3. Outcomes'
  BY PartsNow DEF Retry, Outcomes
<1>4. \E q : stack' = [stack EXCEPT ![c] = q]
  BY DEF Retry, Goes
<1> QED
  BY <1>2, <1>3, <1>4, AsksRest DEF Retry

LEMMA RefuseRest ==
    ASSUME PoolInv, NEW c \in Call, Refuse(c)
    PROVE  RestNext
<1>1. /\ Authenticates(Fresh) /\ \E q : stack' = [stack EXCEPT ![c] = q]
      /\ seen' = [seen EXCEPT ![c] = @ \cup {"EtcdInvalidAuthTokenError"}]
      /\ UNCHANGED <<auth, breakers, cached, shut, kind, result, bounds>>
  BY Casts DEF Refuse
<1>2. Tokens'
  BY <1>1, AuthenticatesEffect DEF Tokens, PoolInv
<1>3. Outcomes'
  BY <1>1, PartsNow DEF Outcomes, ErrorKind
<1> QED
  BY <1>1, <1>2, <1>3, AsksRest

\* Steps that no call makes.
LEMMA IdleRest ==
    ASSUME PoolInv, UNCHANGED <<auth, shut, calls>>, Clients, Breakers', Tokens',
           faults' \in 0..MaxFaults, expiries' \in 0..MaxExpiries
    PROVE  RestNext
<1>1. Outcomes' /\ stack' = stack
  BY PartsNow DEF Outcomes, calls
<1> QED
  BY <1>1, RestKept

LEMMA TokenRest ==
    ASSUME PoolInv, NEW p \in Promise, Authenticated(p) \/ NotAuthenticated(p) \/ Expire(p)
    PROVE  RestNext
<1>1. UNCHANGED <<auth, breakers, cached, shut, calls>>
  BY DEF Authenticated, NotAuthenticated, Expire
<1>2. Breakers' /\ Clients
  BY <1>1, PartsNow DEF Breakers, breakers, Clients
<1>3. CASE Authenticated(p)
  <2>1. [state |-> "token", at |-> 0] \in Promised
    BY PoolAssumption DEF Promised
  <2>2. Tokens'
    BY <1>3, <2>1, PartsNow DEF Authenticated, Tokens
  <2>3. faults' \in 0..MaxFaults /\ expiries' \in 0..MaxExpiries
    BY <1>3, PartsNow DEF Authenticated, bounds
  <2> QED
    BY <1>1, <1>2, <2>2, <2>3, IdleRest
<1>4. CASE NotAuthenticated(p)
  <2>1. promise' \in [Promise -> Promised] /\ awaitingMetadata' \in {0, awaitingMetadata}
    BY <1>4, NotAuthenticatedEffect DEF PoolInv
  <2>2. Tokens'
    BY <1>4, <2>1, PartsNow DEF NotAuthenticated, Tokens
  <2>3. faults' \in 0..MaxFaults /\ expiries' \in 0..MaxExpiries
    BY <1>4, FaultTyped DEF NotAuthenticated
  <2> QED
    BY <1>1, <1>2, <2>2, <2>3, IdleRest
<1>5. CASE Expire(p)
  <2>1. Tokens'
    BY <1>5, PartsNow DEF Expire, Tokens
  <2>2. faults' \in 0..MaxFaults /\ expiries' \in 0..MaxExpiries
    BY <1>5, PartsNow, PoolAssumption DEF Expire
  <2> QED
    BY <1>1, <1>2, <2>1, <2>2, IdleRest
<1> QED
  BY <1>3, <1>4, <1>5

LEMMA CoolRest ==
    ASSUME PoolInv, NEW h \in Host, Cool(h)
    PROVE  RestNext
<1>1. Breakers'
  BY PartsNow DEF Cool, Breakers
<1>2. Tokens' /\ Clients /\ faults' \in 0..MaxFaults /\ expiries' \in 0..MaxExpiries
  BY PartsNow DEF Cool, Tokens, tokens, Clients, bounds
<1> QED
  BY <1>1, <1>2, IdleRest DEF Cool

LEMMA StutterRest ==
    ASSUME PoolInv, UNCHANGED vars
    PROVE  RestNext
<1>1. Breakers' /\ Tokens' /\ Clients /\ faults' \in 0..MaxFaults /\ expiries' \in 0..MaxExpiries
  BY PartsNow DEF vars, Breakers, breakers, Tokens, tokens, Clients, bounds
<1> QED
  BY <1>1, IdleRest DEF vars

\* close() leaves the hosts without clients.
LEMMA closeRest ==
    ASSUME PoolInv, close
    PROVE  RestNext
<1>1. /\ UNCHANGED <<auth, circuit, count, tester, awaitingMetadata, promise, valid, kind, stack>>
      /\ UNCHANGED <<result, seen, faults, expiries>>
      /\ shut' = TRUE /\ cached' = {}
  BY DEF close, breakers, tokens, calls, bounds
<1>2. Fields'
  BY <1>1 DEF PoolInv, Fields
<1>3. stack' = [c \in Call |-> stack'[c]]
  BY <1>1 DEF PoolInv
<1> QED
  BY <1>1, <1>2, <1>3 DEF RestNext

\* A step that no call makes, and that leaves the tokens alone.
LEMMA IdleNext ==
    ASSUME PoolInv, UNCHANGED <<tokens, calls, expiries>>
    PROVE  CallsNext
<1>1. promise' = promise /\ Expired' = Expired /\ UNCHANGED <<awaitingMetadata, expiries>>
  BY TokensKept DEF tokens
<1>2. HeldStay
  BY <1>1, PoolAssumption DEF HeldStay, PoolInv, Fields
<1>3. Current(stack, awaitingMetadata', promise', Expired', expiries')
  BY <1>1 DEF PoolInv
<1> QED
  BY <1>2, <1>3, TokensNext

-----------------------------------------------------------------------------
(***************************************************************************)
(* The invariant is inductive                                              *)
(***************************************************************************)
LEMMA PoolInvInit ==
    ASSUME Init
    PROVE  PoolInv
<1>1. Fields
  <2>1. tester \in [Host -> Tester]
    BY DEF Init, Tester
  <2>2. promise \in [Promise -> Promised]
    BY PoolAssumption DEF Init, Promised
  <2>3. count \in [Host -> 0..Threshold] /\ faults \in 0..MaxFaults /\ expiries \in 0..MaxExpiries
    BY PoolAssumption DEF Init
  <2> QED
    BY <2>1, <2>2, <2>3 DEF Init, Fields
<1>2. \A c \in Call : stack[c] = <<>> /\ kind[c] = "new" /\ result[c] = "none" /\ seen[c] = {}
  BY DEF Init
<1>3. Sound(<<>>, promise, Expired, expiries)
  BY DEF Init, Sound, Outer
<1>4. Stacks
  BY <1>2, <1>3 DEF Init, Stacks
<1>5. Current(stack, awaitingMetadata, promise, Expired, expiries)
  <2>1. 0 \notin Expired
    BY PoolAssumption DEF Expired, Promise
  <2> QED
    BY <2>1 DEF Init, Current
<1>6. Causes
  BY <1>2 DEF Causes, Knows
<1>7. stack = [c \in Call |-> stack[c]] /\ (shut => cached = {})
  BY DEF Init
<1> QED
  BY <1>1, <1>4, <1>5, <1>6, <1>7 DEF PoolInv

LEMMA PoolInvNext ==
    ASSUME PoolInv, [Next]_vars
    PROVE  CallsNext /\ RestNext
<1>1. ASSUME NEW c \in Call, NEW k \in {"unary", "stream"}, Begin(c, k)
      PROVE  CallsNext /\ RestNext
  BY <1>1, BeginNext, BeginRest
<1>2. ASSUME NEW c \in Call, NoMetadata(c) PROVE CallsNext /\ RestNext
  BY <1>2, NoMetadataActs, ActsKeeps, NoMetadataRest
<1>3. ASSUME NEW c \in Call, Draw(c) PROVE CallsNext /\ RestNext
  BY <1>3, DrawActs, ActsKeeps, DrawRest
<1>4. ASSUME NEW c \in Call, Enter(c) PROVE CallsNext /\ RestNext
  BY <1>4, EnterActs, ActsKeeps, EnterRest
<1>5. ASSUME NEW c \in Call, Blocked(c) PROVE CallsNext /\ RestNext
  BY <1>5, BlockedActs, ActsKeeps, BlockedRest
<1>6. ASSUME NEW c \in Call, Serve(c) PROVE CallsNext /\ RestNext
  BY <1>6, ServeActs, ActsKeeps, ServeRest
<1>7. ASSUME NEW c \in Call, Refuse(c) PROVE CallsNext /\ RestNext
  BY <1>7, RefuseNext, RefuseRest
<1>8. ASSUME NEW c \in Call, Returns(c) PROVE CallsNext /\ RestNext
  BY <1>8, ReturnsActs, ActsKeeps, ReturnsRest
<1>9. ASSUME NEW c \in Call, Retry(c) PROVE CallsNext /\ RestNext
  BY <1>9, RetryNext, RetryRest
<1>10. ASSUME NEW c \in Call, Mark(c) PROVE CallsNext /\ RestNext
  BY <1>10, MarkActs, ActsKeeps, MarkRest
<1>11. ASSUME NEW c \in Call, Fail(c) PROVE CallsNext /\ RestNext
  BY <1>11, FailActs, ActsKeeps, FailRest
<1>12. ASSUME NEW c \in Call, Breaks(c) PROVE CallsNext /\ RestNext
  BY <1>12, BreaksActs, ActsKeeps, BreaksRest
<1>13. ASSUME NEW p \in Promise, Authenticated(p) PROVE CallsNext /\ RestNext
  BY <1>13, AuthenticatedNext, TokenRest
<1>14. ASSUME NEW p \in Promise, NotAuthenticated(p) PROVE CallsNext /\ RestNext
  BY <1>14, NotAuthenticatedNext, TokenRest
<1>15. ASSUME NEW p \in Promise, Expire(p) PROVE CallsNext /\ RestNext
  BY <1>15, ExpireNext, TokenRest
<1>16. ASSUME NEW h \in Host, Cool(h) PROVE CallsNext /\ RestNext
  BY <1>16, IdleNext, CoolRest DEF Cool, bounds
<1>17. CASE close
  BY <1>17, IdleNext, closeRest DEF close, bounds
<1>18. CASE UNCHANGED vars
  BY <1>18, IdleNext, StutterRest DEF vars, bounds
<1> QED
  BY <1>1, <1>2, <1>3, <1>4, <1>5, <1>6, <1>7, <1>8, <1>9, <1>10, <1>11, <1>12, <1>13,
     <1>14, <1>15, <1>16, <1>17, <1>18 DEF Next, Step

LEMMA PoolInvKept ==
    ASSUME PoolInv, [Next]_vars
    PROVE  PoolInv'
<1>1. CallsNext /\ RestNext
  BY PoolInvNext
<1> QED
  BY <1>1 DEF PoolInv, CallsNext, RestNext

\* The invariant holds in every state.
THEOREM Invariant == Spec => []PoolInv
<1>1. Init => PoolInv
  BY PoolInvInit
<1>2. PoolInv /\ [Next]_vars => PoolInv'
  BY PoolInvKept
<1> QED
  BY <1>1, <1>2, PTL DEF Spec

-----------------------------------------------------------------------------
(***************************************************************************)
(* What a caller relies on                                                 *)
(***************************************************************************)
LEMMA PoolTypes ==
    ASSUME PoolInv
    PROVE  TypeOK
<1>1. ASSUME NEW c \in Call
      PROVE  stack[c] \in Seq(Frame) /\ Len(stack[c]) <= Depth
  <2>1. /\ stack[c] \in Seq(ToldFrame) /\ Len(stack[c]) \in Nat
        /\ Len(stack[c]) <= expiries + 1
    BY CallNow, SoundFrames
  <2>2. stack[c] \in Seq(Frame)
    BY <2>1 DEF ToldFrame
  <2>3. Len(stack[c]) <= Depth
    BY <2>1, PartsNow, PoolAssumption DEF Depth
  <2> QED
    BY <2>2, <2>3
<1>2. stack \in [Call -> Seq(Frame)]
  BY <1>1 DEF PoolInv
<1>3. promise \in [Promise -> [state : {"free", "asking", "token"} \cup ErrorKind, at : 0..Hosts]]
  BY DEF PoolInv, Fields, Promised, ErrorKind
<1>4. result \in [Call -> ErrorKind \cup {"none", "ok"}]
  BY DEF PoolInv, Fields, Told, ErrorKind
<1> QED
  BY <1>1, <1>2, <1>3, <1>4 DEF PoolInv, Fields, TypeOK

\* The types.  An exec() calls itself no deeper than tokens expire, and there are
\* always promises, hosts to draw and attempts left.
THEOREM TypeCorrect == Spec => []TypeOK
<1>1. PoolInv => TypeOK
  BY PoolTypes
<1> QED
  BY <1>1, Invariant, PTL

\* connection-pool.ts:339-341: a call that failed before its hosts were all
\* blocked reports how it failed.
THEOREM CauseReported == Spec => []ErrorIsTheCause
<1>1. PoolInv => ErrorIsTheCause
  BY DEF PoolInv, Causes, Knows, ErrorIsTheCause
<1> QED
  BY <1>1, Invariant, PTL

\* connection-pool.ts:326-328: no call fails because its token has expired.
THEOREM TokensReplaced == Spec => []TokenReplaced
<1>1. PoolInv => TokenReplaced
  BY DEF PoolInv, Fields, Told, TokenReplaced
<1> QED
  BY <1>1, Invariant, PTL

LEMMA ClosedIsQuiet ==
    ASSUME PoolInv, [Next]_vars, shut, NEW c \in Call,
           stack'[c] # <<>>, stack'[c] # stack[c]
    PROVE  stack'[c][Len(stack'[c])].at \notin {"sent", "open"}
<1>1. Quiet
  BY PoolInvNext DEF CallsNext, PoolInv
<1> QED
  BY <1>1 DEF Quiet, Inner

\* connection-pool.ts:195: once the client is closed no client of a host sends a
\* call or opens a stream, whatever call was under way, waits or retries.
\* (Authenticate requests, which have clients of their own, are not meant.)
THEOREM ClosedCallsNothing == Spec => NoCallOnceClosed
<1> DEFINE A == shut => \A c \in Call : stack'[c] # <<>> /\ stack'[c] # stack[c] =>
                  stack'[c][Len(stack'[c])].at \notin {"sent", "open"}
<1>1. PoolInv /\ [Next]_vars => [A]_vars
  BY ClosedIsQuiet
<1> QED
  BY <1>1, Invariant, PTL DEF Spec, NoCallOnceClosed

=============================================================================
