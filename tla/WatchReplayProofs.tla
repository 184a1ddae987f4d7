------------------------- MODULE WatchReplayProofs -------------------------
(***************************************************************************)
(* Proofs about module WatchReplay, for every number of revisions and of   *)
(* broken streams: the listeners see no event twice unless a member that   *)
(* lags set start_revision back, and, if no stream breaks while a backlog  *)
(* is being sent, they miss none.                                          *)
(***************************************************************************)
EXTENDS WatchReplay, TLAPS

(***************************************************************************)
(* The channel                                                             *)
(***************************************************************************)
LEMMA TailFacts ==
  ASSUME NEW S, NEW q \in Seq(S), q # <<>>, NEW t, t = Tail(q)
  PROVE  /\ t \in Seq(S) /\ Len(q) \in Nat /\ Len(q) >= 1 /\ Len(t) = Len(q) - 1
         /\ \A i \in 1..Len(t) : t[i] = q[i + 1] /\ i + 1 \in 2..Len(q)
         /\ Head(q) = q[1] /\ Head(q) \in S
OBVIOUS

LEMMA AppendFacts ==
  ASSUME NEW S, NEW q \in Seq(S), NEW x \in S, NEW t, t = Append(q, x)
  PROVE  /\ t \in Seq(S) /\ Len(q) \in Nat /\ Len(t) = Len(q) + 1 /\ t # <<>>
         /\ \A i \in 1..Len(q) : t[i] = q[i]
         /\ t[Len(q) + 1] = x
OBVIOUS

LEMMA QueueFacts ==
  ASSUME TypeOK
  PROVE  /\ Len(toClient) \in Nat
         /\ toClient = <<>> <=> Len(toClient) = 0
         /\ \A i \in 1..Len(toClient) : toClient[i] \in Response
BY DEF TypeOK

\* What the client takes from the channel.
LEMMA ReceivedFacts ==
  ASSUME TypeOK, NEW kind, Receives(kind)
  PROVE  /\ toClient' \in Seq(Response)
         /\ Len(toClient) \in Nat /\ Len(toClient) >= 1 /\ Len(toClient') = Len(toClient) - 1
         /\ \A i \in 1..Len(toClient') : toClient'[i] = toClient[i + 1] /\ i + 1 \in 2..Len(toClient)
         /\ Head(toClient) = toClient[1] /\ toClient[1] \in Response /\ toClient[1].kind = kind
         /\ toClient[1].revision \in Revision /\ toClient[1].events \subseteq Revision
<1>1. toClient \in Seq(Response) /\ toClient # <<>> /\ toClient' = Tail(toClient)
      /\ Head(toClient).kind = kind
  BY DEF TypeOK, Receives
<1>2. /\ toClient' \in Seq(Response)
      /\ Len(toClient) \in Nat /\ Len(toClient) >= 1 /\ Len(toClient') = Len(toClient) - 1
      /\ \A i \in 1..Len(toClient') : toClient'[i] = toClient[i + 1] /\ i + 1 \in 2..Len(toClient)
      /\ Head(toClient) = toClient[1] /\ Head(toClient) \in Response
  BY <1>1, TailFacts
<1> QED BY <1>1, <1>2 DEF Response

\* What the server puts into it.
LEMMA SentFacts ==
  ASSUME TypeOK, NEW kind \in {"created", "data", "canceled"},
         NEW es \in SUBSET Revision, Send(kind, es)
  PROVE  /\ toClient' \in Seq(Response)
         /\ Len(toClient) \in Nat /\ Len(toClient') = Len(toClient) + 1 /\ toClient' # <<>>
         /\ \A i \in 1..Len(toClient) : toClient'[i] = toClient[i]
         /\ toClient'[Len(toClient) + 1] = [kind |-> kind, revision |-> local, events |-> es]
<1>1. local \in Revision
  BY ReplayAssumption DEF TypeOK, Revision
<1>2. [kind |-> kind, revision |-> local, events |-> es] \in Response
  BY <1>1 DEF Response
<1>3. toClient \in Seq(Response) /\ toClient' = Append(toClient, [kind |-> kind, revision |-> local, events |-> es])
  BY DEF TypeOK, Send
<1> QED BY <1>2, <1>3, AppendFacts

(***************************************************************************)
(* Types                                                                   *)
(***************************************************************************)
\* Revisions asked for, and those in headers, are the store's or the next one.
Bounded ==
    /\ start <= rev + 1 /\ next <= rev + 1
    /\ \A i \in 1..Len(toClient) : toClient[i].revision <= rev

Typing == TypeOK /\ Bounded

LEMMA TypingInit == Init => Typing
<1> SUFFICES ASSUME Init PROVE Typing
  OBVIOUS
<1>1. 1 \in Revision /\ MaxRev \in Nat
  BY ReplayAssumption DEF Revision
<1>2. toClient \in Seq(Response) /\ Len(toClient) = 0
  BY DEF Init
<1>3. delivered \in [Revision -> Nat]
  BY DEF Init
<1>4. /\ conn \in {"down", "creating", "connected", "error"}
      /\ start \in 0..MaxRev + 1 /\ next \in 0..MaxRev + 1 /\ promised \in 0..MaxRev + 1
      /\ rev \in Revision /\ compacted \in 0..rev /\ local \in 1..rev /\ stamped \in 0..rev
      /\ breaks \in 0..MaxBreaks
  BY ReplayAssumption DEF Init, Revision, Unset
<1>5. events \subseteq 2..rev /\ lagged \in BOOLEAN
  BY DEF Init
<1>6. TypeOK
  BY <1>2, <1>3, <1>4, <1>5 DEF TypeOK
<1>7. Bounded
  BY <1>2 DEF Init, Bounded, Unset
<1> QED BY <1>6, <1>7 DEF Typing

\* A response is taken, and start_revision is the one after its header's.
LEMMA TypingReceives ==
  ASSUME Typing, NEW kind, Receives(kind), start' \in {start, Head(toClient).revision + 1}
  PROVE  /\ toClient' \in Seq(Response)
         /\ \A i \in 1..Len(toClient') : toClient'[i].revision <= rev
         /\ start' \in 0..MaxRev + 1 /\ start' <= rev + 1
         /\ Head(toClient).revision + 1 \in 0..MaxRev + 1
<1>1. TypeOK /\ Bounded
  BY DEF Typing
<1>2. /\ toClient' \in Seq(Response)
      /\ Len(toClient) \in Nat /\ Len(toClient) >= 1 /\ Len(toClient') = Len(toClient) - 1
      /\ \A i \in 1..Len(toClient') : toClient'[i] = toClient[i + 1] /\ i + 1 \in 2..Len(toClient)
      /\ Head(toClient) = toClient[1] /\ toClient[1].revision \in Revision
  BY <1>1, ReceivedFacts
<1>3. rev \in 1..MaxRev /\ start \in 0..MaxRev + 1 /\ start <= rev + 1
      /\ \A i \in 1..Len(toClient) : toClient[i].revision <= rev
  BY <1>1 DEF TypeOK, Bounded, Revision
<1>4. toClient[1].revision \in Nat /\ toClient[1].revision <= rev
  BY <1>2, <1>3 DEF Revision
<1>5. \A i \in 1..Len(toClient') : toClient'[i].revision <= rev
  BY <1>2, <1>3
<1>6. Head(toClient).revision + 1 \in 0..MaxRev + 1 /\ Head(toClient).revision + 1 <= rev + 1
  BY <1>2, <1>3, <1>4, ReplayAssumption
<1> QED BY <1>2, <1>3, <1>5, <1>6

LEMMA TypingStep == Typing /\ [Next]_vars => Typing'
<1> SUFFICES ASSUME Typing, [Next]_vars PROVE Typing'
  OBVIOUS
<1>0. TypeOK /\ Bounded
  BY DEF Typing
<1>1. CASE UNCHANGED vars
  BY <1>0, <1>1 DEF TypeOK, Bounded, Typing, vars, watcher, store, server, history
<1>2. CASE Create
  <2>1. TypeOK'
    BY <1>0, <1>2 DEF TypeOK, Create, store
  <2>2. Bounded'
    BY <1>0, <1>2 DEF Bounded, Create, store
  <2> QED BY <2>1, <2>2 DEF Typing
<1>3. CASE OnCreated
  <2>1. Receives("created") /\ start' = Head(toClient).revision + 1
    BY <1>3 DEF OnCreated, UpdateRevision
  <2>2. /\ toClient' \in Seq(Response)
        /\ \A i \in 1..Len(toClient') : toClient'[i].revision <= rev
        /\ start' \in 0..MaxRev + 1 /\ start' <= rev + 1
        /\ Head(toClient).revision + 1 \in 0..MaxRev + 1
    BY <2>1, TypingReceives
  <2>3. promised' \in 0..MaxRev + 1
    BY <1>0, <1>3, <2>2 DEF TypeOK, OnCreated
  <2>4. TypeOK'
    BY <1>0, <1>3, <2>2, <2>3 DEF TypeOK, OnCreated, Receives, store
  <2>5. Bounded'
    BY <1>0, <1>3, <2>2 DEF Bounded, OnCreated, Receives, store
  <2> QED BY <2>4, <2>5 DEF Typing
<1>4. CASE OnData
  <2>1. Receives("data") /\ start' = Head(toClient).revision + 1
    BY <1>4 DEF OnData, UpdateRevision
  <2>2. /\ toClient' \in Seq(Response)
        /\ \A i \in 1..Len(toClient') : toClient'[i].revision <= rev
        /\ start' \in 0..MaxRev + 1 /\ start' <= rev + 1
    BY <2>1, TypingReceives
  <2>3. delivered' \in [Revision -> Nat]
    <3>1. \A r \in Revision : delivered[r] \in Nat
      BY <1>0 DEF TypeOK
    <3> QED BY <1>4, <3>1 DEF OnData
  <2>4. TypeOK'
    BY <1>0, <1>4, <2>2, <2>3 DEF TypeOK, OnData, Receives, store
  <2>5. Bounded'
    BY <1>0, <1>4, <2>2 DEF Bounded, OnData, Receives, store
  <2> QED BY <2>4, <2>5 DEF Typing
<1>5. CASE OnCanceled
  <2>1. Receives("canceled") /\ start' = start
    BY <1>5 DEF OnCanceled
  <2>2. /\ toClient' \in Seq(Response)
        /\ \A i \in 1..Len(toClient') : toClient'[i].revision <= rev
    BY <2>1, TypingReceives
  <2>4. TypeOK'
    BY <1>0, <1>5, <2>2 DEF TypeOK, OnCanceled, Receives, store
  <2>5. Bounded'
    BY <1>0, <1>5, <2>2 DEF Bounded, OnCanceled, Receives, store
  <2> QED BY <2>4, <2>5 DEF Typing
<1>6. ASSUME NEW kind \in {"created", "data", "canceled"},
             NEW es \in SUBSET Revision, Send(kind, es),
             UNCHANGED <<watcher, store, local, history>>,
             next' \in 0..MaxRev + 1, next' <= rev + 1, stamped' \in {stamped, local}
      PROVE  Typing'
  <2>1. /\ toClient' \in Seq(Response)
        /\ Len(toClient) \in Nat /\ Len(toClient') = Len(toClient) + 1
        /\ \A i \in 1..Len(toClient) : toClient'[i] = toClient[i]
        /\ toClient'[Len(toClient) + 1] = [kind |-> kind, revision |-> local, events |-> es]
    BY <1>0, <1>6, SentFacts
  <2>2. local \in 1..rev /\ rev \in Nat /\ local <= rev
    BY <1>0 DEF TypeOK, Revision
  <2>3. \A i \in 1..Len(toClient') : toClient'[i].revision <= rev
    <3>1. SUFFICES ASSUME NEW i \in 1..Len(toClient') PROVE toClient'[i].revision <= rev
      OBVIOUS
    <3>2. i \in 1..Len(toClient) \/ i = Len(toClient) + 1
      BY <2>1
    <3> QED BY <1>0, <2>1, <2>2, <3>2 DEF Bounded
  <2>4. stamped' \in 0..rev
    BY <1>0, <1>6, <2>2 DEF TypeOK
  <2>5. TypeOK'
    BY <1>0, <1>6, <2>1, <2>4 DEF TypeOK, watcher, store, history
  <2>6. Bounded'
    BY <1>0, <1>6, <2>3 DEF Bounded, watcher, store
  <2> QED BY <2>5, <2>6 DEF Typing
<1>7. rev \in Nat /\ rev <= MaxRev /\ local \in Nat /\ local <= rev /\ MaxRev \in Nat
  BY <1>0, ReplayAssumption DEF TypeOK, Revision
<1>8. CASE ServerCreates
  <2>1. next' \in 0..MaxRev + 1 /\ next' <= rev + 1
    BY <1>0, <1>7, <1>8 DEF ServerCreates, TypeOK, Bounded
  <2> QED BY <1>6, <1>8, <2>1 DEF ServerCreates
<1>9. CASE ServerSends
  <2>1. PICK n \in next..local :
           LET es == events \cap next..n
           IN  /\ next' = n + 1
               /\ IF es = {} THEN UNCHANGED <<toClient, stamped>>
                  ELSE /\ Send("data", es)
                       /\ stamped' = IF n < local THEN local ELSE stamped
    BY <1>9 DEF ServerSends
  <2>2. next' \in 0..MaxRev + 1 /\ next' <= rev + 1
    BY <1>0, <1>7, <2>1 DEF TypeOK
  <2>3. events \cap next..n \in SUBSET Revision
    BY <1>0, <1>7 DEF TypeOK, Revision
  <2>4. UNCHANGED <<watcher, store, local, history>>
    BY <1>9 DEF ServerSends
  <2>5. CASE events \cap next..n = {}
    BY <1>0, <2>1, <2>2, <2>4, <2>5 DEF Typing, TypeOK, Bounded, watcher, store, history
  <2>6. CASE events \cap next..n # {}
    BY <1>6, <2>1, <2>2, <2>3, <2>4, <2>6
  <2> QED BY <2>5, <2>6
<1>10. CASE ServerNotifies
  <2>1. next' \in 0..MaxRev + 1 /\ next' <= rev + 1
    BY <1>0, <1>10 DEF ServerNotifies, TypeOK, Bounded
  <2> QED BY <1>6, <1>10, <2>1 DEF ServerNotifies
<1>11. CASE ServerCancels
  <2>1. next' \in 0..MaxRev + 1 /\ next' <= rev + 1
    BY <1>7, <1>11 DEF ServerCancels, Unset
  <2> QED BY <1>6, <1>11, <2>1 DEF ServerCancels
<1>12. CASE CatchesUp
  BY <1>0, <1>7, <1>12 DEF CatchesUp, Typing, TypeOK, Bounded, watcher, store, history
<1>13. CASE Change
  <2>1. rev' = rev + 1 /\ rev' \in Revision /\ local' \in 1..rev' /\ events' \subseteq 2..rev'
    BY <1>0, <1>7, <1>13 DEF Change, TypeOK, Revision
  <2>2. compacted' \in 0..rev' /\ stamped' \in 0..rev'
    BY <1>0, <1>7, <1>13, <2>1 DEF Change, TypeOK
  <2>3. TypeOK'
    BY <1>0, <1>13, <2>1, <2>2 DEF Change, TypeOK, watcher, history
  <2>4. \A i \in 1..Len(toClient) : toClient[i].revision \in Nat
    BY <1>0, QueueFacts DEF Response, Revision
  <2>5. start' <= rev' + 1 /\ next' <= rev' + 1
    BY <1>0, <1>7, <1>13, <2>1 DEF Change, TypeOK, Bounded, watcher
  <2>6. Bounded'
    BY <1>0, <1>7, <1>13, <2>1, <2>4, <2>5 DEF Change, Bounded
  <2> QED BY <2>3, <2>6 DEF Typing
<1>14. CASE Compact
  <2>1. compacted' \in 0..rev
    BY <1>0, <1>7, <1>14 DEF Compact, TypeOK
  <2> QED BY <1>0, <1>14, <2>1 DEF Compact, Typing, TypeOK, Bounded, watcher, server, history
<1>15. CASE Break
  <2>1. toClient' = <<>> /\ toClient' \in Seq(Response) /\ Len(toClient') = 0
    BY <1>15 DEF Break
  <2>2. breaks' \in 0..MaxBreaks
    BY <1>0, <1>15, ReplayAssumption DEF Break, TypeOK
  <2>3. TypeOK'
    BY <1>0, <1>7, <1>15, <2>1, <2>2 DEF Break, KeepStart, TypeOK, store, Unset
  <2>4. Bounded'
    BY <1>0, <1>7, <1>15, <2>1 DEF Break, KeepStart, Bounded, store, Unset
  <2> QED BY <2>3, <2>4 DEF Typing
<1> QED
  BY <1>1, <1>2, <1>3, <1>4, <1>5, <1>8, <1>9, <1>10, <1>11, <1>12, <1>13, <1>14, <1>15
  DEF Next, ClientActs, ServerActs

\* Every reachable state of the watcher, the stream and the store is well
\* typed: start_revision is never beyond the revision after the store's.
THEOREM TypeCorrect == Spec => []TypeOK
<1>1. Typing => TypeOK
  BY DEF Typing
<1> QED BY <1>1, TypingInit, TypingStep, PTL DEF Spec

(***************************************************************************)
(* One connection: the order of its responses                              *)
(***************************************************************************)
Canceled == \E i \in 1..Len(toClient) : toClient[i].kind = "canceled"

\* Nothing is in flight without a connection.  The first response of one is
\* 'created', which makes the watcher connected, the last one may be 'canceled',
\* and in between there is a watch at the server.
Phases ==
    /\ conn \in {"down", "error"} => toClient = <<>> /\ next = Unset
    /\ conn = "creating" /\ toClient = <<>> => next = Unset
    /\ conn = "creating" /\ toClient # <<>> => toClient[1].kind = "created"
    /\ conn = "connected" => promised # Unset
    /\ conn = "connected" \/ toClient # <<>> => next # Unset \/ Canceled
    /\ next # Unset => stamped <= local
    /\ \A i \in 1..Len(toClient) :
         /\ toClient[i].kind = "created" =>
               i = 1 /\ conn = "creating" /\ toClient[i].revision <= stamped
         /\ toClient[i].kind = "canceled" => i = Len(toClient) /\ next = Unset

\* Headers grow along a connection, and events are no newer than their header.
Headers ==
    \A i \in 1..Len(toClient) :
        /\ \A r \in toClient[i].events : r <= toClient[i].revision
        /\ toClient[i].revision <= local
        /\ \A j \in i..Len(toClient) : toClient[i].revision <= toClient[j].revision

Connection == Phases /\ Headers

LEMMA Naturals ==
  ASSUME TypeOK
  PROVE  /\ rev \in Nat /\ local \in Nat /\ local >= 1 /\ local <= rev /\ rev <= MaxRev
         /\ MaxRev \in Nat /\ start \in Nat /\ next \in Nat /\ stamped \in Nat /\ promised \in Nat
         /\ events \subseteq Nat /\ Revision \subseteq Nat /\ events \subseteq Revision
         /\ \A r \in Revision : delivered[r] \in Nat
         /\ \A i \in 1..Len(toClient) :
              /\ toClient[i].kind \in {"created", "data", "canceled"}
              /\ toClient[i].revision \in Nat /\ toClient[i].events \subseteq Revision
<1>1. MaxRev \in Nat /\ Revision \subseteq Nat /\ rev \in 1..MaxRev
  BY ReplayAssumption DEF TypeOK, Revision
<1>2. events \subseteq Revision
  BY <1>1 DEF TypeOK, Revision
<1>3. \A r \in Revision : delivered[r] \in Nat
  BY DEF TypeOK
<1>4. \A i \in 1..Len(toClient) :
        /\ toClient[i].kind \in {"created", "data", "canceled"}
        /\ toClient[i].revision \in Nat /\ toClient[i].events \subseteq Revision
  BY <1>1, QueueFacts DEF Response
<1>5. /\ local \in Nat /\ local >= 1 /\ local <= rev
      /\ start \in Nat /\ next \in Nat /\ stamped \in Nat /\ promised \in Nat
  BY <1>1 DEF TypeOK
<1> QED BY <1>1, <1>2, <1>3, <1>4, <1>5

LEMMA ConnectionInit == Init => Connection
<1> SUFFICES ASSUME Init PROVE Connection
  OBVIOUS
<1>1. toClient = <<>> /\ Len(toClient) = 0
  BY DEF Init
<1> QED BY <1>1 DEF Init, Connection, Phases, Headers, Unset

\* A response that is taken leaves the order of the others.
LEMMA HeadersReceives ==
  ASSUME TypeOK, Headers, NEW kind, Receives(kind)
  PROVE  Headers'
<1>1. /\ Len(toClient) \in Nat /\ Len(toClient) >= 1 /\ Len(toClient') = Len(toClient) - 1
      /\ \A i \in 1..Len(toClient') : toClient'[i] = toClient[i + 1] /\ i + 1 \in 2..Len(toClient)
  BY ReceivedFacts
<1>2. local' = local
  BY DEF Receives
<1>3. SUFFICES ASSUME NEW i \in 1..Len(toClient')
      PROVE  /\ \A r \in toClient'[i].events : r <= toClient'[i].revision
             /\ toClient'[i].revision <= local'
             /\ \A j \in i..Len(toClient') : toClient'[i].revision <= toClient'[j].revision
  BY DEF Headers
<1>4. toClient'[i] = toClient[i + 1] /\ i + 1 \in 1..Len(toClient)
  BY <1>1
<1>5. ASSUME NEW j \in i..Len(toClient') PROVE toClient'[i].revision <= toClient'[j].revision
  <2>1. j \in 1..Len(toClient') /\ j + 1 \in i + 1..Len(toClient) /\ toClient'[j] = toClient[j + 1]
    BY <1>1
  <2> QED BY <1>4, <2>1 DEF Headers
<1> QED BY <1>2, <1>4, <1>5 DEF Headers

\* A response that is sent has the newest header.
LEMMA HeadersSends ==
  ASSUME TypeOK, Headers, NEW kind \in {"created", "data", "canceled"},
         NEW es \in SUBSET (1..local), Send(kind, es), local' = local
  PROVE  Headers'
<1>1. local \in Nat /\ es \in SUBSET Revision
  BY Naturals DEF Revision
<1>2. /\ Len(toClient) \in Nat /\ Len(toClient') = Len(toClient) + 1
      /\ \A i \in 1..Len(toClient) : toClient'[i] = toClient[i]
      /\ toClient'[Len(toClient) + 1] = [kind |-> kind, revision |-> local, events |-> es]
  BY <1>1, SentFacts
<1>3. SUFFICES ASSUME NEW i \in 1..Len(toClient')
      PROVE  /\ \A r \in toClient'[i].events : r <= toClient'[i].revision
             /\ toClient'[i].revision <= local
             /\ \A j \in i..Len(toClient') : toClient'[i].revision <= toClient'[j].revision
  BY DEF Headers
<1>4. CASE i = Len(toClient) + 1
  <2>1. \A j \in i..Len(toClient') : j = i
    BY <1>2, <1>4
  <2>2. toClient'[i].revision = local /\ toClient'[i].events = es
    BY <1>2, <1>4
  <2>3. \A r \in es : r <= local
    BY <1>1
  <2>4. toClient'[i].revision <= local
    BY <1>1, <2>2
  <2>5. ASSUME NEW j \in i..Len(toClient') PROVE toClient'[i].revision <= toClient'[j].revision
    <3>1. j = i
      BY <2>1
    <3> QED BY <1>1, <2>2, <3>1
  <2>6. \A r \in toClient'[i].events : r <= toClient'[i].revision
    BY <2>2, <2>3
  <2> QED BY <2>4, <2>5, <2>6
<1>5. CASE i \in 1..Len(toClient)
  <2>1. toClient'[i] = toClient[i] /\ toClient[i].revision <= local
    BY <1>2, <1>5 DEF Headers
  <2>2. ASSUME NEW j \in i..Len(toClient') PROVE toClient'[i].revision <= toClient'[j].revision
    <3>1. CASE j = Len(toClient) + 1
      BY <1>2, <2>1, <3>1
    <3>2. CASE j # Len(toClient) + 1
      <4>1. j \in i..Len(toClient) /\ j \in 1..Len(toClient)
        BY <1>2, <1>5, <3>2
      <4> QED BY <1>2, <1>5, <4>1 DEF Headers
    <3> QED BY <3>1, <3>2
  <2> QED BY <1>5, <2>1, <2>2 DEF Headers
<1> QED BY <1>2, <1>4, <1>5

LEMMA ConnectionStep == Typing /\ Connection /\ [Next]_vars => Connection'
<1> SUFFICES ASSUME TypeOK, Connection, [Next]_vars PROVE Connection'
  BY DEF Typing
<1>0. Phases /\ Headers
  BY DEF Connection
<1>n. /\ rev \in Nat /\ local \in Nat /\ local >= 1 /\ local <= rev
      /\ start \in Nat /\ next \in Nat /\ stamped \in Nat /\ promised \in Nat
      /\ Len(toClient) \in Nat /\ (toClient = <<>> <=> Len(toClient) = 0)
      /\ \A i \in 1..Len(toClient) : toClient[i].revision \in Nat
  BY Naturals, QueueFacts
<1>1. CASE UNCHANGED vars
  BY <1>0, <1>1 DEF Connection, Phases, Headers, Canceled, vars, watcher, server, history
<1>2. CASE Create
  BY <1>0, <1>n, <1>2 DEF Create, Connection, Phases, Headers, Canceled
<1>3. CASE OnCreated
  <2>1. Receives("created") /\ conn' = "connected" /\ UNCHANGED <<next, stamped, local>>
    BY <1>3 DEF OnCreated, Receives
  <2>2. /\ Len(toClient) >= 1 /\ Len(toClient') = Len(toClient) - 1
        /\ \A i \in 1..Len(toClient') : toClient'[i] = toClient[i + 1] /\ i + 1 \in 2..Len(toClient)
        /\ Head(toClient).revision \in Nat /\ toClient[1].kind = "created"
        /\ toClient # <<>>
    BY <2>1, <1>n, ReceivedFacts DEF Revision, Receives
  <2>3. promised' # Unset
    BY <1>3, <1>n, <2>2 DEF OnCreated, Unset
  <2>4. next' # Unset \/ Canceled'
    <3>1. CASE next # Unset
      BY <2>1, <3>1
    <3>2. CASE next = Unset
      <4>1. PICK i \in 1..Len(toClient) : toClient[i].kind = "canceled"
        BY <1>0, <2>2, <3>2 DEF Phases, Canceled
      <4>2. i # 1
        BY <2>2, <4>1
      <4>3. i - 1 \in 1..Len(toClient') /\ toClient'[i - 1] = toClient[i]
        BY <1>n, <2>2, <4>2
      <4> QED BY <4>1, <4>3 DEF Canceled
    <3> QED BY <3>1, <3>2
  <2>5. ASSUME NEW i \in 1..Len(toClient')
        PROVE  /\ toClient'[i].kind # "created"
               /\ toClient'[i].kind = "canceled" => i = Len(toClient') /\ next' = Unset
    <3>1. toClient'[i] = toClient[i + 1] /\ i + 1 \in 1..Len(toClient) /\ i + 1 # 1
      BY <1>n, <2>2
    <3>2. toClient[i + 1].kind = "created" => i + 1 = 1
      BY <1>0, <3>1 DEF Phases
    <3>3. toClient[i + 1].kind = "canceled" => i + 1 = Len(toClient) /\ next = Unset
      BY <1>0, <3>1 DEF Phases
    <3>4. i + 1 = Len(toClient) => i = Len(toClient')
      BY <1>n, <2>2
    <3> QED BY <2>1, <3>1, <3>2, <3>3, <3>4
  <2>6. Phases'
    BY <1>0, <2>1, <2>3, <2>4, <2>5 DEF Phases
  <2>7. Headers'
    BY <1>0, <2>1, HeadersReceives
  <2> QED BY <2>6, <2>7 DEF Connection
<1>4. CASE OnData
  <2>1. Receives("data") /\ UNCHANGED <<conn, next, stamped, local, promised>>
    BY <1>4 DEF OnData, Receives
  <2>2. /\ Len(toClient) >= 1 /\ Len(toClient') = Len(toClient) - 1
        /\ \A i \in 1..Len(toClient') : toClient'[i] = toClient[i + 1] /\ i + 1 \in 2..Len(toClient)
        /\ toClient[1].kind = "data" /\ toClient # <<>>
    BY <2>1, <1>n, ReceivedFacts DEF Receives
  <2>3. conn = "connected"
    BY <1>0, <2>2 DEF Phases, TypeOK
  <2>4. next' # Unset \/ Canceled'
    <3>1. CASE next # Unset
      BY <2>1, <3>1
    <3>2. CASE next = Unset
      <4>1. PICK i \in 1..Len(toClient) : toClient[i].kind = "canceled"
        BY <1>0, <2>2, <3>2 DEF Phases, Canceled
      <4>2. i # 1
        BY <2>2, <4>1
      <4>3. i - 1 \in 1..Len(toClient') /\ toClient'[i - 1] = toClient[i]
        BY <1>n, <2>2, <4>2
      <4> QED BY <4>1, <4>3 DEF Canceled
    <3> QED BY <3>1, <3>2
  <2>5. ASSUME NEW i \in 1..Len(toClient')
        PROVE  /\ toClient'[i].kind # "created"
               /\ toClient'[i].kind = "canceled" => i = Len(toClient') /\ next' = Unset
    <3>1. toClient'[i] = toClient[i + 1] /\ i + 1 \in 1..Len(toClient) /\ i + 1 # 1
      BY <1>n, <2>2
    <3>2. toClient[i + 1].kind = "created" => i + 1 = 1
      BY <1>0, <3>1 DEF Phases
    <3>3. toClient[i + 1].kind = "canceled" => i + 1 = Len(toClient) /\ next = Unset
      BY <1>0, <3>1 DEF Phases
    <3>4. i + 1 = Len(toClient) => i = Len(toClient')
      BY <1>n, <2>2
    <3> QED BY <2>1, <3>1, <3>2, <3>3, <3>4
  <2>6. Phases'
    BY <1>0, <2>1, <2>3, <2>4, <2>5 DEF Phases
  <2>7. Headers'
    BY <1>0, <2>1, HeadersReceives
  <2> QED BY <2>6, <2>7 DEF Connection
<1>5. CASE OnCanceled
  <2>1. Receives("canceled") /\ conn' = "error" /\ UNCHANGED <<next, stamped, local, promised>>
    BY <1>5 DEF OnCanceled, Receives
  <2>2. /\ toClient' \in Seq(Response)
        /\ Len(toClient) >= 1 /\ Len(toClient') = Len(toClient) - 1 /\ toClient[1].kind = "canceled"
    BY <2>1, ReceivedFacts
  <2>3. Len(toClient) = 1 /\ next = Unset
    BY <1>0, <1>n, <2>2 DEF Phases
  <2>4. toClient' = <<>> /\ Len(toClient') = 0
    BY <2>2, <2>3
  <2>5. Phases'
    BY <2>1, <2>3, <2>4 DEF Phases, Canceled
  <2>6. Headers'
    BY <2>4 DEF Headers
  <2> QED BY <2>5, <2>6 DEF Connection
<1>8. CASE ServerCreates
  <2>1. /\ conn = "creating" /\ toClient = <<>> /\ Send("created", {})
        /\ next' # Unset /\ stamped' = local
        /\ UNCHANGED <<conn, start, local, promised>>
    BY <1>n, <1>8 DEF ServerCreates, watcher, history, Unset
  <2>2. /\ Len(toClient') = 1 /\ toClient' # <<>>
        /\ toClient'[1] = [kind |-> "created", revision |-> local, events |-> {}]
    <3>1. /\ Len(toClient') = Len(toClient) + 1 /\ toClient' # <<>>
          /\ toClient'[Len(toClient) + 1] = [kind |-> "created", revision |-> local, events |-> {}]
      BY <2>1, SentFacts
    <3>2. Len(toClient) = 0
      BY <1>n, <2>1
    <3> QED BY <3>1, <3>2
  <2>3. Phases'
    BY <1>n, <2>1, <2>2 DEF Phases
  <2>4. Headers'
    BY <1>0, <2>1, HeadersSends
  <2> QED BY <2>3, <2>4 DEF Connection
<1>d. ASSUME NEW kind \in {"data", "canceled"}, NEW es \in SUBSET (1..local), Send(kind, es),
             next # Unset, kind = "data" => next' # Unset, kind = "canceled" => next' = Unset,
             stamped' \in {stamped, local}, UNCHANGED <<conn, local, promised>>,
             stamped <= stamped'
      PROVE  Connection'
  <2>1. /\ Len(toClient') = Len(toClient) + 1 /\ toClient' # <<>>
        /\ \A i \in 1..Len(toClient) : toClient'[i] = toClient[i]
        /\ toClient'[Len(toClient) + 1] = [kind |-> kind, revision |-> local, events |-> es]
    <3>1. es \in SUBSET Revision
      BY <1>d, Naturals DEF Revision
    <3> QED BY <1>d, <3>1, SentFacts
  <2>2. conn \in {"creating", "connected"} /\ (conn = "creating" => toClient # <<>>)
    BY <1>0, <1>d DEF Phases, TypeOK
  <2>3. ~Canceled
    BY <1>0, <1>d DEF Phases, Canceled
  <2>4. conn = "creating" => toClient'[1].kind = "created"
    BY <1>0, <1>n, <2>1, <2>2 DEF Phases
  <2>5. kind = "canceled" => Canceled'
    BY <1>n, <2>1 DEF Canceled
  <2>6. ASSUME NEW i \in 1..Len(toClient')
        PROVE  /\ toClient'[i].kind = "created" =>
                     i = 1 /\ conn' = "creating" /\ toClient'[i].revision <= stamped'
               /\ toClient'[i].kind = "canceled" => i = Len(toClient') /\ next' = Unset
    <3>1. CASE i = Len(toClient) + 1
      BY <1>d, <2>1, <3>1
    <3>2. CASE i \in 1..Len(toClient)
      <4>1. toClient'[i] = toClient[i] /\ toClient[i].kind # "canceled"
        BY <2>1, <2>3, <3>2 DEF Canceled
      <4>2. toClient[i].kind = "created" =>
              i = 1 /\ conn = "creating" /\ toClient[i].revision <= stamped
        BY <1>0, <3>2 DEF Phases
      <4> QED BY <1>n, <1>d, <3>2, <4>1, <4>2
    <3> QED BY <1>n, <2>1, <3>1, <3>2
  <2>7. Phases'
    BY <1>0, <1>n, <1>d, <2>1, <2>2, <2>4, <2>5, <2>6 DEF Phases
  <2>8. Headers'
    BY <1>0, <1>d, HeadersSends
  <2> QED BY <2>7, <2>8 DEF Connection
<1>9. CASE ServerSends
  <2>1. PICK n \in next..local :
           LET es == events \cap next..n
           IN  /\ next' = n + 1
               /\ IF es = {} THEN UNCHANGED <<toClient, stamped>>
                  ELSE /\ Send("data", es)
                       /\ stamped' = IF n < local THEN local ELSE stamped
    BY <1>9 DEF ServerSends
  <2>2. next # Unset /\ next' # Unset /\ UNCHANGED <<conn, local, promised>>
    BY <1>n, <1>9, <2>1 DEF ServerSends, Watching, Unset, watcher, history
  <2>3. CASE events \cap next..n = {}
    BY <1>0, <2>1, <2>2, <2>3 DEF Connection, Phases, Headers, Canceled
  <2>4. CASE events \cap next..n # {}
    <3>1. events \cap next..n \in SUBSET (1..local)
      BY <1>n, <2>2 DEF Unset
    <3>2. stamped' \in {stamped, local} /\ stamped <= stamped'
      BY <1>0, <1>n, <2>1, <2>2, <2>4 DEF Phases
    <3> QED BY <1>d, <2>1, <2>2, <2>4, <3>1, <3>2
  <2> QED BY <2>3, <2>4
<1>10. CASE ServerNotifies
  <2>1. next # Unset
    BY <1>n, <1>10 DEF ServerNotifies, Unset
  <2> QED BY <1>d, <1>n, <1>10, <2>1 DEF ServerNotifies, watcher, history
<1>11. CASE ServerCancels
  <2>1. next # Unset
    BY <1>11 DEF ServerCancels, Gone, Watching
  <2> QED BY <1>d, <1>n, <1>11, <2>1 DEF ServerCancels, watcher, history
<1>12. ASSUME UNCHANGED <<watcher, next, toClient, stamped, history>>, local' \in Nat, local <= local'
       PROVE  Connection'
  <2>1. Phases'
    BY <1>0, <1>n, <1>12 DEF Phases, Canceled, watcher, history
  <2>2. Headers'
    BY <1>0, <1>n, <1>12 DEF Headers
  <2> QED BY <2>1, <2>2 DEF Connection
<1>13. CASE CatchesUp
  BY <1>n, <1>12, <1>13 DEF CatchesUp
<1>14. CASE Change
  <2>1. local' \in Nat /\ local <= local'
    BY <1>n, <1>14 DEF Change
  <2> QED BY <1>12, <1>14, <2>1 DEF Change
<1>15. CASE Compact
  BY <1>n, <1>12, <1>15 DEF Compact, server
<1>16. CASE Break
  <2>1. toClient' = <<>> /\ Len(toClient') = 0 /\ conn' = "down" /\ next' = Unset
    BY <1>16 DEF Break
  <2> QED BY <2>1 DEF Connection, Phases, Headers, Canceled
<1> QED
  BY <1>1, <1>2, <1>3, <1>4, <1>5, <1>8, <1>9, <1>10, <1>11, <1>13, <1>14, <1>15, <1>16
  DEF Next, ClientActs, ServerActs

(***************************************************************************)
(* No event twice                                                          *)
(***************************************************************************)
\* start_revision stays behind what is received and is sent.
StartBehind ==
    /\ conn \in {"creating", "connected"} => start <= local + 1
    /\ \A i \in 1..Len(toClient) : start <= toClient[i].revision + 1

\* What was emitted is behind start_revision, behind the watch, and not in flight.
Emitted ==
    \A r \in Revision :
        /\ delivered[r] <= 1
        /\ delivered[r] > 0 =>
              /\ r < start
              /\ next # Unset => r < next
              /\ \A i \in 1..Len(toClient) : r \notin toClient[i].events

\* What is in flight is behind the watch, and in flight once.
SentOnce ==
    \A i \in 1..Len(toClient) : \A r \in toClient[i].events :
        /\ next # Unset => r < next
        /\ \A j \in 1..Len(toClient) : r \in toClient[j].events => i = j

Once == StartBehind /\ Emitted /\ SentOnce

LEMMA OnceInit == Init => Once
<1> SUFFICES ASSUME Init PROVE Once
  OBVIOUS
<1>1. Len(toClient) = 0 /\ conn = "down" /\ \A r \in Revision : delivered[r] = 0
  BY DEF Init
<1> QED BY <1>1 DEF Once, StartBehind, Emitted, SentOnce

LEMMA NotBehind ==
  ASSUME NEW a \in Nat, NEW b \in Nat, ~(a + 1 < b)
  PROVE  b <= a + 1
OBVIOUS

LEMMA StaysBehind ==
  ASSUME NEW a \in Nat, NEW b \in Nat, NEW c \in Nat, a <= b + 1, b <= c
  PROVE  a <= c + 1
OBVIOUS

LEMMA OnceStep ==
  ASSUME Typing, Connection, ~lagged => Once, [Next]_vars
  PROVE  ~lagged' => Once'
<1>t. TypeOK /\ Phases /\ Headers
  BY DEF Typing, Connection
<1>0. SUFFICES ASSUME ~lagged, ~lagged' PROVE Once'
  <2>1. lagged => lagged'
    BY <1>t DEF Next, ClientActs, ServerActs, Create, OnCreated, OnData, OnCanceled, Receives,
         ServerCreates, ServerSends, ServerNotifies, ServerCancels, CatchesUp, Change, Compact,
         Break, vars, history, server, TypeOK
  <2> QED BY <2>1
<1>o. StartBehind /\ Emitted /\ SentOnce
  BY <1>0 DEF Once
<1>n. /\ local \in Nat /\ local >= 1 /\ rev \in Nat /\ start \in Nat /\ next \in Nat
      /\ Revision \subseteq Nat /\ events \subseteq Nat /\ events \subseteq Revision
      /\ \A r \in Revision : delivered[r] \in Nat
      /\ \A i \in 1..Len(toClient) : toClient[i].revision \in Nat /\ toClient[i].events \subseteq Revision
      /\ Len(toClient) \in Nat /\ (toClient = <<>> <=> Len(toClient) = 0)
  BY <1>t, Naturals, QueueFacts
<1>1. CASE UNCHANGED vars
  BY <1>o, <1>1 DEF Once, StartBehind, Emitted, SentOnce, vars, watcher, server
<1>2. CASE Create
  <2>1. Len(toClient) = 0 /\ toClient' = toClient /\ next' = Unset /\ UNCHANGED <<start, delivered>>
    BY <1>t, <1>n, <1>2 DEF Create, Phases
  <2>2. start <= local' + 1
    <3>1. local' \in 1..rev /\ lagged' = (lagged \/ local' + 1 < start)
      BY <1>2 DEF Create
    <3>2. ~(local' + 1 < start)
      BY <1>0, <3>1, Zenon
    <3>3. local' \in Nat /\ start \in Nat
      BY <1>n, <3>1
    <3> QED BY <3>2, <3>3, NotBehind
  <2> QED BY <1>o, <2>1, <2>2 DEF Once, StartBehind, Emitted, SentOnce
<1>r. ASSUME NEW kind, Receives(kind)
      PROVE  /\ Len(toClient) >= 1 /\ Len(toClient') = Len(toClient) - 1 /\ Len(toClient') \in Nat
             /\ \A i \in 1..Len(toClient') :
                  /\ toClient'[i] = toClient[i + 1] /\ i + 1 \in 1..Len(toClient) /\ i + 1 # 1
                  /\ toClient[1].revision <= toClient'[i].revision
             /\ Head(toClient) = toClient[1] /\ 1 \in 1..Len(toClient)
             /\ next' = next /\ local' = local
             /\ SentOnce'
  <2>1. /\ Len(toClient) >= 1 /\ Len(toClient') = Len(toClient) - 1
        /\ \A i \in 1..Len(toClient') : toClient'[i] = toClient[i + 1] /\ i + 1 \in 2..Len(toClient)
        /\ Head(toClient) = toClient[1]
    BY <1>t, <1>r, ReceivedFacts
  <2>2. next' = next /\ local' = local
    BY <1>r DEF Receives
  <2>3. ASSUME NEW i \in 1..Len(toClient')
        PROVE  /\ toClient'[i] = toClient[i + 1] /\ i + 1 \in 1..Len(toClient) /\ i + 1 # 1
               /\ toClient[1].revision <= toClient'[i].revision
    <3>1. toClient'[i] = toClient[i + 1] /\ i + 1 \in 1..Len(toClient) /\ i + 1 # 1 /\ i \in Nat
      BY <1>n, <2>1
    <3>2. 1 \in 1..Len(toClient)
      BY <1>n, <2>1
    <3> QED BY <1>t, <3>1, <3>2 DEF Headers
  <2>4. SentOnce'
    <3> SUFFICES ASSUME NEW i \in 1..Len(toClient'), NEW r \in toClient'[i].events
        PROVE  /\ next' # Unset => r < next'
               /\ \A j \in 1..Len(toClient') : r \in toClient'[j].events => i = j
      BY DEF SentOnce
    <3>1. i + 1 \in 1..Len(toClient) /\ r \in toClient[i + 1].events
      BY <2>3
    <3>2. next # Unset => r < next
      BY <1>o, <3>1 DEF SentOnce
    <3>3. ASSUME NEW j \in 1..Len(toClient'), r \in toClient'[j].events PROVE i = j
      <4>1. j + 1 \in 1..Len(toClient) /\ r \in toClient[j + 1].events
        BY <2>3, <3>3
      <4>2. i + 1 = j + 1
        BY <1>o, <3>1, <4>1 DEF SentOnce
      <4> QED BY <4>2
    <3> QED BY <2>2, <3>2, <3>3
  <2> QED BY <1>n, <2>1, <2>2, <2>3, <2>4
\* A response with these events advances start_revision.
<1>u. ASSUME NEW kind, Receives(kind), start' = Head(toClient).revision + 1, conn' = "connected"
      PROVE  StartBehind' /\ start <= start'
  <2>1. start' = toClient[1].revision + 1 /\ 1 \in 1..Len(toClient)
    BY <1>r, <1>u
  <2>2. start <= start' /\ start' <= local + 1
    BY <1>t, <1>n, <1>o, <2>1 DEF StartBehind, Headers
  <2>3. ASSUME NEW i \in 1..Len(toClient') PROVE start' <= toClient'[i].revision + 1
    <3>1. /\ toClient[1].revision <= toClient'[i].revision
          /\ toClient'[i] = toClient[i + 1] /\ i + 1 \in 1..Len(toClient)
      BY <1>r, <1>u
    <3>2. toClient'[i].revision \in Nat /\ toClient[1].revision \in Nat
      BY <1>n, <2>1, <3>1
    <3> QED BY <2>1, <3>1, <3>2
  <2>4. local' = local
    BY <1>r, <1>u
  <2> QED BY <2>2, <2>3, <2>4 DEF StartBehind
<1>3. CASE OnCreated
  <2>1. Receives("created") /\ start' = Head(toClient).revision + 1 /\ conn' = "connected"
        /\ delivered' = delivered
    BY <1>3 DEF OnCreated, UpdateRevision
  <2>2. StartBehind' /\ start <= start' /\ start' \in Nat
    BY <1>n, <1>r, <1>u, <2>1
  <2>3. Emitted'
    <3> SUFFICES ASSUME NEW r \in Revision
        PROVE  /\ delivered[r] <= 1
               /\ delivered[r] > 0 =>
                    /\ r < start' /\ (next # Unset => r < next)
                    /\ \A i \in 1..Len(toClient') : r \notin toClient'[i].events
      BY <1>r, <2>1 DEF Emitted
    <3>1. ASSUME NEW i \in 1..Len(toClient')
          PROVE  toClient'[i] = toClient[i + 1] /\ i + 1 \in 1..Len(toClient)
      BY <1>r, <2>1
    <3>2. delivered[r] > 0 => \A i \in 1..Len(toClient') : r \notin toClient'[i].events
      BY <1>o, <3>1 DEF Emitted
    <3>3. delivered[r] > 0 => r < start'
      BY <1>o, <1>n, <2>2 DEF Emitted
    <3> QED BY <1>o, <3>2, <3>3 DEF Emitted
  <2> QED BY <1>r, <2>1, <2>2, <2>3 DEF Once
<1>4. CASE OnData
  <2>1. Receives("data") /\ start' = Head(toClient).revision + 1
    BY <1>4 DEF OnData, UpdateRevision
  <2>2. conn' = "connected"
    <3>1. toClient # <<>> /\ toClient[1].kind = "data"
      BY <1>t, <2>1, ReceivedFacts DEF Receives
    <3> QED BY <1>t, <1>4, <3>1 DEF Phases, TypeOK, OnData
  <2>3. StartBehind' /\ start <= start' /\ start' \in Nat
    BY <1>n, <1>r, <1>u, <2>1, <2>2
  <2>4. ASSUME NEW r \in Revision
        PROVE  /\ delivered'[r] <= 1
               /\ delivered'[r] > 0 =>
                    /\ r < start'
                    /\ next' # Unset => r < next'
                    /\ \A i \in 1..Len(toClient') : r \notin toClient'[i].events
    <3>r. /\ \A i \in 1..Len(toClient') :
               toClient'[i] = toClient[i + 1] /\ i + 1 \in 1..Len(toClient) /\ i + 1 # 1
          /\ Head(toClient) = toClient[1] /\ 1 \in 1..Len(toClient) /\ next' = next
      BY <1>r, <2>1
    <3>1. CASE r \in toClient[1].events
      <4>1. delivered[r] = 0
        BY <1>o, <1>n, <3>r, <3>1 DEF Emitted
      <4>2. delivered'[r] = 1
        BY <1>4, <3>r, <3>1, <4>1 DEF OnData
      <4>3. r < start'
        BY <1>t, <1>n, <2>1, <3>r, <3>1 DEF Headers
      <4>4. next # Unset => r < next
        BY <1>o, <3>r, <3>1 DEF SentOnce
      <4>5. \A i \in 1..Len(toClient') : r \notin toClient'[i].events
        BY <1>o, <3>r, <3>1 DEF SentOnce
      <4> QED BY <3>r, <4>2, <4>3, <4>4, <4>5
    <3>2. CASE r \notin toClient[1].events
      <4>1. delivered'[r] = delivered[r]
        BY <1>4, <3>r, <3>2 DEF OnData
      <4> QED BY <1>o, <1>n, <2>3, <3>r, <4>1 DEF Emitted
    <3> QED BY <3>1, <3>2
  <2>5. Emitted'
    BY <2>4 DEF Emitted
  <2> QED BY <1>r, <2>1, <2>3, <2>5 DEF Once
<1>5. CASE OnCanceled
  <2>1. Receives("canceled") /\ conn' = "error" /\ UNCHANGED <<start, delivered>>
    BY <1>5 DEF OnCanceled
  <2>2. StartBehind'
    BY <1>o, <1>r, <2>1 DEF StartBehind
  <2>3. Emitted'
    BY <1>o, <1>r, <2>1 DEF Emitted
  <2> QED BY <1>r, <2>1, <2>2, <2>3 DEF Once
\* A response with events that the watch has not sent yet.
<1>s. ASSUME NEW kind \in {"created", "data", "canceled"}, NEW es \in SUBSET Revision, Send(kind, es),
             UNCHANGED <<watcher, local>>, conn \in {"creating", "connected"},
             \A r \in es : next # Unset /\ next <= r /\ r < next',
             next = Unset => toClient = <<>> /\ (next' # Unset => start <= next'),
             next # Unset /\ next' # Unset => next <= next'
      PROVE  Once'
  <2>1. /\ Len(toClient') = Len(toClient) + 1 /\ Len(toClient') \in Nat
        /\ \A i \in 1..Len(toClient) : toClient'[i] = toClient[i]
        /\ toClient'[Len(toClient) + 1].revision = local
        /\ toClient'[Len(toClient) + 1].events = es
        /\ \A i \in 1..Len(toClient') : i \in 1..Len(toClient) \/ i = Len(toClient) + 1
    <3>1. /\ Len(toClient') = Len(toClient) + 1
          /\ \A i \in 1..Len(toClient) : toClient'[i] = toClient[i]
          /\ toClient'[Len(toClient) + 1] = [kind |-> kind, revision |-> local, events |-> es]
      BY <1>t, <1>s, SentFacts
    <3> QED BY <1>n, <3>1
  <2>2. StartBehind'
    <3>1. start <= local + 1 /\ UNCHANGED <<start, conn, local>>
      BY <1>o, <1>s DEF StartBehind, watcher
    <3>2. \A i \in 1..Len(toClient') : start <= toClient'[i].revision + 1
      BY <1>o, <2>1, <3>1 DEF StartBehind
    <3> QED BY <3>1, <3>2 DEF StartBehind
  <2>n. next' \in Nat
    BY <1>s, TypingStep DEF Typing, TypeOK
  <2>3. Emitted'
    <3> SUFFICES ASSUME NEW r \in Revision
        PROVE  /\ delivered[r] <= 1
               /\ delivered[r] > 0 =>
                    /\ r < start /\ (next' # Unset => r < next')
                    /\ \A i \in 1..Len(toClient') : r \notin toClient'[i].events
      BY <1>s DEF Emitted, watcher
    <3>1. ASSUME delivered[r] > 0 PROVE next' # Unset => r < next'
      <4>1. CASE next = Unset
        BY <1>o, <1>n, <1>s, <2>n, <3>1, <4>1 DEF Emitted
      <4>2. CASE next # Unset
        BY <1>o, <1>n, <1>s, <2>n, <3>1, <4>2 DEF Emitted
      <4> QED BY <4>1, <4>2
    <3>2. ASSUME delivered[r] > 0 PROVE r \notin es
      BY <1>o, <1>n, <1>s, <3>2 DEF Emitted
    <3>3. ASSUME delivered[r] > 0, NEW i \in 1..Len(toClient') PROVE r \notin toClient'[i].events
      BY <1>o, <2>1, <3>2, <3>3 DEF Emitted
    <3> QED BY <1>o, <3>1, <3>3 DEF Emitted
  <2>4. SentOnce'
    <3> SUFFICES ASSUME NEW i \in 1..Len(toClient'), NEW r \in toClient'[i].events
        PROVE  /\ next' # Unset => r < next'
               /\ \A j \in 1..Len(toClient') : r \in toClient'[j].events => i = j
      BY DEF SentOnce
    <3>0. ASSUME NEW k \in 1..Len(toClient), r \in toClient[k].events
          PROVE  r \notin es /\ (next' # Unset => r < next')
      <4>1. r \in Nat /\ toClient # <<>> /\ next # Unset
        <5>1. r \in Revision /\ toClient # <<>>
          BY <1>n, <3>0
        <5> QED BY <1>n, <1>s, <5>1
      <4>2. r < next
        BY <1>o, <3>0, <4>1 DEF SentOnce
      <4> QED BY <1>n, <1>s, <2>n, <4>1, <4>2
    <3>1. CASE r \in es
      <4>1. \A j \in 1..Len(toClient') : r \in toClient'[j].events => j = Len(toClient) + 1
        BY <2>1, <3>0, <3>1
      <4> QED BY <1>s, <3>1, <4>1
    <3>2. CASE r \notin es
      <4>1. \A j \in 1..Len(toClient') : r \in toClient'[j].events => j \in 1..Len(toClient) /\ r \in toClient[j].events
        BY <2>1, <3>2
      <4>2. next' # Unset => r < next'
        BY <3>0, <4>1
      <4>3. \A j \in 1..Len(toClient') : r \in toClient'[j].events => i = j
        BY <1>o, <4>1 DEF SentOnce
      <4> QED BY <4>2, <4>3
    <3> QED BY <3>1, <3>2
  <2> QED BY <2>2, <2>3, <2>4 DEF Once
<1>8. CASE ServerCreates
  <2>1. /\ conn = "creating" /\ toClient = <<>> /\ Send("created", {}) /\ next = Unset
        /\ UNCHANGED <<watcher, local>> /\ start <= next'
    BY <1>t, <1>n, <1>8 DEF ServerCreates, Phases, Unset
  <2> QED BY <1>s, <2>1
<1>9. CASE ServerSends
  <2>1. PICK n \in next..local :
           LET es == events \cap next..n
           IN  /\ next' = n + 1
               /\ IF es = {} THEN UNCHANGED <<toClient, stamped>>
                  ELSE /\ Send("data", es)
                       /\ stamped' = IF n < local THEN local ELSE stamped
    BY <1>9 DEF ServerSends
  <2>2. next # Unset /\ UNCHANGED <<watcher, local>> /\ n \in Nat /\ next <= n /\ next' = n + 1
    BY <1>n, <1>9, <2>1 DEF ServerSends, Watching, Unset
  <2>3. CASE events \cap next..n = {}
    <3>1. StartBehind'
      BY <1>o, <2>1, <2>2, <2>3 DEF StartBehind, watcher
    <3>2. Emitted'
      BY <1>o, <1>n, <2>1, <2>2, <2>3 DEF Emitted, watcher
    <3>3. SentOnce'
      <4> SUFFICES ASSUME NEW i \in 1..Len(toClient), NEW r \in toClient[i].events
          PROVE  /\ r < next'
                 /\ \A j \in 1..Len(toClient) : r \in toClient[j].events => i = j
        BY <2>1, <2>3 DEF SentOnce
      <4>1. r \in Revision /\ r \in Nat /\ r < next
        BY <1>o, <1>n, <2>2 DEF SentOnce
      <4> QED BY <1>o, <1>n, <2>2, <4>1 DEF SentOnce
    <3> QED BY <3>1, <3>2, <3>3 DEF Once
  <2>4. CASE events \cap next..n # {}
    <3>1. conn \in {"creating", "connected"}
      BY <1>t, <2>2 DEF Phases, TypeOK
    <3>2. events \cap next..n \in SUBSET Revision
      BY <1>n
    <3>3. \A r \in events \cap next..n : next # Unset /\ next <= r /\ r < next'
      BY <1>n, <2>2
    <3>4. next <= next'
      BY <1>n, <2>2
    <3> QED BY <1>s, <2>1, <2>2, <2>4, <3>1, <3>2, <3>3, <3>4
  <2> QED BY <2>3, <2>4
<1>10. CASE ServerNotifies
  <2>1. next # Unset /\ next' = next /\ conn = "connected" /\ Send("data", {}) /\ UNCHANGED <<watcher, local>>
    BY <1>n, <1>10 DEF ServerNotifies, Unset
  <2> QED BY <1>s, <1>n, <2>1
<1>11. CASE ServerCancels
  <2>1. next # Unset /\ next' = Unset /\ Send("canceled", {}) /\ UNCHANGED <<watcher, local>>
    BY <1>11 DEF ServerCancels, Gone, Watching
  <2>2. conn \in {"creating", "connected"}
    BY <1>t, <2>1 DEF Phases, TypeOK
  <2> QED BY <1>s, <2>1, <2>2
<1>12. ASSUME UNCHANGED <<watcher, next, toClient>>, local' \in Nat, local <= local'
       PROVE  Once'
  <2>1. /\ start' = start /\ conn' = conn /\ toClient' = toClient
        /\ local' \in Nat /\ local <= local' /\ local \in Nat /\ start \in Nat
    BY <1>n, <1>12 DEF watcher
  <2>2. conn' \in {"creating", "connected"} => start' <= local' + 1
    BY <1>o, <2>1, StaysBehind DEF StartBehind
  <2>3. \A i \in 1..Len(toClient') : start' <= toClient'[i].revision + 1
    BY <1>o, <2>1 DEF StartBehind
  <2>4. StartBehind'
    BY <2>2, <2>3 DEF StartBehind
  <2>5. Emitted' /\ SentOnce'
    BY <1>o, <1>12 DEF Emitted, SentOnce, watcher
  <2> QED BY <2>4, <2>5 DEF Once
<1>13. CASE CatchesUp
  BY <1>n, <1>12, <1>13 DEF CatchesUp
<1>14. CASE Change
  <2>1. local' \in Nat /\ local <= local'
    BY <1>n, <1>14 DEF Change
  <2> QED BY <1>12, <1>14, <2>1 DEF Change
<1>15. CASE Compact
  BY <1>n, <1>12, <1>15 DEF Compact, server
<1>16. CASE Break
  <2>1. Len(toClient') = 0 /\ conn' = "down" /\ next' = Unset /\ UNCHANGED <<start, delivered>>
    BY <1>16 DEF Break, KeepStart
  <2> QED BY <1>o, <2>1 DEF Once, StartBehind, Emitted, SentOnce
<1> QED
  BY <1>1, <1>2, <1>3, <1>4, <1>5, <1>8, <1>9, <1>10, <1>11, <1>13, <1>14, <1>15, <1>16
  DEF Next, ClientActs, ServerActs

\* No event is emitted twice, however often the stream breaks and whatever is
\* in flight then, as long as no connection goes to a member that is behind
\* the header seen last (watch.ts:591-596).
THEOREM NoEventTwice == Spec => []EmittedOnce
<1> DEFINE Inv == Typing /\ Connection /\ (~lagged => Once)
<1>1. Init => Inv
  BY TypingInit, ConnectionInit, OnceInit
<1>2. Inv /\ [Next]_vars => Inv'
  BY TypingStep, ConnectionStep, OnceStep
<1>3. Inv => EmittedOnce
  BY DEF EmittedOnce, Once, Emitted
<1> QED BY <1>1, <1>2, <1>3, PTL DEF Spec

(***************************************************************************)
(* No event missed                                                         *)
(***************************************************************************)
\* The first revision the watcher is created for, known at the latest when it
\* is, and the events from there on that were not emitted yet.
First ==
    IF promised # Unset THEN promised
    ELSE IF start # Unset THEN start
    ELSE IF toClient # <<>> THEN toClient[1].revision + 1
    ELSE MaxRev + 1

Due == {r \in events : First <= r /\ delivered[r] = 0}

\* Without a watch start_revision is behind what is due; with one it may be
\* ahead of it, but only by a backlog, which Replaying sees.
Asked ==
    /\ promised # Unset => start # Unset
    /\ conn \in {"down", "creating"} => \A r \in Due : start <= r
    /\ conn = "connected" => \A r \in Due : start <= r \/ r <= stamped

\* What is due is in flight or will be sent.
Coming == next # Unset => \A r \in Due : InFlight(r) \/ next <= r

\* A header is ahead of what is due only if that is before it in the channel,
\* or in a backlog.
InOrder ==
    \A i \in 1..Len(toClient) :
        /\ toClient[i].kind # "data" => toClient[i].events = {}
        /\ toClient[i].kind = "data" =>
             \A r \in Due : r <= toClient[i].revision =>
                 r <= stamped \/ \E j \in 1..i : r \in toClient[j].events

Kept == Asked /\ Coming /\ InOrder

LEMMA KeptInit == Init => Kept
<1> SUFFICES ASSUME Init PROVE Kept
  OBVIOUS
<1>1. Due = {} /\ Len(toClient) = 0 /\ next = Unset /\ promised = Unset
  BY DEF Init, Due
<1> QED BY <1>1 DEF Kept, Asked, Coming, InOrder

\* What is due changes only with the events, with what is emitted and when the
\* first header tells where the watch begins.
LEMMA DueSame ==
  ASSUME UNCHANGED <<events, delivered, promised>>,
         \/ promised # Unset /\ promised' # Unset
         \/ start' = start /\ start # Unset
         \/ start' = start /\ toClient # <<>> /\ toClient' # <<>> /\ toClient'[1] = toClient[1]
  PROVE  Due' = Due
<1>1. First' = First
  BY DEF First
<1> QED BY <1>1 DEF Due

LEMMA KeptStep ==
  ASSUME Typing, Connection, Kept, [Next]_vars, ~BreakInReplay
  PROVE  Kept'
<1>t. TypeOK /\ Bounded /\ Phases /\ Headers
  BY DEF Typing, Connection
<1>k. Asked /\ Coming /\ InOrder
  BY DEF Kept
<1>n. /\ local \in Nat /\ rev \in Nat /\ start \in Nat /\ next \in Nat /\ stamped \in Nat
      /\ promised \in Nat /\ MaxRev \in Nat /\ rev <= MaxRev
      /\ Revision \subseteq Nat /\ events \subseteq Nat /\ events \subseteq Revision
      /\ Due \subseteq events /\ Due \subseteq Nat
      /\ \A i \in 1..Len(toClient) : toClient[i].revision \in Nat /\ toClient[i].events \subseteq Revision
      /\ Len(toClient) \in Nat /\ (toClient = <<>> <=> Len(toClient) = 0)
  BY <1>t, Naturals, QueueFacts DEF Due
<1>1. CASE UNCHANGED vars
  <2>1. Due' = Due
    BY <1>1 DEF Due, First, vars, watcher, store, server, history
  <2> QED
    BY <1>k, <1>1, <2>1 DEF Kept, Asked, Coming, InOrder, InFlight, vars, watcher, server, history
<1>2. CASE Create
  <2>1. /\ UNCHANGED <<start, delivered, events, next, toClient, stamped, promised>>
        /\ conn = "down" /\ conn' = "creating"
    BY <1>2 DEF Create, store
  <2>2. Due' = Due
    BY <2>1 DEF Due, First
  <2> QED BY <1>k, <2>1, <2>2 DEF Kept, Asked, Coming, InOrder, InFlight
\* A response is taken, with the events that are no longer due.
<1>r. ASSUME NEW kind \in {"created", "data"}, Receives(kind), Due' \subseteq Due,
             \A r \in Due' : r \notin toClient[1].events
      PROVE  Coming' /\ InOrder'
  <2>1. /\ Len(toClient') = Len(toClient) - 1 /\ Len(toClient) >= 1
        /\ \A i \in 1..Len(toClient') : toClient'[i] = toClient[i + 1] /\ i + 1 \in 1..Len(toClient)
        /\ UNCHANGED <<next, stamped>>
    <3>1. /\ Len(toClient') = Len(toClient) - 1 /\ Len(toClient) >= 1
          /\ \A i \in 1..Len(toClient') : toClient'[i] = toClient[i + 1] /\ i + 1 \in 2..Len(toClient)
      BY <1>t, <1>r, ReceivedFacts
    <3>2. UNCHANGED <<next, stamped>>
      BY <1>r DEF Receives
    <3> QED BY <1>n, <3>1, <3>2
  <2>2. ASSUME NEW r \in Due', NEW j \in 1..Len(toClient), r \in toClient[j].events
        PROVE  j - 1 \in 1..Len(toClient') /\ r \in toClient'[j - 1].events
    <3>1. j # 1
      BY <1>r, <2>2
    <3>2. j - 1 \in 1..Len(toClient') /\ toClient'[j - 1] = toClient[j]
      BY <1>n, <2>1, <3>1
    <3> QED BY <2>2, <3>2
  <2>3. Coming'
    BY <1>k, <1>r, <2>1, <2>2 DEF Coming, InFlight
  <2>4. ASSUME NEW i \in 1..Len(toClient'), toClient'[i].kind = "data",
               NEW r \in Due', r <= toClient'[i].revision
        PROVE  r <= stamped' \/ \E j \in 1..i : r \in toClient'[j].events
    <3>1. toClient'[i] = toClient[i + 1] /\ i + 1 \in 1..Len(toClient) /\ i \in Nat /\ r \in Due
      BY <1>r, <1>n, <2>1
    <3>2. r <= stamped \/ \E j \in 1..i + 1 : r \in toClient[j].events
      BY <1>k, <2>4, <3>1 DEF InOrder
    <3>3. ASSUME NEW j \in 1..i + 1, r \in toClient[j].events
          PROVE  \E k \in 1..i : r \in toClient'[k].events
      <4>1. j \in 1..Len(toClient)
        BY <1>n, <3>1
      <4>2. j - 1 \in 1..Len(toClient') /\ r \in toClient'[j - 1].events
        BY <2>2, <3>3, <4>1
      <4>3. j - 1 \in 1..i
        BY <1>n, <2>1, <3>1, <4>2
      <4> QED BY <4>2, <4>3
    <3> QED BY <2>1, <3>2, <3>3
  <2>5. InOrder'
    BY <1>k, <2>1, <2>4 DEF InOrder
  <2> QED BY <2>3, <2>5
<1>3. CASE OnCreated
  <2>1. /\ Receives("created") /\ conn' = "connected" /\ start' = Head(toClient).revision + 1
        /\ UNCHANGED <<delivered, events, stamped>>
        /\ promised' = IF promised # Unset THEN promised
                       ELSE IF start # Unset THEN start
                       ELSE Head(toClient).revision + 1
    BY <1>3 DEF OnCreated, UpdateRevision, Receives, store
  <2>2. /\ Head(toClient) = toClient[1] /\ toClient[1].kind = "created" /\ toClient # <<>>
        /\ 1 \in 1..Len(toClient) /\ toClient[1].revision \in Nat
    <3>1. /\ Len(toClient) >= 1 /\ Head(toClient) = toClient[1] /\ toClient[1].kind = "created"
      BY <1>t, <2>1, ReceivedFacts
    <3> QED BY <1>n, <3>1
  <2>3. start' \in Nat /\ start' # Unset /\ promised' # Unset
    BY <1>n, <2>1, <2>2 DEF Unset
  <2>4. First' = promised' /\ First = promised'
    BY <2>1, <2>2, <2>3 DEF First
  <2>5. Due' = Due
    BY <2>1, <2>4 DEF Due
  <2>6. toClient[1].events = {} /\ toClient[1].revision <= stamped
    BY <1>t, <1>k, <2>2 DEF InOrder, Phases
  <2>7. \A r \in Due : start' <= r \/ r <= stamped
    BY <1>n, <2>1, <2>2, <2>6
  <2>8. Asked'
    BY <2>1, <2>3, <2>5, <2>7 DEF Asked
  <2>9. Coming' /\ InOrder'
    BY <1>r, <2>1, <2>5, <2>6
  <2> QED BY <2>8, <2>9 DEF Kept
<1>4. CASE OnData
  <2>1. /\ Receives("data") /\ start' = Head(toClient).revision + 1
        /\ UNCHANGED <<conn, promised, events, stamped>>
        /\ delivered' = [r \in Revision |->
                           IF r \in Head(toClient).events THEN delivered[r] + 1 ELSE delivered[r]]
    BY <1>4 DEF OnData, UpdateRevision, Receives, store
  <2>2. /\ Head(toClient) = toClient[1] /\ toClient[1].kind = "data" /\ toClient # <<>>
        /\ 1 \in 1..Len(toClient) /\ toClient[1].revision \in Nat
    <3>1. /\ Len(toClient) >= 1 /\ Head(toClient) = toClient[1] /\ toClient[1].kind = "data"
      BY <1>t, <2>1, ReceivedFacts
    <3> QED BY <1>n, <3>1
  <2>3. conn = "connected" /\ promised # Unset /\ promised' # Unset
    BY <1>t, <2>1, <2>2 DEF Phases, TypeOK
  <2>4. First' = First
    BY <2>1, <2>3 DEF First
  <2>5. ASSUME NEW r \in Due' PROVE r \in Due /\ r \notin toClient[1].events
    <3>1. r \in events /\ First <= r /\ delivered'[r] = 0 /\ r \in Revision
      BY <1>n, <2>1, <2>4 DEF Due
    <3>2. delivered[r] \in Nat
      BY <1>t, <3>1 DEF TypeOK
    <3>3. r \notin toClient[1].events /\ delivered[r] = 0
      BY <2>1, <2>2, <3>1, <3>2
    <3> QED BY <3>1, <3>3 DEF Due
  <2>6. start' \in Nat /\ start' # Unset
    BY <2>1, <2>2 DEF Unset
  <2>7. ASSUME NEW r \in Due' PROVE start' <= r \/ r <= stamped
    <3>1. r \in Due /\ r \in Nat /\ r \notin toClient[1].events
      BY <1>n, <2>5
    <3>2. r <= toClient[1].revision => r <= stamped
      BY <1>k, <2>2, <3>1 DEF InOrder
    <3> QED BY <2>1, <2>2, <3>1, <3>2
  <2>8. Asked'
    BY <2>1, <2>3, <2>6, <2>7 DEF Asked
  <2>9. Coming' /\ InOrder'
    BY <1>r, <2>1, <2>5
  <2> QED BY <2>8, <2>9 DEF Kept
<1>5. CASE OnCanceled
  <2>1. Receives("canceled") /\ conn' = "error" /\ UNCHANGED <<start, promised, next>>
    BY <1>5 DEF OnCanceled, Receives
  <2>2. Len(toClient') = Len(toClient) - 1 /\ Len(toClient) >= 1 /\ toClient[1].kind = "canceled"
    BY <1>t, <2>1, ReceivedFacts
  <2>3. Len(toClient) = 1 /\ next = Unset
    BY <1>t, <1>n, <2>2 DEF Phases
  <2>4. Len(toClient') = 0
    BY <2>2, <2>3
  <2> QED BY <1>k, <2>1, <2>3, <2>4 DEF Kept, Asked, Coming, InOrder
<1>8. CASE ServerCreates
  <2>1. /\ conn = "creating" /\ toClient = <<>> /\ Send("created", {}) /\ stamped' = local
        /\ next' = IF start = Unset THEN local + 1 ELSE start
        /\ UNCHANGED <<conn, start, delivered, events, promised>>
    BY <1>8 DEF ServerCreates, watcher, store, history
  <2>2. /\ Len(toClient') = 1 /\ toClient' # <<>>
        /\ toClient'[1] = [kind |-> "created", revision |-> local, events |-> {}]
    <3>1. /\ Len(toClient') = Len(toClient) + 1 /\ toClient' # <<>>
          /\ toClient'[Len(toClient) + 1] = [kind |-> "created", revision |-> local, events |-> {}]
      BY <1>t, <2>1, SentFacts
    <3>2. Len(toClient) = 0
      BY <1>n, <2>1
    <3> QED BY <3>1, <3>2
  <2>3. CASE start # Unset
    <3>1. Due' = Due
      BY <2>1, <2>3, DueSame
    <3>2. Asked'
      BY <1>k, <2>1, <3>1 DEF Asked
    <3>3. Coming'
      BY <1>k, <2>1, <2>3, <3>1 DEF Asked, Coming
    <3>4. InOrder'
      BY <2>2 DEF InOrder
    <3> QED BY <3>2, <3>3, <3>4 DEF Kept
  <2>4. CASE start = Unset
    <3>1. promised = Unset
      BY <1>k, <2>4 DEF Asked
    <3>2. First' = local + 1
      BY <2>1, <2>2, <2>4, <3>1 DEF First
    <3>3. \A r \in Due' : r \in Nat /\ next' <= r
      BY <1>n, <2>1, <2>4, <3>2 DEF Due
    <3>4. Asked'
      BY <2>1, <2>4, <3>1, <3>3 DEF Asked, Unset
    <3>5. Coming'
      BY <3>3 DEF Coming
    <3>6. InOrder'
      BY <2>2 DEF InOrder
    <3> QED BY <3>4, <3>5, <3>6 DEF Kept
  <2> QED BY <2>3, <2>4
\* What is due stays so while a watch sends.
<1>d. ASSUME next # Unset, UNCHANGED <<watcher, events, promised>>,
             toClient # <<>> => toClient' # <<>> /\ toClient'[1] = toClient[1]
      PROVE  Due' = Due
  <2>1. UNCHANGED <<start, delivered>>
    BY <1>d DEF watcher
  <2>2. CASE toClient = <<>>
    <3>1. promised # Unset
      BY <1>t, <1>d, <2>2 DEF Phases, TypeOK
    <3> QED BY <1>d, <2>1, <3>1, DueSame
  <2>3. CASE toClient # <<>>
    BY <1>d, <2>1, <2>3, DueSame
  <2> QED BY <2>2, <2>3
<1>s. ASSUME NEW kind \in {"created", "data", "canceled"}, NEW es \in SUBSET Revision, Send(kind, es),
             next # Unset, UNCHANGED <<watcher, events, promised>>,
             stamped' \in Nat, stamped <= stamped', kind = "data" \/ es = {},
             next' # Unset => \A r \in Due : next <= r => r \in es \/ next' <= r,
             kind = "data" => \A r \in Due : r <= local => r <= stamped' \/ InFlight(r) \/ r \in es
      PROVE  Kept'
  <2>1. /\ Len(toClient') = Len(toClient) + 1 /\ toClient' # <<>>
        /\ \A i \in 1..Len(toClient) : toClient'[i] = toClient[i]
        /\ toClient'[Len(toClient) + 1] = [kind |-> kind, revision |-> local, events |-> es]
    BY <1>t, <1>s, SentFacts
  <2>2. Due' = Due
    <3>1. toClient # <<>> => toClient'[1] = toClient[1]
      BY <1>n, <2>1
    <3> QED BY <1>d, <1>s, <2>1, <3>1
  <2>3. \A i \in 1..Len(toClient) : i \in 1..Len(toClient')
    BY <1>n, <2>1
  <2>4. Asked'
    <3>1. UNCHANGED <<conn, start, promised>>
      BY <1>s DEF watcher
    <3>2. conn = "connected" => \A r \in Due : start <= r \/ r <= stamped'
      BY <1>k, <1>n, <1>s DEF Asked
    <3> QED BY <1>k, <2>2, <3>1, <3>2 DEF Asked
  <2>5. Coming'
    <3> SUFFICES ASSUME next' # Unset, NEW r \in Due PROVE InFlight(r)' \/ next' <= r
      BY <2>2 DEF Coming
    <3>1. InFlight(r) => InFlight(r)'
      BY <2>1, <2>3 DEF InFlight
    <3>2. r \in es => InFlight(r)'
      <4>1. Len(toClient) + 1 \in 1..Len(toClient')
        BY <1>n, <2>1
      <4> QED BY <2>1, <4>1 DEF InFlight
    <3> QED BY <1>k, <1>s, <3>1, <3>2 DEF Coming
  <2>6. ASSUME NEW i \in 1..Len(toClient')
        PROVE  /\ toClient'[i].kind # "data" => toClient'[i].events = {}
               /\ toClient'[i].kind = "data" =>
                    \A r \in Due : r <= toClient'[i].revision =>
                        r <= stamped' \/ \E j \in 1..i : r \in toClient'[j].events
    <3>1. CASE i \in 1..Len(toClient)
      <4>1. toClient'[i] = toClient[i] /\ \A j \in 1..i : toClient'[j] = toClient[j]
        BY <1>n, <2>1, <3>1
      <4>2. ASSUME NEW r \in Due, toClient[i].kind = "data", r <= toClient[i].revision
            PROVE  r <= stamped' \/ \E j \in 1..i : r \in toClient'[j].events
        <5>1. r <= stamped \/ \E j \in 1..i : r \in toClient[j].events
          BY <1>k, <3>1, <4>2 DEF InOrder
        <5> QED BY <1>n, <1>s, <4>1, <5>1
      <4> QED BY <1>k, <3>1, <4>1, <4>2 DEF InOrder
    <3>2. CASE i = Len(toClient) + 1
      <4>1. toClient'[i].kind = kind /\ toClient'[i].events = es /\ toClient'[i].revision = local
        BY <2>1, <3>2
      <4>2. ASSUME NEW r \in Due, InFlight(r) PROVE \E j \in 1..i : r \in toClient'[j].events
        <5>1. PICK j \in 1..Len(toClient) : r \in toClient[j].events
          BY <4>2 DEF InFlight
        <5>2. j \in 1..i /\ toClient'[j] = toClient[j]
          BY <1>n, <2>1, <3>2
        <5> QED BY <5>1, <5>2
      <4>3. i \in 1..i
        BY <1>n, <3>2
      <4> QED BY <1>s, <4>1, <4>2, <4>3
    <3> QED BY <1>n, <2>1, <3>1, <3>2
  <2>7. InOrder'
    BY <2>2, <2>6 DEF InOrder
  <2> QED BY <2>4, <2>5, <2>7 DEF Kept
<1>9. CASE ServerSends
  <2>1. PICK n \in next..local :
           LET es == events \cap next..n
           IN  /\ next' = n + 1
               /\ IF es = {} THEN UNCHANGED <<toClient, stamped>>
                  ELSE /\ Send("data", es)
                       /\ stamped' = IF n < local THEN local ELSE stamped
    BY <1>9 DEF ServerSends
  <2>2. /\ next # Unset /\ UNCHANGED <<watcher, events, promised>>
        /\ n \in Nat /\ next <= n /\ n <= local /\ next' = n + 1
    BY <1>n, <1>9, <2>1 DEF ServerSends, Watching, store, history
  <2>3. \A r \in Due : next <= r => r \in events \cap next..n \/ next' <= r
    BY <1>n, <2>2
  <2>4. CASE events \cap next..n = {}
    <3>1. UNCHANGED <<toClient, stamped, conn, start>> /\ Due' = Due
      BY <1>d, <2>1, <2>2, <2>4 DEF watcher
    <3>2. Asked' /\ InOrder'
      BY <1>k, <2>2, <3>1 DEF Asked, InOrder
    <3>3. Coming'
      BY <1>k, <2>2, <2>3, <2>4, <3>1 DEF Coming, InFlight
    <3> QED BY <3>2, <3>3 DEF Kept
  <2>5. CASE events \cap next..n # {}
    <3>1. events \cap next..n \in SUBSET Revision
      BY <1>n
    <3>2. stamped <= local
      BY <1>t, <2>2 DEF Phases
    <3>3. stamped' \in Nat /\ stamped <= stamped' /\ (n < local => stamped' = local)
      BY <1>n, <2>1, <2>5, <3>2
    <3>4. ASSUME NEW r \in Due, r <= local
          PROVE  r <= stamped' \/ InFlight(r) \/ r \in events \cap next..n
      <4>1. CASE n < local
        BY <3>3, <3>4, <4>1
      <4>2. CASE ~(n < local)
        <5>1. n = local
          BY <1>n, <2>2, <4>2
        <5> QED BY <1>k, <1>n, <2>2, <3>4, <5>1 DEF Coming
      <4> QED BY <4>1, <4>2
    <3> QED BY <1>s, <2>1, <2>2, <2>3, <2>5, <3>1, <3>3, <3>4
  <2> QED BY <2>4, <2>5
<1>10. CASE ServerNotifies
  <2>1. /\ next > local /\ next # Unset /\ next' = next /\ toClient = <<>> /\ Send("data", {})
        /\ UNCHANGED <<watcher, events, promised, stamped>>
    BY <1>n, <1>10 DEF ServerNotifies, Unset, store, history
  <2>2. ASSUME NEW r \in Due, r <= local PROVE FALSE
    <3>1. ~InFlight(r)
      BY <1>n, <2>1 DEF InFlight
    <3>2. next <= r
      BY <1>k, <2>1, <3>1 DEF Coming
    <3> QED BY <1>n, <2>1, <2>2, <3>2
  <2> QED BY <1>s, <1>n, <2>1, <2>2
<1>11. CASE ServerCancels
  <2>1. /\ next # Unset /\ next' = Unset /\ Send("canceled", {})
        /\ UNCHANGED <<watcher, events, promised, stamped>>
    BY <1>11 DEF ServerCancels, Gone, Watching, store, history
  <2> QED BY <1>s, <1>n, <2>1
<1>12. ASSUME UNCHANGED <<watcher, events, next, toClient, stamped, promised>> PROVE Kept'
  <2>1. Due' = Due
    BY <1>12 DEF Due, First, watcher
  <2> QED BY <1>k, <1>12, <2>1 DEF Kept, Asked, Coming, InOrder, InFlight, watcher
<1>13. CASE CatchesUp
  BY <1>12, <1>13 DEF CatchesUp, store, history
<1>14. CASE Change
  <2>1. /\ UNCHANGED <<conn, start, delivered, next, toClient, stamped, promised>>
        /\ events' \in {events, events \cup {rev + 1}}
    BY <1>14 DEF Change, watcher, history
  <2>2. \A r \in Due' : r \in Due \/ r = rev + 1
    BY <2>1 DEF Due, First
  <2>3. start <= rev + 1 /\ next <= rev + 1
    BY <1>t DEF Bounded
  <2>4. ASSUME NEW i \in 1..Len(toClient) PROVE ~(rev + 1 <= toClient[i].revision)
    BY <1>t, <1>n DEF Bounded
  <2>5. Asked'
    BY <1>k, <2>1, <2>2, <2>3 DEF Asked
  <2>6. Coming'
    BY <1>k, <2>1, <2>2, <2>3 DEF Coming, InFlight
  <2>7. InOrder'
    BY <1>k, <2>1, <2>2, <2>4 DEF InOrder
  <2> QED BY <2>5, <2>6, <2>7 DEF Kept
<1>15. CASE Compact
  BY <1>12, <1>15 DEF Compact, server, history
<1>16. CASE Break
  <2>1. /\ Len(toClient') = 0 /\ toClient' = <<>> /\ conn' = "down" /\ next' = Unset
        /\ UNCHANGED <<start, delivered, events, promised>>
        /\ conn \in {"creating", "connected"} /\ ~Replaying
    BY <1>16 DEF Break, KeepStart, store
  <2>2. ASSUME NEW r \in Due' PROVE start <= r
    <3>1. CASE start = Unset
      <4>1. r \in Nat
        BY <1>n, <2>1 DEF Due
      <4> QED BY <3>1, <4>1 DEF Unset
    <3>2. CASE start # Unset
      <4>1. Due' = Due
        BY <2>1, <3>2, DueSame
      <4>2. CASE conn = "creating"
        BY <1>k, <4>1, <4>2 DEF Asked
      <4>3. CASE conn = "connected"
        <5>1. promised # Unset
          BY <1>t, <4>3 DEF Phases
        <5>2. r \in events /\ promised <= r /\ delivered[r] = 0
          BY <4>1, <5>1 DEF Due, First
        <5>3. ~(r <= stamped)
          BY <2>1, <4>3, <5>2 DEF Replaying
        <5> QED BY <1>k, <4>1, <4>3, <5>3 DEF Asked
      <4> QED BY <2>1, <4>2, <4>3
    <3> QED BY <3>1, <3>2
  <2>3. Asked'
    BY <1>k, <2>1, <2>2 DEF Asked
  <2> QED BY <2>1, <2>3 DEF Kept, Coming, InOrder
<1> QED
  BY <1>1, <1>2, <1>3, <1>4, <1>5, <1>8, <1>9, <1>10, <1>11, <1>13, <1>14, <1>15, <1>16
  DEF Next, ClientActs, ServerActs

LEMMA KeptIsEnough ==
  ASSUME TypeOK, Phases, Kept
  PROVE  NothingLost
<1>0. Asked /\ Coming
  BY DEF Kept
<1> SUFFICES ASSUME conn # "error", ~Canceled, NEW r \in Promised, ~(delivered[r] > 0)
    PROVE  InFlight(r) \/ StillDue(r)
  BY DEF NothingLost, Canceled
<1>1. r \in events /\ promised # Unset /\ promised <= r /\ r \in Revision
  BY Naturals DEF Promised
<1>2. delivered[r] = 0
  <2>1. delivered[r] \in Nat
    BY <1>1, Naturals
  <2> QED BY <2>1
<1>3. r \in Due
  BY <1>1, <1>2 DEF Due, First
<1>4. CASE next # Unset
  BY <1>0, <1>3, <1>4 DEF Coming, StillDue
<1>5. CASE next = Unset
  <2>1. conn \in {"down", "creating"}
    BY <1>5 DEF Phases, TypeOK
  <2>2. start <= r
    BY <1>0, <1>3, <2>1 DEF Asked
  <2> QED BY <1>5, <2>2 DEF StillDue
<1> QED BY <1>4, <1>5

\* Every event from the first connection on is emitted, on its way or still to
\* be sent, over any number of reconnections and to members that lag, unless a
\* stream breaks between a header and the events it is ahead of (watch.ts:516).
THEOREM NoEventMissed == ~BreakInReplay => (Spec => []NothingLost)
<1> SUFFICES ASSUME ~BreakInReplay PROVE Spec => []NothingLost
  OBVIOUS
<1> DEFINE Inv == Typing /\ Connection /\ Kept
<1>1. Init => Inv
  BY TypingInit, ConnectionInit, KeptInit
<1>2. Inv /\ [Next]_vars => Inv'
  BY TypingStep, ConnectionStep, KeptStep
<1>3. Inv => NothingLost
  BY KeptIsEnough DEF Typing, Connection
<1> QED BY <1>1, <1>2, <1>3, PTL DEF Spec
=============================================================================
