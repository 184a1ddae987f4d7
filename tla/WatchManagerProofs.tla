------------------------- MODULE WatchManagerProofs -------------------------
(***************************************************************************)
(* Theorems about WatchManager, for every set of watchers and streams and  *)
(* every bound.  Its types; that a manager with watchers is connected,     *)
(* connecting or about to reconnect, over a single stream; that what       *)
(* arrives and what is sent is taken for the right watcher, and creates    *)
(* are sent one at a time; and that it implements WatcherLifecycle.        *)
(***************************************************************************)
EXTENDS WatchManager, SequenceTheorems, WellFoundedInduction, TLAPS

-----------------------------------------------------------------------------
(***************************************************************************)
(* Types of the helpers.                                                   *)
(***************************************************************************)

\* A nonempty array of watchers has one of least rank.
LEMMA SomeFirst ==
    ASSUME TypeOK, NEW S \in SUBSET Watcher, S # {}
    PROVE  \E w \in S : \A v \in S : rank[w] <= rank[v]
<1> DEFINE R == {rank[w] : w \in S}
<1>1. R \subseteq Nat /\ R # {}
  BY DEF TypeOK
<1> DEFINE LT == {ss \in Nat \X Nat : ss[1] < ss[2]}
<1>2. PICK n \in R : \A m \in R : <<m, n>> \notin LT
  <2>1. IsWellFoundedOn(LT, Nat)
    BY NatLessThanWellFounded, Zenon DEF OpToRel
  <2> HIDE DEF R, LT
  <2> QED
    BY <1>1, <2>1, WFMin, Zenon
<1>3. \A m \in R : n <= m
  <2> SUFFICES ASSUME NEW m \in R PROVE n <= m
    OBVIOUS
  <2>1. m \in Nat /\ n \in Nat
    BY <1>1, <1>2
  <2>2. <<m, n>> \notin LT
    BY <1>2
  <2> HIDE DEF R
  <2> QED
    BY <2>1, <2>2
<1> QED
  BY <1>3

\* find() and shift() on a nonempty array return one of its elements.
LEMMA FirstIn ==
    ASSUME TypeOK, NEW S \in SUBSET Watcher, S # {}
    PROVE  First(S) \in S
BY SomeFirst DEF First

LEMMA HoldingType ==
    ASSUME TypeOK, NEW i
    PROVE  Holding(i) \in SUBSET Watcher
BY DEF TypeOK, Holding

LEMMA LinksType ==
    ASSUME TypeOK, NEW ph \in [Stream -> Phase],
           NEW down \in [Stream -> Seq(Answer)], Links(ph, down)
    PROVE  /\ phase' \in [Stream -> Phase]
           /\ toServer' \in [Stream -> Seq(Request)]
           /\ toClient' \in [Stream -> Seq(Answer)]
           /\ served' \in [Stream -> Seq(Watcher \cup {None})]
BY EmptySeq DEF TypeOK, Links

LEMMA WriteType ==
    ASSUME TypeOK, NEW ph, NEW s, NEW m \in Request
    PROVE  Write(ph, s, m) \in [Stream -> Seq(Request)]
<1>1. toServer \in [Stream -> Seq(Request)]
  BY DEF TypeOK
<1>2. ASSUME s \in Stream PROVE Append(toServer[s], m) \in Seq(Request)
  BY <1>1, <1>2
<1> QED
  BY <1>1, <1>2 DEF Write

LEMMA ReadQueueType ==
    ASSUME TypeOK, NEW q \in SUBSET Watcher, NEW ph, NEW s, ReadQueue(q, ph, s)
    PROVE  /\ queue' \subseteq Watcher
           /\ queueState' \in {"Idle", "Attaching"}
           /\ toServer' \in [Stream -> Seq(Request)]
<1>1. CASE q = {}
  BY <1>1 DEF ReadQueue, TypeOK
<1>2. CASE q # {}
  <2>1. CreateRequest(First(q)) \in Request
    BY <1>2, FirstIn DEF CreateRequest, Request, NoId
  <2> QED
    BY <1>2, <2>1, WriteType DEF ReadQueue
<1> QED
  BY <1>1, <1>2

LEMMA CancelledType ==
    ASSUME NEW ph \in [Stream -> Phase], NEW s
    PROVE  Cancelled(ph, s) \in [Stream -> Phase]
BY DEF Cancelled, Phase

LEMMA EmitEndType ==
    ASSUME TypeOK, NEW S, EmitEnd(S)
    PROVE  /\ fired' \in [Watcher -> SUBSET {"end", "error"}]
           /\ cancelling' \in [Watcher -> CancelState]
BY DEF TypeOK, EmitEnd, CancelState

LEMMA WakeType ==
    ASSUME TypeOK, NEW S, Wake(S)
    PROVE  cancelling' \in [Watcher -> CancelState]
BY DEF TypeOK, Wake, CancelState

LEMMA HandleErrorType ==
    ASSUME TypeOK, NEW ph \in [Stream -> Phase], HandleError(ph),
           faults' \in 0..MaxFaults
    PROVE  TypeOK'
<1>1. Cancelled(ph, stream) \in [Stream -> Phase]
  BY CancelledType
<1>2. /\ queue' \subseteq Watcher
      /\ queueState' \in {"Idle", "Attaching"}
      /\ phase' \in [Stream -> Phase]
      /\ toServer' \in [Stream -> Seq(Request)]
      /\ toClient' \in [Stream -> Seq(Answer)]
      /\ served' \in [Stream -> Seq(Watcher \cup {None})]
  <2>1. toClient \in [Stream -> Seq(Answer)]
    BY DEF TypeOK
  <2>2. CASE state = "Connected"
    BY <1>1, <2>1, <2>2, LinksType DEF HandleError, DestroyQueue
  <2>3. CASE state # "Connected"
    BY <2>1, <2>3, LinksType DEF HandleError, attachQueue, TypeOK
  <2> QED
    BY <2>2, <2>3
<1>3. cancelling' \in [Watcher -> CancelState]
  BY WakeType DEF HandleError
<1>4. id' \in [Watcher -> Nat]
  BY DEF HandleError, ResetIds, NoId, TypeOK
<1> QED
  BY <1>2, <1>3, <1>4 DEF HandleError, ScheduleReconnect, TypeOK

LEMMA EstablishStreamType ==
    ASSUME TypeOK, NEW ws \in SUBSET Watcher, EstablishStream(ws)
    PROVE  /\ state' \in {"Idle", "Connecting", "Connected"}
           /\ watchers' \subseteq Watcher
           /\ expectedClosers' \subseteq Watcher
           /\ fired' \in [Watcher -> SUBSET {"end", "error"}]
           /\ cancelling' \in [Watcher -> CancelState]
           /\ phase' \in [Stream -> Phase]
BY EmitEndType DEF EstablishStream, TypeOK, Phase

LEMMA AppendType ==
    ASSUME NEW T, NEW f \in [Stream -> Seq(T)], NEW s \in Stream, NEW x \in T
    PROVE  [f EXCEPT ![s] = Append(@, x)] \in [Stream -> Seq(T)]
<1>1. Append(f[s], x) \in Seq(T)
  OBVIOUS
<1> QED
  BY <1>1

LEMMA TailType ==
    ASSUME NEW T, NEW f \in [Stream -> Seq(T)], NEW s \in Stream, f[s] # <<>>
    PROVE  [f EXCEPT ![s] = Tail(@)] \in [Stream -> Seq(T)]
<1>1. Tail(f[s]) \in Seq(T)
  BY HeadTailProperties
<1> QED
  BY <1>1

LEMMA HeadType ==
    ASSUME NEW T, NEW f \in [Stream -> Seq(T)], NEW s \in Stream, f[s] # <<>>
    PROVE  Head(f[s]) \in T
BY HeadTailProperties

LEMMA DetachType ==
    ASSUME TypeOK, NEW w \in Watcher, Detach(w)
    PROVE  TypeOK'
<1>1. toServer' \in [Stream -> Seq(Request)]
  <2>1. CASE UNCHANGED toServer
    BY <2>1 DEF TypeOK
  <2>2. CASE toServer' = Write(phase, stream, CancelRequest(w))
    <3>1. CancelRequest(w) \in Request
      BY DEF CancelRequest, Request, TypeOK
    <3> QED
      BY <2>2, <3>1, WriteType
  <2> QED
    BY <2>1, <2>2 DEF Detach
<1>2. cancelling' \in [Watcher -> CancelState]
  BY DEF Detach, TypeOK, CancelState
<1>3. watchers' \subseteq Watcher /\ expectedClosers' \subseteq Watcher
  BY DEF Detach, TypeOK
<1> QED
  BY <1>1, <1>2, <1>3 DEF Detach, TypeOK, attachQueue

LEMMA ThrowType ==
    ASSUME TypeOK, NEW s \in Stream, toClient[s] # <<>>, Throw(s)
    PROVE  TypeOK'
<1>1. toClient' \in [Stream -> Seq(Answer)]
  BY TailType DEF Throw, Received, TypeOK
<1> QED
  BY <1>1 DEF Throw, TypeOK, attachQueue, objects

LEMMA HandleCancelResponseType ==
    ASSUME TypeOK, NEW w \in Watcher, NEW down \in [Stream -> Seq(Answer)],
           NEW destroy \in BOOLEAN, HandleCancelResponse(w, down, destroy)
    PROVE  TypeOK'
<1>1. /\ fired' \in [Watcher -> SUBSET {"end", "error"}]
      /\ cancelling' \in [Watcher -> CancelState]
  <2>1. CASE w \in expectedClosers
    <3>1. EmitEnd({w})
      BY <2>1 DEF HandleCancelResponse, Finish
    <3> QED
      BY <3>1, EmitEndType
  <2>2. CASE w \notin expectedClosers
    <3>1. EmitError(w)
      BY <2>2 DEF HandleCancelResponse, Finish
    <3>2. fired[w] \cup {"error"} \in SUBSET {"end", "error"}
      BY DEF TypeOK
    <3> QED
      BY <3>1, <3>2 DEF EmitError, TypeOK
  <2> QED
    BY <2>1, <2>2
<1>2. /\ queue' \subseteq Watcher
      /\ queueState' \in {"Idle", "Attaching"}
      /\ phase' \in [Stream -> Phase]
      /\ toServer' \in [Stream -> Seq(Request)]
      /\ toClient' \in [Stream -> Seq(Answer)]
      /\ served' \in [Stream -> Seq(Watcher \cup {None})]
  <2>1. CASE destroy /\ watchers' = {}
    <3>1. Cancelled(phase, stream) \in [Stream -> Phase]
      BY CancelledType DEF TypeOK
    <3>2. DestroyQueue /\ Links(Cancelled(phase, stream), down)
      BY <2>1 DEF HandleCancelResponse
    <3> QED
      BY <3>1, <3>2, LinksType DEF DestroyQueue
  <2>2. CASE ~(destroy /\ watchers' = {})
    <3>1. UNCHANGED attachQueue /\ Links(phase, down)
      BY <2>2 DEF HandleCancelResponse
    <3>2. phase \in [Stream -> Phase]
      BY DEF TypeOK
    <3> QED
      BY <3>1, <3>2, LinksType DEF attachQueue, TypeOK
  <2> QED
    BY <2>1, <2>2
<1> QED
  BY <1>1, <1>2 DEF HandleCancelResponse, TypeOK

-----------------------------------------------------------------------------
(***************************************************************************)
(* Type correctness.                                                       *)
(***************************************************************************)

LEMMA InitType == Init => TypeOK
<1> SUFFICES ASSUME Init PROVE TypeOK
  OBVIOUS
<1>1. MaxFaults \in Nat
  BY WatchAssumption
<1>2. \A T : <<>> \in Seq(T)
  OBVIOUS
<1>3. /\ fired \in [Watcher -> SUBSET {"end", "error"}]
      /\ cancelling \in [Watcher -> CancelState]
      /\ phase \in [Stream -> Phase]
      /\ rank \in [Watcher -> Nat]
      /\ id \in [Watcher -> Nat]
  BY DEF Init, NoId, CancelState, Phase
<1>4. /\ toServer \in [Stream -> Seq(Request)]
      /\ toClient \in [Stream -> Seq(Answer)]
      /\ served \in [Stream -> Seq(Watcher \cup {None})]
  BY <1>2 DEF Init
<1>5. faults \in 0..MaxFaults
  BY <1>1 DEF Init
<1> QED
  BY <1>3, <1>4, <1>5 DEF Init, TypeOK

LEMMA AttachType ==
    ASSUME TypeOK, NEW w \in Watcher, Attach(w)
    PROVE  TypeOK'
<1>1. /\ attaches' \in Nat
      /\ rank' \in [Watcher -> Nat]
  BY DEF Attach, TypeOK
<1>2. watchers \cup {w} \in SUBSET Watcher
  BY DEF TypeOK
<1>3. CASE state = "Idle" /\ EstablishStream(watchers \cup {w})
           /\ UNCHANGED <<attachQueue, toServer>>
  BY <1>1, <1>2, <1>3, EstablishStreamType DEF Attach, TypeOK, attachQueue
<1>4. CASE state = "Connecting"
  BY <1>1, <1>2, <1>4 DEF Attach, TypeOK, attachQueue
<1>5. CASE state = "Connected"
  <2>1. Enqueue(w) /\ watchers' = watchers \cup {w}
        /\ UNCHANGED <<state, expectedClosers, fired, cancelling, phase>>
    BY <1>5 DEF Attach
  <2>2. /\ queue' \subseteq Watcher
        /\ queueState' \in {"Idle", "Attaching"}
        /\ toServer' \in [Stream -> Seq(Request)]
    <3>1. queue \cup {w} \in SUBSET Watcher
      BY DEF TypeOK
    <3>2. CASE queueState = "Idle"
      BY <2>1, <3>1, <3>2, ReadQueueType DEF Enqueue
    <3>3. CASE queueState # "Idle"
      BY <2>1, <3>1, <3>3 DEF Enqueue, TypeOK
    <3> QED
      BY <3>2, <3>3
  <2> QED
    BY <1>1, <1>2, <2>1, <2>2 DEF Attach, TypeOK
<1> QED
  BY <1>3, <1>4, <1>5 DEF Attach, TypeOK

LEMMA EventsType ==
    ASSUME TypeOK, NEW s \in Stream, Events(s)
    PROVE  TypeOK'
<1>1. ASSUME NEW p \in Phase PROVE [phase EXCEPT ![s] = p] \in [Stream -> Phase]
  BY DEF TypeOK
<1>2. {"none", "open", "errorDue", "endDue"} \subseteq Phase
  BY DEF Phase
<1>3. faults \in 0..MaxFaults
  BY DEF TypeOK
<1>4. ASSUME NEW k, Inject(k) PROVE faults' \in 0..MaxFaults
  BY <1>3, <1>4, WatchAssumption DEF Inject
<1>5. ASSUME NEW kind, Arrives(s, kind)
      PROVE  /\ Head(toClient[s]) \in Answer
             /\ Received(s) \in [Stream -> Seq(Answer)]
             /\ toClient[s] # <<>>
  BY <1>5, HeadType, TailType DEF Arrives, Received, TypeOK
<1>6. CASE StreamOpens(s)
  <2>1. phase' \in [Stream -> Phase]
    BY <1>1, <1>2, <1>6 DEF StreamOpens
  <2>2. /\ queue' \subseteq Watcher
        /\ queueState' \in {"Idle", "Attaching"}
        /\ toServer' \in [Stream -> Seq(Request)]
    <3>1. CASE watchers = {}
      BY <1>6, <3>1 DEF StreamOpens, DestroyQueue, TypeOK
    <3>2. CASE watchers # {}
      <4>1. ReadQueue(watchers, phase', s) /\ watchers \in SUBSET Watcher
        BY <1>6, <3>2 DEF StreamOpens, TypeOK
      <4> QED
        BY <4>1, ReadQueueType
    <3> QED
      BY <3>1, <3>2
  <2> QED
    BY <1>6, <2>1, <2>2 DEF StreamOpens, TypeOK, objects
<1>7. CASE OpenFails(s)
  BY <1>1, <1>2, <1>4, <1>7, HandleErrorType DEF OpenFails
<1>8. CASE StreamFails(s)
  <2>1. toClient \in [Stream -> Seq(Answer)]
    BY DEF TypeOK
  <2>2. Links([phase EXCEPT ![s] = "errorDue"], toClient)
    BY <1>8 DEF StreamFails
  <2>3. /\ phase' \in [Stream -> Phase]
        /\ toServer' \in [Stream -> Seq(Request)]
        /\ toClient' \in [Stream -> Seq(Answer)]
        /\ served' \in [Stream -> Seq(Watcher \cup {None})]
    BY <1>1, <1>2, <2>1, <2>2, LinksType
  <2> QED
    BY <1>4, <1>8, <2>3 DEF StreamFails, TypeOK, manager, attachQueue, objects
<1>9. CASE StreamError(s)
  BY <1>1, <1>2, <1>3, <1>9, HandleErrorType DEF StreamError
<1>10. CASE StreamEnd(s)
  BY <1>1, <1>2, <1>3, <1>10, HandleErrorType DEF StreamEnd
<1>11. CASE GracefulEnd(s)
  BY <1>1, <1>2, <1>4, <1>11, HandleErrorType DEF GracefulEnd
<1>12. CASE OnCreated(s)
  <2> DEFINE w == First(queue)
  <2>1. CASE queue = {}
    BY <1>5, <1>12, <2>1, ThrowType DEF OnCreated
  <2>2. CASE queue # {}
    <3>1. w \in Watcher
      BY <2>2, FirstIn DEF TypeOK
    <3>2. /\ id' = [id EXCEPT ![w] = Head(toClient[s]).id]
          /\ Wake({w})
          /\ ReadQueue(queue \ {w}, phase, stream)
          /\ toClient' = Received(s)
          /\ UNCHANGED <<manager, rank, attaches, fired, phase, served, faults>>
      BY <1>12, <2>2 DEF OnCreated
    <3>3. id' \in [Watcher -> Nat]
      BY <1>5, <1>12, <3>2 DEF OnCreated, TypeOK, Answer
    <3>4. queue \ {w} \in SUBSET Watcher
      BY DEF TypeOK
    <3>5. /\ queue' \subseteq Watcher
          /\ queueState' \in {"Idle", "Attaching"}
          /\ toServer' \in [Stream -> Seq(Request)]
      BY <3>2, <3>4, ReadQueueType
    <3>6. cancelling' \in [Watcher -> CancelState]
      BY <3>2, WakeType
    <3>7. toClient' \in [Stream -> Seq(Answer)]
      BY <1>5, <1>12, <3>2 DEF OnCreated
    <3> QED
      BY <3>2, <3>3, <3>5, <3>6, <3>7 DEF TypeOK, manager
  <2> QED
    BY <2>1, <2>2
<1>13. CASE OnRefused(s)
  <2>1. CASE Holding(NoId) = {}
    BY <1>5, <1>13, <2>1, ThrowType DEF OnRefused
  <2>2. CASE Holding(NoId) # {}
    <3>1. First(Holding(NoId)) \in Watcher
      BY <2>2, FirstIn, HoldingType
    <3>2. HandleCancelResponse(First(Holding(NoId)), Received(s), FALSE)
      BY <1>13, <2>2 DEF OnRefused
    <3> QED
      BY <1>5, <1>13, <3>1, <3>2, HandleCancelResponseType DEF OnRefused
  <2> QED
    BY <2>1, <2>2
<1>14. CASE OnCanceled(s)
  <2> DEFINE S == Holding(Head(toClient[s]).id)
  <2>1. CASE S = {}
    BY <1>5, <1>14, <2>1, ThrowType DEF OnCanceled
  <2>2. CASE S # {}
    <3>1. First(S) \in Watcher
      BY <2>2, FirstIn, HoldingType
    <3>2. HandleCancelResponse(First(S), Received(s), TRUE)
      BY <1>14, <2>2 DEF OnCanceled
    <3> QED
      BY <1>5, <1>14, <3>1, <3>2, HandleCancelResponseType DEF OnCanceled
  <2> QED
    BY <2>1, <2>2
<1>15. CASE OnData(s)
  <2>1. CASE Holding(Head(toClient[s]).id) = {}
    BY <1>5, <1>15, <2>1, ThrowType DEF OnData
  <2>2. CASE Holding(Head(toClient[s]).id) # {}
    BY <1>5, <1>15, <2>2 DEF OnData, TypeOK, manager, attachQueue, objects
  <2> QED
    BY <2>1, <2>2
<1> QED
  BY <1>6, <1>7, <1>8, <1>9, <1>10, <1>11, <1>12, <1>13, <1>14, <1>15 DEF Events

LEMMA ServerType ==
    ASSUME TypeOK, NEW s \in Stream, Server(s)
    PROVE  TypeOK'
<1>1. ASSUME NEW k \in {"created", "refused", "canceled", "data"},
             NEW i \in Nat, NEW w \in Watcher
      PROVE  Response(k, i, w) \in Answer
  BY DEF Response, Answer
<1>2. ASSUME NEW i, Serves(s, i)
      PROVE  i \in Nat /\ i \in 1..Len(served[s]) /\ served[s][i] \in Watcher
  BY <1>2, ElementOfSeq, LenProperties DEF Serves, TypeOK
<1>3. ASSUME NEW i, Serves(s, i)
      PROVE  [served EXCEPT ![s][i] = None] \in [Stream -> Seq(Watcher \cup {None})]
  <2>1. [served[s] EXCEPT ![i] = None] \in Seq(Watcher \cup {None})
    BY <1>2, <1>3, ExceptSeq DEF TypeOK
  <2> QED
    BY <2>1 DEF TypeOK
<1>4. ASSUME NEW k, Inject(k) PROVE faults' \in 0..MaxFaults
  BY <1>4, WatchAssumption DEF Inject, TypeOK
<1>5. ASSUME NEW kind, Asked(s, kind)
      PROVE  /\ Head(toServer[s]) \in Request
             /\ [toServer EXCEPT ![s] = Tail(@)] \in [Stream -> Seq(Request)]
  BY <1>5, HeadType, TailType DEF Asked, TypeOK
<1>6. ASSUME NEW a \in Seq(Answer)
      PROVE  [toClient EXCEPT ![s] = @ \o a] \in [Stream -> Seq(Answer)]
  <2>1. toClient[s] \o a \in Seq(Answer)
    BY ConcatProperties DEF TypeOK
  <2> QED
    BY <2>1 DEF TypeOK
<1>7. CASE ServerCreates(s)
  <2> DEFINE w == Head(toServer[s]).owner
             m == Response("created", Len(served[s]) + 1, w)
  <2>1. w \in Watcher
    BY <1>5, <1>7 DEF ServerCreates, Request
  <2>2. m \in Answer
    BY <1>1, <2>1, LenProperties DEF TypeOK
  <2>3. <<m>> \in Seq(Answer)
    BY <2>2
  <2>4. /\ toServer' = [toServer EXCEPT ![s] = Tail(@)]
        /\ toClient' = [toClient EXCEPT ![s] = @ \o <<m>>]
        /\ served' = [served EXCEPT ![s] = Append(@, w)]
        /\ UNCHANGED <<manager, attachQueue, objects, phase, faults>>
    BY <1>7 DEF ServerCreates, Answers
  <2>5. served' \in [Stream -> Seq(Watcher \cup {None})]
    BY <2>1, <2>4, AppendType DEF TypeOK
  <2>6. /\ toServer' \in [Stream -> Seq(Request)]
        /\ toClient' \in [Stream -> Seq(Answer)]
    BY <1>5, <1>6, <1>7, <2>3, <2>4 DEF ServerCreates
  <2> QED
    BY <2>4, <2>5, <2>6 DEF TypeOK, manager, attachQueue, objects
<1>8. CASE ServerRefuses(s)
  <2> DEFINE m == Response("refused", NoId, Head(toServer[s]).owner)
  <2>1. Head(toServer[s]).owner \in Watcher /\ NoId \in Nat
    BY <1>5, <1>8 DEF ServerRefuses, Request, NoId
  <2>2. m \in Answer
    BY <1>1, <2>1
  <2>3. <<m>> \in Seq(Answer)
    BY <2>2
  <2>4. /\ toServer' = [toServer EXCEPT ![s] = Tail(@)]
        /\ toClient' = [toClient EXCEPT ![s] = @ \o <<m>>]
        /\ UNCHANGED <<manager, attachQueue, objects, phase, served>>
    BY <1>8 DEF ServerRefuses, Answers
  <2>5. /\ toServer' \in [Stream -> Seq(Request)]
        /\ toClient' \in [Stream -> Seq(Answer)]
        /\ faults' \in 0..MaxFaults
    BY <1>4, <1>5, <1>6, <1>8, <2>3, <2>4 DEF ServerRefuses
  <2> QED
    BY <2>4, <2>5 DEF TypeOK, manager, attachQueue, objects
<1>9. CASE ServerCancels(s)
  <2> DEFINE i == Head(toServer[s]).id
             m == Response("canceled", i, served[s][i])
  <2>1. toServer' \in [Stream -> Seq(Request)]
    BY <1>5, <1>9 DEF ServerCancels, Answers
  <2>2. CASE Serves(s, i)
    <3>1. <<m>> \in Seq(Answer)
      BY <1>1, <1>2, <2>2
    <3>2. /\ toClient' = [toClient EXCEPT ![s] = @ \o <<m>>]
          /\ served' = [served EXCEPT ![s][i] = None]
          /\ UNCHANGED <<manager, attachQueue, objects, phase, faults>>
      BY <1>9, <2>2 DEF ServerCancels, Answers
    <3>3. /\ toClient' \in [Stream -> Seq(Answer)]
          /\ served' \in [Stream -> Seq(Watcher \cup {None})]
      BY <1>3, <1>6, <2>2, <3>1, <3>2
    <3> QED
      BY <2>1, <3>2, <3>3 DEF TypeOK, manager, attachQueue, objects
  <2>3. CASE ~Serves(s, i)
    <3>1. <<>> \in Seq(Answer)
      OBVIOUS
    <3>2. /\ toClient' = [toClient EXCEPT ![s] = @ \o <<>>]
          /\ UNCHANGED <<manager, attachQueue, objects, phase, served, faults>>
      BY <1>9, <2>3 DEF ServerCancels, Answers
    <3>3. toClient' \in [Stream -> Seq(Answer)]
      BY <1>6, <3>1, <3>2
    <3> QED
      BY <2>1, <3>2, <3>3 DEF TypeOK, manager, attachQueue, objects
  <2> QED
    BY <2>2, <2>3
<1>10. CASE ServerDrops(s)
  <2>1. PICK i \in DOMAIN served[s] :
          /\ Serves(s, i)
          /\ Inject("drop")
          /\ toClient' = [toClient EXCEPT
               ![s] = Append(@, Response("canceled", i, served[s][i]))]
          /\ served' = [served EXCEPT ![s][i] = None]
          /\ UNCHANGED <<manager, attachQueue, objects, phase, toServer>>
    BY <1>10 DEF ServerDrops
  <2>2. Response("canceled", i, served[s][i]) \in Answer
    BY <1>1, <1>2, <2>1
  <2>3. /\ toClient' \in [Stream -> Seq(Answer)]
        /\ served' \in [Stream -> Seq(Watcher \cup {None})]
    BY <1>3, <2>1, <2>2, AppendType DEF TypeOK
  <2> QED
    BY <1>4, <2>1, <2>3 DEF TypeOK, manager, attachQueue, objects
<1>11. CASE ServerSends(s)
  <2>1. PICK i \in DOMAIN served[s] :
          /\ Serves(s, i)
          /\ toClient' = [toClient EXCEPT
               ![s] = Append(@, Response("data", i, served[s][i]))]
          /\ UNCHANGED <<manager, attachQueue, objects, phase, toServer,
                         served, faults>>
    BY <1>11 DEF ServerSends
  <2>2. Response("data", i, served[s][i]) \in Answer
    BY <1>1, <1>2, <2>1
  <2>3. toClient' \in [Stream -> Seq(Answer)]
    BY <2>1, <2>2, AppendType DEF TypeOK
  <2> QED
    BY <2>1, <2>3 DEF TypeOK, manager, attachQueue, objects
<1> QED
  BY <1>7, <1>8, <1>9, <1>10, <1>11 DEF Server

LEMMA TimerFiresType ==
    ASSUME TypeOK, TimerFires
    PROVE  TypeOK'
<1>1. timers' \in Nat
  BY DEF TimerFires, TypeOK
<1>2. CASE state = "Idle" /\ watchers # {}
  <2>1. EstablishStream(watchers) /\ watchers \in SUBSET Watcher
    BY <1>2 DEF TimerFires, TypeOK
  <2> QED
    BY <1>1, <2>1, EstablishStreamType DEF TimerFires, TypeOK, attachQueue
<1>3. CASE ~(state = "Idle" /\ watchers # {})
  BY <1>1, <1>3 DEF TimerFires, TypeOK, attachQueue
<1> QED
  BY <1>2, <1>3

LEMMA NextType ==
    ASSUME TypeOK, [Next]_vars
    PROVE  TypeOK'
<1>1. CASE User
  BY <1>1, AttachType, DetachType DEF User, Cancel
<1>2. CASE \E w \in Watcher : DetachResume(w)
  BY <1>2, DetachType DEF DetachResume
<1>3. CASE \E s \in Stream : Events(s) \/ Server(s)
  BY <1>3, EventsType, ServerType
<1>4. CASE TimerFires
  BY <1>4, TimerFiresType
<1>5. CASE UNCHANGED vars
  BY <1>5 DEF vars, manager, attachQueue, objects, links, TypeOK
<1> QED
  BY <1>1, <1>2, <1>3, <1>4, <1>5 DEF Next

\* TypeOK is an invariant: in particular every lookup that finds a watcher
\* returns one, and no timer fires that was not set.
THEOREM TypeCorrect == Spec => []TypeOK
<1>1. TypeOK /\ [Next]_vars => TypeOK'
  BY NextType
<1> QED
  BY <1>1, InitType, PTL DEF Spec

-----------------------------------------------------------------------------
(***************************************************************************)
(* The connection: ConnectionInv is inductive as long as no watcher is     *)
(* attached between a stream's 'error' and its 'end'.                      *)
(***************************************************************************)

\* When the state or a gap says so, no slot is in use.
LEMMA AllFree ==
    ASSUME TypeOK, ConnectionInv, state = "Idle", ~Gap
    PROVE  \A s \in Stream : phase[s] = "none"
BY DEF TypeOK, ConnectionInv, Phase, Gap

LEMMA EstablishStreamConnects ==
    ASSUME TypeOK, ConnectionInv, state = "Idle", ~Gap,
           NEW ws, EstablishStream(ws)
    PROVE  ConnectionInv'
<1>1. PICK s \in Stream : phase' = [phase EXCEPT ![s] = "opening"]
  BY DEF EstablishStream
<1>2. /\ phase'[s] = "opening"
      /\ \A t \in Stream \ {s} : phase'[t] = "none"
  BY <1>1, AllFree DEF TypeOK
<1>3. state' = "Connecting"
  BY DEF EstablishStream
<1> QED
  BY <1>2, <1>3 DEF ConnectionInv

\* handleError leaves the other streams alone: the slot s, whose event it
\* handles, is the one in use, and it moves on to p.
LEMMA HandleErrorPhase ==
    ASSUME TypeOK, ConnectionInv, NEW s \in Stream, phase[s] # "none",
           NEW p \in {"none", "endDue"}, HandleError([phase EXCEPT ![s] = p])
    PROVE  phase' = [phase EXCEPT ![s] = p]
<1> DEFINE ph == [phase EXCEPT ![s] = p]
<1>1. \A t \in Stream : ph[t] # "open"
  BY DEF TypeOK, ConnectionInv
<1>2. CASE state = "Connected"
  <2>1. phase' = Cancelled(ph, stream) /\ stream \in Stream
    BY <1>2 DEF HandleError, Links, ConnectionInv
  <2> QED
    BY <1>1, <2>1 DEF Cancelled
<1>3. CASE state # "Connected"
  BY <1>3 DEF HandleError, Links
<1> QED
  BY <1>2, <1>3

LEMMA HandleErrorDisconnects ==
    ASSUME TypeOK, ConnectionInv, NEW s \in Stream, phase[s] # "none",
           NEW p \in {"none", "endDue"}, HandleError([phase EXCEPT ![s] = p])
    PROVE  ConnectionInv'
<1>1. phase' = [phase EXCEPT ![s] = p]
  BY HandleErrorPhase
<1>2. /\ phase'[s] = p
      /\ \A t \in Stream \ {s} : phase'[t] = "none"
  BY <1>1 DEF TypeOK, ConnectionInv
<1>3. state' = "Idle" /\ timers' > 0
  BY DEF HandleError, ScheduleReconnect, TypeOK
<1> QED
  BY <1>2, <1>3 DEF ConnectionInv

\* An action that leaves the streams alone and adds no watcher keeps it.
LEMMA ConnectionUntouched ==
    ASSUME ConnectionInv, UNCHANGED <<state, stream, timers, phase>>,
           watchers' \subseteq watchers
    PROVE  ConnectionInv'
BY DEF ConnectionInv

\* A cancelled watcher may take the open stream with it, whose 'error' is then
\* to come.
LEMMA HandleCancelConnection ==
    ASSUME TypeOK, ConnectionInv,
           NEW w, NEW down, NEW destroy, HandleCancelResponse(w, down, destroy)
    PROVE  ConnectionInv'
<1>1. UNCHANGED <<state, stream, timers>> /\ watchers' \subseteq watchers
  BY DEF HandleCancelResponse
<1>2. \A t \in Stream : \/ phase'[t] = phase[t]
                        \/ phase[t] = "open" /\ phase'[t] = "errorDue"
  <2>1. phase' = phase \/ phase' = Cancelled(phase, stream)
    BY DEF HandleCancelResponse, Links
  <2> QED
    BY <2>1 DEF Cancelled, TypeOK
<1> QED
  BY <1>1, <1>2 DEF ConnectionInv

LEMMA ConnectionNext ==
    ASSUME ~AttachInGap, TypeOK, ConnectionInv, [Next]_vars
    PROVE  ConnectionInv'
<1>1. ASSUME NEW w \in Watcher, Attach(w) PROVE ConnectionInv'
  <2>1. ~Gap
    BY <1>1 DEF Attach
  <2>2. CASE state = "Idle"
    BY <1>1, <2>1, <2>2, EstablishStreamConnects DEF Attach
  <2>3. CASE state # "Idle"
    BY <1>1, <2>3 DEF Attach, ConnectionInv
  <2> QED
    BY <2>2, <2>3
<1>2. ASSUME NEW w \in Watcher, Detach(w) PROVE ConnectionInv'
  BY <1>2, ConnectionUntouched DEF Detach
<1>3. ASSUME NEW s \in Stream, Events(s) PROVE ConnectionInv'
  <2>1. CASE StreamOpens(s)
    BY <2>1 DEF StreamOpens, ConnectionInv, TypeOK
  <2>2. CASE OpenFails(s)
    BY <2>2, HandleErrorDisconnects DEF OpenFails
  <2>3. CASE StreamFails(s)
    BY <2>3 DEF StreamFails, Links, ConnectionInv, TypeOK, manager
  <2>4. CASE StreamError(s)
    BY <2>4, HandleErrorDisconnects DEF StreamError
  <2>5. CASE StreamEnd(s)
    BY <2>5, HandleErrorDisconnects DEF StreamEnd
  <2>6. CASE GracefulEnd(s)
    BY <2>6, HandleErrorDisconnects DEF GracefulEnd
  <2>7. CASE Throw(s)
    BY <2>7, ConnectionUntouched DEF Throw
  <2>8. ASSUME NEW w, NEW down, NEW destroy, HandleCancelResponse(w, down, destroy)
        PROVE  ConnectionInv'
    BY <2>8, HandleCancelConnection
  <2>9. CASE OnCreated(s)
    BY <2>7, <2>9, ConnectionUntouched DEF OnCreated, manager
  <2>10. CASE OnRefused(s)
    BY <2>7, <2>8, <2>10 DEF OnRefused
  <2>11. CASE OnCanceled(s)
    BY <2>7, <2>8, <2>11 DEF OnCanceled
  <2>12. CASE OnData(s)
    BY <2>7, <2>12, ConnectionUntouched DEF OnData, manager
  <2> QED
    BY <1>3, <2>1, <2>2, <2>3, <2>4, <2>5, <2>6, <2>9, <2>10, <2>11, <2>12 DEF Events
<1>4. ASSUME NEW s \in Stream, Server(s) PROVE ConnectionInv'
  <2>1. UNCHANGED <<manager, phase>>
    BY <1>4 DEF Server, ServerCreates, ServerRefuses, ServerCancels,
                ServerDrops, ServerSends, Answers
  <2> QED
    BY <2>1, ConnectionUntouched DEF manager
<1>5. CASE TimerFires
  <2>1. CASE state = "Idle" /\ watchers # {}
    BY <1>5, <2>1, EstablishStreamConnects DEF TimerFires, Turn
  <2>2. CASE ~(state = "Idle" /\ watchers # {})
    BY <1>5, <2>2 DEF TimerFires, ConnectionInv
  <2> QED
    BY <2>1, <2>2
<1>6. CASE UNCHANGED vars
  BY <1>6, ConnectionUntouched DEF vars, manager, links
<1> QED
  BY <1>1, <1>2, <1>3, <1>4, <1>5, <1>6 DEF Next, User, Cancel, DetachResume

LEMMA ConnectionInvariant ==
    ASSUME ~AttachInGap
    PROVE  Spec => []ConnectionInv
<1>1. Init => ConnectionInv
  BY DEF Init, ConnectionInv
<1>2. TypeOK /\ ConnectionInv /\ [Next]_vars => ConnectionInv'
  BY ConnectionNext
<1> QED
  BY <1>1, <1>2, TypeCorrect, PTL DEF Spec

\* Unless a watcher is created inside a 'disconnected' listener, the watchers
\* share one stream, whatever order timers, errors and 'end' events come in.
THEOREM OneStream ==
    ASSUME ~AttachInGap
    PROVE  Spec => []SingleStream
<1>1. ConnectionInv => SingleStream
  BY DEF ConnectionInv, SingleStream
<1> QED
  BY <1>1, ConnectionInvariant, PTL

\* Under the same condition no interleaving leaves a watcher with a manager
\* that has neither a stream nor an event or timer that will bring one.
THEOREM AlwaysReconnects ==
    ASSUME ~AttachInGap
    PROVE  Spec => []ReconnectScheduled
<1>1. TypeOK /\ ConnectionInv => ReconnectScheduled
  BY DEF TypeOK, ConnectionInv, ReconnectScheduled
<1> QED
  BY <1>1, ConnectionInvariant, TypeCorrect, PTL

-----------------------------------------------------------------------------
(***************************************************************************)
(* Who is meant: the queue, the ids and what is in flight name the same    *)
(* watchers as the server, again as long as none is attached in a gap.     *)
(***************************************************************************)

\* Watchers that exist are told apart by their rank, and nothing has happened
\* to those that do not.
Ranked ==
    /\ \A v, w \in Watcher : rank[w] # 0 /\ rank[v] = rank[w] => v = w
    /\ \A w \in Watcher : rank[w] <= attaches
    /\ \A w \in Watcher : rank[w] = 0 =>
         /\ id[w] = NoId /\ fired[w] = {} /\ cancelling[w] = "no"
         /\ w \notin watchers /\ w \notin queue

\* The manager's watchers have had no final event.  Those that are to close, or
\* whose cancel() is to go on, are still the manager's.
Held ==
    /\ expectedClosers \subseteq watchers
    /\ \A w \in watchers : fired[w] = {}
    /\ \A w \in expectedClosers : cancelling[w] = "end"
    /\ \A w \in Watcher : cancelling[w] = "resume" => w \in watchers

Disconnected ==
    state # "Connected" =>
        /\ queue = {} /\ queueState = "Idle"
        /\ \A w \in watchers : id[w] = NoId

\* Only an open stream carries anything.
Silent ==
    \A s \in Stream : phase[s] # "open" =>
        toServer[s] = <<>> /\ toClient[s] = <<>> /\ served[s] = <<>>

\* The creates that wait for the server, and its answers to creates.
Asks(s) == {k \in DOMAIN toServer[s] : toServer[s][k].kind = "create"}
Replies(s) == {k \in DOMAIN toClient[s] : toClient[s][k].kind \in {"created", "refused"}}

Leads(w) == w \in queue /\ \A v \in queue : rank[w] <= rank[v]

\* One create at most is under way.
Serial(s) ==
    /\ \A j, k \in Asks(s) : j = k
    /\ \A j, k \in Replies(s) : j = k
    /\ Asks(s) = {} \/ Replies(s) = {}
    /\ queueState = "Idle" => queue = {} /\ Asks(s) = {} /\ Replies(s) = {}

\* It is for the head of the queue, and the watchers without an id are queued.
Heads(s) ==
    /\ Asks(s) # {} \/ Replies(s) # {} => queue \subseteq watchers
    /\ \A k \in Asks(s) : Leads(toServer[s][k].owner)
    /\ \A k \in Replies(s) : Leads(toClient[s][k].owner)
    /\ \A w \in watchers : id[w] = NoId => w \in queue
    /\ \A w \in queue : id[w] = NoId

\* A request to cancel names a watch of its watcher, or one that was cancelled.
CancelsNamed(s) ==
    \A k \in DOMAIN toServer[s] : toServer[s][k].kind = "cancel" =>
        /\ toServer[s][k].id \in DOMAIN served[s]
        /\ served[s][toServer[s][k].id] \in {toServer[s][k].owner, None}

\* A response that names a watch names one of its owner's, or one that was
\* cancelled; 'canceled' one that was.
AnswersNamed(s) ==
    \A k \in DOMAIN toClient[s] : toClient[s][k].kind # "refused" =>
        /\ toClient[s][k].id \in DOMAIN served[s]
        /\ served[s][toClient[s][k].id] \in {toClient[s][k].owner, None}
        /\ toClient[s][k].kind = "canceled" => served[s][toClient[s][k].id] = None

\* The responses about one watch have one owner, and 'canceled' is the last.
OneOwner(s) ==
    \A j, k \in DOMAIN toClient[s] :
        /\ toClient[s][j].kind # "refused" /\ toClient[s][k].kind # "refused"
        /\ toClient[s][j].id = toClient[s][k].id
        => /\ toClient[s][j].owner = toClient[s][k].owner
           /\ toClient[s][j].kind = "canceled" => k <= j

\* k is the place of a response of this kind about the watch i of w.
Says(s, k, kind, i, w) ==
    /\ k \in DOMAIN toClient[s]
    /\ toClient[s][k].kind = kind
    /\ toClient[s][k].id = i
    /\ toClient[s][k].owner = w

\* The server serves i to w, or tells w that it no longer does.
Known(s, i, w) ==
    /\ i \in DOMAIN served[s]
    /\ \/ served[s][i] = w
       \/ served[s][i] = None /\ \E k \in DOMAIN toClient[s] : Says(s, k, "canceled", i, w)

IdsKnown(s) ==
    /\ \A w \in watchers : id[w] # NoId => Known(s, id[w], w)
    /\ \A k \in DOMAIN toClient[s] : toClient[s][k].kind = "created" =>
         Known(s, toClient[s][k].id, toClient[s][k].owner)

Has(w, i) == w \in watchers /\ id[w] = i

\* What the server serves has its id in the watcher, or 'created' is on its way.
ServedHeld(s) ==
    \A i \in DOMAIN served[s] : served[s][i] # None =>
        \/ Has(served[s][i], i)
        \/ \E k \in DOMAIN toClient[s] : Says(s, k, "created", i, served[s][i])

\* When data or a cancellation arrives, its watcher has the id.
HeldInTime(s) ==
    \A k \in DOMAIN toClient[s] : toClient[s][k].kind \in {"canceled", "data"} =>
        \/ Has(toClient[s][k].owner, toClient[s][k].id)
        \/ \E j \in DOMAIN toClient[s] :
             j < k /\ Says(s, j, "created", toClient[s][k].id, toClient[s][k].owner)

Named(s) ==
    /\ CancelsNamed(s) /\ AnswersNamed(s) /\ OneOwner(s)
    /\ IdsKnown(s) /\ ServedHeld(s) /\ HeldInTime(s)

Routes(s) == Serial(s) /\ Heads(s) /\ Named(s)

RouteInv ==
    /\ Ranked /\ Held /\ Disconnected /\ Silent
    /\ \A s \in Stream : phase[s] = "open" => Routes(s)

\* A sequence that lost its head, and one that x was appended to at n.
Shifted(new, old) ==
    /\ 1 \in DOMAIN old /\ DOMAIN old \subseteq Nat /\ DOMAIN new \subseteq Nat \ {0}
    /\ \A k \in DOMAIN new : k + 1 \in DOMAIN old /\ new[k] = old[k + 1]
    /\ \A k \in DOMAIN old : k = 1 \/ (k - 1 \in DOMAIN new /\ new[k - 1] = old[k])

Extended(new, old, n, x) ==
    /\ n \in Nat /\ DOMAIN old \subseteq Nat
    /\ DOMAIN new = DOMAIN old \cup {n} /\ new[n] = x
    /\ \A k \in DOMAIN old : k < n /\ new[k] = old[k]

\* Head(q) is q[1], and Tail(q) is the rest moved up by one.
LEMMA TailShifts ==
    ASSUME NEW T, NEW q \in Seq(T), q # <<>>
    PROVE  Shifted(Tail(q), q) /\ Head(q) = q[1]
<1>1. Len(q) \in Nat /\ Len(q) # 0 /\ DOMAIN q = 1 .. Len(q)
  BY EmptySeq, LenProperties
<1>2. /\ Len(Tail(q)) = Len(q) - 1 /\ DOMAIN Tail(q) = 1 .. Len(Tail(q))
      /\ \A k \in 1 .. Len(Tail(q)) : Tail(q)[k] = q[k + 1]
      /\ Head(q) = q[1]
  BY HeadTailProperties, LenProperties
<1> QED
  BY <1>1, <1>2 DEF Shifted

LEMMA AppendExtends ==
    ASSUME NEW T, NEW q \in Seq(T), NEW x \in T
    PROVE  Extended(Append(q, x), q, Len(q) + 1, x)
<1>1. Len(q) \in Nat /\ DOMAIN q = 1 .. Len(q)
  BY LenProperties
<1>2. /\ DOMAIN Append(q, x) = 1 .. (Len(q) + 1)
      /\ \A k \in 1 .. Len(q) : Append(q, x)[k] = q[k]
      /\ Append(q, x)[Len(q) + 1] = x
  BY AppendProperties, LenProperties
<1> QED
  BY <1>1, <1>2 DEF Extended

\* First(S) is of least rank, and under Ranked nothing else is.
LEMMA FirstLeast ==
    ASSUME TypeOK, NEW S \in SUBSET Watcher, S # {}
    PROVE  First(S) \in S /\ \A v \in S : rank[First(S)] <= rank[v]
<1> QED
  BY SomeFirst DEF First

LEMMA FirstUnique ==
    ASSUME TypeOK, Ranked, NEW S \in SUBSET Watcher, NEW w \in S, rank[w] # 0,
           \A v \in S : rank[w] <= rank[v]
    PROVE  First(S) = w
<1>1. First(S) \in S /\ rank[First(S)] <= rank[w] /\ rank[w] <= rank[First(S)]
  BY FirstLeast
<1>2. rank[First(S)] = rank[w]
  BY <1>1 DEF TypeOK
<1> QED
  BY <1>1, <1>2 DEF Ranked

\* An open stream is the current one, and the only one in use.
LEMMA OneOpen ==
    ASSUME ConnectionInv, NEW s \in Stream, phase[s] = "open"
    PROVE  /\ state = "Connected" /\ stream = s
           /\ \A t \in Stream : phase[t] # "none" => t = s
BY DEF ConnectionInv

-----------------------------------------------------------------------------
(***************************************************************************)
(* Streams that go down, and what that leaves.                             *)
(***************************************************************************)

\* A stream that is not open carries nothing once Links has said so.
LEMMA LinksSilence ==
    ASSUME TypeOK, NEW ph \in [Stream -> Phase], NEW down, Links(ph, down)
    PROVE  Silent'
BY DEF Links, Silent, TypeOK

LEMMA HandleErrorCloses ==
    ASSUME TypeOK, ConnectionInv, NEW s \in Stream, phase[s] # "none",
           NEW p \in {"none", "endDue"}, HandleError([phase EXCEPT ![s] = p])
    PROVE  Silent' /\ \A t \in Stream : phase'[t] # "open"
<1>1. phase' = [phase EXCEPT ![s] = p]
  BY HandleErrorPhase
<1>2. \A t \in Stream \ {s} : phase[t] = "none"
  BY DEF ConnectionInv
<1>3. PICK ph : Links(ph, toClient)
  BY DEF HandleError
<1>4. phase' = ph /\ ph \in [Stream -> Phase]
  BY <1>1, <1>3 DEF Links, TypeOK, Phase
<1> QED
  BY <1>1, <1>2, <1>3, <1>4, LinksSilence DEF TypeOK

\* handleError takes their ids from the watchers and empties the queue.
LEMMA HandleErrorHolds ==
    ASSUME TypeOK, RouteInv, NEW ph, HandleError(ph)
    PROVE  Ranked' /\ Held' /\ Disconnected'
<1>1. /\ state' = "Idle"
      /\ id' = [w \in Watcher |-> IF w \in watchers THEN NoId ELSE id[w]]
      /\ cancelling' = [w \in Watcher |-> IF w \in watchers /\ cancelling[w] = "id"
                                          THEN "resume" ELSE cancelling[w]]
      /\ UNCHANGED <<watchers, expectedClosers, rank, attaches, fired>>
  BY DEF HandleError, ResetIds, Wake
<1>2. queue' = {} /\ queueState' = "Idle"
  BY DEF HandleError, DestroyQueue, attachQueue, RouteInv, Disconnected
<1>3. Ranked'
  BY <1>1, <1>2 DEF RouteInv, Ranked
<1>4. Held'
  BY <1>1 DEF RouteInv, Held, TypeOK
<1>5. Disconnected'
  BY <1>1, <1>2 DEF Disconnected, TypeOK
<1> QED
  BY <1>3, <1>4, <1>5

\* establishStream opens a stream for the watchers it keeps.
LEMMA EstablishStreamHolds ==
    ASSUME TypeOK, RouteInv, state = "Idle", NEW ws \in SUBSET Watcher,
           \A w \in ws : fired[w] = {} /\ id[w] = NoId,
           watchers \subseteq ws,
           EstablishStream(ws), UNCHANGED <<id, attachQueue>>
    PROVE  Held' /\ Disconnected'
<1>1. /\ state' = "Connecting"
      /\ watchers' = ws \ expectedClosers
      /\ expectedClosers' = {}
      /\ fired' = [w \in Watcher |->
                     fired[w] \cup IF w \in expectedClosers THEN {"end"} ELSE {}]
      /\ cancelling' = [w \in Watcher |->
                          IF w \in expectedClosers /\ cancelling[w] = "end"
                          THEN "done" ELSE cancelling[w]]
      /\ UNCHANGED <<id, queue, queueState>>
  BY DEF EstablishStream, EmitEnd, attachQueue
<1>2. Held'
  BY <1>1 DEF RouteInv, Held, TypeOK
<1>3. Disconnected'
  BY <1>1 DEF RouteInv, Disconnected
<1> QED
  BY <1>2, <1>3

LEMMA EstablishStreamCloses ==
    ASSUME TypeOK, ConnectionInv, RouteInv, state = "Idle", ~Gap,
           NEW ws, EstablishStream(ws), UNCHANGED <<toServer, toClient, served>>
    PROVE  Silent' /\ \A t \in Stream : phase'[t] # "open"
<1>1. PICK s \in Stream : phase' = [phase EXCEPT ![s] = "opening"]
  BY DEF EstablishStream
<1>2. \A t \in Stream : phase[t] = "none"
  BY AllFree
<1> QED
  BY <1>1, <1>2 DEF RouteInv, Silent, TypeOK

-----------------------------------------------------------------------------
(***************************************************************************)
(* Watchers on their own: ranks, final events and cancel().                *)
(***************************************************************************)

Objects == Ranked /\ Held /\ Disconnected

\* What the handlers read of the watchers: if nothing of it changes, nothing
\* said of them does.
LEMMA ObjectsUntouched ==
    ASSUME RouteInv,
           UNCHANGED <<state, watchers, expectedClosers, attachQueue, objects>>
    PROVE  Objects'
BY DEF RouteInv, Objects, Ranked, Held, Disconnected, attachQueue, objects

LEMMA AttachObjects ==
    ASSUME TypeOK, ConnectionInv, RouteInv, NEW w \in Watcher, Attach(w)
    PROVE  Objects'
<1>1. /\ rank[w] = 0 /\ id[w] = NoId /\ fired[w] = {} /\ cancelling[w] = "no"
      /\ attaches' = attaches + 1 /\ rank' = [rank EXCEPT ![w] = attaches + 1]
      /\ UNCHANGED id
  BY DEF Attach, RouteInv, Ranked
<1>2. ASSUME NEW v \in Watcher, rank'[v] = 0
      PROVE  rank[v] = 0 /\ v # w
  BY <1>1, <1>2 DEF TypeOK
<1>3. /\ \A u, v \in Watcher : rank'[v] # 0 /\ rank'[u] = rank'[v] => u = v
      /\ \A v \in Watcher : rank'[v] <= attaches'
  BY <1>1 DEF TypeOK, RouteInv, Ranked
<1>4. CASE state = "Idle"
  <2>1. EstablishStream(watchers \cup {w}) /\ UNCHANGED attachQueue
    BY <1>4 DEF Attach
  <2>2. watchers \cup {w} \in SUBSET Watcher
    BY DEF TypeOK
  <2>3. \A v \in watchers \cup {w} : fired[v] = {} /\ id[v] = NoId
    BY <1>1, <1>4 DEF RouteInv, Held, Disconnected
  <2>4. Held' /\ Disconnected'
    BY <1>1, <1>4, <2>1, <2>2, <2>3, EstablishStreamHolds
  <2>5. /\ watchers' \subseteq watchers \cup {w} /\ queue' = queue
        /\ \A v \in Watcher : v \notin expectedClosers =>
             fired'[v] = fired[v] /\ cancelling'[v] = cancelling[v]
    BY <2>1 DEF EstablishStream, EmitEnd, attachQueue, TypeOK
  <2>6. \A v \in Watcher : rank[v] = 0 => v \notin expectedClosers
    BY DEF RouteInv, Ranked, Held
  <2>7. Ranked'
    BY <1>1, <1>2, <1>3, <2>5, <2>6 DEF RouteInv, Ranked
  <2> QED
    BY <2>4, <2>7 DEF Objects
<1>5. CASE state # "Idle"
  <2>1. /\ watchers' = watchers \cup {w} /\ queue' \subseteq queue \cup {w}
        /\ state # "Connected" => UNCHANGED attachQueue
        /\ UNCHANGED <<state, expectedClosers, fired, cancelling>>
    BY <1>5 DEF Attach, Enqueue, ReadQueue, attachQueue
  <2>2. Ranked'
    BY <1>1, <1>2, <1>3, <2>1 DEF RouteInv, Ranked
  <2>3. Held'
    BY <1>1, <2>1 DEF RouteInv, Held
  <2>4. Disconnected'
    BY <1>1, <2>1 DEF RouteInv, Disconnected, attachQueue
  <2> QED
    BY <2>2, <2>3, <2>4 DEF Objects
<1> QED
  BY <1>4, <1>5

LEMMA DetachObjects ==
    ASSUME TypeOK, RouteInv, NEW w \in watchers, cancelling[w] # "end", Detach(w)
    PROVE  Objects'
<1>1. /\ UNCHANGED <<state, queue, queueState, rank, attaches, id, fired>>
      /\ w \in Watcher
      /\ \A v \in Watcher \ {w} : cancelling'[v] = cancelling[v]
      /\ cancelling'[w] # "resume"
  BY DEF Detach, attachQueue, TypeOK
<1>2. rank[w] # 0 /\ watchers' \subseteq watchers
  BY <1>1 DEF Detach, RouteInv, Ranked
<1>3. Ranked'
  BY <1>1, <1>2 DEF RouteInv, Ranked
<1>4. Disconnected'
  BY <1>1, <1>2 DEF RouteInv, Disconnected
<1>5. \A v \in Watcher : cancelling'[v] = "resume" => v \in watchers'
  BY <1>1 DEF Detach, RouteInv, Held
<1>6. expectedClosers' \subseteq watchers' /\ \A v \in expectedClosers' : cancelling'[v] = "end"
  <2>1. w \notin expectedClosers
    BY DEF RouteInv, Held
  <2> QED
    BY <1>1, <2>1 DEF Detach, RouteInv, Held, TypeOK
<1>7. Held'
  BY <1>1, <1>2, <1>5, <1>6 DEF RouteInv, Held
<1> QED
  BY <1>3, <1>4, <1>7 DEF Objects

LEMMA StreamOpensObjects ==
    ASSUME TypeOK, ConnectionInv, RouteInv, NEW s \in Stream, StreamOpens(s)
    PROVE  Objects'
<1>1. /\ state' = "Connected" /\ queue' \subseteq watchers
      /\ UNCHANGED <<watchers, expectedClosers, objects>>
  BY DEF StreamOpens, ReadQueue, DestroyQueue
<1>2. Ranked'
  BY <1>1 DEF RouteInv, Ranked, objects
<1>3. Held' /\ Disconnected'
  BY <1>1 DEF RouteInv, Held, Disconnected, objects
<1> QED
  BY <1>2, <1>3 DEF Objects

\* 'created' gives the head of the queue, which the manager has, its id.
LEMMA OnCreatedObjects ==
    ASSUME TypeOK, RouteInv, state = "Connected",
           NEW w \in queue \cap watchers, NEW i, NEW q \in SUBSET queue,
           id' = [id EXCEPT ![w] = i], Wake({w}), queue' = q,
           UNCHANGED <<manager, rank, attaches, fired>>
    PROVE  Objects'
<1>1. /\ \A v \in Watcher : cancelling'[v] =
           IF v = w /\ cancelling[v] = "id" THEN "resume" ELSE cancelling[v]
      /\ w \in Watcher /\ rank[w] # 0
  BY DEF Wake, TypeOK, RouteInv, Ranked
<1>2. Ranked'
  BY <1>1 DEF RouteInv, Ranked, TypeOK, manager
<1>3. Held'
  BY <1>1 DEF RouteInv, Held, TypeOK, manager
<1>4. Disconnected'
  BY DEF Disconnected, manager
<1> QED
  BY <1>2, <1>3, <1>4 DEF Objects

\* The watcher that 'canceled' finishes leaves the manager.
LEMMA FinishObjects ==
    ASSUME TypeOK, RouteInv, Turn, state = "Connected", NEW w \in watchers,
           NEW down, NEW destroy, HandleCancelResponse(w, down, destroy)
    PROVE  Objects'
<1>1. /\ watchers' = watchers \ {w} /\ expectedClosers' = expectedClosers \ {w}
      /\ queue' \subseteq queue
      /\ UNCHANGED <<state, rank, attaches, id>>
      /\ w \in Watcher /\ rank[w] # 0
  BY DEF HandleCancelResponse, DestroyQueue, attachQueue, TypeOK, RouteInv, Ranked
<1>2. /\ \A v \in Watcher \ {w} : fired'[v] = fired[v] /\ cancelling'[v] = cancelling[v]
      /\ cancelling'[w] # "resume"
  <2>1. cancelling[w] # "resume"
    BY <1>1 DEF Turn
  <2>2. CASE w \in expectedClosers
    <3>1. /\ \A v \in Watcher : fired'[v] = fired[v] \cup IF v = w THEN {"end"} ELSE {}
          /\ \A v \in Watcher : cancelling'[v] =
               IF v = w /\ cancelling[v] = "end" THEN "done" ELSE cancelling[v]
      BY <2>2 DEF HandleCancelResponse, Finish, EmitEnd
    <3> QED
      BY <1>1, <2>1, <3>1
  <2>3. CASE w \notin expectedClosers
    BY <1>1, <2>1, <2>3 DEF HandleCancelResponse, Finish, EmitError, TypeOK
  <2> QED
    BY <2>2, <2>3
<1>3. Ranked'
  BY <1>1, <1>2 DEF RouteInv, Ranked
<1>4. Held'
  BY <1>1, <1>2 DEF RouteInv, Held, TypeOK
<1>5. Disconnected'
  BY <1>1 DEF Disconnected
<1> QED
  BY <1>3, <1>4, <1>5 DEF Objects

LEMMA TimerObjects ==
    ASSUME TypeOK, RouteInv, TimerFires
    PROVE  Objects'
<1>1. UNCHANGED <<attachQueue, rank, attaches, id>>
  BY DEF TimerFires
<1>2. CASE state = "Idle" /\ watchers # {}
  <2>1. EstablishStream(watchers) /\ watchers \in SUBSET Watcher
    BY <1>2 DEF TimerFires, TypeOK
  <2>2. \A w \in watchers : fired[w] = {} /\ id[w] = NoId
    BY <1>2 DEF RouteInv, Held, Disconnected
  <2>3. Held' /\ Disconnected'
    BY <1>1, <1>2, <2>1, <2>2, EstablishStreamHolds
  <2>4. /\ watchers' \subseteq watchers
        /\ \A v \in Watcher : v \notin expectedClosers =>
             fired'[v] = fired[v] /\ cancelling'[v] = cancelling[v]
    BY <2>1 DEF EstablishStream, EmitEnd, TypeOK
  <2>5. \A v \in Watcher : rank[v] = 0 => v \notin expectedClosers
    BY DEF RouteInv, Ranked, Held
  <2>6. Ranked'
    BY <1>1, <2>4, <2>5 DEF RouteInv, Ranked, attachQueue
  <2> QED
    BY <2>3, <2>6 DEF Objects
<1>3. CASE ~(state = "Idle" /\ watchers # {})
  BY <1>1, <1>3, ObjectsUntouched DEF TimerFires, objects
<1> QED
  BY <1>2, <1>3

-----------------------------------------------------------------------------
(***************************************************************************)
(* What the user's calls and the opening of a stream send.                 *)
(***************************************************************************)

LEMMA WriteExtends ==
    ASSUME TypeOK, NEW s \in Stream, NEW ph, ph[s] = "open", NEW m \in Request
    PROVE  Extended(Write(ph, s, m)[s], toServer[s], Len(toServer[s]) + 1, m)
<1>1. toServer[s] \in Seq(Request)
  BY DEF TypeOK
<1>2. Write(ph, s, m)[s] = Append(toServer[s], m)
  BY DEF Write, TypeOK
<1> QED
  BY <1>1, <1>2, AppendExtends

LEMMA CreateIsRequest ==
    ASSUME NEW w \in Watcher
    PROVE  CreateRequest(w) \in Request /\ CreateRequest(w).kind = "create"
           /\ CreateRequest(w).owner = w
BY DEF CreateRequest, Request, NoId

\* The server's ids start at 1.
LEMMA IdsStartAtOne ==
    ASSUME TypeOK, NEW s \in Stream
    PROVE  NoId \notin DOMAIN served[s]
<1>1. served[s] \in Seq(Watcher \cup {None})
  BY DEF TypeOK
<1>2. DOMAIN served[s] = 1 .. Len(served[s])
  BY <1>1, LenProperties
<1> QED
  BY <1>2 DEF NoId

LEMMA RoutesUntouched ==
    ASSUME NEW s, Routes(s),
           UNCHANGED <<watchers, attachQueue, rank, id, toServer, toClient, served>>
    PROVE  Routes(s)'
<1>1. Serial(s)' /\ Heads(s)'
  BY DEF Routes, Serial, Heads, Asks, Replies, Leads, attachQueue
<1>2. Named(s)'
  BY DEF Routes, Named, CancelsNamed, AnswersNamed, OneOwner, IdsKnown, Known,
         ServedHeld, HeldInTime, Has, Says
<1> QED
  BY <1>1, <1>2 DEF Routes

\* Only a change of the watchers, of their ids or of what the server says can
\* disturb the names in its answers.
NamedAnswers(s) ==
    AnswersNamed(s) /\ OneOwner(s) /\ IdsKnown(s) /\ ServedHeld(s) /\ HeldInTime(s)

LEMMA AnswersUntouched ==
    ASSUME NEW s, NamedAnswers(s), UNCHANGED <<id, toClient, served>>,
           watchers \subseteq watchers',
           \A w \in watchers' \ watchers : id[w] = NoId
    PROVE  NamedAnswers(s)'
BY DEF NamedAnswers, AnswersNamed, OneOwner, IdsKnown, Known, ServedHeld,
       HeldInTime, Has, Says

\* A create may be written for the head of the queue when none is under way.
LEMMA CreateWritten ==
    ASSUME TypeOK, NEW s \in Stream, Asks(s) = {}, Replies(s)' = {},
           NEW w \in Watcher, NEW n,
           Extended(toServer'[s], toServer[s], n, CreateRequest(w)),
           queueState' = "Attaching", Leads(w)',
           queue' \subseteq watchers',
           \A v \in watchers' : id'[v] = NoId => v \in queue',
           \A v \in queue' : id'[v] = NoId
    PROVE  Serial(s)' /\ Heads(s)'
<1>1. toServer'[s][n].kind = "create" /\ toServer'[s][n].owner = w
  BY CreateIsRequest DEF Extended
<1>2. Asks(s)' = {n}
  BY <1>1 DEF Asks, Extended
<1>3. Serial(s)'
  BY <1>2 DEF Serial
<1>4. Heads(s)'
  BY <1>1, <1>2 DEF Heads
<1> QED
  BY <1>3, <1>4

LEMMA CreateNames ==
    ASSUME NEW s, CancelsNamed(s), NEW w \in Watcher, NEW n,
           Extended(toServer'[s], toServer[s], n, CreateRequest(w)),
           UNCHANGED served
    PROVE  CancelsNamed(s)'
<1>1. toServer'[s][n].kind = "create"
  BY CreateIsRequest DEF Extended
<1> QED
  BY <1>1 DEF CancelsNamed, Extended

LEMMA AttachRoutes ==
    ASSUME TypeOK, ConnectionInv, RouteInv, NEW s \in Stream, phase[s] = "open",
           NEW w \in Watcher, Attach(w)
    PROVE  Routes(s)'
<1>1. state = "Connected" /\ stream = s
  BY OneOpen
<1>2. Routes(s) /\ Ranked
  BY DEF RouteInv
<1>3. /\ watchers' = watchers \cup {w}
      /\ rank' = [rank EXCEPT ![w] = attaches + 1]
      /\ Enqueue(w)
      /\ UNCHANGED <<id, toClient, served>>
  BY <1>1 DEF Attach
<1>4. id[w] = NoId /\ w \notin queue /\ rank[w] = 0
  BY <1>2 DEF Attach, Ranked
<1>5. NamedAnswers(s)'
  BY <1>2, <1>3, <1>4, AnswersUntouched DEF Routes, Named, NamedAnswers
<1>6. CASE queueState = "Idle"
  <2>1. queue = {} /\ Asks(s) = {} /\ Replies(s) = {}
    BY <1>2, <1>6 DEF Routes, Serial
  <2>2. ReadQueue({w}, phase, s)
    BY <1>1, <1>3, <1>6, <2>1 DEF Enqueue
  <2>3. First({w}) = w
    BY FirstLeast
  <2>4. /\ queue' = {w} /\ queueState' = "Attaching"
        /\ toServer' = Write(phase, s, CreateRequest(w))
    BY <2>2, <2>3 DEF ReadQueue
  <2>5. Extended(toServer'[s], toServer[s], Len(toServer[s]) + 1, CreateRequest(w))
    BY <2>4, WriteExtends, CreateIsRequest
  <2>6. Leads(w)'
    BY <1>3, <2>4 DEF Leads, TypeOK
  <2>7. Replies(s)' = {}
    BY <1>3, <2>1 DEF Replies
  <2>8. \A v \in watchers : id[v] = NoId => v \in queue
    BY <1>2 DEF Routes, Heads
  <2>9. Serial(s)' /\ Heads(s)'
    BY <1>3, <1>4, <2>1, <2>4, <2>5, <2>6, <2>7, <2>8, CreateWritten
  <2>10. CancelsNamed(s)'
    BY <1>2, <1>3, <2>5, CreateNames DEF Routes, Named
  <2> QED
    BY <1>5, <2>9, <2>10 DEF Routes, Named, NamedAnswers
<1>7. CASE queueState # "Idle"
  <2>1. queue' = queue \cup {w} /\ UNCHANGED <<queueState, toServer>>
    BY <1>3, <1>7 DEF Enqueue
  <2>2. Asks(s)' = Asks(s) /\ Replies(s)' = Replies(s)
    BY <1>3, <2>1 DEF Asks, Replies
  <2>3. Serial(s)'
    BY <1>2, <1>7, <2>1, <2>2 DEF Routes, Serial
  <2>4. ASSUME NEW v, Leads(v) PROVE Leads(v)'
    <3>1. \A u \in queue : rank'[u] = rank[u] /\ rank[u] <= attaches
      BY <1>2, <1>3, <1>4 DEF TypeOK, Ranked
    <3>2. rank'[w] = attaches + 1
      BY <1>3 DEF TypeOK
    <3> QED
      BY <2>1, <2>4, <3>1, <3>2 DEF Leads, TypeOK
  <2>5. Heads(s)'
    BY <1>2, <1>3, <1>4, <2>1, <2>2, <2>4 DEF Routes, Heads
  <2>6. CancelsNamed(s)'
    BY <1>2, <1>3, <2>1 DEF Routes, Named, CancelsNamed
  <2> QED
    BY <1>5, <2>3, <2>5, <2>6 DEF Routes, Named, NamedAnswers
<1> QED
  BY <1>6, <1>7

LEMMA DetachRoutes ==
    ASSUME TypeOK, ConnectionInv, RouteInv, NEW s \in Stream, phase[s] = "open",
           NEW w \in watchers, Detach(w)
    PROVE  Routes(s)'
<1>1. state = "Connected" /\ stream = s
  BY OneOpen
<1>2. Routes(s)
  BY DEF RouteInv
<1>3. UNCHANGED <<watchers, attachQueue, rank, id, toClient, served>>
  BY <1>1 DEF Detach
<1>4. CASE id[w] = NoId
  BY <1>1, <1>2, <1>3, <1>4, RoutesUntouched DEF Detach
<1>5. CASE id[w] # NoId
  <2> DEFINE m == CancelRequest(w)
             n == Len(toServer[s]) + 1
  <2>1. m \in Request /\ m.kind = "cancel" /\ m.id = id[w] /\ m.owner = w
    BY DEF CancelRequest, Request, TypeOK
  <2>2. Extended(toServer'[s], toServer[s], n, m)
    BY <1>1, <1>5, <2>1, WriteExtends DEF Detach
  <2> HIDE DEF m, n
  <2>3. Asks(s)' = Asks(s) /\ \A k \in Asks(s) : toServer'[s][k] = toServer[s][k]
    BY <2>1, <2>2 DEF Asks, Extended
  <2>4. Replies(s)' = Replies(s)
    BY <1>3 DEF Replies
  <2>5. Serial(s)'
    BY <1>2, <1>3, <2>3, <2>4 DEF Routes, Serial, attachQueue
  <2>6. Heads(s)'
    BY <1>2, <1>3, <2>3, <2>4 DEF Routes, Heads, Leads, attachQueue
  <2>7. id[w] \in DOMAIN served[s] /\ served[s][id[w]] \in {w, None}
    BY <1>2, <1>5 DEF Routes, Named, IdsKnown, Known
  <2>8. CancelsNamed(s)'
    BY <1>2, <1>3, <2>1, <2>2, <2>7 DEF Routes, Named, CancelsNamed, Extended
  <2>9. NamedAnswers(s)'
    BY <1>2, <1>3, AnswersUntouched DEF Routes, Named, NamedAnswers
  <2> QED
    BY <2>5, <2>6, <2>8, <2>9 DEF Routes, Named, NamedAnswers
<1> QED
  BY <1>4, <1>5

LEMMA StreamOpensRoutes ==
    ASSUME TypeOK, ConnectionInv, RouteInv, NEW s \in Stream, StreamOpens(s),
           phase'[s] = "open"
    PROVE  Routes(s)'
<1>1. state = "Connecting"
  BY DEF StreamOpens, ConnectionInv
<1>2. watchers # {}
  BY DEF StreamOpens, TypeOK
<1>3. /\ phase'[s] = "open" /\ ReadQueue(watchers, phase', s)
      /\ UNCHANGED <<watchers, objects, toClient, served>>
  BY <1>2 DEF StreamOpens
<1>4. toServer[s] = <<>> /\ toClient[s] = <<>> /\ served[s] = <<>>
  BY DEF StreamOpens, RouteInv, Silent
<1>5. \A v \in watchers : id[v] = NoId
  BY <1>1 DEF RouteInv, Disconnected
<1>6. PICK w \in Watcher : /\ w = First(watchers) /\ w \in watchers
                          /\ \A v \in watchers : rank[w] <= rank[v]
  BY <1>2, FirstLeast DEF TypeOK
<1>7. /\ queue' = watchers /\ queueState' = "Attaching"
      /\ toServer' = Write(phase', s, CreateRequest(w))
  BY <1>2, <1>3, <1>6 DEF ReadQueue
<1>8. Extended(toServer'[s], toServer[s], Len(toServer[s]) + 1, CreateRequest(w))
  BY <1>3, <1>6, <1>7, WriteExtends, CreateIsRequest
<1>9. Leads(w)'
  BY <1>3, <1>6, <1>7 DEF Leads, objects
<1>10. Asks(s) = {} /\ Replies(s)' = {}
  BY <1>3, <1>4 DEF Asks, Replies
<1>11. Serial(s)' /\ Heads(s)'
  BY <1>3, <1>5, <1>6, <1>7, <1>8, <1>9, <1>10, CreateWritten DEF objects
<1>12. CancelsNamed(s)'
  <2>1. CancelsNamed(s)
    BY <1>4 DEF CancelsNamed
  <2> QED
    BY <1>3, <1>8, <2>1, CreateNames
<1>13. NamedAnswers(s)'
  BY <1>3, <1>4, <1>5 DEF NamedAnswers, AnswersNamed, OneOwner, IdsKnown,
                          ServedHeld, HeldInTime, objects
<1> QED
  BY <1>11, <1>12, <1>13 DEF Routes, Named, NamedAnswers

-----------------------------------------------------------------------------
(***************************************************************************)
(* What the client does with the response that arrives.                    *)
(***************************************************************************)

\* handleCreate takes the head of the queue, whose create was answered.
LEMMA HeadOfQueue ==
    ASSUME TypeOK, RouteInv, NEW s \in Stream, Heads(s), NEW w, Leads(w)
    PROVE  w \in Watcher /\ queue # {} /\ First(queue) = w
<1>1. w \in queue /\ w \in Watcher /\ \A v \in queue : rank[w] <= rank[v]
  BY DEF Leads, TypeOK
<1>2. rank[w] # 0 /\ Ranked
  BY <1>1 DEF RouteInv, Ranked
<1>3. queue \in SUBSET Watcher
  BY DEF TypeOK
<1> QED
  BY <1>1, <1>2, <1>3, FirstUnique

\* While a create is under way, the watchers without an id are the queue.
LEMMA WithoutId ==
    ASSUME NEW s, Heads(s), Replies(s) # {}
    PROVE  Holding(NoId) = queue
BY DEF Heads, Holding

\* handleResponse finds the owner of data or a cancellation that arrives.
LEMMA OneHolder ==
    ASSUME TypeOK, NEW s \in Stream, Named(s), toClient[s] # <<>>,
           toClient[s][1].kind \in {"canceled", "data"}
    PROVE  LET m == toClient[s][1]
           IN  m.owner \in watchers /\ m.id # NoId /\ Holding(m.id) = {m.owner}
<1> DEFINE m == toClient[s][1]
<1>1. Shifted(Tail(toClient[s]), toClient[s])
  BY TailShifts DEF TypeOK
<1>2. 1 \in DOMAIN toClient[s] /\ \A k \in DOMAIN toClient[s] : ~(k < 1)
  <2>1. DOMAIN toClient[s] = 1 .. Len(toClient[s])
    BY LenProperties DEF TypeOK
  <2> QED
    BY <1>1, <2>1 DEF Shifted
<1>3. m.kind \in {"canceled", "data"} /\ m.kind # "refused"
  OBVIOUS
<1> HIDE DEF m
<1>4. m = toClient[s][1]
  BY DEF m
<1>5. m.owner \in watchers /\ id[m.owner] = m.id
  BY <1>2, <1>3, <1>4 DEF Named, HeldInTime, Has
<1>6. m.id \in DOMAIN served[s] /\ served[s][m.id] \in {m.owner, None}
  BY <1>2, <1>3, <1>4 DEF Named, AnswersNamed
<1>7. m.id # NoId
  BY <1>6, IdsStartAtOne
<1>8. ASSUME NEW v \in watchers, id[v] = m.id PROVE v = m.owner
  <2>1. Known(s, m.id, v)
    BY <1>7, <1>8 DEF Named, IdsKnown
  <2>2. CASE served[s][m.id] = v
    BY <1>6, <2>2, WatchAssumption DEF TypeOK
  <2>3. CASE served[s][m.id] # v
    <3>1. PICK k \in DOMAIN toClient[s] : Says(s, k, "canceled", m.id, v)
      BY <2>1, <2>3 DEF Known
    <3>2. /\ toClient[s][k].kind # "refused" /\ toClient[s][k].owner = v
          /\ toClient[s][k].id = m.id
      BY <3>1 DEF Says
    <3> QED
      BY <1>2, <1>3, <1>4, <3>2 DEF Named, OneOwner
  <2> QED
    BY <2>2, <2>3
<1> QED
  BY <1>4, <1>5, <1>7, <1>8 DEF Holding

\* A response that is taken leaves a shorter channel.
LEMMA Arrived ==
    ASSUME TypeOK, NEW s \in Stream, NEW kind, Arrives(s, kind)
    PROVE  /\ toClient[s] # <<>> /\ phase[s] = "open" /\ Turn
           /\ 1 \in DOMAIN toClient[s]
           /\ Shifted(Received(s)[s], toClient[s])
           /\ Head(toClient[s]) = toClient[s][1] /\ toClient[s][1].kind = kind
<1>1. toClient[s] # <<>> /\ toClient[s] \in Seq(Answer)
  BY DEF Arrives, TypeOK
<1>2. Shifted(Tail(toClient[s]), toClient[s]) /\ Head(toClient[s]) = toClient[s][1]
  BY <1>1, TailShifts
<1>3. Received(s)[s] = Tail(toClient[s])
  BY DEF Received, TypeOK
<1> QED
  BY <1>1, <1>2, <1>3 DEF Arrives, Shifted

\* Without its head a channel names no more than before.
LEMMA ShiftedAnswers ==
    ASSUME NEW s, AnswersNamed(s), OneOwner(s),
           Shifted(toClient'[s], toClient[s]), served'[s] = served[s]
    PROVE  AnswersNamed(s)' /\ OneOwner(s)'
<1>1. AnswersNamed(s)'
  BY DEF AnswersNamed, Shifted
<1>2. OneOwner(s)'
  <2> SUFFICES ASSUME NEW j \in DOMAIN toClient'[s], NEW k \in DOMAIN toClient'[s],
                      toClient'[s][j].kind # "refused",
                      toClient'[s][k].kind # "refused",
                      toClient'[s][j].id = toClient'[s][k].id
               PROVE  /\ toClient'[s][j].owner = toClient'[s][k].owner
                      /\ toClient'[s][j].kind = "canceled" => k <= j
    BY DEF OneOwner
  <2>1. /\ j + 1 \in DOMAIN toClient[s] /\ toClient'[s][j] = toClient[s][j + 1]
        /\ k + 1 \in DOMAIN toClient[s] /\ toClient'[s][k] = toClient[s][k + 1]
        /\ j \in Nat /\ k \in Nat
    BY DEF Shifted
  <2>2. /\ toClient[s][j + 1].owner = toClient[s][k + 1].owner
        /\ toClient[s][j + 1].kind = "canceled" => k + 1 <= j + 1
    BY <2>1 DEF OneOwner
  <2> QED
    BY <2>1, <2>2
<1> QED
  BY <1>1, <1>2

LEMMA ShiftedReplies ==
    ASSUME NEW s, Shifted(toClient'[s], toClient[s])
    PROVE  \A k \in Replies(s)' : /\ k + 1 \in Replies(s)
                                  /\ toClient'[s][k] = toClient[s][k + 1]
                                  /\ k \in Nat /\ k + 1 # 1
BY DEF Replies, Shifted

LEMMA SaysShifted ==
    ASSUME NEW s, Shifted(toClient'[s], toClient[s]), NEW k, NEW kind, NEW i, NEW w,
           Says(s, k, kind, i, w), toClient[s][1].kind # kind
    PROVE  k - 1 \in DOMAIN toClient'[s] /\ Says(s, k - 1, kind, i, w)'
           /\ k \in Nat /\ k # 1
BY DEF Says, Shifted

\* The answer to the one create under way is gone once it is taken.
LEMMA ReplyTaken ==
    ASSUME NEW s, Serial(s), Shifted(toClient'[s], toClient[s]),
           toClient[s][1].kind \in {"created", "refused"}
    PROVE  /\ 1 \in Replies(s) /\ Asks(s) = {} /\ Replies(s)' = {}
           /\ queueState # "Idle"
<1>1. 1 \in Replies(s)
  BY DEF Replies, Shifted
<1>2. Replies(s)' = {}
  BY <1>1, ShiftedReplies DEF Serial
<1> QED
  BY <1>1, <1>2 DEF Serial

\* 'created' hands its id to the head of the queue, whose create it answers.
LEMMA OnCreatedEffect ==
    ASSUME TypeOK, ConnectionInv, RouteInv, NEW s \in Stream, OnCreated(s)
    PROVE  \E w \in queue \cap watchers, i \in DOMAIN served[s] :
             /\ w = toClient[s][1].owner /\ i = toClient[s][1].id
             /\ i # NoId /\ id[w] = NoId
             /\ Known(s, i, w) /\ queue \subseteq watchers /\ Asks(s) = {}
             /\ id' = [id EXCEPT ![w] = i] /\ Wake({w})
             /\ ReadQueue(queue \ {w}, phase, s)
             /\ toClient' = Received(s)
             /\ UNCHANGED <<manager, rank, attaches, fired, phase, served, faults>>
<1>1. /\ toClient[s] # <<>> /\ phase[s] = "open" /\ 1 \in DOMAIN toClient[s]
      /\ Shifted(Received(s)[s], toClient[s])
      /\ Head(toClient[s]) = toClient[s][1] /\ toClient[s][1].kind = "created"
  BY Arrived DEF OnCreated
<1>2. state = "Connected" /\ stream = s /\ Routes(s)
  BY <1>1, OneOpen DEF RouteInv
<1>3. PICK w : w = toClient[s][1].owner
  OBVIOUS
<1>4. PICK i : i = toClient[s][1].id
  OBVIOUS
<1>5. /\ Leads(w) /\ queue \subseteq watchers /\ Asks(s) = {}
      /\ toClient[s][1].kind # "refused"
  BY <1>1, <1>2, <1>3 DEF Routes, Serial, Heads, Replies
<1>6. w \in Watcher /\ queue # {} /\ First(queue) = w /\ w \in queue \cap watchers
  BY <1>2, <1>5, HeadOfQueue DEF Routes, Leads
<1>7. /\ id' = [id EXCEPT ![w] = i] /\ Wake({w})
      /\ ReadQueue(queue \ {w}, phase, s)
      /\ toClient' = Received(s)
      /\ UNCHANGED <<manager, rank, attaches, fired, phase, served, faults>>
  BY <1>1, <1>2, <1>4, <1>6 DEF OnCreated
<1>8. /\ i \in DOMAIN served[s] /\ i # NoId /\ id[w] = NoId
      /\ served[s][i] \in {w, None} /\ Known(s, i, w)
  BY <1>1, <1>2, <1>3, <1>4, <1>5, <1>6, IdsStartAtOne
     DEF Routes, Named, AnswersNamed, IdsKnown, Heads
<1> QED
  BY <1>3, <1>4, <1>5, <1>6, <1>7, <1>8

\* The next create follows.
LEMMA OnCreatedRoutes ==
    ASSUME TypeOK, ConnectionInv, RouteInv, NEW s \in Stream, OnCreated(s)
    PROVE  Routes(s)' /\ Objects'
<1>1. /\ toClient[s] # <<>> /\ phase[s] = "open" /\ 1 \in DOMAIN toClient[s]
      /\ Shifted(Received(s)[s], toClient[s])
      /\ Head(toClient[s]) = toClient[s][1] /\ toClient[s][1].kind = "created"
  BY Arrived DEF OnCreated
<1>2. state = "Connected" /\ stream = s /\ Routes(s)
  BY <1>1, OneOpen DEF RouteInv
<1>3. PICK w \in queue \cap watchers, i \in DOMAIN served[s] :
        /\ w = toClient[s][1].owner /\ i = toClient[s][1].id
        /\ i # NoId /\ id[w] = NoId
        /\ Known(s, i, w) /\ queue \subseteq watchers /\ Asks(s) = {}
        /\ id' = [id EXCEPT ![w] = i] /\ Wake({w})
        /\ ReadQueue(queue \ {w}, phase, s)
        /\ toClient' = Received(s)
        /\ UNCHANGED <<manager, rank, attaches, fired, phase, served, faults>>
  BY OnCreatedEffect
<1>4. w \in Watcher /\ toClient[s][1].kind # "refused"
  BY <1>1, <1>3 DEF TypeOK
<1>5. Shifted(toClient'[s], toClient[s])
  BY <1>1, <1>3
<1>6. /\ watchers' = watchers /\ queue' = queue \ {w} /\ rank' = rank
      /\ served' = served
      /\ \A v \in Watcher : id'[v] = IF v = w THEN i ELSE id[v]
  BY <1>3 DEF manager, ReadQueue, TypeOK
<1>7. Objects'
  <2>1. queue \ {w} \in SUBSET queue
    OBVIOUS
  <2> QED
    BY <1>2, <1>3, <1>4, <1>6, <2>1, OnCreatedObjects
<1>8. Replies(s)' = {}
  BY <1>1, <1>2, <1>5, ReplyTaken DEF Routes
<1>9. /\ \A v \in watchers' : id'[v] = NoId => v \in queue'
      /\ \A v \in queue' : id'[v] = NoId
  BY <1>2, <1>3, <1>4, <1>6 DEF Routes, Heads, TypeOK
<1>10. Serial(s)' /\ Heads(s)' /\ CancelsNamed(s)'
  <2>1. CASE queue \ {w} = {}
    <3>1. queueState' = "Idle" /\ queue' = {} /\ toServer' = toServer
      BY <1>3, <2>1 DEF ReadQueue
    <3>2. Asks(s)' = {}
      BY <1>3, <3>1 DEF Asks
    <3> QED
      BY <1>2, <1>6, <1>8, <1>9, <3>1, <3>2
         DEF Serial, Heads, Routes, Named, CancelsNamed
  <2>2. CASE queue \ {w} # {}
    <3>1. PICK x \in queue \ {w} : /\ x = First(queue \ {w})
                                  /\ \A v \in queue \ {w} : rank[x] <= rank[v]
      <4>1. queue \ {w} \in SUBSET Watcher
        BY DEF TypeOK
      <4> QED
        BY <2>2, <4>1, FirstLeast
    <3>2. queueState' = "Attaching" /\ toServer' = Write(phase, s, CreateRequest(x))
      BY <1>3, <2>2, <3>1 DEF ReadQueue
    <3>3. x \in Watcher
      BY <3>1 DEF TypeOK
    <3>4. Extended(toServer'[s], toServer[s], Len(toServer[s]) + 1, CreateRequest(x))
      BY <1>1, <3>2, <3>3, WriteExtends, CreateIsRequest
    <3>5. Leads(x)'
      BY <1>6, <3>1 DEF Leads
    <3>6. queue' \subseteq watchers'
      BY <1>3, <1>6
    <3>7. Serial(s)' /\ Heads(s)'
      <4>1. Asks(s) = {}
        BY <1>3
      <4> QED
        BY <1>8, <1>9, <3>2, <3>3, <3>4, <3>5, <3>6, <4>1, CreateWritten
    <3> QED
      BY <1>2, <1>6, <3>3, <3>4, <3>7, CreateNames DEF Routes, Named
  <2> QED
    BY <2>1, <2>2
<1>11. AnswersNamed(s)' /\ OneOwner(s)'
  BY <1>2, <1>5, <1>6, ShiftedAnswers DEF Routes, Named
<1>12. \A j, v : Known(s, j, v) => Known(s, j, v)'
  <2> SUFFICES ASSUME NEW j, NEW v, Known(s, j, v) PROVE Known(s, j, v)'
    OBVIOUS
  <2>1. CASE served[s][j] = v
    BY <1>6, <2>1 DEF Known
  <2>2. CASE served[s][j] # v
    <3>1. served[s][j] = None /\ \E k \in DOMAIN toClient[s] : Says(s, k, "canceled", j, v)
      BY <2>2 DEF Known
    <3>2. \E k \in DOMAIN toClient'[s] : Says(s, k, "canceled", j, v)'
      BY <1>1, <1>5, <3>1, SaysShifted
    <3> QED
      BY <1>6, <3>1, <3>2 DEF Known
  <2> QED
    BY <2>1, <2>2
<1>13. IdsKnown(s)'
  <2>1. ASSUME NEW v \in watchers', NEW j, j = id'[v], j # NoId
        PROVE  Known(s, j, v)'
    <3>1. CASE v = w
      BY <1>3, <1>4, <1>6, <1>12, <2>1, <3>1
    <3>2. CASE v # w
      <4>1. v \in watchers /\ j = id[v]
        BY <1>6, <2>1, <3>2 DEF TypeOK
      <4>2. Known(s, j, v)
        BY <1>2, <2>1, <4>1 DEF Routes, Named, IdsKnown
      <4> QED
        BY <1>12, <4>2
    <3> QED
      BY <3>1, <3>2
  <2>2. \A k \in DOMAIN toClient'[s] : toClient'[s][k].kind # "created"
    BY <1>8 DEF Replies
  <2> QED
    BY <2>1, <2>2 DEF IdsKnown, Known, Says
<1>14. ServedHeld(s)'
  <2> SUFFICES ASSUME NEW j \in DOMAIN served[s], NEW v, v = served[s][j], v # None
               PROVE  Has(v, j)'
    BY <1>6 DEF ServedHeld, Has
  <2>1. CASE Has(v, j)
    <3>1. j # NoId
      BY IdsStartAtOne
    <3>2. v # w
      BY <1>3, <2>1, <3>1 DEF Has
    <3> QED
      BY <1>6, <2>1, <3>2 DEF Has, TypeOK
  <2>2. CASE ~Has(v, j)
    <3>1. PICK k \in DOMAIN toClient[s] : Says(s, k, "created", j, v)
      BY <1>2, <2>2 DEF Routes, Named, ServedHeld
    <3>2. k = 1
      BY <1>1, <1>2, <3>1 DEF Routes, Serial, Replies, Says
    <3>3. j = i /\ v = w
      BY <1>3, <3>1, <3>2 DEF Says
    <3> QED
      BY <1>3, <1>4, <1>6, <3>3 DEF Has
  <2> QED
    BY <2>1, <2>2
<1>15. HeldInTime(s)'
  <2> SUFFICES ASSUME NEW k \in DOMAIN toClient'[s], NEW o, NEW j,
                      toClient'[s][k].kind \in {"canceled", "data"},
                      o = toClient'[s][k].owner, j = toClient'[s][k].id
               PROVE  Has(o, j)'
    BY DEF HeldInTime, Has
  <2>1. PICK n : n \in DOMAIN toClient[s] /\ toClient'[s][k] = toClient[s][n]
    BY <1>5 DEF Shifted
  <2>2. o = toClient[s][n].owner /\ j = toClient[s][n].id
    BY <2>1
  <2>3. j # NoId
    <3>1. toClient[s][n].kind # "refused"
      BY <2>1
    <3>2. j \in DOMAIN served[s]
      BY <1>2, <2>1, <2>2, <3>1 DEF Routes, Named, AnswersNamed
    <3> QED
      BY <3>2, IdsStartAtOne
  <2>4. CASE Has(o, j)
    <3>1. o # w /\ o \in Watcher
      BY <1>3, <2>3, <2>4 DEF Has, TypeOK
    <3> QED
      BY <1>6, <2>4, <3>1 DEF Has
  <2>5. CASE ~Has(o, j)
    <3>1. PICK l \in DOMAIN toClient[s] : Says(s, l, "created", j, o)
      BY <1>2, <2>1, <2>2, <2>5 DEF Routes, Named, HeldInTime
    <3>2. l = 1
      BY <1>1, <1>2, <3>1 DEF Routes, Serial, Replies, Says
    <3>3. j = i /\ o = w
      BY <1>3, <3>1, <3>2 DEF Says
    <3> QED
      BY <1>3, <1>4, <1>6, <3>3 DEF Has
  <2> QED
    BY <2>4, <2>5
<1> QED
  BY <1>7, <1>10, <1>11, <1>13, <1>14, <1>15 DEF Routes, Named

\* A response other than 'created' is taken, and the watchers that leave with it
\* had no id or are the one it cancels.
LEMMA TakenNames ==
    ASSUME TypeOK, NEW s \in Stream, Named(s), NEW m, m = toClient[s][1],
           Shifted(toClient'[s], toClient[s]), m.kind # "created",
           UNCHANGED id, toServer'[s] = toServer[s], served'[s] = served[s],
           watchers' \subseteq watchers,
           \A g \in watchers \ watchers' :
             id[g] = NoId \/ (m.kind = "canceled" /\ id[g] = m.id),
           m.kind = "canceled" => m.owner \notin watchers'
    PROVE  Named(s)'
<1>1. 1 \in DOMAIN toClient[s]
  BY DEF Shifted
<1>2. CancelsNamed(s)'
  BY DEF Named, CancelsNamed
<1>3. AnswersNamed(s)' /\ OneOwner(s)'
  BY ShiftedAnswers DEF Named
<1>4. \A k \in DOMAIN toClient'[s] : /\ k + 1 \in DOMAIN toClient[s] /\ k \in Nat
                                     /\ toClient'[s][k] = toClient[s][k + 1]
                                     /\ ~(k + 1 <= 1)
  BY DEF Shifted
<1>5. ASSUME NEW i, NEW w, Known(s, i, w),
             m.kind = "canceled" => m.id # i \/ m.owner # w
      PROVE  Known(s, i, w)'
  <2>1. CASE served[s][i] = w
    BY <1>5, <2>1 DEF Known
  <2>2. CASE served[s][i] # w
    <3>1. PICK k : served[s][i] = None /\ Says(s, k, "canceled", i, w)
      BY <1>5, <2>2 DEF Known
    <3>2. k \in DOMAIN toClient[s] /\ k # 1
      BY <1>5, <3>1 DEF Says
    <3>3. k - 1 \in DOMAIN toClient'[s] /\ toClient'[s][k - 1] = toClient[s][k]
      BY <3>2 DEF Shifted
    <3>4. Says(s, k - 1, "canceled", i, w)'
      BY <3>1, <3>3 DEF Says
    <3> QED
      BY <1>5, <3>1, <3>3, <3>4 DEF Known
  <2> QED
    BY <2>1, <2>2
<1>6. IdsKnown(s)'
  <2>1. ASSUME NEW v \in watchers', NEW j, j = id[v], j # NoId
        PROVE  Known(s, j, v)'
    BY <1>5, <2>1 DEF Named, IdsKnown
  <2>2. ASSUME NEW k \in DOMAIN toClient'[s], NEW i, NEW w,
               Says(s, k, "created", i, w)'
        PROVE  Known(s, i, w)'
    <3>1. /\ k + 1 \in DOMAIN toClient[s] /\ ~(k + 1 <= 1)
          /\ Says(s, k + 1, "created", i, w)
      BY <1>4, <2>2 DEF Says
    <3>2. Known(s, i, w)
      BY <3>1 DEF Named, IdsKnown, Says
    <3>3. m.kind = "canceled" => m.id # i
      BY <1>1, <3>1 DEF Named, OneOwner, Says
    <3> QED
      BY <1>5, <3>2, <3>3
  <2> QED
    BY <2>1, <2>2 DEF IdsKnown, Known, Says
<1>7. ServedHeld(s)'
  <2> SUFFICES ASSUME NEW j \in DOMAIN served[s], NEW v, v = served[s][j], v # None
               PROVE  \/ Has(v, j)'
                      \/ \E k \in DOMAIN toClient'[s] : Says(s, k, "created", j, v)'
    BY DEF ServedHeld, Has, Says
  <2>1. CASE Has(v, j)
    <3>1. j # NoId
      BY IdsStartAtOne
    <3>2. m.kind = "canceled" => m.id # j
      BY <1>1 DEF Named, AnswersNamed
    <3> QED
      BY <2>1, <3>1, <3>2 DEF Has
  <2>2. CASE ~Has(v, j)
    <3>1. PICK k \in DOMAIN toClient[s] : Says(s, k, "created", j, v)
      BY <2>2 DEF Named, ServedHeld
    <3> QED
      BY <3>1, SaysShifted
  <2> QED
    BY <2>1, <2>2
<1>8. HeldInTime(s)'
  <2> SUFFICES ASSUME NEW k \in DOMAIN toClient'[s], NEW o, NEW j,
                      toClient'[s][k].kind \in {"canceled", "data"},
                      o = toClient'[s][k].owner, j = toClient'[s][k].id
               PROVE  \/ Has(o, j)'
                      \/ \E l \in DOMAIN toClient'[s] : l < k /\ Says(s, l, "created", j, o)'
    BY DEF HeldInTime, Has, Says
  <2>1. /\ k + 1 \in DOMAIN toClient[s] /\ ~(k + 1 <= 1) /\ k \in Nat
        /\ toClient[s][k + 1].kind \in {"canceled", "data"}
        /\ toClient[s][k + 1].kind # "refused"
        /\ o = toClient[s][k + 1].owner /\ j = toClient[s][k + 1].id
    BY <1>4
  <2>2. CASE Has(o, j)
    <3>1. j \in DOMAIN served[s]
      BY <2>1 DEF Named, AnswersNamed
    <3>2. j # NoId
      BY <3>1, IdsStartAtOne
    <3>3. m.kind = "canceled" => m.id # j
      BY <1>1, <2>1 DEF Named, OneOwner
    <3> QED
      BY <2>2, <3>2, <3>3 DEF Has
  <2>3. CASE ~Has(o, j)
    <3>1. PICK l \in DOMAIN toClient[s] : l < k + 1 /\ Says(s, l, "created", j, o)
      BY <2>1, <2>3 DEF Named, HeldInTime
    <3>2. l - 1 \in DOMAIN toClient'[s] /\ Says(s, l - 1, "created", j, o)' /\ l \in Nat
      BY <3>1, SaysShifted
    <3>3. l - 1 < k
      BY <2>1, <3>1, <3>2
    <3> QED
      BY <3>2, <3>3
  <2> QED
    BY <2>2, <2>3
<1> QED
  BY <1>2, <1>3, <1>6, <1>7, <1>8 DEF Named

\* handleCancelResponse: the watcher leaves, and the stream stays open or goes
\* down with the last one.
LEMMA FinishChannels ==
    ASSUME TypeOK, ConnectionInv, NEW s \in Stream, phase[s] = "open",
           NEW w, NEW destroy,
           HandleCancelResponse(w, Received(s), destroy), phase'[s] = "open"
    PROVE  /\ watchers' = watchers \ {w}
           /\ toServer'[s] = toServer[s] /\ toClient'[s] = Received(s)[s]
           /\ served'[s] = served[s]
           /\ UNCHANGED <<attachQueue, rank, id, phase>>
<1>1. stream = s
  BY OneOpen
<1>2. ~(destroy /\ watchers' = {})
  <2> SUFFICES ASSUME destroy /\ watchers' = {} PROVE FALSE
    OBVIOUS
  <2>1. phase' = Cancelled(phase, s)
    BY <1>1 DEF HandleCancelResponse, Links
  <2> QED
    BY <2>1 DEF Cancelled, TypeOK
<1>3. UNCHANGED attachQueue /\ Links(phase, Received(s))
  BY <1>2 DEF HandleCancelResponse
<1>4. /\ toServer'[s] = toServer[s] /\ toClient'[s] = Received(s)[s]
      /\ served'[s] = served[s] /\ phase' = phase
  BY <1>3 DEF Links
<1> QED
  BY <1>3, <1>4 DEF HandleCancelResponse

\* The queue is told of no more than before when a response is taken that is
\* not the answer to a create.
LEMMA TakenQueue ==
    ASSUME NEW s \in Stream, Serial(s), Heads(s),
           Shifted(toClient'[s], toClient[s]), toServer'[s] = toServer[s],
           UNCHANGED <<attachQueue, rank, id>>,
           watchers' \subseteq watchers, queue \cap watchers \subseteq watchers'
    PROVE  Serial(s)' /\ Heads(s)'
<1>1. Asks(s)' = Asks(s)
  BY DEF Asks
<1>2. \A k \in Replies(s)' : /\ k + 1 \in Replies(s) /\ k \in Nat
                             /\ toClient'[s][k] = toClient[s][k + 1]
  BY ShiftedReplies
<1>3. Serial(s)'
  BY <1>1, <1>2 DEF Serial, attachQueue
<1>4. \A w : Leads(w) => Leads(w)'
  BY DEF Leads, attachQueue
<1>5. Heads(s)'
  BY <1>1, <1>2, <1>4 DEF Heads, attachQueue
<1> QED
  BY <1>3, <1>5

\* The refusal is handed to the head of the queue, which has no id.
LEMMA OnRefusedEffect ==
    ASSUME TypeOK, ConnectionInv, RouteInv, NEW s \in Stream, OnRefused(s)
    PROVE  \E w \in queue \cap watchers :
             id[w] = NoId /\ HandleCancelResponse(w, Received(s), FALSE)
<1>1. phase[s] = "open" /\ 1 \in DOMAIN toClient[s] /\ toClient[s][1].kind = "refused"
  BY Arrived DEF OnRefused
<1>2. Heads(s) /\ 1 \in Replies(s)
  BY <1>1 DEF RouteInv, Routes, Replies
<1>3. PICK w : Leads(w) /\ queue \subseteq watchers
  BY <1>2 DEF Heads
<1>4. First(queue) = w /\ w \in queue /\ Holding(NoId) = queue /\ id[w] = NoId
  BY <1>2, <1>3, HeadOfQueue, WithoutId DEF Heads, Leads
<1> QED
  BY <1>3, <1>4 DEF OnRefused

\* It leaves it at the head of the queue, where no answer will find it.
LEMMA OnRefusedRoutes ==
    ASSUME TypeOK, ConnectionInv, RouteInv, NEW s \in Stream, OnRefused(s)
    PROVE  Objects' /\ (phase'[s] = "open" => Routes(s)')
<1>1. /\ toClient[s] # <<>> /\ phase[s] = "open" /\ Turn
      /\ Shifted(Received(s)[s], toClient[s]) /\ toClient[s][1].kind = "refused"
  BY Arrived DEF OnRefused
<1>2. state = "Connected" /\ Routes(s)
  BY <1>1, OneOpen DEF RouteInv
<1>3. PICK w \in queue \cap watchers :
        id[w] = NoId /\ HandleCancelResponse(w, Received(s), FALSE)
  BY OnRefusedEffect
<1>4. Objects'
  BY <1>1, <1>2, <1>3, FinishObjects
<1>5. ASSUME phase'[s] = "open" PROVE Routes(s)'
  <2>1. /\ watchers' = watchers \ {w}
        /\ toServer'[s] = toServer[s] /\ toClient'[s] = Received(s)[s]
        /\ served'[s] = served[s]
        /\ UNCHANGED <<attachQueue, rank, id>>
    BY <1>1, <1>3, <1>5, FinishChannels
  <2>2. Shifted(toClient'[s], toClient[s])
    BY <1>1, <2>1
  <2>3. Asks(s) = {} /\ Replies(s)' = {} /\ queueState # "Idle"
    BY <1>1, <1>2, <2>2, ReplyTaken DEF Routes
  <2>4. Asks(s)' = {}
    BY <2>1, <2>3 DEF Asks
  <2>5. Serial(s)'
    BY <2>1, <2>3, <2>4 DEF Serial, attachQueue
  <2>6. Heads(s)'
    BY <1>2, <2>1, <2>3, <2>4 DEF Routes, Heads, attachQueue
  <2>7. Named(s)'
    BY <1>1, <1>2, <1>3, <2>1, <2>2, TakenNames DEF Routes
  <2> QED
    BY <2>5, <2>6, <2>7 DEF Routes
<1> QED
  BY <1>4, <1>5

\* The cancellation is handed to the watcher it is about.
LEMMA OnCanceledEffect ==
    ASSUME TypeOK, ConnectionInv, RouteInv, NEW s \in Stream, OnCanceled(s)
    PROVE  \E w \in watchers :
             /\ w = toClient[s][1].owner /\ id[w] = toClient[s][1].id /\ id[w] # NoId
             /\ HandleCancelResponse(w, Received(s), TRUE)
<1>1. /\ toClient[s] # <<>> /\ phase[s] = "open"
      /\ Head(toClient[s]) = toClient[s][1] /\ toClient[s][1].kind = "canceled"
  BY Arrived DEF OnCanceled
<1>2. Named(s)
  BY <1>1 DEF RouteInv, Routes
<1>3. PICK w, i : /\ w = toClient[s][1].owner /\ i = toClient[s][1].id
                  /\ w \in watchers /\ i # NoId /\ Holding(i) = {w}
  BY <1>1, <1>2, OneHolder
<1>4. First({w}) = w /\ id[w] = i
  BY <1>3, FirstLeast DEF Holding, TypeOK
<1>5. HandleCancelResponse(w, Received(s), TRUE)
  BY <1>1, <1>3, <1>4 DEF OnCanceled
<1> QED
  BY <1>3, <1>4, <1>5

LEMMA OnCanceledRoutes ==
    ASSUME TypeOK, ConnectionInv, RouteInv, NEW s \in Stream, OnCanceled(s)
    PROVE  Objects' /\ (phase'[s] = "open" => Routes(s)')
<1>1. /\ toClient[s] # <<>> /\ phase[s] = "open" /\ Turn
      /\ Shifted(Received(s)[s], toClient[s])
      /\ Head(toClient[s]) = toClient[s][1] /\ toClient[s][1].kind = "canceled"
  BY Arrived DEF OnCanceled
<1>2. state = "Connected" /\ Routes(s)
  BY <1>1, OneOpen DEF RouteInv
<1>3. PICK w \in watchers :
        /\ w = toClient[s][1].owner /\ id[w] = toClient[s][1].id /\ id[w] # NoId
        /\ HandleCancelResponse(w, Received(s), TRUE)
  BY OnCanceledEffect
<1>4. Objects'
  BY <1>1, <1>2, <1>3, FinishObjects
<1>5. ASSUME phase'[s] = "open" PROVE Routes(s)'
  <2>1. /\ watchers' = watchers \ {w}
        /\ toServer'[s] = toServer[s] /\ toClient'[s] = Received(s)[s]
        /\ served'[s] = served[s]
        /\ UNCHANGED <<attachQueue, rank, id>>
    BY <1>1, <1>3, <1>5, FinishChannels
  <2>2. Shifted(toClient'[s], toClient[s])
    BY <1>1, <2>1
  <2>3. w \notin queue
    BY <1>2, <1>3 DEF Routes, Heads
  <2>4. Serial(s)' /\ Heads(s)'
    BY <1>2, <2>1, <2>2, <2>3, TakenQueue DEF Routes
  <2>5. Named(s)'
    BY <1>1, <1>2, <1>3, <2>1, <2>2, TakenNames DEF Routes
  <2> QED
    BY <2>4, <2>5 DEF Routes
<1> QED
  BY <1>4, <1>5

LEMMA OnDataRoutes ==
    ASSUME TypeOK, ConnectionInv, RouteInv, NEW s \in Stream, OnData(s)
    PROVE  Objects' /\ Routes(s)'
<1>1. /\ toClient[s] # <<>> /\ phase[s] = "open"
      /\ Shifted(Received(s)[s], toClient[s])
      /\ Head(toClient[s]) = toClient[s][1] /\ toClient[s][1].kind = "data"
  BY Arrived DEF OnData
<1>2. Routes(s)
  BY <1>1 DEF RouteInv
<1>3. Holding(toClient[s][1].id) # {}
  BY <1>1, <1>2, OneHolder DEF Routes
<1>4. /\ toClient' = Received(s)
      /\ UNCHANGED <<manager, attachQueue, objects, toServer, served>>
  BY <1>1, <1>3 DEF OnData
<1>5. Shifted(toClient'[s], toClient[s])
  BY <1>1, <1>4
<1>6. Serial(s)' /\ Heads(s)'
  BY <1>2, <1>4, <1>5, TakenQueue DEF Routes, manager, objects
<1>7. Named(s)'
  BY <1>1, <1>2, <1>4, <1>5, TakenNames DEF Routes, manager, objects
<1>8. Objects'
  BY <1>4, ObjectsUntouched DEF manager
<1> QED
  BY <1>6, <1>7, <1>8 DEF Routes

-----------------------------------------------------------------------------
(***************************************************************************)
(* What the server answers and reports.                                    *)
(***************************************************************************)

LEMMA AnswersExtend ==
    ASSUME TypeOK, NEW s \in Stream, NEW m \in Answer, Answers(s, <<m>>)
    PROVE  Extended(toClient'[s], toClient[s], Len(toClient[s]) + 1, m)
<1>1. toClient[s] \in Seq(Answer)
  BY DEF TypeOK
<1>2. toClient[s] \o <<m>> = Append(toClient[s], m)
  BY <1>1, AppendIsConcat
<1>3. toClient'[s] = Append(toClient[s], m)
  BY <1>2 DEF Answers, TypeOK
<1> QED
  BY <1>1, <1>3, AppendExtends

\* The request that the server handles is the oldest one of an open stream.
LEMMA RequestHandled ==
    ASSUME TypeOK, RouteInv, NEW s \in Stream, NEW kind, Asked(s, kind), NEW a,
           Answers(s, a)
    PROVE  /\ phase[s] = "open" /\ Shifted(toServer'[s], toServer[s])
           /\ Head(toServer[s]) = toServer[s][1] /\ toServer[s][1].kind = kind
           /\ toServer[s][1] \in Request
           /\ UNCHANGED <<manager, attachQueue, objects, phase>>
<1>1. toServer[s] # <<>> /\ toServer[s] \in Seq(Request)
  BY DEF Asked, TypeOK
<1>2. Shifted(Tail(toServer[s]), toServer[s]) /\ Head(toServer[s]) = toServer[s][1]
  BY <1>1, TailShifts
<1>3. toServer[s][1] \in Request
  BY <1>1, <1>2, HeadTailProperties
<1>4. phase[s] = "open"
  BY <1>1 DEF RouteInv, Silent
<1> QED
  BY <1>1, <1>2, <1>3, <1>4 DEF Answers, Asked, TypeOK

\* The answer to the create under way takes its place.
LEMMA CreateAnswered ==
    ASSUME NEW s \in Stream, Serial(s), Heads(s),
           Shifted(toServer'[s], toServer[s]), toServer[s][1].kind = "create",
           NEW n, NEW m, Extended(toClient'[s], toClient[s], n, m),
           m.kind \in {"created", "refused"}, m.owner = toServer[s][1].owner,
           UNCHANGED <<manager, attachQueue, objects>>
    PROVE  Serial(s)' /\ Heads(s)'
<1>1. 1 \in Asks(s)
  BY DEF Asks, Shifted
<1>2. Replies(s) = {} /\ queueState # "Idle" /\ queue \subseteq watchers
  BY <1>1 DEF Serial, Heads
<1>3. Asks(s)' = {}
  <2> SUFFICES ASSUME NEW k \in Asks(s)' PROVE FALSE
    OBVIOUS
  <2>1. k + 1 \in Asks(s) /\ k \in Nat /\ k + 1 # 1
    BY DEF Asks, Shifted
  <2> QED
    BY <1>1, <2>1 DEF Serial
<1>4. Replies(s)' = {n}
  BY <1>2 DEF Replies, Extended
<1>5. Serial(s)'
  BY <1>2, <1>3, <1>4 DEF Serial, attachQueue
<1>6. Leads(m.owner)'
  BY <1>1 DEF Heads, Leads, attachQueue, objects
<1>7. toClient'[s][n] = m
  BY DEF Extended
<1>8. Heads(s)'
  BY <1>2, <1>3, <1>4, <1>6, <1>7 DEF Heads, attachQueue, objects, manager
<1> QED
  BY <1>5, <1>8

\* Nothing else that the server does concerns the queue.
LEMMA NothingCreated ==
    ASSUME NEW s \in Stream, Serial(s), Heads(s),
           \/ Shifted(toServer'[s], toServer[s]) /\ toServer[s][1].kind # "create"
           \/ toServer'[s] = toServer[s],
           \/ \E n, m : /\ Extended(toClient'[s], toClient[s], n, m)
                        /\ m.kind \notin {"created", "refused"}
           \/ toClient'[s] = toClient[s],
           UNCHANGED <<manager, attachQueue, objects>>
    PROVE  Serial(s)' /\ Heads(s)'
<1>1. /\ \A k \in Asks(s)' : \E j \in Asks(s) : toServer'[s][k] = toServer[s][j]
      /\ \A j, k \in Asks(s)' : j = k
  <2>1. CASE toServer'[s] = toServer[s]
    BY <2>1 DEF Asks, Serial
  <2>2. CASE Shifted(toServer'[s], toServer[s])
    <3>1. \A k \in Asks(s)' : /\ k + 1 \in Asks(s) /\ k \in Nat
                              /\ toServer'[s][k] = toServer[s][k + 1]
      BY <2>2 DEF Asks, Shifted
    <3> QED
      BY <3>1 DEF Serial
  <2> QED
    BY <2>1, <2>2
<1>2. Replies(s)' = Replies(s) /\ \A k \in Replies(s) : toClient'[s][k] = toClient[s][k]
  <2>1. CASE toClient'[s] = toClient[s]
    BY <2>1 DEF Replies
  <2>2. ASSUME NEW n, NEW m, Extended(toClient'[s], toClient[s], n, m),
               m.kind \notin {"created", "refused"}
        PROVE  Replies(s)' = Replies(s) /\ \A k \in Replies(s) : toClient'[s][k] = toClient[s][k]
    BY <2>2 DEF Replies, Extended
  <2> QED
    BY <2>1, <2>2
<1>3. Asks(s)' # {} => Asks(s) # {}
  BY <1>1
<1>4. Serial(s)'
  BY <1>1, <1>2, <1>3 DEF Serial, attachQueue
<1>5. \A w : Leads(w) => Leads(w)'
  BY DEF Leads, attachQueue, objects
<1>6. /\ \A k \in Asks(s)' : \A w : w = toServer'[s][k].owner => Leads(w)'
      /\ \A k \in Replies(s)' : \A w : w = toClient'[s][k].owner => Leads(w)'
  <2>1. ASSUME NEW k \in Asks(s)', NEW w, w = toServer'[s][k].owner PROVE Leads(w)'
    BY <1>1, <1>5, <2>1 DEF Heads
  <2>2. ASSUME NEW k \in Replies(s)', NEW w, w = toClient'[s][k].owner PROVE Leads(w)'
    BY <1>2, <1>5, <2>2 DEF Heads
  <2> QED
    BY <2>1, <2>2
<1>7. Heads(s)'
  BY <1>2, <1>3, <1>6 DEF Heads, Leads, attachQueue, objects, manager
<1> QED
  BY <1>4, <1>7

\* The server's table only grows, and its entries only become None.
Grows(s) ==
    /\ DOMAIN served[s] \subseteq DOMAIN served'[s]
    /\ \A i \in DOMAIN served[s] : served'[s][i] \in {served[s][i], None}

LEMMA CancelsKept ==
    ASSUME NEW s \in Stream, CancelsNamed(s), Grows(s),
           Shifted(toServer'[s], toServer[s]) \/ toServer'[s] = toServer[s]
    PROVE  CancelsNamed(s)'
<1>1. \A k \in DOMAIN toServer'[s] : \E j \in DOMAIN toServer[s] : toServer'[s][k] = toServer[s][j]
  BY DEF Shifted
<1>2. \A j \in DOMAIN toServer[s] : toServer[s][j].kind = "cancel" =>
        /\ toServer[s][j].id \in DOMAIN served'[s]
        /\ served'[s][toServer[s][j].id] \in {toServer[s][j].owner, None}
  BY DEF CancelsNamed, Grows
<1> QED
  BY <1>1, <1>2 DEF CancelsNamed

\* A response that names no watch, or one that is served to its owner, is added.
LEMMA NamesTold ==
    ASSUME TypeOK, NEW s \in Stream, NamedAnswers(s),
           NEW n, NEW m, Extended(toClient'[s], toClient[s], n, m),
           \/ m.kind = "refused"
           \/ /\ m.kind = "data" /\ m.id \in DOMAIN served[s]
              /\ served[s][m.id] = m.owner /\ m.owner # None,
           UNCHANGED <<watchers, id>>, served'[s] = served[s]
    PROVE  NamedAnswers(s)'
<1>1. AnswersNamed(s)'
  BY DEF NamedAnswers, AnswersNamed, Extended
<1>2. OneOwner(s)'
  <2>1. ASSUME NEW k \in DOMAIN toClient[s], m.kind = "data",
               toClient[s][k].kind # "refused", toClient[s][k].id = m.id
        PROVE  toClient[s][k].owner = m.owner /\ toClient[s][k].kind # "canceled"
    BY <2>1 DEF NamedAnswers, AnswersNamed
  <2>2. m.kind # "canceled"
    OBVIOUS
  <2>3. toClient'[s][n] = m /\ n \in Nat
        /\ \A k \in DOMAIN toClient'[s] :
             k = n \/ (k \in DOMAIN toClient[s] /\ toClient'[s][k] = toClient[s][k] /\ k < n)
    BY DEF Extended
  <2> QED
    BY <2>1, <2>2, <2>3 DEF NamedAnswers, OneOwner
<1>3. \A i, w : Known(s, i, w) => Known(s, i, w)'
  BY DEF Known, Says, Extended
<1>4. IdsKnown(s)'
  <2>1. ASSUME NEW v \in watchers, NEW j, j = id[v], j # NoId
        PROVE  Known(s, j, v)'
    BY <1>3, <2>1 DEF NamedAnswers, IdsKnown
  <2>2. ASSUME NEW k \in DOMAIN toClient'[s], NEW i, NEW w,
               Says(s, k, "created", i, w)'
        PROVE  Known(s, i, w)'
    <3>1. Says(s, k, "created", i, w) /\ k \in DOMAIN toClient[s]
      BY <2>2 DEF Says, Extended
    <3>2. Known(s, i, w)
      BY <3>1 DEF NamedAnswers, IdsKnown, Says
    <3> QED
      BY <1>3, <3>2
  <2> QED
    BY <2>1, <2>2 DEF IdsKnown, Known, Says
<1>5. ServedHeld(s)'
  BY DEF NamedAnswers, ServedHeld, Has, Says, Extended
<1>6. HeldInTime(s)'
  <2> SUFFICES ASSUME NEW k \in DOMAIN toClient'[s], NEW o, NEW j,
                      toClient'[s][k].kind \in {"canceled", "data"},
                      o = toClient'[s][k].owner, j = toClient'[s][k].id
               PROVE  \/ Has(o, j)'
                      \/ \E l \in DOMAIN toClient'[s] : l < k /\ Says(s, l, "created", j, o)'
    BY DEF HeldInTime, Has, Says
  <2>1. CASE k = n
    <3>1. j \in DOMAIN served[s] /\ served[s][j] = o /\ o # None
      BY <2>1 DEF Extended
    <3>2. Has(o, j) \/ \E l \in DOMAIN toClient[s] : Says(s, l, "created", j, o)
      BY <3>1 DEF NamedAnswers, ServedHeld
    <3> QED
      BY <2>1, <3>2 DEF Has, Says, Extended
  <2>2. CASE k # n
    <3>1. k \in DOMAIN toClient[s] /\ toClient'[s][k] = toClient[s][k]
      BY <2>2 DEF Extended
    <3>2. Has(o, j) \/ \E l \in DOMAIN toClient[s] : l < k /\ Says(s, l, "created", j, o)
      BY <3>1 DEF NamedAnswers, HeldInTime
    <3> QED
      BY <3>2 DEF Has, Says, Extended
  <2> QED
    BY <2>1, <2>2
<1> QED
  BY <1>1, <1>2, <1>4, <1>5, <1>6 DEF NamedAnswers

\* A watch is created under an id that nothing has named.
LEMMA NamesCreated ==
    ASSUME TypeOK, NEW s \in Stream, NamedAnswers(s),
           NEW n, NEW i, NEW w \in Watcher, NEW m,
           Extended(toClient'[s], toClient[s], n, m),
           Extended(served'[s], served[s], i, w), i # NoId,
           m.kind = "created", m.id = i, m.owner = w,
           UNCHANGED <<watchers, id>>
    PROVE  NamedAnswers(s)'
<1>1. i \notin DOMAIN served[s] /\ i \in DOMAIN served'[s] /\ served'[s][i] = w
  BY DEF Extended
<1>2. \A j \in DOMAIN served[s] : j \in DOMAIN served'[s] /\ served'[s][j] = served[s][j]
  BY DEF Extended
<1>3. AnswersNamed(s)'
  BY <1>1, <1>2 DEF NamedAnswers, AnswersNamed, Extended
<1>4. OneOwner(s)'
  <2>1. ASSUME NEW k \in DOMAIN toClient[s], toClient[s][k].kind # "refused"
        PROVE  toClient[s][k].id # i
    BY <1>1, <2>1 DEF NamedAnswers, AnswersNamed
  <2>2. toClient'[s][n] = m /\ n \in Nat
        /\ \A k \in DOMAIN toClient'[s] :
             k = n \/ (k \in DOMAIN toClient[s] /\ toClient'[s][k] = toClient[s][k] /\ k < n)
    BY DEF Extended
  <2> QED
    BY <2>1, <2>2 DEF NamedAnswers, OneOwner
<1>5. \A j, v : Known(s, j, v) => Known(s, j, v)'
  BY <1>2 DEF Known, Says, Extended
<1>6. IdsKnown(s)'
  <2>1. ASSUME NEW v \in watchers, NEW j, j = id[v], j # NoId
        PROVE  Known(s, j, v)'
    BY <1>5, <2>1 DEF NamedAnswers, IdsKnown
  <2>2. ASSUME NEW k \in DOMAIN toClient'[s], NEW j, NEW v,
               Says(s, k, "created", j, v)'
        PROVE  Known(s, j, v)'
    <3>1. CASE k = n
      BY <1>1, <2>2, <3>1 DEF Says, Extended, Known
    <3>2. CASE k # n
      <4>1. Says(s, k, "created", j, v) /\ k \in DOMAIN toClient[s]
        BY <2>2, <3>2 DEF Says, Extended
      <4>2. Known(s, j, v)
        BY <4>1 DEF NamedAnswers, IdsKnown, Says
      <4> QED
        BY <1>5, <4>2
    <3> QED
      BY <3>1, <3>2
  <2> QED
    BY <2>1, <2>2 DEF IdsKnown, Known, Says
<1>7. ServedHeld(s)'
  <2> SUFFICES ASSUME NEW j \in DOMAIN served'[s], NEW v, v = served'[s][j], v # None
               PROVE  \/ Has(v, j)'
                      \/ \E k \in DOMAIN toClient'[s] : Says(s, k, "created", j, v)'
    BY DEF ServedHeld, Has, Says
  <2>1. CASE j = i
    <3>1. n \in DOMAIN toClient'[s] /\ Says(s, n, "created", j, v)'
      BY <1>1, <2>1 DEF Says, Extended
    <3> QED
      BY <3>1
  <2>2. CASE j # i
    <3>1. j \in DOMAIN served[s] /\ v = served[s][j]
      BY <2>2 DEF Extended
    <3>2. Has(v, j) \/ \E k \in DOMAIN toClient[s] : Says(s, k, "created", j, v)
      BY <3>1 DEF NamedAnswers, ServedHeld
    <3> QED
      BY <3>2 DEF Has, Says, Extended
  <2> QED
    BY <2>1, <2>2
<1>8. HeldInTime(s)'
  <2> SUFFICES ASSUME NEW k \in DOMAIN toClient'[s], NEW o, NEW j,
                      toClient'[s][k].kind \in {"canceled", "data"},
                      o = toClient'[s][k].owner, j = toClient'[s][k].id
               PROVE  \/ Has(o, j)'
                      \/ \E l \in DOMAIN toClient'[s] : l < k /\ Says(s, l, "created", j, o)'
    BY DEF HeldInTime, Has, Says
  <2>1. k \in DOMAIN toClient[s] /\ toClient'[s][k] = toClient[s][k]
    BY DEF Extended
  <2>2. Has(o, j) \/ \E l \in DOMAIN toClient[s] : l < k /\ Says(s, l, "created", j, o)
    BY <2>1 DEF NamedAnswers, HeldInTime
  <2> QED
    BY <2>2 DEF Has, Says, Extended
<1> QED
  BY <1>3, <1>4, <1>6, <1>7, <1>8 DEF NamedAnswers

\* A watch is cancelled, and its owner told so.
LEMMA NamesCancelled ==
    ASSUME TypeOK, NEW s \in Stream, NamedAnswers(s),
           NEW n, NEW i, NEW w, NEW m,
           Extended(toClient'[s], toClient[s], n, m),
           i \in DOMAIN served[s], served[s][i] = w, w # None,
           served'[s] = [served[s] EXCEPT ![i] = None],
           m.kind = "canceled", m.id = i, m.owner = w,
           UNCHANGED <<watchers, id>>
    PROVE  NamedAnswers(s)' /\ Grows(s)
<1>1. /\ DOMAIN served'[s] = DOMAIN served[s] /\ served'[s][i] = None
      /\ \A j \in DOMAIN served[s] : j = i \/ served'[s][j] = served[s][j]
  OBVIOUS
<1>2. Says(s, n, "canceled", i, w)' /\ n \in DOMAIN toClient'[s]
  BY DEF Says, Extended
<1>3. AnswersNamed(s)'
  BY <1>1 DEF NamedAnswers, AnswersNamed, Extended
<1>4. OneOwner(s)'
  <2>1. ASSUME NEW k \in DOMAIN toClient[s],
               toClient[s][k].kind # "refused", toClient[s][k].id = i
        PROVE  toClient[s][k].owner = w /\ toClient[s][k].kind # "canceled"
    BY <2>1 DEF NamedAnswers, AnswersNamed
  <2>2. toClient'[s][n] = m /\ n \in Nat
        /\ \A k \in DOMAIN toClient'[s] :
             k = n \/ (k \in DOMAIN toClient[s] /\ toClient'[s][k] = toClient[s][k] /\ k < n)
    BY DEF Extended
  <2>3. \A k \in DOMAIN toClient'[s] : k <= n
    <3>1. DOMAIN toClient[s] \subseteq Nat
      BY DEF Extended
    <3> QED
      BY <2>2, <3>1
  <2> QED
    BY <2>1, <2>2, <2>3 DEF NamedAnswers, OneOwner
<1>5. \A j, v : Known(s, j, v) => Known(s, j, v)'
  <2> SUFFICES ASSUME NEW j, NEW v, Known(s, j, v) PROVE Known(s, j, v)'
    OBVIOUS
  <2>1. CASE j = i
    <3>1. v = w
      BY <2>1 DEF Known
    <3> QED
      BY <1>1, <1>2, <2>1, <3>1 DEF Known
  <2>2. CASE j # i
    <3>1. served'[s][j] = served[s][j] /\ j \in DOMAIN served'[s]
      BY <1>1, <2>2 DEF Known
    <3> QED
      BY <3>1 DEF Known, Says, Extended
  <2> QED
    BY <2>1, <2>2
<1>6. IdsKnown(s)'
  <2>1. ASSUME NEW v \in watchers, NEW j, j = id[v], j # NoId
        PROVE  Known(s, j, v)'
    BY <1>5, <2>1 DEF NamedAnswers, IdsKnown
  <2>2. ASSUME NEW k \in DOMAIN toClient'[s], NEW j, NEW v,
               Says(s, k, "created", j, v)'
        PROVE  Known(s, j, v)'
    <3>1. Says(s, k, "created", j, v) /\ k \in DOMAIN toClient[s]
      BY <2>2 DEF Says, Extended
    <3>2. Known(s, j, v)
      BY <3>1 DEF NamedAnswers, IdsKnown, Says
    <3> QED
      BY <1>5, <3>2
  <2> QED
    BY <2>1, <2>2 DEF IdsKnown, Known, Says
<1>7. ServedHeld(s)'
  <2> SUFFICES ASSUME NEW j \in DOMAIN served'[s], NEW v, v = served'[s][j], v # None
               PROVE  \/ Has(v, j)'
                      \/ \E k \in DOMAIN toClient'[s] : Says(s, k, "created", j, v)'
    BY DEF ServedHeld, Has, Says
  <2>1. j \in DOMAIN served[s] /\ v = served[s][j]
    BY <1>1
  <2>2. Has(v, j) \/ \E k \in DOMAIN toClient[s] : Says(s, k, "created", j, v)
    BY <2>1 DEF NamedAnswers, ServedHeld
  <2> QED
    BY <2>2 DEF Has, Says, Extended
<1>8. HeldInTime(s)'
  <2> SUFFICES ASSUME NEW k \in DOMAIN toClient'[s], NEW o, NEW j,
                      toClient'[s][k].kind \in {"canceled", "data"},
                      o = toClient'[s][k].owner, j = toClient'[s][k].id
               PROVE  \/ Has(o, j)'
                      \/ \E l \in DOMAIN toClient'[s] : l < k /\ Says(s, l, "created", j, o)'
    BY DEF HeldInTime, Has, Says
  <2>1. CASE k = n
    <3>1. j = i /\ o = w
      BY <2>1 DEF Extended
    <3>2. Has(o, j) \/ \E l \in DOMAIN toClient[s] : Says(s, l, "created", j, o)
      BY <3>1 DEF NamedAnswers, ServedHeld
    <3> QED
      BY <2>1, <3>2 DEF Has, Says, Extended
  <2>2. CASE k # n
    <3>1. k \in DOMAIN toClient[s] /\ toClient'[s][k] = toClient[s][k]
      BY <2>2 DEF Extended
    <3>2. Has(o, j) \/ \E l \in DOMAIN toClient[s] : l < k /\ Says(s, l, "created", j, o)
      BY <3>1 DEF NamedAnswers, HeldInTime
    <3> QED
      BY <3>2 DEF Has, Says, Extended
  <2> QED
    BY <2>1, <2>2
<1>9. Grows(s)
  BY <1>1 DEF Grows
<1> QED
  BY <1>3, <1>4, <1>6, <1>7, <1>8, <1>9 DEF NamedAnswers

LEMMA ServerCreatesRoutes ==
    ASSUME TypeOK, ConnectionInv, RouteInv, NEW s \in Stream, ServerCreates(s)
    PROVE  Routes(s)'
<1>1. PICK w, i, m : /\ w = Head(toServer[s]).owner /\ i = Len(served[s]) + 1
                     /\ m = Response("created", i, w)
                     /\ Asked(s, "create") /\ Answers(s, <<m>>)
                     /\ served' = [served EXCEPT ![s] = Append(@, w)]
  BY DEF ServerCreates
<1>2. /\ phase[s] = "open" /\ Shifted(toServer'[s], toServer[s])
      /\ Head(toServer[s]) = toServer[s][1] /\ toServer[s][1].kind = "create"
      /\ toServer[s][1] \in Request
      /\ UNCHANGED <<manager, attachQueue, objects, phase>>
  BY <1>1, RequestHandled
<1>3. w \in Watcher /\ w = toServer[s][1].owner
  BY <1>1, <1>2 DEF Request
<1>4. served[s] \in Seq(Watcher \cup {None}) /\ i \in Nat /\ i # NoId
  BY <1>1, LenProperties DEF TypeOK, NoId
<1>5. m \in Answer /\ m.kind = "created" /\ m.id = i /\ m.owner = w
  BY <1>1, <1>3, <1>4 DEF Response, Answer
<1>6. PICK n : Extended(toClient'[s], toClient[s], n, m)
  BY <1>1, <1>5, AnswersExtend
<1>7. Extended(served'[s], served[s], i, w)
  <2>1. served'[s] = Append(served[s], w)
    BY <1>1 DEF TypeOK
  <2> QED
    BY <1>1, <1>3, <1>4, <2>1, AppendExtends
<1>8. Routes(s)
  BY <1>2 DEF RouteInv
<1>9. Serial(s)' /\ Heads(s)'
  BY <1>2, <1>3, <1>5, <1>6, <1>8, CreateAnswered DEF Routes
<1>10. NamedAnswers(s)'
  <2>1. UNCHANGED <<watchers, id>>
    BY <1>2 DEF manager, objects
  <2>2. NamedAnswers(s)
    BY <1>8 DEF Routes, Named, NamedAnswers
  <2> QED
    BY <1>3, <1>4, <1>5, <1>6, <1>7, <2>1, <2>2, NamesCreated
<1>11. CancelsNamed(s)'
  <2>1. Grows(s)
    BY <1>7 DEF Grows, Extended
  <2> QED
    BY <1>2, <1>8, <2>1, CancelsKept DEF Routes, Named
<1> QED
  BY <1>9, <1>10, <1>11 DEF Routes, Named, NamedAnswers

LEMMA ServerRefusesRoutes ==
    ASSUME TypeOK, ConnectionInv, RouteInv, NEW s \in Stream, ServerRefuses(s)
    PROVE  Routes(s)'
<1>1. PICK w, m : /\ w = Head(toServer[s]).owner /\ m = Response("refused", NoId, w)
                  /\ Asked(s, "create") /\ Answers(s, <<m>>)
                  /\ UNCHANGED served
  BY DEF ServerRefuses
<1>2. /\ phase[s] = "open" /\ Shifted(toServer'[s], toServer[s])
      /\ Head(toServer[s]) = toServer[s][1] /\ toServer[s][1].kind = "create"
      /\ toServer[s][1] \in Request
      /\ UNCHANGED <<manager, attachQueue, objects, phase>>
  BY <1>1, RequestHandled
<1>3. m \in Answer /\ m.kind = "refused" /\ m.owner = toServer[s][1].owner
  BY <1>1, <1>2 DEF Response, Answer, Request, NoId
<1>4. PICK n : Extended(toClient'[s], toClient[s], n, m)
  BY <1>1, <1>3, AnswersExtend
<1>5. Routes(s)
  BY <1>2 DEF RouteInv
<1>6. Serial(s)' /\ Heads(s)'
  BY <1>2, <1>3, <1>4, <1>5, CreateAnswered DEF Routes
<1>7. NamedAnswers(s)'
  BY <1>1, <1>2, <1>3, <1>4, <1>5, NamesTold
     DEF Routes, Named, NamedAnswers, manager, objects
<1>8. CancelsNamed(s)'
  <2>1. Grows(s)
    BY <1>1 DEF Grows
  <2> QED
    BY <1>2, <1>5, <2>1, CancelsKept DEF Routes, Named
<1> QED
  BY <1>6, <1>7, <1>8 DEF Routes, Named, NamedAnswers

LEMMA ServerCancelsRoutes ==
    ASSUME TypeOK, ConnectionInv, RouteInv, NEW s \in Stream, ServerCancels(s)
    PROVE  Routes(s)'
<1>1. PICK i, a : /\ i = Head(toServer[s]).id /\ Asked(s, "cancel") /\ Answers(s, a)
                  /\ \/ /\ Serves(s, i) /\ a = <<Response("canceled", i, served[s][i])>>
                        /\ served' = [served EXCEPT ![s][i] = None]
                     \/ ~Serves(s, i) /\ a = <<>> /\ UNCHANGED served
  BY DEF ServerCancels
<1>2. /\ phase[s] = "open" /\ Shifted(toServer'[s], toServer[s])
      /\ toServer[s][1].kind = "cancel"
      /\ UNCHANGED <<manager, attachQueue, objects, phase>>
  BY <1>1, RequestHandled
<1>3. Routes(s)
  BY <1>2 DEF RouteInv
<1>4. CASE Serves(s, i)
  <2>1. PICK w, m : w = served[s][i] /\ m = Response("canceled", i, w)
    OBVIOUS
  <2>2. i \in DOMAIN served[s] /\ i \in Nat /\ w \in Watcher /\ w # None
    <3>1. i \in DOMAIN served[s] /\ w # None
      BY <1>4, <2>1 DEF Serves
    <3>2. served[s] \in Seq(Watcher \cup {None})
      BY DEF TypeOK
    <3> QED
      BY <2>1, <3>1, <3>2, ElementOfSeq, LenProperties
  <2>3. m \in Answer /\ m.kind = "canceled" /\ m.id = i /\ m.owner = w
    BY <2>1, <2>2 DEF Response, Answer
  <2>4. Answers(s, <<m>>) /\ served'[s] = [served[s] EXCEPT ![i] = None]
    BY <1>1, <1>4, <2>1 DEF TypeOK
  <2>5. PICK n : Extended(toClient'[s], toClient[s], n, m)
    BY <2>3, <2>4, AnswersExtend
  <2>6. Serial(s)' /\ Heads(s)'
    BY <1>2, <1>3, <2>3, <2>5, NothingCreated DEF Routes
  <2>7. NamedAnswers(s)' /\ Grows(s)
    BY <1>2, <1>3, <2>1, <2>2, <2>3, <2>4, <2>5, NamesCancelled
       DEF Routes, Named, NamedAnswers, manager, objects
  <2>8. CancelsNamed(s)'
    BY <1>2, <1>3, <2>7, CancelsKept DEF Routes, Named
  <2> QED
    BY <2>6, <2>7, <2>8 DEF Routes, Named, NamedAnswers
<1>5. CASE ~Serves(s, i)
  <2>1. Answers(s, <<>>) /\ UNCHANGED served
    BY <1>1, <1>5
  <2>2. toClient[s] \in Seq(Answer)
    BY DEF TypeOK
  <2>3. toClient'[s] = toClient[s]
    BY <2>1, <2>2, ConcatEmptySeq DEF Answers, TypeOK
  <2>4. toClient' = toClient
    BY <2>1, <2>3 DEF Answers, TypeOK
  <2>5. Serial(s)' /\ Heads(s)'
    BY <1>2, <1>3, <2>3, NothingCreated DEF Routes
  <2>6. NamedAnswers(s)'
    BY <1>2, <1>3, <2>1, <2>4, AnswersUntouched
       DEF Routes, Named, NamedAnswers, manager, objects
  <2>7. CancelsNamed(s)'
    <3>1. Grows(s)
      BY <2>1 DEF Grows
    <3> QED
      BY <1>2, <1>3, <3>1, CancelsKept DEF Routes, Named
  <2> QED
    BY <2>5, <2>6, <2>7 DEF Routes, Named, NamedAnswers
<1> QED
  BY <1>4, <1>5

LEMMA ServerReportsRoutes ==
    ASSUME TypeOK, ConnectionInv, RouteInv, NEW s \in Stream,
           ServerDrops(s) \/ ServerSends(s)
    PROVE  phase[s] = "open" /\ Routes(s)'
<1>1. PICK i \in DOMAIN served[s], kind \in {"canceled", "data"} :
        /\ Serves(s, i)
        /\ toClient' = [toClient EXCEPT
             ![s] = Append(@, Response(kind, i, served[s][i]))]
        /\ \/ kind = "canceled" /\ served' = [served EXCEPT ![s][i] = None]
           \/ kind = "data" /\ UNCHANGED served
        /\ UNCHANGED <<manager, attachQueue, objects, phase, toServer>>
  BY DEF ServerDrops, ServerSends
<1>2. PICK w, m : w = served[s][i] /\ m = Response(kind, i, w)
  OBVIOUS
<1>3. i \in Nat /\ w \in Watcher /\ w # None /\ served[s] # <<>>
  <2>1. served[s] \in Seq(Watcher \cup {None}) /\ w # None
    BY <1>1, <1>2 DEF TypeOK, Serves
  <2> QED
    BY <1>2, <2>1, ElementOfSeq, LenProperties
<1>4. m \in Answer /\ m.kind = kind /\ m.id = i /\ m.owner = w
  BY <1>2, <1>3 DEF Response, Answer
<1>5. phase[s] = "open" /\ Routes(s)
  BY <1>3 DEF RouteInv, Silent
<1>6. Extended(toClient'[s], toClient[s], Len(toClient[s]) + 1, m)
  <2>1. toClient[s] \in Seq(Answer) /\ toClient'[s] = Append(toClient[s], m)
    BY <1>1, <1>2 DEF TypeOK
  <2> QED
    BY <1>4, <2>1, AppendExtends
<1>7. UNCHANGED <<watchers, id>> /\ toServer'[s] = toServer[s]
  BY <1>1 DEF manager, objects
<1>8. Serial(s)' /\ Heads(s)'
  BY <1>1, <1>4, <1>5, <1>6, NothingCreated DEF Routes
<1>9. NamedAnswers(s)' /\ Grows(s)
  <2>1. CASE kind = "canceled"
    <3>1. served'[s] = [served[s] EXCEPT ![i] = None]
      BY <1>1, <2>1 DEF TypeOK
    <3> QED
      BY <1>2, <1>3, <1>4, <1>5, <1>6, <1>7, <2>1, <3>1, NamesCancelled
         DEF Routes, Named, NamedAnswers
  <2>2. CASE kind = "data"
    <3>1. UNCHANGED served
      BY <1>1, <2>2
    <3>2. Grows(s)
      BY <3>1 DEF Grows
    <3> QED
      BY <1>2, <1>3, <1>4, <1>5, <1>6, <1>7, <2>2, <3>1, <3>2, NamesTold
         DEF Routes, Named, NamedAnswers
  <2> QED
    BY <2>1, <2>2
<1>10. CancelsNamed(s)'
  BY <1>5, <1>7, <1>9, CancelsKept DEF Routes, Named
<1> QED
  BY <1>5, <1>8, <1>9, <1>10 DEF Routes, Named, NamedAnswers

-----------------------------------------------------------------------------
(***************************************************************************)
(* RouteInv is inductive.                                                  *)
(***************************************************************************)

LEMMA ObjectsNext ==
    ASSUME ~AttachInGap, TypeOK, ConnectionInv, RouteInv, [Next]_vars
    PROVE  Objects'
<1>1. ASSUME NEW w \in Watcher, Cancel(w) \/ DetachResume(w) PROVE Objects'
  <2>1. w \in watchers /\ cancelling[w] # "end" /\ Detach(w)
    BY <1>1 DEF Cancel, DetachResume, RouteInv, Held
  <2> QED
    BY <2>1, DetachObjects
<1>2. ASSUME NEW s \in Stream, Events(s) PROVE Objects'
  <2>1. ASSUME NEW ph, HandleError(ph) PROVE Objects'
    BY <2>1, HandleErrorHolds DEF Objects
  <2>2. CASE StreamFails(s)
    BY <2>2, ObjectsUntouched DEF StreamFails, manager
  <2>3. CASE OpenFails(s) \/ StreamError(s) \/ StreamEnd(s) \/ GracefulEnd(s)
    BY <2>1, <2>3 DEF OpenFails, StreamError, StreamEnd, GracefulEnd
  <2> QED
    BY <1>2, <2>2, <2>3, StreamOpensObjects, OnCreatedRoutes, OnRefusedRoutes,
       OnCanceledRoutes, OnDataRoutes DEF Events
<1>3. ASSUME NEW s \in Stream, Server(s) PROVE Objects'
  <2>1. UNCHANGED <<manager, attachQueue, objects>>
    BY <1>3 DEF Server, ServerCreates, ServerRefuses, ServerCancels,
                ServerDrops, ServerSends, Answers
  <2> QED
    BY <2>1, ObjectsUntouched DEF manager
<1>4. CASE UNCHANGED vars
  BY <1>4, ObjectsUntouched DEF vars, manager
<1> QED
  BY <1>1, <1>2, <1>3, <1>4, AttachObjects, TimerObjects DEF Next, User

\* What is written to a stream that is not open is lost.
LEMMA WriteSilence ==
    ASSUME RouteInv, NEW t, NEW m, toServer \in [Stream -> Seq(Request)],
           toServer' = toServer \/ toServer' = Write(phase, t, m),
           UNCHANGED <<phase, toClient, served>>
    PROVE  Silent'
BY DEF RouteInv, Silent, Write

LEMMA ServerOpen ==
    ASSUME TypeOK, ConnectionInv, RouteInv, NEW s \in Stream, Server(s)
    PROVE  phase[s] = "open" /\ UNCHANGED phase
<1>1. CASE ServerDrops(s) \/ ServerSends(s)
  BY <1>1, ServerReportsRoutes DEF ServerDrops, ServerSends
<1>2. CASE ServerCreates(s) \/ ServerRefuses(s) \/ ServerCancels(s)
  BY <1>2 DEF ServerCreates, ServerRefuses, ServerCancels, Asked, Answers,
              RouteInv, Silent
<1> QED
  BY <1>1, <1>2 DEF Server

LEMMA SilentNext ==
    ASSUME ~AttachInGap, TypeOK, ConnectionInv, RouteInv, [Next]_vars
    PROVE  Silent'
<1>1. ASSUME NEW w \in Watcher, Attach(w) PROVE Silent'
  <2>1. CASE state = "Idle"
    <3>1. ~Gap /\ EstablishStream(watchers \cup {w})
          /\ UNCHANGED <<toServer, toClient, served>>
      BY <1>1, <2>1 DEF Attach
    <3> QED
      BY <2>1, <3>1, EstablishStreamCloses
  <2>2. CASE state # "Idle"
    <3>1. /\ toServer' = toServer \/ \E m : toServer' = Write(phase, stream, m)
          /\ UNCHANGED <<phase, toClient, served>>
      BY <1>1, <2>2 DEF Attach, Enqueue, ReadQueue
    <3> QED
      BY <3>1, WriteSilence DEF TypeOK
  <2> QED
    BY <2>1, <2>2
<1>2. ASSUME NEW w \in Watcher, Detach(w) PROVE Silent'
  <2>1. /\ toServer' = toServer \/ \E m : toServer' = Write(phase, stream, m)
        /\ UNCHANGED <<phase, toClient, served>>
    BY <1>2 DEF Detach
  <2> QED
    BY <2>1, WriteSilence DEF TypeOK
<1>3. ASSUME NEW s \in Stream, Events(s) PROVE Silent'
  <2>1. CASE StreamOpens(s)
    <3>1. phase' = [phase EXCEPT ![s] = "open"] \/ phase' = [phase EXCEPT ![s] = "errorDue"]
      BY <2>1 DEF StreamOpens
    <3>2. /\ phase'[s] # "open" => toServer' = toServer
          /\ \A t \in Stream \ {s} : toServer'[t] = toServer[t] /\ phase'[t] = phase[t]
          /\ UNCHANGED <<toClient, served>> /\ phase[s] = "opening"
      BY <2>1, <3>1 DEF StreamOpens, ReadQueue, Write, TypeOK
    <3> QED
      BY <3>2 DEF RouteInv, Silent
  <2>2. CASE StreamFails(s)
    <3>1. [phase EXCEPT ![s] = "errorDue"] \in [Stream -> Phase]
      BY DEF TypeOK, Phase
    <3> QED
      BY <2>2, <3>1, LinksSilence DEF StreamFails
  <2>3. CASE OpenFails(s) \/ StreamError(s) \/ StreamEnd(s) \/ GracefulEnd(s)
    BY <2>3, HandleErrorCloses DEF OpenFails, StreamError, StreamEnd, GracefulEnd
  <2>4. CASE OnCreated(s)
    <3>1. queue # {}
      <4>1. /\ 1 \in Replies(s) /\ Heads(s)
        <5>1. /\ phase[s] = "open" /\ 1 \in DOMAIN toClient[s]
              /\ toClient[s][1].kind = "created"
          BY <2>4, Arrived DEF OnCreated
        <5> QED
          BY <5>1 DEF Replies, RouteInv, Routes
      <4> QED
        BY <4>1 DEF Heads, Leads
    <3>2. /\ \A t \in Stream : toClient[t] = <<>> => t # s
          /\ phase[s] = "open"
      BY <2>4 DEF OnCreated, Arrives
    <3>3. /\ stream = s
          /\ \A t \in Stream \ {s} : toServer'[t] = toServer[t] /\ toClient'[t] = toClient[t]
          /\ UNCHANGED <<phase, served>>
      BY <2>4, <3>1, <3>2, OneOpen DEF OnCreated, ReadQueue, Write, Received, TypeOK
    <3> QED
      BY <3>2, <3>3 DEF RouteInv, Silent
  <2>5. ASSUME NEW w, NEW destroy, HandleCancelResponse(w, Received(s), destroy)
        PROVE  Silent'
    <3>1. PICK ph : Links(ph, Received(s)) /\ (ph = phase \/ ph = Cancelled(phase, stream))
      BY <2>5 DEF HandleCancelResponse
    <3>2. phase \in [Stream -> Phase]
      BY DEF TypeOK
    <3>3. Cancelled(phase, stream) \in [Stream -> Phase]
      BY <3>2, CancelledType
    <3> QED
      BY <3>1, <3>2, <3>3, LinksSilence
  <2>6. ASSUME phase[s] = "open", toClient' = Received(s),
               UNCHANGED <<phase, toServer, served>>
        PROVE  Silent'
    BY <2>6 DEF RouteInv, Silent, Received, TypeOK
  <2>7. CASE OnRefused(s) \/ OnCanceled(s) \/ OnData(s)
    BY <2>5, <2>6, <2>7 DEF OnRefused, OnCanceled, OnData, Throw, Arrives
  <2> QED
    BY <1>3, <2>1, <2>2, <2>3, <2>4, <2>7 DEF Events
<1>4. ASSUME NEW s \in Stream, Server(s) PROVE Silent'
  <2>1. phase[s] = "open" /\ UNCHANGED phase
    BY <1>4, ServerOpen
  <2>2. \A t \in Stream \ {s} : /\ toServer'[t] = toServer[t] /\ toClient'[t] = toClient[t]
                                /\ served'[t] = served[t]
    BY <1>4 DEF Server, ServerCreates, ServerRefuses, ServerCancels, ServerDrops,
                ServerSends, Answers, TypeOK
  <2> QED
    BY <2>1, <2>2 DEF RouteInv, Silent
<1>5. CASE TimerFires
  <2>1. CASE state = "Idle" /\ watchers # {}
    <3>1. ~Gap /\ EstablishStream(watchers) /\ UNCHANGED <<toServer, toClient, served>>
      BY <1>5, <2>1 DEF TimerFires, Turn
    <3> QED
      BY <2>1, <3>1, EstablishStreamCloses
  <2>2. CASE ~(state = "Idle" /\ watchers # {})
    BY <1>5, <2>2 DEF TimerFires, RouteInv, Silent
  <2> QED
    BY <2>1, <2>2
<1>6. CASE UNCHANGED vars
  BY <1>6 DEF vars, links, RouteInv, Silent
<1> QED
  BY <1>1, <1>2, <1>3, <1>4, <1>5, <1>6 DEF Next, User, Cancel, DetachResume

\* The steps that end with the stream s open.
LEMMA OpenSteps ==
    ASSUME ~AttachInGap, TypeOK, ConnectionInv, RouteInv, [Next]_vars,
           NEW s \in Stream, phase'[s] = "open"
    PROVE  \/ StreamOpens(s)
           \/ OnCreated(s) \/ OnRefused(s) \/ OnCanceled(s) \/ OnData(s)
           \/ /\ phase[s] = "open"
              /\ \/ \E w \in Watcher : Attach(w) \/ (w \in watchers /\ Detach(w))
                 \/ Server(s)
                 \/ UNCHANGED <<watchers, attachQueue, rank, id, toServer, toClient, served>>
<1> DEFINE Goal ==
      \/ StreamOpens(s)
      \/ OnCreated(s) \/ OnRefused(s) \/ OnCanceled(s) \/ OnData(s)
      \/ /\ phase[s] = "open"
         /\ \/ \E w \in Watcher : Attach(w) \/ (w \in watchers /\ Detach(w))
            \/ Server(s)
            \/ UNCHANGED <<watchers, attachQueue, rank, id, toServer, toClient, served>>
<1>1. ASSUME phase[s] = "open"
      PROVE  \A t \in Stream : phase[t] # "none" => t = s
  BY <1>1, OneOpen
<1>2. ASSUME NEW w \in Watcher, Attach(w) PROVE Goal
  <2>1. CASE state = "Idle"
    <3>1. ~Gap /\ EstablishStream(watchers \cup {w})
          /\ UNCHANGED <<toServer, toClient, served>>
      BY <1>2, <2>1 DEF Attach
    <3> QED
      BY <2>1, <3>1, EstablishStreamCloses
  <2>2. CASE state # "Idle"
    BY <1>2, <2>2 DEF Attach
  <2> QED
    BY <2>1, <2>2
<1>3. ASSUME NEW w \in Watcher, Cancel(w) \/ DetachResume(w) PROVE Goal
  <2>1. w \in watchers /\ Detach(w)
    BY <1>3 DEF Cancel, DetachResume, RouteInv, Held
  <2>2. phase[s] = "open"
    BY <2>1 DEF Detach
  <2> QED
    BY <2>1, <2>2
<1>4. ASSUME NEW t \in Stream, Events(t) PROVE Goal
  <2>1. CASE StreamOpens(t)
    <3>1. t = s
      BY <1>1, <2>1 DEF StreamOpens, TypeOK
    <3> QED
      BY <2>1, <3>1
  <2>2. CASE StreamFails(t)
    BY <1>1, <2>2 DEF StreamFails, Links, TypeOK
  <2>3. CASE OpenFails(t) \/ StreamError(t) \/ StreamEnd(t) \/ GracefulEnd(t)
    BY <2>3, HandleErrorCloses DEF OpenFails, StreamError, StreamEnd, GracefulEnd
  <2>4. CASE OnCreated(t) \/ OnRefused(t) \/ OnCanceled(t) \/ OnData(t)
    <3>1. phase[t] = "open" /\ \A r \in Stream : phase[r] # "none" => r = t
      BY <2>4, OneOpen DEF OnCreated, OnRefused, OnCanceled, OnData, Arrives
    <3>2. phase[s] # "none"
      <4>1. \A r \in Stream : phase'[r] = phase[r] \/ phase[r] = "open"
        BY <2>4 DEF OnCreated, OnRefused, OnCanceled, OnData, Throw,
                    HandleCancelResponse, Links, Cancelled, TypeOK
      <4> QED
        BY <4>1
    <3> QED
      BY <2>4, <3>1, <3>2
  <2> QED
    BY <1>4, <2>1, <2>2, <2>3, <2>4 DEF Events
<1>5. ASSUME NEW t \in Stream, Server(t) PROVE Goal
  <2>1. phase[t] = "open" /\ UNCHANGED phase
    BY <1>5, ServerOpen
  <2>2. t = s
    BY <1>1, <2>1
  <2> QED
    BY <1>5, <2>1, <2>2
<1>6. CASE TimerFires
  <2>1. CASE state = "Idle" /\ watchers # {}
    <3>1. ~Gap /\ EstablishStream(watchers) /\ UNCHANGED <<toServer, toClient, served>>
      BY <1>6, <2>1 DEF TimerFires, Turn
    <3> QED
      BY <2>1, <3>1, EstablishStreamCloses
  <2>2. CASE ~(state = "Idle" /\ watchers # {})
    BY <1>6, <2>2 DEF TimerFires
  <2> QED
    BY <2>1, <2>2
<1>7. CASE UNCHANGED vars
  BY <1>7 DEF vars, manager, attachQueue, objects, links
<1> QED
  BY <1>2, <1>3, <1>4, <1>5, <1>6, <1>7 DEF Next, User

LEMMA RoutesNext ==
    ASSUME ~AttachInGap, TypeOK, ConnectionInv, RouteInv, [Next]_vars,
           NEW s \in Stream, phase'[s] = "open"
    PROVE  Routes(s)'
<1>1. phase[s] = "open" => Routes(s)
  BY DEF RouteInv
<1>2. CASE \E w \in Watcher : Attach(w) /\ phase[s] = "open"
  BY <1>2, AttachRoutes
<1>3. CASE \E w \in Watcher : w \in watchers /\ Detach(w) /\ phase[s] = "open"
  BY <1>3, DetachRoutes
<1>4. CASE Server(s)
  BY <1>4, ServerCreatesRoutes, ServerRefusesRoutes, ServerCancelsRoutes,
     ServerReportsRoutes DEF Server
<1>5. CASE OnCreated(s) \/ OnRefused(s) \/ OnCanceled(s) \/ OnData(s)
  BY <1>5, OnCreatedRoutes, OnRefusedRoutes, OnCanceledRoutes, OnDataRoutes
<1> QED
  BY <1>1, <1>2, <1>3, <1>4, <1>5, OpenSteps, StreamOpensRoutes, RoutesUntouched

LEMMA RouteInvariant ==
    ASSUME ~AttachInGap
    PROVE  Spec => []RouteInv
<1>1. Init => RouteInv
  BY DEF Init, RouteInv, Ranked, Held, Disconnected, Silent
<1>2. TypeOK /\ ConnectionInv /\ RouteInv /\ [Next]_vars => RouteInv'
  BY ObjectsNext, SilentNext, RoutesNext DEF RouteInv, Objects
<1> QED
  BY <1>1, <1>2, TypeCorrect, ConnectionInvariant, PTL DEF Spec

LEMMA RoutedNow ==
    ASSUME TypeOK, RouteInv
    PROVE  RoutedToOwner
<1>1. ASSUME NEW s \in Stream, toClient[s] # <<>>
      PROVE  Picked(Head(toClient[s])) = Head(toClient[s]).owner
  <2>1. Routes(s)
    BY <1>1 DEF RouteInv, Silent
  <2>2. PICK m : /\ m = Head(toClient[s]) /\ m = toClient[s][1] /\ m \in Answer
                 /\ 1 \in DOMAIN toClient[s]
    <3>1. toClient[s] \in Seq(Answer)
      BY DEF TypeOK
    <3> QED
      BY <1>1, <3>1, TailShifts, HeadTailProperties DEF Shifted
  <2>3. CASE m.kind \in {"created", "refused"}
    <3>1. Replies(s) # {} /\ Leads(m.owner)
      BY <2>1, <2>2, <2>3 DEF Replies, Routes, Heads
    <3>2. queue # {} /\ First(queue) = m.owner /\ Holding(NoId) = queue
      BY <2>1, <3>1, HeadOfQueue, WithoutId DEF Routes
    <3> QED
      BY <2>2, <2>3, <3>2 DEF Picked
  <2>4. CASE m.kind \in {"canceled", "data"}
    <3>1. Holding(m.id) = {m.owner} /\ m.owner \in Watcher
      BY <1>1, <2>1, <2>2, <2>4, OneHolder DEF Routes, TypeOK
    <3>2. First({m.owner}) = m.owner
      BY <3>1, FirstLeast
    <3> QED
      BY <2>2, <2>4, <3>1, <3>2 DEF Picked
  <2> QED
    BY <2>2, <2>3, <2>4 DEF Answer
<1>2. CancelsOwnWatch
  <2> SUFFICES ASSUME NEW s \in Stream, NEW k \in DOMAIN toServer[s],
                      toServer[s][k].kind = "cancel"
               PROVE  served[s][toServer[s][k].id] \in {toServer[s][k].owner, None}
    BY DEF CancelsOwnWatch
  <2>1. toServer[s] # <<>>
    OBVIOUS
  <2>2. Routes(s)
    BY <2>1 DEF RouteInv, Silent
  <2> QED
    BY <2>2 DEF Routes, Named, CancelsNamed
<1> QED
  BY <1>1, <1>2 DEF RoutedToOwner, ResponsesRouted

\* Unless a watcher is created inside a 'disconnected' listener, the watcher that
\* watch.ts picks for a response (first of the queue, first without an id, first
\* with the id) is the one that the server means, whatever is in flight.
THEOREM Routing ==
    ASSUME ~AttachInGap
    PROVE  Spec => []RoutedToOwner
<1>1. TypeOK /\ RouteInv => RoutedToOwner
  BY RoutedNow
<1> QED
  BY <1>1, RouteInvariant, TypeCorrect, PTL

LEMMA OneAttachNow ==
    ASSUME RouteInv
    PROVE  OneAttachAtATime
<1>1. ASSUME NEW s \in Stream, NEW c \in Creating(s), NEW d \in Creating(s)
      PROVE  c = d
  <2>1. toServer[s] # <<>> \/ toClient[s] # <<>>
    BY <1>1 DEF Creating
  <2>2. Serial(s)
    BY <1>1, <2>1 DEF RouteInv, Routes, Silent
  <2>3. Creating(s) = (Asks(s) \X {"toServer"}) \cup (Replies(s) \X {"toClient"})
    BY DEF Creating, Asks, Replies
  <2> QED
    BY <2>2, <2>3 DEF Serial
<1> QED
  BY <1>1 DEF OneAttachAtATime

\* Under the same condition two creates are never under way on a stream, so that
\* 'created', which names no watcher, cannot be mistaken.
THEOREM AttachedOneByOne ==
    ASSUME ~AttachInGap
    PROVE  Spec => []OneAttachAtATime
<1>1. RouteInv => OneAttachAtATime
  BY OneAttachNow
<1> QED
  BY <1>1, RouteInvariant, PTL

-----------------------------------------------------------------------------
(***************************************************************************)
(* The queue and the server: as long as the server refuses no create, the  *)
(* queue does not wait for nothing.                                        *)
(***************************************************************************)

Busy(s) == Asks(s) # {} \/ Replies(s) # {}

Flight(s) ==
    /\ \A k \in DOMAIN toClient[s] : toClient[s][k].kind # "refused"
    /\ queueState = "Attaching" => Busy(s)

FlightInv == \A s \in Stream : phase[s] = "open" => Flight(s)

\* Messages that are added do not end it, nor do those taken that are neither a
\* create nor an answer to one.
LEMMA BusyKept ==
    ASSUME NEW s, Busy(s),
           \/ toServer'[s] = toServer[s]
           \/ \E n, m : Extended(toServer'[s], toServer[s], n, m)
           \/ Shifted(toServer'[s], toServer[s]) /\ toServer[s][1].kind # "create",
           \/ toClient'[s] = toClient[s]
           \/ \E n, m : Extended(toClient'[s], toClient[s], n, m)
           \/ /\ Shifted(toClient'[s], toClient[s])
              /\ toClient[s][1].kind \notin {"created", "refused"}
    PROVE  Busy(s)'
<1>1. Asks(s) # {} => Asks(s)' # {}
  BY DEF Asks, Extended, Shifted
<1>2. Replies(s) # {} => Replies(s)' # {}
  BY DEF Replies, Extended, Shifted
<1> QED
  BY <1>1, <1>2 DEF Busy

LEMMA CreateIsBusy ==
    ASSUME TypeOK, NEW s \in Stream, NEW ph, ph[s] = "open", NEW w \in Watcher,
           toServer' = Write(ph, s, CreateRequest(w))
    PROVE  Busy(s)'
<1>1. Extended(toServer'[s], toServer[s], Len(toServer[s]) + 1, CreateRequest(w))
  BY WriteExtends, CreateIsRequest
<1> QED
  BY <1>1, CreateIsRequest DEF Busy, Asks, Extended

LEMMA FlightSent ==
    ASSUME TypeOK, ConnectionInv, RouteInv, FlightInv,
           NEW s \in Stream, phase[s] = "open", NEW w \in Watcher,
           Attach(w) \/ Detach(w)
    PROVE  Flight(s)'
<1>1. state = "Connected" /\ stream = s /\ UNCHANGED toClient /\ Flight(s)
  BY OneOpen DEF Attach, Detach, FlightInv
<1>2. CASE Detach(w)
  <2>1. UNCHANGED queueState
    BY <1>2 DEF Detach, attachQueue
  <2>2. toServer'[s] = toServer[s] \/ \E n, m : Extended(toServer'[s], toServer[s], n, m)
    <3>1. CancelRequest(w) \in Request
      BY DEF CancelRequest, Request, TypeOK
    <3> QED
      BY <1>1, <1>2, <3>1, WriteExtends DEF Detach
  <2> QED
    BY <1>1, <2>1, <2>2, BusyKept DEF Flight
<1>3. CASE Attach(w)
  <2>1. Enqueue(w)
    BY <1>1, <1>3 DEF Attach
  <2>2. CASE queueState = "Idle"
    <3>1. queue = {}
      BY <2>2 DEF RouteInv, Routes, Serial
    <3>2. ReadQueue({w}, phase, s)
      BY <1>1, <2>1, <2>2, <3>1 DEF Enqueue
    <3>3. First({w}) = w
      BY FirstLeast
    <3>4. Busy(s)'
      BY <3>2, <3>3, CreateIsBusy DEF ReadQueue
    <3> QED
      BY <1>1, <3>4 DEF Flight
  <2>3. CASE queueState # "Idle"
    BY <1>1, <2>1, <2>3, BusyKept DEF Flight, Enqueue
  <2> QED
    BY <2>2, <2>3
<1> QED
  BY <1>2, <1>3

LEMMA FlightReceived ==
    ASSUME TypeOK, ConnectionInv, RouteInv, FlightInv,
           NEW s \in Stream, phase'[s] = "open",
           OnCreated(s) \/ OnRefused(s) \/ OnCanceled(s) \/ OnData(s)
    PROVE  Flight(s)'
<1>1. PICK kind : /\ kind \in {"created", "refused", "canceled", "data"}
                  /\ Arrives(s, kind)
                  /\ kind = "created" => OnCreated(s)
                  /\ kind = "refused" => OnRefused(s)
                  /\ kind = "canceled" => OnCanceled(s)
                  /\ kind = "data" => OnData(s)
  BY DEF OnCreated, OnRefused, OnCanceled, OnData
<1>2. /\ toClient[s] # <<>> /\ phase[s] = "open" /\ 1 \in DOMAIN toClient[s]
      /\ Shifted(Received(s)[s], toClient[s]) /\ toClient[s][1].kind = kind
      /\ Head(toClient[s]) = toClient[s][1]
  BY <1>1, Arrived
<1>3. Flight(s) /\ kind # "refused"
  BY <1>2 DEF FlightInv, Flight
<1>4. ASSUME toClient'[s] = Received(s)[s]
      PROVE  \A k \in DOMAIN toClient'[s] : toClient'[s][k].kind # "refused"
  BY <1>2, <1>3, <1>4 DEF Flight, Shifted
<1>5. CASE kind = "created"
  <2>1. PICK w \in queue \cap watchers, i \in DOMAIN served[s] :
          ReadQueue(queue \ {w}, phase, s) /\ toClient' = Received(s)
    BY <1>1, <1>5, OnCreatedEffect
  <2>2. queueState' = "Attaching" => Busy(s)'
    <3> SUFFICES ASSUME queue \ {w} # {} PROVE Busy(s)'
      BY <2>1 DEF ReadQueue
    <3>1. queue \ {w} \in SUBSET Watcher
      BY DEF TypeOK
    <3>2. First(queue \ {w}) \in Watcher
      BY <3>1, FirstIn
    <3> QED
      BY <1>2, <2>1, <3>2, CreateIsBusy DEF ReadQueue
  <2> QED
    BY <1>4, <2>1, <2>2 DEF Flight
<1>6. CASE kind # "created"
  <2>1. toServer'[s] = toServer[s] /\ toClient'[s] = Received(s)[s] /\ UNCHANGED attachQueue
    <3>1. CASE kind = "canceled"
      <4>1. PICK w \in watchers : HandleCancelResponse(w, Received(s), TRUE)
        BY <1>1, <3>1, OnCanceledEffect
      <4> QED
        BY <1>2, <4>1, FinishChannels
    <3>2. CASE kind = "data"
      <4>1. Holding(toClient[s][1].id) # {}
        BY <1>2, <3>2, OneHolder DEF RouteInv, Routes
      <4> QED
        BY <1>1, <1>2, <3>2, <4>1 DEF OnData
    <3> QED
      BY <1>1, <1>3, <1>6, <3>1, <3>2
  <2>2. Busy(s) => Busy(s)'
    BY <1>1, <1>2, <1>3, <1>6, <2>1, BusyKept
  <2> QED
    BY <1>3, <1>4, <2>1, <2>2 DEF Flight, attachQueue
<1> QED
  BY <1>5, <1>6

LEMMA FlightServed ==
    ASSUME "refuse" \notin FaultKinds, TypeOK, ConnectionInv, RouteInv, FlightInv,
           NEW s \in Stream, phase[s] = "open", Server(s)
    PROVE  Flight(s)'
<1>1. Flight(s)
  BY DEF FlightInv
<1>2. UNCHANGED queueState
  BY DEF Server, ServerCreates, ServerRefuses, ServerCancels, ServerDrops,
         ServerSends, Answers, attachQueue
<1>3. ASSUME NEW n, NEW m, Extended(toClient'[s], toClient[s], n, m), m.kind # "refused",
             m.kind = "created" \/ (Busy(s) => Busy(s)')
      PROVE  Flight(s)'
  <2>1. \A k \in DOMAIN toClient'[s] : toClient'[s][k].kind # "refused"
    BY <1>1, <1>3 DEF Flight, Extended
  <2>2. m.kind = "created" => Busy(s)'
    BY <1>3 DEF Busy, Replies, Extended
  <2> QED
    BY <1>1, <1>2, <1>3, <2>1, <2>2 DEF Flight
<1>4. CASE ServerCreates(s)
  <2>1. PICK m : m = Response("created", Len(served[s]) + 1, Head(toServer[s]).owner)
    OBVIOUS
  <2>2. Asked(s, "create") /\ Answers(s, <<m>>)
    BY <1>4, <2>1 DEF ServerCreates
  <2>3. toServer[s][1] \in Request /\ Head(toServer[s]) = toServer[s][1]
    BY <2>2, RequestHandled
  <2>4. m \in Answer /\ m.kind = "created"
    BY <2>1, <2>3, LenProperties DEF Response, Answer, Request, TypeOK
  <2> QED
    BY <1>3, <2>2, <2>4, AnswersExtend
<1>5. CASE ServerRefuses(s)
  BY <1>5 DEF ServerRefuses, Inject
<1>6. CASE ServerCancels(s)
  <2>1. PICK i, a : /\ i = Head(toServer[s]).id /\ Asked(s, "cancel") /\ Answers(s, a)
                    /\ \/ Serves(s, i) /\ a = <<Response("canceled", i, served[s][i])>>
                       \/ ~Serves(s, i) /\ a = <<>>
    BY <1>6 DEF ServerCancels
  <2>2. Shifted(toServer'[s], toServer[s]) /\ toServer[s][1].kind = "cancel"
    BY <2>1, RequestHandled
  <2>3. CASE Serves(s, i)
    <3>1. PICK m : m = Response("canceled", i, served[s][i]) /\ Answers(s, <<m>>)
      BY <2>1, <2>3
    <3>2. m \in Answer /\ m.kind = "canceled"
      <4>1. served[s] \in Seq(Watcher \cup {None}) /\ i \in DOMAIN served[s]
            /\ served[s][i] # None
        BY <2>3 DEF TypeOK, Serves
      <4>2. served[s][i] \in Watcher /\ i \in Nat
        BY <4>1, ElementOfSeq, LenProperties
      <4> QED
        BY <3>1, <4>2 DEF Response, Answer
    <3>3. PICK n : Extended(toClient'[s], toClient[s], n, m)
      BY <3>1, <3>2, AnswersExtend
    <3>4. Busy(s) => Busy(s)'
      BY <2>2, <3>3, BusyKept
    <3> QED
      BY <1>3, <3>2, <3>3, <3>4
  <2>4. CASE ~Serves(s, i)
    <3>1. toClient'[s] = toClient[s]
      <4>1. toClient[s] \in Seq(Answer) /\ Answers(s, <<>>)
        BY <2>1, <2>4 DEF TypeOK
      <4> QED
        BY <4>1, ConcatEmptySeq DEF Answers, TypeOK
    <3>2. Busy(s) => Busy(s)'
      BY <2>2, <3>1, BusyKept
    <3> QED
      BY <1>1, <1>2, <3>1, <3>2 DEF Flight
  <2> QED
    BY <2>3, <2>4
<1>7. CASE ServerDrops(s) \/ ServerSends(s)
  <2>1. PICK i \in DOMAIN served[s], kind \in {"canceled", "data"} :
          /\ toClient' = [toClient EXCEPT ![s] = Append(@, Response(kind, i, served[s][i]))]
          /\ UNCHANGED toServer /\ Serves(s, i)
    BY <1>7 DEF ServerDrops, ServerSends
  <2> DEFINE m == Response(kind, i, served[s][i])
  <2>2. m \in Answer /\ m.kind # "refused"
    <3>1. served[s] \in Seq(Watcher \cup {None}) /\ served[s][i] # None
      BY <2>1 DEF TypeOK, Serves
    <3>2. served[s][i] \in Watcher /\ i \in Nat
      BY <3>1, ElementOfSeq, LenProperties
    <3> QED
      BY <3>2 DEF Response, Answer
  <2>3. toClient[s] \in Seq(Answer) /\ toClient'[s] = Append(toClient[s], m)
    BY <2>1 DEF TypeOK
  <2>4. PICK n : Extended(toClient'[s], toClient[s], n, m)
    BY <2>2, <2>3, AppendExtends
  <2>5. Busy(s) => Busy(s)'
    BY <2>1, <2>4, BusyKept
  <2> QED
    BY <1>3, <2>2, <2>4, <2>5
<1> QED
  BY <1>4, <1>5, <1>6, <1>7 DEF Server

LEMMA FlightNext ==
    ASSUME ~AttachInGap, "refuse" \notin FaultKinds,
           TypeOK, ConnectionInv, RouteInv, FlightInv, [Next]_vars
    PROVE  FlightInv'
<1> SUFFICES ASSUME NEW s \in Stream, phase'[s] = "open" PROVE Flight(s)'
  BY DEF FlightInv
<1>1. CASE StreamOpens(s)
  <2>1. watchers # {}
    BY <1>1 DEF StreamOpens, TypeOK
  <2>2. ReadQueue(watchers, phase', s) /\ watchers \in SUBSET Watcher
    BY <1>1, <2>1 DEF StreamOpens, TypeOK
  <2>3. First(watchers) \in Watcher
    BY <2>1, <2>2, FirstIn
  <2>4. PICK w \in Watcher : w = First(watchers)
    BY <2>3
  <2>5. Busy(s)'
    BY <2>1, <2>2, <2>4, CreateIsBusy DEF ReadQueue
  <2>6. toClient'[s] = <<>>
    BY <1>1 DEF StreamOpens, RouteInv, Silent
  <2> QED
    BY <2>5, <2>6 DEF Flight
<1>2. CASE /\ phase[s] = "open"
           /\ UNCHANGED <<watchers, attachQueue, rank, id, toServer, toClient, served>>
  <2>1. Flight(s)
    BY <1>2 DEF FlightInv
  <2> QED
    BY <1>2, <2>1 DEF Flight, Busy, Asks, Replies, attachQueue
<1> QED
  BY <1>1, <1>2, OpenSteps, FlightSent, FlightReceived, FlightServed

\* If moreover the server refuses no create, an attach queue that is Attaching
\* has a create or its answer under way: it never waits for nothing.  (A refusal
\* makes it wait: watch.ts:347 does not tell the queue.)
THEOREM QueueProceeds ==
    ASSUME ~AttachInGap, "refuse" \notin FaultKinds
    PROVE  Spec => []AttachInFlight
<1>1. Init => FlightInv
  BY DEF Init, FlightInv
<1>2. TypeOK /\ ConnectionInv /\ RouteInv /\ FlightInv /\ [Next]_vars => FlightInv'
  BY FlightNext
<1>3. FlightInv => AttachInFlight
  <2>1. ASSUME NEW s, Busy(s) PROVE Creating(s) # {}
    <3>1. \A k \in Asks(s) : <<k, "toServer">> \in Creating(s)
      BY DEF Asks, Creating
    <3>2. \A k \in Replies(s) : <<k, "toClient">> \in Creating(s)
      BY DEF Replies, Creating
    <3> QED
      BY <2>1, <3>1, <3>2 DEF Busy
  <2> QED
    BY <2>1 DEF FlightInv, Flight, AttachInFlight
<1> QED
  BY <1>1, <1>2, <1>3, TypeCorrect, ConnectionInvariant, RouteInvariant, PTL DEF Spec

-----------------------------------------------------------------------------
(***************************************************************************)
(* The manager implements WatcherLifecycle, step by step.                  *)
(***************************************************************************)

\* The state of WatcherLifecycle that a state of the manager stands for.
Statuses == [w \in Watcher |-> Status(w)]
Cancelling == {w \in Watcher : cancelling[w] # "no"}

\* The manager's watchers are the ones that subscribe or have subscribed.
LEMMA StatusNow ==
    ASSUME RouteInv, NEW w \in Watcher
    PROVE  /\ w \in watchers =>
                Statuses[w] = IF id[w] # NoId THEN "subscribed" ELSE "subscribing"
           /\ w \notin watchers => Statuses[w] \in {"new", "closed", "failed"}
           /\ rank[w] = 0 <=> Statuses[w] = "new"
BY DEF Statuses, Status, RouteInv, Ranked, Held

LEMMA StatusThen ==
    ASSUME Objects', NEW w \in Watcher
    PROVE  Statuses'[w] =
             IF rank'[w] = 0 THEN "new"
             ELSE IF w \in watchers' THEN IF id'[w] # NoId THEN "subscribed" ELSE "subscribing"
             ELSE IF "end" \in fired'[w] THEN "closed"
             ELSE IF "error" \in fired'[w] THEN "failed"
             ELSE "closed"
BY DEF Objects, Statuses, Status, Held

\* A step that leaves a watcher's fields alone leaves its status alone.
LEMMA StatusSame ==
    ASSUME NEW w \in Watcher, rank'[w] = 0 <=> rank[w] = 0,
           w \in watchers' <=> w \in watchers, fired'[w] = fired[w],
           id'[w] # NoId <=> id[w] # NoId
    PROVE  Statuses'[w] = Statuses[w]
BY DEF Statuses, Status

LEMMA ActiveWatchers ==
    ASSUME TypeOK, RouteInv
    PROVE  Lifecycle!Active = watchers
<1>1. Lifecycle!Active = {w \in Watcher : Statuses[w] \in {"subscribing", "subscribed"}}
  BY DEF Lifecycle!Active, Statuses
<1>2. \A w \in Watcher : Statuses[w] \in {"subscribing", "subscribed"} <=> w \in watchers
  <2> SUFFICES ASSUME NEW w \in Watcher
               PROVE  Statuses[w] \in {"subscribing", "subscribed"} <=> w \in watchers
    OBVIOUS
  <2> QED
    BY StatusNow
<1> QED
  BY <1>1, <1>2 DEF TypeOK

\* A step that changes neither the connection nor a status, and wakes cancel()s
\* at most.
LEMMA Unnoticed ==
    ASSUME UNCHANGED state, \A w \in Watcher : Statuses'[w] = Statuses[w],
           \A w \in Watcher : cancelling'[w] = "no" <=> cancelling[w] = "no"
    PROVE  UNCHANGED Lifecycle!vars
<1>1. Statuses' = Statuses
  BY DEF Statuses
<1>2. Cancelling' = Cancelling
  BY DEF Cancelling
<1> QED
  BY <1>1, <1>2 DEF Lifecycle!vars, Statuses, Cancelling

LEMMA AttachCreates ==
    ASSUME TypeOK, ConnectionInv, RouteInv, Objects', NEW w \in Watcher, Attach(w)
    PROVE  Lifecycle!Create(w)
<1>1. /\ rank[w] = 0 /\ rank'[w] # 0 /\ id[w] = NoId /\ UNCHANGED id
      /\ w \notin watchers /\ w \notin expectedClosers
      /\ \A v \in Watcher \ {w} : rank'[v] = rank[v]
  BY DEF Attach, RouteInv, Ranked, Held, TypeOK
<1>2. Statuses[w] = "new"
  BY <1>1, StatusNow
<1>3. CASE state = "Idle"
  <2>1. EstablishStream(watchers \cup {w})
    BY <1>3 DEF Attach
  <2>2. /\ state' = "Connecting" /\ watchers' = (watchers \cup {w}) \ expectedClosers
        /\ \A v \in Watcher : fired'[v] =
             fired[v] \cup IF v \in expectedClosers THEN {"end"} ELSE {}
        /\ \A v \in Watcher : cancelling'[v] =
             IF v \in expectedClosers /\ cancelling[v] = "end" THEN "done" ELSE cancelling[v]
    BY <2>1 DEF EstablishStream, EmitEnd
  <2>3. expectedClosers \subseteq Cancelling \cap Lifecycle!Active
    BY ActiveWatchers DEF Cancelling, RouteInv, Held, TypeOK
  <2>4. \A v \in Watcher : Statuses'[v] =
          IF v \in expectedClosers THEN "closed"
          ELSE IF v = w THEN "subscribing" ELSE Statuses[v]
    <3> SUFFICES ASSUME NEW v \in Watcher
                 PROVE  Statuses'[v] =
                          IF v \in expectedClosers THEN "closed"
                          ELSE IF v = w THEN "subscribing" ELSE Statuses[v]
      OBVIOUS
    <3>1. CASE v \in expectedClosers
      <4>1. rank'[v] # 0
        BY <1>1, <3>1 DEF RouteInv, Ranked, Held
      <4> QED
        BY <2>2, <3>1, <4>1, StatusThen
    <3>2. CASE v = w
      BY <1>1, <2>2, <3>2, StatusThen
    <3>3. CASE v # w /\ v \notin expectedClosers
      <4>1. fired'[v] = fired[v]
        BY <2>2, <3>3
      <4> QED
        BY <1>1, <2>2, <3>3, <4>1, StatusSame
    <3> QED
      BY <3>1, <3>2, <3>3
  <2>5. Statuses' = [v \in Watcher |->
          IF v \in expectedClosers THEN "closed" ELSE [Statuses EXCEPT ![w] = "subscribing"][v]]
    BY <2>4 DEF Statuses
  <2>6. Cancelling' = Cancelling
    BY <2>2 DEF Cancelling
  <2> QED
    BY <1>2, <1>3, <2>2, <2>3, <2>5, <2>6
       DEF Lifecycle!Create, Lifecycle!Closed, Lifecycle!Joined, Statuses, Cancelling
<1>4. CASE state # "Idle"
  <2>1. /\ watchers' = watchers \cup {w} /\ UNCHANGED <<state, fired, cancelling>>
    BY <1>4 DEF Attach
  <2>2. Statuses'[w] = "subscribing"
    BY <1>1, <2>1, StatusThen
  <2>3. \A v \in Watcher \ {w} : Statuses'[v] = Statuses[v]
    BY <1>1, <2>1, StatusSame
  <2>4. Statuses' = [Statuses EXCEPT ![w] = "subscribing"]
    BY <2>2, <2>3 DEF Statuses
  <2>5. Cancelling' = Cancelling
    BY <2>1 DEF Cancelling
  <2> QED
    BY <1>2, <1>4, <2>1, <2>4, <2>5
       DEF Lifecycle!Create, Lifecycle!Joined, Statuses, Cancelling
<1> QED
  BY <1>3, <1>4

\* detach() closes a watcher that has no connection, and leaves any other alone.
LEMMA DetachStatus ==
    ASSUME TypeOK, RouteInv, Objects', NEW w \in watchers, Detach(w)
    PROVE  /\ UNCHANGED state /\ w \in Watcher
           /\ Statuses' = IF state = "Connected" THEN Statuses
                          ELSE [v \in Watcher |-> IF v \in {w} THEN "closed" ELSE Statuses[v]]
           /\ Cancelling' = Cancelling \cup {w}
<1>1. /\ UNCHANGED <<state, rank, id, fired>> /\ w \in Watcher
      /\ watchers' = IF state = "Connected" THEN watchers ELSE watchers \ {w}
      /\ cancelling'[w] # "no" /\ \A v \in Watcher \ {w} : cancelling'[v] = cancelling[v]
  BY DEF Detach, TypeOK
<1>2. \A v \in Watcher : v # w \/ state = "Connected" => Statuses'[v] = Statuses[v]
  BY <1>1, StatusSame
<1>3. rank'[w] # 0 /\ fired'[w] = {}
  BY <1>1 DEF RouteInv, Ranked, Held
<1>4. state # "Connected" => Statuses'[w] = "closed"
  BY <1>1, <1>3, StatusThen
<1>5. Cancelling' = Cancelling \cup {w}
  BY <1>1 DEF Cancelling
<1> QED
  BY <1>1, <1>2, <1>4, <1>5 DEF Statuses

LEMMA CancelCancels ==
    ASSUME TypeOK, RouteInv, Objects', NEW w \in Watcher, Cancel(w)
    PROVE  Lifecycle!Cancel(w)
<1>1. w \in Lifecycle!Active /\ Detach(w) /\ w \in watchers
  BY ActiveWatchers DEF Cancel
<1> QED
  BY <1>1, DetachStatus DEF Lifecycle!Cancel, Lifecycle!Closed, Statuses, Cancelling

LEMMA ResumeCloses ==
    ASSUME TypeOK, RouteInv, Objects', NEW w \in Watcher, DetachResume(w)
    PROVE  Lifecycle!Close(w) \/ UNCHANGED Lifecycle!vars
<1>1. w \in watchers /\ w \in Cancelling /\ Detach(w)
  BY DEF DetachResume, RouteInv, Held, Cancelling
<1>2. w \in Lifecycle!Active /\ Cancelling' = Cancelling
  BY <1>1, ActiveWatchers, DetachStatus
<1> QED
  BY <1>1, <1>2, DetachStatus
     DEF Lifecycle!Close, Lifecycle!Closed, Lifecycle!vars, Statuses, Cancelling

LEMMA HandleErrorLoses ==
    ASSUME TypeOK, RouteInv, Objects', NEW ph, HandleError(ph)
    PROVE  Lifecycle!Lose \/ UNCHANGED Lifecycle!vars
<1>1. /\ state' = "Idle"
      /\ \A w \in Watcher : id'[w] = IF w \in watchers THEN NoId ELSE id[w]
      /\ \A w \in Watcher : cancelling'[w] =
           IF w \in watchers /\ cancelling[w] = "id" THEN "resume" ELSE cancelling[w]
      /\ UNCHANGED <<watchers, rank, fired>>
  BY DEF HandleError, ResetIds, Wake
<1>2. \A w \in Watcher : cancelling'[w] = "no" <=> cancelling[w] = "no"
  BY <1>1
<1>3. CASE state = "Idle"
  <2>1. \A w \in watchers : id[w] = NoId
    BY <1>3 DEF RouteInv, Disconnected
  <2>2. \A w \in Watcher : Statuses'[w] = Statuses[w]
    BY <1>1, <2>1, StatusSame
  <2> QED
    BY <1>1, <1>2, <1>3, <2>2, Unnoticed
<1>4. CASE state # "Idle"
  <2>1. \A w \in Watcher : Statuses'[w] =
          IF Statuses[w] = "subscribed" THEN "subscribing" ELSE Statuses[w]
    <3>1. ASSUME NEW w \in watchers
          PROVE  Statuses'[w] = "subscribing" /\ Statuses[w] \in {"subscribing", "subscribed"}
      <4>1. w \in Watcher /\ rank'[w] # 0
        BY <1>1, <3>1 DEF TypeOK, RouteInv, Ranked
      <4> QED
        BY <1>1, <3>1, <4>1, StatusNow, StatusThen
    <3>2. ASSUME NEW w \in Watcher \ watchers
          PROVE  Statuses'[w] = Statuses[w] /\ Statuses[w] # "subscribed"
      BY <1>1, StatusNow, StatusSame
    <3> QED
      BY <3>1, <3>2
  <2>2. Statuses' = [w \in Watcher |->
          IF Statuses[w] = "subscribed" THEN "subscribing" ELSE Statuses[w]]
    BY <2>1 DEF Statuses
  <2>3. Cancelling' = Cancelling
    BY <1>2 DEF Cancelling
  <2> QED
    BY <1>1, <1>4, <2>2, <2>3 DEF Lifecycle!Lose, Statuses, Cancelling
<1> QED
  BY <1>3, <1>4

LEMMA StreamOpensOpens ==
    ASSUME TypeOK, ConnectionInv, RouteInv, NEW s \in Stream, StreamOpens(s)
    PROVE  Lifecycle!Open
<1>1. state = "Connecting" /\ state' = "Connected" /\ UNCHANGED <<watchers, objects>>
  BY DEF StreamOpens, ConnectionInv
<1>2. Statuses' = Statuses /\ Cancelling' = Cancelling
  <2>1. \A w \in Watcher : Statuses'[w] = Statuses[w]
    BY <1>1, StatusSame DEF objects
  <2> QED
    BY <1>1, <2>1 DEF Statuses, Cancelling, objects
<1> QED
  BY <1>1, <1>2 DEF Lifecycle!Open, Statuses, Cancelling

LEMMA OnCreatedSubscribes ==
    ASSUME TypeOK, ConnectionInv, RouteInv, Objects', NEW s \in Stream, OnCreated(s)
    PROVE  \E w \in Watcher : Lifecycle!Subscribe(w)
<1>1. state = "Connected"
  BY OneOpen DEF OnCreated, Arrives
<1>2. PICK w \in queue \cap watchers, i \in DOMAIN served[s] :
        /\ i # NoId /\ id[w] = NoId /\ id' = [id EXCEPT ![w] = i] /\ Wake({w})
        /\ UNCHANGED <<manager, rank, fired>>
  BY OnCreatedEffect
<1>3. w \in Watcher /\ id'[w] # NoId /\ rank'[w] # 0 /\ UNCHANGED <<state, watchers>>
  BY <1>2 DEF TypeOK, RouteInv, Ranked, manager
<1>4. \A v \in Watcher \ {w} : id'[v] = id[v]
  BY <1>2 DEF TypeOK
<1>5. Statuses[w] = "subscribing" /\ Statuses'[w] = "subscribed"
  BY <1>2, <1>3, StatusNow, StatusThen
<1>6. \A v \in Watcher \ {w} : Statuses'[v] = Statuses[v]
  BY <1>2, <1>3, <1>4, StatusSame
<1>7. Statuses' = [Statuses EXCEPT ![w] = "subscribed"]
  BY <1>5, <1>6 DEF Statuses
<1>8. Cancelling' = Cancelling
  BY <1>2 DEF Cancelling, Wake
<1> QED
  BY <1>1, <1>3, <1>5, <1>7, <1>8 DEF Lifecycle!Subscribe, Statuses, Cancelling

\* The watcher that leaves had been asked to, or it fails.
LEMMA FinishFinishes ==
    ASSUME TypeOK, ConnectionInv, RouteInv, Objects', state = "Connected",
           NEW w \in watchers, NEW down, NEW destroy,
           HandleCancelResponse(w, down, destroy)
    PROVE  Lifecycle!Close(w) \/ Lifecycle!Fail(w)
<1>1. /\ watchers' = watchers \ {w} /\ UNCHANGED <<state, rank, id>>
      /\ w \in Watcher /\ rank'[w] # 0 /\ fired[w] = {} /\ w \in Lifecycle!Active
  BY ActiveWatchers DEF HandleCancelResponse, TypeOK, RouteInv, Ranked, Held
<1>2. CASE w \in expectedClosers
  <2>1. /\ \A v \in Watcher : fired'[v] = fired[v] \cup IF v = w THEN {"end"} ELSE {}
        /\ \A v \in Watcher : cancelling'[v] =
             IF v = w /\ cancelling[v] = "end" THEN "done" ELSE cancelling[v]
    BY <1>2 DEF HandleCancelResponse, Finish, EmitEnd
  <2>2. Statuses'[w] = "closed"
    BY <1>1, <2>1, StatusThen
  <2>3. \A v \in Watcher \ {w} : fired'[v] = fired[v]
    BY <2>1
  <2>4. \A v \in Watcher \ {w} : Statuses'[v] = Statuses[v]
    BY <1>1, <2>3, StatusSame
  <2>5. Statuses' = [v \in Watcher |-> IF v \in {w} THEN "closed" ELSE Statuses[v]]
    BY <2>2, <2>4 DEF Statuses
  <2>6. Cancelling' = Cancelling /\ w \in Cancelling
    BY <1>1, <1>2, <2>1 DEF Cancelling, RouteInv, Held
  <2> QED
    BY <1>1, <2>5, <2>6 DEF Lifecycle!Close, Lifecycle!Closed, Statuses, Cancelling
<1>3. CASE w \notin expectedClosers
  <2>1. fired' = [fired EXCEPT ![w] = @ \cup {"error"}] /\ UNCHANGED cancelling
    BY <1>3 DEF HandleCancelResponse, Finish, EmitError
  <2>2. fired'[w] = {"error"} /\ \A v \in Watcher \ {w} : fired'[v] = fired[v]
    BY <1>1, <2>1 DEF TypeOK
  <2>3. Statuses'[w] = "failed"
    BY <1>1, <2>2, StatusThen
  <2>4. \A v \in Watcher \ {w} : Statuses'[v] = Statuses[v]
    BY <1>1, <2>2, StatusSame
  <2>5. Statuses' = [Statuses EXCEPT ![w] = "failed"]
    BY <2>3, <2>4 DEF Statuses
  <2>6. Cancelling' = Cancelling
    BY <2>1 DEF Cancelling
  <2> QED
    BY <1>1, <2>5, <2>6 DEF Lifecycle!Fail, Statuses, Cancelling
<1> QED
  BY <1>2, <1>3

LEMMA TimerReconnects ==
    ASSUME TypeOK, RouteInv, Objects', TimerFires
    PROVE  Lifecycle!Reconnect \/ UNCHANGED Lifecycle!vars
<1>1. UNCHANGED <<rank, id>>
  BY DEF TimerFires
<1>2. CASE state = "Idle" /\ watchers # {}
  <2>1. EstablishStream(watchers)
    BY <1>2 DEF TimerFires
  <2>2. /\ state' = "Connecting" /\ watchers' = watchers \ expectedClosers
        /\ \A v \in Watcher : fired'[v] =
             fired[v] \cup IF v \in expectedClosers THEN {"end"} ELSE {}
        /\ \A v \in Watcher : cancelling'[v] =
             IF v \in expectedClosers /\ cancelling[v] = "end" THEN "done" ELSE cancelling[v]
    BY <2>1 DEF EstablishStream, EmitEnd
  <2>3. expectedClosers \subseteq Cancelling \cap Lifecycle!Active /\ Lifecycle!Active # {}
    BY <1>2, ActiveWatchers DEF Cancelling, RouteInv, Held, TypeOK
  <2>4. ASSUME NEW v \in Watcher
        PROVE  Statuses'[v] = IF v \in expectedClosers THEN "closed" ELSE Statuses[v]
    <3>1. CASE v \in expectedClosers
      <4>1. rank'[v] # 0
        BY <1>1, <3>1 DEF RouteInv, Ranked, Held
      <4> QED
        BY <2>2, <3>1, <4>1, StatusThen
    <3>2. CASE v \notin expectedClosers
      <4>1. fired'[v] = fired[v]
        BY <2>2, <3>2
      <4> QED
        BY <1>1, <2>2, <3>2, <4>1, StatusSame
    <3> QED
      BY <3>1, <3>2
  <2>5. Statuses' = [v \in Watcher |-> IF v \in expectedClosers THEN "closed" ELSE Statuses[v]]
    BY <2>4 DEF Statuses
  <2>6. Cancelling' = Cancelling
    BY <2>2 DEF Cancelling
  <2> QED
    BY <1>2, <2>2, <2>3, <2>5, <2>6
       DEF Lifecycle!Reconnect, Lifecycle!Closed, Statuses, Cancelling
<1>3. CASE ~(state = "Idle" /\ watchers # {})
  <2>1. UNCHANGED <<state, watchers, fired, cancelling>>
    BY <1>3 DEF TimerFires
  <2>2. \A w \in Watcher : Statuses'[w] = Statuses[w]
    BY <1>1, <2>1, StatusSame
  <2> QED
    BY <2>1, <2>2, Unnoticed
<1> QED
  BY <1>2, <1>3

LEMMA LifecycleStep ==
    ASSUME TypeOK, ConnectionInv, RouteInv, Objects', [Next]_vars
    PROVE  [Lifecycle!Next]_(Lifecycle!vars)
<1>1. ASSUME UNCHANGED <<state, watchers, objects>> PROVE UNCHANGED Lifecycle!vars
  <2>1. \A w \in Watcher : Statuses'[w] = Statuses[w]
    BY <1>1, StatusSame DEF objects
  <2> QED
    BY <1>1, <2>1, Unnoticed DEF objects
<1>2. CASE User
  BY <1>2, AttachCreates, CancelCancels DEF User, Lifecycle!Next
<1>3. CASE \E w \in Watcher : DetachResume(w)
  BY <1>3, ResumeCloses DEF Lifecycle!Next
<1>4. ASSUME NEW s \in Stream, Events(s) PROVE [Lifecycle!Next]_(Lifecycle!vars)
  <2>1. CASE StreamOpens(s)
    BY <2>1, StreamOpensOpens DEF Lifecycle!Next
  <2>2. CASE OpenFails(s) \/ StreamError(s) \/ StreamEnd(s) \/ GracefulEnd(s)
    BY <2>2, HandleErrorLoses
       DEF OpenFails, StreamError, StreamEnd, GracefulEnd, Lifecycle!Next
  <2>3. CASE StreamFails(s)
    BY <1>1, <2>3 DEF StreamFails, manager
  <2>4. CASE OnCreated(s)
    BY <2>4, OnCreatedSubscribes DEF Lifecycle!Next
  <2>5. CASE OnRefused(s) \/ OnCanceled(s)
    <3>1. state = "Connected"
      BY <2>5, OneOpen DEF OnRefused, OnCanceled, Arrives
    <3>2. PICK w \in watchers : \E destroy : HandleCancelResponse(w, Received(s), destroy)
      BY <2>5, OnRefusedEffect, OnCanceledEffect
    <3>3. w \in Watcher
      BY DEF TypeOK
    <3>4. Lifecycle!Close(w) \/ Lifecycle!Fail(w)
      BY <3>1, <3>2, FinishFinishes
    <3> QED
      BY <3>3, <3>4 DEF Lifecycle!Next
  <2>6. CASE OnData(s)
    <3>1. /\ toClient[s] # <<>> /\ toClient[s][1].kind = "data"
          /\ Head(toClient[s]) = toClient[s][1] /\ phase[s] = "open"
      BY <2>6, Arrived DEF OnData
    <3>2. Named(s)
      BY <3>1 DEF RouteInv, Routes
    <3>3. Holding(Head(toClient[s]).id) # {}
      BY <3>1, <3>2, OneHolder
    <3>4. UNCHANGED <<manager, objects>>
      BY <2>6, <3>3 DEF OnData
    <3> QED
      BY <1>1, <3>4 DEF manager
  <2> QED
    BY <1>4, <2>1, <2>2, <2>3, <2>4, <2>5, <2>6 DEF Events
<1>5. ASSUME NEW s \in Stream, Server(s) PROVE UNCHANGED Lifecycle!vars
  <2>1. UNCHANGED <<manager, objects>>
    BY <1>5 DEF Server, ServerCreates, ServerRefuses, ServerCancels,
                ServerDrops, ServerSends, Answers
  <2> QED
    BY <1>1, <2>1 DEF manager
<1>6. CASE TimerFires
  BY <1>6, TimerReconnects DEF Lifecycle!Next
<1>7. CASE UNCHANGED vars
  BY <1>1, <1>7 DEF vars, manager
<1> QED
  BY <1>2, <1>3, <1>4, <1>5, <1>6, <1>7 DEF Next

LEMMA LifecycleInit == Init => Lifecycle!Init
BY DEF Init, Lifecycle!Init, Status, NoId


\* The manager implements the life that WatcherLifecycle promises: a watcher
\* ends only if its user asked, fails only if the server says so, is lost with
\* all the others when the stream is, and never leaves its final state.
THEOREM KeepsItsPromise ==
    ASSUME ~AttachInGap
    PROVE  Spec => ImplementsLifecycle
<1>1. TypeOK /\ ConnectionInv /\ RouteInv /\ [Next]_vars => [Lifecycle!Next]_(Lifecycle!vars)
  BY ObjectsNext, LifecycleStep
<1> QED
  BY <1>1, LifecycleInit, TypeCorrect, ConnectionInvariant, RouteInvariant,
     PTL DEF Spec, ImplementsLifecycle, Lifecycle!Spec

\* The assertion of the repository's own src/src/watch.tla, carried over to the
\* manager: no watcher has an id while there is no connection.
LEMMA SubscribedNow == TypeOK /\ RouteInv => Lifecycle!SubscribedOnlyWhenConnected
<1> SUFFICES ASSUME RouteInv, state # "Connected", NEW w \in Watcher
             PROVE  Statuses[w] # "subscribed"
  BY DEF Lifecycle!SubscribedOnlyWhenConnected, Statuses
<1>1. w \in watchers => id[w] = NoId
  BY DEF RouteInv, Disconnected
<1> QED
  BY <1>1, StatusNow

THEOREM NoneSubscribedOffline ==
    ASSUME ~AttachInGap
    PROVE  Spec => []Lifecycle!SubscribedOnlyWhenConnected
BY SubscribedNow, TypeCorrect, RouteInvariant, PTL

\* 'end' and 'error' are the last event of a watcher and exclude each other:
\* whatever the stream does next, a watcher that closed or failed stays so.
LEMMA FinalStays ==
    ASSUME [Lifecycle!Next]_(Lifecycle!vars), NEW w \in Watcher,
           Statuses[w] \in {"closed", "failed"}
    PROVE  Statuses'[w] = Statuses[w]
<1>1. Statuses = [v \in Watcher |-> Statuses[v]] /\ Statuses' = [v \in Watcher |-> Statuses'[v]]
  BY DEF Statuses
<1>2. CASE Lifecycle!Reconnect \/ \E v \in Watcher : Lifecycle!Create(v)
  BY <1>1, <1>2
     DEF Lifecycle!Reconnect, Lifecycle!Create, Lifecycle!Closed, Lifecycle!Joined,
         Lifecycle!Active, Statuses
<1>3. CASE Lifecycle!Open \/ Lifecycle!Lose
  BY <1>1, <1>3 DEF Lifecycle!Open, Lifecycle!Lose, Statuses
<1>4. CASE \E v \in Watcher : Lifecycle!Subscribe(v) \/ Lifecycle!Fail(v)
  BY <1>1, <1>4 DEF Lifecycle!Subscribe, Lifecycle!Fail, Lifecycle!Active, Statuses
<1>5. CASE \E v \in Watcher : Lifecycle!Cancel(v) \/ Lifecycle!Close(v)
  BY <1>1, <1>5
     DEF Lifecycle!Cancel, Lifecycle!Close, Lifecycle!Closed, Lifecycle!Active, Statuses
<1>6. CASE UNCHANGED Lifecycle!vars
  BY <1>6 DEF Lifecycle!vars, Statuses
<1> QED
  BY <1>2, <1>3, <1>4, <1>5, <1>6 DEF Lifecycle!Next

THEOREM LastEventIsFinal ==
    ASSUME ~AttachInGap
    PROVE  Spec => Lifecycle!FinalIsFinal
<1>1. [Lifecycle!Next]_(Lifecycle!vars) =>
        [\A w \in Watcher : Statuses[w] \in {"closed", "failed"} =>
           Statuses'[w] = Statuses[w]]_(Lifecycle!vars)
  BY FinalStays
<1> QED
  BY <1>1, KeepsItsPromise, PTL
     DEF ImplementsLifecycle, Lifecycle!Spec, Lifecycle!FinalIsFinal, Statuses

=============================================================================
