---------------------------- MODULE ElectionProofs ----------------------------
(***************************************************************************)
(* Proofs about module Election, for every set of campaigns and any number *)
(* of faults: who has emitted 'elected' has the oldest key, and a value    *)
(* whose proclaim() has resolved is the one that is stored.  And about     *)
(* ElectionObserver: it misses no event of the key it follows.             *)
(***************************************************************************)
EXTENDS ElectionObserver, TLAPS, WellFoundedInduction

(***************************************************************************)
(* Types                                                                   *)
(***************************************************************************)
LEMMA LeastExists ==
  ASSUME NEW S \in SUBSET Nat, S # {}
  PROVE  \E x \in S : \A y \in S : x <= y
<1>1. PICK x \in S : \A y \in S : ~ (<<y, x>> \in OpToRel(<, Nat))
  BY WFMin, NatLessThanWellFounded, Zenon
<1>2. \A y \in S : ~ (y < x)
  <2> SUFFICES ASSUME NEW y \in S, y < x PROVE FALSE
    OBVIOUS
  <2>1. <<y, x>> \in OpToRel(<, Nat)
    BY Zenon DEF OpToRel
  <2> QED BY <1>1, <2>1, Zenon
<1>3. x \in Nat /\ \A y \in S : y \in Nat
  OBVIOUS
<1> QED BY <1>2, <1>3

LEMMA GreatestExists ==
  ASSUME NEW n \in Nat, NEW S \in SUBSET (0..n), S # {}
  PROVE  \E x \in S : \A y \in S : y <= x
<1> DEFINE Gaps == {n - y : y \in S}
<1>1. Gaps \in SUBSET Nat /\ Gaps # {}
  <2>1. \A y \in S : y \in 0..n /\ n - y \in Nat
    OBVIOUS
  <2>2. PICK y : y \in S
    OBVIOUS
  <2>3. n - y \in Gaps
    BY <2>2
  <2> QED BY <2>1, <2>3
<1> HIDE DEF Gaps
<1>2. PICK g \in Gaps : \A h \in Gaps : g <= h
  BY <1>1, LeastExists
<1>3. PICK x \in S : g = n - x
  BY DEF Gaps
<1>4. \A y \in S : n - x <= n - y
  BY <1>2, <1>3 DEF Gaps
<1> QED BY <1>4

\* There is a newest key ahead, since none is newer than its bound.
LEMMA NewestIsAhead ==
  ASSUME TypeOK, NEW c \in Candidate, Ahead(c) # {}
  PROVE  Newest(Ahead(c)) \in Candidate
<1>1. revision[c] \in Nat /\ \A d \in Ahead(c) : d \in Candidate /\ created[d] \in Nat /\ created[d] < revision[c]
  BY DEF TypeOK, Ahead, Present
<1> DEFINE Ages == {created[d] : d \in Ahead(c)}
<1>2. Ages \in SUBSET (0..revision[c]) /\ Ages # {}
  BY <1>1
<1> HIDE DEF Ages
<1>3. PICK x \in Ages : \A y \in Ages : y <= x
  BY <1>1, <1>2, GreatestExists
<1>4. PICK d \in Ahead(c) : x = created[d]
  BY DEF Ages
<1>5. \A e \in Ahead(c) : created[e] <= created[d]
  BY <1>3, <1>4 DEF Ages
<1>6. Newest(Ahead(c)) \in Ahead(c)
  BY <1>5 DEF Newest
<1> QED BY <1>1, <1>6

\* There is an oldest key if there is a key.
LEMMA OldestIsPresent ==
  ASSUME TypeOK, Present # {}
  PROVE  Oldest(Present) \in Present
<1>1. \A d \in Present : created[d] \in Nat
  BY DEF TypeOK, Present
<1> DEFINE Births == {created[d] : d \in Present}
<1>2. Births \in SUBSET Nat /\ Births # {}
  BY <1>1
<1> HIDE DEF Births
<1>3. PICK x \in Births : \A y \in Births : x <= y
  BY <1>2, LeastExists
<1>4. PICK d \in Present : x = created[d]
  BY DEF Births
<1>5. \A e \in Present : created[d] <= created[e]
  BY <1>3, <1>4 DEF Births
<1> QED BY <1>5 DEF Oldest

\* TypeOK, one variable at a time.
Types ==
    /\ log \in Seq(Event)
    /\ created \in [Candidate -> Nat]
    /\ stored \in [Candidate -> Value]
    /\ lease \in [Candidate -> {"none", "live", "gone"}]
    /\ pc \in [Candidate -> Place]
    /\ keyRevision \in [Candidate -> Nat]
    /\ resigned \in SUBSET Candidate
    /\ value \in [Candidate -> Value] /\ original \in [Candidate -> Value]
    /\ answer \in [Candidate -> Answer]
    /\ revision \in [Candidate -> Nat]
    /\ behind \in [Candidate -> Candidate \cup {None}]
    /\ from \in [Candidate -> Nat]
    /\ proclaim \in [Candidate -> Proclaim]
    /\ elected \in SUBSET Candidate /\ errored \in SUBSET Candidate /\ resent \in SUBSET Candidate
    /\ turns \in 0..MaxTurns

LEMMA TypesFlat == TypeOK <=> Types
BY DEF TypeOK, Types

LEMMA TurnType == Turn /\ Types => turns' \in 0..MaxTurns
BY ElectionAssumption DEF Types, Turn

LEMMA PutsType ==
  ASSUME Types, NEW c \in Candidate, NEW v \in Value, Puts(c, v)
  PROVE  /\ log' = Append(log, [key |-> c, kind |-> "put", value |-> v])
         /\ log' \in Seq(Event) /\ Len(log) \in Nat /\ Len(log') = Len(log) + 1
         /\ stored' \in [Candidate -> Value] /\ created' \in [Candidate -> Nat] /\ lease' = lease
<1>1. [key |-> c, kind |-> "put", value |-> v] \in Event /\ log \in Seq(Event)
  BY DEF Types, Event
<1>2. log' \in Seq(Event) /\ Len(log) \in Nat /\ Len(log') = Len(log) + 1
  BY <1>1 DEF Puts
<1>3. stored' \in [Candidate -> Value] /\ created' \in [Candidate -> Nat]
  BY <1>2 DEF Puts, Types
<1> QED BY <1>2, <1>3 DEF Puts

LEMMA EndLeaseType ==
  ASSUME Types, NEW c \in Candidate, EndLease(c)
  PROVE  /\ log' \in Seq(Event) /\ Len(log) \in Nat /\ Len(log') \in Nat /\ Len(log) <= Len(log')
         /\ stored' = stored /\ created' \in [Candidate -> Nat]
         /\ lease' \in [Candidate -> {"none", "live", "gone"}]
<1>1. [key |-> c, kind |-> "delete", value |-> stored[c]] \in Event /\ log \in Seq(Event)
  BY DEF Types, Event
<1>2. log' \in Seq(Event) /\ Len(log) \in Nat /\ Len(log') \in Nat /\ Len(log) <= Len(log')
  BY <1>1 DEF EndLease
<1>3. created' \in [Candidate -> Nat] /\ lease' \in [Candidate -> {"none", "live", "gone"}]
  BY DEF EndLease, Types
<1> QED BY <1>2, <1>3 DEF EndLease

LEMMA GotoType ==
  ASSUME Types, NEW c \in Candidate, NEW p \in Place, Goto(c, p)
  PROVE  pc' \in [Candidate -> Place]
BY DEF Types, Goto

LEMMA EmitType ==
  ASSUME Types, NEW c \in Candidate, Emit(c)
  PROVE  pc' \in [Candidate -> Place] /\ elected' \in SUBSET Candidate /\ errored' = errored
<1>1. "elected" \in Place
  BY DEF Place
<1> QED BY <1>1, GotoType DEF Emit, Types

LEMMA LoopHeadType ==
  ASSUME Types, NEW c \in Candidate, LoopHead(c)
  PROVE  pc' \in [Candidate -> Place] /\ elected' \in SUBSET Candidate /\ errored' = errored
<1>1. "querying" \in Place
  BY DEF Place
<1> QED BY <1>1, GotoType, EmitType DEF LoopHead, emitted, Types

LEMMA FailsType ==
  ASSUME Types, NEW c \in Candidate, Fails(c)
  PROVE  /\ pc' \in [Candidate -> Place]
         /\ resigned' \in SUBSET Candidate /\ errored' \in SUBSET Candidate
         /\ UNCHANGED <<elected, keyRevision, original>>
<1>1. "failed" \in Place
  BY DEF Place
<1> QED BY <1>1, GotoType DEF Fails, Types

LEMMA TypeInit == Init => TypeOK
<1> SUFFICES ASSUME Init PROVE TypeOK
  OBVIOUS
<1>1. log \in Seq(Event)
  BY DEF Init
<1>2. NoAnswer \in Answer
  BY DEF NoAnswer, Answer, Value
<1> QED BY <1>1, <1>2, ElectionAssumption DEF Init, TypeOK, Value, Place, Proclaim

LEMMA TypeStep == TypeOK /\ [Next]_vars => TypeOK'
<1> SUFFICES ASSUME Types, [Next]_vars PROVE Types'
  BY DEF TypeOK, Types
<1>0. CASE UNCHANGED vars
  BY <1>0 DEF Types, vars, store, object, waiting, emitted, history
<1> SUFFICES ASSUME NEW c \in Candidate, Runs(c) \/ Serves(c) \/ Uses(c) \/ Errs(c) PROVE Types'
  BY <1>0 DEF Next
<1>n. Len(log) \in Nat
  BY DEF Types
<1>1. CASE Granted(c)
  BY <1>n, <1>1 DEF Types, Granted, Goto, Place, Proclaim, Value, store, object, waiting, emitted, history
<1>2. CASE PutReturns(c)
  <2>1. UNCHANGED <<store, resigned, value, original, behind, from, history>>
    BY <1>2 DEF PutReturns
  <2>2. answer[c] \in Answer /\ answer[c].created \in Nat /\ answer[c].revision \in Nat
    BY DEF Types, Answer
  <2>3. keyRevision' \in [Candidate -> Nat] /\ revision' \in [Candidate -> Nat]
    BY <1>2, <2>2 DEF PutReturns, Types
  <2>4. NoAnswer \in Answer
    BY DEF NoAnswer, Answer, Value
  <2>5. answer' \in [Candidate -> Answer]
    BY <1>2, <2>4 DEF PutReturns, Types
  <2>6. /\ pc' \in [Candidate -> Place] /\ elected' \in SUBSET Candidate /\ errored' = errored
        /\ proclaim' \in [Candidate -> Proclaim]
    <3>1. CASE LoopHead(c) /\ UNCHANGED proclaim
      BY <3>1, LoopHeadType DEF Types
    <3>2. CASE /\ Goto(c, "publishing") /\ UNCHANGED emitted
               /\ proclaim' = [proclaim EXCEPT ![c] = "sent"]
      <4>1. "publishing" \in Place /\ "sent" \in Proclaim
        BY DEF Place, Proclaim
      <4> QED BY <3>2, <4>1, GotoType DEF emitted, Types
    <3> QED BY <1>2, <3>1, <3>2 DEF PutReturns
  <2> QED BY <2>1, <2>3, <2>5, <2>6 DEF Types, store, history
<1>3. CASE PutIgnored(c)
  BY <1>n, <1>3 DEF Types, PutIgnored, Goto, Place, Proclaim, Value, store, object, waiting, emitted, history
<1>4. CASE PutRejected(c)
  BY <1>n, <1>4, FailsType DEF Types, PutRejected, RejectsPending, Place, Proclaim, Value, store, object, waiting, emitted, history
<1>5. CASE QueryReturns(c)
  <2>1. UNCHANGED <<store, object, answer, revision, from, proclaim, history>>
    BY <1>5 DEF QueryReturns
  <2>2. CASE Ahead(c) = {}
    <3>1. Emit(c) /\ UNCHANGED behind
      BY <1>5, <2>2 DEF QueryReturns
    <3>2. pc' \in [Candidate -> Place] /\ elected' \in SUBSET Candidate /\ errored' = errored
      BY <3>1, EmitType
    <3> QED BY <2>1, <3>1, <3>2 DEF Types, store, object, history
  <2>3. CASE Ahead(c) # {}
    <3>1. Goto(c, "getting") /\ behind' = [behind EXCEPT ![c] = Newest(Ahead(c))] /\ UNCHANGED emitted
      BY <1>5, <2>3 DEF QueryReturns
    <3>2. Newest(Ahead(c)) \in Candidate
      BY <2>3, NewestIsAhead, TypesFlat
    <3>3. behind' \in [Candidate -> Candidate \cup {None}]
      BY <3>1, <3>2 DEF Types
    <3>4. "getting" \in Place
      BY DEF Place
    <3>5. pc' \in [Candidate -> Place]
      BY <3>1, <3>4, GotoType
    <3> QED BY <2>1, <3>1, <3>3, <3>5 DEF Types, store, object, history, emitted
  <2> QED BY <2>2, <2>3
<1>6. CASE GetReturns(c)
  <2>1. UNCHANGED <<store, object, answer, proclaim, history, revision>>
    BY <1>6 DEF GetReturns, Forgets
  <2>2. behind' \in [Candidate -> Candidate \cup {None}] /\ from' \in [Candidate -> Nat]
    <3>1. CASE Forgets(c)
      BY <3>1 DEF Forgets, Types
    <3>2. CASE from' = [from EXCEPT ![c] = Len(log)] /\ UNCHANGED behind
      BY <1>n, <3>2 DEF Types
    <3> QED BY <1>6, <3>1, <3>2 DEF GetReturns
  <2>3. pc' \in [Candidate -> Place] /\ elected' \in SUBSET Candidate /\ errored' = errored
    <3>1. CASE LoopHead(c)
      BY <3>1, LoopHeadType
    <3>2. CASE Goto(c, "creating") /\ UNCHANGED emitted
      <4>1. "creating" \in Place
        BY DEF Place
      <4> QED BY <3>2, <4>1, GotoType DEF emitted, Types
    <3> QED BY <1>6, <3>1, <3>2 DEF GetReturns
  <2> QED BY <2>1, <2>2, <2>3 DEF Types, store, object, history
<1>7. CASE WatchCreated(c)
  BY <1>n, <1>7 DEF Types, WatchCreated, Goto, Place, Proclaim, Value, store, object, waiting, emitted, history
<1>8. CASE Deleted(c)
  BY <1>n, <1>8 DEF Types, Deleted, Forgets, Goto, Place, Proclaim, Value, store, object, waiting, emitted, history
<1>9. CASE WatchEnded(c)
  BY <1>n, <1>9, LoopHeadType DEF Types, WatchEnded, Place, Proclaim, Value, store, object, waiting, emitted, history
<1>10. CASE ProclaimReturns(c)
  BY <1>n, <1>10, LoopHeadType DEF Types, ProclaimReturns, Place, Proclaim, Value, store, object, waiting, emitted, history
<1>11. CASE ProclaimRefused(c)
  BY <1>n, <1>11, FailsType DEF Types, ProclaimRefused, Place, Proclaim, Value, store, object, waiting, emitted, history
<1>12. CASE LeaseLost(c)
  BY <1>n, <1>12 DEF Types, LeaseLost, Place, Proclaim, Value, store, object, waiting, emitted, history
<1>13. CASE PutDecides(c)
  <2>1. UNCHANGED <<object, waiting, proclaim, emitted, history>> /\ pc' \in [Candidate -> Place]
    BY <1>13 DEF PutDecides, Goto, Types, Place
  <2>2. ASSUME NEW a \in Answer, answer' = [answer EXCEPT ![c] = a] PROVE answer' \in [Candidate -> Answer]
    BY <2>2 DEF Types
  <2>3. CASE created[c] # 0
    <3>1. [kind |-> "exists", revision |-> Len(log), created |-> created[c], value |-> stored[c]] \in Answer
      BY <1>n DEF Answer, Types
    <3>2. /\ answer' = [answer EXCEPT ![c] = [kind |-> "exists", revision |-> Len(log),
                                              created |-> created[c], value |-> stored[c]]]
          /\ UNCHANGED store
      BY <1>13, <2>3 DEF PutDecides
    <3>3. answer' \in [Candidate -> Answer]
      BY <2>2, <3>1, <3>2
    <3> QED BY <2>1, <3>2, <3>3 DEF Types, store, object, waiting, emitted, history
  <2>4. CASE created[c] = 0 /\ lease[c] = "gone"
    <3>1. NoAnswer \in Answer
      BY DEF NoAnswer, Answer, Value
    <3>2. answer' = [answer EXCEPT ![c] = NoAnswer] /\ UNCHANGED store
      BY <1>13, <2>4 DEF PutDecides
    <3>3. answer' \in [Candidate -> Answer]
      BY <2>2, <3>1, <3>2
    <3> QED BY <2>1, <3>2, <3>3 DEF Types, store, object, waiting, emitted, history
  <2>5. CASE created[c] = 0 /\ lease[c] # "gone"
    <3>1. /\ Puts(c, original[c])
          /\ answer' = [answer EXCEPT ![c] = [kind |-> "put", revision |-> Len(log'),
                                              created |-> Len(log'), value |-> original[c]]]
      BY <1>13, <2>5 DEF PutDecides
    <3>2. original[c] \in Value
      BY DEF Types
    <3>3. /\ log' \in Seq(Event) /\ stored' \in [Candidate -> Value]
          /\ created' \in [Candidate -> Nat] /\ lease' = lease /\ Len(log') = Len(log) + 1
      BY <3>1, <3>2, PutsType
    <3>n. Len(log') \in Nat
      BY <1>n, <3>3
    <3>4. [kind |-> "put", revision |-> Len(log'), created |-> Len(log'), value |-> original[c]] \in Answer
      BY <3>2, <3>n DEF Answer
    <3>5. answer' \in [Candidate -> Answer]
      BY <2>2, <3>1, <3>4
    <3> QED BY <2>1, <3>3, <3>5 DEF Types, object, waiting, emitted, history
  <2> QED BY <2>3, <2>4, <2>5
<1>14. CASE ProclaimDecides(c)
  <2>1. UNCHANGED <<pc, object, answer, waiting, emitted, history>>
    BY <1>14 DEF ProclaimDecides
  <2>2. proclaim' \in [Candidate -> Proclaim]
    BY <1>14 DEF ProclaimDecides, Types, Proclaim
  <2>3. CASE UNCHANGED store
    BY <2>1, <2>2, <2>3 DEF Types, store, object, waiting, emitted, history
  <2>4. CASE Puts(c, "second")
    <3>1. "second" \in Value
      BY DEF Value
    <3>2. /\ log' \in Seq(Event) /\ stored' \in [Candidate -> Value]
          /\ created' \in [Candidate -> Nat] /\ lease' = lease
      BY <2>4, <3>1, PutsType
    <3> QED BY <2>1, <2>2, <3>2 DEF Types, object, waiting, emitted, history
  <2> QED BY <1>14, <2>3, <2>4 DEF ProclaimDecides
<1>15. CASE Revoked(c)
  BY <1>n, <1>15, EndLeaseType DEF Types, Revoked, Place, Proclaim, Value, store, object, waiting, emitted, history
<1>16. CASE Start(c)
  BY <1>n, <1>16 DEF Types, Start, Goto, Place, Proclaim, Value, store, object, waiting, emitted, history
<1>17. CASE Resign(c)
  BY <1>n, <1>17, TurnType DEF Types, Resign, Place, Proclaim, Value, store, object, waiting, emitted, history
<1>18. CASE ProclaimSecond(c)
  BY <1>n, <1>18, TurnType DEF Types, ProclaimSecond, Place, Proclaim, Value, store, object, waiting, emitted, history
<1>19. CASE CallFails(c)
  BY <1>n, <1>19, FailsType, TurnType DEF Types, CallFails, RejectsPending, Place, Proclaim, Value, store, object, waiting, emitted, history
<1>20. CASE PutResent(c)
  BY <1>n, <1>20, TurnType DEF Types, PutResent, Goto, Place, Proclaim, Value, store, object, waiting, emitted, history
<1>21. CASE ProclaimFails(c)
  BY <1>n, <1>21, FailsType, TurnType DEF Types, ProclaimFails, Place, Proclaim, Value, store, object, waiting, emitted, history
<1>22. CASE Expires(c)
  BY <1>n, <1>22, EndLeaseType, TurnType DEF Types, Expires, Place, Proclaim, Value, store, object, waiting, emitted, history
<1> QED
  BY <1>1, <1>2, <1>3, <1>4, <1>5, <1>6, <1>7, <1>8, <1>9, <1>10, <1>11, <1>12, <1>13, <1>14, <1>15, <1>16, <1>17, <1>18, <1>19, <1>20, <1>21, <1>22 DEF Runs, Serves, Uses, Errs

\* Every reachable state is well typed: keyRevision, the answers and the positions
\* of watches are revisions, and waitForElected waits for a campaign's key.
THEOREM TypeCorrect == Spec => []TypeOK
<1> QED BY TypeInit, TypeStep, PTL DEF Spec

(***************************************************************************)
(* Who is elected has the oldest key                                       *)
(***************************************************************************)
Waits == {"publishing", "querying", "getting", "creating", "watching", "cancelling"}

\* A campaign waits for a revision that is not before its own key, whether it is
\* of its first answer or of that of a transaction sent again.
OwnKey ==
    \A c \in Candidate : created[c] # 0 =>
        /\ created[c] <= Len(log)
        /\ pc[c] = "put" /\ answer[c].kind # "error" => created[c] <= answer[c].revision
        /\ pc[c] \in Waits => created[c] <= revision[c]

Settled == \A c \in elected : pc[c] = "elected"

IsFirst(c) ==
    created[c] # 0 => \A d \in Candidate : created[d] # 0 => created[c] <= created[d]

Ranked == \A c \in elected \ resigned : IsFirst(c)

Seniority == OwnKey /\ Settled /\ Ranked

LEMMA SeniorityInit == Init => Seniority
BY DEF Init, Seniority, OwnKey, Settled, Ranked

\* Keys keep their create revisions or go.
Ages == /\ \A d \in Candidate : created'[d] \in {created[d], 0}
        /\ Len(log) <= Len(log')

LEMMA EndLeaseAges == ASSUME TypeOK, NEW c \in Candidate, EndLease(c) PROVE Ages
<1>1. Len(log) <= Len(log')
  BY EndLeaseType, TypesFlat
<1>2. \A d \in Candidate : created'[d] \in {created[d], 0}
  BY DEF EndLease, TypeOK
<1> QED BY <1>1, <1>2 DEF Ages

LEMMA StoreAges == ASSUME TypeOK, UNCHANGED store PROVE Ages
BY DEF TypeOK, Ages, store

\* Any step in which no key is put and nobody but c goes on: it may be elected
\* if no key is ahead of its own.
LEMMA SeniorityKept ==
  ASSUME TypeOK, Seniority, TypeOK', NEW c \in Candidate, Ages,
         \A d \in Candidate : d # c =>
            /\ pc'[d] = pc[d] /\ answer'[d] = answer[d] /\ revision'[d] = revision[d],
         created'[c] # 0 /\ pc'[c] = "put" /\ answer'[c].kind # "error" =>
            created[c] <= answer'[c].revision,
         created'[c] # 0 /\ pc'[c] \in Waits => created[c] <= revision'[c],
         elected' \subseteq elected \cup {c},
         c \in elected' => pc'[c] = "elected",
         resigned \subseteq resigned',
         c \in elected' \ elected => c \in resigned \/ IsFirst(c)
  PROVE  Seniority'
<1>0. OwnKey /\ Settled /\ Ranked
  BY DEF Seniority
<1>n. /\ Len(log) \in Nat /\ Len(log') \in Nat
      /\ \A d \in Candidate : created[d] \in Nat /\ created'[d] \in Nat
  BY DEF TypeOK
<1>1. ASSUME NEW d \in Candidate, created'[d] # 0
      PROVE  /\ created'[d] <= Len(log')
             /\ pc'[d] = "put" /\ answer'[d].kind # "error" => created'[d] <= answer'[d].revision
             /\ pc'[d] \in Waits => created'[d] <= revision'[d]
  <2>1. created'[d] = created[d] /\ created[d] # 0
    BY <1>1 DEF Ages
  <2>2. created'[d] <= Len(log')
    BY <1>0, <1>n, <2>1 DEF OwnKey, Ages
  <2>3. CASE d = c
    BY <1>1, <2>1, <2>2, <2>3
  <2>4. CASE d # c
    BY <1>0, <2>1, <2>2, <2>4 DEF OwnKey
  <2> QED BY <2>3, <2>4
<1>2. OwnKey'
  BY <1>1 DEF OwnKey
<1>3. Settled'
  <2> SUFFICES ASSUME NEW d \in elected' PROVE pc'[d] = "elected"
    BY DEF Settled
  <2>1. d \in Candidate
    BY DEF TypeOK
  <2> QED BY <1>0, <2>1 DEF Settled
<1>4. Ranked'
  <2> SUFFICES ASSUME NEW d \in elected' \ resigned', created'[d] # 0,
                      NEW e \in Candidate, created'[e] # 0
      PROVE  created'[d] <= created'[e]
    BY DEF Ranked, IsFirst
  <2>1. d \in Candidate /\ d \notin resigned
    BY DEF TypeOK
  <2>2. /\ created'[d] = created[d] /\ created[d] # 0
        /\ created'[e] = created[e] /\ created[e] # 0
    BY <2>1 DEF Ages
  <2>3. IsFirst(d)
    BY <1>0, <2>1 DEF Ranked
  <2> QED BY <2>2, <2>3 DEF IsFirst
<1> QED BY <1>2, <1>3, <1>4 DEF Seniority

\* A key that is put for the first time is the newest.
LEMMA SeniorityPut ==
  ASSUME TypeOK, Seniority, TypeOK', NEW c \in Candidate,
         pc[c] = "putting", created[c] = 0,
         Len(log') = Len(log) + 1, created' = [created EXCEPT ![c] = Len(log) + 1],
         pc' = [pc EXCEPT ![c] = "put"],
         \A d \in Candidate : d # c => answer'[d] = answer[d],
         answer'[c].revision = Len(log) + 1, UNCHANGED <<revision, elected, resigned>>
  PROVE  Seniority'
<1>0. OwnKey /\ Settled /\ Ranked
  BY DEF Seniority
<1>n. /\ Len(log) \in Nat /\ \A d \in Candidate : created[d] \in Nat
      /\ \A d \in Candidate : created'[d] = IF d = c THEN Len(log) + 1 ELSE created[d]
      /\ \A d \in Candidate : pc'[d] = IF d = c THEN "put" ELSE pc[d]
  BY DEF TypeOK
<1>1. ASSUME NEW d \in Candidate, created'[d] # 0
      PROVE  /\ created'[d] <= Len(log')
             /\ pc'[d] = "put" /\ answer'[d].kind # "error" => created'[d] <= answer'[d].revision
             /\ pc'[d] \in Waits => created'[d] <= revision'[d]
  <2>1. CASE d = c
    BY <1>n, <2>1 DEF Waits
  <2>2. CASE d # c
    BY <1>0, <1>n, <1>1, <2>2 DEF OwnKey
  <2> QED BY <2>1, <2>2
<1>2. OwnKey'
  BY <1>1 DEF OwnKey
<1>3. c \notin elected
  BY <1>0 DEF Settled
<1>4. Settled'
  <2> SUFFICES ASSUME NEW d \in elected PROVE pc'[d] = "elected"
    BY DEF Settled
  <2>1. d \in Candidate /\ d # c
    BY <1>3 DEF TypeOK
  <2> QED BY <1>0, <1>n, <2>1 DEF Settled
<1>5. Ranked'
  <2> SUFFICES ASSUME NEW d \in elected \ resigned, created'[d] # 0,
                      NEW e \in Candidate, created'[e] # 0
      PROVE  created'[d] <= created'[e]
    BY DEF Ranked, IsFirst
  <2>1. d \in Candidate /\ d # c
    BY <1>3 DEF TypeOK
  <2>2. created'[d] = created[d] /\ IsFirst(d) /\ created[d] <= Len(log)
    <3>1. created'[d] = created[d] /\ IsFirst(d)
      BY <1>0, <1>n, <2>1 DEF Ranked
    <3> QED BY <1>0, <2>1, <3>1 DEF OwnKey
  <2>3. CASE e = c
    <3>1. created'[e] = Len(log) + 1 /\ created[d] \in Nat
      BY <1>n, <2>1, <2>3
    <3> QED BY <1>n, <2>2, <3>1
  <2>4. CASE e # c
    <3>1. created'[e] = created[e]
      BY <1>n, <2>4
    <3> QED BY <2>2, <3>1 DEF IsFirst
  <2> QED BY <2>3, <2>4
<1> QED BY <1>2, <1>4, <1>5 DEF Seniority

LEMMA SeniorityStep ==
  ASSUME TypeOK, TypeOK', Seniority, [Next]_vars
  PROVE  Seniority'
<1>k. OwnKey /\ Settled /\ Ranked
  BY DEF Seniority
<1>0. CASE UNCHANGED vars
  BY <1>k, <1>0 DEF Seniority, OwnKey, Settled, Ranked, IsFirst, vars, store, object, waiting, emitted
<1> SUFFICES ASSUME NEW c \in Candidate, Runs(c) \/ Serves(c) \/ Uses(c) \/ Errs(c) PROVE Seniority'
  BY <1>0 DEF Next
<1>n. /\ \A d \in Candidate : created[d] \in Nat /\ revision[d] \in Nat
      /\ pc \in [Candidate -> Place] /\ Len(log) \in Nat
  BY DEF TypeOK
\* c goes to a place where it has not more to do with its key than before.
<1>g. ASSUME NEW p, Goto(c, p), p # "put", pc[c] \notin {"elected"},
             p \in Waits => pc[c] \in Waits \/ created[c] <= revision'[c],
             Ages, \A d \in Candidate : d # c => answer'[d] = answer[d] /\ revision'[d] = revision[d],
             revision'[c] = revision[c] \/ created[c] <= revision'[c],
             \/ elected' = elected
             \/ p = "elected" /\ elected' = elected \cup {c} /\ (c \in resigned \/ IsFirst(c)),
             resigned \subseteq resigned'
      PROVE  Seniority'
  <2>1. \A d \in Candidate : pc'[d] = IF d = c THEN p ELSE pc[d]
    BY <1>n, <1>g DEF Goto
  <2>2. c \notin elected
    BY <1>k, <1>g DEF Settled
  <2>3. created'[c] # 0 /\ p \in Waits => created[c] <= revision'[c]
    BY <1>k, <1>g DEF OwnKey, Ages
  <2> QED BY <1>g, <2>1, <2>2, <2>3, SeniorityKept
\* c stays where it is.
<1>s. ASSUME UNCHANGED <<pc, answer, revision, elected>>, Ages, resigned \subseteq resigned'
      PROVE  Seniority'
  <2>1. \A d \in Candidate : created'[d] # 0 => created'[d] = created[d]
    BY <1>s DEF Ages
  <2>2. /\ created'[c] # 0 /\ pc'[c] = "put" /\ answer'[c].kind # "error" => created[c] <= answer'[c].revision
        /\ created'[c] # 0 /\ pc'[c] \in Waits => created[c] <= revision'[c]
        /\ c \in elected' => pc'[c] = "elected"
    BY <1>k, <1>s, <2>1 DEF OwnKey, Settled
  <2> QED BY <1>s, <2>2, SeniorityKept
\* c goes on waiting or, if it has resigned, is elected.
<1>l. ASSUME LoopHead(c), pc[c] # "elected", UNCHANGED <<store, resigned>>,
             \A d \in Candidate : d # c => answer'[d] = answer[d] /\ revision'[d] = revision[d],
             revision'[c] = revision[c] \/ created[c] <= revision'[c],
             pc[c] \in Waits \/ created[c] <= revision'[c]
      PROVE  Seniority'
  <2>1. Ages
    BY <1>l, StoreAges
  <2>2. CASE c \in resigned
    <3>1. Goto(c, "elected") /\ elected' = elected \cup {c}
      BY <1>l, <2>2 DEF LoopHead, Emit
    <3> QED BY <1>g, <1>l, <2>1, <2>2, <3>1 DEF Waits
  <2>3. CASE c \notin resigned
    <3>1. Goto(c, "querying") /\ elected' = elected
      BY <1>l, <2>3 DEF LoopHead, emitted
    <3> QED BY <1>g, <1>l, <2>1, <3>1
  <2> QED BY <2>2, <2>3
<1>f. ASSUME Fails(c), pc[c] # "elected", UNCHANGED <<store, revision, answer>>
      PROVE  Seniority'
  <2>1. Goto(c, "failed") /\ elected' = elected /\ resigned \subseteq resigned'
    BY <1>f DEF Fails
  <2>2. Ages
    BY <1>f, StoreAges
  <2> QED BY <1>g, <1>f, <2>1, <2>2 DEF Waits
<1>1. CASE Granted(c)
  <2>1. /\ Goto(c, "putting") /\ UNCHANGED <<created, log, revision, answer, elected, resigned>>
        /\ pc[c] = "granting"
    BY <1>1 DEF Granted, waiting, emitted
  <2>2. Ages
    BY <1>n, <2>1 DEF Ages
  <2> QED BY <1>g, <2>1, <2>2 DEF Waits
<1>2. CASE PutReturns(c)
  <2>1. /\ pc[c] = "put" /\ answer[c].kind # "error" /\ UNCHANGED <<store, resigned>>
        /\ revision' = [revision EXCEPT ![c] = answer[c].revision]
        /\ answer' = [answer EXCEPT ![c] = NoAnswer]
    BY <1>2 DEF PutReturns
  <2>2. /\ \A d \in Candidate : d # c => answer'[d] = answer[d] /\ revision'[d] = revision[d]
        /\ revision'[c] = answer[c].revision
    BY <2>1 DEF TypeOK
  <2>3. created[c] <= revision'[c]
    <3>1. CASE created[c] = 0
      <4>1. revision'[c] \in Nat
        BY DEF TypeOK
      <4> QED BY <3>1, <4>1
    <3>2. CASE created[c] # 0
      BY <1>k, <2>1, <2>2, <3>2 DEF OwnKey
    <3> QED BY <3>1, <3>2
  <2>4. CASE LoopHead(c)
    BY <1>l, <2>1, <2>2, <2>3, <2>4
  <2>5. CASE Goto(c, "publishing") /\ UNCHANGED emitted
    <3>1. Ages
      BY <2>1, StoreAges
    <3> QED BY <1>g, <2>1, <2>2, <2>3, <2>5, <3>1 DEF emitted
  <2> QED BY <1>2, <2>4, <2>5 DEF PutReturns
<1>3. CASE PutIgnored(c)
  <2>1. Goto(c, "stopped") /\ UNCHANGED <<store, revision, answer, elected, resigned>> /\ pc[c] = "put"
    BY <1>3 DEF PutIgnored, object, waiting, emitted
  <2> QED BY <1>g, <2>1, StoreAges DEF Waits
<1>4. CASE PutRejected(c)
  <2>1. pc[c] = "put" /\ Fails(c) /\ UNCHANGED <<store, revision, answer>>
    BY <1>4 DEF PutRejected, waiting
  <2> QED BY <1>f, <2>1
<1>5. CASE QueryReturns(c)
  <2>1. pc[c] = "querying" /\ UNCHANGED <<store, revision, answer, resigned>>
    BY <1>5 DEF QueryReturns, object
  <2>2. Ages
    BY <2>1, StoreAges
  <2>3. CASE Ahead(c) = {}
    <3>1. Goto(c, "elected") /\ elected' = elected \cup {c}
      BY <1>5, <2>3 DEF QueryReturns, Emit
    <3>2. IsFirst(c)
      <4> SUFFICES ASSUME created[c] # 0, NEW d \in Candidate, created[d] # 0
          PROVE  created[c] <= created[d]
        BY DEF IsFirst
      <4>1. created[c] <= revision[c]
        BY <1>k, <2>1 DEF OwnKey, Waits
      <4>2. ~(created[d] < revision[c])
        BY <2>3 DEF Ahead, Present
      <4> QED BY <1>n, <4>1, <4>2
    <3> QED BY <1>g, <2>1, <2>2, <3>1, <3>2 DEF Waits
  <2>4. CASE Ahead(c) # {}
    <3>1. Goto(c, "getting") /\ elected' = elected
      BY <1>5, <2>4 DEF QueryReturns, emitted
    <3> QED BY <1>g, <2>1, <2>2, <3>1 DEF Waits
  <2> QED BY <2>3, <2>4
<1>6. CASE GetReturns(c)
  <2>1. pc[c] = "getting" /\ UNCHANGED <<store, revision, answer, resigned>>
    BY <1>6 DEF GetReturns, Forgets, object
  <2>2. CASE LoopHead(c)
    BY <1>l, <2>1, <2>2 DEF Waits
  <2>3. CASE Goto(c, "creating") /\ UNCHANGED emitted
    BY <1>g, <2>1, <2>3, StoreAges DEF Waits, emitted
  <2> QED BY <1>6, <2>2, <2>3 DEF GetReturns
<1>7. CASE WatchCreated(c)
  <2>1. Goto(c, "watching") /\ UNCHANGED <<store, revision, answer, elected, resigned>> /\ pc[c] = "creating"
    BY <1>7 DEF WatchCreated, object, waiting, emitted
  <2> QED BY <1>g, <2>1, StoreAges DEF Waits
<1>8. CASE Deleted(c)
  <2>1. Goto(c, "cancelling") /\ UNCHANGED <<store, revision, answer, elected, resigned>> /\ pc[c] = "watching"
    BY <1>8 DEF Deleted, Forgets, object, emitted
  <2> QED BY <1>g, <2>1, StoreAges DEF Waits
<1>9. CASE WatchEnded(c)
  <2>1. pc[c] = "cancelling" /\ LoopHead(c) /\ UNCHANGED <<store, revision, answer, resigned>>
    BY <1>9 DEF WatchEnded, object, waiting
  <2> QED BY <1>l, <2>1 DEF Waits
<1>10. CASE ProclaimReturns(c)
  <2>1. UNCHANGED <<store, revision, answer, resigned>>
    BY <1>10 DEF ProclaimReturns, waiting
  <2>2. CASE pc[c] = "publishing"
    BY <1>l, <1>10, <2>1, <2>2 DEF ProclaimReturns, Waits
  <2>3. CASE pc[c] # "publishing"
    <3>1. UNCHANGED <<pc, elected>>
      BY <1>10, <2>3 DEF ProclaimReturns, emitted
    <3> QED BY <1>s, <2>1, <3>1, StoreAges
  <2> QED BY <2>2, <2>3
<1>11. CASE ProclaimRefused(c)
  <2>1. UNCHANGED <<store, revision, answer>>
    BY <1>11 DEF ProclaimRefused, waiting
  <2>2. CASE pc[c] = "publishing"
    BY <1>f, <1>11, <2>1, <2>2 DEF ProclaimRefused
  <2>3. CASE pc[c] # "publishing"
    <3>1. UNCHANGED <<pc, elected>> /\ resigned \subseteq resigned'
      BY <1>11, <2>3 DEF ProclaimRefused, emitted
    <3> QED BY <1>s, <2>1, <3>1, StoreAges
  <2> QED BY <2>2, <2>3
<1>12. CASE LeaseLost(c)
  <2>1. UNCHANGED <<store, pc, revision, answer, elected, resigned>>
    BY <1>12 DEF LeaseLost, object, waiting
  <2> QED BY <1>s, <2>1, StoreAges
<1>13. CASE PutDecides(c)
  <2>1. pc[c] = "putting" /\ Goto(c, "put") /\ UNCHANGED <<revision, elected, resigned>>
    BY <1>13 DEF PutDecides, object, waiting, emitted
  <2>2. \A d \in Candidate : d # c => answer'[d] = answer[d]
    BY <1>13 DEF PutDecides, TypeOK
  <2>3. ASSUME UNCHANGED store, created[c] # 0 /\ answer'[c].kind # "error" => created[c] <= answer'[c].revision
        PROVE  Seniority'
    <3>1. \A d \in Candidate : pc'[d] = IF d = c THEN "put" ELSE pc[d]
      BY <1>n, <2>1 DEF Goto
    <3>2. c \notin elected /\ created' = created
      BY <1>k, <2>1, <2>3 DEF Settled, store
    <3>3. Ages
      BY <2>3, StoreAges
    <3>4. "put" \notin Waits
      BY DEF Waits
    <3> QED BY <2>1, <2>2, <2>3, <3>1, <3>2, <3>3, <3>4, SeniorityKept
  <2>4. CASE created[c] # 0
    <3>1. UNCHANGED store /\ answer'[c].revision = Len(log)
      BY <1>13, <2>4 DEF PutDecides, TypeOK
    <3>2. created[c] <= answer'[c].revision
      BY <1>k, <2>4, <3>1 DEF OwnKey
    <3> QED BY <2>3, <3>1, <3>2
  <2>5. CASE created[c] = 0 /\ lease[c] = "gone"
    BY <1>13, <2>3, <2>5 DEF PutDecides
  <2>6. CASE created[c] = 0 /\ lease[c] # "gone"
    <3>1. /\ Puts(c, original[c])
          /\ answer' = [answer EXCEPT ![c] = [kind |-> "put", revision |-> Len(log'),
                                              created |-> Len(log'), value |-> original[c]]]
      BY <1>13, <2>6 DEF PutDecides
    <3>2. original[c] \in Value /\ answer \in [Candidate -> Answer]
      BY DEF TypeOK
    <3>3. Len(log') = Len(log) + 1
      BY <3>1, <3>2, PutsType, TypesFlat
    <3>4. created' = [created EXCEPT ![c] = Len(log) + 1]
      BY <2>6, <3>1 DEF Puts
    <3>5. answer'[c].revision = Len(log) + 1
      BY <3>1, <3>2, <3>3
    <3> QED BY <2>1, <2>2, <2>6, <3>3, <3>4, <3>5, SeniorityPut DEF Goto
  <2> QED BY <2>4, <2>5, <2>6
<1>14. CASE ProclaimDecides(c)
  <2>1. UNCHANGED <<pc, answer, revision, elected, resigned>>
    BY <1>14 DEF ProclaimDecides, object, waiting, emitted
  <2>2. CASE UNCHANGED store
    BY <1>s, <2>1, <2>2, StoreAges
  <2>3. CASE Puts(c, "second") /\ created[c] # 0
    <3>1. "second" \in Value
      BY DEF Value
    <3>2. Len(log) <= Len(log') /\ created' = created
      <4>1. Len(log') = Len(log) + 1
        BY <2>3, <3>1, PutsType, TypesFlat
      <4> QED BY <1>n, <2>3, <4>1 DEF Puts
    <3>3. Ages
      BY <3>2 DEF Ages
    <3> QED BY <1>s, <2>1, <3>3
  <2> QED BY <1>14, <2>2, <2>3 DEF ProclaimDecides
<1>15. CASE Revoked(c)
  <2>1. EndLease(c) /\ UNCHANGED <<pc, revision, answer, elected, resigned>>
    BY <1>15 DEF Revoked, object, waiting, emitted
  <2> QED BY <1>s, <2>1, EndLeaseAges
<1>16. CASE Start(c)
  <2>1. Goto(c, "granting") /\ UNCHANGED <<store, revision, answer, elected, resigned>> /\ pc[c] = "new"
    BY <1>16 DEF Start, object, waiting, emitted
  <2> QED BY <1>g, <2>1, StoreAges DEF Waits
<1>17. CASE Resign(c)
  <2>1. UNCHANGED <<store, pc, revision, answer, elected>> /\ resigned \subseteq resigned'
    BY <1>17 DEF Resign, waiting, emitted
  <2> QED BY <1>s, <2>1, StoreAges
<1>18. CASE ProclaimSecond(c)
  <2>1. UNCHANGED <<store, pc, revision, answer, elected, resigned>>
    BY <1>18 DEF ProclaimSecond, waiting, emitted
  <2> QED BY <1>s, <2>1, StoreAges
<1>19. CASE CallFails(c)
  <2>1. pc[c] # "elected" /\ Fails(c) /\ UNCHANGED <<store, revision, answer>>
    BY <1>19 DEF CallFails, waiting
  <2> QED BY <1>f, <2>1
<1>20. CASE PutResent(c)
  <2>1. Goto(c, "putting") /\ UNCHANGED <<store, revision, answer, elected, resigned>> /\ pc[c] = "put"
    BY <1>20 DEF PutResent, object, waiting, emitted
  <2> QED BY <1>g, <2>1, StoreAges DEF Waits
<1>21. CASE ProclaimFails(c)
  <2>1. UNCHANGED <<store, revision, answer>>
    BY <1>21 DEF ProclaimFails, waiting
  <2>2. CASE pc[c] = "publishing"
    BY <1>f, <1>21, <2>1, <2>2 DEF ProclaimFails
  <2>3. CASE pc[c] # "publishing"
    <3>1. UNCHANGED <<pc, elected, resigned>>
      BY <1>21, <2>3 DEF ProclaimFails, emitted
    <3> QED BY <1>s, <2>1, <3>1, StoreAges
  <2> QED BY <2>2, <2>3
<1>22. CASE Expires(c)
  <2>1. EndLease(c) /\ UNCHANGED <<pc, revision, answer, elected, resigned>>
    BY <1>22 DEF Expires, object, waiting, emitted
  <2> QED BY <1>s, <2>1, EndLeaseAges
<1> QED
  BY <1>1, <1>2, <1>3, <1>4, <1>5, <1>6, <1>7, <1>8, <1>9, <1>10, <1>11, <1>12, <1>13, <1>14,
     <1>15, <1>16, <1>17, <1>18, <1>19, <1>20, <1>21, <1>22 DEF Runs, Serves, Uses, Errs

\* A campaign that has emitted 'elected' and not resigned has the oldest key as
\* long as its lease lives: whoever else comes, leaves, fails or proclaims, and
\* however often the first transaction is sent again (election.ts:425).
THEOREM OldestIsElected == Spec => []LeaderIsFirst
<1> DEFINE Inv == TypeOK /\ Seniority
<1>1. Init => Inv
  BY TypeInit, SeniorityInit
<1>2. Inv /\ [Next]_vars => Inv'
  BY TypeStep, SeniorityStep
<1>3. Inv => LeaderIsFirst
  BY DEF Seniority, Ranked, IsFirst, LeaderIsFirst, First, Present, TypeOK
<1> QED BY <1>1, <1>2, <1>3, PTL DEF Spec

(***************************************************************************)
(* What is proclaimed is stored                                            *)
(***************************************************************************)
Early == {"new", "granting", "putting", "put"}

\* Before its key's revision is known a campaign publishes nothing, and after
\* that its first transaction, which would put the old value, is over.
PublishedBy(c) ==
    /\ pc[c] \in Early => keyRevision[c] = 0 /\ proclaim[c] \in {"no", "pending", "rejected"}
    /\ proclaim[c] \in {"applied", "ok"} /\ created[c] # 0 => stored[c] = "second"
    /\ proclaim[c] = "ok" => value[c] = "second"

Published == \A c \in Candidate : PublishedBy(c)

LEMMA PublishedInit == Init => Published
BY DEF Init, Published, PublishedBy

\* A step of c, which is all that changes its key, its value and its call.
LEMMA PublishedOthers ==
  ASSUME Types, Published, NEW c \in Candidate, PublishedBy(c)',
         \A d \in Candidate : d # c =>
            /\ pc'[d] = pc[d] /\ keyRevision'[d] = keyRevision[d] /\ proclaim'[d] = proclaim[d]
            /\ created'[d] = created[d] /\ stored'[d] = stored[d] /\ value'[d] = value[d]
  PROVE  Published'
BY DEF Published, PublishedBy

LEMMA PublishedStep ==
  ASSUME TypeOK, Published, [Next]_vars
  PROVE  Published'
<1>t. Types
  BY TypesFlat
<1>0. CASE UNCHANGED vars
  BY <1>0 DEF Published, PublishedBy, vars, store, object
<1> SUFFICES ASSUME NEW c \in Candidate, Runs(c) \/ Serves(c) \/ Uses(c) \/ Errs(c) PROVE Published'
  BY <1>0 DEF Next
<1>k. PublishedBy(c)
  BY DEF Published
<1>f. /\ pc \in [Candidate -> Place] /\ keyRevision \in [Candidate -> Nat]
      /\ proclaim \in [Candidate -> Proclaim] /\ created \in [Candidate -> Nat]
      /\ stored \in [Candidate -> Value] /\ value \in [Candidate -> Value]
  BY <1>t DEF Types
\* c goes to a place from which it does not put its key, or before its key is put.
<1>g. ASSUME NEW p, Goto(c, p), p \in Early => pc[c] \in Early,
             UNCHANGED <<created, stored, value, proclaim, keyRevision>>
      PROVE  Published'
  <2>1. \A d \in Candidate : pc'[d] = IF d = c THEN p ELSE pc[d]
    BY <1>f, <1>g DEF Goto
  <2>2. PublishedBy(c)'
    BY <1>k, <1>g, <2>1 DEF PublishedBy
  <2> QED BY <1>t, <1>g, <2>1, <2>2, PublishedOthers
<1>1. CASE Granted(c)
  BY <1>g, <1>1 DEF Granted, Early, store, object
<1>2. CASE PutReturns(c)
  <2>1. PublishedBy(c)'
    BY <1>f, <1>k, <1>2 DEF PutReturns, LoopHead, Emit, Goto, PublishedBy, Early, store, object
  <2>2. \A d \in Candidate : d # c =>
          /\ pc'[d] = pc[d] /\ keyRevision'[d] = keyRevision[d] /\ proclaim'[d] = proclaim[d]
          /\ created'[d] = created[d] /\ stored'[d] = stored[d] /\ value'[d] = value[d]
    BY <1>f, <1>2 DEF PutReturns, LoopHead, Emit, Goto, store, object
  <2> QED BY <1>t, <2>1, <2>2, PublishedOthers
<1>3. CASE PutIgnored(c)
  BY <1>g, <1>3 DEF PutIgnored, Early, store, object
<1>4. CASE PutRejected(c)
  <2>1. PublishedBy(c)'
    BY <1>f, <1>k, <1>4 DEF PutRejected, Fails, RejectsPending, Goto, PublishedBy, Early, store, object
  <2>2. \A d \in Candidate : d # c =>
          /\ pc'[d] = pc[d] /\ keyRevision'[d] = keyRevision[d] /\ proclaim'[d] = proclaim[d]
          /\ created'[d] = created[d] /\ stored'[d] = stored[d] /\ value'[d] = value[d]
    BY <1>f, <1>4 DEF PutRejected, Fails, RejectsPending, Goto, store, object
  <2> QED BY <1>t, <2>1, <2>2, PublishedOthers
<1>5. CASE QueryReturns(c)
  BY <1>g, <1>5 DEF QueryReturns, Emit, Early, store, object
<1>6. CASE GetReturns(c)
  BY <1>g, <1>6 DEF GetReturns, LoopHead, Emit, Early, store, object
<1>7. CASE WatchCreated(c)
  BY <1>g, <1>7 DEF WatchCreated, Early, store, object
<1>8. CASE Deleted(c)
  BY <1>g, <1>8 DEF Deleted, Early, store, object
<1>9. CASE WatchEnded(c)
  BY <1>g, <1>9 DEF WatchEnded, LoopHead, Emit, Early, store, object
<1>10. CASE ProclaimReturns(c)
  <2>1. PublishedBy(c)'
    BY <1>f, <1>k, <1>10 DEF ProclaimReturns, LoopHead, Emit, Goto, PublishedBy, Early, store, object
  <2>2. \A d \in Candidate : d # c =>
          /\ pc'[d] = pc[d] /\ keyRevision'[d] = keyRevision[d] /\ proclaim'[d] = proclaim[d]
          /\ created'[d] = created[d] /\ stored'[d] = stored[d] /\ value'[d] = value[d]
    BY <1>f, <1>10 DEF ProclaimReturns, LoopHead, Emit, Goto, store, object
  <2> QED BY <1>t, <2>1, <2>2, PublishedOthers
<1>11. CASE ProclaimRefused(c)
  <2>1. PublishedBy(c)'
    BY <1>f, <1>k, <1>11 DEF ProclaimRefused, Fails, Goto, PublishedBy, Early, store, object
  <2>2. \A d \in Candidate : d # c =>
          /\ pc'[d] = pc[d] /\ keyRevision'[d] = keyRevision[d] /\ proclaim'[d] = proclaim[d]
          /\ created'[d] = created[d] /\ stored'[d] = stored[d] /\ value'[d] = value[d]
    BY <1>f, <1>11 DEF ProclaimRefused, Fails, Goto, store, object
  <2> QED BY <1>t, <2>1, <2>2, PublishedOthers
<1>12. CASE LeaseLost(c)
  BY <1>12 DEF LeaseLost, Published, PublishedBy, store, object
<1>13. CASE PutDecides(c)
  <2>1. PublishedBy(c)'
    BY <1>f, <1>k, <1>13 DEF PutDecides, Puts, Goto, PublishedBy, Early, store, object
  <2>2. \A d \in Candidate : d # c =>
          /\ pc'[d] = pc[d] /\ keyRevision'[d] = keyRevision[d] /\ proclaim'[d] = proclaim[d]
          /\ created'[d] = created[d] /\ stored'[d] = stored[d] /\ value'[d] = value[d]
    BY <1>f, <1>13 DEF PutDecides, Puts, Goto, store, object
  <2> QED BY <1>t, <2>1, <2>2, PublishedOthers
<1>14. CASE ProclaimDecides(c)
  <2>1. PublishedBy(c)'
    BY <1>f, <1>k, <1>14 DEF ProclaimDecides, Puts, Goto, PublishedBy, Early, store, object
  <2>2. \A d \in Candidate : d # c =>
          /\ pc'[d] = pc[d] /\ keyRevision'[d] = keyRevision[d] /\ proclaim'[d] = proclaim[d]
          /\ created'[d] = created[d] /\ stored'[d] = stored[d] /\ value'[d] = value[d]
    BY <1>f, <1>14 DEF ProclaimDecides, Puts, Goto, store, object
  <2> QED BY <1>t, <2>1, <2>2, PublishedOthers
<1>15. CASE Revoked(c)
  <2>1. PublishedBy(c)'
    BY <1>f, <1>k, <1>15 DEF Revoked, EndLease, Goto, PublishedBy, Early, store, object
  <2>2. \A d \in Candidate : d # c =>
          /\ pc'[d] = pc[d] /\ keyRevision'[d] = keyRevision[d] /\ proclaim'[d] = proclaim[d]
          /\ created'[d] = created[d] /\ stored'[d] = stored[d] /\ value'[d] = value[d]
    BY <1>f, <1>15 DEF Revoked, EndLease, Goto, store, object
  <2> QED BY <1>t, <2>1, <2>2, PublishedOthers
<1>16. CASE Start(c)
  BY <1>g, <1>16 DEF Start, Early, store, object
<1>17. CASE Resign(c)
  BY <1>17 DEF Resign, Published, PublishedBy, store, object
<1>18. CASE ProclaimSecond(c)
  <2>1. PublishedBy(c)'
    BY <1>f, <1>k, <1>18 DEF ProclaimSecond, Goto, PublishedBy, Early, store, object
  <2>2. \A d \in Candidate : d # c =>
          /\ pc'[d] = pc[d] /\ keyRevision'[d] = keyRevision[d] /\ proclaim'[d] = proclaim[d]
          /\ created'[d] = created[d] /\ stored'[d] = stored[d] /\ value'[d] = value[d]
    BY <1>f, <1>18 DEF ProclaimSecond, Goto, store, object
  <2> QED BY <1>t, <2>1, <2>2, PublishedOthers
<1>19. CASE CallFails(c)
  <2>1. PublishedBy(c)'
    BY <1>f, <1>k, <1>19 DEF CallFails, Fails, RejectsPending, Goto, PublishedBy, Early, store, object
  <2>2. \A d \in Candidate : d # c =>
          /\ pc'[d] = pc[d] /\ keyRevision'[d] = keyRevision[d] /\ proclaim'[d] = proclaim[d]
          /\ created'[d] = created[d] /\ stored'[d] = stored[d] /\ value'[d] = value[d]
    BY <1>f, <1>19 DEF CallFails, Fails, RejectsPending, Goto, store, object
  <2> QED BY <1>t, <2>1, <2>2, PublishedOthers
<1>20. CASE PutResent(c)
  BY <1>g, <1>20 DEF PutResent, Early, store, object
<1>21. CASE ProclaimFails(c)
  <2>1. PublishedBy(c)'
    BY <1>f, <1>k, <1>21 DEF ProclaimFails, Fails, Goto, PublishedBy, Early, store, object
  <2>2. \A d \in Candidate : d # c =>
          /\ pc'[d] = pc[d] /\ keyRevision'[d] = keyRevision[d] /\ proclaim'[d] = proclaim[d]
          /\ created'[d] = created[d] /\ stored'[d] = stored[d] /\ value'[d] = value[d]
    BY <1>f, <1>21 DEF ProclaimFails, Fails, Goto, store, object
  <2> QED BY <1>t, <2>1, <2>2, PublishedOthers
<1>22. CASE Expires(c)
  <2>1. PublishedBy(c)'
    BY <1>f, <1>k, <1>22 DEF Expires, EndLease, Goto, PublishedBy, Early, store, object
  <2>2. \A d \in Candidate : d # c =>
          /\ pc'[d] = pc[d] /\ keyRevision'[d] = keyRevision[d] /\ proclaim'[d] = proclaim[d]
          /\ created'[d] = created[d] /\ stored'[d] = stored[d] /\ value'[d] = value[d]
    BY <1>f, <1>22 DEF Expires, EndLease, Goto, store, object
  <2> QED BY <1>t, <2>1, <2>2, PublishedOthers
<1> QED
  BY <1>1, <1>2, <1>3, <1>4, <1>5, <1>6, <1>7, <1>8, <1>9, <1>10, <1>11, <1>12, <1>13, <1>14,
     <1>15, <1>16, <1>17, <1>18, <1>19, <1>20, <1>21, <1>22 DEF Runs, Serves, Uses, Errs

\* Once proclaim() has resolved, its value is the one in etcd as long as the key
\* is, and the campaign knows it: the first transaction, which puts the value
\* start() began with, cannot come after it (election.ts:241).
THEOREM ProclaimStays == Spec => []ProclaimedIsStored
<1> DEFINE Inv == TypeOK /\ Published
<1>1. Init => Inv
  BY TypeInit, PublishedInit
<1>2. Inv /\ [Next]_vars => Inv'
  BY TypeStep, PublishedStep
<1>3. Inv => ProclaimedIsStored
  BY DEF Published, PublishedBy, ProclaimedIsStored, Present
<1> QED BY <1>1, <1>2, <1>3, PTL DEF Spec

(***************************************************************************)
(* The observer                                                            *)
(***************************************************************************)
\* What etcd does to the keys of the election in one step.
LEMMA StoreStep ==
  ASSUME Types, [Next]_vars
  PROVE  \/ UNCHANGED <<log, created, stored>>
         \/ \E c \in Candidate : EndLease(c) \/ \E v \in Value : Puts(c, v)
<1>0. CASE UNCHANGED vars
  BY <1>0 DEF vars, store
<1> SUFFICES ASSUME NEW c \in Candidate, Runs(c) \/ Serves(c) \/ Uses(c) \/ Errs(c)
             PROVE  \/ UNCHANGED <<log, created, stored>>
                    \/ EndLease(c) \/ \E v \in Value : Puts(c, v)
  BY <1>0 DEF Next
<1>1. CASE Runs(c)
  BY <1>1 DEF Runs, Granted, PutReturns, PutIgnored, PutRejected, QueryReturns, GetReturns, WatchCreated,
              Deleted, WatchEnded, ProclaimReturns, ProclaimRefused, LeaseLost, store
<1>2. CASE Serves(c)
  <2>1. original[c] \in Value /\ "second" \in Value
    BY DEF Types, Value
  <2> QED BY <1>2, <2>1 DEF Serves, PutDecides, ProclaimDecides, Revoked, store
<1>3. CASE Uses(c)
  BY <1>3 DEF Uses, Start, Resign, ProclaimSecond, store
<1>4. CASE Errs(c)
  BY <1>4 DEF Errs, CallFails, PutResent, ProclaimFails, Expires, store
<1> QED BY <1>1, <1>2, <1>3, <1>4

\* The event at k puts the key of c with value v, and no event of that key comes
\* after it, up to n.
LastPut(c, v, k, n) ==
    /\ k \in 1..Len(log)
    /\ log[k] = [key |-> c, kind |-> "put", value |-> v]
    /\ \A j \in 1..Len(log) : k < j /\ j <= n => log[j].key # c

\* The last event of a key that exists put the value that is stored.
Written == \A c \in Candidate : created[c] # 0 => \E k \in 1..Len(log) : LastPut(c, stored[c], k, Len(log))

\* The log is only appended to.
LogKept ==
    /\ Len(log) \in Nat /\ Len(log') \in Nat /\ Len(log) <= Len(log')
    /\ DOMAIN log' = 1..Len(log')
    /\ \A i \in 1..Len(log) : log'[i] = log[i]

LEMMA WrittenStep ==
  ASSUME Types, Written, [Next]_vars
  PROVE  LogKept /\ Written'
<1>t. /\ log \in Seq(Event) /\ Len(log) \in Nat
      /\ created \in [Candidate -> Nat] /\ stored \in [Candidate -> Value]
  BY DEF Types
<1>1. CASE UNCHANGED <<log, created, stored>>
  BY <1>t, <1>1 DEF LogKept, Written, LastPut
\* One event of c is appended; the keys of the others are as they were.
<1>2. ASSUME NEW c \in Candidate, NEW e \in Event, e.key = c, log' = Append(log, e),
             \A d \in Candidate \ {c} : created'[d] = created[d] /\ stored'[d] = stored[d],
             created'[c] # 0 => e = [key |-> c, kind |-> "put", value |-> stored'[c]]
      PROVE  LogKept /\ Written'
  <2>1. /\ Len(log') = Len(log) + 1 /\ log'[Len(log) + 1] = e
        /\ \A i \in 1..Len(log) : log'[i] = log[i]
        /\ DOMAIN log' = 1..Len(log')
    BY <1>t, <1>2
  <2>2. LogKept
    BY <1>t, <2>1 DEF LogKept
  <2>3. ASSUME NEW d \in Candidate, created'[d] # 0
        PROVE  \E k \in 1..Len(log') : LastPut(d, stored[d], k, Len(log))'
    <3>1. CASE d = c
      <4>1. PICK n : n = Len(log) + 1
        OBVIOUS
      <4>2. /\ n \in 1..Len(log') /\ log'[n] = [key |-> d, kind |-> "put", value |-> stored'[d]]
            /\ n = Len(log') /\ n \in Nat
        BY <1>t, <1>2, <2>1, <2>3, <3>1, <4>1
      <4>3. \A j \in 1..Len(log') : ~ n < j
        BY <4>2
      <4>4. LastPut(d, stored[d], n, Len(log))'
        BY <4>2, <4>3 DEF LastPut
      <4> QED BY <4>2, <4>4
    <3>2. CASE d # c
      <4>1. created[d] # 0 /\ stored'[d] = stored[d]
        BY <1>2, <2>3, <3>2
      <4>2. PICK k \in 1..Len(log) : LastPut(d, stored[d], k, Len(log))
        BY <4>1 DEF Written
      <4>3. /\ k \in 1..Len(log') /\ log'[k] = [key |-> d, kind |-> "put", value |-> stored'[d]]
        BY <1>t, <2>1, <4>1, <4>2 DEF LastPut
      <4>4. ASSUME NEW j \in 1..Len(log'), k < j PROVE log'[j].key # d
        <5>1. CASE j = Len(log) + 1
          BY <1>2, <2>1, <3>2, <5>1
        <5>2. CASE j \in 1..Len(log)
          BY <1>t, <2>1, <4>2, <4>4, <5>2 DEF LastPut
        <5> QED BY <1>t, <2>1, <5>1, <5>2
      <4> QED BY <4>3, <4>4 DEF LastPut
    <3> QED BY <3>1, <3>2
  <2> QED BY <2>2, <2>3 DEF Written
<1>3. ASSUME NEW c \in Candidate, NEW v \in Value, Puts(c, v)
      PROVE  LogKept /\ Written'
  <2>1. PICK e : e = [key |-> c, kind |-> "put", value |-> v]
    OBVIOUS
  <2>2. e \in Event /\ e.key = c /\ log' = Append(log, e)
    BY <1>3, <2>1 DEF Puts, Event
  <2>3. stored'[c] = v /\ \A d \in Candidate \ {c} : created'[d] = created[d] /\ stored'[d] = stored[d]
    BY <1>t, <1>3 DEF Puts
  <2> QED BY <1>2, <2>1, <2>2, <2>3
<1>4. ASSUME NEW c \in Candidate, EndLease(c)
      PROVE  LogKept /\ Written'
  <2>1. /\ created'[c] = 0 /\ stored' = stored
        /\ \A d \in Candidate \ {c} : created'[d] = created[d]
    BY <1>t, <1>4 DEF EndLease
  <2>2. CASE created[c] = 0
    <3>1. log' = log /\ created' = created
      BY <1>t, <1>4, <2>1, <2>2 DEF EndLease
    <3> QED BY <1>1, <2>1, <3>1
  <2>3. CASE created[c] # 0
    <3>1. PICK e : e = [key |-> c, kind |-> "delete", value |-> stored[c]]
      OBVIOUS
    <3>2. e \in Event /\ e.key = c /\ log' = Append(log, e)
      BY <1>t, <1>4, <2>3, <3>1 DEF EndLease, Event
    <3> QED BY <1>2, <2>1, <3>2
  <2> QED BY <2>2, <2>3
<1> QED BY <1>1, <1>3, <1>4, StoreStep

\* While the watcher for any put ends, the put that is kept is the last one seen.
Kept(k) == /\ k < at
           /\ log[k] = [key |-> leader, kind |-> "put", value |-> latest]
           /\ PutsIn(k + 1, at - 1) = {}

\* What FollowsKey rests on: the watchers stay within the log.
Observing ==
    /\ ObserverTypeOK
    /\ at <= Len(log) + 1
    /\ place # "reading" => 1 <= at
    /\ place \in {"anyStops", "key", "keyStops"} => leader \in Candidate
    /\ place = "anyStops" => \E k \in 1..Len(log) : Kept(k)
    /\ FollowsKey

LEMMA ObserverStays ==
  ASSUME Types, Observing, LogKept, UNCHANGED observer
  PROVE  Observing'
<1>t. /\ log \in Seq(Event) /\ Len(log) \in Nat /\ at \in Nat
      /\ DOMAIN log = 1..Len(log)
  BY DEF Types, Observing, ObserverTypeOK
<1>u. place' = place /\ current' = current /\ shown' = shown /\ leader' = leader /\ latest' = latest /\ at' = at
  BY DEF observer
<1>1. ObserverTypeOK' /\ at' <= Len(log') + 1 /\ (place' # "reading" => 1 <= at')
      /\ (place' \in {"anyStops", "key", "keyStops"} => leader' \in Candidate)
  BY <1>t, <1>u DEF Observing, ObserverTypeOK, LogKept
<1>2. ASSUME place' = "anyStops" PROVE \E k \in 1..Len(log') : Kept(k)'
  <2>1. PICK k \in 1..Len(log) : Kept(k)
    BY <1>u, <1>2 DEF Observing
  <2>2. k \in 1..Len(log') /\ k < at /\ log'[k] = [key |-> leader, kind |-> "put", value |-> latest]
    BY <1>t, <2>1 DEF Kept, LogKept
  <2>3. \A j \in k + 1..at - 1 : log'[j] = log[j]
    BY <1>t, <2>1 DEF Observing, LogKept
  <2>4. {j \in k + 1..at - 1 : log'[j].kind = "put"} = {}
    BY <2>1, <2>3 DEF Kept, PutsIn
  <2> QED BY <1>u, <2>2, <2>4 DEF Kept, PutsIn
<1>3. ASSUME place' = "key" PROVE current' = leader' /\ \E k \in DOMAIN log' : LastShown(k)'
  <2>1. current = leader
    BY <1>u, <1>3 DEF Observing, FollowsKey
  <2>2. PICK k \in 1..Len(log) : LastShown(k)
    BY <1>t, <1>u, <1>3 DEF Observing, FollowsKey
  <2>3. /\ k \in 1..Len(log') /\ k < at /\ log'[k] = [key |-> leader, kind |-> "put", value |-> shown]
    BY <1>t, <2>2 DEF LastShown, LogKept
  <2>4. \A j \in 1..Len(log') : j < at => j \in 1..Len(log) /\ log'[j] = log[j]
    BY <1>t DEF Observing, LogKept
  <2>5. \A j \in 1..Len(log') : k < j /\ j < at => log'[j].key # leader
    BY <1>t, <2>2, <2>4 DEF LastShown
  <2>6. DOMAIN log' = 1..Len(log')
    BY DEF LogKept
  <2> QED BY <1>u, <2>1, <2>3, <2>5, <2>6 DEF LastShown
<1> QED BY <1>1, <1>2, <1>3 DEF Observing, FollowsKey

LEMMA ObserverMoves ==
  ASSUME TypeOK, Written, Observing, Observes
  PROVE  Observing'
<1>t. /\ log \in Seq(Event) /\ Len(log) \in Nat /\ at \in Nat /\ DOMAIN log = 1..Len(log)
      /\ stored \in [Candidate -> Value] /\ created \in [Candidate -> Nat]
      /\ log' = log /\ stored' = stored /\ created' = created
      /\ \A i \in 1..Len(log) : log[i] \in Event
  BY DEF TypeOK, Observing, ObserverTypeOK, Observes, vars, store
<1>v. "first" \in Value
  BY DEF Value
<1>o. ObserverTypeOK /\ at <= Len(log) + 1
  BY DEF Observing
<1>1. CASE ReadsLeader
  <2>1. PICK c : c = Oldest(Present)
    OBVIOUS
  <2>2. c \in Present
    BY <1>1, <2>1, OldestIsPresent DEF ReadsLeader
  <2>3. c \in Candidate /\ created[c] # 0
    BY <2>2 DEF Present
  <2>4. /\ place' = "key" /\ leader' = c /\ current' = c /\ shown' = stored[c]
        /\ latest' = latest /\ at' = Len(log) + 1
    BY <1>1, <2>1 DEF ReadsLeader, SetLeader
  <2>5. PICK k \in 1..Len(log) : LastPut(c, stored[c], k, Len(log))
    BY <2>3 DEF Written
  <2>6. LastShown(k)'
    BY <1>t, <2>4, <2>5 DEF LastPut, LastShown
  <2>7. ObserverTypeOK'
    BY <1>t, <1>o, <2>3, <2>4 DEF ObserverTypeOK
  <2> QED BY <1>t, <2>3, <2>4, <2>6, <2>7 DEF Observing, FollowsKey
<1>2. CASE ReadsNone
  <2>1. /\ place' = "any" /\ current' = None /\ shown' = "first" /\ leader' = None /\ latest' = "first"
        /\ at' = IF log = <<>> THEN 1 ELSE Len(log)
    BY <1>2 DEF ReadsNone, SetLeader
  <2>2. at' \in Nat /\ 1 <= at' /\ at' <= Len(log) + 1
    BY <1>t, <2>1
  <2> QED BY <1>t, <1>v, <2>1, <2>2 DEF Observing, ObserverTypeOK, FollowsKey
<1>3. CASE SeesPuts
  <2>1. PICK n \in at..Len(log) :
          /\ PutsIn(at, n) # {}
          /\ LET k == CHOOSE k \in PutsIn(at, n) : \A j \in PutsIn(at, n) : j <= k
             IN  /\ leader' = log[k].key
                 /\ latest' = log[k].value
                 /\ at' = n + 1
    BY <1>3 DEF SeesPuts
  <2>2. 1 <= at
    BY <1>3 DEF SeesPuts, Observing
  <2>3. PutsIn(at, n) \in SUBSET (0..n) /\ n \in Nat
    BY <1>t, <2>1 DEF PutsIn
  <2>4. PICK m \in PutsIn(at, n) : \A j \in PutsIn(at, n) : j <= m
    BY <2>1, <2>3, GreatestExists
  <2>5. PICK k : k = CHOOSE x \in PutsIn(at, n) : \A j \in PutsIn(at, n) : j <= x
    OBVIOUS
  <2>6. k \in PutsIn(at, n) /\ \A j \in PutsIn(at, n) : j <= k
    BY <2>4, <2>5
  <2>7. leader' = log[k].key /\ latest' = log[k].value /\ at' = n + 1
    BY <2>1, <2>5
  <2>8. k \in 1..Len(log) /\ k <= n /\ log[k].kind = "put"
    BY <1>t, <2>1, <2>2, <2>6 DEF PutsIn
  <2>9. log[k] \in Event /\ log[k] = [key |-> leader', kind |-> "put", value |-> latest']
    BY <1>t, <2>7, <2>8 DEF Event
  <2>10. leader' \in Candidate /\ latest' \in Value
    BY <2>7, <2>9 DEF Event
  <2>11. \A j \in k + 1..n : j \in at..n /\ log[j].kind # "put"
    BY <1>t, <2>1, <2>3, <2>6, <2>8 DEF PutsIn
  <2>12. {j \in k + 1..at' - 1 : log'[j].kind = "put"} = {}
    BY <1>t, <2>3, <2>7, <2>11
  <2>13. Kept(k)'
    BY <1>t, <2>3, <2>7, <2>8, <2>9, <2>12 DEF Kept, PutsIn
  <2>14. place' = "anyStops" /\ current' = current /\ shown' = shown
    BY <1>3 DEF SeesPuts
  <2>15. at' \in Nat /\ 1 <= at' /\ at' <= Len(log') + 1
    BY <1>t, <2>1, <2>2, <2>7
  <2>16. ObserverTypeOK'
    BY <1>o, <2>10, <2>14, <2>15 DEF ObserverTypeOK
  <2> QED BY <1>t, <2>8, <2>10, <2>13, <2>14, <2>15, <2>16 DEF Observing, FollowsKey
<1>4. CASE StartsAtKey
  <2>1. PICK k \in 1..Len(log) : Kept(k)
    BY <1>4 DEF StartsAtKey, Observing
  <2> DEFINE Starts(i) == /\ log[i].key = leader /\ log[i].kind = "put" /\ i < at
                          /\ \A j \in PutsIn(i + 1, at - 1) : log[j].key # leader
  <2>2. Starts(k)
    BY <2>1 DEF Kept
  <2>3. PICK i : i = CHOOSE x \in 1..Len(log) : Starts(x)
    OBVIOUS
  <2>4. i \in 1..Len(log) /\ Starts(i)
    BY <2>2, <2>3
  <2>5. at' = 1 + i
    BY <1>4, <2>3 DEF StartsAtKey
  <2>6. ~ i < k
    <3> SUFFICES ASSUME i < k PROVE FALSE
      OBVIOUS
    <3>1. k \in PutsIn(i + 1, at - 1) /\ log[k].key = leader
      BY <1>t, <2>1, <2>4 DEF Kept, PutsIn
    <3> QED BY <2>4, <3>1
  <2>7. ~ k < i
    <3> SUFFICES ASSUME k < i PROVE FALSE
      OBVIOUS
    <3>1. i \in PutsIn(k + 1, at - 1)
      BY <1>t, <2>1, <2>4 DEF PutsIn
    <3> QED BY <2>1, <3>1 DEF Kept
  <2>8. i = k
    BY <1>t, <2>1, <2>4, <2>6, <2>7
  <2>9. /\ place' = "key" /\ leader' = leader /\ current' = leader /\ shown' = latest /\ latest' = "first"
    BY <1>4 DEF StartsAtKey, SetLeader
  <2>10. leader \in Candidate
    BY <1>4 DEF StartsAtKey, Observing
  <2>11. log[i] = [key |-> leader, kind |-> "put", value |-> latest]
    BY <2>1, <2>8 DEF Kept
  <2>12. LastShown(i)'
    BY <1>t, <2>4, <2>5, <2>9, <2>11 DEF LastShown
  <2>13. at' \in Nat /\ 1 <= at' /\ at' <= Len(log') + 1
    BY <1>t, <2>4, <2>5
  <2>14. ObserverTypeOK'
    BY <1>o, <1>v, <2>9, <2>10, <2>13 DEF ObserverTypeOK
  <2> QED BY <1>t, <2>4, <2>9, <2>10, <2>12, <2>13, <2>14 DEF Observing, FollowsKey
<1>5. CASE KeyEvent
  <2>1. PICK i \in Unseen :
          /\ \A j \in Unseen : i <= j
          /\ at' = i + 1
          /\ IF log[i].kind = "put"
             THEN SetLeader(leader, log[i].value) /\ UNCHANGED place
             ELSE place' = "keyStops" /\ UNCHANGED <<current, shown>>
    BY <1>5 DEF KeyEvent
  <2>2. leader' = leader /\ latest' = latest /\ leader \in Candidate /\ 1 <= at /\ place \in {"key", "keyStops"}
    BY <1>5 DEF KeyEvent, Observing
  <2>3. i \in 1..Len(log) /\ at <= i /\ log[i].key = leader /\ log[i] \in Event
    BY <1>t, <2>1, <2>2 DEF Unseen
  <2>4. at' \in Nat /\ 1 <= at' /\ at' <= Len(log') + 1
    BY <1>t, <2>1, <2>3
  <2>5. CASE log[i].kind = "put"
    <3>1. current' = leader /\ shown' = log[i].value /\ place' = place
      BY <2>1, <2>5 DEF SetLeader
    <3>2. shown' \in Value
      BY <2>3, <3>1 DEF Event
    <3>3. log[i] = [key |-> leader, kind |-> "put", value |-> shown']
      BY <2>3, <2>5, <3>1 DEF Event
    <3>4. LastShown(i)'
      BY <1>t, <2>1, <2>2, <2>3, <3>3 DEF LastShown
    <3>5. ObserverTypeOK'
      BY <1>o, <2>2, <2>4, <3>1, <3>2 DEF ObserverTypeOK
    <3> QED BY <1>t, <2>2, <2>3, <2>4, <3>1, <3>4, <3>5 DEF Observing, FollowsKey
  <2>6. CASE log[i].kind # "put"
    <3>1. place' = "keyStops" /\ current' = current /\ shown' = shown
      BY <2>1, <2>6
    <3>2. ObserverTypeOK'
      BY <1>o, <2>2, <2>4, <3>1 DEF ObserverTypeOK
    <3> QED BY <2>2, <2>4, <3>1, <3>2 DEF Observing, FollowsKey
  <2> QED BY <2>5, <2>6
<1>6. CASE KeyStopped
  <2>1. /\ place' = "reading" /\ leader' = None /\ latest' = "first" /\ at' = 0
        /\ current' = current /\ shown' = shown
    BY <1>6 DEF KeyStopped
  <2> QED BY <1>t, <1>v, <1>o, <2>1 DEF Observing, ObserverTypeOK, FollowsKey
<1> QED BY <1>1, <1>2, <1>3, <1>4, <1>5, <1>6 DEF Observes

\* The observer misses no event of the key that it follows, however many
\* campaigns come, go and proclaim between its read, or the put it saw, and the
\* start of its watch (election.ts:146-167).
THEOREM ObserverFollows == ObservedSpec => []FollowsKey
<1> DEFINE Inv == TypeOK /\ Written /\ Observing
<1>1. Init /\ ObserverInit => Inv
  <2> SUFFICES ASSUME Init, ObserverInit PROVE Inv
    OBVIOUS
  <2>1. Written
    BY DEF Init, Written
  <2>2. Observing
    BY DEF Init, ObserverInit, Observing, ObserverTypeOK, FollowsKey, Value
  <2> QED BY <2>1, <2>2, TypeInit
<1>2. Inv /\ [ObservedNext]_all => Inv'
  <2> SUFFICES ASSUME Inv, [ObservedNext]_all PROVE Inv'
    OBVIOUS
  <2>1. [Next]_vars /\ (UNCHANGED observer \/ Observes)
    BY DEF ObservedNext, Observes, all
  <2>2. Types
    BY TypesFlat
  <2>3. TypeOK' /\ LogKept /\ Written'
    BY <2>1, <2>2, TypeStep, WrittenStep
  <2>4. Observing'
    BY <2>1, <2>2, <2>3, ObserverStays, ObserverMoves
  <2> QED BY <2>3, <2>4
<1>3. Inv => FollowsKey
  BY DEF Observing
<1> QED BY <1>1, <1>2, <1>3, PTL DEF ObservedSpec

\* Watching them does not disturb the campaigns: what is proved of Spec holds of
\* ObservedSpec.
LEMMA ObservedIsElection == ObservedSpec => Spec
<1>1. [ObservedNext]_all => [Next]_vars
  BY DEF ObservedNext, Observes, all
<1> QED BY <1>1, PTL DEF ObservedSpec, Spec
=============================================================================
