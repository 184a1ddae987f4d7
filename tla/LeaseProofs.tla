----------------------------- MODULE LeaseProofs -----------------------------
(***************************************************************************)
(* Proofs about module Lease, for every length of the beat, number of      *)
(* streams and of faults: one loop keeps the lease alive, it goes on until *)
(* the lease is closed, and while the network is up it is in time.         *)
(***************************************************************************)
EXTENDS Lease, TLAPS

(***************************************************************************)
(* Types                                                                   *)
(***************************************************************************)
\* TypeOK, one variable at a time and without the grant and the calls.
LoopTypes ==
    /\ state \in {"Pending", "Alive", "Revoked"}
    /\ lost \in BOOLEAN
    /\ teardown \in Stream \cup {None}
    /\ retries \in [0..Delay -> Nat]
    /\ phase \in [Stream -> {"none", "opening", "open", "ended", "broken"}]
    /\ beat \in [Stream -> Timer(Beat)]
    /\ silence \in [Stream -> Timer(TTL)]

OtherTypes ==
    /\ auto \in BOOLEAN
    /\ leaseID \in {"pending", "id", "error"}
    /\ age \in 0..(Stale + 1)
    /\ revoking \in {"no", "id", "sent", "done"}
    /\ put \in {"none", "sent", "ok", "bad"} /\ once \in {"none", "sent", "ok", "bad"}
    /\ ttl \in 0..TTL
    /\ grant \in {"sent", "applied", "done"}
    /\ request \in SUBSET Stream
    /\ answer \in [Stream -> {"none", "ok", "bad"}]
    /\ down \in BOOLEAN
    /\ fails \in 0..MaxFails
    /\ downs \in 0..MaxDowns

LEMMA TypesFlat == TypeOK <=> LoopTypes /\ OtherTypes
BY DEF TypeOK, LoopTypes, OtherTypes

LEMMA TimeFacts ==
  /\ Beat \in Nat /\ Beat >= 1 /\ TTL \in Nat /\ TTL = 3 * Beat /\ Stale \in Nat /\ 0 \in 0..Stale + 1
  /\ Off \in Timer(TTL) /\ Off \in Timer(Beat) /\ TTL \in Timer(TTL) /\ Beat \in Timer(Beat)
  /\ TTL \in 0..TTL /\ 0 \in 0..TTL
  /\ Delay \in Nat /\ Delay >= 1 /\ Delay <= Beat /\ 0 \in 0..Delay /\ Delay \in 0..Delay
BY LeaseAssumption DEF TTL, Stale, Timer

\* What the timer of a retry does to the set of those that wait.
LEMMA RetrySet ==
  ASSUME retries \in [0..Delay -> Nat], SetRetry
  PROVE  /\ retries' \in [0..Delay -> Nat]
         /\ Delay \in Waiting'
         /\ Waiting = {} => Waiting' = {Delay} /\ retries'[Delay] = 1
<1>1. retries' \in [0..Delay -> Nat]
  BY TimeFacts DEF SetRetry
<1>2. \A d \in 0..Delay : retries'[d] = IF d = Delay THEN retries[d] + 1 ELSE retries[d]
  BY TimeFacts DEF SetRetry
<1>3. Delay \in Waiting'
  BY <1>1, <1>2, TimeFacts DEF Waiting
<1>4. ASSUME Waiting = {} PROVE Waiting' = {Delay} /\ retries'[Delay] = 1
  <2>1. \A d \in 0..Delay : retries[d] = 0
    BY <1>4 DEF Waiting
  <2> QED BY <1>2, <2>1, TimeFacts DEF Waiting
<1> QED BY <1>1, <1>3, <1>4

LEMMA RetryElapsed ==
  ASSUME retries \in [0..Delay -> Nat], retries' = ElapseRetries
  PROVE  /\ retries' \in [0..Delay -> Nat]
         /\ Waiting # {} => Waiting' # {}
         /\ Waiting = {} => Waiting' = {}
         /\ \A d \in Waiting : Waiting = {d} /\ retries[d] = 1 =>
              LET next == IF d = 0 THEN 0 ELSE d - 1
              IN  Waiting' = {next} /\ retries'[next] = 1
<1>1. \A d \in 0..Delay : retries'[d] = (IF d < Delay THEN retries[d + 1] ELSE 0)
                                        + (IF d = 0 THEN retries[0] ELSE 0)
  BY DEF ElapseRetries
<1>2. \A d \in 0..Delay : d < Delay => d + 1 \in 0..Delay
  BY TimeFacts
<1>3. \A d \in 0..Delay : retries'[d] \in Nat
  BY <1>1, <1>2, TimeFacts
<1>4. retries' \in [0..Delay -> Nat]
  BY <1>3 DEF ElapseRetries
<1>5. ASSUME Waiting # {} PROVE Waiting' # {}
  <2>1. PICK d \in 0..Delay : retries[d] > 0
    BY <1>5 DEF Waiting
  <2>2. CASE d = 0
    <3>1. retries'[0] > 0
      BY <1>1, <1>2, <2>1, <2>2, TimeFacts
    <3> QED BY <3>1, TimeFacts DEF Waiting
  <2>3. CASE d # 0
    <3>1. d - 1 \in 0..Delay /\ d - 1 < Delay /\ (d - 1) + 1 = d
      BY <2>3, TimeFacts
    <3>2. retries'[d - 1] > 0
      BY <1>1, <2>1, <3>1, TimeFacts
    <3> QED BY <3>1, <3>2 DEF Waiting
  <2> QED BY <2>2, <2>3
<1>6. ASSUME Waiting = {} PROVE Waiting' = {}
  <2>1. \A d \in 0..Delay : retries[d] = 0
    BY <1>6 DEF Waiting
  <2> QED BY <1>1, <1>2, <2>1, TimeFacts DEF Waiting
<1>7. ASSUME NEW d \in Waiting, Waiting = {d}, retries[d] = 1
      PROVE  LET next == IF d = 0 THEN 0 ELSE d - 1
             IN  Waiting' = {next} /\ retries'[next] = 1
  <2> DEFINE next == IF d = 0 THEN 0 ELSE d - 1
  <2>1. d \in 0..Delay /\ \A e \in 0..Delay : e # d => retries[e] = 0
    BY <1>7 DEF Waiting
  <2>2. next \in 0..Delay
    BY <2>1, TimeFacts
  <2>3. \A e \in 0..Delay : retries'[e] = IF e = next THEN 1 ELSE 0
    BY <1>1, <1>2, <1>7, <2>1, TimeFacts
  <2> QED BY <2>2, <2>3 DEF Waiting
<1> QED BY <1>4, <1>5, <1>6, <1>7

LEMMA TeardownType ==
  ASSUME LoopTypes,
         NEW ph \in [Stream -> {"none", "opening", "open", "ended", "broken"}],
         NEW sil \in [Stream -> Timer(TTL)], Teardown(ph, sil)
  PROVE  /\ teardown' \in Stream \cup {None}
         /\ phase' \in [Stream -> {"none", "opening", "open", "ended", "broken"}]
         /\ beat' \in [Stream -> Timer(Beat)]
         /\ silence' \in [Stream -> Timer(TTL)]
<1>1. Off \in Timer(TTL) /\ Off \in Timer(Beat)
  BY TimeFacts
<1> QED BY <1>1 DEF Teardown, LoopTypes

LEMMA EmitLossType ==
  ASSUME LoopTypes, EmitLoss(phase, silence), retries' = retries
  PROVE  LoopTypes'
<1>1. Teardown(phase, silence) /\ state' = "Revoked" /\ lost' = TRUE
  BY DEF EmitLoss, Close
<1>2. /\ teardown' \in Stream \cup {None}
      /\ phase' \in [Stream -> {"none", "opening", "open", "ended", "broken"}]
      /\ beat' \in [Stream -> Timer(Beat)]
      /\ silence' \in [Stream -> Timer(TTL)]
  BY <1>1, TeardownType DEF LoopTypes
<1> QED BY <1>1, <1>2 DEF LoopTypes

LEMMA ErrorType ==
  ASSUME LoopTypes, NEW bad \in BOOLEAN,
         NEW ph \in [Stream -> {"none", "opening", "open", "ended", "broken"}],
         NEW sil \in [Stream -> Timer(TTL)], HandleKeepaliveError(bad, ph, sil)
  PROVE  LoopTypes'
<1>1. CASE state = "Revoked"
  BY <1>1 DEF HandleKeepaliveError, LoopTypes
<1>2. CASE state # "Revoked"
  <2>1. /\ Teardown(ph, sil)
        /\ state' \in {"Revoked", state} /\ lost' \in {lost, TRUE}
        /\ retries' = retries \/ SetRetry
    BY <1>2 DEF HandleKeepaliveError, EmitLoss, Close
  <2>2. /\ teardown' \in Stream \cup {None}
        /\ phase' \in [Stream -> {"none", "opening", "open", "ended", "broken"}]
        /\ beat' \in [Stream -> Timer(Beat)]
        /\ silence' \in [Stream -> Timer(TTL)]
    BY <2>1, TeardownType
  <2>3. retries' \in [0..Delay -> Nat]
    BY <2>1, RetrySet DEF LoopTypes
  <2> QED BY <2>1, <2>2, <2>3 DEF LoopTypes
<1> QED BY <1>1, <1>2

LEMMA TypeInit == Init => TypeOK
<1> SUFFICES ASSUME Init PROVE LoopTypes /\ OtherTypes
  BY TypesFlat
<1>1. LoopTypes
  BY TimeFacts DEF Init, LoopTypes
<1>2. 0 \in 0..(Stale + 1) /\ 0 \in 0..MaxFails /\ 0 \in 0..MaxDowns
  BY TimeFacts, LeaseAssumption
<1>3. OtherTypes
  BY TimeFacts, <1>2 DEF Init, OtherTypes
<1> QED BY <1>1, <1>3

LEMMA OtherTypesStep == TypeOK /\ [Next]_vars => OtherTypes'
<1> SUFFICES ASSUME LoopTypes, OtherTypes, [Next]_vars PROVE OtherTypes'
  BY TypesFlat
<1> USE DEF OtherTypes, flags, loop, calls, wire, network
<1>z. 0 \in 0..MaxFails
  BY LeaseAssumption
<1>0. CASE UNCHANGED vars
  BY <1>0 DEF vars
<1>1. CASE Release
  BY <1>1 DEF Release
<1>2. CASE Revoke
  BY <1>2 DEF Revoke
<1>3. CASE Put
  BY <1>3 DEF Put
<1>4. CASE KeepaliveOnce
  BY <1>4 DEF KeepaliveOnce
<1>5. CASE GrantSucceeds
  BY <1>5, TimeFacts DEF GrantSucceeds
<1>6. CASE GrantFails
  BY <1>6 DEF GrantFails
<1>7. CASE RetryFires
  BY <1>7 DEF RetryFires, Keepalive, EmitLoss
<1>8. CASE RevokeSends
  BY <1>8 DEF RevokeSends
<1>9. CASE RevokeFails
  BY <1>9 DEF RevokeFails
<1>10. CASE PutReturns
  BY <1>10 DEF PutReturns
<1>11. CASE OnceReturns
  BY <1>11, TimeFacts DEF OnceReturns
<1>12. ASSUME NEW s \in Stream, StreamOpens(s) PROVE OtherTypes'
  BY <1>12 DEF StreamOpens
<1>13. ASSUME NEW s \in Stream, OpenFails(s) PROVE OtherTypes'
  BY <1>13, LeaseAssumption DEF OpenFails, CountFail, MoreFails
<1>14. ASSUME NEW s \in Stream, BeatFires(s) PROVE OtherTypes'
  BY <1>14 DEF BeatFires
<1>15. ASSUME NEW s \in Stream, DebounceFires(s) PROVE OtherTypes'
  BY <1>15 DEF DebounceFires
<1>16. ASSUME NEW s \in Stream, StreamError(s) PROVE OtherTypes'
  BY <1>16 DEF StreamError
<1>17. ASSUME NEW s \in Stream, OnData(s) PROVE OtherTypes'
  BY <1>17, TimeFacts DEF OnData
<1>18. CASE ServerGrants
  BY <1>18, TimeFacts DEF ServerGrants
<1>19. CASE ServerRevokes
  BY <1>19, TimeFacts DEF ServerRevokes
<1>20. CASE ServerAnswersPut
  BY <1>20 DEF ServerAnswersPut, Verdict
<1>21. CASE ServerAnswersOnce
  BY <1>21, <1>z, TimeFacts DEF ServerAnswersOnce, Renew, Verdict
<1>22. ASSUME NEW s \in Stream, ServerRenews(s) PROVE OtherTypes'
  BY <1>22, <1>z, TimeFacts DEF ServerRenews, Renew, Verdict
<1>23. ASSUME NEW s \in Stream, ServerEnds(s) PROVE OtherTypes'
  BY <1>23 DEF ServerEnds
<1>24. CASE NetDown
  BY <1>24, LeaseAssumption DEF NetDown, MoreDowns
<1>25. CASE NetUp
  BY <1>25 DEF NetUp
<1>26. ASSUME NEW s \in Stream, StreamBreaks(s) PROVE OtherTypes'
  BY <1>26, LeaseAssumption DEF StreamBreaks, CountFail, MoreFails
<1>27. CASE Tick
  BY <1>27, TimeFacts DEF Tick
<1> QED
  BY <1>0, <1>1, <1>2, <1>3, <1>4, <1>5, <1>6, <1>7, <1>8, <1>9, <1>10, <1>11, <1>12, <1>13, <1>14,
     <1>15, <1>16, <1>17, <1>18, <1>19, <1>20, <1>21, <1>22, <1>23, <1>24, <1>25, <1>26, <1>27
  DEF Next, User, Client, Server, Network

LEMMA LoopTypesStep == TypeOK /\ [Next]_vars => LoopTypes'
<1> SUFFICES ASSUME LoopTypes, OtherTypes, [Next]_vars PROVE LoopTypes'
  BY TypesFlat
<1>p. /\ phase \in [Stream -> {"none", "opening", "open", "ended", "broken"}]
      /\ silence \in [Stream -> Timer(TTL)] /\ beat \in [Stream -> Timer(Beat)]
  BY DEF LoopTypes
<1>u. ASSUME UNCHANGED <<state, lost, loop>> PROVE LoopTypes'
  BY <1>u DEF LoopTypes, loop
<1>0. CASE UNCHANGED vars
  BY <1>0, <1>u DEF vars, flags
<1>1. CASE Release
  <2>1. Teardown(phase, silence) /\ state' = "Revoked" /\ UNCHANGED <<lost, retries>>
    BY <1>1 DEF Release, Close
  <2> QED BY <1>p, <2>1, TeardownType DEF LoopTypes
<1>2. CASE Revoke
  <2>1. Teardown(phase, silence) /\ state' = "Revoked" /\ UNCHANGED <<lost, retries>>
    BY <1>2 DEF Revoke, Close
  <2> QED BY <1>p, <2>1, TeardownType DEF LoopTypes
<1>3. CASE Put
  BY <1>u, <1>3 DEF Put, flags
<1>4. CASE KeepaliveOnce
  BY <1>u, <1>4 DEF KeepaliveOnce, flags
<1>5. CASE GrantSucceeds
  BY <1>5 DEF GrantSucceeds, LoopTypes
<1>6. CASE GrantFails
  BY <1>6, EmitLossType DEF GrantFails
<1>7. CASE RetryFires
  <2>1. retries' \in [0..Delay -> Nat]
    <3>1. retries[0] - 1 \in Nat
      BY <1>7, TimeFacts DEF RetryFires, Waiting, LoopTypes
    <3> QED BY <1>7, <3>1 DEF RetryFires, LoopTypes
  <2>2. CASE TooOld(age)
    <3>1. EmitLoss(phase, silence)
      BY <1>7, <2>2 DEF RetryFires, Keepalive
    <3>2. Teardown(phase, silence) /\ state' = "Revoked" /\ lost' = TRUE
      BY <3>1 DEF EmitLoss, Close
    <3> QED BY <1>p, <2>1, <3>2, TeardownType DEF LoopTypes
  <2>3. CASE ~TooOld(age)
    BY <1>7, <2>1, <2>3 DEF RetryFires, Keepalive, LoopTypes
  <2> QED BY <2>2, <2>3
<1>8. CASE RevokeSends
  BY <1>u, <1>8 DEF RevokeSends, flags
<1>9. CASE RevokeFails
  BY <1>u, <1>9 DEF RevokeFails, flags
<1>10. CASE PutReturns
  <2>1. retries' = retries
    BY <1>10 DEF PutReturns
  <2>2. CASE EmitLoss(phase, silence)
    BY <2>1, <2>2, EmitLossType
  <2>3. CASE UNCHANGED <<state, lost, teardown, phase, beat, silence>>
    BY <2>1, <2>3 DEF LoopTypes
  <2> QED BY <1>10, <2>2, <2>3 DEF PutReturns
<1>11. CASE OnceReturns
  <2>1. retries' = retries
    BY <1>11 DEF OnceReturns
  <2>2. CASE EmitLoss(phase, silence)
    BY <2>1, <2>2, EmitLossType
  <2>3. CASE UNCHANGED <<state, lost, teardown, phase, beat, silence>>
    BY <2>1, <2>3 DEF LoopTypes
  <2> QED BY <1>11, <2>2, <2>3 DEF OnceReturns
<1>12. ASSUME NEW s \in Stream, StreamOpens(s) PROVE LoopTypes'
  <2>1. Interval \in Timer(Beat) /\ TTL \in Timer(TTL)
    BY TimeFacts DEF Interval
  <2> QED BY <1>12, <2>1 DEF StreamOpens, LoopTypes, flags
<1>13. ASSUME NEW s \in Stream, OpenFails(s) PROVE LoopTypes'
  <2>1. [phase EXCEPT ![s] = "none"] \in [Stream -> {"none", "opening", "open", "ended", "broken"}]
    BY <1>p
  <2> QED BY <1>p, <1>13, <2>1, ErrorType DEF OpenFails
<1>14. ASSUME NEW s \in Stream, BeatFires(s) PROVE LoopTypes'
  <2>1. Interval \in Timer(Beat)
    BY TimeFacts DEF Interval
  <2> QED BY <1>14, <2>1 DEF BeatFires, LoopTypes, flags
<1>15. ASSUME NEW s \in Stream, DebounceFires(s) PROVE LoopTypes'
  <2>1. [silence EXCEPT ![s] = Off] \in [Stream -> Timer(TTL)]
    BY <1>p, TimeFacts
  <2> QED BY <1>p, <1>15, <2>1, ErrorType DEF DebounceFires
<1>16. ASSUME NEW s \in Stream, StreamError(s) PROVE LoopTypes'
  <2>1. [phase EXCEPT ![s] = "none"] \in [Stream -> {"none", "opening", "open", "ended", "broken"}]
    BY <1>p
  <2> QED BY <1>p, <1>16, <2>1, ErrorType DEF StreamError
<1>17. ASSUME NEW s \in Stream, OnData(s) PROVE LoopTypes'
  <2>1. CASE answer[s] = "bad"
    BY <1>p, <1>17, <2>1, ErrorType DEF OnData
  <2>2. CASE answer[s] # "bad"
    BY <1>p, <1>17, <2>2, TimeFacts DEF OnData, LoopTypes
  <2> QED BY <2>1, <2>2
<1>18. CASE ServerGrants
  BY <1>u, <1>18 DEF ServerGrants, flags
<1>19. CASE ServerRevokes
  BY <1>u, <1>19 DEF ServerRevokes, flags
<1>20. CASE ServerAnswersPut
  BY <1>u, <1>20 DEF ServerAnswersPut, flags
<1>21. CASE ServerAnswersOnce
  BY <1>u, <1>21 DEF ServerAnswersOnce, flags
<1>22. ASSUME NEW s \in Stream, ServerRenews(s) PROVE LoopTypes'
  BY <1>u, <1>22 DEF ServerRenews, flags
<1>23. ASSUME NEW s \in Stream, ServerEnds(s) PROVE LoopTypes'
  BY <1>p, <1>23 DEF ServerEnds, LoopTypes, flags
<1>24. CASE NetDown
  BY <1>u, <1>24 DEF NetDown, flags
<1>25. CASE NetUp
  BY <1>u, <1>25 DEF NetUp, flags
<1>26. ASSUME NEW s \in Stream, StreamBreaks(s) PROVE LoopTypes'
  BY <1>p, <1>26 DEF StreamBreaks, LoopTypes, flags
<1>27. CASE Tick
  <2>1. ASSUME NEW s \in Stream
        PROVE  /\ beat[s] # Off => beat[s] - 1 \in 0..Beat
               /\ silence[s] # Off => silence[s] - 1 \in 0..TTL
    <3>1. beat[s] # 0 /\ silence[s] # 0
      BY <1>27 DEF Tick, Busy
    <3>2. (beat[s] = Off \/ beat[s] \in 0..Beat) /\ (silence[s] = Off \/ silence[s] \in 0..TTL)
      BY <1>p DEF Timer
    <3> QED BY <3>1, <3>2, TimeFacts
  <2>2. Elapse(beat) \in [Stream -> Timer(Beat)] /\ Elapse(silence) \in [Stream -> Timer(TTL)]
    BY <2>1, TimeFacts DEF Elapse, Timer
  <2>3. retries' \in [0..Delay -> Nat]
    BY <1>27, RetryElapsed DEF Tick, LoopTypes
  <2> QED BY <1>27, <2>2, <2>3 DEF Tick, LoopTypes
<1> QED
  BY <1>0, <1>1, <1>2, <1>3, <1>4, <1>5, <1>6, <1>7, <1>8, <1>9, <1>10, <1>11, <1>12, <1>13, <1>14,
     <1>15, <1>16, <1>17, <1>18, <1>19, <1>20, <1>21, <1>22, <1>23, <1>24, <1>25, <1>26, <1>27
  DEF Next, User, Client, Server, Network

LEMMA TypeStep == TypeOK /\ [Next]_vars => TypeOK'
BY OtherTypesStep, LoopTypesStep DEF TypeOK, LoopTypes, OtherTypes

\* Every reachable state is well typed: no timer goes below zero, since time
\* passes only when none is due, and teardown() is of a stream.
THEOREM TypeCorrect == Spec => []TypeOK
BY TypeInit, TypeStep, PTL DEF Spec

(***************************************************************************)
(* The loop goes on                                                        *)
(***************************************************************************)
LEMMA GoesOnStep ==
  ASSUME TypeOK, LoopGoesOn, [Next]_vars
  PROVE  LoopGoesOn'
<1> DEFINE Goes ==
      \/ Waiting' # {}
      \/ \E t \in Stream : phase'[t] = "opening"
      \/ teardown' # None /\ (phase'[teardown'] = "broken" \/ silence'[teardown'] # Off)
<1> SUFFICES ASSUME state' = "Alive", auto' PROVE Goes
  BY DEF LoopGoesOn
<1>t. LoopTypes /\ OtherTypes
  BY TypesFlat
<1>p. /\ phase \in [Stream -> {"none", "opening", "open", "ended", "broken"}]
      /\ silence \in [Stream -> Timer(TTL)] /\ retries \in [0..Delay -> Nat]
      /\ teardown \in Stream \cup {None}
      /\ TTL # Off /\ 0 # Off
  BY <1>t, TimeFacts, LeaseAssumption DEF LoopTypes
<1>k. state = "Alive" /\ auto =>
        \/ Waiting # {}
        \/ \E s \in Stream : phase[s] = "opening"
        \/ teardown # None /\ (phase[teardown] = "broken" \/ silence[teardown] # Off)
  BY DEF LoopGoesOn
<1>w. retries' = retries => Waiting' = Waiting
  BY DEF Waiting
\* An error that does not close the lease sets a retry.
<1>e. ASSUME NEW bad, NEW ph, NEW sil, HandleKeepaliveError(bad, ph, sil) PROVE Waiting' # {}
  <2>1. SetRetry
    BY <1>e DEF HandleKeepaliveError, EmitLoss, Close
  <2> QED BY <1>p, <2>1, RetrySet
<1>u. ASSUME UNCHANGED <<state, auto, teardown, retries, phase, silence>>
      PROVE  Goes
  BY <1>k, <1>u, <1>w
<1>0. CASE UNCHANGED vars
  BY <1>0, <1>u DEF vars, flags, loop
<1>1. CASE Release
  BY <1>1 DEF Release, EmitLoss, Close
<1>2. CASE Revoke
  BY <1>2 DEF Revoke, EmitLoss, Close
<1>3. CASE Put
  BY <1>u, <1>3 DEF Put, flags, loop
<1>4. CASE KeepaliveOnce
  BY <1>u, <1>4 DEF KeepaliveOnce, flags, loop
<1>5. CASE GrantSucceeds
  BY <1>p, <1>k, <1>w, <1>5 DEF GrantSucceeds
<1>6. CASE GrantFails
  BY <1>6 DEF GrantFails, EmitLoss, Close
<1>7. CASE RetryFires
  BY <1>p, <1>7 DEF RetryFires, Keepalive, EmitLoss, Close
<1>8. CASE RevokeSends
  BY <1>u, <1>8 DEF RevokeSends, flags, loop
<1>9. CASE RevokeFails
  BY <1>u, <1>9 DEF RevokeFails, flags, loop
<1>10. CASE PutReturns
  BY <1>u, <1>10 DEF PutReturns, EmitLoss, Close
<1>11. CASE OnceReturns
  BY <1>u, <1>11 DEF OnceReturns, EmitLoss, Close
<1>12. ASSUME NEW s \in Stream, StreamOpens(s) PROVE Goes
  BY <1>p, <1>12, LeaseAssumption DEF StreamOpens, flags
<1>13. ASSUME NEW s \in Stream, OpenFails(s) PROVE Goes
  BY <1>e, <1>13 DEF OpenFails
<1>14. ASSUME NEW s \in Stream, BeatFires(s) PROVE Goes
  BY <1>u, <1>14 DEF BeatFires, flags, loop
<1>15. ASSUME NEW s \in Stream, DebounceFires(s) PROVE Goes
  BY <1>e, <1>15 DEF DebounceFires
<1>16. ASSUME NEW s \in Stream, StreamError(s) PROVE Goes
  BY <1>e, <1>16 DEF StreamError
<1>17. ASSUME NEW s \in Stream, OnData(s) PROVE Goes
  BY <1>e, <1>p, <1>k, <1>w, <1>17 DEF OnData
<1>18. CASE ServerGrants
  BY <1>u, <1>18 DEF ServerGrants, flags, loop
<1>19. CASE ServerRevokes
  BY <1>u, <1>19 DEF ServerRevokes, flags, loop
<1>20. CASE ServerAnswersPut
  BY <1>u, <1>20 DEF ServerAnswersPut, flags, loop
<1>21. CASE ServerAnswersOnce
  BY <1>u, <1>21 DEF ServerAnswersOnce, flags, loop
<1>22. ASSUME NEW s \in Stream, ServerRenews(s) PROVE Goes
  BY <1>u, <1>22 DEF ServerRenews, flags, loop
<1>23. ASSUME NEW s \in Stream, ServerEnds(s) PROVE Goes
  BY <1>p, <1>k, <1>w, <1>23 DEF ServerEnds, flags
<1>24. CASE NetDown
  BY <1>u, <1>24 DEF NetDown, flags, loop
<1>25. CASE NetUp
  BY <1>u, <1>25 DEF NetUp, flags, loop
<1>26. ASSUME NEW s \in Stream, StreamBreaks(s) PROVE Goes
  BY <1>p, <1>k, <1>w, <1>26 DEF StreamBreaks, flags
<1>27. CASE Tick
  <2>1. \A s \in Stream : silence[s] # Off => Elapse(silence)[s] # Off
    <3> SUFFICES ASSUME NEW s \in Stream, silence[s] # Off PROVE Elapse(silence)[s] # Off
      OBVIOUS
    <3>1. silence[s] \in 0..TTL /\ silence[s] # 0
      BY <1>p, <1>27 DEF Timer, Tick, Busy
    <3>2. silence[s] - 1 \in Nat
      BY <3>1, TimeFacts
    <3> QED BY <3>2, LeaseAssumption DEF Elapse
  <2>2. Waiting # {} => Waiting' # {}
    BY <1>p, <1>27, RetryElapsed DEF Tick
  <2> QED BY <1>p, <1>k, <1>27, <2>1, <2>2 DEF Tick
<1> QED
  BY <1>0, <1>1, <1>2, <1>3, <1>4, <1>5, <1>6, <1>7, <1>8, <1>9, <1>10, <1>11, <1>12, <1>13, <1>14,
     <1>15, <1>16, <1>17, <1>18, <1>19, <1>20, <1>21, <1>22, <1>23, <1>24, <1>25, <1>26, <1>27
  DEF Next, User, Client, Server, Network

(***************************************************************************)
(* One loop                                                                *)
(***************************************************************************)
\* The stream of teardown() is the one whose interval runs, and its debounce is
\* never due: an answer comes between two heartbeats.
Watched ==
    /\ \A s \in Stream : beat[s] # Off => s = teardown
    /\ teardown # None =>
         /\ state = "Alive" /\ phase[teardown] \in {"open", "broken"}
         /\ beat[teardown] # Off /\ silence[teardown] # Off
         /\ silence[teardown] >= 2 * Beat
         /\ phase[teardown] = "open" /\ teardown \notin request /\ answer[teardown] = "none"
              => silence[teardown] >= 2 * Beat + beat[teardown]

Counted ==
    /\ \A s, t \in Loops : s = t
    /\ \A d, e \in Waiting : d = e /\ retries[d] = 1
    /\ Waiting # {} => Loops = {}

\* Nothing is left of earlier streams while the lease is alive, and there are
\* none before.
Tidy ==
    /\ state = "Alive" => \A s \in Stream :
         /\ silence[s] # Off \/ phase[s] \in {"open", "broken"} => s = teardown
         /\ phase[s] # "ended"
    /\ state = "Pending" =>
         /\ Waiting = {}
         /\ \A s \in Stream : phase[s] = "none" /\ silence[s] = Off
    /\ grant # "done" => state # "Alive"
    /\ ~down

Only == Watched /\ Counted /\ Tidy

LEMMA OnlyInit == Init => Only
BY DEF Init, Only, Watched, Counted, Loops, Waiting, Tidy

\* Closing the lease, in whatever way.
LEMMA OnlyCloses ==
  ASSUME TypeOK, Only, state' = "Revoked", Teardown(phase, silence),
         UNCHANGED <<retries, down>>
  PROVE  Only'
<1>p. /\ phase \in [Stream -> {"none", "opening", "open", "ended", "broken"}]
      /\ beat \in [Stream -> Timer(Beat)]
  BY DEF TypeOK
<1>1. teardown' = None /\ \A s \in Stream : beat'[s] = Off /\ (phase'[s] = "opening" => phase[s] = "opening")
  BY <1>p DEF Teardown, Only, Watched
<1>2. Loops' \subseteq Loops
  BY <1>1 DEF Loops
<1>3. Waiting' = Waiting
  BY DEF Waiting
<1> QED BY <1>1, <1>2, <1>3 DEF Only, Watched, Counted, Tidy

LEMMA DownsGrow == [Next]_vars => downs' = downs \/ downs' = downs + 1
<1> USE DEF network
<1>1. CASE UNCHANGED vars
  BY <1>1 DEF vars
<1>2. CASE User
  BY <1>2 DEF User, Release, Revoke, Put, KeepaliveOnce
<1>3. CASE Client
  <2>1. CASE GrantSucceeds \/ GrantFails \/ RetryFires \/ RevokeSends \/ RevokeFails
    BY <2>1 DEF GrantSucceeds, GrantFails, RetryFires, RevokeSends, RevokeFails
  <2>2. CASE PutReturns \/ OnceReturns
    BY <2>2 DEF PutReturns, OnceReturns
  <2>3. ASSUME NEW s \in Stream,
               \/ StreamOpens(s) \/ OpenFails(s) \/ BeatFires(s)
               \/ DebounceFires(s) \/ StreamError(s) \/ OnData(s)
        PROVE  downs' = downs
    BY <2>3 DEF StreamOpens, OpenFails, BeatFires, DebounceFires, StreamError, OnData
  <2> QED BY <1>3, <2>1, <2>2, <2>3 DEF Client
<1>4. CASE Server
  BY <1>4 DEF Server, ServerGrants, ServerRevokes, ServerAnswersPut, ServerAnswersOnce,
     ServerRenews, ServerEnds
<1>5. CASE Network
  BY <1>5 DEF Network, NetDown, NetUp, StreamBreaks
<1>6. CASE Tick
  BY <1>6 DEF Tick
<1> QED BY <1>1, <1>2, <1>3, <1>4, <1>5, <1>6 DEF Next

LEMMA OnlyStep ==
  ASSUME TypeOK, TypeOK', Steady => Only, [Next]_vars
  PROVE  Steady' => Only'
<1>t. LoopTypes /\ OtherTypes
  BY TypesFlat
<1>s. Steady' => Steady
  BY <1>t, DownsGrow DEF Steady, OtherTypes
<1> SUFFICES ASSUME Steady, Steady' PROVE Only'
  BY <1>s
<1>o. Watched /\ Counted /\ Tidy
  BY DEF Only
<1>p. /\ phase \in [Stream -> {"none", "opening", "open", "ended", "broken"}]
      /\ silence \in [Stream -> Timer(TTL)] /\ beat \in [Stream -> Timer(Beat)]
      /\ retries \in [0..Delay -> Nat] /\ teardown \in Stream \cup {None} /\ answer \in [Stream -> {"none", "ok", "bad"}]
      /\ \A s \in Stream : /\ silence[s] # Off => silence[s] \in 0..TTL
                           /\ beat[s] # Off => beat[s] \in 0..Beat
      /\ None \notin Stream /\ 0 # Off /\ TTL # Off /\ Beat # Off
      /\ Beat \in Nat /\ Beat >= 1 /\ TTL \in Nat /\ TTL = 3 * Beat
  BY <1>t, TimeFacts, LeaseAssumption DEF LoopTypes, OtherTypes, Timer
<1>a. Off \notin 0..TTL /\ Off \notin 0..Beat
  BY LeaseAssumption
\* teardown() is of a loop; while a stream opens or a retry waits there is none.
<1>l. /\ teardown # None => teardown \in Loops /\ Loops = {teardown} /\ Waiting = {}
      /\ \A s \in Stream : phase[s] = "opening" => Loops = {s} /\ Waiting = {} /\ teardown = None
  BY <1>o, <1>p DEF Watched, Counted, Loops
<1>w. retries' = retries => Waiting' = Waiting
  BY DEF Waiting
<1>u. ASSUME UNCHANGED <<state, teardown, retries, phase, beat, silence, request, answer, down>>,
             grant' # "done" => grant # "done"
      PROVE  Only'
  BY <1>o, <1>u, <1>w DEF Only, Watched, Counted, Loops, Tidy
<1>0. CASE UNCHANGED vars
  BY <1>0, <1>u DEF vars, flags, loop, wire, calls, network
<1>1. CASE Release
  BY <1>1, OnlyCloses DEF Release, Close, network
<1>2. CASE Revoke
  BY <1>2, OnlyCloses DEF Revoke, Close, network
<1>3. CASE Put
  BY <1>u, <1>3 DEF Put, flags, loop, wire, network
<1>4. CASE KeepaliveOnce
  BY <1>u, <1>4 DEF KeepaliveOnce, flags, loop, wire, network
<1>5. CASE GrantSucceeds
  <2>1. grant = "applied" /\ grant' = "done" /\ UNCHANGED <<retries, request, answer, down>>
    BY <1>5 DEF GrantSucceeds, wire, network
  <2>2. CASE state = "Revoked"
    BY <1>5, <1>o, <1>w, <2>1, <2>2 DEF GrantSucceeds, Only, Watched, Counted, Loops, Tidy
  <2>3. CASE state # "Revoked"
    <3>1. /\ state = "Pending" /\ teardown = None /\ Waiting = {}
          /\ \A s \in Stream : phase[s] = "none" /\ silence[s] = Off /\ beat[s] = Off
      BY <1>o, <1>t, <1>p, <2>1, <2>3 DEF Watched, Tidy, LoopTypes
    <3>2. /\ state' = "Alive" /\ UNCHANGED <<teardown, beat, silence>>
          /\ phase' = phase \/ \E s \in Stream : phase' = [phase EXCEPT ![s] = "opening"]
      BY <1>5, <2>3 DEF GrantSucceeds
    <3>3. \A s, t \in Stream : phase'[s] \in {"none", "opening"} /\ (phase'[s] = "opening" /\ phase'[t] = "opening" => s = t)
      BY <1>p, <3>1, <3>2
    <3> QED BY <1>p, <1>w, <2>1, <3>1, <3>2, <3>3 DEF Only, Watched, Counted, Loops, Tidy
  <2> QED BY <2>2, <2>3
<1>6. CASE GrantFails
  BY <1>6, OnlyCloses DEF GrantFails, EmitLoss, Close, network
<1>7. CASE RetryFires
  <2>1. Waiting # {} /\ Waiting' = {} /\ Loops = {} /\ teardown = None /\ UNCHANGED <<request, answer, down, grant>>
    <3>1. 0 \in Waiting /\ retries[0] = 1 /\ \A d \in 0..Delay : d # 0 => retries[d] = 0
      BY <1>7, <1>o, <1>p DEF RetryFires, Counted, Waiting
    <3>2. \A d \in 0..Delay : retries'[d] = 0
      BY <1>7, <1>p, <3>1 DEF RetryFires
    <3>3. Waiting' = {}
      BY <3>2 DEF Waiting
    <3> QED BY <1>7, <1>o, <1>l, <3>1, <3>3 DEF RetryFires, Counted, wire, calls, network
  <2>2. CASE TooOld(age)
    <3>1. Teardown(phase, silence) /\ state' = "Revoked"
      BY <1>7, <2>2 DEF RetryFires, Keepalive, EmitLoss, Close
    <3>2. teardown' = None /\ \A s \in Stream : beat'[s] = Off /\ phase'[s] = phase[s]
      BY <1>p, <1>o, <2>1, <3>1 DEF Teardown, Watched
    <3> QED BY <1>o, <2>1, <3>1, <3>2 DEF Only, Watched, Counted, Loops, Tidy
  <2>3. CASE ~TooOld(age)
    <3>1. PICK s \in Stream : phase' = [phase EXCEPT ![s] = "opening"]
      BY <1>7, <2>3 DEF RetryFires, Keepalive
    <3>2. UNCHANGED <<state, teardown, beat, silence>>
      BY <1>7, <2>3 DEF RetryFires, Keepalive
    <3>3. state # "Pending"
      BY <1>o, <2>1 DEF Tidy
    <3>4. \A t \in Stream : beat[t] = Off /\ phase[t] # "opening"
      BY <2>1 DEF Loops
    <3>5. \A t \in Stream : phase'[t] = IF t = s THEN "opening" ELSE phase[t]
      BY <1>p, <3>1
    <3>6. Loops' \subseteq {s}
      BY <3>2, <3>4, <3>5 DEF Loops
    <3>7. Counted'
      BY <2>1, <3>6 DEF Counted
    <3>8. Watched'
      BY <2>1, <3>2, <3>4 DEF Watched
    <3>9. Tidy'
      BY <1>o, <2>1, <3>2, <3>3, <3>5 DEF Tidy
    <3> QED BY <3>7, <3>8, <3>9 DEF Only
  <2> QED BY <2>2, <2>3
<1>8. CASE RevokeSends
  BY <1>u, <1>8 DEF RevokeSends, flags, loop, wire, network
<1>9. CASE RevokeFails
  BY <1>u, <1>9 DEF RevokeFails, flags, loop, wire, network
<1>10. CASE PutReturns
  <2>1. CASE EmitLoss(phase, silence)
    BY <1>10, <2>1, OnlyCloses DEF PutReturns, EmitLoss, Close, network
  <2>2. CASE UNCHANGED <<state, lost, teardown, phase, beat, silence>>
    BY <1>u, <1>10, <2>2 DEF PutReturns, wire, network
  <2> QED BY <1>10, <2>1, <2>2 DEF PutReturns
<1>11. CASE OnceReturns
  <2>1. CASE EmitLoss(phase, silence)
    BY <1>11, <2>1, OnlyCloses DEF OnceReturns, EmitLoss, Close, network
  <2>2. CASE UNCHANGED <<state, lost, teardown, phase, beat, silence>>
    BY <1>u, <1>11, <2>2 DEF OnceReturns, wire, network
  <2> QED BY <1>11, <2>1, <2>2 DEF OnceReturns
<1>12. ASSUME NEW s \in Stream, StreamOpens(s) PROVE Only'
  <2>1. /\ phase[s] = "opening" /\ Loops = {s} /\ Waiting' = {} /\ teardown = None
        /\ UNCHANGED <<state, answer, down, grant>>
    BY <1>12, <1>l, <1>w DEF StreamOpens, flags, calls, network
  <2>2. \A t \in Stream : beat[t] = Off
    BY <1>o, <1>p, <2>1 DEF Watched
  <2>3. CASE state = "Revoked"
    <3>1. phase' = [phase EXCEPT ![s] = "ended"] /\ UNCHANGED <<teardown, beat>>
      BY <1>12, <2>3 DEF StreamOpens
    <3>2. Loops' \subseteq Loops
      BY <1>p, <3>1 DEF Loops
    <3> QED BY <1>o, <2>1, <2>2, <2>3, <3>1, <3>2 DEF Only, Watched, Counted, Tidy
  <2>4. CASE state # "Revoked"
    <3>1. /\ phase' = [phase EXCEPT ![s] = "open"] /\ beat' = [beat EXCEPT ![s] = Beat]
          /\ silence' = [silence EXCEPT ![s] = TTL] /\ teardown' = s /\ request' = request \cup {s}
      BY <1>12, <2>4 DEF StreamOpens, Interval
    <3>2. state = "Alive"
      BY <1>o, <1>t, <2>1, <2>4 DEF Tidy, LoopTypes
    <3>3. \A t \in Stream : /\ phase'[t] = IF t = s THEN "open" ELSE phase[t]
                            /\ beat'[t] = IF t = s THEN Beat ELSE Off
                            /\ silence'[t] = IF t = s THEN TTL ELSE silence[t]
      BY <1>p, <2>2, <3>1
    <3>4. Loops' \subseteq {s}
      BY <2>1, <3>3 DEF Loops
    <3>5. Counted'
      BY <2>1, <3>4 DEF Counted
    <3>6. Watched'
      BY <1>p, <2>1, <3>1, <3>2, <3>3 DEF Watched
    <3>7. Tidy'
      BY <1>o, <1>p, <2>1, <3>1, <3>2, <3>3 DEF Tidy
    <3> QED BY <3>5, <3>6, <3>7 DEF Only
  <2> QED BY <2>3, <2>4
<1>13. ASSUME NEW s \in Stream, OpenFails(s) PROVE Only'
  <2> DEFINE ph == [phase EXCEPT ![s] = "none"]
  <2>1. phase[s] = "opening" /\ HandleKeepaliveError(FALSE, ph, silence)
        /\ UNCHANGED <<request, answer, down, grant>>
    BY <1>13 DEF OpenFails, wire, calls
  <2>2. \A t \in Stream : ph[t] = IF t = s THEN "none" ELSE phase[t]
    BY <1>p
  <2>3. Loops = {s} /\ Waiting = {} /\ teardown = None /\ \A t \in Stream : beat[t] = Off
    BY <1>l, <1>o, <1>p, <2>1 DEF Watched
  <2>4. CASE state = "Revoked"
    <3>1. phase' = ph /\ UNCHANGED <<state, retries, teardown, beat>>
      BY <2>1, <2>4 DEF HandleKeepaliveError
    <3>2. Loops' \subseteq Loops
      BY <2>2, <3>1 DEF Loops
    <3> QED BY <1>o, <1>w, <2>1, <2>3, <2>4, <3>1, <3>2 DEF Only, Watched, Counted, Tidy
  <2>5. CASE state # "Revoked"
    <3>1. state = "Alive"
      BY <1>o, <1>t, <2>1, <2>5 DEF Tidy, LoopTypes
    <3>2. Teardown(ph, silence) /\ SetRetry /\ state' = state
      BY <2>1, <2>5 DEF HandleKeepaliveError
    <3>3. teardown' = None /\ \A t \in Stream : /\ beat'[t] = Off
                                                /\ silence'[t] = silence[t]
                                                /\ phase'[t] = IF t = s THEN "none" ELSE phase[t]
      BY <1>p, <2>2, <2>3, <3>2 DEF Teardown
    <3>4. Loops' = {}
      BY <2>3, <3>3 DEF Loops
    <3>5. Waiting' = {Delay} /\ retries'[Delay] = 1
      BY <1>p, <2>3, <3>2, RetrySet
    <3>6. Tidy'
      BY <1>o, <2>1, <2>3, <3>1, <3>2, <3>3 DEF Tidy
    <3> QED BY <3>3, <3>4, <3>5, <3>6 DEF Only, Watched, Counted
  <2> QED BY <2>4, <2>5
<1>14. ASSUME NEW s \in Stream, BeatFires(s) PROVE Only'
  <2>1. /\ beat[s] = 0 /\ beat' = [beat EXCEPT ![s] = Beat]
        /\ request' = IF phase[s] = "open" THEN request \cup {s} ELSE request
        /\ UNCHANGED <<state, teardown, retries, phase, silence, answer, down, grant>>
    BY <1>14 DEF BeatFires, Interval, flags, calls, network
  <2>2. s = teardown /\ beat[s] # Off
    BY <1>o, <1>p, <2>1 DEF Watched
  <2>3. \A t \in Stream : beat'[t] = IF t = s THEN Beat ELSE beat[t]
    BY <1>p, <2>1
  <2>4. Loops' = Loops
    BY <1>p, <2>1, <2>2, <2>3 DEF Loops
  <2>5. Watched'
    BY <1>o, <1>p, <2>1, <2>2, <2>3 DEF Watched
  <2> QED BY <1>o, <1>w, <2>1, <2>4, <2>5 DEF Only, Counted, Tidy
<1>15. ASSUME NEW s \in Stream, DebounceFires(s) PROVE Only'
  <2>1. silence[s] = 0 /\ silence[s] # Off
    BY <1>p, <1>15 DEF DebounceFires
  <2>2. state # "Alive"
    <3>1. state = "Alive" => s = teardown /\ s # None
      BY <1>o, <1>p, <2>1 DEF Tidy
    <3> QED BY <1>o, <1>p, <2>1, <3>1 DEF Watched
  <2>3. state = "Revoked"
    BY <1>o, <1>t, <2>1, <2>2 DEF Tidy, LoopTypes
  <2>4. /\ phase' = phase /\ UNCHANGED <<state, retries, teardown, beat, request, answer, down, grant>>
    BY <1>15, <2>3 DEF DebounceFires, HandleKeepaliveError, wire, calls, network
  <2>5. teardown = None
    BY <1>o, <2>3 DEF Watched
  <2> QED BY <1>o, <1>w, <2>3, <2>4, <2>5 DEF Only, Watched, Counted, Loops, Tidy
<1>16. ASSUME NEW s \in Stream, StreamError(s) PROVE Only'
  <2> DEFINE ph == [phase EXCEPT ![s] = "none"]
  <2>1. phase[s] = "broken" /\ HandleKeepaliveError(FALSE, ph, silence)
        /\ UNCHANGED <<request, answer, down, grant>>
    BY <1>16 DEF StreamError, wire, calls, network
  <2>2. \A t \in Stream : ph[t] = IF t = s THEN "none" ELSE phase[t]
    BY <1>p
  <2>3. CASE state = "Revoked"
    <3>1. phase' = ph /\ UNCHANGED <<state, retries, teardown, beat>>
      BY <2>1, <2>3 DEF HandleKeepaliveError
    <3>2. Loops' \subseteq Loops /\ teardown = None
      BY <1>o, <2>2, <2>3, <3>1 DEF Loops, Watched
    <3> QED BY <1>o, <1>w, <2>1, <2>3, <3>1, <3>2 DEF Only, Watched, Counted, Tidy
  <2>4. CASE state # "Revoked"
    <3>1. state = "Alive" /\ s = teardown /\ teardown # None
      BY <1>o, <1>t, <1>p, <2>1, <2>4 DEF Tidy, LoopTypes
    <3>2. Teardown(ph, silence) /\ SetRetry /\ state' = state
      BY <2>1, <2>4 DEF HandleKeepaliveError
    <3>3. Loops = {s} /\ Waiting' = {Delay} /\ retries'[Delay] = 1
      BY <1>l, <1>p, <3>1, <3>2, RetrySet
    <3>4. teardown' = None /\ \A t \in Stream : /\ beat'[t] = Off
                                                /\ silence'[t] = Off
                                                /\ phase'[t] = IF t = s THEN "none" ELSE phase[t]
      <4>1. \A t \in Stream : t # s => beat[t] = Off /\ silence[t] = Off
        BY <1>o, <3>1 DEF Watched, Tidy
      <4> QED BY <2>2, <3>1, <3>2, <4>1 DEF Teardown
    <3>5. Loops' = {}
      BY <3>3, <3>4 DEF Loops
    <3>6. Tidy'
      BY <1>o, <2>1, <3>1, <3>2, <3>4 DEF Tidy
    <3> QED BY <3>2, <3>3, <3>4, <3>5, <3>6 DEF Only, Watched, Counted
  <2> QED BY <2>3, <2>4
<1>17. ASSUME NEW s \in Stream, OnData(s) PROVE Only'
  <2>1. phase[s] \in {"open", "ended"} /\ UNCHANGED <<request, down, grant>> /\ answer' = [answer EXCEPT ![s] = "none"]
    BY <1>17 DEF OnData, calls, network
  <2>2. state # "Pending" /\ (state = "Alive" => s = teardown /\ teardown # None)
    BY <1>o, <1>p, <2>1 DEF Tidy
  <2>3. CASE answer[s] = "bad" /\ state = "Alive"
    <3>1. Teardown(phase, silence) /\ state' = "Revoked" /\ retries' = retries
      BY <1>17, <2>3 DEF OnData, HandleKeepaliveError, EmitLoss, Close
    <3> QED BY <2>1, <3>1, OnlyCloses DEF Only
  <2>4. CASE state = "Revoked"
    <3>1. UNCHANGED <<state, retries, teardown, phase, beat>>
      BY <1>17, <2>4 DEF OnData, HandleKeepaliveError
    <3>2. teardown = None
      BY <1>o, <2>4 DEF Watched
    <3> QED BY <1>o, <1>w, <2>1, <2>4, <3>1, <3>2 DEF Only, Watched, Counted, Loops, Tidy
  <2>5. CASE answer[s] # "bad" /\ state = "Alive"
    <3>1. UNCHANGED <<state, retries, teardown, phase, beat>> /\ silence' = [silence EXCEPT ![s] = TTL]
      BY <1>17, <2>5 DEF OnData
    <3>2. \A t \in Stream : silence'[t] = IF t = s THEN TTL ELSE silence[t]
      BY <1>p, <3>1
    <3>3. beat[s] \in 0..Beat
      BY <1>o, <1>p, <2>2, <2>5 DEF Watched
    <3>4. Watched'
      BY <1>o, <1>p, <2>2, <2>5, <3>1, <3>2, <3>3 DEF Watched
    <3> QED BY <1>o, <1>w, <2>1, <2>2, <2>5, <3>1, <3>2, <3>4 DEF Only, Counted, Loops, Tidy
  <2> QED BY <1>t, <2>2, <2>3, <2>4, <2>5 DEF LoopTypes
<1>18. CASE ServerGrants
  BY <1>u, <1>18 DEF ServerGrants, flags, loop, wire, network
<1>19. CASE ServerRevokes
  BY <1>u, <1>19 DEF ServerRevokes, flags, loop, wire, network
<1>20. CASE ServerAnswersPut
  BY <1>u, <1>20 DEF ServerAnswersPut, flags, loop, wire, network
<1>21. CASE ServerAnswersOnce
  BY <1>u, <1>21 DEF ServerAnswersOnce, flags, loop, wire, network
<1>22. ASSUME NEW s \in Stream, ServerRenews(s) PROVE Only'
  <2>1. /\ UNCHANGED <<state, teardown, retries, phase, beat, silence, down, grant>>
        /\ request' = request \ {s} /\ answer' = [answer EXCEPT ![s] = Verdict]
    BY <1>22 DEF ServerRenews, flags, loop, calls
  <2>2. \A t \in Stream : answer'[t] = IF t = s THEN Verdict ELSE answer[t]
    BY <1>p, <2>1
  <2>3. Verdict # "none"
    BY DEF Verdict
  <2>4. Watched'
    BY <1>o, <1>p, <2>1, <2>2, <2>3 DEF Watched
  <2> QED BY <1>o, <1>w, <2>1, <2>4 DEF Only, Counted, Loops, Tidy
<1>23. ASSUME NEW s \in Stream, ServerEnds(s) PROVE Only'
  <2>1. /\ UNCHANGED <<state, teardown, retries, beat, silence, request, answer, down, grant>>
        /\ phase[s] = "ended" /\ phase' = [phase EXCEPT ![s] = "none"]
    BY <1>23 DEF ServerEnds, flags, calls, wire, network
  <2>2. \A t \in Stream : phase'[t] = IF t = s THEN "none" ELSE phase[t]
    BY <1>p, <2>1
  <2>3. state = "Revoked" /\ teardown = None
    BY <1>o, <1>t, <2>1 DEF Tidy, Watched, LoopTypes
  <2>4. Loops' \subseteq Loops
    BY <2>1, <2>2 DEF Loops
  <2> QED BY <1>o, <1>w, <2>1, <2>3, <2>4 DEF Only, Watched, Counted, Tidy
<1>24. CASE NetDown
  BY <1>o, <1>t, <1>24 DEF NetDown, Tidy, Steady, OtherTypes
<1>25. CASE NetUp
  BY <1>o, <1>t, <1>25 DEF NetUp, Tidy, Steady, OtherTypes
<1>26. ASSUME NEW s \in Stream, StreamBreaks(s) PROVE Only'
  <2>1. /\ UNCHANGED <<state, teardown, retries, beat, silence, down, grant>>
        /\ phase[s] \in {"open", "ended"} /\ phase' = [phase EXCEPT ![s] = "broken"]
        /\ request' = request \ {s} /\ answer' = [answer EXCEPT ![s] = "none"]
    BY <1>26 DEF StreamBreaks, flags, calls
  <2>2. \A t \in Stream : /\ phase'[t] = IF t = s THEN "broken" ELSE phase[t]
                          /\ answer'[t] = IF t = s THEN "none" ELSE answer[t]
    BY <1>p, <2>1
  <2>3. state # "Pending" /\ (state = "Alive" => s = teardown)
    BY <1>o, <2>1 DEF Tidy
  <2>4. Loops' \subseteq Loops
    BY <2>1, <2>2 DEF Loops
  <2>5. Counted'
    BY <1>o, <1>w, <2>1, <2>4 DEF Counted
  <2>6. Watched'
    BY <1>o, <1>p, <2>1, <2>2, <2>3 DEF Watched
  <2>7. Tidy'
    BY <1>o, <1>w, <2>1, <2>2, <2>3 DEF Tidy
  <2> QED BY <2>5, <2>6, <2>7 DEF Only
<1>27. CASE Tick
  <2>1. /\ UNCHANGED <<state, teardown, phase, request, answer, down, grant>>
        /\ beat' = Elapse(beat) /\ silence' = Elapse(silence) /\ ~Busy
    BY <1>27 DEF Tick, calls, wire, network
  <2>2. /\ request = {}
        /\ \A s \in Stream : answer[s] = "none" /\ phase[s] # "broken" /\ beat[s] # 0 /\ silence[s] # 0
    BY <1>o, <2>1 DEF Busy, Tidy
  <2>3. \A s \in Stream : /\ beat'[s] = IF beat[s] = Off THEN Off ELSE beat[s] - 1
                          /\ silence'[s] = IF silence[s] = Off THEN Off ELSE silence[s] - 1
    BY <2>1 DEF Elapse
  <2>4. \A s \in Stream : (beat'[s] = Off <=> beat[s] = Off) /\ (silence'[s] = Off <=> silence[s] = Off)
    <3> SUFFICES ASSUME NEW s \in Stream
        PROVE (beat'[s] = Off <=> beat[s] = Off) /\ (silence'[s] = Off <=> silence[s] = Off)
      OBVIOUS
    <3>1. beat[s] # Off => beat[s] - 1 \in Nat
      BY <1>p, <2>2
    <3>2. silence[s] # Off => silence[s] - 1 \in Nat
      BY <1>p, <2>2
    <3> QED BY <2>3, <3>1, <3>2, LeaseAssumption
  <2>5. Loops' = Loops
    BY <2>1, <2>4 DEF Loops
  <2>6. ASSUME teardown # None
        PROVE  /\ silence'[teardown] >= 2 * Beat
               /\ silence'[teardown] >= 2 * Beat + beat'[teardown]
    <3>1. /\ teardown \in Stream /\ beat[teardown] # Off /\ silence[teardown] # Off
          /\ silence[teardown] >= 2 * Beat + beat[teardown]
      BY <1>o, <1>p, <2>2, <2>6 DEF Watched
    <3>2. beat[teardown] \in 1..Beat /\ silence[teardown] \in 1..TTL
      BY <1>p, <2>2, <3>1
    <3>3. beat'[teardown] = beat[teardown] - 1 /\ silence'[teardown] = silence[teardown] - 1
      BY <2>3, <3>1
    <3> QED BY <1>p, <3>1, <3>2, <3>3
  <2>7. Watched'
    BY <1>o, <1>p, <2>1, <2>4, <2>6 DEF Watched
  <2>8. /\ Waiting # {} => \E d \in Waiting' : Waiting' = {d} /\ retries'[d] = 1
        /\ Waiting = {} => Waiting' = {}
    <3>1. retries' = ElapseRetries
      BY <1>27 DEF Tick
    <3>2. \A d \in Waiting : Waiting = {d} /\ retries[d] = 1
      BY <1>o DEF Counted
    <3> QED BY <1>p, <3>1, <3>2, RetryElapsed
  <2>9. Counted'
    BY <1>o, <2>5, <2>8 DEF Counted
  <2> QED BY <1>o, <2>1, <2>4, <2>7, <2>8, <2>9 DEF Only, Tidy
<1> QED
  BY <1>0, <1>1, <1>2, <1>3, <1>4, <1>5, <1>6, <1>7, <1>8, <1>9, <1>10, <1>11, <1>12, <1>13, <1>14,
     <1>15, <1>16, <1>17, <1>18, <1>19, <1>20, <1>21, <1>22, <1>23, <1>24, <1>25, <1>26, <1>27
  DEF Next, User, Client, Server, Network

\* lease.ts:309-386: while the lease is open one loop keeps it alive and goes on;
\* when it is closed no interval runs.  Of two loops teardown() would stop one.
THEOREM OneLoopOnly == Spec => []OneLoop
<1> DEFINE Inv == TypeOK /\ LoopGoesOn /\ (Steady => Only)
<1>1. Init => Inv
  BY TypeInit, OnlyInit DEF Init, LoopGoesOn
<1>2. Inv /\ [Next]_vars => Inv'
  <2> SUFFICES ASSUME Inv, [Next]_vars PROVE Inv'
    OBVIOUS
  <2>1. TypeOK'
    BY TypeStep
  <2> QED BY <2>1, GoesOnStep, OnlyStep
<1>3. Inv => OneLoop
  BY LeaseAssumption DEF OneLoop, AtMostOneLoop, HeartbeatsStop, Only, Counted, Watched
<1> QED BY <1>1, <1>2, <1>3, PTL DEF Spec

(***************************************************************************)
(* The lease is kept                                                       *)
(***************************************************************************)
\* The time that the failed streams may have cost since the last renewal.
Spent == fails * Delay

\* There is enough left for the next heartbeat: two beats but for the time spent,
\* of which a retry that waits, or is to be set, has not all gone by; and until a
\* request is sent, two beats and what the interval still waits for.
Fresh ==
    /\ ttl + Spent >= 2 * Beat
    /\ \A d \in Waiting : ttl + Spent >= 2 * Beat + d
    /\ teardown # None /\ phase[teardown] = "broken" => ttl + Spent >= 2 * Beat + Delay
    /\ teardown # None /\ phase[teardown] = "open" /\ teardown \notin request
         => ttl >= 2 * Beat + beat[teardown]

Kept ==
    /\ grant = "applied" /\ state # "Revoked" => ttl = TTL
    /\ state = "Alive" /\ auto => Fresh

RevokedFirst == revoking # "no" => state = "Revoked"

LEMMA RevokedStep ==
  ASSUME TypeOK, RevokedFirst, [Next]_vars
  PROVE  RevokedFirst' /\ (state = "Revoked" => state' = "Revoked")
<1> USE DEF RevokedFirst, flags, loop, calls
<1>0. CASE UNCHANGED vars
  BY <1>0 DEF vars
<1>1. CASE Release
  BY <1>1 DEF Release, Close
<1>2. CASE Revoke
  BY <1>2 DEF Revoke, Close
<1>3. CASE Put
  BY <1>3 DEF Put
<1>4. CASE KeepaliveOnce
  BY <1>4 DEF KeepaliveOnce
<1>5. CASE GrantSucceeds
  BY <1>5 DEF GrantSucceeds
<1>6. CASE GrantFails
  BY <1>6 DEF GrantFails, EmitLoss, Close
<1>7. CASE RetryFires
  BY <1>7 DEF RetryFires, Keepalive, EmitLoss, Close
<1>8. CASE RevokeSends
  BY <1>8 DEF RevokeSends
<1>9. CASE RevokeFails
  BY <1>9 DEF RevokeFails
<1>10. CASE PutReturns
  BY <1>10 DEF PutReturns, EmitLoss, Close
<1>11. CASE OnceReturns
  BY <1>11 DEF OnceReturns, EmitLoss, Close
<1>12. ASSUME NEW s \in Stream, StreamOpens(s)
      PROVE  RevokedFirst' /\ (state = "Revoked" => state' = "Revoked")
  BY <1>12 DEF StreamOpens
<1>13. ASSUME NEW s \in Stream, OpenFails(s)
      PROVE  RevokedFirst' /\ (state = "Revoked" => state' = "Revoked")
  BY <1>13 DEF OpenFails, HandleKeepaliveError, EmitLoss, Close
<1>14. ASSUME NEW s \in Stream, BeatFires(s)
      PROVE  RevokedFirst' /\ (state = "Revoked" => state' = "Revoked")
  BY <1>14 DEF BeatFires
<1>15. ASSUME NEW s \in Stream, DebounceFires(s)
      PROVE  RevokedFirst' /\ (state = "Revoked" => state' = "Revoked")
  BY <1>15 DEF DebounceFires, HandleKeepaliveError, EmitLoss, Close
<1>16. ASSUME NEW s \in Stream, StreamError(s)
      PROVE  RevokedFirst' /\ (state = "Revoked" => state' = "Revoked")
  BY <1>16 DEF StreamError, HandleKeepaliveError, EmitLoss, Close
<1>17. ASSUME NEW s \in Stream, OnData(s)
      PROVE  RevokedFirst' /\ (state = "Revoked" => state' = "Revoked")
  BY <1>17 DEF OnData, HandleKeepaliveError, EmitLoss, Close
<1>18. CASE ServerGrants
  BY <1>18 DEF ServerGrants
<1>19. CASE ServerRevokes
  BY <1>19 DEF ServerRevokes
<1>20. CASE ServerAnswersPut
  BY <1>20 DEF ServerAnswersPut
<1>21. CASE ServerAnswersOnce
  BY <1>21 DEF ServerAnswersOnce
<1>22. ASSUME NEW s \in Stream, ServerRenews(s)
      PROVE  RevokedFirst' /\ (state = "Revoked" => state' = "Revoked")
  BY <1>22 DEF ServerRenews
<1>23. ASSUME NEW s \in Stream, ServerEnds(s)
      PROVE  RevokedFirst' /\ (state = "Revoked" => state' = "Revoked")
  BY <1>23 DEF ServerEnds
<1>24. CASE NetDown
  BY <1>24 DEF NetDown
<1>25. CASE NetUp
  BY <1>25 DEF NetUp
<1>26. ASSUME NEW s \in Stream, StreamBreaks(s)
      PROVE  RevokedFirst' /\ (state = "Revoked" => state' = "Revoked")
  BY <1>26 DEF StreamBreaks
<1>27. CASE Tick
  BY <1>27 DEF Tick
<1> QED
  BY <1>0, <1>1, <1>2, <1>3, <1>4, <1>5, <1>6, <1>7, <1>8, <1>9, <1>10, <1>11, <1>12, <1>13, <1>14,
     <1>15, <1>16, <1>17, <1>18, <1>19, <1>20, <1>21, <1>22, <1>23, <1>24, <1>25, <1>26, <1>27
  DEF Next, User, Client, Server, Network

LEMMA SpentFacts ==
  ASSUME TypeOK
  PROVE  /\ Spent \in Nat
         /\ RetriesInTime => Spent < 2 * Beat
         /\ fails' = fails => Spent' = Spent
         /\ fails' = 0 => Spent' = 0
         /\ fails' = fails + 1 => Spent' = Spent + Delay
<1>1. fails \in Nat /\ fails <= MaxFails /\ MaxFails \in Nat /\ Delay \in Nat /\ Beat \in Nat
  BY LeaseAssumption, TimeFacts DEF TypeOK
<1>2. fails * Delay \in Nat /\ (fails + 1) * Delay = fails * Delay + Delay /\ 0 * Delay = 0
  BY <1>1
<1>3. fails * Delay <= MaxFails * Delay
  <2>1. PICK n \in Nat : MaxFails = fails + n
    <3>1. MaxFails - fails \in Nat /\ MaxFails = fails + (MaxFails - fails)
      BY <1>1
    <3> QED BY <3>1
  <2>2. (fails + n) * Delay = fails * Delay + n * Delay /\ n * Delay \in Nat
    BY <1>1, <2>1
  <2> QED BY <1>1, <1>2, <2>1, <2>2
<1>4. RetriesInTime => fails * Delay < 2 * Beat
  <2>1. MaxFails * Delay \in Nat
    BY <1>1
  <2> QED BY <1>1, <1>2, <1>3, <2>1 DEF RetriesInTime
<1> QED BY <1>1, <1>2, <1>4 DEF Spent

LEMMA KeptStep ==
  ASSUME RetriesInTime, TypeOK, LoopGoesOn, Steady => Only, RevokedFirst, Steady => Kept, [Next]_vars
  PROVE  Steady' => Kept'
<1>t. LoopTypes /\ OtherTypes
  BY TypesFlat
<1>s. Steady' => Steady
  BY <1>t, DownsGrow DEF Steady, OtherTypes
<1> SUFFICES ASSUME Steady, Steady' PROVE Kept'
  BY <1>s
<1>o. Watched /\ Counted /\ Tidy /\ Kept
  BY DEF Only
<1>p. /\ phase \in [Stream -> {"none", "opening", "open", "ended", "broken"}]
      /\ beat \in [Stream -> Timer(Beat)]
      /\ teardown \in Stream \cup {None} /\ ttl \in Nat
      /\ retries \in [0..Delay -> Nat]
      /\ \A s \in Stream : beat[s] # Off => beat[s] \in 0..Beat
      /\ None \notin Stream /\ 0 # Off
      /\ Beat \in Nat /\ Beat >= 1 /\ TTL \in Nat /\ TTL = 3 * Beat
      /\ Delay \in Nat /\ Delay >= 1 /\ Delay <= Beat
      /\ \A d \in Waiting : d \in 0..Delay
  BY <1>t, TimeFacts, LeaseAssumption DEF LoopTypes, OtherTypes, Timer, Waiting
<1>f. /\ Spent \in Nat /\ Spent < 2 * Beat
      /\ fails' = fails => Spent' = Spent
      /\ fails' = 0 => Spent' = 0
      /\ fails' = fails + 1 => Spent' = Spent + Delay
  BY SpentFacts
\* While a retry waits no stream is in use; while a stream opens no other is.
<1>l. /\ teardown # None => Waiting = {}
      /\ \A s \in Stream : phase[s] = "opening" => Waiting = {} /\ teardown = None
  BY <1>o, <1>p DEF Watched, Counted, Loops
<1>w. retries' = retries => Waiting' = Waiting
  BY DEF Waiting
\* A lease that is closed stays closed and has nothing to keep.
<1>r. ASSUME state' = "Revoked" PROVE Kept'
  BY <1>r DEF Kept
<1>u. ASSUME UNCHANGED <<state, auto, grant, ttl, fails, retries, teardown, phase, beat, request>>
      PROVE  Kept'
  BY <1>o, <1>f, <1>w, <1>u DEF Kept, Fresh
\* The server renews what is not yet expired.
<1>n. ASSUME UNCHANGED <<state, auto, grant, retries, teardown, phase, beat>>, Renew PROVE Kept'
  <2>1. ttl > 0 => ttl' = TTL /\ Spent' = 0
    BY <1>f, <1>n DEF Renew
  <2>2. teardown # None => beat[teardown] \in 0..Beat
    BY <1>o, <1>p DEF Watched
  <2>3. state = "Alive" /\ auto => ttl > 0
    BY <1>f, <1>o, <1>p DEF Kept, Fresh
  <2>4. state = "Alive" /\ auto => Fresh'
    BY <1>n, <1>p, <1>w, <2>1, <2>2, <2>3 DEF Fresh
  <2> QED BY <1>n, <1>o, <1>p, <2>1, <2>4 DEF Kept, Renew
<1>0. CASE UNCHANGED vars
  BY <1>0, <1>u DEF vars, flags, loop, calls, wire, network
<1>1. CASE Release
  BY <1>1, <1>r DEF Release, Close
<1>2. CASE Revoke
  BY <1>2, <1>r DEF Revoke, Close
<1>3. CASE Put
  BY <1>3, <1>u DEF Put, flags, loop, calls, wire, network
<1>4. CASE KeepaliveOnce
  BY <1>4, <1>u DEF KeepaliveOnce, flags, loop, calls, wire, network
<1>5. CASE GrantSucceeds
  <2>1. grant = "applied" /\ grant' = "done" /\ ttl' = ttl
    BY <1>5 DEF GrantSucceeds
  <2>2. CASE state = "Revoked"
    BY <1>5, <1>r, <2>2 DEF GrantSucceeds
  <2>3. CASE state # "Revoked"
    <3>1. ttl = TTL /\ teardown = None /\ teardown' = teardown /\ Waiting = {} /\ fails' = fails
      BY <1>5, <1>o, <1>t, <1>p, <2>1, <2>3
      DEF Kept, Watched, Tidy, LoopTypes, GrantSucceeds, network
    <3>2. Waiting' = {}
      BY <1>5, <1>w, <3>1 DEF GrantSucceeds
    <3> QED BY <1>f, <1>p, <2>1, <3>1, <3>2 DEF Kept, Fresh
  <2> QED BY <2>2, <2>3
<1>6. CASE GrantFails
  BY <1>6, <1>r DEF GrantFails, EmitLoss, Close
<1>7. CASE RetryFires
  <2>1. teardown = None /\ UNCHANGED <<auto, grant, ttl, fails>>
    BY <1>7, <1>l DEF RetryFires, calls, network
  <2>2. state' = "Revoked" \/ (state' = state /\ teardown' = teardown)
    BY <1>7 DEF RetryFires, Keepalive, EmitLoss, Close
  <2>3. \A d \in Waiting' : d \in Waiting
    BY <1>7, <1>p DEF RetryFires, Waiting
  <2> QED BY <1>f, <1>o, <1>r, <2>1, <2>2, <2>3 DEF Kept, Fresh
<1>8. CASE RevokeSends
  BY <1>8, <1>u DEF RevokeSends, flags, loop, calls, wire, network
<1>9. CASE RevokeFails
  BY <1>9, <1>u DEF RevokeFails, flags, loop, calls, wire, network
<1>10. CASE PutReturns
  BY <1>10, <1>r, <1>u DEF PutReturns, EmitLoss, Close, wire, network
<1>11. CASE OnceReturns
  BY <1>11, <1>r, <1>u DEF OnceReturns, EmitLoss, Close, wire, network
<1>12. ASSUME NEW s \in Stream, StreamOpens(s) PROVE Kept'
  <2>1. UNCHANGED <<state, auto, grant, ttl, fails>> /\ Waiting' = {}
    BY <1>12, <1>l, <1>w DEF StreamOpens, flags, calls, network
  <2>2. state = "Revoked" \/ (teardown' = s /\ s \in request')
    BY <1>12 DEF StreamOpens
  <2>3. state # "Revoked" => phase'[s] = "open"
    BY <1>12, <1>p DEF StreamOpens
  <2> QED BY <1>f, <1>o, <1>p, <1>r, <2>1, <2>2, <2>3 DEF Kept, Fresh
<1>13. ASSUME NEW s \in Stream, OpenFails(s) PROVE Kept'
  <2>1. /\ Waiting = {} /\ teardown = None /\ fails' = fails + 1
        /\ UNCHANGED <<auto, grant, ttl>>
    BY <1>13, <1>l, <1>o DEF OpenFails, CountFail, Tidy, calls
  <2>2. state' = "Revoked" \/ (SetRetry /\ teardown' = None /\ state' = state)
    BY <1>13 DEF OpenFails, HandleKeepaliveError, Teardown
  <2>3. state' = "Revoked" \/ Waiting' = {Delay}
    BY <1>p, <2>1, <2>2, RetrySet
  <2> QED BY <1>f, <1>o, <1>p, <1>r, <2>1, <2>2, <2>3 DEF Kept, Fresh
<1>14. ASSUME NEW s \in Stream, BeatFires(s) PROVE Kept'
  <2>1. /\ beat[s] = 0 /\ beat' = [beat EXCEPT ![s] = Interval]
        /\ request' = IF phase[s] = "open" THEN request \cup {s} ELSE request
        /\ UNCHANGED <<state, auto, grant, ttl, fails, retries, teardown, phase>>
    BY <1>14 DEF BeatFires, flags, calls, network
  <2>2. s = teardown
    BY <1>o, <1>p, <2>1 DEF Watched
  <2> QED BY <1>f, <1>o, <1>w, <2>1, <2>2 DEF Kept, Fresh
<1>15. ASSUME NEW s \in Stream, DebounceFires(s) PROVE Kept'
  \* The debounce is of a stream that was in use before the lease was closed.
  <2>1. state # "Alive"
    <3>1. silence[s] = 0 /\ silence[s] # Off
      BY <1>p, <1>15 DEF DebounceFires
    <3> QED BY <1>o, <1>p, <3>1 DEF Tidy, Watched
  <2>2. state' \in {state, "Revoked"} /\ UNCHANGED <<auto, grant, ttl>>
    BY <1>15 DEF DebounceFires, HandleKeepaliveError, EmitLoss, Close, calls
  <2> QED BY <1>o, <1>r, <2>1, <2>2 DEF Kept
<1>16. ASSUME NEW s \in Stream, StreamError(s) PROVE Kept'
  <2>1. UNCHANGED <<auto, grant, ttl, fails>> /\ phase[s] = "broken"
    BY <1>16 DEF StreamError, calls, network
  <2>2. state' = "Revoked" \/ (SetRetry /\ teardown' = None /\ state' = state)
    BY <1>16 DEF StreamError, HandleKeepaliveError, Teardown
  <2>3. state = "Alive" => s = teardown /\ teardown # None /\ Waiting = {}
    BY <1>l, <1>o, <1>p, <2>1 DEF Tidy
  <2>4. state' = "Revoked" \/ (state' = "Alive" => Waiting' = {Delay})
    BY <1>p, <2>2, <2>3, RetrySet
  <2> QED BY <1>f, <1>o, <1>p, <1>r, <2>1, <2>2, <2>3, <2>4 DEF Kept, Fresh
<1>17. ASSUME NEW s \in Stream, OnData(s) PROVE Kept'
  <2>1. UNCHANGED <<auto, grant, ttl, fails, request>>
    BY <1>17 DEF OnData, calls, network
  <2>2. state' = "Revoked" \/ UNCHANGED <<state, retries, teardown, phase, beat>>
    BY <1>17 DEF OnData, HandleKeepaliveError, EmitLoss, Close
  <2> QED BY <1>r, <1>u, <2>1, <2>2
<1>18. CASE ServerGrants
  <2>1. grant = "sent" /\ ttl' = TTL /\ state' = state
    BY <1>18 DEF ServerGrants, flags
  <2> QED BY <1>o, <2>1 DEF Kept, Tidy
<1>19. CASE ServerRevokes
  <2>1. state = "Revoked" /\ state' = state
    BY <1>19 DEF ServerRevokes, flags, RevokedFirst
  <2> QED BY <1>r, <2>1
<1>20. CASE ServerAnswersPut
  BY <1>20, <1>u DEF ServerAnswersPut, flags, loop, calls, wire, network
<1>21. CASE ServerAnswersOnce
  BY <1>21, <1>n DEF ServerAnswersOnce, flags, loop, wire
<1>22. ASSUME NEW s \in Stream, ServerRenews(s) PROVE Kept'
  BY <1>22, <1>n DEF ServerRenews, flags, loop, calls
<1>23. ASSUME NEW s \in Stream, ServerEnds(s) PROVE Kept'
  <2>1. state # "Alive" /\ UNCHANGED <<state, auto, grant, ttl>>
    BY <1>23, <1>o DEF ServerEnds, Tidy, flags, calls
  <2> QED BY <1>o, <2>1 DEF Kept
<1>24. CASE NetDown
  BY <1>t, <1>24 DEF NetDown, Steady, OtherTypes
<1>25. CASE NetUp
  BY <1>25, <1>u DEF NetUp, flags, loop, calls, wire, network
<1>26. ASSUME NEW s \in Stream, StreamBreaks(s) PROVE Kept'
  <2>1. /\ UNCHANGED <<state, auto, grant, ttl, retries, teardown, beat>> /\ fails' = fails + 1
        /\ phase[s] \in {"open", "ended"} /\ phase' = [phase EXCEPT ![s] = "broken"]
        /\ request' = request \ {s}
    BY <1>26, <1>o DEF StreamBreaks, CountFail, Tidy, flags, calls
  <2>2. teardown # None => phase'[teardown] = IF teardown = s THEN "broken" ELSE phase[teardown]
    BY <1>p, <2>1
  <2>3. state = "Alive" => s = teardown /\ teardown # None /\ Waiting' = {}
    BY <1>l, <1>o, <1>p, <1>w, <2>1 DEF Tidy
  <2> QED BY <1>f, <1>o, <1>p, <2>1, <2>2, <2>3 DEF Kept, Fresh
<1>27. CASE Tick
  <2>1. /\ UNCHANGED <<state, auto, grant, fails, teardown, phase, request>>
        /\ beat' = Elapse(beat) /\ ttl' = (IF ttl = 0 THEN 0 ELSE ttl - 1)
        /\ retries' = ElapseRetries
    BY <1>27 DEF Tick, calls, wire, network
  \* Time passes when nothing is due: the network is up, so the grant is over,
  \* no stream is opening and no request is on its way.
  <2>2. /\ grant = "done" /\ request = {} /\ ~(0 \in Waiting /\ CanRetry)
        /\ \A s \in Stream : phase[s] \notin {"opening", "broken", "ended"} /\ beat[s] # 0
    BY <1>27, <1>o DEF Tick, Busy, Tidy
  <2>3. ASSUME state = "Alive", auto PROVE Fresh'
    <3>1. ttl > 0 /\ ttl' = ttl - 1 /\ Spent' = Spent
      BY <1>f, <1>o, <1>p, <2>1, <2>3 DEF Kept, Fresh
    \* Either a retry waits and has time left, or a stream is open.
    <3>2. CASE Waiting # {}
      <4>1. PICK d \in Waiting : Waiting = {d} /\ retries[d] = 1
        BY <1>o, <3>2 DEF Counted
      <4>2. teardown = None /\ \A s \in Stream : phase[s] = "none" /\ beat[s] = Off /\ silence[s] = Off
        BY <1>l, <1>o, <1>p, <2>2, <2>3, <3>2 DEF Tidy, Watched
      <4>3. CanRetry
        BY <2>2, <4>2, LeaseAssumption DEF CanRetry, Free
      <4>4. d \in 1..Delay
        BY <1>p, <2>2, <4>1, <4>3
      <4>5. Waiting' = {d - 1}
        BY <1>p, <2>1, <4>1, <4>4, RetryElapsed
      <4>6. ttl + Spent >= 2 * Beat + d
        BY <1>o, <2>3 DEF Kept, Fresh
      <4> QED BY <1>f, <1>p, <2>1, <3>1, <4>2, <4>4, <4>5, <4>6 DEF Fresh
    <3>3. CASE Waiting = {}
      <4>1. teardown # None /\ teardown \in Stream /\ phase[teardown] = "open"
        BY <1>o, <1>p, <2>2, <2>3, <3>3 DEF LoopGoesOn, Watched
      <4>2. beat[teardown] \in 1..Beat /\ ttl >= 2 * Beat + beat[teardown]
        BY <1>o, <1>p, <2>2, <2>3, <4>1 DEF Watched, Kept, Fresh
      <4>3. beat'[teardown] = beat[teardown] - 1
        BY <1>p, <2>1, <4>1, <4>2, LeaseAssumption DEF Elapse
      <4>4. Waiting' = {}
        BY <1>p, <2>1, <3>3, RetryElapsed
      <4> QED BY <1>f, <1>p, <2>1, <3>1, <4>1, <4>2, <4>3, <4>4 DEF Fresh
    <3> QED BY <3>2, <3>3
  <2> QED BY <2>1, <2>2, <2>3 DEF Kept
<1> QED
  BY <1>0, <1>1, <1>2, <1>3, <1>4, <1>5, <1>6, <1>7, <1>8, <1>9, <1>10, <1>11, <1>12, <1>13, <1>14,
     <1>15, <1>16, <1>17, <1>18, <1>19, <1>20, <1>21, <1>22, <1>23, <1>24, <1>25, <1>26, <1>27
  DEF Next, User, Client, Server, Network

\* While the network is up, a lease that is open and kept alive by the loop does not
\* expire on the server, however often its streams fail, if those that fail one
\* after the other, 100 ms apart, do not use up the two thirds of the TTL that are
\* left when a heartbeat is sent.
THEOREM KeptAlive ==
  ASSUME RetriesInTime
  PROVE  Spec => []LeaseKept
<1> DEFINE Inv == TypeOK /\ LoopGoesOn /\ RevokedFirst /\ (Steady => Only) /\ (Steady => Kept)
<1>1. Init => Inv
  BY TypeInit, OnlyInit DEF Init, LoopGoesOn, RevokedFirst, Kept
<1>2. Inv /\ [Next]_vars => Inv'
  <2> SUFFICES ASSUME Inv, [Next]_vars PROVE Inv'
    OBVIOUS
  <2>1. TypeOK'
    BY TypeStep
  <2> QED BY <2>1, GoesOnStep, OnlyStep, RevokedStep, KeptStep
<1>3. Inv => LeaseKept
  BY TimeFacts, SpentFacts DEF LeaseKept, Kept, Fresh, TypeOK
<1> QED BY <1>1, <1>2, <1>3, PTL DEF Spec
=============================================================================
