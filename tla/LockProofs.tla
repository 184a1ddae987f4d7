----------------------------- MODULE LockProofs -----------------------------
(***************************************************************************)
(* Proofs about module Lock, for every set of Lock objects, of attempts    *)
(* and of errors, shared objects included: whoever was told that it has    *)
(* the lock, and whose lease is alive, is the one whose lease holds the    *)
(* key, and so two holders are one; and who shares its Lock object with    *)
(* nobody loses the lock only by a failure.                                *)
(***************************************************************************)
EXTENDS Lock, TLAPS

\* The helpers leave the types right.
LEMMA ReleasesType ==
    ASSUME TypeOK, NEW a \in Attempt, owner[a] # None,
           lease[owner[a]] # None, Releases(a)
    PROVE  target' \in [Attempt -> Attempt \cup {None}] /\ closed' \subseteq Attempt
BY DEF TypeOK, Releases

\* An attempt that has started is of a Lock object, which has a lease, and a
\* pending release() has an attempt's lease to revoke.
Started ==
    \A a \in Attempt : pc[a] # "new" =>
        owner[a] \in Lock /\ lease[owner[a]] \in Attempt

LEMMA RejectsType ==
    ASSUME TypeOK, Started, NEW a \in Attempt, pc[a] # "new",
           NEW how \in Progress, Rejects(a, how)
    PROVE  /\ pc' = [pc EXCEPT ![a] = how]
           /\ pc' \in [Attempt -> Progress]
           /\ does' \in [Attempt -> {"no", "acquiring", "running", "releasing", "cleaning", "done"}]
           /\ target' \in [Attempt -> Attempt \cup {None}]
           /\ closed' \subseteq Attempt
BY DEF TypeOK, Started, Rejects, Releases

LEMMA StartedReleases ==
    ASSUME TypeOK, Started, NEW a \in Attempt, pc[a] # "new", Releases(a)
    PROVE  target' \in [Attempt -> Attempt \cup {None}] /\ closed' \subseteq Attempt
BY ReleasesType, LockAssumption DEF Started, Attempt

\* A release() of a new attempt is never pending, and nothing runs before it.
Quiet == \A a \in Attempt : pc[a] = "new" => target[a] = None /\ does[a] = "no"

Typing == TypeOK /\ Started /\ Quiet

LEMMA TypingInit == Init => Typing
<1> SUFFICES ASSUME Init PROVE Typing
    OBVIOUS
<1> USE DEF Init
<1>1. TypeOK
    BY LockAssumption DEF TypeOK, Progress
<1>2. Started /\ Quiet
    BY DEF Started, Quiet
<1> QED BY <1>1, <1>2 DEF Typing

\* What the answers to release() leave behind.
LEMMA ReleasedType ==
    ASSUME Typing, NEW a \in Attempt, target[a] # None, Released(a)
    PROVE  /\ pc' \in [Attempt -> Progress]
           /\ \A b \in Attempt : pc'[b] = "new" <=> pc[b] = "new"
           /\ does' \in [Attempt -> {"no", "acquiring", "running", "releasing", "cleaning", "done"}]
           /\ \A b \in Attempt : b # a => does'[b] = does[b] /\ target'[b] = target[b]
           /\ target' \in [Attempt -> Attempt \cup {None}]
           /\ closed' \subseteq Attempt
<1>1. pc[a] # "new"
    BY DEF Typing, Quiet
<1>2. CASE pc[a] = "refused"
  <2>1. Rejects(a, "failed") /\ "failed" \in Progress
      BY <1>2 DEF Released, Progress
  <2>2. /\ pc' = [pc EXCEPT ![a] = "failed"]
        /\ pc' \in [Attempt -> Progress]
        /\ does' \in [Attempt -> {"no", "acquiring", "running", "releasing", "cleaning", "done"}]
        /\ target' \in [Attempt -> Attempt \cup {None}]
        /\ closed' \subseteq Attempt
      BY <1>1, <2>1, RejectsType DEF Typing
  <2>3. \A b \in Attempt : b # a => does'[b] = does[b] /\ target'[b] = target[b]
      BY <2>1 DEF Typing, TypeOK, Rejects, Releases
  <2> QED
      BY <1>1, <2>2, <2>3 DEF Typing, TypeOK
<1>3. CASE pc[a] # "refused"
    BY <1>1, <1>3 DEF Released, Typing, TypeOK, Progress
<1> QED BY <1>2, <1>3

\* An error is one of MaxErrors.
LEMMA ErrorTyped ==
    ASSUME TypeOK, Error
    PROVE  errors' \in 0..MaxErrors
BY LockAssumption DEF TypeOK, Error

LEMMA TypingStep == Typing /\ [Next]_vars => Typing'
<1> SUFFICES ASSUME Typing, [Next]_vars PROVE Typing'
    OBVIOUS
<1> USE DEF Typing
<1>1. CASE UNCHANGED vars
    BY <1>1 DEF TypeOK, Started, Quiet, vars, client, server
<1> SUFFICES ASSUME NEW a \in Attempt,
        \/ \E l \in Lock, how \in {"no", "acquiring"} : Acquire(l, a, how)
        \/ Release(a) \/ FnEnds(a) \/ Answers(a) \/ Fails(a) \/ Expires(a)
    PROVE Typing'
    BY <1>1 DEF Next, Uses
<1>2. ASSUME NEW l \in Lock, NEW how \in {"no", "acquiring"}, Acquire(l, a, how)
      PROVE  Typing'
  <2>1. TypeOK'
      BY <1>2 DEF TypeOK, Acquire, server, Progress
  <2>2. Started'
      BY <1>2, LockAssumption DEF TypeOK, Started, Acquire
  <2>3. Quiet'
      BY <1>2 DEF TypeOK, Quiet, Acquire
  <2> QED BY <2>1, <2>2, <2>3
<1>3. CASE Release(a)
  <2>1. TypeOK'
      BY <1>3, StartedReleases DEF TypeOK, Release, server, Progress
  <2>2. Started' /\ Quiet'
      BY <1>3 DEF TypeOK, Started, Quiet, Release, Releases
  <2> QED BY <2>1, <2>2
<1>4. CASE FnEnds(a)
  <2>1. pc[a] # "new"
      BY <1>4 DEF Quiet, FnEnds
  <2>2. does' \in [Attempt -> {"no", "acquiring", "running", "releasing", "cleaning", "done"}]
      BY <1>4 DEF TypeOK, FnEnds
  <2>3. TypeOK'
      BY <1>4, <2>1, <2>2, StartedReleases DEF TypeOK, FnEnds, server
  <2>4. Started' /\ Quiet'
      BY <1>4, <2>1 DEF TypeOK, Started, Quiet, FnEnds, Releases
  <2> QED BY <2>3, <2>4
<1>5. CASE Granted(a)
  <2>1. TypeOK'
      BY <1>5 DEF TypeOK, Granted, server, Progress
  <2>2. Started' /\ Quiet'
      BY <1>5 DEF TypeOK, Started, Quiet, Granted
  <2> QED BY <2>1, <2>2
<1>6. CASE GrantFails(a)
  <2>1. pc[a] # "new" /\ Rejects(a, "broken") /\ "broken" \in Progress
      BY <1>6 DEF GrantFails, Progress
  <2>2. TypeOK'
      BY <1>6, <2>1, RejectsType, ErrorTyped DEF TypeOK, GrantFails, server
  <2>3. Started' /\ Quiet'
      BY <1>6, <2>1 DEF TypeOK, Started, Quiet, GrantFails, Rejects, Releases
  <2> QED BY <2>2, <2>3
<1>7. CASE Commit(a)
  <2>1. TypeOK'
      BY <1>7 DEF TypeOK, Commit, server, Progress
  <2>2. Started' /\ Quiet'
      BY <1>7 DEF TypeOK, Started, Quiet, Commit
  <2> QED BY <2>1, <2>2
<1>8. CASE Resent(a)
  <2>1. TypeOK'
      BY <1>8, ErrorTyped DEF TypeOK, Resent, server, Progress
  <2>2. Started' /\ Quiet'
      BY <1>8 DEF TypeOK, Started, Quiet, Resent
  <2> QED BY <2>1, <2>2
<1>9. CASE CommitFails(a)
  <2>1. pc[a] # "new" /\ Rejects(a, "broken") /\ "broken" \in Progress
      BY <1>9 DEF CommitFails, Progress
  <2>2. TypeOK'
      BY <1>9, <2>1, RejectsType, ErrorTyped DEF TypeOK, CommitFails, server
  <2>3. Started' /\ Quiet'
      BY <1>9, <2>1 DEF TypeOK, Started, Quiet, CommitFails, Rejects, Releases
  <2> QED BY <2>2, <2>3
<1>10. CASE NoLease(a)
  <2>1. pc[a] # "new" /\ Rejects(a, "broken") /\ "broken" \in Progress
      BY <1>10 DEF NoLease, Progress
  <2>2. TypeOK'
      BY <1>10, <2>1, RejectsType DEF TypeOK, NoLease, server, Error
  <2>3. Started' /\ Quiet'
      BY <1>10, <2>1 DEF TypeOK, Started, Quiet, NoLease, Rejects, Releases
  <2> QED BY <2>2, <2>3
<1>11. CASE Acquired(a)
  <2>1. TypeOK'
      BY <1>11 DEF TypeOK, Acquired, server, Progress
  <2>2. Started' /\ Quiet'
      BY <1>11 DEF TypeOK, Started, Quiet, Acquired
  <2> QED BY <2>1, <2>2
<1>12. CASE Denied(a)
  <2>1. TypeOK'
      BY <1>12, StartedReleases DEF TypeOK, Denied, server, Progress
  <2>2. Started' /\ Quiet'
      BY <1>12 DEF TypeOK, Started, Quiet, Denied, Releases
  <2> QED BY <2>1, <2>2
<1>13. ASSUME NEW x \in Attempt, Revoked(x)
       PROVE  served' \in [Attempt -> {"none", "live", "gone"}] /\ key' \in Attempt \cup {None}
    BY <1>13 DEF TypeOK, Revoked
<1>14. ASSUME target[a] # None, Released(a), UNCHANGED <<lease, owner>>,
              (\E x \in Attempt : Revoked(x)) \/ UNCHANGED server, errors' \in 0..MaxErrors
       PROVE  Typing'
  <2>1. TypeOK'
      BY <1>13, <1>14, ReleasedType DEF TypeOK, server
  <2>2. Started' /\ Quiet'
      BY <1>14, ReleasedType DEF Started, Quiet
  <2> QED BY <2>1, <2>2
<1>15. CASE ReleaseResolves(a)
  <2>1. target[a] \in Attempt
      BY <1>15 DEF TypeOK, ReleaseResolves
  <2>2. (\E x \in Attempt : Revoked(x)) \/ UNCHANGED server
      BY <1>15, <2>1 DEF ReleaseResolves
  <2> QED BY <1>14, <1>15, <2>2 DEF ReleaseResolves, TypeOK
<1>16. CASE ReleaseRejects(a)
  <2>1. target[a] \in Attempt /\ pc[a] # "new"
      BY <1>16 DEF TypeOK, Quiet, ReleaseRejects
  <2>2. (\E x \in Attempt : Revoked(x)) \/ UNCHANGED server
      BY <1>16, <2>1 DEF ReleaseRejects
  <2>3. errors' \in 0..MaxErrors
      BY <1>16, ErrorTyped DEF ReleaseRejects
  <2>4. served' \in [Attempt -> {"none", "live", "gone"}] /\ key' \in Attempt \cup {None}
      BY <1>13, <2>2 DEF TypeOK, server
  <2>5. CASE Released(a)
      BY <1>14, <1>16, <2>2, <2>3, <2>5 DEF ReleaseRejects
  <2>6. CASE does' = [does EXCEPT ![a] = "cleaning"] /\ Releases(a) /\ UNCHANGED pc
    <3>1. TypeOK'
        BY <1>16, <2>1, <2>3, <2>4, <2>6, StartedReleases DEF TypeOK, ReleaseRejects
    <3>2. Started' /\ Quiet'
        BY <1>16, <2>1, <2>6 DEF TypeOK, Started, Quiet, ReleaseRejects, Releases
    <3> QED BY <3>1, <3>2
  <2>7. CASE target' = [target EXCEPT ![a] = None] /\ UNCHANGED <<pc, does, closed>>
    <3>1. TypeOK'
        BY <1>16, <2>1, <2>3, <2>4, <2>7 DEF TypeOK, ReleaseRejects
    <3>2. Started' /\ Quiet'
        BY <1>16, <2>1, <2>7 DEF TypeOK, Started, Quiet, ReleaseRejects
    <3> QED BY <3>1, <3>2
  <2> QED BY <1>16, <2>5, <2>6, <2>7 DEF ReleaseRejects
<1>17. CASE Expires(a)
  <2>1. TypeOK'
      BY <1>13, <1>17, ErrorTyped DEF TypeOK, Expires, client
  <2>2. Started' /\ Quiet'
      BY <1>17 DEF Started, Quiet, Expires, client
  <2> QED BY <2>1, <2>2
<1> QED
    BY <1>2, <1>3, <1>4, <1>5, <1>6, <1>7, <1>8, <1>9, <1>10, <1>11, <1>12,
       <1>15, <1>16, <1>17 DEF Answers, Fails

\* TypeOK holds for every set of Lock objects, attempts and errors: a release()
\* never revokes anything but the lease of an attempt.
THEOREM TypeCorrect == Spec => []TypeOK
<1>1. Init => Typing
    BY TypingInit
<1>2. Typing /\ [Next]_vars => Typing'
    BY TypingStep
<1>3. Typing => TypeOK
    BY DEF Typing
<1> QED BY <1>1, <1>2, <1>3, PTL DEF Spec

LEMMA TypingInvariant == Spec => []Typing
<1> QED BY TypingInit, TypingStep, PTL DEF Spec

(***************************************************************************)
(* The lock.  What can take the key from the holder, Commit of another     *)
(* attempt, finds the key there; what takes its lease takes the key too.   *)
(***************************************************************************)
LEMMA KeyRevoked ==
    ASSUME Typing, KeyInv, NEW x \in Attempt, Revoked(x),
           \A b \in Attempt : pc'[b] \in {"applied", "kept"} => pc'[b] = pc[b]
    PROVE  KeyInv'
BY LockAssumption DEF Typing, TypeOK, KeyInv, Revoked, Attempt

LEMMA KeyUntouched ==
    ASSUME Typing, KeyInv, UNCHANGED server,
           \A b \in Attempt : pc'[b] \in {"applied", "kept"} => pc[b] \in {"applied", "kept"}
    PROVE  KeyInv'
BY DEF KeyInv, server

LEMMA KeyStep == Typing /\ KeyInv /\ [Next]_vars => KeyInv'
<1> SUFFICES ASSUME Typing, KeyInv, [Next]_vars PROVE KeyInv'
    OBVIOUS
<1> USE DEF Typing
<1>1. CASE UNCHANGED vars
    BY <1>1, KeyUntouched DEF vars, client, server
<1> SUFFICES ASSUME NEW a \in Attempt,
        \/ \E l \in Lock, how \in {"no", "acquiring"} : Acquire(l, a, how)
        \/ Release(a) \/ FnEnds(a) \/ Answers(a) \/ Fails(a) \/ Expires(a)
    PROVE KeyInv'
    BY <1>1 DEF Next, Uses
<1> DEFINE Waned == \A b \in Attempt : pc'[b] \in {"applied", "kept"} => pc'[b] = pc[b]
<1>2. ASSUME NEW how \in Progress \ {"applied", "kept"}, Rejects(a, how) PROVE Waned
    BY <1>2 DEF TypeOK, Rejects
<1>3. ASSUME NEW l \in Lock, NEW how \in {"no", "acquiring"}, Acquire(l, a, how)
      PROVE  KeyInv'
    BY <1>3, KeyUntouched DEF TypeOK, Acquire, server
<1>4. CASE Release(a) \/ FnEnds(a) \/ Denied(a) \/ Acquired(a)
    BY <1>4, KeyUntouched DEF TypeOK, Release, FnEnds, Denied, Acquired
<1>5. CASE Granted(a)
    BY <1>5 DEF TypeOK, KeyInv, Granted
<1>6. CASE Commit(a)
    BY <1>6, LockAssumption DEF TypeOK, KeyInv, Commit, Attempt
<1>7. CASE Resent(a)
    BY <1>7, KeyUntouched DEF TypeOK, Resent
<1>8. CASE GrantFails(a) \/ CommitFails(a) \/ NoLease(a)
  <2>1. Rejects(a, "broken") /\ "broken" \in Progress \ {"applied", "kept"} /\ UNCHANGED server
      BY <1>8 DEF GrantFails, CommitFails, NoLease, Progress
  <2> QED BY <1>2, <2>1, KeyUntouched
<1>9. ASSUME target[a] # None, Released(a) PROVE Waned
  <2>1. CASE pc[a] = "refused"
      BY <1>2, <1>9, <2>1 DEF Released, Progress
  <2>2. CASE pc[a] # "refused"
      BY <1>9, <2>2 DEF Released, TypeOK
  <2> QED BY <2>1, <2>2
<1>10. CASE ReleaseResolves(a) \/ ReleaseRejects(a)
  <2>1. target[a] # None /\ target[a] \in Attempt
      BY <1>10 DEF TypeOK, ReleaseResolves, ReleaseRejects
  <2>2. Revoked(target[a]) \/ UNCHANGED server
      BY <1>10 DEF ReleaseResolves, ReleaseRejects
  <2>3. Waned
      BY <1>9, <1>10, <2>1 DEF ReleaseResolves, ReleaseRejects
  <2> QED BY <2>1, <2>2, <2>3, KeyRevoked, KeyUntouched
<1>11. CASE Expires(a)
    BY <1>11, KeyRevoked DEF Expires, client
<1> QED
    BY <1>3, <1>4, <1>5, <1>6, <1>7, <1>8, <1>10, <1>11 DEF Answers, Fails

LEMMA KeyInvariant == Spec => []KeyInv
<1>1. Init => KeyInv
    BY LockAssumption DEF Init, KeyInv, Attempt
<1>2. Typing /\ KeyInv /\ [Next]_vars => KeyInv'
    BY KeyStep
<1> QED BY <1>1, <1>2, TypingInvariant, PTL DEF Spec

\* Whoever acquire() told that it has the lock, and whose lease is alive, is
\* the one whose lease holds the key.
THEOREM HolderCorrect == Spec => []HolderHasKey
<1>1. KeyInv => HolderHasKey
    BY DEF KeyInv, HolderHasKey, Holds
<1> QED BY <1>1, KeyInvariant, PTL

\* Mutual exclusion, whatever is shared, fails, is sent again or expires.
THEOREM LockExclusive == Spec => []MutualExclusion
<1>1. HolderHasKey => MutualExclusion
    BY DEF HolderHasKey, MutualExclusion
<1> QED BY <1>1, HolderCorrect, PTL

(***************************************************************************)
(* Who may take the lock away.  An attempt that nobody asked to release,   *)
(* of a Lock object that is not shared, is one whose lease nothing closes  *)
(* or revokes.                                                             *)
(***************************************************************************)
\* do() has got past its acquire(); release() is pending in acquire() only if
\* it was refused; what is over waits for nothing.
Phased(p, d, t) ==
    /\ d \in {"running", "releasing", "cleaning", "done"} => p \in {"kept", "broken", "failed"}
    /\ d = "acquiring" => t = None \/ p = "refused"
    /\ d = "done" \/ (d = "no" /\ p \in {"failed", "released"}) => t = None

\* The lock is held, or about to be.
Unasked(p, d) ==
    /\ p \in {"granting", "sent", "applied", "denied", "noLease", "kept"}
    /\ d \in {"no", "acquiring", "running"}

\* A lease is of an attempt that has started, of the Lock object that has it.
Leased == \A l \in Lock : lease[l] # None => owner[lease[l]] = l /\ pc[lease[l]] # "new"

\* Only leases that were made are closed or revoked.
Made ==
    /\ \A a \in closed : pc[a] # "new"
    /\ \A a \in Attempt : target[a] # None => pc[target[a]] # "new"

\* Of a Lock object that is not shared, all attempts but the last are over.
LastOnly ==
    \A a \in Attempt : pc[a] # "new" /\ owner[a] \notin Shared =>
        lease[owner[a]] = a \/ Over(a)

Spared ==
    \A a \in Attempt : Unasked(pc[a], does[a]) /\ owner[a] \notin Shared =>
        a \notin closed /\ \A b \in Attempt : target[b] # a

SpareInv ==
    /\ \A a \in Attempt : Phased(pc[a], does[a], target[a])
    /\ Leased /\ Made /\ LastOnly /\ Spared

\* What a step of an attempt that has started does to it.  It may close and
\* revoke the lease that its Lock object has, unless it is over, and then
\* somebody asked for it.
Moves(a) ==
    /\ pc[a] # "new" /\ pc'[a] # "new"
    /\ UNCHANGED <<lease, owner>>
    /\ \A b \in Attempt \ {a} : pc'[b] = pc[b] /\ does'[b] = does[b] /\ target'[b] = target[b]
    /\ Phased(pc'[a], does'[a], target'[a])
    /\ Over(a) => Over(a)'
    /\ Unasked(pc'[a], does'[a]) => Unasked(pc[a], does[a])
    /\ \/ target'[a] \in {None, target[a]} /\ UNCHANGED closed
       \/ /\ target'[a] = lease[owner[a]] /\ closed' = closed \cup {lease[owner[a]]}
          /\ ~Over(a) /\ ~Unasked(pc'[a], does'[a])

LEMMA MovesKeep ==
    ASSUME Typing, SpareInv, NEW a \in Attempt, Moves(a)
    PROVE  SpareInv'
<1>1. \A b \in Attempt : Phased(pc'[b], does'[b], target'[b])
    BY DEF SpareInv, Moves
<1>2. \A b \in Attempt : pc'[b] = "new" <=> pc[b] = "new"
    BY DEF Moves
<1>3. owner[a] \in Lock /\ lease[owner[a]] \in Attempt /\ pc[lease[owner[a]]] # "new"
      /\ owner[lease[owner[a]]] = owner[a]
    BY LockAssumption DEF Typing, Started, Moves, SpareInv, Leased, Attempt
<1>4. Leased'
  <2>1. lease' = lease /\ owner' = owner
      BY DEF Moves
  <2>2. \A l \in Lock : lease[l] # None => lease[l] \in Attempt
      BY DEF Typing, TypeOK
  <2> QED
      BY <1>2, <2>1, <2>2 DEF SpareInv, Leased
<1>5. Made'
  <2>1. closed \subseteq Attempt /\ \A b \in Attempt : target[b] # None => target[b] \in Attempt
      BY DEF Typing, TypeOK
  <2>2. ASSUME NEW b \in closed' PROVE pc'[b] # "new"
      BY <1>2, <1>3, <2>1, <2>2 DEF SpareInv, Made, Moves
  <2>3. ASSUME NEW b \in Attempt, target'[b] # None PROVE pc'[target'[b]] # "new"
      BY <1>2, <1>3, <2>1, <2>3 DEF SpareInv, Made, Moves
  <2> QED
      BY <2>2, <2>3 DEF Made
<1>6. LastOnly'
  <2> SUFFICES ASSUME NEW b \in Attempt, pc[b] # "new", owner[b] \notin Shared
               PROVE  lease[owner[b]] = b \/ Over(b)'
      BY <1>2 DEF LastOnly, Moves
  <2>1. lease[owner[b]] = b \/ Over(b)
      BY DEF SpareInv, LastOnly
  <2>2. Over(b) => Over(b)'
      BY DEF Moves, Over
  <2> QED
      BY <2>1, <2>2
<1>7. Spared'
  <2> SUFFICES ASSUME NEW x \in Attempt, Unasked(pc'[x], does'[x]), owner[x] \notin Shared
               PROVE  x \notin closed' /\ \A b \in Attempt : target'[b] # x
      BY DEF Spared, Moves
  <2>1. Unasked(pc[x], does[x])
      BY DEF Moves
  <2>2. x \notin closed /\ \A b \in Attempt : target[b] # x
      BY <2>1 DEF SpareInv, Spared
  <2>3. x # None
      BY LockAssumption DEF Attempt
  <2>4. CASE target'[a] \in {None, target[a]} /\ UNCHANGED closed
      BY <2>2, <2>3, <2>4 DEF Moves
  <2>5. CASE /\ target'[a] = lease[owner[a]] /\ closed' = closed \cup {lease[owner[a]]}
             /\ ~Over(a) /\ ~Unasked(pc'[a], does'[a])
    <3>1. lease[owner[a]] # x
      <4> SUFFICES ASSUME lease[owner[a]] = x PROVE FALSE
          OBVIOUS
      <4>1. owner[x] = owner[a]
          BY <1>3
      <4>2. lease[owner[a]] = a
          BY <2>5, <4>1 DEF SpareInv, LastOnly, Moves
      <4> QED
          BY <2>5, <4>2
    <3> QED
        BY <2>2, <2>5, <3>1 DEF Moves
  <2> QED
      BY <2>4, <2>5 DEF Moves
<1> QED
    BY <1>1, <1>4, <1>5, <1>6, <1>7 DEF SpareInv

\* A new attempt is of a Lock object whose last attempt is over.
LEMMA AcquireKeeps ==
    ASSUME Typing, SpareInv, NEW a \in Attempt, NEW l \in Lock,
           NEW how \in {"no", "acquiring"}, Acquire(l, a, how)
    PROVE  SpareInv'
<1>1. /\ pc[a] = "new" /\ target[a] = None /\ a # None
      /\ \A b \in Attempt : lease[l] = b => l \in Shared \/ Over(b)
      /\ UNCHANGED <<target, closed>>
    BY LockAssumption DEF Typing, Quiet, Acquire, Attempt
<1>2. /\ lease' = [lease EXCEPT ![l] = a] /\ owner' = [owner EXCEPT ![a] = l]
      /\ pc' = [pc EXCEPT ![a] = "granting"] /\ does' = [does EXCEPT ![a] = how]
    BY DEF Acquire
<1>3. /\ lease'[l] = a /\ owner'[a] = l /\ pc'[a] = "granting" /\ does'[a] = how
      /\ \A m \in Lock : m # l => lease'[m] = lease[m]
      /\ \A b \in Attempt : b # a => owner'[b] = owner[b] /\ pc'[b] = pc[b] /\ does'[b] = does[b]
    BY <1>2 DEF Typing, TypeOK
<1>4. \A m \in Lock : lease[m] # None => lease[m] \in Attempt
    BY DEF Typing, TypeOK
<1>5. \A b \in Attempt : Phased(pc'[b], does'[b], target'[b])
    BY <1>1, <1>3 DEF SpareInv, Phased
<1>6. Leased'
    BY <1>1, <1>3, <1>4 DEF SpareInv, Leased
<1>7. /\ a \notin closed /\ \A b \in Attempt : target[b] # a
      /\ closed \subseteq Attempt /\ \A b \in Attempt : target[b] # None => target[b] \in Attempt
    BY <1>1 DEF SpareInv, Made, Typing, TypeOK
<1>8. Made'
  <2>1. \A b \in closed' : pc'[b] # "new"
      BY <1>1, <1>3, <1>7 DEF SpareInv, Made
  <2>2. \A b \in Attempt : target'[b] # None => pc'[target'[b]] # "new"
      BY <1>1, <1>3, <1>7 DEF SpareInv, Made
  <2> QED
      BY <2>1, <2>2 DEF Made
<1>9. LastOnly'
  <2> SUFFICES ASSUME NEW b \in Attempt, pc'[b] # "new", owner'[b] \notin Shared, b # a
               PROVE  lease'[owner'[b]] = b \/ Over(b)'
      BY <1>3 DEF LastOnly
  <2>1. pc[b] # "new" /\ owner[b] \notin Shared /\ owner'[b] = owner[b] /\ owner[b] \in Lock
        /\ (Over(b) => Over(b)')
      BY <1>3 DEF Over, Typing, Started
  <2>2. lease[owner[b]] = b \/ Over(b)
      BY <2>1 DEF SpareInv, LastOnly
  <2>3. CASE owner[b] = l
      BY <1>1, <2>1, <2>2, <2>3
  <2>4. CASE owner[b] # l
      BY <1>3, <2>1, <2>2, <2>4
  <2> QED
      BY <2>3, <2>4
<1>10. Spared'
  <2> SUFFICES ASSUME NEW x \in Attempt, Unasked(pc'[x], does'[x]), owner'[x] \notin Shared
               PROVE  x \notin closed /\ \A b \in Attempt : target[b] # x
      BY <1>1 DEF Spared
  <2>1. CASE x = a
      BY <1>7, <2>1
  <2>2. CASE x # a
      BY <1>3, <2>2 DEF SpareInv, Spared
  <2> QED
      BY <2>1, <2>2
<1> QED
    BY <1>5, <1>6, <1>8, <1>9, <1>10 DEF SpareInv

LEMMA RejectsMoves ==
    ASSUME Typing, SpareInv, NEW a \in Attempt, NEW how \in {"broken", "failed"}, Rejects(a, how),
           pc[a] \notin {"new", "failed", "released"},
           does[a] \in {"no", "acquiring"},
           UNCHANGED <<lease, owner>>
    PROVE  Moves(a)
BY DEF Typing, TypeOK, Rejects, Releases, Moves, Phased, Unasked, Over

LEMMA ReleasedMoves ==
    ASSUME Typing, SpareInv, NEW a \in Attempt, target[a] # None, Released(a),
           UNCHANGED <<lease, owner>>
    PROVE  Moves(a)
<1>1. pc[a] # "new" /\ Phased(pc[a], does[a], target[a])
    BY DEF Typing, Quiet, SpareInv
<1>2. CASE pc[a] = "refused"
  <2>1. does[a] \in {"no", "acquiring"}
      BY <1>1, <1>2 DEF Phased, Typing, TypeOK
  <2>2. Rejects(a, "failed")
      BY <1>2 DEF Released
  <2> QED
      BY <1>2, <2>1, <2>2, RejectsMoves
<1>3. CASE pc[a] # "refused"
    BY <1>1, <1>3 DEF Typing, TypeOK, Released, Moves, Phased, Unasked, Over
<1> QED
    BY <1>2, <1>3

LEMMA SpareStep ==
    ASSUME Typing, SpareInv, [Next]_vars
    PROVE  SpareInv'
<1> USE DEF Typing
<1>1. CASE UNCHANGED vars
    BY <1>1 DEF vars, client, server, SpareInv, Leased, Made, LastOnly, Spared, Over
<1> SUFFICES ASSUME NEW a \in Attempt,
        \/ \E l \in Lock, how \in {"no", "acquiring"} : Acquire(l, a, how)
        \/ Release(a) \/ FnEnds(a) \/ Answers(a) \/ Fails(a) \/ Expires(a)
    PROVE SpareInv'
    BY <1>1 DEF Next, Uses
<1>2. Phased(pc[a], does[a], target[a])
    BY DEF SpareInv
<1>3. CASE Release(a)
    BY <1>2, <1>3, MovesKeep DEF TypeOK, Release, Releases, Moves, Phased, Unasked, Over
<1>4. CASE FnEnds(a)
    BY <1>2, <1>4, MovesKeep DEF TypeOK, FnEnds, Releases, Moves, Phased, Unasked, Over
<1>5. CASE Granted(a) \/ Commit(a) \/ Resent(a) \/ Acquired(a)
    BY <1>2, <1>5, MovesKeep DEF TypeOK, Granted, Commit, Resent, Acquired, Moves, Phased, Unasked, Over
<1>6. CASE GrantFails(a) \/ CommitFails(a) \/ NoLease(a)
  <2>1. /\ Rejects(a, "broken") /\ UNCHANGED <<lease, owner>>
        /\ pc[a] \in {"granting", "sent", "applied", "denied", "noLease"}
      BY <1>6 DEF GrantFails, CommitFails, NoLease
  <2>2. does[a] \in {"no", "acquiring"}
      BY <1>2, <2>1 DEF Phased, TypeOK
  <2> QED
      BY <2>1, <2>2, RejectsMoves, MovesKeep
<1>7. CASE Denied(a)
    BY <1>2, <1>7, MovesKeep DEF TypeOK, Denied, Releases, Moves, Phased, Unasked, Over
<1>8. CASE ReleaseResolves(a)
    BY <1>8, ReleasedMoves, MovesKeep DEF ReleaseResolves
<1>9. CASE ReleaseRejects(a)
  <2>1. target[a] # None /\ UNCHANGED <<lease, owner>> /\ pc[a] # "new"
      BY <1>9 DEF ReleaseRejects, Quiet
  <2>2. CASE Released(a)
      BY <2>1, <2>2, ReleasedMoves, MovesKeep
  <2>3. CASE /\ does[a] = "releasing" /\ does' = [does EXCEPT ![a] = "cleaning"]
             /\ Releases(a) /\ UNCHANGED pc
      BY <1>2, <2>1, <2>3, MovesKeep DEF TypeOK, Releases, Moves, Phased, Unasked, Over
  <2>4. CASE /\ does[a] # "releasing" /\ target' = [target EXCEPT ![a] = None]
             /\ UNCHANGED <<pc, does, closed>>
      BY <1>2, <2>1, <2>4, MovesKeep DEF TypeOK, Moves, Phased, Unasked, Over
  <2> QED
      BY <1>9, <2>2, <2>3, <2>4 DEF ReleaseRejects
<1>10. CASE Expires(a)
    BY <1>10 DEF Expires, client, SpareInv, Leased, Made, LastOnly, Spared, Over
<1>11. ASSUME NEW l \in Lock, NEW how \in {"no", "acquiring"}, Acquire(l, a, how)
       PROVE  SpareInv'
    BY <1>11, AcquireKeeps
<1> QED
    BY <1>3, <1>4, <1>5, <1>6, <1>7, <1>8, <1>9, <1>10, <1>11 DEF Answers, Fails

LEMMA SpareInit ==
    ASSUME Init
    PROVE  SpareInv
BY LockAssumption DEF Init, SpareInv, Phased, Leased, Made, LastOnly, Spared, Unasked, Over

\* Only the revocation of the holder's lease takes the key from it, and only
\* an outage, a failed call or a release() revokes it.
LEMMA KeyIsKept ==
    ASSUME Typing, KeyInv, SpareInv, [Next]_vars,
           NEW x \in Attempt, Holds(x), does[x] \in {"no", "running"}, owner[x] \notin Shared,
           errors' = errors
    PROVE  key' = x
<1> USE DEF Typing
<1>1. key = x /\ x # None
    BY LockAssumption DEF KeyInv, Holds, Attempt
<1>2. x \notin closed /\ \A b \in Attempt : target[b] # x
    BY DEF SpareInv, Spared, Unasked, Holds
<1>3. CASE UNCHANGED vars
    BY <1>1, <1>3 DEF vars, server
<1> SUFFICES ASSUME NEW a \in Attempt,
        \/ \E l \in Lock, how \in {"no", "acquiring"} : Acquire(l, a, how)
        \/ Release(a) \/ FnEnds(a) \/ Answers(a) \/ Fails(a) \/ Expires(a)
    PROVE key' = x
    BY <1>3 DEF Next, Uses
<1>4. ~Error
    BY DEF Error, TypeOK
<1>5. CASE Fails(a)
    BY <1>4, <1>5 DEF Fails, GrantFails, Resent, CommitFails, ReleaseRejects
<1>6. CASE ReleaseResolves(a)
    BY <1>1, <1>2, <1>6 DEF ReleaseResolves, Revoked, server
<1>7. CASE Expires(a)
    BY <1>1, <1>2, <1>4, <1>7 DEF Expires, Revoked
<1>8. CASE Granted(a) \/ Commit(a) \/ NoLease(a) \/ Acquired(a) \/ Denied(a)
    BY <1>1, <1>8 DEF Granted, Commit, NoLease, Acquired, Denied, server
<1>9. CASE Release(a) \/ FnEnds(a)
    BY <1>1, <1>9 DEF Release, FnEnds, server
<1>10. ASSUME NEW l \in Lock, NEW how \in {"no", "acquiring"}, Acquire(l, a, how)
       PROVE  key' = x
    BY <1>1, <1>10 DEF Acquire, server
<1> QED
    BY <1>5, <1>6, <1>7, <1>8, <1>9, <1>10 DEF Answers

\* lock.ts:20-25: a holder that shares its Lock object with nobody, and whose
\* release nobody asked for, loses the key only by an outage or a failed call.
THEOREM KeptByOwner == Spec => LostOnlyByOwner
<1> DEFINE A == \A a \in Attempt :
                    Holds(a) /\ does[a] \in {"no", "running"} /\ owner[a] \notin Shared
                        => key' = a \/ errors' # errors
<1>1. Typing /\ SpareInv /\ [Next]_vars => SpareInv'
    BY SpareStep
<1>2. Init => SpareInv
    BY SpareInit
<1>3. Typing /\ KeyInv /\ SpareInv /\ [Next]_vars => [A]_vars
    BY KeyIsKept
<1> QED
    BY <1>1, <1>2, <1>3, TypingInvariant, KeyInvariant, PTL DEF Spec, LostOnlyByOwner
=============================================================================
