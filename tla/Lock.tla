-------------------------------- MODULE Lock --------------------------------
(***************************************************************************)
(* The Lock of src/src/lock.ts: acquire(), release() and do() of several   *)
(* Lock objects on one key of etcd.  Every acquire() makes a lease of its  *)
(* own; an attempt is one acquire() together with its lease.               *)
(*                                                                         *)
(* Of the lease only what Lock depends on is kept: it is granted, it lives *)
(* while the client keeps it alive, and it dies with its key when it is    *)
(* revoked or expires (module Lease has the rest).                         *)
(***************************************************************************)
EXTENDS Naturals

CONSTANTS
    Lock,         \* Lock objects, on the same key
    Shared,       \* those whose users call acquire() before the last one is over
    MaxAttempts,  \* bound: calls of acquire()
    MaxErrors,    \* bound: calls that fail or are sent again, and outages
    None

ASSUME LockAssumption ==
    /\ Shared \subseteq Lock
    /\ MaxAttempts \in Nat
    /\ MaxErrors \in Nat
    /\ None \notin Lock \cup 1..MaxAttempts

Attempt == 1..MaxAttempts

VARIABLES
    lease,    \* Lock.lease: the attempt whose lease it is, or None
    owner,    \* the Lock object an attempt is of, or None before it starts
    pc,       \* how far acquire() is, and then release() if it was called alone
    does,     \* how far do() is, or "no" if acquire() was called alone
    target,   \* the attempt whose lease a pending release() revokes, or None
    closed,   \* the leases without heartbeats (Lease.close)
    served,   \* the leases on the server: "none", "live" or "gone"
    key,      \* the attempt whose lease holds the key, or None
    errors    \* how much of MaxErrors is spent

client == <<lease, owner, pc, does, target, closed>>
server == <<served, key>>
vars == <<client, server, errors>>

Init ==
    /\ lease = [l \in Lock |-> None]
    /\ owner = [a \in Attempt |-> None]
    /\ pc = [a \in Attempt |-> "new"]
    /\ does = [a \in Attempt |-> "no"]
    /\ target = [a \in Attempt |-> None]
    /\ closed = {}
    /\ served = [a \in Attempt |-> "none"]
    /\ key = None
    /\ errors = 0

(***************************************************************************)
(* The user.                                                               *)
(***************************************************************************)
\* The last use of the Lock object is over.
Over(a) == does[a] = "done" \/ (does[a] = "no" /\ pc[a] \in {"failed", "released"})

\* Seeded bug: acquire() keeps its lease to itself.
AcquireUnsaved(l, a, how) ==
    /\ pc[a] = "new" /\ \A b \in Attempt : b < a => pc[b] # "new"
    /\ owner' = [owner EXCEPT ![a] = l]
    /\ pc' = [pc EXCEPT ![a] = "granting"]
    /\ does' = [does EXCEPT ![a] = how]
    /\ UNCHANGED <<lease, target, closed, server, errors>>

\* acquire(), alone or as the first thing of do(): the lease is replaced, and
\* its grant is on the way.
Acquire(l, a, how) ==
    /\ pc[a] = "new" /\ \A b \in Attempt : b < a => pc[b] # "new"
    /\ \A b \in Attempt : lease[l] = b => l \in Shared \/ Over(b)
    /\ lease' = [lease EXCEPT ![l] = a]
    /\ owner' = [owner EXCEPT ![a] = l]
    /\ pc' = [pc EXCEPT ![a] = "granting"]
    /\ does' = [does EXCEPT ![a] = how]
    /\ UNCHANGED <<target, closed, server, errors>>

\* release() closes the lease that the Lock object has now, and revokes it.
Releases(a) ==
    LET x == lease[owner[a]]
    IN  /\ target' = [target EXCEPT ![a] = x]
        /\ closed' = closed \cup {x}

\* release() by a user who called acquire(), also after it was rejected.
Release(a) ==
    /\ does[a] = "no"
    /\ pc[a] \in {"kept", "broken", "asked"}
    /\ target[a] = None
    /\ pc' = [pc EXCEPT ![a] = "asked"]
    /\ Releases(a)
    /\ UNCHANGED <<lease, owner, does, server, errors>>

\* The function given to do() returns, or throws.
FnEnds(a) ==
    /\ does[a] = "running"
    /\ \E next \in {"releasing", "cleaning"} : does' = [does EXCEPT ![a] = next]
    /\ Releases(a)
    /\ UNCHANGED <<lease, owner, pc, server, errors>>

(***************************************************************************)
(* The answers.                                                            *)
(***************************************************************************)
Error == errors < MaxErrors /\ errors' = errors + 1

\* Seeded bug: do() passes the rejection of acquire() on as it is.
RejectsOnly(a, how) ==
    /\ pc' = [pc EXCEPT ![a] = how]
    /\ does' = [does EXCEPT ![a] = IF @ = "no" THEN "no" ELSE "done"]
    /\ UNCHANGED <<target, closed>>

\* acquire() rejects, and the catch of do() releases.
Rejects(a, how) ==
    /\ pc' = [pc EXCEPT ![a] = how]
    /\ IF does[a] = "no"
       THEN target' = [target EXCEPT ![a] = None] /\ UNCHANGED <<does, closed>>
       ELSE does' = [does EXCEPT ![a] = "cleaning"] /\ Releases(a)

\* lease.grant() resolves, and the transaction is sent with the lease's id,
\* also if the lease has been closed.
Granted(a) ==
    /\ pc[a] = "granting"
    /\ pc' = [pc EXCEPT ![a] = "sent"]
    /\ served' = [served EXCEPT ![a] = "live"]
    /\ UNCHANGED <<lease, owner, does, target, closed, key, errors>>

GrantFails(a) ==
    /\ pc[a] = "granting"
    /\ Error
    /\ Rejects(a, "broken")
    /\ UNCHANGED <<lease, owner, server>>

\* Seeded bug: the transaction takes the key whether or not there is one.
TakesKey(a) ==
    /\ pc[a] = "sent"
    /\ pc' = [pc EXCEPT ![a] = IF served[a] = "live" THEN "applied" ELSE "noLease"]
    /\ key' = IF served[a] = "live" THEN a ELSE key
    /\ UNCHANGED <<lease, owner, does, target, closed, served, errors>>

\* The server decides: the key is put if it has no create_revision, and the
\* put fails if the lease is gone.
Commit(a) ==
    /\ pc[a] = "sent"
    /\ pc' = [pc EXCEPT ![a] = IF key # None THEN "denied"
                               ELSE IF served[a] = "live" THEN "applied" ELSE "noLease"]
    /\ key' = IF key = None /\ served[a] = "live" THEN a ELSE key
    /\ UNCHANGED <<lease, owner, does, target, closed, served, errors>>

\* The answer is lost, and the pool sends the transaction again.
Resent(a) ==
    /\ pc[a] \in {"applied", "denied"}
    /\ Error
    /\ pc' = [pc EXCEPT ![a] = "sent"]
    /\ UNCHANGED <<lease, owner, does, target, closed, server>>

CommitFails(a) ==
    /\ pc[a] \in {"sent", "applied", "denied"}
    /\ Error
    /\ Rejects(a, "broken")
    /\ UNCHANGED <<lease, owner, server>>

NoLease(a) ==
    /\ pc[a] = "noLease"
    /\ Rejects(a, "broken")
    /\ UNCHANGED <<lease, owner, server, errors>>

\* Seeded bug: the lease is left to expire once the lock is acquired.
AcquiredPassively(a) ==
    /\ pc[a] = "applied"
    /\ pc' = [pc EXCEPT ![a] = "kept"]
    /\ does' = [does EXCEPT ![a] = IF @ = "no" THEN "no" ELSE "running"]
    /\ closed' = closed \cup {a}
    /\ UNCHANGED <<lease, owner, target, server, errors>>

\* The transaction succeeded: acquire() resolves, and do() calls its function.
Acquired(a) ==
    /\ pc[a] = "applied"
    /\ pc' = [pc EXCEPT ![a] = "kept"]
    /\ does' = [does EXCEPT ![a] = IF @ = "no" THEN "no" ELSE "running"]
    /\ UNCHANGED <<lease, owner, target, closed, server, errors>>

\* It did not: acquire() releases before it rejects.
Denied(a) ==
    /\ pc[a] = "denied"
    /\ pc' = [pc EXCEPT ![a] = "refused"]
    /\ Releases(a)
    /\ UNCHANGED <<lease, owner, does, server, errors>>

(***************************************************************************)
(* The end of a release().                                                 *)
(***************************************************************************)
Revoked(x) ==
    /\ served' = [served EXCEPT ![x] = "gone"]
    /\ key' = IF key = x THEN None ELSE key

\* Lease.revoke waits for the grant.
GrantKnown(x) == pc[x] # "granting"

\* What waits for the release() goes on: acquire() rejects with an
\* EtcdLockFailedError, do() settles, the user has released.
Released(a) ==
    IF pc[a] = "refused" THEN Rejects(a, "failed")
    ELSE /\ pc' = [pc EXCEPT ![a] = IF does[a] = "no" THEN "released" ELSE @]
         /\ does' = [does EXCEPT ![a] = IF @ = "no" THEN "no" ELSE "done"]
         /\ target' = [target EXCEPT ![a] = None]
         /\ UNCHANGED closed

\* The lease is revoked; one that was never granted, or that is gone, is as good.
ReleaseResolves(a) ==
    /\ target[a] # None
    /\ GrantKnown(target[a])
    /\ IF served[target[a]] = "live" THEN Revoked(target[a]) ELSE UNCHANGED server
    /\ Released(a)
    /\ UNCHANGED <<lease, owner, errors>>

\* The revocation fails, before or after it was served.  acquire() swallows
\* the error, do() releases once more in its catch and then gives up, and the
\* user may call release() again.
ReleaseRejects(a) ==
    /\ target[a] # None
    /\ served[target[a]] # "none"
    /\ Error
    /\ Revoked(target[a]) \/ UNCHANGED server
    /\ IF pc[a] = "refused" \/ does[a] = "cleaning" THEN Released(a)
       ELSE IF does[a] = "releasing"
       THEN does' = [does EXCEPT ![a] = "cleaning"] /\ Releases(a) /\ UNCHANGED pc
       ELSE target' = [target EXCEPT ![a] = None] /\ UNCHANGED <<pc, does, closed>>
    /\ UNCHANGED <<lease, owner>>

\* A lease without heartbeats expires in the end; one that has them, only in
\* an outage.
Expires(a) ==
    /\ served[a] = "live"
    /\ (a \in closed /\ UNCHANGED errors) \/ Error
    /\ Revoked(a)
    /\ UNCHANGED client

Answers(a) ==
    \/ Granted(a) \/ Commit(a) \/ NoLease(a) \/ Acquired(a) \/ Denied(a)
    \/ ReleaseResolves(a)

Fails(a) == GrantFails(a) \/ Resent(a) \/ CommitFails(a) \/ ReleaseRejects(a)

Uses(a) ==
    \/ \E l \in Lock, how \in {"no", "acquiring"} : Acquire(l, a, how)
    \/ Release(a)

Next == \E a \in Attempt : Uses(a) \/ FnEnds(a) \/ Answers(a) \/ Fails(a) \/ Expires(a)

Spec == Init /\ [][Next]_vars

\* Calls are answered, the function given to do() ends, and a lease without
\* heartbeats expires.  No user has to acquire or release, nothing has to fail.
FairSpec ==
    /\ Spec
    /\ \A a \in Attempt :
        /\ WF_vars(Answers(a))
        /\ WF_vars(FnEnds(a))
        /\ WF_vars(a \in closed /\ Expires(a))

(***************************************************************************)
(* Properties                                                              *)
(***************************************************************************)
Progress == {"new", "granting", "sent", "applied", "denied", "noLease", "kept",
             "refused", "failed", "broken", "asked", "released"}

\* Types, and the bound on errors.
TypeOK ==
    /\ lease \in [Lock -> Attempt \cup {None}]
    /\ owner \in [Attempt -> Lock \cup {None}]
    /\ pc \in [Attempt -> Progress]
    /\ does \in [Attempt -> {"no", "acquiring", "running", "releasing", "cleaning", "done"}]
    /\ target \in [Attempt -> Attempt \cup {None}]
    /\ closed \subseteq Attempt
    /\ served \in [Attempt -> {"none", "live", "gone"}]
    /\ key \in Attempt \cup {None}
    /\ errors \in 0..MaxErrors

Holds(a) == pc[a] = "kept" /\ served[a] = "live"

\* lock.ts:15-17: whoever acquire() told that it has the lock has it, until its
\* lease is revoked or expires.
HolderHasKey == \A a \in Attempt : Holds(a) => key = a

\* Two holders are one, however acquire() and release() are called, sent
\* again or fail.
MutualExclusion == \A a, b \in Attempt : Holds(a) /\ Holds(b) => a = b

\* What makes them inductive.
KeyInv ==
    /\ \A a \in Attempt :
         pc[a] \in {"applied", "kept"} /\ served[a] = "live" => key = a
    /\ key # None => served[key] = "live"

\* lock.ts:20-25: as long as nobody asked for its release, a holder loses the
\* lock only in an outage or because a call failed.  (A holder that shares its
\* Lock object may lose it to the other user's release().)
LostOnlyByOwner ==
    [][\A a \in Attempt :
        Holds(a) /\ does[a] \in {"no", "running"} /\ owner[a] \notin Shared
            => key' = a \/ errors' # errors]_vars

\* lock.ts:111-114: the lock is free after do(), and after an acquire() that
\* reported EtcdLockFailedError, whichever of its calls failed or were resent.
LetsGo(L) ==
    \A a \in Attempt :
        ((does[a] = "done" \/ pc[a] = "failed") /\ owner[a] \in L) ~> (key # a)

OwnLockLetsGo == LetsGo(Lock \ Shared)
=============================================================================
