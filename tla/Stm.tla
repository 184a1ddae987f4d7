--------------------------------- MODULE Stm ---------------------------------
(***************************************************************************)
(* SoftwareTransaction of src/src/stm.ts: transact(fn) runs fn, which gets *)
(* keys and records writes, then commits all of it as one etcd transaction *)
(* guarded by comparisons, and runs fn again if etcd refuses them.  The    *)
(* commit goes through ConnectionPool.exec, which sends a request again    *)
(* when its call fails with a recoverable error.                           *)
(*                                                                         *)
(* Every put of a key has a revision of its own, so the value of a key is  *)
(* its mod_revision, 0 for a key that does not exist.  A read of the       *)
(* program is one step, because fn awaits it; a prefetch is a read like    *)
(* any other, and one that is answered after the commit changes nothing.   *)
(***************************************************************************)
EXTENDS Naturals, Sequences, FiniteSets

CONSTANTS
    Txn,       \* the calls of transact(), in this process or in others
    Key,       \* the keys; a range delete covers them all
    None,      \* a key that an attempt has not read
    Levels,    \* the isolation levels that the calls choose from
    Retries,   \* ISTMOptions.retries
    MaxOps,    \* bound: how many reads and writes an attempt makes
    MaxLost    \* bound: how many calls of the commit fail in a behaviour

\* Isolation, stm.ts:14-38.
Isolation == {"SerializableSnapshot", "Serializable", "RepeatableReads",
              "ReadCommitted"}

\* With at most three failures the pool never runs out of its three retries.
ASSUME StmAssumption ==
    /\ None \notin Nat
    /\ Levels \subseteq Isolation
    /\ Retries \in Nat
    /\ MaxOps \in Nat
    /\ MaxLost \in 0..3

VARIABLES
    log,      \* etcd: log[r] is the store at revision r
    level,    \* options.isolation
    pc,       \* how far transact() has got
    left,     \* retries left
    reads,    \* ReadSet.completedReads: the mod_revision of each key read
    snap,     \* header.revision of firstRead, 0 before it
    puts,     \* WriteSet.ops of kind Write
    deletes,  \* WriteSet.ops of kind DeleteKey
    ranged,   \* whether WriteSet.ops has one of kind DeleteRange
    seen,     \* the revision at which etcd decided the commit
    applied,  \* how often the writes of this call changed the store
    resent,   \* the calls whose commit the pool sent again
    lost      \* number of failures so far

attempt == <<reads, snap, puts, deletes, ranged, seen>>
server == <<log, applied>>
vars == <<server, level, pc, left, attempt, resent, lost>>

\* "sent": the commit is under way; "succeeded", "refused": etcd's answer is
\* under way; "resolved"; "conflict": rejected with an STMConflictError;
\* "error": rejected with any other error.
Progress == {"running", "sent", "succeeded", "refused",
             "resolved", "conflict", "error"}

Unread == [k \in Key |-> None]

Init ==
    /\ \E S \in SUBSET Key : log = <<[k \in Key |-> IF k \in S THEN 1 ELSE 0]>>
    /\ level \in [Txn -> Levels]
    /\ pc = [t \in Txn |-> "running"]
    /\ left = [t \in Txn |-> Retries]
    /\ reads = [t \in Txn |-> Unread]
    /\ snap = [t \in Txn |-> 0]
    /\ puts = [t \in Txn |-> {}]
    /\ deletes = [t \in Txn |-> {}]
    /\ ranged = [t \in Txn |-> FALSE]
    /\ seen = [t \in Txn |-> 0]
    /\ applied = [t \in Txn |-> 0]
    /\ resent = {}
    /\ lost = 0

Now == log[Len(log)]

Goto(t, p) == pc' = [pc EXCEPT ![t] = p]

\* What this attempt has done is dropped with its transaction, when the next
\* attempt starts or the promise settles.
Forget(t) ==
    /\ reads' = [reads EXCEPT ![t] = Unread]
    /\ snap' = [snap EXCEPT ![t] = 0]
    /\ puts' = [puts EXCEPT ![t] = {}]
    /\ deletes' = [deletes EXCEPT ![t] = {}]
    /\ ranged' = [ranged EXCEPT ![t] = FALSE]
    /\ seen' = [seen EXCEPT ![t] = 0]

Settles(t, p) == Goto(t, p) /\ Forget(t)

-----------------------------------------------------------------------------
(***************************************************************************)
(* The function fn.                                                        *)
(***************************************************************************)

\* transactInner: a transaction with empty sets, on which fn is run again.
NewAttempt(t) == Goto(t, "running") /\ Forget(t)

\* WriteSet.findExistingWrite: a read of such a key is answered locally.
Written(t, k) == k \in puts[t] \cup deletes[t] \/ ranged[t]

Operations(t) ==
    Cardinality({k \in Key : reads[t][k] # None}) + Cardinality(puts[t])
      + Cardinality(deletes[t]) + IF ranged[t] THEN 1 ELSE 0

\* fn goes on to another operation.
Proceeds(t) == pc[t] = "running" /\ Operations(t) < MaxOps

Pinned(t) == level[t] \in {"SerializableSnapshot", "Serializable"}

\* Seeded bug: later reads are not pinned to the revision of the first.
UnpinnedRevisions(t) == {Len(log)}

\* The revisions at which a read may be served.  BasicTransaction asks any
\* member, which may lag behind; SerializableTransaction makes a linearizable
\* first read and pins the later ones to its revision.
ReadRevisions(t) ==
    IF ~Pinned(t) THEN 1..Len(log)
    ELSE IF snap[t] = 0 THEN {Len(log)} ELSE {snap[t]}

\* range of the two transaction classes, and ReadSet.runRequest.
Read(t, k) ==
    /\ Proceeds(t)
    /\ ~Written(t, k)
    /\ reads[t][k] = None
    /\ \E r \in ReadRevisions(t) :
        /\ reads' = [reads EXCEPT ![t][k] = log[r][k]]
        /\ snap' = IF Pinned(t) /\ snap[t] = 0 THEN [snap EXCEPT ![t] = r] ELSE snap
    /\ UNCHANGED <<server, level, pc, left, puts, deletes, ranged, seen, resent, lost>>

\* WriteSet.addPut and addDeletion: the last operation on a key replaces the
\* one before it.
Put(t, k) ==
    /\ Proceeds(t)
    /\ puts' = [puts EXCEPT ![t] = @ \cup {k}]
    /\ deletes' = [deletes EXCEPT ![t] = @ \ {k}]
    /\ UNCHANGED <<server, level, pc, left, reads, snap, ranged, seen, resent, lost>>

Delete(t, k) ==
    /\ Proceeds(t)
    /\ puts' = [puts EXCEPT ![t] = @ \ {k}]
    /\ deletes' = [deletes EXCEPT ![t] = @ \cup {k}]
    /\ UNCHANGED <<server, level, pc, left, reads, snap, ranged, seen, resent, lost>>

DeleteRange(t) ==
    /\ Proceeds(t)
    /\ ranged' = [ranged EXCEPT ![t] = TRUE]
    /\ UNCHANGED <<server, level, pc, left, reads, snap, puts, deletes, seen, resent, lost>>

\* fn rejects: one of its reads failed, or it threw.
FnRejects(t) ==
    /\ pc[t] = "running"
    /\ Settles(t, "error")
    /\ UNCHANGED <<server, level, left, resent, lost>>

-----------------------------------------------------------------------------
(***************************************************************************)
(* The commit.                                                             *)
(***************************************************************************)

\* The mod_revisions of the keys read that existed: earliestMod is the least.
ReadMods(t) == {reads[t][k] : k \in Key} \ {None, 0}

\* SoftwareTransaction.commit, up to its request.
Commit(t) ==
    /\ pc[t] = "running"
    /\ IF level[t] = "SerializableSnapshot" /\ ranged[t] /\ ReadMods(t) # {}
       THEN Settles(t, "error")
       ELSE Goto(t, "sent") /\ UNCHANGED attempt
    /\ UNCHANGED <<server, level, left, resent, lost>>

\* Seeded bug: only keys that existed when they were read are checked.
ChecksOfExisting(t) ==
    \A k \in Key : reads[t][k] \notin {None, 0} => Now[k] = reads[t][k]

\* Seeded bug: the comparison is with the revision of the first read.
ChecksOfSnapshot(t) == \A k \in Key : reads[t][k] # None => Now[k] = snap[t]

\* ReadSet.addCurrentChecks.
CurrentChecks(t) == \A k \in Key : reads[t][k] # None => Now[k] = reads[t][k]

\* Seeded bug: one revision too many.
NotChangedChecksLoose(t) ==
    \A k \in puts[t] \cup deletes[t] : \A m \in ReadMods(t) : Now[k] < m + 2

\* WriteSet.addNotChangedChecks: every key written has a mod_revision below
\* earliestMod + 1, the least over the keys read, if one of them exists.
NotChangedChecks(t) ==
    \A k \in puts[t] \cup deletes[t] : \A m \in ReadMods(t) : Now[k] < m + 1

Comparisons(t) ==
    /\ level[t] # "ReadCommitted" => CurrentChecks(t)
    /\ level[t] = "SerializableSnapshot" => NotChangedChecks(t)

\* The store once etcd has applied the writes of t.
After(t) ==
    [k \in Key |-> IF k \in puts[t] THEN Len(log) + 1
                   ELSE IF k \in deletes[t] \/ ranged[t] THEN 0 ELSE Now[k]]

\* etcd decides the transaction, and makes a new revision if a key changes.
Decides(t) ==
    /\ pc[t] = "sent"
    /\ ~(ranged[t] /\ puts[t] # {})
    /\ seen' = [seen EXCEPT ![t] = Len(log)]
    /\ IF Comparisons(t)
       THEN /\ Goto(t, "succeeded")
            /\ IF After(t) = Now
               THEN UNCHANGED <<log, applied>>
               ELSE /\ log' = Append(log, After(t))
                    /\ applied' = [applied EXCEPT ![t] = @ + 1]
       ELSE Goto(t, "refused") /\ UNCHANGED <<log, applied>>
    /\ UNCHANGED <<level, left, reads, snap, puts, deletes, ranged, resent, lost>>

\* etcd refuses to put a key and delete it in the same transaction.
Invalid(t) ==
    /\ pc[t] = "sent"
    /\ ranged[t] /\ puts[t] # {}
    /\ Settles(t, "error")
    /\ UNCHANGED <<server, level, left, resent, lost>>

Succeeds(t) ==
    /\ pc[t] = "succeeded"
    /\ Settles(t, "resolved")
    /\ UNCHANGED <<server, level, left, resent, lost>>

\* Seeded bug: the retries are not counted down to 0 but past it.
ConflictsForever(t) ==
    /\ pc[t] = "refused"
    /\ NewAttempt(t)
    /\ left' = [left EXCEPT ![t] = @ - 1]
    /\ UNCHANGED <<server, level, resent, lost>>

\* An STMConflictError: the next attempt, or the end.
Conflicts(t) ==
    /\ pc[t] = "refused"
    /\ IF left[t] = 0
       THEN Settles(t, "conflict") /\ UNCHANGED left
       ELSE NewAttempt(t) /\ left' = [left EXCEPT ![t] = @ - 1]
    /\ UNCHANGED <<server, level, resent, lost>>

\* Seeded bug: any error of the commit starts another attempt.
CallFailsRetried(t) ==
    /\ pc[t] \in {"sent", "succeeded", "refused"}
    /\ lost < MaxLost
    /\ lost' = lost + 1
    /\ NewAttempt(t)
    /\ UNCHANGED <<server, level, left, resent>>

\* The call fails before etcd gets the request or after it has answered.
\* ConnectionPool.exec sends it again if the error is recoverable, and
\* rejects otherwise.
CallFails(t) ==
    /\ pc[t] \in {"sent", "succeeded", "refused"}
    /\ lost < MaxLost
    /\ lost' = lost + 1
    /\ \/ /\ Goto(t, "sent")
          /\ seen' = [seen EXCEPT ![t] = 0]
          /\ resent' = resent \cup {t}
          /\ UNCHANGED <<reads, snap, puts, deletes, ranged>>
       \/ Settles(t, "error") /\ UNCHANGED resent
    /\ UNCHANGED <<server, level, left>>

-----------------------------------------------------------------------------
Next ==
    \E t \in Txn :
        \/ \E k \in Key : Read(t, k) \/ Put(t, k) \/ Delete(t, k)
        \/ DeleteRange(t)
        \/ FnRejects(t)
        \/ Commit(t)
        \/ Decides(t)
        \/ Invalid(t)
        \/ Succeeds(t)
        \/ Conflicts(t)
        \/ CallFails(t)

Spec == Init /\ [][Next]_vars

-----------------------------------------------------------------------------
(***************************************************************************)
(* Properties.                                                             *)
(***************************************************************************)

TypeOK ==
    /\ log \in Seq([Key -> Nat])
    /\ level \in [Txn -> Levels]
    /\ pc \in [Txn -> Progress]
    /\ left \in [Txn -> 0..Retries]
    /\ reads \in [Txn -> [Key -> Nat \cup {None}]]
    /\ snap \in [Txn -> 0..Len(log)]
    /\ puts \in [Txn -> SUBSET Key]
    /\ deletes \in [Txn -> SUBSET Key]
    /\ ranged \in [Txn -> BOOLEAN]
    /\ seen \in [Txn -> 0..Len(log)]
    /\ applied \in [Txn -> Nat]
    /\ resent \subseteq Txn
    /\ lost \in 0..MaxLost

WasRead(t, k) == reads[t][k] # None

\* Every level but ReadCommitted serializes: what fn read is what the store
\* held at the revision at which the commit took effect, for existing and
\* for absent keys, however the reads, the commits of others and the calls
\* sent again interleave.
ReadsStillCurrent ==
    \A t \in Txn :
        pc[t] = "succeeded" /\ level[t] # "ReadCommitted" =>
            \A k \in Key : WasRead(t, k) => log[seen[t]][k] = reads[t][k]

\* stm.ts:24-25: the reads of one attempt, also of one that will conflict,
\* are of one revision of the store, the one of the first read.
SnapshotReads ==
    \A t \in Txn : Pinned(t) =>
        \A k \in Key : WasRead(t, k) => log[snap[t]][k] = reads[t][k]

\* stm.ts:18-19: SerializableSnapshot also checks for write conflicts.  What
\* the code achieves: when a key it read existed, no key it writes was put
\* between the first read and the commit, unless it was deleted since.
NoWriteConflict ==
    \A t \in Txn :
        /\ pc[t] = "succeeded"
        /\ level[t] = "SerializableSnapshot"
        /\ ReadMods(t) # {}
        => \A k \in puts[t] \cup deletes[t] :
                log[seen[t]][k] \in {0, log[snap[t]][k]}

Changed(t, K) == \E k \in K : log[seen[t]][k] # log[snap[t]][k]

\* A Serializable transaction conflicts only if a key it read has changed.
SerializableConflictIsReal ==
    \A t \in Txn : pc[t] = "refused" /\ level[t] = "Serializable" =>
        Changed(t, {k \in Key : WasRead(t, k)})

\* stm.ts:170-171 of the write conflicts: a SerializableSnapshot transaction
\* conflicts only if a key it read or writes has changed since its first read.
\* This does not hold: keys it writes are compared with the oldest key it read.
SnapshotConflictIsReal ==
    \A t \in Txn : pc[t] = "refused" /\ level[t] = "SerializableSnapshot" =>
        Changed(t, {k \in Key : WasRead(t, k)} \cup puts[t] \cup deletes[t])

\* stm.ts:394-396: a call commits its changes as a single transaction, once
\* over all its attempts.  Until an attempt succeeds nothing is applied.  This
\* leaves out the calls whose commit the pool sent twice.
AppliedOnceUnlessResent ==
    \A t \in Txn \ resent :
        /\ applied[t] <= 1
        /\ pc[t] \in {"running", "conflict"} => applied[t] = 0
        /\ pc[t] = "succeeded" => applied[t] = 1 \/ puts[t] = {}

\* What makes the properties inductive.  The store: a mod_revision is not
\* beyond the revision that holds it, and a key keeps it until the key is
\* deleted or put again.
StoreInv ==
    /\ Len(log) # 0
    /\ \A r \in 1..Len(log) : \A k \in Key :
         /\ log[r][k] <= r
         /\ \A q \in 1..r : log[r][k] \in {0, log[q][k]} \/ log[r][k] > q

\* The attempts: a read by a pinned attempt sets its revision, a verdict is
\* for a revision of the store, and a commit sent once is not applied yet.
ReadsPinned ==
    \A t \in Txn : Pinned(t) => \A k \in Key : WasRead(t, k) => snap[t] # 0

VerdictSeen ==
    \A t \in Txn : pc[t] \in {"succeeded", "refused"} => seen[t] # 0

SentUnapplied ==
    \A t \in Txn \ resent : pc[t] \in {"sent", "refused"} => applied[t] = 0

=============================================================================
