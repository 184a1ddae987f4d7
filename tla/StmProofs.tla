------------------------------ MODULE StmProofs ------------------------------
(***************************************************************************)
(* What TLAPS proves of Stm, for any number of calls, keys, retries and    *)
(* operations.                                                             *)
(***************************************************************************)
EXTENDS Stm, SequenceTheorems, TLAPS

Store == [Key -> Nat]

\* The log is only ever appended to, with the store that a commit makes.
Grows ==
    /\ log' \in Seq(Store)
    /\ \/ Len(log') = Len(log)
       \/ /\ Len(log') = Len(log) + 1
          /\ \E t \in Txn : log'[Len(log')] = After(t)
    /\ \A r \in 1..Len(log) : log'[r] = log[r]

\* The store that etcd makes of a transaction is a store.
LEMMA AfterTyped ==
  ASSUME TypeOK, Len(log) # 0, NEW t \in Txn
  PROVE  After(t) \in Store
<1>1. Len(log) \in Nat /\ Len(log) >= 1
  BY DEF TypeOK
<1>2. Now \in Store
  BY <1>1, ElementOfSeq, SMT DEF TypeOK, Now, Store
<1> QED
  BY <1>1, <1>2 DEF After, Store

\* Whatever the actor, an action leaves the past of the log alone.
LEMMA LogGrows ==
  ASSUME TypeOK, Len(log) # 0, [Next]_vars
  PROVE  Grows
<1>1. CASE log' = log
  BY <1>1 DEF Grows, TypeOK, Store
<1>2. ASSUME NEW t \in Txn, log' = Append(log, After(t))
      PROVE  Grows
  <2>1. After(t) \in Store
    BY AfterTyped
  <2>2. log \in Seq(Store)
    BY DEF TypeOK, Store
  <2> QED
    BY <1>2, <2>1, <2>2, AppendProperties DEF Grows
<1>3. log' = log \/ \E t \in Txn : log' = Append(log, After(t))
  BY DEF Next, Read, Put, Delete, DeleteRange, FnRejects, Commit, Decides,
         Invalid, Succeeds, Conflicts, CallFails, server, vars
<1> QED
  BY <1>1, <1>2, <1>3

\* A call's own steps.
Acts(t) ==
    \/ \E k \in Key : Read(t, k) \/ Put(t, k) \/ Delete(t, k)
    \/ DeleteRange(t) \/ FnRejects(t) \/ Commit(t) \/ Decides(t)
    \/ Invalid(t) \/ Succeeds(t) \/ Conflicts(t) \/ CallFails(t)

Control ==
    /\ level \in [Txn -> Levels]
    /\ pc \in [Txn -> Progress]
    /\ left \in [Txn -> 0..Retries]
    /\ applied \in [Txn -> Nat]
    /\ resent \subseteq Txn
    /\ lost \in 0..MaxLost

Attempts ==
    /\ reads \in [Txn -> [Key -> Nat \cup {None}]]
    /\ snap \in [Txn -> 0..Len(log)]
    /\ puts \in [Txn -> SUBSET Key]
    /\ deletes \in [Txn -> SUBSET Key]
    /\ ranged \in [Txn -> BOOLEAN]
    /\ seen \in [Txn -> 0..Len(log)]

LEMMA ControlTyped ==
  ASSUME Control, NEW t \in Txn, Acts(t)
  PROVE  Control'
<1> USE StmAssumption DEF Control, Progress, server
<1>1. CASE \E k \in Key : Read(t, k) \/ Put(t, k) \/ Delete(t, k)
  BY <1>1 DEF Read, Put, Delete
<1>2. CASE DeleteRange(t)
  BY <1>2 DEF DeleteRange
<1>3. CASE FnRejects(t)
  BY <1>3 DEF FnRejects, Settles, Goto
<1>4. CASE Commit(t)
  BY <1>4 DEF Commit, Settles, Goto
<1>5. CASE Decides(t)
  <2>1. applied' = applied \/ applied' = [applied EXCEPT ![t] = @ + 1]
    BY <1>5 DEF Decides
  <2>2. pc' \in [Txn -> Progress]
    BY <1>5 DEF Decides, Goto
  <2>3. UNCHANGED <<level, left, resent, lost>>
    BY <1>5 DEF Decides
  <2> QED
    BY <2>1, <2>2, <2>3
<1>6. CASE Invalid(t)
  BY <1>6 DEF Invalid, Settles, Goto
<1>7. CASE Succeeds(t)
  BY <1>7 DEF Succeeds, Settles, Goto
<1>8. CASE Conflicts(t)
  BY <1>8 DEF Conflicts, Settles, NewAttempt, Goto
<1>9. CASE CallFails(t)
  BY <1>9 DEF CallFails, Settles, Goto
<1> QED
  BY <1>1, <1>2, <1>3, <1>4, <1>5, <1>6, <1>7, <1>8, <1>9 DEF Acts

\* The revisions of an attempt are never beyond the end of the log.
LEMMA AttemptsTyped ==
  ASSUME TypeOK, Len(log) # 0, Grows, NEW t \in Txn, Acts(t)
  PROVE  Attempts'
<1> USE DEF TypeOK, Attempts, Grows
<1>1. Len(log) \in Nat /\ Len(log') \in Nat /\ Len(log) <= Len(log')
  BY DEF Store
<1>2. 0..Len(log) \subseteq 0..Len(log')
  BY <1>1
<1>3. CASE Forget(t)
  BY <1>1, <1>2, <1>3 DEF Forget, Unread
<1>4. CASE UNCHANGED attempt
  BY <1>1, <1>2, <1>4 DEF attempt
<1>5. ASSUME NEW k \in Key, Read(t, k)
      PROVE  Attempts'
  <2>1. PICK r \in ReadRevisions(t) :
          /\ reads' = [reads EXCEPT ![t][k] = log[r][k]]
          /\ snap' = IF Pinned(t) /\ snap[t] = 0 THEN [snap EXCEPT ![t] = r] ELSE snap
    BY <1>5 DEF Read
  <2>2. r \in 1..Len(log)
    BY <1>1, <2>1 DEF ReadRevisions
  <2>3. log[r] \in Store
    BY <2>2, ElementOfSeq DEF Store
  <2>4. log[r][k] \in Nat
    BY <2>3 DEF Store
  <2> QED
    <3>1. reads' \in [Txn -> [Key -> Nat \cup {None}]]
      BY <2>1, <2>4
    <3>2. snap' \in [Txn -> 0..Len(log')]
      BY <1>1, <1>2, <2>1, <2>2
    <3>3. UNCHANGED <<puts, deletes, ranged, seen>>
      BY <1>5 DEF Read
    <3> QED
      BY <1>2, <3>1, <3>2, <3>3
<1>6. ASSUME NEW k \in Key, Put(t, k) \/ Delete(t, k)
      PROVE  Attempts'
  <2>1. puts' \in [Txn -> SUBSET Key] /\ deletes' \in [Txn -> SUBSET Key]
    <3>1. CASE Put(t, k)
      BY <3>1 DEF Put
    <3>2. CASE Delete(t, k)
      BY <3>2 DEF Delete
    <3> QED
      BY <1>6, <3>1, <3>2
  <2>2. UNCHANGED <<reads, snap, ranged, seen>>
    BY <1>6 DEF Put, Delete
  <2> QED
    BY <1>2, <2>1, <2>2
<1>7. CASE DeleteRange(t)
  BY <1>2, <1>7 DEF DeleteRange
<1>8. CASE Decides(t)
  <2>1. seen' \in [Txn -> 0..Len(log')]
    BY <1>1, <1>2, <1>8 DEF Decides
  <2>2. UNCHANGED <<reads, snap, puts, deletes, ranged>>
    BY <1>8 DEF Decides
  <2> QED
    BY <1>2, <2>1, <2>2
<1>9. CASE CallFails(t)
  <2>1. CASE seen' = [seen EXCEPT ![t] = 0] /\ UNCHANGED <<reads, snap, puts, deletes, ranged>>
    BY <1>1, <1>2, <2>1
  <2> QED
    BY <1>3, <1>9, <2>1 DEF CallFails, Settles
<1>10. FnRejects(t) \/ Commit(t) \/ Invalid(t) \/ Succeeds(t) \/ Conflicts(t)
         => Forget(t) \/ UNCHANGED attempt
  BY DEF FnRejects, Commit, Invalid, Succeeds, Conflicts, NewAttempt, Settles
<1> QED
  BY <1>3, <1>4, <1>5, <1>6, <1>7, <1>8, <1>9, <1>10 DEF Acts

LEMMA InitTyped == Init => TypeOK /\ StoreInv
<1> SUFFICES ASSUME Init PROVE TypeOK /\ StoreInv
  OBVIOUS
<1>1. PICK S \in SUBSET Key : log = <<[k \in Key |-> IF k \in S THEN 1 ELSE 0]>>
  BY DEF Init
<1>2. log \in Seq(Store) /\ Len(log) = 1 /\ \A k \in Key : log[1][k] \in {0, 1}
  BY <1>1 DEF Store
<1>3. TypeOK
  BY <1>2, StmAssumption DEF Init, TypeOK, Store, Unread, Progress
<1>4. StoreInv
  BY <1>2 DEF StoreInv
<1> QED
  BY <1>3, <1>4

\* A mod_revision stays below its revision, and a key keeps it until a later
\* revision replaces it: a commit gives each key its own new revision, or 0,
\* or leaves it.
LEMMA StoreKept ==
  ASSUME TypeOK, StoreInv, Grows
  PROVE  StoreInv'
<1>1. Len(log) \in Nat /\ Len(log) >= 1
  BY DEF TypeOK, StoreInv
<1>2. CASE Len(log') = Len(log)
  BY <1>1, <1>2 DEF Grows, StoreInv
<1>3. ASSUME NEW t \in Txn, Len(log') = Len(log) + 1, log'[Len(log')] = After(t)
      PROVE  StoreInv'
  <2> DEFINE n == Len(log)
  <2>1. \A k \in Key : log'[n + 1][k] \in {n + 1, 0, log[n][k]}
    BY <1>3 DEF After, Now
  <2>2. \A r \in 1..n : log'[r] = log[r]
    BY DEF Grows
  <2>3. SUFFICES ASSUME NEW r \in 1..(n + 1), NEW k \in Key
                 PROVE  /\ log'[r][k] <= r
                        /\ \A q \in 1..r :
                             log'[r][k] \in {0, log'[q][k]} \/ log'[r][k] > q
    BY <1>1, <1>3 DEF StoreInv
  <2>4. CASE r \in 1..n
    BY <1>1, <2>2, <2>4 DEF StoreInv
  <2>5. CASE r = n + 1
    <3>1. /\ log[n][k] <= n
          /\ \A q \in 1..n : log[n][k] \in {0, log[q][k]} \/ log[n][k] > q
      BY <1>1 DEF StoreInv
    <3>2. log[n][k] \in Nat
      BY <1>1, ElementOfSeq DEF TypeOK
    <3> QED
      BY <1>1, <2>1, <2>2, <2>5, <3>1, <3>2
  <2> QED
    BY <1>1, <2>4, <2>5
<1> QED
  BY <1>2, <1>3 DEF Grows

\* Types and the shape of the store are kept by every step.
LEMMA TypedStep ==
  ASSUME TypeOK, StoreInv, [Next]_vars
  PROVE  TypeOK' /\ StoreInv'
<1>1. Len(log) # 0
  BY DEF StoreInv
<1>2. Grows
  BY <1>1, LogGrows
<1>3. Control /\ Attempts
  BY DEF TypeOK, Control, Attempts
<1>4. CASE UNCHANGED vars
  BY <1>2, <1>3, <1>4, StoreKept DEF vars, server, attempt, TypeOK, Store
<1>5. ASSUME NEW t \in Txn, Acts(t)
      PROVE  TypeOK'
  BY <1>1, <1>2, <1>3, <1>5, ControlTyped, AttemptsTyped
     DEF TypeOK, Control, Attempts, Grows, Store
<1>6. Next => \E t \in Txn : Acts(t)
  BY DEF Next, Acts
<1> QED
  BY <1>2, <1>4, <1>5, <1>6, StoreKept

\* The store and the sets of the attempts are well typed: every comparison is
\* between revisions, and every revision that a read or a verdict names is one
\* of the store.
THEOREM Typed == Spec => []TypeOK
<1>1. Init => TypeOK /\ StoreInv
  BY InitTyped
<1>2. TypeOK /\ StoreInv /\ [Next]_vars => TypeOK' /\ StoreInv'
  BY TypedStep
<1> QED
  BY <1>1, <1>2, PTL DEF Spec

-----------------------------------------------------------------------------
(***************************************************************************)
(* What a step does to one call.                                           *)
(***************************************************************************)

\* A step leaves the call u alone.
Same(u) ==
    /\ level'[u] = level[u]
    /\ pc'[u] = pc[u]
    /\ reads'[u] = reads[u]
    /\ snap'[u] = snap[u]
    /\ puts'[u] = puts[u]
    /\ deletes'[u] = deletes[u]
    /\ seen'[u] = seen[u]
    /\ applied'[u] = applied[u]
    /\ u \in resent' <=> u \in resent

\* No call changes another one, except through the store.
LEMMA OthersSame ==
  ASSUME TypeOK, NEW t \in Txn, Acts(t), NEW u \in Txn, u # t
  PROVE  Same(u)
<1> USE DEF TypeOK, Same
<1>1. ASSUME NEW k \in Key, Read(t, k)
      PROVE  Same(u)
  BY <1>1 DEF Read, server
<1>2. ASSUME NEW k \in Key, Put(t, k) \/ Delete(t, k)
      PROVE  Same(u)
  BY <1>2 DEF Put, Delete, server
<1>3. CASE DeleteRange(t)
  BY <1>3 DEF DeleteRange, server
<1>4. CASE FnRejects(t) \/ Commit(t) \/ Invalid(t) \/ Succeeds(t)
  BY <1>4 DEF FnRejects, Commit, Invalid, Succeeds, Settles, Forget, Goto,
              server, attempt
<1>5. CASE Decides(t)
  BY <1>5 DEF Decides, Goto
<1>6. CASE Conflicts(t)
  BY <1>6 DEF Conflicts, NewAttempt, Settles, Forget, Goto, server
<1>7. CASE CallFails(t)
  BY <1>7 DEF CallFails, Settles, Forget, Goto, server
<1> QED
  BY <1>1, <1>2, <1>3, <1>4, <1>5, <1>6, <1>7 DEF Acts

LEMMA StepOf ==
  ASSUME TypeOK, [Next]_vars, NEW u \in Txn
  PROVE  Same(u) \/ Acts(u)
<1>1. CASE UNCHANGED vars
  BY <1>1 DEF vars, server, attempt, Same
<1>2. ASSUME NEW t \in Txn, Acts(t)
      PROVE  Same(u) \/ Acts(u)
  BY <1>2, OthersSame
<1>3. Next => \E t \in Txn : Acts(t)
  BY DEF Next, Acts
<1> QED
  BY <1>1, <1>2, <1>3

\* What the reads of a call can become in its own step: only Read adds one.
LEMMA OwnReads ==
  ASSUME TypeOK, NEW u \in Txn, Acts(u)
  PROVE  /\ level'[u] = level[u]
         /\ \/ reads'[u] = Unread
            \/ reads'[u] = reads[u] /\ snap'[u] = snap[u]
            \/ \E k \in Key : Read(u, k)
<1> USE DEF TypeOK
<1>1. level'[u] = level[u]
  BY DEF Acts, Read, Put, Delete, DeleteRange, FnRejects, Commit, Decides,
         Invalid, Succeeds, Conflicts, CallFails
<1>2. CASE Forget(u)
  BY <1>1, <1>2 DEF Forget
<1>3. CASE UNCHANGED <<reads, snap>>
  BY <1>1, <1>3
<1>4. Forget(u) \/ UNCHANGED <<reads, snap>> \/ \E k \in Key : Read(u, k)
  BY DEF Acts, Put, Delete, DeleteRange, FnRejects, Commit, Decides, Invalid,
         Succeeds, Conflicts, CallFails, NewAttempt, Settles, attempt
<1> QED
  BY <1>1, <1>2, <1>3, <1>4

\* A call has a verdict on its way only by etcd's decision.
LEMMA OwnVerdict ==
  ASSUME TypeOK, NEW u \in Txn, Acts(u), pc'[u] \in {"succeeded", "refused"}
  PROVE  Decides(u)
<1> USE DEF TypeOK
<1>1. ASSUME NEW k \in Key, Read(u, k) \/ Put(u, k) \/ Delete(u, k)
      PROVE  FALSE
  BY <1>1 DEF Read, Put, Delete, Proceeds
<1>2. ~DeleteRange(u)
  BY DEF DeleteRange, Proceeds
<1>3. ~(FnRejects(u) \/ Commit(u) \/ Invalid(u) \/ Succeeds(u))
  BY DEF FnRejects, Commit, Invalid, Succeeds, Settles, Goto
<1>4. ~(Conflicts(u) \/ CallFails(u))
  BY DEF Conflicts, CallFails, NewAttempt, Settles, Goto
<1> QED
  BY <1>1, <1>2, <1>3, <1>4 DEF Acts

-----------------------------------------------------------------------------
(***************************************************************************)
(* The properties.                                                         *)
(***************************************************************************)

\* Reading keeps the snapshot: a first read sets the revision, later ones are
\* of that revision, and the log never changes under it.
LEMMA ReadsStep ==
  ASSUME TypeOK, StoreInv, ReadsPinned, SnapshotReads, [Next]_vars
  PROVE  ReadsPinned' /\ SnapshotReads'
<1> USE DEF TypeOK
<1>1. Grows /\ Len(log) \in Nat /\ Len(log) >= 1
  BY LogGrows DEF StoreInv
<1>2. SUFFICES ASSUME NEW u \in Txn, Pinned(u)', NEW k \in Key, WasRead(u, k)'
               PROVE  snap'[u] # 0 /\ log'[snap'[u]][k] = reads'[u][k]
  BY DEF ReadsPinned, SnapshotReads
<1>3. /\ level'[u] = level[u]
      /\ \/ reads'[u] = Unread
         \/ reads'[u] = reads[u] /\ snap'[u] = snap[u]
         \/ \E j \in Key : Read(u, j)
  BY StepOf, OwnReads DEF Same
<1>4. Pinned(u)
  BY <1>2, <1>3 DEF Pinned
<1>5. ASSUME reads[u][k] # None, snap'[u] = snap[u], reads'[u][k] = reads[u][k]
      PROVE  snap'[u] # 0 /\ log'[snap'[u]][k] = reads'[u][k]
  BY <1>1, <1>4, <1>5 DEF ReadsPinned, SnapshotReads, WasRead, Grows
<1>6. CASE reads'[u] = Unread
  BY <1>2, <1>6 DEF WasRead, Unread
<1>7. CASE reads'[u] = reads[u] /\ snap'[u] = snap[u]
  BY <1>2, <1>5, <1>7 DEF WasRead
<1>8. ASSUME NEW j \in Key, Read(u, j)
      PROVE  snap'[u] # 0 /\ log'[snap'[u]][k] = reads'[u][k]
  <2>1. PICK r \in ReadRevisions(u) :
          /\ reads' = [reads EXCEPT ![u][j] = log[r][j]]
          /\ snap' = IF Pinned(u) /\ snap[u] = 0 THEN [snap EXCEPT ![u] = r] ELSE snap
    BY <1>8 DEF Read
  <2>2. r \in 1..Len(log) /\ snap'[u] = r
    BY <1>1, <1>4, <2>1 DEF ReadRevisions
  <2>3. CASE j = k
    BY <1>1, <2>1, <2>2, <2>3 DEF Grows
  <2>4. CASE j # k
    <3>1. reads'[u][k] = reads[u][k]
      BY <2>1, <2>4
    <3>2. snap[u] # 0
      BY <1>2, <1>4, <3>1 DEF ReadsPinned, WasRead
    <3> QED
      BY <1>2, <1>5, <2>1, <3>1, <3>2 DEF WasRead
  <2> QED
    BY <2>3, <2>4
<1> QED
  BY <1>3, <1>6, <1>7, <1>8

\* Both invariants of the reads hold with the types.
LEMMA ReadsInv == Spec => [](TypeOK /\ StoreInv /\ ReadsPinned /\ SnapshotReads)
<1> DEFINE Inv == TypeOK /\ StoreInv /\ ReadsPinned /\ SnapshotReads
<1>1. ASSUME Init
      PROVE  Inv
  <2>1. \A t \in Txn, k \in Key : ~WasRead(t, k)
    BY <1>1 DEF Init, WasRead, Unread
  <2> QED
    BY <1>1, <2>1, InitTyped DEF ReadsPinned, SnapshotReads
<1>2. Inv /\ [Next]_vars => Inv'
  BY TypedStep, ReadsStep
<1> QED
  BY <1>1, <1>2, PTL DEF Spec

\* stm.ts:24-25: all reads of an attempt at one of the two serializable levels
\* are of the revision of its first read, whatever is committed meanwhile.
THEOREM ReadsOneSnapshot == Spec => []SnapshotReads
BY ReadsInv, PTL

\* A verdict is for the revision at which etcd decided; it stays right, as the
\* log keeps its past.
LEMMA VerdictStep ==
  ASSUME TypeOK, StoreInv, VerdictSeen, [Next]_vars
  PROVE  VerdictSeen'
<1> SUFFICES ASSUME NEW u \in Txn, pc'[u] \in {"succeeded", "refused"}
             PROVE  seen'[u] # 0
  BY DEF VerdictSeen
<1>1. Same(u) \/ Decides(u)
  BY StepOf, OwnVerdict
<1>2. CASE Same(u)
  BY <1>2 DEF Same, VerdictSeen
<1>3. CASE Decides(u)
  BY <1>3 DEF Decides, TypeOK, StoreInv
<1> QED
  BY <1>1, <1>2, <1>3

LEMMA SerializesStep ==
  ASSUME TypeOK, StoreInv, VerdictSeen, ReadsStillCurrent, [Next]_vars
  PROVE  ReadsStillCurrent'
<1>1. Grows /\ Len(log) \in Nat /\ Len(log) >= 1
  BY LogGrows DEF StoreInv, TypeOK
<1>2. SUFFICES ASSUME NEW u \in Txn, pc'[u] = "succeeded",
                      level'[u] # "ReadCommitted", NEW k \in Key, WasRead(u, k)'
               PROVE  log'[seen'[u]][k] = reads'[u][k]
  BY DEF ReadsStillCurrent
<1>3. Same(u) \/ Decides(u)
  BY <1>2, StepOf, OwnVerdict
<1>4. CASE Same(u)
  <2>1. seen[u] \in 1..Len(log)
    BY <1>1, <1>2, <1>4 DEF Same, VerdictSeen, TypeOK
  <2> QED
    BY <1>1, <1>2, <1>4, <2>1 DEF Same, Grows, ReadsStillCurrent, WasRead
<1>5. CASE Decides(u)
  <2>1. Comparisons(u)
    BY <1>2, <1>5 DEF Decides, Goto, TypeOK
  <2>2. reads'[u] = reads[u] /\ level'[u] = level[u] /\ seen'[u] = Len(log)
    BY <1>5 DEF Decides, TypeOK
  <2>3. Now[k] = reads[u][k]
    BY <1>2, <2>1, <2>2 DEF Comparisons, CurrentChecks, WasRead
  <2> QED
    BY <1>1, <2>2, <2>3 DEF Now, Grows
<1> QED
  BY <1>3, <1>4, <1>5

\* The keys read that existed were last changed by the revision of the read.
LEMMA ModsWithinSnapshot ==
  ASSUME TypeOK, StoreInv, ReadsPinned, SnapshotReads, NEW u \in Txn,
         Pinned(u), NEW m \in ReadMods(u)
  PROVE  snap[u] \in 1..Len(log) /\ m \in Nat /\ m <= snap[u]
<1>1. PICK j \in Key : m = reads[u][j] /\ WasRead(u, j)
  BY DEF ReadMods, WasRead
<1>2. snap[u] \in 1..Len(log) /\ m = log[snap[u]][j]
  BY <1>1 DEF ReadsPinned, SnapshotReads, TypeOK, StoreInv
<1>3. log[snap[u]] \in Store
  BY <1>2, ElementOfSeq DEF TypeOK, Store
<1> QED
  BY <1>2, <1>3 DEF StoreInv, Store

LEMMA WriteConflictStep ==
  ASSUME TypeOK, StoreInv, ReadsPinned, SnapshotReads, VerdictSeen,
         NoWriteConflict, [Next]_vars
  PROVE  NoWriteConflict'
<1>1. Grows /\ Len(log) \in Nat /\ Len(log) >= 1
  BY LogGrows DEF StoreInv, TypeOK
<1>2. SUFFICES ASSUME NEW u \in Txn, pc'[u] = "succeeded",
                      level'[u] = "SerializableSnapshot", ReadMods(u)' # {},
                      NEW k \in puts'[u] \cup deletes'[u]
               PROVE  log'[seen'[u]][k] \in {0, log'[snap'[u]][k]}
  BY DEF NoWriteConflict
<1>3. Same(u) \/ Decides(u)
  BY <1>2, StepOf, OwnVerdict
<1>4. /\ level'[u] = level[u] /\ reads'[u] = reads[u] /\ snap'[u] = snap[u]
      /\ puts'[u] = puts[u] /\ deletes'[u] = deletes[u]
  BY <1>3 DEF Same, Decides
<1>5. PICK m \in ReadMods(u) : TRUE
  BY <1>2, <1>4 DEF ReadMods
<1>6. snap[u] \in 1..Len(log) /\ m \in Nat /\ m <= snap[u]
  BY <1>2, <1>4, ModsWithinSnapshot DEF Pinned
<1>7. CASE Same(u)
  <2>1. seen[u] \in 1..Len(log)
    BY <1>1, <1>2, <1>7 DEF Same, VerdictSeen, TypeOK
  <2>2. log[seen[u]][k] \in {0, log[snap[u]][k]}
    BY <1>2, <1>4, <1>5, <1>7 DEF Same, NoWriteConflict
  <2> QED
    BY <1>1, <1>4, <1>6, <1>7, <2>1, <2>2 DEF Same, Grows
<1>8. CASE Decides(u)
  <2>1. Comparisons(u) /\ seen'[u] = Len(log)
    BY <1>2, <1>8 DEF Decides, Goto, TypeOK
  <2>2. Now[k] < m + 1
    BY <1>2, <1>4, <2>1 DEF Comparisons, NotChangedChecks
  <2>3. k \in Key
    BY <1>2, <1>4 DEF TypeOK
  <2>4. log[Len(log)][k] \in Nat
    BY <1>1, <2>3, ElementOfSeq DEF TypeOK
  <2>5. \/ log[Len(log)][k] \in {0, log[snap[u]][k]}
        \/ log[Len(log)][k] > snap[u]
    BY <1>1, <1>6, <2>3 DEF StoreInv
  <2>6. log[Len(log)][k] \in {0, log[snap[u]][k]}
    BY <1>6, <2>2, <2>4, <2>5 DEF Now
  <2> QED
    BY <1>1, <1>4, <1>6, <2>1, <2>6 DEF Grows
<1> QED
  BY <1>3, <1>7, <1>8

LEMMA ConflictStep ==
  ASSUME TypeOK, StoreInv, ReadsPinned, SnapshotReads, VerdictSeen,
         SerializableConflictIsReal, [Next]_vars
  PROVE  SerializableConflictIsReal'
<1>1. Grows /\ Len(log) \in Nat /\ Len(log) >= 1
  BY LogGrows DEF StoreInv, TypeOK
<1>2. SUFFICES ASSUME NEW u \in Txn, pc'[u] = "refused", level'[u] = "Serializable"
               PROVE  \E k \in Key : /\ WasRead(u, k)'
                                     /\ log'[seen'[u]][k] # log'[snap'[u]][k]
  BY DEF SerializableConflictIsReal, Changed
<1>3. Same(u) \/ Decides(u)
  BY <1>2, StepOf, OwnVerdict
<1>4. level'[u] = level[u] /\ reads'[u] = reads[u] /\ snap'[u] = snap[u]
  BY <1>3 DEF Same, Decides
<1>5. ASSUME NEW k \in Key, WasRead(u, k)
      PROVE  snap[u] \in 1..Len(log) /\ log[snap[u]][k] = reads[u][k]
  BY <1>1, <1>2, <1>4, <1>5 DEF ReadsPinned, SnapshotReads, Pinned, TypeOK
<1>6. CASE Same(u)
  <2>1. seen[u] \in 1..Len(log)
    BY <1>1, <1>2, <1>6 DEF Same, VerdictSeen, TypeOK
  <2>2. PICK k \in Key : WasRead(u, k) /\ log[seen[u]][k] # log[snap[u]][k]
    BY <1>2, <1>6 DEF Same, SerializableConflictIsReal, Changed
  <2> QED
    BY <1>1, <1>4, <1>5, <1>6, <2>1, <2>2 DEF Same, Grows, WasRead
<1>7. CASE Decides(u)
  <2>1. ~Comparisons(u) /\ seen'[u] = Len(log)
    BY <1>2, <1>7 DEF Decides, Goto, TypeOK
  <2>2. PICK k \in Key : WasRead(u, k) /\ Now[k] # reads[u][k]
    BY <1>2, <1>4, <2>1 DEF Comparisons, CurrentChecks, WasRead
  <2> QED
    BY <1>1, <1>4, <1>5, <2>1, <2>2 DEF Grows, Now, WasRead
<1> QED
  BY <1>3, <1>6, <1>7

\* A commit that was sent once is decided once.
LEMMA AppliedStep ==
  ASSUME TypeOK, StoreInv, AppliedOnceUnlessResent, SentUnapplied, [Next]_vars
  PROVE  AppliedOnceUnlessResent' /\ SentUnapplied'
<1> USE DEF TypeOK
<1> DEFINE Once(n, p, P) == /\ n <= 1
                            /\ p \in {"running", "sent", "refused", "conflict"} => n = 0
                            /\ p = "succeeded" => n = 1 \/ P = {}
<1>1. SUFFICES ASSUME NEW u \in Txn, u \notin resent'
               PROVE  Once(applied'[u], pc'[u], puts'[u])
  BY DEF AppliedOnceUnlessResent, SentUnapplied
<1>2. ASSUME u \notin resent
      PROVE  Once(applied[u], pc[u], puts[u])
  BY <1>2 DEF AppliedOnceUnlessResent, SentUnapplied
<1>3. CASE Same(u)
  BY <1>1, <1>2, <1>3 DEF Same
<1>4. ASSUME NEW k \in Key, Read(u, k) \/ Put(u, k) \/ Delete(u, k)
      PROVE  Once(applied'[u], pc'[u], puts'[u])
  BY <1>1, <1>2, <1>4 DEF Read, Put, Delete, Proceeds, server
<1>5. CASE DeleteRange(u)
  BY <1>1, <1>2, <1>5 DEF DeleteRange, Proceeds, server
<1>6. CASE FnRejects(u) \/ Commit(u) \/ Invalid(u) \/ Succeeds(u)
  BY <1>1, <1>2, <1>6 DEF FnRejects, Commit, Invalid, Succeeds, Settles, Goto,
     server, attempt
<1>7. CASE Decides(u)
  <2>1. u \notin resent /\ pc[u] = "sent" /\ puts' = puts
    BY <1>1, <1>7 DEF Decides
  <2>2. applied[u] = 0
    BY <1>2, <2>1
  <2>3. CASE Comparisons(u) /\ After(u) = Now
    <3>1. \A k \in puts[u] : FALSE
      <4> SUFFICES ASSUME NEW k \in puts[u] PROVE FALSE
        OBVIOUS
      <4>1. k \in Key /\ Now[k] = Len(log) + 1
        BY <2>3 DEF After
      <4>2. Len(log) \in Nat /\ Len(log) >= 1
        <5>1. Len(log) \in Nat /\ Len(log) # 0
          BY DEF StoreInv, TypeOK
        <5> QED
          BY <5>1
      <4>3. Len(log) \in 1..Len(log)
        BY <4>2
      <4>4. log[Len(log)][k] <= Len(log)
        BY <4>1, <4>3 DEF StoreInv
      <4> QED
        BY <4>1, <4>2, <4>4 DEF Now
    <3>2. pc'[u] = "succeeded" /\ applied' = applied
      BY <1>7, <2>3 DEF Decides, Goto
    <3> QED
      BY <2>1, <2>2, <3>1, <3>2
  <2>4. CASE Comparisons(u) /\ After(u) # Now
    BY <1>7, <2>2, <2>4 DEF Decides, Goto
  <2>5. CASE ~Comparisons(u)
    BY <1>7, <2>2, <2>5 DEF Decides, Goto
  <2> QED
    BY <2>3, <2>4, <2>5
<1>8. CASE Conflicts(u)
  BY <1>1, <1>2, <1>8 DEF Conflicts, NewAttempt, Settles, Goto, server
<1>9. CASE CallFails(u)
  BY <1>1, <1>2, <1>9 DEF CallFails, Settles, Goto, server
<1> QED
  BY <1>3, <1>4, <1>5, <1>6, <1>7, <1>8, <1>9, StepOf DEF Acts

LEMMA VerdictInv == Spec => [](/\ TypeOK /\ StoreInv /\ ReadsPinned /\ SnapshotReads
                               /\ VerdictSeen /\ ReadsStillCurrent
                               /\ NoWriteConflict /\ SerializableConflictIsReal
                               /\ AppliedOnceUnlessResent /\ SentUnapplied)
<1> DEFINE Reads == TypeOK /\ StoreInv /\ ReadsPinned /\ SnapshotReads
           Verdicts == /\ VerdictSeen /\ ReadsStillCurrent /\ NoWriteConflict
                       /\ SerializableConflictIsReal
                       /\ AppliedOnceUnlessResent /\ SentUnapplied
<1>1. Spec => []Reads
  BY ReadsInv
<1>2. ASSUME Init
      PROVE  Verdicts
  <2>1. \A t \in Txn : pc[t] = "running" /\ applied[t] = 0
    BY <1>2 DEF Init
  <2> QED
    BY <2>1 DEF VerdictSeen, ReadsStillCurrent, NoWriteConflict,
       SerializableConflictIsReal, AppliedOnceUnlessResent, SentUnapplied
<1>3. Reads /\ Verdicts /\ [Next]_vars => Verdicts'
  BY VerdictStep, SerializesStep, WriteConflictStep, ConflictStep, AppliedStep
<1> QED
  BY <1>1, <1>2, <1>3, PTL DEF Spec

\* A call of a level other than ReadCommitted succeeds only at a revision that
\* holds what it read, existing or absent.
THEOREM Serializes == Spec => []ReadsStillCurrent
BY VerdictInv, PTL

\* stm.ts:18-19: what SerializableSnapshot catches of the writes of others to
\* the keys it writes.
THEOREM CatchesWriteConflicts == Spec => []NoWriteConflict
BY VerdictInv, PTL

\* A Serializable transaction is not retried unless a key it read changed.
THEOREM ConflictsAreReal == Spec => []SerializableConflictIsReal
BY VerdictInv, PTL

\* stm.ts:394-396: over all its attempts a call applies its writes at most once,
\* and only if it succeeds, as long as the pool sends each commit once.
THEOREM AppliesOnce == Spec => []AppliedOnceUnlessResent
BY VerdictInv, PTL

=============================================================================
