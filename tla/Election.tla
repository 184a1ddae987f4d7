------------------------------- MODULE Election -------------------------------
(***************************************************************************)
(* The campaigns of src/src/election.ts over an etcd store.  Each campaign *)
(* puts a key under its own lease, named for that lease, then waits until  *)
(* no key with a lower create revision is left.                            *)
(*                                                                         *)
(* An action is a continuation of Campaign.start() after one of its        *)
(* awaits, a call of the user, or a step of etcd.  Reads are atomic; a     *)
(* transaction is decided in one step and answered in another, since its   *)
(* answer may be lost.  Leases appear here as alive or gone (see Lease),   *)
(* watches as a position in the log (see WatchReplay).                     *)
(***************************************************************************)
EXTENDS Naturals, Sequences, FiniteSets

CONSTANTS
    Candidate, \* the campaigns that programs may start
    None,
    MaxTurns   \* bound: how often programs resign or proclaim, calls fail or
               \* are sent again, and leases expire

ASSUME ElectionAssumption ==
    /\ None \notin Candidate
    /\ MaxTurns \in Nat

VARIABLES
    log,         \* the events of the election's keys; a revision is a position
    created,     \* create revision of each campaign's key, 0 if there is none
    stored,      \* its value
    lease,       \* "none", "live" or "gone"
    pc,          \* where start() is
    keyRevision, \* Campaign.keyRevision, apart from ResignedCampaign
    resigned,    \* whether keyRevision is ResignedCampaign
    value,       \* Campaign.value
    original,    \* the value that the first transaction puts
    answer,      \* the response of the first transaction, in flight
    revision,    \* the argument of waitForElected
    behind,      \* the key whose deletion is awaited
    from,        \* the start_revision of the watch for it
    proclaim,    \* a call of proclaimInner: see Proclaim
    elected,     \* campaigns that have emitted 'elected'
    errored,     \* campaigns that have emitted 'error'
    resent,      \* campaigns whose first transaction was sent more than once
    turns

store == <<log, created, stored, lease>>
object == <<keyRevision, resigned, value, original>>
waiting == <<revision, behind, from>>
emitted == <<elected, errored>>
history == <<resent, turns>>
vars == <<store, pc, object, answer, waiting, proclaim, emitted, history>>

Value == {"first", "second"}

Place == {"new", "granting", "putting", "put", "publishing", "querying", "getting",
          "creating", "watching", "cancelling", "elected", "stopped", "failed"}

\* proclaim() is "pending" until start() has the key's revision; then its
\* transaction is "sent" and "applied" or "refused", and it is settled.
Proclaim == {"no", "pending", "sent", "applied", "refused", "ok", "rejected"}

Event == [key : Candidate, kind : {"put", "delete"}, value : Value]

Answer == [kind : {"put", "exists", "error"},
           revision : Nat, created : Nat, value : Value]

NoAnswer == [kind |-> "error", revision |-> 0, created |-> 0, value |-> "first"]

TypeOK ==
    /\ log \in Seq(Event)
    /\ created \in [Candidate -> Nat]
    /\ stored \in [Candidate -> Value]
    /\ lease \in [Candidate -> {"none", "live", "gone"}]
    /\ pc \in [Candidate -> Place]
    /\ keyRevision \in [Candidate -> Nat]
    /\ resigned \subseteq Candidate
    /\ {value, original} \subseteq [Candidate -> Value]
    /\ answer \in [Candidate -> Answer]
    /\ revision \in [Candidate -> Nat]
    /\ behind \in [Candidate -> Candidate \cup {None}]
    /\ from \in [Candidate -> Nat]
    /\ proclaim \in [Candidate -> Proclaim]
    /\ {elected, errored, resent} \subseteq SUBSET Candidate
    /\ turns \in 0..MaxTurns

Init ==
    /\ log = <<>>
    /\ created = [c \in Candidate |-> 0]
    /\ stored = [c \in Candidate |-> "first"]
    /\ lease = [c \in Candidate |-> "none"]
    /\ pc = [c \in Candidate |-> "new"]
    /\ keyRevision = [c \in Candidate |-> 0]
    /\ resigned = {}
    /\ value = [c \in Candidate |-> "first"]
    /\ original = value
    /\ answer = [c \in Candidate |-> NoAnswer]
    /\ revision = [c \in Candidate |-> 0]
    /\ behind = [c \in Candidate |-> None]
    /\ from = [c \in Candidate |-> 0]
    /\ proclaim = [c \in Candidate |-> "no"]
    /\ elected = {}
    /\ errored = {}
    /\ resent = {}
    /\ turns = 0

Turn == turns < MaxTurns /\ turns' = turns + 1

Goto(c, p) == pc' = [pc EXCEPT ![c] = p]

(***************************************************************************)
(* The store                                                               *)
(***************************************************************************)
Present == {c \in Candidate : created[c] # 0}

\* The key of c is put with value v, at the next revision.
Puts(c, v) ==
    /\ log' = Append(log, [key |-> c, kind |-> "put", value |-> v])
    /\ stored' = [stored EXCEPT ![c] = v]
    /\ created' = IF created[c] # 0 THEN created
                  ELSE [created EXCEPT ![c] = Len(log) + 1]
    /\ UNCHANGED lease

\* The lease of c is revoked or expires, and its key is deleted.
EndLease(c) ==
    /\ lease[c] = "live"
    /\ lease' = [lease EXCEPT ![c] = "gone"]
    /\ created' = [created EXCEPT ![c] = 0]
    /\ log' = IF created[c] = 0 THEN log
              ELSE Append(log, [key |-> c, kind |-> "delete", value |-> stored[c]])
    /\ UNCHANGED stored

Revoked(c) ==
    /\ c \in resigned
    /\ EndLease(c)
    /\ UNCHANGED <<pc, object, answer, waiting, proclaim, emitted, history>>

Expires(c) ==
    /\ c \notin resigned
    /\ Turn
    /\ EndLease(c)
    /\ UNCHANGED <<pc, object, answer, waiting, proclaim, emitted, resent>>

\* The first transaction: a put if the key does not exist, else a get.
PutDecides(c) ==
    /\ pc[c] = "putting"
    /\ Goto(c, "put")
    /\ IF created[c] # 0
       THEN /\ answer' = [answer EXCEPT ![c] =
                  [kind |-> "exists", revision |-> Len(log),
                   created |-> created[c], value |-> stored[c]]]
            /\ UNCHANGED store
       ELSE IF lease[c] = "gone"
       THEN answer' = [answer EXCEPT ![c] = NoAnswer] /\ UNCHANGED store
       ELSE /\ Puts(c, original[c])
            /\ answer' = [answer EXCEPT ![c] =
                  [kind |-> "put", revision |-> Len(log'),
                   created |-> Len(log'), value |-> original[c]]]
    /\ UNCHANGED <<object, waiting, proclaim, emitted, history>>

\* The transaction of proclaimInner: a put if the key is still the same one.
ProclaimDecides(c) ==
    /\ proclaim[c] = "sent"
    /\ IF created[c] # 0 /\ created[c] = keyRevision[c]
       THEN Puts(c, "second") /\ proclaim' = [proclaim EXCEPT ![c] = "applied"]
       ELSE UNCHANGED store /\ proclaim' = [proclaim EXCEPT ![c] = "refused"]
    /\ UNCHANGED <<pc, object, answer, waiting, emitted, history>>

(***************************************************************************)
(* Campaign.start()                                                        *)
(***************************************************************************)
\* new Campaign
Start(c) ==
    /\ pc[c] = "new"
    /\ Goto(c, "granting")
    /\ UNCHANGED <<store, object, answer, waiting, proclaim, emitted, history>>

Granted(c) ==
    /\ pc[c] = "granting"
    /\ Goto(c, "putting")
    /\ lease' = [lease EXCEPT ![c] = "live"]
    /\ original' = [original EXCEPT ![c] = value[c]]
    /\ UNCHANGED <<log, created, stored, keyRevision, resigned, value, answer,
                   waiting, proclaim, emitted, history>>

\* start() rejects: the constructor resigns, rejects a pending proclaim() and
\* emits 'error'.
Fails(c) ==
    /\ Goto(c, "failed")
    /\ resigned' = resigned \cup {c}
    /\ errored' = errored \cup {c}
    /\ UNCHANGED <<elected, keyRevision, original>>

RejectsPending(c) == IF proclaim[c] = "pending"
                     THEN [proclaim EXCEPT ![c] = "rejected"] ELSE proclaim

\* A call of start() fails, whether or not the server has served it.
CallFails(c) ==
    /\ pc[c] \in {"granting", "putting", "put", "querying", "getting"}
    /\ Turn
    /\ Fails(c)
    /\ proclaim' = RejectsPending(c)
    /\ UNCHANGED <<store, value, answer, waiting, resent>>

\* The answer of the first transaction is lost and the pool sends it again.
PutResent(c) ==
    /\ pc[c] = "put"
    /\ Turn
    /\ Goto(c, "putting")
    /\ resent' = resent \cup {c}
    /\ UNCHANGED <<store, object, answer, waiting, proclaim, emitted>>

\* 'elected' is emitted.
Emit(c) ==
    /\ Goto(c, "elected")
    /\ elected' = elected \cup {c}
    /\ UNCHANGED errored

\* The head of the loop of waitForElected.
LoopHead(c) ==
    IF c \in resigned THEN Emit(c) ELSE Goto(c, "querying") /\ UNCHANGED emitted

\* The key was put, or found as it was put before: proclaims go by its create
\* revision, the wait by that of the answer.  A pending proclaim() is published
\* now, unless it finds its own value.
PutReturns(c) ==
    /\ pc[c] = "put"
    /\ c \notin resigned
    /\ answer[c].kind # "error"
    /\ keyRevision' = [keyRevision EXCEPT ![c] = answer[c].created]
    /\ revision' = [revision EXCEPT ![c] = answer[c].revision]
    /\ IF /\ proclaim[c] = "pending"
          /\ answer[c].kind = "exists" => answer[c].value # value[c]
       THEN /\ Goto(c, "publishing")
            /\ proclaim' = [proclaim EXCEPT ![c] = "sent"]
            /\ UNCHANGED emitted
       ELSE LoopHead(c) /\ UNCHANGED proclaim
    /\ answer' = [answer EXCEPT ![c] = NoAnswer]
    /\ UNCHANGED <<store, resigned, value, original, behind, from, history>>

\* "torn down in the meantime"
PutIgnored(c) ==
    /\ pc[c] = "put"
    /\ c \in resigned
    /\ answer[c].kind # "error"
    /\ Goto(c, "stopped")
    /\ UNCHANGED <<store, object, answer, waiting, proclaim, emitted, history>>

\* The lease was gone before the key was put.
PutRejected(c) ==
    /\ pc[c] = "put"
    /\ answer[c].kind = "error"
    /\ Fails(c)
    /\ proclaim' = RejectsPending(c)
    /\ UNCHANGED <<store, value, answer, waiting, history>>

\* The keys that maxCreateRevision(lastRevision) selects.
Ahead(c) == {d \in Present : created[d] < revision[c]}

\* The keys of a set with the lowest and the highest create revision.
Oldest(S) == CHOOSE d \in S : \A e \in S : created[d] <= created[e]
Newest(S) == CHOOSE d \in S : \A e \in S : created[e] <= created[d]

\* waitForElected: nothing is ahead, or the last key ahead is waited for.
QueryReturns(c) ==
    /\ pc[c] = "querying"
    /\ IF Ahead(c) = {}
       THEN Emit(c) /\ UNCHANGED behind
       ELSE /\ Goto(c, "getting")
            /\ behind' = [behind EXCEPT ![c] = Newest(Ahead(c))]
            /\ UNCHANGED emitted
    /\ UNCHANGED <<store, object, answer, revision, from, proclaim, history>>

\* The locals of waitForDelete are gone.
Forgets(c) ==
    /\ behind' = [behind EXCEPT ![c] = None]
    /\ from' = [from EXCEPT ![c] = 0]
    /\ UNCHANGED revision

\* waitForDeletes: the key is watched from the revision at which it was read.
GetReturns(c) ==
    /\ pc[c] = "getting"
    /\ IF created[behind[c]] = 0
       THEN LoopHead(c) /\ Forgets(c)
       ELSE /\ Goto(c, "creating")
            /\ from' = [from EXCEPT ![c] = Len(log)]
            /\ UNCHANGED <<revision, behind, emitted>>
    /\ UNCHANGED <<store, object, answer, proclaim, history>>

\* Seeded bug: the watch has no start_revision.
WatchFromNow(c) ==
    /\ pc[c] = "creating"
    /\ Goto(c, "watching")
    /\ from' = [from EXCEPT ![c] = Len(log) + 1]
    /\ UNCHANGED <<store, object, answer, revision, behind, proclaim, emitted, history>>

\* waitForDelete: etcd creates the watch.
WatchCreated(c) ==
    /\ pc[c] = "creating"
    /\ Goto(c, "watching")
    /\ UNCHANGED <<store, object, answer, waiting, proclaim, emitted, history>>

\* Seeded bug: waitForElected returns after the first deletion.
DeletedThenElected(c) ==
    /\ pc[c] = "watching"
    /\ \E i \in from[c]..Len(log) : log[i].key = behind[c] /\ log[i].kind = "delete"
    /\ Emit(c)
    /\ UNCHANGED <<store, object, answer, waiting, proclaim, history>>

\* waitForDelete: 'delete' is emitted, and cancel() called.
Deleted(c) ==
    /\ pc[c] = "watching"
    /\ \E i \in from[c]..Len(log) : log[i].key = behind[c] /\ log[i].kind = "delete"
    /\ Goto(c, "cancelling")
    /\ Forgets(c)
    /\ UNCHANGED <<store, object, answer, proclaim, emitted, history>>

\* The watcher has ended.
WatchEnded(c) ==
    /\ pc[c] = "cancelling"
    /\ LoopHead(c)
    /\ UNCHANGED <<store, object, answer, waiting, proclaim, history>>

(***************************************************************************)
(* resign(), proclaim() and the loss of the lease                          *)
(***************************************************************************)
\* resign(): the revocation follows (Revoked).
Resign(c) ==
    /\ c \notin resigned
    /\ pc[c] # "new"
    /\ Turn
    /\ resigned' = resigned \cup {c}
    /\ UNCHANGED <<store, pc, keyRevision, value, original, answer, waiting, proclaim,
                   emitted, resent>>

\* Seeded bug: a value proclaimed before the key is put is only remembered.
ProclaimForgets(c) ==
    /\ pc[c] # "new"
    /\ c \notin resigned
    /\ proclaim[c] = "no"
    /\ Turn
    /\ value' = [value EXCEPT ![c] = "second"]
    /\ proclaim' = [proclaim EXCEPT ![c] = IF keyRevision[c] = 0 THEN "ok" ELSE "sent"]
    /\ UNCHANGED <<store, pc, keyRevision, resigned, original, answer, waiting,
                   emitted, resent>>

\* proclaim() of a new value; the program awaits one call before the next.
ProclaimSecond(c) ==
    /\ pc[c] # "new"
    /\ c \notin resigned
    /\ proclaim[c] = "no"
    /\ Turn
    /\ IF keyRevision[c] = 0
       THEN /\ proclaim' = [proclaim EXCEPT ![c] = "pending"]
            /\ value' = [value EXCEPT ![c] = "second"]
       ELSE proclaim' = [proclaim EXCEPT ![c] = "sent"] /\ UNCHANGED value
    /\ UNCHANGED <<store, pc, keyRevision, resigned, original, answer, waiting,
                   emitted, resent>>

\* proclaimInner succeeds, and start() goes on if it is the one that waits.
ProclaimReturns(c) ==
    /\ proclaim[c] = "applied"
    /\ proclaim' = [proclaim EXCEPT ![c] = "ok"]
    /\ value' = [value EXCEPT ![c] = "second"]
    /\ IF pc[c] = "publishing" THEN LoopHead(c) ELSE UNCHANGED <<pc, emitted>>
    /\ UNCHANGED <<store, keyRevision, resigned, original, answer, waiting, history>>

\* The key was not there: proclaimInner resigns and rejects.
ProclaimRefused(c) ==
    /\ proclaim[c] = "refused"
    /\ proclaim' = [proclaim EXCEPT ![c] = "rejected"]
    /\ value' = [value EXCEPT ![c] = "second"]
    /\ IF pc[c] = "publishing" THEN Fails(c)
       ELSE /\ resigned' = resigned \cup {c}
            /\ UNCHANGED <<pc, keyRevision, original, emitted>>
    /\ UNCHANGED <<store, answer, waiting, history>>

\* The call of proclaimInner fails, before or after it was served.
ProclaimFails(c) ==
    /\ proclaim[c] \in {"sent", "applied", "refused"}
    /\ Turn
    /\ proclaim' = [proclaim EXCEPT ![c] = "rejected"]
    /\ IF pc[c] = "publishing" THEN Fails(c)
       ELSE UNCHANGED <<pc, keyRevision, resigned, original, emitted>>
    /\ UNCHANGED <<store, value, answer, waiting, resent>>

\* The lease finds out that it is gone: 'lost' becomes 'error'.
LeaseLost(c) ==
    /\ lease[c] = "gone"
    /\ c \notin resigned
    /\ c \notin errored
    /\ errored' = errored \cup {c}
    /\ UNCHANGED <<store, pc, object, answer, waiting, proclaim, elected, history>>

Runs(c) ==
    \/ Granted(c) \/ PutReturns(c) \/ PutIgnored(c) \/ PutRejected(c)
    \/ QueryReturns(c) \/ GetReturns(c)
    \/ WatchCreated(c) \/ Deleted(c) \/ WatchEnded(c)
    \/ ProclaimReturns(c) \/ ProclaimRefused(c) \/ LeaseLost(c)

Serves(c) == PutDecides(c) \/ ProclaimDecides(c) \/ Revoked(c)

Uses(c) == Start(c) \/ Resign(c) \/ ProclaimSecond(c)

Errs(c) == CallFails(c) \/ PutResent(c) \/ ProclaimFails(c) \/ Expires(c)

Next == \E c \in Candidate : Runs(c) \/ Serves(c) \/ Uses(c) \/ Errs(c)

\* Continuations run and etcd answers.  A campaign makes finitely many of
\* these steps, so this is as good as fairness of each of them.  No program
\* has to start a campaign or to resign, and nothing has to fail.
Fairness == \A c \in Candidate : WF_vars(Runs(c) \/ Serves(c))

Spec == Init /\ [][Next]_vars
FairSpec == Spec /\ Fairness

(***************************************************************************)
(* Properties                                                              *)
(***************************************************************************)
First(c) == c \in Present /\ \A d \in Present : created[c] <= created[d]

\* election.ts:425: "only one can be the leader at a time".  A campaign that
\* has emitted 'elected' and not resigned has no key older than its own before
\* it, as long as its lease is alive, whoever comes, leaves or is retried.
LeaderIsFirst == \A c \in elected \ resigned : c \in Present => First(c)

\* election.ts:241: a value that proclaim() has published, with its promise
\* resolved, is the one in etcd; a campaign still running knows it, too.
ProclaimedIsStored ==
    \A c \in Candidate : proclaim[c] = "ok" /\ c \in Present =>
        stored[c] = "second" /\ value[c] = "second"

\* election.ts:228 and 214: once a campaign has resigned or failed it
\* does not emit 'elected'.  This does not hold: start() emits it when its wait
\* ends, for whatever reason.
NoElectionAfterEnd ==
    [][\A c \in elected' \ elected : c \notin resigned \cup errored]_vars

\* election.ts:208: the first key's campaign emits 'elected', unless it ends,
\* loses its lease, or has to send its first transaction twice: then it may
\* wait for its own key.
EventuallyElected ==
    \A c \in Candidate : First(c) ~>
        (c \in elected \cup resigned \cup errored \cup resent \/ c \notin Present)
=============================================================================
