--------------------------- MODULE ElectionObserver ---------------------------
(***************************************************************************)
(* An ElectionObserver of src/src/election.ts beside the campaigns of      *)
(* Election.  It reads the first key, or waits for one to be put, and then *)
(* watches that key until it is deleted.  A watcher is a position in the   *)
(* log of the store: etcd sends all events from there on, in order and as  *)
(* many in one response as there are.                                      *)
(***************************************************************************)
EXTENDS Election

CONSTANT Unset  \* UnsetCurrent

VARIABLES
    place,   \* where loop() is
    current, \* ElectionObserver.current: a campaign's key, None or Unset
    shown,   \* the value of current
    leader,  \* the local variable of loop()
    latest,  \* its value, until setLeader
    at       \* the next revision of the watcher, or else loop()'s revision + 1

observer == <<place, current, shown, leader, latest, at>>
all == <<vars, observer>>

\* loop() reads, watches for "any" put and then cancels that watcher
\* ("anyStops"), watches the leader's "key" and cancels that ("keyStops").
ObserverTypeOK ==
    /\ place \in {"reading", "any", "anyStops", "key", "keyStops"}
    /\ current \in Candidate \cup {None, Unset}
    /\ leader \in Candidate \cup {None}
    /\ {shown, latest} \subseteq Value
    /\ at \in Nat

ObserverInit ==
    /\ place = "reading"
    /\ current = Unset
    /\ leader = None
    /\ shown = "first"
    /\ latest = "first"
    /\ at = 0

SetLeader(c, v) == current' = c /\ shown' = v

\* Seeded bug: the leader's key is watched from a revision too late.
ReadsAndSkips ==
    /\ place = "reading"
    /\ Present # {}
    /\ leader' = Oldest(Present)
    /\ SetLeader(leader', stored[leader'])
    /\ UNCHANGED latest
    /\ at' = Len(log) + 2
    /\ place' = "key"

\* The first key, by create revision, is the leader's.
ReadsLeader ==
    /\ place = "reading"
    /\ Present # {}
    /\ leader' = Oldest(Present)
    /\ SetLeader(leader', stored[leader'])
    /\ UNCHANGED latest
    /\ at' = Len(log) + 1
    /\ place' = "key"

\* With no key, the watch starts at the revision of the answer.
ReadsNone ==
    /\ place = "reading"
    /\ Present = {}
    /\ SetLeader(None, "first")
    /\ leader' = None
    /\ latest' = "first"
    /\ at' = IF log = <<>> THEN 1 ELSE Len(log)
    /\ place' = "any"

PutsIn(i, n) == {k \in i..n : log[k].kind = "put"}

\* The 'data' listener: the last put of each response is kept, also of those
\* that arrive until the watcher has ended.
SeesPuts ==
    /\ place \in {"any", "anyStops"}
    /\ \E n \in at..Len(log) :
        /\ PutsIn(at, n) # {}
        /\ LET k == CHOOSE k \in PutsIn(at, n) : \A j \in PutsIn(at, n) : j <= k
           IN  /\ leader' = log[k].key
               /\ latest' = log[k].value
               /\ at' = n + 1
    /\ place' = "anyStops"
    /\ UNCHANGED <<current, shown>>

\* Seeded bug: the key's watch starts behind the last event of the first watcher.
StartsWhereItStopped ==
    /\ place = "anyStops"
    /\ SetLeader(leader, latest)
    /\ place' = "key"
    /\ latest' = "first"
    /\ UNCHANGED <<leader, at>>

\* The promise is resolved and the watcher has ended.  The key's watch starts
\* behind the put that was kept.
StartsAtKey ==
    /\ place = "anyStops"
    /\ SetLeader(leader, latest)
    /\ at' = 1 + CHOOSE k \in 1..Len(log) :
                   /\ log[k].key = leader /\ log[k].kind = "put" /\ k < at
                   /\ \A j \in PutsIn(k + 1, at - 1) : log[j].key # leader
    /\ place' = "key"
    /\ latest' = "first"
    /\ UNCHANGED leader

\* The events of the leader's key that its watcher has not seen.
Unseen == {i \in at..Len(log) : log[i].key = leader}

\* The watcher of the leader's key: its puts are followed, its deletion ends
\* the watch.
KeyEvent ==
    /\ place \in {"key", "keyStops"}
    /\ \E i \in Unseen :
        /\ \A j \in Unseen : i <= j
        /\ at' = i + 1
        /\ IF log[i].kind = "put"
           THEN SetLeader(leader, log[i].value) /\ UNCHANGED place
           ELSE place' = "keyStops" /\ UNCHANGED <<current, shown>>
    /\ UNCHANGED <<leader, latest>>

KeyStopped ==
    /\ place = "keyStops"
    /\ place' = "reading"
    /\ leader' = None
    /\ latest' = "first"
    /\ at' = 0
    /\ UNCHANGED <<current, shown>>

Observes ==
    /\ ReadsLeader \/ ReadsNone \/ SeesPuts \/ StartsAtKey \/ KeyEvent \/ KeyStopped
    /\ UNCHANGED vars

ObservedNext == (Next /\ UNCHANGED observer) \/ Observes

ObservedSpec == Init /\ ObserverInit /\ [][ObservedNext]_all
ObservedFairSpec == ObservedSpec /\ Fairness /\ WF_all(Observes)

\* election.ts:161-167: from the answer, or the put, that made a key the leader,
\* its watcher misses no event of that key, whatever happens until the watch
\* starts: what the observer shows is the key's last event before the next one
\* that the watcher will get.
LastShown(k) ==
    /\ k < at
    /\ log[k] = [key |-> leader, kind |-> "put", value |-> shown]
    /\ \A j \in DOMAIN log : k < j /\ j < at => log[j].key # leader

FollowsKey == place = "key" => current = leader /\ \E k \in DOMAIN log : LastShown(k)

\* The observer shows a key that exists, with the value that it has, or no
\* leader if there is no key.
Fresh == IF current \in Candidate
         THEN current \in Present /\ shown = stored[current]
         ELSE Present = {}

\* election.ts:41-42 and 241: the observer follows the leader.  It never
\* stays for good with one whose key is gone, with an old value, or with none.
NeverStaleForGood == []<>Fresh

\* election.ts:76-77, "Returns the currently-elected leader value": if one
\* campaign remains the first, the observer shows it in the end.  This does not
\* hold: it may see the put of another before it stops waiting for one.
ObservesLeader == \A c \in Candidate : <>[]First(c) => <>[](current = c)
=============================================================================
