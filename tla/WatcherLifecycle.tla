--------------------------- MODULE WatcherLifecycle ---------------------------
(***************************************************************************)
(* What src/src/watch.ts promises to the holders of watchers, with streams,*)
(* queues, ids and messages left out.  One connection serves all watchers. *)
(* A watcher subscribes while the connection is up, goes back to           *)
(* subscribing together with all the others when it is lost, ends only if  *)
(* its user asked, fails only if the server says so, and stays ended or    *)
(* failed.  The connection is opened when there is a watcher to serve.     *)
(*                                                                         *)
(* src/src/watch.tla of the repository describes the same protocol for a   *)
(* single watcher; its socket and watcher are our socket and status[w].    *)
(***************************************************************************)
CONSTANT Watcher

VARIABLES
    socket,  \* the connection
    status,  \* what has become of each watcher
    asked    \* the watchers whose user asked to cancel them

vars == <<socket, status, asked>>

Status == {"new", "subscribing", "subscribed", "closed", "failed"}

Active == {w \in Watcher : status[w] \in {"subscribing", "subscribed"}}

TypeOK ==
    /\ socket \in {"Idle", "Connecting", "Connected"}
    /\ status \in [Watcher -> Status]
    /\ asked \subseteq Watcher

Init ==
    /\ socket = "Idle"
    /\ status = [w \in Watcher |-> "new"]
    /\ asked = {}

\* status once w has joined.
Joined(w) == [status EXCEPT ![w] = "subscribing"]

\* The watchers of st that S names close.
Closed(S, st) == [w \in Watcher |-> IF w \in S THEN "closed" ELSE st[w]]

\* A new watcher joins.  If there was no connection it opens one, and the
\* watchers whose cancellation a lost connection left undecided are closed.
Create(w) ==
    /\ status[w] = "new"
    /\ \/ /\ socket # "Idle"
          /\ status' = Joined(w)
          /\ UNCHANGED <<socket, asked>>
       \/ /\ socket = "Idle"
          /\ \E S \in SUBSET (asked \cap Active) : status' = Closed(S, Joined(w))
          /\ socket' = "Connecting"
          /\ UNCHANGED asked

\* The connection is opened again for the watchers that lost it.
Reconnect ==
    /\ socket = "Idle"
    /\ Active # {}
    /\ socket' = "Connecting"
    /\ \E S \in SUBSET (asked \cap Active) : status' = Closed(S, status)
    /\ UNCHANGED asked

Open ==
    /\ socket = "Connecting"
    /\ socket' = "Connected"
    /\ UNCHANGED <<status, asked>>

\* The connection is lost, or could not be opened: for every watcher at once.
Lose ==
    /\ socket # "Idle"
    /\ socket' = "Idle"
    /\ status' = [w \in Watcher |-> IF status[w] = "subscribed"
                                    THEN "subscribing" ELSE status[w]]
    /\ UNCHANGED asked

Subscribe(w) ==
    /\ socket = "Connected"
    /\ status[w] = "subscribing"
    /\ status' = [status EXCEPT ![w] = "subscribed"]
    /\ UNCHANGED <<socket, asked>>

\* The user asks to cancel a watcher, which closes at once when there is no
\* connection to cancel it on.
Cancel(w) ==
    /\ w \in Active
    /\ asked' = asked \cup {w}
    /\ status' = IF socket = "Connected" THEN status ELSE Closed({w}, status)
    /\ UNCHANGED socket

Close(w) ==
    /\ w \in asked \cap Active
    /\ status' = Closed({w}, status)
    /\ UNCHANGED <<socket, asked>>

Fail(w) ==
    /\ socket = "Connected"
    /\ w \in Active
    /\ status' = [status EXCEPT ![w] = "failed"]
    /\ UNCHANGED <<socket, asked>>

Next ==
    \/ Reconnect \/ Open \/ Lose
    \/ \E w \in Watcher :
         Create(w) \/ Subscribe(w) \/ Cancel(w) \/ Close(w) \/ Fail(w)

Spec == Init /\ [][Next]_vars

\* The assertion of src/src/watch.tla: `socket = Connected \/ watcher #
\* Subscribed`, for every watcher.
SubscribedOnlyWhenConnected ==
    socket # "Connected" => \A w \in Watcher : status[w] # "subscribed"

\* A watcher that ended or failed stays as it is: 'end' and 'error' are the
\* last event of a watcher and exclude each other.
FinalIsFinal ==
    [][\A w \in Watcher : status[w] \in {"closed", "failed"} => status'[w] = status[w]]_vars

===============================================================================
