--------------------------- MODULE PrivateStore ---------------------------
(***************************************************************************)
(* What a namespace promises (src/src/namespace.ts): its requests behave   *)
(* as those of a client that has a store of its own, whose keys carry no   *)
(* prefix.  A request is served as it was when it was asked, perhaps more  *)
(* than once (the connection pool retries what it lost the answer of), and *)
(* answered with what the last service gave.                               *)
(***************************************************************************)
EXTENDS KeyValues

CONSTANT Call

VARIABLES
    own,        \* the store, from keys to values
    asks        \* call -> what it asked and what became of it

NoTransaction == [compare |-> {}, success |-> Undefined, failure |-> Undefined]
NoReply == [refused |-> FALSE, responses |-> <<>>]
Unasked == [status |-> "unasked", what |-> NoTransaction, reply |-> NoReply]

Init ==
    /\ own \in [DOMAIN own -> Value \cup {noValue}]
    /\ asks = [c \in Call |-> Unasked]

Became(c, status, what, reply) ==
    asks' = [asks EXCEPT ![c] = [status |-> status, what |-> what, reply |-> reply]]

Ask(c) ==
    /\ asks[c] = Unasked
    /\ Became(c, "asked", asks'[c].what, NoReply)
    /\ asks'[c].what \in Transaction
    /\ UNCHANGED own

\* The store takes the request and answers.
Serve(c) ==
    /\ asks[c].status = "asked"
    /\ own' = AfterTxn(own, asks[c].what)
    /\ Became(c, "served", asks[c].what, ReplyTxn(own, asks[c].what))

\* The answer is lost, and the request asked again.
Repeat(c) ==
    /\ asks[c].status = "served"
    /\ Became(c, "asked", asks[c].what, NoReply)
    /\ UNCHANGED own

Answer(c) ==
    /\ asks[c].status = "served"
    /\ Became(c, "answered", asks[c].what, asks[c].reply)
    /\ UNCHANGED own

Fail(c) ==
    /\ asks[c].status \in {"asked", "served"}
    /\ Became(c, "failed", asks[c].what, NoReply)
    /\ UNCHANGED own

\* Other clients write the same keys.
Others == UNCHANGED asks

Next ==
    \/ \E c \in Call : Ask(c) \/ Serve(c) \/ Repeat(c) \/ Answer(c) \/ Fail(c)
    \/ Others

Spec == Init /\ [][Next]_<<own, asks>>
=============================================================================
