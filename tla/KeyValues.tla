----------------------------- MODULE KeyValues -----------------------------
(***************************************************************************)
(* What etcd does with the requests of the key value service: the range,   *)
(* the deletion, the put and the transaction of them, on a store that maps *)
(* the present keys to their values.  An optional field of a request is a  *)
(* sequence: <<>> if it is left undefined.                                 *)
(***************************************************************************)
EXTENDS Ranges, FiniteSets

CONSTANTS
    Value,      \* the values that clients put
    noValue     \* the empty value: of a put without one, of a keys_only range

ASSUME ValueAssumption == noValue \notin Value

Undefined == <<>>
Some(x) == <<x>>
Optional(S) == {Undefined} \cup [1..1 -> S]

Kind == {"get", "getAll", "delete", "put"}

Request ==
    [kind : Kind, key : Optional(Buffer), range_end : Optional(Buffer),
     value : Value \cup {noValue}, ignore_value : BOOLEAN,
     keys_only : BOOLEAN, count_only : BOOLEAN, prev_kv : BOOLEAN]

\* A transaction: if none of the keys exists the operation of success, else
\* that of failure, each a sequence of at most one request.
Transaction == [compare : SUBSET Buffer, success : Optional(Request), failure : Optional(Request)]

\* The request alone, outside of any transaction.
Alone(r) == [compare |-> {}, success |-> Some(r), failure |-> Undefined]

Matched(store, r) ==
    {k \in DOMAIN store :
       Selects(r.key[1], IF r.range_end = Undefined THEN emptyKey ELSE r.range_end[1], k)}

\* A request without a key, or a put that is to keep the value that it brings.
Malformed(r) == r.key = Undefined \/ (r.ignore_value /\ r.value # noValue)

Put(store, r) ==
    [k \in DOMAIN store \cup {r.key[1]} |->
       IF k = r.key[1] /\ ~r.ignore_value THEN r.value ELSE store[k]]

After(store, r) ==
    CASE r.kind = "put" -> Put(store, r)
      [] r.kind = "delete" -> [k \in DOMAIN store \ Matched(store, r) |-> store[k]]
      [] OTHER -> store

\* The keys that the answer shows: of a range, or the previous ones.
Shown(store, r) ==
    IF (r.kind \in {"get", "getAll"} /\ ~r.count_only) \/ r.prev_kv THEN Matched(store, r) ELSE {}

Reply(store, r) ==
    [kvs |-> [k \in Shown(store, r) |-> IF r.keys_only THEN noValue ELSE store[k]],
     count |-> IF r.kind = "put" THEN 0 ELSE Cardinality(Matched(store, r))]

Chosen(store, t) == IF t.compare \cap DOMAIN store = {} THEN t.success ELSE t.failure

\* etcd refuses a malformed request, and a put that keeps the value of a key
\* that does not exist.
RefusedTxn(store, t) ==
    \/ \E branch \in {t.success, t.failure} : branch # Undefined /\ Malformed(branch[1])
    \/ /\ Chosen(store, t) # Undefined
       /\ Chosen(store, t)[1].ignore_value
       /\ Chosen(store, t)[1].key[1] \notin DOMAIN store

AfterTxn(store, t) ==
    LET branch == Chosen(store, t)
    IN  IF RefusedTxn(store, t) \/ branch = Undefined THEN store ELSE After(store, branch[1])

\* The answer to a transaction: the answer to its operation, if it has one.
ReplyTxn(store, t) ==
    LET branch == Chosen(store, t)
    IN  [refused |-> RefusedTxn(store, t),
         responses |-> IF RefusedTxn(store, t) \/ branch = Undefined THEN <<>>
                       ELSE <<Reply(store, branch[1])>>]
=============================================================================
