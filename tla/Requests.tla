------------------------------ MODULE Requests ------------------------------
(***************************************************************************)
(* The request builders of src/src/builder.ts in a namespace: a builder    *)
(* whose request its methods change in place, a ComparatorBuilder that     *)
(* takes the builder's request as the operation of a transaction, and the  *)
(* calls that both start, until etcd has served them and their callbacks   *)
(* have run.  Other clients write keys inside and outside the namespace.   *)
(*                                                                         *)
(* A put waits for its lease before it looks at its request.  A call that  *)
(* was handed to the connection pool is sent later, when the pool has its  *)
(* metadata, and perhaps again: what it sends is the request as it is then *)
(* if the request was not copied.                                          *)
(***************************************************************************)
EXTENDS KeyValues

CONSTANTS
    Prefix,     \* the prefix of the namespace
    UserKey,    \* the keys that the program uses in it
    UserRange,  \* the ranges, of Range.from
    Present,    \* the keys that may be present at first and that others write
    Call,
    MaxBuilds,  \* bound: calls of the builders' setters
    MaxRetries, \* bound: how often one call is sent again
    MaxOthers   \* bound: writes of other clients

ASSUME RequestsAssumption ==
    /\ Prefix \in Buffer
    /\ UserKey \subseteq Buffer
    /\ UserRange \subseteq [start : Buffer, end : Buffer]
    /\ Present \subseteq Buffer /\ IsFiniteSet(Present)
    /\ MaxBuilds \in Nat
    /\ MaxRetries \in Nat
    /\ MaxOthers \in Nat

\* No range of the program is that of a single key (from), whose end is empty:
\* applyRangeEnd makes the prefix of it.  Some properties hold only then.
RangesHaveEnds == \A r \in UserRange : r.end # emptyKey

VARIABLES
    store,      \* etcd: the present keys, with their values
    request,    \* the builder's request
    comparator, \* the ComparatorBuilder's request: compare, success, failure
    calls,      \* what became of each call
    builds,     \* calls of setters so far
    others      \* writes of other clients so far

vars == <<store, request, comparator, calls, builds, others>>

(***************************************************************************)
(* NSApplicator                                                            *)
(***************************************************************************)
\* Seeded bug: the end of the range keeps to the keys of the caller.
applyToKeyOnly(r) ==
    IF Prefix = emptyKey \/ r.key = Undefined THEN r
    ELSE [r EXCEPT !.key = Some(applyKey(Prefix, @[1]))]

\* A copy of the request with the prefix, or the request itself.
applyToRequest(r) ==
    IF Prefix = emptyKey THEN r
    ELSE [r EXCEPT !.key = IF @ = Undefined THEN @ ELSE Some(applyKey(Prefix, @[1])),
                   !.range_end = IF @ = Undefined THEN @ ELSE Some(applyRangeEnd(Prefix, @[1]))]

\* An operation of a transaction, or the one request of a call: what was built
\* when the namespace was applied, and what the namespace made of it.
Operation(r) == [built |-> r, applied |-> applyToRequest(r)]

\* Without a prefix applyToRequest returned the builder's own request.
Current(op) == IF Prefix = emptyKey THEN request ELSE op.applied

NoCall ==
    [status |-> "none", compare |-> {}, success |-> Undefined, failure |-> Undefined,
     sent |-> [compare |-> {}, success |-> Undefined, failure |-> Undefined],
     reply |-> [refused |-> FALSE, responses |-> <<>>], retries |-> 0]

NewRequest(kind) ==
    LET blank == [kind |-> kind, key |-> Undefined, range_end |-> Undefined, value |-> noValue,
                  ignore_value |-> FALSE, keys_only |-> FALSE, count_only |-> FALSE,
                  prev_kv |-> FALSE]
    IN  IF kind \in {"get", "put"} THEN {[blank EXCEPT !.key = Some(k)] : k \in UserKey}
        ELSE IF kind = "getAll" THEN {[blank EXCEPT !.key = Some(prefix(emptyKey).start),
                                                    !.range_end = Some(prefix(emptyKey).end)]}
        ELSE {blank}

Init ==
    /\ \E keys \in SUBSET Present : store \in [keys -> Value]
    /\ \E kind \in Kind : request \in NewRequest(kind)
    /\ \E k \in UserKey : comparator = [compare |-> {applyKey(Prefix, k)},
                                        success |-> Undefined, failure |-> Undefined]
    /\ calls = [c \in Call |-> NoCall]
    /\ builds = 0
    /\ others = 0

(***************************************************************************)
(* The builders' setters: they change the request in place.                *)
(***************************************************************************)
\* DeleteBuilder.key
SetKey(k) ==
    /\ request.kind = "delete"
    /\ request' = [request EXCEPT !.key = Some(k), !.range_end = Undefined]
    /\ UNCHANGED <<store, comparator, calls, others>>

\* inRange, prefix, all and range of MultiRangeBuilder and DeleteBuilder.
InRange(r) ==
    /\ request.kind \in {"getAll", "delete"}
    /\ request' = [request EXCEPT !.key = Some(r.start), !.range_end = Some(r.end)]
    /\ UNCHANGED <<store, comparator, calls, others>>

\* PutBuilder.value
SetValue(v) ==
    /\ request.kind = "put"
    /\ request' = [request EXCEPT !.value = v]
    /\ UNCHANGED <<store, comparator, calls, others>>

(***************************************************************************)
(* The methods that run the request.                                       *)
(***************************************************************************)
\* What the methods make of the request before exec().  What they set stays.
\* Of SingleRangeBuilder: exists, and the others.
PreparedGet == {request, [request EXCEPT !.keys_only = TRUE]}

\* Of MultiRangeBuilder: count; keys and keyBuffers; and the others.
PreparedGetAll == {request, [request EXCEPT !.keys_only = TRUE],
                   [request EXCEPT !.count_only = TRUE]}

\* Of DeleteBuilder: getPrevious and exec.
PreparedDelete == {request, [request EXCEPT !.prev_kv = TRUE]}

\* Of PutBuilder: getPrevious, touch and exec.
PreparedPut == {request, [request EXCEPT !.prev_kv = TRUE],
                [request EXCEPT !.value = noValue, !.ignore_value = TRUE]}

Prepared ==
    CASE request.kind = "get" -> PreparedGet
      [] request.kind = "getAll" -> PreparedGetAll
      [] request.kind = "delete" -> PreparedDelete
      [] request.kind = "put" -> PreparedPut

\* The namespace is applied and the call handed to the pool, at once.
ExecNow(c) ==
    /\ request.kind # "put"
    /\ calls[c] = NoCall
    /\ \E r \in Prepared :
         /\ request' = r
         /\ calls' = [calls EXCEPT ![c].status = "waiting", ![c].success = Some(Operation(r))]
    /\ UNCHANGED <<store, comparator, builds, others>>

\* PutBuilder.exec starts to await the lease...
ExecPut(c) ==
    /\ request.kind = "put"
    /\ calls[c] = NoCall
    /\ request' \in Prepared
    /\ calls' = [calls EXCEPT ![c].status = "leasing"]
    /\ UNCHANGED <<store, comparator, builds, others>>

\* ... and goes on with what the request is by then.
LeaseReady(c) ==
    /\ calls[c].status = "leasing"
    /\ calls' = [calls EXCEPT ![c].status = "waiting", ![c].success = Some(Operation(request))]
    /\ UNCHANGED <<store, request, comparator, builds, others>>

\* ComparatorBuilder.and
And(k) ==
    /\ comparator' = [comparator EXCEPT !.compare = @ \cup {applyKey(Prefix, k)}]
    /\ UNCHANGED <<store, request, calls, others>>

\* ComparatorBuilder.then and else with the builder, from where its op() has
\* resolved (a put awaits its lease first): it replaces what was there.
Then ==
    /\ comparator' = [comparator EXCEPT !.success = Some(Operation(request))]
    /\ UNCHANGED <<store, request, calls, others>>

Else ==
    /\ comparator' = [comparator EXCEPT !.failure = Some(Operation(request))]
    /\ UNCHANGED <<store, request, calls, others>>

\* ComparatorBuilder.commit awaits the comparisons...
Commit(c) ==
    /\ calls[c] = NoCall
    /\ calls' = [calls EXCEPT ![c].status = "comparing", ![c].compare = comparator.compare]
    /\ UNCHANGED <<store, request, comparator, builds, others>>

\* ... then what failure is by then...
TakeFailure(c) ==
    /\ calls[c].status = "comparing"
    /\ calls' = [calls EXCEPT ![c].status = "failure", ![c].failure = comparator.failure]
    /\ UNCHANGED <<store, request, comparator, builds, others>>

\* ... and last success, and hands the transaction to the pool.
TakeSuccess(c) ==
    /\ calls[c].status = "failure"
    /\ calls' = [calls EXCEPT ![c].status = "waiting", ![c].success = comparator.success]
    /\ UNCHANGED <<store, request, comparator, builds, others>>

(***************************************************************************)
(* The connection pool and etcd                                            *)
(***************************************************************************)
Payload(branch) == IF branch = Undefined THEN Undefined ELSE Some(Current(branch[1]))

Send(c) ==
    /\ calls[c].status = "waiting"
    /\ calls' = [calls EXCEPT ![c].status = "sent",
                              ![c].sent = [compare |-> calls[c].compare,
                                           success |-> Payload(calls[c].success),
                                           failure |-> Payload(calls[c].failure)]]
    /\ UNCHANGED <<store, request, comparator, builds, others>>

Serve(c) ==
    /\ calls[c].status = "sent"
    /\ store' = AfterTxn(store, calls[c].sent)
    /\ calls' = [calls EXCEPT ![c].status = "served", ![c].reply = ReplyTxn(store, calls[c].sent)]
    /\ UNCHANGED <<request, comparator, builds, others>>

\* The call fails before etcd serves it, or before its answer is back: it is
\* sent again, or fails.
Lose(c) ==
    /\ calls[c].status \in {"sent", "served"}
    /\ IF calls[c].retries < MaxRetries
       THEN calls' = [calls EXCEPT ![c].status = "waiting", ![c].retries = @ + 1,
                                   ![c].sent = NoCall.sent, ![c].reply = NoCall.reply]
       ELSE calls' = [calls EXCEPT ![c].status = "failed", ![c].reply = NoCall.reply]
    /\ UNCHANGED <<store, request, comparator, builds, others>>

\* MultiRangeBuilder.exec removes the prefix from the keys; it throws if one has
\* none.  The others hand on what etcd answered.
OwnKeys(keys) == {unprefix(Prefix, p) : p \in {p \in keys : HasPrefix(Prefix, p)}}

Within(keyed) == [k \in OwnKeys(DOMAIN keyed) |-> keyed[applyKey(Prefix, k)]]

Unprefixed(response) == [response EXCEPT !.kvs = Within(@)]

IsGetAll(c) == calls[c].compare = {} /\ calls[c].success[1].built.kind = "getAll"

Return(c) ==
    /\ calls[c].status = "served"
    /\ LET responses == calls[c].reply.responses IN
         IF ~IsGetAll(c) \/ responses = <<>>
         THEN calls' = [calls EXCEPT ![c].status = "answered"]
         ELSE IF \A p \in DOMAIN responses[1].kvs : HasPrefix(Prefix, p)
         THEN calls' = [calls EXCEPT ![c].status = "answered",
                                     ![c].reply.responses = <<Unprefixed(responses[1])>>]
         ELSE calls' = [calls EXCEPT ![c].status = "thrown"]
    /\ UNCHANGED <<store, request, comparator, builds, others>>

\* Another client puts or deletes a key.
Others ==
    /\ others < MaxOthers
    /\ others' = others + 1
    /\ \E k \in Present : \/ \E v \in Value : store' = [x \in DOMAIN store \cup {k} |->
                                                           IF x = k THEN v ELSE store[x]]
                          \/ store' = [x \in DOMAIN store \ {k} |-> store[x]]
    /\ UNCHANGED <<request, comparator, calls, builds>>

Build ==
    /\ builds < MaxBuilds
    /\ builds' = builds + 1
    /\ \/ \E k \in UserKey : SetKey(k) \/ And(k)
       \/ \E r \in UserRange : InRange(r)
       \/ \E v \in Value : SetValue(v)
       \/ Then
       \/ Else

Step(c) ==
    \/ ExecNow(c) \/ ExecPut(c) \/ LeaseReady(c)
    \/ Commit(c) \/ TakeFailure(c) \/ TakeSuccess(c)
    \/ Send(c) \/ Serve(c) \/ Lose(c) \/ Return(c)

Next == Build \/ Others \/ \E c \in Call : Step(c)

Spec == Init /\ [][Next]_vars

(***************************************************************************)
(* Properties                                                              *)
(***************************************************************************)
Stored == Value \cup {noValue}
Operations == [built : Request, applied : Request]
Gathering == {"none", "leasing", "comparing", "failure"}
Status == Gathering \cup {"waiting", "sent", "served", "answered", "failed", "thrown"}

TypeOK ==
    /\ DOMAIN store \subseteq Buffer /\ IsFiniteSet(DOMAIN store)
    /\ store \in [DOMAIN store -> Stored]
    /\ request \in Request
    /\ comparator \in [compare : SUBSET Buffer,
                       success : Optional(Operations), failure : Optional(Operations)]
    /\ DOMAIN calls = Call
    /\ \A c \in Call :
         /\ calls[c].status \in Status
         /\ calls[c].compare \in SUBSET Buffer
         /\ calls[c].success \in Optional(Operations) /\ calls[c].failure \in Optional(Operations)
         /\ calls[c].sent \in Transaction
         /\ calls[c].retries \in 0..MaxRetries
    /\ builds \in 0..MaxBuilds
    /\ others \in 0..MaxOthers

\* A call reads the request when applyToRequest takes it, and what is sent is
\* what it took: the methods that go on changing the builder's request do not
\* change a call on its way (src/src/util.ts:92, "It returns a new request, it
\* does not modify the original").
SentAsBuilt ==
    \A c \in Call : calls[c].status \in {"sent", "served", "answered"} =>
        /\ calls[c].success # Undefined =>
              calls[c].sent.success = Some(applyToRequest(calls[c].success[1].built))
        /\ calls[c].failure # Undefined =>
              calls[c].sent.failure = Some(applyToRequest(calls[c].failure[1].built))

Outside == [k \in {k \in DOMAIN store : ~HasPrefix(Prefix, k)} |-> store[k]]

\* No request that is built in the namespace, in a transaction or not, changes a
\* key outside of it: only other clients do.
StaysInside == [][Outside' = Outside \/ others' = others + 1]_vars

(***************************************************************************)
(* The namespace implements a private store: the keys with the prefix,     *)
(* without it, and each call as the builders of its requests had it.       *)
(***************************************************************************)
Own == Within(store)

Built(branch) == IF branch = Undefined THEN Undefined ELSE Some(branch[1].built)

\* Only getAll removed the prefix from the keys of its answer.
OwnResponses(c) ==
    LET responses == calls[c].reply.responses
    IN  IF responses = <<>> \/ (calls[c].status = "answered" /\ IsGetAll(c)) THEN responses
        ELSE <<Unprefixed(responses[1])>>

OwnAsk(c) ==
    LET call == calls[c] IN
    [status |-> CASE call.status \in Gathering -> "unasked"
                  [] call.status \in {"waiting", "sent"} -> "asked"
                  [] OTHER -> call.status,
     what |-> IF call.status \in Gathering
              THEN [compare |-> {}, success |-> Undefined, failure |-> Undefined]
              ELSE [compare |-> {unprefix(Prefix, k) : k \in call.compare},
                    success |-> Built(call.success), failure |-> Built(call.failure)],
     reply |-> [refused |-> call.reply.refused, responses |-> OwnResponses(c)]]

Private == INSTANCE PrivateStore WITH own <- Own, asks <- [c \in Call |-> OwnAsk(c)]

\* The calls of a namespace behave as those of a client with a store of its own:
\* each reads and changes exactly the keys that its request selects there, as
\* the request was when the namespace was applied to it, and getAll never meets
\* a key without the prefix.
ImplementsPrivateStore == Private!Spec
=============================================================================
