----------------------------- MODULE MCRequests -----------------------------
(* Requests with bytes of one bit: a namespace whose prefix ends with the  *)
(* greatest byte, a key behind it, and ranges with an open and a closed    *)
(* end; a range of a single key, and a namespace of the zero byte for it;  *)
(* and a client without a namespace.                                       *)
EXTENDS Requests, TLC

MCPrefix == <<0, 1>>
MCNoPrefix == <<>>
MCZeroPrefix == <<0>>
MCUserKey == {<<0>>, <<1>>}
MCUserRange == {prefix(<<>>), prefix(<<0>>)}
MCKeyRange == {from(<<0>>)}
MCPresent == {<<1>>, <<0, 1, 0>>}

\* Values are interchangeable.
Interchangeable == Permutations(Value)
=============================================================================
