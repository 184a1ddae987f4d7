------------------------------- MODULE Ranges -------------------------------
(***************************************************************************)
(* Key ranges: Range of src/src/range.ts, the prefix functions of          *)
(* src/src/util.ts, and what etcd selects with a key and a range_end.      *)
(* A buffer is a sequence of bytes.                                        *)
(***************************************************************************)
EXTENDS Integers, Sequences

CONSTANT MaxByte   \* the greatest byte, 0xff in the code

ASSUME ByteAssumption == MaxByte \in Nat \ {0}

Byte == 0..MaxByte
Buffer == Seq(Byte)

zeroKey == <<0>>
emptyKey == <<>>

\* Buffer.compare(a, b) < 0.
Before(a, b) ==
    \/ Len(a) < Len(b) /\ \A i \in 1..Len(a) : a[i] = b[i]
    \/ \E i \in 1..Len(a) :
         i <= Len(b) /\ a[i] < b[i] /\ \A j \in 1..(i - 1) : a[j] = b[j]

HasPrefix(p, k) == Len(p) <= Len(k) /\ \A i \in 1..Len(p) : k[i] = p[i]

(***************************************************************************)
(* etcd                                                                    *)
(***************************************************************************)
\* The keys that etcd selects: the key itself, all from the key on, or those
\* from the key to the end.
Selects(key, end, k) ==
    IF end = emptyKey THEN k = key
    ELSE ~Before(k, key) /\ (end = zeroKey \/ Before(k, end))

(***************************************************************************)
(* range.ts                                                                *)
(***************************************************************************)
\* The positions of p that have a next byte.
Growing(p) == {i \in 1..Len(p) : p[i] < MaxByte}

\* Seeded bug: the last byte is the one that grows, also if it is the greatest.
endByLastByte(p) ==
    IF p[Len(p)] = MaxByte THEN zeroKey ELSE [p EXCEPT ![Len(p)] = @ + 1]

\* The first key behind all those with the prefix, or all keys from there on.
endRangeForPrefix(p) ==
    IF Growing(p) = {} THEN zeroKey
    ELSE LET i == CHOOSE i \in Growing(p) : \A j \in Growing(p) : j <= i
         IN  [j \in 1..i |-> IF j = i THEN p[j] + 1 ELSE p[j]]

prefix(p) ==
    IF p = emptyKey THEN [start |-> zeroKey, end |-> zeroKey]
    ELSE [start |-> p, end |-> endRangeForPrefix(p)]

\* The range that Range.from makes of a string or a buffer: the single key.
from(k) == [start |-> k, end |-> emptyKey]

\* An empty buffer is behind all others here.
compare(a, b) ==
    IF a = b THEN 0
    ELSE IF a # emptyKey /\ (b = emptyKey \/ Before(a, b)) THEN -1 ELSE 1

includes(r, k) == compare(r.start, k) <= 0 /\ compare(r.end, k) > 0

rangeCompare(r, other) ==
    IF compare(r.start, other.start) < 0 /\ compare(r.end, other.start) <= 0 THEN -1
    ELSE IF compare(r.start, other.end) >= 0 THEN 1
    ELSE 0

(***************************************************************************)
(* NSApplicator of util.ts, for the namespace p.                           *)
(***************************************************************************)
applyKey(p, k) == p \o k

\* Seeded bug: a namespace whose end is open runs to the end of all keys.
applyOpenEnd(p, end) == IF p = emptyKey \/ end = zeroKey THEN end ELSE p \o end

applyRangeEnd(p, end) ==
    IF p = emptyKey THEN end
    ELSE IF end = zeroKey THEN endRangeForPrefix(p)
    ELSE p \o end

unprefix(p, k) == SubSeq(k, Len(p) + 1, Len(k))
=============================================================================
