--------------------------- MODULE RequestsProofs ---------------------------
(***************************************************************************)
(* What the ranges of range.ts and util.ts select; that every namespace    *)
(* keeps to its keys (StaysInside); and that one with a prefix is a        *)
(* private store (ImplementsPrivateStore): for keys of every length, bytes *)
(* of every size, and all requests and numbers of calls.                   *)
(***************************************************************************)
EXTENDS Requests, WellFoundedInduction, FiniteSetTheorems, TLAPS

(***************************************************************************)
(* Least and greatest positions                                            *)
(***************************************************************************)
LEMMA LeastOf ==
  ASSUME NEW S, S \subseteq Nat, S # {}
  PROVE  \E i \in S : \A j \in S : i <= j
<1>1. PICK x \in S : \A y \in S : ~ (<<y, x>> \in OpToRel(<, Nat))
  BY WFMin, NatLessThanWellFounded, Zenon
<1>2. \A y \in S : ~ (y < x)
  <2> SUFFICES ASSUME NEW y \in S, y < x PROVE FALSE
    OBVIOUS
  <2>1. x \in Nat /\ y \in Nat
    OBVIOUS
  <2>2. <<y, x>> \in OpToRel(<, Nat)
    BY <2>1, Zenon DEF OpToRel
  <2> QED BY <1>1, <2>2, Zenon
<1> QED BY <1>2

LEMMA GreatestOf ==
  ASSUME NEW n \in Nat, NEW S, S \subseteq 1..n, S # {}
  PROVE  \E i \in S : \A j \in S : j <= i
<1> DEFINE T == {n - i : i \in S}
<1>1. T \subseteq Nat /\ T # {}
  <2>1. PICK i \in S : TRUE
    OBVIOUS
  <2>2. n - i \in T
    OBVIOUS
  <2>3. T \subseteq Nat
    OBVIOUS
  <2> QED BY <2>2, <2>3
<1> HIDE DEF T
<1>2. PICK t \in T : \A u \in T : t <= u
  BY <1>1, LeastOf
<1>3. PICK i \in S : t = n - i
  BY DEF T
<1>4. \A j \in S : n - i <= n - j
  BY <1>2, <1>3 DEF T
<1> QED BY <1>4

(***************************************************************************)
(* Prefixes                                                                *)
(***************************************************************************)
LEMMA BufferFacts ==
  ASSUME NEW a \in Buffer
  PROVE  /\ Len(a) \in Nat
         /\ \A i \in 1..Len(a) : a[i] \in Int /\ 0 <= a[i] /\ a[i] <= MaxByte
BY ByteAssumption DEF Buffer, Byte

\* A key without the prefix ends too soon or differs from it somewhere first.
LEMMA WithoutPrefix ==
  ASSUME NEW p \in Buffer, NEW k \in Buffer, ~HasPrefix(p, k)
  PROVE  \/ Len(k) < Len(p) /\ \A j \in 1..Len(k) : k[j] = p[j]
         \/ \E i \in 1..Len(p) : /\ i <= Len(k)
                                 /\ k[i] # p[i]
                                 /\ \A j \in 1..(i - 1) : k[j] = p[j]
<1> DEFINE D == {i \in 1..Len(p) : i <= Len(k) /\ k[i] # p[i]}
<1>1. Len(p) \in Nat /\ Len(k) \in Nat
  BY BufferFacts
<1>2. CASE D = {}
  <2>1. Len(k) < Len(p)
    BY <1>1, <1>2 DEF HasPrefix
  <2> QED BY <1>1, <1>2, <2>1
<1>3. CASE D # {}
  <2>1. D \subseteq Nat
    BY <1>1
  <2> HIDE DEF D
  <2>2. PICK i \in D : \A j \in D : i <= j
    BY <1>3, <2>1, LeastOf
  <2> USE DEF D
  <2>3. \A j \in 1..(i - 1) : k[j] = p[j]
    BY <1>1, <2>2
  <2> QED BY <1>1, <2>3
<1> QED BY <1>2, <1>3

\* A key is not before one that it agrees with, up to a greater byte of its own.
LEMMA NotBefore ==
  ASSUME NEW a \in Buffer, NEW b \in Buffer,
         NEW i \in 1..Len(a), i <= Len(b),
         \A j \in 1..(i - 1) : a[j] = b[j],
         a[i] > b[i]
  PROVE  ~Before(a, b)
<1>1. /\ Len(a) \in Nat /\ Len(b) \in Nat
      /\ \A h \in 1..Len(a) : a[h] \in Int
      /\ \A h \in 1..Len(b) : b[h] \in Int
  BY BufferFacts
<1>2. ~(Len(a) < Len(b) /\ \A j \in 1..Len(a) : a[j] = b[j])
  BY <1>1
<1>3. ASSUME NEW j \in 1..Len(a), j <= Len(b), a[j] < b[j], \A h \in 1..(j - 1) : a[h] = b[h]
      PROVE  FALSE
  <2>1. j \in Int /\ i \in Int /\ a[j] \in Int /\ b[j] \in Int
    BY <1>1, <1>3
  <2>2. CASE j < i
    BY <1>3, <2>1, <2>2
  <2>3. CASE j = i
    BY <1>1, <1>3, <2>3
  <2>4. CASE i < j
    BY <1>1, <1>3, <2>1, <2>4
  <2> QED BY <2>1, <2>2, <2>3, <2>4
<1> QED BY <1>2, <1>3 DEF Before

\* No key is before one of its prefixes.
LEMMA NotBeforePrefix ==
  ASSUME NEW p \in Buffer, NEW k \in Buffer, HasPrefix(p, k)
  PROVE  ~Before(k, p)
<1>1. Len(p) \in Nat /\ Len(k) \in Nat
  BY BufferFacts
<1>2. \A i \in 1..Len(p) : k[i] = p[i] /\ p[i] \in Int
  BY BufferFacts DEF HasPrefix
<1> QED BY <1>1, <1>2 DEF Before, HasPrefix

\* applyKey makes a key with the prefix, and unprefix takes it back.
THEOREM PrefixRoundTrip ==
  ASSUME NEW p \in Buffer, NEW k \in Buffer
  PROVE  /\ applyKey(p, k) \in Buffer
         /\ HasPrefix(p, applyKey(p, k))
         /\ unprefix(p, applyKey(p, k)) = k
         /\ HasPrefix(p, k) => unprefix(p, k) \in Buffer /\ applyKey(p, unprefix(p, k)) = k
<1>1. Len(p) \in Nat /\ Len(k) \in Nat
  BY BufferFacts
<1>2. applyKey(p, k) \in Buffer /\ HasPrefix(p, applyKey(p, k))
  BY <1>1 DEF applyKey, Buffer, HasPrefix
<1>3. unprefix(p, applyKey(p, k)) = k
  BY <1>1 DEF applyKey, Buffer, unprefix
<1>4. HasPrefix(p, k) => unprefix(p, k) \in Buffer /\ applyKey(p, unprefix(p, k)) = k
  BY <1>1 DEF applyKey, Buffer, unprefix, HasPrefix
<1> QED BY <1>2, <1>3, <1>4

\* The end of a prefix: the prefix up to its last byte that can grow, grown.
LEMMA EndOfPrefix ==
  ASSUME NEW p \in Buffer, Growing(p) # {}
  PROVE  \E m \in 1..Len(p) :
           /\ p[m] < MaxByte
           /\ \A i \in 1..Len(p) : i > m => p[i] = MaxByte
           /\ endRangeForPrefix(p) \in Buffer
           /\ Len(endRangeForPrefix(p)) = m
           /\ endRangeForPrefix(p)[m] = p[m] + 1
           /\ \A j \in 1..(m - 1) : endRangeForPrefix(p)[j] = p[j]
<1>1. Len(p) \in Nat /\ Growing(p) \subseteq 1..Len(p)
  BY BufferFacts DEF Growing
<1>2. \E i \in Growing(p) : \A j \in Growing(p) : j <= i
  BY <1>1, GreatestOf
<1> DEFINE m == CHOOSE i \in Growing(p) : \A j \in Growing(p) : j <= i
<1>3. m \in Growing(p) /\ \A j \in Growing(p) : j <= m
  BY <1>2
<1>4. endRangeForPrefix(p) = [j \in 1..m |-> IF j = m THEN p[j] + 1 ELSE p[j]]
  BY DEF endRangeForPrefix
<1> HIDE DEF m
<1>5. m \in 1..Len(p) /\ p[m] < MaxByte
  BY <1>3 DEF Growing
<1>6. \A i \in 1..Len(p) : i > m => p[i] = MaxByte
  <2> SUFFICES ASSUME NEW i \in 1..Len(p), i > m PROVE p[i] = MaxByte
    OBVIOUS
  <2>1. i \notin Growing(p)
    BY <1>1, <1>3, <1>5
  <2> QED BY <2>1, BufferFacts, ByteAssumption DEF Growing
<1>7. \A j \in 1..m : (IF j = m THEN p[j] + 1 ELSE p[j]) \in Byte
  BY <1>1, <1>5, BufferFacts, ByteAssumption DEF Byte
<1>8. [j \in 1..m |-> IF j = m THEN p[j] + 1 ELSE p[j]] \in Buffer
  BY <1>1, <1>5, <1>7 DEF Buffer
<1>9. Len(endRangeForPrefix(p)) = m
  BY <1>1, <1>4, <1>5
<1>10. /\ endRangeForPrefix(p)[m] = p[m] + 1
       /\ \A j \in 1..(m - 1) : endRangeForPrefix(p)[j] = p[j]
  BY <1>1, <1>4, <1>5
<1> QED BY <1>4, <1>5, <1>6, <1>8, <1>9, <1>10

LEMMA RangeEndTyped ==
  ASSUME NEW p \in Buffer, NEW e \in Buffer
  PROVE  endRangeForPrefix(p) \in Buffer /\ applyRangeEnd(p, e) \in Buffer
<1>1. endRangeForPrefix(p) \in Buffer
  <2>1. zeroKey \in Buffer
    BY ByteAssumption DEF zeroKey, Buffer, Byte
  <2>2. CASE Growing(p) = {}
    BY <2>1, <2>2 DEF endRangeForPrefix
  <2>3. CASE Growing(p) # {}
    BY <2>3, EndOfPrefix
  <2> QED BY <2>2, <2>3
<1>2. p \o e \in Buffer
  BY DEF Buffer
<1> QED BY <1>1, <1>2 DEF applyRangeEnd

\* That end is neither of the two that mean something else to etcd.
LEMMA EndIsAKey ==
  ASSUME NEW p \in Buffer, Growing(p) # {}
  PROVE  endRangeForPrefix(p) # emptyKey /\ endRangeForPrefix(p) # zeroKey
<1>1. PICK m \in 1..Len(p) : /\ Len(endRangeForPrefix(p)) = m
                             /\ endRangeForPrefix(p)[m] = p[m] + 1
  BY EndOfPrefix
<1>2. p[m] \in Int /\ 0 <= p[m] /\ Len(p) \in Nat
  BY BufferFacts
<1> QED BY <1>1, <1>2 DEF emptyKey, zeroKey

\* A key that first differs from the prefix by a greater byte is not before the
\* end e of the prefix, which grew at m.
LEMMA BehindEnd ==
  ASSUME NEW p \in Buffer, NEW k \in Buffer, NEW e \in Buffer,
         NEW i \in 1..Len(p), i <= Len(k), k[i] > p[i],
         \A j \in 1..(i - 1) : k[j] = p[j],
         NEW m \in 1..Len(p), i <= m, Len(e) = m, e[m] = p[m] + 1,
         \A j \in 1..(m - 1) : e[j] = p[j]
  PROVE  ~Before(k, e)
<1>1. /\ Len(p) \in Nat /\ Len(k) \in Nat /\ i \in 1..Len(k) /\ i <= Len(e)
      /\ k[i] \in Int /\ p[i] \in Int
  <2>1. Len(p) \in Nat /\ Len(k) \in Nat
    BY BufferFacts
  <2>2. i \in 1..Len(k) /\ i <= Len(e)
    BY <2>1
  <2> QED BY <2>1, <2>2, BufferFacts
<1>2. \A j \in 1..(i - 1) : k[j] = e[j]
  BY <1>1
<1>3. CASE k[i] > e[i]
  BY <1>1, <1>2, <1>3, NotBefore
<1>4. CASE k[i] = e[i] /\ i = m
  <2>1. HasPrefix(e, k)
    BY <1>1, <1>2, <1>4 DEF HasPrefix
  <2> QED BY <2>1, NotBeforePrefix
<1>5. k[i] > e[i] \/ (k[i] = e[i] /\ i = m)
  <2>1. CASE i = m
    BY <1>1, <2>1
  <2>2. CASE i < m
    <3>1. e[i] = p[i]
      BY <1>1, <2>2
    <3> QED BY <3>1
  <2> QED BY <1>1, <2>1, <2>2
<1> QED BY <1>3, <1>4, <1>5

\* A key at or behind the prefix, and before its end if it has one, has it.
LEMMA BetweenHasPrefix ==
  ASSUME NEW p \in Buffer, NEW k \in Buffer,
         \/ ~Before(k, p)
         \/ \E s \in Buffer : ~Before(k, applyKey(p, s)),
         Growing(p) # {} => Before(k, endRangeForPrefix(p))
  PROVE  HasPrefix(p, k)
<1> SUFFICES ASSUME ~HasPrefix(p, k) PROVE FALSE
  OBVIOUS
<1>1. PICK q \in Buffer : HasPrefix(p, q) /\ ~Before(k, q)
  <2>1. HasPrefix(p, p)
    BY BufferFacts DEF HasPrefix
  <2> QED BY <2>1, PrefixRoundTrip
<1>2. /\ Len(p) \in Nat /\ Len(k) \in Nat /\ Len(q) \in Nat /\ Len(p) <= Len(q)
      /\ \A i \in 1..Len(p) : q[i] = p[i] /\ p[i] \in Int /\ p[i] <= MaxByte
      /\ \A i \in 1..Len(k) : k[i] \in Int /\ k[i] <= MaxByte
      /\ MaxByte \in Int
  BY <1>1, BufferFacts, ByteAssumption DEF HasPrefix
<1>3. CASE Len(k) < Len(p) /\ \A j \in 1..Len(k) : k[j] = p[j]
  BY <1>1, <1>2, <1>3 DEF Before
<1>4. ASSUME NEW i \in 1..Len(p), i <= Len(k), k[i] # p[i], \A j \in 1..(i - 1) : k[j] = p[j]
      PROVE  FALSE
  <2>1. i \in 1..Len(k) /\ i <= Len(q)
    BY <1>2, <1>4
  <2>2. CASE k[i] < p[i]
    <3>1. k[i] < q[i] /\ \A j \in 1..(i - 1) : k[j] = q[j]
      BY <1>2, <1>4, <2>1, <2>2
    <3> QED BY <1>1, <2>1, <3>1 DEF Before
  <2>3. CASE k[i] > p[i]
    <3>1. i \in Growing(p)
      BY <1>2, <2>1, <2>3 DEF Growing
    <3>2. \E e \in Buffer, m \in 1..Len(p) :
               /\ e = endRangeForPrefix(p)
               /\ \A h \in 1..Len(p) : h > m => p[h] = MaxByte
               /\ Len(e) = m
               /\ e[m] = p[m] + 1
               /\ \A j \in 1..(m - 1) : e[j] = p[j]
      BY <3>1, EndOfPrefix
    <3>3. PICK e \in Buffer, m \in 1..Len(p) :
               /\ e = endRangeForPrefix(p)
               /\ \A h \in 1..Len(p) : h > m => p[h] = MaxByte
               /\ Len(e) = m
               /\ e[m] = p[m] + 1
               /\ \A j \in 1..(m - 1) : e[j] = p[j]
      BY <3>2
    <3>4. i <= m
      BY <1>2, <2>1, <2>3, <3>3
    <3>5. ~Before(k, e)
      BY <1>4, <2>3, <3>3, <3>4, BehindEnd
    <3> QED BY <3>1, <3>3, <3>5
  <2> QED BY <1>2, <1>4, <2>1, <2>2, <2>3
<1> QED BY <1>3, <1>4, WithoutPrefix

\* A key with the prefix is before the end of it.
LEMMA PrefixBeforeEnd ==
  ASSUME NEW p \in Buffer, NEW k \in Buffer, HasPrefix(p, k), Growing(p) # {}
  PROVE  Before(k, endRangeForPrefix(p))
<1>1. PICK m \in 1..Len(p) :
           /\ Len(endRangeForPrefix(p)) = m
           /\ endRangeForPrefix(p)[m] = p[m] + 1
           /\ \A j \in 1..(m - 1) : endRangeForPrefix(p)[j] = p[j]
  BY EndOfPrefix
<1>2. Len(p) \in Nat /\ Len(k) \in Nat /\ \A i \in 1..Len(p) : k[i] = p[i] /\ p[i] \in Int
  BY BufferFacts DEF HasPrefix
<1>3. m \in 1..Len(k) /\ m <= Len(endRangeForPrefix(p))
  BY <1>1, <1>2 DEF HasPrefix
<1>4. k[m] < endRangeForPrefix(p)[m] /\ \A j \in 1..(m - 1) : k[j] = endRangeForPrefix(p)[j]
  BY <1>1, <1>2
<1> QED BY <1>3, <1>4 DEF Before

(***************************************************************************)
(* Ranges                                                                  *)
(***************************************************************************)
\* Range.prefix selects the keys with the prefix and no others: all present keys
\* if the prefix is empty.
THEOREM PrefixSelects ==
  ASSUME NEW p \in Buffer, NEW k \in Buffer \ {emptyKey}
  PROVE  Selects(prefix(p).start, prefix(p).end, k) <=> HasPrefix(p, k)
<1>1. Len(p) \in Nat /\ Len(k) \in Nat /\ Len(k) # 0
  BY BufferFacts DEF Buffer, emptyKey
<1>2. CASE p = emptyKey
  <2>1. HasPrefix(p, k)
    BY <1>1, <1>2 DEF HasPrefix, emptyKey
  <2>2. k[1] \in Int /\ 0 <= k[1]
    BY <1>1, BufferFacts
  <2>3. ~Before(k, zeroKey)
    BY <1>1, <2>2 DEF Before, zeroKey
  <2> QED BY <1>2, <2>1, <2>3 DEF prefix, Selects, emptyKey, zeroKey
<1>3. CASE p # emptyKey /\ Growing(p) = {}
  <2>1. prefix(p) = [start |-> p, end |-> zeroKey]
    BY <1>3 DEF prefix, endRangeForPrefix
  <2>2. Selects(p, zeroKey, k) <=> ~Before(k, p)
    BY DEF Selects, zeroKey, emptyKey
  <2> QED BY <1>3, <2>1, <2>2, BetweenHasPrefix, NotBeforePrefix
<1>4. CASE p # emptyKey /\ Growing(p) # {}
  <2>1. prefix(p) = [start |-> p, end |-> endRangeForPrefix(p)]
    BY <1>4 DEF prefix
  <2>2. endRangeForPrefix(p) # emptyKey /\ endRangeForPrefix(p) # zeroKey
    BY <1>4, EndIsAKey
  <2>3. Selects(p, endRangeForPrefix(p), k) <=> ~Before(k, p) /\ Before(k, endRangeForPrefix(p))
    BY <2>2 DEF Selects
  <2> QED BY <1>4, <2>1, <2>3, BetweenHasPrefix, NotBeforePrefix, PrefixBeforeEnd
<1> QED BY <1>2, <1>3, <1>4

\* A prefix does not change the order of two keys.
LEMMA BeforePrefixed ==
  ASSUME NEW p \in Buffer, NEW a \in Buffer, NEW b \in Buffer
  PROVE  Before(applyKey(p, a), applyKey(p, b)) <=> Before(a, b)
<1> DEFINE n == Len(p)
           pa == applyKey(p, a)
           pb == applyKey(p, b)
<1>1. /\ n \in Nat /\ Len(a) \in Nat /\ Len(b) \in Nat
      /\ Len(pa) = n + Len(a) /\ Len(pb) = n + Len(b)
      /\ \A i \in 1..n : pa[i] = p[i] /\ pb[i] = p[i] /\ p[i] \in Int
      /\ \A i \in 1..Len(a) : pa[n + i] = a[i]
      /\ \A i \in 1..Len(b) : pb[n + i] = b[i]
  BY BufferFacts DEF applyKey, Buffer
<1> HIDE DEF n, pa, pb
<1>2. ASSUME Before(a, b) PROVE Before(pa, pb)
  <2>1. CASE Len(a) < Len(b) /\ \A i \in 1..Len(a) : a[i] = b[i]
    <3>1. ASSUME NEW i \in 1..Len(pa) PROVE pa[i] = pb[i]
      <4>1. CASE i <= n
        BY <1>1, <3>1, <4>1
      <4>2. CASE i > n
        <5>1. i - n \in 1..Len(a) /\ i - n \in 1..Len(b) /\ n + (i - n) = i
          BY <1>1, <2>1, <3>1, <4>2
        <5> QED BY <1>1, <2>1, <5>1
      <4> QED BY <1>1, <3>1, <4>1, <4>2
    <3> QED BY <1>1, <2>1, <3>1 DEF Before
  <2>2. ASSUME NEW h \in 1..Len(a), h <= Len(b), a[h] < b[h], \A j \in 1..(h - 1) : a[j] = b[j]
        PROVE  Before(pa, pb)
    <3>1. n + h \in 1..Len(pa) /\ n + h <= Len(pb)
      BY <1>1, <2>2
    <3>2. pa[n + h] < pb[n + h]
      BY <1>1, <2>2
    <3>3. ASSUME NEW j \in 1..((n + h) - 1) PROVE pa[j] = pb[j]
      <4>1. CASE j <= n
        BY <1>1, <3>3, <4>1
      <4>2. CASE j > n
        <5>1. j - n \in 1..(h - 1) /\ j - n \in 1..Len(a) /\ j - n \in 1..Len(b) /\ n + (j - n) = j
          BY <1>1, <2>2, <3>3, <4>2
        <5> QED BY <1>1, <2>2, <5>1
      <4> QED BY <1>1, <3>3, <4>1, <4>2
    <3> QED BY <3>1, <3>2, <3>3 DEF Before
  <2> QED BY <1>2, <2>1, <2>2 DEF Before
<1>3. ASSUME Before(pa, pb) PROVE Before(a, b)
  <2>1. CASE Len(pa) < Len(pb) /\ \A i \in 1..Len(pa) : pa[i] = pb[i]
    <3>1. Len(a) < Len(b)
      BY <1>1, <2>1
    <3>2. ASSUME NEW i \in 1..Len(a) PROVE a[i] = b[i]
      <4>1. n + i \in 1..Len(pa) /\ i \in 1..Len(b)
        BY <1>1, <3>1, <3>2
      <4> QED BY <1>1, <2>1, <3>2, <4>1
    <3> QED BY <3>1, <3>2 DEF Before
  <2>2. ASSUME NEW h \in 1..Len(pa), h <= Len(pb), pa[h] < pb[h],
               \A j \in 1..(h - 1) : pa[j] = pb[j]
        PROVE  Before(a, b)
    <3>1. h > n
      BY <1>1, <2>2
    <3>2. h - n \in 1..Len(a) /\ h - n \in 1..Len(b) /\ n + (h - n) = h
      BY <1>1, <2>2, <3>1
    <3>3. a[h - n] < b[h - n]
      BY <1>1, <2>2, <3>2
    <3>4. ASSUME NEW j \in 1..(h - n - 1) PROVE a[j] = b[j]
      <4>1. n + j \in 1..(h - 1) /\ j \in 1..Len(a) /\ j \in 1..Len(b)
        BY <1>1, <2>2, <3>2, <3>4
      <4> QED BY <1>1, <2>2, <4>1
    <3> QED BY <1>1, <3>2, <3>3, <3>4 DEF Before
  <2> QED BY <1>3, <2>1, <2>2 DEF Before
<1> QED BY <1>2, <1>3 DEF pa, pb

\* Between two keys with the prefix there are only keys with it.
LEMMA BetweenPrefixed ==
  ASSUME NEW p \in Buffer, NEW s \in Buffer, NEW e \in Buffer, NEW k \in Buffer,
         ~Before(k, applyKey(p, s)), Before(k, applyKey(p, e))
  PROVE  HasPrefix(p, k)
<1> SUFFICES ASSUME ~HasPrefix(p, k) PROVE FALSE
  OBVIOUS
<1>1. PICK q \in Buffer, r \in Buffer :
           /\ HasPrefix(p, q) /\ ~Before(k, q)
           /\ HasPrefix(p, r) /\ Before(k, r)
  BY PrefixRoundTrip
<1>2. /\ Len(p) \in Nat /\ Len(k) \in Nat
      /\ Len(q) \in Nat /\ Len(p) <= Len(q) /\ Len(r) \in Nat /\ Len(p) <= Len(r)
      /\ \A i \in 1..Len(p) : q[i] = p[i] /\ r[i] = p[i] /\ p[i] \in Int
      /\ \A i \in 1..Len(k) : k[i] \in Int
  BY <1>1, BufferFacts DEF HasPrefix
<1>3. CASE Len(k) < Len(p) /\ \A j \in 1..Len(k) : k[j] = p[j]
  BY <1>1, <1>2, <1>3 DEF Before
<1>4. ASSUME NEW i \in 1..Len(p), i <= Len(k), k[i] # p[i], \A j \in 1..(i - 1) : k[j] = p[j]
      PROVE  FALSE
  <2>1. i \in 1..Len(k) /\ i <= Len(q) /\ i <= Len(r)
    BY <1>2, <1>4
  <2>2. CASE k[i] < p[i]
    <3>1. k[i] < q[i] /\ \A j \in 1..(i - 1) : k[j] = q[j]
      BY <1>2, <1>4, <2>1, <2>2
    <3> QED BY <1>1, <2>1, <3>1 DEF Before
  <2>3. CASE k[i] > p[i]
    <3>1. k[i] > r[i] /\ \A j \in 1..(i - 1) : k[j] = r[j]
      BY <1>2, <1>4, <2>1, <2>3
    <3> QED BY <1>1, <2>1, <3>1, NotBefore
  <2> QED BY <1>2, <1>4, <2>1, <2>2, <2>3
<1> QED BY <1>3, <1>4, WithoutPrefix

\* What applyRangeEnd makes of a range: unless the end is empty, and the prefix
\* the single byte 0, it is the end of the namespace or a key of it.
LEMMA EndInNamespace ==
  ASSUME NEW p \in Buffer \ {emptyKey}, NEW e \in Buffer, e # emptyKey \/ p # zeroKey
  PROVE  /\ e = zeroKey => applyRangeEnd(p, e) = endRangeForPrefix(p)
         /\ e # zeroKey => /\ applyRangeEnd(p, e) = applyKey(p, e)
                           /\ applyKey(p, e) # emptyKey
                           /\ applyKey(p, e) # zeroKey
<1>1. Len(p) \in Nat /\ Len(e) \in Nat /\ Len(p) # 0 /\ (e # emptyKey => Len(e) # 0)
  BY BufferFacts DEF Buffer, emptyKey
<1>2. Len(applyKey(p, e)) = Len(p) + Len(e) /\ applyKey(p, e) # emptyKey
  BY <1>1 DEF applyKey, Buffer, emptyKey
<1>3. applyKey(p, e) # zeroKey
  <2>1. CASE e # emptyKey
    BY <1>1, <1>2, <2>1 DEF zeroKey
  <2>2. CASE e = emptyKey
    <3>1. applyKey(p, e) = p
      BY <2>2 DEF applyKey, emptyKey, Buffer
    <3> QED BY <2>2, <3>1
  <2> QED BY <2>1, <2>2
<1> QED BY <1>2, <1>3 DEF applyRangeEnd, applyKey

\* What a request of a namespace selects has the prefix.  (A range of a single key,
\* whose end is empty, runs to the end of all keys if the prefix is the byte 0.)
THEOREM NamespaceInside ==
  ASSUME NEW p \in Buffer \ {emptyKey}, NEW s \in Buffer, NEW e \in Buffer, NEW k \in Buffer,
         e # emptyKey \/ p # zeroKey
  PROVE  /\ Selects(applyKey(p, s), emptyKey, k) => HasPrefix(p, k)
         /\ Selects(applyKey(p, s), applyRangeEnd(p, e), k) => HasPrefix(p, k)
<1>1. Selects(applyKey(p, s), emptyKey, k) => HasPrefix(p, k)
  BY PrefixRoundTrip DEF Selects
<1>2. ASSUME Selects(applyKey(p, s), applyRangeEnd(p, e), k) PROVE HasPrefix(p, k)
  <2>1. CASE e # zeroKey
    <3>1. ~Before(k, applyKey(p, s)) /\ Before(k, applyKey(p, e))
      BY <1>2, <2>1, EndInNamespace DEF Selects
    <3> QED BY <3>1, BetweenPrefixed
  <2>2. CASE e = zeroKey
    <3>1. applyRangeEnd(p, e) = endRangeForPrefix(p)
      BY <2>2, EndInNamespace
    <3>2. CASE Growing(p) = {}
      <4>1. ~Before(k, applyKey(p, s))
        BY <1>2, <3>1, <3>2 DEF Selects, endRangeForPrefix, zeroKey, emptyKey
      <4> QED BY <3>2, <4>1, BetweenHasPrefix
    <3>3. CASE Growing(p) # {}
      <4>1. ~Before(k, applyKey(p, s)) /\ Before(k, endRangeForPrefix(p))
        BY <1>2, <3>1, <3>3, EndIsAKey DEF Selects
      <4> QED BY <4>1, BetweenHasPrefix
    <3> QED BY <3>2, <3>3
  <2> QED BY <2>1, <2>2
<1> QED BY <1>1, <1>2

\* A request of a namespace selects, of the keys with the prefix, just those that
\* the caller's key or range selects without it.
THEOREM NamespaceSelects ==
  ASSUME NEW p \in Buffer \ {emptyKey}, NEW s \in Buffer, NEW e \in Buffer \ {emptyKey},
         NEW k \in Buffer
  PROVE  /\ Selects(applyKey(p, s), emptyKey, k)
              <=> HasPrefix(p, k) /\ Selects(s, emptyKey, unprefix(p, k))
         /\ Selects(applyKey(p, s), applyRangeEnd(p, e), k)
              <=> HasPrefix(p, k) /\ Selects(s, e, unprefix(p, k))
<1> DEFINE u == unprefix(p, k)
<1>1. Selects(applyKey(p, s), emptyKey, k) <=> HasPrefix(p, k) /\ Selects(s, emptyKey, u)
  BY PrefixRoundTrip DEF Selects
<1>2. ASSUME HasPrefix(p, k)
      PROVE  Selects(applyKey(p, s), applyRangeEnd(p, e), k) <=> Selects(s, e, u)
  <2>1. u \in Buffer /\ k = applyKey(p, u)
    BY <1>2, PrefixRoundTrip
  <2>2. /\ Before(k, applyKey(p, s)) <=> Before(u, s)
        /\ Before(k, applyKey(p, e)) <=> Before(u, e)
    BY <2>1, BeforePrefixed
  <2> HIDE DEF u
  <2>3. CASE e # zeroKey
    BY <2>2, <2>3, EndInNamespace DEF Selects
  <2>4. CASE e = zeroKey /\ Growing(p) = {}
    <3>1. applyRangeEnd(p, e) = zeroKey
      BY <2>4, EndInNamespace DEF endRangeForPrefix
    <3> QED BY <2>2, <2>4, <3>1 DEF Selects, zeroKey, emptyKey
  <2>5. CASE e = zeroKey /\ Growing(p) # {}
    <3>1. /\ applyRangeEnd(p, e) = endRangeForPrefix(p)
          /\ Before(k, endRangeForPrefix(p))
          /\ endRangeForPrefix(p) # emptyKey
      BY <1>2, <2>5, EndInNamespace, EndIsAKey, PrefixBeforeEnd
    <3> QED BY <2>2, <2>5, <3>1 DEF Selects, zeroKey, emptyKey
  <2> QED BY <2>3, <2>4, <2>5
<1> QED BY <1>1, <1>2, NamespaceInside

(***************************************************************************)
(* Range.includes                                                          *)
(***************************************************************************)
\* Buffers are in a total order.
LEMMA BeforeIsTotal ==
  ASSUME NEW a \in Buffer, NEW b \in Buffer
  PROVE  /\ a = b \/ Before(a, b) \/ Before(b, a)
         /\ Before(a, b) => a # b /\ ~Before(b, a)
<1>1. /\ Len(a) \in Nat /\ Len(b) \in Nat
      /\ \A i \in 1..Len(a) : a[i] \in Int
      /\ \A i \in 1..Len(b) : b[i] \in Int
  BY BufferFacts
<1>2. a = b \/ Before(a, b) \/ Before(b, a)
  <2>1. CASE HasPrefix(a, b)
    <3>1. CASE Len(a) = Len(b)
      BY <2>1, <3>1 DEF HasPrefix, Buffer
    <3>2. CASE Len(a) < Len(b)
      BY <2>1, <3>2 DEF HasPrefix, Before
    <3> QED BY <1>1, <2>1, <3>1, <3>2 DEF HasPrefix
  <2>2. CASE Len(b) < Len(a) /\ \A j \in 1..Len(b) : b[j] = a[j]
    BY <2>2 DEF Before
  <2>3. ASSUME NEW i \in 1..Len(a), i <= Len(b), b[i] # a[i], \A j \in 1..(i - 1) : b[j] = a[j]
        PROVE  Before(a, b) \/ Before(b, a)
    <3>1. i \in 1..Len(b) /\ (a[i] < b[i] \/ b[i] < a[i])
      BY <1>1, <2>3
    <3> QED BY <2>3, <3>1 DEF Before
  <2> QED BY <2>1, <2>2, <2>3, WithoutPrefix
<1>3. ASSUME Before(a, b) PROVE a # b /\ ~Before(b, a)
  <2>1. CASE Len(a) < Len(b) /\ \A i \in 1..Len(a) : a[i] = b[i]
    <3>1. HasPrefix(a, b)
      BY <1>1, <2>1 DEF HasPrefix
    <3> QED BY <1>1, <2>1, <3>1, NotBeforePrefix
  <2>2. ASSUME NEW i \in 1..Len(a), i <= Len(b), a[i] < b[i], \A j \in 1..(i - 1) : a[j] = b[j]
        PROVE  a # b /\ ~Before(b, a)
    <3>1. i \in 1..Len(b) /\ i <= Len(a) /\ b[i] > a[i] /\ \A j \in 1..(i - 1) : b[j] = a[j]
      BY <1>1, <2>2
    <3>2. a # b
      BY <1>1, <2>2
    <3> QED BY <3>1, <3>2, NotBefore
  <2> QED BY <1>3, <2>1, <2>2 DEF Before
<1> QED BY <1>2, <1>3

\* Range.includes answers for a range with a start and an end as etcd would; an
\* end that is empty or zero it takes for a key.
THEOREM IncludesAsSelected ==
  ASSUME NEW s \in Buffer \ {emptyKey}, NEW e \in Buffer \ {emptyKey, zeroKey},
         NEW k \in Buffer \ {emptyKey}
  PROVE  includes([start |-> s, end |-> e], k) <=> Selects(s, e, k)
<1>1. compare(s, k) <= 0 <=> ~Before(k, s)
  BY BeforeIsTotal DEF compare
<1>2. compare(e, k) > 0 <=> Before(k, e)
  BY BeforeIsTotal DEF compare
<1> QED BY <1>1, <1>2 DEF includes, Selects

(***************************************************************************)
(* The invariant: what is sent is what applyToRequest made of a request,   *)
(* whose range has an end if all those of the program have one.            *)
(***************************************************************************)
\* The requests that the builders build.
Buildable == {r \in Request : RangesHaveEnds /\ r.range_end # Undefined => r.range_end[1] # emptyKey}

Taken == {[built |-> r, applied |-> applyToRequest(r)] : r \in Buildable}

NamespaceKey == {applyKey(Prefix, k) : k \in Buffer}

Reply0 == [refused : BOOLEAN, responses : Optional([kvs : UNION {[keys -> Stored] : keys \in SUBSET Buffer}, count : Nat])]

Calls ==
    [status : Status, compare : SUBSET NamespaceKey,
     success : Optional(Taken), failure : Optional(Taken),
     sent : Transaction, reply : Reply0, retries : 0..MaxRetries]

AppliedOf(branch) == IF branch = Undefined THEN Undefined ELSE Some(branch[1].applied)

\* What a call with a prefix sends.
SentOf(call) ==
    [compare |-> call.compare, success |-> AppliedOf(call.success), failure |-> AppliedOf(call.failure)]

BuildersInv ==
    /\ DOMAIN store \subseteq Buffer /\ IsFiniteSet(DOMAIN store)
    /\ store \in [DOMAIN store -> Stored]
    /\ request \in Buildable
    /\ comparator \in [compare : SUBSET NamespaceKey, success : Optional(Taken), failure : Optional(Taken)]
    /\ calls \in [Call -> Calls]
    /\ builds \in 0..MaxBuilds
    /\ others \in 0..MaxOthers

SentInv ==
    \A c \in Call : calls[c].status \in {"sent", "served", "answered"} =>
        \/ Prefix = emptyKey
        \/ calls[c].sent = SentOf(calls[c])

(***************************************************************************)
(* Helpers                                                                 *)
(***************************************************************************)
LEMMA PrefixIsBuffer == Prefix \in Buffer
BY RequestsAssumption

LEMMA OptionalFacts ==
  ASSUME NEW S
  PROVE  /\ Undefined \in Optional(S)
         /\ \A x \in S : Some(x) \in Optional(S) /\ Some(x) # Undefined /\ Some(x)[1] = x
         /\ \A o \in Optional(S) : o # Undefined => o[1] \in S /\ o = Some(o[1])
<1>1. \A x \in S : Some(x) \in Optional(S) /\ Some(x) # Undefined /\ Some(x)[1] = x
  BY DEF Optional, Some, Undefined
<1>2. \A o \in Optional(S) : o # Undefined => o[1] \in S /\ o = Some(o[1])
  BY DEF Optional, Some, Undefined
<1> QED BY <1>1, <1>2 DEF Optional

LEMMA RequestFields ==
  ASSUME NEW r \in Request
  PROVE  /\ r.key \in Optional(Buffer) /\ r.range_end \in Optional(Buffer)
         /\ r.kind \in Kind /\ r.value \in Stored
         /\ \A k \in Optional(Buffer) : [r EXCEPT !.key = k] \in Request
         /\ \A k \in Optional(Buffer), e \in Optional(Buffer) :
              [r EXCEPT !.key = k, !.range_end = e] \in Request
BY DEF Request, Stored

\* applyToRequest gives a request again.
LEMMA ApplyTyped ==
  ASSUME NEW r \in Request
  PROVE  applyToRequest(r) \in Request
<1>1. CASE Prefix = emptyKey
  BY <1>1 DEF applyToRequest
<1>2. CASE Prefix # emptyKey
  <2> DEFINE key == IF r.key = Undefined THEN r.key ELSE Some(applyKey(Prefix, r.key[1]))
             end == IF r.range_end = Undefined THEN r.range_end
                    ELSE Some(applyRangeEnd(Prefix, r.range_end[1]))
  <2>1. r.key \in Optional(Buffer) /\ r.range_end \in Optional(Buffer)
    BY RequestFields
  <2>6. \A k \in Buffer : applyKey(Prefix, k) \in Buffer
    BY PrefixIsBuffer, PrefixRoundTrip
  <2>2. key \in Optional(Buffer)
    BY <2>1, <2>6, OptionalFacts
  <2>3. \A e \in Buffer : applyRangeEnd(Prefix, e) \in Buffer
    BY <1>2, PrefixIsBuffer, RangeEndTyped
  <2>4. end \in Optional(Buffer)
    BY <2>1, <2>3, OptionalFacts
  <2>5. applyToRequest(r) = [r EXCEPT !.key = key, !.range_end = end]
    BY <1>2 DEF applyToRequest
  <2>7. \A k \in Optional(Buffer), e \in Optional(Buffer) :
           [r EXCEPT !.key = k, !.range_end = e] \in Request
    BY RequestFields
  <2> HIDE DEF key, end
  <2> QED BY <2>2, <2>4, <2>5, <2>7
<1> QED BY <1>1, <1>2

LEMMA TakenTyped ==
  /\ \A r \in Buildable : Operation(r) \in Taken
  /\ \A op \in Taken : op.built \in Buildable /\ op.applied = applyToRequest(op.built)
                       /\ op.applied \in Request
<1>1. \A r \in Buildable : Operation(r) \in Taken
  BY DEF Operation, Taken
<1>2. ASSUME NEW op \in Taken
      PROVE  op.built \in Buildable /\ op.applied = applyToRequest(op.built) /\ op.applied \in Request
  <2>1. PICK r \in Buildable : op = [built |-> r, applied |-> applyToRequest(r)]
    BY DEF Taken
  <2>2. r \in Request
    BY DEF Buildable
  <2> QED BY <2>1, <2>2, ApplyTyped
<1> QED BY <1>1, <1>2

LEMMA KeysOfNamespace ==
  /\ \A k \in Buffer : applyKey(Prefix, k) \in NamespaceKey
  /\ NamespaceKey \subseteq Buffer
  /\ \A k \in NamespaceKey : HasPrefix(Prefix, k)
BY PrefixIsBuffer, PrefixRoundTrip DEF NamespaceKey

LEMMA NewRequestsBuildable ==
  ASSUME NEW kind \in Kind
  PROVE  NewRequest(kind) \subseteq Buildable
<1> DEFINE blank == [kind |-> kind, key |-> Undefined, range_end |-> Undefined, value |-> noValue,
                     ignore_value |-> FALSE, keys_only |-> FALSE, count_only |-> FALSE,
                     prev_kv |-> FALSE]
<1>1. Undefined \in Optional(Buffer) /\ zeroKey \in Buffer /\ Some(zeroKey) \in Optional(Buffer)
  <2>1. zeroKey \in Buffer
    BY ByteAssumption DEF zeroKey, Buffer, Byte
  <2> QED BY <2>1, OptionalFacts
<1>2. blank \in Buildable
  BY <1>1 DEF Buildable, Request
<1>3. \A k \in UserKey : [blank EXCEPT !.key = Some(k)] \in Buildable
  <2> SUFFICES ASSUME NEW k \in UserKey PROVE [blank EXCEPT !.key = Some(k)] \in Buildable
    OBVIOUS
  <2>1. Some(k) \in Optional(Buffer)
    BY OptionalFacts, RequestsAssumption
  <2> QED BY <1>1, <2>1 DEF Buildable, Request
<1>4. [blank EXCEPT !.key = Some(zeroKey), !.range_end = Some(zeroKey)] \in Buildable
  BY <1>1 DEF Buildable, Request, Some, zeroKey, emptyKey
<1> HIDE DEF blank
<1>5. NewRequest(kind) \subseteq {[blank EXCEPT !.key = Some(k)] : k \in UserKey}
                              \cup {[blank EXCEPT !.key = Some(zeroKey), !.range_end = Some(zeroKey)], blank}
  BY DEF NewRequest, blank, prefix
<1> QED BY <1>2, <1>3, <1>4, <1>5

LEMMA InitInv == Init => BuildersInv /\ SentInv
<1> SUFFICES ASSUME Init PROVE BuildersInv /\ SentInv
  OBVIOUS
<1>1. PICK keys \in SUBSET Present : store \in [keys -> Value]
  BY DEF Init
<1>2. DOMAIN store \subseteq Buffer /\ IsFiniteSet(DOMAIN store) /\ store \in [DOMAIN store -> Stored]
  BY <1>1, FS_Subset, RequestsAssumption DEF Stored
<1>3. request \in Buildable
  BY NewRequestsBuildable DEF Init
<1>4. comparator \in [compare : SUBSET NamespaceKey, success : Optional(Taken), failure : Optional(Taken)]
  <2>1. PICK k \in UserKey : comparator = [compare |-> {applyKey(Prefix, k)},
                                          success |-> Undefined, failure |-> Undefined]
    BY DEF Init
  <2>2. {applyKey(Prefix, k)} \in SUBSET NamespaceKey
    BY KeysOfNamespace, RequestsAssumption
  <2> QED BY <2>1, <2>2, OptionalFacts
<1>5. NoCall \in Calls
  <2>1. Undefined \in Optional(Taken) /\ Undefined \in Optional(Request)
    BY OptionalFacts
  <2>2. NoCall.sent \in Transaction
    BY <2>1 DEF NoCall, Transaction
  <2>3. NoCall.reply \in Reply0
    BY DEF NoCall, Reply0, Optional, Undefined
  <2> QED BY <2>1, <2>2, <2>3, RequestsAssumption DEF NoCall, Calls, Status, Gathering
<1>6. calls \in [Call -> Calls] /\ SentInv
  BY <1>5 DEF Init, SentInv, NoCall
<1> QED BY <1>2, <1>3, <1>4, <1>6, RequestsAssumption DEF Init, BuildersInv

(***************************************************************************)
(* What etcd does with a request                                           *)
(***************************************************************************)
IsStore(st) == /\ DOMAIN st \subseteq Buffer /\ IsFiniteSet(DOMAIN st)
               /\ st \in [DOMAIN st -> Stored]

LEMMA ResponseTyped ==
  ASSUME NEW st, IsStore(st), NEW r \in Request
  PROVE  Reply(st, r) \in [kvs : UNION {[keys -> Stored] : keys \in SUBSET Buffer}, count : Nat]
<1>1. Matched(st, r) \subseteq DOMAIN st /\ Shown(st, r) \subseteq DOMAIN st
  BY DEF Matched, Shown
<1>2. Cardinality(Matched(st, r)) \in Nat
  BY <1>1, FS_Subset, FS_CardinalityType DEF IsStore
<1> DEFINE kvs == [k \in Shown(st, r) |-> IF r.keys_only THEN noValue ELSE st[k]]
<1>3. kvs \in [Shown(st, r) -> Stored]
  BY <1>1 DEF IsStore, Stored
<1>4. kvs \in UNION {[keys -> Stored] : keys \in SUBSET Buffer}
  BY <1>1, <1>3 DEF IsStore
<1> HIDE DEF kvs
<1>5. Reply(st, r) = [kvs |-> kvs, count |-> IF r.kind = "put" THEN 0 ELSE Cardinality(Matched(st, r))]
  BY DEF Reply, kvs
<1> QED BY <1>2, <1>4, <1>5

LEMMA ReplyTyped ==
  ASSUME NEW st, IsStore(st), NEW t \in Transaction
  PROVE  ReplyTxn(st, t) \in Reply0
<1> DEFINE branch == Chosen(st, t)
           R == [kvs : UNION {[keys -> Stored] : keys \in SUBSET Buffer}, count : Nat]
<1>1. branch \in Optional(Request)
  BY DEF Chosen, Transaction
<1>2. RefusedTxn(st, t) \in BOOLEAN
  BY DEF RefusedTxn
<1>3. branch # Undefined => Reply(st, branch[1]) \in R
  BY <1>1, ResponseTyped, OptionalFacts
<1>4. branch # Undefined => <<Reply(st, branch[1])>> \in Optional(R)
  BY <1>3, OptionalFacts DEF Some
<1>5. <<>> \in Optional(R)
  BY DEF Optional, Undefined
<1> HIDE DEF branch, R
<1>6. ReplyTxn(st, t) = [refused |-> RefusedTxn(st, t),
                         responses |-> IF RefusedTxn(st, t) \/ branch = Undefined THEN <<>>
                                       ELSE <<Reply(st, branch[1])>>]
  BY DEF ReplyTxn, branch
<1> QED BY <1>2, <1>4, <1>5, <1>6 DEF Reply0, R

LEMMA AfterTyped ==
  ASSUME NEW st, IsStore(st), NEW t \in Transaction
  PROVE  IsStore(AfterTxn(st, t))
<1> SUFFICES ASSUME ~RefusedTxn(st, t), Chosen(st, t) # Undefined
             PROVE  IsStore(After(st, Chosen(st, t)[1]))
  BY DEF AfterTxn
<1>1. PICK r \in Request : Chosen(st, t) = Some(r) /\ Chosen(st, t)[1] = r
  <2>1. Chosen(st, t) \in Optional(Request)
    BY DEF Chosen, Transaction
  <2> QED BY <2>1, OptionalFacts
<1>2. ~Malformed(r)
  BY <1>1 DEF RefusedTxn, Chosen
<1>3. r.key \in Optional(Buffer) /\ r.key # Undefined /\ r.key[1] \in Buffer /\ r.value \in Stored
  BY <1>2, RequestFields, OptionalFacts DEF Malformed
<1>4. r.ignore_value => r.key[1] \in DOMAIN st
  BY <1>1 DEF RefusedTxn
<1>5. CASE r.kind = "put"
  <2>1. DOMAIN Put(st, r) = DOMAIN st \cup {r.key[1]}
    BY DEF Put
  <2>2. IsFiniteSet(DOMAIN st \cup {r.key[1]})
    BY FS_AddElement DEF IsStore
  <2>3. Put(st, r) \in [DOMAIN st \cup {r.key[1]} -> Stored]
    BY <1>3, <1>4 DEF Put, IsStore
  <2> QED BY <1>1, <1>3, <1>5, <2>1, <2>2, <2>3 DEF After, IsStore
<1>6. CASE r.kind = "delete"
  <2> DEFINE rest == DOMAIN st \ Matched(st, r)
  <2>1. IsFiniteSet(rest) /\ rest \subseteq DOMAIN st
    BY FS_Subset DEF IsStore
  <2> HIDE DEF rest
  <2>2. After(st, r) = [k \in rest |-> st[k]]
    BY <1>6 DEF After, rest
  <2> QED BY <1>1, <2>1, <2>2 DEF IsStore
<1>7. CASE r.kind # "put" /\ r.kind # "delete"
  BY <1>1, <1>7 DEF After
<1> QED BY <1>5, <1>6, <1>7

LEMMA PayloadTyped ==
  ASSUME BuildersInv, NEW branch \in Optional(Taken)
  PROVE  /\ Payload(branch) \in Optional(Request)
         /\ AppliedOf(branch) \in Optional(Request)
         /\ Prefix # emptyKey => Payload(branch) = AppliedOf(branch)
<1>1. CASE branch = Undefined
  BY <1>1, OptionalFacts DEF Payload, AppliedOf
<1>2. CASE branch # Undefined
  <2>1. branch[1] \in Taken
    BY <1>2, OptionalFacts
  <2>2. branch[1].applied \in Request /\ request \in Request
    BY <2>1, TakenTyped DEF BuildersInv, Buildable
  <2> QED BY <1>2, <2>2, OptionalFacts DEF Payload, AppliedOf, Current
<1> QED BY <1>1, <1>2

(***************************************************************************)
(* The invariant is inductive                                              *)
(***************************************************************************)
SentAsTaken(call) ==
    call.status \in {"sent", "served", "answered"} => Prefix = emptyKey \/ call.sent = SentOf(call)

LEMMA OneCall ==
  ASSUME BuildersInv, SentInv, NEW c \in Call, NEW call \in Calls, SentAsTaken(call),
         calls' = [calls EXCEPT ![c] = call]
  PROVE  calls' \in [Call -> Calls] /\ SentInv'
<1>1. calls' \in [Call -> Calls]
  BY DEF BuildersInv
<1>2. ASSUME NEW d \in Call, calls'[d].status \in {"sent", "served", "answered"}
      PROVE  Prefix = emptyKey \/ calls'[d].sent = SentOf(calls'[d])
  <2>1. CASE d = c
    <3>1. calls'[d] = call
      BY <2>1 DEF BuildersInv
    <3> QED BY <1>2, <3>1 DEF SentAsTaken
  <2>2. CASE d # c
    <3>1. calls'[d] = calls[d]
      BY <2>2 DEF BuildersInv
    <3> QED BY <1>2, <3>1 DEF SentInv
  <2> QED BY <2>1, <2>2
<1> QED BY <1>1, <1>2 DEF SentInv

LEMMA SetterInv ==
  ASSUME BuildersInv, Build
  PROVE  request' \in Buildable
<1>1. request \in Buildable /\ request \in Request
  BY DEF BuildersInv, Buildable
<1>2. ASSUME NEW k \in UserKey, SetKey(k) PROVE request' \in Buildable
  <2>1. Some(k) \in Optional(Buffer) /\ Undefined \in Optional(Buffer)
    BY OptionalFacts, RequestsAssumption
  <2>2. request' = [request EXCEPT !.key = Some(k), !.range_end = Undefined]
    BY <1>2 DEF SetKey
  <2>3. request' \in Request
    BY <1>1, <2>1, <2>2, RequestFields
  <2>4. request'.range_end = Undefined
    BY <1>1, <2>2 DEF Request
  <2> QED BY <2>3, <2>4 DEF Buildable
<1>3. ASSUME NEW r \in UserRange, InRange(r) PROVE request' \in Buildable
  <2>1. Some(r.start) \in Optional(Buffer) /\ Some(r.end) \in Optional(Buffer)
    BY OptionalFacts, RequestsAssumption
  <2>2. request' = [request EXCEPT !.key = Some(r.start), !.range_end = Some(r.end)]
    BY <1>3 DEF InRange
  <2>3. request' \in Request
    BY <1>1, <2>1, <2>2, RequestFields
  <2>4. request'.range_end[1] = r.end
    BY <1>1, <2>2 DEF Request, Some
  <2> QED BY <2>3, <2>4 DEF Buildable, RangesHaveEnds
<1>4. ASSUME NEW v \in Value, SetValue(v) PROVE request' \in Buildable
  BY <1>1, <1>4 DEF SetValue, Buildable, Request
<1>5. CASE UNCHANGED request
  BY <1>1, <1>5
<1> QED BY <1>2, <1>3, <1>4, <1>5 DEF Build, And, Then, Else

LEMMA PreparedInv ==
  ASSUME BuildersInv
  PROVE  Prepared \subseteq Buildable
<1>1. request \in Buildable /\ request.kind \in Kind
  BY DEF BuildersInv, Buildable, Request
<1>2. /\ [request EXCEPT !.keys_only = TRUE] \in Buildable
      /\ [request EXCEPT !.count_only = TRUE] \in Buildable
      /\ [request EXCEPT !.prev_kv = TRUE] \in Buildable
      /\ [request EXCEPT !.value = noValue, !.ignore_value = TRUE] \in Buildable
  BY <1>1 DEF Buildable, Request
<1>3. Prepared \subseteq {request, [request EXCEPT !.keys_only = TRUE], [request EXCEPT !.count_only = TRUE],
                        [request EXCEPT !.prev_kv = TRUE],
                        [request EXCEPT !.value = noValue, !.ignore_value = TRUE]}
  BY <1>1 DEF Prepared, PreparedGet, PreparedGetAll, PreparedDelete, PreparedPut, Kind
<1> QED BY <1>1, <1>2, <1>3

LEMMA BuildInv ==
  ASSUME BuildersInv, SentInv, Build
  PROVE  BuildersInv' /\ SentInv'
<1>1. request' \in Buildable
  BY SetterInv
<1>2. UNCHANGED <<store, calls, others>> /\ builds' \in 0..MaxBuilds
  <2>1. UNCHANGED <<store, calls, others>>
    BY DEF Build, SetKey, And, InRange, SetValue, Then, Else
  <2>2. builds < MaxBuilds /\ builds' = builds + 1
    BY DEF Build
  <2> QED BY <2>1, <2>2, RequestsAssumption DEF BuildersInv
<1>3. comparator' \in [compare : SUBSET NamespaceKey, success : Optional(Taken), failure : Optional(Taken)]
  <2>1. Some(Operation(request)) \in Optional(Taken)
    BY TakenTyped, OptionalFacts DEF BuildersInv
  <2>2. \A k \in UserKey : applyKey(Prefix, k) \in NamespaceKey
    BY KeysOfNamespace, RequestsAssumption
  <2>3. CASE Then
    BY <2>1, <2>3 DEF Then, BuildersInv
  <2>4. CASE Else
    BY <2>1, <2>4 DEF Else, BuildersInv
  <2>5. ASSUME NEW k \in UserKey, And(k) PROVE comparator' \in [compare : SUBSET NamespaceKey,
                                              success : Optional(Taken), failure : Optional(Taken)]
    BY <2>2, <2>5 DEF And, BuildersInv
  <2>6. CASE UNCHANGED comparator
    BY <2>6 DEF BuildersInv
  <2> QED BY <2>3, <2>4, <2>5, <2>6 DEF Build, SetKey, InRange, SetValue
<1>4. SentInv'
  BY <1>2 DEF SentInv
<1> QED BY <1>1, <1>2, <1>3, <1>4 DEF BuildersInv

LEMMA OthersInv ==
  ASSUME BuildersInv, SentInv, Others
  PROVE  BuildersInv' /\ SentInv'
<1>1. PICK k \in Present : \/ \E v \in Value : store' = [x \in DOMAIN store \cup {k} |->
                                                           IF x = k THEN v ELSE store[x]]
                          \/ store' = [x \in DOMAIN store \ {k} |-> store[x]]
  BY DEF Others
<1>2. IsFiniteSet(DOMAIN store \cup {k}) /\ IsFiniteSet(DOMAIN store \ {k})
  BY FS_AddElement, FS_RemoveElement DEF BuildersInv
<1>3. IsStore(store')
  BY <1>1, <1>2, RequestsAssumption DEF IsStore, BuildersInv, Stored
<1>4. SentInv'
  BY DEF Others, SentInv
<1>5. others' \in 0..MaxOthers
  BY RequestsAssumption DEF Others, BuildersInv
<1> QED BY <1>3, <1>4, <1>5 DEF Others, BuildersInv, IsStore

LEMMA ServeInv ==
  ASSUME BuildersInv, SentInv, NEW c \in Call, Serve(c)
  PROVE  BuildersInv' /\ SentInv'
<1> DEFINE call == [calls[c] EXCEPT !.status = "served", !.reply = ReplyTxn(store, calls[c].sent)]
<1>1. calls[c] \in Calls /\ calls[c].sent \in Transaction /\ IsStore(store)
  BY DEF BuildersInv, Calls, IsStore
<1>2. call \in Calls
  BY <1>1, ReplyTyped DEF Calls, Status, Gathering
<1>3. SentAsTaken(call)
  BY <1>1 DEF Serve, SentInv, SentAsTaken, SentOf, Calls
<1>4. calls' = [calls EXCEPT ![c] = call]
  BY DEF Serve, BuildersInv
<1> HIDE DEF call
<1>5. calls' \in [Call -> Calls] /\ SentInv'
  BY <1>2, <1>3, <1>4, OneCall
<1>6. IsStore(store')
  BY <1>1, AfterTyped DEF Serve
<1> QED BY <1>5, <1>6 DEF Serve, BuildersInv, IsStore

LEMMA SendInv ==
  ASSUME BuildersInv, SentInv, NEW c \in Call, Send(c)
  PROVE  BuildersInv' /\ SentInv'
<1> DEFINE sent == [compare |-> calls[c].compare, success |-> Payload(calls[c].success),
                    failure |-> Payload(calls[c].failure)]
           call == [calls[c] EXCEPT !.status = "sent", !.sent = sent]
<1>1. /\ calls[c] \in Calls /\ calls[c].compare \in SUBSET Buffer
      /\ calls[c].success \in Optional(Taken) /\ calls[c].failure \in Optional(Taken)
  BY KeysOfNamespace DEF BuildersInv, Calls
<1>2. /\ Payload(calls[c].success) \in Optional(Request)
      /\ Payload(calls[c].failure) \in Optional(Request)
  BY <1>1, PayloadTyped
<1>3. sent \in Transaction
  BY <1>1, <1>2 DEF Transaction
<1>4. Prefix # emptyKey => sent = SentOf(calls[c])
  BY <1>1, PayloadTyped DEF SentOf
<1>5. calls' = [calls EXCEPT ![c] = call]
  BY DEF Send, BuildersInv
<1> HIDE DEF sent
<1>6. call \in Calls
  BY <1>1, <1>3 DEF Calls, Status, Gathering
<1>7. SentAsTaken(call)
  BY <1>1, <1>4 DEF SentAsTaken, SentOf, Calls
<1> HIDE DEF call
<1>8. calls' \in [Call -> Calls] /\ SentInv'
  BY <1>5, <1>6, <1>7, OneCall
<1> QED BY <1>8 DEF Send, BuildersInv

LEMMA OwnKeysFacts ==
  ASSUME NEW K \in SUBSET Buffer
  PROVE  /\ OwnKeys(K) \subseteq Buffer
         /\ \A k \in Buffer : k \in OwnKeys(K) <=> applyKey(Prefix, k) \in K
<1>1. OwnKeys(K) \subseteq Buffer
  BY PrefixIsBuffer, PrefixRoundTrip DEF OwnKeys
<1>2. ASSUME NEW k \in Buffer, k \in OwnKeys(K) PROVE applyKey(Prefix, k) \in K
  <2>1. PICK p \in K : HasPrefix(Prefix, p) /\ k = unprefix(Prefix, p)
    BY <1>2 DEF OwnKeys
  <2>2. applyKey(Prefix, k) = p
    BY <2>1, PrefixIsBuffer, PrefixRoundTrip
  <2> QED BY <2>2
<1>3. ASSUME NEW k \in Buffer, applyKey(Prefix, k) \in K PROVE k \in OwnKeys(K)
  BY <1>3, PrefixIsBuffer, PrefixRoundTrip DEF OwnKeys
<1> QED BY <1>1, <1>2, <1>3

LEMMA UnprefixedTyped ==
  ASSUME NEW r \in [kvs : UNION {[keys -> Stored] : keys \in SUBSET Buffer}, count : Nat]
  PROVE  Unprefixed(r) \in [kvs : UNION {[keys -> Stored] : keys \in SUBSET Buffer}, count : Nat]
<1>1. PICK keys \in SUBSET Buffer : r.kvs \in [keys -> Stored]
  OBVIOUS
<1>2. OwnKeys(keys) \in SUBSET Buffer /\ \A k \in OwnKeys(keys) : applyKey(Prefix, k) \in keys
  BY OwnKeysFacts
<1>3. Within(r.kvs) \in [OwnKeys(keys) -> Stored]
  BY <1>1, <1>2 DEF Within
<1>4. Within(r.kvs) \in UNION {[k -> Stored] : k \in SUBSET Buffer}
  BY <1>2, <1>3
<1> QED BY <1>4 DEF Unprefixed

LEMMA StepInv ==
  ASSUME BuildersInv, SentInv, NEW c \in Call, Step(c)
  PROVE  BuildersInv' /\ SentInv'
<1>1. /\ calls[c] \in Calls /\ NoCall.sent \in Transaction /\ NoCall.reply \in Reply0 /\ NoCall \in Calls
  <2>1. Undefined \in Optional(Request) /\ Undefined \in Optional(Taken)
    BY OptionalFacts
  <2>2. NoCall.sent \in Transaction
    BY <2>1 DEF NoCall, Transaction
  <2>3. NoCall.reply \in Reply0
    BY DEF NoCall, Reply0, Optional, Undefined
  <2> QED BY <2>1, <2>2, <2>3, RequestsAssumption DEF NoCall, Calls, Status, Gathering, BuildersInv
<1>2. CASE ExecNow(c)
  <2>1. PICK r \in Prepared :
          /\ request' = r
          /\ calls' = [calls EXCEPT ![c].status = "waiting", ![c].success = Some(Operation(r))]
    BY <1>2 DEF ExecNow
  <2> DEFINE call == [calls[c] EXCEPT !.status = "waiting", !.success = Some(Operation(r))]
  <2>2. r \in Buildable /\ Some(Operation(r)) \in Optional(Taken)
    BY <2>1, PreparedInv, TakenTyped, OptionalFacts
  <2>3. call \in Calls /\ SentAsTaken(call)
    BY <1>1, <2>2 DEF Calls, Status, Gathering, SentAsTaken
  <2>4. calls' = [calls EXCEPT ![c] = call]
    BY <2>1 DEF BuildersInv
  <2> HIDE DEF call
  <2>5. calls' \in [Call -> Calls] /\ SentInv'
    BY <2>3, <2>4, OneCall
  <2> QED BY <1>2, <2>1, <2>2, <2>5 DEF ExecNow, BuildersInv
<1>3. CASE ExecPut(c)
  <2> DEFINE call == [calls[c] EXCEPT !.status = "leasing"]
  <2>1. request' \in Buildable
    BY <1>3, PreparedInv DEF ExecPut
  <2>2. call \in Calls /\ SentAsTaken(call)
    BY <1>1 DEF Calls, Status, Gathering, SentAsTaken
  <2>3. calls' = [calls EXCEPT ![c] = call]
    BY <1>3 DEF ExecPut, BuildersInv
  <2> HIDE DEF call
  <2>4. calls' \in [Call -> Calls] /\ SentInv'
    BY <2>2, <2>3, OneCall
  <2> QED BY <1>3, <2>1, <2>4 DEF ExecPut, BuildersInv
<1>4. CASE LeaseReady(c)
  <2> DEFINE call == [calls[c] EXCEPT !.status = "waiting", !.success = Some(Operation(request))]
  <2>1. Some(Operation(request)) \in Optional(Taken)
    BY TakenTyped, OptionalFacts DEF BuildersInv
  <2>2. call \in Calls /\ SentAsTaken(call)
    BY <1>1, <2>1 DEF Calls, Status, Gathering, SentAsTaken
  <2>3. calls' = [calls EXCEPT ![c] = call]
    BY <1>4 DEF LeaseReady, BuildersInv
  <2> HIDE DEF call
  <2>4. calls' \in [Call -> Calls] /\ SentInv'
    BY <2>2, <2>3, OneCall
  <2> QED BY <1>4, <2>4 DEF LeaseReady, BuildersInv
<1>5. CASE Commit(c)
  <2> DEFINE call == [calls[c] EXCEPT !.status = "comparing", !.compare = comparator.compare]
  <2>1. call \in Calls /\ SentAsTaken(call)
    BY <1>1 DEF Calls, Status, Gathering, SentAsTaken, BuildersInv
  <2>2. calls' = [calls EXCEPT ![c] = call]
    BY <1>5 DEF Commit, BuildersInv
  <2> HIDE DEF call
  <2>3. calls' \in [Call -> Calls] /\ SentInv'
    BY <2>1, <2>2, OneCall
  <2> QED BY <1>5, <2>3 DEF Commit, BuildersInv
<1>6. CASE Send(c)
  BY <1>6, SendInv
<1>7. CASE Serve(c)
  BY <1>7, ServeInv
<1>8. CASE Lose(c)
  <2>1. CASE calls[c].retries < MaxRetries
    <3> DEFINE call == [calls[c] EXCEPT !.status = "waiting", !.retries = @ + 1,
                                        !.sent = NoCall.sent, !.reply = NoCall.reply]
    <3>1. calls[c].retries + 1 \in 0..MaxRetries
      BY <1>1, <2>1, RequestsAssumption DEF Calls
    <3>2. call \in Calls /\ SentAsTaken(call)
      BY <1>1, <3>1 DEF Calls, Status, Gathering, SentAsTaken
    <3>3. calls' = [calls EXCEPT ![c] = call]
      BY <1>8, <2>1 DEF Lose, BuildersInv
    <3> HIDE DEF call
    <3>4. calls' \in [Call -> Calls] /\ SentInv'
      BY <3>2, <3>3, OneCall
    <3> QED BY <1>8, <3>4 DEF Lose, BuildersInv
  <2>2. CASE ~(calls[c].retries < MaxRetries)
    <3> DEFINE call == [calls[c] EXCEPT !.status = "failed", !.reply = NoCall.reply]
    <3>2. call \in Calls /\ SentAsTaken(call)
      BY <1>1 DEF Calls, Status, Gathering, SentAsTaken
    <3>3. calls' = [calls EXCEPT ![c] = call]
      BY <1>8, <2>2 DEF Lose, BuildersInv
    <3> HIDE DEF call
    <3>4. calls' \in [Call -> Calls] /\ SentInv'
      BY <3>2, <3>3, OneCall
    <3> QED BY <1>8, <3>4 DEF Lose, BuildersInv
  <2> QED BY <2>1, <2>2
<1>9. CASE Return(c)
  <2> DEFINE responses == calls[c].reply.responses
             own == <<Unprefixed(responses[1])>>
             answered == [calls[c] EXCEPT !.status = "answered"]
             shortened == [calls[c] EXCEPT !.status = "answered", !.reply.responses = own]
             thrown == [calls[c] EXCEPT !.status = "thrown"]
  <2>1. responses \in Optional([kvs : UNION {[keys -> Stored] : keys \in SUBSET Buffer}, count : Nat])
    BY <1>1 DEF Calls, Reply0
  <2>2. responses # <<>> => own \in Optional([kvs : UNION {[keys -> Stored] : keys \in SUBSET Buffer}, count : Nat])
    BY <2>1, UnprefixedTyped, OptionalFacts DEF Undefined, Some
  <2> HIDE DEF own
  <2>3. /\ answered \in Calls /\ thrown \in Calls
        /\ responses # <<>> => shortened \in Calls
    BY <1>1, <2>2 DEF Calls, Status, Gathering, Reply0
  <2>4. SentAsTaken(answered) /\ SentAsTaken(shortened) /\ SentAsTaken(thrown)
    BY <1>1, <1>9 DEF Return, SentInv, SentAsTaken, SentOf, Calls
  <2>5. \/ calls' = [calls EXCEPT ![c] = answered]
        \/ responses # <<>> /\ calls' = [calls EXCEPT ![c] = shortened]
        \/ calls' = [calls EXCEPT ![c] = thrown]
    BY <1>9 DEF Return, BuildersInv, own
  <2> HIDE DEF answered, shortened, thrown, responses
  <2>6. calls' \in [Call -> Calls] /\ SentInv'
    BY <2>3, <2>4, <2>5, OneCall
  <2> QED BY <1>9, <2>6 DEF Return, BuildersInv
<1>10. CASE TakeFailure(c)
  <2> DEFINE call == [calls[c] EXCEPT !.status = "failure", !.failure = comparator.failure]
  <2>1. call \in Calls /\ SentAsTaken(call)
    BY <1>1 DEF Calls, Status, Gathering, SentAsTaken, BuildersInv
  <2>2. calls' = [calls EXCEPT ![c] = call]
    BY <1>10 DEF TakeFailure, BuildersInv
  <2> HIDE DEF call
  <2>3. calls' \in [Call -> Calls] /\ SentInv'
    BY <2>1, <2>2, OneCall
  <2> QED BY <1>10, <2>3 DEF TakeFailure, BuildersInv
<1>11. CASE TakeSuccess(c)
  <2> DEFINE call == [calls[c] EXCEPT !.status = "waiting", !.success = comparator.success]
  <2>1. call \in Calls /\ SentAsTaken(call)
    BY <1>1 DEF Calls, Status, Gathering, SentAsTaken, BuildersInv
  <2>2. calls' = [calls EXCEPT ![c] = call]
    BY <1>11 DEF TakeSuccess, BuildersInv
  <2> HIDE DEF call
  <2>3. calls' \in [Call -> Calls] /\ SentInv'
    BY <2>1, <2>2, OneCall
  <2> QED BY <1>11, <2>3 DEF TakeSuccess, BuildersInv
<1> QED BY <1>2, <1>3, <1>4, <1>5, <1>6, <1>7, <1>8, <1>9, <1>10, <1>11 DEF Step

LEMMA InvStep == BuildersInv /\ SentInv /\ [Next]_vars => BuildersInv' /\ SentInv'
<1> SUFFICES ASSUME BuildersInv, SentInv, [Next]_vars PROVE BuildersInv' /\ SentInv'
  OBVIOUS
<1>1. CASE Build
  BY <1>1, BuildInv
<1>2. CASE Others
  BY <1>2, OthersInv
<1>3. ASSUME NEW c \in Call, Step(c) PROVE BuildersInv' /\ SentInv'
  BY <1>3, StepInv
<1>4. CASE UNCHANGED vars
  BY <1>4 DEF vars, BuildersInv, SentInv
<1> QED BY <1>1, <1>2, <1>3, <1>4 DEF Next

LEMMA Invariant == Spec => [](BuildersInv /\ SentInv)
BY InitInv, InvStep, PTL DEF Spec

(***************************************************************************)
(* A request in the namespace and the same request in the private store    *)
(***************************************************************************)
\* What applyToRequest makes of the fields.
LEMMA AppliedFields ==
  ASSUME Prefix # emptyKey, NEW r \in Buildable
  PROVE  LET ar == applyToRequest(r) IN
         /\ ar \in Request
         /\ r.key = Undefined => ar.key = Undefined
         /\ r.key # Undefined => /\ r.key[1] \in Buffer
                                 /\ ar.key # Undefined
                                 /\ ar.key[1] = applyKey(Prefix, r.key[1])
         /\ r.range_end = Undefined => ar.range_end = Undefined
         /\ r.range_end # Undefined => /\ r.range_end[1] \in Buffer
                                       /\ RangesHaveEnds => r.range_end[1] # emptyKey
                                       /\ ar.range_end # Undefined
                                       /\ ar.range_end[1] = applyRangeEnd(Prefix, r.range_end[1])
         /\ ar.kind = r.kind /\ ar.value = r.value /\ ar.ignore_value = r.ignore_value
         /\ ar.keys_only = r.keys_only /\ ar.count_only = r.count_only /\ ar.prev_kv = r.prev_kv
<1> DEFINE ar == applyToRequest(r)
<1>1. r \in Request
  BY DEF Buildable
<1>2. ar \in Request
  BY <1>1, ApplyTyped
<1>3. ar = [r EXCEPT !.key = IF @ = Undefined THEN @ ELSE Some(applyKey(Prefix, @[1])),
                    !.range_end = IF @ = Undefined THEN @ ELSE Some(applyRangeEnd(Prefix, @[1]))]
  BY DEF applyToRequest
<1> HIDE DEF ar
<1>4. /\ r.key # Undefined => r.key[1] \in Buffer
      /\ r.range_end # Undefined => /\ r.range_end[1] \in Buffer
                                    /\ RangesHaveEnds => r.range_end[1] # emptyKey
  BY <1>1, RequestFields, OptionalFacts DEF Buildable
<1>5. /\ ar.key = IF r.key = Undefined THEN Undefined ELSE Some(applyKey(Prefix, r.key[1]))
      /\ ar.range_end = IF r.range_end = Undefined THEN Undefined
                        ELSE Some(applyRangeEnd(Prefix, r.range_end[1]))
      /\ ar.kind = r.kind /\ ar.value = r.value /\ ar.ignore_value = r.ignore_value
      /\ ar.keys_only = r.keys_only /\ ar.count_only = r.count_only /\ ar.prev_kv = r.prev_kv
  BY <1>1, <1>3 DEF Request
<1>6. \A x : Some(x) # Undefined /\ Some(x)[1] = x
  BY DEF Some, Undefined
<1> QED BY <1>2, <1>4, <1>5, <1>6 DEF ar

LEMMA WithinFacts ==
  ASSUME NEW st, IsStore(st)
  PROVE  /\ DOMAIN Within(st) = OwnKeys(DOMAIN st)
         /\ OwnKeys(DOMAIN st) \subseteq Buffer
         /\ \A k \in Buffer : k \in DOMAIN Within(st) <=> applyKey(Prefix, k) \in DOMAIN st
         /\ \A k \in DOMAIN Within(st) : Within(st)[k] = st[applyKey(Prefix, k)]
BY OwnKeysFacts DEF Within, IsStore

\* The request selects in the namespace what it would in the private store.
LEMMA MatchedWithin ==
  ASSUME Prefix # emptyKey, RangesHaveEnds,
         NEW st, IsStore(st), NEW r \in Buildable, r.key # Undefined
  PROVE  /\ Matched(Within(st), r) = OwnKeys(Matched(st, applyToRequest(r)))
         /\ \A k \in Matched(st, applyToRequest(r)) : HasPrefix(Prefix, k)
<1> DEFINE ar == applyToRequest(r)
           end == IF r.range_end = Undefined THEN emptyKey ELSE r.range_end[1]
           aend == IF ar.range_end = Undefined THEN emptyKey ELSE ar.range_end[1]
<1>1. /\ r.key[1] \in Buffer /\ ar.key[1] = applyKey(Prefix, r.key[1])
      /\ \/ end = emptyKey /\ aend = emptyKey
         \/ end \in Buffer \ {emptyKey} /\ aend = applyRangeEnd(Prefix, end)
  BY AppliedFields
<1> HIDE DEF ar, end, aend
<1>2. \A k \in Buffer : Selects(ar.key[1], aend, k)
                          <=> HasPrefix(Prefix, k) /\ Selects(r.key[1], end, unprefix(Prefix, k))
  BY <1>1, NamespaceSelects, PrefixIsBuffer
<1>3. /\ Matched(st, ar) = {k \in DOMAIN st : Selects(ar.key[1], aend, k)}
      /\ Matched(Within(st), r) = {k \in OwnKeys(DOMAIN st) : Selects(r.key[1], end, k)}
  BY WithinFacts DEF Matched, aend, end
<1>4. \A k \in Matched(st, ar) : HasPrefix(Prefix, k)
  BY <1>2, <1>3 DEF IsStore
<1>5. ASSUME NEW k \in Buffer
      PROVE  k \in Matched(Within(st), r) <=> applyKey(Prefix, k) \in Matched(st, ar)
  <2>1. /\ applyKey(Prefix, k) \in Buffer /\ HasPrefix(Prefix, applyKey(Prefix, k))
        /\ unprefix(Prefix, applyKey(Prefix, k)) = k
    BY PrefixIsBuffer, PrefixRoundTrip
  <2>2. k \in OwnKeys(DOMAIN st) <=> applyKey(Prefix, k) \in DOMAIN st
    BY OwnKeysFacts DEF IsStore
  <2> QED BY <1>2, <1>3, <2>1, <2>2
<1>6. Matched(st, ar) \in SUBSET Buffer /\ Matched(Within(st), r) \subseteq Buffer
  BY <1>3, WithinFacts DEF IsStore
<1>7. Matched(Within(st), r) = OwnKeys(Matched(st, ar))
  BY <1>5, <1>6, OwnKeysFacts
<1> QED BY <1>4, <1>7 DEF ar

LEMMA OwnKeysCardinality ==
  ASSUME NEW K \in SUBSET Buffer, IsFiniteSet(K), \A k \in K : HasPrefix(Prefix, k)
  PROVE  Cardinality(OwnKeys(K)) = Cardinality(K)
<1> DEFINE f == [k \in K |-> unprefix(Prefix, k)]
<1>1. OwnKeys(K) = {unprefix(Prefix, k) : k \in K}
  BY DEF OwnKeys
<1>2. \A j, k \in K : unprefix(Prefix, j) = unprefix(Prefix, k) => j = k
  BY PrefixIsBuffer, PrefixRoundTrip
<1>3. f \in Bijection(K, OwnKeys(K))
  BY <1>1, <1>2 DEF Bijection, Injection, Surjection, IsInjective
<1> HIDE DEF f
<1> QED BY <1>3, FS_Bijection DEF ExistsBijection

\* What the namespace and the private store say of one operation.
LEMMA MalformedWithin ==
  ASSUME Prefix # emptyKey, NEW r \in Buildable
  PROVE  Malformed(applyToRequest(r)) <=> Malformed(r)
BY AppliedFields DEF Malformed

LEMMA AbsentWithin ==
  ASSUME Prefix # emptyKey, NEW st, IsStore(st), NEW r \in Buildable, ~Malformed(r)
  PROVE  /\ applyToRequest(r).ignore_value = r.ignore_value
         /\ applyToRequest(r).key[1] \notin DOMAIN st <=> r.key[1] \notin DOMAIN Within(st)
BY AppliedFields, WithinFacts DEF Malformed

LEMMA AfterWithin ==
  ASSUME Prefix # emptyKey, RangesHaveEnds, NEW st, IsStore(st), NEW r \in Buildable, ~Malformed(r),
         r.ignore_value => applyToRequest(r).key[1] \in DOMAIN st
  PROVE  Within(After(st, applyToRequest(r))) = After(Within(st), r)
<1> DEFINE ar == applyToRequest(r)
<1>1. /\ r.key # Undefined /\ r.key[1] \in Buffer /\ ar.key[1] = applyKey(Prefix, r.key[1])
      /\ ar.key[1] \in Buffer
      /\ ar.kind = r.kind /\ ar.value = r.value /\ ar.ignore_value = r.ignore_value
  <2>1. /\ r.key # Undefined /\ r.key[1] \in Buffer /\ ar.key[1] = applyKey(Prefix, r.key[1])
        /\ ar.kind = r.kind /\ ar.value = r.value /\ ar.ignore_value = r.ignore_value
    BY AppliedFields DEF Malformed
  <2> QED BY <2>1, PrefixIsBuffer, PrefixRoundTrip
<1>2. \A j, k \in Buffer : applyKey(Prefix, j) = applyKey(Prefix, k) => j = k
  BY PrefixIsBuffer, PrefixRoundTrip
<1>3. /\ Matched(Within(st), r) = OwnKeys(Matched(st, ar))
      /\ Matched(st, ar) \subseteq DOMAIN st
  BY <1>1, MatchedWithin DEF Matched
<1> HIDE DEF ar
<1>4. CASE r.kind = "put"
  <2> DEFINE k0 == r.key[1]
             p0 == ar.key[1]
             keys == OwnKeys(DOMAIN st \cup {p0})
  <2>1. DOMAIN st \cup {p0} \in SUBSET Buffer
    BY <1>1 DEF IsStore
  <2>2. keys = DOMAIN Within(st) \cup {k0}
    <3>1. keys \subseteq Buffer /\ DOMAIN Within(st) \cup {k0} \subseteq Buffer
      BY <1>1, <2>1, OwnKeysFacts, WithinFacts
    <3>2. ASSUME NEW k \in Buffer PROVE k \in keys <=> k \in DOMAIN Within(st) \cup {k0}
      <4>1. k \in keys <=> applyKey(Prefix, k) \in DOMAIN st \cup {p0}
        BY <2>1, OwnKeysFacts
      <4>2. applyKey(Prefix, k) = p0 <=> k = k0
        BY <1>1, <1>2
      <4> QED BY <4>1, <4>2, WithinFacts
    <3> QED BY <3>1, <3>2
  <2>3. Within(Put(st, ar)) = [k \in keys |-> IF applyKey(Prefix, k) = p0 /\ ~ar.ignore_value
                                              THEN ar.value ELSE st[applyKey(Prefix, k)]]
    <3>1. Put(st, ar) = [k \in DOMAIN st \cup {p0} |-> IF k = p0 /\ ~ar.ignore_value THEN ar.value ELSE st[k]]
      BY DEF Put
    <3>2. \A k \in keys : applyKey(Prefix, k) \in DOMAIN st \cup {p0}
      BY <2>1, OwnKeysFacts
    <3> QED BY <3>1, <3>2 DEF Within
  <2>4. Put(Within(st), r) = [k \in keys |-> IF k = k0 /\ ~r.ignore_value THEN r.value ELSE Within(st)[k]]
    BY <2>2 DEF Put
  <2>5. ASSUME NEW k \in keys
        PROVE  (IF applyKey(Prefix, k) = p0 /\ ~ar.ignore_value THEN ar.value ELSE st[applyKey(Prefix, k)])
               = (IF k = k0 /\ ~r.ignore_value THEN r.value ELSE Within(st)[k])
    <3>1. k \in Buffer
      BY <2>1, OwnKeysFacts
    <3>2. applyKey(Prefix, k) = p0 <=> k = k0
      BY <1>1, <1>2, <3>1
    <3>3. CASE k \in DOMAIN Within(st)
      BY <1>1, <3>2, <3>3, WithinFacts
    <3>4. CASE k \notin DOMAIN Within(st)
      <4>1. k = k0
        BY <2>2, <3>4
      <4>2. ~r.ignore_value
        BY <1>1, <3>1, <3>4, <4>1, WithinFacts DEF ar
      <4> QED BY <1>1, <3>2, <4>1, <4>2
    <3> QED BY <3>3, <3>4
  <2> HIDE DEF keys, k0, p0
  <2>6. Within(Put(st, ar)) = Put(Within(st), r)
    BY <2>3, <2>4, <2>5
  <2> QED BY <1>1, <1>4, <2>6 DEF After, ar
<1>5. CASE r.kind = "delete"
  <2> DEFINE rest == DOMAIN st \ Matched(st, ar)
  <2>1. rest \in SUBSET Buffer /\ Matched(st, ar) \in SUBSET Buffer
    BY <1>3 DEF IsStore
  <2>2. OwnKeys(rest) = DOMAIN Within(st) \ Matched(Within(st), r)
    <3>1. OwnKeys(rest) \subseteq Buffer /\ DOMAIN Within(st) \subseteq Buffer
      BY <2>1, OwnKeysFacts, WithinFacts
    <3>2. \A k \in Buffer : /\ k \in OwnKeys(rest) <=> applyKey(Prefix, k) \in rest
                            /\ k \in Matched(Within(st), r) <=> applyKey(Prefix, k) \in Matched(st, ar)
      BY <1>3, <2>1, OwnKeysFacts
    <3> QED BY <3>1, <3>2, WithinFacts
  <2>3. \A k \in OwnKeys(rest) : applyKey(Prefix, k) \in rest /\ Within(st)[k] = st[applyKey(Prefix, k)]
    BY <2>1, <2>2, OwnKeysFacts, WithinFacts
  <2>4. After(st, ar) = [k \in rest |-> st[k]]
    BY <1>1, <1>5 DEF After
  <2> HIDE DEF rest
  <2>5. Within(After(st, ar)) = [k \in OwnKeys(rest) |-> st[applyKey(Prefix, k)]]
    BY <2>3, <2>4 DEF Within
  <2>6. After(Within(st), r) = [k \in OwnKeys(rest) |-> Within(st)[k]]
    BY <1>5, <2>2 DEF After
  <2> QED BY <2>3, <2>5, <2>6 DEF ar
<1>6. CASE r.kind # "put" /\ r.kind # "delete"
  BY <1>1, <1>6 DEF After, ar
<1> QED BY <1>4, <1>5, <1>6

LEMMA ReplyWithin ==
  ASSUME Prefix # emptyKey, RangesHaveEnds, NEW st, IsStore(st), NEW r \in Buildable, ~Malformed(r)
  PROVE  /\ Unprefixed(Reply(st, applyToRequest(r))) = Reply(Within(st), r)
         /\ \A k \in DOMAIN Reply(st, applyToRequest(r)).kvs : HasPrefix(Prefix, k)
<1> DEFINE ar == applyToRequest(r)
           M == Matched(st, ar)
           S == Shown(st, ar)
           kvs == [k \in S |-> IF ar.keys_only THEN noValue ELSE st[k]]
<1>1. /\ r.key # Undefined /\ ar.kind = r.kind /\ ar.keys_only = r.keys_only
      /\ ar.count_only = r.count_only /\ ar.prev_kv = r.prev_kv
  BY AppliedFields DEF Malformed
<1>2. /\ Matched(Within(st), r) = OwnKeys(M)
      /\ M \subseteq DOMAIN st /\ \A k \in M : HasPrefix(Prefix, k)
  BY <1>1, MatchedWithin DEF Matched
<1>3. Cardinality(Matched(Within(st), r)) = Cardinality(M)
  BY <1>2, OwnKeysCardinality, FS_Subset DEF IsStore
<1>4. Shown(Within(st), r) = OwnKeys(S) /\ S \subseteq M
  <2>1. OwnKeys({}) = {}
    BY DEF OwnKeys
  <2> QED BY <1>1, <1>2, <2>1 DEF Shown
<1>5. S \in SUBSET Buffer
  BY <1>2, <1>4 DEF IsStore
<1>6. ASSUME NEW k \in OwnKeys(S)
      PROVE  applyKey(Prefix, k) \in S /\ Within(st)[k] = st[applyKey(Prefix, k)]
  <2>1. k \in Buffer /\ applyKey(Prefix, k) \in S
    BY <1>5, OwnKeysFacts
  <2>2. k \in DOMAIN Within(st)
    BY <1>2, <1>4, <2>1, WithinFacts
  <2> QED BY <2>1, <2>2, WithinFacts
<1>7. Reply(st, ar) = [kvs |-> kvs, count |-> IF r.kind = "put" THEN 0 ELSE Cardinality(M)]
  BY <1>1 DEF Reply
<1> HIDE DEF M, S, ar
<1>8. Within(kvs) = [k \in OwnKeys(S) |-> IF r.keys_only THEN noValue ELSE Within(st)[k]]
  BY <1>1, <1>6 DEF Within
<1>9. Reply(Within(st), r) = [kvs |-> Within(kvs), count |-> IF r.kind = "put" THEN 0 ELSE Cardinality(M)]
  BY <1>3, <1>4, <1>8 DEF Reply
<1>10. \A k \in DOMAIN Reply(st, ar).kvs : HasPrefix(Prefix, k)
  BY <1>2, <1>4, <1>7
<1> HIDE DEF kvs
<1>11. Unprefixed(Reply(st, ar)) = Reply(Within(st), r)
  BY <1>7, <1>9 DEF Unprefixed
<1> QED BY <1>10, <1>11 DEF ar

\* What a call asks of the private store, and how its answer reads there.
WhatOf(call) ==
    [compare |-> {unprefix(Prefix, k) : k \in call.compare},
     success |-> Built(call.success), failure |-> Built(call.failure)]

OwnReply(reply) ==
    [refused |-> reply.refused,
     responses |-> IF reply.responses = <<>> THEN reply.responses
                   ELSE <<Unprefixed(reply.responses[1])>>]

LEMMA BranchFacts ==
  ASSUME NEW branch \in Optional(Taken)
  PROVE  /\ branch = Undefined => AppliedOf(branch) = Undefined /\ Built(branch) = Undefined
         /\ branch # Undefined =>
              \E r \in Buildable : /\ Built(branch) = Some(r) /\ Built(branch)[1] = r
                                   /\ AppliedOf(branch) = Some(applyToRequest(r))
                                   /\ AppliedOf(branch)[1] = applyToRequest(r)
                                   /\ Built(branch) # Undefined /\ AppliedOf(branch) # Undefined
<1>1. CASE branch = Undefined
  BY <1>1 DEF AppliedOf, Built
<1>2. CASE branch # Undefined
  <2>1. branch[1] \in Taken
    BY <1>2, OptionalFacts
  <2>2. branch[1].built \in Buildable /\ branch[1].applied = applyToRequest(branch[1].built)
    BY <2>1, TakenTyped
  <2>3. \A x : Some(x) # Undefined /\ Some(x)[1] = x
    BY DEF Some, Undefined
  <2> QED BY <1>2, <2>2, <2>3 DEF AppliedOf, Built
<1> QED BY <1>1, <1>2

\* etcd serves what a call of the namespace sends as the private store would
\* serve what it asked.
LEMMA ServeWithin ==
  ASSUME Prefix # emptyKey, RangesHaveEnds, NEW st, IsStore(st), NEW call \in Calls
  PROVE  /\ Within(AfterTxn(st, SentOf(call))) = AfterTxn(Within(st), WhatOf(call))
         /\ OwnReply(ReplyTxn(st, SentOf(call))) = ReplyTxn(Within(st), WhatOf(call))
         /\ \A i \in DOMAIN ReplyTxn(st, SentOf(call)).responses :
              \A k \in DOMAIN ReplyTxn(st, SentOf(call)).responses[i].kvs : HasPrefix(Prefix, k)
<1> DEFINE s == SentOf(call)
           w == WhatOf(call)
           branch == IF s.compare \cap DOMAIN st = {} THEN call.success ELSE call.failure
<1>1. call.success \in Optional(Taken) /\ call.failure \in Optional(Taken) /\ call.compare \in SUBSET NamespaceKey
  BY DEF Calls
<1>2. Chosen(st, s) = AppliedOf(branch)
  BY DEF Chosen, SentOf
<1>3. w.compare \cap DOMAIN Within(st) = {} <=> s.compare \cap DOMAIN st = {}
  <2>1. \A k \in call.compare : /\ k \in Buffer /\ unprefix(Prefix, k) \in Buffer
                                /\ applyKey(Prefix, unprefix(Prefix, k)) = k
    BY <1>1, KeysOfNamespace, PrefixIsBuffer, PrefixRoundTrip
  <2>2. \A k \in call.compare : unprefix(Prefix, k) \in DOMAIN Within(st) <=> k \in DOMAIN st
    BY <2>1, WithinFacts
  <2>3. s.compare = call.compare /\ w.compare = {unprefix(Prefix, k) : k \in call.compare}
    BY DEF SentOf, WhatOf
  <2> QED BY <2>2, <2>3
<1>4. Chosen(Within(st), w) = Built(branch)
  BY <1>3 DEF Chosen, WhatOf
<1>5. branch \in Optional(Taken)
  BY <1>1
<1>6. ASSUME NEW b \in Optional(Taken)
      PROVE  (AppliedOf(b) # Undefined /\ Malformed(AppliedOf(b)[1]))
             <=> (Built(b) # Undefined /\ Malformed(Built(b)[1]))
  BY BranchFacts, MalformedWithin
<1>7. s.success = AppliedOf(call.success) /\ s.failure = AppliedOf(call.failure)
      /\ w.success = Built(call.success) /\ w.failure = Built(call.failure)
  BY DEF SentOf, WhatOf
<1> HIDE DEF s, w, branch
<1>8. (\E b \in {s.success, s.failure} : b # Undefined /\ Malformed(b[1]))
      <=> (\E b \in {w.success, w.failure} : b # Undefined /\ Malformed(b[1]))
  BY <1>1, <1>6, <1>7
<1>9. CASE branch = Undefined
  <2>1. Chosen(st, s) = Undefined /\ Chosen(Within(st), w) = Undefined
    BY <1>2, <1>4, <1>5, <1>9, BranchFacts
  <2>2. RefusedTxn(st, s) <=> RefusedTxn(Within(st), w)
    BY <1>8, <2>1 DEF RefusedTxn
  <2>3. AfterTxn(st, s) = st /\ AfterTxn(Within(st), w) = Within(st)
    BY <2>1 DEF AfterTxn
  <2>4. /\ ReplyTxn(st, s) = [refused |-> RefusedTxn(st, s), responses |-> <<>>]
        /\ ReplyTxn(Within(st), w) = [refused |-> RefusedTxn(Within(st), w), responses |-> <<>>]
    BY <2>1 DEF ReplyTxn
  <2>5. RefusedTxn(st, s) = RefusedTxn(Within(st), w)
    BY <2>2 DEF RefusedTxn
  <2> QED BY <2>3, <2>4, <2>5 DEF OwnReply, s, w
<1>10. CASE branch # Undefined
  <2>1. PICK r \in Buildable : /\ Chosen(st, s) # Undefined /\ Chosen(Within(st), w) # Undefined
                              /\ Chosen(st, s)[1] = applyToRequest(r)
                              /\ Chosen(Within(st), w)[1] = r
                              /\ Chosen(st, s) \in {s.success, s.failure}
    <3>1. Chosen(st, s) \in {s.success, s.failure}
      BY DEF Chosen
    <3> QED BY <1>2, <1>4, <1>5, <1>10, <3>1, BranchFacts
  <2> DEFINE bad == \E b \in {s.success, s.failure} : b # Undefined /\ Malformed(b[1])
  <2>2. RefusedTxn(st, s) <=> RefusedTxn(Within(st), w)
    <3>1. CASE bad
      BY <1>8, <3>1 DEF RefusedTxn
    <3>2. CASE ~bad
      <4>1. ~Malformed(r)
        BY <2>1, <3>2, MalformedWithin
      <4>2. /\ RefusedTxn(st, s) <=> /\ applyToRequest(r).ignore_value
                                    /\ applyToRequest(r).key[1] \notin DOMAIN st
            /\ RefusedTxn(Within(st), w) <=> r.ignore_value /\ r.key[1] \notin DOMAIN Within(st)
        BY <1>8, <2>1, <3>2 DEF RefusedTxn
      <4> HIDE DEF bad
      <4> QED BY <4>1, <4>2, AbsentWithin
    <3> QED BY <3>1, <3>2
  <2>4. RefusedTxn(st, s) = RefusedTxn(Within(st), w)
    BY <2>2 DEF RefusedTxn
  <2>5. CASE RefusedTxn(st, s)
    <3>1. AfterTxn(st, s) = st /\ AfterTxn(Within(st), w) = Within(st)
      BY <2>4, <2>5 DEF AfterTxn
    <3>2. /\ ReplyTxn(st, s) = [refused |-> RefusedTxn(st, s), responses |-> <<>>]
          /\ ReplyTxn(Within(st), w) = [refused |-> RefusedTxn(Within(st), w), responses |-> <<>>]
      BY <2>4, <2>5 DEF ReplyTxn
    <3> QED BY <2>4, <3>1, <3>2 DEF OwnReply, s, w
  <2>6. CASE ~RefusedTxn(st, s)
    <3>1. ~Malformed(applyToRequest(r)) /\ ~Malformed(r)
      BY <2>1, <2>6, MalformedWithin DEF RefusedTxn
    <3>2. r.ignore_value => applyToRequest(r).key[1] \in DOMAIN st
      BY <2>1, <2>6, AppliedFields DEF RefusedTxn
    <3>3. AfterTxn(st, s) = After(st, applyToRequest(r)) /\ AfterTxn(Within(st), w) = After(Within(st), r)
      BY <2>1, <2>4, <2>6 DEF AfterTxn
    <3>4. /\ ReplyTxn(st, s) = [refused |-> RefusedTxn(st, s), responses |-> <<Reply(st, applyToRequest(r))>>]
          /\ ReplyTxn(Within(st), w) = [refused |-> RefusedTxn(Within(st), w),
                                        responses |-> <<Reply(Within(st), r)>>]
      BY <2>1, <2>4, <2>6 DEF ReplyTxn
    <3>5. Within(AfterTxn(st, s)) = AfterTxn(Within(st), w)
      BY <3>1, <3>2, <3>3, AfterWithin
    <3>6. OwnReply(ReplyTxn(st, s)) = ReplyTxn(Within(st), w)
      BY <2>4, <3>1, <3>4, ReplyWithin DEF OwnReply
    <3>7. \A i \in DOMAIN ReplyTxn(st, s).responses :
             \A k \in DOMAIN ReplyTxn(st, s).responses[i].kvs : HasPrefix(Prefix, k)
      BY <3>1, <3>4, ReplyWithin
    <3> QED BY <3>5, <3>6, <3>7 DEF s, w
  <2> QED BY <2>5, <2>6
<1> QED BY <1>9, <1>10

(***************************************************************************)
(* No request leaves its namespace                                         *)
(***************************************************************************)
\* A single key range can only reach outside if the prefix is the byte 0.
ReachesInside == Prefix # zeroKey \/ RangesHaveEnds

LEMMA MatchedInside ==
  ASSUME Prefix # emptyKey, ReachesInside, NEW st, IsStore(st), NEW r \in Buildable, r.key # Undefined
  PROVE  \A k \in Matched(st, applyToRequest(r)) : HasPrefix(Prefix, k)
<1> DEFINE ar == applyToRequest(r)
           end == IF r.range_end = Undefined THEN emptyKey ELSE r.range_end[1]
           aend == IF ar.range_end = Undefined THEN emptyKey ELSE ar.range_end[1]
<1>1. /\ r.key[1] \in Buffer /\ ar.key[1] = applyKey(Prefix, r.key[1])
      /\ \/ aend = emptyKey
         \/ end \in Buffer /\ aend = applyRangeEnd(Prefix, end) /\ (RangesHaveEnds => end # emptyKey)
  BY AppliedFields
<1>2. Matched(st, ar) = {k \in DOMAIN st : Selects(ar.key[1], aend, k)}
  BY DEF Matched, aend
<1> HIDE DEF ar, end, aend
<1>3. Prefix \in Buffer \ {emptyKey}
  BY PrefixIsBuffer
<1>4. ASSUME NEW k \in Buffer, Selects(ar.key[1], aend, k) PROVE HasPrefix(Prefix, k)
  <2>1. CASE aend = emptyKey
    <3>1. zeroKey \in Buffer /\ zeroKey # emptyKey
      BY ByteAssumption DEF zeroKey, emptyKey, Buffer, Byte
    <3> QED BY <1>1, <1>3, <1>4, <2>1, <3>1, NamespaceInside
  <2>2. CASE aend # emptyKey
    BY <1>1, <1>3, <1>4, <2>2, NamespaceInside DEF ReachesInside
  <2> QED BY <2>1, <2>2
<1> QED BY <1>2, <1>4 DEF ar, IsStore

LEMMA AfterInside ==
  ASSUME Prefix # emptyKey, ReachesInside, NEW st, IsStore(st), NEW r \in Buildable, ~Malformed(r),
         NEW k, ~HasPrefix(Prefix, k)
  PROVE  /\ k \in DOMAIN After(st, applyToRequest(r)) <=> k \in DOMAIN st
         /\ k \in DOMAIN st => After(st, applyToRequest(r))[k] = st[k]
<1> DEFINE ar == applyToRequest(r)
<1>1. /\ r.key # Undefined /\ ar.key[1] = applyKey(Prefix, r.key[1]) /\ r.key[1] \in Buffer
  BY AppliedFields DEF Malformed
<1>2. HasPrefix(Prefix, ar.key[1])
  BY <1>1, PrefixIsBuffer, PrefixRoundTrip
<1>3. k \notin Matched(st, ar)
  BY <1>1, MatchedInside
<1> HIDE DEF ar
<1>4. k # ar.key[1]
  BY <1>2
<1> QED BY <1>3, <1>4 DEF After, Put, ar

LEMMA StepInside ==
  ASSUME ReachesInside, BuildersInv, SentInv, NEW c \in Call, Serve(c)
  PROVE  Outside' = Outside
<1>1. CASE Prefix = emptyKey
  <2>1. \A k \in Buffer : HasPrefix(Prefix, k)
    BY <1>1, BufferFacts DEF HasPrefix, emptyKey
  <2>2. IsStore(store')
    BY ServeInv DEF BuildersInv, IsStore
  <2>3. {k \in DOMAIN store : ~HasPrefix(Prefix, k)} = {} /\ {k \in DOMAIN store' : ~HasPrefix(Prefix, k)} = {}
    BY <2>1, <2>2 DEF BuildersInv, IsStore
  <2> QED BY <2>3 DEF Outside
<1>2. CASE Prefix # emptyKey
  <2> DEFINE call == calls[c]
             t == SentOf(call)
  <2>1. /\ IsStore(store) /\ call \in Calls
        /\ calls[c].sent = t /\ store' = AfterTxn(store, t)
    BY <1>2 DEF BuildersInv, IsStore, Serve, SentInv
  <2>2. ASSUME NEW k, ~HasPrefix(Prefix, k)
        PROVE  /\ k \in DOMAIN store' <=> k \in DOMAIN store
               /\ k \in DOMAIN store => store'[k] = store[k]
    <3>1. CASE RefusedTxn(store, t) \/ Chosen(store, t) = Undefined
      BY <2>1, <3>1 DEF AfterTxn
    <3>2. CASE ~RefusedTxn(store, t) /\ Chosen(store, t) # Undefined
      <4>1. PICK b \in Optional(Taken) : Chosen(store, t) = AppliedOf(b) /\ b \in {call.success, call.failure}
                                        /\ Chosen(store, t) \in {t.success, t.failure}
        BY <2>1 DEF Chosen, SentOf, Calls
      <4>2. PICK r \in Buildable : Chosen(store, t)[1] = applyToRequest(r)
        BY <3>2, <4>1, BranchFacts
      <4>3. ~Malformed(applyToRequest(r))
        BY <3>2, <4>1, <4>2 DEF RefusedTxn
      <4>4. ~Malformed(r)
        BY <1>2, <4>3, MalformedWithin
      <4>5. store' = After(store, applyToRequest(r))
        BY <2>1, <3>2, <4>2 DEF AfterTxn
      <4> QED BY <1>2, <2>1, <2>2, <4>4, <4>5, AfterInside
    <3> QED BY <3>1, <3>2
  <2>3. {k \in DOMAIN store' : ~HasPrefix(Prefix, k)} = {k \in DOMAIN store : ~HasPrefix(Prefix, k)}
    BY <2>2
  <2> QED BY <2>2, <2>3 DEF Outside
<1> QED BY <1>1, <1>2

\* A namespace never changes a key outside of it, whatever the ranges its requests
\* are built with, unless its prefix is the single byte 0: then only if all ranges
\* of the program have an end.
THEOREM NamespaceStaysInside ==
  ASSUME Prefix # zeroKey \/ RangesHaveEnds
  PROVE  Spec => StaysInside
<1>0. ReachesInside
  BY DEF ReachesInside
<1>1. BuildersInv /\ SentInv /\ [Next]_vars => [Outside' = Outside \/ others' = others + 1]_vars
  <2> SUFFICES ASSUME BuildersInv, SentInv, Next PROVE Outside' = Outside \/ others' = others + 1
    OBVIOUS
  <2>1. CASE Others
    BY <2>1 DEF Others
  <2>2. ASSUME NEW c \in Call, Serve(c) PROVE Outside' = Outside
    BY <1>0, <2>2, StepInside
  <2>3. CASE UNCHANGED store
    BY <2>3 DEF Outside
  <2>4. Build => UNCHANGED store
    BY DEF Build, SetKey, And, InRange, SetValue, Then, Else
  <2>5. ASSUME NEW c \in Call, Step(c), ~Serve(c) PROVE UNCHANGED store
    BY <2>5 DEF Step, ExecNow, ExecPut, LeaseReady, Commit, TakeFailure, TakeSuccess,
       Send, Lose, Return
  <2> QED BY <2>1, <2>2, <2>3, <2>4, <2>5 DEF Next
<1> QED BY <1>1, Invariant, PTL DEF StaysInside, Spec

(***************************************************************************)
(* The refinement                                                          *)
(***************************************************************************)
\* What the replies are worth in each state of a call with a prefix.
ReplySettled(call) ==
    /\ call.status \in Gathering \cup {"waiting", "sent", "failed"} => call.reply = NoCall.reply
    /\ call.status = "served" =>
         \A i \in DOMAIN call.reply.responses :
           \A k \in DOMAIN call.reply.responses[i].kvs : HasPrefix(Prefix, k)
    /\ call.status # "thrown"

ReplyInv == \A c \in Call : ReplySettled(calls[c])

LEMMA InitReply == Init => ReplyInv
<1>1. ReplySettled(NoCall)
  BY DEF ReplySettled, NoCall
<1> QED BY <1>1 DEF Init, ReplyInv, ReplySettled

\* Serving a call of a namespace, in the terms of its invariant.
LEMMA ServeFacts ==
  ASSUME Prefix # emptyKey, BuildersInv, SentInv, NEW c \in Call, Serve(c)
  PROVE  LET t == SentOf(calls[c]) IN
         /\ IsStore(store) /\ calls[c] \in Calls
         /\ store' = AfterTxn(store, t)
         /\ calls' = [calls EXCEPT ![c] = [calls[c] EXCEPT !.status = "served",
                                                          !.reply = ReplyTxn(store, t)]]
<1>1. IsStore(store) /\ calls[c] \in Calls
  BY DEF BuildersInv, IsStore
<1>2. calls[c].sent = SentOf(calls[c])
  BY DEF Serve, SentInv
<1> QED BY <1>1, <1>2 DEF Serve, BuildersInv

LEMMA Settled ==
  ASSUME NEW call
  PROVE  /\ call.status = "answered" => ReplySettled(call)
         /\ /\ call.status = "served"
            /\ \A i \in DOMAIN call.reply.responses :
                 \A k \in DOMAIN call.reply.responses[i].kvs : HasPrefix(Prefix, k)
            => ReplySettled(call)
BY DEF ReplySettled, Gathering

LEMMA ReplyStep ==
  ASSUME Prefix # emptyKey, RangesHaveEnds, BuildersInv, SentInv, ReplyInv, [Next]_vars
  PROVE  ReplyInv'
<1>1. CASE UNCHANGED calls
  BY <1>1 DEF ReplyInv, ReplySettled
<1>2. ASSUME NEW c \in Call, Step(c) PROVE ReplySettled(calls'[c]) /\ \A d \in Call \ {c} : calls'[d] = calls[d]
  <2>1. calls[c] \in Calls /\ DOMAIN calls = Call /\ ReplySettled(calls[c])
    BY DEF BuildersInv, ReplyInv
  <2>2. \A d \in Call \ {c} : calls'[d] = calls[d]
    BY <1>2, <2>1 DEF Step, ExecNow, ExecPut, LeaseReady, Commit, TakeFailure, TakeSuccess,
       Send, Serve, Lose, Return
  <2>3. CASE ExecNow(c)
    BY <2>1, <2>3 DEF ExecNow, ReplySettled, NoCall, Calls, Gathering
  <2>4. CASE ExecPut(c)
    BY <2>1, <2>4 DEF ExecPut, ReplySettled, NoCall, Calls, Gathering
  <2>5. CASE LeaseReady(c)
    BY <2>1, <2>5 DEF LeaseReady, ReplySettled, NoCall, Calls, Gathering
  <2>6. CASE Commit(c)
    BY <2>1, <2>6 DEF Commit, ReplySettled, NoCall, Calls, Gathering
  <2>11. CASE TakeFailure(c)
    BY <2>1, <2>11 DEF TakeFailure, ReplySettled, Calls, Gathering
  <2>12. CASE TakeSuccess(c)
    BY <2>1, <2>12 DEF TakeSuccess, ReplySettled, Calls, Gathering
  <2>7. CASE Send(c)
    BY <2>1, <2>7 DEF Send, ReplySettled, Calls, Gathering
  <2>8. CASE Serve(c)
    <3>1. calls'[c] = [calls[c] EXCEPT !.status = "served", !.reply = ReplyTxn(store, SentOf(calls[c]))]
      BY <2>1, <2>8, ServeFacts
    <3>2. \A i \in DOMAIN ReplyTxn(store, SentOf(calls[c])).responses :
             \A k \in DOMAIN ReplyTxn(store, SentOf(calls[c])).responses[i].kvs : HasPrefix(Prefix, k)
      BY <2>1, <2>8, ServeFacts, ServeWithin
    <3>3. calls'[c].status = "served" /\ calls'[c].reply = ReplyTxn(store, SentOf(calls[c]))
      BY <2>1, <3>1 DEF Calls
    <3> QED BY <2>2, <3>2, <3>3, Settled
  <2>9. CASE Lose(c)
    BY <2>1, <2>9 DEF Lose, ReplySettled, Calls, Gathering
  <2>10. CASE Return(c)
    <3>1. calls[c].reply.responses # <<>> =>
            \A p \in DOMAIN calls[c].reply.responses[1].kvs : HasPrefix(Prefix, p)
      <4>1. calls[c].reply.responses # <<>> => 1 \in DOMAIN calls[c].reply.responses
        BY <2>1 DEF Calls, Reply0, Optional, Undefined
      <4> QED BY <2>1, <2>10, <4>1 DEF Return, ReplySettled
    <3>2. calls'[c].status = "answered"
      BY <2>1, <2>10, <3>1 DEF Return, Calls
    <3> QED BY <2>2, <3>2, Settled
  <2> QED BY <1>2, <2>2, <2>3, <2>4, <2>5, <2>6, <2>7, <2>8, <2>9, <2>10,
       <2>11, <2>12 DEF Step
<1>3. ASSUME NEW c \in Call, Step(c) PROVE ReplyInv'
  BY <1>2, <1>3 DEF ReplyInv, ReplySettled
<1>4. Build \/ Others => UNCHANGED calls
  BY DEF Build, SetKey, And, InRange, SetValue, Then, Else, Others
<1> QED BY <1>1, <1>3, <1>4 DEF Next, vars

\* A call, as the private store has it.
GetAll(call) == call.compare = {} /\ call.success[1].built.kind = "getAll"

AskOf(call) ==
    [status |-> CASE call.status \in Gathering -> "unasked"
                  [] call.status \in {"waiting", "sent"} -> "asked"
                  [] OTHER -> call.status,
     what |-> IF call.status \in Gathering
              THEN [compare |-> {}, success |-> Undefined, failure |-> Undefined] ELSE WhatOf(call),
     reply |-> [refused |-> call.reply.refused,
                responses |-> IF call.reply.responses = <<>> \/ (call.status = "answered" /\ GetAll(call))
                              THEN call.reply.responses
                              ELSE <<Unprefixed(call.reply.responses[1])>>]]

Asks == [c \in Call |-> AskOf(calls[c])]

LEMMA AsksAreOwn ==
  /\ Asks = [c \in Call |-> OwnAsk(c)]
  /\ Asks' = [c \in Call |-> OwnAsk(c)]'
BY DEF Asks, AskOf, OwnAsk, OwnResponses, IsGetAll, GetAll, WhatOf

\* The private store is served by the same etcd.
LEMMA SameEtcd ==
  /\ Private!Transaction = Transaction
  /\ \A st, t : Private!AfterTxn(st, t) = AfterTxn(st, t)
  /\ \A st, t : Private!ReplyTxn(st, t) = ReplyTxn(st, t)
<1>1. Private!Buffer = Buffer /\ Private!emptyKey = emptyKey /\ Private!Undefined = Undefined
  BY DEF Private!Buffer, Buffer, Private!Byte, Byte, Private!emptyKey, emptyKey, Private!Undefined, Undefined
<1>2. Private!Transaction = Transaction
  BY <1>1 DEF Private!Transaction, Transaction, Private!Request, Request, Private!Kind, Kind,
     Private!Optional, Optional
<1>3. \A key, end, k : Private!Selects(key, end, k) <=> Selects(key, end, k)
  BY DEF Private!Selects, Selects, Private!Before, Before, Private!HasPrefix, HasPrefix,
     Private!emptyKey, emptyKey, Private!zeroKey, zeroKey
<1>4. \A st, r : Private!Matched(st, r) = Matched(st, r)
  BY <1>1, <1>3 DEF Private!Matched, Matched
<1>5. \A st, r : Private!Malformed(r) <=> Malformed(r)
  BY <1>1 DEF Private!Malformed, Malformed
<1>6. \A st, r : Private!After(st, r) = After(st, r)
  BY <1>4 DEF Private!After, After, Private!Put, Put
<1>7. \A st, r : Private!Reply(st, r) = Reply(st, r)
  <2>1. \A S : Private!Cardinality(S) = Cardinality(S)
    BY DEF Private!Cardinality, Cardinality, Private!IsFiniteSet, IsFiniteSet
  <2> QED BY <1>4, <2>1 DEF Private!Reply, Reply, Private!Shown, Shown
<1>8. \A st, t : Private!Chosen(st, t) = Chosen(st, t)
  BY DEF Private!Chosen, Chosen
<1>9. \A st, t : Private!RefusedTxn(st, t) = RefusedTxn(st, t)
  BY <1>1, <1>5, <1>8 DEF Private!RefusedTxn, RefusedTxn
<1>10. \A st, t : Private!AfterTxn(st, t) = AfterTxn(st, t)
  BY <1>1, <1>6, <1>8, <1>9 DEF Private!AfterTxn, AfterTxn
<1>11. \A st, t : Private!ReplyTxn(st, t) = ReplyTxn(st, t)
  BY <1>1, <1>7, <1>8, <1>9 DEF Private!ReplyTxn, ReplyTxn
<1> QED BY <1>2, <1>10, <1>11

LEMMA AsksFacts ==
  ASSUME BuildersInv, NEW c \in Call, NEW call, calls' = [calls EXCEPT ![c] = call]
  PROVE  /\ Asks[c] = AskOf(calls[c]) /\ DOMAIN Asks = Call
         /\ Asks'[c] = AskOf(call)
         /\ Asks' = [Asks EXCEPT ![c] = AskOf(call)]
         /\ \A d \in Call \ {c} : Asks'[d] = Asks[d]
<1>1. DOMAIN calls = Call
  BY DEF BuildersInv
<1>2. calls'[c] = call /\ \A d \in Call \ {c} : calls'[d] = calls[d]
  BY <1>1
<1>3. Asks' = [d \in Call |-> AskOf(calls'[d])]
  BY DEF Asks, AskOf, WhatOf, GetAll, Built, Unprefixed, Within, OwnKeys
<1>4. Asks = [d \in Call |-> AskOf(calls[d])]
  BY DEF Asks
<1>5. \A d \in Call : Asks[d] = AskOf(calls[d]) /\ Asks'[d] = AskOf(calls'[d])
  BY <1>3, <1>4
<1>6. \A d \in Call \ {c} : Asks'[d] = Asks[d]
  BY <1>2, <1>5
<1>7. Asks'[c] = AskOf(call) /\ Asks[c] = AskOf(calls[c])
  BY <1>2, <1>5
<1>8. Asks' = [Asks EXCEPT ![c] = AskOf(call)]
  BY <1>3, <1>4, <1>6, <1>7
<1> QED BY <1>4, <1>6, <1>7, <1>8

LEMMA WhatTyped ==
  ASSUME NEW call \in Calls
  PROVE  WhatOf(call) \in Transaction
<1>1. call.compare \in SUBSET NamespaceKey /\ call.success \in Optional(Taken)
      /\ call.failure \in Optional(Taken)
  BY DEF Calls
<1>2. {unprefix(Prefix, k) : k \in call.compare} \in SUBSET Buffer
  <2>1. \A k \in call.compare : unprefix(Prefix, k) \in Buffer
    BY <1>1, KeysOfNamespace, PrefixIsBuffer, PrefixRoundTrip
  <2> QED BY <2>1
<1>3. \A b \in Optional(Taken) : Built(b) \in Optional(Request)
  BY BranchFacts, OptionalFacts DEF Buildable
<1> QED BY <1>1, <1>2, <1>3 DEF WhatOf, Transaction

\* Nothing is asked while a put awaits its lease, or commit its branches.
LEMMA AskNone ==
  ASSUME NEW call, call.status \in Gathering, call.reply = NoCall.reply
  PROVE  AskOf(call) = Private!Unasked
<1>1. [compare |-> {}, success |-> Undefined, failure |-> Undefined] = Private!NoTransaction
  BY DEF Undefined, Private!Undefined, Private!NoTransaction
<1>2. call.reply.refused = FALSE /\ call.reply.responses = <<>>
  BY DEF NoCall
<1>3. AskOf(call) = [status |-> AskOf(call).status, what |-> AskOf(call).what, reply |-> AskOf(call).reply]
  BY DEF AskOf
<1>4. AskOf(call).status = "unasked"
  BY DEF AskOf, Gathering
<1>5. AskOf(call).what = Private!NoTransaction
  BY <1>1 DEF AskOf
<1>6. AskOf(call).reply = Private!NoReply
  BY <1>2 DEF AskOf, Private!NoReply
<1> QED BY <1>3, <1>4, <1>5, <1>6 DEF Private!Unasked

\* The private store sees of a step of a call what becomes of its ask.
LEMMA BecomesAsk ==
  ASSUME BuildersInv, NEW c \in Call, NEW call, calls' = [calls EXCEPT ![c] = call],
         NEW status, NEW what, NEW reply,
         AskOf(call) = [status |-> status, what |-> what, reply |-> reply]
  PROVE  Private!Became(c, status, what, reply)
<1>1. Asks' = [Asks EXCEPT ![c] = [status |-> status, what |-> what, reply |-> reply]]
  BY AsksFacts
<1> QED BY <1>1, AsksAreOwn DEF Private!Became

\* A call that is handed to the pool is asked as its requests were built.
LEMMA AskStep ==
  ASSUME Prefix # emptyKey, BuildersInv, NEW c \in Call, AskOf(calls[c]) = Private!Unasked,
         NEW call \in Calls, call.status = "waiting", call.reply = NoCall.reply,
         calls' = [calls EXCEPT ![c] = call], UNCHANGED store
  PROVE  Private!Ask(c)
<1>1. Asks[c] = Private!Unasked /\ Asks'[c] = AskOf(call)
  BY AsksFacts
<1>2. call.reply = Private!NoReply
  BY DEF NoCall, Private!NoReply
<1>3. AskOf(call) = [status |-> "asked", what |-> WhatOf(call), reply |-> Private!NoReply]
  BY <1>2 DEF AskOf, Private!NoReply, Gathering
<1>4. Asks'[c].what = WhatOf(call) /\ WhatOf(call) \in Private!Transaction
  BY <1>1, <1>3, WhatTyped, SameEtcd
<1>5. Private!Became(c, "asked", Asks'[c].what, Private!NoReply)
  BY <1>3, <1>4, BecomesAsk
<1>6. UNCHANGED Own
  BY DEF Own, Within, OwnKeys
<1> QED BY <1>1, <1>4, <1>5, <1>6, AsksAreOwn DEF Private!Ask

\* A step that the private store does not see.
LEMMA HiddenStep ==
  ASSUME BuildersInv, NEW c \in Call, NEW call \in Calls, AskOf(call) = AskOf(calls[c]),
         calls' = [calls EXCEPT ![c] = call], UNCHANGED store
  PROVE  UNCHANGED <<Own, Asks>>
<1>1. Asks' = [Asks EXCEPT ![c] = Asks[c]] /\ DOMAIN Asks = Call
  BY AsksFacts
<1>2. Asks' = Asks
  BY <1>1 DEF Asks
<1>3. UNCHANGED Own
  BY DEF Own, Within, OwnKeys
<1> QED BY <1>2, <1>3

LEMMA ServeStep ==
  ASSUME Prefix # emptyKey, RangesHaveEnds, BuildersInv, SentInv, NEW c \in Call, Serve(c)
  PROVE  Private!Serve(c)
<1> DEFINE t == SentOf(calls[c])
           call == [calls[c] EXCEPT !.status = "served", !.reply = ReplyTxn(store, t)]
<1>1. /\ IsStore(store) /\ calls[c] \in Calls /\ store' = AfterTxn(store, t)
      /\ calls' = [calls EXCEPT ![c] = call] /\ calls[c].status = "sent"
  BY ServeFacts DEF Serve
<1>2. /\ Within(AfterTxn(store, t)) = AfterTxn(Own, WhatOf(calls[c]))
      /\ OwnReply(ReplyTxn(store, t)) = ReplyTxn(Own, WhatOf(calls[c]))
  BY <1>1, ServeWithin DEF Own
<1>3. Own' = AfterTxn(Own, WhatOf(calls[c]))
  BY <1>1, <1>2 DEF Own, Within, OwnKeys
<1>4. AskOf(calls[c]).status = "asked" /\ AskOf(calls[c]).what = WhatOf(calls[c])
  BY <1>1 DEF AskOf, Gathering
<1>5. call.status = "served" /\ call.reply = ReplyTxn(store, t) /\ WhatOf(call) = WhatOf(calls[c])
  BY <1>1 DEF Calls, WhatOf
<1> HIDE DEF call, t
<1>6. AskOf(call) = [status |-> "served", what |-> WhatOf(calls[c]), reply |-> ReplyTxn(Own, WhatOf(calls[c]))]
  BY <1>2, <1>5 DEF AskOf, OwnReply, Gathering
<1>7. Private!Became(c, "served", WhatOf(calls[c]), ReplyTxn(Own, WhatOf(calls[c])))
  BY <1>1, <1>6, BecomesAsk
<1>8. Asks[c] = AskOf(calls[c])
  BY <1>1, AsksFacts
<1> QED BY <1>3, <1>4, <1>7, <1>8, SameEtcd, AsksAreOwn DEF Private!Serve

LEMMA AskCallStep ==
  ASSUME Prefix # emptyKey, RangesHaveEnds, BuildersInv, SentInv, ReplyInv, NEW c \in Call,
         ExecNow(c) \/ LeaseReady(c) \/ TakeSuccess(c)
  PROVE  Private!Ask(c)
<1> DEFINE call == calls'[c]
<1>1. BuildersInv' /\ DOMAIN calls = Call /\ call \in Calls /\ calls[c] \in Calls /\ ReplySettled(calls[c])
  <2>1. Next
    BY DEF Next, Step
  <2> QED BY <2>1, InvStep DEF BuildersInv, ReplyInv
<1>2. UNCHANGED store
  BY DEF ExecNow, LeaseReady, TakeSuccess
<1>3. calls' = [calls EXCEPT ![c] = call]
  BY <1>1 DEF ExecNow, LeaseReady, TakeSuccess
<1>4. calls[c].status \in Gathering /\ calls[c].reply = NoCall.reply
  BY <1>1 DEF ReplySettled, ExecNow, LeaseReady, TakeSuccess, NoCall, Gathering
<1>5. AskOf(calls[c]) = Private!Unasked
  BY <1>4, AskNone
<1>6. call.status = "waiting" /\ call.reply = NoCall.reply
  BY <1>1, <1>4 DEF ExecNow, LeaseReady, TakeSuccess, Calls
<1> HIDE DEF call
<1> QED BY <1>1, <1>2, <1>3, <1>5, <1>6, AskStep

\* The steps before a call is handed to the pool are hidden.
LEMMA GatherStep ==
  ASSUME BuildersInv, SentInv, ReplyInv, NEW c \in Call,
         ExecPut(c) \/ Commit(c) \/ TakeFailure(c)
  PROVE  UNCHANGED <<Own, Asks>>
<1> DEFINE call == calls'[c]
<1>1. BuildersInv' /\ DOMAIN calls = Call /\ call \in Calls /\ calls[c] \in Calls /\ ReplySettled(calls[c])
  <2>1. Next
    BY DEF Next, Step
  <2> QED BY <2>1, InvStep DEF BuildersInv, ReplyInv
<1>2. calls' = [calls EXCEPT ![c] = call] /\ UNCHANGED store
  BY <1>1 DEF ExecPut, Commit, TakeFailure
<1>3. calls[c].status \in Gathering /\ calls[c].reply = NoCall.reply
  BY <1>1 DEF ReplySettled, ExecPut, Commit, TakeFailure, NoCall, Gathering
<1>4. call.status \in Gathering /\ call.reply = NoCall.reply
  BY <1>1, <1>3 DEF ExecPut, Commit, TakeFailure, Calls, Gathering
<1> HIDE DEF call
<1>5. AskOf(call) = AskOf(calls[c])
  BY <1>3, <1>4, AskNone
<1> QED BY <1>1, <1>2, <1>5, HiddenStep

LEMMA SendStep ==
  ASSUME BuildersInv, SentInv, NEW c \in Call, Send(c)
  PROVE  UNCHANGED <<Own, Asks>>
<1> DEFINE call == calls'[c]
<1>1. BuildersInv' /\ DOMAIN calls = Call /\ call \in Calls /\ calls[c] \in Calls
  <2>1. Next
    BY DEF Next, Step
  <2> QED BY <2>1, InvStep DEF BuildersInv
<1>2. calls' = [calls EXCEPT ![c] = call] /\ UNCHANGED store
  BY <1>1 DEF Send
<1>3. /\ call.compare = calls[c].compare /\ call.success = calls[c].success
      /\ call.failure = calls[c].failure /\ call.reply = calls[c].reply
      /\ call.status = "sent" /\ calls[c].status = "waiting"
  BY <1>1 DEF Send, Calls
<1> HIDE DEF call
<1>4. AskOf(call) = AskOf(calls[c])
  BY <1>3 DEF AskOf, WhatOf, Gathering
<1> QED BY <1>1, <1>2, <1>4, HiddenStep

\* A call fails for good, or is asked again, or was not served yet.
LEMMA LoseStep ==
  ASSUME BuildersInv, SentInv, ReplyInv, NEW c \in Call, Lose(c)
  PROVE  Private!Repeat(c) \/ Private!Fail(c) \/ UNCHANGED <<Own, Asks>>
<1> DEFINE call == calls'[c]
<1>1. DOMAIN calls = Call /\ call \in Calls /\ calls[c] \in Calls /\ ReplySettled(calls[c])
  <2>1. Next
    BY DEF Next, Step
  <2> QED BY <2>1, InvStep DEF BuildersInv, ReplyInv
<1>2. calls' = [calls EXCEPT ![c] = call] /\ UNCHANGED store
  BY <1>1 DEF Lose
<1>3. /\ call.compare = calls[c].compare /\ call.success = calls[c].success
      /\ call.failure = calls[c].failure /\ call.reply = NoCall.reply
      /\ call.status \in {"waiting", "failed"} /\ calls[c].status \in {"sent", "served"}
  BY <1>1 DEF Lose, Calls
<1>4. UNCHANGED Own
  BY <1>2 DEF Own, Within, OwnKeys
<1>5. Asks[c] = AskOf(calls[c])
  BY <1>2, AsksFacts
<1> HIDE DEF call
<1>6. WhatOf(call) = WhatOf(calls[c]) /\ AskOf(calls[c]).what = WhatOf(calls[c])
  BY <1>3 DEF WhatOf, AskOf, Gathering
<1>7. call.reply = Private!NoReply
  BY <1>3 DEF NoCall, Private!NoReply
<1>8. CASE call.status = "failed"
  <2>1. AskOf(call) = [status |-> "failed", what |-> WhatOf(calls[c]), reply |-> Private!NoReply]
    BY <1>6, <1>7, <1>8 DEF AskOf, Private!NoReply, Gathering
  <2>2. Private!Became(c, "failed", WhatOf(calls[c]), Private!NoReply)
    BY <1>2, <2>1, BecomesAsk
  <2>3. AskOf(calls[c]).status \in {"asked", "served"}
    BY <1>3 DEF AskOf, Gathering
  <2> QED BY <1>4, <1>5, <1>6, <2>2, <2>3, AsksAreOwn DEF Private!Fail
<1>9. CASE call.status = "waiting" /\ calls[c].status = "served"
  <2>1. AskOf(call) = [status |-> "asked", what |-> WhatOf(calls[c]), reply |-> Private!NoReply]
    BY <1>6, <1>7, <1>9 DEF AskOf, Private!NoReply, Gathering
  <2>2. Private!Became(c, "asked", WhatOf(calls[c]), Private!NoReply)
    BY <1>2, <2>1, BecomesAsk
  <2>3. AskOf(calls[c]).status = "served"
    BY <1>9 DEF AskOf, Gathering
  <2> QED BY <1>4, <1>5, <1>6, <2>2, <2>3, AsksAreOwn DEF Private!Repeat
<1>10. CASE call.status = "waiting" /\ calls[c].status = "sent"
  <2>1. call.reply = calls[c].reply
    BY <1>1, <1>3, <1>10 DEF ReplySettled, Gathering
  <2>2. AskOf(call) = AskOf(calls[c])
    BY <1>6, <1>10, <2>1 DEF AskOf, Gathering
  <2> QED BY <1>1, <1>2, <2>2, HiddenStep
<1> QED BY <1>3, <1>8, <1>9, <1>10

\* getAll finds the prefix before every key, and its callback what the private
\* store answered.
LEMMA ReturnStep ==
  ASSUME BuildersInv, SentInv, ReplyInv, NEW c \in Call, Return(c)
  PROVE  Private!Answer(c)
<1> DEFINE call == calls'[c]
           responses == calls[c].reply.responses
<1>1. DOMAIN calls = Call /\ calls[c] \in Calls /\ ReplySettled(calls[c]) /\ calls[c].status = "served"
  BY DEF BuildersInv, ReplyInv, Return
<1>2. responses # <<>> => \A p \in DOMAIN responses[1].kvs : HasPrefix(Prefix, p)
  <2>1. responses # <<>> => 1 \in DOMAIN responses
    BY <1>1 DEF Calls, Reply0, Optional, Undefined
  <2> QED BY <1>1, <2>1 DEF ReplySettled
<1>3. calls' = [calls EXCEPT ![c] = call] /\ UNCHANGED store
  BY <1>1 DEF Return
<1>4. /\ call.compare = calls[c].compare /\ call.success = calls[c].success
      /\ call.failure = calls[c].failure /\ call.status = "answered"
      /\ call.reply.refused = calls[c].reply.refused
      /\ call.reply.responses = IF ~GetAll(calls[c]) \/ responses = <<>> THEN responses
                                ELSE <<Unprefixed(responses[1])>>
  <2>1. calls[c].reply \in Reply0
    BY <1>1 DEF Calls
  <2>2. CASE ~GetAll(calls[c]) \/ responses = <<>>
    BY <1>1, <2>2 DEF Return, IsGetAll, GetAll, Calls
  <2>3. CASE ~(~GetAll(calls[c]) \/ responses = <<>>)
    <3>1. calls' = [calls EXCEPT ![c].status = "answered",
                                 ![c].reply.responses = <<Unprefixed(responses[1])>>]
      BY <1>2, <2>3 DEF Return, IsGetAll, GetAll
    <3> QED BY <1>1, <2>1, <2>3, <3>1 DEF Calls, Reply0
  <2> QED BY <2>2, <2>3
<1>5. UNCHANGED Own
  BY <1>3 DEF Own, Within, OwnKeys
<1>6. Asks[c] = AskOf(calls[c])
  BY <1>3, AsksFacts
<1> HIDE DEF call, responses
<1>7. WhatOf(call) = WhatOf(calls[c]) /\ AskOf(calls[c]).what = WhatOf(calls[c])
  BY <1>1, <1>4 DEF WhatOf, AskOf, Gathering
<1>8. AskOf(calls[c]).reply = OwnReply(calls[c].reply) /\ AskOf(calls[c]).status = "served"
  BY <1>1 DEF AskOf, OwnReply, Gathering
<1>9. GetAll(call) <=> GetAll(calls[c])
  BY <1>4 DEF GetAll
<1>10. AskOf(call) = [status |-> "answered", what |-> WhatOf(calls[c]), reply |-> OwnReply(calls[c].reply)]
  BY <1>4, <1>7, <1>9 DEF AskOf, OwnReply, responses, Gathering
<1>11. Private!Became(c, "answered", WhatOf(calls[c]), OwnReply(calls[c].reply))
  BY <1>3, <1>10, BecomesAsk
<1> QED BY <1>5, <1>6, <1>7, <1>8, <1>11, AsksAreOwn DEF Private!Answer

LEMMA InitPrivate == Init => Private!Init
<1> SUFFICES ASSUME Init PROVE Private!Init
  OBVIOUS
<1>1. BuildersInv
  BY InitInv
<1>2. Own \in [DOMAIN Own -> Value \cup {noValue}]
  <2>1. \A k \in OwnKeys(DOMAIN store) : applyKey(Prefix, k) \in DOMAIN store
    BY <1>1, OwnKeysFacts DEF BuildersInv
  <2> QED BY <1>1, <2>1 DEF Own, Within, BuildersInv, Stored
<1>3. Asks = [c \in Call |-> Private!Unasked]
  <2>1. NoCall.status \in Gathering
    BY DEF NoCall, Gathering
  <2>2. AskOf(NoCall) = Private!Unasked
    BY <2>1, AskNone
  <2> QED BY <2>2 DEF Asks, Init
<1> QED BY <1>2, <1>3, AsksAreOwn DEF Private!Init

LEMMA StepPrivate ==
  ASSUME Prefix # emptyKey, RangesHaveEnds, BuildersInv, SentInv, ReplyInv, [Next]_vars
  PROVE  Private!Next \/ UNCHANGED <<Own, Asks>>
<1>1. CASE UNCHANGED calls /\ UNCHANGED store
  BY <1>1 DEF Own, Within, OwnKeys, Asks, AskOf, WhatOf, GetAll, Built, Unprefixed
<1>2. CASE Build
  BY <1>1, <1>2 DEF Build, SetKey, And, InRange, SetValue, Then, Else
<1>3. CASE Others
  <2>1. UNCHANGED calls
    BY <1>3 DEF Others
  <2>2. UNCHANGED Asks
    BY <2>1 DEF Asks, AskOf, WhatOf, GetAll, Built, Unprefixed, Within, OwnKeys
  <2> QED BY <2>2, AsksAreOwn DEF Private!Next, Private!Others
<1>4. ASSUME NEW c \in Call, Step(c)
      PROVE  Private!Next \/ UNCHANGED <<Own, Asks>>
  <2>1. CASE ExecNow(c) \/ LeaseReady(c) \/ TakeSuccess(c)
    BY <2>1, AskCallStep DEF Private!Next
  <2>2. CASE ExecPut(c) \/ Commit(c) \/ TakeFailure(c)
    BY <2>2, GatherStep
  <2>3. CASE Send(c)
    BY <2>3, SendStep
  <2>4. CASE Serve(c)
    BY <2>4, ServeStep DEF Private!Next
  <2>5. CASE Lose(c)
    BY <2>5, LoseStep DEF Private!Next
  <2>6. CASE Return(c)
    BY <2>6, ReturnStep DEF Private!Next
  <2> QED BY <1>4, <2>1, <2>2, <2>3, <2>4, <2>5, <2>6 DEF Step
<1>5. CASE UNCHANGED vars
  BY <1>1, <1>5 DEF vars
<1> QED BY <1>2, <1>3, <1>4, <1>5 DEF Next

\* A namespace with a prefix, of a program whose ranges all have an end, is a
\* private store: whatever the other clients write, each of its calls, however
\* often it is sent, reads and changes there what its requests asked for when the
\* namespace was applied to them.
THEOREM NamespaceIsPrivate ==
  ASSUME Prefix # emptyKey, RangesHaveEnds
  PROVE  Spec => ImplementsPrivateStore
<1>1. BuildersInv /\ SentInv /\ ReplyInv /\ [Next]_vars => ReplyInv'
  BY ReplyStep
<1>2. BuildersInv /\ SentInv /\ ReplyInv /\ [Next]_vars
        => [Private!Next]_<<Own, [c \in Call |-> OwnAsk(c)]>>
  BY StepPrivate, AsksAreOwn
<1> QED BY <1>1, <1>2, Invariant, InitReply, InitPrivate, PTL
    DEF ImplementsPrivateStore, Private!Spec, Spec
=============================================================================
