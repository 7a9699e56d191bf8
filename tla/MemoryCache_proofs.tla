---------------------------- MODULE MemoryCache_proofs ----------------------------
(***************************************************************************)
(* Proofs about the in-process cache: for any keys, values, lifetimes,      *)
(* patterns and capacity the list and the map agree, the entry pushed out   *)
(* is the one used least recently, and the cache is a cache backend.        *)
(***************************************************************************)
EXTENDS MemoryCache, FiniteSetTheorems, SequenceTheorems, TLAPS

\* The keys of a list, whether it names each once, and whether it has a before b.
Elems(s) == {s[i] : i \in 1..Len(s)}
Once(s) == \A i, j \in 1..Len(s) : s[i] = s[j] => i = j
Before(s, a, b) == \E i, j \in 1..Len(s) : i < j /\ s[i] = a /\ s[j] = b

\* The list has its keys in the order they were last used in.
OrderInv ==
  /\ Once(touched) /\ Mapped \subseteq Elems(touched)
  /\ \A a, b \in Key : Before(order, a, b) => Before(touched, a, b)

IInv == TypeOK /\ ListMatchesMap /\ OrderInv
-----------------------------------------------------------------------------
(* The operations on lists.                                                *)

\* A list without a key: the others, in order.
LEMMA WithoutKeeps ==
  ASSUME NEW s \in Seq(Key), NEW k \in Key, Once(s)
  PROVE  /\ Without(s, k) \in Seq(Key) /\ Once(Without(s, k))
         /\ Elems(Without(s, k)) = Elems(s) \ {k}
         /\ Len(Without(s, k)) = IF k \in Elems(s) THEN Len(s) - 1 ELSE Len(s)
         /\ \A a, b \in Key : Before(Without(s, k), a, b) <=> Before(s, a, b) /\ a # k /\ b # k
<1>1. CASE k \notin Elems(s)
  <2>1. Without(s, k) = s
    BY <1>1 DEF Without, Elems
  <2>. QED
    BY <1>1, <2>1 DEF Elems, Before
<1>2. CASE k \in Elems(s)
  <2>1. PICK i \in 1..Len(s) : s[i] = k /\ Without(s, k) = SubSeq(s, 1, i - 1) \o SubSeq(s, i + 1, Len(s))
    BY <1>2 DEF Without, Elems
  <2>2. PICK w \in Seq(Key) :
          /\ w = Without(s, k) /\ Len(w) = Len(s) - 1
          /\ \A j \in 1..Len(w) : w[j] = IF j < i THEN s[j] ELSE s[j + 1]
    <3>1. SubSeq(s, 1, i - 1) \in Seq(Key) /\ Len(SubSeq(s, 1, i - 1)) = i - 1
          /\ \A j \in 1..i - 1 : SubSeq(s, 1, i - 1)[j] = s[j]
      BY <2>1
    <3>2. SubSeq(s, i + 1, Len(s)) \in Seq(Key) /\ Len(SubSeq(s, i + 1, Len(s))) = Len(s) - i
          /\ \A j \in 1..Len(s) - i : SubSeq(s, i + 1, Len(s))[j] = s[j + i]
      BY <2>1
    <3>. DEFINE u == SubSeq(s, 1, i - 1)
                v == SubSeq(s, i + 1, Len(s))
    <3>. HIDE DEF u, v
    <3>3. u \in Seq(Key) /\ Len(u) = i - 1 /\ \A j \in 1..i - 1 : u[j] = s[j]
      BY <3>1 DEF u
    <3>4. v \in Seq(Key) /\ Len(v) = Len(s) - i /\ \A j \in 1..Len(s) - i : v[j] = s[j + i]
      BY <3>2 DEF v
    <3>5. u \o v \in Seq(Key) /\ Len(u \o v) = Len(s) - 1
          /\ \A j \in 1..Len(s) - 1 : (u \o v)[j] = IF j <= i - 1 THEN u[j] ELSE v[j - (i - 1)]
      <4>1. u \o v \in Seq(Key) /\ Len(u \o v) = Len(u) + Len(v)
            /\ \A j \in 1..Len(u) + Len(v) : (u \o v)[j] = IF j <= Len(u) THEN u[j] ELSE v[j - Len(u)]
        BY <3>3, <3>4, ConcatProperties
      <4>2. Len(u) + Len(v) = Len(s) - 1 /\ Len(u) = i - 1
        BY <2>1, <3>3, <3>4
      <4>. QED
        BY <4>1, <4>2
    <3>6. ASSUME NEW j \in 1..Len(s) - 1 PROVE (u \o v)[j] = IF j < i THEN s[j] ELSE s[j + 1]
      <4>1. CASE j < i
        BY <3>3, <3>5, <4>1
      <4>2. CASE ~(j < i)
        <5>1. j - (i - 1) \in 1..Len(s) - i /\ j - (i - 1) + i = j + 1
          BY <4>2
        <5>. QED
          BY <3>4, <3>5, <4>2, <5>1
      <4>. QED
        BY <4>1, <4>2
    <3>7. Without(s, k) = u \o v
      BY <2>1 DEF u, v
    <3>. QED
      BY <3>5, <3>6, <3>7
  <2>3. \A j \in 1..Len(s) : s[j] = k => j = i
    BY <2>1 DEF Once
  <2>4. ASSUME NEW j \in 1..Len(s), j # i
        PROVE  \E n \in 1..Len(w) : w[n] = s[j] /\ n = IF j < i THEN j ELSE j - 1
    <3>1. CASE j < i
      <4>1. j \in 1..Len(w)
        BY <2>1, <2>2, <3>1
      <4>. QED
        BY <2>2, <3>1, <4>1
    <3>2. CASE ~(j < i)
      <4>1. j - 1 \in 1..Len(w) /\ ~(j - 1 < i) /\ (j - 1) + 1 = j
        <5>1. Len(w) = Len(s) - 1 /\ Len(s) \in Nat
          BY <2>2
        <5>. QED
          BY <2>1, <2>4, <3>2, <5>1
      <4>. QED
        BY <2>2, <3>2, <4>1
    <3>. QED
      BY <3>1, <3>2
  <2>5. ASSUME NEW n \in 1..Len(w)
        PROVE  \E j \in 1..Len(s) : w[n] = s[j] /\ j # i /\ j = IF n < i THEN n ELSE n + 1
    <3>1. CASE n < i
      <4>1. n \in 1..Len(s) /\ n # i
        BY <2>1, <2>2, <3>1
      <4>. QED
        BY <2>2, <3>1, <4>1
    <3>2. CASE ~(n < i)
      <4>1. n + 1 \in 1..Len(s) /\ n + 1 # i
        BY <2>1, <2>2, <3>2
      <4>. QED
        BY <2>2, <3>2, <4>1
    <3>. QED
      BY <3>1, <3>2
  <2>6. Once(w)
    <3>1. ASSUME NEW m \in 1..Len(w), NEW n \in 1..Len(w), w[m] = w[n] PROVE m = n
      <4>1. PICK x \in 1..Len(s) : w[m] = s[x] /\ x # i /\ x = IF m < i THEN m ELSE m + 1
        BY <2>5
      <4>2. PICK y \in 1..Len(s) : w[n] = s[y] /\ y # i /\ y = IF n < i THEN n ELSE n + 1
        BY <2>5
      <4>3. x = y
        BY <3>1, <4>1, <4>2 DEF Once
      <4>4. m \in Int /\ n \in Int /\ i \in Int
        BY <2>1, <2>2
      <4>. QED
        BY <4>1, <4>2, <4>3, <4>4
    <3>. QED
      BY <3>1 DEF Once
  <2>7. Elems(w) = Elems(s) \ {k}
    <3>1. ASSUME NEW a \in Elems(s), a # k PROVE a \in Elems(w)
      <4>1. PICK j \in 1..Len(s) : s[j] = a
        BY DEF Elems
      <4>2. j # i
        BY <2>1, <3>1, <4>1
      <4>. QED
        BY <2>4, <4>1, <4>2 DEF Elems
    <3>2. ASSUME NEW n \in 1..Len(w) PROVE w[n] \in Elems(s) /\ w[n] # k
      <4>1. PICK j \in 1..Len(s) : w[n] = s[j] /\ j # i
        BY <2>5
      <4>. QED
        BY <2>3, <4>1 DEF Elems
    <3>3. \A a \in Elems(w) : a \in Elems(s) /\ a # k
      BY <3>2 DEF Elems
    <3>. QED
      BY <3>1, <3>3
  <2>8. ASSUME NEW a \in Key, NEW b \in Key, Before(w, a, b) PROVE Before(s, a, b) /\ a # k /\ b # k
    <3>1. PICK m \in 1..Len(w), n \in 1..Len(w) : m < n /\ w[m] = a /\ w[n] = b
      BY <2>8 DEF Before
    <3>2. PICK x \in 1..Len(s) : w[m] = s[x] /\ x # i /\ x = IF m < i THEN m ELSE m + 1
      BY <2>5
    <3>3. PICK y \in 1..Len(s) : w[n] = s[y] /\ y # i /\ y = IF n < i THEN n ELSE n + 1
      BY <2>5
    <3>4. x < y
      BY <2>1, <2>2, <3>1, <3>2, <3>3
    <3>. QED
      BY <2>3, <3>1, <3>2, <3>3, <3>4 DEF Before
  <2>9. ASSUME NEW a \in Key, NEW b \in Key, Before(s, a, b), a # k, b # k PROVE Before(w, a, b)
    <3>1. PICK x \in 1..Len(s), y \in 1..Len(s) : x < y /\ s[x] = a /\ s[y] = b
      BY <2>9 DEF Before
    <3>2. PICK m \in 1..Len(w) : w[m] = s[x] /\ m = IF x < i THEN x ELSE x - 1
      BY <2>1, <2>4, <2>9, <3>1
    <3>3. PICK n \in 1..Len(w) : w[n] = s[y] /\ n = IF y < i THEN y ELSE y - 1
      BY <2>1, <2>4, <2>9, <3>1
    <3>4. m < n
      <4>1. x # i /\ y # i /\ x \in Int /\ y \in Int /\ i \in Int /\ x < y
        BY <2>1, <2>9, <3>1
      <4>. QED
        BY <3>2, <3>3, <4>1
    <3>. QED
      BY <3>1, <3>2, <3>3, <3>4 DEF Before
  <2>10. Once(Without(s, k)) /\ Elems(Without(s, k)) = Elems(s) \ {k} /\ Len(Without(s, k)) = Len(s) - 1
    BY <2>2, <2>6, <2>7
  <2>11. \A a, b \in Key : Before(Without(s, k), a, b) <=> Before(s, a, b) /\ a # k /\ b # k
    BY <2>2, <2>8, <2>9
  <2>. QED
    BY <1>2, <2>2, <2>10, <2>11
<1>. QED
  BY <1>1, <1>2

\* A key moved to the front of a list is before all others, which keep their order.
LEMMA FrontLeads ==
  ASSUME NEW s \in Seq(Key), NEW k \in Key, Once(s)
  PROVE  /\ MoveToFront(s, k) \in Seq(Key) /\ Once(MoveToFront(s, k))
         /\ Elems(MoveToFront(s, k)) = Elems(s) \union {k}
         /\ Len(MoveToFront(s, k)) = IF k \in Elems(s) THEN Len(s) ELSE Len(s) + 1
         /\ \A a, b \in Key : Before(MoveToFront(s, k), a, b) <=>
              \/ a = k /\ b \in Elems(s) \ {k}
              \/ Before(s, a, b) /\ a # k /\ b # k
<1>1. PICK w \in Seq(Key) :
        /\ w = Without(s, k) /\ Once(w) /\ Elems(w) = Elems(s) \ {k}
        /\ Len(w) = IF k \in Elems(s) THEN Len(s) - 1 ELSE Len(s)
        /\ \A a, b \in Key : Before(w, a, b) <=> Before(s, a, b) /\ a # k /\ b # k
  BY WithoutKeeps
<1>2. PICK f \in Seq(Key) :
        /\ f = MoveToFront(s, k) /\ Len(f) = Len(w) + 1 /\ f[1] = k
        /\ \A j \in 1..Len(w) : f[j + 1] = w[j]
  <2>1. <<k>> \o w \in Seq(Key) /\ Len(<<k>> \o w) = Len(w) + 1 /\ (<<k>> \o w)[1] = k
        /\ \A j \in 1..Len(w) : (<<k>> \o w)[j + 1] = w[j]
    OBVIOUS
  <2>. QED
    BY <1>1, <2>1 DEF MoveToFront
<1>3. k \notin Elems(w)
  BY <1>1
<1>4. \A i \in 1..Len(f) : i = 1 \/ (i - 1 \in 1..Len(w) /\ f[i] = w[i - 1])
  <2>1. ASSUME NEW i \in 1..Len(f), i # 1 PROVE i - 1 \in 1..Len(w) /\ f[i] = w[i - 1]
    <3>1. i - 1 \in 1..Len(w) /\ (i - 1) + 1 = i
      BY <1>2, <2>1
    <3>. QED
      BY <1>2, <3>1
  <2>. QED
    BY <2>1
<1>5. \A j \in 1..Len(w) : j + 1 \in 1..Len(f) /\ f[j + 1] = w[j] /\ w[j] # k
  BY <1>2, <1>3 DEF Elems
<1>6. 1 \in 1..Len(f)
  BY <1>2
<1>7. Once(f)
  <2>1. ASSUME NEW i \in 1..Len(f), NEW j \in 1..Len(f), f[i] = f[j] PROVE i = j
    <3>1. CASE i = 1 \/ j = 1
      <4>1. \A n \in 1..Len(w) : w[n] # k
        BY <1>5
      <4>2. \A n \in 1..Len(f) : f[n] = k => n = 1
        BY <1>4, <4>1
      <4>. QED
        BY <1>2, <2>1, <3>1, <4>2
    <3>2. CASE i # 1 /\ j # 1
      <4>1. i - 1 \in 1..Len(w) /\ j - 1 \in 1..Len(w) /\ w[i - 1] = w[j - 1]
        BY <1>4, <2>1, <3>2
      <4>2. i - 1 = j - 1
        BY <1>1, <4>1 DEF Once
      <4>. QED
        BY <4>2
    <3>. QED
      BY <3>1, <3>2
  <2>. QED
    BY <2>1 DEF Once
<1>8. Elems(f) = Elems(s) \union {k}
  <2>1. Elems(f) = Elems(w) \union {k}
    <3>1. \A i \in 1..Len(f) : f[i] = k \/ f[i] \in Elems(w)
      BY <1>2, <1>4 DEF Elems
    <3>2. k \in Elems(f) /\ \A j \in 1..Len(w) : w[j] \in Elems(f)
      BY <1>2, <1>5, <1>6 DEF Elems
    <3>. QED
      BY <3>1, <3>2 DEF Elems
  <2>. QED
    BY <1>1, <2>1
<1>9. Len(f) = IF k \in Elems(s) THEN Len(s) ELSE Len(s) + 1
  BY <1>1, <1>2
<1>10. ASSUME NEW a \in Key, NEW b \in Key
       PROVE  Before(f, a, b) <=> (a = k /\ b \in Elems(w)) \/ Before(w, a, b)
  <2>1. ASSUME Before(f, a, b) PROVE (a = k /\ b \in Elems(w)) \/ Before(w, a, b)
    <3>1. PICK m \in 1..Len(f), n \in 1..Len(f) : m < n /\ f[m] = a /\ f[n] = b
      BY <2>1 DEF Before
    <3>2. n - 1 \in 1..Len(w) /\ w[n - 1] = b
      BY <1>2, <1>4, <3>1
    <3>3. CASE m = 1
      BY <1>2, <3>1, <3>2, <3>3 DEF Elems
    <3>4. CASE m # 1
      <4>1. m - 1 \in 1..Len(w) /\ w[m - 1] = a /\ m - 1 < n - 1
        BY <1>2, <1>4, <3>1, <3>4
      <4>. QED
        BY <3>2, <4>1 DEF Before
    <3>. QED
      BY <3>3, <3>4
  <2>2. ASSUME a = k, b \in Elems(w) PROVE Before(f, a, b)
    <3>1. PICK j \in 1..Len(w) : w[j] = b
      BY <2>2 DEF Elems
    <3>2. 1 < j + 1 /\ j + 1 \in 1..Len(f) /\ f[j + 1] = b
      BY <1>5, <3>1
    <3>. QED
      BY <1>2, <1>6, <2>2, <3>2 DEF Before
  <2>3. ASSUME Before(w, a, b) PROVE Before(f, a, b)
    <3>1. PICK m \in 1..Len(w), n \in 1..Len(w) : m < n /\ w[m] = a /\ w[n] = b
      BY <2>3 DEF Before
    <3>2. m + 1 < n + 1 /\ m + 1 \in 1..Len(f) /\ n + 1 \in 1..Len(f) /\ f[m + 1] = a /\ f[n + 1] = b
      BY <1>5, <3>1
    <3>. QED
      BY <3>2 DEF Before
  <2>. QED
    BY <2>1, <2>2, <2>3
<1>. QED
  BY <1>1, <1>2, <1>7, <1>8, <1>9, <1>10

\* Counted off, the places that stay are as many as there are numbers for them.
LEMMA PlacesCount ==
  ASSUME NEW K \in SUBSET Nat, IsFiniteSet(K)
  PROVE  /\ \A i, j \in K : i < j => Cardinality({x \in K : x <= i}) < Cardinality({x \in K : x <= j})
         /\ \A i \in K : Cardinality({x \in K : x <= i}) \in 1..Cardinality(K)
         /\ \A n \in 1..Cardinality(K) : \E i \in K : Cardinality({x \in K : x <= i}) = n
<1>. DEFINE Upto(i) == {x \in K : x <= i}
            rank == [i \in K |-> Cardinality(Upto(i))]
<1>1. \A i \in K : IsFiniteSet(Upto(i)) /\ Cardinality(Upto(i)) \in Nat /\ Cardinality(Upto(i)) <= Cardinality(K)
  <2>1. \A i \in K : Upto(i) \in SUBSET K
    OBVIOUS
  <2>. HIDE DEF Upto
  <2>. QED
    BY <2>1, FS_Subset, FS_CardinalityType
<1>2. Cardinality(K) \in Nat
  BY FS_CardinalityType
<1>3. ASSUME NEW i \in K PROVE Cardinality(Upto(i)) \in 1..Cardinality(K)
  <2>1. i \in Upto(i)
    OBVIOUS
  <2>2. Cardinality(Upto(i)) # 0
    <3>. HIDE DEF Upto
    <3>. QED
      BY <1>1, <2>1, FS_EmptySet
  <2>. QED
    BY <1>1, <1>2, <2>2
<1>4. ASSUME NEW i \in K, NEW j \in K, i < j PROVE Cardinality(Upto(i)) < Cardinality(Upto(j))
  <2>1. Upto(i) \in SUBSET Upto(j) /\ j \in Upto(j) /\ j \notin Upto(i)
    <3>1. i \in Nat /\ j \in Nat /\ \A x \in K : x \in Nat
      OBVIOUS
    <3>2. \A x \in K : x <= i => x <= j
      BY <1>4, <3>1
    <3>3. j <= j /\ ~(j <= i)
      BY <1>4, <3>1
    <3>. QED
      BY <3>2, <3>3
  <2>2. Cardinality(Upto(i)) <= Cardinality(Upto(j)) /\ Cardinality(Upto(i)) # Cardinality(Upto(j))
    <3>. HIDE DEF Upto
    <3>. QED
      BY <1>1, <2>1, FS_Subset
  <2>. QED
    BY <1>1, <2>2
<1>5. ASSUME NEW n \in 1..Cardinality(K) PROVE \E i \in K : Cardinality(Upto(i)) = n
  <2>. DEFINE N == 1..Cardinality(K)
  <2>1. rank \in [K -> N] /\ \A i, j \in K : rank[i] = rank[j] => i = j
    <3>. HIDE DEF Upto
    <3>1. \A i, j \in K : i < j \/ j < i \/ i = j
      OBVIOUS
    <3>2. \A i \in K : Cardinality(Upto(i)) \in Nat
      BY <1>1
    <3>3. ASSUME NEW i \in K, NEW j \in K, Cardinality(Upto(i)) = Cardinality(Upto(j)) PROVE i = j
      BY <1>4, <3>1, <3>2, <3>3
    <3>. QED
      BY <1>3, <3>3
  <2>. HIDE DEF rank
  <2>2. rank \in Injection(K, N)
    BY <2>1 DEF Injection, IsInjective
  <2>3. IsFiniteSet(N) /\ Cardinality(N) = Cardinality(K)
    BY <1>2, FS_Interval
  <2>4. rank \in Surjection(K, N)
    BY <2>2, <2>3, FS_Injection
  <2>5. \E i \in K : rank[i] = n
    BY <2>4 DEF Surjection
  <2>. QED
    BY <2>5 DEF rank
<1>. QED
  BY <1>3, <1>4, <1>5

\* A list without the keys of a set: the others, in order.
LEMMA PurgedKeeps ==
  ASSUME NEW s \in Seq(Key), NEW P, Once(s)
  PROVE  /\ Purged(s, P) \in Seq(Key) /\ Once(Purged(s, P))
         /\ Elems(Purged(s, P)) = Elems(s) \ P
         /\ Len(Purged(s, P)) = Cardinality(Staying(s, P))
         /\ \A a, b \in Key : Before(Purged(s, P), a, b) => Before(s, a, b)
<1>. DEFINE K == Staying(s, P)
            Rank(i) == Cardinality({j \in K : j <= i})
            At(n) == CHOOSE i \in K : Rank(i) = n
<1>1. K \in SUBSET Nat /\ K \in SUBSET (1..Len(s)) /\ \A i \in 1..Len(s) : i \in K <=> s[i] \notin P
  BY DEF Staying
<1>2. IsFiniteSet(K) /\ Cardinality(K) \in Nat
  <2>1. IsFiniteSet(1..Len(s))
    BY FS_Interval
  <2>. QED
    BY <1>1, <2>1, FS_Subset, FS_CardinalityType
<1>3. Purged(s, P) = [n \in 1..Cardinality(K) |-> s[At(n)]]
  BY DEF Purged
<1>4. /\ \A i, j \in K : i < j => Rank(i) < Rank(j)
      /\ \A i \in K : Rank(i) \in 1..Cardinality(K)
      /\ \A n \in 1..Cardinality(K) : \E i \in K : Rank(i) = n
  BY <1>1, <1>2, PlacesCount
<1>. HIDE DEF K, Rank
<1>5. \A n \in 1..Cardinality(K) : At(n) \in K /\ Rank(At(n)) = n
  BY <1>4
<1>6. \A i \in K : \A n \in 1..Cardinality(K) : Rank(i) = n => i = At(n)
  <2>1. ASSUME NEW i \in K, NEW n \in 1..Cardinality(K), Rank(i) = n PROVE i = At(n)
    <3>1. At(n) \in K /\ Rank(At(n)) = n
      BY <1>5
    <3>2. ~(i < At(n)) /\ ~(At(n) < i)
      BY <1>4, <2>1, <3>1
    <3>3. i \in Nat /\ At(n) \in Nat
      BY <1>1, <3>1
    <3>. QED
      BY <3>2, <3>3
  <2>. QED
    BY <2>1
<1>. HIDE DEF At
<1>7. PICK q \in Seq(Key) : /\ q = Purged(s, P) /\ Len(q) = Cardinality(K)
                            /\ \A n \in 1..Len(q) : q[n] = s[At(n)] /\ At(n) \in 1..Len(s) /\ s[At(n)] \notin P
  <2>1. \A n \in 1..Cardinality(K) : s[At(n)] \in Key /\ At(n) \in 1..Len(s) /\ s[At(n)] \notin P
    <3>1. ASSUME NEW n \in 1..Cardinality(K)
          PROVE  s[At(n)] \in Key /\ At(n) \in 1..Len(s) /\ s[At(n)] \notin P
      <4>1. At(n) \in K
        BY <1>5
      <4>2. At(n) \in 1..Len(s)
        BY <1>1, <4>1
      <4>. QED
        BY <1>1, <4>1, <4>2
    <3>. QED
      BY <3>1
  <2>2. [n \in 1..Cardinality(K) |-> s[At(n)]] \in Seq(Key)
        /\ Len([n \in 1..Cardinality(K) |-> s[At(n)]]) = Cardinality(K)
    BY <1>2, <2>1
  <2>. QED
    BY <1>3, <2>1, <2>2
<1>8. \A i \in K : \E n \in 1..Len(q) : q[n] = s[i]
  BY <1>4, <1>6, <1>7
<1>9. \A m, n \in 1..Len(q) : m < n => At(m) < At(n)
  <2>1. ASSUME NEW m \in 1..Len(q), NEW n \in 1..Len(q), m < n PROVE At(m) < At(n)
    <3>1. At(m) \in K /\ Rank(At(m)) = m /\ At(n) \in K /\ Rank(At(n)) = n
      BY <1>5, <1>7
    <3>2. At(m) # At(n) /\ ~(At(n) < At(m))
      BY <1>4, <2>1, <3>1
    <3>3. At(m) \in Nat /\ At(n) \in Nat
      BY <1>1, <3>1
    <3>. QED
      BY <3>2, <3>3
  <2>. QED
    BY <2>1
<1>10. Once(q)
  <2>1. ASSUME NEW m \in 1..Len(q), NEW n \in 1..Len(q), q[m] = q[n] PROVE m = n
    <3>1. At(m) = At(n)
      BY <1>7, <2>1 DEF Once
    <3>. QED
      BY <1>5, <1>7, <3>1
  <2>. QED
    BY <2>1 DEF Once
<1>11. Elems(q) = Elems(s) \ P
  <2>1. \A n \in 1..Len(q) : q[n] \in Elems(s) \ P
    BY <1>7 DEF Elems
  <2>2. \A i \in 1..Len(s) : s[i] \notin P => s[i] \in Elems(q)
    BY <1>1, <1>8 DEF Elems
  <2>. QED
    BY <2>1, <2>2 DEF Elems
<1>12. ASSUME NEW a \in Key, NEW b \in Key, Before(q, a, b) PROVE Before(s, a, b)
  BY <1>7, <1>9, <1>12 DEF Before
<1>. QED
  BY <1>7, <1>10, <1>11, <1>12 DEF K

\* The first entries of a list.
LEMMA KeptLeads ==
  ASSUME NEW s \in Seq(Key), Once(s), Len(s) <= Capacity + 1
  PROVE  /\ Kept(s) \in Seq(Key) /\ Once(Kept(s))
         /\ Len(Kept(s)) = IF Len(s) > Capacity THEN Capacity ELSE Len(s)
         /\ Elems(Kept(s)) = IF Len(s) > Capacity THEN Elems(s) \ {s[Len(s)]} ELSE Elems(s)
         /\ \A a, b \in Key : Before(Kept(s), a, b) => Before(s, a, b)
<1>1. CASE ~(Len(s) > Capacity)
  BY <1>1 DEF Kept
<1>2. CASE Len(s) > Capacity
  <2>1. Capacity \in Nat \ {0} /\ Len(s) = Capacity + 1
    BY <1>2, CapacityAssumption
  <2>2. PICK q \in Seq(Key) : q = Kept(s) /\ Len(q) = Capacity /\ \A i \in 1..Capacity : q[i] = s[i]
    <3>1. SubSeq(s, 1, Capacity) \in Seq(Key) /\ Len(SubSeq(s, 1, Capacity)) = Capacity
          /\ \A i \in 1..Capacity : SubSeq(s, 1, Capacity)[i] = s[i]
      BY <2>1
    <3>. QED
      BY <1>2, <3>1 DEF Kept
  <2>3. Once(q)
    BY <2>1, <2>2 DEF Once
  <2>4. Elems(q) = Elems(s) \ {s[Len(s)]}
    <3>1. \A i \in 1..Len(s) : i = Len(s) \/ (i \in 1..Capacity /\ q[i] = s[i])
      BY <2>1, <2>2
    <3>2. \A i \in 1..Capacity : i \in 1..Len(s) /\ q[i] = s[i] /\ s[i] # s[Len(s)]
      BY <2>1, <2>2 DEF Once
    <3>3. \A a \in Elems(s) : a # s[Len(s)] => a \in Elems(q)
      BY <2>2, <3>1 DEF Elems
    <3>4. \A a \in Elems(q) : a \in Elems(s) /\ a # s[Len(s)]
      BY <2>2, <3>2 DEF Elems
    <3>. QED
      BY <3>3, <3>4
  <2>5. \A a, b \in Key : Before(q, a, b) => Before(s, a, b)
    BY <2>1, <2>2 DEF Before
  <2>. QED
    BY <1>2, <2>2, <2>3, <2>4, <2>5
<1>. QED
  BY <1>1, <1>2

\* A list that names each key once has as many keys as places.
LEMMA OnceCounts ==
  ASSUME NEW s \in Seq(Key), Once(s)
  PROVE  IsFiniteSet(Elems(s)) /\ Cardinality(Elems(s)) = Len(s)
<1>. DEFINE f == [i \in 1..Len(s) |-> s[i]]
<1>1. f \in [1..Len(s) -> Elems(s)]
  BY DEF Elems
<1>2. \A i, j \in 1..Len(s) : f[i] = f[j] => i = j
  BY DEF Once
<1>3. \A a \in Elems(s) : \E i \in 1..Len(s) : f[i] = a
  BY DEF Elems
<1>. HIDE DEF f
<1>4. f \in Bijection(1..Len(s), Elems(s))
  BY <1>1, <1>2, <1>3 DEF Bijection, Injection, Surjection, IsInjective
<1>5. Len(s) \in Nat /\ ExistsBijection(1..Len(s), Elems(s))
  BY <1>4 DEF ExistsBijection
<1>. QED
  BY <1>5, FS_NatBijection, FS_CountingElements
-----------------------------------------------------------------------------
(* The steps.                                                              *)

\* An entry has a value and an expiry, and is not the absent one.
LEMMA EntryType ==
  ASSUME TypeOK, NEW v \in Value, NEW ttl \in TTL \union {0}
  PROVE  /\ Lifetime(ttl) \in TTL /\ Lifetime(ttl) \in Nat
         /\ [value |-> v, expires |-> now + Lifetime(ttl)] \in [value : Value, expires : Nat]
         /\ [value |-> v, expires |-> now + Lifetime(ttl)] # Absent
<1>1. Lifetime(ttl) \in TTL /\ Lifetime(ttl) \in Nat
  BY LifetimeAssumption DEF Lifetime
<1>2. [value |-> v, expires |-> now + Lifetime(ttl)] \in [value : Value, expires : Nat]
  BY <1>1 DEF TypeOK
<1>. QED
  BY <1>1, <1>2, AbsentAssumption

\* The list has the keys of the map, each once, and there are size of them.
LEMMA ListCounts ==
  ASSUME TypeOK, ListMatchesMap
  PROVE  /\ order \in Seq(Key) /\ Once(order) /\ Elems(order) = Mapped
         /\ Len(order) = size /\ size <= Capacity
         /\ IsFiniteSet(Mapped) /\ Cardinality(Mapped) = Len(order)
<1>1. order \in Seq(Key) /\ Once(order) /\ Elems(order) = Mapped /\ Len(order) = size /\ size <= Capacity
  BY DEF TypeOK, ListMatchesMap, Once, Elems
<1>. QED
  BY <1>1, OnceCounts

\* What the next list must be for the list and the map to agree again.
LEMMA ListAgrees ==
  ASSUME order' \in Seq(Key), Once(order'), Elems(order') = Mapped', Len(order') = size', size' <= Capacity
  PROVE  ListMatchesMap'
BY DEF ListMatchesMap, Once, Elems

\* The same for the two orders.
LEMMA OrdersAgree ==
  ASSUME Once(touched'), Mapped' \subseteq Elems(touched'),
         \A a, b \in Key : Before(order', a, b) => Before(touched', a, b)
  PROVE  OrderInv'
BY DEF OrderInv, Once, Elems, Before

\* removeElement takes the key from the map and from the list.
LEMMA RemoveStep ==
  ASSUME IInv, NEW k \in Key, items[k] # Absent, RemoveElement(k),
         UNCHANGED <<now, touched>>, answer' \in Value \union {Absent}
  PROVE  IInv'
<1>. USE ListCounts DEF IInv
<1>1. Mapped' = Mapped \ {k} /\ items' \in [Key -> [value : Value, expires : Nat] \union {Absent}] /\ k \in Mapped
  BY DEF TypeOK, Mapped, RemoveElement
<1>2. /\ order' = Without(order, k) /\ order' \in Seq(Key) /\ Once(order') /\ Elems(order') = Mapped \ {k}
      /\ Len(order') = size - 1 /\ size' = size - 1
      /\ \A a, b \in Key : Before(order', a, b) => Before(order, a, b)
  <2>1. order \in Seq(Key) /\ Once(order) /\ Elems(order) = Mapped /\ Len(order) = size
    BY ListCounts DEF ListMatchesMap
  <2>2. order' = Without(order, k) /\ size' = size - 1
    BY DEF RemoveElement
  <2>. HIDE DEF IInv
  <2>. QED
    BY <1>1, <2>1, <2>2, WithoutKeeps
<1>3. Len(order') \in Nat /\ size' \in Nat /\ size' <= Capacity
  BY <1>2, CapacityAssumption DEF TypeOK
<1>4. TypeOK'
  BY <1>1, <1>2, <1>3 DEF TypeOK
<1>5. ListMatchesMap'
  BY <1>1, <1>2, <1>3, ListAgrees
<1>6. OrderInv'
  <2>1. touched' = touched
    OBVIOUS
  <2>. QED
    BY <1>1, <1>2, <2>1, OrdersAgree DEF OrderInv
<1>. QED
  BY <1>4, <1>5, <1>6

\* What a Set or a Get hit does to both orders.
LEMMA UseKeepsOrder ==
  ASSUME IInv, NEW k \in Key
  PROVE  /\ MoveToFront(touched, k) \in Seq(Key) /\ Once(MoveToFront(touched, k))
         /\ Elems(MoveToFront(touched, k)) = Elems(touched) \union {k}
         /\ \A a, b \in Key : Before(MoveToFront(order, k), a, b) => Before(MoveToFront(touched, k), a, b)
<1>1. touched \in Seq(Key) /\ Once(touched) /\ Mapped \subseteq Elems(touched)
      /\ order \in Seq(Key) /\ Once(order) /\ Elems(order) = Mapped
      /\ \A a, b \in Key : Before(order, a, b) => Before(touched, a, b)
  BY ListCounts DEF IInv, TypeOK, OrderInv
<1>2. \A a, b \in Key : Before(MoveToFront(order, k), a, b) <=>
        (a = k /\ b \in Elems(order) \ {k}) \/ (Before(order, a, b) /\ a # k /\ b # k)
  BY <1>1, FrontLeads
<1>3. /\ MoveToFront(touched, k) \in Seq(Key) /\ Once(MoveToFront(touched, k))
      /\ Elems(MoveToFront(touched, k)) = Elems(touched) \union {k}
      /\ \A a, b \in Key : Before(MoveToFront(touched, k), a, b) <=>
           (a = k /\ b \in Elems(touched) \ {k}) \/ (Before(touched, a, b) /\ a # k /\ b # k)
  BY <1>1, FrontLeads
<1>. QED
  BY <1>1, <1>2, <1>3

\* An entry that is used goes to the front of both orders.
LEMMA UseStep ==
  ASSUME IInv, NEW k \in Key, items[k] # Absent, Mapped' = Mapped,
         items' \in [Key -> [value : Value, expires : Nat] \union {Absent}],
         order' = MoveToFront(order, k), touched' = MoveToFront(touched, k),
         UNCHANGED <<size, now>>, answer' \in Value \union {Absent}
  PROVE  IInv'
<1>. USE ListCounts DEF IInv
<1>1. k \in Mapped
  BY DEF Mapped
<1>2. order' \in Seq(Key) /\ Once(order') /\ Elems(order') = Mapped' /\ Len(order') = size'
  <2>1. Elems(order) \union {k} = Mapped
    BY <1>1
  <2>. QED
    BY <1>1, <2>1, FrontLeads
<1>3. touched' \in Seq(Key) /\ Once(touched') /\ Elems(touched') = Elems(touched) \union {k}
      /\ \A a, b \in Key : Before(order', a, b) => Before(touched', a, b)
  BY UseKeepsOrder
<1>4. TypeOK'
  BY <1>2, <1>3 DEF TypeOK
<1>5. ListMatchesMap'
  BY <1>2, ListAgrees
<1>6. OrderInv'
  <2>1. Mapped' \subseteq Elems(touched')
    BY <1>3 DEF OrderInv
  <2>. QED
    BY <1>3, <2>1, OrdersAgree
<1>. QED
  BY <1>4, <1>5, <1>6

\* What an insertion pushes out: nothing, or from a full list the last entry.
LEMMA Evicts ==
  ASSUME IInv, NEW k \in Key, items[k] = Absent
  PROVE  LET pushed == <<k>> \o order
             evicted == {pushed[i] : i \in Len(Kept(pushed)) + 1 .. Len(pushed)}
         IN  /\ pushed = MoveToFront(order, k) /\ pushed \in Seq(Key) /\ Once(pushed)
             /\ Elems(pushed) = Mapped \union {k} /\ Len(pushed) = Len(order) + 1
             /\ Kept(pushed) \in Seq(Key) /\ Once(Kept(pushed))
             /\ Elems(Kept(pushed)) = (Mapped \union {k}) \ evicted
             /\ \A a, b \in Key : Before(Kept(pushed), a, b) => Before(pushed, a, b)
             /\ \/ evicted = {} /\ Len(Kept(pushed)) = Len(order) + 1 /\ Len(order) < Capacity
                \/ /\ Len(order) = Capacity /\ Len(Kept(pushed)) = Capacity
                   /\ evicted = {pushed[Len(pushed)]} /\ k \notin evicted
<1>. DEFINE pushed == <<k>> \o order
            evicted == {pushed[i] : i \in Len(Kept(pushed)) + 1 .. Len(pushed)}
<1>1. order \in Seq(Key) /\ Once(order) /\ Elems(order) = Mapped /\ Len(order) <= Capacity /\ k \notin Elems(order)
  BY ListCounts DEF IInv, Mapped
<1>2. Without(order, k) = order
  BY <1>1 DEF Without, Elems
<1>3. pushed = MoveToFront(order, k)
  BY <1>2 DEF MoveToFront
<1>4. pushed \in Seq(Key) /\ Once(pushed) /\ Elems(pushed) = Mapped \union {k} /\ Len(pushed) = Len(order) + 1
  <2>1. Len(MoveToFront(order, k)) = Len(order) + 1 /\ Elems(MoveToFront(order, k)) = Mapped \union {k}
    BY <1>1, FrontLeads
  <2>2. MoveToFront(order, k) \in Seq(Key) /\ Once(MoveToFront(order, k))
    BY <1>1, FrontLeads
  <2>. HIDE DEF pushed
  <2>. QED
    BY <1>3, <2>1, <2>2
<1>5. pushed[1] = k
  BY <1>1
<1>. HIDE DEF pushed
<1>6. Capacity \in Nat \ {0} /\ Len(order) \in Nat
  BY <1>1, CapacityAssumption
<1>7. /\ Kept(pushed) \in Seq(Key) /\ Once(Kept(pushed))
      /\ Len(Kept(pushed)) = IF Len(pushed) > Capacity THEN Capacity ELSE Len(pushed)
      /\ Elems(Kept(pushed)) = IF Len(pushed) > Capacity THEN Elems(pushed) \ {pushed[Len(pushed)]} ELSE Elems(pushed)
      /\ \A a, b \in Key : Before(Kept(pushed), a, b) => Before(pushed, a, b)
  <2>1. Len(pushed) <= Capacity + 1
    BY <1>1, <1>4, <1>6
  <2>. QED
    BY <1>4, <2>1, KeptLeads
<1>8. CASE Len(order) < Capacity
  <2>1. ~(Len(pushed) > Capacity) /\ Len(Kept(pushed)) = Len(pushed)
    BY <1>4, <1>6, <1>7, <1>8
  <2>2. Len(Kept(pushed)) + 1 .. Len(pushed) = {}
    BY <1>4, <1>6, <2>1
  <2>3. evicted = {}
    BY <2>2
  <2>. HIDE DEF evicted
  <2>. QED
    BY <1>3, <1>4, <1>7, <1>8, <2>1, <2>3 DEF pushed, evicted
<1>9. CASE ~(Len(order) < Capacity)
  <2>1. Len(order) = Capacity
    BY <1>1, <1>6, <1>9
  <2>2. Len(pushed) > Capacity /\ Len(Kept(pushed)) = Capacity /\ Len(pushed) = Capacity + 1
    BY <1>4, <1>6, <1>7, <2>1
  <2>3. Len(Kept(pushed)) + 1 .. Len(pushed) = {Len(pushed)}
    BY <1>6, <2>2
  <2>4. evicted = {pushed[Len(pushed)]}
    BY <2>3
  <2>5. k # pushed[Len(pushed)]
    <3>1. 1 \in 1..Len(pushed) /\ Len(pushed) \in 1..Len(pushed) /\ Len(pushed) # 1
      BY <1>6, <2>2
    <3>. QED
      BY <1>4, <1>5, <3>1 DEF Once
  <2>. HIDE DEF evicted
  <2>. QED
    BY <1>3, <1>4, <1>7, <2>1, <2>2, <2>4, <2>5 DEF pushed, evicted
<1>. QED
  BY <1>8, <1>9

\* A new entry goes to the front; at the capacity the last one leaves list and map.
LEMMA InsertStep ==
  ASSUME IInv, NEW k \in Key, NEW v \in Value, NEW ttl \in TTL \union {0}, Insert(k, v, ttl)
  PROVE  IInv'
<1>. DEFINE pushed == <<k>> \o order
            evicted == {pushed[i] : i \in Len(Kept(pushed)) + 1 .. Len(pushed)}
            entry == [value |-> v, expires |-> now + Lifetime(ttl)]
<1>1. /\ items[k] = Absent /\ order' = Kept(pushed) /\ size' = size + 1 - Cardinality(evicted)
      /\ items' = [j \in Key |-> IF j \in evicted THEN Absent ELSE IF j = k THEN entry ELSE items[j]]
      /\ touched' = MoveToFront(touched, k)
      /\ UNCHANGED <<now, answer>>
  BY DEF Insert, MoveToFront
<1>2. /\ pushed = MoveToFront(order, k)
      /\ Kept(pushed) \in Seq(Key) /\ Once(Kept(pushed))
      /\ Elems(Kept(pushed)) = (Mapped \union {k}) \ evicted
      /\ \A a, b \in Key : Before(Kept(pushed), a, b) => Before(pushed, a, b)
      /\ \/ evicted = {} /\ Len(Kept(pushed)) = Len(order) + 1 /\ Len(order) < Capacity
         \/ /\ Len(order) = Capacity /\ Len(Kept(pushed)) = Capacity
            /\ evicted = {pushed[Len(pushed)]} /\ k \notin evicted
  BY <1>1, Evicts
<1>3. entry \in [value : Value, expires : Nat] /\ entry # Absent
  BY EntryType DEF IInv
<1>4. /\ touched' \in Seq(Key) /\ Once(touched') /\ Elems(touched') = Elems(touched) \union {k}
      /\ \A a, b \in Key : Before(pushed, a, b) => Before(touched', a, b)
  BY <1>1, <1>2, UseKeepsOrder
<1>5. Len(order) = size /\ size \in Nat /\ size <= Capacity /\ Mapped \subseteq Key /\ Capacity \in Nat
  BY ListCounts, CapacityAssumption DEF IInv, TypeOK, Mapped
<1>. HIDE DEF pushed, evicted, entry
<1>6. Len(order') = size' /\ size' <= Capacity /\ size' \in Nat
  <2>1. CASE evicted = {} /\ Len(Kept(pushed)) = Len(order) + 1 /\ Len(order) < Capacity
    BY <1>1, <1>5, <2>1, FS_EmptySet
  <2>2. CASE Len(order) = Capacity /\ Len(Kept(pushed)) = Capacity /\ evicted = {pushed[Len(pushed)]}
    <3>1. Cardinality(evicted) = 1
      BY <2>2, FS_Singleton
    <3>. QED
      BY <1>1, <1>5, <2>2, <3>1
  <2>. QED
    BY <1>2, <2>1, <2>2
<1>7. Mapped' = (Mapped \union {k}) \ evicted
  <2>1. \A j \in Key : items'[j] # Absent <=> j \notin evicted /\ (j = k \/ items[j] # Absent)
    BY <1>1, <1>3
  <2>. QED
    BY <2>1 DEF Mapped
<1>8. TypeOK'
  <2>1. items' \in [Key -> [value : Value, expires : Nat] \union {Absent}]
    BY <1>1, <1>3 DEF IInv, TypeOK
  <2>. QED
    BY <1>1, <1>2, <1>4, <1>6, <2>1 DEF IInv, TypeOK
<1>9. ListMatchesMap'
  BY <1>1, <1>2, <1>6, <1>7, ListAgrees
<1>10. OrderInv'
  <2>1. Mapped' \subseteq Elems(touched')
    BY <1>4, <1>7 DEF IInv, OrderInv
  <2>2. \A a, b \in Key : Before(order', a, b) => Before(touched', a, b)
    BY <1>1, <1>2, <1>4
  <2>. QED
    BY <1>4, <2>1, <2>2, OrdersAgree
<1>. QED
  BY <1>8, <1>9, <1>10 DEF IInv

\* The matching entries leave list and map, and the size counter with them.
LEMMA PurgeStep ==
  ASSUME IInv, NEW P \in Patterns, ClearPattern(P)
  PROVE  IInv'
<1>. USE ListCounts DEF IInv
<1>1. /\ items' = [k \in Key |-> IF k \in P THEN Absent ELSE items[k]]
      /\ order' = Purged(order, P) /\ size' = size - Cardinality(P \intersect Mapped)
      /\ UNCHANGED <<now, answer, touched>>
  BY DEF ClearPattern
<1>2. Mapped' = Mapped \ P /\ items' \in [Key -> [value : Value, expires : Nat] \union {Absent}]
  BY <1>1 DEF Mapped, TypeOK
<1>3. /\ order' \in Seq(Key) /\ Once(order') /\ Elems(order') = Mapped \ P
      /\ \A a, b \in Key : Before(order', a, b) => Before(order, a, b)
  BY <1>1, PurgedKeeps
<1>4. Len(order') = size - Cardinality(P \intersect Mapped) /\ Len(order') <= size
  <2>1. IsFiniteSet(Mapped \ P) /\ Cardinality(Mapped \ P) = Len(order')
    BY <1>3, OnceCounts
  <2>2. IsFiniteSet(P \intersect Mapped)
    BY FS_Intersection
  <2>3. (Mapped \ P) \union (P \intersect Mapped) = Mapped /\ (Mapped \ P) \intersect (P \intersect Mapped) = {}
    OBVIOUS
  <2>4. Cardinality(Mapped) = Cardinality(Mapped \ P) + Cardinality(P \intersect Mapped) - 0
    BY <2>1, <2>2, <2>3, FS_Union, FS_EmptySet
  <2>5. Cardinality(P \intersect Mapped) \in Nat /\ Len(order') \in Nat /\ size \in Nat
    BY <1>3, <2>2, FS_CardinalityType DEF TypeOK
  <2>. QED
    BY <2>1, <2>4, <2>5
<1>5. size' \in Nat /\ size' <= Capacity /\ Len(order') = size'
  BY <1>1, <1>3, <1>4, CapacityAssumption DEF TypeOK
<1>6. TypeOK'
  BY <1>1, <1>2, <1>3, <1>5 DEF TypeOK
<1>7. ListMatchesMap'
  BY <1>2, <1>3, <1>5, ListAgrees
<1>8. OrderInv'
  BY <1>1, <1>2, <1>3, OrdersAgree DEF OrderInv
<1>. QED
  BY <1>6, <1>7, <1>8

\* Every operation keeps the inductive invariant.
LEMMA NextStep ==
  ASSUME IInv, [Next]_vars
  PROVE  IInv'
<1>0. \A k \in Key : items[k] # Absent => items[k] \in [value : Value, expires : Nat]
  BY DEF IInv, TypeOK
<1>1. CASE Tick
  <2>1. now' \in Nat /\ UNCHANGED <<items, order, size, answer, touched>> /\ Mapped' = Mapped
    BY <1>1 DEF Tick, IInv, TypeOK, Mapped
  <2>. QED
    BY <2>1 DEF IInv, TypeOK, ListMatchesMap, OrderInv, Elems, Once, Before
<1>2. CASE Clear
  <2>1. /\ items' = [k \in Key |-> Absent] /\ order' = <<>> /\ size' = 0 /\ UNCHANGED <<now, answer, touched>>
        /\ Mapped' = {} /\ order' \in Seq(Key)
    BY <1>2 DEF Clear, Mapped
  <2>2. TypeOK'
    BY <2>1 DEF IInv, TypeOK
  <2>3. ListMatchesMap'
    BY <2>1, CapacityAssumption DEF ListMatchesMap
  <2>4. OrderInv'
    BY <2>1 DEF IInv, OrderInv, Elems, Once, Before
  <2>. QED
    BY <2>2, <2>3, <2>4 DEF IInv
<1>3. ASSUME NEW P \in Patterns, ClearPattern(P) PROVE IInv'
  BY <1>3, PurgeStep
<1>4. ASSUME NEW k \in Key, GetMiss(k) PROVE IInv'
  <2>1. answer' \in Value \union {Absent} /\ UNCHANGED <<now, touched>>
    BY <1>4 DEF GetMiss
  <2>2. CASE UNCHANGED <<items, order, size>>
    <3>1. Mapped' = Mapped
      BY <2>2 DEF Mapped
    <3>. QED
      BY <2>1, <2>2, <3>1 DEF IInv, TypeOK, ListMatchesMap, OrderInv, Elems, Once, Before
  <2>3. CASE items[k] # Absent /\ RemoveElement(k)
    BY <2>1, <2>3, RemoveStep
  <2>. QED
    BY <1>4, <2>2, <2>3 DEF GetMiss
<1>5. ASSUME NEW k \in Key, GetHit(k) PROVE IInv'
  <2>1. /\ items[k] # Absent /\ answer' = items[k].value /\ order' = MoveToFront(order, k)
        /\ touched' = MoveToFront(touched, k) /\ UNCHANGED <<items, size, now>>
    BY <1>5 DEF GetHit, MoveToFront
  <2>2. answer' \in Value \union {Absent} /\ Mapped' = Mapped
    BY <1>0, <2>1 DEF Mapped
  <2>3. items' \in [Key -> [value : Value, expires : Nat] \union {Absent}]
    BY <2>1 DEF IInv, TypeOK
  <2>. QED
    BY <2>1, <2>2, <2>3, UseStep
<1>6. ASSUME NEW k \in Key, Delete(k) \/ Exists(k) PROVE IInv'
  <2>1. items[k] # Absent /\ RemoveElement(k) /\ UNCHANGED <<now, answer, touched>>
    BY <1>6 DEF Delete, Exists
  <2>. QED
    BY <2>1, RemoveStep DEF IInv, TypeOK
<1>7. ASSUME NEW k \in Key, NEW v \in Value, NEW ttl \in TTL \union {0}, Replace(k, v, ttl) PROVE IInv'
  <2>. DEFINE entry == [value |-> v, expires |-> now + Lifetime(ttl)]
  <2>1. /\ items[k] # Absent /\ items' = [items EXCEPT ![k] = entry] /\ order' = MoveToFront(order, k)
        /\ touched' = MoveToFront(touched, k) /\ UNCHANGED <<size, now, answer>>
    BY <1>7 DEF Replace, MoveToFront
  <2>2. entry \in [value : Value, expires : Nat] /\ entry # Absent
    BY EntryType DEF IInv
  <2>. HIDE DEF entry
  <2>3. items' \in [Key -> [value : Value, expires : Nat] \union {Absent}] /\ Mapped' = Mapped
    BY <2>1, <2>2 DEF IInv, TypeOK, Mapped
  <2>4. answer' \in Value \union {Absent}
    BY <2>1 DEF IInv, TypeOK
  <2>. QED
    BY <2>1, <2>3, <2>4, UseStep
<1>8. CASE UNCHANGED vars
  <2>1. Mapped' = Mapped
    BY <1>8 DEF vars, Mapped
  <2>. QED
    BY <1>8, <2>1 DEF vars, IInv, TypeOK, ListMatchesMap, OrderInv, Elems, Once, Before
<1>. QED
  BY <1>1, <1>2, <1>3, <1>4, <1>5, <1>6, <1>7, <1>8, InsertStep DEF Next, Set

\* Spec keeps the inductive invariant.
THEOREM Invariant ==
  Spec => []IInv
<1>1. Init => IInv
  <2>. SUFFICES ASSUME Init PROVE IInv
    OBVIOUS
  <2>1. Mapped = {} /\ order = <<>> /\ touched = <<>>
    BY DEF Init, Mapped
  <2>2. TypeOK
    BY <2>1 DEF Init, TypeOK
  <2>3. ListMatchesMap
    BY <2>1, CapacityAssumption DEF Init, ListMatchesMap
  <2>4. OrderInv
    BY <2>1 DEF OrderInv, Once, Elems, Before
  <2>. QED
    BY <2>2, <2>3, <2>4 DEF IInv
<1>. QED
  BY <1>1, NextStep, PTL DEF Spec
-----------------------------------------------------------------------------
(* The theorems.                                                           *)

\* Entries, list, counter and answer keep their types in every sequence of
\* operations (MemoryCache, memory.go:26-34).
THEOREM TypeCorrect ==
  Spec => []TypeOK
BY Invariant, PTL DEF IInv

\* Only an insertion brings a key into the map.
LEMMA OnlyInsertAdds ==
  ASSUME IInv, Next, Mapped' \ Mapped # {}
  PROVE  \E k \in Key : \E v \in Value, ttl \in TTL \union {0} : Insert(k, v, ttl)
<1>1. PICK j \in Key : items[j] = Absent /\ items'[j] # Absent
  BY DEF Mapped
<1>2. items \in [Key -> [value : Value, expires : Nat] \union {Absent}]
  BY DEF IInv, TypeOK
<1>3. ASSUME NEW k \in Key, RemoveElement(k) PROVE FALSE
  BY <1>1, <1>2, <1>3 DEF RemoveElement
<1>4. ~UNCHANGED items
  BY <1>1
<1>5. ~Tick /\ ~Clear
  <2>1. ~Tick
    BY <1>4 DEF Tick
  <2>2. ASSUME Clear PROVE FALSE
    BY <1>1, <2>2 DEF Clear
  <2>. QED
    BY <2>1, <2>2
<1>8. ASSUME NEW P \in Patterns, ClearPattern(P) PROVE FALSE
  <2>1. items' = [k \in Key |-> IF k \in P THEN Absent ELSE items[k]]
    BY <1>8 DEF ClearPattern
  <2>2. items'[j] = Absent \/ items'[j] = items[j]
    BY <2>1
  <2>. QED
    BY <1>1, <2>2
<1>6. ~\E k \in Key : GetMiss(k) \/ GetHit(k) \/ Delete(k) \/ Exists(k)
  BY <1>3, <1>4 DEF GetMiss, GetHit, Delete, Exists
<1>7. ~\E k \in Key : \E v \in Value, ttl \in TTL \union {0} : Replace(k, v, ttl)
  BY <1>1, <1>2 DEF Replace
<1>. QED
  BY <1>5, <1>6, <1>7, <1>8 DEF Next, Set

\* What an insertion drops it drops from a full cache, and everything that stays
\* was used after it.
LEMMA DropsLeastRecent ==
  ASSUME IInv, NEW n \in Key, NEW v \in Value, NEW ttl \in TTL \union {0}, Insert(n, v, ttl),
         NEW k \in Mapped, items'[k] = Absent
  PROVE  Cardinality(Mapped) = Capacity /\ \A j \in Mapped' : Before(touched', j, k)
<1>. DEFINE pushed == <<n>> \o order
            evicted == {pushed[i] : i \in Len(Kept(pushed)) + 1 .. Len(pushed)}
<1>1. /\ items[n] = Absent /\ order' = Kept(pushed) /\ touched' = MoveToFront(touched, n)
      /\ \A j \in Key : items'[j] = IF j \in evicted THEN Absent
                                    ELSE IF j = n THEN [value |-> v, expires |-> now + Lifetime(ttl)]
                                    ELSE items[j]
  BY DEF Insert, MoveToFront
<1>2. /\ pushed = MoveToFront(order, n) /\ pushed \in Seq(Key) /\ Elems(pushed) = Mapped \union {n}
      /\ Elems(Kept(pushed)) = (Mapped \union {n}) \ evicted
      /\ \/ evicted = {}
         \/ Len(order) = Capacity /\ evicted = {pushed[Len(pushed)]}
  BY <1>1, Evicts
<1>. HIDE DEF pushed, evicted
<1>3. k \in Key /\ items[k] # Absent /\ k # n
  BY <1>1 DEF Mapped
<1>4. k \in evicted
  BY <1>1, <1>3
<1>5. Len(order) = Capacity /\ k = pushed[Len(pushed)] /\ evicted = {k}
  BY <1>2, <1>4
<1>6. Cardinality(Mapped) = Capacity
  BY <1>5, ListCounts DEF IInv
<1>7. ASSUME NEW j \in Mapped' PROVE Before(touched', j, k)
  <2>1. j \in Key /\ j \in Elems(pushed) /\ j # k
    BY <1>1, <1>2, <1>4, <1>7 DEF Mapped
  <2>2. Before(pushed, j, k)
    <3>1. PICK i \in 1..Len(pushed) : pushed[i] = j
      BY <2>1 DEF Elems
    <3>2. i < Len(pushed) /\ Len(pushed) \in 1..Len(pushed)
      BY <1>2, <1>5, <2>1, <3>1
    <3>. QED
      BY <1>5, <3>1, <3>2 DEF Before
  <2>. QED
    BY <1>1, <1>2, <1>3, <2>1, <2>2, UseKeepsOrder
<1>. QED
  BY <1>6, <1>7

\* An entry is pushed out only of a full cache and only if it was used least
\* recently; list, map and counter agree after every operation (the eviction loop of
\* Set and removeElement, memory.go:102-115 and 182-188).
THEOREM LeastRecentEvicted ==
  Spec => EvictsLeastRecent
<1>. DEFINE Step ==
       /\ ListMatchesMap'
       /\ \A k \in Mapped :
            items'[k] = Absent /\ Mapped' \ Mapped # {}
              => /\ Cardinality(Mapped) = Capacity
                 /\ \A j \in Mapped' : \E a, b \in 1..Len(touched') :
                      a < b /\ touched'[a] = j /\ touched'[b] = k
<1>1. ASSUME IInv, [Next]_vars PROVE [Step]_vars
  <2>1. ListMatchesMap'
    BY <1>1, NextStep DEF IInv
  <2>2. ASSUME ~UNCHANGED vars, NEW k \in Mapped, items'[k] = Absent, Mapped' \ Mapped # {}
        PROVE  Cardinality(Mapped) = Capacity /\ \A j \in Mapped' : Before(touched', j, k)
    <3>1. PICK n \in Key, v \in Value, ttl \in TTL \union {0} : Insert(n, v, ttl)
      BY <1>1, <2>2, OnlyInsertAdds
    <3>. QED
      BY <1>1, <2>2, <3>1, DropsLeastRecent
  <2>. QED
    BY <2>1, <2>2 DEF Before
<1>. HIDE DEF Step
<1>2. Spec => [][Step]_vars
  BY <1>1, Invariant, PTL DEF Spec
<1>3. [][Step]_vars => EvictsLeastRecent
  BY DEF Step, EvictsLeastRecent
<1>. QED
  BY <1>2, <1>3
-----------------------------------------------------------------------------
(* The cache implements CacheBackend.                                      *)

\* Entries that are absent may be left out once more.
LEMMA LessIsLess ==
  ASSUME IInv
  PROVE  /\ Backend!Less({}) = items
         /\ \A k \in Key : [items EXCEPT ![k] = Absent] = Backend!Less({k})
         /\ \A k \in Key : items[k] = Absent \/ Expired(k) => k \in Backend!Lapsed
<1>1. items \in [Key -> [value : Value, expires : Nat] \union {Absent}] /\ now \in Nat
  BY DEF IInv, TypeOK
<1>2. Backend!Less({}) = items
  BY <1>1 DEF Backend!Less
<1>3. \A k \in Key : [items EXCEPT ![k] = Absent] = Backend!Less({k})
  BY <1>1 DEF Backend!Less
<1>4. ASSUME NEW k \in Key, items[k] = Absent \/ Expired(k) PROVE k \in Backend!Lapsed
  <2>1. items[k] = Absent \/ items[k].expires \in Nat
    BY <1>1
  <2>. QED
    BY <1>1, <1>4, <2>1 DEF Backend!Lapsed, Backend!Live, Expired
<1>. QED
  BY <1>2, <1>3, <1>4

LEMMA BackendStep ==
  ASSUME IInv, [Next]_vars
  PROVE  [Backend!Next]_<<items, now, answer>>
<1>1. CASE Tick
  BY <1>1 DEF Tick, Backend!Next, Backend!Tick
<1>2. CASE Clear
  <2>1. items' = Backend!Less(Key \union {}) /\ UNCHANGED <<now, answer>>
    BY <1>2 DEF Clear, Backend!Less
  <2>2. Backend!Remove(Key)
    BY <2>1 DEF Backend!Remove
  <2>. QED
    BY <2>2 DEF Backend!Next
<1>3. ASSUME NEW P \in Patterns, ClearPattern(P) PROVE Backend!Next
  <2>1. items' = Backend!Less(P \union {}) /\ UNCHANGED <<now, answer>>
    BY <1>3 DEF ClearPattern, Backend!Less
  <2>2. Backend!Remove(P) /\ P \in SUBSET Key
    BY <2>1, PatternAssumption DEF Backend!Remove
  <2>. QED
    BY <2>2 DEF Backend!Next
<1>4. ASSUME NEW k \in Key, GetMiss(k) PROVE Backend!Next
  <2>1. answer' = Absent /\ now' = now /\ (items[k] = Absent \/ Expired(k))
        /\ (items' = items \/ items' = [items EXCEPT ![k] = Absent])
    BY <1>4 DEF GetMiss, RemoveElement
  <2>2. k \in Backend!Lapsed
    BY <2>1, LessIsLess
  <2>3. \E L \in SUBSET Backend!Lapsed : items' = Backend!Less(L)
    BY <2>1, <2>2, LessIsLess
  <2>4. Backend!Get(k)
    BY <2>1, <2>2, <2>3 DEF Backend!Get, Backend!Lapsed
  <2>. QED
    BY <2>4 DEF Backend!Next
<1>5. ASSUME NEW k \in Key, GetHit(k) PROVE Backend!Next
  <2>1. items[k] # Absent /\ ~Expired(k) /\ answer' = items[k].value /\ UNCHANGED <<items, now>>
    BY <1>5 DEF GetHit
  <2>2. Backend!Live(k)
    <3>1. items[k].expires \in Nat /\ now \in Nat
      BY <2>1 DEF IInv, TypeOK
    <3>. QED
      BY <2>1, <3>1 DEF Backend!Live, Expired
  <2>3. items' = Backend!Less({})
    BY <2>1, LessIsLess
  <2>4. Backend!Get(k)
    BY <2>1, <2>2, <2>3 DEF Backend!Get
  <2>. QED
    BY <2>4 DEF Backend!Next
<1>6. ASSUME NEW k \in Key, Delete(k) PROVE Backend!Next
  <2>1. items' = Backend!Less({k} \union {}) /\ UNCHANGED <<now, answer>>
    BY <1>6, LessIsLess DEF Delete, RemoveElement
  <2>2. Backend!Remove({k})
    BY <2>1 DEF Backend!Remove
  <2>. QED
    BY <2>2 DEF Backend!Next
<1>7. ASSUME NEW k \in Key, Exists(k) PROVE Backend!Next
  <2>1. items' = Backend!Less({} \union {k}) /\ {k} \in SUBSET Backend!Lapsed /\ UNCHANGED <<now, answer>>
    BY <1>7, LessIsLess DEF Exists, RemoveElement
  <2>2. Backend!Remove({})
    BY <2>1 DEF Backend!Remove
  <2>. QED
    BY <2>2 DEF Backend!Next
<1>8. ASSUME NEW k \in Key, NEW v \in Value, NEW ttl \in TTL \union {0}, Replace(k, v, ttl) PROVE Backend!Next
  <2>1. items' = [Backend!Less({}) EXCEPT ![k] = [value |-> v, expires |-> now + Lifetime(ttl)]]
        /\ UNCHANGED <<now, answer>>
    BY <1>8, LessIsLess DEF Replace
  <2>2. Backend!Set(k, v, Lifetime(ttl)) /\ Lifetime(ttl) \in TTL
    BY <2>1, EntryType DEF IInv, Backend!Set
  <2>. QED
    BY <2>2 DEF Backend!Next
<1>9. ASSUME NEW k \in Key, NEW v \in Value, NEW ttl \in TTL \union {0}, Insert(k, v, ttl) PROVE Backend!Next
  <2>. DEFINE pushed == <<k>> \o order
              evicted == {pushed[i] : i \in Len(Kept(pushed)) + 1 .. Len(pushed)}
              entry == [value |-> v, expires |-> now + Lifetime(ttl)]
  <2>1. /\ items[k] = Absent /\ UNCHANGED <<now, answer>>
        /\ items' = [j \in Key |-> IF j \in evicted THEN Absent ELSE IF j = k THEN entry ELSE items[j]]
    BY <1>9 DEF Insert
  <2>2. k \notin evicted
    BY <2>1, Evicts
  <2>. HIDE DEF pushed, evicted, entry
  <2>3. items' = [Backend!Less(evicted \intersect Key) EXCEPT ![k] = entry]
    BY <2>1, <2>2 DEF Backend!Less
  <2>4. evicted \intersect Key \in SUBSET (Key \ {k})
    BY <2>2
  <2>5. Backend!Set(k, v, Lifetime(ttl)) /\ Lifetime(ttl) \in TTL
    BY <2>1, <2>3, <2>4, EntryType DEF IInv, Backend!Set, entry
  <2>. QED
    BY <2>5 DEF Backend!Next
<1>10. CASE UNCHANGED vars
  BY <1>10 DEF vars
<1>. QED
  BY <1>1, <1>2, <1>3, <1>4, <1>5, <1>6, <1>7, <1>8, <1>9, <1>10 DEF Next, Set

\* The LRU cache is what a cache backend promises to be: expired entries miss, hits
\* return the last value set, and a live entry is lost only to a removal or to a Set of
\* another key (the CacheBackend interface, backend.go; MemoryCache, memory.go:57-170).
THEOREM IsBackend ==
  Spec => ImplementsBackend
<1>1. Init => Backend!Init
  BY DEF Init, Backend!Init
<1>2. IInv /\ [Next]_vars => [Backend!Next]_<<items, now, answer>>
  BY BackendStep
<1>. QED
  BY <1>1, <1>2, Invariant, PTL DEF Spec, ImplementsBackend, Backend!Spec
=============================================================================
