------------------------------ MODULE MemoryCache ------------------------------
(***************************************************************************)
(* The in-process cache (pkg/surql/cache/memory.go): a map from keys to    *)
(* elements of a list in order of use, bounded by a capacity, with a TTL   *)
(* for each entry.  Every operation holds the mutex from start to end and  *)
(* is one action.  Expired entries stay until they are read or pushed out. *)
(***************************************************************************)
EXTENDS Integers, Sequences, FiniteSets

CONSTANTS
  Key, Value, TTL, Absent,
  DefaultTTL,   \* lifetime of an entry set without one
  Capacity,     \* entries the list may hold
  Patterns,     \* for each glob in use, the set of keys it matches
  MaxTime       \* bound: the clock

ASSUME CapacityAssumption == Capacity \in Nat \ {0}
ASSUME LifetimeAssumption == TTL \subseteq Nat \ {0} /\ DefaultTTL \in TTL
ASSUME AbsentAssumption == Absent \notin [value : Value, expires : Nat] \union Value
ASSUME PatternAssumption == Patterns \subseteq SUBSET Key /\ MaxTime \in Nat

VARIABLES
  items,    \* items[k]: the entry the map finds under k, Absent if none
  order,    \* the list: its keys, the one used last in front
  size,     \* CacheStats.size
  now,      \* the clock
  answer,   \* what the last Get answered
  touched   \* history variable: keys in order of their last Set or Get hit

vars == <<items, order, size, now, answer, touched>>

Mapped == {k \in Key : items[k] # Absent}

\* !entry.expiresAt.IsZero() && !now.Before(entry.expiresAt)
Expired(k) == now >= items[k].expires

\* The list without k.
Without(s, k) ==
  IF \E i \in 1..Len(s) : s[i] = k
  THEN LET i == CHOOSE j \in 1..Len(s) : s[j] = k
       IN  SubSeq(s, 1, i - 1) \o SubSeq(s, i + 1, Len(s))
  ELSE s

\* Mutant: a hit leaves the list alone.
NoMove(s, k) == s

\* list.MoveToFront
MoveToFront(s, k) == <<k>> \o Without(s, k)

\* The list without the keys of P: the places that stay, numbered anew in order.
Staying(s, P) == {i \in 1..Len(s) : s[i] \notin P}
Purged(s, P) ==
  [n \in 1..Cardinality(Staying(s, P)) |->
     s[CHOOSE i \in Staying(s, P) : Cardinality({j \in Staying(s, P) : j <= i}) = n]]

\* removeElement
RemoveElement(k) ==
  /\ items' = [items EXCEPT ![k] = Absent]
  /\ order' = Without(order, k)
  /\ size' = size - 1
-----------------------------------------------------------------------------
Init ==
  /\ items = [k \in Key |-> Absent]
  /\ order = <<>> /\ size = 0
  /\ now = 0 /\ answer = Absent /\ touched = <<>>

Tick == now < MaxTime /\ now' = now + 1 /\ UNCHANGED <<items, order, size, answer, touched>>

\* The key is not there, or its entry has expired and is removed.
GetMiss(k) ==
  /\ \/ items[k] = Absent /\ UNCHANGED <<items, order, size>>
     \/ items[k] # Absent /\ Expired(k) /\ RemoveElement(k)
  /\ answer' = Absent
  /\ UNCHANGED <<now, touched>>

\* Mutant: the expiry is looked at after the answer.
GetHitExpired(k) ==
  /\ items[k] # Absent
  /\ answer' = items[k].value
  /\ order' = MoveToFront(order, k)
  /\ touched' = MoveToFront(touched, k)
  /\ UNCHANGED <<items, size, now>>

GetHit(k) ==
  /\ items[k] # Absent /\ ~Expired(k)
  /\ answer' = items[k].value
  /\ order' = MoveToFront(order, k)
  /\ touched' = <<k>> \o Without(touched, k)
  /\ UNCHANGED <<items, size, now>>

\* ttl <= 0 asks for the default.
Lifetime(ttl) == IF ttl <= 0 THEN DefaultTTL ELSE ttl

\* Set of a key that has an entry, expired or not.
Replace(k, v, ttl) ==
  /\ items[k] # Absent
  /\ items' = [items EXCEPT ![k] = [value |-> v, expires |-> now + Lifetime(ttl)]]
  /\ order' = MoveToFront(order, k)
  /\ touched' = <<k>> \o Without(touched, k)
  /\ UNCHANGED <<size, now, answer>>

\* The loop of Set: removes from the back while the list is over its bound.
Kept(s) == IF Len(s) > Capacity THEN SubSeq(s, 1, Capacity) ELSE s

\* Set of a key that has no entry; the entries the loop removes leave the map.
Insert(k, v, ttl) ==
  LET pushed == <<k>> \o order
      evicted == {pushed[i] : i \in Len(Kept(pushed)) + 1 .. Len(pushed)}
  IN  /\ items[k] = Absent
      /\ order' = Kept(pushed)
      /\ items' = [j \in Key |->
                     IF j \in evicted THEN Absent
                     ELSE IF j = k THEN [value |-> v, expires |-> now + Lifetime(ttl)]
                     ELSE items[j]]
      /\ size' = size + 1 - Cardinality(evicted)
      /\ touched' = <<k>> \o Without(touched, k)
      /\ UNCHANGED <<now, answer>>

Delete(k) ==
  /\ items[k] # Absent /\ RemoveElement(k)
  /\ UNCHANGED <<now, answer, touched>>

\* Exists removes an expired entry and never moves one.
Exists(k) ==
  /\ items[k] # Absent /\ Expired(k) /\ RemoveElement(k)
  /\ UNCHANGED <<now, answer, touched>>

Clear ==
  /\ items' = [k \in Key |-> Absent]
  /\ order' = <<>> /\ size' = 0
  /\ UNCHANGED <<now, answer, touched>>

\* ClearPattern removes the matching elements one by one under the lock.
ClearPattern(P) ==
  /\ items' = [k \in Key |-> IF k \in P THEN Absent ELSE items[k]]
  /\ order' = Purged(order, P)
  /\ size' = size - Cardinality(P \intersect Mapped)
  /\ UNCHANGED <<now, answer, touched>>

Set(k, v, ttl) == Replace(k, v, ttl) \/ Insert(k, v, ttl)

Next ==
  \/ Tick \/ Clear
  \/ \E P \in Patterns : ClearPattern(P)
  \/ \E k \in Key :
       \/ GetMiss(k) \/ GetHit(k) \/ Delete(k) \/ Exists(k)
       \/ \E v \in Value, ttl \in TTL \union {0} : Set(k, v, ttl)

Spec == Init /\ [][Next]_vars
-----------------------------------------------------------------------------
(* Properties.                                                             *)

\* Types; every entry in the map has a value and an expiry.
TypeOK ==
  /\ items \in [Key -> [value : Value, expires : Nat] \union {Absent}]
  /\ order \in Seq(Key) /\ touched \in Seq(Key)
  /\ size \in Nat /\ now \in Nat
  /\ answer \in Value \union {Absent}

\* The list holds exactly the keys of the map, each once, never more than the
\* capacity, and the size counter agrees (removeElement and the eviction loop).
ListMatchesMap ==
  /\ {order[i] : i \in 1..Len(order)} = Mapped
  /\ \A i, j \in 1..Len(order) : order[i] = order[j] => i = j
  /\ Len(order) = size /\ size <= Capacity

\* An entry is pushed out only when the cache is full, and no entry that stays was
\* used before it: the list names each entry once, in order of use, whatever was
\* read, replaced, expired or cleared in between.
EvictsLeastRecent ==
  [][/\ ListMatchesMap'
     /\ \A k \in Mapped :
          items'[k] = Absent /\ Mapped' \ Mapped # {}
            => /\ Cardinality(Mapped) = Capacity
               /\ \A j \in Mapped' : \E a, b \in 1..Len(touched') :
                    a < b /\ touched'[a] = j /\ touched'[b] = k]_vars

\* The cache as its callers see it.
Backend == INSTANCE CacheBackend WITH store <- items

\* The LRU cache is a cache backend: expired entries miss, hits return the last
\* value set, and a live entry is lost only to a removal or to a Set.
ImplementsBackend == Backend!Spec
=============================================================================
