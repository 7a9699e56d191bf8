----------------------------- MODULE CacheBackend -----------------------------
(***************************************************************************)
(* What a cache backend promises its callers (pkg/surql/cache/backend.go): *)
(* Get answers with the value of the last Set of the key while its TTL     *)
(* runs and with a miss otherwise, whether the entry has expired or is     *)
(* gone.  A live entry is lost only to a Delete, Clear or ClearPattern of  *)
(* its key or to a Set of another key that needed its place.               *)
(***************************************************************************)
EXTENDS Integers

CONSTANTS
  Key,      \* keys, with their prefix
  Value,    \* cached values
  TTL,      \* lifetimes of entries, the default included
  Absent    \* no entry, no answer

VARIABLES
  store,    \* store[k]: the entry of key k or Absent
  now,      \* the clock
  answer    \* what the last Get answered

Entry == [value : Value, expires : Nat]

Live(k) == store[k] # Absent /\ now < store[k].expires

\* The keys whose entry may vanish by itself: it has expired.
Lapsed == {k \in Key : ~Live(k)}

\* The store without the entries of K.
Less(K) == [k \in Key |-> IF k \in K THEN Absent ELSE store[k]]

Init ==
  /\ store = [k \in Key |-> Absent]
  /\ now = 0 /\ answer = Absent

Get(k) ==
  /\ answer' = IF Live(k) THEN store[k].value ELSE Absent
  /\ \E L \in SUBSET Lapsed : store' = Less(L)
  /\ UNCHANGED now

\* A bounded backend may push out other entries.
Set(k, v, ttl) ==
  /\ \E L \in SUBSET (Key \ {k}) :
       store' = [Less(L) EXCEPT ![k] = [value |-> v, expires |-> now + ttl]]
  /\ UNCHANGED <<now, answer>>

\* Delete, Clear and ClearPattern; Exists with K = {}.
Remove(K) ==
  /\ \E L \in SUBSET Lapsed : store' = Less(K \union L)
  /\ UNCHANGED <<now, answer>>

Tick == now' = now + 1 /\ UNCHANGED <<store, answer>>

Next ==
  \/ Tick
  \/ \E k \in Key : Get(k) \/ \E v \in Value, ttl \in TTL : Set(k, v, ttl)
  \/ \E K \in SUBSET Key : Remove(K)

Spec == Init /\ [][Next]_<<store, now, answer>>
=============================================================================
