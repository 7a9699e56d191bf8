----------------------------- MODULE CacheManager -----------------------------
(***************************************************************************)
(* The cache manager (pkg/surql/cache/manager.go) and its Cached decorator *)
(* (decorator.go), used by concurrent clients over any backend that keeps  *)
(* the promises of CacheBackend.                                           *)
(*                                                                         *)
(* The manager stores a value in the backend and, in a critical section of *)
(* its own, records the key under the tables the value was read from.      *)
(* A call that does both takes two steps here.  Backend calls may fail, as *)
(* Redis calls do, before or after they have taken effect.  Keys carry     *)
(* their prefix; a disabled manager does nothing and is not modelled.      *)
(***************************************************************************)
EXTENDS Integers

CONSTANTS
  Client,      \* goroutines that share the manager
  Table,       \* tables entries are invalidated by
  Key, Value, TTL, Absent,
  Patterns,    \* for each glob in use, the set of keys it matches
  MaxTime,     \* bound: the clock
  MaxFaults    \* bound: failed backend calls

ASSUME ManagerAssumption ==
  /\ Key # {} /\ Patterns \subseteq SUBSET Key /\ TTL \subseteq Nat \ {0}
  /\ MaxTime \in Nat /\ MaxFaults \in Nat
ASSUME NoEntryAssumption == Absent \notin [value : Value, expires : Nat] \union Value

VARIABLES
  store, now, answer,   \* the backend
  tableKeys,  \* tableKeys[t]: the keys recorded under table t
  faults,     \* failed backend calls so far (bounded by MaxFaults)
  pc,         \* pc[c]: where client c is in its call
  key,        \* key[c]: the key of the call
  tables,     \* tables[c]: the tables a Set records its key under
  rest,       \* rest[c]: the keys InvalidateTable has still to delete
  declared,   \* history variable: the tables the entry of k was stored for
  lost        \* history variable: pairs <<k, t>> whose record was given up

backend == <<store, now, answer>>
call == <<key, tables, rest>>
vars == <<store, now, answer, tableKeys, faults, pc, key, tables, rest,
          declared, lost>>

Backend == INSTANCE CacheBackend

Present(k) == store[k] # Absent

\* The records of K that are given up although their entry is there.
GivenUp(K) ==
  {p \in K \X Table : Present(p[1]) /\ p[2] \in declared[p[1]]}

Go(c, p) == pc' = [pc EXCEPT ![c] = p]

\* What the locals of a client without a call are left at.
AnyKey == CHOOSE k \in Key : TRUE

\* The call ends.
Return(c) ==
  /\ Go(c, "idle")
  /\ key' = [key EXCEPT ![c] = AnyKey]
  /\ tables' = [tables EXCEPT ![c] = {}]
  /\ rest' = [rest EXCEPT ![c] = {}]

Fault == faults < MaxFaults /\ faults' = faults + 1

\* A client with no call under way calls a method.
Start(c, k, p) ==
  /\ pc[c] = "idle" /\ Go(c, p)
  /\ key' = [key EXCEPT ![c] = k]
-----------------------------------------------------------------------------
Init ==
  /\ Backend!Init
  /\ tableKeys = [t \in Table |-> {}]
  /\ faults = 0
  /\ pc = [c \in Client |-> "idle"]
  /\ key = [c \in Client |-> AnyKey]
  /\ tables = [c \in Client |-> {}]
  /\ rest = [c \in Client |-> {}]
  /\ declared = [k \in Key |-> {}]
  /\ lost = {}

Tick ==
  /\ now < MaxTime /\ Backend!Tick
  /\ UNCHANGED <<tableKeys, faults, pc, call, declared, lost>>

\* Get: a hit, a miss or an error; nothing else changes.
Get(c, k) ==
  /\ pc[c] = "idle" /\ Backend!Get(k)
  /\ UNCHANGED <<tableKeys, faults, pc, call, declared, lost>>

\* The first half of Set and the store of Cached: the backend holds k for T.
Store(k, T) ==
  /\ \E v \in Value, ttl \in TTL : Backend!Set(k, v, ttl)
  /\ declared' = [declared EXCEPT ![k] = T]
  /\ lost' = lost \ ({k} \X Table)

\* Set of a key for the tables T; with none it has no second half.
Set(c, k, T) ==
  /\ pc[c] = "idle" /\ Store(k, T)
  /\ \/ T = {} /\ UNCHANGED <<pc, call>>
     \/ T # {} /\ Start(c, k, "track") /\ tables' = [tables EXCEPT ![c] = T] /\ UNCHANGED rest
  /\ UNCHANGED <<tableKeys, faults>>

\* The backend reports an error; the value may be there all the same.
SetFails(c, k, T) ==
  /\ pc[c] = "idle" /\ Fault
  /\ \/ UNCHANGED <<backend, declared, lost>>
     \/ /\ \E v \in Value, ttl \in TTL : Backend!Set(k, v, ttl)
        /\ declared' = [declared EXCEPT ![k] = T]
        /\ lost' = lost \union ({k} \X T)
  /\ UNCHANGED <<tableKeys, pc, call>>

\* Mutant: the set of keys is made anew for every Set.
RecordedAnew(K, k, T) == [t \in Table |-> IF t \in T THEN {k} ELSE K[t]]

\* The loop over the tables in Set; also TrackTable.
Recorded(K, k, T) == [t \in Table |-> IF t \in T THEN K[t] \union {k} ELSE K[t]]

\* The second half of Set.
Track(c) ==
  /\ pc[c] = "track" /\ Return(c)
  /\ tableKeys' = Recorded(tableKeys, key[c], tables[c])
  /\ lost' = lost \ ({key[c]} \X tables[c])
  /\ UNCHANGED <<backend, faults, declared>>

TrackTable(c, t, k) ==
  /\ pc[c] = "idle"
  /\ tableKeys' = Recorded(tableKeys, k, {t})
  /\ declared' = [declared EXCEPT ![k] = @ \union {t}]
  /\ lost' = lost \ {<<k, t>>}
  /\ UNCHANGED <<backend, faults, pc, call>>

\* The first half of Delete and InvalidateKey.
Delete(c, k) ==
  /\ Start(c, k, "untrack")
  /\ Backend!Remove({k})
  /\ UNCHANGED <<tableKeys, faults, tables, rest, declared, lost>>

\* The second half of Delete: the key leaves every table, stored anew or not.
Untrack(c) ==
  /\ \/ pc[c] = "untrack" /\ Return(c)
     \/ pc[c] = "discard" /\ Go(c, "fill") /\ UNCHANGED call
  /\ tableKeys' = [t \in Table |-> tableKeys[t] \ {key[c]}]
  /\ lost' = lost \union GivenUp({key[c]})
  /\ UNCHANGED <<backend, faults, declared>>

\* Delete, Clear or InvalidatePattern reports an error; some of the keys it was
\* to remove may be gone, and no record is touched.
RemoveFails(c, K) ==
  /\ pc[c] = "idle" /\ Fault
  /\ \E R \in SUBSET K : Backend!Remove(R)
  /\ UNCHANGED <<tableKeys, pc, call, declared, lost>>

\* The first half of Clear.
Clear(c) ==
  /\ Start(c, AnyKey, "reset")
  /\ Backend!Remove(Key)
  /\ UNCHANGED <<tableKeys, faults, tables, rest, declared, lost>>

\* The second half of Clear.
Reset(c) ==
  /\ pc[c] = "reset" /\ Return(c)
  /\ tableKeys' = [t \in Table |-> {}] /\ lost' = lost \union GivenUp(Key)
  /\ UNCHANGED <<backend, faults, declared>>

\* InvalidatePattern leaves the records of the keys it removes.
InvalidatePattern(c, P) ==
  /\ pc[c] = "idle" /\ Backend!Remove(P)
  /\ UNCHANGED <<tableKeys, faults, pc, call, declared, lost>>

\* InvalidateTable takes the recorded keys under the lock.
InvalidateTable(c, t) ==
  /\ Start(c, AnyKey, "sweep")
  /\ rest' = [rest EXCEPT ![c] = tableKeys[t]]
  /\ tableKeys' = [tableKeys EXCEPT ![t] = {}]
  /\ UNCHANGED <<backend, faults, tables, declared, lost>>

\* And deletes them one by one, in the order of a map.
Sweep(c) ==
  /\ pc[c] = "sweep"
  /\ \E k \in rest[c] :
       /\ Backend!Remove({k})
       /\ rest' = [rest EXCEPT ![c] = @ \ {k}]
  /\ UNCHANGED <<tableKeys, faults, pc, key, tables, declared, lost>>

\* A delete reports an error: the keys that are left are neither deleted nor
\* recorded any more.
SweepFails(c) ==
  /\ pc[c] = "sweep" /\ Fault /\ Return(c)
  /\ \E k \in rest[c] : UNCHANGED backend \/ Backend!Remove({k})
  /\ lost' = lost \union GivenUp(rest[c])
  /\ UNCHANGED <<tableKeys, declared>>

SweepEnds(c) ==
  /\ pc[c] = "sweep" /\ rest[c] = {} /\ Return(c)
  /\ UNCHANGED <<backend, tableKeys, faults, declared, lost>>

\* Cached finds nothing and calls fetch.
CachedMiss(c, k) ==
  /\ Start(c, k, "fill")
  /\ ~Backend!Live(k) /\ Backend!Get(k)
  /\ UNCHANGED <<tableKeys, faults, tables, rest, declared, lost>>

\* Cached finds a value of another type (JSON from Redis) and deletes the key.
CachedMismatch(c, k) ==
  /\ Start(c, k, "mismatch")
  /\ Backend!Live(k) /\ Backend!Get(k)
  /\ UNCHANGED <<tableKeys, faults, tables, rest, declared, lost>>

\* The Delete of a value of another type; its error is dropped.
Discard(c) ==
  /\ pc[c] = "mismatch"
  /\ \/ Backend!Remove({key[c]}) /\ Go(c, "discard") /\ UNCHANGED faults
     \/ Backend!Remove({key[c]}) /\ Go(c, "fill") /\ Fault
     \/ UNCHANGED backend /\ Go(c, "fill") /\ Fault
  /\ UNCHANGED <<tableKeys, call, declared, lost>>

\* fetch returns and Cached stores its value, for no table.
Fill(c) ==
  /\ pc[c] = "fill" /\ Return(c)
  /\ Store(key[c], {})
  /\ UNCHANGED <<tableKeys, faults>>

\* fetch or the store fails; a store that failed after taking effect is Fill.
FillFails(c) ==
  /\ pc[c] = "fill" /\ Return(c) /\ Fault
  /\ UNCHANGED <<backend, tableKeys, declared, lost>>
-----------------------------------------------------------------------------
Begin(c) ==
  \/ Clear(c)
  \/ \E k \in Key :
       \/ Get(c, k) \/ Delete(c, k) \/ CachedMiss(c, k) \/ CachedMismatch(c, k)
       \/ \E T \in SUBSET Table : Set(c, k, T) \/ SetFails(c, k, T)
       \/ \E t \in Table : TrackTable(c, t, k)
  \/ \E P \in Patterns : InvalidatePattern(c, P)
  \/ \E K \in Patterns \union {Key} \union {{k} : k \in Key} : RemoveFails(c, K)
  \/ \E t \in Table : InvalidateTable(c, t)

Continue(c) ==
  \/ Track(c) \/ Untrack(c) \/ Reset(c)
  \/ Sweep(c) \/ SweepFails(c) \/ SweepEnds(c)
  \/ Discard(c) \/ Fill(c) \/ FillFails(c)

Next == Tick \/ \E c \in Client : Begin(c) \/ Continue(c)

Spec == Init /\ [][Next]_vars
-----------------------------------------------------------------------------
(* Properties.                                                             *)

TypeOK ==
  /\ store \in [Key -> Backend!Entry \union {Absent}]
  /\ now \in Nat /\ answer \in Value \union {Absent}
  /\ tableKeys \in [Table -> SUBSET Key] /\ faults \in Nat
  /\ pc \in [Client -> {"idle", "track", "untrack", "reset", "sweep", "mismatch",
                      "discard", "fill"}]
  /\ key \in [Client -> Key] /\ tables \in [Client -> SUBSET Table]
  /\ rest \in [Client -> SUBSET Key]
  /\ declared \in [Key -> SUBSET Table] /\ lost \subseteq Key \X Table

\* An entry stored for a table is recorded under it, or its Set is about to record
\* it, or an InvalidateTable is about to delete it; unless a Delete or Clear that
\* ran while it was stored, or a failed call, has given its record up.  Without
\* that an InvalidateTable would leave it and readers would see stale data.
Covered ==
  \A k \in Key, t \in Table :
    Present(k) /\ t \in declared[k] =>
      \/ k \in tableKeys[t]
      \/ <<k, t>> \in lost
      \/ \E c \in Client :
           \/ pc[c] = "track" /\ key[c] = k /\ t \in tables[c]
           \/ pc[c] = "sweep" /\ k \in rest[c]
=============================================================================
