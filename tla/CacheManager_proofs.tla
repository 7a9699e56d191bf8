-------------------------- MODULE CacheManager_proofs --------------------------
(***************************************************************************)
(* Proofs about the cache manager for every number of clients, keys and    *)
(* tables: its types, and that every entry stored for a table is covered.  *)
(***************************************************************************)
EXTENDS CacheManager, TLAPS

Stored == Backend!Entry \union {Absent}

\* No entry of the store changes, except that entries may vanish.
OnlyVanish == \A j \in Key : store'[j] \in {store[j], Absent}
-----------------------------------------------------------------------------
(* The backend's operations as the manager sees them.                      *)

\* A store without some of its entries.
LEMMA LessStore ==
  ASSUME store \in [Key -> Stored], NEW K
  PROVE  /\ Backend!Less(K) \in [Key -> Stored]
         /\ \A j \in Key : Backend!Less(K)[j] \in {store[j], Absent}
         /\ \A j \in Key : j \in K => Backend!Less(K)[j] = Absent
BY DEF Backend!Less, Stored

\* A lookup leaves the store alone but for expired entries.
LEMMA BackendGet ==
  ASSUME TypeOK, NEW k \in Key, Backend!Get(k)
  PROVE  /\ store' \in [Key -> Stored] /\ OnlyVanish
         /\ now' = now /\ answer' \in Value \union {Absent}
<1>1. store \in [Key -> Stored]
  BY DEF TypeOK, Stored
<1>2. PICK L \in SUBSET Backend!Lapsed : store' = Backend!Less(L)
  BY DEF Backend!Get
<1>3. answer' \in Value \union {Absent}
  BY <1>1 DEF Backend!Get, Backend!Live, Stored, Backend!Entry
<1>. QED
  BY <1>1, <1>2, <1>3, LessStore DEF Backend!Get, OnlyVanish

\* A removal.
LEMMA BackendRemove ==
  ASSUME TypeOK, NEW K, Backend!Remove(K)
  PROVE  /\ store' \in [Key -> Stored] /\ OnlyVanish
         /\ \A j \in Key : j \in K => store'[j] = Absent
         /\ now' = now /\ answer' = answer
<1>1. store \in [Key -> Stored]
  BY DEF TypeOK, Stored
<1>2. PICK L \in SUBSET Backend!Lapsed : store' = Backend!Less(K \union L)
  BY DEF Backend!Remove
<1>. QED
  BY <1>1, <1>2, LessStore DEF Backend!Remove, OnlyVanish

\* A store.
LEMMA BackendSet ==
  ASSUME TypeOK, NEW k \in Key, NEW v \in Value, NEW ttl \in TTL, Backend!Set(k, v, ttl)
  PROVE  /\ store' \in [Key -> Stored]
         /\ \A j \in Key \ {k} : store'[j] \in {store[j], Absent}
         /\ now' = now /\ answer' = answer
<1>1. store \in [Key -> Stored]
  BY DEF TypeOK, Stored
<1>2. PICK L \in SUBSET (Key \ {k}) :
        store' = [Backend!Less(L) EXCEPT ![k] = [value |-> v, expires |-> now + ttl]]
  BY DEF Backend!Set
<1>3. [value |-> v, expires |-> now + ttl] \in Stored
  BY ManagerAssumption DEF TypeOK, Stored, Backend!Entry
<1>. QED
  BY <1>1, <1>2, <1>3, LessStore DEF Backend!Set
-----------------------------------------------------------------------------
(* Types.                                                                  *)

\* The key that stands for no key is a key.
LEMMA AnyKeyIsKey == AnyKey \in Key
BY ManagerAssumption DEF AnyKey

\* Nothing is stored, recorded or under way at the start.
LEMMA TypeInit == Init => TypeOK
BY AnyKeyIsKey DEF Init, TypeOK, Backend!Init, Backend!Entry

\* The records that are given up are pairs of keys and tables.
LEMMA GivenUpType == \A K \in SUBSET Key : GivenUp(K) \subseteq Key \X Table
BY DEF GivenUp

\* Recording a key under some tables.
LEMMA RecordedType ==
  ASSUME TypeOK, NEW k \in Key, NEW T \in SUBSET Table
  PROVE  /\ Recorded(tableKeys, k, T) \in [Table -> SUBSET Key]
         /\ \A t \in Table : tableKeys[t] \subseteq Recorded(tableKeys, k, T)[t]
         /\ \A t \in T : k \in Recorded(tableKeys, k, T)[t]
BY DEF TypeOK, Recorded

\* What the end of a call leaves in the locals.
LEMMA ReturnType ==
  ASSUME TypeOK, NEW c \in Client, Return(c)
  PROVE  /\ pc' = [pc EXCEPT ![c] = "idle"]
         /\ key' \in [Client -> Key] /\ tables' \in [Client -> SUBSET Table]
         /\ rest' \in [Client -> SUBSET Key]
         /\ \A d \in Client \ {c} : /\ key'[d] = key[d] /\ tables'[d] = tables[d]
                                   /\ rest'[d] = rest[d]
BY AnyKeyIsKey DEF TypeOK, Return, Go

\* Every step preserves the types.
LEMMA TypeStep == TypeOK /\ [Next]_vars => TypeOK'
<1>. SUFFICES ASSUME TypeOK, [Next]_vars PROVE TypeOK'
  OBVIOUS
<1>. USE DEF TypeOK, Stored
<1>1. CASE UNCHANGED vars
  BY <1>1 DEF vars
<1>2. CASE Tick
  BY <1>2 DEF Tick, Backend!Tick, call
<1>3. ASSUME NEW c \in Client, Begin(c) PROVE TypeOK'
  <2>. USE DEF Start, Go, Fault, call, backend
  <2>1. CASE Clear(c)
    <3>1. Backend!Remove(Key)
      BY <2>1 DEF Clear
    <3>. QED
      BY <2>1, <3>1, BackendRemove, AnyKeyIsKey DEF Clear
  <2>2. ASSUME NEW k \in Key, Get(c, k) PROVE TypeOK'
    BY <2>2, BackendGet DEF Get
  <2>3. ASSUME NEW k \in Key, Delete(c, k) PROVE TypeOK'
    <3>1. Backend!Remove({k})
      BY <2>3 DEF Delete
    <3>. QED
      BY <2>3, <3>1, BackendRemove DEF Delete
  <2>4. ASSUME NEW k \in Key, CachedMiss(c, k) \/ CachedMismatch(c, k) PROVE TypeOK'
    <3>1. Backend!Get(k)
      BY <2>4 DEF CachedMiss, CachedMismatch
    <3>. QED
      BY <2>4, <3>1, BackendGet DEF CachedMiss, CachedMismatch
  <2>5. ASSUME NEW k \in Key, NEW T \in SUBSET Table, Set(c, k, T) PROVE TypeOK'
    <3>1. PICK v \in Value, ttl \in TTL : Backend!Set(k, v, ttl)
      BY <2>5 DEF Set, Store
    <3>2. /\ store' \in [Key -> Stored] /\ now' = now /\ answer' = answer
      BY <3>1, BackendSet
    <3>. QED
      BY <2>5, <3>2, ZenonT(20) DEF Set, Store
  <2>6. ASSUME NEW k \in Key, NEW T \in SUBSET Table, SetFails(c, k, T) PROVE TypeOK'
    <3>1. CASE UNCHANGED <<backend, declared, lost>>
      BY <2>6, <3>1 DEF SetFails
    <3>2. CASE ~UNCHANGED <<backend, declared, lost>>
      <4>1. PICK v \in Value, ttl \in TTL : Backend!Set(k, v, ttl)
        BY <2>6, <3>2 DEF SetFails
      <4>2. /\ store' \in [Key -> Stored] /\ now' = now /\ answer' = answer
        BY <4>1, BackendSet
      <4>. QED
        BY <2>6, <3>2, <4>2 DEF SetFails
    <3>. QED
      BY <3>1, <3>2
  <2>7. ASSUME NEW k \in Key, NEW t \in Table, TrackTable(c, t, k) PROVE TypeOK'
    BY <2>7, RecordedType DEF TrackTable
  <2>8. ASSUME NEW P \in Patterns, InvalidatePattern(c, P) PROVE TypeOK'
    BY <2>8, BackendRemove DEF InvalidatePattern
  <2>9. ASSUME NEW K, RemoveFails(c, K) PROVE TypeOK'
    <3>1. PICK R \in SUBSET K : Backend!Remove(R)
      BY <2>9 DEF RemoveFails
    <3>2. store' \in [Key -> Stored] /\ now' = now /\ answer' = answer
      BY <3>1, BackendRemove
    <3>. QED
      BY <2>9, <3>2 DEF RemoveFails
  <2>10. ASSUME NEW t \in Table, InvalidateTable(c, t) PROVE TypeOK'
    BY <2>10, AnyKeyIsKey DEF InvalidateTable
  <2>. QED
    BY <1>3, <2>1, <2>2, <2>3, <2>4, <2>5, <2>6, <2>7, <2>8, <2>9, <2>10 DEF Begin
<1>4. ASSUME NEW c \in Client, Continue(c) PROVE TypeOK'
  <2>. USE DEF Go, Fault, call, backend
  <2>1. CASE Track(c)
    BY <2>1, RecordedType, ReturnType DEF Track
  <2>2. CASE Untrack(c)
    <3>1. GivenUp({key[c]}) \subseteq Key \X Table
      BY GivenUpType
    <3>. QED
      BY <2>2, <3>1, ReturnType DEF Untrack
  <2>3. CASE Reset(c)
    BY <2>3, GivenUpType, ReturnType DEF Reset
  <2>4. CASE Sweep(c)
    <3>1. PICK k \in rest[c] : Backend!Remove({k}) /\ rest' = [rest EXCEPT ![c] = @ \ {k}]
      BY <2>4 DEF Sweep
    <3>2. store' \in [Key -> Stored] /\ now' = now /\ answer' = answer
      BY <3>1, BackendRemove
    <3>. QED
      BY <2>4, <3>1, <3>2 DEF Sweep
  <2>5. CASE SweepFails(c)
    <3>1. PICK k \in rest[c] : UNCHANGED backend \/ Backend!Remove({k})
      BY <2>5 DEF SweepFails
    <3>2. store' \in [Key -> Stored] /\ now' = now /\ answer' = answer
      BY <3>1, BackendRemove
    <3>3. GivenUp(rest[c]) \subseteq Key \X Table
      BY GivenUpType
    <3>. QED
      BY <2>5, <3>2, <3>3, ReturnType DEF SweepFails
  <2>6. CASE SweepEnds(c)
    BY <2>6, ReturnType DEF SweepEnds
  <2>7. CASE Discard(c)
    <3>1. UNCHANGED backend \/ Backend!Remove({key[c]})
      BY <2>7 DEF Discard
    <3>2. store' \in [Key -> Stored] /\ now' = now /\ answer' = answer
      BY <3>1, BackendRemove
    <3>. QED
      BY <2>7, <3>2 DEF Discard
  <2>8. CASE Fill(c)
    <3>1. PICK v \in Value, ttl \in TTL : Backend!Set(key[c], v, ttl)
      BY <2>8 DEF Fill, Store
    <3>2. store' \in [Key -> Stored] /\ now' = now /\ answer' = answer
      BY <3>1, BackendSet
    <3>. QED
      BY <2>8, <3>2, ReturnType DEF Fill, Store
  <2>9. CASE FillFails(c)
    BY <2>9, ReturnType DEF FillFails
  <2>. QED
    BY <1>4, <2>1, <2>2, <2>3, <2>4, <2>5, <2>6, <2>7, <2>8, <2>9 DEF Continue
<1>. QED
  BY <1>1, <1>2, <1>3, <1>4 DEF Next

\* The manager's state has its types for any number of clients.
THEOREM TypeCorrect == Spec => []TypeOK
BY TypeInit, TypeStep, PTL DEF Spec
-----------------------------------------------------------------------------
(* Coverage.                                                               *)

\* A call under way that will record k under t or delete k.
Pending(c, k, t) ==
  \/ pc[c] = "track" /\ key[c] = k /\ t \in tables[c]
  \/ pc[c] = "sweep" /\ k \in rest[c]

\* A step that stores nothing keeps the coverage if every record it drops goes to
\* the records given up, to a call under way, or with its entry.
LEMMA KeepsCovered ==
  ASSUME Covered, OnlyVanish, declared' = declared,
         \A k \in Key, t \in Table :
           Present(k)' /\ t \in declared[k] =>
             /\ k \in tableKeys[t] =>
                  k \in tableKeys'[t] \/ <<k, t>> \in lost' \/ \E c \in Client : Pending(c, k, t)'
             /\ <<k, t>> \in lost => k \in tableKeys'[t] \/ <<k, t>> \in lost'
             /\ \A c \in Client : Pending(c, k, t) =>
                  Pending(c, k, t)' \/ k \in tableKeys'[t] \/ <<k, t>> \in lost'
  PROVE  Covered'
<1>. SUFFICES ASSUME NEW k \in Key, NEW t \in Table, Present(k)', t \in declared[k]
              PROVE  k \in tableKeys'[t] \/ <<k, t>> \in lost' \/ \E c \in Client : Pending(c, k, t)'
  BY DEF Covered, Pending
<1>1. Present(k)
  BY DEF OnlyVanish, Present
<1>2. k \in tableKeys[t] \/ <<k, t>> \in lost \/ \E c \in Client : Pending(c, k, t)
  BY <1>1 DEF Covered, Pending
<1>. QED
  BY <1>2

\* A step that touches neither records nor calls that record or delete.
LEMMA QuietCovered ==
  ASSUME Covered, OnlyVanish, UNCHANGED <<declared, tableKeys, lost>>,
         \A c \in Client, k \in Key, t \in Table : Pending(c, k, t) => Pending(c, k, t)'
  PROVE  Covered'
BY KeepsCovered

\* A Set: its key is covered by what follows, the others as before.
LEMMA StoreCovered ==
  ASSUME TypeOK, Covered, NEW k \in Key, NEW T \in SUBSET Table,
         \A j \in Key \ {k} : store'[j] \in {store[j], Absent},
         declared' = [declared EXCEPT ![k] = T], tableKeys' = tableKeys,
         lost \ ({k} \X Table) \subseteq lost',
         \A t \in T : <<k, t>> \in lost' \/ \E c \in Client : Pending(c, k, t)',
         \A c \in Client, j \in Key \ {k}, t \in Table : Pending(c, j, t) => Pending(c, j, t)'
  PROVE  Covered'
<1>. SUFFICES ASSUME NEW j \in Key, NEW t \in Table, Present(j)', t \in declared'[j]
              PROVE  j \in tableKeys'[t] \/ <<j, t>> \in lost' \/ \E c \in Client : Pending(c, j, t)'
  BY DEF Covered, Pending
<1>1. CASE j = k
  BY <1>1 DEF TypeOK
<1>2. CASE j # k
  <2>1. Present(j) /\ t \in declared[j]
    BY <1>2 DEF Present, TypeOK
  <2>2. j \in tableKeys[t] \/ <<j, t>> \in lost \/ \E c \in Client : Pending(c, j, t)
    BY <2>1 DEF Covered, Pending
  <2>3. <<j, t>> \in lost => <<j, t>> \in lost'
    BY <1>2
  <2>. QED
    BY <1>2, <2>2, <2>3
<1>. QED
  BY <1>1, <1>2

\* A client that starts a call had nothing pending.
LEMMA StartPending ==
  ASSUME TypeOK, NEW c \in Client, NEW k \in Key, NEW p, Start(c, k, p)
  PROVE  /\ \A j \in Key, t \in Table : ~Pending(c, j, t)
         /\ \A d \in Client \ {c} : pc'[d] = pc[d] /\ key'[d] = key[d]
         /\ pc'[c] = p /\ key'[c] = k
BY DEF TypeOK, Start, Go, Pending

\* A client that returns has nothing pending; the others keep what they had.
LEMMA ReturnPending ==
  ASSUME TypeOK, NEW c \in Client, Return(c)
  PROVE  \A d \in Client \ {c}, j \in Key, t \in Table : Pending(d, j, t) => Pending(d, j, t)'
BY DEF TypeOK, Return, Go, Pending

\* The records that are given up are those of entries that are there.
LEMMA GivenUpCovers ==
  \A K \in SUBSET Key, k \in Key, t \in Table :
    k \in K /\ Present(k) /\ t \in declared[k] => <<k, t>> \in GivenUp(K)
BY DEF GivenUp

\* Starting a call keeps the coverage.
LEMMA BeginCovered ==
  ASSUME TypeOK, Covered, NEW c \in Client, Begin(c)
  PROVE  Covered'
<1>. USE DEF call, backend
<1>1. CASE Clear(c)
  <2>1. OnlyVanish
    BY <1>1, BackendRemove DEF Clear
  <2>. QED
    BY <1>1, <2>1, StartPending, QuietCovered, AnyKeyIsKey DEF Clear, Pending
<1>2. ASSUME NEW k \in Key, Get(c, k) PROVE Covered'
  <2>1. OnlyVanish
    BY <1>2, BackendGet DEF Get
  <2>. QED
    BY <1>2, <2>1, QuietCovered DEF Get, Pending
<1>3. ASSUME NEW k \in Key, Delete(c, k) PROVE Covered'
  <2>1. OnlyVanish
    BY <1>3, BackendRemove DEF Delete
  <2>. QED
    BY <1>3, <2>1, StartPending, QuietCovered DEF Delete, Pending
<1>4. ASSUME NEW k \in Key, CachedMiss(c, k) \/ CachedMismatch(c, k) PROVE Covered'
  <2>1. OnlyVanish
    BY <1>4, BackendGet DEF CachedMiss, CachedMismatch
  <2>2. PICK p \in {"fill", "mismatch"} : Start(c, k, p)
    BY <1>4 DEF CachedMiss, CachedMismatch
  <2>. QED
    BY <1>4, <2>1, <2>2, StartPending, QuietCovered DEF CachedMiss, CachedMismatch, Pending
<1>5. ASSUME NEW k \in Key, NEW T \in SUBSET Table, Set(c, k, T) PROVE Covered'
  <2>1. \A j \in Key \ {k} : store'[j] \in {store[j], Absent}
    BY <1>5, BackendSet DEF Set, Store
  <2>2. /\ declared' = [declared EXCEPT ![k] = T] /\ tableKeys' = tableKeys
        /\ lost' = lost \ ({k} \X Table)
    BY <1>5 DEF Set, Store
  <2>3. CASE T = {}
    <3>1. \A d \in Client, j \in Key, t \in Table : Pending(d, j, t) => Pending(d, j, t)'
      BY <1>5, <2>3 DEF Set, Pending
    <3>2. \A t \in T : <<k, t>> \in lost' \/ \E d \in Client : Pending(d, k, t)'
      BY <2>3
    <3>3. lost \ ({k} \X Table) \subseteq lost'
      BY <2>2
    <3>4. \A d \in Client, j \in Key \ {k}, t \in Table : Pending(d, j, t) => Pending(d, j, t)'
      BY <3>1
    <3>. QED
      BY <2>1, <2>2, <3>2, <3>3, <3>4, StoreCovered
  <2>4. CASE T # {}
    <3>1. Start(c, k, "track") /\ tables' = [tables EXCEPT ![c] = T] /\ rest' = rest
      BY <1>5, <2>4 DEF Set
    <3>2. \A d \in Client, j \in Key, t \in Table : Pending(d, j, t) => Pending(d, j, t)'
      BY <3>1, StartPending DEF Pending, TypeOK
    <3>3. \A t \in T : Pending(c, k, t)'
      BY <3>1, StartPending DEF Pending, TypeOK
    <3>. QED
      BY <2>1, <2>2, <3>2, <3>3, StoreCovered
  <2>. QED
    BY <2>3, <2>4
<1>6. ASSUME NEW k \in Key, NEW T \in SUBSET Table, SetFails(c, k, T) PROVE Covered'
  <2>1. \A d \in Client, j \in Key, t \in Table : Pending(d, j, t) => Pending(d, j, t)'
    BY <1>6 DEF SetFails, Pending
  <2>2. CASE UNCHANGED <<backend, declared, lost>>
    <3>1. OnlyVanish
      BY <2>2 DEF OnlyVanish
    <3>. QED
      BY <1>6, <2>1, <2>2, <3>1, QuietCovered DEF SetFails
  <2>3. CASE ~UNCHANGED <<backend, declared, lost>>
    <3>1. /\ \E v \in Value, ttl \in TTL : Backend!Set(k, v, ttl)
          /\ declared' = [declared EXCEPT ![k] = T]
          /\ lost' = lost \union ({k} \X T) /\ tableKeys' = tableKeys
      BY <1>6, <2>3 DEF SetFails
    <3>2. \A j \in Key \ {k} : store'[j] \in {store[j], Absent}
      BY <3>1, BackendSet
    <3>. QED
      BY <2>1, <3>1, <3>2, StoreCovered
  <2>. QED
    BY <2>2, <2>3
<1>7. ASSUME NEW k \in Key, NEW t \in Table, TrackTable(c, t, k) PROVE Covered'
  <2>1. \A u \in Table : tableKeys[u] \subseteq tableKeys'[u]
    BY <1>7, RecordedType DEF TrackTable
  <2>2. k \in tableKeys'[t]
    BY <1>7, RecordedType DEF TrackTable
  <2>3. \A d \in Client, j \in Key, u \in Table : Pending(d, j, u) => Pending(d, j, u)'
    BY <1>7 DEF TrackTable, Pending
  <2>. QED
    BY <1>7, <2>1, <2>2, <2>3, ZenonT(20) DEF TrackTable, Covered, Pending, Present, TypeOK
<1>8. ASSUME NEW P \in Patterns, InvalidatePattern(c, P) PROVE Covered'
  <2>1. OnlyVanish
    BY <1>8, BackendRemove DEF InvalidatePattern
  <2>. QED
    BY <1>8, <2>1, QuietCovered DEF InvalidatePattern, Pending
<1>9. ASSUME NEW K, RemoveFails(c, K) PROVE Covered'
  <2>1. PICK R \in SUBSET K : Backend!Remove(R)
    BY <1>9 DEF RemoveFails
  <2>2. OnlyVanish
    BY <2>1, BackendRemove
  <2>. QED
    BY <1>9, <2>2, QuietCovered DEF RemoveFails, Pending
<1>10. ASSUME NEW t \in Table, InvalidateTable(c, t) PROVE Covered'
  <2>1. Start(c, AnyKey, "sweep") /\ rest' = [rest EXCEPT ![c] = tableKeys[t]]
    BY <1>10 DEF InvalidateTable
  <2>2. \A d \in Client, j \in Key, u \in Table : Pending(d, j, u) => Pending(d, j, u)'
    BY <1>10, <2>1, StartPending, AnyKeyIsKey DEF InvalidateTable, Pending, TypeOK
  <2>3. \A j \in Key, u \in Table : j \in tableKeys[t] => Pending(c, j, u)'
    BY <2>1, StartPending, AnyKeyIsKey DEF Pending, TypeOK
  <2>4. \A j \in Key, u \in Table : j \in tableKeys[u] => j \in tableKeys'[u] \/ u = t
    BY <1>10 DEF InvalidateTable, TypeOK
  <2>5. OnlyVanish
    BY <1>10 DEF InvalidateTable, OnlyVanish
  <2>. QED
    BY <1>10, <2>2, <2>3, <2>4, <2>5, KeepsCovered DEF InvalidateTable
<1>. QED
  BY <1>1, <1>2, <1>3, <1>4, <1>5, <1>6, <1>7, <1>8, <1>9, <1>10 DEF Begin

\* So does every later step of a call.
LEMMA ContinueCovered ==
  ASSUME TypeOK, Covered, NEW c \in Client, Continue(c)
  PROVE  Covered'
<1>. USE DEF call, backend
<1>1. CASE Track(c)
  <2>1. /\ \A u \in Table : tableKeys[u] \subseteq tableKeys'[u]
        /\ \A u \in tables[c] : key[c] \in tableKeys'[u]
    BY <1>1, RecordedType DEF Track, TypeOK
  <2>2. \A d \in Client, j \in Key, t \in Table :
          Pending(d, j, t) => Pending(d, j, t)' \/ j \in tableKeys'[t]
    BY <1>1, <2>1, ReturnPending DEF Track, Pending
  <2>3. OnlyVanish
    BY <1>1 DEF Track, OnlyVanish
  <2>. QED
    BY <1>1, <2>1, <2>2, <2>3, KeepsCovered DEF Track
<1>2. CASE Untrack(c)
  <2>1. \A d \in Client, j \in Key, t \in Table : Pending(d, j, t) => Pending(d, j, t)'
    <3>1. CASE pc[c] = "untrack" /\ Return(c)
      BY <3>1, ReturnPending DEF Pending
    <3>2. CASE pc[c] = "discard" /\ Go(c, "fill") /\ UNCHANGED call
      BY <3>2 DEF Pending, Go, TypeOK
    <3>. QED
      BY <1>2, <3>1, <3>2 DEF Untrack
  <2>2. \A j \in Key, t \in Table : j \in tableKeys[t] => j \in tableKeys'[t] \/ j = key[c]
    BY <1>2 DEF Untrack, TypeOK
  <2>3. OnlyVanish
    BY <1>2 DEF Untrack, OnlyVanish
  <2>4. \A j \in Key, t \in Table :
          j = key[c] /\ Present(j)' /\ t \in declared[j] => <<j, t>> \in lost'
    <3>1. \A j \in Key : Present(j)' <=> Present(j)
      BY <1>2 DEF Untrack, Present
    <3>. QED
      BY <1>2, <3>1, GivenUpCovers DEF Untrack, TypeOK
  <2>. QED
    BY <1>2, <2>1, <2>2, <2>3, <2>4, KeepsCovered DEF Untrack
<1>3. CASE Reset(c)
  <2>1. \A d \in Client, j \in Key, t \in Table : Pending(d, j, t) => Pending(d, j, t)'
    BY <1>3, ReturnPending DEF Reset, Pending
  <2>2. OnlyVanish
    BY <1>3 DEF Reset, OnlyVanish
  <2>3. \A j \in Key, t \in Table : Present(j)' /\ t \in declared[j] => <<j, t>> \in lost'
    <3>1. \A j \in Key : Present(j)' <=> Present(j)
      BY <1>3 DEF Reset, Present
    <3>. QED
      BY <1>3, <3>1, GivenUpCovers DEF Reset
  <2>. QED
    BY <1>3, <2>1, <2>2, <2>3, KeepsCovered DEF Reset
<1>4. CASE Sweep(c)
  <2>1. PICK k \in rest[c] : Backend!Remove({k}) /\ rest' = [rest EXCEPT ![c] = @ \ {k}]
    BY <1>4 DEF Sweep
  <2>2. OnlyVanish /\ ~Present(k)'
    BY <2>1, BackendRemove DEF Present, TypeOK
  <2>3. \A d \in Client, j \in Key, t \in Table : Pending(d, j, t) => Pending(d, j, t)' \/ j = k
    BY <1>4, <2>1 DEF Sweep, Pending, TypeOK
  <2>. QED
    BY <1>4, <2>2, <2>3, KeepsCovered DEF Sweep
<1>5. CASE SweepFails(c)
  <2>1. PICK k \in rest[c] : UNCHANGED backend \/ Backend!Remove({k})
    BY <1>5 DEF SweepFails
  <2>2. OnlyVanish
    BY <2>1, BackendRemove DEF OnlyVanish
  <2>3. \A j \in Key, t \in Table :
          j \in rest[c] /\ Present(j)' /\ t \in declared[j] => <<j, t>> \in lost'
    <3>1. \A j \in Key : Present(j)' => Present(j)
      BY <2>2 DEF OnlyVanish, Present
    <3>. QED
      BY <1>5, <3>1, GivenUpCovers DEF SweepFails, TypeOK
  <2>4. \A d \in Client, j \in Key, t \in Table :
          Pending(d, j, t) => Pending(d, j, t)' \/ j \in rest[c]
    BY <1>5, ReturnPending DEF SweepFails, Pending
  <2>. QED
    BY <1>5, <2>2, <2>3, <2>4, KeepsCovered DEF SweepFails
<1>6. CASE SweepEnds(c)
  <2>1. \A d \in Client, j \in Key, t \in Table : Pending(d, j, t) => Pending(d, j, t)'
    BY <1>6, ReturnPending DEF SweepEnds, Pending
  <2>2. OnlyVanish
    BY <1>6 DEF SweepEnds, OnlyVanish
  <2>. QED
    BY <1>6, <2>1, <2>2, QuietCovered DEF SweepEnds
<1>7. CASE Discard(c)
  <2>1. OnlyVanish
    BY <1>7, BackendRemove DEF Discard, OnlyVanish
  <2>2. \A d \in Client, j \in Key, t \in Table : Pending(d, j, t) => Pending(d, j, t)'
    BY <1>7 DEF Discard, Pending, Go, TypeOK
  <2>. QED
    BY <1>7, <2>1, <2>2, QuietCovered DEF Discard
<1>8. CASE Fill(c)
  <2>1. \A j \in Key \ {key[c]} : store'[j] \in {store[j], Absent}
    BY <1>8, BackendSet DEF Fill, Store, TypeOK
  <2>2. \A d \in Client, j \in Key, t \in Table : Pending(d, j, t) => Pending(d, j, t)'
    BY <1>8, ReturnPending DEF Fill, Pending
  <2>3. /\ declared' = [declared EXCEPT ![key[c]] = {}] /\ tableKeys' = tableKeys
        /\ lost' = lost \ ({key[c]} \X Table)
    BY <1>8 DEF Fill, Store
  <2>4. key[c] \in Key /\ {} \in SUBSET Table
    BY DEF TypeOK
  <2>5. \A t \in {} : <<key[c], t>> \in lost' \/ \E d \in Client : Pending(d, key[c], t)'
    OBVIOUS
  <2>. QED
    BY <2>1, <2>2, <2>3, <2>4, <2>5, StoreCovered, ZenonT(20)
<1>9. CASE FillFails(c)
  <2>1. \A d \in Client, j \in Key, t \in Table : Pending(d, j, t) => Pending(d, j, t)'
    BY <1>9, ReturnPending DEF FillFails, Pending
  <2>2. OnlyVanish
    BY <1>9 DEF FillFails, OnlyVanish
  <2>. QED
    BY <1>9, <2>1, <2>2, QuietCovered DEF FillFails
<1>. QED
  BY <1>1, <1>2, <1>3, <1>4, <1>5, <1>6, <1>7, <1>8, <1>9 DEF Continue

\* An entry stored for a table can always be found by InvalidateTable, is about to
\* be recorded or deleted, or has been given up by a Delete, a Clear or a failed
\* call that ran beside its Set: any number of clients.
THEOREM EntriesStayCovered == Spec => []Covered
<1>1. Init => Covered
  BY DEF Init, Backend!Init, Covered, Present
<1>2. TypeOK /\ Covered /\ [Next]_vars => Covered'
  <2>. SUFFICES ASSUME TypeOK, Covered, [Next]_vars PROVE Covered'
    OBVIOUS
  <2>1. CASE Tick \/ UNCHANGED vars
    <3>1. UNCHANGED <<store, declared, tableKeys, lost, pc, key, tables, rest>>
      BY <2>1 DEF Tick, Backend!Tick, vars, call
    <3>. QED
      BY <3>1 DEF Covered, Present
  <2>. QED
    BY <2>1, BeginCovered, ContinueCovered DEF Next
<1>. QED
  BY <1>1, <1>2, TypeCorrect, PTL DEF Spec
=============================================================================
