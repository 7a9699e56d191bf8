----------------------------- MODULE Library_proofs -----------------------------
(***************************************************************************)
(* Proofs about the parts of the library that no command drives: the graph  *)
(* of versions is a forest whose two ends agree, for any calls of Add and   *)
(* Remove; the snapshots written by any number of goroutines stand, unless  *)
(* a file was spoiled; and a query's text is that of the calls that made    *)
(* it, for any program that branches off queries as it likes.               *)
(***************************************************************************)
EXTENDS Library, FiniteSetTheorems, SequenceTheorems, WellFoundedInduction, TLAPS

-----------------------------------------------------------------------------
(* Snapshots.                                                              *)

Snapshot == [version : Nat, tables : Nat, edges : Nat]

SnapshotsTypeOK ==
  /\ now \in Nat \ {0} /\ registry \in [tables : Nat, edges : Nat]
  /\ taking \in [Taker -> [at : {"idle", "tables", "edges", "store", "write"}, snapshot : Snapshot]]
  /\ DOMAIN files \subseteq 1..now
  /\ \A p \in DOMAIN files : files[p] \in Snapshot \union {Emptied, Garbled}
  /\ began \in [1..now -> [tables : Nat, edges : Nat]]

\* What the registry held when a second began it still holds.
RegistryGrows ==
  \A t \in 1..now : began[t].tables <= registry.tables /\ began[t].edges <= registry.edges

\* A snapshot's lists hold what was registered before its second began and nothing
\* that never was.
TablesTrue(s) == began[s.version].tables <= s.tables /\ s.tables <= registry.tables
EdgesTrue(s) == began[s.version].edges <= s.edges /\ s.edges <= registry.edges

\* A goroutine on its way has the version of a second that has come, and the lists it
\* has read are true.
TakingInv ==
  \A w \in Taker :
    LET s == taking[w].snapshot
    IN  /\ taking[w].at # "idle" => s.version \in 1..now
        /\ taking[w].at \in {"edges", "store", "write"} => TablesTrue(s)
        /\ taking[w].at \in {"store", "write"} => EdgesTrue(s)
        /\ taking[w].at = "write" => s.version \in DOMAIN files

\* An empty file is being written or was left so, a garbled one was spoiled, and any
\* other is a true snapshot of its version, reported as stored.
FilesInv ==
  /\ \A p \in DOMAIN files :
       \/ /\ files[p] = Emptied
          /\ p \in spoiled \/ \E w \in Taker : taking[w].at = "write" /\ taking[w].snapshot.version = p
       \/ files[p] = Garbled /\ p \in spoiled
       \/ /\ files[p] \in Snapshot /\ files[p].version = p /\ p \in stored
          /\ TablesTrue(files[p]) /\ EdgesTrue(files[p])
  /\ stored \subseteq DOMAIN files

SnapshotsInv == SnapshotsTypeOK /\ RegistryGrows /\ TakingInv /\ FilesInv

\* The three things a file may hold are apart.
LEMMA ContentsDiffer ==
  /\ Emptied # Garbled /\ Emptied \notin Snapshot /\ Garbled \notin Snapshot
<1>1. DOMAIN Emptied = {"broken"} /\ DOMAIN Garbled = {"broken"}
  BY DEF Emptied, Garbled
<1>2. \A s \in Snapshot : "version" \in DOMAIN s
  BY DEF Snapshot
<1>3. Emptied.broken # Garbled.broken
  BY DEF Emptied, Garbled
<1>. QED
  BY <1>1, <1>2, <1>3

LEMMA SnapshotsInitInv == SnapshotsInit => SnapshotsInv
<1>. SUFFICES ASSUME SnapshotsInit PROVE SnapshotsInv
  OBVIOUS
<1>1. DOMAIN files = {} /\ stored = {}
  BY DEF SnapshotsInit
<1>. QED
  BY <1>1 DEF SnapshotsInit, SnapshotsInv, SnapshotsTypeOK, RegistryGrows, TakingInv, FilesInv, Idle, Blank, Snapshot

LEMMA TickSteps ==
  ASSUME SnapshotsInv, Tick
  PROVE  SnapshotsInv'
<1>1. now' = now + 1 /\ now \in Nat /\ now' \in Nat
  BY DEF Tick, SnapshotsInv, SnapshotsTypeOK
<1>2. /\ began' \in [1..now' -> [tables : Nat, edges : Nat]]
      /\ \A t \in 1..now : began'[t] = began[t]
      /\ \A t \in 1..now' : t \in 1..now \/ began'[t] = registry
  BY <1>1 DEF Tick, SnapshotsInv, SnapshotsTypeOK
<1>3. 1..now \subseteq 1..now'
  BY <1>1
<1>4. UNCHANGED <<registry, enabled, taking, files, stored, spoiled>>
  BY DEF Tick
<1>5. SnapshotsTypeOK'
  BY <1>1, <1>2, <1>3, <1>4 DEF SnapshotsInv, SnapshotsTypeOK
<1>6. RegistryGrows'
  BY <1>2, <1>4 DEF SnapshotsInv, RegistryGrows, SnapshotsTypeOK
<1>7. TakingInv'
  BY <1>2, <1>3, <1>4 DEF SnapshotsInv, TakingInv, TablesTrue, EdgesTrue
<1>8. FilesInv'
  BY <1>2, <1>3, <1>4 DEF SnapshotsInv, SnapshotsTypeOK, FilesInv, TablesTrue, EdgesTrue
<1>. QED
  BY <1>5, <1>6, <1>7, <1>8 DEF SnapshotsInv

LEMMA RegisterSteps ==
  ASSUME SnapshotsInv, Register
  PROVE  SnapshotsInv'
<1>1. /\ registry' \in [tables : Nat, edges : Nat] /\ registry \in [tables : Nat, edges : Nat]
      /\ registry.tables <= registry'.tables /\ registry.edges <= registry'.edges
  <2>1. registry \in [tables : Nat, edges : Nat]
    BY DEF SnapshotsInv, SnapshotsTypeOK
  <2>2. \/ registry' = [registry EXCEPT !.tables = @ + 1]
        \/ registry' = [registry EXCEPT !.edges = @ + 1]
    BY DEF Register
  <2>. QED
    BY <2>1, <2>2
<1>2. UNCHANGED <<now, enabled, taking, files, stored, spoiled, began>>
  BY DEF Register
<1>4. SnapshotsTypeOK'
  BY <1>1, <1>2 DEF SnapshotsInv, SnapshotsTypeOK
<1>5. RegistryGrows'
  BY <1>1, <1>2 DEF SnapshotsInv, RegistryGrows, SnapshotsTypeOK
<1>6. TakingInv'
  <2>1. ASSUME NEW w \in Taker
        PROVE  LET s == taking[w].snapshot
               IN  /\ s.tables \in Nat /\ s.edges \in Nat
                   /\ s.tables <= registry.tables => s.tables <= registry'.tables
                   /\ s.edges <= registry.edges => s.edges <= registry'.edges
    <3>1. taking[w].snapshot \in Snapshot
      BY DEF SnapshotsInv, SnapshotsTypeOK
    <3>. QED
      BY <1>1, <3>1 DEF Snapshot
  <2>. QED
    BY <1>2, <2>1 DEF SnapshotsInv, TakingInv, TablesTrue, EdgesTrue
<1>7. FilesInv'
  <2>. SUFFICES ASSUME NEW p \in DOMAIN files, files[p] \in Snapshot, TablesTrue(files[p]), EdgesTrue(files[p])
                PROVE  TablesTrue(files[p])' /\ EdgesTrue(files[p])'
    BY <1>2 DEF SnapshotsInv, FilesInv
  <2>1. TablesTrue(files[p])' <=> began[files[p].version].tables <= files[p].tables /\ files[p].tables <= registry'.tables
    BY <1>2 DEF TablesTrue
  <2>2. EdgesTrue(files[p])' <=> began[files[p].version].edges <= files[p].edges /\ files[p].edges <= registry'.edges
    BY <1>2 DEF EdgesTrue
  <2>3. files[p].tables \in Nat /\ files[p].edges \in Nat
    BY DEF Snapshot
  <2>. QED
    BY <1>1, <2>1, <2>2, <2>3 DEF TablesTrue, EdgesTrue
<1>. QED
  BY <1>4, <1>5, <1>6, <1>7 DEF SnapshotsInv

\* A goroutine moves on and the files stay.
LEMMA StepsKeep ==
  ASSUME SnapshotsInv, NEW w \in Taker, NEW at \in {"idle", "tables", "edges", "store"}, NEW s \in Snapshot,
         taking[w].at # "write", Steps(w, at, s), UNCHANGED <<now, registry, files, stored, spoiled, began>>,
         at # "idle" => s.version \in 1..now,
         at \in {"edges", "store"} => TablesTrue(s),
         at = "store" => EdgesTrue(s)
  PROVE  SnapshotsInv'
<1>1. taking \in [Taker -> [at : {"idle", "tables", "edges", "store", "write"}, snapshot : Snapshot]]
  BY DEF SnapshotsInv, SnapshotsTypeOK
<1>2. taking' = [taking EXCEPT ![w] = [at |-> at, snapshot |-> s]]
  BY DEF Steps
<1>3. taking'[w].at = at /\ taking'[w].snapshot = s /\ \A v \in Taker : v # w => taking'[v] = taking[v]
  BY <1>1, <1>2
<1>4. taking' \in [Taker -> [at : {"idle", "tables", "edges", "store", "write"}, snapshot : Snapshot]]
  BY <1>1, <1>2
<1>5. SnapshotsTypeOK' /\ RegistryGrows'
  BY <1>4 DEF SnapshotsInv, SnapshotsTypeOK, RegistryGrows
<1>6. TakingInv'
  <2>. SUFFICES ASSUME NEW v \in Taker
                PROVE  LET t == taking'[v].snapshot
                       IN  /\ taking'[v].at # "idle" => t.version \in 1..now
                           /\ taking'[v].at \in {"edges", "store", "write"} => TablesTrue(t)
                           /\ taking'[v].at \in {"store", "write"} => EdgesTrue(t)
                           /\ taking'[v].at = "write" => t.version \in DOMAIN files
    BY DEF TakingInv, TablesTrue, EdgesTrue
  <2>1. CASE v = w
    BY <1>3, <2>1
  <2>2. CASE v # w
    BY <1>3, <2>2 DEF SnapshotsInv, TakingInv
  <2>. QED
    BY <2>1, <2>2
<1>7. FilesInv'
  <2>1. \A v \in Taker : taking[v].at = "write" => taking'[v] = taking[v]
    BY <1>3
  <2>2. ASSUME NEW p \in DOMAIN files,
               \E v \in Taker : taking[v].at = "write" /\ taking[v].snapshot.version = p
        PROVE  \E v \in Taker : taking'[v].at = "write" /\ taking'[v].snapshot.version = p
    <3>1. PICK v \in Taker : taking[v].at = "write" /\ taking[v].snapshot.version = p
      BY <2>2
    <3>. QED
      BY <2>1, <3>1
  <2>. QED
    BY <2>2 DEF SnapshotsInv, FilesInv, TablesTrue, EdgesTrue
<1>. QED
  BY <1>5, <1>6, <1>7 DEF SnapshotsInv

LEMMA CreateStep ==
  ASSUME SnapshotsInv, NEW w \in Taker, CreateSnapshotOnMigration(w)
  PROVE  SnapshotsInv'
<1>. DEFINE s == [Blank EXCEPT !.version = now]
<1>1. now \in Nat /\ s \in Snapshot /\ s.version = now
  BY DEF SnapshotsInv, SnapshotsTypeOK, Snapshot, Blank
<1>2. now \in 1..now
  BY DEF SnapshotsInv, SnapshotsTypeOK
<1>3. /\ Steps(w, "tables", s) /\ taking[w].at = "idle"
      /\ UNCHANGED <<now, registry, files, stored, spoiled, began>>
  BY DEF CreateSnapshotOnMigration
<1>. HIDE DEF s
<1>. QED
  BY <1>1, <1>2, <1>3, StepsKeep

LEMMA ReadTablesStep ==
  ASSUME SnapshotsInv, NEW w \in Taker, ReadTables(w)
  PROVE  SnapshotsInv'
<1>. DEFINE s == [taking[w].snapshot EXCEPT !.tables = registry.tables]
<1>1. taking[w].snapshot \in Snapshot /\ taking[w].snapshot.version \in 1..now /\ registry.tables \in Nat
  BY DEF SnapshotsInv, SnapshotsTypeOK, TakingInv, ReadTables
<1>2. s \in Snapshot /\ s.version \in 1..now /\ s.tables = registry.tables
  BY <1>1 DEF Snapshot
<1>3. TablesTrue(s)
  BY <1>1, <1>2 DEF SnapshotsInv, RegistryGrows, TablesTrue
<1>4. /\ Steps(w, "edges", s) /\ taking[w].at = "tables"
      /\ UNCHANGED <<now, registry, files, stored, spoiled, began>>
  BY DEF ReadTables
<1>. HIDE DEF s
<1>. QED
  BY <1>2, <1>3, <1>4, StepsKeep

LEMMA ReadEdgesStep ==
  ASSUME SnapshotsInv, NEW w \in Taker, ReadEdges(w)
  PROVE  SnapshotsInv'
<1>. DEFINE s == [taking[w].snapshot EXCEPT !.edges = registry.edges]
<1>1. /\ taking[w].snapshot \in Snapshot /\ taking[w].snapshot.version \in 1..now /\ registry.edges \in Nat
      /\ TablesTrue(taking[w].snapshot)
  BY DEF SnapshotsInv, SnapshotsTypeOK, TakingInv, ReadEdges
<1>2. /\ s \in Snapshot /\ s.version \in 1..now /\ s.edges = registry.edges
      /\ s.version = taking[w].snapshot.version /\ s.tables = taking[w].snapshot.tables
  BY <1>1 DEF Snapshot
<1>3. TablesTrue(s) /\ EdgesTrue(s)
  BY <1>1, <1>2 DEF SnapshotsInv, RegistryGrows, TablesTrue, EdgesTrue
<1>4. /\ Steps(w, "store", s) /\ taking[w].at = "edges"
      /\ UNCHANGED <<now, registry, files, stored, spoiled, began>>
  BY DEF ReadEdges
<1>. HIDE DEF s
<1>. QED
  BY <1>2, <1>3, <1>4, StepsKeep

LEMMA WritingIsTrue ==
  ASSUME SnapshotsInv, NEW w \in Taker, taking[w].at \in {"store", "write"}
  PROVE  /\ taking[w].snapshot \in Snapshot /\ taking[w].snapshot.version \in 1..now
         /\ TablesTrue(taking[w].snapshot) /\ EdgesTrue(taking[w].snapshot)
  BY DEF SnapshotsInv, SnapshotsTypeOK, TakingInv

LEMMA TruncateStep ==
  ASSUME SnapshotsInv, NEW w \in Taker, Truncate(w)
  PROVE  SnapshotsInv'
<1>. DEFINE s == taking[w].snapshot
<1>1. /\ s \in Snapshot /\ s.version \in 1..now /\ TablesTrue(s) /\ EdgesTrue(s)
      /\ UNCHANGED <<now, registry, stored, spoiled, began>>
  BY WritingIsTrue DEF Truncate
<1>2. taking \in [Taker -> [at : {"idle", "tables", "edges", "store", "write"}, snapshot : Snapshot]]
  BY DEF SnapshotsInv, SnapshotsTypeOK
<1>3. /\ taking'[w].at = "write" /\ taking'[w].snapshot = s /\ \A v \in Taker : v # w => taking'[v] = taking[v]
      /\ taking' \in [Taker -> [at : {"idle", "tables", "edges", "store", "write"}, snapshot : Snapshot]]
  BY <1>1, <1>2 DEF Truncate, Steps
<1>4. /\ DOMAIN files' = DOMAIN files \union {s.version} /\ files'[s.version] = Emptied
      /\ \A p \in DOMAIN files \ {s.version} : files'[p] = files[p]
  BY DEF Truncate, Holding, SnapshotPath
<1>. HIDE DEF s
<1>5. SnapshotsTypeOK'
  BY <1>1, <1>3, <1>4 DEF SnapshotsInv, SnapshotsTypeOK
<1>6. RegistryGrows'
  BY <1>1 DEF SnapshotsInv, RegistryGrows
<1>7. TakingInv'
  <2>. SUFFICES ASSUME NEW v \in Taker
                PROVE  LET t == taking'[v].snapshot
                       IN  /\ taking'[v].at # "idle" => t.version \in 1..now
                           /\ taking'[v].at \in {"edges", "store", "write"} => TablesTrue(t)
                           /\ taking'[v].at \in {"store", "write"} => EdgesTrue(t)
                           /\ taking'[v].at = "write" => t.version \in DOMAIN files'
    BY <1>1 DEF TakingInv, TablesTrue, EdgesTrue
  <2>1. CASE v = w
    BY <1>1, <1>3, <1>4, <2>1
  <2>2. CASE v # w
    BY <1>3, <1>4, <2>2 DEF SnapshotsInv, TakingInv
  <2>. QED
    BY <2>1, <2>2
<1>8. FilesInv'
  <2>1. stored' \subseteq DOMAIN files'
    BY <1>1, <1>4 DEF SnapshotsInv, FilesInv
  <2>2. ASSUME NEW p \in DOMAIN files'
        PROVE  \/ /\ files'[p] = Emptied
                  /\ p \in spoiled \/ \E v \in Taker : taking'[v].at = "write" /\ taking'[v].snapshot.version = p
               \/ files'[p] = Garbled /\ p \in spoiled
               \/ /\ files'[p] \in Snapshot /\ files'[p].version = p /\ p \in stored
                  /\ TablesTrue(files'[p]) /\ EdgesTrue(files'[p])
    <3>1. CASE p = s.version
      BY <1>3, <1>4, <3>1
    <3>2. CASE p # s.version
      <4>1. p \in DOMAIN files /\ files'[p] = files[p]
        BY <1>4, <3>2
      <4>2. \A v \in Taker : taking[v].at = "write" /\ taking[v].snapshot.version = p
              => taking'[v].at = "write" /\ taking'[v].snapshot.version = p
        BY <1>3, <3>2 DEF s
      <4>. QED
        BY <4>1, <4>2 DEF SnapshotsInv, FilesInv
    <3>. QED
      BY <3>1, <3>2
  <2>. QED
    BY <1>1, <2>1, <2>2 DEF FilesInv, TablesTrue, EdgesTrue
<1>. QED
  BY <1>5, <1>6, <1>7, <1>8 DEF SnapshotsInv

\* A goroutine lets go of its file: it has written it, or the file is spoiled.
LEMMA ReturnStep ==
  ASSUME SnapshotsInv, NEW w \in Taker, taking[w].at \in {"store", "write"}, Steps(w, "idle", Blank),
         UNCHANGED <<now, registry, began>>,
         stored \subseteq stored', stored' \subseteq stored \union {taking[w].snapshot.version},
         spoiled \subseteq spoiled',
         \/ UNCHANGED <<files, stored>> /\ taking[w].at = "store"
         \/ /\ taking[w].at = "write" /\ taking[w].snapshot.version \in stored'
            /\ files' = Holding(taking[w].snapshot.version, taking[w].snapshot)
         \/ /\ taking[w].at = "write" /\ taking[w].snapshot.version \in spoiled'
            /\ files' = Holding(taking[w].snapshot.version, Garbled)
  PROVE  SnapshotsInv'
<1>. DEFINE s == taking[w].snapshot
            Content == {"idle", "tables", "edges", "store", "write"}
<1>1. s \in Snapshot /\ s.version \in 1..now /\ TablesTrue(s) /\ EdgesTrue(s)
  BY WritingIsTrue
<1>2. taking \in [Taker -> [at : Content, snapshot : Snapshot]] /\ Blank \in Snapshot
  BY DEF SnapshotsInv, SnapshotsTypeOK, Blank, Snapshot
<1>3. /\ taking'[w].at = "idle" /\ \A v \in Taker : v # w => taking'[v] = taking[v]
      /\ taking' \in [Taker -> [at : Content, snapshot : Snapshot]]
  BY <1>2 DEF Steps
<1>4. /\ taking[w].at = "write" => s.version \in DOMAIN files
      /\ DOMAIN files' = DOMAIN files
      /\ \A p \in DOMAIN files : files'[p] = files[p] \/ (taking[w].at = "write" /\ p = s.version)
      /\ taking[w].at = "write" =>
           \/ files'[s.version] = s /\ s.version \in stored'
           \/ files'[s.version] = Garbled /\ s.version \in spoiled'
  <2>1. taking[w].at = "write" => s.version \in DOMAIN files
    BY DEF SnapshotsInv, TakingInv
  <2>2. CASE UNCHANGED <<files, stored>> /\ taking[w].at = "store"
    BY <2>2
  <2>3. CASE taking[w].at = "write" /\ s.version \in stored' /\ files' = Holding(s.version, s)
    <3>1. DOMAIN files \union {s.version} = DOMAIN files
      BY <2>1, <2>3
    <3>2. files' = [p \in DOMAIN files |-> IF p = s.version THEN s ELSE files[p]]
      BY <2>3, <3>1 DEF Holding
    <3>. HIDE DEF s
    <3>. QED
      BY <2>1, <2>3, <3>2
  <2>4. CASE taking[w].at = "write" /\ s.version \in spoiled' /\ files' = Holding(s.version, Garbled)
    <3>1. DOMAIN files \union {s.version} = DOMAIN files
      BY <2>1, <2>4
    <3>2. files' = [p \in DOMAIN files |-> IF p = s.version THEN Garbled ELSE files[p]]
      BY <2>4, <3>1 DEF Holding
    <3>. HIDE DEF s
    <3>. QED
      BY <2>1, <2>4, <3>2
  <2>. QED
    BY <2>2, <2>3, <2>4
<1>. HIDE DEF s
<1>5. stored' \subseteq DOMAIN files'
  BY <1>4 DEF SnapshotsInv, FilesInv, s
<1>6. SnapshotsTypeOK'
  BY <1>1, <1>3, <1>4 DEF SnapshotsInv, SnapshotsTypeOK
<1>7. RegistryGrows'
  BY DEF SnapshotsInv, RegistryGrows
<1>8. TakingInv'
  <2>. SUFFICES ASSUME NEW v \in Taker
                PROVE  LET t == taking'[v].snapshot
                       IN  /\ taking'[v].at # "idle" => t.version \in 1..now
                           /\ taking'[v].at \in {"edges", "store", "write"} => TablesTrue(t)
                           /\ taking'[v].at \in {"store", "write"} => EdgesTrue(t)
                           /\ taking'[v].at = "write" => t.version \in DOMAIN files'
    BY DEF TakingInv, TablesTrue, EdgesTrue
  <2>1. CASE v = w
    BY <1>3, <2>1
  <2>2. CASE v # w
    BY <1>3, <1>4, <2>2 DEF SnapshotsInv, TakingInv
  <2>. QED
    BY <2>1, <2>2
<1>9. FilesInv'
  <2>1. ASSUME NEW p \in DOMAIN files'
        PROVE  \/ /\ files'[p] = Emptied
                  /\ p \in spoiled' \/ \E v \in Taker : taking'[v].at = "write" /\ taking'[v].snapshot.version = p
               \/ files'[p] = Garbled /\ p \in spoiled'
               \/ /\ files'[p] \in Snapshot /\ files'[p].version = p /\ p \in stored'
                  /\ TablesTrue(files'[p]) /\ EdgesTrue(files'[p])
    <3>1. CASE taking[w].at = "write" /\ p = s.version
      BY <1>1, <1>4, <3>1
    <3>2. CASE ~(taking[w].at = "write" /\ p = s.version)
      <4>1. p \in DOMAIN files /\ files'[p] = files[p]
        BY <1>4, <3>2
      <4>2. \A v \in Taker : taking[v].at = "write" /\ taking[v].snapshot.version = p
              => taking'[v].at = "write" /\ taking'[v].snapshot.version = p
        BY <1>3, <3>2 DEF s
      <4>. QED
        BY <4>1, <4>2 DEF SnapshotsInv, FilesInv
    <3>. QED
      BY <3>1, <3>2
  <2>. QED
    BY <1>5, <2>1 DEF FilesInv, TablesTrue, EdgesTrue
<1>. QED
  BY <1>6, <1>7, <1>8, <1>9 DEF SnapshotsInv

LEMMA CrashStep ==
  ASSUME SnapshotsInv, Crash
  PROVE  SnapshotsInv'
<1>1. /\ \A w \in Taker : taking'[w] = Idle
      /\ taking' \in [Taker -> [at : {"idle", "tables", "edges", "store", "write"}, snapshot : Snapshot]]
      /\ UNCHANGED <<now, registry, files, stored, began>>
  BY DEF Crash, Idle, Blank, Snapshot
<1>2. /\ spoiled \subseteq spoiled'
      /\ \A w \in Taker : taking[w].at = "write" => taking[w].snapshot.version \in spoiled'
  BY DEF Crash
<1>3. SnapshotsTypeOK' /\ RegistryGrows'
  BY <1>1 DEF SnapshotsInv, SnapshotsTypeOK, RegistryGrows
<1>4. TakingInv'
  BY <1>1 DEF TakingInv, Idle
<1>5. FilesInv'
  BY <1>1, <1>2 DEF SnapshotsInv, FilesInv, TablesTrue, EdgesTrue
<1>. QED
  BY <1>3, <1>4, <1>5 DEF SnapshotsInv

\* The empty registry, the clock and every step keep the invariant.
LEMMA SnapshotsInvariant == SnapshotsSpec => []SnapshotsInv
<1>1. SnapshotsInv /\ [SnapshotsNext]_snapshotVars => SnapshotsInv'
  <2>. SUFFICES ASSUME SnapshotsInv, [SnapshotsNext]_snapshotVars PROVE SnapshotsInv'
    OBVIOUS
  <2>1. CASE SetAutoSnapshots
    BY <2>1 DEF SetAutoSnapshots, SnapshotsInv, SnapshotsTypeOK, RegistryGrows, TakingInv, FilesInv, TablesTrue, EdgesTrue
  <2>2. CASE UNCHANGED snapshotVars
    BY <2>2 DEF snapshotVars, SnapshotsInv, SnapshotsTypeOK, RegistryGrows, TakingInv, FilesInv, TablesTrue, EdgesTrue
  <2>3. ASSUME NEW w \in Taker, Write(w) PROVE SnapshotsInv'
    <3>. DEFINE s == taking[w].snapshot
    <3>1. /\ taking[w].at = "write" /\ Steps(w, "idle", Blank) /\ stored' = stored \union {s.version}
          /\ UNCHANGED <<now, registry, began>>
      BY <2>3 DEF Write
    <3>2. CASE files' = Holding(s.version, s) /\ UNCHANGED spoiled
      BY <3>1, <3>2, ReturnStep
    <3>3. CASE files' = Holding(s.version, Garbled) /\ spoiled' = spoiled \union {s.version}
      BY <3>1, <3>3, ReturnStep
    <3>. QED
      BY <2>3, <3>2, <3>3 DEF Write, SnapshotPath
  <2>4. ASSUME NEW w \in Taker, StoreFails(w) PROVE SnapshotsInv'
    <3>. DEFINE s == taking[w].snapshot
    <3>1. Steps(w, "idle", Blank) /\ UNCHANGED <<now, registry, stored, began>>
      BY <2>4 DEF StoreFails
    <3>2. CASE taking[w].at = "store" /\ UNCHANGED <<files, spoiled>>
      BY <3>1, <3>2, ReturnStep
    <3>3. CASE taking[w].at = "write" /\ files' = Holding(s.version, Garbled) /\ spoiled' = spoiled \union {s.version}
      BY <3>1, <3>3, ReturnStep
    <3>. QED
      BY <2>4, <3>2, <3>3 DEF StoreFails, SnapshotPath
  <2>. QED
    BY <2>1, <2>2, <2>3, <2>4, TickSteps, RegisterSteps, CrashStep, CreateStep, ReadTablesStep, ReadEdgesStep,
       TruncateStep DEF SnapshotsNext
<1>. QED
  BY <1>1, SnapshotsInitInv, PTL DEF SnapshotsSpec

\* Counted off, the places that stay are as many as there are numbers for them.
LEMMA PlacesCount ==
  ASSUME NEW K \in SUBSET Nat, IsFiniteSet(K)
  PROVE  /\ \A i, j \in K : i < j => Cardinality({x \in K : x <= i}) < Cardinality({x \in K : x <= j})
         /\ \A i \in K : Cardinality({x \in K : x <= i}) \in 1..Cardinality(K)
         /\ \A n \in 1..Cardinality(K) : \E i \in K : Cardinality({x \in K : x <= i}) = n
<1>. DEFINE Upto(i) == {x \in K : x <= i}
            rank == [i \in K |-> Cardinality(Upto(i))]
<1>1. \A i \in K : IsFiniteSet(Upto(i)) /\ Cardinality(Upto(i)) \in Nat /\ Cardinality(Upto(i)) <= Cardinality(K)
  <2>1. \A i \in K : Upto(i) \in SUBSET K
    OBVIOUS
  <2>. HIDE DEF Upto
  <2>. QED
    BY <2>1, FS_Subset, FS_CardinalityType
<1>2. Cardinality(K) \in Nat
  BY FS_CardinalityType
<1>3. ASSUME NEW i \in K PROVE Cardinality(Upto(i)) \in 1..Cardinality(K)
  <2>1. i \in Upto(i)
    OBVIOUS
  <2>2. Cardinality(Upto(i)) # 0
    <3>. HIDE DEF Upto
    <3>. QED
      BY <1>1, <2>1, FS_EmptySet
  <2>. QED
    BY <1>1, <1>2, <2>2
<1>4. ASSUME NEW i \in K, NEW j \in K, i < j PROVE Cardinality(Upto(i)) < Cardinality(Upto(j))
  <2>1. Upto(i) \in SUBSET Upto(j) /\ j \in Upto(j) /\ j \notin Upto(i)
    <3>1. i \in Nat /\ j \in Nat /\ \A x \in K : x \in Nat
      OBVIOUS
    <3>2. \A x \in K : x <= i => x <= j
      BY <1>4, <3>1
    <3>3. j <= j /\ ~(j <= i)
      BY <1>4, <3>1
    <3>. QED
      BY <3>2, <3>3
  <2>2. Cardinality(Upto(i)) <= Cardinality(Upto(j)) /\ Cardinality(Upto(i)) # Cardinality(Upto(j))
    <3>. HIDE DEF Upto
    <3>. QED
      BY <1>1, <2>1, FS_Subset
  <2>. QED
    BY <1>1, <2>2
<1>5. ASSUME NEW n \in 1..Cardinality(K) PROVE \E i \in K : Cardinality(Upto(i)) = n
  <2>. DEFINE N == 1..Cardinality(K)
  <2>1. rank \in [K -> N] /\ \A i, j \in K : rank[i] = rank[j] => i = j
    <3>. HIDE DEF Upto
    <3>1. \A i, j \in K : i < j \/ j < i \/ i = j
      OBVIOUS
    <3>2. \A i \in K : Cardinality(Upto(i)) \in Nat
      BY <1>1
    <3>3. ASSUME NEW i \in K, NEW j \in K, Cardinality(Upto(i)) = Cardinality(Upto(j)) PROVE i = j
      BY <1>4, <3>1, <3>2, <3>3
    <3>. QED
      BY <1>3, <3>3
  <2>. HIDE DEF rank
  <2>2. rank \in Injection(K, N)
    BY <2>1 DEF Injection, IsInjective
  <2>3. IsFiniteSet(N) /\ Cardinality(N) = Cardinality(K)
    BY <1>2, FS_Interval
  <2>4. rank \in Surjection(K, N)
    BY <2>2, <2>3, FS_Injection
  <2>5. \E i \in K : rank[i] = n
    BY <2>4 DEF Surjection
  <2>. QED
    BY <2>5 DEF rank
<1>. QED
  BY <1>3, <1>4, <1>5

\* What the invariant says of a directory nothing has spoiled and nobody is writing.
LEMMA DirectoryStands == SnapshotsInv => SnapshotsStand
<1>. SUFFICES ASSUME SnapshotsInv, spoiled = {}, \A w \in Taker : taking[w].at # "write"
              PROVE  /\ Lists
                     /\ {ListSnapshots[n].version : n \in DOMAIN ListSnapshots} = stored
                     /\ \A n \in DOMAIN ListSnapshots :
                          LET s == ListSnapshots[n]
                          IN  /\ n > 1 => ListSnapshots[n - 1].version < s.version
                              /\ TablesTrue(s) /\ EdgesTrue(s)
  BY DEF SnapshotsStand, TablesTrue, EdgesTrue
<1>1. \A p \in DOMAIN files : /\ files[p] \in Snapshot /\ files[p].version = p /\ p \in stored
                              /\ TablesTrue(files[p]) /\ EdgesTrue(files[p])
  BY DEF SnapshotsInv, FilesInv
<1>2. Lists
  BY <1>1, ContentsDiffer DEF Lists, Loads
<1>3. stored = DOMAIN files
  BY <1>1 DEF SnapshotsInv, FilesInv
<1>. DEFINE P == DOMAIN files
            rank(p) == Cardinality({q \in P : q <= p})
            at(n) == CHOOSE p \in P : rank(p) = n
<1>4. P \in SUBSET Nat /\ IsFiniteSet(P)
  <2>1. now \in Nat /\ P \subseteq 1..now
    BY DEF SnapshotsInv, SnapshotsTypeOK
  <2>2. IsFiniteSet(1..now) /\ 1..now \subseteq Nat
    BY <2>1, FS_Interval
  <2>. HIDE DEF P
  <2>. QED
    BY <2>1, <2>2, FS_Subset
<1>5. ListSnapshots = [n \in 1..Cardinality(P) |-> files[at(n)]]
  <2>. DEFINE byVersion(p) == Cardinality({q \in P : files[q].version <= files[p].version})
  <2>1. ListSnapshots = [n \in 1..Cardinality(P) |-> files[CHOOSE p \in P : byVersion(p) = n]]
    BY DEF ListSnapshots
  <2>2. \A p \in P : byVersion(p) = rank(p)
    <3>1. ASSUME NEW p \in P PROVE {q \in P : files[q].version <= files[p].version} = {q \in P : q <= p}
      BY <1>1
    <3>. HIDE DEF P
    <3>. QED
      BY <3>1
  <2>. HIDE DEF P, byVersion, rank
  <2>3. \A n : (CHOOSE p \in P : byVersion(p) = n) = at(n)
    BY <2>2
  <2>. HIDE DEF at
  <2>. QED
    BY <2>1, <2>3
<1>. HIDE DEF P
<1>6. /\ \A p, q \in P : p < q => rank(p) < rank(q)
      /\ \A p \in P : rank(p) \in 1..Cardinality(P)
      /\ \A n \in 1..Cardinality(P) : \E p \in P : rank(p) = n
  BY <1>4, PlacesCount
<1>. HIDE DEF rank
<1>7. \A n \in 1..Cardinality(P) : at(n) \in P /\ rank(at(n)) = n
  BY <1>6
<1>8. \A p \in P : at(rank(p)) = p
  <2>1. ASSUME NEW p \in P PROVE at(rank(p)) = p
    <3>1. at(rank(p)) \in P /\ rank(at(rank(p))) = rank(p) /\ rank(p) \in Int
      BY <1>6, <1>7
    <3>. DEFINE q == at(rank(p))
    <3>. HIDE DEF at, q
    <3>2. \A r \in P : r \in Int
      BY <1>4
    <3>3. q \in P /\ rank(q) = rank(p)
      BY <3>1 DEF q
    <3>4. q = p
      BY <1>6, <3>1, <3>2, <3>3
    <3>. QED
      BY <3>4 DEF q
  <2>. QED
    BY <2>1
<1>. HIDE DEF at
<1>9. /\ DOMAIN ListSnapshots = 1..Cardinality(P)
      /\ \A n \in 1..Cardinality(P) : /\ ListSnapshots[n] = files[at(n)] /\ files[at(n)].version = at(n)
                                      /\ TablesTrue(files[at(n)]) /\ EdgesTrue(files[at(n)])
  BY <1>1, <1>5, <1>7 DEF P
<1>10. {ListSnapshots[n].version : n \in DOMAIN ListSnapshots} = stored
  <2>1. \A n \in 1..Cardinality(P) : ListSnapshots[n].version \in P
    BY <1>7, <1>9
  <2>2. \A p \in P : rank(p) \in 1..Cardinality(P) /\ ListSnapshots[rank(p)].version = p
    BY <1>6, <1>8, <1>9
  <2>3. stored = P
    BY <1>3 DEF P
  <2>. QED
    BY <1>9, <2>1, <2>2, <2>3
<1>11. ASSUME NEW n \in DOMAIN ListSnapshots, n > 1 PROVE ListSnapshots[n - 1].version < ListSnapshots[n].version
  <2>1. Cardinality(P) \in Nat
    BY <1>4, FS_CardinalityType
  <2>2. n \in 1..Cardinality(P) /\ n - 1 \in 1..Cardinality(P)
    BY <1>9, <1>11, <2>1
  <2>3. at(n) \in P /\ at(n - 1) \in P /\ rank(at(n)) = n /\ rank(at(n - 1)) = n - 1
    BY <1>7, <2>2
  <2>4. at(n) \in Nat /\ at(n - 1) \in Nat /\ at(n) # at(n - 1) /\ ~(at(n) < at(n - 1))
    <3>1. n \in Int /\ ~(n < n - 1) /\ n # n - 1
      BY <2>1, <2>2
    <3>. QED
      BY <1>4, <1>6, <2>3, <3>1
  <2>5. at(n - 1) < at(n)
    BY <2>4
  <2>. QED
    BY <1>9, <2>2, <2>5
<1>. QED
  BY <1>2, <1>9, <1>10, <1>11

\* Whatever a number of goroutines write, fail to write or leave behind, a directory
\* nothing has spoiled and nobody is writing lists one true snapshot for every version
\* reported as stored, oldest first (StoreSnapshot, ListSnapshots,
\* CreateSnapshotOnMigration; versioning.go:36-171, hooks.go:374).
THEOREM DirectoryIsTrue == SnapshotsSpec => []SnapshotsStand
BY SnapshotsInvariant, DirectoryStands, PTL
-----------------------------------------------------------------------------
(* The version graph.                                                      *)

\* Parents lead out of every set of versions: no line of parents goes round.
Rooted == \A S \in SUBSET DOMAIN nodes : S # {} => \E v \in S : nodes[v].parent \notin S

GraphInv == GraphTypeOK /\ BothEnds /\ Rooted

\* Nodes are records of a parent and children.
LEMMA NodeParts ==
  ASSUME GraphTypeOK, NEW v \in DOMAIN nodes
  PROVE  /\ v \in Version /\ v \in Nat \ {0} /\ v # NoVersion
         /\ nodes[v].parent \in Version \union {NoVersion} /\ nodes[v].children \subseteq Version
  BY VersionAssumption DEF GraphTypeOK, NoVersion

\* Both ends of an edge are nodes.
LEMMA EndsAreNodes ==
  ASSUME GraphInv
  PROVE  /\ \A u \in DOMAIN nodes : \A w \in nodes[u].children : w \in DOMAIN nodes
         /\ \A u \in DOMAIN nodes : nodes[u].parent \in DOMAIN nodes \/ nodes[u].parent = NoVersion
         /\ \A u, w \in DOMAIN nodes : u \in nodes[w].children <=> nodes[u].parent = w
  BY DEF GraphInv, BothEnds

LEMMA AddKeeps ==
  ASSUME GraphInv, NEW v \in Version, NEW parent \in DOMAIN nodes \union {NoVersion}, AddVersion(v, parent)
  PROVE  GraphInv'
<1>1. /\ v \notin DOMAIN nodes /\ DOMAIN nodes' = DOMAIN nodes \union {v}
      /\ nodes'[v] = Node(parent)
      /\ \A u \in DOMAIN nodes : nodes'[u] = IF u = parent THEN [nodes[u] EXCEPT !.children = @ \union {v}] ELSE nodes[u]
  BY DEF AddVersion, Linked
<1>2. v # NoVersion /\ v \in Nat /\ \A u \in DOMAIN nodes : u # NoVersion /\ u # v
  BY <1>1, NodeParts, VersionAssumption DEF GraphInv, NoVersion
<1>3. parent \in Version \union {NoVersion}
  BY NodeParts DEF GraphInv
<1>4. /\ nodes'[v].parent = parent /\ nodes'[v].children = {}
      /\ DOMAIN nodes'[v] = {"parent", "children"}
  BY <1>1 DEF Node
<1>5. \A u \in DOMAIN nodes :
        /\ nodes'[u].parent = nodes[u].parent
        /\ nodes'[u].children = IF u = parent THEN nodes[u].children \union {v} ELSE nodes[u].children
        /\ DOMAIN nodes'[u] = {"parent", "children"}
  BY <1>1 DEF GraphInv, GraphTypeOK
<1>0. \A u \in DOMAIN nodes : \A x : x \in nodes'[u].children <=> x \in nodes[u].children \/ (u = parent /\ x = v)
  BY <1>5
<1>6. root' = IF parent = NoVersion /\ root = NoVersion THEN v ELSE root
  BY DEF AddVersion
<1>7. GraphTypeOK'
  BY <1>1, <1>3, <1>4, <1>5, <1>6 DEF GraphInv, GraphTypeOK
<1>8. BothEnds'
  <2>1. \A u \in DOMAIN nodes' : /\ nodes'[u].children \subseteq DOMAIN nodes'
                                 /\ nodes'[u].parent \in DOMAIN nodes' \union {NoVersion}
    <3>1. ASSUME NEW u \in DOMAIN nodes', u # v
          PROVE  nodes'[u].children \subseteq DOMAIN nodes' /\ nodes'[u].parent \in DOMAIN nodes' \union {NoVersion}
      <4>1. u \in DOMAIN nodes /\ nodes'[u].parent = nodes[u].parent
        BY <1>1, <1>5, <3>1
      <4>2. \A x \in nodes'[u].children : x \in DOMAIN nodes'
        BY <1>1, <1>0, <4>1, EndsAreNodes
      <4>. QED
        BY <1>1, <4>1, <4>2, EndsAreNodes
    <3>2. nodes'[v].children \subseteq DOMAIN nodes' /\ nodes'[v].parent \in DOMAIN nodes' \union {NoVersion}
      BY <1>1, <1>4
    <3>. QED
      BY <3>1, <3>2
  <2>2. ASSUME NEW u \in DOMAIN nodes', NEW w \in DOMAIN nodes'
        PROVE  u \in nodes'[w].children <=> nodes'[u].parent = w
    <3>1. CASE u = v
      <4>1. \A x \in DOMAIN nodes : v \notin nodes[x].children
        BY <1>1 DEF GraphInv, BothEnds
      <4>. QED
        BY <1>1, <1>2, <1>4, <1>5, <3>1, <4>1
    <3>2. CASE u # v /\ w = v
      <4>1. u \in DOMAIN nodes /\ nodes'[u].parent = nodes[u].parent /\ nodes[u].parent # v
        BY <1>1, <1>2, <1>5, <3>2, EndsAreNodes
      <4>. QED
        BY <1>4, <3>2, <4>1
    <3>3. CASE u # v /\ w # v
      <4>1. u \in DOMAIN nodes /\ w \in DOMAIN nodes /\ nodes'[u].parent = nodes[u].parent
        BY <1>1, <1>5, <3>3
      <4>2. u \in nodes'[w].children <=> u \in nodes[w].children
        BY <1>0, <3>3, <4>1
      <4>. QED
        BY <4>1, <4>2, EndsAreNodes
    <3>. QED
      BY <3>1, <3>2, <3>3
  <2>3. root' \in Parentless(nodes')
    <3>1. CASE root = NoVersion
      <4>1. DOMAIN nodes = {}
        BY <1>2, <3>1 DEF GraphInv, BothEnds, Parentless
      <4>. QED
        BY <1>1, <1>4, <1>6, <3>1, <4>1 DEF Parentless
    <3>2. CASE root # NoVersion
      <4>1. root \in DOMAIN nodes /\ nodes[root].parent = NoVersion
        BY <3>2 DEF GraphInv, BothEnds, Parentless
      <4>. QED
        BY <1>1, <1>5, <1>6, <3>2, <4>1 DEF Parentless
    <3>. QED
      BY <3>1, <3>2
  <2>. QED
    BY <2>1, <2>2, <2>3 DEF BothEnds
<1>9. Rooted'
  <2>1. ASSUME NEW S \in SUBSET DOMAIN nodes', S # {} PROVE \E u \in S : nodes'[u].parent \notin S
    <3>1. CASE S = {v}
      BY <1>1, <1>2, <1>4, <3>1
    <3>2. CASE S # {v}
      <4>1. S \ {v} \in SUBSET DOMAIN nodes /\ S \ {v} # {}
        BY <1>1, <2>1, <3>2
      <4>2. PICK u \in S \ {v} : nodes[u].parent \notin S \ {v}
        BY <4>1 DEF GraphInv, Rooted
      <4>3. nodes[u].parent # v
        BY <1>1, <1>2, <4>1, <4>2 DEF GraphInv, BothEnds
      <4>. QED
        BY <1>5, <4>1, <4>2, <4>3
    <3>. QED
      BY <3>1, <3>2
  <2>. QED
    BY <2>1 DEF Rooted
<1>. QED
  BY <1>7, <1>8, <1>9 DEF GraphInv

LEMMA RemoveKeeps ==
  ASSUME GraphInv, NEW v \in Version, RemoveVersion(v)
  PROVE  GraphInv'
<1>1. v \in DOMAIN nodes /\ DOMAIN nodes' = DOMAIN nodes \ {v}
  BY DEF RemoveVersion, Without
<1>2. \A u \in DOMAIN nodes : u # NoVersion
  BY NodeParts DEF GraphInv
<1>3. nodes[v].parent # v /\ nodes[v].parent \notin nodes[v].children /\ v \notin nodes[v].children
  <2>1. nodes[v].parent # v
    <3>1. {v} \in SUBSET DOMAIN nodes /\ {v} # {}
      BY <1>1
    <3>. QED
      BY <3>1 DEF GraphInv, Rooted
  <2>2. v \notin nodes[v].children
    BY <1>1, <2>1 DEF GraphInv, BothEnds
  <2>3. ASSUME nodes[v].parent \in nodes[v].children PROVE FALSE
    <3>. DEFINE p == nodes[v].parent
    <3>1. p \in DOMAIN nodes /\ nodes[p].parent = v
      BY <1>1, <2>3 DEF GraphInv, BothEnds
    <3>2. {v, p} \in SUBSET DOMAIN nodes /\ {v, p} # {}
      BY <1>1, <3>1
    <3>. QED
      BY <3>1, <3>2 DEF GraphInv, Rooted
  <2>. QED
    BY <2>1, <2>2, <2>3
<1>4. \A u \in DOMAIN nodes' :
        nodes'[u] = IF u = nodes[v].parent THEN [nodes[u] EXCEPT !.children = (@ \ {v}) \union nodes[v].children]
                    ELSE IF u \in nodes[v].children THEN [nodes[u] EXCEPT !.parent = nodes[v].parent] ELSE nodes[u]
  BY DEF RemoveVersion, Without
<1>5. \A u \in DOMAIN nodes' :
        /\ nodes'[u].parent = IF u \in nodes[v].children THEN nodes[v].parent ELSE nodes[u].parent
        /\ nodes'[u].children = IF u = nodes[v].parent THEN (nodes[u].children \ {v}) \union nodes[v].children
                                ELSE nodes[u].children
        /\ DOMAIN nodes'[u] = {"parent", "children"}
  BY <1>1, <1>3, <1>4 DEF GraphInv, GraphTypeOK
<1>6. \A u \in DOMAIN nodes : u \in nodes[v].children <=> nodes[u].parent = v
  BY <1>1 DEF GraphInv, BothEnds
<1>7. GraphTypeOK'
  <2>1. root' \in Version \union {NoVersion}
    BY <1>1 DEF RemoveVersion, Parentless, GraphInv, GraphTypeOK
  <2>. QED
    BY <1>1, <1>5, <2>1 DEF GraphInv, GraphTypeOK
<1>8. BothEnds'
  <2>1. \A u \in DOMAIN nodes' : /\ nodes'[u].children \subseteq DOMAIN nodes'
                                 /\ nodes'[u].parent \in DOMAIN nodes' \union {NoVersion}
    <3>1. ASSUME NEW u \in DOMAIN nodes' PROVE nodes'[u].children \subseteq DOMAIN nodes'
      <4>1. u \in DOMAIN nodes /\ u # v
        BY <1>1
      <4>2. u # nodes[v].parent => v \notin nodes[u].children
        BY <1>1, <4>1 DEF GraphInv, BothEnds
      <4>3. \A x : x \in nodes'[u].children =>
                x \in nodes[v].children \/ (x \in nodes[u].children /\ x # v)
        BY <1>5, <4>1, <4>2
      <4>4. \A x \in nodes[v].children \union nodes[u].children : x \in DOMAIN nodes
        BY <1>1, <4>1, EndsAreNodes
      <4>5. \A x \in nodes'[u].children : x \in DOMAIN nodes /\ x # v
        BY <1>3, <4>3, <4>4
      <4>. QED
        BY <1>1, <4>5
    <3>2. ASSUME NEW u \in DOMAIN nodes' PROVE nodes'[u].parent \in DOMAIN nodes' \union {NoVersion}
      <4>1. u \in DOMAIN nodes /\ u # v
        BY <1>1
      <4>2. CASE u \in nodes[v].children
        BY <1>1, <1>3, <1>5, <4>1, <4>2, EndsAreNodes
      <4>3. CASE u \notin nodes[v].children
        BY <1>1, <1>5, <1>6, <4>1, <4>3, EndsAreNodes
      <4>. QED
        BY <4>2, <4>3
    <3>. QED
      BY <3>1, <3>2
  <2>2. ASSUME NEW u \in DOMAIN nodes', NEW w \in DOMAIN nodes'
        PROVE  u \in nodes'[w].children <=> nodes'[u].parent = w
    <3>1. /\ u \in DOMAIN nodes /\ w \in DOMAIN nodes /\ u # v /\ w # v
          /\ u \in nodes[w].children <=> nodes[u].parent = w
      BY <1>1 DEF GraphInv, BothEnds
    <3>. QED
      BY <1>5, <1>6, <3>1
  <2>3. root' \in Parentless(nodes') \/ (DOMAIN nodes' = {} /\ root' = NoVersion)
    <3>1. CASE root # v
      <4>1. root \in DOMAIN nodes /\ nodes[root].parent = NoVersion
        BY <1>1, <3>1 DEF GraphInv, BothEnds, Parentless
      <4>2. root' = root /\ root \notin nodes[v].children
        BY <1>1, <1>2, <1>6, <3>1, <4>1 DEF RemoveVersion
      <4>. QED
        BY <1>1, <1>5, <3>1, <4>1, <4>2 DEF Parentless
    <3>2. CASE root = v /\ root' \in Parentless(nodes')
      BY <3>2
    <3>3. CASE root = v /\ Parentless(nodes') = {} /\ root' = NoVersion
      <4>1. ASSUME DOMAIN nodes' # {} PROVE FALSE
        <5>1. PICK u \in DOMAIN nodes' : nodes[u].parent \notin DOMAIN nodes'
          BY <1>1, <4>1 DEF GraphInv, Rooted
        <5>2. nodes[u].parent \in {v, NoVersion}
          BY <1>1, <5>1 DEF GraphInv, BothEnds
        <5>3. nodes[v].parent = NoVersion
          BY <1>1, <1>2, <3>3 DEF GraphInv, BothEnds, Parentless
        <5>4. nodes'[u].parent = NoVersion
          BY <1>1, <1>5, <1>6, <5>1, <5>2, <5>3
        <5>. QED
          BY <3>3, <5>1, <5>4 DEF Parentless
      <4>. QED
        BY <3>3, <4>1
    <3>. QED
      BY <3>1, <3>2, <3>3 DEF RemoveVersion
  <2>. QED
    BY <2>1, <2>2, <2>3 DEF BothEnds
<1>9. Rooted'
  <2>1. ASSUME NEW S \in SUBSET DOMAIN nodes', S # {} PROVE \E u \in S : nodes'[u].parent \notin S
    <3>1. S \in SUBSET DOMAIN nodes /\ S \union {v} \in SUBSET DOMAIN nodes /\ S \union {v} # {} /\ v \notin S
      BY <1>1, <2>1
    <3>2. PICK u \in S \union {v} : nodes[u].parent \notin S \union {v}
      BY <3>1 DEF GraphInv, Rooted
    <3>3. CASE u # v
      BY <1>1, <1>5, <1>6, <2>1, <3>1, <3>2, <3>3
    <3>4. CASE u = v
      <4>1. PICK x \in S : nodes[x].parent \notin S
        BY <2>1, <3>1 DEF GraphInv, Rooted
      <4>. QED
        BY <1>5, <2>1, <3>2, <3>4, <4>1
    <3>. QED
      BY <3>3, <3>4
  <2>. QED
    BY <2>1 DEF Rooted
<1>. QED
  BY <1>7, <1>8, <1>9 DEF GraphInv

\* A set that has the parents of v and of all it has.
Climbs(graph, S, v) == \A x \in S \union {v} : graph[x].parent \in S \union {NoVersion}

LEMMA AboveClimbs ==
  /\ \A v, u : u \in Above(v) <=> u \in DOMAIN nodes /\ \A S \in SUBSET DOMAIN nodes : Climbs(nodes, S, v) => u \in S
  /\ \A v, u : u \in Above(v)' <=> u \in DOMAIN nodes' /\ \A S \in SUBSET DOMAIN nodes' : Climbs(nodes', S, v) => u \in S
  BY DEF Above, Climbs

\* A new version is above nobody, and nobody's parent changes.
LEMMA AddKeepsLines ==
  ASSUME GraphInv, NEW new \in Version, NEW parent \in DOMAIN nodes \union {NoVersion}, AddVersion(new, parent),
         NEW v \in DOMAIN nodes
  PROVE  Above(v)' = Above(v)
<1>1. /\ DOMAIN nodes' = DOMAIN nodes \union {new}
      /\ \A u \in DOMAIN nodes : nodes'[u].parent = nodes[u].parent
  BY DEF AddVersion, Linked, GraphInv, GraphTypeOK
<1>2. /\ new \notin DOMAIN nodes /\ new # NoVersion
      /\ \A u \in DOMAIN nodes : nodes[u].parent \in DOMAIN nodes \union {NoVersion}
  BY EndsAreNodes, VersionAssumption DEF AddVersion, NoVersion
<1>3. ASSUME NEW S \in SUBSET DOMAIN nodes, Climbs(nodes, S, v)
      PROVE  S \in SUBSET DOMAIN nodes' /\ Climbs(nodes', S, v)
  BY <1>1, <1>3 DEF Climbs
<1>4. ASSUME NEW S \in SUBSET DOMAIN nodes', Climbs(nodes', S, v)
      PROVE  S \ {new} \in SUBSET DOMAIN nodes /\ Climbs(nodes, S \ {new}, v)
  <2>1. S \ {new} \in SUBSET DOMAIN nodes
    BY <1>1
  <2>2. ASSUME NEW x \in (S \ {new}) \union {v}
        PROVE  nodes[x].parent \in (S \ {new}) \union {NoVersion}
    <3>1. x \in DOMAIN nodes /\ x \in S \union {v}
      BY <2>1
    <3>2. nodes[x].parent \in S \union {NoVersion}
      BY <1>1, <1>4, <3>1 DEF Climbs
    <3>. QED
      BY <1>2, <3>1, <3>2
  <2>. QED
    BY <2>1, <2>2 DEF Climbs
<1>5. Climbs(nodes, DOMAIN nodes, v)
  BY <1>2 DEF Climbs
<1>6. \A u : u \in Above(v)' => u \in Above(v)
  BY <1>3, <1>5, AboveClimbs
<1>7. \A u : u \in Above(v) => u \in Above(v)'
  BY <1>1, <1>4, AboveClimbs
<1>. QED
  BY <1>6, <1>7

\* Who leaves is above nobody any more; what was above it is above its children still.
LEMMA RemoveKeepsLines ==
  ASSUME GraphInv, NEW gone \in Version, RemoveVersion(gone), NEW v \in DOMAIN nodes'
  PROVE  Above(v)' = Above(v) \intersect DOMAIN nodes'
<1>1. gone \in DOMAIN nodes /\ DOMAIN nodes' = DOMAIN nodes \ {gone} /\ gone # NoVersion
  BY VersionAssumption DEF RemoveVersion, Without, NoVersion
<1>2. \A u \in DOMAIN nodes : nodes[u].parent \in DOMAIN nodes \union {NoVersion}
  BY EndsAreNodes
<1>3. nodes[gone].parent # gone
  <2>1. {gone} \in SUBSET DOMAIN nodes /\ {gone} # {}
    BY <1>1
  <2>. QED
    BY <2>1 DEF GraphInv, Rooted
<1>4. \A u \in DOMAIN nodes' :
        nodes'[u].parent = IF nodes[u].parent = gone THEN nodes[gone].parent ELSE nodes[u].parent
  <2>1. ASSUME NEW u \in DOMAIN nodes'
        PROVE  nodes'[u].parent = IF u \in nodes[gone].children /\ u # nodes[gone].parent
                                  THEN nodes[gone].parent ELSE nodes[u].parent
    BY <1>1, <2>1 DEF RemoveVersion, Without, GraphInv, GraphTypeOK
  <2>2. \A u \in DOMAIN nodes : u \in nodes[gone].children <=> nodes[u].parent = gone
    BY <1>1, EndsAreNodes
  <2>3. nodes[gone].parent \notin nodes[gone].children
    <3>. DEFINE p == nodes[gone].parent
    <3>1. SUFFICES ASSUME p \in nodes[gone].children PROVE FALSE
      OBVIOUS
    <3>2. p \in DOMAIN nodes /\ nodes[p].parent = gone
      BY <1>1, <3>1, EndsAreNodes
    <3>3. {gone, p} \in SUBSET DOMAIN nodes /\ {gone, p} # {}
      BY <1>1, <3>2
    <3>. QED
      BY <3>2, <3>3 DEF GraphInv, Rooted
  <2>. QED
    BY <1>1, <2>1, <2>2, <2>3
<1>5. ASSUME NEW S \in SUBSET DOMAIN nodes, Climbs(nodes, S, v)
      PROVE  S \ {gone} \in SUBSET DOMAIN nodes' /\ Climbs(nodes', S \ {gone}, v)
  <2>1. S \ {gone} \in SUBSET DOMAIN nodes'
    BY <1>1
  <2>2. ASSUME NEW x \in (S \ {gone}) \union {v}
        PROVE  nodes'[x].parent \in (S \ {gone}) \union {NoVersion}
    <3>1. x \in DOMAIN nodes' /\ x \in S \union {v} /\ nodes[x].parent \in S \union {NoVersion}
      BY <1>5, <2>1 DEF Climbs
    <3>2. CASE nodes[x].parent = gone
      <4>1. gone \in S
        BY <1>1, <3>1, <3>2
      <4>2. nodes[gone].parent \in S \union {NoVersion}
        BY <1>5, <4>1 DEF Climbs
      <4>. QED
        BY <1>3, <1>4, <3>1, <3>2, <4>2
    <3>3. CASE nodes[x].parent # gone
      BY <1>4, <3>1, <3>3
    <3>. QED
      BY <3>2, <3>3
  <2>. QED
    BY <2>1, <2>2 DEF Climbs
<1>6. ASSUME NEW S \in SUBSET DOMAIN nodes', Climbs(nodes', S, v)
      PROVE  \E more \in SUBSET DOMAIN nodes : Climbs(nodes, more, v) /\ more \ {gone} = S
  <2>1. gone \notin S /\ S \union {gone} \in SUBSET DOMAIN nodes /\ S \in SUBSET DOMAIN nodes
    BY <1>1
  <2>2. \A x \in S \union {v} : x \in DOMAIN nodes' /\ nodes'[x].parent \in S \union {NoVersion}
    BY <1>6 DEF Climbs
  <2>3. CASE \E x \in S \union {v} : nodes[x].parent = gone
    <3>1. nodes[gone].parent \in S \union {NoVersion}
      BY <1>4, <2>2, <2>3
    <3>2. \A x \in S \union {v} : nodes[x].parent \in S \union {gone, NoVersion}
      BY <1>4, <2>2
    <3>3. Climbs(nodes, S \union {gone}, v)
      BY <3>1, <3>2 DEF Climbs
    <3>. QED
      BY <2>1, <3>3
  <2>4. CASE ~\E x \in S \union {v} : nodes[x].parent = gone
    <3>1. Climbs(nodes, S, v)
      BY <1>4, <2>2, <2>4 DEF Climbs
    <3>. QED
      BY <2>1, <3>1
  <2>. QED
    BY <2>3, <2>4
<1>7. ASSUME NEW u \in Above(v)'
      PROVE  u \in Above(v) \intersect DOMAIN nodes'
  <2>1. u \in DOMAIN nodes' /\ \A S \in SUBSET DOMAIN nodes' : Climbs(nodes', S, v) => u \in S
    BY AboveClimbs
  <2>2. \A S \in SUBSET DOMAIN nodes : Climbs(nodes, S, v) => u \in S
    BY <1>5, <2>1
  <2>. QED
    BY <1>1, <2>1, <2>2, AboveClimbs
<1>8. ASSUME NEW u \in Above(v) \intersect DOMAIN nodes'
      PROVE  u \in Above(v)'
  <2>1. ASSUME NEW S \in SUBSET DOMAIN nodes', Climbs(nodes', S, v) PROVE u \in S
    <3>1. PICK more \in SUBSET DOMAIN nodes : Climbs(nodes, more, v) /\ more \ {gone} = S
      BY <1>6, <2>1
    <3>2. u \in more /\ u # gone
      BY <1>1, <3>1, AboveClimbs
    <3>. QED
      BY <3>1, <3>2
  <2>. QED
    BY <2>1, AboveClimbs
<1>. QED
  BY <1>7, <1>8

LEMMA GraphInitInv == GraphInit => GraphInv
<1>. SUFFICES ASSUME GraphInit PROVE GraphInv
  OBVIOUS
<1>1. DOMAIN nodes = {} /\ root = NoVersion
  BY DEF GraphInit
<1>. QED
  BY <1>1 DEF GraphInv, GraphTypeOK, BothEnds, Rooted, Parentless

LEMMA GraphNextInv == GraphInv /\ [GraphNext]_graphVars => GraphInv'
<1>1. GraphInv /\ GraphNext => GraphInv'
  BY AddKeeps, RemoveKeeps DEF GraphNext
<1>2. GraphInv /\ UNCHANGED graphVars => GraphInv'
  BY DEF graphVars, GraphInv, GraphTypeOK, BothEnds, Rooted, Parentless
<1>. QED
  BY <1>1, <1>2

\* Over any sequence of Add and Remove, of any versions, parent and children tell the
\* same, the root is a node without a parent whenever there is a node, and no line
\* of parents goes round (VersionGraph, versioning.go:229-307): what every
\* walk of the graph relies on to end.
THEOREM GraphIsForest == GraphSpec => [](BothEnds /\ Rooted)
<1>1. GraphInv => BothEnds /\ Rooted
  BY DEF GraphInv
<1>. QED
  BY <1>1, GraphInitInv, GraphNextInv, PTL DEF GraphSpec

\* Neither a removal nor an addition, of whatever version wherever it stands, changes
\* what lies above a version that stays, but for the one removed: its children are
\* handed to its parent with all that is below them (Remove, versioning.go:278-307).
THEOREM LinesStand == GraphSpec => LinesAreKept
<1>1. GraphInv /\ [GraphNext]_graphVars
        => [\A v \in DOMAIN nodes \intersect DOMAIN nodes' : Above(v)' = Above(v) \intersect DOMAIN nodes']_graphVars
  <2>. SUFFICES ASSUME GraphInv, GraphNext, NEW v \in DOMAIN nodes \intersect DOMAIN nodes'
                PROVE  Above(v)' = Above(v) \intersect DOMAIN nodes'
    OBVIOUS
  <2>1. ASSUME NEW new \in Version, NEW parent \in DOMAIN nodes \union {NoVersion}, AddVersion(new, parent)
        PROVE  Above(v)' = Above(v) \intersect DOMAIN nodes'
    <3>1. Above(v)' = Above(v) /\ DOMAIN nodes \subseteq DOMAIN nodes'
      BY <2>1, AddKeepsLines DEF AddVersion, Linked
    <3>. QED
      BY <3>1, AboveClimbs
  <2>2. ASSUME NEW gone \in Version, RemoveVersion(gone)
        PROVE  Above(v)' = Above(v) \intersect DOMAIN nodes'
    BY <2>2, RemoveKeepsLines
  <2>. QED
    BY <2>1, <2>2 DEF GraphNext
<1>. QED
  BY <1>1, GraphInitInv, GraphNextInv, PTL DEF GraphSpec, LinesAreKept

-----------------------------------------------------------------------------
(* Queries.                                                               *)

\* The calls of a program and the words in their arguments.
Calls == Call \union {Start[n] : n \in DOMAIN Start}
Argument == {"", "*"} \union UNION {{c.args[n] : n \in DOMAIN c.args} : c \in Calls}

Slice == [array : Nat, len : Nat]
Heap == Seq(Seq(Argument))

\* A slice is nil or a part of an array on the heap.
SliceOn(heap, t) == t = Nil \/ (t.array \in 1..Len(heap) /\ t.len <= Len(heap[t.array]))

\* A query whose lists are slices on the heap.
QueryOn(heap, query) ==
  /\ query = [is |-> query.is, lists |-> query.lists]
  /\ query.lists \in [QueryLists -> Slice]
  /\ \A l \in QueryLists : SliceOn(heap, query.lists[l])
Good(s) ==
  /\ s = [heap |-> s.heap, query |-> s.query]
  /\ s.heap \in Heap /\ QueryOn(s.heap, s.query)

\* What a query says, apart from where its lists are kept.
View(heap, query) == [is |-> query.is, lists |-> ListsOf(heap, query)]

\* A heap that has all of an earlier one unchanged.
Extended(old, heap) ==
  /\ Len(old) <= Len(heap)
  /\ \A a \in 1..Len(old) : heap[a] = old[a]

\* Every argument is a list of words.
LEMMA ArgsAreWords ==
  /\ Start \in Seq(Calls) /\ Room \in Nat
  /\ \A c \in Calls : c.args \in Seq(Argument) /\ Appends(c) \in Seq(Argument)
<1>1. Start \in Seq(Calls) /\ Room \in Nat
  BY CallAssumption, IsASeq DEF Calls, IsList
<1>2. ASSUME NEW c \in Calls
      PROVE  c.args \in Seq(Argument)
  <2>1. Len(c.args) \in Nat /\ c.args = [n \in 1..Len(c.args) |-> c.args[n]]
    BY CallAssumption DEF Calls, IsList
  <2>2. ASSUME NEW n \in 1..Len(c.args)
        PROVE  c.args[n] \in Argument
    <3>1. n \in DOMAIN c.args
      BY <2>1
    <3>2. c.args[n] \in UNION {{d.args[k] : k \in DOMAIN d.args} : d \in Calls}
      BY <3>1
    <3>. QED
      BY <3>2 DEF Argument
  <2>. QED
    BY <2>1, <2>2
<1>3. ASSUME NEW c \in Calls
      PROVE  Appends(c) \in Seq(Argument)
  <2>1. <<"*">> \in Seq(Argument) /\ <<>> \in Seq(Argument)
    BY DEF Argument
  <2>. QED
    BY <1>2, <2>1 DEF Appends
<1>. QED
  BY <1>1, <1>2, <1>3

\* The elements of a slice on the heap are a list of words.
LEMMA ElementsAreWords ==
  ASSUME NEW heap \in Heap, NEW t \in Slice, SliceOn(heap, t)
  PROVE  /\ Elements(heap, t) \in Seq(Argument)
         /\ t = Nil => Elements(heap, t) = <<>>
         /\ t # Nil => /\ heap[t.array] \in Seq(Argument) /\ Len(Elements(heap, t)) = t.len
                       /\ \A n \in 1..t.len : Elements(heap, t)[n] = heap[t.array][n]
<1>1. CASE t = Nil
  BY <1>1 DEF Elements
<1>2. CASE t # Nil
  <2>1. heap[t.array] \in Seq(Argument) /\ t.array \in 1..Len(heap) /\ t.len \in 0..Len(heap[t.array])
    BY <1>2 DEF SliceOn, Heap, Slice
  <2>. QED
    BY <1>2, <2>1 DEF Elements
<1>. QED
  BY <1>1, <1>2

\* A slice on a heap has the same elements on one that extends it.
LEMMA ExtendedKeeps ==
  ASSUME NEW old \in Heap, NEW heap \in Heap, Extended(old, heap), NEW t \in Slice, SliceOn(old, t)
  PROVE  SliceOn(heap, t) /\ Elements(heap, t) = Elements(old, t)
<1>. QED
  BY DEF Extended, SliceOn, Elements, Heap

LEMMA ExtendedKeepsQuery ==
  ASSUME NEW old \in Heap, NEW heap \in Heap, Extended(old, heap), NEW query, QueryOn(old, query)
  PROVE  QueryOn(heap, query) /\ View(heap, query) = View(old, query)
<1>1. \A l \in QueryLists : SliceOn(heap, query.lists[l]) /\ Elements(heap, query.lists[l]) = Elements(old, query.lists[l])
  BY ExtendedKeeps DEF QueryOn
<1>. QED
  BY <1>1 DEF QueryOn, View, ListsOf

\* What append does: the slice it returns has the new elements behind the old, and
\* no array but that of the old slice is written.
LEMMA AppendKeeps ==
  ASSUME NEW heap \in Heap, NEW t \in Slice, SliceOn(heap, t), NEW new \in Seq(Argument),
         NEW g, g = AppendTo(heap, t, new)
  PROVE  /\ g.heap \in Heap /\ Len(heap) <= Len(g.heap)
         /\ \A a \in 1..Len(heap) : a # t.array => g.heap[a] = heap[a]
         /\ g.slice \in Slice /\ SliceOn(g.heap, g.slice)
         /\ Elements(g.heap, g.slice) = Elements(heap, t) \o new
         /\ g.slice = Nil \/ g.slice.array = t.array \/ g.slice.array = Len(heap) + 1
<1>0. /\ Elements(heap, t) \in Seq(Argument) /\ Nil \in Slice
      /\ Len(heap) \in Nat /\ Len(new) \in Nat
  BY ElementsAreWords DEF Heap, Nil, Slice
<1>1. CASE new = <<>>
  <2>1. g.heap = heap /\ g.slice = t
    BY <1>1 DEF AppendTo
  <2>. QED
    BY <1>0, <1>1, <2>1
<1>2. CASE new # <<>> /\ t # Nil /\ t.len + Len(new) <= Len(heap[t.array])
  <2>. DEFINE old == heap[t.array]
              written == [n \in DOMAIN old |->
                            IF n \in t.len + 1..t.len + Len(new) THEN new[n - t.len] ELSE old[n]]
              longer == [array |-> t.array, len |-> t.len + Len(new)]
  <2>1. g = [heap |-> [heap EXCEPT ![t.array] = written], slice |-> [t EXCEPT !.len = @ + Len(new)]]
    BY <1>2 DEF AppendTo
  <2>2. /\ old \in Seq(Argument) /\ t.array \in 1..Len(heap) /\ t.len \in Nat /\ t.array \in Nat
        /\ t.len + Len(new) \in 0..Len(old)
    BY <1>0, <1>2 DEF SliceOn, Heap, Slice
  <2>3. written \in Seq(Argument) /\ Len(written) = Len(old)
    <3>1. \A n \in 1..Len(old) : written[n] \in Argument
      BY <1>0, <2>2
    <3>2. written \in [1..Len(old) -> Argument] /\ Len(old) \in Nat
      BY <2>2, <3>1
    <3>. HIDE DEF written
    <3>. QED
      BY <3>2
  <2>4. g.slice = longer /\ longer \in Slice /\ longer # Nil
    BY <1>0, <2>1, <2>2 DEF Slice, Nil
  <2>5. /\ g.heap \in Heap /\ Len(g.heap) = Len(heap) /\ g.heap[t.array] = written
        /\ \A a \in 1..Len(heap) : a # t.array => g.heap[a] = heap[a]
    <3>. HIDE DEF written
    <3>1. g.heap = [heap EXCEPT ![t.array] = written]
      BY <2>1
    <3>. QED
      BY <2>2, <2>3, <3>1 DEF Heap
  <2>6. SliceOn(g.heap, g.slice)
    BY <2>2, <2>3, <2>4, <2>5 DEF SliceOn
  <2>7. Elements(g.heap, g.slice) = Elements(heap, t) \o new
    <3>1. longer.array = t.array /\ longer.len = t.len + Len(new)
      OBVIOUS
    <3>2. /\ Len(Elements(heap, t)) = t.len
          /\ \A n \in 1..t.len : Elements(heap, t)[n] = old[n]
      BY <1>2, ElementsAreWords
    <3>3. \A n \in 1..t.len + Len(new) : written[n] = (Elements(heap, t) \o new)[n]
      <4>. DEFINE first == Elements(heap, t)
      <4>1. first \in Seq(Argument) /\ Len(first) = t.len /\ \A n \in 1..t.len : first[n] = old[n]
        BY <1>0, <3>2
      <4>. HIDE DEF first
      <4>2. \A n \in 1..t.len + Len(new) :
              (first \o new)[n] = IF n <= t.len THEN first[n] ELSE new[n - t.len]
        BY <4>1, ConcatProperties
      <4>3. \A n \in 1..t.len + Len(new) : written[n] = IF n <= t.len THEN old[n] ELSE new[n - t.len]
        <5>. HIDE DEF old
        <5>. QED
          BY <1>0, <2>2
      <4>4. ASSUME NEW n \in 1..t.len + Len(new) PROVE written[n] = (first \o new)[n]
        <5>1. n <= t.len => n \in 1..t.len
          BY <1>0
        <5>. HIDE DEF written, old
        <5>. QED
          BY <4>1, <4>2, <4>3, <5>1
      <4>. QED
        BY <4>4 DEF first
    <3>4. Elements(heap, t) \o new \in Seq(Argument) /\ Len(Elements(heap, t) \o new) = t.len + Len(new)
      BY <1>0, <3>2
    <3>. HIDE DEF longer, written, old
    <3>5. /\ Elements(g.heap, longer) \in Seq(Argument) /\ Len(Elements(g.heap, longer)) = t.len + Len(new)
          /\ \A n \in 1..t.len + Len(new) : Elements(g.heap, longer)[n] = written[n]
      BY <2>4, <2>5, <2>6, <3>1, ElementsAreWords
    <3>. DEFINE X == Elements(g.heap, longer)  Y == Elements(heap, t) \o new
    <3>6. X \in Seq(Argument) /\ Y \in Seq(Argument) /\ Len(X) = Len(Y) /\ \A n \in 1..Len(X) : X[n] = Y[n]
      BY <3>3, <3>4, <3>5
    <3>7. X = Y
      <4>. HIDE DEF X, Y
      <4>. QED
        BY <3>6, SeqEqual
    <3>. QED
      BY <2>4, <3>7
  <2>. QED
    BY <1>0, <2>4, <2>5, <2>6, <2>7
<1>3. CASE new # <<>> /\ ~(t # Nil /\ t.len + Len(new) <= Len(heap[t.array]))
  <2>. DEFINE all == Elements(heap, t) \o new
              array == all \o [n \in 1..Room |-> ""]
              moved == [array |-> Len(heap) + 1, len |-> t.len + Len(new)]
  <2>1. g = [heap |-> Append(heap, array), slice |-> moved]
    BY <1>3 DEF AppendTo
  <2>2. [n \in 1..Room |-> ""] \in Seq(Argument)
    <3>1. "" \in Argument
      BY DEF Argument
    <3>2. Room \in Nat
      BY ArgsAreWords
    <3>3. \A e \in Argument : [n \in 1..Room |-> e] \in Seq(Argument)
      BY <3>2
    <3>. QED
      BY <3>1, <3>3
  <2>3. Len(Elements(heap, t)) = t.len /\ t.len \in Nat
    BY ElementsAreWords DEF Slice, Nil
  <2>4. /\ array \in Seq(Argument) /\ all \in Seq(Argument) /\ Len(all) = t.len + Len(new)
        /\ Len(all) <= Len(array) /\ \A n \in 1..Len(all) : array[n] = all[n]
    <3>1. all \in Seq(Argument) /\ Len(all) = t.len + Len(new)
      BY <1>0, <2>3, ConcatProperties
    <3>. HIDE DEF all
    <3>2. PICK room \in Seq(Argument) : room = [n \in 1..Room |-> ""]
      BY <2>2
    <3>3. array = all \o room
      BY <3>2
    <3>. HIDE DEF array
    <3>4. array \in Seq(Argument) /\ Len(array) = Len(all) + Len(room) /\ \A n \in 1..Len(all) : array[n] = all[n]
      BY <3>1, <3>3
    <3>5. Len(room) \in Nat /\ Len(all) \in Nat
      BY <3>1
    <3>. QED
      BY <3>1, <3>4, <3>5
  <2>. HIDE DEF array
  <2>5. /\ g.heap \in Heap /\ Len(g.heap) = Len(heap) + 1 /\ g.heap[Len(heap) + 1] = array
        /\ \A a \in 1..Len(heap) : g.heap[a] = heap[a]
    BY <1>0, <2>1, <2>4, AppendProperties DEF Heap
  <2>6. g.slice = moved /\ moved \in Slice /\ moved # Nil /\ SliceOn(g.heap, moved)
    <3>1. Len(all) \in Nat /\ Len(array) \in Nat
      BY <2>4, LenProperties
    <3>. HIDE DEF all
    <3>2. g.slice = moved /\ moved \in Slice /\ moved # Nil
      BY <1>0, <2>1, <2>3 DEF Slice, Nil
    <3>3. moved.array \in 1..Len(g.heap) /\ moved.len <= Len(g.heap[moved.array])
      BY <1>0, <2>4, <2>5, <3>1
    <3>. QED
      BY <3>2, <3>3 DEF SliceOn
  <2>. HIDE DEF all
  <2>7. Elements(g.heap, moved) = all
    <3>1. g.heap[moved.array] = array /\ moved.len = Len(all)
      BY <2>4, <2>5
    <3>2. moved \in Slice /\ moved # Nil /\ SliceOn(g.heap, moved) /\ g.heap \in Heap
      BY <2>5, <2>6
    <3>. HIDE DEF moved
    <3>3. /\ Elements(g.heap, moved) \in Seq(Argument) /\ Len(Elements(g.heap, moved)) = Len(all)
          /\ \A n \in 1..Len(all) : Elements(g.heap, moved)[n] = array[n]
      BY <3>1, <3>2, ElementsAreWords
    <3>. QED
      BY <2>4, <3>3, SeqEqual
  <2>8. moved.array = Len(heap) + 1 /\ Len(heap) <= Len(g.heap)
    BY <1>0, <2>5
  <2>. HIDE DEF moved
  <2>. QED
    BY <2>5, <2>6, <2>7, <2>8 DEF all
<1>. QED
  BY <1>1, <1>2, <1>3

\* g is the query s with new appended to list l: all else it says is as before, and
\* no array but that of list l was written.
ListGrown(s, l, new, g) ==
  /\ Good(g) /\ g.query.is = s.query.is
  /\ Len(s.heap) <= Len(g.heap)
  /\ \A a \in 1..Len(s.heap) : a # s.query.lists[l].array => g.heap[a] = s.heap[a]
  /\ \A k \in QueryLists \ {l} : g.query.lists[k] = s.query.lists[k]
  /\ g.query.lists[l] = Nil \/ g.query.lists[l].array \in {s.query.lists[l].array, Len(s.heap) + 1}
  /\ ListsOf(g.heap, g.query) = [ListsOf(s.heap, s.query) EXCEPT ![l] = @ \o new]

\* It is, if no other list of the query shares the array of list l.
LEMMA WithListKeeps ==
  ASSUME NEW s, Good(s), NEW l \in QueryLists, NEW new \in Seq(Argument),
         s.query.lists[l] = Nil \/ \A k \in QueryLists \ {l} : s.query.lists[k].array # s.query.lists[l].array
  PROVE  ListGrown(s, l, new, WithList(s, l, new))
<1>. DEFINE t == s.query.lists[l]
            grown == AppendTo(s.heap, t, new)
            g == WithList(s, l, new)
<1>1. /\ s.heap \in Heap /\ t \in Slice /\ SliceOn(s.heap, t)
      /\ s.query = [is |-> s.query.is, lists |-> s.query.lists] /\ s.query.lists \in [QueryLists -> Slice]
  BY DEF Good, QueryOn
<1>2. /\ grown.heap \in Heap /\ Len(s.heap) <= Len(grown.heap)
      /\ \A a \in 1..Len(s.heap) : a # t.array => grown.heap[a] = s.heap[a]
      /\ grown.slice \in Slice /\ SliceOn(grown.heap, grown.slice)
      /\ Elements(grown.heap, grown.slice) = Elements(s.heap, t) \o new
      /\ grown.slice = Nil \/ grown.slice.array = t.array \/ grown.slice.array = Len(s.heap) + 1
  BY <1>1, AppendKeeps
<1>3. g = [heap |-> grown.heap, query |-> [s.query EXCEPT !.lists[l] = grown.slice]]
  BY DEF WithList
<1>. HIDE DEF grown, g
<1>4. /\ g.heap = grown.heap /\ g.query.is = s.query.is
      /\ g.query = [is |-> g.query.is, lists |-> g.query.lists]
      /\ g.query.lists = [s.query.lists EXCEPT ![l] = grown.slice]
      /\ g = [heap |-> g.heap, query |-> g.query]
  BY <1>1, <1>3
<1>5. /\ g.query.lists \in [QueryLists -> Slice] /\ g.query.lists[l] = grown.slice
      /\ \A k \in QueryLists \ {l} : g.query.lists[k] = s.query.lists[k]
  BY <1>1, <1>2, <1>4
<1>6. ASSUME NEW k \in QueryLists \ {l}
      PROVE  /\ SliceOn(g.heap, g.query.lists[k])
             /\ Elements(g.heap, g.query.lists[k]) = Elements(s.heap, s.query.lists[k])
  <2>. DEFINE u == s.query.lists[k]
  <2>1. g.query.lists[k] = u /\ SliceOn(s.heap, u) /\ u \in Slice
    BY <1>1, <1>5 DEF Good, QueryOn
  <2>2. CASE u = Nil
    BY <2>1, <2>2 DEF SliceOn, Elements
  <2>3. CASE u # Nil
    <3>1. u.array \in 1..Len(s.heap) /\ u.array # t.array
      BY <2>1, <2>3 DEF SliceOn, Nil
    <3>2. g.heap[u.array] = s.heap[u.array] /\ u.array \in 1..Len(g.heap)
      <4>1. Len(s.heap) \in Nat /\ Len(grown.heap) \in Nat
        BY <1>1, <1>2 DEF Heap
      <4>. QED
        BY <1>2, <1>4, <3>1, <4>1
    <3>. QED
      BY <2>1, <2>3, <3>1, <3>2 DEF SliceOn, Elements
  <2>. QED
    BY <2>2, <2>3
<1>7. ListsOf(g.heap, g.query) = [ListsOf(s.heap, s.query) EXCEPT ![l] = @ \o new]
  BY <1>2, <1>4, <1>5, <1>6 DEF ListsOf
<1>8. Good(g)
  BY <1>2, <1>4, <1>5, <1>6 DEF Good, QueryOn
<1>9. ListGrown(s, l, new, g)
  BY <1>2, <1>4, <1>5, <1>7, <1>8 DEF ListGrown
<1>. QED
  BY <1>9 DEF g

\* A query on its way through clone: it says what the first one said, and the lists
\* in S lie in arrays of their own that the first did not have.
Cloning(first, s, S) ==
  /\ Good(s) /\ Extended(first.heap, s.heap)
  /\ View(s.heap, s.query) = View(first.heap, first.query)
  /\ \A l \in QueryLists \ S : s.query.lists[l] = first.query.lists[l]
  /\ \A l \in S : s.query.lists[l] = Nil
                  \/ /\ s.query.lists[l].array > Len(first.heap)
                     /\ \A k \in S \ {l} : s.query.lists[k].array # s.query.lists[l].array

LEMMA NilList ==
  ASSUME NEW s, Good(s), NEW l \in QueryLists, NEW u, u = [s EXCEPT !.query.lists[l] = Nil]
  PROVE  /\ Good(u) /\ u.heap = s.heap /\ u.query.is = s.query.is
         /\ u.query.lists = [s.query.lists EXCEPT ![l] = Nil]
         /\ ListsOf(u.heap, u.query) = [ListsOf(s.heap, s.query) EXCEPT ![l] = <<>>]
<1>1. /\ s = [heap |-> s.heap, query |-> s.query] /\ s.query = [is |-> s.query.is, lists |-> s.query.lists]
      /\ s.query.lists \in [QueryLists -> Slice] /\ Nil \in Slice
  BY DEF Good, QueryOn, Nil, Slice
<1>2. /\ u.heap = s.heap /\ u.query.is = s.query.is /\ u.query.lists = [s.query.lists EXCEPT ![l] = Nil]
      /\ u = [heap |-> u.heap, query |-> u.query] /\ u.query = [is |-> u.query.is, lists |-> u.query.lists]
  BY <1>1
<1>3. Good(u)
  BY <1>1, <1>2 DEF Good, QueryOn, SliceOn
<1>4. ListsOf(u.heap, u.query) = [ListsOf(s.heap, s.query) EXCEPT ![l] = <<>>]
  BY <1>1, <1>2 DEF ListsOf, Elements
<1>. QED
  BY <1>2, <1>3, <1>4

LEMMA CopiedKeeps ==
  ASSUME NEW first, Good(first), NEW s, NEW S \in SUBSET QueryLists, Cloning(first, s, S),
         NEW l \in QueryLists \ S
  PROVE  Cloning(first, Copied(s, l), S \union {l})
<1>. DEFINE c == Copied(s, l)
            u == [s EXCEPT !.query.lists[l] = Nil]
            words == Elements(s.heap, s.query.lists[l])
<1>1. /\ Good(s) /\ s.heap \in Heap /\ first.heap \in Heap /\ s.query.lists \in [QueryLists -> Slice]
      /\ Len(first.heap) \in Nat /\ Len(s.heap) \in Nat /\ Len(first.heap) <= Len(s.heap)
      /\ words \in Seq(Argument)
  <2>1. /\ Good(s) /\ s.heap \in Heap /\ first.heap \in Heap /\ s.query.lists \in [QueryLists -> Slice]
        /\ Len(first.heap) <= Len(s.heap) /\ SliceOn(s.heap, s.query.lists[l])
    BY DEF Cloning, Good, QueryOn, Extended
  <2>. QED
    BY <2>1, ElementsAreWords DEF Heap
<1>2. CASE s.query.lists[l] = Nil
  <2>1. c = s
    BY <1>2 DEF Copied
  <2>2. \A k \in S : s.query.lists[k] # Nil => s.query.lists[k].array # Nil.array
    BY <1>1 DEF Cloning, Nil
  <2>. QED
    BY <1>2, <2>1, <2>2 DEF Cloning
<1>3. CASE s.query.lists[l] # Nil
  <2>1. c = WithList(u, l, words)
    BY <1>3 DEF Copied
  <2>2. /\ Good(u) /\ u.heap = s.heap /\ u.query.is = s.query.is
        /\ u.query.lists = [s.query.lists EXCEPT ![l] = Nil]
        /\ ListsOf(u.heap, u.query) = [ListsOf(s.heap, s.query) EXCEPT ![l] = <<>>]
    BY <1>1, NilList
  <2>. HIDE DEF c, u
  <2>3. /\ u.query.lists[l] = Nil /\ \A k \in QueryLists \ {l} : u.query.lists[k] = s.query.lists[k]
        /\ Nil.array = 0
    BY <1>1, <2>2 DEF Nil
  <2>4. /\ Good(c) /\ c.query.is = u.query.is /\ Len(u.heap) <= Len(c.heap)
        /\ \A a \in 1..Len(u.heap) : a # 0 => c.heap[a] = u.heap[a]
        /\ \A k \in QueryLists \ {l} : c.query.lists[k] = u.query.lists[k]
        /\ c.query.lists[l] = Nil \/ c.query.lists[l].array \in {0, Len(u.heap) + 1}
        /\ ListsOf(c.heap, c.query) = [ListsOf(u.heap, u.query) EXCEPT ![l] = @ \o words]
    <3>. HIDE DEF words
    <3>1. Good(u) /\ l \in QueryLists /\ words \in Seq(Argument) /\ u.query.lists[l] = Nil
      BY <1>1, <2>2, <2>3
    <3>2. ListGrown(u, l, words, c)
      BY <2>1, <3>1, WithListKeeps
    <3>. QED
      BY <2>3, <3>2 DEF ListGrown
  <2>5. ListsOf(c.heap, c.query) = ListsOf(s.heap, s.query)
    <3>1. ListsOf(s.heap, s.query)[l] = words /\ ListsOf(s.heap, s.query) = [k \in QueryLists |-> ListsOf(s.heap, s.query)[k]]
      BY DEF ListsOf
    <3>2. <<>> \o words = words
      BY <1>1
    <3>. HIDE DEF words
    <3>. DEFINE L == ListsOf(s.heap, s.query)
    <3>3. ListsOf(c.heap, c.query) = [[L EXCEPT ![l] = <<>>] EXCEPT ![l] = @ \o words]
      BY <2>2, <2>4
    <3>. HIDE DEF L
    <3>. QED
      BY <3>1, <3>2, <3>3 DEF L
  <2>6. Extended(first.heap, c.heap)
    <3>1. c.heap \in Heap /\ Len(c.heap) \in Nat
      BY <2>4 DEF Good, Heap
    <3>. QED
      BY <1>1, <2>2, <2>4, <3>1 DEF Cloning, Extended
  <2>7. c.query.lists[l] = Nil \/ c.query.lists[l].array = Len(s.heap) + 1
    <3>1. SliceOn(c.heap, c.query.lists[l])
      BY <2>4 DEF Good, QueryOn
    <3>. QED
      BY <2>2, <2>4, <3>1 DEF SliceOn
  <2>8. \A k \in QueryLists \ {l} : c.query.lists[k].array # Len(s.heap) + 1
    <3>1. \A k \in QueryLists : s.query.lists[k] = Nil \/ s.query.lists[k].array \in 1..Len(s.heap)
      BY <1>1 DEF Good, QueryOn, SliceOn
    <3>. QED
      BY <1>1, <2>3, <2>4, <3>1
  <2>9. View(c.heap, c.query) = View(first.heap, first.query)
    BY <2>2, <2>4, <2>5 DEF Cloning, View
  <2>10. \A k \in QueryLists \ {l} : c.query.lists[k] = s.query.lists[k]
    BY <2>3, <2>4
  <2>11. \A k \in S \union {l} :
           c.query.lists[k] = Nil
             \/ /\ c.query.lists[k].array > Len(first.heap)
                /\ \A j \in (S \union {l}) \ {k} : c.query.lists[j].array # c.query.lists[k].array
    <3>1. TAKE k \in S \union {l}
    <3>2. CASE k = l
      BY <1>1, <2>7, <2>8, <3>2
    <3>3. CASE k # l /\ c.query.lists[k] # Nil
      <4>1. s.query.lists[k].array > Len(first.heap) /\ \A j \in S \ {k} : s.query.lists[j].array # s.query.lists[k].array
        BY <2>10, <3>3 DEF Cloning
      <4>2. c.query.lists[k].array \in Nat \ {0} /\ c.query.lists[k].array # Len(s.heap) + 1
        BY <1>1, <2>8, <2>10, <3>3, <4>1 DEF Slice
      <4>3. c.query.lists[l].array # c.query.lists[k].array
        BY <2>3, <2>7, <4>2
      <4>. QED
        BY <2>10, <3>3, <4>1, <4>3
    <3>. QED
      BY <3>2, <3>3
  <2>. QED
    BY <2>4, <2>6, <2>9, <2>10, <2>11 DEF Cloning, c
<1>. QED
  BY <1>2, <1>3

\* clone: a query that says the same, its lists in arrays of their own.
LEMMA CloneKeeps ==
  ASSUME NEW s, Good(s)
  PROVE  Cloning(s, Clone(s), QueryLists)
<1>1. Cloning(s, s, {})
  <2>1. s.heap \in Heap
    BY DEF Good
  <2>2. Extended(s.heap, s.heap)
    BY <2>1 DEF Extended, Heap
  <2>. QED
    BY <2>2 DEF Cloning
<1>. DEFINE s1 == Copied(s, "fields")
            s2 == Copied(s1, "conditions")
            s3 == Copied(s2, "orderFields")
            s4 == Copied(s3, "groupFields")
            s5 == Copied(s4, "joinClauses")
            s6 == Copied(s5, "hints")
<1>. /\ "fields" \in QueryLists /\ "conditions" \in QueryLists /\ "orderFields" \in QueryLists
     /\ "groupFields" \in QueryLists /\ "joinClauses" \in QueryLists /\ "hints" \in QueryLists
  BY DEF QueryLists
<1>2. Cloning(s, s1, {"fields"})
  BY <1>1, CopiedKeeps
<1>. HIDE DEF s1
<1>3. Cloning(s, s2, {"fields", "conditions"})
  BY <1>2, CopiedKeeps
<1>. HIDE DEF s2
<1>4. Cloning(s, s3, {"fields", "conditions", "orderFields"})
  BY <1>3, CopiedKeeps
<1>. HIDE DEF s3
<1>5. Cloning(s, s4, {"fields", "conditions", "orderFields", "groupFields"})
  BY <1>4, CopiedKeeps
<1>. HIDE DEF s4
<1>6. Cloning(s, s5, {"fields", "conditions", "orderFields", "groupFields", "joinClauses"})
  BY <1>5, CopiedKeeps
<1>. HIDE DEF s5
<1>7. Cloning(s, s6, {"fields", "conditions", "orderFields", "groupFields", "joinClauses", "hints"})
  BY <1>6, CopiedKeeps
<1>. HIDE DEF s6
<1>8. Clone(s) = s6
  BY DEF Clone, s1, s2, s3, s4, s5, s6
<1>9. QueryLists = {"fields", "conditions", "orderFields", "groupFields", "joinClauses", "hints"}
  BY DEF QueryLists
<1>. QED
  BY <1>7, <1>8, <1>9

\* What a method does to a query taken as a value.
AfterCall(view, c) ==
  LET lists == IF c.to \in {"Select", "SelectAliased"} THEN [view.lists EXCEPT !["fields"] = <<>>] ELSE view.lists
  IN  [is |-> Sets(c) @@ view.is, lists |-> [lists EXCEPT ![ListOf(c)] = @ \o Appends(c)]]

\* It is what every method does, and the arrays there were it leaves alone.
LEMMA CalledKeeps ==
  ASSUME NEW s, Good(s), NEW c \in Calls
  PROVE  /\ Good(Called(s, c)) /\ Extended(s.heap, Called(s, c).heap)
         /\ View(Called(s, c).heap, Called(s, c).query) = AfterCall(View(s.heap, s.query), c)
<1>. DEFINE l == ListOf(c)
            selects == c.to \in {"Select", "SelectAliased"}
            copy == Clone(s)
            begun == IF selects THEN [copy EXCEPT !.query.lists["fields"] = Nil] ELSE copy
            set == [begun EXCEPT !.query.is = Sets(c) @@ @]
            made == WithList(set, l, Appends(c))
<1>1. l \in QueryLists /\ "fields" \in QueryLists /\ Appends(c) \in Seq(Argument)
  BY ArgsAreWords DEF ListOf, QueryLists
<1>2. Cloning(s, copy, QueryLists) /\ Good(copy) /\ s.heap \in Heap /\ copy.heap \in Heap
  BY CloneKeeps DEF Cloning, Good
<1>. HIDE DEF copy, l
<1>3. /\ Good(begun) /\ begun.heap = copy.heap /\ begun.query.is = copy.query.is
      /\ \A k \in QueryLists : begun.query.lists[k] \in {Nil, copy.query.lists[k]}
      /\ ListsOf(begun.heap, begun.query) =
           IF selects THEN [ListsOf(copy.heap, copy.query) EXCEPT !["fields"] = <<>>] ELSE ListsOf(copy.heap, copy.query)
  <2>1. CASE ~selects
    BY <1>2, <2>1
  <2>2. CASE selects
    <3>. DEFINE u == [copy EXCEPT !.query.lists["fields"] = Nil]
    <3>1. /\ Good(u) /\ u.heap = copy.heap /\ u.query.is = copy.query.is
          /\ u.query.lists = [copy.query.lists EXCEPT !["fields"] = Nil]
          /\ ListsOf(u.heap, u.query) = [ListsOf(copy.heap, copy.query) EXCEPT !["fields"] = <<>>]
      BY <1>1, <1>2, NilList
    <3>2. begun = u
      BY <2>2
    <3>3. copy.query.lists \in [QueryLists -> Slice]
      BY <1>2 DEF Good, QueryOn
    <3>. HIDE DEF u, begun
    <3>. QED
      BY <2>2, <3>1, <3>2, <3>3
  <2>. QED
    BY <2>1, <2>2
<1>. HIDE DEF begun
<1>4. /\ Good(set) /\ set.heap = begun.heap /\ set.query.lists = begun.query.lists
      /\ set.query.is = Sets(c) @@ begun.query.is
      /\ ListsOf(set.heap, set.query) = ListsOf(begun.heap, begun.query)
  <2>1. /\ begun = [heap |-> begun.heap, query |-> begun.query]
        /\ begun.query = [is |-> begun.query.is, lists |-> begun.query.lists]
    BY <1>3 DEF Good, QueryOn
  <2>2. /\ set.heap = begun.heap /\ set.query.lists = begun.query.lists
        /\ set.query.is = Sets(c) @@ begun.query.is
        /\ set = [heap |-> set.heap, query |-> set.query]
        /\ set.query = [is |-> set.query.is, lists |-> set.query.lists]
    BY <2>1
  <2>. HIDE DEF set
  <2>. QED
    BY <1>3, <2>2 DEF Good, QueryOn, ListsOf
<1>. HIDE DEF set
<1>5. /\ set.query.lists[l] = Nil \/ \A k \in QueryLists \ {l} : set.query.lists[k].array # set.query.lists[l].array
      /\ set.query.lists[l] = Nil \/ set.query.lists[l].array > Len(s.heap)
  <2>1. ASSUME set.query.lists[l] # Nil
        PROVE  /\ set.query.lists[l].array > Len(s.heap)
               /\ \A k \in QueryLists \ {l} : set.query.lists[k].array # set.query.lists[l].array
    <3>1. set.query.lists[l] = copy.query.lists[l] /\ copy.query.lists[l] # Nil
      BY <1>1, <1>3, <1>4, <2>1
    <3>2. /\ copy.query.lists[l].array > Len(s.heap)
          /\ \A k \in QueryLists \ {l} : copy.query.lists[k].array # copy.query.lists[l].array
      BY <1>1, <1>2, <3>1 DEF Cloning
    <3>3. Nil.array = 0 /\ Len(s.heap) \in Nat
      BY <1>2 DEF Heap, Nil
    <3>4. copy.query.lists[l].array # 0
      BY <3>2, <3>3
    <3>. QED
      BY <1>3, <1>4, <3>1, <3>2, <3>3, <3>4
  <2>. QED
    BY <2>1
<1>6. ListGrown(set, l, Appends(c), made)
  BY <1>1, <1>4, <1>5, WithListKeeps
<1>7. Called(s, c) = made
  BY DEF Called, made, set, begun, copy, l
<1>. HIDE DEF made
<1>8. Extended(s.heap, made.heap)
  <2>1. Len(s.heap) <= Len(copy.heap) /\ \A a \in 1..Len(s.heap) : copy.heap[a] = s.heap[a]
    BY <1>2 DEF Cloning, Extended
  <2>2. /\ Len(copy.heap) <= Len(made.heap)
        /\ \A a \in 1..Len(copy.heap) : a # set.query.lists[l].array => made.heap[a] = copy.heap[a]
    BY <1>3, <1>4, <1>6 DEF ListGrown
  <2>3. Len(s.heap) \in Nat /\ Len(copy.heap) \in Nat /\ Len(made.heap) \in Nat
    BY <1>2, <1>6 DEF ListGrown, Good, Heap
  <2>4. \A a \in 1..Len(s.heap) : a # set.query.lists[l].array
    <3>1. Nil.array = 0
      BY DEF Nil
    <3>. QED
      BY <1>5, <2>3, <3>1
  <2>. QED
    BY <2>1, <2>2, <2>3, <2>4 DEF Extended
<1>9. View(made.heap, made.query) = AfterCall(View(s.heap, s.query), c)
  <2>1. /\ made.query.is = Sets(c) @@ copy.query.is
        /\ ListsOf(made.heap, made.query) = [ListsOf(set.heap, set.query) EXCEPT ![l] = @ \o Appends(c)]
    BY <1>3, <1>4, <1>6 DEF ListGrown
  <2>2. copy.query.is = s.query.is /\ ListsOf(copy.heap, copy.query) = ListsOf(s.heap, s.query)
    BY <1>2 DEF Cloning, View
  <2>3. View(s.heap, s.query).is = s.query.is /\ View(s.heap, s.query).lists = ListsOf(s.heap, s.query)
    BY DEF View
  <2>. QED
    BY <1>3, <1>4, <2>1, <2>2, <2>3 DEF View, AfterCall, l
<1>. QED
  BY <1>6, <1>7, <1>8, <1>9 DEF ListGrown

-----------------------------------------------------------------------------
(* Chains of calls.                                                        *)

\* Induction over the natural numbers, for a set.
LEMMA NumbersFrom0 ==
  ASSUME NEW S, 0 \in S, \A n \in Nat : n \in S => n + 1 \in S
  PROVE  \A n \in Nat : n \in S
<1>. SUFFICES ASSUME Nat \ S # {} PROVE FALSE
  OBVIOUS
<1>1. PICK x \in Nat \ S : \A y \in Nat \ S : ~(<<y, x>> \in OpToRel(<, Nat))
  BY NatLessThanWellFounded, WFMin
<1>2. \A y \in Nat \ S : ~(y < x)
  BY <1>1 DEF OpToRel
<1>3. x \in Nat /\ x \notin S /\ x # 0
  OBVIOUS
<1>4. x - 1 \in Nat /\ x - 1 < x /\ (x - 1) + 1 = x
  BY <1>3
<1>5. x - 1 \in S
  BY <1>2, <1>4
<1>. QED
  BY <1>3, <1>4, <1>5

Fresh == [heap |-> <<>>, query |-> NewQuery]

\* What the first n calls make, for each n: Chain is its last value.
Made(calls) ==
  CHOOSE g : g = [n \in 0..Len(calls) |-> IF n = 0 THEN Fresh ELSE Called(g[n - 1], calls[n])]

LEMMA MadeStepByStep ==
  ASSUME NEW calls \in Seq(Calls)
  PROVE  /\ Chain(calls) = Made(calls)[Len(calls)] /\ Made(calls)[0] = Fresh
         /\ \A n \in 1..Len(calls) : Made(calls)[n] = Called(Made(calls)[n - 1], calls[n])
<1>1. Chain(calls) = Made(calls)[Len(calls)]
  BY DEF Chain, Made, Fresh
<1>. DEFINE Upto(g, m) == g = [n \in 0..m |-> IF n = 0 THEN Fresh ELSE Called(g[n - 1], calls[n])]
            S == {m \in Nat : \E g : Upto(g, m)}
<1>2. 0 \in S
  <2>1. Upto([n \in 0..0 |-> Fresh], 0)
    OBVIOUS
  <2>. QED
    BY <2>1
<1>3. ASSUME NEW m \in Nat, m \in S
      PROVE  m + 1 \in S
  <2>1. PICK g : Upto(g, m)
    BY <1>3
  <2>. DEFINE h == [n \in 0..m + 1 |-> IF n = m + 1 THEN Called(g[m], calls[m + 1]) ELSE g[n]]
  <2>2. \A n \in 0..m : h[n] = g[n] /\ g[n] = IF n = 0 THEN Fresh ELSE Called(g[n - 1], calls[n])
    BY <2>1
  <2>3. ASSUME NEW n \in 0..m + 1
        PROVE  h[n] = IF n = 0 THEN Fresh ELSE Called(h[n - 1], calls[n])
    <3>1. CASE n = m + 1
      BY <2>2, <3>1
    <3>2. CASE n # m + 1
      <4>1. n \in 0..m /\ (n # 0 => n - 1 \in 0..m)
        BY <3>2
      <4>. HIDE DEF h
      <4>. QED
        BY <2>2, <4>1
    <3>. QED
      BY <3>1, <3>2
  <2>4. h = [n \in 0..m + 1 |-> h[n]]
    OBVIOUS
  <2>. HIDE DEF h
  <2>5. Upto(h, m + 1)
    BY <2>3, <2>4
  <2>6. m + 1 \in Nat
    OBVIOUS
  <2>. HIDE DEF Upto
  <2>. QED
    BY <2>5, <2>6
<1>4. Len(calls) \in S
  <2>. HIDE DEF S
  <2>. QED
    BY <1>2, <1>3, NumbersFrom0
<1>5. Upto(Made(calls), Len(calls))
  BY <1>4 DEF Made
<1>6. \A n \in 0..Len(calls) :
         Made(calls)[n] = IF n = 0 THEN Fresh ELSE Called(Made(calls)[n - 1], calls[n])
  BY <1>5
<1>. QED
  BY <1>1, <1>6

\* One more call of a chain is a call on what the chain made.
LEMMA ChainSteps ==
  /\ Chain(<<>>) = Fresh
  /\ \A calls \in Seq(Calls), c \in Calls : Chain(Append(calls, c)) = Called(Chain(calls), c)
<1>1. Chain(<<>>) = Fresh
  <2>1. <<>> \in Seq(Calls) /\ Len(<<>>) = 0
    OBVIOUS
  <2>. QED
    BY <2>1, MadeStepByStep
<1>2. ASSUME NEW calls \in Seq(Calls), NEW c \in Calls
      PROVE  Chain(Append(calls, c)) = Called(Chain(calls), c)
  <2>. DEFINE longer == Append(calls, c)
              S == {n \in Nat : n <= Len(calls) => Made(longer)[n] = Made(calls)[n]}
  <2>1. /\ longer \in Seq(Calls) /\ Len(longer) = Len(calls) + 1 /\ longer[Len(longer)] = c
        /\ \A n \in 1..Len(calls) : longer[n] = calls[n]
        /\ Len(calls) \in Nat
    OBVIOUS
  <2>. HIDE DEF longer
  <2>2. /\ Chain(calls) = Made(calls)[Len(calls)] /\ Made(calls)[0] = Fresh
        /\ \A n \in 1..Len(calls) : Made(calls)[n] = Called(Made(calls)[n - 1], calls[n])
    BY MadeStepByStep
  <2>3. /\ Chain(longer) = Made(longer)[Len(longer)] /\ Made(longer)[0] = Fresh
        /\ \A n \in 1..Len(longer) : Made(longer)[n] = Called(Made(longer)[n - 1], longer[n])
    BY <2>1, MadeStepByStep
  <2>4. 0 \in S
    BY <2>2, <2>3
  <2>5. ASSUME NEW n \in Nat, n \in S
        PROVE  n + 1 \in S
    <3>1. SUFFICES ASSUME n + 1 <= Len(calls) PROVE Made(longer)[n + 1] = Made(calls)[n + 1]
      OBVIOUS
    <3>2. Made(longer)[n] = Made(calls)[n] /\ n + 1 \in 1..Len(calls) /\ n + 1 \in 1..Len(longer) /\ (n + 1) - 1 = n
      BY <2>1, <2>5, <3>1
    <3>. QED
      BY <2>1, <2>2, <2>3, <3>2
  <2>6. Len(calls) \in S
    <3>. HIDE DEF S
    <3>. QED
      BY <2>1, <2>4, <2>5, NumbersFrom0
  <2>7. Made(longer)[Len(calls)] = Chain(calls)
    BY <2>1, <2>2, <2>6
  <2>8. Chain(longer) = Called(Made(longer)[Len(calls)], c)
    BY <2>1, <2>3
  <2>. QED
    BY <2>7, <2>8 DEF longer
<1>. QED
  BY <1>1, <1>2

\* Every chain makes a query whose lists are on its heap.
LEMMA ChainIsGood ==
  ASSUME NEW calls \in Seq(Calls)
  PROVE  Good(Chain(calls))
<1>. DEFINE S == {n \in Nat : n <= Len(calls) => Good(Made(calls)[n])}
<1>1. 0 \in S
  <2>1. Good(Fresh)
    <3>1. Fresh = [heap |-> Fresh.heap, query |-> Fresh.query] /\ Fresh.heap = <<>> /\ Fresh.query = NewQuery
      BY DEF Fresh
    <3>2. NewQuery = [is |-> NewQuery.is, lists |-> NewQuery.lists] /\ NewQuery.lists = [l \in QueryLists |-> Nil]
      BY DEF NewQuery
    <3>3. Nil \in Slice /\ <<>> \in Heap
      BY DEF Nil, Slice, Heap
    <3>4. QueryOn(<<>>, NewQuery)
      BY <3>2, <3>3 DEF QueryOn, SliceOn
    <3>. QED
      BY <3>1, <3>3, <3>4 DEF Good
  <2>2. Made(calls)[0] = Fresh
    BY MadeStepByStep
  <2>. QED
    BY <2>1, <2>2
<1>2. ASSUME NEW n \in Nat, n \in S
      PROVE  n + 1 \in S
  <2>1. SUFFICES ASSUME n + 1 <= Len(calls) PROVE Good(Made(calls)[n + 1])
    OBVIOUS
  <2>2. Good(Made(calls)[n]) /\ n + 1 \in 1..Len(calls) /\ (n + 1) - 1 = n /\ calls[n + 1] \in Calls
    BY <1>2, <2>1
  <2>3. Made(calls)[n + 1] = Called(Made(calls)[n], calls[n + 1])
    BY <2>2, MadeStepByStep
  <2>. QED
    BY <2>2, <2>3, CalledKeeps
<1>3. Len(calls) \in S
  <2>. HIDE DEF S
  <2>. QED
    BY <1>1, <1>2, NumbersFrom0
<1>. QED
  BY <1>3, MadeStepByStep

-----------------------------------------------------------------------------
(* The queries a program holds.                                            *)

QueriesInv ==
  /\ arrays \in Heap
  /\ queries \in Seq({queries[q] : q \in DOMAIN queries}) /\ said \in Seq(Seq(Calls)) /\ Len(said) = Len(queries)
  /\ \A q \in 1..Len(queries) :
       /\ QueryOn(arrays, queries[q])
       /\ View(arrays, queries[q]) = View(Chain(said[q]).heap, Chain(said[q]).query)

LEMMA QueriesInitInv == QueriesInit => QueriesInv
<1>. SUFFICES ASSUME QueriesInit PROVE QueriesInv
  OBVIOUS
<1>1. Start \in Seq(Calls)
  BY ArgsAreWords
<1>2. Good(Chain(Start))
  BY <1>1, ChainIsGood
<1>3. arrays = Chain(Start).heap /\ queries = <<Chain(Start).query>> /\ said = <<Start>>
  BY DEF QueriesInit
<1>4. Len(queries) = 1 /\ queries[1] = Chain(Start).query /\ Len(said) = 1 /\ said[1] = Start
  BY <1>3
<1>5. queries \in Seq({queries[q] : q \in DOMAIN queries}) /\ said \in Seq(Seq(Calls))
  BY <1>1, <1>3
<1>6. arrays \in Heap /\ QueryOn(arrays, queries[1])
  BY <1>2, <1>3, <1>4 DEF Good
<1>. QED
  BY <1>3, <1>4, <1>5, <1>6 DEF QueriesInv

LEMMA QueriesNextInv ==
  ASSUME QueriesInv, QueriesNext
  PROVE  QueriesInv'
<1>1. PICK q \in DOMAIN queries, c \in Call :
         LET made == Called([heap |-> arrays, query |-> queries[q]], c)
         IN  /\ arrays' = made.heap /\ queries' = Append(queries, made.query)
             /\ said' = Append(said, Append(said[q], c))
  BY DEF QueriesNext
<1>. DEFINE s == [heap |-> arrays, query |-> queries[q]]
            made == Called(s, c)
            n == Len(queries)
<1>2. /\ arrays \in Heap /\ n \in Nat /\ q \in 1..n /\ c \in Calls /\ said[q] \in Seq(Calls)
      /\ Len(said) = n /\ said \in Seq(Seq(Calls))
  BY DEF QueriesInv, Calls
<1>3. Good(s) /\ View(arrays, queries[q]) = View(Chain(said[q]).heap, Chain(said[q]).query)
  BY <1>2 DEF QueriesInv, Good
<1>4. /\ Good(made) /\ Extended(arrays, made.heap)
      /\ View(made.heap, made.query) = AfterCall(View(arrays, queries[q]), c)
  <2>1. /\ Good(made) /\ Extended(s.heap, made.heap)
        /\ View(made.heap, made.query) = AfterCall(View(s.heap, s.query), c)
    BY <1>2, <1>3, CalledKeeps
  <2>2. s.heap = arrays /\ s.query = queries[q]
    OBVIOUS
  <2>. QED
    BY <2>1, <2>2
<1>5. arrays' = made.heap /\ queries' = Append(queries, made.query) /\ said' = Append(said, Append(said[q], c))
  BY <1>1
<1>. HIDE DEF made, s
<1>6. /\ Chain(Append(said[q], c)) = Called(Chain(said[q]), c) /\ Good(Chain(said[q]))
      /\ Append(said[q], c) \in Seq(Calls)
  BY <1>2, ChainSteps, ChainIsGood
<1>7. View(made.heap, made.query) = View(Chain(Append(said[q], c)).heap, Chain(Append(said[q], c)).query)
  BY <1>2, <1>3, <1>4, <1>6, CalledKeeps
<1>8. /\ Len(queries') = n + 1 /\ queries'[n + 1] = made.query
      /\ \A k \in 1..n : queries'[k] = queries[k]
      /\ queries' \in Seq({queries'[k] : k \in DOMAIN queries'})
  <2>. DEFINE all == {queries[k] : k \in DOMAIN queries} \union {made.query}
  <2>1. queries \in Seq(all) /\ made.query \in all
    BY DEF QueriesInv
  <2>2. /\ queries' \in Seq(all) /\ Len(queries') = n + 1 /\ queries'[n + 1] = made.query
        /\ \A k \in 1..n : queries'[k] = queries[k]
    BY <1>2, <1>5, <2>1, AppendProperties
  <2>. HIDE DEF all
  <2>3. queries' \in Seq({queries'[k] : k \in DOMAIN queries'})
    BY <2>2
  <2>. QED
    BY <2>2, <2>3
<1>9. /\ said' \in Seq(Seq(Calls)) /\ Len(said') = n + 1 /\ said'[n + 1] = Append(said[q], c)
      /\ \A k \in 1..n : said'[k] = said[k]
  BY <1>2, <1>5, <1>6, AppendProperties
<1>10. arrays' \in Heap /\ Extended(arrays, arrays')
  BY <1>4, <1>5 DEF Good
<1>11. ASSUME NEW k \in 1..n + 1
       PROVE  /\ QueryOn(arrays', queries'[k])
              /\ View(arrays', queries'[k]) = View(Chain(said'[k]).heap, Chain(said'[k]).query)
  <2>1. CASE k = n + 1
    BY <1>4, <1>5, <1>7, <1>8, <1>9, <2>1 DEF Good
  <2>2. CASE k \in 1..n
    <3>1. QueryOn(arrays, queries[k]) /\ View(arrays, queries[k]) = View(Chain(said[k]).heap, Chain(said[k]).query)
      BY <2>2 DEF QueriesInv
    <3>2. QueryOn(arrays', queries[k]) /\ View(arrays', queries[k]) = View(arrays, queries[k])
      BY <1>2, <1>10, <3>1, ExtendedKeepsQuery
    <3>. QED
      BY <1>8, <1>9, <2>2, <3>1, <3>2
  <2>. QED
    BY <1>2, <2>1, <2>2
<1>. QED
  BY <1>2, <1>8, <1>9, <1>10, <1>11 DEF QueriesInv

\* Queries that say the same have the same text.
LEMMA SameViewSameText ==
  ASSUME NEW heap1, NEW query1, NEW heap2, NEW query2, View(heap1, query1) = View(heap2, query2)
  PROVE  ToSurql(heap1, query1) = ToSurql(heap2, query2)
<1>1. query1.is = query2.is /\ ListsOf(heap1, query1) = ListsOf(heap2, query2)
  BY DEF View
<1>. QED
  BY <1>1 DEF ToSurql

\* A query's text is that of the calls that made it, however the program went on from
\* the queries it holds: for any calls, any number of queries and any room in new
\* arrays (builder.go:42-47, 121-157).
THEOREM EachQueryIsItsOwn == QueriesSpec => []QueriesStayApart
<1>1. QueriesInit => QueriesInv
  BY QueriesInitInv
<1>2. QueriesInv /\ [QueriesNext]_queryVars => QueriesInv'
  <2>1. CASE QueriesNext
    BY <2>1, QueriesNextInv
  <2>2. CASE UNCHANGED queryVars
    BY <2>2 DEF QueriesInv, queryVars
  <2>. QED
    BY <2>1, <2>2
<1>3. QueriesInv => QueriesStayApart
  <2>. SUFFICES ASSUME QueriesInv, NEW q \in DOMAIN queries
                PROVE  ToSurql(arrays, queries[q]) = TextOf(said[q])
    BY DEF QueriesStayApart
  <2>1. View(arrays, queries[q]) = View(Chain(said[q]).heap, Chain(said[q]).query)
    BY DEF QueriesInv
  <2>. QED
    BY <2>1, SameViewSameText DEF TextOf
<1>. QED
  BY <1>1, <1>2, <1>3, PTL DEF QueriesSpec

-----------------------------------------------------------------------------
(* Batches.                                                                *)

\* A set of numbers up to N has a greatest.
LEMMA Greatest ==
  ASSUME NEW N \in Nat, NEW A \in SUBSET (1..N), A # {}
  PROVE  \E n \in A : \A m \in A : m <= n
<1>. DEFINE B == {N - n : n \in A}
<1>1. B \subseteq Nat /\ B # {}
  <2>1. \A n \in A : N - n \in Nat
    OBVIOUS
  <2>2. PICK n \in A : TRUE
    OBVIOUS
  <2>3. N - n \in B
    BY <2>2
  <2>. QED
    BY <2>1, <2>3
<1>. HIDE DEF B
<1>2. PICK b \in B : \A c \in B : ~(<<c, b>> \in OpToRel(<, Nat))
  BY <1>1, NatLessThanWellFounded, WFMin
<1>3. \A c \in B : ~(c < b)
  BY <1>1, <1>2 DEF OpToRel
<1>4. PICK n \in A : b = N - n
  BY DEF B
<1>5. ASSUME NEW m \in A PROVE m <= n
  <2>1. N - m \in B
    BY DEF B
  <2>. QED
    BY <1>3, <1>4, <2>1
<1>. QED
  BY <1>5

\* What the first n requests leave, for each n: DeleteMany returns the last.
Deleted(table, ids, fates) ==
  CHOOSE g : g = [n \in 0..Len(ids) |-> IF n = 0 THEN Begun(table) ELSE DeleteNext(g[n - 1], ids[n], fates[n])]

LEMMA DeletedStepByStep ==
  ASSUME NEW table, NEW ids, Len(ids) \in Nat, NEW fates
  PROVE  LET g == Deleted(table, ids, fates)
         IN  /\ DeleteMany(table, ids, fates) = g[Len(ids)] /\ g[0] = Begun(table)
             /\ \A n \in 1..Len(ids) : g[n] = DeleteNext(g[n - 1], ids[n], fates[n])
<1>. DEFINE Upto(g, m) == g = [n \in 0..m |-> IF n = 0 THEN Begun(table) ELSE DeleteNext(g[n - 1], ids[n], fates[n])]
            S == {m \in Nat : \E g : Upto(g, m)}
<1>1. DeleteMany(table, ids, fates) = Deleted(table, ids, fates)[Len(ids)]
  BY DEF DeleteMany, Deleted
<1>2. 0 \in S
  <2>1. Upto([n \in 0..0 |-> Begun(table)], 0)
    OBVIOUS
  <2>. QED
    BY <2>1
<1>3. ASSUME NEW m \in Nat, m \in S
      PROVE  m + 1 \in S
  <2>1. PICK g : Upto(g, m)
    BY <1>3
  <2>. DEFINE h == [n \in 0..m + 1 |-> IF n = m + 1 THEN DeleteNext(g[m], ids[m + 1], fates[m + 1]) ELSE g[n]]
  <2>2. \A n \in 0..m : h[n] = g[n] /\ g[n] = IF n = 0 THEN Begun(table) ELSE DeleteNext(g[n - 1], ids[n], fates[n])
    BY <2>1
  <2>3. ASSUME NEW n \in 0..m + 1
        PROVE  h[n] = IF n = 0 THEN Begun(table) ELSE DeleteNext(h[n - 1], ids[n], fates[n])
    <3>1. CASE n = m + 1
      BY <2>2, <3>1
    <3>2. CASE n # m + 1
      <4>1. n \in 0..m /\ (n # 0 => n - 1 \in 0..m)
        BY <3>2
      <4>. HIDE DEF h
      <4>. QED
        BY <2>2, <4>1
    <3>. QED
      BY <3>1, <3>2
  <2>4. h = [n \in 0..m + 1 |-> h[n]]
    OBVIOUS
  <2>. HIDE DEF h
  <2>5. Upto(h, m + 1)
    BY <2>3, <2>4
  <2>6. m + 1 \in Nat
    OBVIOUS
  <2>. HIDE DEF Upto
  <2>. QED
    BY <2>5, <2>6
<1>4. Len(ids) \in S
  <2>. HIDE DEF S
  <2>. QED
    BY <1>2, <1>3, NumbersFrom0
<1>5. Upto(Deleted(table, ids, fates), Len(ids))
  BY <1>4 DEF Deleted
<1>. QED
  BY <1>1, <1>5

\* A table with these of its rows.
Rest(table, rest) == [exists |-> table.exists, rows |-> [i \in rest |-> table.rows[i]]]

\* The ids of the first n requests, but for those whose answer was swallowed.
Heard(ids, fates, n) == {ids[k] : k \in {m \in 1..n : fates[m] # "swallowed"}}

LEMMA HeardNext ==
  ASSUME NEW ids, NEW fates, NEW n \in Nat
  PROVE  /\ fates[n + 1] = "swallowed" => Heard(ids, fates, n + 1) = Heard(ids, fates, n)
         /\ fates[n + 1] # "swallowed" => Heard(ids, fates, n + 1) = Heard(ids, fates, n) \union {ids[n + 1]}
<1>1. 1..n + 1 = 1..n \union {n + 1}
  OBVIOUS
<1>. QED
  BY <1>1 DEF Heard

\* After n requests: the rows gone are among those asked for; with no error yet they
\* are all that were asked for, heard of and there, each in the result once; with one,
\* it was the error of a request that came to an end or not, and none after it was made.
DeletedSoFar(table, ids, fates, n, s, gone) ==
  /\ s = [ok |-> s.ok, table |-> s.table, out |-> s.out] /\ s.ok \in BOOLEAN
  /\ gone \subseteq DOMAIN table.rows /\ gone \subseteq {ids[k] : k \in 1..n}
  /\ s.table = Rest(table, DOMAIN table.rows \ gone)
  /\ s.ok => /\ gone = DOMAIN table.rows \intersect Heard(ids, fates, n)
             /\ s.out \in Seq(gone) /\ {s.out[k] : k \in 1..Len(s.out)} = gone
             /\ IsFiniteSet(gone) /\ Cardinality(gone) = Len(s.out)
  /\ ~s.ok => \E m \in 1..n : fates[m] \in {"failed", "lost"} /\ gone \subseteq {ids[k] : k \in 1..m}

LEMMA LessRows ==
  ASSUME NEW table, NEW rest, NEW id, IsTable(table), rest \subseteq DOMAIN table.rows
  PROVE  Less(Rest(table, rest), id) = Rest(table, rest \ {id})
<1>. DEFINE rows == [i \in rest |-> table.rows[i]]
            less == [i \in DOMAIN rows \ {id} |-> rows[i]]
<1>1. less = [i \in rest \ {id} |-> table.rows[i]]
  OBVIOUS
<1>2. Rest(table, rest) = [exists |-> table.exists, rows |-> rows]
  BY DEF Rest
<1>. HIDE DEF rows
<1>3. Rest(table, rest).rows = rows
  BY <1>2
<1>4. Less(Rest(table, rest), id) = [Rest(table, rest) EXCEPT !.rows = less]
  BY <1>3 DEF Less
<1>. HIDE DEF less
<1>5. Less(Rest(table, rest), id) = [exists |-> table.exists, rows |-> less]
  BY <1>2, <1>4
<1>. QED
  BY <1>1, <1>5 DEF Rest

LEMMA DeleteNextSoFar ==
  ASSUME NEW table, IsTable(table), NEW ids, NEW fates, NEW n \in Nat, NEW s, NEW gone,
         DeletedSoFar(table, ids, fates, n, s, gone)
  PROVE  \E more : DeletedSoFar(table, ids, fates, n + 1, DeleteNext(s, ids[n + 1], fates[n + 1]), more)
<1>. DEFINE id == ids[n + 1]
            fate == fates[n + 1]
            g == DeleteNext(s, id, fate)
            asked(m) == {ids[k] : k \in 1..m}
<1>1. /\ s = [ok |-> s.ok, table |-> s.table, out |-> s.out] /\ s.ok \in BOOLEAN
      /\ gone \subseteq DOMAIN table.rows /\ gone \subseteq asked(n)
      /\ s.table = Rest(table, DOMAIN table.rows \ gone)
      /\ s.table.exists = table.exists /\ DOMAIN s.table.rows = DOMAIN table.rows \ gone
  BY DEF DeletedSoFar, Rest
<1>2. /\ asked(n + 1) = asked(n) \union {id} /\ n + 1 \in 1..n + 1 /\ 1..n \subseteq 1..n + 1
      /\ table.exists \in BOOLEAN
  BY DEF IsTable
<1>3. Less(s.table, id) = Rest(table, DOMAIN table.rows \ (gone \union {id}))
  <2>1. (DOMAIN table.rows \ gone) \ {id} = DOMAIN table.rows \ (gone \union {id})
    OBVIOUS
  <2>. QED
    BY <1>1, <2>1, LessRows
<1>4. CASE ~s.ok
  <2>1. g = s
    BY <1>4 DEF DeleteNext, IsTableMissingError
  <2>2. DeletedSoFar(table, ids, fates, n + 1, s, gone)
    BY <1>1, <1>2, <1>4 DEF DeletedSoFar
  <2>. QED
    BY <2>1, <2>2
<1>5. CASE s.ok /\ fate \notin {"failed", "lost", "swallowed"} /\ ~table.exists
  <2>1. g = s
    BY <1>1, <1>5 DEF DeleteNext, IsTableMissingError
  <2>2. DOMAIN table.rows = {}
    BY <1>5 DEF IsTable
  <2>3. DeletedSoFar(table, ids, fates, n + 1, s, gone)
    BY <1>1, <1>2, <1>5, <2>2 DEF DeletedSoFar
  <2>. QED
    BY <2>1, <2>3
<1>6. CASE s.ok /\ fate = "failed"
  <2>1. g = [s EXCEPT !.ok = FALSE, !.out = <<>>]
    BY <1>1, <1>6 DEF DeleteNext, IsTableMissingError
  <2>2. g = [ok |-> FALSE, table |-> s.table, out |-> <<>>]
    BY <1>1, <2>1
  <2>3. fates[n + 1] \in {"failed", "lost"} /\ gone \subseteq asked(n + 1)
    BY <1>1, <1>2, <1>6
  <2>4. DeletedSoFar(table, ids, fates, n + 1, g, gone)
    BY <1>1, <1>2, <2>2, <2>3 DEF DeletedSoFar
  <2>. QED
    BY <2>4
<1>7. CASE s.ok /\ fate = "lost"
  <2>. DEFINE more == gone \union ({id} \intersect DOMAIN table.rows)
  <2>1. g = [s EXCEPT !.ok = FALSE, !.out = <<>>, !.table = Less(@, id)]
    BY <1>1, <1>7 DEF DeleteNext, IsTableMissingError
  <2>2. g = [ok |-> FALSE, table |-> Less(s.table, id), out |-> <<>>]
    BY <1>1, <2>1
  <2>3. DOMAIN table.rows \ (gone \union {id}) = DOMAIN table.rows \ more /\ more \subseteq asked(n + 1)
    BY <1>1, <1>2
  <2>4. fates[n + 1] \in {"failed", "lost"}
    BY <1>7
  <2>5. g.table = Rest(table, DOMAIN table.rows \ more)
    <3>1. g.table = Less(s.table, id)
      BY <2>2
    <3>. HIDE DEF g, more
    <3>. QED
      BY <1>3, <2>3, <3>1
  <2>6. DeletedSoFar(table, ids, fates, n + 1, g, more)
    BY <1>1, <1>2, <2>2, <2>3, <2>4, <2>5 DEF DeletedSoFar
  <2>. QED
    BY <2>6
<1>8. CASE s.ok /\ fate \notin {"failed", "lost", "swallowed"} /\ table.exists
  <2>. DEFINE more == gone \union ({id} \intersect DOMAIN table.rows)
              out == IF id \in DOMAIN s.table.rows THEN Append(s.out, id) ELSE s.out
  <2>1. g = [s EXCEPT !.table = Less(@, id), !.out = IF id \in DOMAIN s.table.rows THEN Append(@, id) ELSE @]
    BY <1>1, <1>8 DEF DeleteNext, IsTableMissingError
  <2>2. g = [ok |-> s.ok, table |-> Less(s.table, id), out |-> out]
    BY <1>1, <2>1
  <2>3. /\ DOMAIN table.rows \ (gone \union {id}) = DOMAIN table.rows \ more /\ more \subseteq asked(n + 1)
        /\ more \subseteq DOMAIN table.rows
    BY <1>1, <1>2
  <2>4. /\ gone = DOMAIN table.rows \intersect Heard(ids, fates, n)
        /\ s.out \in Seq(gone) /\ {s.out[k] : k \in 1..Len(s.out)} = gone
        /\ IsFiniteSet(gone) /\ Cardinality(gone) = Len(s.out)
    BY <1>8 DEF DeletedSoFar
  <2>5. more = DOMAIN table.rows \intersect Heard(ids, fates, n + 1)
    <3>1. Heard(ids, fates, n + 1) = Heard(ids, fates, n) \union {id}
      BY <1>8, HeardNext
    <3>. QED
      BY <2>4, <3>1
  <2>6. /\ out \in Seq(more) /\ {out[k] : k \in 1..Len(out)} = more
        /\ IsFiniteSet(more) /\ Cardinality(more) = Len(out)
    <3>1. CASE id \in DOMAIN s.table.rows
      <4>1. more = gone \union {id} /\ id \notin gone /\ out = Append(s.out, id)
        BY <1>1, <3>1
      <4>2. IsFiniteSet(more) /\ Cardinality(more) = Cardinality(gone) + 1
        BY <2>4, <4>1, FS_AddElement
      <4>3. s.out \in Seq(more) /\ id \in more
        BY <2>4, <4>1
      <4>. HIDE DEF out
      <4>4. /\ out \in Seq(more) /\ Len(out) = Len(s.out) + 1 /\ out[Len(s.out) + 1] = id
            /\ \A k \in 1..Len(s.out) : out[k] = s.out[k]
            /\ Len(s.out) \in Nat
        BY <4>1, <4>3
      <4>5. \A x : x \in {out[k] : k \in 1..Len(out)} <=> x \in {s.out[k] : k \in 1..Len(s.out)} \/ x = id
        <5>1. \A k \in 1..Len(out) : k \in 1..Len(s.out) \/ k = Len(s.out) + 1
          BY <4>4
        <5>2. \A k \in 1..Len(s.out) : k \in 1..Len(out)
          BY <4>4
        <5>3. Len(s.out) + 1 \in 1..Len(out)
          BY <4>4
        <5>. QED
          BY <4>4, <5>1, <5>2, <5>3
      <4>. QED
        BY <2>4, <4>1, <4>2, <4>4, <4>5
    <3>2. CASE id \notin DOMAIN s.table.rows
      <4>1. more = gone /\ out = s.out
        BY <1>1, <3>2
      <4>. QED
        BY <2>4, <4>1
    <3>. QED
      BY <3>1, <3>2
  <2>. HIDE DEF out, more, g
  <2>7. g = [ok |-> g.ok, table |-> g.table, out |-> g.out] /\ g.ok = s.ok /\ g.out = out /\ g.table = Less(s.table, id)
    BY <2>2
  <2>8. DeletedSoFar(table, ids, fates, n + 1, g, more)
    <3>1. g.table = Rest(table, DOMAIN table.rows \ more)
      BY <1>3, <2>3, <2>7
    <3>2. /\ more \subseteq {ids[k] : k \in 1..n + 1} /\ more \subseteq DOMAIN table.rows
          /\ more = DOMAIN table.rows \intersect Heard(ids, fates, n + 1)
      BY <2>3, <2>5
    <3>3. /\ g.out \in Seq(more) /\ {g.out[k] : k \in 1..Len(g.out)} = more
          /\ IsFiniteSet(more) /\ Cardinality(more) = Len(g.out)
      BY <2>6, <2>7
    <3>4. g = [ok |-> g.ok, table |-> g.table, out |-> g.out] /\ g.ok
      BY <1>8, <2>7
    <3>. HIDE DEF asked, id, fate
    <3>. QED
      BY ONLY <3>1, <3>2, <3>3, <3>4 DEF DeletedSoFar
  <2>. USE DEF g
  <2>. QED
    BY <2>8
<1>9. CASE s.ok /\ fate = "swallowed"
  <2>1. g = s
    BY <1>9 DEF DeleteNext, IsTableMissingError
  <2>2. Heard(ids, fates, n + 1) = Heard(ids, fates, n)
    BY <1>9, HeardNext
  <2>3. DeletedSoFar(table, ids, fates, n + 1, s, gone)
    BY <1>1, <1>2, <1>9, <2>2 DEF DeletedSoFar
  <2>. QED
    BY <2>1, <2>3
<1>. QED
  BY <1>1, <1>2, <1>4, <1>5, <1>6, <1>7, <1>8, <1>9

\* What DeleteMany returns.
LEMMA DeleteManySoFar ==
  ASSUME NEW table, IsTable(table), NEW ids, IsList(ids), NEW fates
  PROVE  \E gone : DeletedSoFar(table, ids, fates, Len(ids), DeleteMany(table, ids, fates), gone)
<1>. DEFINE s == Deleted(table, ids, fates)
            S == {n \in Nat : n <= Len(ids) => \E gone : DeletedSoFar(table, ids, fates, n, s[n], gone)}
<1>1. /\ Len(ids) \in Nat /\ DeleteMany(table, ids, fates) = s[Len(ids)] /\ s[0] = Begun(table)
      /\ \A n \in 1..Len(ids) : s[n] = DeleteNext(s[n - 1], ids[n], fates[n])
  BY DeletedStepByStep DEF IsList
<1>. HIDE DEF s
<1>2. 0 \in S
  <2>1. Rest(table, DOMAIN table.rows \ {}) = table
    BY DEF Rest, IsTable, IsMap
  <2>2. IsFiniteSet({}) /\ Cardinality({}) = 0 /\ 1..0 = {} /\ Heard(ids, fates, 0) = {}
    BY FS_EmptySet DEF Heard
  <2>3. DeletedSoFar(table, ids, fates, 0, Begun(table), {})
    BY <2>1, <2>2 DEF DeletedSoFar, Begun
  <2>. QED
    BY <1>1, <2>3
<1>3. ASSUME NEW n \in Nat, n \in S
      PROVE  n + 1 \in S
  <2>1. SUFFICES ASSUME n + 1 <= Len(ids) PROVE \E gone : DeletedSoFar(table, ids, fates, n + 1, s[n + 1], gone)
    OBVIOUS
  <2>2. PICK gone : DeletedSoFar(table, ids, fates, n, s[n], gone)
    BY <1>1, <1>3, <2>1
  <2>3. n + 1 \in 1..Len(ids) /\ (n + 1) - 1 = n
    BY <1>1, <2>1
  <2>4. s[n + 1] = DeleteNext(s[n], ids[n + 1], fates[n + 1])
    BY <1>1, <2>3
  <2>. QED
    BY <2>2, <2>4, DeleteNextSoFar
<1>4. Len(ids) \in S
  <2>. HIDE DEF S
  <2>. QED
    BY <1>1, <1>2, <1>3, NumbersFrom0
<1>. QED
  BY <1>1, <1>4

\* The two halves of BatchTellsTruth, of any input.
DeleteTellsTruth(table, ids, fates) ==
  LET done == DeleteMany(table, ids, fates)
      well == [n \in DOMAIN ids |-> "done"]
      gone == DOMAIN table.rows \ DOMAIN done.table.rows
      heard == {n \in DOMAIN ids : fates[n] # "swallowed"}
  IN  /\ done.ok => gone = DOMAIN table.rows \intersect {ids[n] : n \in heard}
                    /\ ToSet(done.out) = gone /\ Len(done.out) = Cardinality(gone)
      /\ ~done.ok => \E n \in DOMAIN ids : fates[n] \in {"failed", "lost"} /\ gone \subseteq {ids[k] : k \in 1..n}
      /\ DeleteMany(done.table, ids, well).table = DeleteMany(table, ids, well).table

LEMMA RestIsTable ==
  ASSUME NEW table, IsTable(table), NEW rest \in SUBSET DOMAIN table.rows
  PROVE  IsTable(Rest(table, rest))
<1>. DEFINE r == Rest(table, rest)
<1>1. r.exists = table.exists /\ r.rows = [i \in rest |-> table.rows[i]] /\ r = [exists |-> r.exists, rows |-> r.rows]
  BY DEF Rest
<1>. HIDE DEF r
<1>2. DOMAIN r.rows = rest /\ \A i \in rest : r.rows[i] = table.rows[i]
  BY <1>1
<1>3. IsMap(r.rows) /\ \A i \in DOMAIN r.rows : IsMap(r.rows[i])
  BY <1>1, <1>2 DEF IsTable, IsMap
<1>4. r.exists \in BOOLEAN /\ (r.exists \/ DOMAIN r.rows = {})
  BY <1>1, <1>2 DEF IsTable
<1>5. IsTable(r)
  BY <1>1, <1>3, <1>4 DEF IsTable
<1>. QED
  BY <1>5 DEF r

\* When all goes well, exactly what was asked for goes.
LEMMA DeletedWell ==
  ASSUME NEW table, IsTable(table), NEW ids, IsList(ids)
  PROVE  DeleteMany(table, ids, [n \in DOMAIN ids |-> "done"]).table = Rest(table, DOMAIN table.rows \ ToSet(ids))
<1>. DEFINE well == [n \in DOMAIN ids |-> "done"]
            s == DeleteMany(table, ids, well)
<1>1. PICK gone : DeletedSoFar(table, ids, well, Len(ids), s, gone)
  BY DeleteManySoFar
<1>2. DOMAIN ids = 1..Len(ids)
  BY DEF IsList
<1>3. \A n \in 1..Len(ids) : well[n] = "done"
  BY <1>2
<1>. HIDE DEF well, s
<1>4. s.ok
  BY <1>1, <1>3 DEF DeletedSoFar
<1>5. gone = DOMAIN table.rows \intersect ToSet(ids)
  <2>1. Heard(ids, well, Len(ids)) = ToSet(ids)
    BY <1>2, <1>3 DEF Heard, ToSet
  <2>. QED
    BY <1>1, <1>4, <2>1 DEF DeletedSoFar
<1>6. DOMAIN table.rows \ gone = DOMAIN table.rows \ ToSet(ids)
  BY <1>5
<1>7. s.table = Rest(table, DOMAIN table.rows \ ToSet(ids))
  BY <1>1, <1>6 DEF DeletedSoFar
<1>. QED
  BY <1>7 DEF s, well

LEMMA DeletesAreTrue ==
  ASSUME NEW table, IsTable(table), NEW ids, IsList(ids), NEW fates
  PROVE  DeleteTellsTruth(table, ids, fates)
<1>. DEFINE done == DeleteMany(table, ids, fates)
            well == [n \in DOMAIN ids |-> "done"]
            gone == DOMAIN table.rows \ DOMAIN done.table.rows
            heard == {n \in DOMAIN ids : fates[n] # "swallowed"}
<1>1. PICK less : DeletedSoFar(table, ids, fates, Len(ids), done, less)
  BY DeleteManySoFar
<1>2. DOMAIN ids = 1..Len(ids) /\ ToSet(ids) = {ids[k] : k \in 1..Len(ids)} /\ Len(ids) \in Nat
  BY DEF IsList, ToSet
<1>. HIDE DEF done
<1>3. /\ less \subseteq DOMAIN table.rows /\ less \subseteq ToSet(ids)
      /\ done.table = Rest(table, DOMAIN table.rows \ less)
      /\ done.ok => /\ less = DOMAIN table.rows \intersect Heard(ids, fates, Len(ids))
                    /\ done.out \in Seq(less) /\ {done.out[k] : k \in 1..Len(done.out)} = less
                    /\ Cardinality(less) = Len(done.out)
      /\ ~done.ok => \E m \in 1..Len(ids) : fates[m] \in {"failed", "lost"} /\ less \subseteq {ids[k] : k \in 1..m}
  BY <1>1, <1>2 DEF DeletedSoFar
<1>4. DOMAIN done.table.rows = DOMAIN table.rows \ less /\ gone = less
  BY <1>3 DEF Rest
<1>5. done.ok => ToSet(done.out) = less
  BY <1>3 DEF ToSet
<1>6. DeleteMany(done.table, ids, well).table = DeleteMany(table, ids, well).table
  <2>1. IsTable(done.table)
    BY <1>3, RestIsTable
  <2>2. DOMAIN done.table.rows \ ToSet(ids) = DOMAIN table.rows \ ToSet(ids)
    BY <1>3, <1>4
  <2>3. Rest(done.table, DOMAIN table.rows \ ToSet(ids)) = Rest(table, DOMAIN table.rows \ ToSet(ids))
    <3>. DEFINE rest == DOMAIN table.rows \ ToSet(ids)
    <3>1. done.table.exists = table.exists /\ done.table.rows = [i \in DOMAIN table.rows \ less |-> table.rows[i]]
      BY <1>3 DEF Rest
    <3>2. \A i \in rest : done.table.rows[i] = table.rows[i]
      BY <1>3, <3>1
    <3>. HIDE DEF rest
    <3>3. [i \in rest |-> done.table.rows[i]] = [i \in rest |-> table.rows[i]]
      BY <3>2
    <3>4. Rest(done.table, rest) = Rest(table, rest)
      BY <3>1, <3>3 DEF Rest
    <3>. QED
      BY <3>4 DEF rest
  <2>. HIDE DEF well
  <2>4. DeleteMany(table, ids, well).table = Rest(table, DOMAIN table.rows \ ToSet(ids))
    BY DeletedWell DEF well
  <2>5. DeleteMany(done.table, ids, well).table = Rest(done.table, DOMAIN done.table.rows \ ToSet(ids))
    BY <2>1, DeletedWell DEF well
  <2>. QED
    BY <2>2, <2>3, <2>4, <2>5
<1>7. {ids[n] : n \in heard} = Heard(ids, fates, Len(ids))
  BY <1>2 DEF Heard
<1>. HIDE DEF heard
<1>8. /\ done.ok => gone = DOMAIN table.rows \intersect {ids[n] : n \in heard}
                    /\ ToSet(done.out) = gone /\ Len(done.out) = Cardinality(gone)
      /\ ~done.ok => \E n \in DOMAIN ids : fates[n] \in {"failed", "lost"} /\ gone \subseteq {ids[k] : k \in 1..n}
  BY <1>2, <1>3, <1>4, <1>5, <1>7
<1>. HIDE DEF gone, well
<1>9. DeleteTellsTruth(table, ids, fates)
  BY <1>6, <1>8 DEF DeleteTellsTruth, done, gone, well, heard
<1>. QED
  BY <1>9

\* What the first n items make of the rows, for each n.
UpsertedRows(rows, items, assigned) ==
  CHOOSE g : g = [n \in 0..Len(items) |-> IF n = 0 THEN rows ELSE Upserted(g[n - 1], items[n], assigned)]
AllUpserted(rows, items, assigned) == UpsertedRows(rows, items, assigned)[Len(items)]

LEMMA UpsertedStepByStep ==
  ASSUME NEW rows, NEW items, Len(items) \in Nat, NEW assigned
  PROVE  LET g == UpsertedRows(rows, items, assigned)
         IN  g[0] = rows /\ \A n \in 1..Len(items) : g[n] = Upserted(g[n - 1], items[n], assigned)
<1>. DEFINE Upto(g, m) == g = [n \in 0..m |-> IF n = 0 THEN rows ELSE Upserted(g[n - 1], items[n], assigned)]
            S == {m \in Nat : \E g : Upto(g, m)}
<1>1. 0 \in S
  <2>1. Upto([n \in 0..0 |-> rows], 0)
    OBVIOUS
  <2>. QED
    BY <2>1
<1>2. ASSUME NEW m \in Nat, m \in S
      PROVE  m + 1 \in S
  <2>1. PICK g : Upto(g, m)
    BY <1>2
  <2>. DEFINE h == [n \in 0..m + 1 |-> IF n = m + 1 THEN Upserted(g[m], items[m + 1], assigned) ELSE g[n]]
  <2>2. \A n \in 0..m : h[n] = g[n] /\ g[n] = IF n = 0 THEN rows ELSE Upserted(g[n - 1], items[n], assigned)
    BY <2>1
  <2>3. ASSUME NEW n \in 0..m + 1
        PROVE  h[n] = IF n = 0 THEN rows ELSE Upserted(h[n - 1], items[n], assigned)
    <3>1. CASE n = m + 1
      BY <2>2, <3>1
    <3>2. CASE n # m + 1
      <4>1. n \in 0..m /\ (n # 0 => n - 1 \in 0..m)
        BY <3>2
      <4>. HIDE DEF h
      <4>. QED
        BY <2>2, <4>1
    <3>. QED
      BY <3>1, <3>2
  <2>4. h = [n \in 0..m + 1 |-> h[n]]
    OBVIOUS
  <2>. HIDE DEF h
  <2>5. Upto(h, m + 1)
    BY <2>3, <2>4
  <2>6. m + 1 \in Nat
    OBVIOUS
  <2>. HIDE DEF Upto
  <2>. QED
    BY <2>5, <2>6
<1>3. Len(items) \in S
  <2>. HIDE DEF S
  <2>. QED
    BY <1>1, <1>2, NumbersFrom0
<1>4. Upto(UpsertedRows(rows, items, assigned), Len(items))
  BY <1>3 DEF UpsertedRows
<1>. QED
  BY <1>4

\* Two rows agree on a field: both have it, with one value, or neither.
Same(g, h, f) == (f \in DOMAIN g <=> f \in DOMAIN h) /\ (f \in DOMAIN g => g[f] = h[f])

LEMMA SameEverywhere ==
  ASSUME NEW g, NEW h, IsMap(g), IsMap(h), \A f : Same(g, h, f)
  PROVE  g = h
<1>1. DOMAIN g = DOMAIN h
  BY DEF Same
<1>2. \A f \in DOMAIN g : g[f] = h[f]
  BY DEF Same
<1>3. [f \in DOMAIN g |-> g[f]] = [f \in DOMAIN h |-> h[f]]
  BY <1>1, <1>2
<1>. QED
  BY <1>3 DEF IsMap

\* One item: no other row changes; its row has the item's fields of those assigned,
\* and of the others what it had.
LEMMA UpsertedRow ==
  ASSUME NEW rows, NEW item, IsMap(item.fields), NEW assigned,
         IsMap(rows), \A i \in DOMAIN rows : IsMap(rows[i])
  PROVE  LET r == Upserted(rows, item, assigned)
         IN  /\ IsMap(r) /\ DOMAIN r = DOMAIN rows \union {item.id}
             /\ \A i \in DOMAIN r : IsMap(r[i])
             /\ \A i \in DOMAIN rows : i # item.id => r[i] = rows[i]
             /\ \A f \in assigned : Same(r[item.id], item.fields, f)
             /\ item.id \in DOMAIN rows => \A f : f \notin assigned => Same(r[item.id], rows[item.id], f)
<1>. DEFINE id == item.id
            old == rows[id]
            kept == DOMAIN old \ assigned
            taken == DOMAIN item.fields \intersect assigned
            mixed == [f \in kept \union taken |-> IF f \in taken THEN item.fields[f] ELSE old[f]]
            r == Upserted(rows, item, assigned)
<1>1. r = [i \in DOMAIN rows \union {id} |->
             IF i # id THEN rows[i] ELSE IF i \notin DOMAIN rows THEN item.fields ELSE mixed]
  BY DEF Upserted
<1>2. IsMap(mixed) /\ (\A f \in assigned : Same(mixed, item.fields, f)) /\ \A f : f \notin assigned => Same(mixed, old, f)
  <2>1. DOMAIN mixed = kept \union taken /\ IsMap(mixed)
    BY DEF IsMap
  <2>2. \A f \in DOMAIN mixed : mixed[f] = IF f \in taken THEN item.fields[f] ELSE old[f]
    BY <2>1
  <2>. HIDE DEF mixed
  <2>3. \A f \in assigned : Same(mixed, item.fields, f)
    BY <2>1, <2>2 DEF Same
  <2>4. \A f : f \notin assigned => Same(mixed, old, f)
    BY <2>1, <2>2 DEF Same
  <2>. QED
    BY <2>1, <2>3, <2>4
<1>. HIDE DEF mixed, r
<1>3. DOMAIN r = DOMAIN rows \union {id} /\ IsMap(r)
  BY <1>1 DEF IsMap
<1>4. \A i \in DOMAIN rows : i # id => r[i] = rows[i]
  BY <1>1
<1>5. r[id] = IF id \notin DOMAIN rows THEN item.fields ELSE mixed
  BY <1>1
<1>6. IsMap(r[id]) /\ (\A f \in assigned : Same(r[id], item.fields, f))
      /\ (id \in DOMAIN rows => \A f : f \notin assigned => Same(r[id], rows[id], f))
  BY <1>2, <1>5 DEF Same
<1>7. \A i \in DOMAIN r : IsMap(r[i])
  BY <1>3, <1>4, <1>6
<1>. QED
  BY <1>3, <1>4, <1>6, <1>7 DEF r

\* After n items: rows not named are as before, a row there before has of the fields
\* not assigned what it had, and each named row has of those assigned what the last
\* item that names it has.
UpsertedSoFar(rows, items, assigned, n, r) ==
  /\ IsMap(r) /\ \A i \in DOMAIN r : IsMap(r[i])
  /\ DOMAIN r = DOMAIN rows \union {items[k].id : k \in 1..n}
  /\ \A i \in DOMAIN rows : i \notin {items[k].id : k \in 1..n} => r[i] = rows[i]
  /\ \A i \in DOMAIN rows : \A f : f \notin assigned => Same(r[i], rows[i], f)
  /\ \A k \in 1..n : (\A m \in k + 1..n : items[m].id # items[k].id)
                       => \A f \in assigned : Same(r[items[k].id], items[k].fields, f)

LEMMA UpsertedNextSoFar ==
  ASSUME NEW rows, NEW items, NEW assigned, NEW n \in Nat, NEW r, UpsertedSoFar(rows, items, assigned, n, r),
         IsMap(items[n + 1].fields)
  PROVE  UpsertedSoFar(rows, items, assigned, n + 1, Upserted(r, items[n + 1], assigned))
<1>. DEFINE item == items[n + 1]
            g == Upserted(r, item, assigned)
            ids(m) == {items[k].id : k \in 1..m}
<1>1. /\ IsMap(r) /\ \A i \in DOMAIN r : IsMap(r[i])
      /\ DOMAIN r = DOMAIN rows \union ids(n)
      /\ \A i \in DOMAIN rows : i \notin ids(n) => r[i] = rows[i]
      /\ \A i \in DOMAIN rows : \A f : f \notin assigned => Same(r[i], rows[i], f)
      /\ \A k \in 1..n : (\A m \in k + 1..n : items[m].id # items[k].id)
                           => \A f \in assigned : Same(r[items[k].id], items[k].fields, f)
  BY DEF UpsertedSoFar
<1>2. /\ IsMap(g) /\ DOMAIN g = DOMAIN r \union {item.id}
      /\ \A i \in DOMAIN g : IsMap(g[i])
      /\ \A i \in DOMAIN r : i # item.id => g[i] = r[i]
      /\ \A f \in assigned : Same(g[item.id], item.fields, f)
      /\ item.id \in DOMAIN r => \A f : f \notin assigned => Same(g[item.id], r[item.id], f)
  BY <1>1, UpsertedRow
<1>3. ids(n + 1) = ids(n) \union {item.id}
  OBVIOUS
<1>4. \A k \in 1..n : items[k].id \in ids(n)
  OBVIOUS
<1>. HIDE DEF g
<1>5. DOMAIN g = DOMAIN rows \union ids(n + 1)
  BY <1>1, <1>2, <1>3
<1>6. \A i \in DOMAIN rows : i \notin ids(n + 1) => g[i] = rows[i]
  BY <1>1, <1>2, <1>3
<1>7. ASSUME NEW i \in DOMAIN rows, NEW f, f \notin assigned
      PROVE  Same(g[i], rows[i], f)
  <2>1. Same(r[i], rows[i], f) /\ i \in DOMAIN r
    BY <1>1, <1>7
  <2>2. Same(g[i], r[i], f)
    BY <1>2, <1>7, <2>1 DEF Same
  <2>. QED
    BY <2>1, <2>2 DEF Same
<1>8. ASSUME NEW k \in 1..n + 1, \A m \in k + 1..n + 1 : items[m].id # items[k].id, NEW f \in assigned
      PROVE  Same(g[items[k].id], items[k].fields, f)
  <2>1. CASE k = n + 1
    BY <1>2, <2>1
  <2>2. CASE k # n + 1
    <3>1. k \in 1..n /\ n + 1 \in k + 1..n + 1 /\ k + 1..n \subseteq k + 1..n + 1
      BY <2>2
    <3>2. items[k].id # item.id /\ items[k].id \in DOMAIN r
      BY <1>1, <1>4, <1>8, <3>1
    <3>3. Same(r[items[k].id], items[k].fields, f)
      BY <1>1, <1>8, <3>1
    <3>. QED
      BY <1>2, <3>2, <3>3
  <2>. QED
    BY <2>1, <2>2
<1>9. UpsertedSoFar(rows, items, assigned, n + 1, g)
  BY <1>2, <1>5, <1>6, <1>7, <1>8 DEF UpsertedSoFar
<1>. QED
  BY <1>9 DEF g

LEMMA AllUpsertedSoFar ==
  ASSUME NEW rows, IsMap(rows), \A i \in DOMAIN rows : IsMap(rows[i]), NEW assigned,
         NEW items, IsList(items), \A n \in DOMAIN items : IsMap(items[n].fields)
  PROVE  UpsertedSoFar(rows, items, assigned, Len(items), AllUpserted(rows, items, assigned))
<1>. DEFINE g == UpsertedRows(rows, items, assigned)
            S == {n \in Nat : n <= Len(items) => UpsertedSoFar(rows, items, assigned, n, g[n])}
<1>1. /\ Len(items) \in Nat /\ DOMAIN items = 1..Len(items)
      /\ g[0] = rows /\ \A n \in 1..Len(items) : g[n] = Upserted(g[n - 1], items[n], assigned)
  BY UpsertedStepByStep DEF IsList
<1>. HIDE DEF g
<1>2. 0 \in S
  <2>1. UpsertedSoFar(rows, items, assigned, 0, rows)
    BY DEF UpsertedSoFar, Same
  <2>. QED
    BY <1>1, <2>1
<1>3. ASSUME NEW n \in Nat, n \in S
      PROVE  n + 1 \in S
  <2>1. SUFFICES ASSUME n + 1 <= Len(items) PROVE UpsertedSoFar(rows, items, assigned, n + 1, g[n + 1])
    OBVIOUS
  <2>2. UpsertedSoFar(rows, items, assigned, n, g[n])
    BY <1>1, <1>3, <2>1
  <2>3. n + 1 \in 1..Len(items) /\ (n + 1) - 1 = n
    BY <1>1, <2>1
  <2>4. g[n + 1] = Upserted(g[n], items[n + 1], assigned) /\ IsMap(items[n + 1].fields)
    BY <1>1, <2>3
  <2>. QED
    BY <2>2, <2>4, UpsertedNextSoFar
<1>4. Len(items) \in S
  <2>. HIDE DEF S
  <2>. QED
    BY <1>1, <1>2, <1>3, NumbersFrom0
<1>. QED
  BY <1>1, <1>4 DEF AllUpserted, g

Assigned(items, conflict) == IF conflict = {} THEN CollectAssignFields(items) ELSE conflict
Repeats(table, items) ==
  \E n \in DOMAIN items : items[n].id \in DOMAIN table.rows \union {items[m].id : m \in 1..n - 1}

\* What a call returns: nothing to do, a failure that changed nothing, or all of it.
Outcome(table, items, assigned, fate, done) ==
  LET fails == fate = "failed" \/ (assigned = {} /\ Repeats(table, items))
  IN  /\ items = <<>> => done.ok /\ done.table = table
      /\ items # <<>> /\ fails => ~done.ok /\ done.table = table
      /\ items # <<>> /\ ~fails => /\ done.ok <=> fate = "done"
                                   /\ done.table = [exists |-> TRUE, rows |-> AllUpserted(table.rows, items, assigned)]

LEMMA UpsertManyIs ==
  ASSUME NEW table, NEW items, NEW conflict, NEW fate
  PROVE  Outcome(table, items, Assigned(items, conflict), fate, UpsertMany(table, items, conflict, fate))
<1>1. items = <<>> => UpsertMany(table, items, conflict, fate) = Begun(table)
  BY DEF UpsertMany
<1>2. items # <<>> /\ (fate = "failed" \/ (Assigned(items, conflict) = {} /\ Repeats(table, items)))
        => UpsertMany(table, items, conflict, fate) = [Begun(table) EXCEPT !.ok = FALSE]
  BY DEF UpsertMany, Assigned, Repeats
<1>3. items # <<>> /\ ~(fate = "failed" \/ (Assigned(items, conflict) = {} /\ Repeats(table, items)))
        => UpsertMany(table, items, conflict, fate)
             = [ok |-> fate = "done",
                table |-> [exists |-> TRUE, rows |-> AllUpserted(table.rows, items, Assigned(items, conflict))],
                out |-> IF fate = "done" THEN [n \in DOMAIN items |-> items[n].id] ELSE <<>>]
  BY DEF UpsertMany, Assigned, Repeats, AllUpserted, UpsertedRows
<1>. DEFINE done == UpsertMany(table, items, conflict, fate)
            assigned == Assigned(items, conflict)
            fails == fate = "failed" \/ (assigned = {} /\ Repeats(table, items))
<1>4. items = <<>> => done.ok /\ done.table = table
  BY <1>1 DEF Begun
<1>5. items # <<>> /\ fails => ~done.ok /\ done.table = table
  <2>. DEFINE failed == [Begun(table) EXCEPT !.ok = FALSE]
  <2>1. ~failed.ok /\ failed.table = table
    <3>1. Begun(table) = [ok |-> TRUE, table |-> table, out |-> <<>>]
      BY DEF Begun
    <3>. QED
      BY <3>1
  <2>. QED
    BY <1>2, <2>1
<1>6. items # <<>> /\ ~fails => /\ done.ok <=> fate = "done"
                               /\ done.table = [exists |-> TRUE, rows |-> AllUpserted(table.rows, items, assigned)]
  <2>1. ASSUME items # <<>>, ~fails
        PROVE  done.ok = (fate = "done")
    BY <1>3, <2>1
  <2>2. ASSUME items # <<>>, ~fails
        PROVE  done.table = [exists |-> TRUE, rows |-> AllUpserted(table.rows, items, assigned)]
    BY <1>3, <2>2
  <2>. HIDE DEF done, fails, assigned
  <2>. QED
    BY <2>1, <2>2
<1>. HIDE DEF done, assigned
<1>. QED
  BY <1>4, <1>5, <1>6 DEF done, assigned, Outcome

UpsertTellsTruth(table, items, conflict, fate) ==
  LET call(t, f) == UpsertMany(t, items, conflict, f)
      done == call(table, fate)
      once == call(table, "done")
      ids == {items[n].id : n \in DOMAIN items}
      about(i) == {n \in DOMAIN items : items[n].id = i}
      last(i) == items[CHOOSE n \in about(i) : \A m \in about(i) : m <= n].fields
      assigned == IF conflict = {} THEN CollectAssignFields(items) ELSE conflict
      taken(row) == {<<f, row[f]>> : f \in DOMAIN row \intersect assigned}
  IN  /\ \A i \in DOMAIN table.rows \ ids : done.table.rows[i] = table.rows[i]
      /\ done.ok => \A i \in ids : taken(done.table.rows[i]) = taken(last(i))
      /\ once.ok => call(done.table, "done").table = once.table

LEMMA LastItem ==
  ASSUME NEW items, IsList(items), NEW i \in {items[n].id : n \in DOMAIN items}
  PROVE  LET about == {n \in DOMAIN items : items[n].id = i}
             k == CHOOSE n \in about : \A m \in about : m <= n
         IN  /\ k \in 1..Len(items) /\ items[k].id = i
             /\ \A m \in k + 1..Len(items) : items[m].id # items[k].id
<1>. DEFINE about == {n \in DOMAIN items : items[n].id = i}
            k == CHOOSE n \in about : \A m \in about : m <= n
<1>1. DOMAIN items = 1..Len(items) /\ Len(items) \in Nat
  BY DEF IsList
<1>2. about \in SUBSET (1..Len(items)) /\ about # {}
  BY <1>1
<1>. HIDE DEF about
<1>3. \E n \in about : \A m \in about : m <= n
  BY <1>1, <1>2, Greatest
<1>4. k \in about /\ \A m \in about : m <= k
  BY <1>3
<1>. HIDE DEF k
<1>5. k \in 1..Len(items) /\ items[k].id = i
  BY <1>1, <1>4 DEF about
<1>6. ASSUME NEW m \in k + 1..Len(items), items[m].id = i PROVE FALSE
  <2>1. m \in 1..Len(items) /\ ~(m <= k)
    BY <1>1, <1>5
  <2>2. m \in about
    BY <1>1, <1>6, <2>1 DEF about
  <2>. QED
    BY <1>4, <2>1, <2>2
<1>7. k \in 1..Len(items) /\ items[k].id = i /\ \A m \in k + 1..Len(items) : items[m].id # items[k].id
  BY <1>5, <1>6
<1>. QED
  BY <1>7 DEF k, about

\* Upserting the same items again changes nothing.
LEMMA UpsertedAgain ==
  ASSUME NEW rows, IsMap(rows), \A i \in DOMAIN rows : IsMap(rows[i]), NEW assigned,
         NEW items, IsList(items), \A n \in DOMAIN items : IsMap(items[n].fields)
  PROVE  LET r == AllUpserted(rows, items, assigned) IN AllUpserted(r, items, assigned) = r
<1>. DEFINE r == AllUpserted(rows, items, assigned)
            t == AllUpserted(r, items, assigned)
            N == Len(items)
<1>1. UpsertedSoFar(rows, items, assigned, N, r)
  BY AllUpsertedSoFar
<1>. HIDE DEF r
<1>2. IsMap(r) /\ (\A i \in DOMAIN r : IsMap(r[i])) /\ DOMAIN r = DOMAIN rows \union {items[k].id : k \in 1..N}
  BY <1>1 DEF UpsertedSoFar
<1>3. UpsertedSoFar(r, items, assigned, N, t)
  BY <1>2, AllUpsertedSoFar
<1>. HIDE DEF t
<1>4. IsMap(t) /\ (\A i \in DOMAIN t : IsMap(t[i])) /\ DOMAIN t = DOMAIN r \union {items[k].id : k \in 1..N}
  BY <1>3 DEF UpsertedSoFar
<1>5. DOMAIN t = DOMAIN r
  BY <1>2, <1>4
<1>6. DOMAIN items = 1..N
  BY DEF IsList
<1>7. ASSUME NEW i \in DOMAIN r PROVE t[i] = r[i]
  <2>1. CASE i \notin {items[k].id : k \in 1..N}
    BY <1>3, <2>1 DEF UpsertedSoFar
  <2>2. CASE i \in {items[k].id : k \in 1..N}
    <3>. DEFINE about == {n \in DOMAIN items : items[n].id = i}
                place == CHOOSE n \in about : \A m \in about : m <= n
    <3>0. place \in 1..N /\ items[place].id = i /\ \A m \in place + 1..N : items[m].id # items[place].id
      <4>1. i \in {items[n].id : n \in DOMAIN items}
        BY <1>6, <2>2
      <4>. QED
        BY <4>1, LastItem
    <3>. HIDE DEF place
    <3>1. PICK k \in 1..N : items[k].id = i /\ \A m \in k + 1..N : items[m].id # items[k].id
      BY <3>0
    <3>2. \A f \in assigned : Same(r[i], items[k].fields, f)
      BY <1>1, <3>1 DEF UpsertedSoFar
    <3>3. \A f \in assigned : Same(t[i], items[k].fields, f)
      BY <1>3, <3>1 DEF UpsertedSoFar
    <3>4. \A f : f \notin assigned => Same(t[i], r[i], f)
      BY <1>3 DEF UpsertedSoFar
    <3>5. \A f : Same(t[i], r[i], f)
      BY <3>2, <3>3, <3>4 DEF Same
    <3>. QED
      BY <1>2, <1>4, <1>5, <3>5, SameEverywhere
  <2>. QED
    BY <2>1, <2>2
<1>8. t = r
  BY <1>2, <1>4, <1>5, <1>7 DEF IsMap
<1>. QED
  BY <1>8 DEF t, r

LEMMA UpsertsAreTrue ==
  ASSUME NEW table, IsTable(table), NEW items, IsList(items), \A n \in DOMAIN items : IsMap(items[n].fields),
         NEW conflict, NEW fate
  PROVE  UpsertTellsTruth(table, items, conflict, fate)
<1>. DEFINE call(t, f) == UpsertMany(t, items, conflict, f)
            done == call(table, fate)
            once == call(table, "done")
            ids == {items[n].id : n \in DOMAIN items}
            about(i) == {n \in DOMAIN items : items[n].id = i}
            place(i) == CHOOSE n \in about(i) : \A m \in about(i) : m <= n
            assigned == Assigned(items, conflict)
            taken(row) == {<<f, row[f]>> : f \in DOMAIN row \intersect assigned}
            all == AllUpserted(table.rows, items, assigned)
<1>1. DOMAIN items = 1..Len(items) /\ Len(items) \in Nat /\ ids = {items[k].id : k \in 1..Len(items)}
  BY DEF IsList
<1>2. /\ IsMap(table.rows) /\ \A i \in DOMAIN table.rows : IsMap(table.rows[i])
  BY DEF IsTable
<1>3. UpsertedSoFar(table.rows, items, assigned, Len(items), all)
  BY <1>2, AllUpsertedSoFar
<1>4. AllUpserted(all, items, assigned) = all
  BY <1>2, UpsertedAgain
<1>5. \A t, f : Outcome(t, items, assigned, f, call(t, f))
  BY UpsertManyIs
<1>. HIDE DEF call, assigned, all
<1>6. \A i \in DOMAIN table.rows \ ids : done.table.rows[i] = table.rows[i]
  <2>1. \A i \in DOMAIN table.rows \ ids : all[i] = table.rows[i]
    BY <1>1, <1>3 DEF UpsertedSoFar
  <2>2. done.table = table \/ done.table.rows = all
    <3>1. Outcome(table, items, assigned, fate, done)
      BY <1>5
    <3>. HIDE DEF done
    <3>. QED
      BY <3>1 DEF all, Outcome
  <2>. QED
    BY <2>1, <2>2
<1>7. ASSUME done.ok, NEW i \in ids
      PROVE  taken(done.table.rows[i]) = taken(items[place(i)].fields)
  <2>1. items # <<>>
    BY <1>1, <1>7
  <2>2. done.table.rows = all
    <3>1. Outcome(table, items, assigned, fate, done)
      BY <1>5
    <3>. HIDE DEF done
    <3>. QED
      BY <1>7, <2>1, <3>1 DEF all, Outcome
  <2>3. place(i) \in 1..Len(items) /\ items[place(i)].id = i
        /\ \A m \in place(i) + 1..Len(items) : items[m].id # items[place(i)].id
    BY <1>7, LastItem
  <2>. DEFINE k == place(i)
              g == all[i]
              h == items[k].fields
  <2>4. \A f \in assigned : Same(g, h, f)
    <3>. HIDE DEF place
    <3>. QED
      BY <1>3, <2>3 DEF UpsertedSoFar
  <2>. HIDE DEF g, h
  <2>5. taken(g) = taken(h)
    BY <2>4 DEF Same
  <2>. QED
    BY <2>2, <2>5 DEF g, h
<1>8. ASSUME once.ok
      PROVE  call(done.table, "done").table = once.table
  <2>1. CASE items = <<>>
    BY <1>5, <2>1 DEF Outcome
  <2>2. CASE items # <<>>
    <3>1. /\ ~(assigned = {} /\ Repeats(table, items))
          /\ once.table = [exists |-> TRUE, rows |-> all]
      BY <1>5, <1>8, <2>2 DEF all, Outcome
    <3>2. done.table = table \/ done.table = once.table
      BY <1>5, <2>2, <3>1 DEF all, Outcome
    <3>3. CASE done.table = table
      BY <3>3
    <3>4. CASE done.table = once.table
      <4>1. done.table.rows = all
        BY <3>1, <3>4
      <4>. HIDE DEF done, once
      <4>2. CASE assigned = {} /\ Repeats(done.table, items)
        BY <1>5, <2>2, <3>4, <4>2 DEF Outcome
      <4>3. CASE ~(assigned = {} /\ Repeats(done.table, items))
        <5>1. call(done.table, "done").table = [exists |-> TRUE, rows |-> AllUpserted(all, items, assigned)]
          BY <1>5, <2>2, <4>1, <4>3 DEF Outcome
        <5>. QED
          BY <1>4, <3>1, <3>4, <5>1
      <4>. QED
        BY <4>2, <4>3
    <3>. QED
      BY <3>2, <3>3, <3>4
  <2>. QED
    BY <2>1, <2>2
<1>9. UpsertTellsTruth(table, items, conflict, fate)
  BY <1>6, <1>7, <1>8 DEF UpsertTellsTruth, call, assigned, Assigned
<1>. QED
  BY <1>9

\* Whatever a batch of deletes or of upserts is asked to do, on whatever table and
\* with whatever requests failing, what it returns is the truth, it touches nothing
\* it was not asked to, and sending it again is safe (DeleteMany, UpsertMany,
\* batch.go:26-52, 142-242).
THEOREM BatchesTellTruth == Spec => []BatchTellsTruth
<1>1. Init => subject \in Subjects
  BY DEF Init
<1>2. subject \in Subjects /\ [Next]_<<subject, graphVars, snapshotVars, queryVars>> => (subject \in Subjects)'
  BY DEF Next
<1>3. subject \in Subjects => BatchTellsTruth
  <2>. SUFFICES ASSUME subject \in Subjects PROVE BatchTellsTruth
    OBVIOUS
  <2>1. ASSUME subject.kind = "delete"
        PROVE  DeleteTellsTruth(subject.table, subject.ids, subject.fates)
    BY <2>1, SubjectsAssumption, DeletesAreTrue
  <2>2. ASSUME subject.kind = "upsert"
        PROVE  UpsertTellsTruth(subject.table, subject.items, subject.conflict, subject.fate)
    BY <2>2, SubjectsAssumption, UpsertsAreTrue
  <2>. QED
    BY <2>1, <2>2 DEF BatchTellsTruth, DeleteTellsTruth, UpsertTellsTruth
<1>. QED
  BY <1>1, <1>2, <1>3, PTL DEF Spec

\* Each part that lives on runs as its own specification says, whatever the subject:
\* what is proved of the graph, the snapshots and the queries holds of the library.
THEOREM PartsRunAlone == Spec => GraphSpec /\ SnapshotsSpec /\ QueriesSpec
<1>1. Init => GraphInit /\ SnapshotsInit /\ QueriesInit
  BY DEF Init
<1>2. [Next]_<<subject, graphVars, snapshotVars, queryVars>>
        => [GraphNext]_graphVars /\ [SnapshotsNext]_snapshotVars /\ [QueriesNext]_queryVars
  BY DEF Next
<1>. QED
  BY <1>1, <1>2, PTL DEF Spec, GraphSpec, SnapshotsSpec, QueriesSpec
=============================================================================
