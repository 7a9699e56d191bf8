-------------------------------- MODULE Snapshots --------------------------------
(***************************************************************************)
(* Snapshots of the registry in files (src/pkg/surql/migration/versioning.go *)
(* and the hook a migration may call, hooks.go): CreateSnapshotOnMigration   *)
(* in several goroutines, interleaved where it reads the clock, the tables   *)
(* and the edges, and where the file is emptied and written.                 *)
(*                                                                          *)
(* A snapshot's version is the second it was taken in.  The registry is how  *)
(* many tables and how many edges have been registered.                      *)
(***************************************************************************)
EXTENDS Integers, Sequences, FiniteSets, SequencesExt

CONSTANTS Taker,      \* goroutines that take snapshots
          MaxSecond,  \* bound on the clock
          MaxTables   \* bound on the registry

Emptied == [broken |-> "empty"]
Garbled == [broken |-> "garbled"]

VARIABLES
  now,       \* the clock, in seconds
  registry,  \* [tables, edges]
  enabled,   \* EnableAutoSnapshots
  taking,    \* taker |-> [at, snapshot]
  files,     \* path |-> what the file holds
  stored,    \* history: the versions StoreSnapshot has reported as written
  spoiled,   \* history: those whose file a crash, an error or two writers at once broke
  began      \* history: what was registered when a second began
snapshotVars == <<now, registry, enabled, taking, files, stored, spoiled, began>>

Blank == [version |-> 0, tables |-> 0, edges |-> 0]
Idle == [at |-> "idle", snapshot |-> Blank]

SnapshotsInit ==
  /\ now = 1 /\ registry = [tables |-> 0, edges |-> 0] /\ enabled = FALSE
  /\ taking = [w \in Taker |-> Idle]
  /\ files = [p \in {} |-> Emptied]
  /\ stored = {} /\ spoiled = {} /\ began = [s \in {1} |-> registry]

Tick ==
  /\ now < MaxSecond
  /\ now' = now + 1
  /\ began' = [s \in 1..now' |-> IF s = now' THEN registry ELSE began[s]]
  /\ UNCHANGED <<registry, enabled, taking, files, stored, spoiled>>

\* The program registers a table, then the edge that relates to it.
Register ==
  /\ \/ registry.tables < MaxTables /\ registry' = [registry EXCEPT !.tables = @ + 1]
     \/ registry.edges < registry.tables /\ registry' = [registry EXCEPT !.edges = @ + 1]
  /\ UNCHANGED <<now, enabled, taking, files, stored, spoiled, began>>

SetAutoSnapshots ==
  /\ enabled' = ~enabled
  /\ UNCHANGED <<now, registry, taking, files, stored, spoiled, began>>

(***************************************************************************)
(* CreateSnapshotOnMigration does nothing while it is disabled; the flag is *)
(* not read again.  The clock is read before the registry, and each list of *)
(* the registry under its lock alone.                                       *)
(***************************************************************************)
Steps(w, at, snapshot) == taking' = [taking EXCEPT ![w] = [at |-> at, snapshot |-> snapshot]]
CreateSnapshotOnMigration(w) ==
  /\ taking[w].at = "idle" /\ enabled
  /\ Steps(w, "tables", [Blank EXCEPT !.version = now])
  /\ UNCHANGED <<now, registry, enabled, files, stored, spoiled, began>>
ReadTables(w) ==
  /\ taking[w].at = "tables"
  /\ Steps(w, "edges", [taking[w].snapshot EXCEPT !.tables = registry.tables])
  /\ UNCHANGED <<now, registry, enabled, files, stored, spoiled, began>>
ReadEdges(w) ==
  /\ taking[w].at = "edges"
  /\ Steps(w, "store", [taking[w].snapshot EXCEPT !.edges = registry.edges])
  /\ UNCHANGED <<now, registry, enabled, files, stored, spoiled, began>>

(***************************************************************************)
(* StoreSnapshot empties the file and then writes it: over what another     *)
(* writer has put there meanwhile the shorter text leaves a longer one's    *)
(* end.  The call may be refused a file or fail in the middle.              *)
(***************************************************************************)
\* A mutant of SnapshotPath: one file for all.
PathOfOne(version) == 1

SnapshotPath(version) == version
Holding(path, content) == [p \in DOMAIN files \union {path} |-> IF p = path THEN content ELSE files[p]]
Truncate(w) ==
  /\ taking[w].at = "store"
  /\ files' = Holding(SnapshotPath(taking[w].snapshot.version), Emptied)
  /\ Steps(w, "write", taking[w].snapshot)
  /\ UNCHANGED <<now, registry, enabled, stored, spoiled, began>>
Write(w) ==
  LET snapshot == taking[w].snapshot
      path == SnapshotPath(snapshot.version)
  IN  /\ taking[w].at = "write"
      /\ \/ files' = Holding(path, snapshot) /\ UNCHANGED spoiled
         \/ /\ files[path] # Emptied
            /\ files' = Holding(path, Garbled) /\ spoiled' = spoiled \union {snapshot.version}
      /\ stored' = stored \union {snapshot.version}
      /\ Steps(w, "idle", Blank)
      /\ UNCHANGED <<now, registry, enabled, began>>
StoreFails(w) ==
  LET snapshot == taking[w].snapshot
      path == SnapshotPath(snapshot.version)
  IN  /\ \/ taking[w].at = "store" /\ UNCHANGED <<files, spoiled>>
         \/ /\ taking[w].at = "write"
            /\ files' = Holding(path, Garbled) /\ spoiled' = spoiled \union {snapshot.version}
      /\ Steps(w, "idle", Blank)
      /\ UNCHANGED <<now, registry, enabled, stored, began>>

\* The process ends; it starts again with automatic snapshots off.
Crash ==
  /\ spoiled' = spoiled \union {taking[w].snapshot.version : w \in {x \in Taker : taking[x].at = "write"}}
  /\ taking' = [w \in Taker |-> Idle]
  /\ enabled' = FALSE
  /\ UNCHANGED <<now, registry, files, stored, began>>

SnapshotsNext ==
  \/ Tick \/ Register \/ SetAutoSnapshots \/ Crash
  \/ \E w \in Taker : \/ CreateSnapshotOnMigration(w) \/ ReadTables(w) \/ ReadEdges(w)
                      \/ Truncate(w) \/ Write(w) \/ StoreFails(w)
SnapshotsSpec == SnapshotsInit /\ [][SnapshotsNext]_snapshotVars

(***************************************************************************)
(* Reading: a file that does not decode fails LoadSnapshot, and with it     *)
(* ListSnapshots of the whole directory.                                    *)
(***************************************************************************)
Loads(path) == path \in DOMAIN files /\ files[path] \notin {Emptied, Garbled}
Lists == \A p \in DOMAIN files : Loads(p)
\* Oldest first: each file at the place its rank gives it.
ListSnapshots ==
  LET rank(p) == Cardinality({q \in DOMAIN files : files[q].version <= files[p].version})
  IN  [n \in 1..Cardinality(DOMAIN files) |-> files[CHOOSE p \in DOMAIN files : rank(p) = n]]

\* A directory nothing has spoiled and nobody is writing lists one snapshot for
\* every version reported as stored, oldest first, and each holds everything
\* registered before its second began and nothing that never was: also when
\* snapshots of one second replace each other (versioning.go:36-181, hooks.go:374).
SnapshotsStand ==
  spoiled = {} /\ (\A w \in Taker : taking[w].at # "write") =>
    /\ Lists
    /\ {ListSnapshots[n].version : n \in DOMAIN ListSnapshots} = stored
    /\ \A n \in DOMAIN ListSnapshots :
         LET s == ListSnapshots[n]
         IN  /\ n > 1 => ListSnapshots[n - 1].version < s.version
             /\ began[s.version].tables <= s.tables /\ s.tables <= registry.tables
             /\ began[s.version].edges <= s.edges /\ s.edges <= registry.edges
=============================================================================
