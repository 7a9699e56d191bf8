--------------------------- MODULE SchemaEvolution ---------------------------
(***************************************************************************)
(* A database kept in step with a schema written in code: a migration is    *)
(* generated from the difference between the snapshot taken last and the    *)
(* registry, migrated up, perhaps rolled back, over and over                *)
(* (src/pkg/surql/migration/versioning.go, diff.go, generator.go).          *)
(* What the executor does with a file is the subject of MigrationExecutor;  *)
(* here a file runs in one transaction.                                     *)
(***************************************************************************)
EXTENDS SchemaDiff

CONSTANT Snapshot   \* the schemas a developer writes, each name a table or an edge for good

VARIABLES
  code,     \* the registry
  at,       \* the snapshot the database was migrated to
  db,       \* what is defined in the database
  file,     \* the migration generated last
  phase,    \* "edit" | "generated" | "migrated"
  before,   \* db as the migration found it
  hollow    \* history: tables a rollback had to bring back from a drop

evolutionVars == <<code, at, db, file, phase, before, hollow>>

EmptySnapshot == [tables |-> Nothing, edges |-> Nothing, buckets |-> Nothing]
EmptyDatabase == [tables |-> Nothing, buckets |-> Nothing]
NoFile == [up |-> <<>>, down |-> <<>>, from |-> EmptySnapshot, to |-> EmptySnapshot]
Names(s) == DOMAIN s.tables \union DOMAIN s.edges
Of(s, t) == IF t \in DOMAIN s.tables THEN s.tables[t] ELSE s.edges[t]

\* Names are numbers, of which a schema uses finitely many; a table has five parts,
\* a bucket four attributes.
Named(f) == f = [n \in DOMAIN f |-> f[n]] /\ DOMAIN f \subseteq Nat /\ IsFiniteSet(DOMAIN f)
IsTable(def) ==
  /\ def = [fields |-> def.fields, indexes |-> def.indexes, events |-> def.events,
            mode |-> def.mode, permissions |-> def.permissions]
  /\ \A part \in {"fields", "indexes", "events", "permissions"} : Named(def[part])
IsBucket(def) ==
  def = [a \in {"permissions", "backend", "readonly", "comment"} |-> def[a]]

ASSUME SnapshotAssumption ==
  /\ \A s, r \in Snapshot : DOMAIN s.tables \intersect DOMAIN r.edges = {}
  /\ \A s \in Snapshot :
       /\ Named(s.tables) /\ Named(s.edges) /\ Named(s.buckets)
       /\ \A t \in Names(s) : IsTable(Of(s, t))
       /\ \A b \in DOMAIN s.buckets : IsBucket(s.buckets[b])

EvolutionInit ==
  /\ code = EmptySnapshot /\ at = EmptySnapshot /\ db = EmptyDatabase
  /\ file = NoFile /\ phase = "edit" /\ before = EmptyDatabase /\ hollow = {}

\* The developer registers other definitions.
Edit(s) ==
  /\ phase = "edit"
  /\ code' = s
  /\ UNCHANGED <<at, db, file, phase, before, hollow>>

\* CompareSnapshots and GenerateMigrationFromDiffs; an error or an empty diff
\* writes nothing.
Generate ==
  LET diffs == DiffSchemas(code, at) IN
  /\ phase = "edit"
  /\ Valid(diffs)
  /\ Up(diffs) # <<>> \/ Down(diffs) # <<>>
  /\ file' = [up |-> Up(diffs), down |-> Down(diffs), from |-> at, to |-> code]
  /\ phase' = "generated"
  /\ UNCHANGED <<code, at, db, before, hollow>>

\* migrate up, and the snapshot taken after it.
MigrateUp ==
  /\ phase = "generated"
  /\ RunAll(file.up, db) # Failed
  /\ db' = RunAll(file.up, db)
  /\ at' = file.to
  /\ before' = db
  /\ hollow' = hollow \intersect Names(file.to)
  /\ phase' = "migrated"
  /\ UNCHANGED <<code, file>>

\* A failed migration leaves the database as it was; the file is thrown away.
Discard ==
  /\ phase = "generated"
  /\ RunAll(file.up, db) = Failed
  /\ file' = NoFile
  /\ phase' = "edit"
  /\ UNCHANGED <<code, at, db, before, hollow>>

RollBack ==
  /\ phase = "migrated"
  /\ RunAll(file.down, db) # Failed
  /\ db' = RunAll(file.down, db)
  /\ at' = file.from
  /\ hollow' = hollow \union (Names(file.from) \ Names(file.to))
  /\ phase' = "edit"
  /\ file' = NoFile /\ before' = EmptyDatabase
  /\ UNCHANGED code

\* The migration stays.
Proceed ==
  /\ phase = "migrated"
  /\ phase' = "edit"
  /\ file' = NoFile /\ before' = EmptyDatabase
  /\ UNCHANGED <<code, at, db, hollow>>

EvolutionNext ==
  \/ \E s \in Snapshot : Edit(s)
  \/ Generate \/ MigrateUp \/ Discard \/ RollBack \/ Proceed

EvolutionSpec == EvolutionInit /\ [][EvolutionNext]_evolutionVars

(***************************************************************************)
(* schema check (src/internal/cli/schema.go)                                *)
(***************************************************************************)

\* The registry as the command passes it on, without the buckets.
CheckedSnapshot == [code EXCEPT !.buckets = Nothing]

\* The database as read back: permissions are not parsed, ParseEdgeInfo takes
\* every table for an edge as well, and an edge stays among the tables.
LiveSnapshot ==
  LET tables == [t \in DOMAIN db.tables |-> [db.tables[t] EXCEPT !.permissions = Nothing]]
  IN  [tables |-> tables, edges |-> tables, buckets |-> db.buckets]

(***************************************************************************)
(* Properties                                                               *)
(***************************************************************************)
TypeOK ==
  /\ {code, at, file.from, file.to} \subseteq Snapshot \union {EmptySnapshot}
  /\ DOMAIN db = {"tables", "buckets"} /\ DOMAIN before = {"tables", "buckets"}
  /\ phase \in {"edit", "generated", "migrated"}
  /\ phase = "edit" => file = NoFile
  /\ phase # "migrated" => before = EmptyDatabase
  /\ hollow \subseteq UNION {Names(s) : s \in Snapshot}

\* What a diff promises of one table: its fields as defined, of the indexes
\* and events the names, the permissions wanted in place.
Follows(t) ==
  LET is == db.tables[t]  want == Of(at, t) IN
  /\ is.fields = want.fields
  /\ DOMAIN is.indexes = DOMAIN want.indexes
  /\ DOMAIN is.events = DOMAIN want.events
  /\ t \in DOMAIN at.tables => \A o \in DOMAIN want.permissions :
       o \in DOMAIN is.permissions /\ is.permissions[o] = want.permissions[o]

\* Whatever was generated, migrated and rolled back before, the database has
\* the tables and buckets of the snapshot it was migrated to and what diffs
\* promise of each, except where a rollback had to bring a dropped table back
\* (DiffSchemas, GenerateMigrationFromDiffs); and no definition the generators
\* refuse, however it came into the registry (validateDefaultValue,
\* validateEventExpression, the dimension of a vector index).
DatabaseFollows ==
  /\ DOMAIN db.tables \ hollow = Names(at) \ hollow
  /\ \A t \in Names(at) \ hollow : Follows(t)
  /\ DOMAIN db.buckets = DOMAIN at.buckets
  /\ \A b \in DOMAIN at.buckets : \A a \in DOMAIN at.buckets[b] :
       db.buckets[b][a] = at.buckets[b][a] \/ (a = "permissions" /\ at.buckets[b][a] = NoText)
  /\ \A t \in DOMAIN db.tables : \A part \in {"fields", "indexes", "events"} :
       \A n \in DOMAIN db.tables[t][part] : db.tables[t][part][n] \notin Refused

Unbroken(stmts) == \A i \in DOMAIN stmts : stmts[i].do # "fragment"

\* A generated migration runs: each statement finds what it is about, in the
\* order of the file, up and down, unless a semicolon in a definition broke a
\* statement or a table it works on came back hollow.
PlanRuns ==
  /\ phase = "generated" /\ hollow = {} /\ Unbroken(file.up) => RunAll(file.up, db) # Failed
  /\ phase = "migrated" /\ hollow = {} /\ Unbroken(file.down) => RunAll(file.down, db) # Failed

\* The database is what the snapshot says, to the last definition.
Exactly(s, d) ==
  /\ d.tables = [t \in Names(s) |-> Of(s, t)]
  /\ d.buckets = s.buckets

\* The migration can be undone: it drops no table, and adds no permission
\* where there was none.
Undoable(from, to) ==
  /\ Names(from) \subseteq Names(to)
  /\ \A t \in Names(from) : DOMAIN Of(to, t).permissions \subseteq DOMAIN Of(from, t).permissions
  /\ \A b \in DOMAIN from.buckets \intersect DOMAIN to.buckets :
       from.buckets[b].permissions = NoText => to.buckets[b].permissions = NoText

\* Rolling back a migration that can be undone restores a database that was as
\* its snapshot says exactly (the backward statements, in reverse).
DownIsInverse ==
  [][phase = "migrated" /\ RunAll(file.down, db) = db' /\ phase' = "edit" /\ at' = file.from
       /\ Exactly(file.from, before) /\ Undoable(file.from, file.to)
     => db' = before]_evolutionVars

\* "Edges are returned via ParseEdgeInfo when the table is an edge" (the comment in
\* liveSnapshot, cli/schema.go:479), and schema check "fails on drift" (docs/cli.md):
\* where the registry has nothing but plain tables without permissions, and the
\* database is exactly as it says, there is no edge to drop and no drift.
CheckFindsNoDrift ==
  /\ phase = "edit" /\ Names(code) # {} /\ Exactly(code, db)
  /\ code.edges = Nothing /\ code.buckets = Nothing
  /\ \A t \in DOMAIN code.tables : code.tables[t].permissions = Nothing
  => DiffSchemas(CheckedSnapshot, LiveSnapshot) = <<>>
=============================================================================
