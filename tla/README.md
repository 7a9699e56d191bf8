# surql-go: models, checks and proofs

surql-go is a code-first toolkit for SurrealDB: schema definitions in Go,
migrations with a history table, deployment of migrations over several
environments, a query builder, a client with transactions, live queries and
sessions, and a query cache.  This directory holds TLA+ modules for the parts
of it whose behaviour is hard to test, TLC configurations that check them on
small instances, and proofs checked by TLAPS for all instances.  Paths below
are relative to `src/pkg/surql` unless they start with `src/`.

Check a model with `tlc -workers 2 -config MCRollout.cfg MCRollout`, a proof
with `tlapm <module>_proofs.tla`.

## 1. The system

| Component | State it keeps | Operations | What is hard |
|---|---|---|---|
| Migration executor and history (`migration/executor.go`, `history.go`) | the `_migration_history` table, the schema, one transaction per migration | MigrateUp, MigrateDown, ExecuteMigrationPlan, RecordMigration, RemoveMigrationRecord | the record is written after the commit and outside it; lost answers; two operators; LIFO order over any sequence of commands |
| Rollback planner (`migration/rollback.go`) | none | CreateRollbackPlan, ExecuteRollback, PlanRollbackToVersion | a plan computed from two sources, the directory and the history, that may disagree |
| migrate command (`src/internal/cli/migrate.go`) | none | up, down, rollback, status, history, create, squash | `--target` and `--steps` combined |
| Deployment coordinator (`orchestration/*.go`) | the environment registry; the results of one call | DeployToEnvironments with four strategies, health gate, auto-rollback | goroutines under a semaphore, batches that gate one another, failures in the middle, cancellation |
| Client, transaction, session, authentication (`connection/client.go`, `transaction.go`, `session.go`, `auth*.go`) | the connection, its token, the state of a transaction | Connect, Disconnect, Signin, Begin, Commit, Rollback, Attach, Detach | state checked under a lock and used after it; retries with backoff |
| Connection registry (`connection/registry.go`, `context.go`) | named clients, the default name | Register, Unregister, SetDefault, Clear | dialling outside the lock |
| Live queries (`connection/streaming*.go`) | the live queries of a client | Spawn, Kill, DrainAll | a spawn in flight during a drain; a KILL that fails |
| Cache (`cache/*.go`) | an LRU list with a map, the keys tracked for each table, counters, the global manager | Get, Set, Delete, InvalidateTable, Clear, Cached | a value fetched before an invalidation and stored after it; tracking and storing in two critical sections |
| Migration watcher (`migration/watcher.go`) | a bounded channel of events, a batch, a debounce timer, a bounded report buffer | Start, Stop, events | dropping the oldest event, stale ticks, stopping a loop that is blocked |
| Squash (`migration/squash.go`) | none | optimizeStatements | removing statements by key without looking at what is between them |
| Schema diff and hooks (`migration/diff.go`, `hooks.go`) | none | DiffSchemas, DiffTables, DiffFields, ... | completeness: every difference must yield statements that remove it, and backwards |
| Version graph and snapshots (`migration/versioning.go`) | a forest of versions and its root; a directory of snapshot files | Add, Remove, Path, Ancestors, Descendants; create, list, load | removing the root; files named by the second and written in place |
| Discovery and generation (`migration/discovery.go`, `generator.go`) | the migrations directory | parse sections, split statements, write files | splitting inside quotes and braces |
| Schema registry, definitions, SQL (`schema/*.go`) | registered tables and edges | builders, registration, rendering | definitions shared by value |
| Schema parser and validator (`schema/parser.go`, `validator*.go`) | none | parse INFO output, compare with the code | what survives the round trip code, database, INFO, parser |
| Query builder and execution (`query/*.go`) | a query value, copied by every call | builder methods, CRUD, batches, graph traversal | branches of one query sharing a slice; batches that fail in the middle |
| Settings (`settings/*.go`) | cached settings | Load from environment, file and defaults | precedence, reload |
| Types, errors, visualisation, other commands | none | formatting | nothing concurrent or stateful |

Interactions.  The command line builds a connection from the settings, hands it
to the executor or the coordinator, and prints their results.  The coordinator
runs the executor on every environment through a connection of its own per
goroutine.  The executor runs statements through a transaction of the client
and writes the history through the client itself.  The cache manager calls its
backend (memory or Redis) outside its own lock.  The watcher runs a goroutine
that the caller stops; live queries and sessions hang on a client.

## 2. The modules

| Module | Models | Extends or instantiates |
|---|---|---|
| `MigrationExecutor` | executor, history, rollback planner and the migrate commands; any number of processes against one database | |
| `MigrationLedger` | what the history promises one operator: versions are applied in order and reverted in reverse | |
| `MigrationExecutor_proofs` | proofs for any number of runners, then for one operator, with the refinement of the ledger | `MigrationExecutor` (and through it `MigrationLedger`) |
| `Rollout` | the coordinator, its strategies, the databases of the environments | |
| `Rollout_proofs` | proofs for any environments, strategies and databases | `Rollout` |
| `CacheBackend` | what `cache/backend.go` promises of any backend | |
| `MemoryCache` | the LRU cache of `cache/memory.go` | instantiates `CacheBackend` (refinement) |
| `MemoryCache_proofs` | proofs for any keys and capacity, the refinement included | `MemoryCache` |
| `CacheManager` | manager and `Cached` over any backend, concurrent clients | instantiates `CacheBackend` (as the backend's actions) |
| `CacheManager_proofs` | proofs for any number of clients, keys and tables | `CacheManager` |
| `Connections` | registry and clients: names, connections, tokens; any number of goroutines | |
| `Connections_proofs` | proofs for any number of goroutines, names and clients | `Connections` |
| `SchemaDiff` | the diff engine: what it finds between two schemas, the statements it writes and what they do to a database | |
| `SchemaEvolution` | registry, snapshots, generated migrations run up and down, `schema check` | `SchemaDiff` |
| `Watcher` | the migration file watcher: its two loops, its channels, its timer, the file system | |
| `Development_proofs` | proofs for any files and channel sizes, and for any schemas | `Watcher`, `SchemaEvolution` |
| `Handles` | live queries with their manager, sessions and transactions of one client, used by several goroutines | |
| `Handles_proofs` | proofs for any goroutines, connections and handles | `Handles` |
| `SchemaText` | the text of definitions, and the parser that reads the database's answer | |
| `SchemaValidator` | ValidateSchema, CompareSchemas, a script run on a database | `SchemaText` |
| `VersionGraph` | the forest of schema versions | |
| `Snapshots` | snapshot files, written and read by several goroutines | |
| `Squash` | squashing migrations, and what statements do to a database | |
| `Queries` | the query builder over Go slices | |
| `Records` | pages, counts and batches | `Queries` |
| `Library` | the parts that no command drives, composed; their properties | the eight above from `SchemaText` on |
| `Library_proofs` | proofs for any versions, any goroutines that take snapshots, any calls on queries and any batches | `Library` |
| `MC...` | instances for TLC | the module they name |

### MigrationExecutor

A `Runner` is an operating-system process that runs one command after another.
`files` is the migrations directory, `history` the `_migration_history` table
(version to `applied_at`, 0 for no record), `schema[v]` the statements of
version v that are in effect.  A command is started by `MigrateUp`,
`CliMigrateUp`, `MigrateDown` or `PlanRollback`, each of which reads directory
and history once (`disk`, `seen`) and leaves the set of versions to run in
`todo`, as the code keeps its slice.  `IsNext` is the order of the loop.
`ExecuteMigration` is split at its RPCs: `Begin`, `Execute`, `Commit` or
`Rollback`, then `Record`; each has a variant in which the RPC fails, and those
whose answer may be lost have both outcomes.  `Crash` may come at any point.
`schema` is data reduced to which statements of a version are in effect: a
statement fails when its effect is there already, unless the migration is in
`Rerunnable` (`IF NOT EXISTS`, `OVERWRITE`).

Versions are integers because the code only compares the version strings;
timestamps are ticks of one clock, as one machine stamps `applied_at`.

### Rollout

One call of `DeployToEnvironments`: `Resolve` (unknown names), `VerifyHealth` with one
`Probe` per environment, then the strategy.  All four strategies are batches of positions
of the environment list: sequential has batches of one, parallel one batch, rolling
batches of `BatchSize`, canary two.  `Acquire` takes the semaphore of the parallel
strategy; the actions of `Worker` are those of `executeOnEnvironment`, one for each
migration, on a database that may already hold some of them, or what an earlier rollback
left of them (`Left`).  `EndBatch` is `wg.Wait` and the look at the results,
`StopBetweenBatches` the check of the context.  `RevertEnvironment` and `RevertMigration`
are the auto-rollback.  A migration whose file has no down section is not in `Reversible`:
its rollback removes the record and leaves the schema, and a later deployment then meets
what is there (`Apply` if the statements bear it, `ApplyFails` if not).  A migration run
inside this module is one step (commit and record together, or one of the failures
`MigrationExecutor` allows): the steps inside it are that module's subject.

### CacheBackend, MemoryCache, CacheManager

`CacheBackend` keeps, for each key, an entry with its expiry; an expired entry
may vanish at any time and a Set may push out others.  `MemoryCache` holds the
mutex for a whole operation, so each is one action; `order` is the
`container/list` with the key used last in front, `touched` a history variable
that orders keys by their last use and never by what the list does, which is
what lets `EvictsLeastRecent` judge the list.

`CacheManager` splits a call where the code leaves a critical section: Set stores
in the backend and then records the key under its tables (`track`), Delete
removes and then unrecords (`untrack`), InvalidateTable takes the table's keys
and then deletes them one backend call at a time (`sweep`), Cached reads, perhaps
discards a value of the wrong type, fetches and stores.  Between two of these any
other client may run.  Backend calls may fail, before or after their effect.  Two
history variables: `declared[k]` is the set of tables the entry of k was stored
for, `lost` the pairs whose record a Delete, a Clear or a failed call has given
up while the entry was there.  A decoded value of the wrong type is the action
`CachedMismatch`, possible for any entry.

### Connections

The registry (`connections`, `defaultName`; `configs` has the same domain and is
left out) and the clients (`db`, `token`; `connected` changes together with `db`
and is left out).  A goroutine's locals are the record `call[c]`, its place `pc[c]`.
Every critical section of a client or of the registry is one action: `Detach` is
that of Disconnect, `Close` the RPC after it, `Dial` and `Install` the two halves
of Connect, `Insert` and `InsertTaken` the end of Register.  A sign-in reads the
connection (`Authenticate`), and stores its token in a second critical section
(`StoreToken`); `token[k]` is the connection that the token authenticates.  The
lock `holder` exists because Register closes a duplicate's connection while it
holds the registry's lock.  DialFails stands for every way an attempt ends without
a connection, a cancelled context and an unsupported scheme included.  A
connection or client that nobody refers to any more may be made anew, so runs go
on for ever.  History variables: `severed` (connections replaced by a second
Connect of the same client), `stuck` (Close failed), `late` (token stored after
its connection had been left).

### SchemaDiff, SchemaEvolution

`SchemaDiff` translates `DiffSchemas` and everything under it into operators: a
schema is a record of tables, edges and buckets, a table a record of fields,
indexes, events, mode and permissions, and a diff a record with its forward and
its backward statements.  The definition of a field, an index or an event is
one opaque value; what the generators look at in it is a set it may belong to:
`Refused` (validation rejects it), `Backfilled` (a default, so an UPDATE fills
the existing rows), `Semicolon` (its text holds one, and the migration file's
reader cuts the statement there).  Names are numbers, and the name order stands
for the order of declaration.  What a statement does to a database is external,
taken as the code uses it: REMOVE and ALTER need their target, a fragment of a
statement is refused, and DEFINE replaces.  The last is an assumption: the diff of a
changed field is a plain DEFINE (`migration/diff.go:761-782`).  On a server that refuses
to define what is there that statement fails, and with it the migration, as
`MigrationExecutor` and `Rollout` let it; what is said here is said of migrations
that run.

`SchemaEvolution` is the developer's loop: `Edit` the registry, `Generate` from
the snapshot taken last, `MigrateUp` and take the next snapshot (or `Discard` a
migration that failed), then `RollBack` or `Proceed`.  `SnapshotAssumption` gives the
shape of a schema (finitely many names, five parts of a table, four attributes of a
bucket) and keeps a name a table or an edge for good; section 5 says what happens
otherwise.
The history variable `hollow` holds the tables that a rollback had to bring back
from a drop: their fields are not defined again.  `CheckedSnapshot` and
`LiveSnapshot` are the two sides of `schema check`, the second as the parser
reads the database back.  The history table and the parsing of definitions are
left out.

### Watcher

fsnotify's queue (`raw`) is external; `disk[p]` counts the changes of a file and an event
carries the count, so that `seen`, `taken` and `checked` say which change has come how
far.  `EventLoop` moves an event from the queue into the bounded channel, dropping the
oldest when it is full, as two steps with the loop's hand (`held`) between them.  The
dispatch loop is one action per case of its select (`Take`, `Tick`, `Halt`) and of the
send of a report (`Send`, `GiveUp`); the timer is `none`, `armed` or `fired`, and a tick
that has fired waits until it is received or drained.  `Repeat` is another event for what
is on disk already, as editors and the file system send them, as often as they like.
`Start` adds root and subdirectories one by one, `Stop` closes in two steps, a context may
be cancelled at any time.

### Handles

One client that may be left and connected anew at any time, and what hangs on its
connection: live queries, sessions and interactive transactions.  `server[h]` is what
the database has of a handle, `local[h]` what the program believes, `lock[h]` who holds
its mutex over an RPC: a live query over its KILL, a transaction over COMMIT and
CANCEL, a session over nothing.  Each method is split at its RPCs, any two of them
overlap, and RPCs fail or lose their answer.  A KILL goes to the connection the client
has at that time, so a live query of an earlier connection cannot be killed: the
history `given` records it.  A session that signs in while it is detached keeps a token
(`late`).  A handle is forgotten when its connection is gone, so runs go on for ever.

### Library

The rest is mostly functions.  A behaviour of `Library` is about one `subject`: an
input of one call, for which a property must hold, or the word that the graph, the
snapshots or the queries are acting.

- `SchemaText`: a statement is a sequence of words.  `FieldToSurql` and its like write
  a definition, `ParseField` and its like find the clauses in what the database
  answers, in any order of a field's clauses (`Restated`).  What a word looks like to
  the parser's regular expressions is the constant `Looks`: a field named `type`, one
  that ends in it, an index with `unique` inside.
- `SchemaValidator`: `Run` plays a script on a database, which keeps the text of every
  definition (idealised: it stores what it was given).  `CompareSchemas` is the drift
  report, `ValidateSchema` the errors and warnings.
- `VersionGraph`: `nodes` with parent and children and the `root`; Add and Remove are
  actions, the walks are queues folded over a bounded number of rounds.
- `Snapshots`: a snapshot reads the registry list by list, takes its name from a clock
  of seconds and writes its file in two steps, at which the process may die.
- `Squash`: the three passes of `optimizeStatements`; a statement may carry IF NOT
  EXISTS, IF EXISTS or OVERWRITE, and `Key` is what the patterns make of it.  `Plays`
  runs statements on a database in which a plain DEFINE of what is there and a plain
  REMOVE of what is not fail; with an IF they leave it, OVERWRITE replaces, and an
  UPDATE marks what it filled.
- `Queries`: a heap of arrays; a slice is an array and a length.  `AppendTo` writes in
  place where there is room (`Room` is the room Go leaves in a new array) and moves
  to a new array where there is not.  `Clone` gives the copy arrays of its own.
  `said[q]` is the calls that made q.
- `Records`: QueryRecords, First, Last and CountRecords send the text of a query to a
  database that answers with a sequence; DeleteMany sends a request for each id,
  each done, failed, lost or, if the error says that something "does not exist",
  swallowed; UpsertMany sends one statement.

## 3. What the runs show

| Run | Instance | Shows |
|---|---|---|
| `migrate_solo` | one operator, 3 versions of 2 statements, one dependency, 2 faults, 2 downs or rollbacks | the history is a prefix in applied order and implements the ledger; history and schema agree except where a command was interrupted; an up repairs what an interrupted up left, and repeating it converges |
| `migrate_shared` | two operators, 2 versions, one file that comes and goes, 1 fault, 1 down | migrations are atomic, no transaction is left open, a record is never rewritten |
| `rollout` | 13 calls over 3 environments, one listed twice, one unknown; databases that hold any prefix of 2 migrations, the first without a way back, as earlier deployments or rollbacks left them; 2 faults or a cancellation | batches gate one another, the semaphore bounds concurrency, refusals touch nothing, reports are true, auto-rollback takes back what this call applied and nothing older, and leaves only the effect of migrations without a down section |
| `memory_cache` | 3 keys for 2 places, 2 values, lifetimes 1 and 2 and the default, one glob, clock to 3 | list, map and size agree; eviction takes the entry used longest ago; the LRU cache implements `CacheBackend` |
| `cache_manager` | 2 clients, 2 keys, 2 tables, 1 failed backend call, clock to 1 | an entry stored for a table is recorded under it, about to be recorded or deleted, or was given up by a known race or failure |
| `connections` | 2 goroutines, 2 names, 2 clients, 3 connections, 2 attempts | the default is registered; no open connection is out of reach but for two known races; a token belongs to its client's connection |
| `connections_return` | the same with one name and 2 connections | every call ends, whatever fails and whoever else runs |
| `schema_evolution` | some 60 schemas: one table in all its shapes, two tables with an edge, buckets | whatever was generated, migrated and rolled back before, the statements run, the database follows the snapshot, the backward statements are the inverse of the forward ones, refused definitions stay out |
| `schema_check` | the same | for a registry of nothing but plain tables without permissions the command reports each as an edge to drop (section 5) |
| `watcher` | 2 schema files, one of them in a subdirectory, and an ignored one, 2 changes, events repeated without end with at most 2 pending, a channel of 1 event, 1 report | no newest change gets lost between loop and checker, no tick is stale; every change is checked unless the channel overflows or the events never stop; Stop ends both loops |
| `handles` | 2 goroutines, 2 connections, 1 fault; two live queries, or one with a session or a transaction, or these two | one closing RPC is sent for a handle; nothing stays open on the server that the program believes closed, but for what section 5 lists; a drain reaches all |
| `library` | the inputs in `MCLibrary`: definitions in every shape, schemas of a table or two, an edge and a bucket, alone and in pairs; a graph of 5 versions; 2 snapshot takers; squashes of 2 and 3 migrations, their statements plain, with IF or with OVERWRITE; 4 queries and 25 calls; tables of up to 4 records | what is written is read back; a valid schema lands without drift, drift is seen, sync only adds; the graph is sound and lines of ancestors are kept; snapshots stand; a squash keeps the schema; queries stay apart; pages tile; a batch tells the truth |

Why these bounds are enough.  Three versions are the least for which a middle one exists
(a gap needs it); two statements the least with a partial migration; two faults let a
repair be interrupted again; two rollbacks let a version be applied, reverted, applied and
reverted.  Three keys for two places force an eviction; lifetimes that differ let an entry
used later expire first.  Two clients are what a race of a Set with a Delete, a Clear or
an invalidation needs.  Two goroutines make every pair of calls overlap, two clients let a
Register meet a taken name, and a third connection lets a replaced one, its successor and
another client's be open at once.  Two operators suffice for the double record, as the
UNIQUE index compares two writes.  Three environments with batches of two have a full and
a cut batch; a percentage of 50 rounds the canary up.  A diff looks at one table at a
time, so one table in all its shapes meets every pair of shapes; two tables, an edge and a
bucket bring in the order of the parts of a migration, and two fields, two operations that
of one table.  A channel of one event overflows at the second event; two changes are two
of one file or one of each, and as events may be repeated at any time (`MaxPending` bounds
the queue, not how often), any of them can come before, at or after a tick; one connection
to lose and one to gain is all a handle can tell apart.  Five versions give a node with
two children and a grandchild, and a second tree; two takers in two seconds collide in one
and not in the other.  Two statements in one migration and one in the next give every pair
a squash may cancel within and across migrations, over databases in which their objects
are there or not; three migrations give the ends of a range.  Four queries have two
branches of one query and a query made after both.  `MaxFaults` and `MaxDowns` bound only
the environment and the operators, never the code.

Fairness.  `MigrationExecutor!Fairness`: a running process takes its next step and its
RPCs return (weak fairness of `Step`); an operator answers a shown rollback plan; and
`migrate up` is run again and again, as a deploy pipeline does (used by `Converges` only).
`Rollout!FairSpec`: goroutines run and RPCs return or fail (the code gives each a
context); nobody has to cancel.  The cache modules, `Handles`, `Library` and
`SchemaEvolution` state safety only and assume no fairness.  `Watcher!FairSpec`:
goroutines run, the timer fires, a Start or Stop that has begun goes on, and reports are
read as long as the watcher is not being stopped; nobody has to read them after, no file
has to change and no event to be repeated or to stop being repeated: `ChangesAreChecked`
has the alternative `Busy`, that the events never stop.  `Connections!FairSpec`:
goroutines run, RPCs return or fail, and a mutex that is free again and again lets a
waiter in (strong fairness of `Locking`), as Go's mutex does by its starvation mode.
Disconnect closes with `context.Background()`, so that a Close that never returned would
keep the registry locked; the fairness excludes it.

Deadlock is checked in every run but `watcher`, which comes to rest after its last
change; `Rollout` ends in an explicit `Returned` step.

## 4. What is proved

Each theorem holds for every value of the constants that satisfies the ASSUMEs of its
module; every ASSUME is evaluated in some run.  What they ask is what the code's types
give: finite sets of versions and environments, names apart from the word for none,
handles of one kind each.  No theorem has a hypothesis of its own but those for one
operator.

For any number of runners (`MigrationExecutor_proofs`):

- `TypeCorrect`: `TypeOK`.  Inductive by itself; its last conjunct (the version
  being executed is still planned) is what makes `Count(r)` a bound for `at`.
- `TransactionsFinalised`: a transaction is open only inside ExecuteMigration.
- `RecordsAreWrittenOnce`: from `HistoryStep` (only `Record`'s write changes the
  history) and the guard of the UNIQUE index.
- `MigrationsAreAtomic`: needs `StagedInv`, which says that what a transaction
  holds is exactly the executed part of its section, so a commit at the end of
  the loop puts the whole section in effect.

For one operator and a directory that does not change (the second half of
`MigrationExecutor_proofs`, hypotheses `Runner = {R}` and `LateFiles = {}`):

- the inductive invariant `SoloInv`.  `HistoryIsPrefix` is not inductive: a
  command runs from a plan computed earlier, so the invariant must say that what
  is left of the plan still fits the history.  `Ordered` is the prefix property
  with the order of `applied_at`; `PlanInv` says of an up plan that it holds
  pending versions together with every pending one below them, and of a down or
  rollback plan that it holds applied versions, as the command has read them,
  together with every applied one above them; that the version being run is the
  next of the plan; and that the stamp of a record in flight is later than every
  record.
- `HistoryStaysPrefix`, `ExecutorImplementsLedger` (a refinement: every history
  write is a step of `MigrationLedger`, every other step a stutter), `DownIsLifo`
  and `SuccessMeansComplete` follow from it.
- `HistoryAgreesWithSchema` needs in addition `CommittedInv`: between commit and
  history write the schema of the version is already what the write will record.

The hypotheses are needed: with two operators or with a file added late the runs
find counterexamples to the prefix property, which is why it is not in
`migrate_shared`.

For any number of clients, keys and tables (`CacheManager_proofs`):

- `CacheManager_proofs!TypeCorrect`: `TypeOK` of the manager, from the ASSUMEs on
  its constants and lemmas that each backend action keeps the store well typed.
- `EntriesStayCovered`: `Covered` is inductive together with `TypeOK`.  The argument
  is in three lemmas: `KeepsCovered` (a step that stores nothing keeps the coverage
  when every record or pending step it removes is replaced by another or by a pair
  in `lost`), `StoreCovered` (a step that stores an entry leaves each of its tables
  pending or in `lost`), `QuietCovered` (a step that touches neither); every action
  is an instance of one of them.

For any number of goroutines, names, clients and connections
(`Connections_proofs`; names are numbers of which every set has a first):

- `Connections_proofs!TypeCorrect`: `TypeOK` with `ProgramInv`, which ties each place
  in a call to its operation and to the locals it has set.
- `DefaultStaysRegistered`: `DefaultIsRegistered` is inductive with them; the
  fallback needs `FirstNameFits`.
- `ConnectionsStayReachable`: `NoConnectionLost` is not inductive: one must know
  who may touch a client.  `Ownership` says that a Register has its client for
  itself until it is registered, that the client has no connection before it is
  dialled and after it has been taken back, and that everybody else works on
  clients the program knows.
- `TokensFollowConnections`: needs `Exclusive`, no two clients share a connection.

For any environments, listed any number of times, databases in any state, strategies and
batch sizes (`Rollout_proofs`):

- `Rollout_proofs!TypeCorrect`, `NoBatchOvertakes` (`BatchGate`), `ReportIsTrue`
  (`ReportMatchesDatabase`) and `RollbackIsClean` (`CleanRollback`) follow from one
  inductive invariant of eight parts.  The three properties speak of the end of the call,
  or of results; the parts say what holds on the way: `PhaseInv` which fields a phase may
  have touched, `BatchInv` where the batch stands in the list and that everything before
  it has succeeded, `LimitInv` that at most `Limit` positions run, `AppliedInv` that what a
  position counts as applied is in its database and was not there before, `ReportInv`
  what a report says while the rollback walks the environments, `UndoInv` what the rollback
  has left behind so far, and `NoSilentGap`.  What the rollback may leave is the effect of
  migrations without a down section, so `UndoInv` compares with `Restored`, and that
  nothing older goes needs that no environment rolled back had any record before.
- That a report keeps, of several positions of one environment, the result of the last needs
  a last position to exist (`LastPosition`): the least element of a set of numbers, by the
  well-foundedness of `<`.  A semaphore that is never overfull is a fact about
  cardinalities (`FewerRun`).

For any keys, values, lifetimes, globs and capacity (`MemoryCache_proofs`):

- `LeastRecentEvicted` (`EvictsLeastRecent`): `ListMatchesMap` is nearly inductive; what it
  lacks is `OrderInv`, that the list has its keys in the order of `touched`.  The
  lemmas say of each edit of the list which keys it keeps, that it names each once, and
  which key is before which (`WithoutKeeps`, `FrontLeads`, `PurgedKeeps`, `KeptLeads`);
  `Purged` numbers the places that stay by their rank, as the provers know nothing of
  `SelectSeq`.
- `IsBackend` (`ImplementsBackend`): every operation is a step of `CacheBackend` or a
  stutter, step by step in `BackendStep`; that an insertion pushes out no more than the
  backend allows comes from `Evicts`.
- `MemoryCache_proofs!TypeCorrect`: `TypeOK`.

For any files, channel sizes and reports (`Development_proofs`, its first part):

- `NewestChangeKept` (`NoChangeLost`): the newest change of a file that the event loop has
  seen is followed from hand to hand.  `HeldInv` says that the loop's hand holds the newest
  change of its file, `QueueInv` that behind an event in the channel that is not the newest of
  its file the newest follows or is in the hand, `BatchInv` that the batch names each file once
  and holds its newest change unless that is still to come or was pushed out, `LostInv`
  that a change the checker has not been given is in one of these places; `TimerInv` that the
  timer runs for the batch last added to, `LaunchInv` that no loop runs before Start.

For any schemas, edits, migrations and rollbacks (`Development_proofs`, its second part):

- `DatabaseKeepsUp` (`DatabaseFollows`) and `WayBackIsExact` (`DownIsInverse`) rest on the
  inductive invariant `Evolved`: besides what the database has (`SchemaFollowed`,
  `BucketsFollowed`, `Sanctioned`), that the file in hand was made of valid diffs between two
  schemas (`FileStands`), and that one that has run took `before` to the database (`Ran`).
- The argument has two halves that meet in a set of statements.  What a run leaves of a single
  definition depends on which statements are in the file; their order counts only where one
  of them undoes another (`TablesLand`, `ItemsLand`, `BucketsLand`, going up the run from one
  statement to the next).  And what the diff engine writes is a plan: for each part of each table
  and for the buckets, the forward statements write what the new schema has, erase
  what it no longer has and do nothing else, and the backward ones do the same the other way
  (`PartsPlanned` to `SchemasPlanned`).  `PlanLands` puts the halves together, `PartBack` and
  `BucketBack` run them one after the other.
- A script with a statement cut at a semicolon does not come through (`RanWhole`), so nothing
  need be said of what its halves do.
- `MigrationsRun` (`PlanRuns`) follows from the same invariant, but here the order counts.  A
  statement is refused when what it works on was never there or has just gone, so the
  proof asks two things of a script.  Every statement is founded (`Founded`): its table, its
  definition or its bucket is in the schema the script starts from, or, for a new table,
  another statement of the script defines it (`SchemasFounded`).  And none comes too late
  (`TooLate`): nothing stands behind the statement that drops its table, erases its
  definition or removes its bucket, and no table is defined, no field written behind what
  needs them (`InOrder`).  `RunsThrough` shows that such a script runs, by the first
  statement that would not.
- That the scripts are in order comes from the diffs: those of one list are in an order in
  which each is `Clear` of all behind it, there and, reversed, on the way back (`Laid`).
  Within a table that is so because a new table's own diff comes first (`TableFirst`) and
  each other diff has a field, an index, an event or the permissions to itself; between
  tables and buckets because they have nothing to do with each other (`TablesApart`).
  `SchemasLaid` says so of DiffSchemas, `ScriptsInOrder` carries it to the two files, through
  FlattenSeq and the cut at semicolons (`FlattenOrder`, `SplitInOrder`).

For any goroutines, connections, live queries, sessions and transactions (`Handles_proofs`):

- `ClosedAtMostOnce` (`ClosedOnce`), `NothingIsLeftBehind` (`NothingLeaks`) and
  `DrainMissesNothing` (`DrainReachesAll`) are about what is at rest; the invariant says what
  a call under way may have in hand.  `CallInv` gives for each place the kind and number of
  handles, `OpenInv` that a handle being opened is in one hand only, `LockInv` what a held
  mutex means, `CloseInv` that nothing has been sent for a handle that is open and free, and
  `LeakInv` is `NothingLeaks` with less excused: only the calls that will still do
  something about the handle.
- `Handles_proofs!TypeCorrect`: `TypeOK`, whose conjunct on mutexes needs `CallInv`.

For any versions; any number of goroutines, seconds and tables; any calls on queries; any
batches (`Library_proofs`):

- `PartsRunAlone`: in the library the graph, the snapshots and the queries each run by
  their own specification (a refinement by the identity), so what is proved of `GraphSpec`,
  `SnapshotsSpec` and `QueriesSpec` holds there.
- `DirectoryIsTrue` (`SnapshotsStand`): the property speaks of a directory at rest.
  `TakingInv` says that what a goroutine has read so far is true of its second,
  `FilesInv` that an empty file has a writer or is spoiled, and that any other file holds a
  true snapshot of its own version, reported as stored.  That the listing is in order and
  complete is a lemma on ranks in a finite set of numbers (`PlacesCount`).
- `GraphIsForest`: `BothEnds`, the first half of `GraphSound`, is inductive only together with
  `Rooted`: no line of parents goes round.  Without it a Remove could leave a version that is
  its own parent, and the promotion of a new root could find none.  It is also why the walks
  end.
- `LinesStand` (`LinesAreKept`): what lies above a version is the least set closed under
  parents (`Above`), so one inclusion is a set to exhibit and the other an instance of
  leastness (`AboveClimbs`).  A Remove hands the children of the removed version to its
  parent, an Add puts a leaf in or a root; both keep what is above anybody else.  TLC checks
  that the code's walks give that set (`WalksAgree`).
- `EachQueryIsItsOwn` (`QueriesStayApart`): one invariant suffices, that each query looks like
  the one made by its own calls alone.  It is not that no two queries share an array: two
  clones of one query may share those neither has appended to.  What counts is that a call
  writes only to arrays made during the call, because Clone comes first (`Extended`), so
  a slice made before reads the same after.  `CallAssumption` asks only that calls take
  lists of strings and that the branches are made by known calls.
- `BatchesTellTruth` (`BatchTellsTruth`): what the two loops have done after n requests or
  items is described outright (`DeletedSoFar`, `UpsertedSoFar`) and shown by going up from the
  least n; that sending a batch again changes nothing more is a fact about the last item
  of each identifier (`Greatest`).  A success speaks for the records with a request that was
  not swallowed (`Heard`).  `SubjectsAssumption` asks of the inputs only that they
  have the shape the calls take.

No run repeats a `TypeOK` that is proved.

Model-checked only: the liveness properties (`Converges`, `Finishes`, `CallsReturn`,
`ChangesAreChecked`, `StopEnds`), which are outside what the proof system handles;
`WalksAgree`, whose walks are queues folded over a number of rounds; `PagesTile`, and
what is stated of `SchemaText`, `SchemaValidator` and `Squash`, where texts and scripts are
built with the folds of the community modules.  A fold over a sequence would take an induction
whose statement is an operator, which the provers cannot be given; where a loop is written
as a function on the numbers, as in `Queries`, `Records` and `RunAll`, the least number at
which a statement fails does the same work.

## 5. Where code and documentation part

- `schema_check`: `ParseEdgeInfo` drops the error of `parseEdgeFromDefinition`
  (`schema/parser.go:138`) and so accepts a plain table; `liveSnapshot` appends it to the
  edges (`src/internal/cli/schema.go:481`), against its comment two lines up, and the diff
  reports every plain table as a dropped edge, on a database that is exactly as the
  registry says.

The command reports more that is no drift, which the property leaves out: every table,
edges included, is appended to the tables (`src/internal/cli/schema.go:478`), so an edge is
also a dropped table; the registry's buckets are not passed (`:412-415`), so each bucket
is dropped; permissions are not parsed.

Seen while modelling: an environment counts as rolled back whatever its DOWN
migrations answered (`orchestration/coordinator.go:233`, against `result.go:19`;
`CleanRollback` excludes faults), and without any fault also when a migration has no down
statements, as an initial one (`migration/generator.go:67-69`, `:103-112`): its record goes,
its schema stays (`migration/executor.go:84-88`), and the next deployment meets what is
there.  InvalidateTable drops the table's whole record
before it deletes, and Delete drops a key from every record; a key associated by
TrackTable before its entry exists, or stored anew without tables (as Cached does),
is then no longer removed with its table (`cache/manager.go:178`, `:207`).  Clear lists
and closes the clients and empties the maps in two critical sections; a client
registered or reconnected in between leaves the registry with its connection open
(`connection/registry.go:255-258`; `NoConnectionLost` counts such a client as known).

Stated as limits of the properties: when the history write fails the migration stays
committed, although the comment of ExecuteMigration promises a rollback
(`migration/executor.go:67`, `:137`); a rollback interrupted between commit and record
removal is never repaired by `up` (`Converges` allows it); a cancellation between two
batches returns partial results without an error (`NoSilentGap`, a part of
`ReportMatchesDatabase`, excludes it); a second InvalidateTable of the same table returns
while the first has still keys to delete, and a failed one forgets the keys it did not
reach (`Covered` allows both through the pending step and `lost`); Cached records its key
under no table, and nothing reads `CacheOptions.InvalidateOn`.

Of the migrate commands: `--target` naming a version that is not pending removes
the bound instead of being refused (`src/internal/cli/migrate.go:112`); a rollback to
a version leaves applied versions whose file is gone or that lie above the last
applied one (`migration/rollback.go:174`).

Of the diff engine, each a limit of `Follows`, `Exactly`, `Undoable` or
`SnapshotAssumption`: an index or event changed under the same name and a changed
table mode are not noticed; a permission no longer wanted is not removed; ALTER
BUCKET renders empty permissions as no clause, so they are never cleared
(`schema/bucket.go:262`); the permissions of a new edge are not written; a dropped
table or edge has no backward statements for its parts, although the comment at
`migration/diff.go:288` speaks of the full suite; a name that moves from edge to
table is defined and then dropped by one migration (the order of
`migration/diff.go:369-466`); a semicolon inside a string cuts the statement when the
file is read.

Of definitions and their text: a field named `type`, or whose name ends in it, reads
back with type `any`; a field named `value` reads a VALUE clause out of its own
ON TABLE; an index whose name holds `unique` reads back as UNIQUE: each is permanent
drift (`Legible` excludes them from `ReadsBack`, `ValidSchemaLands` and `DriftIsSeen`).
A vector index of two columns is written with the first, an edge that is no RELATION
reads back as a table.  A bucket's comment is written in double quotes
(`schema/bucket.go:159-163`) and looked for in single ones (`schema/parser.go:820-827`);
quoting is outside `SchemaText`.  `schema sync` calls itself destructive
(`src/internal/cli/schema.go:209`, `docs/cli.md:49`) and reports the schema as synchronized,
but it writes IF NOT EXISTS (`:198`) and changes nothing that is there, which is what
`SyncOnlyAdds` says.  Of a field defined twice
the first stands and CompareSchemas takes the last.  Events' bodies, permissions and
the parameters of DISKANN and full-text indexes are not compared (`Compared`), and
ValidateSchema does not look at buckets.  CompareSchemas, the version graph and
CreateSnapshotOnMigration have no caller inside the repository.

Of squash (`migration/squash.go`; the premises of `SquashKeepsSchema`, `Tame`): down
statements are reversed inside each migration, although those of generated
migrations are in undo order already, so a squashed down removes a table before its
fields (comment at `:155-158`); the second pass keeps only the last DEFINE among the
kinds it does not read (buckets, analyzers, accesses share the empty key), though the
comment says "for the same object"; the third drops backfills of fields that the
second removed as duplicates; of two DEFINE IF NOT EXISTS the first stands when they run in
order, the squash keeps the last; OVERWRITE is taken for the name, so all tables defined
with it are one table called "overwrite", and such fields, indexes and events are not
read (the patterns at `:274-277`); a DEFINE, a second DEFINE and a REMOVE leave the second
DEFINE; a DEFINE with a REMOVE is dropped although the object may have been there
before.  The squashed file is written beside its originals, which stay.

Of snapshots: two taken in one second replace each other; one is read from the
registry list by list, so it may hold an edge without its table, though the comment
says "captures the registry as-of the call"; a crash or two writers of one second may
leave a file that no one can parse, and one such file fails the listing of the whole
directory.

Of handles: a KILL after a reconnect goes to the wrong connection; a second Close after a
failed KILL returns no error (documented).  Of the watcher: "Stop ... waits until its
goroutines have exited" (`migration/watcher.go:198-199`), but it does not wait; it cannot
be started again after Stop; a cancelled context ends the loops and leaves the fsnotify
watch open; every event sets the debounce timer anew (`:427-438`), so while events keep
coming nothing is checked (`Busy`); the last events before a Stop may stay unreported; a
file made in a new directory before the directory is watched is not seen.

Of queries: VectorSearch after VectorSearchIndexed keeps the indexed form, and
without a threshold an earlier threshold; DELETE, UPDATE and UPSERT drop LIMIT, vector
and full-text restrictions; Last compares the direction with "ASC" only, although
OrderBy takes either case, so with "asc" it returns the first record
(`query/crud.go:494`; `PagesTile` speaks of capitals).  DeleteMany with an error says
nothing of what it has deleted, and swallows any error whose text holds "does not exist"
or "table not found" (`query/crud.go:446-469`, `query/batch.go:177-183`), such as that of a
missing function in an event, so it succeeds with the record still there;
`docs/v3-patterns.md:188-194` promises empty results for a missing table from
QueryRecords, First and Last too, where `query/crud.go:354-364` returns the error
(`PagesTile` is about tables that are there); CreateRecords stops at the first failure and leaves
the rows before it; UpsertMany's comment promises a WHERE clause where the code writes
ON DUPLICATE KEY UPDATE, and the comment of BuildUpsertQuery speaks of the first
row's keys where the code takes those of all rows.

## 6. Plan

Done: every module of section 2 and every theorem of section 4.  What is left to prove is
`WalksAgree` of `VersionGraph`, which needs a bound on the rounds of the two queues.

## 7. Not modelled

Formatting and rendering (`schema/visualize.go`, `schema/themes.go`, quoting and
number formats of the query builder, the command line's output), value types and
their formatting (`types/*.go`), expressions and functions of queries, error wrapping,
settings (layers of values computed once), and the SurrealDB server itself: it appears
as the external definitions `Accepts`, `Effect`, `Database`, `Plays` and `Answer`.  The
Redis server and the SDK's network layer are external in the same way: `CacheManager`
takes of Redis that its calls may fail and keep `CacheBackend`'s promises, and leaves
out the global manager (`ConfigureCache`, `Invalidate`), key prefixes, the counters of
`CacheStats` other than the size, and the JSON encoding of values.

Of modelled files: AuthManager; the notifications of live queries, and
Live called without a manager; permissions of tables and fields in scripts, analyzers;
the sections of a migration file (a comment behind a semicolon goes to the next
statement) and the atomic write of one; git hooks; aggregations, graph queries and
the CRUD calls that send one statement; the safety analysis of rollback plans, which
matches text.
