----------------------------- MODULE SchemaDiff -----------------------------
(***************************************************************************)
(* The diff engine: from two snapshots of a schema to the statements that   *)
(* take a database from one to the other and back                           *)
(* (src/pkg/surql/migration/diff.go), the split of statements at semicolons *)
(* (generator.go), and what the database makes of the statements.           *)
(*                                                                          *)
(* A table or an edge is a record of its mode and of what is defined on it, *)
(* by name; a definition itself is opaque.  The code keeps definitions in   *)
(* lists and looks them up by name; the model takes them in name order.     *)
(***************************************************************************)
EXTENDS Integers, Sequences, FiniteSets, SequencesExt

CONSTANTS
  Refused,      \* definitions the generators answer with an error
  Backfilled,   \* field definitions with a default
  Semicolon,    \* definitions whose text has a semicolon inside
  NoText        \* the empty bucket attribute

Nothing == [x \in {} |-> NoText]
Failed == [do |-> "failed"]

\* The names of a map in their order, and its values in the order of the names.
Ordered(S) ==
  [i \in 1..Cardinality(S) |-> CHOOSE n \in S : Cardinality({m \in S : m <= n}) = i]
Each(f) == [i \in 1..Cardinality(DOMAIN f) |-> f[Ordered(DOMAIN f)[i]]]
Added(old, new) == DOMAIN new \ DOMAIN old
Changed(old, new) == {n \in DOMAIN new \intersect DOMAIN old : new[n] # old[n]}
Put(f, n, d) == [m \in DOMAIN f \union {n} |-> IF m = n THEN d ELSE f[m]]
Without(f, n) == [m \in DOMAIN f \ {n} |-> f[m]]

(***************************************************************************)
(* Diffs: the statements forward and backward, and whether a generator      *)
(* refused.                                                                 *)
(***************************************************************************)
DefineItem(part, t, n, d) == [do |-> "define", part |-> part, table |-> t, name |-> n, def |-> d]
RemoveItem(part, t, n) == [do |-> "remove", part |-> part, table |-> t, name |-> n]
DefineTable(t, mode) == [do |-> "define table", table |-> t, mode |-> mode]
RemoveTable(t) == [do |-> "remove table", table |-> t]

Diff(forward, backward, valid) ==
  [forward |-> forward, backward |-> backward, valid |-> valid]

\* What the generators check of a definition before they write it.
Renders(d) == d \notin Refused

\* A new field with a default is also written to the records that lack it.
Backfill(t, n, d) ==
  IF d \in Backfilled THEN <<[do |-> "backfill", table |-> t, name |-> n, def |-> d]>> ELSE <<>>

AddField(t, n, d) ==
  Diff(<<DefineItem("fields", t, n, d)>> \o Backfill(t, n, d),
       <<RemoveItem("fields", t, n)>>, Renders(d))
DropField(t, n, d) ==
  Diff(<<RemoveItem("fields", t, n)>>, <<DefineItem("fields", t, n, d)>>, Renders(d))

\* Mutants of ModifyField: no way back; only the old definition looked at.
ModifyFieldOneWay(t, n, old, new) ==
  Diff(<<DefineItem("fields", t, n, new)>>, <<DefineItem("fields", t, n, new)>>,
       Renders(old) /\ Renders(new))
ModifyField(t, n, old, new) ==
  Diff(<<DefineItem("fields", t, n, new)>>, <<DefineItem("fields", t, n, old)>>,
       Renders(old) /\ Renders(new))

DiffFields(t, old, new) ==
  Each([n \in Added(old, new) |-> AddField(t, n, new[n])])
    \o Each([n \in Added(new, old) |-> DropField(t, n, old[n])])
    \o Each([n \in Changed(old, new) |-> ModifyField(t, n, old[n], new[n])])

\* Indexes and events; a definition that changed under its name is not seen.
AddItem(part, t, n, d) ==
  Diff(<<DefineItem(part, t, n, d)>>, <<RemoveItem(part, t, n)>>, Renders(d))
DropItem(part, t, n, d) ==
  Diff(<<RemoveItem(part, t, n)>>, <<DefineItem(part, t, n, d)>>, Renders(d))
DiffItems(part, t, old, new) ==
  Each([n \in Added(old, new) |-> AddItem(part, t, n, new[n])])
    \o Each([n \in Added(new, old) |-> DropItem(part, t, n, old[n])])

\* One statement per permission wanted; a permission no longer wanted has none.
Permit(t, permissions) ==
  Each([o \in DOMAIN permissions |->
          [do |-> "permit", table |-> t, name |-> o, def |-> permissions[o]]])
ModifyPermissions(t, old, new) ==
  Diff(Permit(t, new), Permit(t, old), TRUE)
DiffPermissions(t, old, new) ==
  IF old = new THEN <<>> ELSE <<ModifyPermissions(t, old, new)>>

AddTable(t, def) ==
  Diff(<<DefineTable(t, def.mode)>>, <<RemoveTable(t)>>, TRUE)
Contents(t, def) ==
  DiffFields(t, Nothing, def.fields)
    \o DiffItems("indexes", t, Nothing, def.indexes)
    \o DiffItems("events", t, Nothing, def.events)
AddTableDiffs(t, def) ==
  <<AddTable(t, def)>> \o Contents(t, def) \o DiffPermissions(t, Nothing, def.permissions)
DropTable(t, def) ==
  Diff(<<RemoveTable(t)>>, <<DefineTable(t, def.mode)>>, TRUE)

\* The permissions of a new edge are not written, a dropped edge has no way back.
AddEdgeDiffs(t, def) == <<AddTable(t, def)>> \o Contents(t, def)
DropEdge(t) == Diff(<<RemoveTable(t)>>, <<>>, TRUE)

\* What both sides have; the mode is not compared.
ModifyTable(t, old, new) ==
  DiffFields(t, old.fields, new.fields)
    \o DiffItems("indexes", t, old.indexes, new.indexes)
    \o DiffItems("events", t, old.events, new.events)
    \o DiffPermissions(t, old.permissions, new.permissions)

DefineBucket(b, def) == [do |-> "define bucket", bucket |-> b, def |-> def]
RemoveBucket(b) == [do |-> "remove bucket", bucket |-> b]
AddBucket(b, def) == Diff(<<DefineBucket(b, def)>>, <<RemoveBucket(b)>>, TRUE)
DropBucket(b, def) == Diff(<<RemoveBucket(b)>>, <<DefineBucket(b, def)>>, TRUE)

\* ALTER BUCKET names the attributes that differ; empty permissions render as
\* no clause at all.
AlterBucket(b, from, to) ==
  LET differ == {a \in DOMAIN to : to[a] # from[a]}
      named == differ \ {a \in {"permissions"} : to[a] = NoText}
  IN  [do |-> "alter bucket", bucket |-> b, change |-> [a \in named |-> to[a]]]
ModifyBucket(b, old, new) ==
  Diff(<<AlterBucket(b, old, new)>>, <<AlterBucket(b, new, old)>>, TRUE)

\* A mutant of DiffBuckets: a changed bucket is not noticed.
DiffBucketsByName(old, new) ==
  Each([b \in Added(old, new) |-> AddBucket(b, new[b])])
    \o Each([b \in Added(new, old) |-> DropBucket(b, old[b])])

DiffBuckets(old, new) ==
  Each([b \in Added(old, new) |-> AddBucket(b, new[b])])
    \o Each([b \in Added(new, old) |-> DropBucket(b, old[b])])
    \o Each([b \in Changed(old, new) |-> ModifyBucket(b, old[b], new[b])])

\* From the schema in the database to the one in the code: tables, then edges,
\* then buckets; of each the added, the dropped, the modified.
DiffSchemas(code, db) ==
  LET tables == code.tables  edges == code.edges
      both(old, new) == DOMAIN old \intersect DOMAIN new
  IN  FlattenSeq(
           Each([t \in Added(db.tables, tables) |-> AddTableDiffs(t, tables[t])])
        \o Each([t \in Added(tables, db.tables) |-> <<DropTable(t, db.tables[t])>>])
        \o Each([t \in both(db.tables, tables) |-> ModifyTable(t, db.tables[t], tables[t])])
        \o Each([t \in Added(db.edges, edges) |-> AddEdgeDiffs(t, edges[t])])
        \o Each([t \in Added(edges, db.edges) |-> <<DropEdge(t)>>])
        \o Each([t \in both(db.edges, edges) |-> ModifyTable(t, db.edges[t], edges[t])])
        \o <<DiffBuckets(db.buckets, code.buckets)>>)

Valid(diffs) == \A i \in DOMAIN diffs : diffs[i].valid

(***************************************************************************)
(* The migration file.                                                      *)
(***************************************************************************)

\* Statements are cut at every semicolon, one inside a string or a block too.
SplitScriptStatements(stmts) ==
  LET whole(s) == "def" \notin DOMAIN s \/ s.def \notin Semicolon
  IN  FlattenSeq([i \in DOMAIN stmts |->
        IF whole(stmts[i]) THEN <<stmts[i]>> ELSE <<[do |-> "fragment"], [do |-> "fragment"]>>])

Up(diffs) == SplitScriptStatements(FlattenSeq([i \in DOMAIN diffs |-> diffs[i].forward]))

\* A mutant of Down: the way back in the order of the way there.
DownInOrder(diffs) == SplitScriptStatements(FlattenSeq([i \in DOMAIN diffs |-> diffs[i].backward]))

Down(diffs) ==
  SplitScriptStatements(FlattenSeq([i \in DOMAIN diffs |-> diffs[Len(diffs) - i + 1].backward]))

(***************************************************************************)
(* The database (external).  DEFINE replaces what has the name, which is    *)
(* what a changed field asks for with its plain DEFINE (diff.go:761-782);   *)
(* a server that refuses it fails that migration, as MigrationExecutor and  *)
(* Rollout let it.  REMOVE, ALTER and statements on a table need it there.  *)
(***************************************************************************)
EmptyTable(mode) ==
  [fields |-> Nothing, indexes |-> Nothing, events |-> Nothing, mode |-> mode, permissions |-> Nothing]

Accepts(s, db) ==
  CASE s.do \in {"define table", "define bucket"} -> TRUE
    [] s.do \in {"define", "permit", "remove table"} -> s.table \in DOMAIN db.tables
    [] s.do = "remove" -> s.table \in DOMAIN db.tables /\ s.name \in DOMAIN db.tables[s.table][s.part]
    [] s.do = "backfill" -> s.table \in DOMAIN db.tables /\ s.name \in DOMAIN db.tables[s.table].fields
    [] s.do \in {"remove bucket", "alter bucket"} -> s.bucket \in DOMAIN db.buckets
    [] s.do = "fragment" -> FALSE

Effect(s, db) ==
  LET part(p, f) == [db EXCEPT !.tables[s.table][p] = f]
  IN  CASE s.do = "define table" ->
             [db EXCEPT !.tables = Put(@, s.table,
                IF s.table \in DOMAIN @ THEN [@[s.table] EXCEPT !.mode = s.mode] ELSE EmptyTable(s.mode))]
        [] s.do = "remove table" -> [db EXCEPT !.tables = Without(@, s.table)]
        [] s.do = "define" -> part(s.part, Put(db.tables[s.table][s.part], s.name, s.def))
        [] s.do = "remove" -> part(s.part, Without(db.tables[s.table][s.part], s.name))
        [] s.do = "permit" -> part("permissions", Put(db.tables[s.table].permissions, s.name, s.def))
        [] s.do = "backfill" -> db
        [] s.do = "define bucket" -> [db EXCEPT !.buckets = Put(@, s.bucket, s.def)]
        [] s.do = "remove bucket" -> [db EXCEPT !.buckets = Without(@, s.bucket)]
        [] s.do = "alter bucket" ->
             [db EXCEPT !.buckets[s.bucket] =
                [a \in DOMAIN @ |-> IF a \in DOMAIN s.change THEN s.change[a] ELSE @[a]]]

\* Statements in a transaction: the first one refused undoes all.
RunAll(stmts, db) ==
  LET run[n \in 0..Len(stmts)] ==
        IF n = 0 THEN db
        ELSE IF run[n - 1] = Failed \/ ~Accepts(stmts[n], run[n - 1]) THEN Failed
        ELSE Effect(stmts[n], run[n - 1])
  IN  run[Len(stmts)]
=============================================================================
