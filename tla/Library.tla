-------------------------------- MODULE Library --------------------------------
(***************************************************************************)
(* The parts of the library that no command drives: definitions and their   *)
(* text, drift reports, squashed migrations, the version graph, snapshots,  *)
(* queries and their pages, and batches of records.                         *)
(* A behaviour is about one subject.  For what only computes, that is one   *)
(* call's input, and a property says what must hold of every input of its   *)
(* kind; the graph, the snapshots and the queries a program holds live on   *)
(* by actions of their own.                                                 *)
(***************************************************************************)
EXTENDS SchemaValidator, VersionGraph, Snapshots, Squash, Records

CONSTANT Subjects     \* the inputs, each with its kind

\* A batch is a list of ids and what becomes of each request, or of items that have
\* an id and fields; a table that does not exist has no rows.
IsMap(f) == f = [x \in DOMAIN f |-> f[x]]
IsTable(t) ==
  /\ t = [exists |-> t.exists, rows |-> t.rows] /\ (t.exists \/ DOMAIN t.rows = {})
  /\ t.exists \in BOOLEAN /\ IsMap(t.rows) /\ \A i \in DOMAIN t.rows : IsMap(t.rows[i])
ASSUME SubjectsAssumption ==
  \A s \in Subjects :
    /\ s.kind = "delete" => IsTable(s.table) /\ IsList(s.ids)
    /\ s.kind = "upsert" => IsTable(s.table) /\ IsList(s.items) /\ \A n \in DOMAIN s.items : IsMap(s.items[n].fields)

VARIABLE subject

(***************************************************************************)
(* What a database may answer for a definition: a field's clauses in any    *)
(* order with its permissions behind them, FIELDS for COLUMNS, no braces    *)
(* around a single action.                                                  *)
(***************************************************************************)
Restated(s) ==
  CASE s.kind = "field" ->
         Head3("FIELD", s.def.name, "t") \o <<"TYPE", s.def.type>>
           \o FlattenSeq([n \in 1..5 |-> FieldClauses(s.def)[s.order[n]]])
           \o Clause("PERMISSIONS", s.permissions) \o <<";">>
    [] s.kind = "index" ->
         [n \in DOMAIN IndexToSurql(s.def, "t") |->
            IF IndexToSurql(s.def, "t")[n] = "COLUMNS" THEN s.columns ELSE IndexToSurql(s.def, "t")[n]]
    [] s.kind = "event" ->
         EventToSurql([s.def EXCEPT !.action = IF s.braces THEN <<"{">> \o @ \o <<"}">> ELSE @], "t")
    [] s.kind = "access" -> AccessToSurql("acc", s.def)
    [] OTHER -> BucketToSurql("files", s.def)

ReadBack(s) ==
  CASE s.kind = "field" -> ParseField(s.def.name, Restated(s))
    [] s.kind = "index" -> ParseIndex(s.def.name, Restated(s))
    [] s.kind = "event" -> ParseEvent(s.def.name, Restated(s))
    [] s.kind = "access" -> ParseAccess(Restated(s))
    [] OTHER -> ParseBucket(Restated(s))

\* The same definition with what the text leaves out filled in: the parameters an
\* index is written with, one column of a vector index, the algorithm of a JWT.
Written(s) ==
  CASE s.kind = "index" ->
         [s.def EXCEPT
            !.columns = IF s.def.type \in Vector THEN <<@[1]>> ELSE @,
            !.params = [p \in {q \in ToSet(Params(s.def.type)) :
                                 Param(s.def, q) # Unset /\ ~(q = "ANALYZER" /\ Param(s.def, q) = "ascii")} |-> Param(s.def, p)]]
    [] s.kind = "access" ->
         [s.def EXCEPT !.configs = {s.def.type},
                       !.algorithm = IF s.def.type = "JWT" /\ @ = Unset THEN "HS256" ELSE @]
    [] s.kind = "bucket" -> [s.def EXCEPT !.permissions = IF @ \in {"FULL", "NONE"} THEN @ ELSE Unset]
    [] OTHER -> s.def

Sound(s) ==
  CASE s.kind = "field" -> FieldValid(s.def)
    [] s.kind = "index" -> IndexValid(s.def)
    [] s.kind = "event" -> EventValid(s.def)
    [] s.kind = "access" -> ValidateAccess("acc", s.def) = {}
    [] OTHER -> BucketValid("files", s.def)
Legible(words) == \A w \in ToSet(words) : Plain(w)

(***************************************************************************)
(* What ParseField, ParseIndex, ParseEvent, ParseAccess and ParseBucket     *)
(* read is what was written, whatever the order of a field's clauses, for   *)
(* every valid definition none of whose words reads like a keyword          *)
(* (parser.go:154-323 against table.go, fields.go, access.go, bucket.go).   *)
(***************************************************************************)
ReadsBack ==
  subject.kind \in {"field", "index", "event", "access", "bucket"} =>
    (Sound(subject) /\ Legible(Restated(subject)) => ReadBack(subject) = Written(subject))

(***************************************************************************)
(* A schema, and the database another schema's script has built.            *)
(***************************************************************************)
Empty == [o \in {} |-> <<>>]
Script(r) == GenerateSchemaSQL(r, FALSE)
Report(code, db) == CompareSchemas(code, ParseInfo(db))
LegibleSchema(r) == \A n \in DOMAIN Script(r) : Legible(Script(r)[n].words)
Lands(r, script) == Report(r, Run(Empty, script)) = {}
Contents(r) == [t \in DOMAIN r.tables |-> r.tables[t]] @@ r.edges

\* The commands `schema validate` and `schema sync`: both leave a registry without
\* a table or an edge alone.
Passes(r, strict) ==
  \/ DOMAIN Contents(r) = {}
  \/ Errors(ValidateSchema(r)) = {} /\ (strict => \A x \in ValidateSchema(r) : x.severity # "warning")
SchemaSync(r, db) == IF DOMAIN Contents(r) = {} THEN db ELSE Run(db, GenerateSchemaSQL(r, TRUE))

(***************************************************************************)
(* A schema ValidateSchema finds no error in becomes a database in which    *)
(* CompareSchemas finds no drift, the sides read by the parser.  It says    *)
(* nothing of buckets, of words that read like keywords, of vector indexes  *)
(* of two columns and of edges that are no relation (validator.go:155,350). *)
(***************************************************************************)
ValidSchemaLands ==
  subject.kind = "schema" =>
    LET r == subject.code
        single(t) == \A n \in DOMAIN Contents(r)[t].indexes :
                       Contents(r)[t].indexes[n].type \in Vector => Len(Contents(r)[t].indexes[n].columns) = 1
    IN  /\ Passes(r, FALSE)
        /\ \A b \in DOMAIN r.buckets : BucketValid(b, r.buckets[b])
        => Generates(r)
             /\ (/\ LegibleSchema(r)
                 /\ \A t \in DOMAIN Contents(r) : single(t)
                 /\ \A t \in DOMAIN r.edges : r.edges[t].mode = "RELATION"
                 => Lands(r, Script(r)))

(***************************************************************************)
(* `schema sync` writes IF NOT EXISTS (cli/schema.go:198), so it defines    *)
(* what is not there and changes nothing that is, although it warns of      *)
(* being destructive (cli/schema.go:209, docs/cli.md:49) and then reports   *)
(* the schema as synchronized: of the drift there was, what is left is all  *)
(* but the missing definitions, and nothing is new, for a schema that an    *)
(* empty database would take over without drift (cli/schema.go:183-224,     *)
(* sql.go:19-60).                                                           *)
(***************************************************************************)
Object(at) == IF Len(at) = 1 THEN <<"table", at[1]>> ELSE <<at[2], at[1], at[3]>>
SyncOnlyAdds ==
  subject.kind = "drift" /\ Generates(subject.code) /\ Generates(subject.other) =>
    LET db == Run(Empty, Script(subject.other))
    IN  Report(subject.code, SchemaSync(subject.code, Empty)) = {} =>
          Report(subject.code, SchemaSync(subject.code, db)) =
            {r \in Report(subject.code, db) :
               r.what = "missing from database" => Object(r.at) \in DOMAIN db}

(***************************************************************************)
(* A report without a result means that running the whole script of the     *)
(* code anew would change nothing CompareSchemas claims to compare: not an  *)
(* event's text, nor the parameters of DISKANN and full-text indexes, nor   *)
(* a bucket (validator.go:350-428).                                         *)
(***************************************************************************)
Compared(o, words) ==
  o[1] \notin {"bucket", "event"} /\ ToSet(words) \intersect {"DISKANN", "FULLTEXT"} = {}
SameText(a, b) == Len(a) = Len(b) /\ ToSet(a) = ToSet(b)
DriftIsSeen ==
  /\ subject.kind = "drift"
  /\ Generates(subject.code) /\ Generates(subject.other)
  /\ LegibleSchema(subject.code) /\ LegibleSchema(subject.other)
  => LET db == Run(Empty, Script(subject.other))
         anew == Run(db, Script(subject.code))
     IN  Report(subject.code, db) = {} =>
           \A o \in DOMAIN anew : Compared(o, anew[o]) => o \in DOMAIN db /\ SameText(db[o], anew[o])

(***************************************************************************)
(* An optimised squash has the effect of its migrations, wherever they run  *)
(* through: if what the code reads as defined twice is a field, index or    *)
(* event, neither removed nor filled, and in the same words, since in order *)
(* the first DEFINE IF NOT EXISTS stands and the squash keeps the last; if  *)
(* what is removed after its one DEFINE was not there before, and a table   *)
(* so removed had nothing else done to it; and if one table at most is      *)
(* defined with OVERWRITE, and one thing the code does not read.  Its downs *)
(* undo its plain ups where each migration's, last statement first, undo    *)
(* that migration (squash.go:148-175, 349-470).                             *)
(***************************************************************************)
SquashKeepsSchema ==
  subject.kind = "squash" =>
    LET chosen == FilterMigrationsByVersion(subject.migrations, subject.from, subject.to)
        ups == FlattenSeq([n \in DOMAIN chosen |-> chosen[n].up])
        before(n) == Plays(subject.db, FlattenSeq([k \in 1..n - 1 |-> chosen[k].up]))
        plain == SquashMigrations(subject.migrations, subject.from, subject.to, FALSE)
        optimized == SquashMigrations(subject.migrations, subject.from, subject.to, TRUE)
    IN  plain.squashed /\ Plays(subject.db, ups).ok =>
          /\ Tame(ups, subject.db) => Plays(subject.db, optimized.up) = Plays(subject.db, ups)
          /\ (\A n \in DOMAIN chosen : Plays(before(n + 1), Reverse(chosen[n].down)) = before(n))
               => Plays(Plays(subject.db, plain.up), plain.down) = subject.db

(***************************************************************************)
(* The pages of a listing tile it, First is the record after what is        *)
(* skipped, CountRecords is its length for a condition or none, and Last is *)
(* its last record when the order is given, in capitals, and nothing is     *)
(* skipped (crud.go:352-501, 646-676).                                      *)
(***************************************************************************)
PagesTile ==
  subject.kind = "page" =>
    LET table == subject.table
        opts == subject.opts
        whole == QueryRecords(table, [opts EXCEPT !.limit = <<>>, !.offset = <<>>])
        page(n) == QueryRecords(table, [opts EXCEPT !.offset = <<(n - 1) * opts.limit[1]>>])
        skipped == FoldLeft(LAMBDA a, b : b, 0, opts.offset)
    IN  /\ opts.limit # <<>> => FlattenSeq([n \in 1..Len(whole) + 1 |-> page(n)]) = whole
        /\ First(table, opts) = SubSeq(whole, skipped + 1, IF skipped < Len(whole) THEN skipped + 1 ELSE skipped)
        /\ Len(opts.conditions) <= 1 => CountRecords(table, opts.conditions) = Len(whole)
        /\ opts.orderBy \in {<<"ASC">>, <<"DESC">>} /\ opts.offset = <<>> /\ whole # <<>> =>
             LastRecord(table, opts) = <<whole[Len(whole)]>>

(***************************************************************************)
(* A batch tells the truth and may be sent again.  Without an error the     *)
(* records gone are those reported, each once, and all that were asked for, *)
(* except where every request for one was answered that something does not  *)
(* exist, which is no error here (crud.go:446-469, batch.go:177-183); or    *)
(* each agrees with its last item on the fields taken over.  With an error, *)
(* no record is touched but those asked for and reached.  Whatever          *)
(* happened, one more call that goes well leaves what a single call would   *)
(* have (batch.go:30-52, 142-189, 205-274).                                 *)
(***************************************************************************)
BatchTellsTruth ==
  /\ subject.kind = "delete" =>
       LET table == subject.table
           done == DeleteMany(table, subject.ids, subject.fates)
           well == [n \in DOMAIN subject.ids |-> "done"]
           gone == DOMAIN table.rows \ DOMAIN done.table.rows
           heard == {n \in DOMAIN subject.ids : subject.fates[n] # "swallowed"}
       IN  /\ done.ok => gone = DOMAIN table.rows \intersect {subject.ids[n] : n \in heard}
                         /\ ToSet(done.out) = gone /\ Len(done.out) = Cardinality(gone)
           /\ ~done.ok => \E n \in DOMAIN subject.ids :
                            subject.fates[n] \in {"failed", "lost"} /\ gone \subseteq {subject.ids[k] : k \in 1..n}
           /\ DeleteMany(done.table, subject.ids, well).table = DeleteMany(table, subject.ids, well).table
  /\ subject.kind = "upsert" =>
       LET call(table, fate) == UpsertMany(table, subject.items, subject.conflict, fate)
           done == call(subject.table, subject.fate)
           once == call(subject.table, "done")
           ids == {subject.items[n].id : n \in DOMAIN subject.items}
           about(i) == {n \in DOMAIN subject.items : subject.items[n].id = i}
           last(i) == subject.items[CHOOSE n \in about(i) : \A m \in about(i) : m <= n].fields
           assigned == IF subject.conflict = {} THEN CollectAssignFields(subject.items) ELSE subject.conflict
           taken(row) == {<<f, row[f]>> : f \in DOMAIN row \intersect assigned}
       IN  /\ \A i \in DOMAIN subject.table.rows \ ids : done.table.rows[i] = subject.table.rows[i]
           /\ done.ok => \A i \in ids : taken(done.table.rows[i]) = taken(last(i))
           /\ once.ok => call(done.table, "done").table = once.table

Init == subject \in Subjects /\ GraphInit /\ SnapshotsInit /\ QueriesInit
Next ==
  /\ UNCHANGED subject
  /\ \/ subject.kind = "graph" /\ GraphNext /\ UNCHANGED <<snapshotVars, queryVars>>
     \/ subject.kind = "snapshots" /\ SnapshotsNext /\ UNCHANGED <<graphVars, queryVars>>
     \/ subject.kind = "query" /\ QueriesNext /\ UNCHANGED <<graphVars, snapshotVars>>
     \/ UNCHANGED <<graphVars, snapshotVars, queryVars>>
Spec == Init /\ [][Next]_<<subject, graphVars, snapshotVars, queryVars>>
=============================================================================
