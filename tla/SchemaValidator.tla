---------------------------- MODULE SchemaValidator ----------------------------
(***************************************************************************)
(* What the schema package says of a schema: whether its definitions are    *)
(* sound, one by one and together, and how a database differs from it       *)
(* (src/pkg/surql/schema/validator.go and the Validate methods).            *)
(*                                                                          *)
(* A report is a set of results.  Fields, indexes and events are lists and  *)
(* may repeat a name; tables, edges and buckets are registered by name.     *)
(***************************************************************************)
EXTENDS SchemaText

CONSTANT Reserved   \* field names that are reserved words of the database

Result(severity, at, what) == [severity |-> severity, at |-> at, what |-> what]
When(holds, result) == IF holds THEN {result} ELSE {}
Errors(results) == {r \in results : r.severity = "error"}

(***************************************************************************)
(* One definition.                                                          *)
(***************************************************************************)
FieldValid(f) == f.name # Unset /\ f.name \notin Misnamed /\ f.type \in FieldTypes

\* The vector kinds have a dimension, a metric and a component type of their own.
ForMTree == {"F64", "F32", "I64", "I32", "I16"}
ForDiskAnn == {"F32", "F16", "I8", "U8"}
Components(type) ==
  CASE type = "MTREE" -> ForMTree [] type = "DISKANN" -> ForDiskAnn [] OTHER -> VectorTypes
VectorValid(i) ==
  /\ "DIMENSION" \in DOMAIN i.params /\ i.params["DIMENSION"] # "0"
  /\ "DIST" \in DOMAIN i.params => i.params["DIST"] \in Distances(i.type)
  /\ "TYPE" \in DOMAIN i.params => i.params["TYPE"] \in Components(i.type)
IndexValid(i) ==
  /\ i.name # Unset
  /\ i.type \in {"INDEX", "UNIQUE", "SEARCH"} \union Vector
  /\ i.columns # <<>> /\ Unset \notin ToSet(i.columns)
  /\ i.type \in Vector => VectorValid(i)

EventValid(e) == e.name # Unset /\ e.condition # <<>> /\ e.action # <<>>

\* The results for a list: a name seen before, a definition that is not valid,
\* and what Remark says of one that is.
Listed(t, kind, list, Valid(_), Remark(_)) ==
  UNION {IF list[n].name # Unset /\ \E m \in 1..n - 1 : list[m].name = list[n].name
         THEN {Result("error", <<t, kind, list[n].name>>, "duplicate")}
         ELSE IF ~Valid(list[n]) THEN {Result("error", <<t, kind, list[n].name>>, "invalid")}
         ELSE Remark(list[n]) : n \in DOMAIN list}

ValidateFieldList(t, fields, edge) ==
  Listed(t, "field", fields, FieldValid,
    LAMBDA f : When(f.name \in Reserved /\ ~(edge /\ f.name \in {"in", "out"}),
                    Result("warning", <<t, "field", f.name>>, "reserved word")))
ValidateIndexList(t, indexes, fields) ==
  LET known == {fields[n].name : n \in DOMAIN fields}
  IN  Listed(t, "index", indexes, IndexValid,
        LAMBDA i : When(known # {} /\ ~(ToSet(i.columns) \subseteq known),
                        Result("warning", <<t, "index", i.name>>, "unknown column")))
ValidateEventList(t, events) == Listed(t, "event", events, EventValid, LAMBDA e : {})
ValidatePermissions(t, permissions) ==
  {Result("warning", <<t, "permission", o>>, "unknown action") :
     o \in DOMAIN permissions \ {"select", "create", "update", "delete"}}
  \union {Result("error", <<t, "permission", o>>, "empty") : o \in {p \in DOMAIN permissions : permissions[p] = Unset}}

ValidateContents(t, d, edge) ==
  ValidateFieldList(t, d.fields, edge) \union ValidateIndexList(t, d.indexes, d.fields)
    \union ValidateEventList(t, d.events) \union ValidatePermissions(t, d.permissions)
ValidateTable(t, d) ==
  When(d.mode \notin {"SCHEMAFULL", "SCHEMALESS", "DROP"}, Result("error", <<t>>, "invalid mode"))
    \union ValidateContents(t, d, FALSE)
ValidateEdge(t, d) ==
  When(d.mode \notin {"RELATION", "SCHEMAFULL", "SCHEMALESS"}, Result("error", <<t>>, "invalid mode"))
    \union {Result("error", <<t>>, end) : end \in {e \in {"from", "to"} : d.mode = "RELATION" /\ d[e] = Unset}}
    \union ValidateContents(t, d, TRUE)

ValidateAccess(n, a) ==
  LET error(what) == Result("error", <<n>>, what)
      warning(what) == Result("warning", <<n>>, what)
      configured == a.type \in a.configs
  IN  When(a.type \notin {"JWT", "RECORD"}, error("invalid type"))
        \union When(a.type \in {"JWT", "RECORD"} /\ ~configured, error("no configuration"))
        \union When(a.type = "JWT" /\ configured /\ a.key = Unset /\ a.url = Unset, error("neither key nor url"))
        \union When(a.type = "JWT" /\ configured /\ a.key # Unset /\ a.url # Unset, warning("both key and url"))
        \union When(a.type = "RECORD" /\ configured /\ a.signup \o a.signin = <<>>, warning("neither signup nor signin"))
        \union When(a.type \in {"JWT", "RECORD"} /\ a.configs \ {a.type} # {}, warning("other configuration"))

(***************************************************************************)
(* The schema as a whole.                                                   *)
(***************************************************************************)
DetectNameCollisions(tables, edges) ==
  {Result("error", <<t>>, "name conflict") : t \in DOMAIN tables \intersect DOMAIN edges}

\* The table RecordField wrote into the assertion of a record field.
RecordTarget(f) ==
  LET at == {n \in 1..Len(f.assertion) - 1 : f.assertion[n] = "$value.table ="}
  IN  IF f.type # "record" \/ at = {} THEN {} ELSE {f.assertion[Min(at) + 1]}
DetectRecordFieldTargets(tables, edges) ==
  LET walk(t, fields) ==
        {Result("warning", <<t, "field", fields[n].name>>, "unknown table") :
           n \in {m \in DOMAIN fields : ~(RecordTarget(fields[m]) \subseteq DOMAIN tables \union DOMAIN edges)}}
  IN  UNION {walk(t, tables[t].fields) : t \in DOMAIN tables}
        \union UNION {walk(t, edges[t].fields) : t \in DOMAIN edges}
DetectDuplicateAccessNames(accesses) ==
  {Result("error", <<accesses[n].name>>, "duplicate") :
     n \in {k \in DOMAIN accesses : \E j \in 1..k - 1 : accesses[j].name = accesses[k].name}}
DetectEdgeTableReferences(tables, edges) ==
  {Result("warning", <<p[1]>>, p[2]) :
     p \in {q \in (DOMAIN edges) \X {"from", "to"} :
              /\ edges[q[1]].mode = "RELATION"
              /\ edges[q[1]][q[2]] \notin {Unset} \union DOMAIN tables}}

\* A mutant of ValidateSchema: tables and edges looked at apart.
ValidateApart(r) ==
  UNION {ValidateTable(t, r.tables[t]) : t \in DOMAIN r.tables}
    \union UNION {ValidateEdge(t, r.edges[t]) : t \in DOMAIN r.edges}
    \union UNION {ValidateAccess(r.accesses[n].name, r.accesses[n]) : n \in DOMAIN r.accesses}
    \union DetectRecordFieldTargets(r.tables, r.edges)
    \union DetectEdgeTableReferences(r.tables, r.edges)
    \union DetectDuplicateAccessNames(r.accesses)

ValidateSchema(r) ==
  UNION {ValidateTable(t, r.tables[t]) : t \in DOMAIN r.tables}
    \union UNION {ValidateEdge(t, r.edges[t]) : t \in DOMAIN r.edges}
    \union UNION {ValidateAccess(r.accesses[n].name, r.accesses[n]) : n \in DOMAIN r.accesses}
    \union DetectNameCollisions(r.tables, r.edges)
    \union DetectRecordFieldTargets(r.tables, r.edges)
    \union DetectEdgeTableReferences(r.tables, r.edges)
    \union DetectDuplicateAccessNames(r.accesses)

(***************************************************************************)
(* The schema in the code against the one read from a database.             *)
(***************************************************************************)
ByName(list) ==
  [n \in {list[k].name : k \in DOMAIN list} |-> list[Max({k \in DOMAIN list : list[k].name = n})]]
Presence(at, code, db) ==
  {Result("error", at \o <<n>>, "missing from database") : n \in DOMAIN code \ DOMAIN db}
    \union {Result("warning", at \o <<n>>, "not defined in code") : n \in DOMAIN db \ DOMAIN code}
Mismatch(severity, at, code, db, parts) ==
  {Result(severity, at, p) : p \in {q \in parts : code[q] # db[q]}}
Both(code, db) == DOMAIN code \intersect DOMAIN db

DiffField(at, code, db) ==
  Mismatch("error", at, code, db, {"type"})
    \union Mismatch("warning", at, code, db, {"assertion", "default", "value"})
    \union Mismatch("info", at, code, db, {"readonly", "flexible"})
DiffFields(t, code, db) ==
  Presence(<<t, "field">>, code, db)
    \union UNION {DiffField(<<t, "field", n>>, code[n], db[n]) : n \in Both(code, db)}

SameColumns(a, b) ==
  Len(a) = Len(b) /\ \A c \in ToSet(a) \union ToSet(b) :
    Cardinality({n \in DOMAIN a : a[n] = c}) = Cardinality({n \in DOMAIN b : b[n] = c})
Setting(i, p) == IF p \in DOMAIN i.params THEN i.params[p] ELSE Unset
DiffParams(at, code, db) ==
  {Result(IF p = "DIMENSION" THEN "error" ELSE "warning", at, p) :
     p \in {q \in ToSet(Params(code.type)) : Setting(code, q) # Setting(db, q)}}
DiffIndex(at, code, db) ==
  Mismatch("error", at, code, db, {"type"})
    \union When(~SameColumns(code.columns, db.columns), Result("error", at, "columns"))
    \union (IF code.type = db.type /\ code.type \in {"MTREE", "HNSW"} THEN DiffParams(at, code, db) ELSE {})

\* A mutant of DiffIndexes: that an index of the name is there is enough.
DiffIndexesByName(t, code, db) == Presence(<<t, "index">>, code, db)

DiffIndexes(t, code, db) ==
  Presence(<<t, "index">>, code, db)
    \union UNION {DiffIndex(<<t, "index", n>>, code[n], db[n]) : n \in Both(code, db)}
DiffEvents(t, code, db) == Presence(<<t, "event">>, code, db)

DiffContents(t, code, db) ==
  DiffFields(t, ByName(code.fields), db.fields)
    \union DiffIndexes(t, ByName(code.indexes), db.indexes)
    \union DiffEvents(t, ByName(code.events), db.events)
DiffTable(t, code, db) ==
  Mismatch("error", <<t>>, code, db, {"mode"}) \union DiffContents(t, code, db)
DiffEdge(t, code, db) ==
  Mismatch("error", <<t>>, code, db, {"mode", "from", "to"}) \union DiffContents(t, code, db)
CompareSchemas(code, db) ==
  Presence(<<>>, code.tables, db.tables)
    \union UNION {DiffTable(t, code.tables[t], db.tables[t]) : t \in Both(code.tables, db.tables)}
    \union Presence(<<>>, code.edges, db.edges)
    \union UNION {DiffEdge(t, code.edges[t], db.edges[t]) : t \in Both(code.edges, db.edges)}
=============================================================================
