------------------------------ MODULE SchemaText ------------------------------
(***************************************************************************)
(* Definitions and their text: the DEFINE statements the schema package     *)
(* writes (src/pkg/surql/schema/table.go, fields.go, edge.go, access.go,    *)
(* bucket.go, sql.go), what a database makes of them, and what parser.go    *)
(* reads back out of its INFO answers.                                      *)
(*                                                                          *)
(* A statement is a sequence of words.  The parser looks for keywords with  *)
(* regular expressions over the whole text, names and expressions included, *)
(* so a word that is no keyword may be taken for one: Looks says how.       *)
(***************************************************************************)
EXTENDS Integers, Sequences, SequencesExt, FiniteSetsExt, TLC

CONSTANTS
  FieldTypes,   \* the words for a type
  Numerals,     \* the words that are numbers
  Looks,        \* word |-> [is, ends, holds]: the keyword it is when case is
                \* ignored, the keywords it ends in, those it has inside
  Misnamed      \* names Validate refuses: a digit in front, an empty segment

Unset == ""
Bad == [refused |-> TRUE]

Is(w, k) == w = k \/ (w \in DOMAIN Looks /\ Looks[w].is = k)
EndsIn(w, k) == w = k \/ (w \in DOMAIN Looks /\ k \in Looks[w].ends)
Holds(w, k) == w = k \/ (w \in DOMAIN Looks /\ k \in Looks[w].holds)
Plain(w) == w \notin DOMAIN Looks

(***************************************************************************)
(* Statements.  of names the object, guarded is IF NOT EXISTS.              *)
(***************************************************************************)
Define(of, guarded, words) == [of |-> of, guarded |-> guarded, words |-> words]
Head3(part, name, t) == <<"DEFINE", part, name, "ON", "TABLE", t>>
Clause(k, words) == IF words = <<>> THEN <<>> ELSE <<k>> \o words
Word(k, w) == IF w = Unset THEN <<>> ELSE <<k, w>>
Paren(k, words) == IF words = <<>> THEN <<>> ELSE <<k, "(">> \o words \o <<")">>
Flag(k, on) == IF on THEN <<k>> ELSE <<>>

\* [name, type, assertion, default, value, readonly, flexible]; the field's
\* permissions are not written.
FieldClauses(f) ==
  <<Clause("ASSERT", f.assertion), Clause("DEFAULT", f.default), Clause("VALUE", f.value),
    Flag("READONLY", f.readonly), Flag("FLEXIBLE", f.flexible)>>
FieldToSurql(f, t) ==
  Head3("FIELD", f.name, t) \o <<"TYPE", f.type>> \o FlattenSeq(FieldClauses(f)) \o <<";">>

\* [name, columns, type, params]; params holds what is set of the parameters
\* its type has.
Params(type) ==
  CASE type = "MTREE" -> <<"DIMENSION", "DIST", "TYPE">>
    [] type = "HNSW" -> <<"DIMENSION", "DIST", "TYPE", "EFC", "M">>
    [] type = "DISKANN" -> <<"DIMENSION", "DIST", "TYPE", "DEGREE", "L_BUILD", "ALPHA", "HASHED_VECTOR">>
    [] type = "SEARCH" -> <<"ANALYZER", "BM25", "HIGHLIGHTS">>
    [] OTHER -> <<>>
OnOff == {"HASHED_VECTOR", "BM25", "HIGHLIGHTS"}
Vector == {"MTREE", "HNSW", "DISKANN"}
Default(type, p) ==
  CASE type = "DISKANN" /\ p = "DIST" -> "EUCLIDEAN"
    [] type = "DISKANN" /\ p = "TYPE" -> "F32"
    [] type = "DISKANN" /\ p = "DEGREE" -> "64"
    [] type = "DISKANN" /\ p = "L_BUILD" -> "100"
    [] type = "DISKANN" /\ p = "ALPHA" -> "1.2"
    [] type = "SEARCH" /\ p = "ANALYZER" -> "ascii"
    [] OTHER -> Unset
\* A vector index as its builder makes it: the options, and the engine's defaults.
BuilderDefaults(type) ==
  IF type = "DISKANN" THEN [p \in {"DIST", "TYPE", "DEGREE", "L_BUILD", "ALPHA"} |-> Default(type, p)]
  ELSE [p \in {"DIST", "TYPE"} |-> IF p = "DIST" THEN "EUCLIDEAN" ELSE "F64"]
VectorIndex(n, type, column, options) ==
  [name |-> n, type |-> type, columns |-> <<column>>, params |-> options @@ BuilderDefaults(type)]
Param(i, p) == IF p \in DOMAIN i.params THEN i.params[p] ELSE Default(i.type, p)
ParamWords(i, p) == IF p \in OnOff THEN Flag(p, p \in DOMAIN i.params) ELSE Word(p, Param(i, p))
Keyword(type) ==
  CASE type = "INDEX" -> <<>> [] type = "SEARCH" -> <<"FULLTEXT">> [] OTHER -> <<type>>
IndexToSurql(i, t) ==
  Head3("INDEX", i.name, t)
    \o <<"COLUMNS">> \o (IF i.type \in Vector THEN <<i.columns[1]>> ELSE i.columns)
    \o Keyword(i.type)
    \o FlattenSeq([n \in DOMAIN Params(i.type) |-> ParamWords(i, Params(i.type)[n])]) \o <<";">>

\* [name, condition, action]
EventToSurql(e, t) ==
  Head3("EVENT", e.name, t) \o <<"WHEN">> \o e.condition \o <<"THEN">> \o e.action \o <<";">>

TableToSurql(t, d) == <<"DEFINE", "TABLE", t, d.mode, ";">>
EdgeToSurql(t, d) ==
  <<"DEFINE", "TABLE", t>>
    \o (IF d.mode = "RELATION" THEN <<"TYPE", "RELATION">> \o Word("FROM", d.from) \o Word("TO", d.to)
        ELSE <<d.mode>>) \o <<";">>

\* What a table and an edge have in common: fields, indexes and events in order.
Children(t, d, guarded) ==
  [n \in DOMAIN d.fields |-> Define(<<"field", t, d.fields[n].name>>, guarded, FieldToSurql(d.fields[n], t))]
    \o [n \in DOMAIN d.indexes |-> Define(<<"index", t, d.indexes[n].name>>, guarded, IndexToSurql(d.indexes[n], t))]
    \o [n \in DOMAIN d.events |-> Define(<<"event", t, d.events[n].name>>, guarded, EventToSurql(d.events[n], t))]

GenerateTableSQL(t, d, guarded) ==
  <<Define(<<"table", t>>, guarded, TableToSurql(t, d))>> \o Children(t, d, guarded)
Relates(d) == d.mode = "RELATION" => d.from # Unset /\ d.to # Unset

\* A mutant of GenerateEdgeSQL: an edge is defined anew whatever is there.
GenerateEdgeAnew(t, d, guarded) ==
  <<Define(<<"table", t>>, FALSE, EdgeToSurql(t, d))>> \o Children(t, d, FALSE)

GenerateEdgeSQL(t, d, guarded) ==
  <<Define(<<"table", t>>, guarded, EdgeToSurql(t, d))>> \o Children(t, d, guarded)

\* [type, configs, algorithm, key, url, issuer, signup, signin, session, token];
\* configs holds which of the two configurations are there.
Named(k, n, w) == IF w = Unset THEN <<>> ELSE <<k, n, w>>
AccessToSurql(n, a) ==
  <<"DEFINE", "ACCESS", n, "ON", "DATABASE", "TYPE", a.type>>
    \o (IF a.type \notin a.configs THEN <<>>
        ELSE IF a.type = "JWT"
        THEN <<"ALGORITHM", IF a.algorithm = Unset THEN "HS256" ELSE a.algorithm>>
               \o Word("KEY", a.key) \o Word("URL", a.url) \o Named("WITH", "ISSUER", a.issuer)
        ELSE Paren("SIGNUP", a.signup) \o Paren("SIGNIN", a.signin))
    \o Flag("DURATION", a.session # Unset \/ a.token # Unset)
    \o Named("FOR", "SESSION", a.session) \o Named("FOR", "TOKEN", a.token) \o <<";">>

\* [backend, readonly, permissions, comment]
BucketToSurql(b, d) ==
  <<"DEFINE", "BUCKET", b, "BACKEND", d.backend>> \o Flag("READONLY", d.readonly)
    \o Word("PERMISSIONS", d.permissions) \o Word("COMMENT", d.comment) \o <<";">>
BucketValid(b, d) == b \notin Misnamed /\ d.backend # Unset

\* The script of a registry [tables, edges, buckets]: buckets, tables, edges, by
\* name; one bucket or edge refused, and there is no script.
EachName(S, Op(_)) == FlattenSeq([n \in 1..Cardinality(S) |-> Op(SetToSeq(S)[n])])
Generates(r) ==
  /\ \A b \in DOMAIN r.buckets : BucketValid(b, r.buckets[b])
  /\ \A t \in DOMAIN r.edges : Relates(r.edges[t])
GenerateSchemaSQL(r, guarded) ==
  EachName(DOMAIN r.buckets, LAMBDA b : <<Define(<<"bucket", b>>, guarded, BucketToSurql(b, r.buckets[b]))>>)
    \o EachName(DOMAIN r.tables, LAMBDA t : GenerateTableSQL(t, r.tables[t], guarded))
    \o EachName(DOMAIN r.edges, LAMBDA t : GenerateEdgeSQL(t, r.edges[t], guarded))

(***************************************************************************)
(* The database (external): the text of what is defined, by object.         *)
(***************************************************************************)
Put(db, s) == [o \in DOMAIN db \union {s.of} |-> IF o = s.of THEN s.words ELSE db[o]]
Run(db, script) ==
  FoldLeft(LAMBDA d, s : IF s.guarded /\ s.of \in DOMAIN d THEN d ELSE Put(d, s), db, script)

(***************************************************************************)
(* The parser.                                                              *)
(***************************************************************************)
Found(words, Match(_)) == {i \in DOMAIN words : Match(words[i])}
FirstAt(words, Match(_)) == Min(Found(words, Match))
Has(words, Match(_)) == Found(words, Match) # {}

\* The word after the first keyword that a fitting word follows.
After(words, Match(_), Fits(_)) ==
  LET at == {i \in Found(words, Match) : i < Len(words) /\ Fits(words[i + 1])}
  IN  IF at = {} THEN Unset ELSE words[Min(at) + 1]
Letters(w) == w \notin Numerals /\ w # ";"
Quoted(w) == w \notin {"ON", ";"}

\* What stands between a keyword and the first of the stops, one word at least.
Between(words, Match(_), stops) ==
  IF ~Has(words, Match) THEN <<>>
  ELSE LET at == FirstAt(words, Match)
           ends == {i \in at + 2..Len(words) : words[i] = ";" \/ \E k \in stops : Is(words[i], k)}
       IN  SubSeq(words, at + 1, IF ends = {} THEN Len(words) ELSE Min(ends) - 1)

ParseFieldType(words) ==
  LET type == After(words, LAMBDA w : EndsIn(w, "TYPE"), Letters)
  IN  IF type \in FieldTypes THEN type ELSE "any"
FieldStops == {"DEFAULT", "VALUE", "READONLY", "FLEXIBLE", "PERMISSIONS", "ASSERT"}

\* A mutant of FieldExpression: an assertion is not an end.
FieldExpressionOpen(words, k) == Between(words, LAMBDA w : Is(w, k), FieldStops \ {k, "ASSERT"})

FieldExpression(words, k) == Between(words, LAMBDA w : Is(w, k), FieldStops \ {k})
ParseField(n, words) ==
  [name |-> n, type |-> ParseFieldType(words),
   assertion |-> FieldExpression(words, "ASSERT"), default |-> FieldExpression(words, "DEFAULT"),
   value |-> FieldExpression(words, "VALUE"),
   readonly |-> Has(words, LAMBDA w : Is(w, "READONLY")),
   flexible |-> Has(words, LAMBDA w : Is(w, "FLEXIBLE"))]

\* The first kind whose keyword is anywhere in the text.
ParseIndexType(words) ==
  LET has(k) == Has(words, LAMBDA w : Holds(w, k)) IN
  CASE has("UNIQUE") -> "UNIQUE" [] OTHER ->
  CASE has("HNSW") -> "HNSW" [] OTHER ->
  CASE has("MTREE") -> "MTREE" [] OTHER ->
  CASE has("DISKANN") -> "DISKANN" [] OTHER ->
  IF has("FULLTEXT") \/ has("SEARCH") THEN "SEARCH" ELSE "INDEX"
IndexStops == {"UNIQUE", "FULLTEXT", "SEARCH", "HNSW", "MTREE", "DISKANN"}
Numeric == {"DIMENSION", "EFC", "M", "DEGREE", "L_BUILD", "ALPHA"}
ParseColumns(words) ==
  LET columns == Between(words, LAMBDA w : EndsIn(w, "COLUMNS"), IndexStops)
  IN  IF columns # <<>> THEN columns ELSE Between(words, LAMBDA w : EndsIn(w, "FIELDS"), IndexStops)
Distances(type) ==
  CASE type = "MTREE" -> {"COSINE", "EUCLIDEAN", "MANHATTAN", "MINKOWSKI"}
    [] type = "HNSW" -> {"CHEBYSHEV", "COSINE", "EUCLIDEAN", "HAMMING", "JACCARD", "MANHATTAN", "MINKOWSKI", "PEARSON"}
    [] type = "DISKANN" -> {"COSINE", "COSINE_NORMALIZED", "EUCLIDEAN", "INNER_PRODUCT"}
    [] OTHER -> {}
VectorTypes == {"F64", "F32", "F16", "I64", "I32", "I16", "I8", "U8"}
Known(type, p, w) ==
  CASE p = "DIST" -> w \in Distances(type) [] p = "TYPE" -> w \in VectorTypes [] OTHER -> TRUE
ParseParam(words, type, p) ==
  LET read == CASE p \in OnOff -> IF Has(words, LAMBDA w : Holds(w, p)) THEN p ELSE Unset
                [] p \in Numeric -> After(words, LAMBDA w : IF p = "DIMENSION" THEN EndsIn(w, p) ELSE Is(w, p),
                                            LAMBDA w : w \in Numerals)
                [] p = "DIST" -> After(words, LAMBDA w : EndsIn(w, "DIST") \/ EndsIn(w, "DISTANCE"), Letters)
                [] OTHER -> After(words, LAMBDA w : EndsIn(w, p), Letters)
  IN  IF (p = "ANALYZER" /\ read = "ascii") \/ ~Known(type, p, read) THEN Unset ELSE read
ParseIndex(n, words) ==
  LET type == ParseIndexType(words)
      set == {p \in ToSet(Params(type)) : ParseParam(words, type, p) # Unset}
  IN  [name |-> n, type |-> type, columns |-> ParseColumns(words),
       params |-> [p \in set |-> ParseParam(words, type, p)]]

\* Braces around the action are dropped; without them it ends at a semicolon.
ParseAction(words) ==
  LET then(w) == EndsIn(w, "THEN")
      at == FirstAt(words, then)
      closes == {i \in at + 2..Len(words) : words[i] = "}" /\ (i = Len(words) \/ words[i + 1] = ";")}
  IN  IF Has(words, then) /\ words[at + 1] = "{" /\ closes # {} THEN SubSeq(words, at + 2, Min(closes) - 1)
      ELSE Between(words, then, {})
ParseEvent(n, words) ==
  [name |-> n, condition |-> Between(words, LAMBDA w : EndsIn(w, "WHEN"), {"THEN"}), action |-> ParseAction(words)]

\* What the parentheses after the first mention of a keyword enclose.
InParens(words, k) ==
  LET at == FirstAt(words, LAMBDA w : Holds(w, k))
      open(j) == Cardinality({i \in at + 1..j : words[i] = "("})
      shut(j) == Cardinality({i \in at + 1..j : words[i] = ")"})
      closes == {j \in at + 1..Len(words) : words[j] = ")" /\ open(j) = shut(j)}
  IN  IF ~Has(words, LAMBDA w : Holds(w, k)) \/ words[at + 1] # "(" \/ closes = {} THEN <<>>
      ELSE SubSeq(words, at + 2, Min(closes) - 1)
\* The text after FOR SESSION and FOR TOKEN, within what follows DURATION.
ParseDuration(words, k) ==
  LET block == Between(words, LAMBDA w : EndsIn(w, "DURATION"), {})
      at == {i \in 1..Len(block) - 2 : EndsIn(block[i], "FOR") /\ Is(block[i + 1], k)}
  IN  IF at = {} THEN Unset ELSE block[Min(at) + 2]
NoAccess ==
  [type |-> Unset, configs |-> {}, algorithm |-> Unset, key |-> Unset, url |-> Unset, issuer |-> Unset,
   signup |-> <<>>, signin |-> <<>>, session |-> Unset, token |-> Unset]
ParseAccess(words) ==
  LET type == After(words, LAMBDA w : EndsIn(w, "TYPE"), LAMBDA w : w \in {"JWT", "RECORD"})
      quoted(k) == After(words, LAMBDA w : Is(w, k), Quoted)
      timed == [NoAccess EXCEPT !.type = type, !.configs = {type}, !.session = ParseDuration(words, "SESSION"),
                                !.token = ParseDuration(words, "TOKEN")]
  IN  CASE type = "JWT" -> [timed EXCEPT !.algorithm = After(words, LAMBDA w : EndsIn(w, "ALGORITHM"), Letters),
                              !.key = quoted("KEY"), !.url = quoted("URL"), !.issuer = quoted("ISSUER")]
        [] type = "RECORD" -> [timed EXCEPT !.signup = InParens(words, "SIGNUP"), !.signin = InParens(words, "SIGNIN")]
        [] OTHER -> Bad

\* Of the permissions only the blanket forms are read.
ParseBucket(words) ==
  LET permissions == After(words, LAMBDA w : EndsIn(w, "PERMISSIONS"), LAMBDA w : w \in {"FULL", "NONE"})
  IN  [backend |-> After(words, LAMBDA w : EndsIn(w, "BACKEND"), Quoted),
       readonly |-> Has(words, LAMBDA w : Is(w, "READONLY")),
       permissions |-> permissions,
       comment |-> After(words, LAMBDA w : Is(w, "COMMENT"), Quoted)]

ParseTableMode(words) ==
  LET has(k) == Has(words, LAMBDA w : Holds(w, k)) IN
  CASE has("SCHEMAFULL") -> "SCHEMAFULL" [] OTHER ->
  IF ~has("SCHEMALESS") /\ has("DROP") THEN "DROP" ELSE "SCHEMALESS"
IsEdge(words) ==
  \E i \in 1..Len(words) - 1 : EndsIn(words[i], "TYPE") /\ Holds(words[i + 1], "RELATION")
ParseEdge(words) ==
  [mode |-> "RELATION", from |-> After(words, LAMBDA w : EndsIn(w, "FROM"), Letters),
   to |-> After(words, LAMBDA w : Is(w, "TO"), Letters)]

\* ParseDBInfo tells tables from edges, ParseTableInfo and ParseEdgeInfo read
\* what is on them; what does not parse is passed over.
Texts(db, kind, t) == {o \in DOMAIN db : Len(o) = 3 /\ o[1] = kind /\ o[2] = t}
Parsed(db, kind, t, Parse(_, _)) ==
  [o \in {p[3] : p \in Texts(db, kind, t)} |-> Parse(o, db[<<kind, t, o>>])]
ParseChildren(db, t) ==
  LET events == Parsed(db, "event", t, ParseEvent)
  IN  [fields |-> Parsed(db, "field", t, ParseField),
       indexes |-> Parsed(db, "index", t, ParseIndex),
       events |-> [n \in {m \in DOMAIN events : events[m].condition # <<>> /\ events[m].action # <<>>} |-> events[n]]]
ParseInfo(db) ==
  LET named(kind) == {o[2] : o \in {p \in DOMAIN db : p[1] = kind}}
      edges == {t \in named("table") : IsEdge(db[<<"table", t>>])}
  IN  [tables |-> [t \in named("table") \ edges |->
                     [mode |-> ParseTableMode(db[<<"table", t>>])] @@ ParseChildren(db, t)],
       edges |-> [t \in edges |-> ParseEdge(db[<<"table", t>>]) @@ ParseChildren(db, t)],
       buckets |-> [b \in named("bucket") |-> ParseBucket(db[<<"bucket", b>>])]]
=============================================================================
