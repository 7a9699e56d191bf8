------------------------------- MODULE MCLibrary -------------------------------
\* The inputs: definitions in every shape the builders give them, and schemas of
\* one or two tables, an edge and a bucket, alone and against each other.
EXTENDS Library, TLC

MCFieldTypes == {"string", "int", "record", "any"}
MCNumerals == {"0", "8", "16", "64", "100", "150", "1.2", "1.5"}
MCMisnamed == {"2nd", "a..b"}
MCReserved == {"type", "value", "in", "select"}
\* A field named like a keyword, one that ends in one, an index that has one inside.
MCLooks ==
  [w \in {"type", "value", "subtype", "unique_email"} |->
     CASE w = "type" -> [is |-> "TYPE", ends |-> {"TYPE"}, holds |-> {"TYPE"}]
       [] w = "value" -> [is |-> "VALUE", ends |-> {"VALUE"}, holds |-> {"VALUE"}]
       [] w = "subtype" -> [is |-> Unset, ends |-> {"TYPE"}, holds |-> {"TYPE"}]
       [] OTHER -> [is |-> Unset, ends |-> {}, holds |-> {"UNIQUE"}]]

Optional(words) == {<<>>, words}
MaybeWord(w) == {Unset, w}
Field(n, type) ==
  [name |-> n, type |-> type, assertion |-> <<>>, default |-> <<>>, value |-> <<>>,
   readonly |-> FALSE, flexible |-> FALSE]
Fields ==
  {[name |-> n, type |-> type, assertion |-> a, default |-> d, value |-> v, readonly |-> ro, flexible |-> fx] :
     n \in {"age", "subtype"}, type \in {"int"}, a \in Optional(<<"$value", ">=", "0">>),
     d \in Optional(<<"0">>), v \in Optional(<<"$before", "OR", "8">>), ro \in BOOLEAN, fx \in BOOLEAN}
Orders == {o \in [1..5 -> 1..5] : \A i, j \in 1..5 : i # j => o[i] # o[j]}
FieldSubjects ==
  {[kind |-> "field", def |-> f, order |-> o, permissions |-> p] :
     f \in Fields, o \in Orders, p \in {<<>>, <<"FULL">>}}

ValueOf(p) ==
  CASE p = "DIMENSION" -> "8" [] p = "DIST" -> "COSINE" [] p = "TYPE" -> "F32" [] p = "EFC" -> "150"
    [] p = "M" -> "16" [] p = "DEGREE" -> "16" [] p = "L_BUILD" -> "150" [] p = "ALPHA" -> "1.5"
    [] p = "ANALYZER" -> "simple" [] OTHER -> p
Index(n, type, columns, set) ==
  [name |-> n, type |-> type, columns |-> columns, params |-> [p \in set |-> ValueOf(p)]]
Indexes ==
  {Index(n, type, c, {}) : n \in {"idx", "unique_email"}, type \in {"INDEX", "UNIQUE"}, c \in {<<"a">>, <<"a", "b">>, <<>>}}
    \union UNION {{Index("idx", type, c, set) : set \in SUBSET ToSet(Params(type)), c \in {<<"a">>, <<"a", "b">>}} :
                    type \in {"MTREE", "HNSW", "DISKANN", "SEARCH"}}
IndexSubjects == {[kind |-> "index", def |-> i, columns |-> c] : i \in Indexes, c \in {"COLUMNS", "FIELDS"}}

Event(n, action) == [name |-> n, condition |-> <<"$event", "=", "'CREATE'">>, action |-> action]
EventSubjects ==
  {[kind |-> "event", def |-> Event("made", a), braces |-> b] :
     a \in {<<"CREATE", "log">>, <<"CREATE", "log", ";", "UPDATE", "stats">>}, b \in {TRUE}}
    \union {[kind |-> "event", def |-> Event("made", a), braces |-> FALSE] : a \in {<<"CREATE", "log">>, <<>>}}

Accesses ==
  {[type |-> type, configs |-> c, algorithm |-> al, key |-> k, url |-> u, issuer |-> is,
    signup |-> <<>>, signin |-> <<>>, session |-> s, token |-> t] :
     type \in {"JWT"}, c \in {{}, {"JWT"}}, al \in {Unset, "HS512"}, k \in MaybeWord("'k'"), u \in MaybeWord("'u'"),
     is \in MaybeWord("'i'"), s \in MaybeWord("24h"), t \in MaybeWord("15m")}
    \union {[type |-> "RECORD", configs |-> c, algorithm |-> Unset, key |-> Unset, url |-> Unset, issuer |-> Unset,
             signup |-> up, signin |-> si, session |-> s, token |-> t] :
              c \in {{"RECORD"}}, up \in Optional(<<"CREATE", "user", "(", "name", ")">>),
              si \in Optional(<<"SELECT", "*">>), s \in MaybeWord("24h"), t \in MaybeWord("15m")}
AccessSubjects == {[kind |-> "access", def |-> a] : a \in Accesses}
BucketSubjects ==
  {[kind |-> "bucket", def |-> [backend |-> b, readonly |-> ro, permissions |-> p, comment |-> c]] :
     b \in MaybeWord("'memory'"), ro \in BOOLEAN, p \in {Unset, "FULL", "NONE", "WHERE"}, c \in MaybeWord("'c'")}

(***************************************************************************)
(* Schemas.                                                                 *)
(***************************************************************************)
Nothing == [x \in {} |-> Unset]
Table(mode, fields, indexes) ==
  [mode |-> mode, fields |-> fields, indexes |-> indexes, events |-> <<>>, permissions |-> Nothing]
Person == <<Field("name", "string"), Field("age", "int")>>
TableDefs ==
  {Table(mode, <<>>, <<>>) : mode \in {"SCHEMAFULL", "DROP", "STRICT"}}
    \union {Table("SCHEMAFULL", f, <<>>) :
              f \in {Person, <<Field("age", "string")>>, <<Field("type", "int")>>, <<Field("value", "int")>>,
                     <<Field("2nd", "int")>>, <<Field("age", "int"), Field("age", "string")>>,
                     <<[Field("age", "int") EXCEPT !.default = <<"0">>, !.assertion = <<"$value", ">=", "0">>]>>,
                     <<[Field("owner", "record") EXCEPT !.assertion = <<"$value.table =", "q">>]>>}}
    \union {Table("SCHEMALESS", Person, <<i>>) :
              i \in {Index("by", "INDEX", <<"name", "age">>, {}), Index("by", "UNIQUE", <<"age", "name">>, {}),
                     Index("by", "UNIQUE", <<"name", "age">>, {}), Index("unique_email", "INDEX", <<"name">>, {}),
                     VectorIndex("by", "HNSW", "name", "DIMENSION" :> "8"), Index("by", "HNSW", <<"name">>, {"DIMENSION", "EFC"}),
                     Index("by", "MTREE", <<"name", "age">>, {"DIMENSION"}), Index("by", "MTREE", <<"name">>, {}), VectorIndex("by", "MTREE", "name", "DIMENSION" :> "8"),
                     VectorIndex("by", "DISKANN", "name", "DIMENSION" :> "8"),
                     Index("by", "DISKANN", <<"name">>, {"DIMENSION", "ALPHA"}), Index("by", "SEARCH", <<"zip">>, {"BM25"})}}
    \union {[Table("SCHEMAFULL", Person, <<>>) EXCEPT !.events = <<Event("made", a)>>] :
              a \in {<<"{", "CREATE", "log", "}">>, <<"{", "CREATE", "stats", "}">>, <<>>}}
Plainest == Table("SCHEMAFULL", Person, <<>>)
Edge(mode, from, to) ==
  [mode |-> mode, from |-> from, to |-> to, fields |-> <<Field("in", "record"), Field("age", "int")>>,
   indexes |-> <<>>, events |-> <<>>, permissions |-> Nothing]
EdgeDefs == {Edge("RELATION", "p", "p"), Edge("RELATION", "p", "q"), Edge("RELATION", "p", Unset), Edge("SCHEMAFULL", Unset, Unset)}
Bucket(backend) == [backend |-> backend, readonly |-> FALSE, permissions |-> Unset, comment |-> Unset]
Schema(tables, edges, buckets) == [tables |-> tables, edges |-> edges, buckets |-> buckets, accesses |-> <<>>]

TableSets == {Nothing} \union {"p" :> d : d \in TableDefs} \union {"p" :> Plainest @@ "q" :> Plainest}
EdgeSets == {Nothing} \union {"e" :> d : d \in EdgeDefs}
Schemas ==
  {Schema(T, E, B) : T \in TableSets, E \in EdgeSets \union {"p" :> Edge("RELATION", "p", "p")},
                     B \in {Nothing, "files" :> Bucket("'memory'"), "files" :> Bucket(Unset)}}
Named3 ==
  {Schema("p" :> Plainest, "e" :> Edge("RELATION", "p", "p"), Nothing), Schema("e" :> Plainest, Nothing, Nothing),
   Schema(Nothing, "p" :> Edge("RELATION", "p", "p"), Nothing)}
Compareds == {Schema(T, Nothing, Nothing) : T \in TableSets} \union {Schema("p" :> Plainest, E, Nothing) : E \in EdgeSets} \union Named3

(***************************************************************************)
(* Squashes of two migrations with two and with one statement, over three   *)
(* databases; of three migrations, of which two or three are chosen.        *)
(***************************************************************************)
T == <<"TABLE", "t", "">>
F == <<"FIELD", "t", "f">>
X == <<"INDEX", "t", "x">>
B1 == <<"BUCKET", "", "one">>
B2 == <<"BUCKET", "", "two">>
MCIllegible == {B1, B2}
St(op, mode, o, text) == [op |-> op, mode |-> mode, object |-> o, text |-> text]
Statements ==
  {St(op, "", o, "new") : op \in {"DEFINE", "REMOVE"}, o \in {T, F, X}}
    \union {St("DEFINE", "IF", T, "new"), St("DEFINE", "IF", F, "new"), St("DEFINE", "IF", F, "newer"), St("REMOVE", "IF", F, "")}
    \union {St("DEFINE", "OVERWRITE", T, "newer"), St("DEFINE", "OVERWRITE", F, "newer"), St("DEFINE", "OVERWRITE", X, "newer")}
    \union {St("UPDATE", "", F, ""), St("DEFINE", "", B1, "new"), St("DEFINE", "", B2, "new"), St("DELETE", "", T, "")}
Opposite(s) == IF s.op = "DEFINE" THEN St("REMOVE", "", s.object, "") ELSE St("DEFINE", "", s.object, "new")
Migration(v, up) == [version |-> v, up |-> up, down |-> [n \in DOMAIN up |-> Opposite(up[n])]]
Database(objects, filled) == [ok |-> TRUE, defs |-> [o \in objects |-> "old"], filled |-> filled]
Ups == {<<a>> : a \in Statements} \union {<<a, b>> : a \in Statements, b \in Statements}
SquashesOfTwo ==
  {[kind |-> "squash", migrations |-> <<Migration(1, a), Migration(2, <<b>>)>>, from |-> 0, to |-> 0, db |-> db] :
     a \in Ups, b \in Statements, db \in {Database({}, {}), Database({T}, {}), Database({T, F}, {F})}}
Few == {St(op, "", o, "new") : op \in {"DEFINE", "REMOVE"}, o \in {T, F}} \union {s \in Statements : s.mode = "IF"}
SquashesOfThree ==
  {[kind |-> "squash", migrations |-> <<Migration(1, <<a>>), Migration(2, <<b>>), Migration(3, <<c>>)>>,
    from |-> from, to |-> to, db |-> Database({T, F}, {})] :
     a \in Few, b \in Few, c \in Few, from \in {0, 2}, to \in {0, 2}}

(***************************************************************************)
(* Queries, pages of a table of up to four records, batches of up to three. *)
(***************************************************************************)
MCCall ==
  {C("Select", <<"name">>), C("Select", <<>>), C("FromTable", <<"p">>), C("Where", <<"adult">>), C("Where", <<"tall">>),
   C("OrderBy", <<"n ASC">>), C("GroupBy", <<"a", "b">>), C("GroupAll", <<>>), C("Limit", <<2>>), C("Offset", <<1>>),
   C("SearchScore", <<"score">>), C("Join", <<"j">>), C("WithHints", <<"TIMEOUT", "USE INDEX a">>), C("UseIndex", <<"USE INDEX b">>),
   C("Update", <<"p:1", "x">>), C("Upsert", <<"p:1", "y">>), C("Insert", <<"p", "x">>), C("Delete", <<"p">>),
   C("Relate", <<"e", "p:1", "p:2">>), C("Traverse", <<"->e->p">>), C("WithReturnFormat", <<"NONE">>),
   C("FullTextSearch", <<"bio", "1", "go">>), C("VectorSearch", <<"v", "3", "COSINE">>),
   C("VectorSearch", <<"v", "3", "COSINE", "0.5">>), C("VectorSearchIndexed", <<"v", "2", "40">>)}
MCStart == <<C("Select", <<>>), C("FromTable", <<"p">>)>>
MCMeaning == [c \in {"adult", "tall"} |-> IF c = "adult" THEN {2, 3, 4} ELSE {1, 3}]
PageSubjects ==
  {[kind |-> "page", table |-> t, opts |-> [conditions |-> c, orderBy |-> o, limit |-> l, offset |-> f]] :
     t \in SUBSET (1..4), c \in {<<>>, <<"adult">>, <<"tall">>, <<"adult", "tall">>},
     o \in {<<>>, <<"ASC">>, <<"DESC">>, <<"desc">>}, l \in {<<>>, <<1>>, <<2>>, <<3>>}, f \in {<<>>, <<0>>, <<1>>, <<3>>}}
Rows == {[exists |-> FALSE, rows |-> Nothing]}
        \union {[exists |-> TRUE, rows |-> r] : r \in {Nothing, 1 :> ("a" :> "old"), 1 :> ("a" :> "old" @@ "b" :> "old") @@ 2 :> Nothing}}
Fates == {"done", "failed", "lost"}
DeleteSubjects ==
  {[kind |-> "delete", table |-> t, ids |-> i, fates |-> f] : t \in Rows, i \in [1..3 -> 1..3], f \in [1..3 -> Fates \union {"swallowed"}]}
Items == {[id |-> i, fields |-> f] : i \in 1..2, f \in {Nothing, "a" :> "new", "b" :> "new", "a" :> "newer" @@ "b" :> "newer"}}
UpsertSubjects ==
  {[kind |-> "upsert", table |-> t, items |-> i, conflict |-> c, fate |-> f] :
     t \in Rows, i \in UNION {[1..n -> Items] : n \in 1..2}, c \in SUBSET {"a", "b"}, f \in Fates}

MCSubjects ==
  FieldSubjects \union IndexSubjects \union EventSubjects \union AccessSubjects \union BucketSubjects
    \union {[kind |-> "schema", code |-> r] : r \in Schemas}
    \union {[kind |-> "drift", code |-> c, other |-> o] : c \in Compareds, o \in Compareds}
    \union {[kind |-> "graph"], [kind |-> "snapshots"], [kind |-> "query"]}
    \union PageSubjects \union DeleteSubjects \union UpsertSubjects \union SquashesOfThree \union SquashesOfTwo

MCVersion == 1..5
================================================================================
