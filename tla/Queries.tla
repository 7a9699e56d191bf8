-------------------------------- MODULE Queries --------------------------------
(***************************************************************************)
(* The query builder (src/pkg/surql/query/builder.go, hints.go).  Every     *)
(* method copies the query, changes the copy and returns it, so a program   *)
(* may go on from any query it holds, several times.                        *)
(*                                                                          *)
(* A query's lists are Go slices: a part of an array that other slices may  *)
(* share.  append writes into the array where there is room and moves to a  *)
(* new one where there is not; how much room a new array has is up to Go,   *)
(* and here the same for all.                                               *)
(* All else of a query is a value, kept as a tuple that is empty if unset.  *)
(***************************************************************************)
EXTENDS Integers, Sequences, FiniteSets, SequencesExt, TLC

CONSTANTS Call,         \* the calls: [to, args]
          Start,        \* the calls behind the first query the program holds
          Room,         \* room in a new array
          MaxQueries    \* bound on the queries a program holds

\* The arguments of a call are a list, and there may be no room to spare.
IsList(words) == Len(words) \in Nat /\ words = [n \in 1..Len(words) |-> words[n]]
ASSUME CallAssumption ==
  /\ IsList(Start) /\ Room \in Nat
  /\ \A c \in Call \union {Start[n] : n \in DOMAIN Start} : IsList(c.args)

VARIABLES
  arrays,    \* the arrays behind the slices
  queries,   \* the queries made so far: [is, lists]
  said       \* history: the calls that made each
queryVars == <<arrays, queries, said>>

QueryLists == {"fields", "conditions", "orderFields", "groupFields", "joinClauses", "hints"}
Nil == [array |-> 0, len |-> 0]
NewQuery ==
  [is |-> [x \in {"operation", "table", "groupAll", "limit", "offset", "traversal", "return", "data",
                  "from", "to", "vector", "distance", "threshold", "ef", "fulltext"} |-> <<>>],
   lists |-> [l \in QueryLists |-> Nil]]

Elements(heap, slice) == IF slice = Nil THEN <<>> ELSE SubSeq(heap[slice.array], 1, slice.len)
ListsOf(heap, query) == [l \in QueryLists |-> Elements(heap, query.lists[l])]

\* append(slice, new...), in place or in a new array.
AppendTo(heap, slice, new) ==
  CASE new = <<>> -> [heap |-> heap, slice |-> slice]
    [] new # <<>> /\ slice # Nil /\ slice.len + Len(new) <= Len(heap[slice.array]) ->
         [heap |-> [heap EXCEPT ![slice.array] =
                      [n \in DOMAIN @ |-> IF n \in slice.len + 1..slice.len + Len(new) THEN new[n - slice.len] ELSE @[n]]],
          slice |-> [slice EXCEPT !.len = @ + Len(new)]]
    [] OTHER ->
         [heap |-> Append(heap, Elements(heap, slice) \o new \o [n \in 1..Room |-> ""]),
          slice |-> [array |-> Len(heap) + 1, len |-> slice.len + Len(new)]]

WithList(s, l, new) ==
  LET grown == AppendTo(s.heap, s.query.lists[l], new)
  IN  [heap |-> grown.heap, query |-> [s.query EXCEPT !.lists[l] = grown.slice]]

\* append([]T(nil), list...): a slice that is not nil gets an array of its own.
Copied(s, l) ==
  IF s.query.lists[l] = Nil THEN s
  ELSE WithList([s EXCEPT !.query.lists[l] = Nil], l, Elements(s.heap, s.query.lists[l]))

\* A mutant of Clone: the conditions are shared.
CloneShallow(s) ==
  Copied(Copied(Copied(Copied(Copied(s, "fields"), "orderFields"), "groupFields"), "joinClauses"), "hints")

Clone(s) ==
  Copied(Copied(Copied(Copied(Copied(Copied(s,
    "fields"), "conditions"), "orderFields"), "groupFields"), "joinClauses"), "hints")

(***************************************************************************)
(* What each method sets, and what it appends to which list.                *)
(***************************************************************************)
Sets(c) ==
  CASE c.to \in {"Select", "SelectAliased"} -> "operation" :> <<"SELECT">>
    [] c.to = "FromTable" -> "table" :> c.args
    [] c.to \in {"Insert", "Update", "Upsert", "Delete"} ->
         "operation" :> <<c.to>> @@ "table" :> <<c.args[1]>> @@ (IF c.to = "Delete" THEN << >> ELSE "data" :> Tail(c.args))
    [] c.to = "Relate" ->
         "operation" :> <<"Relate">> @@ "table" :> <<c.args[1]>> @@ "from" :> <<c.args[2]>> @@ "to" :> <<c.args[3]>>
           @@ "data" :> SubSeq(c.args, 4, Len(c.args))
    [] c.to = "VectorSearch" ->
         "vector" :> SubSeq(c.args, 1, 2) @@ "distance" :> <<c.args[3]>>
           @@ (IF Len(c.args) = 4 THEN "threshold" :> <<c.args[4]>> ELSE << >>)
    [] c.to = "VectorSearchIndexed" ->
         "vector" :> SubSeq(c.args, 1, 2) @@ "ef" :> <<c.args[3]>> @@ "distance" :> <<>> @@ "threshold" :> <<>>
    [] c.to = "FullTextSearch" -> "fulltext" :> c.args
    [] c.to = "GroupAll" -> "groupAll" :> <<"ALL">>
    [] c.to = "Limit" -> "limit" :> c.args
    [] c.to = "Offset" -> "offset" :> c.args
    [] c.to = "Traverse" -> "traversal" :> c.args
    [] c.to = "WithReturnFormat" -> "return" :> c.args
    [] OTHER -> << >>

ListOf(c) ==
  CASE c.to \in {"Select", "SelectAliased", "SearchScore", "SimilarityScore"} -> "fields"
    [] c.to = "Where" -> "conditions"
    [] c.to = "OrderBy" -> "orderFields"
    [] c.to = "GroupBy" -> "groupFields"
    [] c.to = "Join" -> "joinClauses"
    [] OTHER -> "hints"
Appends(c) ==
  CASE c.to \in {"Select", "SelectAliased"} /\ c.args = <<>> -> <<"*">>
    [] c.to \in {"Select", "SelectAliased", "SearchScore", "SimilarityScore", "Where", "OrderBy", "GroupBy", "Join",
                 "WithHints", "UseIndex"} -> c.args
    [] OTHER -> <<>>

\* Of data the maps of the three operations keep one each; the one its operation
\* reads was always set with the operation.
Called(s, c) ==
  LET copy == Clone(s)
      begun == IF c.to \in {"Select", "SelectAliased"} THEN [copy EXCEPT !.query.lists["fields"] = Nil] ELSE copy
  IN  WithList([begun EXCEPT !.query.is = Sets(c) @@ @], ListOf(c), Appends(c))

\* An index hint needs the table's name.
Refused(query, c) == c.to = "UseIndex" /\ query.is["table"] = <<>>

\* A chain of calls from NewQuery that nobody branches off.
Chain(calls) ==
  LET made[n \in 0..Len(calls)] ==
        IF n = 0 THEN [heap |-> <<>>, query |-> NewQuery] ELSE Called(made[n - 1], calls[n])
  IN  made[Len(calls)]

QueriesInit ==
  /\ arrays = Chain(Start).heap /\ queries = <<Chain(Start).query>>
  /\ said = <<Start>>
QueriesNext ==
  \E q \in DOMAIN queries, c \in Call :
    /\ Len(queries) < MaxQueries /\ ~Refused(queries[q], c)
    /\ LET made == Called([heap |-> arrays, query |-> queries[q]], c)
       IN  arrays' = made.heap /\ queries' = Append(queries, made.query)
    /\ said' = Append(said, Append(said[q], c))
QueriesSpec == QueriesInit /\ [][QueriesNext]_queryVars

(***************************************************************************)
(* ToSurql: the clauses of the text in order, or none when it is refused.   *)
(***************************************************************************)
ClauseOf(name, words) == IF words = <<>> THEN <<>> ELSE <<[clause |-> name, words |-> words]>>

\* The last hint of a kind, where the first of that kind was.
HintKind(h) == IF h \in {"USE INDEX a", "USE INDEX b"} THEN "index" ELSE h
MergeHints(hints) ==
  LET kinds == [n \in DOMAIN hints |-> HintKind(hints[n])]
      lastOf(k) == hints[CHOOSE n \in DOMAIN hints : kinds[n] = k /\ \A m \in n + 1..Len(hints) : kinds[m] # k]
      firsts == SelectSeq([n \in DOMAIN hints |-> n], LAMBDA n : \A m \in 1..n - 1 : kinds[m] # kinds[n])
  IN  [n \in DOMAIN firsts |-> lastOf(kinds[firsts[n]])]

VectorPredicate(is) ==
  IF is["vector"] = <<>> \/ (is["distance"] = <<>> /\ is["ef"] = <<>>) THEN <<>>
  ELSE <<is["vector"] \o (IF is["ef"] # <<>> THEN is["ef"] ELSE is["distance"] \o is["threshold"])>>
BuildSelect(is, list) ==
  ClauseOf("SELECT", IF list["fields"] = <<>> THEN <<"*">> ELSE list["fields"])
    \o ClauseOf("FROM", is["table"] \o is["traversal"])
    \o ClauseOf("JOIN", list["joinClauses"])
    \o ClauseOf("KNN", VectorPredicate(is)) \o ClauseOf("MATCHES", is["fulltext"]) \o ClauseOf("WHERE", list["conditions"])
    \o (IF is["groupAll"] # <<>> THEN ClauseOf("GROUP", <<"ALL">>) ELSE ClauseOf("GROUP", list["groupFields"]))
    \o ClauseOf("ORDER BY", list["orderFields"])
    \o ClauseOf("LIMIT", is["limit"]) \o ClauseOf("START", is["offset"])
BuildChange(is, list) ==
  ClauseOf(is["operation"][1], is["table"] \o is["from"] \o is["to"])
    \o ClauseOf("CONTENT", IF is["operation"] = <<"Delete">> THEN <<>> ELSE is["data"])
    \o ClauseOf("WHERE", IF is["operation"][1] \in {"Insert", "Relate"} THEN <<>> ELSE list["conditions"])
    \o ClauseOf("RETURN", is["return"])
ToSurql(heap, query) ==
  LET is == query.is
      list == ListsOf(heap, query)
      refused == \/ is["operation"] = <<>> \/ is["table"] = <<>>
                 \/ is["operation"][1] \in {"Insert", "Update", "Upsert"} /\ is["data"] = <<>>
  IN  IF refused THEN <<>>
      ELSE ClauseOf("/* */", MergeHints(list["hints"]))
             \o (IF is["operation"] = <<"SELECT">> THEN BuildSelect(is, list) ELSE BuildChange(is, list))

TextOf(calls) == ToSurql(Chain(calls).heap, Chain(calls).query)

\* A query's text is that of the calls that made it, whatever the program has made
\* since of the same queries: "every method returns a new Query; the receiver is
\* never mutated" (builder.go:42-47, 121-157).
QueriesStayApart ==
  \A q \in DOMAIN queries : ToSurql(arrays, queries[q]) = TextOf(said[q])
=============================================================================
