-------------------------------- MODULE Records --------------------------------
(***************************************************************************)
(* Reading pages of a table and changing many records at once               *)
(* (src/pkg/surql/query/crud.go, batch.go), over the query builder.         *)
(***************************************************************************)
EXTENDS Queries

CONSTANT Meaning      \* condition |-> the records it is true of

C(to, args) == [to |-> to, args |-> args]

(***************************************************************************)
(* The database (external): a table is a set of numbers, which is what it   *)
(* is ordered by, and a text is answered with a sequence of them.           *)
(***************************************************************************)
Words(text, name) == FlattenSeq([n \in DOMAIN text |-> IF text[n].clause = name THEN text[n].words ELSE <<>>])
Answer(table, text) ==
  LET chosen == {r \in table : \A c \in ToSet(Words(text, "WHERE")) : r \in Meaning[c]}
      ordered == SetToSortSeq(chosen, LAMBDA a, b : IF Words(text, "ORDER BY") = <<"n DESC">> THEN a > b ELSE a < b)
      start == FoldLeft(LAMBDA a, b : b, 0, Words(text, "START"))
      limit == FoldLeft(LAMBDA a, b : b, Len(ordered), Words(text, "LIMIT"))
  IN  IF Words(text, "GROUP") = <<"ALL">> THEN <<Len(ordered)>>
      ELSE SubSeq(ordered, start + 1, IF start + limit < Len(ordered) THEN start + limit ELSE Len(ordered))

(***************************************************************************)
(* QueryOptions is [conditions, orderBy, limit, offset], the last three     *)
(* empty or a tuple; a direction is accepted in either case.                *)
(***************************************************************************)
ToUpper(direction) == IF direction \in {"DESC", "desc"} THEN "n DESC" ELSE "n ASC"
BuildSelectFromOptions(opts) ==
  <<C("Select", <<>>), C("FromTable", <<"p">>)>>
    \o [n \in DOMAIN opts.conditions |-> C("Where", <<opts.conditions[n]>>)]
    \o [n \in DOMAIN opts.orderBy |-> C("OrderBy", <<ToUpper(opts.orderBy[n])>>)]
    \o [n \in DOMAIN opts.limit |-> C("Limit", opts.limit)]
    \o [n \in DOMAIN opts.offset |-> C("Offset", opts.offset)]
QueryRecords(table, opts) == Answer(table, TextOf(BuildSelectFromOptions(opts)))
First(table, opts) == QueryRecords(table, [opts EXCEPT !.limit = <<1>>])

\* A mutant of Flipped: the direction is kept.
Kept(orderBy) == orderBy

Flipped(orderBy) == [n \in DOMAIN orderBy |-> IF orderBy[n] = "ASC" THEN "DESC" ELSE "ASC"]
LastRecord(table, opts) == First(table, [opts EXCEPT !.orderBy = Flipped(@)])
CountRecords(table, conditions) ==
  Answer(table, TextOf(<<C("Select", <<"count()">>), C("FromTable", <<"p">>)>>
                         \o [n \in DOMAIN conditions |-> C("Where", <<conditions[n]>>)] \o <<C("GroupAll", <<>>)>>))[1]

(***************************************************************************)
(* Many records at once, over a table [exists, rows], rows being            *)
(* id |-> (field |-> value).  A request is done, failed, or lost: done, and *)
(* the caller is told it failed.  Deleting from a table that does not exist *)
(* is an error of its own, known by its words and taken for nothing to      *)
(* delete; so is any other whose text says that something "does not exist", *)
(* a function an event calls or an analyzer: such a request is swallowed.   *)
(***************************************************************************)
Less(table, id) == [table EXCEPT !.rows = [i \in DOMAIN @ \ {id} |-> @[i]]]

\* A mutant of DeleteNext: any error is taken for nothing to delete.
DeleteOn(s, id, fate) ==
  CASE ~s.table.exists \/ fate \in {"failed", "swallowed"} -> s
    [] fate = "lost" -> [s EXCEPT !.table = Less(@, id)]
    [] OTHER -> [s EXCEPT !.table = Less(@, id), !.out = IF id \in DOMAIN s.table.rows THEN Append(@, id) ELSE @]

IsTableMissingError(table, fate) ==
  \/ fate = "swallowed"
  \/ fate \notin {"failed", "lost"} /\ ~table.exists
DeleteNext(s, id, fate) ==
  CASE ~s.ok \/ IsTableMissingError(s.table, fate) -> s
    [] s.ok /\ fate = "failed" -> [s EXCEPT !.ok = FALSE, !.out = <<>>]
    [] s.ok /\ fate = "lost" -> [s EXCEPT !.ok = FALSE, !.out = <<>>, !.table = Less(@, id)]
    [] OTHER -> [s EXCEPT !.table = Less(@, id), !.out = IF id \in DOMAIN s.table.rows THEN Append(@, id) ELSE @]
Begun(table) == [ok |-> TRUE, table |-> table, out |-> <<>>]
DeleteMany(table, ids, fates) ==
  LET after[n \in 0..Len(ids)] == IF n = 0 THEN Begun(table) ELSE DeleteNext(after[n - 1], ids[n], fates[n])
  IN  after[Len(ids)]

\* The fields an existing record takes over: those asked for, or all that any item
\* has.  One statement, which inserts or updates item by item; an item without one
\* of the fields unsets it, and with no field at all a known id fails the statement.
CollectAssignFields(items) == UNION {DOMAIN items[n].fields : n \in DOMAIN items}
Upserted(rows, item, assigned) ==
  LET old == rows[item.id]
      kept == DOMAIN old \ assigned
      taken == DOMAIN item.fields \intersect assigned
  IN  [i \in DOMAIN rows \union {item.id} |->
         IF i # item.id THEN rows[i]
         ELSE IF i \notin DOMAIN rows THEN item.fields
         ELSE [f \in kept \union taken |-> IF f \in taken THEN item.fields[f] ELSE old[f]]]
UpsertMany(table, items, conflictFields, fate) ==
  LET assigned == IF conflictFields = {} THEN CollectAssignFields(items) ELSE conflictFields
      rows[n \in 0..Len(items)] == IF n = 0 THEN table.rows ELSE Upserted(rows[n - 1], items[n], assigned)
      repeats == \E n \in DOMAIN items :
                   items[n].id \in DOMAIN table.rows \union {items[m].id : m \in 1..n - 1}
  IN  IF items = <<>> THEN Begun(table)
      ELSE IF fate = "failed" \/ (assigned = {} /\ repeats) THEN [Begun(table) EXCEPT !.ok = FALSE]
      ELSE [ok |-> fate = "done", table |-> [exists |-> TRUE, rows |-> rows[Len(items)]],
            out |-> IF fate = "done" THEN [n \in DOMAIN items |-> items[n].id] ELSE <<>>]
=============================================================================
