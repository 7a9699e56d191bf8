---------------------------------- MODULE Squash ----------------------------------
(***************************************************************************)
(* Several migrations made into one (src/pkg/surql/migration/squash.go).    *)
(*                                                                          *)
(* A statement is what it does and to which object.  DEFINE and REMOVE are  *)
(* understood for tables, fields, indexes and events with plain names, with *)
(* IF NOT EXISTS or IF EXISTS or without: of any other object (a bucket, an *)
(* analyzer, a field within a field) the code sees only that something is   *)
(* defined.                                                                 *)
(***************************************************************************)
EXTENDS Integers, Sequences, FiniteSets, SequencesExt, FiniteSetsExt

CONSTANT Illegible     \* objects the patterns do not match

\* [op, mode, object, text]: mode is "" or what stands before the name, "IF" for IF NOT
\* EXISTS and IF EXISTS, or "OVERWRITE"; object is <<kind, table, name>>, name empty for
\* a table; text tells definitions apart.
Unread == <<"", "", "">>

\* The patterns know the two IFs and read on to the name.  OVERWRITE they take for the
\* name: a table of that name, but a field, index or event without its ON is no match.
Key(s) ==
  CASE s.object \in Illegible \/ s.op \notin {"DEFINE", "REMOVE", "UPDATE"} -> Unread
    [] s.object \notin Illegible /\ s.mode = "OVERWRITE" ->
         IF s.object[1] = "TABLE" THEN <<"TABLE", "overwrite", "">> ELSE Unread
    [] OTHER -> s.object

\* A migration is [version, up, down].
FilterMigrationsByVersion(migrations, from, to) ==
  SelectSeq(migrations, LAMBDA m : (from # 0 => m.version >= from) /\ (to # 0 => m.version <= to))

\* What stands in the way: records are deleted.
HighSeverity(migrations) ==
  \E n \in DOMAIN migrations : \E k \in DOMAIN migrations[n].up : migrations[n].up[k].op = "DELETE"

(***************************************************************************)
(* optimizeStatements.  First every DEFINE, from the first on, goes with    *)
(* the next REMOVE of its object that has not gone.                         *)
(***************************************************************************)
\* A mutant of Undoing: a REMOVE in front counts too.
UndoingAnywhere(stmts, gone, i) ==
  {j \in DOMAIN stmts \ gone : stmts[j].op = "REMOVE" /\ Key(stmts[j]) = Key(stmts[i])}

Undoing(stmts, gone, i) ==
  {j \in i + 1..Len(stmts) : j \notin gone /\ stmts[j].op = "REMOVE" /\ Key(stmts[j]) = Key(stmts[i])}
Pairs(stmts) ==
  FoldLeft(LAMBDA gone, i :
             LET undoing == Undoing(stmts, gone, i)
             IN  IF i \in gone \/ stmts[i].op # "DEFINE" \/ Key(stmts[i]) = Unread \/ undoing = {} THEN gone
                 ELSE gone \union {i, Min(undoing)},
           {}, [n \in DOMAIN stmts |-> n])

\* Then of the DEFINEs left with one key the last stays; all the unread share one.
Superseded(stmts, gone) ==
  LET defines == {i \in DOMAIN stmts \ gone : stmts[i].op = "DEFINE"}
  IN  {i \in defines : \E j \in defines : j > i /\ Key(stmts[j]) = Key(stmts[i])}

\* Then the UPDATEs of a field one of whose statements has gone.
Orphaned(stmts, gone) ==
  {i \in DOMAIN stmts \ gone :
     stmts[i].op = "UPDATE" /\ \E j \in gone : Key(stmts[j])[1] = "FIELD" /\ stmts[j].object = stmts[i].object}

OptimizeStatements(stmts) ==
  LET paired == Pairs(stmts)
      defined == paired \union Superseded(stmts, paired)
      gone == defined \union Orphaned(stmts, defined)
      kept == SetToSortSeq(DOMAIN stmts \ gone, <)
  IN  [n \in DOMAIN kept |-> stmts[kept[n]]]

\* Ups in order, downs the other way round, statement by statement.
SquashMigrations(migrations, from, to, optimize) ==
  LET selected == FilterMigrationsByVersion(migrations, from, to)
      up == FlattenSeq([n \in DOMAIN selected |-> selected[n].up])
      down == FlattenSeq([n \in DOMAIN selected |-> selected[n].down])
  IN  IF Len(selected) < 2 \/ HighSeverity(selected) THEN [squashed |-> FALSE, up |-> <<>>, down |-> <<>>]
      ELSE [squashed |-> TRUE, up |-> IF optimize THEN OptimizeStatements(up) ELSE up, down |-> Reverse(down)]

(***************************************************************************)
(* A database (external): what is defined, and the fields that are filled.  *)
(* What is on a table needs it and goes with it; a script stops at the      *)
(* first statement that finds its object missing, or there already: unless  *)
(* OVERWRITE or an IF says what to do then.                                 *)
(***************************************************************************)
TableOf(o) == <<"TABLE", o[2], "">>
Stands(db, o) == o[1] = "TABLE" \/ o[2] = "" \/ TableOf(o) \in DOMAIN db.defs
Taken(db, o) == {p \in DOMAIN db.defs : p = o \/ (o[1] = "TABLE" /\ p[2] = o[2])}
Refuses(db, s) ==
  \/ ~Stands(db, s.object)
  \/ s.op = "DEFINE" /\ s.object \in DOMAIN db.defs /\ s.mode = ""
  \/ s.op # "DEFINE" /\ s.object \notin DOMAIN db.defs /\ s.mode = ""
Idles(db, s) == s.mode = "IF" /\ (s.op = "DEFINE" <=> s.object \in DOMAIN db.defs)
Does(db, s) ==
  LET o == s.object
  IN  CASE ~db.ok \/ Idles(db, s) -> db
        [] db.ok /\ Refuses(db, s) -> [db EXCEPT !.ok = FALSE]
        [] db.ok /\ ~Refuses(db, s) /\ ~Idles(db, s) ->
             CASE s.op = "DEFINE" ->
                    [db EXCEPT !.defs = [p \in DOMAIN db.defs \union {o} |-> IF p = o THEN s.text ELSE db.defs[p]]]
               [] s.op = "REMOVE" ->
                    [db EXCEPT !.defs = [p \in DOMAIN db.defs \ Taken(db, o) |-> db.defs[p]], !.filled = @ \ Taken(db, o)]
               [] s.op = "UPDATE" -> [db EXCEPT !.filled = @ \union {o}]
               [] OTHER -> db
Plays(db, stmts) == FoldLeft(Does, db, stmts)

(***************************************************************************)
(* What an optimised squash may be trusted with.                            *)
(***************************************************************************)
Of(stmts, op, o) == {n \in DOMAIN stmts : stmts[n].op = op /\ stmts[n].object = o}
Undone(stmts, o) == \E i \in Of(stmts, "DEFINE", o), j \in Of(stmts, "REMOVE", o) : i < j
Tame(stmts, db) ==
  LET objects == {stmts[n].object : n \in DOMAIN stmts}
      read(o) == {n \in Of(stmts, "DEFINE", o) : Key(stmts[n]) = o}
      misread(key) == {n \in DOMAIN stmts : stmts[n].op = "DEFINE" /\ Key(stmts[n]) = key}
  IN  /\ \A o \in objects \ Illegible :
           /\ Cardinality(read(o)) > 1 => /\ o[1] # "TABLE" /\ Of(stmts, "REMOVE", o) \union Of(stmts, "UPDATE", o) = {}
                                          /\ \A i, j \in read(o) : stmts[i].text = stmts[j].text
           /\ Undone(stmts, o) => /\ o \notin DOMAIN db.defs /\ Cardinality(Of(stmts, "DEFINE", o)) = 1
                                  /\ o[1] = "TABLE" => \A p \in objects \ {o} : p[2] # o[2]
      /\ \A key \in {Unread, <<"TABLE", "overwrite", "">>} : Cardinality(misread(key)) <= 1
=============================================================================
