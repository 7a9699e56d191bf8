------------------------------ MODULE VersionGraph ------------------------------
(***************************************************************************)
(* The graph of schema versions (src/pkg/surql/migration/versioning.go): a  *)
(* forest whose nodes know their parent and their children, kept under one  *)
(* lock.  Each exported operation is one step; the walks are operators.     *)
(*                                                                          *)
(* A version is a number: versions are timestamps in text, and all the code *)
(* does with them is to compare and to order them.  Children is a sorted    *)
(* list without repetition in the code, a set read in order here.           *)
(***************************************************************************)
EXTENDS Integers, Sequences, FiniteSets, SequencesExt, FiniteSetsExt

CONSTANT Version
ASSUME VersionAssumption == Version \subseteq Nat \ {0}

NoVersion == 0   \* the empty string

VARIABLES nodes, root
graphVars == <<nodes, root>>

Node(parent) == [parent |-> parent, children |-> {}]

GraphTypeOK ==
  /\ DOMAIN nodes \subseteq Version
  /\ \A v \in DOMAIN nodes : /\ DOMAIN nodes[v] = {"parent", "children"}
                             /\ nodes[v].parent \in Version \union {NoVersion}
                             /\ nodes[v].children \subseteq Version
  /\ root \in Version \union {NoVersion}

GraphInit == nodes = [v \in {} |-> Node(NoVersion)] /\ root = NoVersion

(***************************************************************************)
(* Add inserts a version it does not know, under a parent it knows or none. *)
(***************************************************************************)
Linked(v, parent) ==
  [u \in DOMAIN nodes \union {v} |->
     IF u = v THEN Node(parent)
     ELSE IF u = parent THEN [nodes[u] EXCEPT !.children = @ \union {v}] ELSE nodes[u]]
AddVersion(v, parent) ==
  /\ v \notin DOMAIN nodes
  /\ parent \in DOMAIN nodes \union {NoVersion}
  /\ nodes' = Linked(v, parent)
  /\ root' = IF parent = NoVersion /\ root = NoVersion THEN v ELSE root

(***************************************************************************)
(* Remove takes the node from its parent's children, hands its own children *)
(* to that parent, and promotes some parentless node if it was the root.    *)
(***************************************************************************)
\* Two mutants of Without: the parent is not told of its new children, and the
\* children are cut off.
WithoutTelling(v) ==
  [u \in DOMAIN nodes \ {v} |->
     IF u = nodes[v].parent THEN [nodes[u] EXCEPT !.children = @ \ {v}]
     ELSE IF u \in nodes[v].children THEN [nodes[u] EXCEPT !.parent = nodes[v].parent] ELSE nodes[u]]
WithoutTies(v) ==
  [u \in DOMAIN nodes \ {v} |->
     IF u = nodes[v].parent THEN [nodes[u] EXCEPT !.children = @ \ {v}]
     ELSE IF u \in nodes[v].children THEN [nodes[u] EXCEPT !.parent = NoVersion] ELSE nodes[u]]

Without(v) ==
  [u \in DOMAIN nodes \ {v} |->
     IF u = nodes[v].parent THEN [nodes[u] EXCEPT !.children = (@ \ {v}) \union nodes[v].children]
     ELSE IF u \in nodes[v].children THEN [nodes[u] EXCEPT !.parent = nodes[v].parent] ELSE nodes[u]]
Parentless(graph) == {v \in DOMAIN graph : graph[v].parent = NoVersion}
RemoveVersion(v) ==
  /\ v \in DOMAIN nodes
  /\ nodes' = Without(v)
  /\ \/ root # v /\ UNCHANGED root
     \/ root = v /\ Parentless(nodes') = {} /\ root' = NoVersion
     \/ root = v /\ root' \in Parentless(nodes')

GraphNext == \E v \in Version : RemoveVersion(v) \/ \E parent \in DOMAIN nodes \union {NoVersion} : AddVersion(v, parent)
GraphSpec == GraphInit /\ [][GraphNext]_graphVars

(***************************************************************************)
(* The walks.                                                               *)
(***************************************************************************)
Ordered(S) == SetToSortSeq(S, <)
Rounds == [n \in 1..Cardinality(DOMAIN nodes) |-> n]

Neighbours(v) ==
  Ordered(nodes[v].children) \o (IF nodes[v].parent = NoVersion THEN <<>> ELSE <<nodes[v].parent>>)

\* Breadth first; the paths in the queue start at from.
Search(s, to) ==
  IF s.found # <<>> \/ s.queue = <<>> THEN s
  ELSE LET path == Head(s.queue)
           fresh == SelectSeq(Neighbours(Last(path)), LAMBDA n : n \notin s.visited)
           paths == [k \in DOMAIN fresh |-> Append(path, fresh[k])]
       IN  [queue |-> Tail(s.queue) \o paths, visited |-> s.visited \union ToSet(fresh),
            found |-> IF to \in ToSet(fresh) THEN Append(path, to) ELSE <<>>]
Path(from, to) ==
  IF {from, to} \subseteq DOMAIN nodes
  THEN IF from = to THEN <<from>>
       ELSE FoldLeft(LAMBDA s, n : Search(s, to),
                     [queue |-> <<<<from>>>>, visited |-> {from}, found |-> <<>>], Rounds).found
  ELSE <<>>

\* From the root of its tree down to its parent.
Ancestors(v) ==
  LET climb(line) ==
        LET top == nodes[Head(line)].parent
        IN  IF top \notin DOMAIN nodes THEN line ELSE <<top>> \o line
  IN  IF v \notin DOMAIN nodes THEN <<>> ELSE Front(FoldLeft(LAMBDA line, n : climb(line), <<v>>, Rounds))

\* Breadth first from its children.
Descendants(v) ==
  LET visit(s) ==
        IF s.queue = <<>> THEN s
        ELSE LET fresh == SelectSeq(Ordered(nodes[Head(s.queue)].children), LAMBDA n : n \notin s.visited)
             IN  [queue |-> Tail(s.queue) \o fresh, visited |-> s.visited \union ToSet(fresh),
                  out |-> Append(s.out, Head(s.queue))]
      children == nodes[v].children
  IN  IF v \notin DOMAIN nodes THEN <<>>
      ELSE FoldLeft(LAMBDA s, n : visit(s), [queue |-> Ordered(children), visited |-> children, out |-> <<>>], Rounds).out

(***************************************************************************)
(* Properties.                                                              *)
(***************************************************************************)

\* Parent and children tell the same, and the root is a parentless node, there
\* whenever any node is: what Add and Remove owe each other over any sequence of
\* calls (versioning.go:240-256, 278-307).
BothEnds ==
  /\ \A v \in DOMAIN nodes : /\ nodes[v].children \subseteq DOMAIN nodes
                             /\ nodes[v].parent \in DOMAIN nodes \union {NoVersion}
  /\ \A u, v \in DOMAIN nodes : u \in nodes[v].children <=> nodes[u].parent = v
  /\ root \in Parentless(nodes) \/ (DOMAIN nodes = {} /\ root = NoVersion)

\* What lies above a version, whatever walks there: the least set of nodes that has
\* the parent of the version and of each of its own.
Above(v) ==
  {u \in DOMAIN nodes :
     \A S \in SUBSET DOMAIN nodes :
       (\A x \in S \union {v} : nodes[x].parent \in S \union {NoVersion}) => u \in S}

\* Path, Ancestors and Descendants tell one story: a path goes from parent to child
\* or back and visits no version twice (in a forest, the shortest), exists within a
\* tree and not between trees; the ancestors are what lies above, the nearest last;
\* the descendants are those it is an ancestor of, each once and after its parent
\* (versioning.go:364-474).
WalksAgree ==
  \A u, v \in DOMAIN nodes :
    LET path == Path(u, v)
        up == Ancestors(v)
        down == Descendants(v)
        top(x) == Head(Append(Ancestors(x), x))
    IN  /\ IF top(u) # top(v) THEN path = <<>>
           ELSE /\ path # <<>> /\ Head(path) = u /\ Last(path) = v
                /\ IsInjective(path)
                /\ \A n \in 1..Len(path) - 1 :
                     nodes[path[n]].parent = path[n + 1] \/ nodes[path[n + 1]].parent = path[n]
        /\ ToSet(up) = Above(v) /\ \A n \in DOMAIN up : Above(up[n]) = {up[k] : k \in 1..n - 1}
        /\ u \in ToSet(down) <=> v \in Above(u)
        /\ IsInjective(down)
        /\ \A n \in DOMAIN down : nodes[down[n]].parent \in {v} \union {down[k] : k \in 1..n - 1}

\* The graph is sound: both ends of every edge and all walks agree.
GraphSound == BothEnds /\ WalksAgree

\* Removing a version leaves every other where it was in its line: above each is
\* what was above it, less the one removed, and so in the same order, and a new
\* version changes nobody's line (versioning.go:286-296).
LinesAreKept ==
  [][\A v \in DOMAIN nodes \intersect DOMAIN nodes' : Above(v)' = Above(v) \intersect DOMAIN nodes']_graphVars
=============================================================================
