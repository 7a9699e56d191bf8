-------------------------- MODULE MCSchemaEvolution --------------------------
\* One table in many shapes, an edge in a few, a second table and a bucket.
EXTENDS SchemaEvolution, TLC

CONSTANTS plain, other, filled, cut, bad, full, less, relation, on

Fields == {Nothing, 1 :> plain, 1 :> filled, 1 :> bad, (1 :> cut) @@ (2 :> plain), (1 :> other) @@ (2 :> plain)}
Indexes == {Nothing, 1 :> plain, 1 :> other, 1 :> bad}
Rules == {Nothing, 1 :> plain, (1 :> other) @@ (2 :> plain)}
Tables(modes, fields, indexes, events, rules) ==
  [fields : fields, indexes : indexes, events : events, mode : modes, permissions : rules]

Plain == Tables({less}, {Nothing, 1 :> plain}, {Nothing}, {Nothing}, {Nothing})
Shapes == Tables({full}, Fields, Indexes, {Nothing, 1 :> plain}, {Nothing})
            \union Tables({full, less}, {Nothing, 1 :> plain}, {Nothing}, {Nothing}, Rules)
EdgeShapes == Tables({relation}, {Nothing, 1 :> filled}, {Nothing, 1 :> plain}, {Nothing, 1 :> cut}, {Nothing})
OneBucket == [permissions |-> plain, backend |-> plain, readonly |-> NoText, comment |-> NoText]
Buckets == [permissions : {plain, other, NoText}, backend : {plain, other}, readonly : {on, NoText}, comment : {NoText}]

MCSnapshot ==
  {[tables |-> 1 :> s, edges |-> Nothing, buckets |-> Nothing] : s \in Shapes}
    \union {[tables |-> (1 :> p) @@ (2 :> q), edges |-> 3 :> e, buckets |-> Nothing] :
              p, q \in Plain, e \in Tables({relation}, {Nothing}, {Nothing}, {Nothing}, {Nothing, 1 :> plain})}
    \union {[tables |-> Nothing, edges |-> 3 :> e, buckets |-> 1 :> b] :
              e \in EdgeShapes, b \in {OneBucket}}
    \union {[tables |-> Nothing, edges |-> Nothing, buckets |-> 1 :> b] : b \in Buckets}
MCRefused == {bad}
MCBackfilled == {filled}
MCSemicolon == {cut}
=============================================================================
