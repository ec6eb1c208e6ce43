---------------------------- MODULE MigrationReport ----------------------------
(* What honua_esri_assess/report/heuristics.py and verdict/engine.py make   *)
(* of the inventory, the dependency edges and the diagnostics of a         *)
(* footprint: the order of the migration and the items to review.  The order *)
(* is made node by node: see PortalAssessment.                              *)
EXTENDS Naturals, FiniteSets, Sequences, Functions

\* An edge <<from, to>>: from depends on to.
Ends(edges) == UNION {{e[1], e[2]} : e \in edges}

\* Released by the first dependency that is done.
MutReady(edges, done) ==
  {n \in Ends(edges) \ done :
     LET needs == {e[2] : e \in {l \in edges : l[1] = n /\ l[2] # n}}
     IN needs = {} \/ needs \intersect done # {}}

\* What depends on nothing that is not done; an edge to itself does not count.
Ready(edges, done) ==
  {n \in Ends(edges) \ done :
     \A e \in edges : e[1] = n /\ e[2] # n => e[2] \in done}

ComplexTypes == {"Notebook", "Geoprocessing Service"}
UnknownTypes == {"Unknown", "Other"}
SupportedServices == {"FeatureServer", "ImageServer", "MapServer", "VectorTileServer"}

\* Diagnostics with a severity below warn do not count.
Warnings(diags) == {d \in diags : d.severity # "info"}

\* An item is flagged by a diagnostic whose scope is its id.
MutFlagged(item, diags) == \E d \in diags : d.scope = item.id /\ d.severity = "error"

Flagged(item, diags) == \E d \in Warnings(diags) : d.scope = item.id

\* Feature classes: no identifier of a spatial reference, or an old one.
ReviewReasons(item, diags) ==
  {r \in {"flagged-by-diagnostic", "complex-item-type", "unknown-item-type",
          "unsupported-service-type", "missing-spatial-reference", "legacy-spatial-reference"} :
     CASE r = "flagged-by-diagnostic" -> Flagged(item, diags)
       [] r = "complex-item-type" -> item.kind = "portal-item" /\ item.type \in ComplexTypes
       [] r = "unknown-item-type" -> item.kind = "portal-item" /\ item.type \in UnknownTypes
       [] r = "unsupported-service-type" ->
            item.kind = "server-service" /\ item.type \notin SupportedServices
       [] r = "missing-spatial-reference" ->
            item.kind = "filegdb-feature-class" /\ item.type = "no-sr"
       [] r = "legacy-spatial-reference" ->
            item.kind = "filegdb-feature-class" /\ item.type = "legacy-sr"}

ManualReview(items, diags) == {i \in items : ReviewReasons(i, diags) # {}}

\* The group of the recommended order an item is in.
OrderingRank(item) ==
  CASE item.kind = "filegdb-feature-class" -> 10
    [] item.kind = "server-service" /\ item.type = "FeatureServer" -> 20
    [] item.kind = "server-service" /\ item.type \in {"MapServer", "ImageServer"} -> 30
    [] item.kind = "portal-item" /\ item.type = "Feature Service" -> 40
    [] item.kind = "portal-item" /\ item.type \in {"Tile Service", "Vector Tile Service"} -> 50
    [] item.kind = "portal-item" /\ item.type = "Web Map" -> 60
    [] item.kind = "portal-item" /\ item.type \in {"Dashboard", "Experience"} -> 70
    [] item.kind = "portal-item" /\ item.type \in ComplexTypes -> 80
    [] OTHER -> 90

-----------------------------------------------------------------------------
\* Whatever is in a knot needs something else in it: what n needs, directly or
\* not, comes round to itself by way of another.  This is "on or behind a cycle"
\* of a finite graph, without the paths.
BehindCycle(n, edges) ==
  \E knot \in SUBSET Ends(edges) :
    n \in knot /\ \A k \in knot : \E e \in edges : e[1] = k /\ e[2] \in knot \ {k}

\* "dependencies migrate first", and a "cycle is appended ... rather than dropped
\* so the result always covers every referenced node" (heuristics.py): every node
\* has one place, and one that comes before what it needs is on or behind a cycle.
SoundOrder(order, edges) ==
  /\ Range(order) = Ends(edges)
  /\ \A i, j \in DOMAIN order : order[i] = order[j] => i = j
  /\ \A i, j \in DOMAIN order :
       i < j /\ <<order[i], order[j]>> \in edges => BehindCycle(order[i], edges)
=============================================================================
