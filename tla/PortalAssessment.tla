--------------------------- MODULE PortalAssessment ---------------------------
(***************************************************************************)
(* scan agol: an organization of ArcGIS Online or Portal read through the  *)
(* Sharing API (portal/scanner.py, portal/pagination.py), the footprint    *)
(* that footprint/v0_1.py makes of it, and the verdict and the report on   *)
(* that footprint.                                                         *)
(*                                                                         *)
(* Groups and items come in pages; any request may fail, also in the       *)
(* middle of a listing.  A portal may name the next page it likes.         *)
(***************************************************************************)
EXTENDS Assessment, Verdict, MigrationReport

CONSTANTS
  Listings,    \* what an organization may list: sequences of items
               \* [id, type, host, deps], in the order of the search
  Federations, \* sets of [function, hosted]: the federated servers
  PageSize

\* advances: every page names a later one, or none; a portal that stops short
\* ends the listing without an error.
Worlds == [items : Listings, groups : 0..2, identified : BOOLEAN, anonymous : BOOLEAN,
           deep : BOOLEAN, servers : Federations, advances : BOOLEAN]

Init ==
  /\ world \in Worlds
  /\ pc = "org"
  /\ found = [groups |-> 0, users |-> None, items |-> <<>>, servers |-> None,
              start |-> 1, probe |-> {}, layers |-> {}, order |-> <<>>]
  /\ diags = {}
  /\ result = None

Step(f) == found' = f /\ UNCHANGED <<world, result>>

Severity(code) == IF code = "rate-limited" THEN "info" ELSE "warn"

Kind(o) ==
  CASE o = "forbidden" -> "forbidden"
    [] o = "limited" -> "rate-limited"
    [] OTHER -> "failed"

Failed(scope, surface, o) ==
  diags' = diags \union {[scope |-> scope, surface |-> surface, code |-> Kind(o),
                          severity |-> Severity(Kind(o))]}

\* portals/self: without it, or without an organization id, there is no scan.
ReadOrg(o) ==
  /\ pc = "org"
  /\ IF o # "ok" \/ ~world.identified THEN Abort
     ELSE pc' = "groups" /\ Step(found) /\ UNCHANGED diags

-----------------------------------------------------------------------------
(* iter_paginated: pages, until one does not name a later start.           *)

\* The start the portal names, 0 for none; one that does not advance goes back
\* and forth between the first two pages.
Named(total) ==
  IF ~world.advances THEN IF found.start = 1 THEN 1 + PageSize ELSE 1
  ELSE IF found.start + PageSize <= total THEN found.start + PageSize ELSE 0

\* A start is no good only if it is the one just read.
MutGoesOn(named) == named > 0 /\ named # found.start

GoesOn(named) == named > found.start

\* The places of the page among all records.
Page(total) == {k \in 1..total : k >= found.start /\ k < found.start + PageSize}

\* Groups are all or none.
ReadGroups(o) ==
  /\ pc = "groups"
  /\ LET named == Named(world.groups)
         more == o = "ok" /\ GoesOn(named)
     IN /\ pc' = IF more THEN "groups" ELSE "users"
        /\ Step([found EXCEPT !.start = IF more THEN named ELSE 1,
                              !.groups = IF o = "ok" THEN @ + Cardinality(Page(world.groups))
                                                     ELSE 0])
  /\ IF o = "ok" THEN UNCHANGED diags ELSE Failed(None, "groups", o)

\* An anonymous scan does not ask for users.
SkipUsers ==
  /\ pc = "users" /\ world.anonymous
  /\ pc' = "items"
  /\ Step(found)
  /\ diags' = diags \union {[scope |-> None, surface |-> "users", code |-> "skipped",
                             severity |-> "info"]}

ReadUsers(o) ==
  /\ pc = "users" /\ ~world.anonymous
  /\ pc' = "items"
  /\ Step([found EXCEPT !.users = IF o = "ok" THEN 1 ELSE None])
  /\ IF o = "ok" THEN UNCHANGED diags ELSE Failed(None, "users", o)

\* A failed page keeps the items of the pages before it.
ReadItems(o) ==
  /\ pc = "items"
  /\ LET total == Len(world.items)
         named == Named(total)
         more == o = "ok" /\ GoesOn(named)
         last == found.start + PageSize - 1
         page == SubSeq(world.items, found.start, IF last < total THEN last ELSE total)
     IN /\ pc' = IF more THEN "items" ELSE "federation"
        /\ Step([found EXCEPT !.items = IF o = "ok" THEN @ \o page ELSE @,
                              !.start = IF more THEN named ELSE @])
  /\ IF o = "ok" THEN UNCHANGED diags ELSE Failed(None, "items", o)

-----------------------------------------------------------------------------
(* Federated servers, and the deep probe of service items.                 *)

Service(item) == item.host # None

\* A failed read and no servers look the same, but for the diagnostic.
ReadFederation(o) ==
  /\ pc = "federation"
  /\ pc' = "probe"
  /\ Step([found EXCEPT
             !.servers = IF o = "ok" /\ world.servers # {} THEN world.servers ELSE None,
             !.probe = IF world.deep THEN {i \in Range(found.items) : Service(i)} ELSE {}])
  /\ IF o = "ok" THEN UNCHANGED diags ELSE Failed(None, "federation", o)

\* Only hosts of the portal and of ArcGIS Online are sent a request.
Allowed(item) == item.host = "own"

ProbeItem(i, o) ==
  /\ pc = "probe"
  /\ i \in found.probe
  /\ o = "ok" => Allowed(i)
  /\ UNCHANGED pc
  /\ Step([found EXCEPT !.probe = @ \ {i}, !.layers = IF o = "ok" THEN @ \union {i.id} ELSE @])
  /\ IF o = "ok" THEN UNCHANGED diags
     ELSE Failed(i.id, "item-probe", IF Allowed(i) THEN o ELSE "api")

-----------------------------------------------------------------------------
(* The footprint, and what is made of it.                                  *)

Known == {i.id : i \in Range(found.items)}

\* A dependency counts if its item was listed before the map.
MutEdges ==
  UNION {{<<found.items[m].id, d>> : d \in found.items[m].deps
                                         \intersect {found.items[k].id : k \in 1..(m - 1)}}
           : m \in {n \in DOMAIN found.items : found.items[n].type = "Web Map"}}

\* _portal_dependency_edges: from web maps to other items of the inventory.
Edges ==
  UNION {{<<i.id, d>> : d \in (i.deps \intersect Known) \ {i.id}}
           : i \in {j \in Range(found.items) : j.type = "Web Map"}}

\* The functions a federated server may advertise that change the migration.
AdvancedFunctions == {"GeoEvent", "NotebookServer", "KnowledgeServer", "GeoAnalytics"}

Role(s) == IF s.hosted THEN "hosting" ELSE "federated"

Federation ==
  IF found.servers = None THEN None
  ELSE [roles |-> {Role(s) : s \in found.servers},
        advanced |-> {s.function : s \in found.servers} \intersect AdvancedFunctions]

\* The diagnostics of the footprint: their code is coarser, and one that is
\* about no item has the scope of the whole scan.
CodeMap(d) ==
  CASE d.code = "forbidden" -> "missing-permission"
    [] d.code = "rate-limited" -> "rate-limited"
    [] d.surface = "item-probe" -> "unresolved-reference"
    [] OTHER -> "partial-coverage"

Emitted == {[d EXCEPT !.code = CodeMap(d),
                      !.scope = IF @ = None THEN "arcgis-online" ELSE @] : d \in diags}

Items == {[kind |-> "portal-item", type |-> i.type, tokens |-> {}, id |-> i.id]
            : i \in Range(found.items)}

EndProbe ==
  /\ pc = "probe" /\ found.probe = {}
  /\ pc' = "order"
  /\ Step(found) /\ UNCHANGED diags

Placed == Range(found.order)

Place(n) == Step([found EXCEPT !.order = Append(@, n)]) /\ UNCHANGED <<pc, diags>>

\* Kahn's algorithm, node by node; of several ready ones the code takes the one
\* with the least id, the model any.
Pop ==
  /\ pc = "order"
  /\ \E n \in Ready(Edges, Placed) : Place(n)

EndReady ==
  /\ pc = "order" /\ Ready(Edges, Placed) = {}
  /\ pc' = "cycles"
  /\ Step(found) /\ UNCHANGED diags

\* What is left lies on a cycle or behind one, and comes last.
AppendCycle ==
  /\ pc = "cycles"
  /\ \E n \in Ends(Edges) \ Placed : Place(n)

Emit ==
  /\ pc = "cycles" /\ Ends(Edges) \subseteq Placed
  /\ pc' = "ended"
  /\ result' = [items      |-> found.items,
                edges      |-> Edges,
                federation |-> Federation,
                diags      |-> Emitted,
                verdict    |-> Evaluate(Items, FALSE,
                                  Federation # None /\ Federation.advanced # {}),
                order      |-> found.order,
                review     |-> {i.id : i \in ManualReview(Items, Emitted)}]
  /\ UNCHANGED <<world, found, diags>>

Next ==
  \/ \E o \in Outcomes :
       \/ ReadOrg(o) \/ ReadGroups(o) \/ ReadUsers(o) \/ ReadItems(o) \/ ReadFederation(o)
       \/ \E i \in found.probe : ProbeItem(i, o)
  \/ SkipUsers \/ EndProbe \/ Pop \/ EndReady \/ AppendCycle \/ Emit

Spec == Init /\ [][Next]_vars /\ WF_vars(Next)

-----------------------------------------------------------------------------
TypeOK ==
  /\ world \in Worlds
  /\ pc \in {"org", "groups", "users", "items", "federation", "probe", "order",
             "cycles", "ended", "aborted"}
  /\ found.start \in Nat \ {0}
  /\ found.probe \union Range(found.items) \subseteq Range(world.items)
  /\ \A d \in diags : /\ d.surface \in {"groups", "users", "items", "federation", "item-probe"}
                      /\ d.code \in {"forbidden", "rate-limited", "failed", "skipped"}
  /\ result # None => pc = "ended"

Says(surface, codes) ==
  \E d \in diags : d.surface = surface /\ d.code \in codes

Broken == {"forbidden", "rate-limited", "failed"}

\* "partial inventory returned", and said so (portal/scanner.py): what a portal
\* that names every page lists is in the footprint once and in its order, up to a
\* page that failed; and a topology that is not shown was not there or is reported.
PortalGapsAreReported ==
  result # None =>
    /\ result.items = SubSeq(world.items, 1, Len(result.items))
    /\ world.advances /\ Len(result.items) < Len(world.items) => Says("items", Broken)
    /\ result.federation = None /\ world.servers # {} => Says("federation", Broken)
    /\ world.advances /\ found.groups < world.groups => Says("groups", Broken)

\* The edges are those between the web maps that were read and the items that
\* were read, on whatever page, and the order of the migration follows them.
PortalOrderIsSound ==
  result # None =>
    /\ \A m, s \in Range(result.items) :
         m.type = "Web Map" /\ s.id \in m.deps /\ s # m <=> <<m.id, s.id>> \in result.edges
    /\ Ends(result.edges) \subseteq Known
    /\ SoundOrder(result.order, result.edges)

\* An item whose layers were asked for and could not be read is up for review,
\* except one that was only rate limited.
UnreadItemsAreReviewed ==
  result # None /\ world.deep =>
    \A i \in Range(result.items) :
      Service(i) /\ i.id \notin found.layers =>
        \/ i.id \in result.review
        \/ \E d \in diags : d.scope = i.id /\ d.code = "rate-limited"
=============================================================================
