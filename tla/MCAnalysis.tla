------------------------------ MODULE MCAnalysis ------------------------------
(* The parts of AnalysisParts on small instances, for TLC.                 *)
EXTENDS AnalysisParts

-----------------------------------------------------------------------------
(* A server: two services of one name, one of them with two layers and a   *)
(* lock-in behind it, and a service that is a lock-in by its type.         *)

Service(folder, name, type, layers, lock, samples) ==
  [folder |-> folder, name |-> name, type |-> type, layers |-> layers, lock |-> lock,
   samples |-> samples]

MCCatalog ==
  { Service("_root", "parcels", "FeatureServer", {0, 1}, "parcel-fabric", <<1, 0>>),
    Service("f", "parcels", "FeatureServer", {0}, None, <<>>),
    Service("f", "net", "UtilityNetworkServer", {}, None, None) }

MCStores == {[id |-> "d", type |-> "egdb"]}

-----------------------------------------------------------------------------
(* A portal: a cycle of maps with a service below it, an item that refers  *)
(* to itself and one elsewhere, a chain, and nothing at all.               *)

Item(id, type, host, deps) == [id |-> id, type |-> type, host |-> host, deps |-> deps]

MCListings ==
  { <<>>,
    << Item("a", "Web Map", None, {"b", "c"}), Item("b", "Feature Service", "own", {}),
       Item("c", "Web Map", None, {"a"}) >>,
    << Item("a", "Notebook", "foreign", {}), Item("b", "Web Map", None, {"a", "b"}),
       Item("c", "Utility Network", "own", {"a"}) >>,
    << Item("a", "Web Map", None, {"b"}), Item("b", "Feature Service", "own", {}) >> }

MCFederations == {{}, {[function |-> "GeoEvent", hosted |-> FALSE]}}

-----------------------------------------------------------------------------
(* Permissions: a public service that lets a role query and denies it the  *)
(* edits, one of the same name in a folder, a user with two roles.         *)

Entry(principal, allowed, ops) == [principal |-> principal, allowed |-> allowed, ops |-> ops]

MCAccessServices ==
  { [folder |-> None, name |-> "roads",
     aces |-> { Entry("esriEveryone", TRUE, {"query"}), Entry("clerks", TRUE, {"query"}),
                Entry("clerks", FALSE, {"edit"}) }],
    [folder |-> "f", name |-> "roads", aces |-> {Entry("clerks", TRUE, {"edit"})}] }

MCAccounts == {[name |-> "ann", roles |-> <<"clerks", "boss">>]}

MCPrivileges == ("clerks" :> {"user:shareToOrg", "user:shareToGroup"}) @@ ("boss" :> {"user:fly"})

-----------------------------------------------------------------------------
(* Licences: a known and an unknown extension, a licence with a status     *)
(* that the scanner does not know, services at the root and in a folder.   *)

MCLicences == {[code |-> "Spatial", status |-> "good"], [code |-> "Odd", status |-> "grace"]}

MCLicensedServices ==
  { [folder |-> "", name |-> "roads", extensions |-> {[name |-> "wms", enabled |-> TRUE]}],
    [folder |-> "f", name |-> "roads",
     extensions |-> {[name |-> "wfs", enabled |-> FALSE], [name |-> "soi", enabled |-> TRUE]}] }

\* Requests: four attempts in four seconds, a server that asks for any delay.
MCDelays == {None, 0, 1, 3, 9}

-----------------------------------------------------------------------------
(* Scripts: every tool of the registry with its arguments by position, by  *)
(* name and by alias, and all pairs of some calls; star imports of arcpy   *)
(* itself, of the right family and of a wrong one before it.               *)

Call(family, tool, args, kwargs) ==
  [ref |-> "qualified", legacy |-> FALSE, blocked |-> FALSE, expanded |-> {},
   family |-> family, tool |-> tool, args |-> args, kwargs |-> kwargs]

Split(s, n) ==
  Call(s.family, s.tool, SubSeq(s.params, 1, n),
       [p \in {s.params[i] : i \in n + 1 .. Len(s.params)} |-> p])

EveryTool ==
  UNION {{<<Split(s, n)>> : n \in 0 .. Len(s.params)}
           \union {<<Call(s.family, s.tool, <<>>, a[1] :> "value")>> : a \in s.aliases} :
         s \in Registry}

Buffer == Call("analysis", "buffer", <<"geometry", "result", "distance">>, "srid" :> "srid")

Join(operation) ==
  Call("analysis", "spatialjoin", <<"parcels", "roads", "result">>, "join_operation" :> operation)

SomeCalls ==
  { Buffer,
    [Buffer EXCEPT !.ref = "imported"],
    [Buffer EXCEPT !.ref = "other", !.family = "core", !.tool = "print"],
    [Buffer EXCEPT !.ref = "other"],
    [Buffer EXCEPT !.ref = "starred"],
    [Buffer EXCEPT !.ref = "starred", !.legacy = TRUE],
    [Buffer EXCEPT !.ref = "dotted"],
    [Buffer EXCEPT !.ref = "rebound"],
    [Buffer EXCEPT !.family = "core"],
    [Buffer EXCEPT !.tool = "pairwisebuffer", !.blocked = TRUE],
    [Buffer EXCEPT !.args = <<"geometry">>],
    [Buffer EXCEPT !.args = <<"geometry", "result">>],
    [Buffer EXCEPT !.args = <<"geometry", "result", Expression>>],
    [Buffer EXCEPT !.expanded = {Expression}],
    Join("JOIN_ONE_TO_ONE"),
    [Join("JOIN_ONE_TO_ONE") EXCEPT !.kwargs = @ @@ "join_type" :> "KEEP_COMMON"],
    Join("JOIN_ONE_TO_MANY") }

MCStars == {<<>>, <<"core">>, <<"analysis">>, <<"management", "analysis">>}

MCSources == EveryTool \union UNION {[1 .. n -> SomeCalls] : n \in 0 .. 2}

-----------------------------------------------------------------------------
(* Handoffs: a layer alone, one related to two others, to itself and twice *)
(* to one, one whose related titles clash, and one with a table that the   *)
(* server would not take.                                                  *)

Relation(layer, stem, digit) == [layer |-> layer, title |-> [stem |-> stem, digit |-> digit]]

Origin(layer, table, related) == [layer |-> layer, table |-> <<table>>, related |-> related]

MCOrigins ==
  { Origin(0, "parcels", None),
    Origin(0, "parcels", << Relation(0, "parcels", FALSE), Relation(1, "2019", TRUE),
                            Relation(None, "lost", FALSE), Relation(1, "2019", TRUE) >>),
    Origin(1, "roads", << Relation(2, None, FALSE) >>),
    Origin(1, "roads", << Relation(2, "roads", FALSE) >>),
    Origin(1, "9", <<>>) }

-----------------------------------------------------------------------------
(* Reconciliations: snapshots of this run, of the run after it and of its  *)
(* plan as it was before; each category in turn missing or different.      *)

MCRun == [id |-> "r", plan |-> "p", digest |-> "d", service |-> "arcgis", outcome |-> "succeeded"]

MCRuns == {MCRun, [MCRun EXCEPT !.outcome = "partial"]}

Categories == {"counts", "schemas", "extents", "samples", "relationships"}

Data == [c \in Categories |-> <<"x", "x", "y">>]

Snapshot ==
  [id |-> "r", plan |-> "p", digest |-> "d", service |-> "arcgis", values |-> Data,
   metadata |-> [title |-> "T", owner |-> "o"], supported |-> {"title"}]

MCSnapshots ==
  { Snapshot,
    [Snapshot EXCEPT !.id = "s"], [Snapshot EXCEPT !.digest = "e"],
    [Snapshot EXCEPT !.metadata.title = "U"], [Snapshot EXCEPT !.metadata.owner = "q"],
    [Snapshot EXCEPT !.metadata = None], [Snapshot EXCEPT !.supported = None] }
  \union {[Snapshot EXCEPT !.values[c] = v] :
             c \in Categories,
             v \in {None, <<"y", "x", "x">>, <<"x", "y", "y">>}}
=============================================================================
