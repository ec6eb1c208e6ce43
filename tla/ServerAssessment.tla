--------------------------- MODULE ServerAssessment ---------------------------
(***************************************************************************)
(* scan arcgis-server: the walk over a server's catalog with its deep and  *)
(* layer probes (server/scanner.py), the administration endpoints of       *)
(* --admin-usage, the footprint that footprint/v0_1.py makes of it, and    *)
(* the verdict on that footprint.                                          *)
(*                                                                         *)
(* Every request may fail in each of the ways the client can tell apart.   *)
(* A server lists its services in an order of its own.                     *)
(***************************************************************************)
EXTENDS Assessment, Verdict, Functions

CONSTANTS
  Catalog,  \* services a server may have: [folder, name, type, layers, lock, samples]
  Stores    \* the data stores it has registered: [id, type]

\* The root of the catalog counts as a folder.
Root == "_root"

ServiceKinds == {"FeatureServer", "MapServer", "ImageServer", "GPServer"}

\* Lock-in service types are neither known kinds nor probed.
DeepProbeTypes == {"FeatureServer", "MapServer", "ImageServer", "GPServer"}

LayerDetailTypes == {"FeatureServer", "MapServer"}

\* A service may be listed without a usable name or type.
Worlds == [services : SUBSET Catalog, malformed : SUBSET {Root},
           admin : BOOLEAN]

FoldersOf(w) == {s.folder : s \in w.services} \ {Root}

In(folder) == {s \in world.services : s.folder = folder}

\* The scope of a diagnostic about a service: its whole identity.
ScopeOf(s) == <<"services", s.folder, s.name, s.type>>

\* What the scan keeps of a service.
Shallow(s) == [service |-> s, deep |-> FALSE, layers |-> {}, detail |-> {}, lock |-> None]

Deep(s) == [service |-> s, deep |-> TRUE, layers |-> s.layers, detail |-> {}, lock |-> s.lock]

Init ==
  /\ world \in Worlds
  /\ pc = "info"
  /\ found = [folders |-> {}, todo |-> {}, records |-> {}, at |-> None, pending |-> {},
              usage |-> {}, stores |-> {}]
  /\ diags = {}
  /\ result = None

Step(f) == found' = f /\ UNCHANGED <<world, result>>

-----------------------------------------------------------------------------
(* The walk.                                                               *)

\* /rest/info only describes the server; but a rejected credential ends the scan.
ReadInfo(o) ==
  /\ pc = "info"
  /\ IF o = "auth" THEN Abort
     ELSE /\ pc' = "root"
          /\ Step(found)
          /\ IF o = "ok" THEN UNCHANGED diags ELSE Report(<<"info">>, "server.info.partial")

Malformed(folder) ==
  IF folder \in world.malformed
    THEN Report(<<"folders", folder>>, "server.service.malformed")
    ELSE UNCHANGED diags

\* Without the root there is nothing to walk.
ReadRoot(o) ==
  /\ pc = "root"
  /\ IF o # "ok" THEN Abort
     ELSE /\ pc' = "walk"
          /\ Step([found EXCEPT !.folders = FoldersOf(world), !.todo = In(Root)])
          /\ Malformed(Root)

FolderCode(o) ==
  CASE o = "forbidden" -> "server.folder.forbidden"
    [] o = "limited" -> "server.folder.rate-limited"
    [] o = "connection" -> "server.folder.connection"
    [] o \in {"not-found", "api"} -> "server.folder.error"

\* _scan_folder catches everything but a rejected credential.
ReadFolder(f, o) ==
  /\ pc = "walk" /\ found.todo = {}
  /\ f \in found.folders
  /\ IF o = "auth" THEN Abort
     ELSE /\ UNCHANGED pc
          /\ Step([found EXCEPT !.folders = @ \ {f},
                                !.todo = IF o = "ok" THEN In(f) ELSE {}])
          /\ IF o = "ok" THEN Malformed(f) ELSE Report(<<"folders", f>>, FolderCode(o))

\* Every failure counts as one of the server's.
MutServiceCode(o) == "server.service.deep-failed"

ServiceCode(o) ==
  CASE o = "limited" -> "server.service.rate-limited"
    [] o \in {"auth", "forbidden"} -> "server.service.missing-permission"
    [] OTHER -> "server.service.deep-failed"

Keep(r) == found.records \union {r}

\* A type without a body to probe; unknown ones are kept and flagged.
ListService(s) ==
  /\ pc = "walk"
  /\ s \in found.todo
  /\ s.type \notin DeepProbeTypes
  /\ Step([found EXCEPT !.todo = @ \ {s}, !.records = Keep(Shallow(s))])
  /\ IF s.type \in ServiceKinds THEN UNCHANGED diags
     ELSE Report(ScopeOf(s), "server.service.unknown-type")
  /\ UNCHANGED pc

\* A failed probe keeps the service as the catalog lists it.
ProbeService(s, o) ==
  /\ pc = "walk"
  /\ s \in found.todo
  /\ s.type \in DeepProbeTypes
  /\ IF o = "ok"
       THEN /\ UNCHANGED diags
            /\ IF s.type \in LayerDetailTypes /\ s.layers # {}
                 THEN /\ pc' = "layers"
                      /\ Step([found EXCEPT !.todo = @ \ {s}, !.at = Deep(s),
                                            !.pending = s.layers])
                 ELSE /\ UNCHANGED pc
                      /\ Step([found EXCEPT !.todo = @ \ {s}, !.records = Keep(Deep(s))])
       ELSE /\ Report(ScopeOf(s), ServiceCode(o))
            /\ UNCHANGED pc
            /\ Step([found EXCEPT !.todo = @ \ {s}, !.records = Keep(Shallow(s))])

\* A failed layer keeps its summary, and leaves no trace.
MutLayerScope(s, l) == <<"layers", s.folder, s.name, s.type>>

LayerScope(s, l) == Append(ScopeOf(s), l)

\* _attach_layer_detail, one layer; the last one completes the record.
ProbeLayer(l, o) ==
  /\ pc = "layers"
  /\ l \in found.pending
  /\ LET r == IF o = "ok" THEN [found.at EXCEPT !.detail = @ \union {l}] ELSE found.at
     IN IF found.pending = {l}
          THEN /\ pc' = "walk"
               /\ Step([found EXCEPT !.pending = {}, !.at = None, !.records = Keep(r)])
          ELSE /\ UNCHANGED pc
               /\ Step([found EXCEPT !.pending = @ \ {l}, !.at = r])
  /\ IF o = "ok" THEN UNCHANGED diags ELSE Report(LayerScope(found.at.service, l), ServiceCode(o))

EndWalk ==
  /\ pc = "walk" /\ found.todo = {} /\ found.folders = {}
  /\ pc' = IF world.admin THEN "usage" ELSE "emit"
  /\ Step(found)
  /\ UNCHANGED diags

-----------------------------------------------------------------------------
(* --admin-usage: GETs of /admin, which never abort the scan.              *)

AdminCode(o) ==
  CASE o \in {"auth", "forbidden"} -> "missing-permission"
    [] o = "not-found" -> "unresolved-reference"
    [] o \in {"connection", "api"} -> "partial-coverage"

\* Too many requests: the plan is given up, with what was read of it.
AdminLimited ==
  /\ pc \in {"usage", "stores"}
  /\ pc' = "emit"
  /\ Report(<<"server.admin">>, "rate-limited")
  /\ Step([found EXCEPT !.usage = {}, !.stores = {}])

\* A report lists services with the samples of their requests, or does not list them.
Reported == {s \in world.services : s.samples # None}

Requests(s) == SumFunction(s.samples)

ReadUsage(o) ==
  /\ pc = "usage"
  /\ o # "limited"
  /\ pc' = "stores"
  /\ Step([found EXCEPT !.usage = IF o = "ok" THEN Reported ELSE {}])
  /\ IF o = "ok" THEN UNCHANGED diags ELSE Report(<<"server.admin", "usagereports">>, AdminCode(o))

ReadStores(o) ==
  /\ pc = "stores"
  /\ o # "limited"
  /\ pc' = "emit"
  /\ Step([found EXCEPT !.stores = IF o = "ok" THEN Stores ELSE {}])
  /\ IF o = "ok" THEN UNCHANGED diags ELSE Report(<<"server.admin", "data/items">>, AdminCode(o))

ConnectionKind(type) ==
  CASE type = "egdb" -> "enterprise-geodatabase"
    [] type = "cloudStore" -> "cloud-store"
    [] type = "folder" -> "file-share"
    [] OTHER -> "unknown"

\* What cannot be classified is copied.
BindingMode(kind) ==
  CASE kind \in {"enterprise-geodatabase", "relational"} -> "federate"
    [] kind \in {"cloud-store", "object-store", "big-data-file-share"} -> "connect-in-place"
    [] OTHER -> "materialize"

\* The rank of a service: more requests first.  A tie goes by name in the code;
\* here both have the better rank.
Rank(s) == 1 + Cardinality({t \in found.usage : Requests(t) > Requests(s)})

BindingPlan ==
  [ranks |-> {[service |-> s, rank |-> Rank(s)] : s \in found.usage},
   bindings |-> {[id |-> d.id, mode |-> BindingMode(ConnectionKind(d.type))] : d \in found.stores}]

-----------------------------------------------------------------------------
(* The footprint and its verdict.                                          *)

TerminalCodes == {"server.service.missing-permission", "server.service.rate-limited"}

\* Services are recognised by their bare name.
MutOmitted(r) == \E d \in diags : /\ d.code \in TerminalCodes
                                  /\ Len(d.scope) >= 4 /\ d.scope[3] = r.service.name

\* _services_omitted_from_inventory: a terminal code at the service or at one of
\* its layers takes the whole service out.
Omitted(r) == \E d \in diags : /\ d.code \in TerminalCodes
                               /\ Len(d.scope) >= 4
                               /\ SubSeq(d.scope, 1, 4) = ScopeOf(r.service)

Retained == {r \in found.records : ~Omitted(r)}

\* The emitter writes no capability tokens.
Item(r) == [kind |-> "server-service", type |-> r.service.type, tokens |-> {}]

\* Anything but feature, map and vector tile services.
Broad(records) == \E r \in records : r.service.type \notin {"FeatureServer", "MapServer"}

Emit ==
  /\ pc = "emit"
  /\ pc' = "ended"
  /\ result' =
       [inventory |-> Retained,
        lockIns   |-> {r.lock : r \in Retained} \ {None},
        edges     |-> UNION {{<<ScopeOf(r.service), LayerScope(r.service, l)>> : l \in r.layers}
                               : r \in Retained},
        plan      |-> IF found.usage # {} \/ found.stores # {} THEN BindingPlan ELSE None,
        verdict   |-> Evaluate({Item(r) : r \in Retained}, Broad(Retained), FALSE)]
  /\ UNCHANGED <<world, found, diags>>

Next ==
  \/ \E o \in Outcomes :
       \/ ReadInfo(o) \/ ReadRoot(o) \/ ReadUsage(o) \/ ReadStores(o)
       \/ \E f \in found.folders : ReadFolder(f, o)
       \/ \E s \in found.todo : ProbeService(s, o)
       \/ \E l \in found.pending : ProbeLayer(l, o)
  \/ \E s \in found.todo : ListService(s)
  \/ EndWalk \/ AdminLimited \/ Emit

Spec == Init /\ [][Next]_vars /\ WF_vars(Next)

-----------------------------------------------------------------------------
DiagCodes ==
  {FolderCode(o) : o \in Failures \ {"auth"}} \union {ServiceCode(o) : o \in Failures}
    \union {AdminCode(o) : o \in Failures \ {"limited"}}
    \union {"server.info.partial", "server.service.malformed", "rate-limited",
            "server.service.unknown-type"}

TypeOK ==
  /\ world \in Worlds
  /\ pc \in {"info", "root", "walk", "layers", "usage", "stores", "emit", "ended", "aborted"}
  /\ {r.service : r \in found.records} \union found.todo \subseteq world.services
  /\ \A d \in diags : d.code \in DiagCodes
  /\ result # None => pc = "ended"

Kept(s) == {r \in result.inventory : r.service = s}

\* The inventory has the service with everything a probe can tell.
Complete(s) ==
  \E r \in Kept(s) :
    /\ s.type \in DeepProbeTypes => r.deep /\ r.lock = s.lock
    /\ s.type \in LayerDetailTypes => r.detail = s.layers

\* The folder, the service, or one of its layers could not be read.
GapReported(s) ==
  \/ \E d \in diags : d.scope = <<"folders", s.folder>> /\ d.code # "server.service.malformed"
  \/ \E d \in diags : Len(d.scope) >= 4 /\ SubSeq(d.scope, 1, 4) = ScopeOf(s)

\* "a token that cannot see a folder or service produces a diagnostic and a
\* partial record" (README): a footprint has each service of the server in full,
\* or says at that very service, its folder or a layer what is missing.
EveryGapIsReported ==
  result # None => \A s \in world.services : Complete(s) \/ GapReported(s)

\* A lock-in service type that could be listed makes the verdict no-go for every
\* profile, whatever else failed.
LockInTypesAreNoGo ==
  result # None =>
    \A s \in world.services :
      s.type = "UtilityNetworkServer" /\ Kept(s) # {} =>
        \A p \in Profiles : /\ result.verdict[p].verdict = "no-go"
                            /\ "utility-network" \in result.verdict[p].boundaries

\* "Hard Esri lock-ins (Utility Network, Parcel Fabric, LRS) are always surfaced
\* as explicit boundaries" (verdict/engine.py).  It does not hold: see README.
LockInsAreBoundaries ==
  result # None =>
    \A p \in Profiles : result.lockIns \subseteq result.verdict[p].boundaries
=============================================================================
