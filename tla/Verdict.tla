------------------------------- MODULE Verdict -------------------------------
(* The migratability verdict of honua_esri_assess/verdict: which           *)
(* capabilities of the registry the items of a footprint exhibit, and what *)
(* that means for each shop profile.                                       *)
EXTENDS Naturals, FiniteSets

Profiles == {"web-map-and-services", "editing-heavy", "raster/imagery", "3d", "utility", "gov"}

Web == {"web-map-and-services"}

Entry(key, tier, portal, server, tokens, profiles) ==
  [key |-> key, tier |-> tier, portal |-> portal, server |-> server, tokens |-> tokens,
   profiles |-> profiles]

\* The capabilities of the portal and service types that the models use; an
\* entry without profiles is for every profile.
Registry ==
  { Entry("web-map", "go", {"Web Map"}, {}, {}, Web \union {"gov"}),
    Entry("feature-service", "go", {"Feature Service"}, {"FeatureServer"}, {},
          Web \union {"editing-heavy", "gov"}),
    Entry("editing", "go", {}, {}, {"editing"}, {"editing-heavy"}),
    Entry("image-service", "conditional", {"Image Service"}, {"ImageServer"}, {"image"},
          {"raster/imagery"}),
    Entry("dashboards-apps", "conditional", {"Dashboard"}, {}, {}, Web \union {"gov"}),
    Entry("geoprocessing", "conditional", {"Geoprocessing Service"}, {"GPServer"}, {}, {}),
    Entry("utility-network", "no-go", {"Utility Network"}, {"UtilityNetworkServer"},
          {"utilitynetwork"}, {"utility"}),
    Entry("parcel-fabric", "no-go", {"Parcel Fabric"}, {"ParcelFabricServer"},
          {"parcelfabric"}, {"gov"}),
    Entry("lrs", "no-go", {"LRS Network"}, {"LRServer"}, {"lrs"}, {"utility", "gov"}) }

HardLockIns == {"utility-network", "parcel-fabric", "lrs"}

TierRank == [t \in {"go", "conditional", "no-go"} |->
               CASE t = "go" -> 0 [] t = "conditional" -> 1 [] t = "no-go" -> 2]

\* An item is [kind, type, tokens]: the emitter writes no capability tokens, a
\* footprint made elsewhere may have them.
Matches(entry, item) ==
  \/ item.kind = "portal-item" /\ item.type \in entry.portal
  \/ item.kind = "server-service" /\ item.type \in entry.server
  \/ item.tokens \intersect entry.tokens # {}

Detected(items) == {e \in Registry : \E i \in items : Matches(e, i)}

\* Lock-ins count for the profile they are listed under only.
MutEntriesFor(profile, items) ==
  {e \in Detected(items) : e.profiles = {} \/ profile \in e.profiles}

\* A hard lock-in is in every profile's scope.
EntriesFor(profile, items) ==
  {e \in Detected(items) : \/ e.profiles = {} \/ profile \in e.profiles
                           \/ e.key \in HardLockIns}

\* The worst tier; a profile that nothing touches is a go.
Tier(entries) ==
  IF entries = {} THEN "go"
  ELSE (CHOOSE e \in entries : \A f \in entries : TierRank[f.tier] <= TierRank[e.tier]).tier

\* The named boundaries: everything but a go.
Boundaries(entries) == {e.key : e \in {f \in entries : f.tier # "go"}}

Bands == <<"Low", "Moderate", "High", "Very High">>

\* Breadth and advanced roles lift the band by one each.
Effort(entries, tier, broad, roles) ==
  LET caveats == Cardinality({e \in entries : e.tier = "conditional"})
      base    == IF caveats = 0 THEN 1 ELSE IF caveats <= 2 THEN 2 ELSE 3
      lift    == (IF broad THEN 1 ELSE 0) + (IF roles THEN 1 ELSE 0)
  IN IF tier = "no-go" THEN "Very High"
     ELSE Bands[IF base + lift > 4 THEN 4 ELSE base + lift]

\* evaluate.
Evaluate(items, broad, roles) ==
  [p \in Profiles |->
     LET entries == EntriesFor(p, items)
     IN [verdict |-> Tier(entries), boundaries |-> Boundaries(entries),
         effort |-> Effort(entries, Tier(entries), broad, roles)]]
=============================================================================
