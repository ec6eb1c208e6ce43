---------------------------- MODULE AnalysisParts ----------------------------
(* What changes no server: the scans of a server, of a portal, of licences *)
(* and of who may use what, the requests they send, the translation of     *)
(* ArcPy calls, and the artifacts that a migration is planned, compared    *)
(* and handed off with.  They share no code but Assessment's: a behaviour  *)
(* is one of them, which `focus` chooses.                                  *)
EXTENDS ScriptPlan

CONSTANTS
  Focuses,
  Catalog, Stores,
  Listings, Federations, PageSize,
  AccessServices, Accounts, Privileges,
  Codes, Catalogued, Licences, LicensedServices,
  MaxAttempts, Budget, Cap, Delays,
  Origins, MaxPlans, MaxJobs,
  Runs, Snapshots

VARIABLE focus

all == <<focus, vars>>

Server == INSTANCE ServerAssessment
Portal == INSTANCE PortalAssessment
Access == INSTANCE AccessAssessment WITH Services <- AccessServices
Licensing == INSTANCE LicensingAssessment WITH Services <- LicensedServices
Requests == INSTANCE AssessRequests
Handoff == INSTANCE ServiceHandoff
Reconcile == INSTANCE Reconciliation

\* A call that ArcPy would take, as far as its tool is known: it gives a parameter
\* once by keyword, and by a name of that parameter; and what it has beyond the
\* parameters is none of them.
Legal(call) ==
  Supported(call) =>
    LET spec == SpecOf(call)
    IN /\ \A j, k \in DOMAIN call.kwargs : Named(spec, j) = Named(spec, k) => j = k
       /\ \A i \in DOMAIN spec.params :
            LET name == ProcessName(spec, spec.params[i])
            IN /\ \A k \in DOMAIN call.kwargs :
                    Named(spec, k) = name => k \in Spellings(spec, spec.params[i])
               /\ \A j \in DOMAIN call.args : Slot(spec, j) = name => j = i

\* A source is a sequence of calls, each of them legal for whatever tool it is
\* taken, also when its parameters are listed; and nothing is no refusal.
ASSUME ScriptAssumption ==
  /\ \A stars \in Stars : stars \in Seq(Range(stars))
  /\ \A calls \in Sources :
       /\ calls \in Seq(Range(calls))
       /\ \A c \in Range(calls) :
            /\ c \in [ref : {c.ref}, legacy : {c.legacy}, blocked : {c.blocked},
                      expanded : {c.expanded}, family : {c.family}, tool : {c.tool},
                      args : {c.args}, kwargs : {c.kwargs}]
            /\ c.args \in Seq(Range(c.args))
            /\ \A f \in {c.family, "core", "management"} \union Families(c.tool)
                         \union UNION {Range(stars) : stars \in Stars} :
               \A t \in {c.tool, c.tool \o "_" \o c.family} :
                 LET read == [c EXCEPT !.family = f, !.tool = t]
                 IN Legal(read) /\ Legal([read EXCEPT !.args = <<>>, !.kwargs = @ @@ Listed(c)])
  /\ None \notin {"unsupported-control-flow", "unresolved-input", "missing-input",
                 "no-runnable-steps", "partial-plan"}

\* A client makes an attempt, and waits for seconds.  Backoff is a power of two:
\* the provers have no theory of powers.
ASSUME RequestsAssumption ==
  /\ MaxAttempts \in Nat \ {0} /\ Budget \in Nat /\ Cap \in Nat
  /\ Delays \subseteq Nat \union {None} /\ None \notin Nat
  /\ None \notin Requests!Outcomes
  /\ \A attempt \in 1 .. MaxAttempts : Requests!Backoff(attempt) \in Nat

\* A listing is a sequence of items, each known by its id, and neither an id nor a
\* topology is nothing.
ASSUME PortalAssumption ==
  /\ PageSize \in Nat \ {0}
  /\ \A l \in Listings :
       /\ l \in Seq(Range(l))
       /\ \A i, j \in Range(l) : i.id # None /\ (i.id = j.id => i = j)
  /\ None \notin Federations
  /\ None \notin [roles : SUBSET {"hosting", "federated"},
                advanced : SUBSET Portal!AdvancedFunctions]

\* A service is known by its folder and name, and no custom role has the id of a
\* built-in one.
ASSUME AccessAssumption ==
  /\ \A s, t \in AccessServices : s.folder = t.folder /\ s.name = t.name => s = t
  /\ DOMAIN Privileges \intersect {r.id : r \in Access!BuiltIn} = {}

\* A licence is a code and a status, and a version is not nothing.
ASSUME LicensingAssumption ==
  /\ None \notin {"rest", "admin"}
  /\ \A l \in Licences : l \in [code : {l.code}, status : {l.status}]

\* Relationships come in a sequence, and digit says of a title how it starts.
ASSUME OriginsAssumption ==
  /\ MaxPlans \in Nat /\ MaxJobs \in Nat
  /\ \A o \in Origins : o.related # None =>
       /\ o.related \in Seq(Range(o.related))
       /\ \A r \in Range(o.related) : ~Handoff!Acceptable(<<r.title.stem>>) => r.title.digit

-----------------------------------------------------------------------------
PartsInit ==
  /\ focus \in Focuses
  /\ \/ focus = "server" /\ Server!Init
     \/ focus = "portal" /\ Portal!Init
     \/ focus = "access" /\ Access!Init
     \/ focus = "requests" /\ Requests!Init
     \/ focus = "licensing" /\ Licensing!Init
     \/ focus = "handoff" /\ Handoff!Init
     \/ focus = "reconcile" /\ Reconcile!Init
     \/ focus = "script" /\ Init

Reads ==
  /\ UNCHANGED focus
  /\ \/ focus = "server" /\ Server!Next
     \/ focus = "portal" /\ Portal!Next
     \/ focus = "access" /\ Access!Next
     \/ focus = "requests" /\ Requests!Next
     \/ focus = "licensing" /\ Licensing!Next
     \/ focus = "handoff" /\ Handoff!Next
     \/ focus = "reconcile" /\ Reconcile!Next
     \/ focus = "script" /\ Next

\* What is over stays as it is.
Done == Over /\ UNCHANGED all

PartsNext == Reads \/ Done

PartsSpec == PartsInit /\ [][PartsNext]_all

\* Each is one thread that takes its next step while it has one.  This is
\* WF_all(Reads) without its ENABLED, which is slow to evaluate here: whatever is
\* not over has a next step, or TLC would report a deadlock.
PartsFairness == []<>Over \/ []<><<TRUE>>_all

FairParts == PartsSpec /\ PartsFairness

-----------------------------------------------------------------------------
\* The five variables have the types of the part in focus.
TypesOK ==
  /\ focus = "server" => Server!TypeOK
  /\ focus = "portal" => Portal!TypeOK
  /\ focus = "access" => Access!TypeOK
  /\ focus = "requests" => Requests!TypeOK
  /\ focus = "licensing" => Licensing!TypeOK
  /\ focus = "handoff" => Handoff!TypeOK
  /\ focus = "reconcile" => Reconcile!TypeOK
  /\ focus = "script" => TypeOK

\* What a scan of a server, a portal or its licences could not read or leaves out
\* is named by a diagnostic, and no portal item that was not read is left to the
\* machine: see ServerAssessment, PortalAssessment and LicensingAssessment.
GapsAreReported ==
  /\ focus = "server" => Server!EveryGapIsReported
  /\ focus = "portal" => Portal!PortalGapsAreReported /\ Portal!UnreadItemsAreReviewed
  /\ focus = "licensing" => Licensing!LicensingIsTrue

\* A service of a lock-in type makes the verdict a no-go: see ServerAssessment.
LockInTypesAreNoGo == focus = "server" => Server!LockInTypesAreNoGo

\* Items are to be moved after what they depend on: see PortalAssessment.
PortalOrderIsSound == focus = "portal" => Portal!PortalOrderIsSound

\* A request is repeated within its attempts and budget, and its answer is what
\* the server said: see AssessRequests.
RequestsAreBounded ==
  focus = "requests" => Requests!RequestIsBounded /\ Requests!AnswerIsUnderstood

\* Nobody is granted what the server denied, and no privilege of a role is lost
\* or invented: see AccessAssessment.
AccessIsNotWidened ==
  focus = "access" => Access!AccessIsNotWidened /\ Access!RolesKeepPrivileges

\* A handoff maps what was planned to what was imported, a reconciliation that
\* matches compared everything, of this run: see ServiceHandoff, Reconciliation.
HandoffIsTrue ==
  /\ focus = "handoff" =>
       Handoff!PlanIsTheClosure /\ Handoff!HandoffMapsImports /\ Handoff!HandoffClaimsNoMore
  /\ focus = "reconcile" => Reconcile!MatchIsComplete

\* What runs is the whole script, with its arguments in their places: see
\* ScriptPlan.
ScriptRunIsTheScript == focus = "script" => RunIsTheScript

\* The value a check took for an argument is the one that is sent: see ScriptPlan.
ScriptKeepsItsArguments == focus = "script" => ArgumentsKeepTheirPlace

\* The evidence about a script is honest: see ScriptPlan.
ScriptEvidenceIsHonest == focus = "script" => EvidenceIsHonest

\* A lock-in that was found is a boundary and a no-go: see ServerAssessment.  It
\* does not hold.
LockInsAreBoundaries == focus = "server" => Server!LockInsAreBoundaries

\* The tools of a toolbox are read as a script is: see ScriptPlan.  It does not hold.
ToolsAreReadLikeScripts == focus = "script" => ToolboxesReadLikeScripts

\* A scan ends, whatever the server answers: with its result or an error.
AnalysisEnds == <>Over
=============================================================================
