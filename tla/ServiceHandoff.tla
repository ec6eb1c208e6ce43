---------------------------- MODULE ServiceHandoff ----------------------------
(***************************************************************************)
(* From plan to handoff (services/arcgis.py): plan expands a layer to its  *)
(* related layers, imports are run, and handoff makes of the plans and     *)
(* receipts that an operator lists the mapping which an application that   *)
(* stays behind will use.  Both commands are local: what they are told     *)
(* comes from files, each written and read at another time.                *)
(*                                                                         *)
(* The import of a plan is ImportApply's: its receipt names the jobs of    *)
(* the actions in order, of all of them or of the first few.               *)
(***************************************************************************)
EXTENDS Assessment, Functions

CONSTANTS
  Origins,   \* what plan may be asked: [layer, table, related], related may be None
  MaxPlans,  \* bound: plans made
  MaxJobs    \* bound: jobs of imports

\* What handoff is told of how it went.
Reported == {"success", "partial", "failed", "unknown"}

Init ==
  /\ world = [plans |-> <<>>, jobs |-> <<>>, receipts |-> {}]
  /\ pc = "plan"
  /\ found = [draft |-> None, mapping |-> {}, mode |-> None, recovery |-> None]
  /\ diags = {}
  /\ result = None

-----------------------------------------------------------------------------
(* plan.                                                                   *)

Request(layer, table) == [layer |-> layer, table |-> table]

\* Titles are cut and cleaned to a stem, which may be empty or start with a digit.
MutDerivedTable(title, layer) == <<title.stem>>

DerivedTable(title, layer) ==
  IF title.stem = None THEN <<"layer", layer>>
  ELSE IF title.digit THEN <<"t", title.stem>> ELSE <<title.stem>>

\* A table that starts with a letter.
Acceptable(table) == table[1] \notin {"9", "2019"}

\* A layer related in several ways is imported once.
Seen(requests, r) == r.layer \in {requests[i].layer : i \in DOMAIN requests}

Clashes(requests, table) == table \in {requests[i].table : i \in DOMAIN requests}

\* Without a file of relationships there are none.
Related(o) == IF o.related = None THEN <<>> ELSE o.related

Refuse ==
  /\ pc' = "ended"
  /\ UNCHANGED <<world, found, diags, result>>

Draft(d) == found' = [found EXCEPT !.draft = d] /\ UNCHANGED <<world, diags, result>>

\* plan_command, and expand_service_plan up to its loop.
BeginPlan(o) ==
  /\ pc = "plan"
  /\ Len(world.plans) < MaxPlans
  /\ IF o.related # None /\ ~Acceptable(o.table) THEN Refuse
     ELSE /\ pc' = "expand"
          /\ Draft([origin |-> o, requests |-> <<Request(o.layer, o.table)>>, at |-> 1])

\* expand_service_plan, one relationship: one without a related layer is none.
Expand ==
  /\ pc = "expand"
  /\ LET d == found.draft
         next == [d EXCEPT !.at = @ + 1]
         r == Related(d.origin)[d.at]
         table == DerivedTable(r.title, r.layer)
     IN /\ d.at <= Len(Related(d.origin))
        /\ IF r.layer = None \/ Seen(d.requests, r) THEN Draft(next) /\ UNCHANGED pc
           ELSE IF Clashes(d.requests, table) THEN Refuse
           ELSE Draft([next EXCEPT !.requests = Append(@, Request(r.layer, table))]) /\ UNCHANGED pc

\* A plan's id is the digest of its requests; edited is a plan changed since.
EndPlan ==
  /\ pc = "expand"
  /\ found.draft.at > Len(Related(found.draft.origin))
  /\ pc' = "plan"
  /\ world' = [world EXCEPT !.plans = Append(@, [origin |-> found.draft.origin,
                                                 requests |-> found.draft.requests,
                                                 edited |-> FALSE])]
  /\ found' = [found EXCEPT !.draft = None]
  /\ UNCHANGED <<diags, result>>

-----------------------------------------------------------------------------
(* The files: plans that change, imports with their receipts.              *)

Edit(p) ==
  /\ pc = "plan"
  /\ ~world.plans[p].edited
  /\ world' = [world EXCEPT !.plans[p].edited = TRUE]
  /\ UNCHANGED <<pc, found, diags, result>>

Import(p, n) ==
  /\ pc = "plan"
  /\ ~world.plans[p].edited
  /\ Len(world.jobs) + n <= MaxJobs
  /\ world' = [world EXCEPT
       !.jobs = @ \o SubSeq(world.plans[p].requests, 1, n),
       !.receipts = @ \union {[plan |-> world.plans[p].requests,
                               jobs |-> [i \in 1 .. n |-> Len(world.jobs) + i]]}]
  /\ UNCHANGED <<pc, found, diags, result>>

-----------------------------------------------------------------------------
(* handoff, which reads its manifest entry by entry.                       *)

BeginHandoff ==
  /\ pc = "plan"
  /\ world.plans # <<>>
  /\ pc' = "handoff"
  /\ UNCHANGED <<world, found, diags, result>>

MutReadable(plan) == TRUE

\* _read_artifact: the digest must be that of the actions.
Readable(plan) == ~plan.edited

MutJobIds(plan, receipt) == receipt.jobs

\* _handoff_job_ids: a receipt of another plan is refused.
JobIds(plan, receipt) == IF receipt.plan = plan.requests THEN receipt.jobs ELSE <<>>

\* A plan, the number of target layers given for it, and its receipt; jobs that the
\* operator names without a receipt are his word, and left out.
Entries ==
  [plan : DOMAIN world.plans, targets : {1, 2}, receipt : world.receipts \union {None}]

Lists(entry) ==
  LET plan == world.plans[entry.plan]
      n == Len(plan.requests)
  IN /\ Readable(plan)
     /\ entry.targets = n
     /\ entry.receipt # None => Len(JobIds(plan, entry.receipt)) = n

Mapped(entry) ==
  LET plan == world.plans[entry.plan]
  IN {[plan |-> plan.requests, layer |-> plan.requests[i].layer, table |-> plan.requests[i].table,
       target |-> i,
       job |-> IF entry.receipt = None THEN None ELSE JobIds(plan, entry.receipt)[i]] :
        i \in DOMAIN plan.requests}

\* _handoff_scope, one entry.  That a plan is listed twice is not looked at; what
\* says nothing new may as well be left out.
ReadEntry(entry) ==
  /\ pc = "handoff"
  /\ IF Lists(entry)
       THEN /\ ~(Mapped(entry) \subseteq found.mapping)
            /\ found' = [found EXCEPT !.mapping = @ \union Mapped(entry)]
            /\ UNCHANGED <<world, pc, diags, result>>
       ELSE Refuse

\* _handoff_mode_fields: baseline and cutover say whether each mode's own options
\* are given, all of them or some; "serving" is --source-still-serving alone,
\* which the cutover does not look at.
Given == {"none", "some", "all"}

Allows(mode, baseline, cutover) ==
  \/ mode = "coexistence" /\ baseline = "all" /\ cutover = "none"
  \/ mode = "cutover" /\ baseline \in {"none", "serving"} /\ cutover = "all"

ChooseMode(mode, baseline, cutover) ==
  /\ pc = "handoff"
  /\ found.mapping # {}
  /\ IF Allows(mode, baseline, cutover)
       THEN /\ pc' = "status"
            /\ found' = [found EXCEPT !.mode = mode]
            /\ UNCHANGED <<world, diags, result>>
       ELSE Refuse

Handling == {"preserved", "reconciled", "discarded-with-consent"}

\* _handoff_status: who switches back says what becomes of the writes since.
ChooseStatus(recovery, handling) ==
  /\ pc = "status"
  /\ IF recovery = "endpoint-switchback" <=> handling \in Handling
       THEN /\ pc' = "outcome"
            /\ found' = [found EXCEPT !.recovery = <<recovery, handling>>]
            /\ UNCHANGED <<world, diags, result>>
       ELSE Refuse

\* Whatever did not fail went well.
MutOutcome(parts) == IF "failed" \in parts THEN "failed" ELSE "success"

\* _handoff_outcome.
Outcome(parts) ==
  IF "failed" \in parts THEN "failed"
  ELSE IF parts \intersect {"partial", "unknown"} # {} THEN "partial" ELSE "success"

\* The artifact, unless it claims no change and names one.
Emit(parts, changes) ==
  /\ pc = "outcome"
  /\ IF changes = {} \/ ("none" \in changes /\ changes # {"none"}) THEN Refuse
     ELSE /\ pc' = "ended"
          /\ result' = [mapping |-> found.mapping, changes |-> changes, parts |-> parts,
                        plans |-> {m.plan : m \in found.mapping}, outcome |-> Outcome(parts)]
          /\ UNCHANGED <<world, found, diags>>

Next ==
  \/ \E o \in Origins : BeginPlan(o)
  \/ Expand \/ EndPlan
  \/ \E p \in DOMAIN world.plans :
       Edit(p) \/ \E n \in DOMAIN world.plans[p].requests : Import(p, n)
  \/ BeginHandoff
  \/ \E entry \in Entries : ReadEntry(entry)
  \/ \E mode \in {"coexistence", "cutover"}, baseline \in Given \union {"serving"}, cutover \in Given :
       ChooseMode(mode, baseline, cutover)
  \/ \E recovery \in {"none", "endpoint-switchback"}, handling \in {None, "preserved"} :
       ChooseStatus(recovery, handling)
  \/ \E i, r, a \in Reported, changes \in SUBSET {"none", "endpoint"} : Emit({i, r, a}, changes)

Spec == Init /\ [][Next]_vars /\ WF_vars(Next)

-----------------------------------------------------------------------------
TypeOK ==
  /\ Len(world.plans) <= MaxPlans
  /\ Len(world.jobs) <= MaxJobs
  /\ pc \in {"plan", "expand", "handoff", "status", "outcome", "ended"}
  /\ found.mode \in {None, "coexistence", "cutover"}
  /\ result # None => result.outcome \in Reported \ {"unknown"}

\* A plan imports its layer first and every layer related to it, each once and
\* each into a table of its own that the server will take: "a layer title such as
\* '2019 Inspections' would otherwise queue the origin and then fail the related
\* start" (_derived_table_name).
PlanIsTheClosure ==
  \A p \in DOMAIN world.plans :
    LET plan == world.plans[p]
        layers == [i \in DOMAIN plan.requests |-> plan.requests[i].layer]
        tables == [i \in DOMAIN plan.requests |-> plan.requests[i].table]
    IN /\ layers[1] = plan.origin.layer
       /\ IsInjective(layers) /\ IsInjective(tables)
       /\ plan.origin.related # None => \A i \in DOMAIN tables : Acceptable(tables[i])
       /\ Range(layers) = {plan.origin.layer} \union
            (IF plan.origin.related = None THEN {}
             ELSE {plan.origin.related[i].layer : i \in DOMAIN plan.origin.related} \ {None})

\* A handoff says where each layer of its plans went, all of them, and the job it
\* gives for a layer is one that imported this very layer into this very table,
\* whichever receipts and plans the operator put together.
HandoffMapsImports ==
  result # None =>
    /\ \A m \in result.mapping :
         m.job # None => world.jobs[m.job] = Request(m.layer, m.table)
    /\ \A plan \in result.plans :
         /\ \A i \in DOMAIN plan :
              \E m \in result.mapping : m.plan = plan /\ Request(m.layer, m.table) = plan[i]
         /\ \E p \in DOMAIN world.plans : world.plans[p].requests = plan /\ ~world.plans[p].edited

\* "A reconciliation match does not imply the retained application works"
\* (docs/contracts/arcgis-existing-app-handoff.md): success is that of all three.
HandoffClaimsNoMore ==
  result # None => (result.outcome = "success" <=> result.parts = {"success"})
=============================================================================
