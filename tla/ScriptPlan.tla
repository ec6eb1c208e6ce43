------------------------------ MODULE ScriptPlan ------------------------------
(***************************************************************************)
(* code scan, translate, run, pyt and atbx: how the geoprocessing calls of *)
(* a Python script, of a tool of a Python toolbox or of a model are found  *)
(* (arcpy.py, pyt.py, modelbuilder.py), classified and translated, and     *)
(* what run makes of them before anything is sent (_cli.py).  GpRun takes  *)
(* over where the steps are submitted.                                     *)
(***************************************************************************)
EXTENDS Assessment, ArcPyTools

CONSTANTS
  Sources,  \* sequences of calls: those of ArcPyTools, with ref, legacy and blocked
  Stars     \* sequences of star imports: "core" for arcpy itself, or a family's module

\* form: where the calls are; stars: the star imports of ArcPy in a script;
\* published: the server publishes its geoprocessing jobs.
Worlds ==
  [form : {"script"}, calls : Sources, stars : Stars, valid : BOOLEAN,
   command : {"translate", "run"}, published : BOOLEAN]
    \union [form : {"toolbox", "model"}, calls : Sources, stars : {<<>>}, valid : {TRUE},
            command : {"translate"}, published : {TRUE}]

Init ==
  /\ world \in Worlds
  /\ pc = "scan"
  /\ found = [at |-> 1, calls |-> <<>>, plan |-> <<>>]
  /\ diags = {}
  /\ result = None

Step(f) == found' = f /\ UNCHANGED <<world, diags, result>>

End(r) ==
  /\ pc' = "ended"
  /\ result' = r
  /\ UNCHANGED <<world, found, diags>>

-----------------------------------------------------------------------------
(* The scan.  A call refers to a tool of ArcPy by its qualified name, by a *)
(* name that is imported, by a bare name that a star import brings or by   *)
(* such a module's name and the tool's (dotted).  What else is called may  *)
(* have a bare name too, a tool's perhaps, or a name that is an import's   *)
(* elsewhere in the script (rebound).  A legacy name ends in its family.   *)

Bare(c) == c.ref \in {"starred", "other"}

\* The tools that arcpy itself has without their family in the name.
CoreFunctions == {"getcount", "projectraster", "resample"}

CoreFamily(tool) == IF tool \in CoreFunctions THEN "management" ELSE "core"

\* What a star import of ArcPy brings into a script.
Brings(star, c) ==
  IF star = "core" THEN c.legacy \/ c.family = CoreFamily(c.tool)
                   ELSE ~c.legacy /\ c.family = star

OfArcPy(c) ==
  \/ c.ref \in {"qualified", "imported"}
  \/ c.ref = "starred" /\ \E star \in Range(world.stars) : Brings(star, c)
  \/ c.ref = "dotted" /\ "core" \in Range(world.stars)

\* Only a star import of arcpy itself counts.
MutSeen(c) ==
  \/ c.ref = "qualified"
  \/ c.ref \in {"imported", "rebound"} /\ world.form # "toolbox"
  \/ Bare(c) /\ "core" \in Range(world.stars)

\* The body of a tool is read without the imports of its module; in a script they
\* count wherever they are, and after a star import every bare name is ArcPy's.
Seen(c) ==
  \/ c.ref = "qualified"
  \/ c.ref \in {"imported", "rebound"} /\ world.form # "toolbox"
  \/ Bare(c) /\ world.stars # <<>>

\* The first star import takes all bare names, whether it brings them or not.
OfStar(c) ==
  LET star == Head(world.stars)
  IN IF star # "core" THEN <<star, IF c.legacy THEN c.tool \o "_" \o c.family ELSE c.tool>>
     ELSE <<IF c.legacy THEN c.family ELSE CoreFamily(c.tool), c.tool>>

\* A step of a model that gives no family is looked up in all of them.
Families(tool) == {s.family : s \in {t \in Registry : t.tool = tool}}

\* The family and the tool that a call is taken for.
Reading(c) ==
  IF Bare(c) /\ world.stars # <<>> THEN OfStar(c)
  ELSE IF world.form = "model" /\ ~Supported(c) /\ Cardinality(Families(c.tool)) = 1
       THEN <<CHOOSE f \in Families(c.tool) : TRUE, c.tool>>
       ELSE <<c.family, c.tool>>

\* The parameters of a model's step have names, or only places in a list.
Listed(c) == [k \in {Extra(i) : i \in DOMAIN c.args} |->
                c.args[CHOOSE i \in DOMAIN c.args : Extra(i) = k]]

Read(c) ==
  LET call == [c EXCEPT !.family = Reading(c)[1], !.tool = Reading(c)[2]]
  IN IF world.form = "model" THEN [call EXCEPT !.args = <<>>, !.kwargs = @ @@ Listed(c)]
                             ELSE call

SyntaxError ==
  /\ pc = "scan" /\ ~world.valid
  /\ End([outcome |-> "syntax-error", steps |-> <<>>, evidence |-> None])

\* A call comes before the calls in its arguments.
Collect ==
  /\ pc = "scan" /\ world.valid
  /\ found.at <= Len(world.calls)
  /\ LET c == world.calls[found.at]
     IN Step([found EXCEPT !.at = @ + 1,
                           !.calls = IF Seen(c) THEN Append(@, Read(c)) ELSE @])
  /\ UNCHANGED pc

EndScan ==
  /\ pc = "scan" /\ world.valid
  /\ found.at > Len(world.calls)
  /\ pc' = "translate"
  /\ Step([found EXCEPT !.at = 1])

-----------------------------------------------------------------------------
(* The translation: every call with a process, whether it is a job or not. *)

Translate ==
  /\ pc = "translate"
  /\ found.at <= Len(found.calls)
  /\ LET c == found.calls[found.at]
     IN Step([found EXCEPT !.at = @ + 1,
                           !.plan = IF Supported(c) THEN Append(@, [call |-> c, payload |-> Payload(c)])
                                                    ELSE @])
  /\ UNCHANGED pc

Translated == pc = "translate" /\ found.at > Len(found.calls)

CallsWith(status) == {i \in DOMAIN found.calls : Status(found.calls[i]) = status}

Covered == CallsWith("translatable")

\* build_parity_evidence: the covered are those the server can run as jobs.
Evidence ==
  [total |-> Len(found.calls), translatable |-> Covered,
   manual |-> CallsWith("manual-review"), unsupported |-> CallsWith("unsupported")]

EndTranslation ==
  /\ Translated /\ world.command = "translate"
  /\ End([outcome |-> "translated", steps |-> <<>>, evidence |-> Evidence])

-----------------------------------------------------------------------------
(* _static_refusal: why run sends nothing.                                 *)

Values(c) == Range(c.args) \union {c.kwargs[k] : k \in DOMAIN c.kwargs} \union c.expanded

\* The two reasons for an expression, that it names what an earlier step made
\* and that it is none of the run's business, are one here.
Unresolved(c) == Expression \in Values(c)

MissesInput(c) ==
  LET spec == SpecOf(c)
  IN \E i \in DOMAIN spec.params :
       /\ ProcessName(spec, spec.params[i]) \in Inputs \union Outputs
       /\ Argument(c, i, spec.params[i]) = Absent

\* The first call that cannot be sent as it is decides.
Incomplete == {i \in Covered : Unresolved(found.calls[i]) \/ MissesInput(found.calls[i])}

Refusal ==
  IF \E i \in DOMAIN found.calls : found.calls[i].blocked THEN "unsupported-control-flow"
  ELSE IF Incomplete # {}
  THEN LET first == CHOOSE i \in Incomplete : \A j \in Incomplete : i <= j
       IN IF Unresolved(found.calls[first]) THEN "unresolved-input" ELSE "missing-input"
  ELSE IF found.calls = <<>> THEN "no-runnable-steps"
  ELSE IF Covered # DOMAIN found.calls THEN "partial-plan" ELSE None

\* The published job takes a geometry, its srid and a distance, and nothing else.
BufferInputs == [input_features |-> "geometry", distance |-> "distance", srid |-> "srid"]

Published(step) ==
  /\ SpecOf(step.call).job = "geometry.buffer"
  /\ step.payload.inputs = BufferInputs
  /\ DOMAIN step.payload.outputs # {}

\* Either every step can be sent or none is.
Sendable == ~world.published \/ \A i \in DOMAIN found.plan : Published(found.plan[i])

Run ==
  /\ Translated /\ world.command = "run"
  /\ LET outcome == IF Refusal # None THEN Refusal
                    ELSE IF Sendable THEN "run" ELSE "not-executable"
     IN End([outcome |-> outcome, steps |-> IF outcome = "run" THEN found.plan ELSE <<>>,
             evidence |-> Evidence])

Next == SyntaxError \/ Collect \/ EndScan \/ Translate \/ EndTranslation \/ Run

Spec == Init /\ [][Next]_vars /\ WF_vars(Next)

-----------------------------------------------------------------------------
(* What the state is, whatever happened.                                   *)
TypeOK ==
  /\ world \in Worlds
  /\ pc \in {"scan", "translate", "ended"}
  /\ found.at \in 1 .. Len(world.calls) + 1
  /\ Len(found.plan) <= Len(found.calls)
  /\ result # None => result.outcome \in
       {"syntax-error", "translated", "unsupported-control-flow", "unresolved-input",
        "missing-input", "no-runnable-steps", "partial-plan", "not-executable", "run"}

\* The ArcPy calls that the scan can see: not those through the name of a module
\* which a star import brings.
Visible == {i \in DOMAIN world.calls : OfArcPy(world.calls[i]) /\ world.calls[i].ref # "dotted"}

\* A step is the call it was made of, of ArcPy or under a name that an import has;
\* only a bare name may be taken for another tool's, after a star import that
\* does not bring it.
Taken(step, c) ==
  \/ step = c /\ (OfArcPy(c) \/ c.ref = "rebound")
  \/ /\ Bare(c) /\ world.stars # <<>>
     /\ OfArcPy(c) => Len(world.stars) > 1
     /\ step = [c EXCEPT !.family = step.family, !.tool = step.tool]

\* A job that runs leaves no visible ArcPy call of the script out and keeps their
\* order, and has nothing that the script's names do not account for; no step was
\* in a branch or a loop, every value was written in the script, and every step is
\* a job that this server has.
RunIsTheScript ==
  result # None /\ result.outcome = "run" =>
    /\ world.form = "script" /\ world.valid
    /\ result.steps # <<>>
    /\ \E at \in [DOMAIN result.steps -> DOMAIN world.calls] :
         /\ \A m, n \in DOMAIN at : m < n => at[m] < at[n]
         /\ \A i \in Visible : \E n \in DOMAIN at : at[n] = i
         /\ \A n \in DOMAIN at : Taken(result.steps[n].call, world.calls[at[n]])
    /\ \A n \in DOMAIN result.steps :
         LET call == result.steps[n].call
         IN /\ ~call.blocked
            /\ Expression \notin Values(call)
            /\ SpecOf(call).job \in ExecutableProcesses
            /\ world.published => SpecOf(call).job = "geometry.buffer"

\* What the checks of a call take for a parameter, by position, by its name or
\* by an alias, is what the payload carries for it, on the side of the inputs
\* or of the outputs where it belongs: the two are resolved by separate code.
ArgumentsKeepTheirPlace ==
  \A n \in DOMAIN found.plan :
    LET call == found.plan[n].call
        spec == SpecOf(call)
    IN \A i \in DOMAIN spec.params :
         LET name == ProcessName(spec, spec.params[i])
             value == Argument(call, i, spec.params[i])
             side == IF name \in Outputs THEN found.plan[n].payload.outputs
                                         ELSE found.plan[n].payload.inputs
         IN value # Absent => name \in DOMAIN side /\ side[name] = value

\* The evidence counts every visible ArcPy call of a script, and nothing else where
\* no star import and no rebound name can be mistaken; and it calls translatable only
\* a job of the server, never a join that is sent with what gives a row for every
\* match: the status is found by other code than the payload.
EvidenceIsHonest ==
  result # None /\ result.evidence # None =>
    /\ world.form = "script" =>
         /\ Cardinality(Visible) <= result.evidence.total
         /\ world.stars = <<>> /\ (\A i \in DOMAIN world.calls : world.calls[i].ref # "rebound") =>
              Cardinality(Visible) = result.evidence.total
    /\ \A i \in result.evidence.translatable :
         LET c == found.calls[i]
             bound == Bound(c)
         IN /\ SpecOf(c).job \in ExecutableProcesses
            /\ SpecOf(c).tool = "spatialjoin" =>
                 /\ "join_operation" \in DOMAIN bound =>
                      bound["join_operation"] # "JOIN_ONE_TO_MANY"
                 /\ "join_type" \in DOMAIN bound => bound["join_type"] # "KEEP_COMMON"
    /\ result.evidence.translatable \union result.evidence.manual
         \union result.evidence.unsupported = 1 .. result.evidence.total

\* pyt.py:123-124: the calls of a tool are classified just like those of a
\* standalone script.
ToolboxesReadLikeScripts ==
  result # None /\ world.form = "toolbox" =>
    result.evidence.total = Cardinality({i \in DOMAIN world.calls : OfArcPy(world.calls[i])})
=============================================================================
