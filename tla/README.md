# TLA+ models of honua-migrate

This directory is the verification development kept beside the code: TLA+
modules that model the parts of `honua-migrate` whose correctness depends on
the order of events or on what is known when a decision is made, TLC
configurations that check them on small instances, and TLAPS proofs of what
matters most for every instance. Source paths are relative to the repository
root.

## 1. Inventory

`honua-migrate` moves GIS estates off a proprietary stack. It is a family of
command-line tools; each invocation is a sequential process, so the difficult
behaviour comes from what surrounds it: files shared between invocations,
servers that go on working after the client stopped, retries, crashes, and
requests that fail one by one while a result is being assembled.

| Part | Sources | State it keeps | What makes it hard | What makes it correct | Module |
|---|---|---|---|---|---|
| Durable run orchestration | `src/honua_migrate/runs/orchestration.py`, `runs/cli.py` | run artifact, lease file, in-memory run, target effects | crashes between effect and record, failing saves, two processes, late effects, plan edited under a run | no write repeated, record before write, plan order, honest outcomes, resumability | `RunOrchestration`, `ActionLedger` |
| Artifact output, Python | `honua_esri_assess/output_io.py`, `_atomic_write_new`, `_write_json` | destination file, temporary file | preflight/write race, crash mid-write, power loss, `--force` | never a torn file, only a lost race destroys one | `AtomicOutput` |
| Artifact output, JavaScript | `packages/javascript/upstream/src/migration/output-writer.ts` | several destinations, hidden backups, a staged directory | one of several outputs fails, kill between backup and link, racing commands | all or nothing, nothing lost | `JsOutput` |
| GeoServices import client | `honua_migrate/services/arcgis.py` | import jobs, plan and receipt files, clock | POST with a lost answer, GET retries against a deadline, late terminal answers, partial batches | a job is queued at most once per apply, no lost job id, late is not success | `ImportApply`, `ImportResume` |
| Plans and handoffs of GeoServices | `honua_migrate/services/arcgis.py` | plans, receipts and a manifest of different days | related layers that clash, edited plans, receipts of part of a plan | the handoff maps each layer to the job that imported it | `ServiceHandoff` |
| Target readiness | `honua_migrate/services/target_readiness.py` | none (a decision over probes) | retries, contradictory declarations, unknown vs. denied | ready only on positive evidence | `TargetReadiness` |
| GeoServer client | `honua_migrate/services/geoserver.py` | dry-run and real jobs, plan file | two jobs that must correspond, ids of two servers that coincide, waits that time out | apply imports only what this server rehearsed | `GeoServerImport` |
| ArcPy scan and translation | `honua_migrate/code/python/arcpy.py`, `pyt.py`, `modelbuilder.py`, `_cli.py` | list of calls, plan, evidence | the same call passes scan, translation and refusal, each with its own view of it | what runs is the whole script; honest evidence | `ArcPyTools`, `ScriptPlan` |
| Python GP run | `honua_migrate/code/python/_cli.py`, `arcpy.py` | submitted jobs, outcome document | polling, cancellation, failure after submission, output lost | one dispatch per step, job identity kept | `GpRun` |
| Reconciliation | `honua_migrate/runs/reconciliation.py` | result artifact | snapshots of other runs, missing categories | a match is complete and of this run | `Reconciliation` |
| Assessment HTTP clients | `honua_esri_assess/{server,portal}/client.py`, `scanners/http.py`, `entitlements/http.py` | attempts, delays | retries, budgets, envelopes in good answers | bounded, and the answer is what the server said | `AssessRequests` |
| Server assessment | `honua_esri_assess/server/*`, `footprint/v0_1.py` | records, diagnostics | one of many requests fails | a gap is reported where it is | `ServerAssessment` |
| Portal assessment | `honua_esri_assess/portal/*`, `footprint/v0_1.py` | items, cursor, edges | pages, cycles, failing probes | order of migration, review of what was not read | `PortalAssessment`, `MigrationReport` |
| Access assessment | `honua_esri_assess/scanners/admin_rbac.py`, `footprint/access*.py` | entries, roles, policies | deny and allow, missing parts | no access widened | `AccessAssessment` |
| Entitlements | `honua_esri_assess/entitlements/*` | licences, seats | three sources of one figure | no licence invented, no gap silent | `LicensingAssessment` |
| Verdict and report | `honua_esri_assess/verdict/*`, `report/*` | none | what a scan found must reach the judgement | lock-ins are boundaries | `Verdict`, `MigrationReport` |
| JavaScript content migration | `packages/javascript/upstream/src/migration/content.ts`, `demo.ts` | export, jobs, import report | lost answers, unknown statuses, jobs that lose features | completed and pass are what the server holds | `ContentImport` |
| Contracts, capability map, file geodatabase, JavaScript and MAUI codemods, release scripts | | none | data or text | see section 16 | |

How they interact: every command writes its artifact through one of the two
output parts; `apply` of the GeoServices client asks target readiness first,
and `handoff` joins plans, receipts and a run; reconciliation reads the artifact
a run left; the scanners send requests through the assessment clients, make a
footprint, and hand it to the verdict and the report; a script's plan is what
the GP run submits.

Every hazard found is listed in `PROJECT.json` at the line where it bites, with
the properties that would show it going wrong, or the reason there is none.

## 2. Plan

| | Modules | State |
|---|---|---|
| 1 | `RunOrchestration`, `ActionLedger`, `RunOrchestration_proofs` | modelled, checked, every safety property proved |
| 2 | `AtomicOutput`, `JsOutput`, `TargetReadiness`, `ImportApply`; `JsOutput_proofs`, `ImportApply_proofs`; `OutputParts`, `OutputParts_proofs` | modelled, checked, every safety property proved |
| 3 | `GpRun`, `ImportResume`, `ContentImport`, `GeoServerImport`; `ContentImport_proofs`, `GeoServerImport_proofs`; `CommandParts`, `CommandParts_proofs` | modelled, checked, every safety property proved |
| 4 | `ArcPyTools`, `ScriptPlan` | modelled, checked, every safety property that holds is proved in `AnalysisParts_proofs` |
| 5 | `Assessment` with `ServerAssessment`, `PortalAssessment`, `AccessAssessment`, `LicensingAssessment`, `AssessRequests`; `Verdict`, `MigrationReport` | the same |
| 6 | `ServiceHandoff`, `Reconciliation`; `AnalysisParts`, `AnalysisParts_proofs` | the same |
| 7 | the export of the JavaScript package and its paginated reads; groups and sharing of the access assessment; the file geodatabase scan | to do |

## 3. Runs, and how parts share them

Components that share neither code nor state share a run: a behaviour of
`OutputParts`, `CommandParts` or `AnalysisParts` is a behaviour of one of them,
which the variable `focus` chooses, while the variables of the others stand still.
State spaces add up and do not multiply, and a property
`focus = "x" => X!Property` is about one part only. These three modules hold the
composition and its properties; what `MCOutput`, `MCCommands` and `MCAnalysis` add
is values for the constants, so what the proofs speak of is what TLC checks. Where one such property is
a conjunction, `PROJECT.json` shows a mutant for one conjunct; each of the others
was tried with a mutation of its own, and the operators `Mut...` that stayed in
the modules are those.

| Run | Module | Parts |
|---|---|---|
| `run_safety`, `run_liveness`, `run_stranded` | `MCRunOrchestration` | the run orchestration |
| `output`, `output_rollback`, `apply_unsafe` | `MCOutput`, which extends `OutputParts` | `AtomicOutput`, `JsOutput`, `ImportApply` |
| `commands`, `gp_lost_id`, `content_status` | `MCCommands`, which extends `CommandParts`; `MCGpRun`, `MCContentImport` | `GpRun`, `ImportResume`, `ContentImport`, `GeoServerImport` |
| `analysis`, `lock_ins`, `toolboxes` | `MCAnalysis`, which extends `AnalysisParts` | the seven assessment and artifact parts and `ScriptPlan` |

Fairness. `run_liveness` is explained in section 4. `commands` assumes, per
part, that the client takes its next step, that time passes, and that a request
is answered or fails: every client gives its requests a timeout or inherits
one. `analysis` needs only that a sequential program which has a next step takes
it. It says so as `[]<>Over \/ []<><<TRUE>>_all`, weak fairness of the next-state
relation without its `ENABLED`, which TLC would evaluate in every state; the two
agree because a state that is not over has a next step, or TLC would report the
deadlock.

## 4. Run orchestration

`RunOrchestration.tla` models `start_run` and `resume_run` together with the
CLI commands that call them and the executor boundary.

| Model | Code |
|---|---|
| `disk` | the run artifact; `NoRun` is a missing file |
| `lock` | the `flock` on `.NAME.lock`; released by the operating system on a crash |
| `pc`, `cmd`, `run` | a process: where it stands, its command line and plan, its in-memory run |
| `planFile` | what the plan path holds now; `Invoke` and `Reload` are the two loads |
| `sent`, `landed` | the target: requests sent for an action, and those that took effect |
| `faults` | crashes, failed saves, raised errors and plan edits so far |

A checkpoint list is a map from plan positions to `none`, `started` or
`succeeded`. One action per step between two effects on shared state: the two
plan loads, the lease, the create or load, each inspection, each save, the
send and its answer. `Exit` is every way a command ends; it gives back the
lease and forgets the memory. `Crash` may strike wherever a process is alive,
`SaveFails` wherever it is about to save outside the `try` of `_execute_one`,
`ExecuteFails` covers what that `try` catches, a failed save of the completed
checkpoint included. `Land` lets a request take effect at any later time.

External: the executor. The model assumes what its protocol says: `execute`
returns a receipt only for a request that took effect, `inspect` returns one
only when the target shows the effect (it may fail to see it).

### Runs

| Run | Instance | Shows |
|---|---|---|
| `run_safety` | 2 processes, 2 plans (one of two writes, one read-only), 2 configurations, 3 faults | at-most-once, write-ahead, plan order, honest artifact, stranding only by inspection, the inductive invariant with the types, no checkpoint lost, acknowledged writes only, refinement of `ActionLedger` |
| `run_liveness` | 1 process, 2 faults, fairness | replayable runs end succeeded |
| `run_stranded` | 1 process, 2 faults | **violated**: an artifact no resume accepts |

Bounds: two actions are the fewest with a predecessor and a successor; the
plans mix a write that must not be repeated, a repeatable write and a read; two
processes are enough for every race on one lease; three faults allow a crash, a
crash of the recovery and a failed save on top. Nothing else is bounded: the
number of invocations is not.

Fairness (`FairSpec`): a running process goes on, a sent request lands, and the
operator resumes an unfinished run again and again with `--yes` and its own
configuration. The last is the operator's duty, not the program's: nothing in
the code resumes by itself.

### The finding

`resume_run` saves the receipt an inspection produced without touching the
outcome (`orchestration.py:615`). If the run was `partial`, the file now says
`partial` with a succeeded last checkpoint. Should the command end before its
next save (the next write lacks `--yes`, a crash, a failed save), then
`_validated_checkpoints` (`orchestration.py:452`) rejects the file on every
later resume, while `create` refuses to start over. `StrandedOnlyAfterInspection`
shows, and the proof confirms for every instance, that this is the only way to
strand a run.

### Proofs

`RunOrchestration_proofs.tla` proves, for all constants satisfying
`PlanAssumption` and `NoneAssumption`, every safety property above and the
refinement. The invariant `IInv` is needed because none of the properties is
inductive: at-most-once depends on the memory of the lease holder agreeing with
the disk (`MemoryInv`), on exactly one process being past the lease
(`LeaseInv`), on the checkpoints being a prefix of the plan (`ArtifactInv`), on
an unnoted action never having been sent (`TargetInv`), and on a started action
reaching `dispatch` only when it was never sent or may be repeated
(`ProgressInv`). One lemma per action that touches shared state shows it is
preserved (`CreateCore`, `ConfirmCore`, `BeginCore`, `DispatchCore`, ...).
`OutcomeInv` and `AckInv` add what stranding and acknowledgement need.
Liveness is model-checked only.

Not represented: job identities, evidence, redaction, the schema, the
configuration's secrets, an artifact edited by hand, Windows locking, and power
losses: a save fsyncs the file and not its directory, so a power loss may bring
an earlier artifact back, and no property here speaks of that.

## 5. Artifact output in Python

`AtomicOutput.tla` has any number of commands write one path in the three ways
the code has; `kind` says which. `dest` is the file at the path, `settled` what
a power loss leaves there, `tmp[w]` the temporary file of a command. `Check` and
`Refuse` are `ensure_overwrite_allowed` and `_preflight_output`; `Stage`, `Fill`
and `Sync` write the temporary file; `Replace` is `os.replace`, `Link` and
`Unlink` are `os.link` and what follows. Any call fails (`CallFails`,
`UnlinkFails`), any command is killed (`Crash`), the machine loses power
(`PowerLoss`, after which unsynced data is torn and the directory entry is the
one last settled or the present one).

`raced[w]` is history: whether another command installed its file between the
check of `w` and its own install.

Run `output` (focus `python`: two commands, three faults) checks that what is at the path is
whole and synced (`NeverTorn`), that a command without `--force` destroys a file
only where another one installed it after the check (`OnlyARaceOverwrites`, over
crashes and power losses in between), and that a command says what it did. Two commands are every race on one path; three faults
allow a failure, a kill and a power loss. Commands start again without bound.
`OutputParts_proofs.tla` proves the three properties for any number of commands
and faults; the invariant adds that data is synced before it is installed, that
the history of a command agrees with where it stands (`ProgressInv`), and that a
file is in the way of an unforced command past its check only if it raced
(`RaceInv`).

`atomic_write_text` checks and then replaces, so an artifact that another
unforced command installs in between is overwritten: that is the race which
`OnlyARaceOverwrites` admits, and it admits no other loss. A `_write_json` whose unlink fails says that nothing could be written although the
artifact is in place; `SaidIsDone` excepts it by name.

## 6. Artifact output in JavaScript

`JsOutput.tla` models `writeOutputFilesAtomically` for commands with several
outputs and `commitStagedOutputDirectory` for those with a directory. `stage[c]`
and `at[c]` are the loop a command is in and its index; `backups` are the hidden
`.bak` files, which outlive a killed command; `owner` is history: what ought to
be at a path. Staging is one step, since temporary files have names of their
own; `existsSync` and the call it guards are one step, a lost race being a call
that fails.

Run `output`, focus `javascript`: three commands, each with the plan report
and matrix in either order, or a directory; two failures or kills; commands with
`--force` run alone, those without race. `Preserved`: a failure leaves no trace.
`NothingLost`: at every instant, after kills and failed rollbacks too, a complete
output is at its place or in a backup beside it. A kill between backup and link
does leave the path empty and no command ever looks for the backup; that is
beyond what the code promises. Three commands allow two to race and a third to
come after; two failures are a failure and a failing rollback, or two kills.

Run `output_rollback` drops "alone": a command with `--force` has moved the old
file aside, an unforced one links its own and reports success, the link of the
first fails, and `rollbackOutputs` renames the backup over the reported output
(`output-writer.ts:205`) while it says that existing outputs were preserved.
Power losses are not modelled here.

## 7. GeoServices apply and target readiness

`TargetReadiness.tla` is the decision table of `target_readiness.py`: which
answers a server of each kind may give to the two probes (`ManifestAnswers`,
`JobsAnswers`) and what the code concludes (`ManifestVerdict`, `JobsVerdict`,
`ExitCode`). `Offers` and `Grants` say, independently of the code's order of
tests, when a server really grants the import.

`ImportApply.tla` extends it with `apply_command`: several applies of one plan,
one receipt file. `server` changes under them; `jobs` is what the server queued;
`wire[a]` is a POST on its way, which may be queued after its sender gave up;
`started[a]` is the receipt being built. GETs are retried, POSTs are not
(`Attempts`). External, from how the client uses it: the server queues one job
per POST it processes and its answer names it.

Run `output`, focus `apply` (2 applies, 2 actions, 7 kinds of server, one per way
to be ready or not, 1 retry, 2 faults): one job per action and apply, in order,
and at most one an apply cannot name; imports only where the manifest this
command read grants them; a true receipt, printed before the file is written,
that a handoff maps to the jobs it names; true exit codes. Two faults are a
server change and a lost answer, or a lost answer and a failed write.

Run `apply_unsafe` is a finding: when an answer of the server contains text the
receipt may not hold, an apply that queued imports exits 10 with nothing
printed, although `PartialApplyError` promises that the receipt is already on
stdout. Not a property: an operator who repeats a partial apply queues its first
actions again.

## 8. GeoServices resume

`ImportResume.tla` is `resume_command` with `wait_for_terminal` and `request`,
against the life of the job and a `cancel`. Time is a clock that may advance
between any two steps, so an answer can be slower than the timeout its request
was capped by. Run `commands`, focus `resume` (a snapshot and a wait of three
ticks, polls every two, one retry, clock up to 6): outcomes are the job's, a late
answer is no success, no request is sent nor sleep planned past the deadline, and
the command ends. The clock is bounded by `MaxNow`, beyond every deadline; at the
bound it stands for every later time, so every sleep is then over (`Awake`).

## 9. Python GP run

`GpRun.tla` is `_cmd_run` with `ArcPyProcessRunner.execute_async`: what is
refused before anything is sent, the submission of each step, its polls, its
results, and the artifact, built at the end, the only place that names the jobs.
`MaxPolls` is the code's `_MAX_POLLS`. The server takes a POST at most once,
perhaps late, and runs it at once or as a job. Run `commands`, focus `gp` (two
steps, two polls, every request): a step is posted once and only after its
predecessors succeeded, success is true, "nothing submitted" is true then and
later, the artifact names every job but at most the last one of a run that does
not claim success, and the run ends. Two steps are a predecessor and a successor;
two polls a pending and a last one.

Run `gp_lost_id` is a finding: `_cmd_run` rechecks `--output` after the steps
were submitted; when another command created that file meanwhile, it exits 3,
which the README's table calls "Nothing was submitted", and the job ids are
gone.

## 10. JavaScript content import

`ContentImport.tla` is `runContentImport` for hosted layers with
`runGeoservicesImportJob`, the commit of its staged output, and
`runContentReconcile`. The twelve statuses of the 2026.1 contract are reduced to
one for 0 to 5 and the six others; `ReadName` and `ReadNumber` are what the
client takes them for. Run `commands`, focus `content` (two layers, counts 0 and
1, a server that sends names): a completed entry is a completed job with its
count, a passing layer too, the report that is left covers every layer and each
was started once, and the import ends. Two layers are one that fails and one that
goes on.

Run `content_status` is a finding: `IMPORT_STATUS_BY_ENUM_VALUE` is the table of
an older contract. Against a server that sends numbers, 6 (copying attachments)
is read as completed and 8 (completed) as cancelled. Web maps are left out: they
are converted locally, one after the other. Not a property: when the staged
output cannot be committed, the report with the ids of jobs that ran is
discarded (`CommitFails`).

## 11. GeoServer import

`GeoServerImport.tla` is `plan`, `apply`, `status` and `resume` of
`services/geoserver.py`, any number at once against any number of Honua servers.
`jobs[s][i]` is a server's job by its id, `mark` the time of the next completion,
`plan` the plan artifact (`sealed`: its digest fits), `flight[c]` a start that the
server may still take after its sender gave up. A command sends (`SendStart`,
`SendStatus`), the server takes or shows, refuses or is silent (`Take`, `Show`,
`Refuse`, `LoseAnswer`), and the command repeats a GET but never a start
(`Attempts`, `Again`). `Late` is the deadline of a wait. A job completes, fails or
is cancelled by itself (`Progress`); `Edit` changes a plan by hand, which its
digest reveals. `Redacted` is the loss of secret-looking keys on the way into the
artifact.

`apply` recognises the plan's dry run by `_verify_plan_job`: a completed job with
the plan's id, completion time and GeoServer (`Confirms`). Why that is enough is
not obvious, since the ids of two servers may coincide and `apply` may be given
another `--honua-url` than `plan`: the proof rests on no two jobs completing at
the same instant, which `mark` states and which the time stamps of the servers
must provide.

Run `commands`, focus `geo` (two servers of two ids each, one command of any
kind beside an apply, three requests of which two differ only in a secret or in
the GeoServer, one retry): at most one job per command, and an apply that was told
its job prints it (`GeoJobIsOneAndNamed`); an import was rehearsed by its own
server (`GeoImportWasRehearsed`); commands end. `GeoServerImport_proofs` proves the
safety part for all constants, see section 15.

Not a property: a dry run whose start got no answer is known to nobody.

## 12. From plan to handoff, and reconciliation

`ServiceHandoff.tla`: `BeginPlan`, `Expand` and `EndPlan` are `plan_command` with
`expand_service_plan`, relationship by relationship: a layer with the layers
directly related to it, each once and each into a table of its own that
the server will take; `Edit` changes a plan file, `Import` is what `ImportApply`
leaves, a receipt for all actions of a plan or the first few; `BeginHandoff` and
what follows read the manifest entry by entry. `PlanIsTheClosure`: no layer and
no table twice and no clash queued in part. `HandoffMapsImports`: the job given
for a layer imported that very layer into that very table, whichever receipts and
plans the operator put together. `HandoffClaimsNoMore`: success is success of
import, reconciliation and application. A mode wants all of its own options and
none of the other's (`Allows`); the cutover does not look at
`--source-still-serving`. Instance: five layers (alone, with two
relations and a self relation, with no title, with clashing titles, with a table
the server refuses), two plans, three jobs.

`Reconciliation.tla`: `reconcile compare`. `MatchIsComplete`: exit "success"
means that the run succeeded, both snapshots are of this run and of its plan as
digested, and every category is in both and equal, samples and relationships in
any order. Instance: two outcomes, and every pair of the snapshots that differ
from the good one in one thing.

Both are `HandoffIsTrue` of run `analysis`. To know: a plan may be listed twice,
or two entries may name one target, and neither is refused; only direct
relationships are expanded; `batchSize`, `whereClause` and `outputFields` are not
carried to related layers; `scope.serviceUrls` and `layerIds` lose their pairing,
which `idMapping` keeps. A match with a warning is given when the target supports
none of the metadata, and the status "failed" of the contract is never produced.

## 13. ArcPy scripts, toolboxes and models

`ArcPyTools.tla` is the registry: every tool with its parameters, aliases and
job, how an argument by position or by name becomes an input or an output
(`Argument`, `Payload`), which calls are translatable (`Status`, `FansOut`).
`ScriptPlan.tla` is what happens to a source: `Collect` reads one call, as a
script, the body of a toolbox's tool or a model's step shows it; `Translate`
makes one step; `EndTranslation` is the evidence, `Run` the refusals of
`_static_refusal` and the decision whether a server that publishes its jobs can
run them.

What a name stands for is abstracted to `ref`: a call has a qualified name, a
name imported for itself, a bare name that a star import brings (`starred`, with
`legacy` for one like `Buffer_analysis`), a name behind a module that `from arcpy
import *` brings (`dotted`: `analysis.Buffer`), a name that some import of the
script binds elsewhere (`rebound`: imports of all scopes are collected together),
or it is a bare name of something else (`other`), which may be spelled like a
tool. `OfArcPy` and `Brings` are the truth about them; `Seen` and `OfStar` are
what the code takes them for: the first star import gets every bare name, since
`_resolve_qualified_name` accepts any family but `unknown` (`arcpy.py:1926-1930`).
So after `from arcpy.analysis import *` a function `clip` of the script's own is read as
`arcpy.analysis.clip`, counts as translatable and is submitted by `run`; after
`from arcpy import *` it is in the family `core`, which has no process. `CoreFunctions`
has the three tools that `_CORE_FUNCTION_FAMILIES` puts into a family with a
process. Tools are named as ArcPy spells them.

Run `analysis`, focus `script` (every tool with every split of its arguments and
every alias, all pairs of seventeen calls that differ in what the checks and the scan
look at, under no star import, one of `arcpy`, one of the right module and one of a
wrong module before the right one):

- `RunIsTheScript`: what runs covers every ArcPy call that the scan can see
  (`Visible`: all but the dotted ones) in the script's order, and each step is a
  call of the script (`Taken`), unchanged if it is ArcPy's, unless several star
  imports leave it open whose it is. What else it may hold is exactly a bare name
  after a star import or a rebound name. No step is conditional or has an
  expression, and each is a job of the server.
- `ArgumentsKeepTheirPlace`: the value that a check took for a parameter is the one
  sent, although two pieces of code resolve it.
- `EvidenceIsHonest`: the evidence misses no visible ArcPy call, counts just those
  where there is no star import and no rebound name, and calls translatable only
  jobs of the server and no one-to-many join.

Run `toolboxes` is a finding: the body of `execute` is scanned without the
imports of its module (`pyt.py:291`), so calls through imported names are not
seen and the coverage is complete, contrary to `pyt.py:123`.

Seen while modelling, not properties: a model's step that lists its parameters
without names hides its join operation, so a one-to-many join counts as
translatable (`_spatial_join_gate`), which `EvidenceIsHonest` excepts; a keyword
expansion of literal values, `**{"line_side": "LEFT"}`, is not refused and does
not reach the payload; `_BLOCKING_SCOPES` lacks `ast.TryStar`, and code after
`sys.exit()` counts as run; a call of the script's own may be counted and submitted as
ArcPy's, as said above, and a dotted call after `from arcpy import *` is neither
counted nor submitted.

## 14. Assessments

`Assessment.tla` has what the commands that only read share: a world that stands
still, `found`, `diags`, `result`, and `Abort`. An action that sends a request
takes its outcome `o` from the typed errors of the client, so every request fails
in every way in every combination.

| Module | Code and actions | Instance in `analysis` | Property |
|---|---|---|---|
| `ServerAssessment` | the walk over the catalog (`ReadInfo`, `ReadRoot`, `ReadFolder`, `ListService`, deep and layer probes), `--admin-usage`, the emitter, the verdict | three services (two of one name, two layers, a lock-in behind one, a lock-in type), in any order, any subset | `EveryGapIsReported`, `LockInTypesAreNoGo` |
| `PortalAssessment` | organization, groups, users, items page by page, federation, probes of the items, the emitter, verdict, report | four listings with cycles, self references and foreign items, pages of one, cursors that do not advance | `PortalGapsAreReported`, `PortalOrderIsSound`, `UnreadItemsAreReviewed` |
| `AssessRequests` | one GET by each of four clients: attempts, delays, budgets, the meaning of an answer | four attempts, four seconds, `Retry-After` of 0 to 9 or none, every status with every body | `RequestIsBounded`, `AnswerIsUnderstood` |
| `AccessAssessment` | users, roles, privileges, permissions of a portal or a server; effective permissions; policies | two services of one name, allow and deny of one principal, a user with two roles | `AccessIsNotWidened`, `RolesKeepPrivileges` |
| `LicensingAssessment` | both collectors, endpoint by endpoint, refused, missing, shapeless | known and unknown extensions, a status nobody knows, nested services | `LicensingIsTrue` |
| `Verdict`, `MigrationReport` | `evaluate`, effort; what is ready in the order of migration, review | used by the first two | |

The order of a migration is made node by node (`Pop`, `EndReady`, `AppendCycle`), as
`dependency_order` does; of several ready nodes the code takes the one with the
least id, the model any.

`AnalysisEnds`: every scan ends, whatever cursor a portal names (`GoesOn`).

Run `lock_ins` is a finding: the verdict asks for the service type and for
capability tokens, which the emitter never writes, and never looks at the
`lockIns` that the scan found (`verdict/engine.py:344`), so a feature service with
a parcel fabric behind it is a go, contrary to `verdict/engine.py:7`.

Seen while modelling, not properties. Footprint:
`_services_omitted_from_inventory` (`footprint/v0_1.py:320`) drops a whole service
when the probe of one layer is denied or rate limited, though
`_attach_layer_detail` promises a partial record; `EveryGapIsReported` accepts it
because the diagnostic names the layer. Portal: a search whose cursor stands still
is cut short without a diagnostic, hence `world.advances` in the property;
`_ordering_rank` gives portal map and image services a rank after the web maps
that use them; with a usage ranking the order has the ranked services only. A
diagnostic of a server scan never matches an item's scope, and one that is only
rate limited never flags it. Clients: the `Retry-After` of a server is said to be
"always honored verbatim" but is cut to the budget; a denied answer with an HTML
page counts as a broken body in the portal and entitlement clients; an entitlement
endpoint that answers without an object is skipped without a diagnostic, which
`found.silent` records. Access: the same goes for every request of
`scanners/admin_rbac.py` (`_decode` returns such a body as it is, and lines 182,
198, 206, 399 and 416 pass it over), although `_crawl_service_permissions` says that
what cannot be read becomes a typed diagnostic: the answer `"odd"` of
`AccessAssessment` is that, `found.silent` is again the model's record and in no
artifact, and both properties say where the loss is silent; users and groups are
read as one page, and only the first of a user's roles is kept.

## 15. What is proved and what is not

Every safety property that a passing run checks is a theorem: for all values of
the constants that satisfy the named assumptions, so for any number of commands,
servers, actions, pages, services, calls and failures. The runs and the theorems
are about the same modules: `OutputParts`, `CommandParts` and `AnalysisParts` state
the properties, `PartsInvariance` says in each of them that the invariant of the
part in focus is kept, and what TLC adds is values.

| Properties of | Proved in | From |
|---|---|---|
| `RunOrchestration`, with the refinement of `ActionLedger` | `RunOrchestration_proofs` | `PlanAssumption`, `NoneAssumption` |
| `AtomicOutput` | `OutputParts_proofs` | `FaultAssumption`, `NoneAssumption` |
| `JsOutput` | `JsOutput_proofs`, `OutputParts_proofs` | `Settings` |
| `ImportApply`, `TargetReadiness` | `ImportApply_proofs`, `OutputParts_proofs` | `NoneIsNone` |
| `GpRun`, `ImportResume` | `CommandParts_proofs` | `GpSettings`, `ResumeSettings` |
| `ContentImport` | `ContentImport_proofs`, `CommandParts_proofs` | `NoneIsNone`, and `Named` for what it reports |
| `GeoServerImport` | `GeoServerImport_proofs`, `CommandParts_proofs` | `Apart` |
| the assessments, `ServiceHandoff`, `Reconciliation`, `ScriptPlan` | `AnalysisParts_proofs` | the assumptions of `AnalysisParts`, `RegistryIsRegular` |

The assumptions say what the code relies on and no more. `None` is told from what
it stands beside; a plan has a length, a bound is a number. `Settings`: the outputs
of a plan are distinct, a directory is the only output of its plan, and a command
with `--force` runs alone (without that, run `output_rollback` shows a success
undone). `Named`: the server sends statuses by name (without that, run
`content_status` refutes the property). Of the data of an assessment:
`PortalAssumption`, an item is known by its id; `AccessAssumption`, a service by its
folder and name, and no custom role has the id of a built-in one;
`OriginsAssumption`, a title that is no name for a table starts with a digit;
`RequestsAssumption`, a doubled delay is a number (the provers have no theory of
powers); `ScriptAssumption`, a call is one that ArcPy takes, for whatever tool its
name may be read: it gives a parameter once by keyword, under a name of that
parameter; `RegistryIsRegular`, all spellings
of a parameter lead to one name of the process. TLC evaluates each of the ASSUMEs
on every run that extends its module: `RegistryIsRegular` is about the registry
itself, with no constant in it, and TLC settles it for good.

None of the properties is inductive. The arguments, one by one:

- `OutputParts_proofs`, the Python writers: data is synced before it is installed,
  and the history of a command agrees with where it stands (`ProgressInv`). That
  only a race overwrites needs `RaceInv`: past its check an unforced command that
  renames finds a file in its way only if it raced, since every install marks all who
  are past theirs, and of two commands that are done one has overwritten.
- `JsOutput_proofs`: an output that is not as it ought to be is in the hands of one
  running command (`Changing`), whose link or backup of it says what is still to be
  done. `LinksAreTrue` says which outputs a command relies on at each index of its
  loops, `OwnsIfDone` that what it takes back was never complete, and
  `BackupsAreTrue` that its backups are those of outputs only it writes. One
  lemma, `OthersStay`, carries all that through the steps of other commands,
  which write only where nothing is.
- `ImportApply_proofs`: `JobsAreTrue` is the heart of the invariant: the jobs of an
  apply are those on its receipt and, when its `wire` says queued, one for the
  first action that is not on it. So a POST that arrives late is for an action
  without a job, and at most one job has no name. `StageIsTrue` says what has been
  sent and told at each point of the command, `GrantIsTrue` carries what the
  manifest granted from the probe to every later start, `FileIsTrue` the truth of a
  receipt past the end of its writer. The proof uses that a POST has one attempt
  (`FailuresKeep`).
- `CommandParts_proofs`, resume: a job keeps a terminal status, so an answer that
  shows one (`Shows`) stays true however late it is read, and the outcome follows
  from the last snapshot.
- `CommandParts_proofs`, GP run: at most the step at hand is unsettled: those behind
  it are done (`BehindIsDone`), those ahead were never posted (`AheadIsUntouched`),
  and `PlaceIsTrue` says what is known of the step itself where the command stands.
  `VerdictIsTrue` keeps that until the artifact is built (`EndIsTrue`).
- `ContentImport_proofs`: `LayersInOrder` settles one layer after the other,
  `ReplyIsTrue` carries a finished job from its answer to its entry,
  `EntriesAreTrue` from the entry to the reconciliation.
- `GeoServerImport_proofs`: that an import was rehearsed needs, at the time of the
  start, that the server which showed the job is the one that ran the dry run.
  `MarksDiffer` says that completion times tell completed jobs apart on all
  servers, `PlanIsTrue` that a sealed plan names a completed dry run on some server,
  `ApplyRuns` carries that to the command, and the comparison in `Confirms` then
  identifies the server. `Kept` (a completed job does not change) lets one lemma,
  `CommandStays`, keep every other command's part of the invariant through each
  step. `OneJob` says that a command which may still send a start has made no job
  and has none under way.
- `AnalysisParts_proofs`, requests: a sleep belongs to the attempt it follows, and
  whoever is about to send has an attempt left (`RequestsIInv`), so n attempts have
  slept at most n times.
- Reconciliation: `found[i]` is what `Check` says of the i-th category, and a pair of
  sequences that hold the same items as often has the same items
  (`SameItemsSameSet`), which is what the order-free comparison has to mean.
- Handoff: the requests of the draft cover the relationships read so far
  (`Covers`), a receipt names the jobs of the first requests of its plan
  (`ReceiptsAreTrue`), and the mapping grows by whole plans that nobody changed
  (`MappingIsTrue`).
- Access: the entries of a service are read as a whole or its scope has a gap, a
  diagnostic or a silent one (`ListsAreWhole`), so that a denial cannot be lost from a list whose grants are
  kept, and each entry has one policy.
- Server: a service of the catalog is still to come, is being read, was read as a
  whole, or what is missing of it has a diagnostic at its folder or its own scope
  (`ServicesAreAccountedFor`). That a service kept out of the inventory is named
  needs that scopes tell services, folders and layers apart (`ScopesAreTyped`). The
  lock-in type then reaches the verdict through the registry (`Detected`).
- Licensing: `PortalIsTrue` and `ServerIsTrue` say, for each endpoint, from which
  point on its part of the block is there or its gap is named.
- Portal: what the pages gave is the beginning of what there is
  (`PortalIsTold`, with the cursor), and the order is Kahn's (`PortalIsOrdered`):
  what is placed before the cycles has all its needs before it (`Released`), and what
  is left when nothing is ready forms a set in which each node needs another of
  the set, so each is on or behind a cycle.
- Scripts: the calls read are those the scan sees, and the plan those of them that
  are supported, through two order-preserving enumerations (`Enumerates`) that
  compose; a refusal that was not made (`Refusal = None`) and `Sendable` leave only
  scripts in which the second is total. What is read of a call is the call, but for the
  family and the tool of a bare name (`ReadIsReadable`), and with one star import that
  brings it not even that (`StarredIsRead`). That the evidence counts the visible calls
  exactly is the bijection which an enumeration is. For the arguments, `RegistryIsRegular` makes the
  two resolutions of a name, `_call_argument`'s by spelling and `_translate_call`'s
  by alias, meet in one name of the process (`BoundIsArgument`).

What the attempts to prove it changed. `ServerLicensingIsTrue` named one of the four
words for a licensed status, which only the instance has; `_map_status` takes all
four. `EvidenceIsHonest` looked for the words of a one-to-many join anywhere among the
arguments and excepted models; it now looks at what would be sent under the name
of the join's parameter (`Bound`), for every form of source. `RunIsTheScript` said
"in their order" with a selected sequence; it now asks for an order-preserving map
from the steps to the calls that covers the visible ArcPy ones, which is what is meant
and can be composed.
The order of the migration was a recursive function over the whole graph, and the
expansion of a plan a fold over its relationships, of which nothing can be proved
here; both are steps now, as in the loops of the code.

Checked by TLC only: liveness (`ReplayableRunSucceeds`, `EveryCommandEnds`,
`AnalysisEnds`), which with fairness and enabledness is out of reach of the prover.

Every property of a passing run has a mutant in `PROJECT.json`: a definition
changed the way a slip in the code would change it, under which TLC finds the
property violated.

## 16. Not modelled

- Contracts: JSON Schema validation and digests are taken to be exact; what a run
  artifact may hold is in `RunOrchestration`. `redact_artifact` also drops keys of
  workspace mappings that look like secrets (`geoserver.py:68`), which `Redacted`
  models for the request only.
- `discover`, `list`, `scan` and `status` of the service clients: single reads.
- Option parsing, help, wording, rendering and counts of reports.
- The capability map and its rendering (tables and templates), the file
  geodatabase scan (a driver's reads; its diagnostics follow the pattern of the
  other scans), nested folders and the folder filter of the server scan, groups
  and sharing of items in the access assessment, the fields of a layer.
- The flat scanners' inventories, which only tests call; their requests are a
  client of `AssessRequests`. `_iter_search_items` does not end against a portal
  that goes back and forth between pages.
- The JavaScript export, whose paginated read has the same flaw
  (`content.ts:679`), and its codemod; the MAUI codemod; release scripts: text
  transformation or build time.
- Power losses for the JavaScript writer, which syncs no directory, and the
  directory entry of a run artifact.

## 17. Running

    tlc -config RunSafety.cfg MCRunOrchestration.tla
    tlc -config Analysis.cfg MCAnalysis.tla
    tlapm RunOrchestration_proofs.tla
    tlapm AnalysisParts_proofs.tla

The other runs and the other modules `..._proofs` go the same way. From nothing,
`AnalysisParts_proofs` takes about ten minutes, `GeoServerImport_proofs` about four,
the others less.

`PROJECT.json` lists every run with its module and configuration, and maps each
definition to the lines it models.
