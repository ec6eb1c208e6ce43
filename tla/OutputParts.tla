---------------------------- MODULE OutputParts ----------------------------
(* What writes files for good and queues imports: the output writers of    *)
(* the two toolkits and the apply command of services/arcgis.py.  They     *)
(* share no code and no files: a behaviour is one of them, which `focus`   *)
(* chooses; the variables of the others stand still.                       *)
EXTENDS AtomicOutput

CONSTANTS
  Focuses,
  Commands, JsFiles, JsDirectories, JsPlans, Overlap, MaxFailures, Nothing, Prior,
  Applies, ApplyServers, NumActions, Retries, ApplyFaults

VARIABLES
  focus,
  disk, backups, stage, plan, at, forced, committed, ending, owner, marred, failures,
  server, jobs, wire, file, place, opts, tries, seen, verdict, started, failed, unsafe, printed,
  exit, mishaps

jsOnly == <<disk, backups, stage, plan, at, forced, committed, ending, owner, marred, failures>>
applyOnly == <<server, jobs, wire, file, place, opts, tries, seen, verdict, started, failed,
               unsafe, printed, exit, mishaps>>
all == <<focus, vars, jsOnly, applyOnly>>

Js == INSTANCE JsOutput
        WITH Files <- JsFiles, Directories <- JsDirectories, Plans <- JsPlans

Apply == INSTANCE ImportApply
           WITH Servers <- ApplyServers, MaxFaults <- ApplyFaults, pc <- place, faults <- mishaps

RestJs ==
  /\ disk = 0 /\ backups = 0 /\ stage = 0 /\ plan = 0 /\ at = 0 /\ forced = 0
  /\ committed = 0 /\ ending = 0 /\ owner = 0 /\ marred = 0 /\ failures = 0

RestApply ==
  /\ server = 0 /\ jobs = 0 /\ wire = 0 /\ file = 0 /\ place = 0 /\ opts = 0 /\ tries = 0
  /\ seen = 0 /\ verdict = 0 /\ started = 0 /\ failed = 0 /\ unsafe = 0 /\ printed = 0
  /\ exit = 0 /\ mishaps = 0

\* The Python writers stand idle in the other parts.
PartsInit ==
  /\ focus \in Focuses
  /\ Init
  /\ \/ focus = "python" /\ RestJs /\ RestApply
     \/ focus = "javascript" /\ Js!Init /\ RestApply
     \/ focus = "apply" /\ Apply!Init /\ RestJs

Python == focus = "python" /\ Next /\ UNCHANGED <<focus, jsOnly, applyOnly>>

JavaScript == focus = "javascript" /\ Js!Next /\ UNCHANGED <<focus, vars, applyOnly>>

Applying == focus = "apply" /\ Apply!Next /\ UNCHANGED <<focus, vars, jsOnly>>

PartsNext == Python \/ JavaScript \/ Applying

PartsSpec == PartsInit /\ [][PartsNext]_all

-----------------------------------------------------------------------------
\* Every variable of the part in focus has its type.
TypesOK ==
  /\ TypeOK
  /\ focus = "javascript" => Js!TypeOK
  /\ focus = "apply" => Apply!TypeOK

\* What failed or was refused left no trace, and no kill and no failing call
\* loses a complete output: see JsOutput.
JsOutputsSurvive == focus = "javascript" => Js!Preserved /\ Js!NothingLost

\* A failure does not undo a success beside it: see JsOutput.
FailurePreservesSuccess == focus = "javascript" => Js!FailurePreservesSuccess

\* However answers are lost and POSTs are late, an apply queues the actions of
\* its plan in order, each once, and at most one it cannot name: see ImportApply.
ApplyStartsOnceInOrder ==
  focus = "apply" => Apply!OneJobPerAction /\ Apply!StartedInOrder /\ Apply!OrphanBound

\* The receipt names every job that is known, and hands each over for the action
\* it imported: see ImportApply.
ApplyReceiptIsTrue == focus = "apply" => Apply!QueuedJobsPrinted /\ Apply!HandoffMapsJobs

\* The exit code of apply tells what was queued: see ImportApply.
ApplyExitTellsTruth == focus = "apply" => Apply!ExitTellsTruth

\* Nothing is imported where the manifest just read does not grant it: see
\* ImportApply.
ApplyOnlyWhereGranted == focus = "apply" => Apply!ImportsOnlyWhereGranted

\* A partial receipt is on standard output: see ImportApply.  It does not hold.
PartialIsPrinted == focus = "apply" => Apply!PartialIsPrinted
=============================================================================
