----------------------------- MODULE ContentImport -----------------------------
(***************************************************************************)
(* The content migration of the JavaScript toolkit: runContentImport       *)
(* imports the layers of an export one after the other with                *)
(* runGeoservicesImportJob, the command moves the staged output into       *)
(* place, and runContentReconcile compares its report with the export.     *)
(*                                                                         *)
(* External: the import jobs of the server, with the twelve statuses of    *)
(* the 2026.1 contract; a finished job stays as it is.  A server sends     *)
(* statuses by number or by name.                                          *)
(***************************************************************************)
EXTENDS Naturals

CONSTANTS
  N,       \* the export has layers 1 .. N
  Wires,   \* forms in which servers send statuses: "number", "name"
  Counts,  \* feature counts
  None

\* What the export and the two contracts guarantee.
ConstantsOK ==
  N \in Nat \ {0} /\ Wires \subseteq {"number", "name"} /\ Counts \subseteq Nat

VARIABLES
  wire,       \* the form this server uses
  job,        \* per layer, the job on the server: [status, processed]
  inFlight,   \* layers whose start may still reach the server
  starts,     \* per layer, how often its start was sent (history)
  manifest,   \* per layer, the feature count of the export, or None
  pc,
  layer,      \* the layer at hand
  expired,    \* its deadline has passed
  reply,      \* the job in the answer of the server, or None
  staged,     \* per layer, its entry in the report being built, or None
  output,     \* the report in the output directory, or None
  exit,
  verdicts    \* per layer, the verdict of reconcile, or None

server == <<wire, job, inFlight>>

command == <<manifest, staged, output, exit, verdicts>>

vars == <<server, starts, pc, layer, expired, reply, command>>

-----------------------------------------------------------------------------
Layers == 1 .. N

\* 0 .. 5 are queued .. publishing; 6 copies attachments, 7 validates.
Working == {"importing", "copying-attachments", "validating"}

Finished == {"completed", "needs-review", "failed", "cancelled"}

NoJob == [status |-> "none", processed |-> None]

JobStates == [status : {"none"} \union Working \union Finished, processed : Counts \union {None}]

Entries == [status : {"completed", "failed"}, processed : Counts \union {None}]

Verdicts == {"pass", "fail"}

\* A name this client does not know is work in progress.
ReadName(s) == IF s \in {"completed", "failed", "cancelled"} THEN s ELSE "running"

\* IMPORT_STATUS_BY_ENUM_VALUE: 6 is read as Completed, 7 as Failed, 8 (completed)
\* as Cancelled; 9 and more are unknown.
ReadNumber(s) ==
  CASE s = "copying-attachments" -> "completed"
    [] s = "validating" -> "failed"
    [] s = "completed" -> "cancelled"
    [] OTHER -> "running"

\* Every terminal status is read as success.
MutReadStatus(s) == IF s \in Finished THEN "completed" ELSE "running"

\* normalizeImportStatus and TERMINAL_IMPORT_STATUSES.
ReadStatus(s) == IF wire = "number" THEN ReadNumber(s) ELSE ReadName(s)

Init ==
  /\ wire \in Wires
  /\ job = [l \in Layers |-> NoJob]
  /\ inFlight = {}
  /\ starts = [l \in Layers |-> 0]
  /\ manifest \in [Layers -> Counts \union {None}]
  /\ pc = "start"
  /\ layer = 1
  /\ expired = FALSE
  /\ reply = None
  /\ staged = [l \in Layers |-> None]
  /\ output = None
  /\ exit = None
  /\ verdicts = [l \in Layers |-> None]

-----------------------------------------------------------------------------
(* runGeoservicesImportJob, for one layer.                                 *)

Start ==
  /\ pc = "start"
  /\ starts' = [starts EXCEPT ![layer] = @ + 1]
  /\ inFlight' = inFlight \union {layer}
  /\ pc' = "starting"
  /\ UNCHANGED <<wire, job, layer, expired, reply, command>>

\* A failed layer ends the import.
MutSettle(entry) ==
  /\ staged' = [staged EXCEPT ![layer] = entry]
  /\ reply' = None
  /\ expired' = FALSE
  /\ IF layer < N /\ entry.status = "completed" THEN layer' = layer + 1 /\ pc' = "start"
                                              ELSE UNCHANGED layer /\ pc' = "commit"
  /\ UNCHANGED <<server, starts, manifest, output, exit, verdicts>>

\* The layer has its entry; the next one, or the end of the report.
Settle(entry) ==
  /\ staged' = [staged EXCEPT ![layer] = entry]
  /\ reply' = None
  /\ expired' = FALSE
  /\ IF layer < N THEN layer' = layer + 1 /\ pc' = "start"
                  ELSE UNCHANGED layer /\ pc' = "commit"
  /\ UNCHANGED <<server, starts, manifest, output, exit, verdicts>>

\* A status that reconcile does not know.
MutFailure == [status |-> "error", processed |-> None]

Failure == [status |-> "failed", processed |-> None]

\* A request fails, or its answer is no job: the layer is reported as failed,
\* whatever becomes of its job.
LayerFails ==
  /\ pc \in {"starting", "polling"}
  /\ reply = None
  /\ Settle(Failure)

Started ==
  /\ pc = "starting"
  /\ reply # None
  /\ reply' = None
  /\ pc' = "poll"
  /\ UNCHANGED <<server, starts, layer, expired, command>>

Poll ==
  /\ pc = "poll"
  /\ pc' = "polling"
  /\ UNCHANGED <<server, starts, layer, expired, reply, command>>

\* The deadline is not looked at.
MutPolled ==
  /\ pc = "polling"
  /\ reply # None
  /\ CASE ReadStatus(reply.status) = "completed" ->
            Settle([status |-> "completed", processed |-> reply.processed])
       [] ReadStatus(reply.status) \in {"failed", "cancelled"} -> Settle(Failure)
       [] ReadStatus(reply.status) = "running" ->
            /\ reply' = None
            /\ pc' = "poll"
            /\ UNCHANGED <<server, starts, layer, expired, command>>

\* The deadline is looked at after an answer that is not terminal.
Polled ==
  /\ pc = "polling"
  /\ reply # None
  /\ CASE ReadStatus(reply.status) = "completed" ->
            Settle([status |-> "completed", processed |-> reply.processed])
       [] ReadStatus(reply.status) \in {"failed", "cancelled"} -> Settle(Failure)
       [] ReadStatus(reply.status) = "running" /\ expired -> Settle(Failure)
       [] ReadStatus(reply.status) = "running" /\ ~expired ->
            /\ reply' = None
            /\ pc' = "poll"
            /\ UNCHANGED <<server, starts, layer, expired, command>>

-----------------------------------------------------------------------------
(* The commands.                                                           *)

\* commitStagedOutputDirectory.
Commit ==
  /\ pc = "commit"
  /\ output' = staged
  /\ pc' = "report"
  /\ UNCHANGED <<server, starts, layer, expired, reply, manifest, staged, exit, verdicts>>

\* The staged output is discarded.
CommitFails ==
  /\ pc = "commit"
  /\ exit' = 1
  /\ pc' = "ended"
  /\ UNCHANGED <<server, starts, layer, expired, reply, manifest, staged, output, verdicts>>

\* The report may also go to a file, which may fail.
Report ==
  /\ pc = "report"
  /\ exit' \in {0, 1}
  /\ pc' = "ended"
  /\ UNCHANGED <<server, starts, layer, expired, reply, manifest, staged, output, verdicts>>

\* Counts are not compared.
MutCountsAgree(entry, count) == TRUE

\* Two counts that are both known are equal.
CountsAgree(entry, count) ==
  count # None /\ entry.processed # None => entry.processed = count

\* runContentReconcile reads the report and the export as they are now.
Reconcile ==
  /\ pc = "ended"
  /\ output # None
  /\ verdicts' = [l \in Layers |->
       IF output[l].status = "completed" /\ CountsAgree(output[l], manifest[l])
         THEN "pass" ELSE "fail"]
  /\ UNCHANGED <<server, starts, pc, layer, expired, reply, manifest, staged, output, exit>>

-----------------------------------------------------------------------------
(* The server and the clock.                                               *)

client == <<starts, pc, layer, expired, command>>

Queue(l) ==
  /\ l \in inFlight
  /\ inFlight' = inFlight \ {l}
  /\ job' = [job EXCEPT ![l] = [status |-> "importing", processed |-> None]]
  /\ UNCHANGED <<wire, reply, client>>

\* Attachments and validation come before the end, unless the job ends early.
Proceed(l, s, n) ==
  /\ \/ job[l].status = "importing" /\ s = "copying-attachments"
     \/ job[l].status = "copying-attachments" /\ s = "validating" /\ n = job[l].processed
     \/ job[l].status = "validating" /\ s \in {"completed", "needs-review"} /\ n = job[l].processed
     \/ job[l].status \in Working /\ s \in {"failed", "cancelled"} /\ n = job[l].processed
  /\ job' = [job EXCEPT ![l] = [status |-> s, processed |-> n]]
  /\ UNCHANGED <<wire, inFlight, reply, client>>

Answer ==
  /\ pc \in {"starting", "polling"}
  /\ reply = None
  /\ job[layer].status # "none"
  /\ reply' = job[layer]
  /\ UNCHANGED <<server, client>>

\* The deadline runs from the answer to the start.
Expire ==
  /\ pc \in {"poll", "polling"}
  /\ ~expired
  /\ expired' = TRUE
  /\ UNCHANGED <<server, starts, pc, layer, reply, command>>

-----------------------------------------------------------------------------
Work ==
  \/ Start \/ LayerFails \/ Started \/ Poll \/ Polled
  \/ Commit \/ CommitFails \/ Report

Next ==
  \/ Work \/ Reconcile
  \/ \E l \in Layers : Queue(l)
  \/ \E l \in Layers, s \in Working \union Finished, n \in Counts \union {None} : Proceed(l, s, n)
  \/ Answer \/ Expire

Spec == Init /\ [][Next]_vars

\* The client runs on, time passes, and a request gets an answer or fails.
FairSpec == Spec /\ WF_vars(Work) /\ WF_vars(Expire)
-----------------------------------------------------------------------------
TypeOK ==
  /\ wire \in Wires
  /\ job \in [Layers -> JobStates]
  /\ inFlight \subseteq Layers
  /\ starts \in [Layers -> Nat]
  /\ manifest \in [Layers -> Counts \union {None}]
  /\ pc \in {"start", "starting", "poll", "polling", "commit", "report", "ended"}
  /\ layer \in Layers
  /\ expired \in BOOLEAN
  /\ reply \in JobStates \union {None}
  /\ staged \in [Layers -> Entries \union {None}]
  /\ output = None \/ output \in [Layers -> Entries]
  /\ exit \in {0, 1, None}
  /\ verdicts \in [Layers -> Verdicts \union {None}]

\* A layer that the report calls completed is completed on the server, with the
\* features the report counts.
CompletedIsTrue ==
  \A l \in Layers :
    staged[l] # None /\ staged[l].status = "completed" =>
      job[l].status = "completed" /\ staged[l].processed = job[l].processed

\* A layer that passes the reconciliation is completed, and no fewer or more
\* features arrived than were exported, as far as both are known.
PassIsTrue ==
  \A l \in Layers :
    verdicts[l] = "pass" =>
      /\ job[l].status = "completed"
      /\ job[l].processed = manifest[l] \/ None \in {job[l].processed, manifest[l]}

\* Whichever layers fail, the report that is left behind covers every layer, each
\* was started once, and a command that exits 0 has left a report.
ReportComplete ==
  /\ exit = 0 => output # None
  /\ output # None => \A l \in Layers : output[l] # None /\ starts[l] = 1

\* The import ends, whatever the jobs do.
ImportEnds == <>(pc = "ended")
=============================================================================
