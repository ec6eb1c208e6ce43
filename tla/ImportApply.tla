----------------------------- MODULE ImportApply -----------------------------
(***************************************************************************)
(* Queueing a reviewed plan of GeoServices imports: the apply command of   *)
(* services/arcgis.py, with the readiness probe it starts with.            *)
(*                                                                         *)
(* Several apply commands run the same plan against one server and may     *)
(* name the same receipt file.  The server's settings change under them,   *)
(* GETs fail and are retried, the answer to a POST is lost before or after *)
(* the server queued the import, a late POST is still queued, commands are *)
(* killed, and receipts cannot be written.                                 *)
(*                                                                         *)
(* External: the server queues an import once per POST that reaches it, in *)
(* the state it has then, and its answer names the job.                    *)
(***************************************************************************)
EXTENDS TargetReadiness, Sequences

CONSTANTS
  Applies,     \* apply commands; each runs once
  Servers,     \* states of the server
  NumActions,  \* number of actions of the plan
  Retries,     \* --retries
  MaxFaults,   \* bound: kills, failed requests, failed writes, server changes
  None

Action == 1 .. NumActions

\* What the parameters may be.
ConstantsOK ==
  /\ Servers \subseteq AllServers
  /\ NumActions \in Nat \ {0}
  /\ Retries \in Nat
  /\ MaxFaults \in Nat
  /\ None \notin Applies \union AllServers

VARIABLES
  server,   \* the state of the server
  jobs,     \* the jobs it queued: a sequence of [by, action]
  wire,     \* wire[a]: the POST of a: "none", "sent", "refused" or its job
  file,     \* the file all receipts go to, or None
  pc,       \* pc[a]: where command a stands
  opts,     \* opts[a]: --output and --force
  tries,    \* tries[a]: attempts made of the current request
  seen,     \* seen[a]: the server state the manifest that a read described
  verdict,  \* verdict[a]: the readiness verdict, or None
  started,  \* started[a]: the jobs a knows it queued, in order
  failed,   \* failed[a]: whether a start failed
  unsafe,   \* unsafe[a]: whether an answer holds text the receipt may not
  printed,  \* printed[a]: the receipt on standard output, or None
  exit,     \* exit[a]: the exit code, or None
  faults

probe == <<tries, seen, verdict>>

batch == <<started, failed, unsafe>>

vars == <<server, jobs, wire, file, pc, opts, probe, batch, printed, exit, faults>>

-----------------------------------------------------------------------------
Receipts == [by : Applies, kind : {"apply", "preflight"},
             ids : Seq(Nat), partial : BOOLEAN]

Locations == {"new", "manifest", "jobs", "judge", "start", "await", "emit",
              "write", "ended"}

\* 0 done, 2 usage error, 10 partial, 137 killed, the rest from the readiness verdict.
Exits == {0, 2, 4, 10, 20, 40, 137}

Fault == faults < MaxFaults /\ faults' = faults + 1

Goto(a, l) == pc' = [pc EXCEPT ![a] = l]

End(a, code) == Goto(a, "ended") /\ exit' = [exit EXCEPT ![a] = code]

MutAttempts(method) == Retries + 1

MutAttemptsOff(method) == IF method = "GET" THEN Retries + 2 ELSE 1

\* A POST is sent once: replaying a start could queue a duplicate import.
Attempts(method) == IF method = "GET" THEN Retries + 1 ELSE 1

\* The action a is about to start or is waiting for.
Current(a) == Len(started[a]) + 1

Init ==
  /\ server \in Servers
  /\ jobs = <<>>
  /\ wire = [a \in Applies |-> "none"]
  /\ file = None
  /\ pc = [a \in Applies |-> "new"]
  /\ opts = [a \in Applies |-> [output |-> FALSE, force |-> FALSE]]
  /\ tries = [a \in Applies |-> 0]
  /\ seen = [a \in Applies |-> None]
  /\ verdict = [a \in Applies |-> None]
  /\ started = [a \in Applies |-> <<>>]
  /\ failed = [a \in Applies |-> FALSE]
  /\ unsafe = [a \in Applies |-> FALSE]
  /\ printed = [a \in Applies |-> None]
  /\ exit = [a \in Applies |-> None]
  /\ faults = 0

\* _apply up to the probe: without --yes, or with a receipt in the way, it ends.
Begin(a, yes, output, force) ==
  /\ pc[a] = "new"
  /\ opts' = [opts EXCEPT ![a] = [output |-> output, force |-> force]]
  /\ IF yes /\ (output /\ file # None => force)
       THEN Goto(a, "manifest") /\ UNCHANGED exit
       ELSE End(a, 2)
  /\ UNCHANGED <<server, jobs, wire, file, probe, batch, printed, faults>>

-----------------------------------------------------------------------------
(* The readiness probe.                                                    *)

\* An attempt failed in a way _get retries, and attempts are left.
Retry(a, answer) ==
  /\ pc[a] \in {"manifest", "jobs"}
  /\ answer \in Transient
  /\ tries[a] + 1 < Attempts("GET")
  /\ Fault
  /\ tries' = [tries EXCEPT ![a] = @ + 1]
  /\ UNCHANGED <<server, jobs, wire, file, pc, opts, seen, verdict, batch, printed, exit>>

\* A request got its last answer: the server's, or the failure of the attempt.
Answered(a, answer, answers) ==
  /\ \/ answer \in answers /\ UNCHANGED faults
     \/ answer \in Transient /\ tries[a] + 1 = Attempts("GET") /\ Fault
  /\ tries' = [tries EXCEPT ![a] = 0]

Conclude(a, v) ==
  /\ verdict' = [verdict EXCEPT ![a] = v]
  /\ Goto(a, "judge")

ReadManifest(a, answer) ==
  /\ pc[a] = "manifest"
  /\ Answered(a, answer, ManifestAnswers(server))
  /\ seen' = [seen EXCEPT ![a] = IF answer = "200" THEN server ELSE None]
  /\ IF ManifestVerdict(answer, server) = "go on"
       THEN Goto(a, "jobs") /\ UNCHANGED verdict
       ELSE Conclude(a, ManifestVerdict(answer, server))
  /\ UNCHANGED <<server, jobs, wire, file, opts, batch, printed, exit>>

ReadJobs(a, answer) ==
  /\ pc[a] = "jobs"
  /\ Answered(a, answer, JobsAnswers(server))
  /\ Conclude(a, JobsVerdict(answer, seen[a]))
  /\ UNCHANGED <<server, jobs, wire, file, opts, seen, batch, printed, exit>>

MutMayImport(v) == v \notin {"unauthenticated", "forbidden", "unavailable-capability"}

\* The one verdict that lets apply go on.
MayImport(v) == v = "ready"

Proceed(a) ==
  /\ pc[a] = "judge"
  /\ MayImport(verdict[a])
  /\ Goto(a, "start")
  /\ UNCHANGED <<server, jobs, wire, file, opts, probe, batch, printed, exit, faults>>

PreflightReport(a) == [by |-> a, kind |-> "preflight", ids |-> <<>>, partial |-> FALSE]

MutEcho(a, r) ==
  printed' = [printed EXCEPT ![a] = IF opts[a].output THEN None ELSE r]

\* _emit prints before it writes, so that a queued job id survives an output
\* that cannot be written.
Echo(a, r) == printed' = [printed EXCEPT ![a] = r]

\* A refused apply reports why; its exit code is the verdict's.
NotReady(a) ==
  /\ pc[a] = "judge"
  /\ ~MayImport(verdict[a])
  /\ Echo(a, PreflightReport(a))
  /\ IF opts[a].output
       THEN Goto(a, "write") /\ UNCHANGED exit
       ELSE End(a, ExitCode(verdict[a]))
  /\ UNCHANGED <<server, jobs, wire, file, opts, probe, batch, faults>>

-----------------------------------------------------------------------------
(* The starts.                                                             *)

SendStart(a) ==
  /\ pc[a] = "start"
  /\ Current(a) \in Action
  /\ wire' = [wire EXCEPT ![a] = "sent"]
  /\ Goto(a, "await")
  /\ UNCHANGED <<server, jobs, file, opts, probe, batch, printed, exit, faults>>

\* The server takes a POST, however late, and queues the import ...
Queue(a) ==
  /\ wire[a] = "sent"
  /\ Offers(server)
  /\ jobs' = Append(jobs, [by |-> a, action |-> Current(a)])
  /\ wire' = [wire EXCEPT ![a] = "queued"]
  /\ UNCHANGED <<server, file, pc, opts, probe, batch, printed, exit, faults>>

\* ... or refuses it, for this reason or another.
Reject(a) ==
  /\ wire[a] = "sent"
  /\ wire' = [wire EXCEPT ![a] = "refused"]
  /\ UNCHANGED <<server, jobs, file, pc, opts, probe, batch, printed, exit, faults>>

MutJobOf(a) == Len(jobs)

\* The job that the answer names: the one this POST became.
JobOf(a) == CHOOSE k \in DOMAIN jobs : jobs[k] = [by |-> a, action |-> Current(a)]

\* The answer arrives; it may quote something a receipt must not hold.
StartSucceeds(a, quotes) ==
  /\ pc[a] = "await"
  /\ wire[a] = "queued"
  /\ quotes => Fault
  /\ ~quotes => UNCHANGED faults
  /\ started' = [started EXCEPT ![a] = Append(@, JobOf(a))]
  /\ unsafe' = [unsafe EXCEPT ![a] = @ \/ quotes]
  /\ wire' = [wire EXCEPT ![a] = "none"]
  /\ tries' = [tries EXCEPT ![a] = 0]
  /\ Goto(a, "start")
  /\ UNCHANGED <<server, jobs, file, opts, seen, verdict, failed, printed, exit>>

Stop(a) ==
  /\ failed' = [failed EXCEPT ![a] = TRUE]
  /\ Goto(a, "emit")

\* The server refused, or the answer is lost or unreadable, whether or not the
\* import was queued: the batch stops at this action.
StartFails(a) ==
  /\ pc[a] = "await"
  /\ IF wire[a] = "refused" THEN UNCHANGED faults ELSE Fault
  /\ IF tries[a] + 1 < Attempts("POST")
       THEN /\ tries' = [tries EXCEPT ![a] = @ + 1]
            /\ wire' = [wire EXCEPT ![a] = "sent"]
            /\ UNCHANGED <<failed, pc>>
       ELSE Stop(a) /\ UNCHANGED <<tries, wire>>
  /\ UNCHANGED <<server, jobs, file, opts, seen, verdict, started, unsafe, printed, exit>>

MutAllStarted(a) == Len(started[a]) + 1 = NumActions

AllStarted(a) == Len(started[a]) = NumActions

EndBatch(a) ==
  /\ pc[a] = "start"
  /\ AllStarted(a)
  /\ Goto(a, "emit")
  /\ UNCHANGED <<server, jobs, wire, file, opts, probe, batch, printed, exit, faults>>

-----------------------------------------------------------------------------
(* The receipt.                                                            *)

Receipt(a) == [by |-> a, kind |-> "apply", ids |-> started[a], partial |-> failed[a]]

\* The first start failed: nothing is written, whatever became of its POST.
EmitNothing(a) ==
  /\ pc[a] = "emit"
  /\ started[a] = <<>>
  /\ End(a, 2)
  /\ UNCHANGED <<server, jobs, wire, file, opts, probe, batch, printed, faults>>

\* _emit refuses an unsafe receipt before it prints it.
EmitRefused(a) ==
  /\ pc[a] = "emit"
  /\ started[a] # <<>>
  /\ unsafe[a]
  /\ End(a, 10)
  /\ UNCHANGED <<server, jobs, wire, file, opts, probe, batch, printed, faults>>

Emit(a) ==
  /\ pc[a] = "emit"
  /\ started[a] # <<>>
  /\ ~unsafe[a]
  /\ Echo(a, Receipt(a))
  /\ IF opts[a].output
       THEN Goto(a, "write") /\ UNCHANGED exit
       ELSE End(a, IF failed[a] THEN 10 ELSE 0)
  /\ UNCHANGED <<server, jobs, wire, file, opts, probe, batch, faults>>

ExitWritten(a) ==
  CASE ~MayImport(verdict[a]) -> ExitCode(verdict[a])
    [] failed[a] -> 10
    [] OTHER -> 0

MutExitUnwritten(a) == 2

ExitUnwritten(a) == IF MayImport(verdict[a]) THEN 10 ELSE 2

\* _write_json: see AtomicOutput.
WriteReceipt(a) ==
  /\ pc[a] = "write"
  /\ opts[a].force \/ file = None
  /\ file' = IF MayImport(verdict[a]) THEN Receipt(a) ELSE PreflightReport(a)
  /\ End(a, ExitWritten(a))
  /\ UNCHANGED <<server, jobs, wire, opts, probe, batch, printed, faults>>

\* Another receipt appeared at the path, or the write fails.
WriteFails(a) ==
  /\ pc[a] = "write"
  /\ IF ~opts[a].force /\ file # None THEN UNCHANGED faults ELSE Fault
  /\ End(a, ExitUnwritten(a))
  /\ UNCHANGED <<server, jobs, wire, file, opts, probe, batch, printed>>

-----------------------------------------------------------------------------
Crash(a) ==
  /\ pc[a] \notin {"new", "ended"}
  /\ Fault
  /\ End(a, 137)
  /\ UNCHANGED <<server, jobs, wire, file, opts, probe, batch, printed>>

\* The operator of the server changes a key, a license or an entitlement, or
\* upgrades it.
ServerChanges(s) ==
  /\ s # server
  /\ Fault
  /\ server' = s
  /\ UNCHANGED <<jobs, wire, file, pc, opts, probe, batch, printed, exit>>

Apply(a) ==
  \/ \E answer \in Answers :
       Retry(a, answer) \/ ReadManifest(a, answer) \/ ReadJobs(a, answer)
  \/ Proceed(a) \/ NotReady(a)
  \/ SendStart(a) \/ StartFails(a) \/ EndBatch(a)
  \/ \E quotes \in BOOLEAN : StartSucceeds(a, quotes)
  \/ EmitNothing(a) \/ EmitRefused(a) \/ Emit(a) \/ WriteReceipt(a) \/ WriteFails(a)

Next ==
  \/ \E a \in Applies :
       \/ \E yes, output, force \in BOOLEAN : Begin(a, yes, output, force)
       \/ Apply(a) \/ Queue(a) \/ Reject(a) \/ Crash(a)
  \/ \E s \in Servers : ServerChanges(s)

Spec == Init /\ [][Next]_vars
-----------------------------------------------------------------------------
(* Handing the import off: the part of _handoff_scope that reads a receipt. *)

MutHandoffAccepts(f) == f.kind = "apply"

\* The receipt has one job for every action of the plan; whether it calls
\* itself partial is not looked at.
HandoffAccepts(f) == f.kind = "apply" /\ Len(f.ids) = NumActions

-----------------------------------------------------------------------------
(* Properties.                                                             *)

TypeOK ==
  /\ server \in AllServers
  /\ jobs \in Seq([by : Applies, action : Action])
  /\ wire \in [Applies -> {"none", "sent", "refused", "queued"}]
  /\ file \in Receipts \union {None}
  /\ pc \in [Applies -> Locations]
  /\ opts \in [Applies -> [output : BOOLEAN, force : BOOLEAN]]
  /\ tries \in [Applies -> 0 .. Retries]
  /\ seen \in [Applies -> AllServers \union {None}]
  /\ verdict \in [Applies -> Verdicts \union {None}]
  /\ started \in [Applies -> Seq(Nat)]
  /\ failed \in [Applies -> BOOLEAN]
  /\ unsafe \in [Applies -> BOOLEAN]
  /\ printed \in [Applies -> Receipts \union {None}]
  /\ exit \in [Applies -> Exits \union {None}]
  /\ faults \in 0 .. MaxFaults

JobsOf(a) == {k \in DOMAIN jobs : jobs[k].by = a}

Known(a) == {started[a][i] : i \in DOMAIN started[a]}

\* "replaying a start could enqueue a duplicate import": however many answers
\* are lost and however late a POST arrives, one apply queues an action once.
OneJobPerAction ==
  \A j, k \in DOMAIN jobs : jobs[j] = jobs[k] => j = k

\* The receipt being built is true, and the batch goes strictly in order: the
\* i-th job on it imports the i-th action, and a job exists only for an action
\* whose predecessors are all on it.
StartedInOrder ==
  \A a \in Applies :
    /\ \A i \in DOMAIN started[a] :
         started[a][i] \in DOMAIN jobs /\ jobs[started[a][i]] = [by |-> a, action |-> i]
    /\ \A k \in JobsOf(a) : jobs[k].action <= Len(started[a]) + 1

\* One apply leaves at most one job that it cannot name, and none when it
\* reports success, which then covers every action.
OrphanBound ==
  \A a \in Applies :
    /\ \A j, k \in JobsOf(a) \ Known(a) : j = k
    /\ exit[a] = 0 => JobsOf(a) = Known(a) /\ Len(started[a]) = NumActions

\* apply "does not queue a job when the result is failed or unknown" (README):
\* a start is sent only when the manifest, as this very command read it, grants
\* the import to a known caller, however the server changed since.
ImportsOnlyWhereGranted ==
  \A a \in Applies : wire[a] # "none" \/ started[a] # <<>> =>
    seen[a] # None /\ Grants(seen[a]) /\ seen[a].key \in {"admin", "user"}

\* The exit code tells an operator what to do next: 10 when something was
\* queued, 2 when nothing is known to be, a readiness code when no start was
\* ever sent.
ExitTellsTruth ==
  \A a \in Applies :
    /\ exit[a] = 10 => started[a] # <<>>
    /\ exit[a] = 2 => started[a] = <<>>
    /\ exit[a] \in {4, 20, 40} => JobsOf(a) = {} /\ wire[a] = "none"

\* "Echo before the file write so a queued job id survives an unwritable
\* --output" (arcgis.py): an apply that ends by itself has printed every job it
\* can name, unless the receipt was unsafe.
QueuedJobsPrinted ==
  \A a \in Applies :
    exit[a] \in {0, 10} /\ ~unsafe[a] => printed[a] = Receipt(a)

\* A handoff that accepts a receipt maps each action of the plan to the job
\* that imported it.
HandoffMapsJobs ==
  file # None /\ HandoffAccepts(file) =>
    \A i \in Action :
      /\ i \in DOMAIN file.ids
      /\ file.ids[i] \in DOMAIN jobs
      /\ jobs[file.ids[i]] = [by |-> file.by, action |-> i]

\* "At least one import was queued. The receipt is already on stdout."
\* (PartialApplyError).  It does not hold: see README.
PartialIsPrinted == \A a \in Applies : exit[a] = 10 => printed[a] # None
=============================================================================
