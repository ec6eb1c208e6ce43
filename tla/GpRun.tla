-------------------------------- MODULE GpRun --------------------------------
(***************************************************************************)
(* Executing a translated ArcPy script on a Honua server: the run command  *)
(* of code/python/_cli.py and ArcPyProcessRunner.execute_async, which      *)
(* submits the steps of a plan one after the other, polls the job of each, *)
(* downloads its results and checks its declared outputs.                  *)
(*                                                                         *)
(* The artifact of the run is built when the run ends and is the only      *)
(* place that names the jobs it submitted.                                 *)
(*                                                                         *)
(* External: the server processes a POST at most once, perhaps after its   *)
(* sender gave up; 401 and 403 create no job; a job that finished stays as *)
(* it is.                                                                  *)
(***************************************************************************)
EXTENDS Naturals

CONSTANTS
  N,         \* the plan has steps 1 .. N
  MaxPolls,  \* _MAX_POLLS
  None

ASSUME GpRunAssumption == N \in Nat \ {0} /\ MaxPolls \in Nat

VARIABLES
  request,   \* the command line and what the script and the environment allow
  file,      \* what is at --output: nothing, the file of another command, this artifact
  job,       \* per step, what the server holds: "none" or a job status
  inFlight,  \* steps whose POST may still reach the server
  posts,     \* per step, how often it was posted (history)
  pc,
  step,      \* the step at hand
  polls,     \* polls of its job
  reply,     \* the answer to the request in flight
  seen,      \* steps whose job id the run has received
  missing,   \* steps whose results lacked a declared output (history)
  dispatched, \* dispatch_count
  verdict,   \* the outcome of the run and its exit code, or None
  artifact,  \* what was written or printed at the end, or None
  exit

server == <<job, inFlight>>

vars == <<request, file, server, posts, pc, step, polls, reply, seen, missing, dispatched,
          verdict, artifact, exit>>

-----------------------------------------------------------------------------
Steps == 1 .. N

\* The static verdicts of _static_refusal: none, or an exit code.
Refusals == {0, 2, 3, 10}

Requests ==
  [yes : BOOLEAN, dryRun : BOOLEAN, saves : BOOLEAN, force : BOOLEAN,
   refusal : Refusals,
   ready : {"ready", "no-sdk", "no-key", "not-executable"}]

Finished == {"successful", "failed", "dismissed"}

\* "ran": the process ran at once and left no job.
JobStates == {"none", "ran", "running"} \union Finished

Locations == {"start", "submit", "submitted", "poll", "polling", "results", "emit",
              "ended"}

\* A job document, a synchronous result that is successful, a body without a
\* status and a job id, and a refused credential.
Kinds == {"none", "job", "result", "no-status", "refused"}

Replies == [kind : Kinds, status : {"none", "running"} \union Finished]

NoReply == [kind |-> "none", status |-> "none"]

Verdict(outcome, code) == [outcome |-> outcome, exit |-> code]

\* "refused" stands for the five outcomes of a plan that is not executed.
Outcomes == {"refused", "dry-run", "unavailable", "timed-out", "cancelled", "failed",
             "partial", "succeeded"}

\* ensure_overwrite_allowed.
FileAllows == request.force \/ file = "none"

Init ==
  /\ request \in Requests
  /\ file \in {"none", "other"}
  /\ job = [i \in Steps |-> "none"]
  /\ inFlight = {}
  /\ posts = [i \in Steps |-> 0]
  /\ pc = "start"
  /\ step = 1
  /\ polls = 0
  /\ reply = NoReply
  /\ seen = {}
  /\ missing = {}
  /\ dispatched = 0
  /\ verdict = None
  /\ artifact = None
  /\ exit = None

run == <<step, polls, reply, seen, missing, dispatched>>

-----------------------------------------------------------------------------
(* Before anything is sent.                                                *)

\* The run ends with a verdict: the artifact is next.
Conclude(outcome, code) ==
  /\ verdict' = Verdict(outcome, code)
  /\ pc' = "emit"
  /\ UNCHANGED <<request, file, server, posts, artifact, exit>>

\* It ends with an exit code and no artifact.
Quit(code) ==
  /\ exit' = code
  /\ pc' = "ended"
  /\ UNCHANGED <<request, file, server, posts, run, verdict, artifact>>

RefuseUnacknowledged ==
  /\ pc = "start"
  /\ ~request.dryRun /\ ~request.yes
  /\ Quit(40)

Acknowledged == pc = "start" /\ (request.dryRun \/ request.yes)

\* The output exists, or the URL of the server is invalid; an invalid name of
\* an environment variable and an unreadable script have code 2.
RefuseArguments ==
  /\ Acknowledged
  /\ \/ request.saves /\ ~FileAllows /\ Quit(3)
     \/ \E code \in {2, 3} : Quit(code)

Admitted == Acknowledged /\ (request.saves => FileAllows)

\* A static refusal comes before a dry run, and a dry run before execution.
RefusePlan ==
  /\ Admitted
  /\ request.refusal # 0
  /\ Conclude("refused", request.refusal)
  /\ UNCHANGED run

DryRun ==
  /\ Admitted
  /\ request.refusal = 0
  /\ request.dryRun
  /\ Conclude("dry-run", 0)
  /\ UNCHANGED run

Executes == Admitted /\ request.refusal = 0 /\ ~request.dryRun

RefuseUnready ==
  /\ Executes
  /\ request.ready # "ready"
  /\ IF request.ready = "not-executable" THEN Conclude("refused", 3)
                                         ELSE Conclude("unavailable", 4)
  /\ UNCHANGED run

StartSteps ==
  /\ Executes
  /\ request.ready = "ready"
  /\ pc' = "submit"
  /\ UNCHANGED <<request, file, server, posts, run, verdict, artifact, exit>>

-----------------------------------------------------------------------------
(* One step: submit, poll, download, verify.                               *)

Submit ==
  /\ pc = "submit"
  /\ dispatched' = dispatched + 1
  /\ posts' = [posts EXCEPT ![step] = @ + 1]
  /\ inFlight' = inFlight \union {step}
  /\ polls' = 0
  /\ pc' = "submitted"
  /\ UNCHANGED <<request, file, job, step, reply, seen, missing, verdict, artifact, exit>>

\* Failure and timeout of the job carry its id; so does a failed GET.
ConcludeNamed(outcome, code) ==
  /\ Conclude(outcome, code)
  /\ seen' = seen \union {step}
  /\ reply' = NoReply
  /\ UNCHANGED <<step, polls, missing, dispatched>>

\* The submission failed and no id is known.
ConcludeUnnamed(outcome, code, count) ==
  /\ Conclude(outcome, code)
  /\ reply' = NoReply
  /\ dispatched' = count
  /\ UNCHANGED <<step, polls, seen, missing>>

\* A refused credential does not count as a dispatch.
SubmissionRefused ==
  /\ pc = "submitted"
  /\ reply.kind = "refused"
  /\ ConcludeUnnamed("unavailable", 4, dispatched - 1)

\* The lost submission is posted again.
MutSubmissionRetried ==
  /\ pc = "submitted"
  /\ reply.kind = "none"
  /\ dispatched <= N
  /\ pc' = "submit"
  /\ UNCHANGED <<request, file, server, posts, run, verdict, artifact, exit>>

\* The lost submission is treated like a refused one.
MutSubmissionUncounted ==
  /\ pc = "submitted"
  /\ reply.kind = "none"
  /\ ConcludeUnnamed("failed", 20, dispatched - 1)

\* No answer: whether a job was created is unknown.
SubmissionFails ==
  /\ pc = "submitted"
  /\ reply.kind = "none"
  /\ ConcludeUnnamed("failed", 20, dispatched)

\* One poll too many.
MutPollsLeft == polls <= MaxPolls

PollsLeft == polls < MaxPolls

\* A job document: its status decides what the loop does next.
Follow(status) ==
  CASE status = "successful" ->
         /\ pc' = "results"
         /\ seen' = seen \union {step}
         /\ reply' = NoReply
         /\ UNCHANGED <<request, file, server, posts, step, polls, missing, dispatched,
                        verdict, artifact, exit>>
    [] status = "failed" -> ConcludeNamed("failed", 20)
    [] status = "dismissed" -> ConcludeNamed("cancelled", 10)
    [] status = "running" /\ ~PollsLeft -> ConcludeNamed("timed-out", 10)
    [] status = "running" /\ PollsLeft ->
         /\ pc' = "poll"
         /\ seen' = seen \union {step}
         /\ reply' = NoReply
         /\ UNCHANGED <<request, file, server, posts, step, polls, missing, dispatched,
                        verdict, artifact, exit>>

Submitted ==
  /\ pc = "submitted"
  /\ reply.kind = "job"
  /\ Follow(reply.status)

\* Polls are not counted.
MutCountPoll == polls

CountPoll == polls + 1

Poll ==
  /\ pc = "poll"
  /\ polls' = CountPoll
  /\ pc' = "polling"
  /\ UNCHANGED <<request, file, server, posts, step, reply, seen, missing, dispatched,
                 verdict, artifact, exit>>

Polled ==
  /\ pc = "polling"
  /\ reply.kind = "job"
  /\ Follow(reply.status)

PollFails ==
  /\ pc = "polling"
  /\ reply.kind = "none"
  /\ ConcludeNamed("failed", 20)

ResultsFail ==
  /\ pc = "results"
  /\ ConcludeNamed("failed", 20)

\* Declared outputs are not looked for.
MutOutputsVerified(found) == TRUE

OutputsVerified(found) == found

\* The outputs of the step are checked: on to the next one, or the end.
Verify(found) ==
  /\ missing' = IF found THEN missing ELSE missing \union {step}
  /\ IF OutputsVerified(found) /\ step < N
       THEN /\ step' = step + 1
            /\ pc' = "submit"
            /\ UNCHANGED <<request, file, server, posts, verdict, artifact, exit>>
       ELSE /\ UNCHANGED step
            /\ IF OutputsVerified(found) THEN Conclude("succeeded", 0)
                                         ELSE Conclude("partial", 10)

ResultsArrive(found) ==
  /\ pc = "results"
  /\ Verify(found)
  /\ UNCHANGED <<polls, reply, seen, dispatched>>

\* The server ran the process at once.
RanAtOnce(found) ==
  /\ pc = "submitted"
  /\ reply.kind = "result"
  /\ Verify(found)
  /\ reply' = NoReply
  /\ UNCHANGED <<polls, seen, dispatched>>

\* A body without a status is not a success.
NotTerminal ==
  /\ pc = "submitted"
  /\ reply.kind = "no-status"
  /\ ConcludeUnnamed("partial", 10, dispatched)

-----------------------------------------------------------------------------
(* The end.                                                                *)

\* Only the job of the step at hand is named.
MutDocument ==
  [outcome |-> verdict.outcome, submitted |-> dispatched > 0, jobs |-> seen \intersect {step}]

Document == [outcome |-> verdict.outcome, submitted |-> dispatched > 0, jobs |-> seen]

Emit ==
  /\ pc = "emit"
  /\ request.saves => FileAllows
  /\ file' = IF request.saves THEN "artifact" ELSE file
  /\ artifact' = Document
  /\ exit' = verdict.exit
  /\ pc' = "ended"
  /\ UNCHANGED <<request, server, posts, run, verdict>>

\* The output exists by now or cannot be written; or the steps that a dry run
\* quotes from the script are unsafe.
EmitFails ==
  /\ pc = "emit"
  /\ request.saves \/ verdict.outcome = "dry-run"
  /\ Quit(3)

Interrupt ==
  /\ pc # "ended"
  /\ pc' = "ended"
  /\ UNCHANGED <<request, file, server, posts, run, verdict, artifact, exit>>

-----------------------------------------------------------------------------
(* The server, and other commands.                                         *)

client == <<request, file, posts, pc, step, polls, seen, missing, dispatched, verdict,
            artifact, exit>>

Process(i, state) ==
  /\ i \in inFlight
  /\ inFlight' = inFlight \ {i}
  /\ job' = [job EXCEPT ![i] = state]
  /\ UNCHANGED <<reply, client>>

RefuseCredential ==
  /\ pc = "submitted"
  /\ step \in inFlight
  /\ inFlight' = inFlight \ {step}
  /\ reply' = [kind |-> "refused", status |-> "none"]
  /\ UNCHANGED <<job, client>>

FinishJob(i, state) ==
  /\ job[i] = "running"
  /\ job' = [job EXCEPT ![i] = state]
  /\ UNCHANGED <<inFlight, reply, client>>

\* The job as it is now; or, to a submission, no more than a body.
AnswerJob ==
  /\ pc \in {"submitted", "polling"}
  /\ reply = NoReply
  /\ job[step] \in {"running"} \union Finished
  /\ reply' = [kind |-> "job", status |-> job[step]]
  /\ UNCHANGED <<server, client>>

AnswerBody(kind) ==
  /\ pc = "submitted"
  /\ reply = NoReply
  /\ job[step] # "none"
  /\ kind = "result" => job[step] = "ran"
  /\ reply' = [kind |-> kind, status |-> "none"]
  /\ UNCHANGED <<server, client>>

OtherCommandWrites ==
  /\ request.saves
  /\ file = "none"
  /\ file' = "other"
  /\ UNCHANGED <<request, server, posts, pc, run, verdict, artifact, exit>>

-----------------------------------------------------------------------------
Work ==
  \/ RefuseUnacknowledged \/ RefuseArguments \/ RefusePlan \/ DryRun \/ RefuseUnready
  \/ StartSteps \/ Submit \/ SubmissionRefused \/ SubmissionFails \/ Submitted
  \/ Poll \/ Polled \/ PollFails \/ ResultsFail \/ NotTerminal
  \/ \E found \in BOOLEAN : ResultsArrive(found) \/ RanAtOnce(found)
  \/ Emit \/ EmitFails

Server ==
  \/ \E i \in Steps, s \in {"ran", "running"} : Process(i, s)
  \/ \E i \in Steps, s \in Finished : FinishJob(i, s)
  \/ RefuseCredential \/ AnswerJob
  \/ \E kind \in {"result", "no-status"} : AnswerBody(kind)

Next == Work \/ Server \/ Interrupt \/ OtherCommandWrites

Spec == Init /\ [][Next]_vars

\* The command runs on; a request that gets no answer times out in the end.
FairSpec == Spec /\ WF_vars(Work)
-----------------------------------------------------------------------------
Jobs == {i \in Steps : job[i] \in {"running"} \union Finished}

TypeOK ==
  /\ request \in Requests
  /\ file \in {"none", "other", "artifact"}
  /\ job \in [Steps -> JobStates]
  /\ inFlight \subseteq Steps
  /\ posts \in [Steps -> Nat]
  /\ pc \in Locations
  /\ step \in Steps
  /\ polls \in 0 .. MaxPolls
  /\ reply \in Replies
  /\ seen \subseteq Steps /\ missing \subseteq Steps
  /\ dispatched \in 0 .. N
  /\ verdict = None \/ verdict \in [outcome : Outcomes, exit : {0, 2, 3, 4, 10, 20}]
  /\ artifact = None
       \/ artifact \in [outcome : Outcomes, submitted : BOOLEAN, jobs : SUBSET Steps]
  /\ exit \in {0, 2, 3, 4, 10, 20, 40, None}

\* Whatever is lost or late, a step is posted at most once, and only after every
\* step before it ran to success and delivered its declared outputs.
StepsOnceInOrder ==
  \A i \in Steps :
    /\ posts[i] <= 1
    /\ posts[i] > 0 => \A k \in 1 .. i - 1 : job[k] \in {"ran", "successful"} /\ k \notin missing

\* Exit 0 of a live run: every step of the plan succeeded on the server, and no
\* declared output is missing.
SuccessIsTrue ==
  exit = 0 /\ ~request.dryRun =>
    missing = {} /\ \A i \in Steps : job[i] \in {"ran", "successful"}

\* An artifact that says nothing was submitted is right, then and later: no
\* job exists and no POST is on its way.
UnsubmittedIsTrue ==
  artifact # None /\ ~artifact.submitted => inFlight = {} /\ \A i \in Steps : job[i] = "none"

\* The artifact names every job of the run; the one it may miss is that of the
\* last step, and then the run does not claim to have succeeded.
ArtifactNamesJobs ==
  artifact # None =>
    LET unnamed == Jobs \ artifact.jobs
    IN  unnamed \subseteq {step} /\ (unnamed # {} => artifact.outcome \in {"failed", "partial"})

\* "Nothing was submitted" (README, exit 3 of the outcome table).
RefusalSubmitsNothing ==
  exit = 3 => \A i \in Steps : posts[i] = 0

\* The run ends, however long a job takes.
RunEnds == <>(pc = "ended")
=============================================================================
