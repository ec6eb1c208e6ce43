----------------------------- MODULE CommandParts -----------------------------
(* The commands that start jobs on a server and wait for them: a Python GP *)
(* run, the resume of a GeoServices import, a JavaScript content import    *)
(* and the GeoServer commands.  They share no code and no state: a         *)
(* behaviour is one of them, which `focus` chooses, and owns the variables *)
(* of its module; those of the others stand still.                         *)
EXTENDS GpRun

CONSTANTS
  Focuses,
  MaxWaits, PollInterval, Backoff, Retries, MaxNow,
  Wires, Counts,
  Commands, Servers, Ids, GeoRequests, GeoRuns

VARIABLES
  focus,
  now, maxWait, tries, latest, wake, sentAt, gotAt, outcome,
  wire, starts, manifest, layer, expired, staged, output, verdicts,
  jobs, mark, plan, cmd, flight

shared == <<job, inFlight, pc, reply, exit>>
gpOnly == <<request, file, posts, step, polls, seen, missing, dispatched, verdict, artifact>>
resumeOnly == <<now, maxWait, tries, latest, wake, sentAt, gotAt, outcome>>
contentOnly == <<wire, starts, manifest, layer, expired, staged, output, verdicts>>
geoOnly == <<jobs, mark, plan, cmd, flight>>
all == <<focus, shared, gpOnly, resumeOnly, contentOnly, geoOnly>>

Resume == INSTANCE ImportResume
Content == INSTANCE ContentImport
Geo == INSTANCE GeoServerImport WITH Requests <- GeoRequests, Runs <- GeoRuns

\* The variables of the modules that are not in focus stand still.
RestGp ==
  /\ request = 0 /\ file = 0 /\ posts = 0 /\ step = 0 /\ polls = 0
  /\ seen = 0 /\ missing = 0 /\ dispatched = 0 /\ verdict = 0 /\ artifact = 0

RestResume ==
  /\ now = 0 /\ maxWait = 0 /\ tries = 0 /\ latest = 0
  /\ wake = 0 /\ sentAt = 0 /\ gotAt = 0 /\ outcome = 0

RestContent ==
  /\ wire = 0 /\ starts = 0 /\ manifest = 0 /\ layer = 0
  /\ expired = 0 /\ staged = 0 /\ output = 0 /\ verdicts = 0

RestGeo == jobs = 0 /\ mark = 0 /\ plan = 0 /\ cmd = 0 /\ flight = 0

PartsInit ==
  /\ focus \in Focuses
  /\ \/ focus = "gp" /\ Init /\ RestResume /\ RestContent /\ RestGeo
     \/ focus = "resume" /\ Resume!Init /\ inFlight = 0 /\ RestGp /\ RestContent /\ RestGeo
     \/ focus = "content" /\ Content!Init /\ RestGp /\ RestResume /\ RestGeo
     \/ /\ focus = "geo" /\ Geo!Init /\ RestGp /\ RestResume /\ RestContent
        /\ job = 0 /\ inFlight = 0 /\ pc = 0 /\ reply = 0 /\ exit = 0

Gp(A) == focus = "gp" /\ A /\ UNCHANGED <<focus, resumeOnly, contentOnly, geoOnly>>

Res(A) == focus = "resume" /\ A /\ UNCHANGED <<focus, inFlight, gpOnly, contentOnly, geoOnly>>

Con(A) == focus = "content" /\ A /\ UNCHANGED <<focus, gpOnly, resumeOnly, geoOnly>>

GeoS(A) == focus = "geo" /\ A /\ UNCHANGED <<focus, shared, gpOnly, resumeOnly, contentOnly>>

PartsNext == Gp(Next) \/ Res(Resume!Next) \/ Con(Content!Next) \/ GeoS(Geo!Next)

PartsSpec == PartsInit /\ [][PartsNext]_all

\* The fairness of each module.
PartsFairness ==
  /\ WF_all(Gp(Work))
  /\ WF_all(Res(Resume!Work)) /\ WF_all(Res(Resume!Tick)) /\ WF_all(Res(Resume!Answered))
  /\ WF_all(Con(Content!Work)) /\ WF_all(Con(Content!Expire))
  /\ \A c \in Commands :
       WF_all(GeoS(Geo!Work(c))) /\ WF_all(GeoS(Geo!Answers(c))) /\ WF_all(GeoS(Geo!Late(c)))

FairParts == PartsSpec /\ PartsFairness
-----------------------------------------------------------------------------
\* Every variable of the part in focus has its type.
TypesOK ==
  /\ focus = "gp" => TypeOK
  /\ focus = "resume" => Resume!TypeOK
  /\ focus = "content" => Content!TypeOK
  /\ focus = "geo" => Geo!TypeOK

\* A Python GP run posts a step once, and only after those before it: see GpRun.
GpStepsOnceInOrder == focus = "gp" => StepsOnceInOrder

\* What a Python GP run says and names is so: its exit 0, its "nothing was
\* submitted" and the job ids of its artifact (see GpRun).
GpReportIsTrue == focus = "gp" => SuccessIsTrue /\ UnsubmittedIsTrue /\ ArtifactNamesJobs

\* What resume concludes is what the server holds: see ImportResume.
ResumeOutcomeIsTrue == focus = "resume" => Resume!OutcomeIsTrue

\* The deadline of resume bounds its requests and sleeps, and a late answer is
\* no success: see ImportResume.
ResumeKeepsDeadline == focus = "resume" => Resume!LateIsNotSuccess /\ Resume!DeadlineShared

\* The report of a content import and its reconciliation say what the server
\* holds: see ContentImport.
ContentVerdictIsTrue == focus = "content" => Content!CompletedIsTrue /\ Content!PassIsTrue

\* The report of a content import covers every layer: see ContentImport.
ContentReportComplete == focus = "content" => Content!ReportComplete

\* A GeoServer command makes at most one job, and names it: see GeoServerImport.
GeoJobIsOneAndNamed == focus = "geo" => Geo!OneJobPerCommand /\ Geo!ImportIsNamed

\* A GeoServer import was rehearsed on its server: see GeoServerImport.
GeoImportWasRehearsed == focus = "geo" => Geo!ImportWasRehearsed

\* Every command ends, whatever the server answers and however long a job
\* takes: a GP run, a resume, a content import, and the GeoServer commands.
EveryCommandEnds ==
  /\ <>(focus # "geo" => pc = "ended")
  /\ \A c \in Commands :
       focus = "geo" /\ cmd[c].pc # "idle" ~> focus = "geo" /\ cmd[c].pc = "ended"
=============================================================================
