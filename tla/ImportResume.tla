----------------------------- MODULE ImportResume -----------------------------
(***************************************************************************)
(* Waiting for a queued GeoServices import: the resume command and the     *)
(* client's request and wait_for_terminal of services/arcgis.py, against   *)
(* the life of the job on the server and a cancel command.                 *)
(*                                                                         *)
(* Time is a clock that may advance between any two steps: answers are     *)
(* slow, the process is not scheduled, a body trickles in after the        *)
(* deadline its request was capped by.  GETs fail and are retried with     *)
(* sleeps that the deadline caps.                                          *)
(*                                                                         *)
(* External: a job that reached a terminal status keeps it; an answer      *)
(* shows the job as it was when the server took the request.               *)
(***************************************************************************)
EXTENDS Naturals

CONSTANTS
  MaxWaits,      \* values of --max-wait; 0 asks for one snapshot
  PollInterval,  \* --poll-interval
  Backoff,       \* pause before an attempt is repeated
  Retries,       \* --retries
  MaxNow,        \* bound: the clock
  None

\* What the parser of the command line and the bound guarantee.
ConstantsOK ==
  /\ MaxWaits \subseteq Nat
  /\ PollInterval \in Nat \ {0}
  /\ Backoff \in Nat
  /\ Retries \in Nat
  /\ MaxNow \in Nat
  /\ \A w \in MaxWaits : w < MaxNow

VARIABLES
  job,       \* the job on the server: [status, fidelity]
  now,       \* the clock, from the start of the wait
  maxWait,   \* --max-wait of this command
  pc,        \* where the command stands
  tries,     \* attempts made of the current request
  reply,     \* the answer on its way to the command, or None
  latest,    \* the last job snapshot received, or None
  wake,      \* the end of the current sleep
  sentAt,    \* when the last request was sent (history)
  gotAt,     \* when latest was received (history)
  outcome,   \* the outcome, "timed-out" until another one is known
  exit       \* the exit code, or None

client == <<maxWait, pc, tries, reply, latest, wake, sentAt, gotAt, outcome, exit>>

vars == <<job, now, client>>

-----------------------------------------------------------------------------
Terminal == {"completed", "needs-review", "failed", "cancelled"}

\* "running" stands for the eight statuses of work in progress, "novel" for
\* one this contract version does not know.
Statuses == {"running", "novel"} \union Terminal

\* The fidelity verdict in the status: absent, full fidelity, or another one.
Fidelities == {"absent", "full", "other"}

Jobs == [status : Statuses, fidelity : Fidelities]

\* A job status, an error that is retried while attempts are left, and one that
\* is not.
Kinds == {"status", "busy", "broken"}

Replies == [kind : Kinds, job : Jobs]

Locations == {"poll", "attempt", "sent", "backoff", "received", "sleep", "emit",
              "ended"}

Outcomes == Terminal \union {"timed-out", "unknown-status"}

Timed == maxWait > 0

\* No time is left; a snapshot has no deadline.
Expired == Timed /\ now >= maxWait

\* The clock is not read again after the answer.
MutLate == FALSE

\* An answer came after the deadline.
Late == Timed /\ now > maxWait

\* --retries counted without the first attempt.
MutAttempts == Retries + 2

Attempts == Retries + 1

\* Sleeps ignore the deadline.
MutSleepEnd(t) == now + t

\* _sleep_with_deadline.
SleepEnd(t) == IF Timed /\ now + t > maxWait THEN (IF Expired THEN now ELSE maxWait) ELSE now + t

\* The sleep is over.  At the bound the clock stands for every later time.
Awake == now >= wake \/ now = MaxNow

Init ==
  /\ job = [status |-> "running", fidelity |-> "absent"]
  /\ now = 0
  /\ maxWait \in MaxWaits
  /\ pc = "poll"
  /\ tries = 0
  /\ reply = None
  /\ latest = None
  /\ wake = 0
  /\ sentAt = 0
  /\ gotAt = 0
  /\ outcome = "timed-out"
  /\ exit = None

-----------------------------------------------------------------------------
(* The server.                                                             *)

Advance(s, f) ==
  /\ job.status \notin Terminal
  /\ s # "running"
  /\ s # "completed" => f = "absent"
  /\ job' = [status |-> s, fidelity |-> f]
  /\ UNCHANGED <<now, client>>

\* The cancel command's one POST: a finished job stays as it is.
Cancel ==
  /\ job.status \notin Terminal
  /\ job' = [status |-> "cancelled", fidelity |-> "absent"]
  /\ UNCHANGED <<now, client>>

\* It answers with the job as it is now, or cannot answer.
Answer(k) ==
  /\ pc = "sent"
  /\ reply = None
  /\ reply' = [kind |-> k, job |-> job]
  /\ UNCHANGED <<job, now, maxWait, pc, tries, latest, wake, sentAt, gotAt, outcome, exit>>

Tick ==
  /\ now < MaxNow
  /\ now' = now + 1
  /\ UNCHANGED <<job, client>>

-----------------------------------------------------------------------------
(* The loop of wait_for_terminal.                                          *)

Poll ==
  /\ pc = "poll"
  /\ ~Expired
  /\ tries' = 0
  /\ pc' = "attempt"
  /\ UNCHANGED <<job, now, maxWait, reply, latest, wake, sentAt, gotAt, outcome, exit>>

\* The deadline passes in the loop or in a request: the receipt says so.
GiveUp ==
  /\ pc \in {"poll", "attempt"}
  /\ Expired
  /\ pc' = "emit"
  /\ UNCHANGED <<job, now, maxWait, tries, reply, latest, wake, sentAt, gotAt, outcome, exit>>

Send ==
  /\ pc = "attempt"
  /\ ~Expired
  /\ sentAt' = now
  /\ pc' = "sent"
  /\ UNCHANGED <<job, now, maxWait, tries, reply, latest, wake, gotAt, outcome, exit>>

\* The attempt is repeated after a pause.
PauseThenRetry ==
  /\ tries' = tries + 1
  /\ wake' = SleepEnd(Backoff)
  /\ pc' = "backoff"
  /\ UNCHANGED exit

\* ArcGisMigrationError: a usage error, and no receipt.
Abort ==
  /\ pc' = "ended"
  /\ exit' = 2
  /\ UNCHANGED <<tries, wake>>

\* A timeout or another failure of the transport, whatever the server did.
TransportFails ==
  /\ pc = "sent"
  /\ reply' = None
  /\ CASE Expired -> pc' = "emit" /\ UNCHANGED <<tries, wake, exit>>
       [] ~Expired /\ tries + 1 < Attempts -> PauseThenRetry
       [] ~Expired /\ tries + 1 = Attempts -> Abort
  /\ UNCHANGED <<job, now, maxWait, latest, sentAt, gotAt, outcome>>

\* 429, 502, 503 or 504, whatever the time; any other error is final.
ReceiveRefusal ==
  /\ pc = "sent"
  /\ reply # None
  /\ reply.kind \in {"busy", "broken"}
  /\ reply' = None
  /\ IF reply.kind = "busy" /\ tries + 1 < Attempts THEN PauseThenRetry ELSE Abort
  /\ UNCHANGED <<job, now, maxWait, latest, sentAt, gotAt, outcome>>

EndBackoff ==
  /\ pc = "backoff"
  /\ Awake
  /\ pc' = "attempt"
  /\ UNCHANGED <<job, now, maxWait, tries, reply, latest, wake, sentAt, gotAt, outcome, exit>>

\* The status is received; what it means is judged when the clock is read.
Receive ==
  /\ pc = "sent"
  /\ reply # None
  /\ reply.kind = "status"
  /\ latest' = reply.job
  /\ reply' = None
  /\ pc' = "received"
  /\ UNCHANGED <<job, now, maxWait, tries, wake, sentAt, gotAt, outcome, exit>>

\* The fidelity verdict is not looked at.
MutJudge(j) == j.status

\* A completed job whose fidelity verdict contradicts it is not a success.
Judge(j) ==
  CASE j.status = "completed" /\ j.fidelity = "other" -> "needs-review"
    [] j.status = "novel" -> "unknown-status"
    [] OTHER -> j.status

Stops(j) == Judge(j) # "running"

\* A snapshot waits like any other poll.
MutPollsOn == TRUE

\* A job in progress is polled again; a snapshot ends with what it saw.
PollsOn == Timed

\* The clock is read after the answer; a late one changes nothing.
JudgeLate ==
  /\ pc = "received"
  /\ Late
  /\ gotAt' = now
  /\ pc' = "emit"
  /\ UNCHANGED <<job, now, maxWait, tries, reply, latest, wake, sentAt, outcome, exit>>

JudgeTimely ==
  /\ pc = "received"
  /\ ~Late
  /\ gotAt' = now
  /\ IF Stops(latest)
       THEN outcome' = Judge(latest) /\ pc' = "emit" /\ UNCHANGED wake
       ELSE /\ UNCHANGED outcome
            /\ IF PollsOn THEN pc' = "sleep" /\ wake' = SleepEnd(PollInterval)
                          ELSE pc' = "emit" /\ UNCHANGED wake
  /\ UNCHANGED <<job, now, maxWait, tries, reply, latest, sentAt, exit>>

EndSleep ==
  /\ pc = "sleep"
  /\ Awake
  /\ pc' = "poll"
  /\ UNCHANGED <<job, now, maxWait, tries, reply, latest, wake, sentAt, gotAt, outcome, exit>>

\* A fidelity verdict that contradicts the status is forgiven.
MutSuccessful == outcome \in {"completed", "needs-review"}

Successful == outcome = "completed"

\* The receipt is printed and written, and the exit code says whether it is a
\* success.
Emit ==
  /\ pc = "emit"
  /\ pc' = "ended"
  /\ exit' = IF Successful THEN 0 ELSE 10
  /\ UNCHANGED <<job, now, maxWait, tries, reply, latest, wake, sentAt, gotAt, outcome>>

\* The receipt is unsafe or cannot be written.
EmitFails ==
  /\ pc = "emit"
  /\ pc' = "ended"
  /\ exit' = 2
  /\ UNCHANGED <<job, now, maxWait, tries, reply, latest, wake, sentAt, gotAt, outcome>>

Work ==
  \/ Poll \/ GiveUp \/ Send \/ ReceiveRefusal \/ EndBackoff
  \/ Receive \/ JudgeLate \/ JudgeTimely \/ EndSleep \/ Emit

Next ==
  \/ Work \/ TransportFails \/ EmitFails
  \/ \E s \in Statuses, f \in Fidelities : Advance(s, f)
  \/ Cancel \/ Tick
  \/ \E k \in Kinds : Answer(k)

Spec == Init /\ [][Next]_vars

Answered == TransportFails \/ \E k \in Kinds : Answer(k)

\* The command runs on, time passes, and a request gets an answer or fails.
FairSpec ==
  /\ Spec
  /\ WF_vars(Work) /\ WF_vars(Tick)
  /\ WF_vars(Answered)
-----------------------------------------------------------------------------
TypeOK ==
  /\ job \in Jobs
  /\ now \in 0 .. MaxNow
  /\ maxWait \in MaxWaits
  /\ pc \in Locations
  /\ tries \in 0 .. Retries
  /\ reply \in Replies \union {None}
  /\ latest \in Jobs \union {None}
  /\ wake \in Nat /\ sentAt \in Nat /\ gotAt \in Nat
  /\ outcome \in Outcomes
  /\ exit \in {0, 2, 10, None}

\* What the command concludes is what the server holds, whoever cancels or
\* completes the job meanwhile: a terminal outcome is the job's, and success
\* means a completed job whose fidelity verdict does not contradict it.
OutcomeIsTrue ==
  /\ outcome \in Terminal => outcome = Judge(job)
  /\ exit = 0 => job.status = "completed" /\ job.fidelity # "other"

\* "a late observation does not count as success" (README): every outcome but
\* a timeout was received within the budget, retries and delays included.
LateIsNotSuccess ==
  outcome # "timed-out" /\ Timed => gotAt <= maxWait

\* The deadline is shared by polls, retries and sleeps: no request is sent and
\* no sleep planned beyond it.
DeadlineShared ==
  Timed => sentAt < maxWait /\ (pc \in {"sleep", "backoff"} /\ wake > maxWait => wake <= now)

\* A snapshot or a bounded wait ends, whatever the server answers and however
\* long the job runs.
ResumeEnds == <>(pc = "ended")
=============================================================================
