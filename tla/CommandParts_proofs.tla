------------------------- MODULE CommandParts_proofs -------------------------
(***************************************************************************)
(* The safety properties of the commands that start jobs and wait for      *)
(* them.  Those of the Python GP run and of resume are proved here; those  *)
(* of the content import and of the GeoServer commands follow from the     *)
(* invariants of ContentImport_proofs and GeoServerImport_proofs, which a  *)
(* behaviour of CommandParts keeps for the part it is about.               *)
(*                                                                         *)
(* GP run, for a plan of any number of steps and any number of polls: at   *)
(* most the step at hand is unsettled.  The steps before it are done,      *)
(* those after it were never posted, and where the command stands says     *)
(* what is known of the step itself.                                       *)
(*                                                                         *)
(* Resume, for any waits, intervals, retries and bound of the clock: a job *)
(* that reached a terminal status keeps it, so an answer that shows one is *)
(* true however late it is read.                                           *)
(***************************************************************************)
EXTENDS CommandParts, TLAPS

-----------------------------------------------------------------------------
(* The GP run.                                                             *)


Codes == {0, 2, 3, 4, 10, 20, 40}

VerdictRecords == [outcome : Outcomes, exit : {0, 2, 3, 4, 10, 20}]

\* None is no exit code and no verdict.
GpSettings == None \notin Codes \union VerdictRecords

Waiting == {"submitted", "poll", "polling", "results"}

Untouched(i) == posts[i] = 0 /\ job[i] = "none" /\ i \notin inFlight

\* A step that was not posted left no trace, and one under way has none yet.
PostsAreTrue ==
  \A i \in Steps :
    /\ posts[i] \in {0, 1}
    /\ posts[i] = 0 => Untouched(i)
    /\ i \in inFlight => job[i] = "none"

Done(i) == job[i] \in {"ran", "successful"}

\* What lies behind the step at hand, and what lies before it.
BehindIsDone ==
  \A i \in 1 .. step - 1 : Done(i) /\ (job[i] = "successful" => i \in seen)

AheadIsUntouched ==
  \A i \in step + 1 .. N : Untouched(i)

OnlyLastMissing ==
  missing \subseteq {step} /\ (pc \notin {"emit", "ended"} => missing = {})

\* What is known where the command stands.
PlaceIsTrue ==
  /\ pc = "start" => step = 1
  /\ pc \in {"start", "submit"} => Untouched(step) /\ dispatched = step - 1
  /\ pc \in Waiting => dispatched = step
  /\ pc \in {"poll", "polling", "results"} => step \in seen /\ job[step] \in {"running"} \union Finished
  /\ pc = "poll" => PollsLeft
  /\ pc = "results" => job[step] = "successful"
  /\ pc = "emit" => verdict \in VerdictRecords
  /\ pc \notin {"emit", "ended"} => verdict = None
  /\ pc # "ended" => artifact = None /\ exit = None

\* A job that has finished stays as it is, so an answer stays true.
ReplyIsTrue ==
  /\ pc \notin {"submitted", "polling", "ended"} => reply = NoReply
  /\ reply.kind = "job" =>
       /\ reply.status \in {"running"} \union Finished
       /\ job[step] \in {"running"} \union Finished
       /\ reply.status # "running" => job[step] = reply.status
  /\ reply.kind = "result" => job[step] = "ran"
  /\ reply.kind = "refused" => job[step] = "none" /\ step \notin inFlight

Submitted0 == inFlight = {} /\ \A i \in Steps : job[i] = "none"

\* The verdict of a run that has ended.
VerdictIsTrue ==
  verdict # None =>
    /\ dispatched = 0 => Submitted0
    /\ step \notin seen /\ (step \in inFlight \/ step \in Jobs) =>
         verdict.outcome \in {"failed", "partial"}
    /\ verdict.exit = 0 /\ ~request.dryRun =>
         missing = {} /\ \A i \in Steps : Done(i)

\* The artifact and the exit code repeat it.
EndIsTrue ==
  /\ artifact # None => verdict # None /\ artifact = Document
  /\ exit = 0 => verdict # None /\ verdict.exit = 0

GpIInv ==
  /\ TypeOK
  /\ PostsAreTrue
  /\ BehindIsDone
  /\ AheadIsUntouched
  /\ OnlyLastMissing
  /\ PlaceIsTrue
  /\ ReplyIsTrue
  /\ VerdictIsTrue
  /\ EndIsTrue
-----------------------------------------------------------------------------
(* The steps of the command.  Each leaves the server alone.                *)

\* Nothing but the file, the place and the exit code changes when a command
\* ends without a word.
LEMMA QuitsKeep ==
  ASSUME GpSettings, GpIInv,
         RefuseUnacknowledged \/ RefuseArguments \/ EmitFails \/ Interrupt
  PROVE  GpIInv'
<1>1. /\ UNCHANGED <<request, file, job, inFlight, posts, step, polls, reply, seen, missing>>
      /\ UNCHANGED <<dispatched, verdict, artifact>>
      /\ pc # "ended" /\ pc' = "ended"
      /\ exit' \in {2, 3, 40, exit}
  BY DEF RefuseUnacknowledged, RefuseArguments, Acknowledged, EmitFails, Interrupt, Quit, run,
         server
<1>2. TypeOK'
  BY <1>1 DEF GpIInv, TypeOK, Locations
<1>3. PostsAreTrue' /\ BehindIsDone' /\ AheadIsUntouched' /\ OnlyLastMissing'
  BY <1>1
  DEF GpIInv, PostsAreTrue, BehindIsDone, AheadIsUntouched, OnlyLastMissing, Untouched, Done
<1>4. PlaceIsTrue' /\ ReplyIsTrue'
  BY <1>1 DEF GpIInv, PlaceIsTrue, ReplyIsTrue, Waiting
<1>5. VerdictIsTrue' /\ EndIsTrue'
  BY <1>1
  DEF GpIInv, PlaceIsTrue, VerdictIsTrue, EndIsTrue, Submitted0, Jobs, Document, Done, GpSettings,
      Codes
<1> QED
  BY <1>2, <1>3, <1>4, <1>5 DEF GpIInv

LEMMA StartsKeep ==
  ASSUME GpSettings, GpIInv, RefusePlan \/ DryRun \/ RefuseUnready \/ StartSteps
  PROVE  GpIInv'
<1>1. /\ UNCHANGED <<request, file, job, inFlight, posts, step, polls, reply, seen, missing>>
      /\ UNCHANGED <<dispatched, artifact, exit>>
      /\ pc = "start"
  BY DEF RefusePlan, DryRun, RefuseUnready, StartSteps, Executes, Admitted, Acknowledged,
         Conclude, run, server
<1>2. \/ pc' = "submit" /\ verdict' = verdict
      \/ /\ pc' = "emit" /\ verdict' \in VerdictRecords
         /\ verdict'.exit = 0 => request.dryRun
  <2>1. request.refusal \in {0, 2, 3, 10}
    BY DEF GpIInv, TypeOK, Requests, Refusals
  <2> QED
    BY <2>1
    DEF RefusePlan, DryRun, RefuseUnready, StartSteps, Executes, Admitted, Acknowledged, Conclude,
        Verdict, VerdictRecords, Outcomes
<1>3. step = 1 /\ \A i \in Steps : Untouched(i)
  BY <1>1 DEF GpIInv, TypeOK, PlaceIsTrue, AheadIsUntouched, Steps
<1>4. TypeOK'
  BY <1>1, <1>2 DEF GpIInv, TypeOK, Locations, VerdictRecords
<1>5. PostsAreTrue' /\ BehindIsDone' /\ AheadIsUntouched' /\ OnlyLastMissing'
  BY <1>1, <1>2
  DEF GpIInv, PostsAreTrue, BehindIsDone, AheadIsUntouched, OnlyLastMissing, Untouched, Done
<1>6. PlaceIsTrue' /\ ReplyIsTrue'
  BY <1>1, <1>2 DEF GpIInv, PlaceIsTrue, ReplyIsTrue, Waiting, Untouched
<1>7. Submitted0 /\ step \notin inFlight /\ step \notin Jobs
  BY <1>3 DEF GpIInv, TypeOK, Untouched, Submitted0, Jobs, Finished
<1>8. VerdictIsTrue' /\ EndIsTrue'
  BY <1>1, <1>2, <1>7
  DEF GpIInv, PlaceIsTrue, VerdictIsTrue, EndIsTrue, Submitted0, Jobs, GpSettings, Codes
<1> QED
  BY <1>4, <1>5, <1>6, <1>8 DEF GpIInv

\* The step at hand is posted for the first time.
LEMMA SubmitKeeps ==
  ASSUME GpSettings, GpIInv, Submit
  PROVE  GpIInv'
<1>1. /\ UNCHANGED <<request, file, job, step, reply, seen, missing, verdict, artifact, exit>>
      /\ pc = "submit" /\ pc' = "submitted"
      /\ dispatched' = dispatched + 1
      /\ posts' = [posts EXCEPT ![step] = @ + 1]
      /\ inFlight' = inFlight \union {step}
      /\ polls' = 0
  BY DEF Submit
<1>2. /\ step \in Steps /\ dispatched = step - 1 /\ posts[step] = 0 /\ job[step] = "none"
      /\ step \notin inFlight /\ reply = NoReply
  BY <1>1 DEF GpIInv, TypeOK, PlaceIsTrue, ReplyIsTrue, Untouched
<1>3. \A i \in Steps : posts'[i] = IF i = step THEN 1 ELSE posts[i]
  BY <1>1, <1>2 DEF GpIInv, TypeOK
<1>4. TypeOK'
  <2>1. dispatched' \in 0 .. N /\ polls' \in 0 .. MaxPolls
    BY <1>1, <1>2, GpRunAssumption DEF GpIInv, TypeOK, Steps
  <2>2. posts' \in [Steps -> Nat]
    BY <1>1 DEF GpIInv, TypeOK
  <2> QED
    BY <1>1, <2>1, <2>2 DEF GpIInv, TypeOK, Locations
<1>5. PostsAreTrue'
  BY <1>1, <1>2, <1>3 DEF GpIInv, PostsAreTrue, Untouched
<1>6. AheadIsUntouched' /\ BehindIsDone' /\ OnlyLastMissing'
  BY <1>1, <1>2, <1>3, GpRunAssumption
  DEF GpIInv, AheadIsUntouched, BehindIsDone, OnlyLastMissing, Untouched, Done, Steps
<1>7. PlaceIsTrue' /\ ReplyIsTrue'
  BY <1>1, <1>2 DEF GpIInv, TypeOK, PlaceIsTrue, ReplyIsTrue, Waiting, NoReply, Steps
<1>8. VerdictIsTrue' /\ EndIsTrue'
  BY <1>1 DEF GpIInv, PlaceIsTrue, VerdictIsTrue, EndIsTrue, GpSettings, Codes
<1> QED
  BY <1>4, <1>5, <1>6, <1>7, <1>8 DEF GpIInv

\* The run ends while it waits for the step at hand.
LEMMA ConcludesKeep ==
  ASSUME GpSettings, GpIInv, pc \in Waiting, pc' = "emit", verdict' \in VerdictRecords,
         UNCHANGED <<request, file, job, inFlight, posts, step, polls, artifact, exit>>,
         reply' = NoReply,
         missing' \subseteq {step},
         seen' \in {seen, seen \union {step}},
         dispatched' = dispatched
           \/ (dispatched' = dispatched - 1 /\ job[step] = "none" /\ step \notin inFlight),
         verdict'.exit = 0 => missing' = {} /\ Done(step) /\ step = N,
         \/ verdict'.outcome \in {"failed", "partial"}
         \/ step \in seen'
         \/ step \notin inFlight /\ step \notin Jobs
  PROVE  GpIInv'
<1>1. /\ step \in Steps /\ dispatched = step /\ artifact = None /\ exit = None /\ N \in Nat
  BY GpRunAssumption DEF GpIInv, TypeOK, PlaceIsTrue, Waiting
<1>2. TypeOK'
  <2>1. dispatched' \in 0 .. N
    BY <1>1 DEF Steps
  <2>2. seen' \subseteq Steps /\ missing' \subseteq Steps
    BY <1>1 DEF GpIInv, TypeOK
  <2>3. reply' \in Replies
    BY DEF NoReply, Replies, Kinds
  <2> QED
    BY <2>1, <2>2, <2>3 DEF GpIInv, TypeOK, Locations, VerdictRecords
<1>3. PostsAreTrue' /\ BehindIsDone' /\ AheadIsUntouched' /\ OnlyLastMissing'
  BY DEF GpIInv, PostsAreTrue, BehindIsDone, AheadIsUntouched, OnlyLastMissing, Untouched, Done
<1>4. PlaceIsTrue'
  BY <1>1 DEF PlaceIsTrue, Waiting
<1>5. ReplyIsTrue'
  BY DEF ReplyIsTrue, NoReply
<1>6. (dispatched = 0 => Submitted0)'
  <2>1. SUFFICES ASSUME dispatched' = 0
                 PROVE  Submitted0'
    OBVIOUS
  <2>2. step = 1 /\ job[step] = "none" /\ step \notin inFlight
    BY <1>1, <2>1 DEF Steps
  <2>3. \A i \in Steps : job[i] = "none" /\ i \notin inFlight
    BY <1>1, <2>2 DEF GpIInv, AheadIsUntouched, Untouched, Steps
  <2> QED
    BY <2>3 DEF GpIInv, TypeOK, Submitted0
<1>7. (step \notin seen /\ (step \in inFlight \/ step \in Jobs) =>
         verdict.outcome \in {"failed", "partial"})'
  BY DEF Jobs
<1>8. (verdict.exit = 0 /\ ~request.dryRun => missing = {} /\ \A i \in Steps : Done(i))'
  <2>1. verdict'.exit = 0 => \A i \in Steps : Done(i)
    BY <1>1 DEF GpIInv, BehindIsDone, Steps
  <2> QED
    BY <2>1 DEF Done
<1>9. VerdictIsTrue'
  BY <1>6, <1>7, <1>8 DEF VerdictIsTrue
<1>10. EndIsTrue'
  BY <1>1 DEF EndIsTrue, GpSettings, Codes
<1> QED
  BY <1>2, <1>3, <1>4, <1>5, <1>9, <1>10 DEF GpIInv

\* The submission ends without a job: it failed, was refused or says nothing.
LEMMA SubmissionsKeep ==
  ASSUME GpSettings, GpIInv, SubmissionRefused \/ SubmissionFails \/ NotTerminal
  PROVE  GpIInv'
<1>1. /\ UNCHANGED <<request, file, job, inFlight, posts, step, polls, seen, missing>>
      /\ UNCHANGED <<artifact, exit>>
      /\ pc = "submitted" /\ pc' = "emit" /\ reply' = NoReply
  BY DEF SubmissionRefused, SubmissionFails, NotTerminal, ConcludeUnnamed, Conclude, server
<1>2. missing = {} /\ pc \in Waiting
  BY <1>1 DEF GpIInv, OnlyLastMissing, Waiting
<1>3. CASE SubmissionRefused
  <2>1. /\ dispatched' = dispatched - 1 /\ reply.kind = "refused"
        /\ verdict' = Verdict("unavailable", 4)
    BY <1>3 DEF SubmissionRefused, ConcludeUnnamed, Conclude
  <2>2. job[step] = "none" /\ step \notin inFlight /\ step \notin Jobs
    BY <2>1 DEF GpIInv, ReplyIsTrue, Jobs, Finished
  <2>3. verdict' \in VerdictRecords /\ verdict'.exit # 0
    BY <2>1 DEF Verdict, VerdictRecords, Outcomes
  <2> QED
    BY <1>1, <1>2, <2>1, <2>2, <2>3, ConcludesKeep
<1>4. CASE SubmissionFails \/ NotTerminal
  <2>1. /\ dispatched' = dispatched
        /\ verdict' \in {Verdict("failed", 20), Verdict("partial", 10)}
    BY <1>4 DEF SubmissionFails, NotTerminal, ConcludeUnnamed, Conclude
  <2>2. /\ verdict' \in VerdictRecords /\ verdict'.exit # 0
        /\ verdict'.outcome \in {"failed", "partial"}
    BY <2>1 DEF Verdict, VerdictRecords, Outcomes
  <2> QED
    BY <1>1, <1>2, <2>1, <2>2, ConcludesKeep
<1> QED
  BY <1>3, <1>4

\* A run that ends with a failure names the job at hand.
LEMMA NamedKeeps ==
  ASSUME GpSettings, GpIInv, pc \in Waiting, NEW how \in Outcomes, NEW code \in {10, 20},
         ConcludeNamed(how, code)
  PROVE  GpIInv'
<1>1. /\ UNCHANGED <<request, file, job, inFlight, posts, step, polls, missing, dispatched>>
      /\ UNCHANGED <<artifact, exit>>
      /\ pc' = "emit" /\ reply' = NoReply /\ seen' = seen \union {step}
      /\ verdict' = Verdict(how, code)
  BY DEF ConcludeNamed, Conclude, server
<1>2. missing = {}
  BY DEF GpIInv, OnlyLastMissing, Waiting
<1>3. verdict' \in VerdictRecords /\ verdict'.exit # 0
  BY <1>1 DEF Verdict, VerdictRecords
<1> QED
  BY <1>1, <1>2, <1>3, ConcludesKeep

\* The loop goes on with a job that the run can name.
LEMMA GoesOn ==
  ASSUME GpSettings, GpIInv, pc \in {"submitted", "polling"},
         UNCHANGED <<request, file, job, inFlight, posts, step, polls, missing, dispatched>>,
         UNCHANGED <<verdict, artifact, exit>>,
         reply' = NoReply, seen' = seen \union {step},
         job[step] \in {"running"} \union Finished,
         \/ pc' = "poll" /\ PollsLeft
         \/ pc' = "results" /\ job[step] = "successful"
  PROVE  GpIInv'
<1>1. TypeOK'
  BY DEF GpIInv, TypeOK, Locations, NoReply, Replies, Kinds
<1>2. PostsAreTrue' /\ BehindIsDone' /\ AheadIsUntouched' /\ OnlyLastMissing'
  BY DEF GpIInv, PostsAreTrue, BehindIsDone, AheadIsUntouched, OnlyLastMissing, Untouched, Done
<1>3. step \in Steps /\ verdict = None /\ artifact = None /\ exit = None /\ dispatched = step
  BY DEF GpIInv, TypeOK, PlaceIsTrue, Waiting
<1>4. PlaceIsTrue'
  BY <1>3 DEF PlaceIsTrue, Waiting, PollsLeft
<1>5. ReplyIsTrue'
  BY DEF ReplyIsTrue, NoReply
<1>6. VerdictIsTrue' /\ EndIsTrue'
  BY <1>3 DEF VerdictIsTrue, EndIsTrue, GpSettings, Codes
<1> QED
  BY <1>1, <1>2, <1>4, <1>5, <1>6 DEF GpIInv

LEMMA FollowKeeps ==
  ASSUME GpSettings, GpIInv, Submitted \/ Polled
  PROVE  GpIInv'
<1>1. pc \in {"submitted", "polling"} /\ reply.kind = "job" /\ Follow(reply.status)
  BY DEF Submitted, Polled
<1>2. /\ reply.status \in {"running", "successful", "failed", "dismissed"}
      /\ job[step] \in {"running"} \union Finished
      /\ reply.status # "running" => job[step] = reply.status
  BY <1>1 DEF GpIInv, ReplyIsTrue, Finished
<1>3. pc \in Waiting
  BY <1>1 DEF Waiting
<1>4. CASE reply.status = "successful"
  BY <1>1, <1>2, <1>4, GoesOn DEF Follow, server
<1>5. CASE reply.status = "failed"
  <2>1. ConcludeNamed("failed", 20) /\ "failed" \in Outcomes
    BY <1>1, <1>5 DEF Follow, Outcomes
  <2> QED
    BY <1>3, <2>1, NamedKeeps
<1>6. CASE reply.status = "dismissed"
  <2>1. ConcludeNamed("cancelled", 10) /\ "cancelled" \in Outcomes
    BY <1>1, <1>6 DEF Follow, Outcomes
  <2> QED
    BY <1>3, <2>1, NamedKeeps
<1>7. CASE reply.status = "running" /\ ~PollsLeft
  <2>1. ConcludeNamed("timed-out", 10) /\ "timed-out" \in Outcomes
    BY <1>1, <1>7 DEF Follow, Outcomes
  <2> QED
    BY <1>3, <2>1, NamedKeeps
<1>8. CASE reply.status = "running" /\ PollsLeft
  BY <1>1, <1>2, <1>8, GoesOn DEF Follow, server
<1> QED
  BY <1>2, <1>4, <1>5, <1>6, <1>7, <1>8

LEMMA FailuresKeep ==
  ASSUME GpSettings, GpIInv, PollFails \/ ResultsFail
  PROVE  GpIInv'
<1>1. pc \in Waiting /\ ConcludeNamed("failed", 20) /\ "failed" \in Outcomes
  BY DEF PollFails, ResultsFail, Waiting, Outcomes
<1> QED
  BY <1>1, NamedKeeps

LEMMA PollKeeps ==
  ASSUME GpSettings, GpIInv, Poll
  PROVE  GpIInv'
<1>1. /\ UNCHANGED <<request, file, job, inFlight, posts, step, reply, seen, missing, dispatched>>
      /\ UNCHANGED <<verdict, artifact, exit>>
      /\ pc = "poll" /\ pc' = "polling" /\ polls' = polls + 1
  BY DEF Poll, server, CountPoll
<1>2. TypeOK'
  <2>1. polls' \in 0 .. MaxPolls
    BY <1>1, GpRunAssumption DEF GpIInv, TypeOK, PlaceIsTrue, PollsLeft
  <2> QED
    BY <1>1, <2>1 DEF GpIInv, TypeOK, Locations
<1>3. PostsAreTrue' /\ BehindIsDone' /\ AheadIsUntouched' /\ OnlyLastMissing'
  BY <1>1
  DEF GpIInv, PostsAreTrue, BehindIsDone, AheadIsUntouched, OnlyLastMissing, Untouched, Done
<1>4. PlaceIsTrue' /\ ReplyIsTrue'
  BY <1>1 DEF GpIInv, PlaceIsTrue, ReplyIsTrue, Waiting, NoReply
<1>5. VerdictIsTrue' /\ EndIsTrue'
  BY <1>1 DEF GpIInv, PlaceIsTrue, VerdictIsTrue, EndIsTrue, GpSettings, Codes
<1> QED
  BY <1>2, <1>3, <1>4, <1>5 DEF GpIInv

\* The step at hand is done: the next one is at hand, or the run ends.
LEMMA VerifyKeeps ==
  ASSUME GpSettings, GpIInv, NEW found \in BOOLEAN, ResultsArrive(found) \/ RanAtOnce(found)
  PROVE  GpIInv'
<1>1. /\ UNCHANGED <<polls, seen, dispatched>>
      /\ Verify(found)
      /\ reply' = NoReply
      /\ pc \in Waiting
      /\ Done(step)
      /\ step \in seen \/ job[step] = "ran"
  <2>1. CASE ResultsArrive(found)
    BY <2>1 DEF GpIInv, PlaceIsTrue, ReplyIsTrue, ResultsArrive, Waiting, Done
  <2>2. CASE RanAtOnce(found)
    BY <2>2 DEF GpIInv, ReplyIsTrue, RanAtOnce, Waiting, Done
  <2> QED
    BY <2>1, <2>2
<1>2. /\ step \in Steps /\ missing = {} /\ dispatched = step /\ N \in Nat
      /\ verdict = None /\ artifact = None /\ exit = None
  BY <1>1, GpRunAssumption DEF GpIInv, TypeOK, OnlyLastMissing, PlaceIsTrue, Waiting
<1>3. step \notin inFlight /\ (step \in seen \/ step \notin Jobs)
  BY <1>1, <1>2 DEF GpIInv, PostsAreTrue, Done, Jobs, Finished
<1>4. missing' = IF found THEN {} ELSE {step}
  BY <1>1, <1>2 DEF Verify
<1>5. CASE found /\ step < N
  <2>1. /\ step' = step + 1 /\ pc' = "submit" /\ missing' = {}
        /\ UNCHANGED <<request, file, job, inFlight, posts, verdict, artifact, exit>>
    BY <1>1, <1>4, <1>5 DEF Verify, OutputsVerified, server
  <2>2. step' \in Steps
    BY <1>2, <1>5, <2>1 DEF Steps
  <2>3. TypeOK'
    BY <1>1, <2>1, <2>2 DEF GpIInv, TypeOK, Locations, NoReply, Replies, Kinds
  <2>4. PostsAreTrue'
    BY <2>1 DEF GpIInv, PostsAreTrue, Untouched
  <2>5. BehindIsDone'
    BY <1>1, <1>2, <2>1 DEF GpIInv, BehindIsDone, Done, Steps
  <2>6. AheadIsUntouched' /\ Untouched(step)'
    BY <1>2, <1>5, <2>1 DEF GpIInv, AheadIsUntouched, Untouched, Steps
  <2>7. OnlyLastMissing'
    BY <2>1 DEF OnlyLastMissing
  <2>8. PlaceIsTrue' /\ ReplyIsTrue'
    BY <1>1, <1>2, <2>1, <2>6 DEF PlaceIsTrue, ReplyIsTrue, Waiting, NoReply, Steps
  <2>9. VerdictIsTrue' /\ EndIsTrue'
    BY <1>2, <2>1 DEF VerdictIsTrue, EndIsTrue, GpSettings, Codes
  <2> QED
    BY <2>3, <2>4, <2>5, <2>6, <2>7, <2>8, <2>9 DEF GpIInv
<1>6. CASE ~(found /\ step < N)
  <2>1. /\ step' = step /\ pc' = "emit" /\ missing' \subseteq {step}
        /\ UNCHANGED <<request, file, job, inFlight, posts, artifact, exit>>
        /\ verdict' = IF found THEN Verdict("succeeded", 0) ELSE Verdict("partial", 10)
    BY <1>1, <1>4, <1>6 DEF Verify, OutputsVerified, Conclude, server
  <2>2. verdict' \in VerdictRecords
    BY <2>1 DEF Verdict, VerdictRecords, Outcomes
  <2>3. verdict'.exit = 0 => missing' = {} /\ Done(step) /\ step = N
    <3>1. verdict'.exit = 0 => found
      BY <2>1 DEF Verdict
    <3> QED
      BY <1>1, <1>2, <1>4, <1>6, <3>1 DEF Steps
  <2> QED
    BY <1>1, <1>3, <2>1, <2>2, <2>3, ConcludesKeep
<1> QED
  BY <1>5, <1>6

\* The artifact repeats the verdict.
LEMMA EmitKeeps ==
  ASSUME GpSettings, GpIInv, Emit
  PROVE  GpIInv'
<1>1. /\ UNCHANGED <<request, job, inFlight, posts, step, polls, reply, seen, missing, dispatched>>
      /\ UNCHANGED verdict
      /\ pc = "emit" /\ pc' = "ended"
      /\ file' \in {file, "artifact"}
      /\ artifact' = Document
      /\ exit' = verdict.exit
  BY DEF Emit, run, server
<1>2. verdict \in VerdictRecords /\ verdict # None
  BY <1>1 DEF GpIInv, PlaceIsTrue, GpSettings
<1>3. TypeOK'
  <2>1. artifact' \in [outcome : Outcomes, submitted : BOOLEAN, jobs : SUBSET Steps]
    BY <1>1, <1>2 DEF GpIInv, TypeOK, VerdictRecords, Document
  <2>2. exit' \in {0, 2, 3, 4, 10, 20}
    BY <1>1, <1>2 DEF VerdictRecords
  <2> QED
    BY <1>1, <2>1, <2>2 DEF GpIInv, TypeOK, Locations
<1>4. PostsAreTrue' /\ BehindIsDone' /\ AheadIsUntouched' /\ OnlyLastMissing'
  BY <1>1
  DEF GpIInv, PostsAreTrue, BehindIsDone, AheadIsUntouched, OnlyLastMissing, Untouched, Done
<1>5. PlaceIsTrue' /\ ReplyIsTrue'
  BY <1>1 DEF GpIInv, PlaceIsTrue, ReplyIsTrue, Waiting
<1>6. VerdictIsTrue'
  BY <1>1 DEF GpIInv, VerdictIsTrue, Submitted0, Jobs, Done
<1>7. EndIsTrue'
  BY <1>1, <1>2 DEF EndIsTrue, Document
<1> QED
  BY <1>3, <1>4, <1>5, <1>6, <1>7 DEF GpIInv
-----------------------------------------------------------------------------
(* The steps of the server, and of another command.                        *)

\* Only the step at hand has a POST under way or a job that runs.
LEMMA OnlyAtHand ==
  ASSUME GpIInv, NEW i \in Steps, i \in inFlight \/ job[i] = "running"
  PROVE  i = step /\ posts[i] = 1 /\ pc \notin {"start", "submit", "results"}
<1>1. step \in 1 .. N /\ N \in Nat /\ i \in 1 .. N
  BY GpRunAssumption DEF GpIInv, TypeOK, Steps
<1>2. posts[i] = 1
  BY DEF GpIInv, PostsAreTrue, Untouched
<1>3. i \in inFlight => job[i] = "none"
  BY DEF GpIInv, PostsAreTrue
<1>4. ~Done(i)
  BY <1>3 DEF Done
<1>5. i = step
  BY <1>1, <1>2, <1>4 DEF GpIInv, BehindIsDone, AheadIsUntouched, Untouched
<1>6. pc \notin {"start", "submit", "results"}
  BY <1>3, <1>5 DEF GpIInv, PlaceIsTrue, Untouched
<1> QED
  BY <1>2, <1>5, <1>6

\* A step of the server changes the job of the step at hand, in a way that the
\* answers under way allow.
LEMMA ServersKeep ==
  ASSUME GpSettings, GpIInv, UNCHANGED client,
         step \in inFlight \/ job[step] = "running",
         inFlight' \in {inFlight, inFlight \ {step}},
         NEW state \in JobStates,
         job' = [job EXCEPT ![step] = state],
         step \in inFlight' => state = "none",
         job[step] = "running" => state \in Finished,
         reply' \in Replies,
         ReplyIsTrue'
  PROVE  GpIInv'
<1>1. /\ UNCHANGED <<request, file, posts, pc, step, polls, seen, missing, dispatched>>
      /\ UNCHANGED <<verdict, artifact, exit>>
  BY DEF client
<1>2. step \in Steps /\ posts[step] = 1 /\ pc \notin {"start", "submit", "results"}
  BY OnlyAtHand DEF GpIInv, TypeOK
<1>3. step \in inFlight => job[step] = "none"
  BY <1>2 DEF GpIInv, PostsAreTrue
<1>4. /\ job'[step] = state
      /\ \A i \in Steps \ {step} : job'[i] = job[i]
  BY <1>2 DEF GpIInv, TypeOK
<1>5. TypeOK'
  BY <1>1 DEF GpIInv, TypeOK
<1>6. PostsAreTrue'
  BY <1>1, <1>2, <1>4 DEF GpIInv, PostsAreTrue, Untouched
<1>7. BehindIsDone' /\ AheadIsUntouched' /\ OnlyLastMissing'
  BY <1>1, <1>2, <1>4, GpRunAssumption
  DEF GpIInv, BehindIsDone, AheadIsUntouched, OnlyLastMissing, Untouched, Done, Steps
<1>8. PlaceIsTrue'
  BY <1>1, <1>2, <1>3, <1>4 DEF GpIInv, PlaceIsTrue, Waiting, PollsLeft, Finished
<1>9. VerdictIsTrue'
  <2>1. SUFFICES ASSUME verdict # None
                 PROVE  VerdictIsTrue'
    BY <1>1 DEF VerdictIsTrue
  <2>2. dispatched # 0 /\ ~(verdict.exit = 0 /\ ~request.dryRun)
    BY <1>2, <1>3, <2>1 DEF GpIInv, VerdictIsTrue, Submitted0, Done
  <2>3. step \in inFlight \/ step \in Jobs
    BY <1>2 DEF Jobs
  <2> QED
    BY <1>1, <2>1, <2>2, <2>3 DEF GpIInv, VerdictIsTrue
<1>10. EndIsTrue'
  BY <1>1 DEF GpIInv, EndIsTrue, Document
<1> QED
  BY <1>5, <1>6, <1>7, <1>8, <1>9, <1>10 DEF GpIInv

LEMMA ServerKeeps ==
  ASSUME GpSettings, GpIInv, Server
  PROVE  GpIInv'
<1> USE DEF GpIInv
<1>1. CASE \E i \in Steps, s \in {"ran", "running"} : Process(i, s)
  <2>1. PICK i \in Steps, s \in {"ran", "running"} : Process(i, s)
    BY <1>1
  <2>2. /\ i \in inFlight /\ inFlight' = inFlight \ {i} /\ job' = [job EXCEPT ![i] = s]
        /\ reply' = reply /\ UNCHANGED client /\ step' = step
    BY <2>1 DEF Process, client
  <2>3. i = step /\ job[i] = "none"
    BY <2>2, OnlyAtHand DEF PostsAreTrue
  <2>4. s \in JobStates /\ pc' = pc
    BY <2>2 DEF JobStates, client
  <2>5. ReplyIsTrue'
    BY <2>2, <2>3, <2>4 DEF ReplyIsTrue, Finished
  <2> QED
    BY <2>2, <2>3, <2>4, <2>5, ServersKeep DEF TypeOK
<1>2. CASE \E i \in Steps, s \in Finished : FinishJob(i, s)
  <2>1. PICK i \in Steps, s \in Finished : FinishJob(i, s)
    BY <1>2
  <2>2. /\ job[i] = "running" /\ inFlight' = inFlight /\ job' = [job EXCEPT ![i] = s]
        /\ reply' = reply /\ UNCHANGED client /\ step' = step
    BY <2>1 DEF FinishJob, client
  <2>3. i = step /\ i \notin inFlight
    BY <2>2, OnlyAtHand DEF PostsAreTrue
  <2>4. s \in JobStates /\ pc' = pc
    BY <2>2 DEF JobStates, client
  <2>5. ReplyIsTrue'
    BY <2>2, <2>3, <2>4 DEF TypeOK, ReplyIsTrue, Finished
  <2> QED
    BY <2>2, <2>3, <2>4, <2>5, ServersKeep DEF TypeOK
<1>3. CASE RefuseCredential
  <2>1. /\ step \in inFlight /\ inFlight' = inFlight \ {step} /\ job' = job
        /\ reply' = [kind |-> "refused", status |-> "none"] /\ UNCHANGED client
        /\ step' = step /\ pc = "submitted" /\ pc' = pc
    BY <1>3 DEF RefuseCredential, client
  <2>2. job[step] = "none" /\ "none" \in JobStates /\ step \in Steps
    BY <2>1 DEF TypeOK, PostsAreTrue, JobStates
  <2>3. job' = [job EXCEPT ![step] = "none"]
    BY <2>1, <2>2 DEF TypeOK
  <2>4. reply' \in Replies /\ ReplyIsTrue'
    BY <2>1, <2>2 DEF Replies, Kinds, ReplyIsTrue
  <2> QED
    BY <2>1, <2>2, <2>3, <2>4, ServersKeep
<1>4. CASE AnswerJob \/ \E kind \in {"result", "no-status"} : AnswerBody(kind)
  <2>1. /\ UNCHANGED <<job, inFlight, request, file, posts, pc, step, polls, seen, missing>>
        /\ UNCHANGED <<dispatched, verdict, artifact, exit>>
        /\ pc \in {"submitted", "polling"}
    BY <1>4 DEF AnswerJob, AnswerBody, server, client
  <2>2. reply' \in Replies /\ ReplyIsTrue'
    <3>1. CASE AnswerJob
      BY <2>1, <3>1 DEF AnswerJob, Replies, Kinds, Finished, ReplyIsTrue
    <3>2. CASE \E kind \in {"result", "no-status"} : AnswerBody(kind)
      BY <2>1, <3>2 DEF AnswerBody, Replies, Kinds, ReplyIsTrue
    <3> QED
      BY <1>4, <3>1, <3>2
  <2>3. TypeOK' /\ PostsAreTrue' /\ BehindIsDone' /\ AheadIsUntouched' /\ OnlyLastMissing'
    BY <2>1, <2>2
    DEF TypeOK, PostsAreTrue, BehindIsDone, AheadIsUntouched, OnlyLastMissing, Untouched, Done
  <2>4. PlaceIsTrue' /\ VerdictIsTrue' /\ EndIsTrue'
    BY <2>1 DEF PlaceIsTrue, Waiting, PollsLeft, VerdictIsTrue, EndIsTrue
  <2> QED
    BY <2>2, <2>3, <2>4
<1> QED
  BY <1>1, <1>2, <1>3, <1>4 DEF Server

LEMMA OtherKeeps ==
  ASSUME GpIInv, OtherCommandWrites \/ UNCHANGED vars
  PROVE  GpIInv'
<1>1. /\ UNCHANGED <<request, job, inFlight, posts, pc, step, polls, reply, seen, missing>>
      /\ UNCHANGED <<dispatched, verdict, artifact, exit>>
      /\ file' \in {file, "other"}
  BY DEF OtherCommandWrites, vars, run, server
<1>2. TypeOK' /\ PostsAreTrue' /\ BehindIsDone' /\ AheadIsUntouched' /\ OnlyLastMissing'
  BY <1>1
  DEF GpIInv, TypeOK, PostsAreTrue, BehindIsDone, AheadIsUntouched, OnlyLastMissing, Untouched,
      Done
<1>3. PlaceIsTrue' /\ ReplyIsTrue'
  BY <1>1 DEF GpIInv, PlaceIsTrue, Waiting, PollsLeft, ReplyIsTrue, Untouched
<1>4. VerdictIsTrue' /\ EndIsTrue'
  BY <1>1 DEF GpIInv, VerdictIsTrue, EndIsTrue, Document, Submitted0, Jobs, Done
<1> QED
  BY <1>2, <1>3, <1>4 DEF GpIInv
-----------------------------------------------------------------------------
(* Theorems.                                                               *)

LEMMA InitGpIInv ==
  ASSUME GpSettings, Init
  PROVE  GpIInv
<1>1. TypeOK
  BY GpRunAssumption DEF Init, TypeOK, JobStates, Locations, NoReply, Replies, Kinds, Steps
<1>2. \A i \in Steps : Untouched(i)
  BY DEF Init, Untouched
<1>3. PostsAreTrue /\ BehindIsDone /\ AheadIsUntouched /\ OnlyLastMissing
  BY <1>2, GpRunAssumption
  DEF Init, PostsAreTrue, BehindIsDone, AheadIsUntouched, OnlyLastMissing, Untouched, Steps
<1>4. PlaceIsTrue /\ ReplyIsTrue
  BY <1>1, <1>2 DEF Init, TypeOK, PlaceIsTrue, ReplyIsTrue, NoReply, Waiting
<1>5. VerdictIsTrue /\ EndIsTrue
  BY DEF Init, VerdictIsTrue, EndIsTrue, GpSettings, Codes
<1> QED
  BY <1>1, <1>3, <1>4, <1>5 DEF GpIInv

LEMMA NextGpIInv ==
  ASSUME GpSettings, GpIInv, [Next]_vars
  PROVE  GpIInv'
<1>1. CASE Work
  <2>1. CASE RefuseUnacknowledged \/ RefuseArguments \/ EmitFails
    BY <2>1, QuitsKeep
  <2>2. CASE RefusePlan \/ DryRun \/ RefuseUnready \/ StartSteps
    BY <2>2, StartsKeep
  <2>3. CASE Submit \/ SubmissionRefused \/ SubmissionFails \/ NotTerminal
    BY <2>3, SubmitKeeps, SubmissionsKeep
  <2>4. CASE Submitted \/ Polled \/ Poll \/ PollFails \/ ResultsFail
    BY <2>4, FollowKeeps, PollKeeps, FailuresKeep
  <2>5. CASE \E found \in BOOLEAN : ResultsArrive(found) \/ RanAtOnce(found)
    BY <2>5, VerifyKeeps
  <2>6. CASE Emit
    BY <2>6, EmitKeeps
  <2> QED
    BY <1>1, <2>1, <2>2, <2>3, <2>4, <2>5, <2>6 DEF Work
<1>2. CASE Server
  BY <1>2, ServerKeeps
<1>3. CASE Interrupt
  BY <1>3, QuitsKeep
<1>4. CASE OtherCommandWrites \/ UNCHANGED vars
  BY <1>4, OtherKeeps
<1> QED
  BY <1>1, <1>2, <1>3, <1>4 DEF Next

\* The invariant above, from which the rest follows.
THEOREM GpInvariance ==
  ASSUME GpSettings
  PROVE  Spec => []GpIInv
<1>1. Init => GpIInv
  BY InitGpIInv
<1>2. GpIInv /\ [Next]_vars => GpIInv'
  BY NextGpIInv
<1> QED
  BY <1>1, <1>2, PTL DEF Spec

LEMMA TypeOKFollows ==
  ASSUME GpSettings, GpIInv
  PROVE  TypeOK
  BY DEF GpIInv

\* Verdicts, exit codes, answers and artifacts are of their types, the polls stay within
\* _MAX_POLLS and dispatch_count within the steps of the plan.
THEOREM GpTypesHold ==
  ASSUME GpSettings
  PROVE  Spec => []TypeOK
<1>1. GpIInv => TypeOK
  BY TypeOKFollows
<1> QED
  BY <1>1, GpInvariance, PTL

LEMMA StepsOnceInOrderFollows ==
  ASSUME GpSettings, GpIInv
  PROVE  StepsOnceInOrder
<1>1. ASSUME GpIInv, NEW i \in Steps
      PROVE  /\ posts[i] <= 1
             /\ posts[i] > 0 =>
                  \A k \in 1 .. i - 1 : job[k] \in {"ran", "successful"} /\ k \notin missing
  <2>1. posts[i] \in {0, 1} /\ i \in 1 .. N /\ step \in 1 .. N /\ N \in Nat
    BY <1>1, GpRunAssumption DEF GpIInv, TypeOK, PostsAreTrue, Steps
  <2>2. posts[i] > 0 => i <= step
    BY <1>1, <2>1 DEF GpIInv, AheadIsUntouched, Untouched
  <2>3. \A k \in 1 .. step - 1 : Done(k) /\ k \notin missing
    BY <1>1, <2>1 DEF GpIInv, BehindIsDone, OnlyLastMissing
  <2> QED
    BY <2>1, <2>2, <2>3 DEF Done
<1> QED
  BY <1>1 DEF StepsOnceInOrder

\* execute_async posts a step once, whatever is lost or late, and only after every step
\* before it ran to success and delivered its declared outputs.
THEOREM StepsOnceInOrderHolds ==
  ASSUME GpSettings
  PROVE  Spec => []StepsOnceInOrder
<1>1. GpIInv => StepsOnceInOrder
  BY StepsOnceInOrderFollows
<1> QED
  BY <1>1, GpInvariance, PTL

LEMMA SuccessIsTrueFollows ==
  ASSUME GpSettings, GpIInv
  PROVE  SuccessIsTrue
  BY DEF GpIInv, EndIsTrue, VerdictIsTrue, Done, SuccessIsTrue

\* Exit 0 of a live run means that every step of the plan succeeded on the server and no
\* declared output is missing.
THEOREM SuccessIsTrueHolds ==
  ASSUME GpSettings
  PROVE  Spec => []SuccessIsTrue
<1>1. GpIInv => SuccessIsTrue
  BY SuccessIsTrueFollows
<1> QED
  BY <1>1, GpInvariance, PTL

LEMMA UnsubmittedIsTrueFollows ==
  ASSUME GpSettings, GpIInv
  PROVE  UnsubmittedIsTrue
<1>1. ASSUME GpIInv, artifact # None, ~artifact.submitted
      PROVE  inFlight = {} /\ \A i \in Steps : job[i] = "none"
  <2>1. verdict # None /\ artifact = Document /\ dispatched \in Nat
    BY <1>1, GpRunAssumption DEF GpIInv, EndIsTrue, TypeOK
  <2>2. dispatched = 0
    <3>1. artifact.submitted = (dispatched > 0)
      BY <2>1 DEF Document
    <3>2. ~(dispatched > 0)
      BY <1>1, <3>1
    <3> QED
      BY <2>1, <3>2
  <2> QED
    BY <1>1, <2>1, <2>2 DEF GpIInv, VerdictIsTrue, Submitted0
<1> QED
  BY <1>1 DEF UnsubmittedIsTrue

\* An artifact that says nothing was submitted (dispatch_count is 0) is right, then and
\* later: no job exists and no POST is on its way.
THEOREM UnsubmittedIsTrueHolds ==
  ASSUME GpSettings
  PROVE  Spec => []UnsubmittedIsTrue
<1>1. GpIInv => UnsubmittedIsTrue
  BY UnsubmittedIsTrueFollows
<1> QED
  BY <1>1, GpInvariance, PTL

LEMMA ArtifactNamesJobsFollows ==
  ASSUME GpSettings, GpIInv
  PROVE  ArtifactNamesJobs
<1>1. ASSUME GpIInv, artifact # None
      PROVE  /\ Jobs \ artifact.jobs \subseteq {step}
             /\ Jobs \ artifact.jobs # {} => artifact.outcome \in {"failed", "partial"}
  <2>1. verdict # None /\ artifact.jobs = seen /\ artifact.outcome = verdict.outcome
    BY <1>1 DEF GpIInv, EndIsTrue, Document
  <2>2. step \in 1 .. N /\ N \in Nat
    BY <1>1, GpRunAssumption DEF GpIInv, TypeOK, Steps
  <2>3. ASSUME NEW i \in Jobs, i \notin seen
        PROVE  i = step
    <3>1. i \in 1 .. N /\ job[i] \in {"running"} \union Finished
      BY <2>3 DEF Jobs, Steps
    <3>2. ~(i > step)
      BY <1>1, <2>2, <3>1 DEF GpIInv, AheadIsUntouched, Untouched, Finished
    <3>3. ~(i < step)
      BY <1>1, <2>2, <2>3, <3>1 DEF GpIInv, BehindIsDone, Done, Finished
    <3> QED
      BY <2>2, <3>1, <3>2, <3>3
  <2>4. step \in Jobs /\ step \notin seen => verdict.outcome \in {"failed", "partial"}
    BY <1>1, <2>1 DEF GpIInv, VerdictIsTrue
  <2> QED
    BY <2>1, <2>3, <2>4
<1> QED
  BY <1>1 DEF ArtifactNamesJobs

\* The artifact names every job of the run but perhaps that of the last step, whose
\* submission was lost; then the run does not claim to have succeeded.
THEOREM ArtifactNamesJobsHolds ==
  ASSUME GpSettings
  PROVE  Spec => []ArtifactNamesJobs
<1>1. GpIInv => ArtifactNamesJobs
  BY ArtifactNamesJobsFollows
<1> QED
  BY <1>1, GpInvariance, PTL

-----------------------------------------------------------------------------
(* Resume.                                                                 *)


\* None is no exit code and no snapshot.
ResumeSettings == Resume!ConstantsOK /\ None \notin {0, 2, 10} \union Resume!Jobs

\* A snapshot that shows the end of the job shows the job.
Shows(j) == j.status \in Resume!Terminal => job = j

SnapshotsAreTrue ==
  /\ reply # None => Shows(reply.job)
  /\ latest # None => Shows(latest)
  /\ pc = "received" => latest \in Resume!Jobs

\* The outcome is set once, from the last snapshot, when its time was read.
OutcomeFollows ==
  /\ outcome # "timed-out" => pc \in {"emit", "ended"} /\ (Resume!Timed => gotAt <= maxWait)
  /\ outcome \in Resume!Terminal => job.status \in Resume!Terminal /\ outcome = Resume!Judge(job)
  /\ pc # "ended" => exit = None
  /\ exit = 0 => outcome = "completed"

ResumeIInv ==
  /\ Resume!TypeOK
  /\ SnapshotsAreTrue
  /\ OutcomeFollows
  /\ Resume!DeadlineShared
-----------------------------------------------------------------------------
(* What a snapshot means.                                                  *)

LEMMA Verdicts ==
  ASSUME NEW j \in Resume!Jobs
  PROVE  /\ Resume!Judge(j) \in Resume!Terminal \union {"running", "unknown-status"}
         /\ Resume!Judge(j) \in Resume!Terminal => j.status \in Resume!Terminal
         /\ Resume!Judge(j) = "completed" => j.status = "completed" /\ j.fidelity # "other"
BY DEF Resume!Jobs, Resume!Statuses, Resume!Terminal, Resume!Judge

\* A sleep ends by the deadline, or at once.
LEMMA SleepsEnd ==
  ASSUME Resume!TypeOK, Resume!ConstantsOK, NEW t \in Nat
  PROVE  /\ Resume!SleepEnd(t) \in Nat
         /\ Resume!Timed => Resume!SleepEnd(t) <= maxWait \/ Resume!SleepEnd(t) = now
<1>1. now \in Nat /\ maxWait \in Nat
  BY DEF Resume!TypeOK, Resume!ConstantsOK
<1> QED
  BY <1>1 DEF Resume!SleepEnd, Resume!Timed, Resume!Expired
-----------------------------------------------------------------------------
(* The steps.                                                              *)

\* The server goes on with a job that has not ended.
LEMMA JobGoesOn ==
  ASSUME ResumeIInv, Resume!Cancel \/ \E s \in Resume!Statuses, f \in Resume!Fidelities :
         Resume!Advance(s, f)
  PROVE  ResumeIInv'
<1>1. /\ UNCHANGED <<now, maxWait, pc, tries, reply, latest, wake, sentAt, gotAt, outcome, exit>>
      /\ job.status \notin Resume!Terminal
      /\ job' \in Resume!Jobs
  BY DEF Resume!Cancel, Resume!Advance, Resume!client, Resume!Jobs, Resume!Statuses,
         Resume!Fidelities, Resume!Terminal
<1>2. Resume!TypeOK'
  BY <1>1 DEF ResumeIInv, Resume!TypeOK
<1>3. SnapshotsAreTrue'
  BY <1>1 DEF ResumeIInv, SnapshotsAreTrue, Shows
<1>4. OutcomeFollows' /\ Resume!DeadlineShared'
  BY <1>1 DEF ResumeIInv, OutcomeFollows, Resume!DeadlineShared, Resume!Timed
<1> QED
  BY <1>2, <1>3, <1>4 DEF ResumeIInv

LEMMA AnswersKeep ==
  ASSUME ResumeIInv, NEW k \in Resume!Kinds, Resume!Answer(k)
  PROVE  ResumeIInv'
<1>1. /\ UNCHANGED <<job, now, maxWait, pc, tries, latest, wake, sentAt, gotAt, outcome, exit>>
      /\ reply' = [kind |-> k, job |-> job]
  BY DEF Resume!Answer
<1>2. Resume!TypeOK' /\ reply'.job = job
  BY <1>1 DEF ResumeIInv, Resume!TypeOK, Resume!Replies
<1>3. SnapshotsAreTrue'
  BY <1>1, <1>2 DEF ResumeIInv, SnapshotsAreTrue, Shows
<1>4. OutcomeFollows' /\ Resume!DeadlineShared'
  BY <1>1 DEF ResumeIInv, OutcomeFollows, Resume!DeadlineShared, Resume!Timed
<1> QED
  BY <1>2, <1>3, <1>4 DEF ResumeIInv

LEMMA TimePasses ==
  ASSUME ResumeSettings, ResumeIInv, Resume!Tick
  PROVE  ResumeIInv'
<1>1. /\ UNCHANGED <<job, maxWait, pc, tries, reply, latest, wake, sentAt, gotAt, outcome, exit>>
      /\ now < MaxNow /\ now' = now + 1
  BY DEF Resume!Tick, Resume!client
<1>2. MaxNow \in Nat
  BY DEF ResumeSettings, Resume!ConstantsOK
<1>3. Resume!TypeOK'
  BY <1>1, <1>2 DEF ResumeIInv, Resume!TypeOK
<1>4. SnapshotsAreTrue' /\ OutcomeFollows'
  BY <1>1 DEF ResumeIInv, SnapshotsAreTrue, Shows, OutcomeFollows, Resume!Timed
<1>5. Resume!DeadlineShared'
  BY <1>1, <1>2 DEF ResumeIInv, Resume!TypeOK, Resume!DeadlineShared, Resume!Timed
<1> QED
  BY <1>3, <1>4, <1>5 DEF ResumeIInv

\* A step of the command that concludes nothing and learns nothing.
LEMMA QuietStep ==
  ASSUME ResumeSettings, ResumeIInv, UNCHANGED <<job, now, maxWait, latest, gotAt, outcome>>,
         pc \notin {"received", "emit", "ended"},
         pc' \in Resume!Locations \ {"received"},
         tries' \in 0 .. Retries,
         reply' \in {reply, None},
         wake' \in Nat,
         sentAt' = sentAt \/ (sentAt' = now /\ ~Resume!Expired),
         exit' = exit \/ (pc' = "ended" /\ exit' = 2),
         pc' \in {"sleep", "backoff"} =>
           \/ Resume!Timed => wake' <= maxWait \/ wake' = now
           \/ wake' = wake /\ pc' = pc
  PROVE  ResumeIInv'
<1>1. now \in Nat
  BY DEF ResumeIInv, Resume!TypeOK
<1>2. Resume!TypeOK'
  BY <1>1 DEF ResumeIInv, Resume!TypeOK
<1>3. SnapshotsAreTrue'
  BY DEF ResumeIInv, SnapshotsAreTrue, Shows
<1>4. outcome = "timed-out" /\ outcome \notin Resume!Terminal /\ exit = None
  BY DEF ResumeIInv, OutcomeFollows, Resume!Terminal
<1>5. OutcomeFollows'
  BY <1>4 DEF ResumeIInv, OutcomeFollows
<1>6. Resume!DeadlineShared'
  <2>1. maxWait \in Nat
    BY DEF ResumeIInv, Resume!TypeOK, ResumeSettings, Resume!ConstantsOK
  <2>2. wake' > maxWait /\ pc' \in {"sleep", "backoff"} /\ Resume!Timed => wake' <= now
    BY <1>1, <2>1 DEF ResumeIInv, Resume!TypeOK, Resume!DeadlineShared
  <2>3. Resume!Timed => sentAt' < maxWait
    BY <1>1, <2>1 DEF ResumeIInv, Resume!DeadlineShared, Resume!Expired
  <2> QED
    BY <2>2, <2>3 DEF Resume!DeadlineShared, Resume!Timed
<1> QED
  BY <1>2, <1>3, <1>5, <1>6 DEF ResumeIInv

LEMMA LoopKeeps ==
  ASSUME ResumeSettings, ResumeIInv, Resume!Poll \/ Resume!GiveUp \/ Resume!Send \/
         Resume!EndBackoff \/ Resume!EndSleep
  PROVE  ResumeIInv'
<1>1. /\ UNCHANGED <<job, now, maxWait, latest, gotAt, outcome, reply, wake, exit>>
      /\ pc \in {"poll", "attempt", "backoff", "sleep"}
      /\ pc' \in {"attempt", "emit", "sent", "poll"}
      /\ tries' \in {tries, 0}
      /\ sentAt' = sentAt \/ (sentAt' = now /\ ~Resume!Expired)
  BY DEF Resume!Poll, Resume!GiveUp, Resume!Send, Resume!EndBackoff, Resume!EndSleep
<1>2. tries' \in 0 .. Retries /\ wake' \in Nat
  BY <1>1 DEF ResumeIInv, Resume!TypeOK, ResumeSettings, Resume!ConstantsOK
<1>3. pc' \in Resume!Locations \ {"received"}
  BY <1>1 DEF Resume!Locations
<1> QED
  BY <1>1, <1>2, <1>3, QuietStep

\* A failed attempt is repeated after a pause that the deadline caps.
LEMMA RefusalsKeep ==
  ASSUME ResumeSettings, ResumeIInv, Resume!TransportFails \/ Resume!ReceiveRefusal
  PROVE  ResumeIInv'
<1>1. /\ UNCHANGED <<job, now, maxWait, latest, sentAt, gotAt, outcome>>
      /\ pc = "sent" /\ reply' = None
      /\ \/ pc' = "emit" /\ UNCHANGED <<tries, wake, exit>>
         \/ tries + 1 < Resume!Attempts /\ Resume!PauseThenRetry
         \/ Resume!Abort
  <2>1. tries \in 0 .. Retries /\ Retries \in Nat
    BY DEF ResumeIInv, Resume!TypeOK, ResumeSettings, Resume!ConstantsOK
  <2>2. CASE Resume!TransportFails
    <3>1. \/ Resume!Expired
          \/ ~Resume!Expired /\ tries + 1 < Resume!Attempts
          \/ ~Resume!Expired /\ tries + 1 = Resume!Attempts
      BY <2>1 DEF Resume!Attempts
    <3> QED
      BY <2>1, <2>2, <3>1 DEF Resume!TransportFails, Resume!Attempts
  <2>3. CASE Resume!ReceiveRefusal
    BY <2>3 DEF Resume!ReceiveRefusal
  <2> QED
    BY <2>2, <2>3
<1>2. CASE pc' = "emit" /\ UNCHANGED <<tries, wake, exit>>
  BY <1>1, <1>2, QuietStep DEF ResumeIInv, Resume!TypeOK, Resume!Locations
<1>3. CASE tries + 1 < Resume!Attempts /\ Resume!PauseThenRetry
  <2>1. /\ tries' = tries + 1 /\ wake' = Resume!SleepEnd(Backoff)
        /\ pc' = "backoff" /\ exit' = exit
        /\ tries + 1 < Resume!Attempts
    BY <1>3 DEF Resume!PauseThenRetry
  <2>2. tries' \in 0 .. Retries
    BY <2>1 DEF ResumeIInv, Resume!TypeOK, Resume!Attempts, ResumeSettings, Resume!ConstantsOK
  <2>3. wake' \in Nat /\ (Resume!Timed => wake' <= maxWait \/ wake' = now)
    BY <2>1, SleepsEnd DEF ResumeIInv, ResumeSettings, Resume!ConstantsOK
  <2>4. pc' \in Resume!Locations \ {"received"}
    BY <2>1 DEF Resume!Locations
  <2> QED
    BY <1>1, <2>1, <2>2, <2>3, <2>4, QuietStep
<1>4. CASE Resume!Abort
  <2>1. pc' = "ended" /\ exit' = 2 /\ UNCHANGED <<tries, wake>>
    BY <1>4 DEF Resume!Abort
  <2>2. pc' \in Resume!Locations \ {"received"} /\ tries' \in 0 .. Retries /\ wake' \in Nat
    BY <2>1 DEF ResumeIInv, Resume!TypeOK, Resume!Locations
  <2> QED
    BY <1>1, <2>1, <2>2, QuietStep
<1> QED
  BY <1>1, <1>2, <1>3, <1>4

LEMMA ReceiveKeeps ==
  ASSUME ResumeSettings, ResumeIInv, Resume!Receive
  PROVE  ResumeIInv'
<1>1. /\ UNCHANGED <<job, now, maxWait, tries, wake, sentAt, gotAt, outcome, exit>>
      /\ pc = "sent" /\ reply # None /\ latest' = reply.job /\ reply' = None
      /\ pc' = "received"
  BY DEF Resume!Receive
<1>2. reply.job \in Resume!Jobs /\ Shows(reply.job)
  BY <1>1 DEF ResumeIInv, Resume!TypeOK, Resume!Replies, SnapshotsAreTrue
<1>3. Resume!TypeOK'
  BY <1>1, <1>2 DEF ResumeIInv, Resume!TypeOK, Resume!Locations
<1>4. SnapshotsAreTrue'
  BY <1>1, <1>2 DEF SnapshotsAreTrue, Shows
<1>5. OutcomeFollows' /\ Resume!DeadlineShared'
  BY <1>1 DEF ResumeIInv, OutcomeFollows, Resume!DeadlineShared, Resume!Timed, Resume!Terminal
<1> QED
  BY <1>3, <1>4, <1>5 DEF ResumeIInv

\* The clock is read, and only then does the snapshot count.
LEMMA JudgesKeep ==
  ASSUME ResumeSettings, ResumeIInv, Resume!JudgeLate \/ Resume!JudgeTimely
  PROVE  ResumeIInv'
<1>1. /\ UNCHANGED <<job, now, maxWait, tries, reply, latest, sentAt, exit>>
      /\ pc = "received" /\ gotAt' = now
      /\ \/ pc' = "emit" /\ UNCHANGED <<outcome, wake>>
         \/ /\ pc' = "emit" /\ ~Resume!Late /\ Resume!Stops(latest)
            /\ outcome' = Resume!Judge(latest) /\ wake' = wake
         \/ pc' = "sleep" /\ outcome' = outcome /\ wake' = Resume!SleepEnd(PollInterval)
  BY DEF Resume!JudgeLate, Resume!JudgeTimely
<1>2. /\ latest \in Resume!Jobs /\ latest # None /\ Shows(latest)
      /\ outcome = "timed-out" /\ exit = None /\ now \in Nat /\ maxWait \in Nat
  BY <1>1
  DEF ResumeIInv, Resume!TypeOK, SnapshotsAreTrue, OutcomeFollows, ResumeSettings,
      Resume!ConstantsOK
<1>3. /\ outcome' \in Resume!Outcomes
      /\ outcome' # "timed-out" => pc' = "emit" /\ ~Resume!Late
      /\ outcome' \in Resume!Terminal =>
           job.status \in Resume!Terminal /\ outcome' = Resume!Judge(job)
  <2>1. CASE outcome' = outcome
    BY <1>2, <2>1 DEF Resume!Outcomes, Resume!Terminal
  <2>2. CASE /\ pc' = "emit" /\ ~Resume!Late /\ Resume!Stops(latest)
             /\ outcome' = Resume!Judge(latest)
    <3>1. Resume!Judge(latest) \in Resume!Terminal \union {"unknown-status"}
      BY <1>2, <2>2, Verdicts DEF Resume!Stops
    <3>2. Resume!Judge(latest) \in Resume!Terminal => latest.status \in Resume!Terminal
      BY <1>2, Verdicts
    <3> QED
      BY <1>2, <2>2, <3>1, <3>2 DEF Shows, Resume!Outcomes
  <2> QED
    BY <1>1, <2>1, <2>2
<1>4. wake' \in Nat /\ (pc' = "sleep" => (Resume!Timed => wake' <= maxWait \/ wake' = now))
  BY <1>1, SleepsEnd DEF ResumeIInv, Resume!TypeOK, ResumeSettings, Resume!ConstantsOK
<1>5. Resume!TypeOK'
  BY <1>1, <1>2, <1>3, <1>4 DEF ResumeIInv, Resume!TypeOK, Resume!Locations
<1>6. SnapshotsAreTrue'
  BY <1>1 DEF ResumeIInv, SnapshotsAreTrue, Shows
<1>7. OutcomeFollows'
  BY <1>1, <1>2, <1>3 DEF OutcomeFollows, Resume!Late, Resume!Timed, ResumeSettings
<1>8. Resume!DeadlineShared'
  BY <1>1, <1>2, <1>4 DEF ResumeIInv, Resume!DeadlineShared, Resume!Timed
<1> QED
  BY <1>5, <1>6, <1>7, <1>8 DEF ResumeIInv

LEMMA EmitsKeep ==
  ASSUME ResumeSettings, ResumeIInv, Resume!Emit \/ Resume!EmitFails
  PROVE  ResumeIInv'
<1>1. /\ UNCHANGED <<job, now, maxWait, tries, reply, latest, wake, sentAt, gotAt, outcome>>
      /\ pc = "emit" /\ pc' = "ended"
      /\ exit' \in {0, 2, 10}
      /\ exit' = 0 => outcome = "completed"
  BY DEF Resume!Emit, Resume!EmitFails, Resume!Successful
<1>2. Resume!TypeOK' /\ SnapshotsAreTrue'
  BY <1>1 DEF ResumeIInv, Resume!TypeOK, Resume!Locations, SnapshotsAreTrue, Shows
<1>3. OutcomeFollows' /\ Resume!DeadlineShared'
  BY <1>1 DEF ResumeIInv, OutcomeFollows, Resume!DeadlineShared, Resume!Timed
<1> QED
  BY <1>2, <1>3 DEF ResumeIInv
-----------------------------------------------------------------------------
(* Theorems.                                                               *)

LEMMA InitResumeIInv ==
  ASSUME ResumeSettings, Resume!Init
  PROVE  ResumeIInv
<1>1. Resume!TypeOK
  BY DEF Resume!Init, Resume!TypeOK, ResumeSettings, Resume!ConstantsOK, Resume!Jobs,
         Resume!Statuses, Resume!Fidelities, Resume!Locations, Resume!Outcomes
<1>2. SnapshotsAreTrue /\ OutcomeFollows
  BY DEF Resume!Init, SnapshotsAreTrue, OutcomeFollows, ResumeSettings, Resume!Terminal
<1>3. Resume!DeadlineShared
  BY DEF Resume!Init, Resume!DeadlineShared, Resume!Timed
<1> QED
  BY <1>1, <1>2, <1>3 DEF ResumeIInv

LEMMA NextResumeIInv ==
  ASSUME ResumeSettings, ResumeIInv, [Resume!Next]_(Resume!vars)
  PROVE  ResumeIInv'
<1>1. CASE \/ Resume!Cancel
           \/ \E s \in Resume!Statuses, f \in Resume!Fidelities : Resume!Advance(s, f)
  BY <1>1, JobGoesOn
<1>2. CASE Resume!Tick \/ \E k \in Resume!Kinds : Resume!Answer(k)
  BY <1>2, TimePasses, AnswersKeep
<1>3. CASE Resume!Poll \/ Resume!GiveUp \/ Resume!Send \/ Resume!EndBackoff \/ Resume!EndSleep
  BY <1>3, LoopKeeps
<1>4. CASE Resume!TransportFails \/ Resume!ReceiveRefusal \/ Resume!Receive
  BY <1>4, RefusalsKeep, ReceiveKeeps
<1>5. CASE Resume!JudgeLate \/ Resume!JudgeTimely \/ Resume!Emit \/ Resume!EmitFails
  BY <1>5, JudgesKeep, EmitsKeep
<1>6. CASE UNCHANGED Resume!vars
  <2>1. UNCHANGED <<job, now, maxWait, pc, tries, reply, latest, wake, sentAt, gotAt, outcome, exit>>
    BY <1>6 DEF Resume!vars, Resume!client
  <2> QED
    BY <2>1
    DEF ResumeIInv, Resume!TypeOK, SnapshotsAreTrue, Shows, OutcomeFollows, Resume!DeadlineShared,
        Resume!Timed
<1> QED
  BY <1>1, <1>2, <1>3, <1>4, <1>5, <1>6 DEF Resume!Next, Resume!Work

\* The invariant above, from which the rest follows.
THEOREM ResumeInvariance ==
  ASSUME ResumeSettings
  PROVE  Resume!Spec => []ResumeIInv
<1>1. Resume!Init => ResumeIInv
  BY InitResumeIInv
<1>2. ResumeIInv /\ [Resume!Next]_(Resume!vars) => ResumeIInv'
  BY NextResumeIInv
<1> QED
  BY <1>1, <1>2, PTL DEF Resume!Spec

LEMMA ResumeTypeOKFollows ==
  ASSUME ResumeSettings, ResumeIInv
  PROVE  Resume!TypeOK
  BY DEF ResumeIInv

\* Snapshots, outcomes and exit codes are of their types, and a request has no more
\* attempts than --retries allows.
THEOREM ResumeTypesHold ==
  ASSUME ResumeSettings
  PROVE  Resume!Spec => []Resume!TypeOK
<1>1. ResumeIInv => Resume!TypeOK
  BY ResumeTypeOKFollows
<1> QED
  BY <1>1, ResumeInvariance, PTL

LEMMA ResumeOutcomeIsTrueFollows ==
  ASSUME ResumeSettings, ResumeIInv
  PROVE  Resume!OutcomeIsTrue
<1>1. job \in Resume!Jobs /\ (exit = 0 => outcome = "completed" /\ outcome \in Resume!Terminal)
  BY DEF ResumeIInv, Resume!TypeOK, OutcomeFollows, Resume!Terminal
<1> QED
  BY <1>1, Verdicts DEF ResumeIInv, OutcomeFollows, Resume!OutcomeIsTrue

\* A terminal outcome that resume_command reports is the job's, whoever cancels or
\* completes it meanwhile, and exit 0 means a completed job whose fidelity verdict does
\* not contradict it.
THEOREM OutcomeIsTrueHolds ==
  ASSUME ResumeSettings
  PROVE  Resume!Spec => []Resume!OutcomeIsTrue
<1>1. ResumeIInv => Resume!OutcomeIsTrue
  BY ResumeOutcomeIsTrueFollows
<1> QED
  BY <1>1, ResumeInvariance, PTL

LEMMA ResumeLateIsNotSuccessFollows ==
  ASSUME ResumeSettings, ResumeIInv
  PROVE  Resume!LateIsNotSuccess
  BY DEF ResumeIInv, OutcomeFollows, Resume!LateIsNotSuccess

\* "a late observation does not count as success": every outcome of wait_for_terminal but
\* a timeout was received within the budget.
THEOREM LateIsNotSuccessHolds ==
  ASSUME ResumeSettings
  PROVE  Resume!Spec => []Resume!LateIsNotSuccess
<1>1. ResumeIInv => Resume!LateIsNotSuccess
  BY ResumeLateIsNotSuccessFollows
<1> QED
  BY <1>1, ResumeInvariance, PTL

LEMMA ResumeDeadlineSharedFollows ==
  ASSUME ResumeSettings, ResumeIInv
  PROVE  Resume!DeadlineShared
  BY DEF ResumeIInv

\* Polls, retries and sleeps share one deadline: no request is sent and no sleep planned
\* beyond it (_sleep_with_deadline).
THEOREM DeadlineSharedHolds ==
  ASSUME ResumeSettings
  PROVE  Resume!Spec => []Resume!DeadlineShared
<1>1. ResumeIInv => Resume!DeadlineShared
  BY ResumeDeadlineSharedFollows
<1> QED
  BY <1>1, ResumeInvariance, PTL

-----------------------------------------------------------------------------
(* The parts together.  ContentP and GeoP are the modules of proofs about  *)
(* the parts, with the constants and variables of Content and Geo.         *)

ContentP == INSTANCE ContentImport_proofs

GeoP == INSTANCE GeoServerImport_proofs WITH Requests <- GeoRequests, Runs <- GeoRuns

\* What the proofs assume of the constants.
PartsSettings ==
  GpSettings /\ ResumeSettings /\ ContentP!NoneIsNone /\ GeoP!Apart

\* A definition of Content or Geo and its copy in ContentP or GeoP are one formula.
LEMMA ContentAgrees ==
  /\ Content!Init => ContentP!Init
  /\ Content!Next => ContentP!Next
  BY DEF
      Content!Init, Content!Next, Content!Layers, Content!NoJob, Content!Work, Content!Reconcile,
      Content!Queue, Content!Working, Content!Finished, Content!Proceed, Content!Answer,
      Content!Expire, Content!Start, Content!LayerFails, Content!Started, Content!Poll,
      Content!Polled, Content!Commit, Content!CommitFails, Content!Report, Content!CountsAgree,
      Content!server, Content!client, Content!command, Content!Settle, Content!Failure,
      Content!ReadStatus, Content!ReadNumber, Content!ReadName, ContentP!Init, ContentP!Next,
      ContentP!Layers, ContentP!NoJob, ContentP!Work, ContentP!Reconcile, ContentP!Queue,
      ContentP!Working, ContentP!Finished, ContentP!Proceed, ContentP!Answer, ContentP!Expire,
      ContentP!Start, ContentP!LayerFails, ContentP!Started, ContentP!Poll, ContentP!Polled,
      ContentP!Commit, ContentP!CommitFails, ContentP!Report, ContentP!CountsAgree,
      ContentP!server, ContentP!client, ContentP!command, ContentP!Settle, ContentP!Failure,
      ContentP!ReadStatus, ContentP!ReadNumber, ContentP!ReadName

LEMMA GeoAgrees ==
  /\ Geo!Init => GeoP!Init
  /\ Geo!Next => GeoP!Next
<1>1. Geo!Init => GeoP!Init
  BY DEF
      Geo!Init, Geo!Idle, GeoP!Init, GeoP!Idle
<1>2. ASSUME NEW c \in Commands
      PROVE  Geo!Work(c) => GeoP!Work(c)
  BY DEF
      Geo!Work, Geo!SendStart, Geo!SendStatus, Geo!ReceiveRefusal, Geo!ReceiveStarted,
      Geo!ReceiveJob, Geo!Emit, Geo!Write, Geo!WriteFails, Geo!Goes, Geo!Again, Geo!Fails,
      Geo!HandOver, Geo!Confirms, Geo!Terminal, Geo!WaitsOn, Geo!Redacted, Geo!Ends, Geo!Attempts,
      Geo!Idle, GeoP!Work, GeoP!SendStart, GeoP!SendStatus, GeoP!ReceiveRefusal,
      GeoP!ReceiveStarted, GeoP!ReceiveJob, GeoP!Emit, GeoP!Write, GeoP!WriteFails, GeoP!Goes,
      GeoP!Again, GeoP!Fails, GeoP!HandOver, GeoP!Confirms, GeoP!Terminal, GeoP!WaitsOn,
      GeoP!Redacted, GeoP!Ends, GeoP!Attempts, GeoP!Idle
<1>3. ASSUME NEW c \in Commands
      PROVE  Geo!Answers(c) => GeoP!Answers(c)
  BY DEF
      Geo!Answers, Geo!Show, Geo!LoseAnswer, Geo!Take, Geo!Refuse, Geo!Goes, Geo!Again,
      Geo!Attempts, Geo!Fails, Geo!Ends, Geo!Idle, GeoP!Answers, GeoP!Show, GeoP!LoseAnswer,
      GeoP!Take, GeoP!Refuse, GeoP!Goes, GeoP!Again, GeoP!Attempts, GeoP!Fails, GeoP!Ends,
      GeoP!Idle
<1>4. ASSUME NEW c \in Commands
      PROVE  /\ Geo!Drop(c) => GeoP!Drop(c)
             /\ Geo!Late(c) => GeoP!Late(c)
  BY DEF
      Geo!Drop, Geo!Late, Geo!Goes, GeoP!Drop, GeoP!Late, GeoP!Goes
<1>5. ASSUME NEW c \in Commands, NEW s \in Servers
      PROVE  /\ Geo!BeginApply(c, s) => GeoP!BeginApply(c, s)
             /\ \A r \in GeoRequests, force \in BOOLEAN :
                  Geo!BeginPlan(c, s, r, force) => GeoP!BeginPlan(c, s, r, force)
  BY DEF
      Geo!BeginPlan, Geo!BeginApply, Geo!Goes, Geo!Idle, Geo!Loadable, GeoP!BeginPlan,
      GeoP!BeginApply, GeoP!Goes, GeoP!Idle, GeoP!Loadable
<1>6. ASSUME NEW c \in Commands, NEW s \in Servers, NEW i \in Ids, NEW k \in Geo!Kinds
      PROVE  Geo!BeginLook(c, s, i, k) => GeoP!BeginLook(c, s, i, k)
  BY DEF
      Geo!BeginLook, Geo!Goes, Geo!Idle, GeoP!BeginLook, GeoP!Goes, GeoP!Idle
<1>7. ASSUME NEW s \in Servers, NEW i \in Ids, NEW st \in Geo!Active \union Geo!Terminal
      PROVE  Geo!Progress(s, i, st) => GeoP!Progress(s, i, st)
  BY Zenon DEF Geo!Progress, GeoP!Progress, Geo!Active, GeoP!Active
<1>8. ASSUME NEW r \in GeoRequests
      PROVE  Geo!Edit(r) => GeoP!Edit(r)
  BY Zenon DEF Geo!Edit, GeoP!Edit
<1>9. Geo!Kinds = GeoP!Kinds /\ Geo!Active = GeoP!Active /\ Geo!Terminal = GeoP!Terminal
  BY DEF Geo!Kinds, GeoP!Kinds, Geo!Active, GeoP!Active, Geo!Terminal, GeoP!Terminal
<1> QED
  BY <1>1, <1>2, <1>3, <1>4, <1>5, <1>6, <1>7, <1>8, <1>9 DEF Geo!Next, GeoP!Next

-----------------------------------------------------------------------------
\* The invariant of the part in focus.
PartsInv ==
  /\ focus = "gp" => GpIInv
  /\ focus = "resume" => ResumeIInv
  /\ focus = "content" => ContentP!IInv
  /\ focus = "geo" => GeoP!IInv /\ GeoP!AllNamed

LEMMA InitParts ==
  ASSUME PartsSettings, PartsInit
  PROVE  PartsInv
<1>1. focus = "gp" => GpIInv
  BY InitGpIInv DEF PartsInit, PartsSettings
<1>2. focus = "resume" => ResumeIInv
  BY InitResumeIInv DEF PartsInit, PartsSettings
<1>3. focus = "content" => ContentP!IInv
  BY ContentAgrees, ContentP!InitIInv DEF PartsInit, PartsSettings
<1>4. focus = "geo" => GeoP!IInv /\ GeoP!AllNamed
  BY GeoAgrees, GeoP!InitIInv, GeoP!InitNamed DEF PartsInit, PartsSettings
<1> QED
  BY <1>1, <1>2, <1>3, <1>4 DEF PartsInv

LEMMA NextParts ==
  ASSUME PartsSettings, PartsInv, [PartsNext]_all
  PROVE  PartsInv'
<1>1. focus' = focus
  BY DEF PartsNext, Gp, Res, Con, GeoS, all
<1>2. ASSUME focus = "gp"
      PROVE  GpIInv'
  <2>1. [Next]_vars
    BY <1>2 DEF PartsNext, Gp, Res, Con, GeoS, all, shared, gpOnly, vars, server
  <2> QED
    BY <1>2, <2>1, NextGpIInv DEF PartsInv, PartsSettings
<1>3. ASSUME focus = "resume"
      PROVE  ResumeIInv'
  <2>1. [Resume!Next]_(Resume!vars)
    BY <1>3 DEF PartsNext, Gp, Res, Con, GeoS, all, shared, resumeOnly, Resume!vars, Resume!client
  <2> QED
    BY <1>3, <2>1, NextResumeIInv DEF PartsInv, PartsSettings
<1>4. ASSUME focus = "content"
      PROVE  ContentP!IInv'
  <2>1. Content!Next \/ UNCHANGED <<shared, contentOnly>>
    BY <1>4 DEF PartsNext, Gp, Res, Con, GeoS, all
  <2>2. [ContentP!Next]_(ContentP!vars)
    BY <2>1, ContentAgrees DEF shared, contentOnly, ContentP!vars, ContentP!server, ContentP!command
  <2> QED
    BY <1>4, <2>2, ContentP!NextIInv DEF PartsInv, PartsSettings
<1>5. ASSUME focus = "geo"
      PROVE  GeoP!IInv' /\ GeoP!AllNamed'
  <2>1. Geo!Next \/ UNCHANGED geoOnly
    BY <1>5 DEF PartsNext, Gp, Res, Con, GeoS, all
  <2>2. [GeoP!Next]_(GeoP!vars)
    BY <2>1, GeoAgrees DEF geoOnly, GeoP!vars
  <2> QED
    BY <1>5, <2>2, GeoP!NextIInv, GeoP!NextNamed DEF PartsInv, PartsSettings
<1> QED
  BY <1>1, <1>2, <1>3, <1>4, <1>5 DEF PartsInv

\* The invariant above, from which the rest follows.
THEOREM PartsInvariance ==
  ASSUME PartsSettings
  PROVE  PartsSpec => []PartsInv
<1>1. PartsInit => PartsInv
  BY InitParts
<1>2. PartsInv /\ [PartsNext]_all => PartsInv'
  BY NextParts
<1> QED
  BY <1>1, <1>2, PTL DEF PartsSpec

\* Every variable of the part in focus has its type.
THEOREM TypesOKHolds ==
  ASSUME PartsSettings
  PROVE  PartsSpec => []TypesOK
<1>1. PartsInv => TypesOK
  BY TypeOKFollows, ResumeTypeOKFollows, ContentP!TypeOKFollows, GeoP!TypeOKFollows
  DEF PartsInv, PartsSettings, TypesOK, Content!TypeOK, Content!Layers, Content!JobStates,
      Content!Entries, Content!Verdicts, Content!Working, Content!Finished, ContentP!TypeOK,
      ContentP!Layers, ContentP!JobStates, ContentP!Entries, ContentP!Verdicts, ContentP!Working,
      ContentP!Finished, Geo!TypeOK, Geo!Jobs, Geo!Plans, Geo!Kinds, Geo!Replies, Geo!Asked,
      Geo!Active, Geo!Terminal, Geo!Redacted, GeoP!TypeOK, GeoP!Jobs, GeoP!Plans, GeoP!Kinds,
      GeoP!Replies, GeoP!Asked, GeoP!Active, GeoP!Terminal, GeoP!Redacted
<1> QED
  BY <1>1, PartsInvariance, PTL

\* execute_async posts a step once, and only after those before it.
THEOREM GpStepsOnceInOrderHolds ==
  ASSUME PartsSettings
  PROVE  PartsSpec => []GpStepsOnceInOrder
<1>1. PartsInv => GpStepsOnceInOrder
  BY StepsOnceInOrderFollows
  DEF PartsInv, PartsSettings, GpStepsOnceInOrder
<1> QED
  BY <1>1, PartsInvariance, PTL

\* What a GP run says and names is so: its exit 0, its "nothing was submitted" and the job
\* ids of its artifact.
THEOREM GpReportIsTrueHolds ==
  ASSUME PartsSettings
  PROVE  PartsSpec => []GpReportIsTrue
<1>1. PartsInv => GpReportIsTrue
  BY SuccessIsTrueFollows, UnsubmittedIsTrueFollows, ArtifactNamesJobsFollows
  DEF PartsInv, PartsSettings, GpReportIsTrue
<1> QED
  BY <1>1, PartsInvariance, PTL

\* What resume_command concludes is what the server holds.
THEOREM ResumeOutcomeIsTrueHolds ==
  ASSUME PartsSettings
  PROVE  PartsSpec => []ResumeOutcomeIsTrue
<1>1. PartsInv => ResumeOutcomeIsTrue
  BY ResumeOutcomeIsTrueFollows
  DEF PartsInv, PartsSettings, ResumeOutcomeIsTrue
<1> QED
  BY <1>1, PartsInvariance, PTL

\* The deadline of wait_for_terminal bounds its requests and sleeps, and a late answer is no
\* success.
THEOREM ResumeKeepsDeadlineHolds ==
  ASSUME PartsSettings
  PROVE  PartsSpec => []ResumeKeepsDeadline
<1>1. PartsInv => ResumeKeepsDeadline
  BY ResumeLateIsNotSuccessFollows, ResumeDeadlineSharedFollows
  DEF PartsInv, PartsSettings, ResumeKeepsDeadline
<1> QED
  BY <1>1, PartsInvariance, PTL

\* The report of a content import covers every layer.
THEOREM ContentReportCompleteHolds ==
  ASSUME PartsSettings
  PROVE  PartsSpec => []ContentReportComplete
<1>1. PartsInv => ContentReportComplete
  BY ContentP!ReportCompleteFollows
  DEF PartsInv, PartsSettings, ContentReportComplete, Content!ReportComplete, Content!Layers,
      ContentP!ReportComplete, ContentP!Layers
<1> QED
  BY <1>1, PartsInvariance, PTL

\* Against a server that names the states of its jobs, the report of a content import and
\* its reconciliation say what the server holds.
THEOREM ContentVerdictIsTrueHolds ==
  ASSUME PartsSettings, ContentP!Named
  PROVE  PartsSpec => []ContentVerdictIsTrue
<1>1. PartsInv => ContentVerdictIsTrue
  BY ContentP!CompletedIsTrueFollows, ContentP!PassIsTrueFollows
  DEF PartsInv, PartsSettings, ContentVerdictIsTrue, Content!CompletedIsTrue, Content!PassIsTrue,
      Content!Layers, ContentP!CompletedIsTrue, ContentP!PassIsTrue, ContentP!Layers
<1> QED
  BY <1>1, PartsInvariance, PTL

\* A GeoServer command makes at most one job, and an apply names it.
THEOREM GeoJobIsOneAndNamedHolds ==
  ASSUME PartsSettings
  PROVE  PartsSpec => []GeoJobIsOneAndNamed
<1>1. PartsInv => GeoJobIsOneAndNamed
  BY GeoP!OneJobPerCommandFollows, GeoP!ImportIsNamedFollows
  DEF PartsInv, PartsSettings, GeoJobIsOneAndNamed, Geo!OneJobPerCommand, Geo!ImportIsNamed,
      GeoP!OneJobPerCommand, GeoP!ImportIsNamed
<1> QED
  BY <1>1, PartsInvariance, PTL

\* What a GeoServer apply imports, the same server has rehearsed.
THEOREM GeoImportWasRehearsedHolds ==
  ASSUME PartsSettings
  PROVE  PartsSpec => []GeoImportWasRehearsed
<1>1. PartsInv => GeoImportWasRehearsed
  BY GeoP!ImportWasRehearsedFollows
  DEF PartsInv, PartsSettings, GeoImportWasRehearsed, Geo!ImportWasRehearsed, Geo!Redacted,
      GeoP!ImportWasRehearsed, GeoP!Redacted
<1> QED
  BY <1>1, PartsInvariance, PTL
=============================================================================
