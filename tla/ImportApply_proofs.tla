-------------------------- MODULE ImportApply_proofs --------------------------
(***************************************************************************)
(* Proofs about ImportApply, for any applies, plan, retries and faults:    *)
(* one job per action of an apply, in order, and at most one that it       *)
(* cannot name; imports only where the manifest grants them; a true exit   *)
(* code, receipt and handoff.                                              *)
(*                                                                         *)
(* The argument: a POST is under way for one action at a time, the first   *)
(* that is not on the receipt, and it became a job exactly when the wire   *)
(* says so.                                                                *)
(***************************************************************************)
EXTENDS ImportApply, TLAPS

-----------------------------------------------------------------------------
(* The inductive invariant.                                                *)

\* None is no exit code and no server.
NoneIsNone == ConstantsOK /\ None \notin Exits

\* The jobs of an apply are those on its receipt, and the one its POST became.
JobsAreTrue(a) ==
  /\ \A i \in 1 .. Len(started[a]) :
       started[a][i] \in DOMAIN jobs /\ jobs[started[a][i]] = [by |-> a, action |-> i]
  /\ \A k \in DOMAIN jobs : jobs[k].by = a =>
       jobs[k].action <= Len(started[a]) \/ (wire[a] = "queued" /\ jobs[k].action = Current(a))
  /\ wire[a] = "queued" => \E k \in DOMAIN jobs : jobs[k] = [by |-> a, action |-> Current(a)]
  /\ wire[a] # "none" => Current(a) \in Action

Clean(a) == wire[a] = "none" /\ started[a] = <<>>

Complete(a) == wire[a] = "none" /\ Len(started[a]) = NumActions

\* Where an apply stands says what it has sent and what it has been told.
StageIsTrue(a) ==
  /\ pc[a] \in {"new", "manifest", "jobs", "judge"} => Clean(a)
  /\ pc[a] = "start" => wire[a] = "none"
  /\ pc[a] = "await" => wire[a] # "none"
  /\ pc[a] \notin {"emit", "write", "ended"} => ~failed[a]
  /\ pc[a] = "emit" => failed[a] \/ Complete(a)
  /\ pc[a] \in {"judge", "write"} => verdict[a] \in Verdicts
  /\ pc[a] \in {"start", "await", "emit"} => verdict[a] = "ready"
  /\ pc[a] = "write" /\ verdict[a] # "ready" => Clean(a) /\ ~failed[a]
  /\ pc[a] = "write" /\ verdict[a] = "ready" =>
       /\ failed[a] \/ Complete(a)
       /\ started[a] # <<>>
       /\ printed[a] = Receipt(a)

Granted(a) ==
  seen[a] \in AllServers /\ Grants(seen[a]) /\ seen[a].key \in {"admin", "user"}

\* What the manifest granted to this apply.
GrantIsTrue(a) ==
  /\ pc[a] = "jobs" => seen[a] \in AllServers /\ seen[a].key \in {"admin", "user"}
  /\ pc[a] = "judge" /\ verdict[a] = "ready" => Granted(a)
  /\ pc[a] \in {"start", "await"} => Granted(a)
  /\ wire[a] # "none" \/ started[a] # <<>> => Granted(a)

\* What the exit code of an apply that ended says.
ExitIsTrue(a) ==
  /\ pc[a] # "ended" => exit[a] = None
  /\ exit[a] = 0 => Complete(a)
  /\ exit[a] = 10 => started[a] # <<>>
  /\ exit[a] = 2 => started[a] = <<>>
  /\ exit[a] \in {4, 20, 40} => Clean(a)
  /\ exit[a] \in {0, 10} /\ ~unsafe[a] => printed[a] = Receipt(a)

ApplyIsTrue(a) == JobsAreTrue(a) /\ StageIsTrue(a) /\ GrantIsTrue(a) /\ ExitIsTrue(a)

\* The receipt in the file.
FileIsTrue ==
  file # None /\ file.kind = "apply" =>
    \A i \in 1 .. Len(file.ids) :
      file.ids[i] \in DOMAIN jobs /\ jobs[file.ids[i]] = [by |-> file.by, action |-> i]

IInv ==
  /\ TypeOK
  /\ OneJobPerAction
  /\ \A a \in Applies : ApplyIsTrue(a)
  /\ FileIsTrue
-----------------------------------------------------------------------------
(* What a step leaves alone.                                               *)

\* Everything that the command b knows stays as it is.
Same(b) ==
  /\ wire'[b] = wire[b]
  /\ pc'[b] = pc[b]
  /\ seen'[b] = seen[b]
  /\ verdict'[b] = verdict[b]
  /\ started'[b] = started[b]
  /\ failed'[b] = failed[b]
  /\ unsafe'[b] = unsafe[b]
  /\ printed'[b] = printed[b]
  /\ exit'[b] = exit[b]

\* A step of the command a, or of the server on its behalf.
Own(a) ==
  \/ \E yes, output, force \in BOOLEAN : Begin(a, yes, output, force)
  \/ Apply(a) \/ Queue(a) \/ Reject(a) \/ Crash(a)

LEMMA JobTypes ==
  ASSUME TypeOK, NEW k \in DOMAIN jobs
  PROVE  jobs[k] \in [by : Applies, action : Action]
<1> DEFINE R == [by : Applies, action : Action]
<1>1. jobs \in Seq(R) /\ k \in 1 .. Len(jobs)
  BY DEF TypeOK
<1> HIDE DEF R
<1>2. jobs[k] \in R
  BY <1>1
<1> QED
  BY <1>2 DEF R

LEMMA OthersStay ==
  ASSUME TypeOK, NEW a \in Applies, Own(a), NEW b \in Applies \ {a}
  PROVE  Same(b)
<1> USE DEF TypeOK, Same, probe, batch
<1>1. CASE \E yes, output, force \in BOOLEAN : Begin(a, yes, output, force)
  BY <1>1 DEF Begin, Goto, End
<1>2. CASE \E answer \in Answers :
             Retry(a, answer) \/ ReadManifest(a, answer) \/ ReadJobs(a, answer)
  BY <1>2 DEF Retry, ReadManifest, ReadJobs, Conclude, Goto
<1>3. CASE Proceed(a) \/ NotReady(a)
  BY <1>3 DEF Proceed, NotReady, Echo, Goto, End
<1>4. CASE SendStart(a) \/ StartFails(a) \/ EndBatch(a)
  BY <1>4 DEF SendStart, StartFails, Stop, EndBatch, Goto
<1>5. CASE \E quotes \in BOOLEAN : StartSucceeds(a, quotes)
  BY <1>5 DEF StartSucceeds, Goto
<1>6. CASE EmitNothing(a) \/ EmitRefused(a) \/ Emit(a)
  BY <1>6 DEF EmitNothing, EmitRefused, Emit, Echo, Goto, End
<1>7. CASE WriteReceipt(a) \/ WriteFails(a)
  BY <1>7 DEF WriteReceipt, WriteFails, Goto, End
<1>8. CASE Queue(a) \/ Reject(a) \/ Crash(a)
  BY <1>8 DEF Queue, Reject, Crash, Goto, End
<1> QED
  BY <1>1, <1>2, <1>3, <1>4, <1>5, <1>6, <1>7, <1>8 DEF Own, Apply

\* A command that takes no step stays true while the server queues for others.
LEMMA CommandStays ==
  ASSUME TypeOK, NEW b \in Applies, ApplyIsTrue(b), Same(b),
         \/ jobs' = jobs
         \/ \E a \in Applies \ {b}, i \in Action : jobs' = Append(jobs, [by |-> a, action |-> i])
  PROVE  ApplyIsTrue(b)'
<1> USE DEF ApplyIsTrue, Same
<1>1. JobsAreTrue(b)'
  <2>1. CASE jobs' = jobs
    BY <2>1 DEF JobsAreTrue, Current
  <2>2. CASE \E a \in Applies \ {b}, i \in Action : jobs' = Append(jobs, [by |-> a, action |-> i])
    <3>1. PICK a \in Applies \ {b}, i \in Action : jobs' = Append(jobs, [by |-> a, action |-> i])
      BY <2>2
    <3> DEFINE job == [by |-> a, action |-> i]
    <3> DEFINE R == [by : Applies, action : Action]
    <3>2. job \in R /\ job.by # b /\ jobs' = Append(jobs, job) /\ jobs \in Seq(R)
      BY <3>1 DEF TypeOK
    <3> HIDE DEF job, R
    <3>3. /\ DOMAIN jobs' = DOMAIN jobs \union {Len(jobs) + 1}
          /\ \A k \in DOMAIN jobs : jobs'[k] = jobs[k]
          /\ jobs'[Len(jobs) + 1] = job
      BY <3>2
    <3>4. \A k \in DOMAIN jobs' : jobs'[k].by = b => k \in DOMAIN jobs
      BY <3>2, <3>3
    <3> QED
      BY <3>3, <3>4 DEF JobsAreTrue, Current
  <2> QED
    BY <2>1, <2>2
<1>2. StageIsTrue(b)' /\ ExitIsTrue(b)'
  BY DEF StageIsTrue, ExitIsTrue, Clean, Complete, Receipt
<1>3. GrantIsTrue(b)'
  BY DEF GrantIsTrue, Granted
<1> QED
  BY <1>1, <1>2, <1>3

\* So a step of a command that queues no job and writes no receipt need only
\* keep its own part true.
LEMMA QuietStep ==
  ASSUME IInv, NEW a \in Applies, Own(a), UNCHANGED <<jobs, file>>, TypeOK', ApplyIsTrue(a)'
  PROVE  IInv'
<1>1. \A b \in Applies : ApplyIsTrue(b)'
  BY OthersStay, CommandStays DEF IInv
<1>2. OneJobPerAction' /\ FileIsTrue'
  BY DEF IInv, OneJobPerAction, FileIsTrue
<1> QED
  BY <1>1, <1>2 DEF IInv
-----------------------------------------------------------------------------
(* The readiness verdict.                                                  *)

LEMMA VerdictTypes ==
  ASSUME NEW answer \in Answers, NEW s \in AllServers
  PROVE  /\ ManifestVerdict(answer, s) \in Verdicts \union {"go on"}
         /\ JobsVerdict(answer, s) \in Verdicts
BY DEF Answers, Verdicts, ManifestVerdict, JobsVerdict, Failure, Capability

\* The probe goes on only to a manifest that was read and names the caller, and
\* no manifest by itself makes the server ready.
LEMMA ManifestSays ==
  ASSUME NEW answer \in Answers, NEW s \in AllServers
  PROVE  /\ ManifestVerdict(answer, s) # "ready"
         /\ ManifestVerdict(answer, s) = "go on" =>
              answer = "200" /\ s.key \in {"admin", "user"}
BY DEF Answers, AllServers, ManifestVerdict, Failure

\* Ready means that the manifest grants the import.
LEMMA ReadyMeansGranted ==
  ASSUME NEW answer \in Answers, NEW s \in AllServers, JobsVerdict(answer, s) = "ready"
  PROVE  Grants(s)
<1>1. answer = "200" /\ s.contract = "ours" /\ Capability(s) = "ready"
  BY DEF Answers, AllServers, JobsVerdict, Failure
<1>2. s.declared # {} /\ ~Denied(s.declared) /\ ~Unlicensed(s)
  BY <1>1 DEF Capability
<1>3. s.declared = {TRUE}
  BY <1>2 DEF AllServers, Denied
<1>4. s.licensing = "enabled" => s.license = "valid"
  BY <1>2 DEF Unlicensed
<1> QED
  BY <1>1, <1>3, <1>4 DEF Grants

LEMMA ExitCodes ==
  ASSUME NEW v \in Verdicts
  PROVE  /\ ExitCode(v) \in Exits
         /\ v # "ready" => ExitCode(v) \in {4, 20, 40}
BY DEF Verdicts, ExitCode, Exits
-----------------------------------------------------------------------------
(* The steps before the first start.                                       *)

LEMMA BeginsKeep ==
  ASSUME IInv, NEW a \in Applies, NEW yes \in BOOLEAN, NEW output \in BOOLEAN,
         NEW force \in BOOLEAN, Begin(a, yes, output, force)
  PROVE  IInv'
<1> USE DEF IInv
<1>1. /\ UNCHANGED <<server, jobs, wire, file, printed, faults>>
      /\ UNCHANGED <<tries, seen, verdict, started, failed, unsafe>>
      /\ pc[a] = "new"
  BY DEF Begin, probe, batch
<1>2. \/ pc'[a] = "manifest" /\ exit'[a] = exit[a]
      \/ pc'[a] = "ended" /\ exit'[a] = 2
  BY DEF Begin, Goto, End, TypeOK
<1>3. TypeOK'
  BY <1>1 DEF Begin, Goto, End, TypeOK, Locations, Exits
<1>4. ApplyIsTrue(a)
  OBVIOUS
<1>5. JobsAreTrue(a)' /\ GrantIsTrue(a)'
  BY <1>1, <1>2, <1>4 DEF ApplyIsTrue, JobsAreTrue, GrantIsTrue, Granted, Current
<1>6. StageIsTrue(a)' /\ ExitIsTrue(a)'
  BY <1>1, <1>2, <1>4 DEF ApplyIsTrue, StageIsTrue, ExitIsTrue, Clean, Complete, Receipt
<1> QED
  BY <1>1, <1>3, <1>5, <1>6, QuietStep DEF ApplyIsTrue, Own

LEMMA ProbesKeep ==
  ASSUME NoneIsNone, IInv, NEW a \in Applies, NEW answer \in Answers,
         Retry(a, answer) \/ ReadManifest(a, answer) \/ ReadJobs(a, answer)
  PROVE  IInv'
<1> USE DEF IInv
<1>1. /\ UNCHANGED <<server, jobs, wire, file, opts, printed, exit, started, failed, unsafe>>
      /\ pc[a] \in {"manifest", "jobs"}
  BY DEF Retry, ReadManifest, ReadJobs, batch
<1>2. ApplyIsTrue(a) /\ Clean(a)
  BY <1>1 DEF ApplyIsTrue, StageIsTrue
<1>3. JobsAreTrue(a)'
  BY <1>1, <1>2 DEF ApplyIsTrue, JobsAreTrue, Current
<1>4. tries' \in [Applies -> 0 .. Retries] /\ faults' \in 0 .. MaxFaults
  <2>1. CASE Retry(a, answer)
    BY <2>1 DEF Retry, Fault, Attempts, TypeOK, NoneIsNone, ConstantsOK
  <2>2. CASE ReadManifest(a, answer) \/ ReadJobs(a, answer)
    <3>1. /\ tries' = [tries EXCEPT ![a] = 0]
          /\ faults' = faults \/ (faults < MaxFaults /\ faults' = faults + 1)
      BY <2>2 DEF ReadManifest, ReadJobs, Answered, Fault
    <3>2. Retries \in Nat /\ MaxFaults \in Nat
      BY DEF NoneIsNone, ConstantsOK
    <3> QED
      BY <3>1, <3>2 DEF TypeOK
  <2> QED
    BY <2>1, <2>2
<1>5. CASE Retry(a, answer)
  <2>1. UNCHANGED <<pc, seen, verdict>>
    BY <1>5 DEF Retry
  <2>2. TypeOK'
    BY <1>1, <1>4, <2>1 DEF TypeOK
  <2>3. ApplyIsTrue(a)'
    BY <1>1, <1>2, <1>3, <2>1 DEF ApplyIsTrue, StageIsTrue, GrantIsTrue, Granted, ExitIsTrue,
                                  Clean, Complete, Receipt
  <2> QED
    BY <1>1, <1>5, <2>2, <2>3, QuietStep DEF Own, Apply
<1>6. CASE ReadManifest(a, answer)
  <2> DEFINE v == ManifestVerdict(answer, server)
  <2>1. server \in AllServers /\ v \in Verdicts \union {"go on"} /\ v # "ready"
        /\ (v = "go on" => answer = "200" /\ server.key \in {"admin", "user"})
    BY VerdictTypes, ManifestSays DEF TypeOK
  <2>2. /\ seen' = [seen EXCEPT ![a] = IF answer = "200" THEN server ELSE None]
        /\ \/ v = "go on" /\ pc' = [pc EXCEPT ![a] = "jobs"] /\ verdict' = verdict
           \/ v # "go on" /\ pc' = [pc EXCEPT ![a] = "judge"]
              /\ verdict' = [verdict EXCEPT ![a] = v]
    BY <1>6 DEF ReadManifest, Conclude, Goto
  <2> HIDE DEF v
  <2>3. TypeOK'
    <3> DEFINE w == IF answer = "200" THEN server ELSE None
    <3>0. w \in AllServers \union {None} /\ seen' = [seen EXCEPT ![a] = w]
      BY <2>1, <2>2
    <3> HIDE DEF w
    <3>1. seen' \in [Applies -> AllServers \union {None}]
      BY <3>0 DEF TypeOK
    <3>2. verdict' \in [Applies -> Verdicts \union {None}]
      <4>1. verdict \in [Applies -> Verdicts \union {None}]
        BY DEF TypeOK
      <4>2. CASE v = "go on"
        BY <2>2, <4>1, <4>2
      <4>3. CASE v # "go on"
        <5>1. v \in Verdicts /\ verdict' = [verdict EXCEPT ![a] = v]
          BY <2>1, <2>2, <4>3
        <5> QED
          BY <4>1, <5>1
      <4> QED
        BY <4>2, <4>3
    <3>3. pc' \in [Applies -> Locations]
      BY <2>2 DEF TypeOK, Locations
    <3> QED
      BY <1>1, <1>4, <3>1, <3>2, <3>3 DEF TypeOK
  <2>4. \/ pc'[a] = "jobs" /\ seen'[a] \in AllServers /\ seen'[a].key \in {"admin", "user"}
        \/ pc'[a] = "judge" /\ verdict'[a] \in Verdicts \ {"ready"}
    BY <2>1, <2>2 DEF TypeOK
  <2>5. ApplyIsTrue(a)'
    BY <1>1, <1>2, <1>3, <2>4 DEF ApplyIsTrue, StageIsTrue, GrantIsTrue, ExitIsTrue, Clean,
                                  Complete, Receipt
  <2> QED
    BY <1>1, <1>6, <2>3, <2>5, QuietStep DEF Own, Apply
<1>7. CASE ReadJobs(a, answer)
  <2> DEFINE v == JobsVerdict(answer, seen[a])
  <2>1. pc[a] = "jobs" /\ seen[a] \in AllServers /\ seen[a].key \in {"admin", "user"}
    BY <1>2, <1>7 DEF ReadJobs, ApplyIsTrue, GrantIsTrue
  <2>2. v \in Verdicts /\ (v = "ready" => Grants(seen[a]))
    BY <2>1, VerdictTypes, ReadyMeansGranted
  <2>3. /\ seen' = seen
        /\ pc' = [pc EXCEPT ![a] = "judge"]
        /\ verdict' = [verdict EXCEPT ![a] = v]
    BY <1>7 DEF ReadJobs, Conclude, Goto
  <2> HIDE DEF v
  <2>4. TypeOK'
    BY <1>1, <1>4, <2>2, <2>3 DEF TypeOK, Locations
  <2>5. /\ pc'[a] = "judge" /\ verdict'[a] \in Verdicts
        /\ verdict'[a] = "ready" => Granted(a)
        /\ Granted(a)' <=> Granted(a)
    BY <2>1, <2>2, <2>3 DEF TypeOK, Granted
  <2>6. ApplyIsTrue(a)'
    BY <1>1, <1>2, <1>3, <2>5 DEF ApplyIsTrue, StageIsTrue, GrantIsTrue, ExitIsTrue, Clean,
                                  Complete, Receipt
  <2> QED
    BY <1>1, <1>7, <2>4, <2>6, QuietStep DEF Own, Apply
<1> QED
  BY <1>5, <1>6, <1>7

LEMMA VerdictsKeep ==
  ASSUME NoneIsNone, IInv, NEW a \in Applies, Proceed(a) \/ NotReady(a)
  PROVE  IInv'
<1> USE DEF IInv
<1>1. /\ UNCHANGED <<server, jobs, wire, file, opts, faults>>
      /\ UNCHANGED <<tries, seen, verdict, started, failed, unsafe>>
      /\ pc[a] = "judge"
  BY DEF Proceed, NotReady, probe, batch
<1>2. ApplyIsTrue(a) /\ Clean(a)
  BY <1>1 DEF ApplyIsTrue, StageIsTrue
<1>3. JobsAreTrue(a)'
  BY <1>1, <1>2 DEF ApplyIsTrue, JobsAreTrue, Current
<1>4. CASE Proceed(a)
  <2>1. /\ verdict[a] = "ready" /\ UNCHANGED <<printed, exit>>
        /\ pc' = [pc EXCEPT ![a] = "start"]
    BY <1>4 DEF Proceed, MayImport, Goto
  <2>2. TypeOK'
    BY <1>1, <2>1 DEF TypeOK, Locations
  <2>3. ApplyIsTrue(a)'
    <3>1. pc'[a] = "start" /\ Granted(a) /\ ~failed[a] /\ exit[a] = None
      BY <1>1, <1>2, <2>1 DEF TypeOK, ApplyIsTrue, GrantIsTrue, ExitIsTrue, StageIsTrue
    <3>2. StageIsTrue(a)'
      BY <1>1, <1>2, <2>1, <3>1 DEF StageIsTrue, Clean
    <3>3. GrantIsTrue(a)'
      BY <1>1, <1>2, <3>1 DEF GrantIsTrue, Granted, Clean
    <3>4. ExitIsTrue(a)'
      BY <1>1, <1>2, <2>1, <3>1 DEF ApplyIsTrue, ExitIsTrue, Clean, Complete, Receipt
    <3> QED
      BY <1>3, <3>2, <3>3, <3>4 DEF ApplyIsTrue
  <2> QED
    BY <1>1, <1>4, <2>2, <2>3, QuietStep DEF Own, Apply
<1>5. CASE NotReady(a)
  <2>1. verdict[a] \in Verdicts \ {"ready"} /\ ExitCode(verdict[a]) \in {4, 20, 40}
    BY <1>1, <1>2, <1>5, ExitCodes DEF NotReady, MayImport, ApplyIsTrue, StageIsTrue
  <2>2. /\ printed' = [printed EXCEPT ![a] = PreflightReport(a)]
        /\ \/ pc' = [pc EXCEPT ![a] = "write"] /\ exit' = exit
           \/ pc' = [pc EXCEPT ![a] = "ended"] /\ exit' = [exit EXCEPT ![a] = ExitCode(verdict[a])]
    BY <1>5 DEF NotReady, Echo, Goto, End
  <2>3. PreflightReport(a) \in Receipts
    BY DEF PreflightReport, Receipts
  <2>4. TypeOK'
    <3>0. exit \in [Applies -> Exits \union {None}] /\ ExitCode(verdict[a]) \in Exits
      BY <2>1 DEF TypeOK, Exits
    <3>1. exit' \in [Applies -> Exits \union {None}]
      BY <2>2, <3>0
    <3>2. printed' \in [Applies -> Receipts \union {None}]
      BY <2>2, <2>3 DEF TypeOK
    <3>3. pc' \in [Applies -> Locations]
      BY <2>2 DEF TypeOK, Locations
    <3> QED
      BY <1>1, <3>1, <3>2, <3>3 DEF TypeOK
  <2>5. /\ pc'[a] \in {"write", "ended"}
        /\ exit'[a] \in {None, 4, 20, 40} /\ (pc'[a] = "write" => exit'[a] = None)
    BY <1>1, <1>2, <2>1, <2>2 DEF TypeOK, ApplyIsTrue, ExitIsTrue
  <2>6. StageIsTrue(a)' /\ GrantIsTrue(a)'
    BY <1>1, <1>2, <2>1, <2>5 DEF ApplyIsTrue, StageIsTrue, GrantIsTrue, Clean
  <2>7. ExitIsTrue(a)'
    BY <1>1, <1>2, <2>5 DEF NoneIsNone, Exits, ExitIsTrue, Clean
  <2> QED
    BY <1>1, <1>3, <1>5, <2>4, <2>6, <2>7, QuietStep DEF Own, Apply, ApplyIsTrue
<1> QED
  BY <1>4, <1>5
-----------------------------------------------------------------------------
(* The starts.                                                             *)

LEMMA SendsKeep ==
  ASSUME NoneIsNone, IInv, NEW a \in Applies, SendStart(a) \/ EndBatch(a)
  PROVE  IInv'
<1> USE DEF IInv
<1>1. /\ UNCHANGED <<server, jobs, file, opts, printed, exit, faults>>
      /\ UNCHANGED <<tries, seen, verdict, started, failed, unsafe>>
      /\ pc[a] = "start"
  BY DEF SendStart, EndBatch, probe, batch
<1>2. ApplyIsTrue(a) /\ Granted(a) /\ wire[a] = "none" /\ ~failed[a] /\ exit[a] = None
  BY <1>1 DEF ApplyIsTrue, StageIsTrue, GrantIsTrue, ExitIsTrue
<1>3. GrantIsTrue(a)'
  BY <1>1, <1>2 DEF SendStart, EndBatch, Goto, TypeOK, GrantIsTrue, Granted
<1>4. CASE SendStart(a)
  <2>1. /\ Current(a) \in Action
        /\ wire' = [wire EXCEPT ![a] = "sent"]
        /\ pc' = [pc EXCEPT ![a] = "await"]
    BY <1>4 DEF SendStart, Goto
  <2>2. TypeOK'
    BY <1>1, <2>1 DEF TypeOK, Locations
  <2>3. pc'[a] = "await" /\ wire'[a] = "sent"
    BY <2>1 DEF TypeOK
  <2>4. JobsAreTrue(a)'
    BY <1>1, <1>2, <2>1, <2>3 DEF ApplyIsTrue, JobsAreTrue, Current
  <2>5. StageIsTrue(a)' /\ ExitIsTrue(a)'
    BY <1>1, <1>2, <2>3 DEF NoneIsNone, Exits, ApplyIsTrue, StageIsTrue, ExitIsTrue
  <2> QED
    BY <1>1, <1>3, <1>4, <2>2, <2>4, <2>5, QuietStep DEF Own, Apply, ApplyIsTrue
<1>5. CASE EndBatch(a)
  <2>1. wire' = wire /\ AllStarted(a) /\ pc' = [pc EXCEPT ![a] = "emit"]
    BY <1>5 DEF EndBatch, Goto
  <2>2. TypeOK'
    BY <1>1, <2>1 DEF TypeOK, Locations
  <2>3. pc'[a] = "emit" /\ Complete(a)
    BY <1>2, <2>1 DEF TypeOK, AllStarted, Complete
  <2>4. JobsAreTrue(a)'
    BY <1>1, <1>2, <2>1 DEF ApplyIsTrue, JobsAreTrue, Current
  <2>5. StageIsTrue(a)' /\ ExitIsTrue(a)'
    BY <1>1, <1>2, <2>1, <2>3 DEF ApplyIsTrue, StageIsTrue, ExitIsTrue, Clean, Complete, Receipt
  <2> QED
    BY <1>1, <1>3, <1>5, <2>2, <2>4, <2>5, QuietStep DEF Own, Apply, ApplyIsTrue
<1> QED
  BY <1>4, <1>5

\* The one job that a POST of this apply became: for an action none of its jobs
\* has imported yet.
LEMMA QueueKeeps ==
  ASSUME IInv, NEW a \in Applies, Queue(a)
  PROVE  IInv'
<1> USE DEF IInv
<1> DEFINE job == [by |-> a, action |-> Current(a)]
<1>1. /\ wire[a] = "sent" /\ jobs' = Append(jobs, job) /\ wire' = [wire EXCEPT ![a] = "queued"]
      /\ UNCHANGED <<server, file, pc, opts, printed, exit, faults>>
      /\ UNCHANGED <<tries, seen, verdict, started, failed, unsafe>>
  BY DEF Queue, probe, batch
<1>2. ApplyIsTrue(a) /\ JobsAreTrue(a) /\ Current(a) \in Action /\ Current(a) = Len(started[a]) + 1
  BY <1>1 DEF ApplyIsTrue, JobsAreTrue, Current
<1>3. job \in [by : Applies, action : Action] /\ job.by = a /\ job.action = Current(a)
  BY <1>2
<1>4. Len(started[a]) \in Nat
  BY DEF TypeOK
<1>5. \A k \in DOMAIN jobs : jobs[k] # job
  BY <1>1, <1>2, <1>3, <1>4 DEF JobsAreTrue
<1> HIDE DEF job
<1>6. /\ DOMAIN jobs' = DOMAIN jobs \union {Len(jobs) + 1}
      /\ \A k \in DOMAIN jobs : jobs'[k] = jobs[k]
      /\ jobs'[Len(jobs) + 1] = job
      /\ Len(jobs) + 1 \notin DOMAIN jobs
  BY <1>1, <1>3 DEF TypeOK
<1>7. TypeOK'
  BY <1>1, <1>3 DEF TypeOK
<1>8. OneJobPerAction'
  BY <1>5, <1>6 DEF OneJobPerAction
<1>9. FileIsTrue'
  BY <1>1, <1>6 DEF FileIsTrue
<1>10. wire'[a] = "queued" /\ Current(a)' = Current(a)
  BY <1>1 DEF TypeOK, Current
<1>11. JobsAreTrue(a)'
  <2>1. \A i \in 1 .. Len(started'[a]) :
          started'[a][i] \in DOMAIN jobs' /\ jobs'[started'[a][i]] = [by |-> a, action |-> i]
    BY <1>1, <1>2, <1>6 DEF JobsAreTrue
  <2>2. \A k \in DOMAIN jobs' : jobs'[k].by = a =>
          jobs'[k].action <= Len(started'[a]) \/ jobs'[k].action = Current(a)
    BY <1>1, <1>2, <1>3, <1>6 DEF JobsAreTrue
  <2>3. \E k \in DOMAIN jobs' : jobs'[k] = [by |-> a, action |-> Current(a)]
    BY <1>6 DEF job
  <2> QED
    BY <1>2, <1>10, <2>1, <2>2, <2>3 DEF JobsAreTrue
<1>12. StageIsTrue(a)' /\ GrantIsTrue(a)' /\ ExitIsTrue(a)'
  BY <1>1, <1>2, <1>10 DEF ApplyIsTrue, StageIsTrue, GrantIsTrue, Granted, ExitIsTrue, Clean,
                           Complete, Receipt
<1>13. \A b \in Applies \ {a} : ApplyIsTrue(b)'
  BY <1>1, <1>2, OthersStay, CommandStays DEF Own, job
<1> QED
  BY <1>7, <1>8, <1>9, <1>11, <1>12, <1>13 DEF ApplyIsTrue

LEMMA RejectKeeps ==
  ASSUME IInv, NEW a \in Applies, Reject(a)
  PROVE  IInv'
<1> USE DEF IInv
<1>1. /\ wire[a] = "sent" /\ wire' = [wire EXCEPT ![a] = "refused"]
      /\ UNCHANGED <<server, jobs, file, pc, opts, printed, exit, faults>>
      /\ UNCHANGED <<tries, seen, verdict, started, failed, unsafe>>
  BY DEF Reject, probe, batch
<1>2. TypeOK' /\ wire'[a] = "refused" /\ ApplyIsTrue(a)
  BY <1>1 DEF TypeOK
<1>3. JobsAreTrue(a)'
  BY <1>1, <1>2 DEF ApplyIsTrue, JobsAreTrue, Current
<1>4. StageIsTrue(a)' /\ GrantIsTrue(a)' /\ ExitIsTrue(a)'
  BY <1>1, <1>2 DEF ApplyIsTrue, StageIsTrue, GrantIsTrue, Granted, ExitIsTrue, Clean,
                    Complete, Receipt
<1> QED
  BY <1>1, <1>2, <1>3, <1>4, QuietStep DEF Own, ApplyIsTrue

\* The answer names the job of the current action, which joins the receipt.
LEMMA AnswersKeep ==
  ASSUME NoneIsNone, IInv, NEW a \in Applies, NEW quotes \in BOOLEAN, StartSucceeds(a, quotes)
  PROVE  IInv'
<1> USE DEF IInv
<1>1. /\ UNCHANGED <<server, jobs, file, opts, seen, verdict, failed, printed, exit>>
      /\ pc[a] = "await" /\ wire[a] = "queued"
      /\ started' = [started EXCEPT ![a] = Append(started[a], JobOf(a))]
      /\ unsafe' = [unsafe EXCEPT ![a] = unsafe[a] \/ quotes]
      /\ wire' = [wire EXCEPT ![a] = "none"]
      /\ tries' = [tries EXCEPT ![a] = 0]
      /\ pc' = [pc EXCEPT ![a] = "start"]
      /\ faults' = faults \/ (faults < MaxFaults /\ faults' = faults + 1)
  BY DEF StartSucceeds, Goto, Fault
<1>2. ApplyIsTrue(a) /\ JobsAreTrue(a) /\ Granted(a) /\ ~failed[a] /\ exit[a] = None
  BY <1>1 DEF ApplyIsTrue, StageIsTrue, GrantIsTrue, ExitIsTrue
<1>3. JobOf(a) \in DOMAIN jobs /\ jobs[JobOf(a)] = [by |-> a, action |-> Current(a)]
  BY <1>1, <1>2 DEF JobsAreTrue, JobOf
<1>4. JobOf(a) \in Nat /\ Current(a) \in Action /\ Current(a) = Len(started[a]) + 1
      /\ Len(started[a]) \in Nat
  BY <1>1, <1>2, <1>3 DEF TypeOK, JobsAreTrue, Current
<1>5. /\ started'[a] = Append(started[a], JobOf(a))
      /\ wire'[a] = "none" /\ pc'[a] = "start"
  BY <1>1 DEF TypeOK
<1>6. TypeOK'
  <2>1. Append(started[a], JobOf(a)) \in Seq(Nat)
    BY <1>4 DEF TypeOK
  <2>2. started' \in [Applies -> Seq(Nat)]
    BY <1>1, <2>1 DEF TypeOK
  <2>3. unsafe' \in [Applies -> BOOLEAN]
    BY <1>1 DEF TypeOK
  <2>4. tries' \in [Applies -> 0 .. Retries] /\ faults' \in 0 .. MaxFaults
    BY <1>1 DEF TypeOK, NoneIsNone, ConstantsOK
  <2>5. wire' \in [Applies -> {"none", "sent", "refused", "queued"}]
        /\ pc' \in [Applies -> Locations]
    BY <1>1 DEF TypeOK, Locations
  <2> QED
    BY <1>1, <2>2, <2>3, <2>4, <2>5 DEF TypeOK
<1>7. JobsAreTrue(a)'
  <2>1. /\ Len(started'[a]) = Current(a)
        /\ \A i \in 1 .. Len(started[a]) : started'[a][i] = started[a][i]
        /\ started'[a][Current(a)] = JobOf(a)
    BY <1>4, <1>5 DEF TypeOK
  <2>2. \A i \in 1 .. Len(started'[a]) :
          started'[a][i] \in DOMAIN jobs /\ jobs[started'[a][i]] = [by |-> a, action |-> i]
    BY <1>2, <1>3, <1>4, <2>1 DEF JobsAreTrue
  <2>3. \A k \in DOMAIN jobs : jobs[k].by = a => jobs[k].action <= Len(started'[a])
    <3>1. SUFFICES ASSUME NEW k \in DOMAIN jobs, jobs[k].by = a
                   PROVE  jobs[k].action <= Len(started[a]) + 1
      BY <1>4, <2>1
    <3>2. jobs[k].action <= Len(started[a]) \/ jobs[k].action = Current(a)
      BY <1>2, <3>1 DEF JobsAreTrue
    <3>3. jobs[k].action \in Nat
      BY <3>1, JobTypes DEF Action, NoneIsNone, ConstantsOK
    <3> QED
      BY <1>4, <3>2, <3>3
  <2> QED
    BY <1>1, <1>5, <2>2, <2>3 DEF JobsAreTrue
<1>8. StageIsTrue(a)'
  BY <1>1, <1>2, <1>5 DEF ApplyIsTrue, StageIsTrue
<1>9. GrantIsTrue(a)' /\ ExitIsTrue(a)'
  BY <1>1, <1>2, <1>5 DEF NoneIsNone, Exits, GrantIsTrue, Granted, ExitIsTrue
<1> QED
  BY <1>1, <1>6, <1>7, <1>8, <1>9, QuietStep DEF Own, Apply, ApplyIsTrue

\* A POST is sent once, so a start that fails ends the batch.
LEMMA FailuresKeep ==
  ASSUME NoneIsNone, IInv, NEW a \in Applies, StartFails(a)
  PROVE  IInv'
<1> USE DEF IInv
<1>1. ~(tries[a] + 1 < Attempts("POST"))
  BY DEF TypeOK, NoneIsNone, ConstantsOK, Attempts
<1>2. /\ UNCHANGED <<server, jobs, file, opts, seen, verdict, started, unsafe, printed, exit>>
      /\ pc[a] = "await"
      /\ failed' = [failed EXCEPT ![a] = TRUE]
      /\ pc' = [pc EXCEPT ![a] = "emit"]
      /\ UNCHANGED <<tries, wire>>
      /\ faults' = faults \/ (faults < MaxFaults /\ faults' = faults + 1)
  BY <1>1 DEF StartFails, Stop, Goto, Fault
<1>3. ApplyIsTrue(a) /\ exit[a] = None
  BY <1>2 DEF ApplyIsTrue, ExitIsTrue
<1>4. pc'[a] = "emit" /\ failed'[a]
  BY <1>2 DEF TypeOK
<1>5. TypeOK'
  <2>1. pc' \in [Applies -> Locations] /\ failed' \in [Applies -> BOOLEAN]
    BY <1>2 DEF TypeOK, Locations
  <2>2. faults' \in 0 .. MaxFaults
    BY <1>2 DEF TypeOK, NoneIsNone, ConstantsOK
  <2> QED
    BY <1>2, <2>1, <2>2 DEF TypeOK
<1>6. JobsAreTrue(a)' /\ GrantIsTrue(a)'
  BY <1>2, <1>3, <1>4 DEF ApplyIsTrue, JobsAreTrue, Current, GrantIsTrue, Granted
<1>7. StageIsTrue(a)' /\ ExitIsTrue(a)'
  BY <1>2, <1>3, <1>4 DEF NoneIsNone, Exits, ApplyIsTrue, StageIsTrue, ExitIsTrue
<1> QED
  BY <1>2, <1>5, <1>6, <1>7, QuietStep DEF Own, Apply, ApplyIsTrue
-----------------------------------------------------------------------------
(* The receipt, and the end of a command.                                  *)

LEMMA EndsKeep ==
  ASSUME NoneIsNone, IInv, NEW a \in Applies,
         EmitNothing(a) \/ EmitRefused(a) \/ Crash(a)
  PROVE  IInv'
<1> USE DEF IInv
<1>1. /\ UNCHANGED <<server, jobs, wire, file, opts, printed>>
      /\ UNCHANGED <<tries, seen, verdict, started, failed, unsafe>>
      /\ pc[a] # "ended" /\ pc' = [pc EXCEPT ![a] = "ended"]
      /\ faults' = faults \/ (faults < MaxFaults /\ faults' = faults + 1)
  BY DEF EmitNothing, EmitRefused, Crash, End, Goto, Fault, probe, batch
<1>2. PICK code \in {2, 10, 137} :
        /\ exit' = [exit EXCEPT ![a] = code]
        /\ code = 2 => started[a] = <<>>
        /\ code = 10 => started[a] # <<>> /\ unsafe[a]
  BY DEF EmitNothing, EmitRefused, Crash, End
<1>3. ApplyIsTrue(a) /\ pc'[a] = "ended" /\ exit'[a] = code
  BY <1>1, <1>2 DEF TypeOK
<1>4. TypeOK'
  <2>1. exit' \in [Applies -> Exits \union {None}]
    BY <1>2 DEF TypeOK, Exits
  <2>2. pc' \in [Applies -> Locations]
    BY <1>1 DEF TypeOK, Locations
  <2>3. faults' \in 0 .. MaxFaults
    BY <1>1 DEF TypeOK, NoneIsNone, ConstantsOK
  <2> QED
    BY <1>1, <2>1, <2>2, <2>3 DEF TypeOK
<1>5. JobsAreTrue(a)' /\ StageIsTrue(a)' /\ GrantIsTrue(a)'
  BY <1>1, <1>3 DEF ApplyIsTrue, JobsAreTrue, Current, StageIsTrue, GrantIsTrue, Granted
<1>6. ExitIsTrue(a)'
  BY <1>1, <1>2, <1>3 DEF ExitIsTrue
<1> QED
  BY <1>1, <1>4, <1>5, <1>6, QuietStep DEF Own, Apply, ApplyIsTrue

LEMMA EmitsKeep ==
  ASSUME NoneIsNone, IInv, NEW a \in Applies, Emit(a)
  PROVE  IInv'
<1> USE DEF IInv
<1>1. /\ UNCHANGED <<server, jobs, wire, file, opts, faults>>
      /\ UNCHANGED <<tries, seen, verdict, started, failed, unsafe>>
      /\ pc[a] = "emit" /\ started[a] # <<>>
      /\ printed' = [printed EXCEPT ![a] = Receipt(a)]
  BY DEF Emit, Echo, probe, batch
<1>2. \/ pc' = [pc EXCEPT ![a] = "write"] /\ exit' = exit
      \/ /\ pc' = [pc EXCEPT ![a] = "ended"]
         /\ exit' = [exit EXCEPT ![a] = IF failed[a] THEN 10 ELSE 0]
  BY DEF Emit, Goto, End
<1>3. ApplyIsTrue(a) /\ exit[a] = None /\ (failed[a] \/ Complete(a)) /\ Granted(a)
  BY <1>1 DEF ApplyIsTrue, ExitIsTrue, StageIsTrue, GrantIsTrue
<1>4. Receipt(a) \in Receipts
  BY DEF TypeOK, Receipt, Receipts
<1>5. TypeOK'
  <2>1. exit' \in [Applies -> Exits \union {None}]
    BY <1>2 DEF TypeOK, Exits
  <2>2. pc' \in [Applies -> Locations]
    BY <1>2 DEF TypeOK, Locations
  <2>3. printed' \in [Applies -> Receipts \union {None}]
    BY <1>1, <1>4 DEF TypeOK
  <2> QED
    BY <1>1, <2>1, <2>2, <2>3 DEF TypeOK
<1>6. /\ printed'[a] = Receipt(a) /\ Receipt(a)' = Receipt(a)
      /\ \/ pc'[a] = "write" /\ exit'[a] = None
         \/ pc'[a] = "ended" /\ exit'[a] = 10
         \/ pc'[a] = "ended" /\ exit'[a] = 0 /\ Complete(a)
  BY <1>1, <1>2, <1>3 DEF TypeOK, Receipt
<1>7. JobsAreTrue(a)' /\ GrantIsTrue(a)'
  BY <1>1, <1>3, <1>6 DEF ApplyIsTrue, JobsAreTrue, Current, GrantIsTrue, Granted
<1>8. StageIsTrue(a)'
  <2>1. verdict'[a] = "ready" /\ "ready" \in Verdicts
    BY <1>1, <1>3 DEF ApplyIsTrue, StageIsTrue, Verdicts
  <2> QED
    BY <1>1, <1>3, <1>6, <2>1 DEF StageIsTrue, Complete
<1>9. ExitIsTrue(a)'
  BY <1>1, <1>3, <1>6 DEF NoneIsNone, Exits, ExitIsTrue, Complete
<1> QED
  BY <1>1, <1>5, <1>7, <1>8, <1>9, QuietStep DEF Own, Apply, ApplyIsTrue

LEMMA WritesKeep ==
  ASSUME NoneIsNone, IInv, NEW a \in Applies, WriteReceipt(a) \/ WriteFails(a)
  PROVE  IInv'
<1> USE DEF IInv
<1>1. /\ UNCHANGED <<server, jobs, wire, opts, printed>>
      /\ UNCHANGED <<tries, seen, verdict, started, failed, unsafe>>
      /\ pc[a] = "write" /\ pc' = [pc EXCEPT ![a] = "ended"]
      /\ faults' = faults \/ (faults < MaxFaults /\ faults' = faults + 1)
  BY DEF WriteReceipt, WriteFails, End, Goto, Fault, probe, batch
<1>2. /\ ApplyIsTrue(a) /\ JobsAreTrue(a)
      /\ verdict[a] \in Verdicts
      /\ verdict[a] # "ready" => Clean(a) /\ ~failed[a]
      /\ verdict[a] = "ready" => /\ failed[a] \/ Complete(a)
                                 /\ started[a] # <<>>
                                 /\ printed[a] = Receipt(a)
  BY <1>1 DEF ApplyIsTrue, StageIsTrue
<1>3. verdict[a] # "ready" => ExitCode(verdict[a]) \in {4, 20, 40}
  BY <1>2, ExitCodes
<1>4. PICK code \in Exits :
        /\ exit' = [exit EXCEPT ![a] = code]
        /\ verdict[a] # "ready" => code \in {2, 4, 20, 40}
        /\ verdict[a] = "ready" => code = 10 \/ (code = 0 /\ ~failed[a])
  <2>1. CASE WriteReceipt(a)
    <3>1. exit' = [exit EXCEPT ![a] = ExitWritten(a)]
      BY <2>1 DEF WriteReceipt, End
    <3>2. /\ verdict[a] # "ready" => ExitWritten(a) \in {2, 4, 20, 40}
          /\ verdict[a] = "ready" => ExitWritten(a) = 10 \/ (ExitWritten(a) = 0 /\ ~failed[a])
      <4>1. CASE verdict[a] # "ready"
        BY <1>2, <1>3, <4>1 DEF ExitWritten, MayImport
      <4>2. CASE verdict[a] = "ready" /\ failed[a]
        BY <4>2 DEF ExitWritten, MayImport
      <4>3. CASE verdict[a] = "ready" /\ ~failed[a]
        BY <4>3 DEF ExitWritten, MayImport
      <4> QED
        BY <4>1, <4>2, <4>3
    <3> QED
      BY <3>1, <3>2 DEF Exits
  <2>2. CASE WriteFails(a)
    BY <2>2 DEF WriteFails, End, ExitUnwritten, MayImport, Exits
  <2> QED
    BY <2>1, <2>2
<1>5. pc'[a] = "ended" /\ exit'[a] = code /\ Receipt(a)' = Receipt(a)
  BY <1>1, <1>4 DEF TypeOK, Receipt
<1>6. \/ file' = file
      \/ verdict[a] = "ready" /\ file' = Receipt(a)
      \/ file' = PreflightReport(a)
  BY DEF WriteReceipt, WriteFails, MayImport
<1>7. TypeOK'
  <2>1. exit' \in [Applies -> Exits \union {None}]
    BY <1>4 DEF TypeOK
  <2>2. pc' \in [Applies -> Locations]
    BY <1>1 DEF TypeOK, Locations
  <2>3. faults' \in 0 .. MaxFaults
    BY <1>1 DEF TypeOK, NoneIsNone, ConstantsOK
  <2>4. Receipt(a) \in Receipts /\ PreflightReport(a) \in Receipts
    BY DEF TypeOK, Receipt, PreflightReport, Receipts
  <2>5. file' \in Receipts \union {None}
    BY <1>6, <2>4 DEF TypeOK
  <2> QED
    BY <1>1, <2>1, <2>2, <2>3, <2>5 DEF TypeOK
<1>8. JobsAreTrue(a)' /\ StageIsTrue(a)' /\ GrantIsTrue(a)'
  BY <1>1, <1>2, <1>5 DEF ApplyIsTrue, JobsAreTrue, Current, StageIsTrue, GrantIsTrue, Granted
<1>9. ExitIsTrue(a)'
  BY <1>1, <1>2, <1>4, <1>5 DEF ExitIsTrue, Clean, Complete
<1>10. FileIsTrue'
  <2>1. CASE file' = file
    BY <1>1, <2>1 DEF FileIsTrue
  <2>2. CASE file' = Receipt(a)
    BY <1>1, <1>2, <2>2 DEF FileIsTrue, Receipt, JobsAreTrue
  <2>3. CASE file' = PreflightReport(a)
    BY <2>3 DEF FileIsTrue, PreflightReport
  <2> QED
    BY <1>6, <2>1, <2>2, <2>3
<1>11. \A b \in Applies \ {a} : ApplyIsTrue(b)'
  BY <1>1, OthersStay, CommandStays DEF Own, Apply
<1>12. OneJobPerAction'
  BY <1>1 DEF OneJobPerAction
<1> QED
  BY <1>7, <1>8, <1>9, <1>10, <1>11, <1>12 DEF ApplyIsTrue

LEMMA ServerKeeps ==
  ASSUME NoneIsNone, IInv, NEW s \in Servers, ServerChanges(s)
  PROVE  IInv'
<1> USE DEF IInv
<1>1. /\ server' = s /\ faults < MaxFaults /\ faults' = faults + 1
      /\ UNCHANGED <<jobs, wire, file, pc, opts, printed, exit>>
      /\ UNCHANGED <<tries, seen, verdict, started, failed, unsafe>>
  BY DEF ServerChanges, Fault, probe, batch
<1>2. TypeOK'
  BY <1>1 DEF TypeOK, NoneIsNone, ConstantsOK
<1>3. \A b \in Applies : ApplyIsTrue(b)'
  BY <1>1, CommandStays DEF Same
<1>4. OneJobPerAction' /\ FileIsTrue'
  BY <1>1 DEF OneJobPerAction, FileIsTrue
<1> QED
  BY <1>2, <1>3, <1>4
-----------------------------------------------------------------------------
(* Theorems.                                                               *)

LEMMA InitIInv ==
  ASSUME NoneIsNone, Init
  PROVE  IInv
<1>1. TypeOK
  BY DEF Init, TypeOK, NoneIsNone, ConstantsOK, Locations
<1>2. OneJobPerAction /\ FileIsTrue
  BY DEF Init, OneJobPerAction, FileIsTrue
<1>3. SUFFICES ASSUME NEW a \in Applies
               PROVE  ApplyIsTrue(a)
  BY <1>1, <1>2 DEF IInv
<1>4. /\ jobs = <<>> /\ wire[a] = "none" /\ started[a] = <<>> /\ pc[a] = "new"
      /\ failed[a] = FALSE /\ exit[a] = None
  BY DEF Init
<1>5. JobsAreTrue(a)
  BY <1>4 DEF JobsAreTrue
<1>6. StageIsTrue(a) /\ GrantIsTrue(a)
  BY <1>4 DEF StageIsTrue, GrantIsTrue, Clean
<1>7. ExitIsTrue(a)
  BY <1>4 DEF NoneIsNone, Exits, ExitIsTrue
<1> QED
  BY <1>5, <1>6, <1>7 DEF ApplyIsTrue

LEMMA NextIInv ==
  ASSUME NoneIsNone, IInv, [Next]_vars
  PROVE  IInv'
<1>1. CASE \E a \in Applies : Own(a)
  <2>1. PICK a \in Applies : Own(a)
    BY <1>1
  <2>2. CASE \E yes, output, force \in BOOLEAN : Begin(a, yes, output, force)
    BY <2>2, BeginsKeep
  <2>3. CASE \E answer \in Answers :
               Retry(a, answer) \/ ReadManifest(a, answer) \/ ReadJobs(a, answer)
    BY <2>3, ProbesKeep
  <2>4. CASE Proceed(a) \/ NotReady(a) \/ SendStart(a) \/ EndBatch(a) \/ StartFails(a)
    BY <2>4, VerdictsKeep, SendsKeep, FailuresKeep
  <2>5. CASE \E quotes \in BOOLEAN : StartSucceeds(a, quotes)
    BY <2>5, AnswersKeep
  <2>6. CASE EmitNothing(a) \/ EmitRefused(a) \/ Emit(a) \/ WriteReceipt(a) \/ WriteFails(a)
    BY <2>6, EndsKeep, EmitsKeep, WritesKeep
  <2>7. CASE Queue(a) \/ Reject(a) \/ Crash(a)
    BY <2>7, QueueKeeps, RejectKeeps, EndsKeep
  <2> QED
    BY <2>1, <2>2, <2>3, <2>4, <2>5, <2>6, <2>7 DEF Own, Apply
<1>2. CASE \E s \in Servers : ServerChanges(s)
  BY <1>2, ServerKeeps
<1>3. CASE UNCHANGED vars
  <2>1. /\ UNCHANGED <<server, jobs, wire, file, pc, opts, printed, exit, faults>>
        /\ UNCHANGED <<tries, seen, verdict, started, failed, unsafe>>
    BY <1>3 DEF vars, probe, batch
  <2>2. \A b \in Applies : ApplyIsTrue(b)'
    BY <2>1, CommandStays DEF IInv, Same
  <2> QED
    BY <2>1, <2>2 DEF IInv, TypeOK, OneJobPerAction, FileIsTrue
<1> QED
  BY <1>1, <1>2, <1>3 DEF Next, Own

\* The invariant above, from which the rest follows.
THEOREM Invariance ==
  ASSUME NoneIsNone
  PROVE  Spec => []IInv
<1>1. Init => IInv
  BY InitIInv
<1>2. IInv /\ [Next]_vars => IInv'
  BY NextIInv
<1> QED
  BY <1>1, <1>2, PTL DEF Spec

LEMMA TypeOKFollows ==
  ASSUME NoneIsNone, IInv
  PROVE  TypeOK
  BY DEF IInv

\* State, receipts, verdicts and exit codes are of their types: apply ends with no code
\* but the ones that arcgis.py and target_readiness.py document.
THEOREM TypesHold ==
  ASSUME NoneIsNone
  PROVE  Spec => []TypeOK
<1>1. IInv => TypeOK
  BY TypeOKFollows
<1> QED
  BY <1>1, Invariance, PTL

LEMMA OneJobPerActionFollows ==
  ASSUME NoneIsNone, IInv
  PROVE  OneJobPerAction
  BY DEF IInv

\* A start is sent once (only GETs are repeated, _attempts of arcgis.py), so however many
\* answers are lost and however late a POST arrives, one apply queues an action once.
THEOREM OneJobPerActionHolds ==
  ASSUME NoneIsNone
  PROVE  Spec => []OneJobPerAction
<1>1. IInv => OneJobPerAction
  BY OneJobPerActionFollows
<1> QED
  BY <1>1, Invariance, PTL

LEMMA StartedInOrderFollows ==
  ASSUME NoneIsNone, IInv
  PROVE  StartedInOrder
<1>1. ASSUME IInv, NEW a \in Applies
      PROVE  /\ \A i \in DOMAIN started[a] :
                  started[a][i] \in DOMAIN jobs /\ jobs[started[a][i]] = [by |-> a, action |-> i]
             /\ \A k \in JobsOf(a) : jobs[k].action <= Len(started[a]) + 1
  <2>1. JobsAreTrue(a) /\ TypeOK
    BY <1>1 DEF IInv, ApplyIsTrue
  <2>2. DOMAIN started[a] = 1 .. Len(started[a]) /\ Len(started[a]) \in Nat
    BY <2>1 DEF TypeOK
  <2>3. ASSUME NEW k \in JobsOf(a)
        PROVE  jobs[k].action <= Len(started[a]) + 1
    <3>1. k \in DOMAIN jobs /\ jobs[k].by = a
      BY <2>3 DEF JobsOf
    <3>2. jobs[k].action <= Len(started[a]) \/ jobs[k].action = Len(started[a]) + 1
      BY <2>1, <3>1 DEF JobsAreTrue, Current
    <3>3. jobs[k].action \in Nat
      BY <2>1, <3>1, JobTypes DEF Action, NoneIsNone, ConstantsOK
    <3> QED
      BY <2>2, <3>2, <3>3
  <2> QED
    BY <2>1, <2>2, <2>3 DEF JobsAreTrue
<1> QED
  BY <1>1 DEF StartedInOrder

\* The i-th job on the receipt imports the i-th action of the plan, and no action is
\* started before its predecessors are on the receipt: the loop of _apply stops at the
\* first start that fails.
THEOREM StartedInOrderHolds ==
  ASSUME NoneIsNone
  PROVE  Spec => []StartedInOrder
<1>1. IInv => StartedInOrder
  BY StartedInOrderFollows
<1> QED
  BY <1>1, Invariance, PTL

\* Every job of an apply but the one of its last POST is on its receipt.
LEMMA KnownJobs ==
  ASSUME NoneIsNone, IInv, NEW a \in Applies, NEW k \in JobsOf(a), k \notin Known(a)
  PROVE  wire[a] = "queued" /\ jobs[k] = [by |-> a, action |-> Current(a)]
<1>1. JobsAreTrue(a) /\ TypeOK /\ OneJobPerAction
  BY DEF IInv, ApplyIsTrue
<1>2. k \in DOMAIN jobs /\ jobs[k].by = a
  BY DEF JobsOf
<1>3. jobs[k] \in [by : Applies, action : Action]
  BY <1>1, <1>2, JobTypes
<1>4. /\ jobs[k].action \in Nat \ {0}
      /\ DOMAIN started[a] = 1 .. Len(started[a]) /\ Len(started[a]) \in Nat
  <2>1. jobs[k].action \in Nat \ {0}
    BY <1>3 DEF Action, NoneIsNone, ConstantsOK
  <2>2. DOMAIN started[a] = 1 .. Len(started[a]) /\ Len(started[a]) \in Nat
    BY <1>1 DEF TypeOK
  <2> QED
    BY <2>1, <2>2
<1>5. ~(jobs[k].action <= Len(started[a]))
  <2>1. SUFFICES ASSUME jobs[k].action <= Len(started[a])
                 PROVE  FALSE
    OBVIOUS
  <2> DEFINE i == jobs[k].action
  <2>2. i \in 1 .. Len(started[a])
    BY <1>4, <2>1
  <2>3. started[a][i] \in DOMAIN jobs /\ jobs[started[a][i]] = [by |-> a, action |-> i]
    BY <1>1, <2>2 DEF JobsAreTrue
  <2>4. jobs[k] = [by |-> a, action |-> i]
    BY <1>2, <1>3
  <2>5. started[a][i] = k
    BY <1>1, <1>2, <2>3, <2>4 DEF OneJobPerAction
  <2> QED
    BY <1>4, <2>2, <2>5 DEF Known
<1>6. wire[a] = "queued" /\ jobs[k].action = Current(a)
  BY <1>1, <1>2, <1>5 DEF JobsAreTrue
<1> QED
  BY <1>2, <1>3, <1>6

LEMMA OrphanBoundFollows ==
  ASSUME NoneIsNone, IInv
  PROVE  OrphanBound
<1>1. ASSUME IInv, NEW a \in Applies
      PROVE  /\ \A j, k \in JobsOf(a) \ Known(a) : j = k
             /\ exit[a] = 0 => JobsOf(a) = Known(a) /\ Len(started[a]) = NumActions
  <2>1. JobsAreTrue(a) /\ ExitIsTrue(a) /\ OneJobPerAction /\ TypeOK
    BY <1>1 DEF IInv, ApplyIsTrue
  <2>2. \A j, k \in JobsOf(a) \ Known(a) : j = k
    BY <1>1, <2>1, KnownJobs DEF OneJobPerAction, JobsOf
  <2>3. Known(a) \subseteq JobsOf(a)
    <3>1. DOMAIN started[a] = 1 .. Len(started[a])
      BY <2>1 DEF TypeOK
    <3>2. ASSUME NEW i \in DOMAIN started[a]
          PROVE  started[a][i] \in DOMAIN jobs /\ jobs[started[a][i]].by = a
      <4>1. i \in 1 .. Len(started[a])
        BY <3>1
      <4>2. started[a][i] \in DOMAIN jobs /\ jobs[started[a][i]] = [by |-> a, action |-> i]
        BY <2>1, <4>1 DEF JobsAreTrue
      <4> QED
        BY <4>2
    <3> QED
      BY <3>2 DEF Known, JobsOf
  <2>4. exit[a] = 0 => wire[a] = "none" /\ Len(started[a]) = NumActions
    BY <2>1 DEF ExitIsTrue, Complete
  <2>5. wire[a] = "none" => JobsOf(a) \subseteq Known(a)
    BY <1>1, KnownJobs
  <2> QED
    BY <2>2, <2>3, <2>4, <2>5
<1> QED
  BY <1>1 DEF OrphanBound

\* One apply leaves at most one job that its receipt does not name (the answer to the last
\* start was lost), and none when it reports success, which then covers the whole plan.
THEOREM OrphanBoundHolds ==
  ASSUME NoneIsNone
  PROVE  Spec => []OrphanBound
<1>1. IInv => OrphanBound
  BY OrphanBoundFollows
<1> QED
  BY <1>1, Invariance, PTL

LEMMA ImportsOnlyWhereGrantedFollows ==
  ASSUME NoneIsNone, IInv
  PROVE  ImportsOnlyWhereGranted
  BY DEF IInv, ApplyIsTrue, GrantIsTrue, Granted, ImportsOnlyWhereGranted, NoneIsNone, ConstantsOK

\* A start is sent only when the manifest, as this very command read it, grants the import
\* to a known caller: preflight_target's "ready" is the only verdict that _apply accepts.
THEOREM ImportsOnlyWhereGrantedHolds ==
  ASSUME NoneIsNone
  PROVE  Spec => []ImportsOnlyWhereGranted
<1>1. IInv => ImportsOnlyWhereGranted
  BY ImportsOnlyWhereGrantedFollows
<1> QED
  BY <1>1, Invariance, PTL

LEMMA ExitTellsTruthFollows ==
  ASSUME NoneIsNone, IInv
  PROVE  ExitTellsTruth
<1>1. ASSUME IInv, NEW a \in Applies
      PROVE  /\ exit[a] = 10 => started[a] # <<>>
             /\ exit[a] = 2 => started[a] = <<>>
             /\ exit[a] \in {4, 20, 40} => JobsOf(a) = {} /\ wire[a] = "none"
  <2>1. ExitIsTrue(a)
    BY <1>1 DEF IInv, ApplyIsTrue
  <2>2. Clean(a) => JobsOf(a) = {}
    <3>1. SUFFICES ASSUME Clean(a), NEW k \in JobsOf(a)
                   PROVE  FALSE
      OBVIOUS
    <3>2. Known(a) = {}
      BY <3>1 DEF Clean, Known
    <3> QED
      BY <1>1, <3>1, <3>2, KnownJobs DEF Clean
  <2> QED
    BY <2>1, <2>2 DEF ExitIsTrue, Clean
<1> QED
  BY <1>1 DEF ExitTellsTruth

\* The exit code tells an operator what to do next: 10 when something was queued, 2 when
\* nothing is known to be, a readiness code when no start was ever sent.
THEOREM ExitTellsTruthHolds ==
  ASSUME NoneIsNone
  PROVE  Spec => []ExitTellsTruth
<1>1. IInv => ExitTellsTruth
  BY ExitTellsTruthFollows
<1> QED
  BY <1>1, Invariance, PTL

LEMMA QueuedJobsPrintedFollows ==
  ASSUME NoneIsNone, IInv
  PROVE  QueuedJobsPrinted
  BY DEF IInv, ApplyIsTrue, ExitIsTrue, QueuedJobsPrinted

\* "Echo before the file write so a queued job id survives an unwritable --output"
\* (arcgis.py): an apply that ends by itself has printed every job it can name, unless
\* the receipt was unsafe.
THEOREM QueuedJobsPrintedHolds ==
  ASSUME NoneIsNone
  PROVE  Spec => []QueuedJobsPrinted
<1>1. IInv => QueuedJobsPrinted
  BY QueuedJobsPrintedFollows
<1> QED
  BY <1>1, Invariance, PTL

LEMMA HandoffMapsJobsFollows ==
  ASSUME NoneIsNone, IInv
  PROVE  HandoffMapsJobs
<1>1. ASSUME IInv, file # None, HandoffAccepts(file), NEW i \in Action
      PROVE  /\ i \in DOMAIN file.ids
             /\ file.ids[i] \in DOMAIN jobs
             /\ jobs[file.ids[i]] = [by |-> file.by, action |-> i]
  <2>1. file \in Receipts /\ file.kind = "apply" /\ Len(file.ids) = NumActions
    BY <1>1 DEF IInv, TypeOK, HandoffAccepts
  <2>2. file.ids \in Seq(Nat)
    BY <2>1 DEF Receipts
  <2>3. i \in 1 .. Len(file.ids) /\ DOMAIN file.ids = 1 .. Len(file.ids)
    BY <2>1, <2>2 DEF Action
  <2> QED
    BY <1>1, <2>1, <2>3 DEF IInv, FileIsTrue
<1> QED
  BY <1>1 DEF HandoffMapsJobs

\* A handoff that accepts the receipt in the file maps each action of the plan to the job
\* that imported it, whichever apply wrote the file last.
THEOREM HandoffMapsJobsHolds ==
  ASSUME NoneIsNone
  PROVE  Spec => []HandoffMapsJobs
<1>1. IInv => HandoffMapsJobs
  BY HandoffMapsJobsFollows
<1> QED
  BY <1>1, Invariance, PTL
=============================================================================
