------------------------ MODULE GeoServerImport_proofs ------------------------
(***************************************************************************)
(* Proofs about GeoServerImport, for any commands, servers, ids and        *)
(* requests: one command makes at most one job, and apply imports only     *)
(* what its own server has rehearsed.                                      *)
(*                                                                         *)
(* The argument for the second: a completed job never changes, and no two  *)
(* of them completed at the same time, on one server or on two.  So the    *)
(* completion time in a sealed plan names one job of one server, and the   *)
(* server that shows it under the plan's id is the one that ran it.        *)
(***************************************************************************)
EXTENDS GeoServerImport, TLAPS

-----------------------------------------------------------------------------
(* The inductive invariant.                                                *)

Points == {"idle", "start", "sent-start", "status", "sent-status", "emit", "write", "ended"}

Records ==
  [kind : Kinds \union {None}, pc : Points, server : Servers \union {None},
   request : Asked \union {None}, id : Ids \union {None}, at : Nat, tries : Nat,
   reply : Replies \union {None}, late : BOOLEAN, made : Nat, named : BOOLEAN,
   printed : BOOLEAN, ok : BOOLEAN]

Flights == [dry : BOOLEAN, request : Asked]

Typed ==
  /\ jobs \in [Servers -> [Ids -> Jobs \union {None}]]
  /\ mark \in Nat
  /\ plan \in Plans \union {None}
  /\ cmd \in [Commands -> Records]
  /\ flight \in [Commands -> Flights \union {None}]

\* Completed jobs are told apart by the time of their completion.
Completed(s, i) == jobs[s][i] # None /\ jobs[s][i].status = "completed"

MarksDiffer ==
  /\ \A s \in Servers, i \in Ids : Completed(s, i) => jobs[s][i].at < mark
  /\ \A s, t \in Servers, i, j \in Ids :
       Completed(s, i) /\ Completed(t, j) /\ jobs[s][i].at = jobs[t][j].at => s = t /\ i = j

DryRun(s, i, q) == jobs[s][i] # None /\ jobs[s][i].dry /\ jobs[s][i].request = q

Rehearsed(s, i, a, q) ==
  /\ Completed(s, i)
  /\ jobs[s][i].dry
  /\ jobs[s][i].at = a
  /\ Redacted(jobs[s][i].request) = q

PlanIsTrue ==
  plan # None /\ plan.sealed => \E s \in Servers : Rehearsed(s, plan.id, plan.at, plan.request)

Fresh(c) == cmd[c].made = 0 /\ flight[c] = None

\* A command that may still send its start has made no job, and none is under way.
OneJob(c) ==
  /\ cmd[c].made <= 1
  /\ flight[c] # None => cmd[c].made = 0
  /\ cmd[c].pc \in {"idle", "start"} => Fresh(c)
  /\ cmd[c].kind = "apply" /\ cmd[c].pc \in {"status", "sent-status"} => Fresh(c)
  /\ cmd[c].pc = "sent-start" => cmd[c].tries >= 1

\* Where a command stands says what it is about.
Shape(c) ==
  /\ cmd[c].pc \notin {"idle", "ended"} \/ flight[c] # None => cmd[c].server \in Servers
  /\ cmd[c].pc \notin {"idle", "ended"} => cmd[c].kind \in Kinds
  /\ cmd[c].pc \in {"start", "sent-start"} => cmd[c].kind \in {"plan", "apply"}
  /\ cmd[c].pc \in {"start", "sent-start"} => cmd[c].request \in Asked
  /\ cmd[c].pc \in {"status", "sent-status"} => cmd[c].id \in Ids
  /\ cmd[c].kind = "plan" /\ cmd[c].pc \notin {"idle", "ended"} => cmd[c].request \in Requests
  /\ cmd[c].kind = "apply" /\ cmd[c].pc \notin {"idle", "ended"} => cmd[c].request \in Asked

\* The answers that a command has yet to read.
ReplyIsTrue(c) ==
  cmd[c].reply # None =>
    /\ cmd[c].reply.kind = "started" =>
         /\ cmd[c].pc = "sent-start"
         /\ cmd[c].reply.id \in Ids
         /\ cmd[c].kind = "plan" => DryRun(cmd[c].server, cmd[c].reply.id, cmd[c].request)
    /\ cmd[c].reply.kind = "job" =>
         /\ cmd[c].pc = "sent-status"
         /\ cmd[c].reply.job \in Jobs
         /\ cmd[c].reply.job.status = "completed" =>
              Completed(cmd[c].server, cmd[c].id) /\ jobs[cmd[c].server][cmd[c].id] = cmd[c].reply.job
    /\ cmd[c].reply.kind \in {"busy", "broken"} => cmd[c].pc \in {"sent-start", "sent-status"}

PlanRuns(c) ==
  cmd[c].kind = "plan" =>
    /\ cmd[c].pc \in {"status", "sent-status", "emit", "write"} =>
         cmd[c].id \in Ids /\ DryRun(cmd[c].server, cmd[c].id, cmd[c].request)
    /\ cmd[c].pc \in {"emit", "write"} =>
         /\ Completed(cmd[c].server, cmd[c].id)
         /\ jobs[cmd[c].server][cmd[c].id].at = cmd[c].at

ApplyRuns(c) ==
  cmd[c].kind = "apply" =>
    /\ cmd[c].pc \in {"status", "sent-status"} =>
         \E s \in Servers : Rehearsed(s, cmd[c].id, cmd[c].at, cmd[c].request)
    /\ cmd[c].pc \in {"start", "sent-start"} =>
         \E d \in Ids : Rehearsed(cmd[c].server, d, cmd[c].at, cmd[c].request)

\* What the server may still take.
FlightIsTrue(c) ==
  flight[c] # None =>
    /\ cmd[c].pc = "sent-start" /\ cmd[c].kind = "plan" =>
         flight[c].dry /\ flight[c].request = cmd[c].request
    /\ ~flight[c].dry =>
         \E d \in Ids, a \in Nat : Rehearsed(cmd[c].server, d, a, flight[c].request)

CommandIsTrue(c) ==
  OneJob(c) /\ Shape(c) /\ ReplyIsTrue(c) /\ PlanRuns(c) /\ ApplyRuns(c) /\ FlightIsTrue(c)

ImportsAreTrue ==
  \A s \in Servers, i \in Ids :
    jobs[s][i] # None /\ ~jobs[s][i].dry =>
      \E d \in Ids, a \in Nat : Rehearsed(s, d, a, jobs[s][i].request)

IInv ==
  /\ Typed
  /\ MarksDiffer
  /\ PlanIsTrue
  /\ \A c \in Commands : CommandIsTrue(c)
  /\ ImportsAreTrue
-----------------------------------------------------------------------------
(* Jobs only come and go on; a completed one stays as it is.               *)

\* None is a value of its own.
Apart == None \notin Jobs

Kept ==
  \A s \in Servers, i \in Ids :
    jobs[s][i] # None =>
      /\ jobs'[s][i] # None
      /\ jobs'[s][i].dry = jobs[s][i].dry
      /\ jobs'[s][i].request = jobs[s][i].request
      /\ jobs[s][i].status = "completed" => jobs'[s][i] = jobs[s][i]

\* A command that takes no step stays true while jobs go on.
LEMMA CommandStays ==
  ASSUME Kept, NEW c \in Commands, CommandIsTrue(c), cmd'[c] = cmd[c], flight'[c] = flight[c]
  PROVE  CommandIsTrue(c)'
<1>1. OneJob(c)' /\ Shape(c)'
  BY DEF CommandIsTrue, OneJob, Shape, Fresh
<1>2. ReplyIsTrue(c)'
  BY DEF CommandIsTrue, Shape, ReplyIsTrue, DryRun, Completed, Kept
<1>3. PlanRuns(c)'
  BY DEF CommandIsTrue, Shape, PlanRuns, DryRun, Completed, Kept
<1>4. ApplyRuns(c)'
  BY DEF CommandIsTrue, Shape, ApplyRuns, Rehearsed, Completed, Kept
<1>5. FlightIsTrue(c)'
  BY DEF CommandIsTrue, Shape, FlightIsTrue, Rehearsed, Completed, Kept
<1> QED
  BY <1>1, <1>2, <1>3, <1>4, <1>5 DEF CommandIsTrue

\* A step of one command that leaves jobs and plan alone need only keep its own
\* part true.
LEMMA QuietStep ==
  ASSUME IInv, NEW c \in Commands, Typed', CommandIsTrue(c)', UNCHANGED <<jobs, mark, plan>>,
         \A d \in Commands \ {c} : cmd'[d] = cmd[d] /\ flight'[d] = flight[d]
  PROVE  IInv'
<1>1. Kept
  BY DEF Kept
<1>2. \A d \in Commands : CommandIsTrue(d)'
  BY <1>1, CommandStays DEF IInv
<1>3. MarksDiffer' /\ PlanIsTrue' /\ ImportsAreTrue'
  BY DEF IInv, MarksDiffer, PlanIsTrue, ImportsAreTrue, Rehearsed, Completed
<1> QED
  BY <1>2, <1>3 DEF IInv
-----------------------------------------------------------------------------
(* The steps of a command that leave jobs and plan alone.                  *)

\* A command that ends may have its start under way, and nothing else.
LEMMA EndsTrue ==
  ASSUME IInv, NEW c \in Commands, NEW ok \in BOOLEAN, Ends(c, ok), flight' = flight,
         UNCHANGED <<jobs, mark>>, plan' \in Plans \union {None}
  PROVE  /\ Typed' /\ CommandIsTrue(c)'
         /\ \A d \in Commands \ {c} : cmd'[d] = cmd[d] /\ flight'[d] = flight[d]
<1>1. Typed'
  BY DEF IInv, Typed, Ends, Goes, Idle, Records, Points
<1>2. /\ cmd'[c].pc = "ended" /\ cmd'[c].reply = None /\ cmd'[c].made = cmd[c].made
      /\ cmd'[c].server = cmd[c].server
  BY DEF IInv, Typed, Ends, Goes, Idle, Records
<1>3. CommandIsTrue(c)
  BY DEF IInv
<1>4. OneJob(c)' /\ Shape(c)'
  BY <1>2, <1>3 DEF CommandIsTrue, OneJob, Shape, Fresh
<1>5. ReplyIsTrue(c)' /\ PlanRuns(c)' /\ ApplyRuns(c)'
  BY <1>2 DEF ReplyIsTrue, PlanRuns, ApplyRuns
<1>6. FlightIsTrue(c)'
  BY <1>2, <1>3 DEF CommandIsTrue, FlightIsTrue, Rehearsed, Completed
<1>7. \A d \in Commands \ {c} : cmd'[d] = cmd[d] /\ flight'[d] = flight[d]
  BY DEF IInv, Typed, Ends, Goes
<1> QED
  BY <1>1, <1>4, <1>5, <1>6, <1>7 DEF CommandIsTrue

LEMMA FailsKeeps ==
  ASSUME IInv, NEW c \in Commands, Fails(c), UNCHANGED <<jobs, mark, plan, flight>>
  PROVE  IInv'
<1>1. plan' \in Plans \union {None}
  BY DEF IInv, Typed
<1>2. Ends(c, FALSE)
  BY DEF Fails
<1> QED
  BY <1>1, <1>2, EndsTrue, QuietStep

LEMMA BeginsKeep ==
  ASSUME IInv, NEW c \in Commands, NEW s \in Servers,
         \/ \E r \in Requests, force \in BOOLEAN : BeginPlan(c, s, r, force)
         \/ BeginApply(c, s)
         \/ \E i \in Ids, k \in Kinds : BeginLook(c, s, i, k)
  PROVE  IInv'
<1> USE DEF IInv
<1>1. UNCHANGED <<jobs, mark, plan, flight>> /\ cmd[c].pc = "idle"
  BY DEF BeginPlan, BeginApply, BeginLook
<1>2. Fresh(c) /\ flight[c] = None
  BY <1>1 DEF CommandIsTrue, OneJob, Fresh
<1>3. CASE \E r \in Requests, force \in BOOLEAN : BeginPlan(c, s, r, force)
  <2>1. PICK r \in Requests, force \in BOOLEAN : BeginPlan(c, s, r, force)
    BY <1>3
  <2>2. Typed'
    BY <1>1, <2>1 DEF Typed, BeginPlan, Goes, Idle, Records, Points, Kinds, Asked
  <2>3. /\ cmd'[c].kind = "plan" /\ cmd'[c].server = s /\ cmd'[c].request = r
        /\ cmd'[c].pc \in {"start", "ended"} /\ cmd'[c].made = 0 /\ cmd'[c].reply = None
    BY <2>1 DEF Typed, BeginPlan, Goes, Idle
  <2>4. r \in Asked
    BY DEF Asked
  <2>5. CommandIsTrue(c)'
    BY <1>1, <1>2, <2>3, <2>4 DEF CommandIsTrue, OneJob, Shape, Fresh, ReplyIsTrue, PlanRuns,
                                  ApplyRuns, FlightIsTrue, Kinds
  <2> QED
    BY <1>1, <2>1, <2>2, <2>5, QuietStep DEF Typed, BeginPlan, Goes
<1>4. CASE BeginApply(c, s)
  <2>1. CASE Loadable
    <3>0. cmd' = [cmd EXCEPT ![c] =
                    [Idle EXCEPT !.kind = "apply", !.server = s, !.request = plan.request,
                                 !.id = plan.id, !.at = plan.at, !.pc = "status"]]
      BY <1>4, <2>1, Zenon DEF BeginApply, Goes
    <3>1. /\ cmd'[c] = [Idle EXCEPT !.kind = "apply", !.server = s, !.request = plan.request,
                                    !.id = plan.id, !.at = plan.at, !.pc = "status"]
          /\ plan \in Plans
      BY <2>1, <3>0 DEF Typed, Loadable
    <3>2. PICK t \in Servers : Rehearsed(t, plan.id, plan.at, plan.request)
      BY <2>1 DEF PlanIsTrue, Loadable
    <3>3. OneJob(c)' /\ Shape(c)' /\ ReplyIsTrue(c)' /\ PlanRuns(c)' /\ FlightIsTrue(c)'
      BY <1>1, <1>2, <3>1 DEF Idle, OneJob, Shape, Fresh, ReplyIsTrue, PlanRuns, FlightIsTrue,
                              Kinds, Plans
    <3>4. ApplyRuns(c)'
      BY <1>1, <3>1, <3>2 DEF Idle, ApplyRuns, Rehearsed, Completed
    <3>5. Typed'
      BY <1>1, <3>0, <3>1 DEF Typed, Idle, Records, Points, Kinds, Plans
    <3> QED
      BY <1>1, <1>4, <3>3, <3>4, <3>5, QuietStep DEF Typed, BeginApply, Goes, CommandIsTrue
  <2>2. CASE ~Loadable
    <3>0. cmd' = [cmd EXCEPT ![c] = [Idle EXCEPT !.kind = "apply", !.server = s, !.pc = "ended"]]
      BY <1>4, <2>2, Zenon DEF BeginApply, Goes
    <3>1. /\ cmd'[c].pc = "ended" /\ cmd'[c].made = 0 /\ cmd'[c].reply = None
          /\ cmd'[c].kind = "apply"
      BY <3>0 DEF Typed, Idle
    <3>2. CommandIsTrue(c)'
      BY <1>1, <1>2, <3>1 DEF CommandIsTrue, OneJob, Shape, Fresh, ReplyIsTrue, PlanRuns,
                              ApplyRuns, FlightIsTrue
    <3>3. Typed'
      BY <1>1, <3>0 DEF Typed, Idle, Records, Points, Kinds
    <3> QED
      BY <1>1, <1>4, <3>2, <3>3, QuietStep DEF Typed, BeginApply, Goes
  <2> QED
    BY <2>1, <2>2
<1>5. CASE \E i \in Ids, k \in Kinds : BeginLook(c, s, i, k)
  <2>1. PICK i \in Ids, k \in Kinds : BeginLook(c, s, i, k)
    BY <1>5
  <2>2. /\ cmd' = [cmd EXCEPT ![c] = [Idle EXCEPT !.kind = k, !.server = s, !.id = i, !.pc = "status"]]
        /\ k \in {"status", "resume"}
    BY <2>1 DEF BeginLook, Goes
  <2>3. Typed'
    BY <1>1, <2>2 DEF Typed, Idle, Records, Points, Kinds
  <2>4. /\ cmd'[c].kind = k /\ cmd'[c].pc = "status" /\ cmd'[c].server = s /\ cmd'[c].id = i
        /\ cmd'[c].made = 0 /\ cmd'[c].reply = None
    BY <1>1, <2>2 DEF Typed, Idle
  <2>5. CommandIsTrue(c)'
    BY <1>1, <1>2, <2>2, <2>4 DEF CommandIsTrue, OneJob, Shape, Fresh, ReplyIsTrue, PlanRuns,
                                  ApplyRuns, FlightIsTrue, Kinds
  <2> QED
    BY <1>1, <2>1, <2>3, <2>5, QuietStep DEF Typed, BeginLook, Goes
<1> QED
  BY <1>3, <1>4, <1>5

\* Sending: the start goes out once, for what the server has rehearsed.
LEMMA SendsKeep ==
  ASSUME IInv, NEW c \in Commands, SendStart(c) \/ SendStatus(c)
  PROVE  IInv'
<1> USE DEF IInv
<1>1. CommandIsTrue(c) /\ cmd[c] \in Records /\ UNCHANGED <<jobs, mark, plan>>
  BY DEF Typed, SendStart, SendStatus
<1>2. CASE SendStart(c)
  <2>1. /\ cmd[c].pc = "start"
        /\ cmd'[c] = [cmd[c] EXCEPT !.pc = "sent-start", !.tries = @ + 1]
        /\ flight'[c] = [dry |-> cmd[c].kind = "plan", request |-> cmd[c].request]
    BY <1>2 DEF Typed, SendStart, Goes
  <2>2. Fresh(c) /\ cmd[c].server \in Servers /\ cmd[c].request \in Asked
        /\ cmd[c].kind \in {"plan", "apply"} /\ cmd[c].reply = None
    BY <1>1, <2>1 DEF CommandIsTrue, OneJob, Shape, ReplyIsTrue, Records, Replies
  <2> DEFINE f == [dry |-> cmd[c].kind = "plan", request |-> cmd[c].request]
  <2>10. cmd'[c] \in Records
    <3>1. cmd[c].tries + 1 \in Nat /\ "sent-start" \in Points
      BY <1>1 DEF Records, Points
    <3> QED
      BY <1>1, <2>1, <3>1 DEF Records
  <2>11. cmd'[c] \in Records /\ cmd' = [cmd EXCEPT ![c] = cmd'[c]]
    BY <1>2, <2>1, <2>10 DEF Typed, SendStart, Goes
  <2>12. f \in Flights /\ flight' = [flight EXCEPT ![c] = f]
    BY <1>2, <2>2 DEF Typed, SendStart, Flights
  <2>13. f.request = cmd[c].request /\ (f.dry <=> cmd[c].kind = "plan")
    OBVIOUS
  <2>3. Typed'
    BY <1>1, <2>11, <2>12 DEF Typed
  <2>4. OneJob(c)' /\ Shape(c)'
    BY <1>1, <2>1, <2>2 DEF CommandIsTrue, OneJob, Shape, Fresh, Records
  <2>7. ReplyIsTrue(c)' /\ PlanRuns(c)'
    BY <1>1, <2>1, <2>2 DEF ReplyIsTrue, PlanRuns, Records
  <2>5. ApplyRuns(c)'
    BY <1>1, <2>1 DEF CommandIsTrue, ApplyRuns, Rehearsed, Completed, Records
  <2> HIDE DEF f
  <2>14. cmd[c].at \in Nat /\ flight'[c] = f /\ cmd'[c].server = cmd[c].server
        /\ cmd'[c].request = cmd[c].request /\ cmd'[c].kind = cmd[c].kind
    BY <1>1, <2>1, <2>12 DEF Typed, Records
  <2>6. FlightIsTrue(c)'
    BY <1>1, <2>1, <2>2, <2>13, <2>14 DEF CommandIsTrue, ApplyRuns, FlightIsTrue, Rehearsed, Completed
  <2>8. CommandIsTrue(c)'
    BY <2>4, <2>5, <2>6, <2>7 DEF CommandIsTrue
  <2>9. \A d \in Commands \ {c} : cmd'[d] = cmd[d] /\ flight'[d] = flight[d]
    BY <1>2 DEF Typed, SendStart, Goes
  <2> QED
    BY <1>1, <2>3, <2>8, <2>9, QuietStep
<1>3. CASE SendStatus(c)
  <2>1. /\ cmd[c].pc = "status"
        /\ cmd'[c] = [cmd[c] EXCEPT !.pc = "sent-status", !.tries = @ + 1]
        /\ flight'[c] = flight[c]
    BY <1>3 DEF Typed, SendStatus, Goes
  <2>10. cmd'[c] \in Records
    <3>1. cmd[c].tries + 1 \in Nat /\ "sent-status" \in Points
      BY <1>1 DEF Records, Points
    <3> QED
      BY <1>1, <2>1, <3>1 DEF Records
  <2>11. cmd'[c] \in Records /\ cmd' = [cmd EXCEPT ![c] = cmd'[c]]
    BY <1>3, <2>1, <2>10 DEF Typed, SendStatus, Goes
  <2>2. Typed'
    BY <1>1, <1>3, <2>11 DEF Typed, SendStatus
  <2>3. OneJob(c)' /\ Shape(c)' /\ PlanRuns(c)'
    BY <1>1, <2>1 DEF CommandIsTrue, OneJob, Shape, Fresh, PlanRuns, Records, DryRun, Completed
  <2>5. cmd[c].reply = None
    BY <1>1, <2>1 DEF CommandIsTrue, ReplyIsTrue, Records, Replies
  <2>6. ReplyIsTrue(c)'
    BY <1>1, <2>1, <2>5 DEF ReplyIsTrue, Records
  <2>4. ApplyRuns(c)' /\ FlightIsTrue(c)'
    BY <1>1, <2>1 DEF CommandIsTrue, ApplyRuns, FlightIsTrue, Rehearsed, Completed, Records
  <2> QED
    BY <1>1, <1>3, <2>2, <2>3, <2>4, <2>6, QuietStep DEF Typed, SendStatus, Goes, CommandIsTrue
<1> QED
  BY <1>2, <1>3

\* What the network and the server do to a request, but for taking it.
LEMMA AnswersKeep ==
  ASSUME IInv, NEW c \in Commands,
         Drop(c) \/ Show(c) \/ (\E k \in {"busy", "broken"} : Refuse(c, k)) \/ Late(c)
  PROVE  IInv'
<1> USE DEF IInv
<1>1. CommandIsTrue(c) /\ cmd[c] \in Records /\ UNCHANGED <<jobs, mark, plan>>
  BY DEF Typed, Drop, Show, Refuse, Late
<1>2. CASE Drop(c)
  <2>1. Typed' /\ cmd' = cmd /\ flight'[c] = None
    BY <1>1, <1>2 DEF Typed, Drop
  <2>2. OneJob(c)' /\ Shape(c)' /\ FlightIsTrue(c)'
    BY <1>1, <2>1 DEF CommandIsTrue, OneJob, Shape, Fresh, FlightIsTrue
  <2>3. ReplyIsTrue(c)' /\ PlanRuns(c)' /\ ApplyRuns(c)'
    BY <1>1, <2>1 DEF CommandIsTrue, ReplyIsTrue, PlanRuns, ApplyRuns, DryRun, Rehearsed, Completed
  <2> QED
    BY <1>1, <1>2, <2>1, <2>2, <2>3, QuietStep DEF Typed, Drop, CommandIsTrue
<1>3. CASE Show(c)
  <2> DEFINE j == jobs[cmd[c].server][cmd[c].id]
  <2>1. /\ cmd[c].pc = "sent-status" /\ cmd[c].server \in Servers /\ cmd[c].id \in Ids
        /\ j \in Jobs \union {None} /\ flight' = flight
    BY <1>1, <1>3 DEF Typed, Show, CommandIsTrue, Shape
  <2>2. PICK r \in Replies :
          /\ cmd' = [cmd EXCEPT ![c] = [cmd[c] EXCEPT !.reply = r]]
          /\ r = [kind |-> "broken"] \/ (j # None /\ r = [kind |-> "job", job |-> j])
    BY <1>3, <2>1 DEF Show, Goes, Replies
  <2>3. Typed' /\ cmd'[c] = [cmd[c] EXCEPT !.reply = r]
    BY <1>1, <2>1, <2>2 DEF Typed, Records
  <2>4. OneJob(c)' /\ Shape(c)' /\ PlanRuns(c)'
    BY <1>1, <2>1, <2>3 DEF CommandIsTrue, OneJob, Shape, Fresh, PlanRuns, Records, DryRun, Completed
  <2>5. ApplyRuns(c)' /\ FlightIsTrue(c)'
    BY <1>1, <2>1, <2>3 DEF CommandIsTrue, ApplyRuns, FlightIsTrue, Rehearsed, Completed, Records
  <2>6. ReplyIsTrue(c)'
    BY <1>1, <2>1, <2>2, <2>3 DEF ReplyIsTrue, Completed, Records
  <2> QED
    BY <1>1, <2>1, <2>2, <2>3, <2>4, <2>5, <2>6, QuietStep DEF Typed, CommandIsTrue
<1>4. CASE \E k \in {"busy", "broken"} : Refuse(c, k)
  <2>1. PICK k \in {"busy", "broken"} : Refuse(c, k)
    BY <1>4
  <2>2. /\ cmd[c].pc \in {"sent-start", "sent-status"} /\ flight' = flight
        /\ cmd'[c] = [cmd[c] EXCEPT !.reply = [kind |-> k]]
    BY <2>1 DEF Typed, Refuse, Goes
  <2>3. Typed'
    BY <1>1, <2>1 DEF Typed, Refuse, Goes, Records, Replies
  <2>4. OneJob(c)' /\ Shape(c)' /\ PlanRuns(c)'
    BY <1>1, <2>2 DEF CommandIsTrue, OneJob, Shape, Fresh, PlanRuns, Records, DryRun, Completed
  <2>6. ReplyIsTrue(c)'
    BY <1>1, <2>2 DEF ReplyIsTrue, Records
  <2>5. ApplyRuns(c)' /\ FlightIsTrue(c)'
    BY <1>1, <2>2 DEF CommandIsTrue, ApplyRuns, FlightIsTrue, Rehearsed, Completed, Records
  <2> QED
    BY <1>1, <2>1, <2>2, <2>3, <2>4, <2>5, <2>6, QuietStep DEF Typed, Refuse, Goes, CommandIsTrue
<1>5. CASE Late(c)
  <2>1. cmd'[c] = [cmd[c] EXCEPT !.late = TRUE] /\ flight' = flight
    BY <1>5 DEF Typed, Late, Goes
  <2>2. Typed'
    BY <1>1, <1>5 DEF Typed, Late, Goes, Records
  <2>3. OneJob(c)' /\ Shape(c)' /\ PlanRuns(c)'
    BY <1>1, <2>1 DEF CommandIsTrue, OneJob, Shape, Fresh, PlanRuns, Records, DryRun, Completed
  <2>5. ReplyIsTrue(c)'
    BY <1>1, <2>1 DEF CommandIsTrue, ReplyIsTrue, Records, DryRun, Completed
  <2>4. ApplyRuns(c)' /\ FlightIsTrue(c)'
    BY <1>1, <2>1 DEF CommandIsTrue, ApplyRuns, FlightIsTrue, Rehearsed, Completed, Records
  <2> QED
    BY <1>1, <1>5, <2>1, <2>2, <2>3, <2>4, <2>5, QuietStep DEF Typed, Late, Goes, CommandIsTrue
<1> QED
  BY <1>2, <1>3, <1>4, <1>5

\* Only a GET is sent again.
LEMMA AgainKeeps ==
  ASSUME IInv, NEW c \in Commands, Again(c), cmd[c].pc \in {"sent-start", "sent-status"},
         UNCHANGED <<jobs, mark, plan, flight>>
  PROVE  IInv'
<1> USE DEF IInv
<1>1. CommandIsTrue(c) /\ cmd[c] \in Records
  BY DEF Typed
<1>2. CASE cmd[c].tries < Attempts(c)
  <2>1. cmd[c].pc = "sent-status"
    BY <1>1, <1>2 DEF CommandIsTrue, OneJob, Attempts, Records
  <2>2. cmd' = [cmd EXCEPT ![c] = [cmd[c] EXCEPT !.reply = None, !.pc = "status"]]
    BY <1>1, <1>2, <2>1 DEF Again, Goes, Records
  <2>3. Typed' /\ cmd'[c] = [cmd[c] EXCEPT !.reply = None, !.pc = "status"]
    BY <1>1, <2>2 DEF Typed, Records, Points
  <2>4. OneJob(c)' /\ Shape(c)' /\ PlanRuns(c)'
    BY <1>1, <2>1, <2>3 DEF CommandIsTrue, OneJob, Shape, Fresh, PlanRuns, Records, DryRun, Completed
  <2>5. ApplyRuns(c)' /\ FlightIsTrue(c)'
    BY <1>1, <2>1, <2>3 DEF CommandIsTrue, ApplyRuns, FlightIsTrue, Rehearsed, Completed, Records
  <2>6. ReplyIsTrue(c)'
    BY <1>1, <2>3 DEF ReplyIsTrue, Records
  <2> QED
    BY <2>2, <2>3, <2>4, <2>5, <2>6, QuietStep DEF Typed, CommandIsTrue
<1>3. CASE ~(cmd[c].tries < Attempts(c))
  <2>1. Fails(c)
    BY <1>3 DEF Again
  <2> QED
    BY <2>1, FailsKeeps
<1> QED
  BY <1>2, <1>3

LEMMA RefusalsKeep ==
  ASSUME IInv, NEW c \in Commands, LoseAnswer(c) \/ ReceiveRefusal(c)
  PROVE  IInv'
<1>1. CASE LoseAnswer(c)
  BY <1>1, AgainKeeps DEF LoseAnswer
<1>2. CASE ReceiveRefusal(c)
  <2>1. cmd[c].pc \in {"sent-start", "sent-status"}
    BY <1>2 DEF IInv, CommandIsTrue, ReplyIsTrue, ReceiveRefusal
  <2> QED
    BY <1>2, <2>1, AgainKeeps, FailsKeeps DEF ReceiveRefusal
<1> QED
  BY <1>1, <1>2

\* A plan goes on with the job it was told of, an apply is done.
LEMMA StartedKeeps ==
  ASSUME IInv, NEW c \in Commands, ReceiveStarted(c)
  PROVE  IInv'
<1> USE DEF IInv
<1>1. CommandIsTrue(c) /\ cmd[c] \in Records /\ UNCHANGED <<jobs, mark, plan, flight>>
  BY DEF Typed, ReceiveStarted
<1>2. /\ cmd[c].pc = "sent-start" /\ cmd[c].kind \in {"plan", "apply"} /\ cmd[c].reply.id \in Ids
      /\ cmd[c].kind = "plan" => DryRun(cmd[c].server, cmd[c].reply.id, cmd[c].request)
  BY <1>1 DEF CommandIsTrue, ReplyIsTrue, Shape, ReceiveStarted
<1>3. CASE cmd[c].kind = "plan"
  <2>1. cmd' = [cmd EXCEPT ![c] = [cmd[c] EXCEPT !.reply = None, !.tries = 0, !.named = TRUE,
                                                 !.id = cmd[c].reply.id, !.pc = "status"]]
    BY <1>3 DEF ReceiveStarted, Goes
  <2>2. /\ Typed'
        /\ cmd'[c] = [cmd[c] EXCEPT !.reply = None, !.tries = 0, !.named = TRUE,
                                    !.id = cmd[c].reply.id, !.pc = "status"]
    BY <1>1, <1>2, <2>1 DEF Typed, Records, Points
  <2>3. OneJob(c)' /\ Shape(c)'
    BY <1>1, <1>2, <1>3, <2>2 DEF CommandIsTrue, OneJob, Shape, Fresh, Records
  <2>6. PlanRuns(c)'
    BY <1>1, <1>2, <1>3, <2>2 DEF PlanRuns, Records, DryRun
  <2>4. ApplyRuns(c)' /\ ReplyIsTrue(c)'
    BY <1>1, <1>3, <2>2 DEF ApplyRuns, ReplyIsTrue, Records
  <2>5. FlightIsTrue(c)'
    BY <1>1, <2>2 DEF CommandIsTrue, FlightIsTrue, Rehearsed, Completed, Records
  <2> QED
    BY <1>1, <2>1, <2>2, <2>3, <2>4, <2>5, <2>6, QuietStep DEF Typed, CommandIsTrue
<1>4. CASE cmd[c].kind = "apply"
  <2>1. cmd' = [cmd EXCEPT ![c] = [cmd[c] EXCEPT !.reply = None, !.tries = 0, !.named = TRUE,
                                                 !.id = cmd[c].id, !.pc = "emit"]]
    BY <1>4 DEF ReceiveStarted, Goes, HandOver
  <2>2. /\ Typed'
        /\ cmd'[c] = [cmd[c] EXCEPT !.reply = None, !.tries = 0, !.named = TRUE,
                                    !.id = cmd[c].id, !.pc = "emit"]
    BY <1>1, <2>1 DEF Typed, Records, Points
  <2>3. OneJob(c)' /\ Shape(c)' /\ PlanRuns(c)'
    BY <1>1, <1>2, <1>4, <2>2 DEF CommandIsTrue, OneJob, Shape, Fresh, PlanRuns, Records
  <2>4. ApplyRuns(c)' /\ ReplyIsTrue(c)'
    BY <1>1, <2>2 DEF ApplyRuns, ReplyIsTrue, Records
  <2>5. FlightIsTrue(c)'
    BY <1>1, <2>2 DEF CommandIsTrue, FlightIsTrue, Rehearsed, Completed, Records
  <2> QED
    BY <1>1, <2>1, <2>2, <2>3, <2>4, <2>5, QuietStep DEF Typed, CommandIsTrue
<1> QED
  BY <1>2, <1>3, <1>4

\* A command reads the job it asked for: apply goes on only with the plan's own dry
\* run, and plan only when that dry run is complete.
LEMMA JobKeeps ==
  ASSUME IInv, NEW c \in Commands, ReceiveJob(c)
  PROVE  IInv'
<1> USE DEF IInv
<1> DEFINE j == cmd[c].reply.job
           seen == [cmd[c] EXCEPT !.reply = None, !.tries = 0]
<1>1. /\ CommandIsTrue(c) /\ cmd[c] \in Records /\ UNCHANGED <<jobs, mark, plan, flight>>
      /\ cmd[c].pc = "sent-status" /\ cmd[c].id \in Ids /\ cmd[c].server \in Servers
      /\ cmd[c].kind \in Kinds /\ j \in Jobs
  BY DEF Typed, ReceiveJob, CommandIsTrue, ReplyIsTrue, Shape
<1>2. j.status = "completed" =>
        Completed(cmd[c].server, cmd[c].id) /\ jobs[cmd[c].server][cmd[c].id] = j
  BY <1>1 DEF CommandIsTrue, ReplyIsTrue, ReceiveJob
<1>3. ASSUME NEW p \in {"start", "emit", "status"}, NEW a \in Nat,
             cmd' = [cmd EXCEPT ![c] = [seen EXCEPT !.pc = p, !.at = a]],
             p = "start" => cmd[c].kind = "apply" /\ Confirms(c, j),
             p = "status" => cmd[c].kind \in {"plan", "resume"},
             p = "emit" => cmd[c].kind # "apply",
             cmd[c].kind = "plan" /\ p = "emit" => j.status = "completed" /\ a = j.at,
             p = "start" => a = cmd[c].at
      PROVE  IInv'
  <2>1. /\ Typed'
        /\ cmd'[c] = [cmd[c] EXCEPT !.reply = None, !.tries = 0, !.pc = p, !.at = a]
    BY <1>1, <1>3 DEF Typed, Records, Points
  <2>2. OneJob(c)'
    BY <1>1, <1>3, <2>1 DEF CommandIsTrue, OneJob, Fresh, Records
  <2>3. Shape(c)'
    BY <1>1, <1>3, <2>1 DEF CommandIsTrue, Shape, Records
  <2>4. ReplyIsTrue(c)' /\ FlightIsTrue(c)'
    BY <1>1, <1>3, <2>1 DEF CommandIsTrue, ReplyIsTrue, FlightIsTrue, Rehearsed, Completed, Records
  <2>5. PlanRuns(c)'
    BY <1>1, <1>2, <1>3, <2>1 DEF CommandIsTrue, PlanRuns, DryRun, Completed, Records
  <2>6. ApplyRuns(c)'
    <3>1. SUFFICES ASSUME p = "start"
                   PROVE  Rehearsed(cmd[c].server, cmd[c].id, cmd[c].at, cmd[c].request)
      BY <1>1, <1>3, <2>1 DEF ApplyRuns, Rehearsed, Completed, Records
    <3>2. PICK s \in Servers : Rehearsed(s, cmd[c].id, cmd[c].at, cmd[c].request)
      BY <1>1, <1>3, <3>1 DEF CommandIsTrue, ApplyRuns
    <3>3. s = cmd[c].server
      BY <1>1, <1>2, <1>3, <3>1, <3>2 DEF Confirms, Rehearsed, MarksDiffer
    <3> QED
      BY <3>2, <3>3
  <2> QED
    BY <1>1, <1>3, <2>1, <2>2, <2>3, <2>4, <2>5, <2>6, QuietStep DEF Typed, CommandIsTrue
<1>4. CASE Fails(c)
  BY <1>1, <1>4, FailsKeeps
<1>5. CASE cmd[c].kind = "apply"
  <2>1. CASE Confirms(c, j)
    <3>1. cmd' = [cmd EXCEPT ![c] = [seen EXCEPT !.pc = "start", !.at = cmd[c].at]]
      BY <1>1, <1>5, <2>1 DEF ReceiveJob, Goes, Records
    <3> QED
      BY <1>1, <1>3, <1>5, <2>1, <3>1 DEF Records
  <2>2. CASE ~Confirms(c, j)
    BY <1>4, <1>5, <2>2 DEF ReceiveJob
  <2> QED
    BY <2>1, <2>2
<1>6. CASE cmd[c].kind = "status" \/ (cmd[c].kind = "resume" /\ j.status \in Terminal)
  <2>1. cmd' = [cmd EXCEPT ![c] = [seen EXCEPT !.pc = "emit", !.at = cmd[c].at]]
    <3>1. Goes(c, [seen EXCEPT !.pc = "emit"])
      <4>1. CASE cmd[c].kind = "status"
        BY <4>1 DEF ReceiveJob, HandOver, Confirms, WaitsOn
      <4>2. CASE cmd[c].kind = "resume" /\ j.status \in Terminal
        BY <4>2 DEF ReceiveJob, HandOver, Confirms, WaitsOn, Terminal
      <4> QED
        BY <1>6, <4>1, <4>2
    <3> QED
      BY <1>1, <3>1 DEF Goes, Records
  <2>2. cmd[c].at \in Nat
    BY <1>1 DEF Records
  <2> HIDE DEF j, seen
  <2> QED
    BY <1>3, <1>6, <2>1, <2>2
<1>7. CASE cmd[c].kind = "plan" /\ j.status = "completed"
  <2>1. cmd' = [cmd EXCEPT ![c] = [seen EXCEPT !.pc = "emit", !.at = j.at]] /\ j.at \in Nat
    <3>1. Goes(c, [seen EXCEPT !.pc = "emit", !.at = j.at])
      BY <1>7 DEF ReceiveJob, HandOver, Confirms, WaitsOn
    <3> QED
      BY <1>1, <3>1 DEF Goes, Jobs
  <2> HIDE DEF j, seen
  <2> QED
    BY <1>3, <1>7, <2>1
<1>8. CASE /\ cmd[c].kind \in {"plan", "resume"} /\ ~Fails(c)
           /\ ~(cmd[c].kind = "resume" /\ j.status \in Terminal)
           /\ ~(cmd[c].kind = "plan" /\ j.status = "completed")
  <2>1. cmd' = [cmd EXCEPT ![c] = [seen EXCEPT !.pc = "status", !.at = cmd[c].at]]
    BY <1>1, <1>8 DEF ReceiveJob, Goes, Records
  <2> QED
    BY <1>1, <1>3, <1>8, <2>1 DEF Records
<1> QED
  BY <1>1, <1>4, <1>5, <1>6, <1>7, <1>8 DEF Kinds

\* The end of a command: it prints, and only a plan leaves something to be used.
LEMMA WritesKeep ==
  ASSUME IInv, NEW c \in Commands, Emit(c) \/ Write(c) \/ WriteFails(c)
  PROVE  IInv'
<1> USE DEF IInv
<1>1. CommandIsTrue(c) /\ cmd[c] \in Records /\ UNCHANGED <<jobs, mark, flight>>
  BY DEF Typed, Emit, Write, WriteFails
<1>2. CASE Emit(c)
  <2>1. /\ cmd[c].pc = "emit" /\ plan' = plan
        /\ cmd' = [cmd EXCEPT ![c] = [cmd[c] EXCEPT !.printed = TRUE, !.pc = "write"]]
    BY <1>2 DEF Emit, Goes
  <2>2. /\ Typed'
        /\ cmd'[c] = [cmd[c] EXCEPT !.printed = TRUE, !.pc = "write"]
    BY <1>1, <2>1 DEF Typed, Records, Points
  <2>3. OneJob(c)' /\ Shape(c)'
    BY <1>1, <2>1, <2>2 DEF CommandIsTrue, OneJob, Shape, Fresh, Records
  <2>4. ReplyIsTrue(c)' /\ FlightIsTrue(c)'
    BY <1>1, <2>1, <2>2 DEF CommandIsTrue, ReplyIsTrue, FlightIsTrue, Rehearsed, Completed, Records,
                            Replies
  <2>5. PlanRuns(c)' /\ ApplyRuns(c)'
    BY <1>1, <2>1, <2>2 DEF CommandIsTrue, PlanRuns, ApplyRuns, DryRun, Completed, Records
  <2> QED
    BY <1>1, <2>1, <2>2, <2>3, <2>4, <2>5, QuietStep DEF Typed, CommandIsTrue
<1>3. CASE Write(c)
  <2>1. plan' \in Plans \union {None} /\ PlanIsTrue'
    <3>1. CASE cmd[c].kind = "plan"
      <4>1. /\ plan' = [request |-> Redacted(cmd[c].request), id |-> cmd[c].id,
                        at |-> cmd[c].at, sealed |-> TRUE]
            /\ cmd[c].request \in Requests /\ cmd[c].id \in Ids /\ cmd[c].at \in Nat
            /\ cmd[c].server \in Servers
        BY <1>1, <1>3, <3>1 DEF Write, CommandIsTrue, Shape, PlanRuns, Records
      <4>2. Rehearsed(cmd[c].server, cmd[c].id, cmd[c].at, Redacted(cmd[c].request))
        BY <1>1, <1>3, <3>1 DEF Write, CommandIsTrue, PlanRuns, Rehearsed, DryRun, Completed
      <4>3. Redacted(cmd[c].request) \in Asked
        BY <4>1 DEF Asked
      <4> QED
        BY <1>1, <4>1, <4>2, <4>3 DEF Plans, PlanIsTrue, Rehearsed, Completed
    <3>2. CASE cmd[c].kind # "plan"
      BY <1>1, <1>3, <3>2 DEF Write, Typed, PlanIsTrue, Rehearsed, Completed
    <3> QED
      BY <3>1, <3>2
  <2>2. Ends(c, TRUE)
    BY <1>3 DEF Write
  <2>3. /\ Typed' /\ CommandIsTrue(c)'
        /\ \A d \in Commands \ {c} : cmd'[d] = cmd[d] /\ flight'[d] = flight[d]
    BY <1>1, <2>1, <2>2, EndsTrue
  <2>4. Kept
    BY <1>1 DEF Kept
  <2>5. \A d \in Commands : CommandIsTrue(d)'
    BY <2>3, <2>4, CommandStays
  <2>6. MarksDiffer' /\ ImportsAreTrue'
    BY <1>1 DEF MarksDiffer, ImportsAreTrue, Rehearsed, Completed
  <2> QED
    BY <2>1, <2>3, <2>5, <2>6
<1>4. CASE WriteFails(c)
  BY <1>4, FailsKeeps DEF WriteFails
<1> QED
  BY <1>2, <1>3, <1>4
-----------------------------------------------------------------------------
(* The steps of the servers, and of whoever edits a plan.                  *)

\* What was rehearsed stays rehearsed.
LEMMA RehearsedStays ==
  ASSUME Kept, NEW s \in Servers, NEW i \in Ids, NEW a, NEW q, Rehearsed(s, i, a, q)
  PROVE  Rehearsed(s, i, a, q)'
  BY DEF Kept, Rehearsed, Completed

\* A start that is taken becomes a job of its own, for what was rehearsed.
LEMMA TakeKeeps ==
  ASSUME Apart, IInv, NEW c \in Commands, NEW i \in Ids, Take(c, i)
  PROVE  IInv'
<1> USE DEF IInv
<1> DEFINE s == cmd[c].server
           new == [dry |-> flight[c].dry, request |-> flight[c].request,
                   status |-> "processing", at |-> 0]
           reply == IF cmd[c].pc = "sent-start" /\ cmd[c].reply = None
                      THEN [kind |-> "started", id |-> i] ELSE cmd[c].reply
<1>1. /\ CommandIsTrue(c) /\ cmd[c] \in Records /\ flight[c] # None /\ flight[c] \in Flights
      /\ s \in Servers /\ cmd[c].made = 0 /\ UNCHANGED <<mark, plan>>
  BY DEF Typed, Take, CommandIsTrue, OneJob, Shape
<1>2. new \in Jobs /\ new # None
  BY <1>1 DEF Apart, Jobs, Flights, Active
<1>3. /\ jobs[s][i] = None /\ jobs' = [jobs EXCEPT ![s][i] = new]
      /\ flight' = [flight EXCEPT ![c] = None]
      /\ cmd' = [cmd EXCEPT ![c] = [cmd[c] EXCEPT !.made = @ + 1, !.reply = reply]]
  BY DEF Take, Goes
<1>4. /\ jobs' \in [Servers -> [Ids -> Jobs \union {None}]]
      /\ jobs'[s][i] = new
      /\ \A t \in Servers, d \in Ids : t # s \/ d # i => jobs'[t][d] = jobs[t][d]
  BY <1>1, <1>2, <1>3 DEF Typed
<1>5. Kept
  BY <1>1, <1>3, <1>4 DEF Kept
<1>6. \A t \in Servers, d \in Ids :
        Completed(t, d)' => Completed(t, d) /\ jobs'[t][d] = jobs[t][d]
  BY <1>1, <1>4 DEF Completed
<1>7. MarksDiffer'
  BY <1>1, <1>6 DEF MarksDiffer
<1>8. PlanIsTrue'
  BY <1>1, <1>5, RehearsedStays DEF PlanIsTrue, Typed, Plans
<1>9. ImportsAreTrue'
  <2>1. SUFFICES ASSUME NEW t \in Servers, NEW k \in Ids, jobs'[t][k] # None, ~jobs'[t][k].dry
                 PROVE  \E d \in Ids, a \in Nat : Rehearsed(t, d, a, jobs[t][k].request)'
    BY DEF ImportsAreTrue
  <2>2. PICK d \in Ids, a \in Nat : Rehearsed(t, d, a, jobs'[t][k].request)
    <3>1. CASE t = s /\ k = i
      BY <1>1, <1>4, <2>1, <3>1 DEF CommandIsTrue, FlightIsTrue
    <3>2. CASE ~(t = s /\ k = i)
      BY <1>4, <2>1, <3>2 DEF ImportsAreTrue
    <3> QED
      BY <3>1, <3>2
  <2> QED
    BY <1>5, <2>2 DEF Kept, Rehearsed, Completed
<1>10. /\ cmd'[c] = [cmd[c] EXCEPT !.made = 1, !.reply = reply] /\ flight'[c] = None
       /\ \A d \in Commands \ {c} : cmd'[d] = cmd[d] /\ flight'[d] = flight[d]
  BY <1>1, <1>3 DEF Typed
<1>11. Typed'
  <2>1. reply \in Replies \union {None}
    BY <1>1 DEF Records, Replies
  <2> HIDE DEF reply
  <2>2. cmd'[c] \in Records
    <3>1. cmd'[c] = [cmd[c] EXCEPT !.made = 1, !.reply = reply] /\ 1 \in Nat
      BY <1>10
    <3> QED
      BY <1>1, <2>1, <3>1 DEF Records
  <2>3. cmd' \in [Commands -> Records]
    BY <1>3, <1>10, <2>2 DEF Typed
  <2> QED
    BY <1>1, <1>3, <1>4, <2>3 DEF Typed
<1>12. OneJob(c)'
  BY <1>1, <1>10 DEF CommandIsTrue, OneJob, Fresh, Records
<1>13. Shape(c)' /\ FlightIsTrue(c)'
  BY <1>1, <1>10 DEF CommandIsTrue, Shape, FlightIsTrue, Records
<1>14. PlanRuns(c)'
  BY <1>1, <1>5, <1>10 DEF CommandIsTrue, Shape, PlanRuns, DryRun, Completed, Kept, Records
<1>15. ApplyRuns(c)'
  <2>1. /\ cmd'[c].kind = cmd[c].kind /\ cmd'[c].pc = cmd[c].pc /\ cmd'[c].server = s
        /\ cmd'[c].id = cmd[c].id /\ cmd'[c].at = cmd[c].at /\ cmd'[c].request = cmd[c].request
    BY <1>1, <1>10 DEF Records
  <2>2. cmd[c].pc \in {"status", "sent-status"} => cmd[c].id \in Ids
    BY <1>1 DEF CommandIsTrue, Shape
  <2> HIDE DEF s
  <2> QED
    BY <1>1, <1>5, <2>1, <2>2 DEF CommandIsTrue, ApplyRuns, Rehearsed, Completed, Kept, s
<1>16. ReplyIsTrue(c)'
  <2>1. CASE cmd[c].pc = "sent-start" /\ cmd[c].reply = None
    <3>1. cmd[c].kind = "plan" => flight[c].request = cmd[c].request /\ flight[c].dry
      BY <1>1, <2>1 DEF CommandIsTrue, FlightIsTrue
    <3>2. cmd[c].kind = "plan" =>
            jobs'[s][i] # None /\ jobs'[s][i].dry /\ jobs'[s][i].request = cmd[c].request
      BY <1>2, <1>4, <3>1
    <3>3. /\ cmd'[c].kind = cmd[c].kind /\ cmd'[c].pc = cmd[c].pc /\ cmd'[c].server = s
          /\ cmd'[c].request = cmd[c].request /\ cmd'[c].reply = [kind |-> "started", id |-> i]
      BY <1>1, <1>10, <2>1 DEF Records
    <3> QED
      BY <2>1, <3>2, <3>3 DEF ReplyIsTrue, DryRun
  <2>2. CASE ~(cmd[c].pc = "sent-start" /\ cmd[c].reply = None)
    <3>1. /\ cmd'[c].kind = cmd[c].kind /\ cmd'[c].pc = cmd[c].pc /\ cmd'[c].server = s
          /\ cmd'[c].id = cmd[c].id /\ cmd'[c].request = cmd[c].request
          /\ cmd'[c].reply = cmd[c].reply
      BY <1>1, <1>10, <2>2 DEF Records
    <3>2. cmd[c].pc = "sent-status" => cmd[c].id \in Ids
      BY <1>1 DEF CommandIsTrue, Shape
    <3>3. ReplyIsTrue(c)
      BY <1>1 DEF CommandIsTrue
    <3>4. ASSUME cmd[c].reply # None, cmd[c].reply.kind = "started", cmd[c].kind = "plan"
          PROVE  /\ jobs'[s][cmd[c].reply.id] # None /\ jobs'[s][cmd[c].reply.id].dry
                 /\ jobs'[s][cmd[c].reply.id].request = cmd[c].request
      <4>1. cmd[c].reply.id \in Ids /\ DryRun(s, cmd[c].reply.id, cmd[c].request)
        BY <3>3, <3>4 DEF ReplyIsTrue
      <4> HIDE DEF s
      <4> QED
        BY <1>1, <1>5, <4>1 DEF DryRun, Kept
    <3>5. ASSUME cmd[c].reply # None, cmd[c].reply.kind = "job", cmd[c].reply.job.status = "completed"
          PROVE  /\ jobs'[s][cmd[c].id] # None /\ jobs'[s][cmd[c].id].status = "completed"
                 /\ jobs'[s][cmd[c].id] = cmd[c].reply.job
      <4>1. cmd[c].id \in Ids /\ Completed(s, cmd[c].id) /\ jobs[s][cmd[c].id] = cmd[c].reply.job
        BY <3>2, <3>3, <3>5 DEF ReplyIsTrue
      <4> HIDE DEF s
      <4> QED
        BY <1>1, <1>5, <4>1 DEF Completed, Kept
    <3> HIDE DEF s
    <3> QED
      BY <3>1, <3>3, <3>4, <3>5 DEF ReplyIsTrue, DryRun, Completed
  <2> QED
    BY <2>1, <2>2
<1>17. \A d \in Commands : CommandIsTrue(d)'
  BY <1>5, <1>10, <1>12, <1>13, <1>14, <1>15, <1>16, CommandStays DEF CommandIsTrue
<1> QED
  BY <1>7, <1>8, <1>9, <1>11, <1>17

\* A job goes on; one that completes does so at a time of its own.
LEMMA ProgressKeeps ==
  ASSUME Apart, IInv, NEW s \in Servers, NEW i \in Ids, NEW st \in Active \union Terminal,
         Progress(s, i, st)
  PROVE  IInv'
<1> USE DEF IInv
<1> DEFINE new == [jobs[s][i] EXCEPT !.status = st, !.at = IF st = "completed" THEN mark ELSE @]
<1>1. /\ jobs[s][i] \in Jobs /\ jobs[s][i].status \in Active /\ mark \in Nat
      /\ UNCHANGED <<plan, cmd, flight>>
  BY DEF Typed, Progress
<1>2. jobs' = [jobs EXCEPT ![s][i] = new]
  BY <1>1 DEF Progress, Typed, Jobs
<1>3. new \in Jobs /\ new # None
  BY <1>1 DEF Jobs, Apart
<1>4. /\ jobs' \in [Servers -> [Ids -> Jobs \union {None}]]
      /\ jobs'[s][i] = new
      /\ \A t \in Servers, d \in Ids : t # s \/ d # i => jobs'[t][d] = jobs[t][d]
  BY <1>2, <1>3 DEF Typed
<1>5. mark' \in Nat /\ mark' >= mark /\ (st = "completed" => mark' = mark + 1)
  BY <1>1 DEF Progress
<1>6. Kept
  <2>1. new.dry = jobs[s][i].dry /\ new.request = jobs[s][i].request
    BY <1>1 DEF Jobs
  <2> HIDE DEF new
  <2> QED
    BY <1>1, <1>3, <1>4, <2>1 DEF Kept, Active
<1>7. Typed'
  BY <1>1, <1>4, <1>5 DEF Typed
<1>8. MarksDiffer'
  <2>1. ASSUME NEW t \in Servers, NEW d \in Ids, Completed(t, d)', ~(t = s /\ d = i)
        PROVE  Completed(t, d) /\ jobs'[t][d].at = jobs[t][d].at /\ jobs[t][d].at < mark
    BY <1>4, <2>1 DEF Completed, MarksDiffer
  <2>2. Completed(s, i)' => st = "completed" /\ jobs'[s][i].at = mark
    BY <1>1, <1>4 DEF Completed, Jobs
  <2>3. ASSUME NEW t \in Servers, NEW d \in Ids, Completed(t, d)'
        PROVE  jobs'[t][d].at < mark' /\ jobs'[t][d].at \in Nat
    <3>1. jobs'[t][d] \in Jobs
      BY <1>4, <2>3 DEF Completed
    <3>2. jobs'[t][d].at \in Nat
      BY <3>1 DEF Jobs
    <3> HIDE DEF new
    <3>3. CASE t = s /\ d = i
      BY <1>1, <1>5, <2>2, <2>3, <3>2, <3>3
    <3>4. CASE ~(t = s /\ d = i)
      BY <1>1, <1>5, <2>1, <2>3, <3>2, <3>4
    <3> QED
      BY <3>2, <3>3, <3>4
  <2>4. ASSUME NEW t \in Servers, NEW u \in Servers, NEW d \in Ids, NEW e \in Ids,
               Completed(t, d)', Completed(u, e)', jobs'[t][d].at = jobs'[u][e].at
        PROVE  t = u /\ d = e
    <3>1. CASE t = s /\ d = i
      BY <1>1, <2>1, <2>2, <2>4, <3>1
    <3>2. CASE u = s /\ e = i
      BY <1>1, <2>1, <2>2, <2>4, <3>2
    <3>3. CASE ~(t = s /\ d = i) /\ ~(u = s /\ e = i)
      BY <2>1, <2>4, <3>3 DEF MarksDiffer
    <3> QED
      BY <3>1, <3>2, <3>3
  <2> QED
    BY <2>3, <2>4 DEF MarksDiffer, Completed
<1>9. PlanIsTrue'
  BY <1>1, <1>6, RehearsedStays DEF PlanIsTrue, Typed, Plans
<1>10. ImportsAreTrue'
  <2>1. SUFFICES ASSUME NEW t \in Servers, NEW k \in Ids, jobs'[t][k] # None, ~jobs'[t][k].dry
                 PROVE  \E d \in Ids, a \in Nat : Rehearsed(t, d, a, jobs[t][k].request)'
    BY DEF ImportsAreTrue
  <2>2. jobs[t][k] # None /\ ~jobs[t][k].dry /\ jobs'[t][k].request = jobs[t][k].request
    <3>1. new.dry = jobs[s][i].dry /\ new.request = jobs[s][i].request
      BY <1>1 DEF Jobs
    <3>2. jobs[s][i] # None
      BY DEF Progress
    <3> HIDE DEF new
    <3> QED
      BY <1>4, <2>1, <3>1, <3>2
  <2>3. PICK d \in Ids, a \in Nat : Rehearsed(t, d, a, jobs[t][k].request)
    BY <2>2 DEF ImportsAreTrue
  <2> QED
    BY <1>6, <2>2, <2>3 DEF Kept, Rehearsed, Completed
<1>11. \A d \in Commands : CommandIsTrue(d)'
  BY <1>1, <1>6, CommandStays
<1> QED
  BY <1>7, <1>8, <1>9, <1>10, <1>11

\* An edited plan no longer fits its digest.
LEMMA EditKeeps ==
  ASSUME IInv, NEW r \in Requests, Edit(r)
  PROVE  IInv'
<1> USE DEF IInv
<1>1. UNCHANGED <<jobs, mark, cmd, flight>> /\ plan' = [plan EXCEPT !.request = r, !.sealed = FALSE]
      /\ plan \in Plans
  BY DEF Edit, Typed
<1>2. plan' \in Plans /\ ~plan'.sealed
  BY <1>1 DEF Plans, Asked
<1>3. Typed' /\ PlanIsTrue'
  BY <1>1, <1>2 DEF Typed, PlanIsTrue
<1>4. Kept
  BY <1>1 DEF Kept
<1>5. \A d \in Commands : CommandIsTrue(d)'
  BY <1>1, <1>4, CommandStays
<1>6. MarksDiffer' /\ ImportsAreTrue'
  BY <1>1 DEF MarksDiffer, ImportsAreTrue, Rehearsed, Completed
<1> QED
  BY <1>3, <1>5, <1>6
-----------------------------------------------------------------------------
(* The theorems.                                                           *)

LEMMA InitIInv ==
  ASSUME Apart, Init
  PROVE  IInv
<1> USE DEF Init
<1>1. \A c \in Commands : cmd[c] = Idle /\ flight[c] = None
  OBVIOUS
<1>2. /\ jobs \in [Servers -> [Ids -> Jobs \union {None}]]
      /\ \A s, u \in Servers, i, k \in Ids : jobs[s][i] # None /\ jobs[u][k] # None =>
           s = u /\ i = k /\ jobs[s][i].dry /\ jobs[s][i].at = 0
  <2>1. CASE jobs \in [Servers -> [Ids -> {None}]]
    BY <2>1
  <2>2. CASE jobs \notin [Servers -> [Ids -> {None}]]
    <3>1. PICK t \in Servers, j \in Ids, r \in Requests :
            jobs = [s \in Servers |-> [i \in Ids |->
                      IF s = t /\ i = j
                        THEN [dry |-> TRUE, request |-> r, status |-> "completed", at |-> 0]
                        ELSE None]]
      BY <2>2
    <3> DEFINE job == [dry |-> TRUE, request |-> r, status |-> "completed", at |-> 0]
    <3>2. job \in Jobs
      BY DEF Jobs, Asked, Terminal
    <3>3. job.dry /\ job.at = 0
      OBVIOUS
    <3>4. jobs = [s \in Servers |-> [i \in Ids |-> IF s = t /\ i = j THEN job ELSE None]]
      BY <3>1
    <3> HIDE DEF job
    <3> QED
      BY <3>2, <3>3, <3>4
  <2> QED
    BY <2>1, <2>2
<1>3. Typed
  <2>1. Idle \in Records
    BY DEF Idle, Records, Points
  <2> QED
    BY <1>2, <2>1 DEF Typed
<1>4. MarksDiffer /\ ImportsAreTrue
  BY <1>2 DEF MarksDiffer, ImportsAreTrue, Completed
<1>5. PlanIsTrue
  BY DEF PlanIsTrue
<1>6. \A c \in Commands : CommandIsTrue(c)
  BY <1>1 DEF Idle, CommandIsTrue, OneJob, Shape, Fresh, ReplyIsTrue, PlanRuns, ApplyRuns,
              FlightIsTrue
<1> QED
  BY <1>3, <1>4, <1>5, <1>6 DEF IInv

LEMMA NextIInv ==
  ASSUME Apart, IInv, [Next]_vars
  PROVE  IInv'
<1>1. CASE UNCHANGED vars
  <2>1. Kept
    BY <1>1 DEF Kept, vars
  <2> QED
    BY <1>1, <2>1, CommandStays DEF vars, IInv, Typed, MarksDiffer, PlanIsTrue, ImportsAreTrue,
                                    Rehearsed, Completed
<1>2. ASSUME NEW c \in Commands,
             \/ \E s \in Servers, r \in Requests, force \in BOOLEAN : BeginPlan(c, s, r, force)
             \/ \E s \in Servers : BeginApply(c, s)
             \/ \E s \in Servers, i \in Ids, k \in Kinds : BeginLook(c, s, i, k)
      PROVE  IInv'
  BY <1>2, BeginsKeep
<1>3. ASSUME NEW c \in Commands, Work(c)
      PROVE  IInv'
  BY <1>3, SendsKeep, RefusalsKeep, StartedKeeps, JobKeeps, WritesKeep DEF Work
<1>4. ASSUME NEW c \in Commands, Answers(c) \/ Drop(c) \/ Late(c)
      PROVE  IInv'
  BY <1>4, AnswersKeep, RefusalsKeep, TakeKeeps DEF Answers
<1>5. ASSUME NEW s \in Servers, NEW i \in Ids, NEW st \in Active \union Terminal, Progress(s, i, st)
      PROVE  IInv'
  BY <1>5, ProgressKeeps
<1>6. ASSUME NEW r \in Requests, Edit(r)
      PROVE  IInv'
  BY <1>6, EditKeeps
<1> QED
  BY <1>1, <1>2, <1>3, <1>4, <1>5, <1>6 DEF Next

\* An apply that was told its job goes straight on to print it.
Named(c) ==
  cmd[c].kind = "apply" /\ cmd[c].named =>
    cmd[c].pc = "emit" \/ (cmd[c].pc \in {"write", "ended"} /\ cmd[c].printed)

LEMMA EndsNamed ==
  ASSUME Typed, NEW c \in Commands, NEW ok, Ends(c, ok), Named(c), cmd[c].pc # "emit"
  PROVE  Named(c)'
<1>1. /\ cmd'[c].pc = "ended" /\ cmd'[c].kind = cmd[c].kind /\ cmd'[c].named = cmd[c].named
      /\ cmd'[c].printed = (cmd[c].printed \/ ok)
  BY DEF Typed, Ends, Goes, Idle, Records
<1> QED
  BY <1>1 DEF Named

\* A command writes only its own record.
LEMMA OthersStay ==
  ASSUME Typed, NEW c \in Commands, NEW d \in Commands, c # d,
         \/ \E s \in Servers, r \in Requests, force \in BOOLEAN : BeginPlan(d, s, r, force)
         \/ \E s \in Servers : BeginApply(d, s)
         \/ \E s \in Servers, i \in Ids, k \in Kinds : BeginLook(d, s, i, k)
         \/ Work(d) \/ Answers(d) \/ Drop(d) \/ Late(d)
  PROVE  cmd'[c] = cmd[c]
<1>1. ASSUME NEW r, Goes(d, r)
      PROVE  cmd'[c] = cmd[c]
  BY <1>1 DEF Goes, Typed
<1>2. ASSUME NEW s \in Servers, NEW r \in Requests, NEW force \in BOOLEAN, BeginPlan(d, s, r, force)
      PROVE  cmd'[c] = cmd[c]
  BY <1>1, <1>2 DEF BeginPlan
<1>3. ASSUME NEW s \in Servers, BeginApply(d, s)
      PROVE  cmd'[c] = cmd[c]
  BY <1>1, <1>3, Zenon DEF BeginApply
<1>4. ASSUME NEW s \in Servers, NEW i \in Ids, NEW k \in Kinds, BeginLook(d, s, i, k)
      PROVE  cmd'[c] = cmd[c]
  BY <1>1, <1>4 DEF BeginLook
<1>5. CASE ReceiveJob(d)
  <2>1. \E r : Goes(d, r)
    <3>1. CASE Fails(d)
      BY <3>1 DEF Fails, Ends
    <3>2. CASE ~Fails(d)
      BY <1>5, <3>2 DEF ReceiveJob, Goes
    <3> QED
      BY <3>1, <3>2
  <2> QED
    BY <1>1, <2>1
<1>6. CASE SendStart(d) \/ SendStatus(d) \/ ReceiveStarted(d) \/ Emit(d) \/ Late(d) \/ Show(d)
  BY <1>1, <1>6 DEF SendStart, SendStatus, ReceiveStarted, Emit, Late, Show
<1>7. CASE Write(d) \/ WriteFails(d) \/ ReceiveRefusal(d) \/ LoseAnswer(d)
  BY <1>1, <1>7, Zenon DEF Write, WriteFails, ReceiveRefusal, LoseAnswer, Again, Fails, Ends
<1>8. CASE Drop(d)
  BY <1>8 DEF Drop
<1>9. ASSUME NEW i \in Ids, Take(d, i)
      PROVE  cmd'[c] = cmd[c]
  BY <1>1, <1>9 DEF Take
<1>10. ASSUME NEW k \in {"busy", "broken"}, Refuse(d, k)
       PROVE  cmd'[c] = cmd[c]
  BY <1>1, <1>10 DEF Refuse
<1> QED
  BY <1>2, <1>3, <1>4, <1>5, <1>6, <1>7, <1>8, <1>9, <1>10 DEF Work, Answers

\* What one step does to the command that takes it.
LEMMA StepNamed ==
  ASSUME IInv, NEW c \in Commands, Named(c),
         \/ \E s \in Servers, r \in Requests, force \in BOOLEAN : BeginPlan(c, s, r, force)
         \/ \E s \in Servers : BeginApply(c, s)
         \/ \E s \in Servers, i \in Ids, k \in Kinds : BeginLook(c, s, i, k)
         \/ Work(c) \/ Answers(c) \/ Drop(c) \/ Late(c)
  PROVE  Named(c)'
<1>1. CommandIsTrue(c) /\ Typed /\ cmd[c] \in Records
  BY DEF IInv, Typed
<1>2. ASSUME cmd[c].pc \in {"sent-start", "sent-status"}, Again(c)
      PROVE  Named(c)'
  <2>1. CASE cmd[c].tries < Attempts(c)
    <3>1. cmd'[c].kind = cmd[c].kind /\ cmd'[c].named = cmd[c].named
      <4>1. cmd'[c] = [cmd[c] EXCEPT !.reply = None,
                         !.pc = IF @ = "sent-start" THEN "start" ELSE "status"]
        BY <1>1, <1>2, <2>1 DEF Again, Goes, Typed
      <4> QED
        BY <1>1, <4>1 DEF Records
    <3> QED
      BY <1>2, <3>1 DEF Named
  <2>2. CASE ~(cmd[c].tries < Attempts(c))
    <3>1. Ends(c, FALSE)
      BY <1>2, <2>2 DEF Again, Fails
    <3> QED
      BY <1>1, <1>2, <3>1, EndsNamed
  <2> QED
    BY <2>1, <2>2
<1>3. ASSUME NEW s \in Servers, NEW r \in Requests, NEW force \in BOOLEAN, BeginPlan(c, s, r, force)
      PROVE  Named(c)'
  BY <1>1, <1>3 DEF BeginPlan, Goes, Idle, Named, Typed
<1>4. ASSUME NEW s \in Servers, BeginApply(c, s)
      PROVE  Named(c)'
  <2>1. cmd'[c].named = FALSE
    <3>1. CASE Loadable
      <4>1. Goes(c, [Idle EXCEPT !.kind = "apply", !.server = s, !.request = plan.request,
                                 !.id = plan.id, !.at = plan.at, !.pc = "status"])
        BY <1>4, <3>1, Zenon DEF BeginApply
      <4> QED
        BY <1>1, <4>1 DEF Goes, Idle, Typed
    <3>2. CASE ~Loadable
      <4>1. Goes(c, [Idle EXCEPT !.kind = "apply", !.server = s, !.pc = "ended"])
        BY <1>4, <3>2, Zenon DEF BeginApply
      <4> QED
        BY <1>1, <4>1 DEF Goes, Idle, Typed
    <3> QED
      BY <3>1, <3>2
  <2> QED
    BY <2>1 DEF Named
<1>5. ASSUME NEW s \in Servers, NEW i \in Ids, NEW k \in Kinds, BeginLook(c, s, i, k)
      PROVE  Named(c)'
  BY <1>1, <1>5 DEF BeginLook, Goes, Idle, Named, Typed
<1>6. CASE SendStart(c) \/ SendStatus(c)
  <2>1. cmd'[c].kind = cmd[c].kind /\ cmd'[c].named = cmd[c].named
    <3>1. \E p \in Points : cmd'[c] = [cmd[c] EXCEPT !.pc = p, !.tries = @ + 1]
      BY <1>1, <1>6 DEF SendStart, SendStatus, Goes, Typed, Points
    <3> QED
      BY <1>1, <3>1 DEF Records
  <2> QED
    BY <1>6, <2>1 DEF Named, SendStart, SendStatus
<1>7. CASE ReceiveRefusal(c)
  <2>1. cmd[c].pc \in {"sent-start", "sent-status"}
    BY <1>1, <1>7 DEF ReceiveRefusal, CommandIsTrue, ReplyIsTrue
  <2> QED
    BY <1>1, <1>2, <1>7, <2>1, EndsNamed DEF ReceiveRefusal, Fails
<1>8. CASE ReceiveStarted(c)
  <2>1. cmd[c].kind = "apply" => cmd'[c].pc = "emit"
    BY <1>1, <1>8 DEF ReceiveStarted, Goes, HandOver, Typed, Records
  <2>2. cmd'[c].kind = cmd[c].kind
    BY <1>1, <1>8 DEF ReceiveStarted, Goes, Typed, Records
  <2> QED
    BY <2>1, <2>2 DEF Named
<1>9. CASE ReceiveJob(c)
  <2>1. cmd[c].pc = "sent-status"
    BY <1>1, <1>9 DEF ReceiveJob, CommandIsTrue, ReplyIsTrue
  <2>2. CASE cmd[c].kind = "apply"
    <3>1. CASE Confirms(c, cmd[c].reply.job)
      <4>1. Goes(c, [[cmd[c] EXCEPT !.reply = None, !.tries = 0] EXCEPT !.pc = "start"])
        BY <1>9, <2>2, <3>1 DEF ReceiveJob
      <4> QED
        BY <1>1, <2>1, <4>1 DEF Goes, Named, Typed, Records
    <3>2. CASE ~Confirms(c, cmd[c].reply.job)
      <4>1. Ends(c, FALSE)
        BY <1>9, <2>2, <3>2 DEF ReceiveJob, Fails
      <4> QED
        BY <1>1, <2>1, <4>1, EndsNamed
    <3> QED
      BY <3>1, <3>2
  <2>3. CASE cmd[c].kind # "apply"
    <3>1. cmd'[c].kind = cmd[c].kind
      <4>1. CASE Fails(c)
        BY <1>1, <4>1 DEF Fails, Ends, Goes, Idle, Typed
      <4>2. CASE ~Fails(c)
        <5>1. CASE cmd[c].kind = "status"
          <6>1. Goes(c, [[cmd[c] EXCEPT !.reply = None, !.tries = 0] EXCEPT !.pc = "emit"])
            BY <1>9, <5>1 DEF ReceiveJob, HandOver, Confirms, WaitsOn, Terminal
          <6> QED
            BY <1>1, <6>1 DEF Goes, Typed, Records
        <5>2. CASE cmd[c].kind = "resume"
          <6>1. \E p \in {"emit", "status"} :
                  Goes(c, [[cmd[c] EXCEPT !.reply = None, !.tries = 0] EXCEPT !.pc = p])
            BY <1>9, <4>2, <5>2 DEF ReceiveJob, HandOver, Confirms, WaitsOn, Terminal
          <6> QED
            BY <1>1, <6>1 DEF Goes, Typed, Records
        <5>3. CASE cmd[c].kind = "plan"
          <6>1. \/ Goes(c, [[cmd[c] EXCEPT !.reply = None, !.tries = 0] EXCEPT !.pc = "status"])
                \/ Goes(c, [[cmd[c] EXCEPT !.reply = None, !.tries = 0] EXCEPT
                              !.pc = "emit", !.at = cmd[c].reply.job.at])
            BY <1>9, <4>2, <5>3 DEF ReceiveJob, HandOver, Confirms, WaitsOn, Terminal
          <6> QED
            BY <1>1, <6>1 DEF Goes, Typed, Records
        <5>4. cmd[c].kind \in Kinds
          BY <1>1, <2>1 DEF CommandIsTrue, Shape
        <5> QED
          BY <2>3, <5>1, <5>2, <5>3, <5>4 DEF Kinds
      <4> QED
        BY <4>1, <4>2
    <3> QED
      BY <2>3, <3>1 DEF Named
  <2> QED
    BY <2>2, <2>3
<1>10. CASE Emit(c)
  BY <1>1, <1>10 DEF Emit, Goes, Named, Typed, Records
<1>11. CASE Write(c) \/ WriteFails(c)
  BY <1>1, <1>11, EndsNamed DEF Write, WriteFails, Fails
<1>12. CASE Show(c) \/ (\E k \in {"busy", "broken"} : Refuse(c, k)) \/ Late(c)
  <2>1. PICK r, l : cmd'[c] = [cmd[c] EXCEPT !.reply = r, !.late = l]
    <3>1. cmd[c] = [cmd[c] EXCEPT !.reply = cmd[c].reply, !.late = cmd[c].late]
      BY <1>1 DEF Records
    <3>2. CASE Show(c) \/ (\E k \in {"busy", "broken"} : Refuse(c, k))
      <4>1. \E r : cmd'[c] = [cmd[c] EXCEPT !.reply = r]
        BY <1>1, <3>2 DEF Show, Refuse, Goes, Typed
      <4>2. PICK r : cmd'[c] = [cmd[c] EXCEPT !.reply = r]
        BY <4>1
      <4>3. cmd'[c] = [cmd[c] EXCEPT !.reply = r, !.late = cmd[c].late]
        BY <1>1, <4>2 DEF Records
      <4> QED
        BY <4>3
    <3>3. CASE Late(c)
      <4>1. cmd'[c] = [cmd[c] EXCEPT !.reply = cmd[c].reply, !.late = TRUE]
        BY <1>1, <3>3 DEF Late, Goes, Typed, Records
      <4> QED
        BY <4>1
    <3> QED
      BY <1>12, <3>2, <3>3
  <2> QED
    BY <1>1, <2>1 DEF Named, Records
<1>13. CASE LoseAnswer(c)
  BY <1>2, <1>13 DEF LoseAnswer
<1>14. CASE Drop(c)
  BY <1>14 DEF Drop, Named
<1>15. ASSUME NEW i \in Ids, Take(c, i)
       PROVE  Named(c)'
  <2>1. /\ cmd'[c].kind = cmd[c].kind /\ cmd'[c].named = cmd[c].named /\ cmd'[c].pc = cmd[c].pc
        /\ cmd'[c].printed = cmd[c].printed
    BY <1>1, <1>15 DEF Take, Goes, Typed, Records
  <2> QED
    BY <2>1 DEF Named
<1> QED
  BY <1>3, <1>4, <1>5, <1>6, <1>7, <1>8, <1>9, <1>10, <1>11, <1>12, <1>13, <1>14, <1>15
     DEF Work, Answers

\* The invariant holds of every behaviour, for any commands, servers and requests.
THEOREM Invariance ==
  ASSUME Apart
  PROVE  Spec => []IInv
<1>1. Init => IInv
  BY InitIInv
<1>2. IInv /\ [Next]_vars => IInv'
  BY NextIInv
<1> QED
  BY <1>1, <1>2, PTL DEF Spec

LEMMA TypeOKFollows ==
  ASSUME Apart, IInv
  PROVE  TypeOK
  BY DEF IInv, Typed, TypeOK, Records

\* State, plans, commands and answers are of their types: no request or answer is ever
\* taken for one of another kind.
THEOREM TypesHold ==
  ASSUME Apart
  PROVE  Spec => []TypeOK
<1>1. IInv => TypeOK
  BY TypeOKFollows
<1> QED
  BY <1>1, Invariance, PTL

LEMMA OneJobPerCommandFollows ==
  ASSUME Apart, IInv
  PROVE  OneJobPerCommand
  BY DEF IInv, CommandIsTrue, OneJob, OneJobPerCommand

\* A start is never sent twice (only GETs are repeated, geoserver.py:191), so however answers
\* are lost or refused one command makes at most one job.
THEOREM OneJobPerCommandHolds ==
  ASSUME Apart
  PROVE  Spec => []OneJobPerCommand
<1>1. IInv => OneJobPerCommand
  BY OneJobPerCommandFollows
<1> QED
  BY <1>1, Invariance, PTL

LEMMA ImportWasRehearsedFollows ==
  ASSUME Apart, IInv
  PROVE  ImportWasRehearsed
  BY DEF IInv, ImportsAreTrue, Rehearsed, Completed, ImportWasRehearsed

\* What apply imports, the same server has rehearsed: the completion time that
\* _verify_plan_job compares is enough to know the plan's own dry run, also when an id means
\* another job on another server.
THEOREM ImportWasRehearsedHolds ==
  ASSUME Apart
  PROVE  Spec => []ImportWasRehearsed
<1>1. IInv => ImportWasRehearsed
  BY ImportWasRehearsedFollows
<1> QED
  BY <1>1, Invariance, PTL

\* Every apply has printed the job whose import has started.
AllNamed == \A c \in Commands : Named(c)

LEMMA InitNamed ==
  ASSUME Apart, Init
  PROVE  AllNamed
  BY DEF Init, Idle, Named, AllNamed

LEMMA NextNamed ==
  ASSUME Apart, IInv, AllNamed, [Next]_vars
  PROVE  AllNamed'
<1>1. SUFFICES ASSUME NEW c \in Commands
               PROVE  Named(c)'
  BY DEF AllNamed
<1>2. CASE cmd'[c] = cmd[c]
  BY <1>1, <1>2 DEF Named, AllNamed
<1>3. CASE cmd'[c] # cmd[c]
  <2>1. \A d \in Commands :
          \/ \E s \in Servers, r \in Requests, force \in BOOLEAN : BeginPlan(d, s, r, force)
          \/ \E s \in Servers : BeginApply(d, s)
          \/ \E s \in Servers, i \in Ids, k \in Kinds : BeginLook(d, s, i, k)
          \/ Work(d) \/ Answers(d) \/ Drop(d) \/ Late(d)
        => d = c
    BY <1>1, <1>3, OthersStay DEF IInv
  <2>2. ~(UNCHANGED vars)
    BY <1>3 DEF vars
  <2>3. \A s \in Servers, i \in Ids, st \in Active \union Terminal : ~Progress(s, i, st)
    BY <1>3 DEF Progress
  <2>4. \A r \in Requests : ~Edit(r)
    BY <1>3 DEF Edit
  <2> QED
    BY <1>1, <2>1, <2>2, <2>3, <2>4, StepNamed DEF Next, AllNamed
<1> QED
  BY <1>2, <1>3

LEMMA ImportIsNamedFollows ==
  ASSUME AllNamed
  PROVE  ImportIsNamed
  BY DEF Named, AllNamed, ImportIsNamed

\* An apply whose import has started prints the id of the job before it writes the artifact
\* (HandOver), so the id is known also when the artifact cannot be written.
THEOREM ImportIsNamedHolds ==
  ASSUME Apart
  PROVE  Spec => []ImportIsNamed
<1>1. Init => AllNamed
  BY InitNamed
<1>2. IInv /\ AllNamed /\ [Next]_vars => AllNamed'
  BY NextNamed
<1>3. AllNamed => ImportIsNamed
  BY ImportIsNamedFollows
<1> QED
  BY <1>1, <1>2, <1>3, Invariance, PTL DEF Spec
=============================================================================
