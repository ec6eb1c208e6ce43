--------------------------- MODULE GeoServerImport ---------------------------
(***************************************************************************)
(* The GeoServer commands of services/geoserver.py: plan rehearses an      *)
(* import with a dry run on the Honua server and waits for it, apply        *)
(* checks the plan against the server and starts the real import, status   *)
(* and resume look at a job.                                               *)
(*                                                                         *)
(* Several commands run at once, against more than one Honua server; job   *)
(* ids of two servers may coincide.  Requests and answers may be lost, a   *)
(* gateway may answer for a request the server takes later, and GETs are   *)
(* repeated.                                                               *)
(***************************************************************************)
EXTENDS Naturals, FiniteSets

CONSTANTS
  Commands,   \* the commands that are run
  Runs,       \* Runs[c]: what c may be
  Servers,    \* Honua servers, the --honua-url of a command
  Ids,        \* job ids a server gives
  Requests,   \* what is imported: the GeoServer and the selected workspaces
  Retries,    \* --retries
  None

VARIABLES
  jobs,      \* per server and id: the job, or None
  mark,      \* completions so far: the time of the next one
  plan,      \* the plan artifact, or None
  cmd,       \* per command: its record
  flight     \* per command: a start the server may still take, or None

vars == <<jobs, mark, plan, cmd, flight>>

-----------------------------------------------------------------------------
Active == {"processing", "novel"}
Terminal == {"completed", "failed"}

Kinds == {"plan", "apply", "status", "resume"}

\* The artifact's request: a mapping whose key looks like a secret is left out,
\* and so is it from the import.
Redacted(r) == [r EXCEPT !.scope = IF @ = "secretive" THEN "whole" ELSE @]

Asked == Requests \union {Redacted(r) : r \in Requests}

Jobs == [dry : BOOLEAN, request : Asked, status : Active \union Terminal, at : Nat]

\* A plan names the dry run and carries a digest; sealed says that it fits.
Plans == [request : Asked, id : Ids, at : Nat, sealed : BOOLEAN]

Replies == [kind : {"started"}, id : Ids] \union [kind : {"job"}, job : Jobs]
             \union [kind : {"busy", "broken"}]

Idle == [kind |-> None, pc |-> "idle", server |-> None, request |-> None, id |-> None,
         at |-> 0, tries |-> 0, reply |-> None, late |-> FALSE, made |-> 0,
         named |-> FALSE, printed |-> FALSE, ok |-> FALSE]

\* Every request is repeated.
MutAttempts(c) == Retries + 1

\* Only a GET is repeated.
Attempts(c) == IF cmd[c].pc = "sent-status" THEN Retries + 1 ELSE 1

Init ==
  /\ mark = 1
  /\ jobs \in [Servers -> [Ids -> {None}]]
       \union {[s \in Servers |-> [i \in Ids |->
                  IF s = t /\ i = j
                    THEN [dry |-> TRUE, request |-> r, status |-> "completed", at |-> 0]
                    ELSE None]] : t \in Servers, j \in Ids, r \in Requests}
  /\ plan = None
  /\ cmd = [c \in Commands |-> Idle]
  /\ flight = [c \in Commands |-> None]

Goes(c, r) == cmd' = [cmd EXCEPT ![c] = r]

Ends(c, ok) ==
  Goes(c, [Idle EXCEPT !.kind = cmd[c].kind, !.server = cmd[c].server, !.pc = "ended",
             !.made = cmd[c].made, !.named = cmd[c].named,
             !.printed = cmd[c].printed \/ ok, !.ok = ok])

\* A MigrationError: the command ends, and nothing is printed or written.
Fails(c) == Ends(c, FALSE)

-----------------------------------------------------------------------------
(* The start of a command: the output is looked at before anything is sent. *)

BeginPlan(c, s, r, force) ==
  /\ cmd[c].pc = "idle"
  /\ "plan" \in Runs[c]
  /\ Goes(c, [Idle EXCEPT !.kind = "plan", !.server = s, !.request = r,
                          !.pc = IF plan = None \/ force THEN "start" ELSE "ended"])
  /\ UNCHANGED <<jobs, mark, plan, flight>>

\* A plan whose digest does not fit is not loaded.
Loadable == plan # None /\ plan.sealed

BeginApply(c, s) ==
  /\ cmd[c].pc = "idle"
  /\ "apply" \in Runs[c]
  /\ IF Loadable
       THEN Goes(c, [Idle EXCEPT !.kind = "apply", !.server = s, !.request = plan.request,
                                 !.id = plan.id, !.at = plan.at, !.pc = "status"])
       ELSE Goes(c, [Idle EXCEPT !.kind = "apply", !.server = s, !.pc = "ended"])
  /\ UNCHANGED <<jobs, mark, plan, flight>>

BeginLook(c, s, i, k) ==
  /\ cmd[c].pc = "idle"
  /\ k \in {"status", "resume"} \intersect Runs[c]
  /\ Goes(c, [Idle EXCEPT !.kind = k, !.server = s, !.id = i, !.pc = "status"])
  /\ UNCHANGED <<jobs, mark, plan, flight>>

-----------------------------------------------------------------------------
(* Requests, and what becomes of them.                                     *)

SendStart(c) ==
  /\ cmd[c].pc = "start"
  /\ Goes(c, [cmd[c] EXCEPT !.pc = "sent-start", !.tries = @ + 1])
  /\ flight' = [flight EXCEPT ![c] = [dry |-> cmd[c].kind = "plan",
                                       request |-> cmd[c].request]]
  /\ UNCHANGED <<jobs, mark, plan>>

SendStatus(c) ==
  /\ cmd[c].pc = "status"
  /\ Goes(c, [cmd[c] EXCEPT !.pc = "sent-status", !.tries = @ + 1])
  /\ UNCHANGED <<jobs, mark, plan, flight>>

\* The server takes a start, whether or not the command still waits.
Take(c, i) ==
  /\ flight[c] # None
  /\ jobs[cmd[c].server][i] = None
  /\ jobs' = [jobs EXCEPT ![cmd[c].server][i] =
                [dry |-> flight[c].dry, request |-> flight[c].request,
                 status |-> "processing", at |-> 0]]
  /\ flight' = [flight EXCEPT ![c] = None]
  /\ Goes(c, [cmd[c] EXCEPT !.made = @ + 1,
                !.reply = IF cmd[c].pc = "sent-start" /\ @ = None
                            THEN [kind |-> "started", id |-> i] ELSE @])
  /\ UNCHANGED <<mark, plan>>

Drop(c) ==
  /\ flight[c] # None
  /\ flight' = [flight EXCEPT ![c] = None]
  /\ UNCHANGED <<jobs, mark, plan, cmd>>

\* The server shows the job, or has none by that id.
Show(c) ==
  /\ cmd[c].pc = "sent-status"
  /\ cmd[c].reply = None
  /\ LET j == jobs[cmd[c].server][cmd[c].id]
     IN Goes(c, [cmd[c] EXCEPT !.reply = IF j = None THEN [kind |-> "broken"]
                                                     ELSE [kind |-> "job", job |-> j]])
  /\ UNCHANGED <<jobs, mark, plan, flight>>

\* 429, 502, 503 and 504, from the server or in front of it; or another error.
Refuse(c, k) ==
  /\ cmd[c].pc \in {"sent-start", "sent-status"}
  /\ cmd[c].reply = None
  /\ Goes(c, [cmd[c] EXCEPT !.reply = [kind |-> k]])
  /\ UNCHANGED <<jobs, mark, plan, flight>>

\* The attempt is repeated, or the command fails.
Again(c) ==
  IF cmd[c].tries < Attempts(c)
    THEN Goes(c, [cmd[c] EXCEPT !.reply = None,
                    !.pc = IF @ = "sent-start" THEN "start" ELSE "status"])
    ELSE Fails(c)

\* A timeout or another failure of the transport, or a body that does not parse.
LoseAnswer(c) ==
  /\ cmd[c].pc \in {"sent-start", "sent-status"}
  /\ Again(c)
  /\ UNCHANGED <<jobs, mark, plan, flight>>

ReceiveRefusal(c) ==
  /\ cmd[c].reply # None
  /\ cmd[c].reply.kind \in {"busy", "broken"}
  /\ IF cmd[c].reply.kind = "busy" THEN Again(c) ELSE Fails(c)
  /\ UNCHANGED <<jobs, mark, plan, flight>>

\* The artifact is written first.
MutHandOver == "write"

\* What the command reports is printed before it is written.
HandOver == "emit"

ReceiveStarted(c) ==
  /\ cmd[c].reply # None
  /\ cmd[c].reply.kind = "started"
  /\ Goes(c, [cmd[c] EXCEPT !.reply = None, !.tries = 0, !.named = TRUE,
                !.id = IF cmd[c].kind = "plan" THEN cmd[c].reply.id ELSE @,
                !.pc = IF cmd[c].kind = "plan" THEN "status" ELSE HandOver])
  /\ UNCHANGED <<jobs, mark, plan, flight>>

-----------------------------------------------------------------------------
(* What a job snapshot means.                                              *)

\* Any dry run under the plan's id will do.
MutConfirms(c, j) == j.status = "completed" /\ j.request.url = cmd[c].request.url

\* _verify_plan_job: the plan's dry run, by completion time and GeoServer.
Confirms(c, j) ==
  /\ j.status = "completed"
  /\ j.at = cmd[c].at
  /\ j.request.url = cmd[c].request.url

\* A job in progress is waited for however late it is.
MutWaitsOn(c, j) == j.status = "processing"

\* The deadline ends the wait for a job in progress only: a finished job counts
\* however late it is seen.
WaitsOn(c, j) == j.status = "processing" /\ ~cmd[c].late

ReceiveJob(c) ==
  /\ cmd[c].reply # None
  /\ cmd[c].reply.kind = "job"
  /\ LET j == cmd[c].reply.job
         seen == [cmd[c] EXCEPT !.reply = None, !.tries = 0]
     IN CASE cmd[c].kind = "apply" ->
               IF Confirms(c, j) THEN Goes(c, [seen EXCEPT !.pc = "start"]) ELSE Fails(c)
          [] cmd[c].kind = "status" -> Goes(c, [seen EXCEPT !.pc = HandOver])
          [] cmd[c].kind = "resume" /\ j.status \in Terminal ->
               Goes(c, [seen EXCEPT !.pc = HandOver])
          [] cmd[c].kind = "plan" /\ j.status = "completed" ->
               Goes(c, [seen EXCEPT !.pc = HandOver, !.at = j.at])
          [] cmd[c].kind \in {"plan", "resume"} /\ WaitsOn(c, j) ->
               Goes(c, [seen EXCEPT !.pc = "status"])
          [] OTHER -> Fails(c)
  /\ UNCHANGED <<jobs, mark, plan, flight>>

Late(c) ==
  /\ cmd[c].kind \in {"plan", "resume"}
  /\ cmd[c].pc \in {"status", "sent-status"}
  /\ ~cmd[c].late
  /\ Goes(c, [cmd[c] EXCEPT !.late = TRUE])
  /\ UNCHANGED <<jobs, mark, plan, flight>>

Emit(c) ==
  /\ cmd[c].pc = "emit"
  /\ Goes(c, [cmd[c] EXCEPT !.printed = TRUE, !.pc = "write"])
  /\ UNCHANGED <<jobs, mark, plan, flight>>

\* Only a plan's artifact is used again.
Write(c) ==
  /\ cmd[c].pc = "write"
  /\ plan' = IF cmd[c].kind = "plan"
               THEN [request |-> Redacted(cmd[c].request), id |-> cmd[c].id,
                     at |-> cmd[c].at, sealed |-> TRUE]
               ELSE plan
  /\ Ends(c, TRUE)
  /\ UNCHANGED <<jobs, mark, flight>>

\* The output exists by now, or cannot be written.
WriteFails(c) ==
  /\ cmd[c].pc = "write"
  /\ Fails(c)
  /\ UNCHANGED <<jobs, mark, plan, flight>>

-----------------------------------------------------------------------------
(* The world: jobs go on, are cancelled, and plans are edited.             *)

Progress(s, i, st) ==
  /\ jobs[s][i] # None
  /\ jobs[s][i].status \in Active
  /\ st # jobs[s][i].status
  /\ jobs' = [jobs EXCEPT ![s][i].status = st,
                          ![s][i].at = IF st = "completed" THEN mark ELSE @]
  /\ mark' = IF st = "completed" THEN mark + 1 ELSE mark
  /\ UNCHANGED <<plan, cmd, flight>>

Edit(r) ==
  /\ plan # None
  /\ plan.request # r
  /\ plan' = [plan EXCEPT !.request = r, !.sealed = FALSE]
  /\ UNCHANGED <<jobs, mark, cmd, flight>>

Work(c) ==
  \/ SendStart(c) \/ SendStatus(c) \/ ReceiveRefusal(c) \/ ReceiveStarted(c)
  \/ ReceiveJob(c) \/ Emit(c) \/ Write(c) \/ WriteFails(c)

Answers(c) ==
  \/ Show(c) \/ LoseAnswer(c)
  \/ \E i \in Ids : Take(c, i)
  \/ \E k \in {"busy", "broken"} : Refuse(c, k)

Next ==
  \/ \E c \in Commands :
       \/ \E s \in Servers, r \in Requests, force \in BOOLEAN : BeginPlan(c, s, r, force)
       \/ \E s \in Servers : BeginApply(c, s)
       \/ \E s \in Servers, i \in Ids, k \in Kinds : BeginLook(c, s, i, k)
       \/ Work(c) \/ Answers(c) \/ Drop(c) \/ Late(c)
  \/ \E s \in Servers, i \in Ids, st \in Active \union Terminal : Progress(s, i, st)
  \/ \E r \in Requests : Edit(r)

Spec == Init /\ [][Next]_vars

\* A command runs on, time passes, and a request gets an answer or fails.
Fairness ==
  \A c \in Commands : WF_vars(Work(c)) /\ WF_vars(Answers(c)) /\ WF_vars(Late(c))

FairSpec == Spec /\ Fairness

-----------------------------------------------------------------------------
TypeOK ==
  /\ jobs \in [Servers -> [Ids -> Jobs \union {None}]]
  /\ mark \in Nat
  /\ plan \in Plans \union {None}
  /\ \A c \in Commands : cmd[c].kind \in Kinds \union {None} /\ cmd[c].made \in Nat
                         /\ cmd[c].reply \in Replies \union {None}

\* A lost or refused start is never sent again: one command makes at most one
\* job, also when the server takes a start whose sender was told it failed.
OneJobPerCommand == \A c \in Commands : cmd[c].made <= 1

\* apply imports only what the same server has rehearsed: wherever the plan
\* comes from, the server holds a completed dry run of this request (as the
\* artifact shows it, with its secrets left out).
ImportWasRehearsed ==
  \A s \in Servers, i \in Ids :
    jobs[s][i] # None /\ ~jobs[s][i].dry =>
      \E d \in Ids :
        /\ jobs[s][d] # None /\ jobs[s][d].dry
        /\ jobs[s][d].status = "completed"
        /\ Redacted(jobs[s][d].request) = jobs[s][i].request

\* An apply that was told the id of its import prints it, also when the
\* artifact cannot be written.
ImportIsNamed ==
  \A c \in Commands :
    cmd[c].kind = "apply" /\ cmd[c].named /\ cmd[c].pc = "ended" => cmd[c].printed

\* Every command that is run ends, however long the job takes.
CommandsEnd == \A c \in Commands : cmd[c].pc # "idle" ~> cmd[c].pc = "ended"
=============================================================================
