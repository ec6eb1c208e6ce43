--------------------------- MODULE RunOrchestration ---------------------------
(***************************************************************************)
(* Durable execution of a migration plan: start_run and resume_run of      *)
(* honua_migrate/runs/orchestration.py as their CLI commands call them.    *)
(*                                                                         *)
(* Any number of processes run the two commands on ONE run-artifact path.  *)
(* A process reads the plan file, takes the run's lease, creates or loads  *)
(* the artifact and executes the plan's actions in order, saving the       *)
(* artifact before and after each one.  Processes crash, saves fail,       *)
(* executors raise, requests land on the target after their sender died,   *)
(* and the plan file is replaced under a running command.                  *)
(*                                                                         *)
(* An action is its position in the plan.  The artifact's checkpoint list  *)
(* is a map from positions to "none", "started" or "succeeded".            *)
(*                                                                         *)
(* A definition Mut... is an altered form of the definition below it, the  *)
(* way a plausible mistake would alter it; no specification uses it.       *)
(***************************************************************************)
EXTENDS Naturals

CONSTANTS
  Processes,   \* command invocations that may be alive at the same time
  Plans,       \* authenticated plans the plan file may hold
  Configs,     \* runtime configurations, as redact_config leaves them
  MaxActions,  \* bound: the longest plan
  Length,      \* Length[pl]: number of actions of plan pl
  Writes,      \* Writes[pl]: the actions with write = true
  Idempotent,  \* Idempotent[pl]: the actions with idempotent = true
  MaxFaults,   \* bound: crashes, failed saves, raised errors, plan edits
  None

Index == 1 .. MaxActions

ASSUME PlanAssumption ==
  /\ MaxActions \in Nat
  /\ MaxFaults \in Nat
  /\ Length \in [Plans -> 0 .. MaxActions]
  /\ Writes \in [Plans -> SUBSET Index]
  /\ Idempotent \in [Plans -> SUBSET Index]

ASSUME NoneAssumption ==
  /\ None \notin Processes
  /\ None \notin Plans
  /\ None \notin Configs

VARIABLES
  planFile,  \* the plan the plan file holds now
  disk,      \* the run artifact on disk
  lock,      \* the process that holds the flock of the lease file, or None
  pc,        \* pc[p]: where process p stands
  cmd,       \* cmd[p]: the command line of p and the plan it loaded
  run,       \* run[p]: the run dictionary in the memory of p
  sent,      \* sent[a]: how often action a was sent to the target (history)
  landed,    \* landed[a]: which of those requests took effect
  faults     \* faults spent so far

vars == <<planFile, disk, lock, pc, cmd, run, sent, landed, faults>>

target == <<sent, landed>>

-----------------------------------------------------------------------------
(* The artifact.                                                           *)

Statuses == {"none", "started", "succeeded"}

\* MigrationRun can also say "failed" and "cancelled"; nothing here writes them.
Outcomes == {"absent", "pending", "running", "partial", "succeeded"}

Runs == [ outcome : Outcomes,
          plan    : Plans \union {None},
          config  : Configs \union {None},
          cps     : [Index -> Statuses] ]

\* No artifact at the path, and the memory of a process that holds none.
NoRun == [ outcome |-> "absent", plan |-> None, config |-> None,
           cps |-> [i \in Index |-> "none"] ]

\* The run start_run builds before it touches the disk.
PendingRun(pl, cf) == [ outcome |-> "pending", plan |-> pl, config |-> cf,
                        cps |-> [i \in Index |-> "none"] ]

Actions(pl) == 1 .. Length[pl]

HasWrites(pl) == Actions(pl) \intersect Writes[pl] # {}

\* A write that must not be sent twice.
OnceOnly(pl, a) == a \in Writes[pl] /\ a \notin Idempotent[pl]

MutReplayable(pl, a) == a \notin Writes[pl]

\* What resume may send again after an inspection that found nothing.
Replayable(pl, a) == ~OnceOnly(pl, a)

MutIsNext(r, pl, a) == a \in Actions(pl) /\ r.cps[a] # "succeeded"

\* a is the action the loop over the plan stands at: all before it succeeded.
IsNext(r, pl, a) ==
  /\ a \in Actions(pl)
  /\ r.cps[a] # "succeeded"
  /\ \A b \in 1 .. (a - 1) : r.cps[b] = "succeeded"

AllSucceeded(r, pl) == \A a \in Actions(pl) : r.cps[a] = "succeeded"

MutBeginUnnoted(r, a) == [r EXCEPT !.outcome = "running"]

MutBeginPending(r, a) == [r EXCEPT !.cps[a] = "started"]

\* _execute_one before its first save.
Begin(r, a) == [r EXCEPT !.cps[a] = "started", !.outcome = "running"]

\* _complete: the checkpoint is replaced, the outcome is left as it was.
Complete(r, a) == [r EXCEPT !.cps[a] = "succeeded"]

MutPartialSucceeded(r) == [r EXCEPT !.outcome = "succeeded"]

\* _execute_one in its three except clauses.
Partial(r) == [r EXCEPT !.outcome = "partial"]

Succeeded(r) == [r EXCEPT !.outcome = "succeeded"]

MutBound(r, pl, cf) == r.config = cf

\* _bound: the loaded artifact belongs to this plan and configuration.
Bound(r, pl, cf) == r.plan = pl /\ r.config = cf

Noted(r) == {i \in Index : r.cps[i] # "none"}

\* _validated_checkpoints: what resume_run accepts of a loaded artifact.
ValidCheckpoints(r, pl) ==
  /\ Noted(r) \subseteq Actions(pl)
  /\ \A i \in Noted(r) : \A j \in 1 .. (i - 1) : r.cps[j] = "succeeded"
  /\ r.outcome = "pending" => Noted(r) = {}
  /\ r.outcome = "running" => Noted(r) # {}
  /\ r.outcome = "partial" => \E i \in Noted(r) : r.cps[i] = "started"
  /\ r.outcome = "succeeded" => AllSucceeded(r, pl)

-----------------------------------------------------------------------------
(* Processes.                                                              *)

\* The lease is held from "open" on.
Holding == {"open", "loop", "inspected", "begin", "dispatch", "await",
            "returned", "failing"}

Locations == {"idle", "reload", "lease"} \union Holding

Kinds == {"start", "resume"}

Commands == [ kind : Kinds, acked : BOOLEAN,
              config : Configs \union {None}, plan : Plans \union {None} ]

NoCommand == [kind |-> "resume", acked |-> FALSE, config |-> None, plan |-> None]

Goto(p, l) == pc' = [pc EXCEPT ![p] = l]

\* The process ends, by a return, an error or a crash; the operating system
\* drops its flock with it.
Exit(p) ==
  /\ Goto(p, "idle")
  /\ lock' = IF lock = p THEN None ELSE lock
  /\ cmd' = [cmd EXCEPT ![p] = NoCommand]
  /\ run' = [run EXCEPT ![p] = NoRun]

Fault == faults < MaxFaults /\ faults' = faults + 1

AtAction(p, a) == IsNext(run[p], cmd[p].plan, a)

\* start_run acknowledges once, before the lease; resume_run at every write.
MayWrite(p, a) ==
  \/ cmd[p].kind = "start"
  \/ a \notin Writes[cmd[p].plan]
  \/ cmd[p].acked

\* RunStore.save, when it works: the artifact is replaced in one rename.
SaveAs(p, r) ==
  /\ disk' = r
  /\ run' = [run EXCEPT ![p] = r]

-----------------------------------------------------------------------------
Init ==
  /\ planFile \in Plans
  /\ disk = NoRun
  /\ lock = None
  /\ pc = [p \in Processes |-> "idle"]
  /\ cmd = [p \in Processes |-> NoCommand]
  /\ run = [p \in Processes |-> NoRun]
  /\ sent = [a \in Index |-> 0]
  /\ landed = [a \in Index |-> {}]
  /\ faults = 0

\* apply_run_command and apply_resume_command: the command line, the first
\* load of the plan, and for apply the first acknowledgement check.
Invoke(p, kind, acked, cf) ==
  /\ pc[p] = "idle"
  /\ kind = "start" => acked \/ ~HasWrites(planFile)
  /\ cmd' = [cmd EXCEPT ![p] = [kind |-> kind, acked |-> acked,
                                config |-> cf, plan |-> None]]
  /\ Goto(p, "reload")
  /\ UNCHANGED <<planFile, disk, lock, run, target, faults>>

MutUnacknowledged(p) == FALSE

\* start_run's own check, on the plan as start_run loads it.
Unacknowledged(p) ==
  cmd[p].kind = "start" /\ HasWrites(planFile) /\ ~cmd[p].acked

\* start_run and resume_run load the plan file again.
Reload(p) ==
  /\ pc[p] = "reload"
  /\ ~Unacknowledged(p)
  /\ cmd' = [cmd EXCEPT ![p].plan = planFile]
  /\ Goto(p, "lease")
  /\ UNCHANGED <<planFile, disk, lock, run, target, faults>>

RefuseReload(p) ==
  /\ pc[p] = "reload"
  /\ Unacknowledged(p)
  /\ Exit(p)
  /\ UNCHANGED <<planFile, disk, target, faults>>

MutLeaseFree(p) == TRUE

LeaseFree(p) == lock = None

\* RunStore.lease: flock without waiting; a busy lease ends the command.
AcquireLease(p) ==
  /\ pc[p] = "lease"
  /\ LeaseFree(p)
  /\ lock' = p
  /\ Goto(p, "open")
  /\ UNCHANGED <<planFile, disk, cmd, run, target, faults>>

RefuseBusy(p) ==
  /\ pc[p] = "lease"
  /\ ~LeaseFree(p)
  /\ Exit(p)
  /\ UNCHANGED <<planFile, disk, target, faults>>

MutCreatable(p) == cmd[p].kind = "start"

\* RunStore.create links the new file and fails when the path exists.
Creatable(p) == cmd[p].kind = "start" /\ disk.outcome = "absent"

\* What resume_run goes on with; a succeeded run ends here, refused or returned.
Resumable(p) ==
  /\ cmd[p].kind = "resume"
  /\ disk.outcome # "absent"
  /\ Bound(disk, cmd[p].plan, cmd[p].config)
  /\ ValidCheckpoints(disk, cmd[p].plan)
  /\ disk.outcome # "succeeded"

CreateRun(p) ==
  /\ pc[p] = "open"
  /\ Creatable(p)
  /\ SaveAs(p, PendingRun(cmd[p].plan, cmd[p].config))
  /\ Goto(p, "loop")
  /\ UNCHANGED <<planFile, lock, cmd, target, faults>>

LoadRun(p) ==
  /\ pc[p] = "open"
  /\ Resumable(p)
  /\ run' = [run EXCEPT ![p] = disk]
  /\ Goto(p, "loop")
  /\ UNCHANGED <<planFile, disk, lock, cmd, target, faults>>

RefuseOpen(p) ==
  /\ pc[p] = "open"
  /\ ~Creatable(p)
  /\ ~Resumable(p)
  /\ Exit(p)
  /\ UNCHANGED <<planFile, disk, target, faults>>

-----------------------------------------------------------------------------
(* The loop over the plan.                                                 *)

\* A resumed action with a "started" checkpoint is looked up on the target.
Inspecting(p, a) ==
  pc[p] = "loop" /\ AtAction(p, a) /\ run[p].cps[a] = "started"

\* executor.inspect proves the action took effect.
InspectConfirms(p, a) ==
  /\ Inspecting(p, a)
  /\ landed[a] # {}
  /\ run' = [run EXCEPT ![p] = Complete(run[p], a)]
  /\ Goto(p, "inspected")
  /\ UNCHANGED <<planFile, disk, lock, cmd, target, faults>>

\* executor.inspect proves nothing: only a replayable action goes on.
InspectFindsNothing(p, a) ==
  /\ Inspecting(p, a)
  /\ IF landed[a] = {} THEN UNCHANGED faults ELSE Fault
  /\ IF Replayable(cmd[p].plan, a)
       THEN Goto(p, "begin") /\ UNCHANGED <<lock, cmd, run>>
       ELSE Exit(p)
  /\ UNCHANGED <<planFile, disk, target>>

\* executor.inspect raises, or its receipt is unsafe: nothing is saved.
InspectFails(p, a) ==
  /\ Inspecting(p, a)
  /\ Fault
  /\ Exit(p)
  /\ UNCHANGED <<planFile, disk, target>>

\* The inspected receipt is saved under the outcome the run was loaded with.
SaveInspected(p) ==
  /\ pc[p] = "inspected"
  /\ SaveAs(p, run[p])
  /\ Goto(p, "loop")
  /\ UNCHANGED <<planFile, lock, cmd, target, faults>>

\* An action is about to be executed: new, or replayed after an inspection.
Starting(p, a) ==
  /\ pc[p] = "begin" \/ (pc[p] = "loop" /\ run[p].cps[a] = "none")
  /\ AtAction(p, a)

\* The checkpoint before the write.
BeginAction(p, a) ==
  /\ Starting(p, a)
  /\ MayWrite(p, a)
  /\ SaveAs(p, Begin(run[p], a))
  /\ Goto(p, "dispatch")
  /\ UNCHANGED <<planFile, lock, cmd, target, faults>>

RefuseWrite(p, a) ==
  /\ Starting(p, a)
  /\ ~MayWrite(p, a)
  /\ Exit(p)
  /\ UNCHANGED <<planFile, disk, target, faults>>

\* executor.execute sends the action.
Dispatch(p, a) ==
  /\ pc[p] = "dispatch"
  /\ AtAction(p, a)
  /\ sent' = [sent EXCEPT ![a] = @ + 1]
  /\ Goto(p, "await")
  /\ UNCHANGED <<planFile, disk, lock, cmd, run, landed, faults>>

\* executor.execute returns the receipt of the request it sent.
ExecuteReturns(p, a) ==
  /\ pc[p] = "await"
  /\ AtAction(p, a)
  /\ sent[a] \in landed[a]
  /\ Goto(p, "returned")
  /\ UNCHANGED <<planFile, disk, lock, cmd, run, target, faults>>

\* It raises instead, before or after sending; or the receipt is refused by
\* _complete; or the save of the completed copy fails.  All three are caught.
ExecuteFails(p) ==
  /\ pc[p] \in {"dispatch", "await", "returned"}
  /\ Fault
  /\ Goto(p, "failing")
  /\ UNCHANGED <<planFile, disk, lock, cmd, run, target>>

SaveCompleted(p, a) ==
  /\ pc[p] = "returned"
  /\ AtAction(p, a)
  /\ SaveAs(p, Complete(run[p], a))
  /\ Goto(p, "loop")
  /\ UNCHANGED <<planFile, lock, cmd, target, faults>>

\* The except clauses save the run as partial and end the command.
SavePartial(p) ==
  /\ pc[p] = "failing"
  /\ disk' = Partial(run[p])
  /\ Exit(p)
  /\ UNCHANGED <<planFile, target, faults>>

Finish(p) ==
  /\ pc[p] = "loop"
  /\ AllSucceeded(run[p], cmd[p].plan)
  /\ disk' = Succeeded(run[p])
  /\ Exit(p)
  /\ UNCHANGED <<planFile, target, faults>>

\* A create or a save outside the try fails: the file stays as it was.
SaveFails(p) ==
  /\ \/ pc[p] \in {"inspected", "failing"}
     \/ pc[p] = "open" /\ Creatable(p)
     \/ pc[p] = "loop" /\ AllSucceeded(run[p], cmd[p].plan)
     \/ \E a \in Index : Starting(p, a) /\ MayWrite(p, a)
  /\ Fault
  /\ Exit(p)
  /\ UNCHANGED <<planFile, disk, target>>

\* A kill or a KeyboardInterrupt, at any point: what the disk holds stays.
Crash(p) ==
  /\ pc[p] # "idle"
  /\ Fault
  /\ Exit(p)
  /\ UNCHANGED <<planFile, disk, target>>

-----------------------------------------------------------------------------
(* The surroundings.                                                       *)

\* A request reaches the target, however long ago it was sent and whether or
\* not its sender is still alive.
Land(a, n) ==
  /\ n \in (1 .. sent[a]) \ landed[a]
  /\ landed' = [landed EXCEPT ![a] = @ \union {n}]
  /\ UNCHANGED <<planFile, disk, lock, pc, cmd, run, sent, faults>>

\* Somebody writes another authenticated plan to the plan path.
ReplacePlan(pl) ==
  /\ pl # planFile
  /\ Fault
  /\ planFile' = pl
  /\ UNCHANGED <<disk, lock, pc, cmd, run, target>>

ProcessStep(p) ==
  \/ Reload(p) \/ RefuseReload(p)
  \/ AcquireLease(p) \/ RefuseBusy(p)
  \/ CreateRun(p) \/ LoadRun(p) \/ RefuseOpen(p)
  \/ SaveInspected(p) \/ SavePartial(p) \/ Finish(p)
  \/ \E a \in Index :
       \/ InspectConfirms(p, a) \/ InspectFindsNothing(p, a)
       \/ BeginAction(p, a) \/ RefuseWrite(p, a)
       \/ Dispatch(p, a) \/ ExecuteReturns(p, a) \/ SaveCompleted(p, a)

ProcessFault(p) ==
  \/ ExecuteFails(p) \/ SaveFails(p) \/ Crash(p)
  \/ \E a \in Index : InspectFails(p, a)

Command(p) ==
  \E kind \in Kinds, acked \in BOOLEAN, cf \in Configs : Invoke(p, kind, acked, cf)

Next ==
  \/ \E p \in Processes : Command(p) \/ ProcessStep(p) \/ ProcessFault(p)
  \/ \E a \in Index : \E n \in 1 .. sent[a] : Land(a, n)
  \/ \E pl \in Plans : ReplacePlan(pl)

Spec == Init /\ [][Next]_vars
-----------------------------------------------------------------------------
(* Properties.                                                             *)

\* Every variable keeps its type; a mutant that invents an outcome breaks it.
TypeOK ==
  /\ planFile \in Plans
  /\ disk \in Runs
  /\ lock \in Processes \union {None}
  /\ pc \in [Processes -> Locations]
  /\ cmd \in [Processes -> Commands]
  /\ run \in [Processes -> Runs]
  /\ sent \in [Index -> Nat]
  /\ landed \in [Index -> SUBSET Nat]
  /\ faults \in 0 .. MaxFaults

\* "Resume safely without replaying completed target writes": over all starts,
\* resumes, crashes and competing processes, a write that is not idempotent
\* is sent to the target at most once.
AtMostOnce ==
  \A a \in Index : disk.outcome # "absent" /\ OnceOnly(disk.plan, a) => sent[a] <= 1

\* "checkpointing before every target write": whatever was ever sent is on
\* record in the artifact, so no crash can hide a write from a resume.
WriteAhead ==
  \A a \in Index : sent[a] > 0 =>
    /\ disk.outcome # "absent"
    /\ disk.cps[a] \in {"started", "succeeded"}

\* An action is sent only after every earlier action of the plan took effect
\* and is recorded as succeeded.
PlanOrder ==
  \A a \in Index : sent[a] > 0 =>
    \A b \in 1 .. (a - 1) : landed[b] # {} /\ disk.cps[b] = "succeeded"

\* The artifact never claims more than the target shows: a succeeded
\* checkpoint stands for a landed request, a succeeded run for all of them.
HonestArtifact ==
  /\ \A a \in Index : disk.cps[a] = "succeeded" => landed[a] # {}
  /\ disk.outcome = "succeeded" =>
       \A a \in Actions(disk.plan) : landed[a] # {}

\* Whatever the last command left on disk when it gave up the lease is an
\* artifact that resume_run accepts under the plan it is bound to: what every
\* error message of _execute_one tells the operator, "inspect and resume the
\* run".  It does not hold: see README.
EveryArtifactResumable ==
  disk.outcome # "absent" /\ lock = None => ValidCheckpoints(disk, disk.plan)

\* The one way to an artifact nobody can resume: an inspection confirmed the
\* last started action of a partial run and the run kept its "partial".
StrandedOnlyAfterInspection ==
  disk.outcome # "absent" /\ ~ValidCheckpoints(disk, disk.plan) =>
    /\ disk.outcome = "partial"
    /\ Noted(disk) # {}
    /\ \A i \in Noted(disk) : disk.cps[i] = "succeeded"

\* Work on record is never lost: across restarts the artifact keeps its plan
\* and configuration, a checkpoint never goes back, and a succeeded run is
\* never written again.
NoCheckpointLost ==
  [][ disk.outcome # "absent" =>
        /\ disk'.plan = disk.plan /\ disk'.config = disk.config
        /\ \A a \in Index :
             /\ disk.cps[a] = "succeeded" => disk'.cps[a] = "succeeded"
             /\ disk.cps[a] = "started" => disk'.cps[a] # "none"
        /\ disk.outcome = "succeeded" => disk' = disk ]_vars

\* A write leaves only a command that acknowledged writes and runs the plan
\* the artifact is bound to, even when the plan file is replaced between the
\* CLI's check and the run.
OnlyAcknowledgedBoundWrites ==
  [][ \A a \in Index : sent'[a] # sent[a] =>
        \E p \in Processes :
          /\ lock = p
          /\ cmd[p].plan = disk.plan
          /\ a \in Writes[disk.plan] => cmd[p].acked ]_vars

\* The run implements the ledger its operator relies on.
Ledger == INSTANCE ActionLedger WITH plan <- disk.plan, ledger <- disk.cps

ImplementsLedger == Ledger!LedgerSpec

-----------------------------------------------------------------------------
(* Liveness.  A program that runs keeps running, a request that was sent   *)
(* lands, and an operator who has an unfinished run resumes it with --yes  *)
(* and the configuration it was started with, again and again.             *)

OperatorResumes(p) ==
  disk.outcome # "absent" /\ Invoke(p, "resume", TRUE, disk.config)

Fairness ==
  /\ \A p \in Processes : WF_vars(ProcessStep(p)) /\ SF_vars(OperatorResumes(p))
  /\ WF_vars(\E a \in Index : \E n \in 1 .. sent[a] : Land(a, n))

FairSpec == Spec /\ Fairness

\* A run whose writes may all be repeated ends succeeded once the faults stop,
\* unless its plan file was replaced or it was stranded (see above).
ReplayableRunSucceeds ==
  disk.outcome # "absent" /\ (\A a \in Actions(disk.plan) : ~OnceOnly(disk.plan, a))
    ~> \/ disk.outcome = "succeeded"
       \/ planFile # disk.plan
       \/ ~ValidCheckpoints(disk, disk.plan)
=============================================================================
