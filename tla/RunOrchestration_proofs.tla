------------------------ MODULE RunOrchestration_proofs ------------------------
(***************************************************************************)
(* What RunOrchestration promises for every set of processes, every plan,  *)
(* every configuration and every number of faults.                         *)
(***************************************************************************)
EXTENDS RunOrchestration, TLAPS

USE PlanAssumption, NoneAssumption

(***************************************************************************)
(* The inductive invariant.                                                *)
(***************************************************************************)

\* The lease is held by exactly the process that is past AcquireLease.
LeaseInv == \A p \in Processes : lock = p <=> pc[p] \in Holding

\* Checkpoints are a prefix of the plan and only the last may be "started".
ArtifactInv ==
  /\ disk.outcome = "absent" => disk.plan = None /\ disk.cps = [i \in Index |-> "none"]
  /\ disk.outcome # "absent" => disk.plan \in Plans
  /\ \A i \in Index : disk.cps[i] # "none" =>
       /\ i \in Actions(disk.plan)
       /\ \A j \in 1 .. (i - 1) : disk.cps[j] = "succeeded"
  /\ disk.outcome = "succeeded" => AllSucceeded(disk, disk.plan)

\* The record on disk bounds what the target has seen from both sides.
TargetInv ==
  \A a \in Index :
    /\ landed[a] \subseteq 1 .. sent[a]
    /\ disk.cps[a] = "none" => sent[a] = 0
    /\ disk.cps[a] = "succeeded" => landed[a] # {}
    /\ disk.outcome # "absent" /\ OnceOnly(disk.plan, a) => sent[a] <= 1

Working == Holding \ {"open"}

\* a is the action in progress: next in the plan and noted as started.
InProgress(a) == disk.cps[a] = "started" /\ IsNext(disk, disk.plan, a)

\* A process at work runs the bound plan and its memory is what is on disk,
\* except between an inspection and the save of what it found.
MemoryInv ==
  \A p \in Processes :
    /\ pc[p] \in Holding \union {"lease"} => cmd[p].plan \in Plans
    /\ pc[p] \in Working =>
         /\ disk.outcome \notin {"absent", "succeeded"}
         /\ cmd[p].plan = disk.plan
         /\ pc[p] # "inspected" => run[p] = disk
    /\ pc[p] = "inspected" =>
         \E a \in Index : /\ InProgress(a)
                          /\ landed[a] # {}
                          /\ run[p] = Complete(disk, a)

\* Where a request may be sent, it may be sent; where it was answered, it landed.
ProgressInv ==
  \A p \in Processes :
    /\ pc[p] \in {"begin", "dispatch", "await", "returned", "failing"} =>
         \E a \in Index : InProgress(a)
    /\ \A a \in Index : InProgress(a) /\ OnceOnly(disk.plan, a) =>
         /\ pc[p] # "begin"
         /\ pc[p] = "dispatch" => sent[a] = 0
    /\ \A a \in Index : InProgress(a) /\ pc[p] = "returned" => landed[a] # {}

CoreInv == ArtifactInv /\ TargetInv /\ MemoryInv /\ ProgressInv

IInv == TypeOK /\ LeaseInv /\ CoreInv

-----------------------------------------------------------------------------
(* Type correctness.                                                       *)

\* What every artifact operation returns is again a run.
LEMMA RunTypes ==
  ASSUME NEW r \in Runs, NEW a \in Index
  PROVE  /\ Begin(r, a) \in Runs
         /\ Complete(r, a) \in Runs
         /\ Partial(r) \in Runs
         /\ Succeeded(r) \in Runs
BY DEF Runs, Begin, Complete, Partial, Succeeded, Outcomes, Statuses

LEMMA InitialRunTypes ==
  /\ NoRun \in Runs
  /\ \A pl \in Plans, cf \in Configs \union {None} : PendingRun(pl, cf) \in Runs
BY DEF Runs, NoRun, PendingRun, Outcomes, Statuses

\* Ending a command keeps the types.
LEMMA ExitTypes ==
  ASSUME TypeOK, NEW p \in Processes, Exit(p)
  PROVE  /\ lock' \in Processes \union {None}
         /\ pc' \in [Processes -> Locations]
         /\ cmd' \in [Processes -> Commands]
         /\ run' \in [Processes -> Runs]
BY InitialRunTypes
   DEF TypeOK, Exit, Goto, Locations, Commands, NoCommand, Kinds

LEMMA InitTypes == Init => TypeOK
BY InitialRunTypes DEF Init, TypeOK, NoCommand, Commands, Kinds, Locations

\* Every variable keeps its type, for all processes, plans and faults.
THEOREM TypeCorrect == Spec => []TypeOK
<1>1. Init => TypeOK
  BY InitTypes
<1>2. TypeOK /\ [Next]_vars => TypeOK'
  <2> SUFFICES ASSUME TypeOK, [Next]_vars
               PROVE  TypeOK'
    OBVIOUS
  <2> USE DEF TypeOK, Locations, Holding, Goto, Fault, target
  <2>1. ASSUME NEW p \in Processes, NEW kind \in Kinds, NEW acked \in BOOLEAN,
               NEW cf \in Configs, Invoke(p, kind, acked, cf)
        PROVE  TypeOK'
    BY <2>1 DEF Invoke, Commands
  <2>2. ASSUME NEW p \in Processes, ProcessStep(p)
        PROVE  TypeOK'
    <3>1. CASE Reload(p)
      BY <3>1 DEF Reload, Commands
    <3>2. CASE RefuseReload(p) \/ RefuseBusy(p) \/ RefuseOpen(p)
      BY <3>2, ExitTypes DEF RefuseReload, RefuseBusy, RefuseOpen
    <3>3. CASE AcquireLease(p)
      BY <3>3 DEF AcquireLease
    <3>4. CASE CreateRun(p)
      BY <3>4, InitialRunTypes DEF CreateRun, SaveAs, Creatable, Commands, PendingRun, Runs, Outcomes, Statuses
    <3>5. CASE LoadRun(p)
      BY <3>5 DEF LoadRun
    <3>6. CASE SaveInspected(p)
      BY <3>6 DEF SaveInspected, SaveAs
    <3>7. CASE SavePartial(p)
      <4>1. disk' \in Runs
        BY <3>7 DEF SavePartial, Partial, Runs, Outcomes
      <4>2. QED
        BY <3>7, <4>1, ExitTypes DEF SavePartial
    <3>8. CASE Finish(p)
      <4>1. disk' \in Runs
        BY <3>8 DEF Finish, Succeeded, Runs, Outcomes
      <4>2. QED
        BY <3>8, <4>1, ExitTypes DEF Finish
    <3>9. ASSUME NEW a \in Index, InspectConfirms(p, a)
          PROVE  TypeOK'
      BY <3>9, RunTypes DEF InspectConfirms
    <3>10. ASSUME NEW a \in Index, InspectFindsNothing(p, a)
           PROVE  TypeOK'
      <4>1. faults' \in 0 .. MaxFaults
        BY <3>10 DEF InspectFindsNothing
      <4>2. QED
        BY <3>10, <4>1, ExitTypes DEF InspectFindsNothing
    <3>11. ASSUME NEW a \in Index, BeginAction(p, a)
           PROVE  TypeOK'
      BY <3>11, RunTypes DEF BeginAction, SaveAs
    <3>12. ASSUME NEW a \in Index, RefuseWrite(p, a)
           PROVE  TypeOK'
      BY <3>12, ExitTypes DEF RefuseWrite
    <3>13. ASSUME NEW a \in Index, Dispatch(p, a) \/ ExecuteReturns(p, a)
           PROVE  TypeOK'
      BY <3>13 DEF Dispatch, ExecuteReturns
    <3>14. ASSUME NEW a \in Index, SaveCompleted(p, a)
           PROVE  TypeOK'
      BY <3>14, RunTypes DEF SaveCompleted, SaveAs
    <3>15. QED
      BY <2>2, <3>1, <3>2, <3>3, <3>4, <3>5, <3>6, <3>7, <3>8, <3>9, <3>10,
         <3>11, <3>12, <3>13, <3>14 DEF ProcessStep
  <2>3. ASSUME NEW p \in Processes, ProcessFault(p)
        PROVE  TypeOK'
    <3>1. CASE ExecuteFails(p)
      BY <3>1 DEF ExecuteFails
    <3>2. ASSUME SaveFails(p) \/ Crash(p) \/ (\E a \in Index : InspectFails(p, a))
          PROVE  TypeOK'
      <4>1. Exit(p) /\ Fault /\ UNCHANGED <<planFile, disk, sent, landed>>
        BY <3>2 DEF SaveFails, Crash, InspectFails
      <4>2. QED
        BY <4>1, ExitTypes
    <3>3. QED
      BY <2>3, <3>1, <3>2 DEF ProcessFault
  <2>4. ASSUME NEW a \in Index, NEW n \in 1 .. sent[a], Land(a, n)
        PROVE  TypeOK'
    BY <2>4 DEF Land
  <2>5. ASSUME NEW pl \in Plans, ReplacePlan(pl)
        PROVE  TypeOK'
    BY <2>5 DEF ReplacePlan
  <2>6. CASE UNCHANGED vars
    BY <2>6 DEF vars
  <2>7. QED
    BY <2>1, <2>2, <2>3, <2>4, <2>5, <2>6 DEF Next, Command
<1>3. QED
  BY <1>1, <1>2, PTL DEF Spec

-----------------------------------------------------------------------------
(* The lease.                                                              *)

\* Ending a command gives the lease back, or leaves it with its holder.
LEMMA ExitLease ==
  ASSUME TypeOK, LeaseInv, NEW p \in Processes, Exit(p)
  PROVE  LeaseInv'
BY DEF TypeOK, LeaseInv, Exit, Goto, Holding

\* A step of p that stays on one side of AcquireLease keeps the lease.
LEMMA StayLease ==
  ASSUME TypeOK, LeaseInv, NEW p \in Processes, NEW l \in Locations,
         Goto(p, l), lock' = lock, pc[p] \in Holding <=> l \in Holding
  PROVE  LeaseInv'
BY DEF TypeOK, LeaseInv, Goto, Holding

LEMMA LeaseStep ==
  ASSUME TypeOK, LeaseInv, [Next]_vars
  PROVE  LeaseInv'
<1> USE DEF Holding, Locations
<1>1. ASSUME NEW p \in Processes, NEW kind \in Kinds, NEW acked \in BOOLEAN,
             NEW cf \in Configs, Invoke(p, kind, acked, cf)
      PROVE  LeaseInv'
  BY <1>1, StayLease DEF Invoke
<1>2. ASSUME NEW p \in Processes, ProcessStep(p)
      PROVE  LeaseInv'
  <2>1. CASE AcquireLease(p)
    BY <2>1 DEF AcquireLease, LeaseFree, Goto, LeaseInv, TypeOK
  <2>2. CASE Reload(p)
    BY <2>2, StayLease DEF Reload
  <2>3. CASE CreateRun(p) \/ LoadRun(p) \/ SaveInspected(p)
    BY <2>3, StayLease DEF CreateRun, LoadRun, SaveInspected
  <2>4. CASE \/ RefuseReload(p) \/ RefuseBusy(p) \/ RefuseOpen(p)
             \/ SavePartial(p) \/ Finish(p)
    BY <2>4, ExitLease DEF RefuseReload, RefuseBusy, RefuseOpen, SavePartial, Finish
  <2>5. ASSUME NEW a \in Index,
               \/ InspectConfirms(p, a) \/ BeginAction(p, a) \/ Dispatch(p, a)
               \/ ExecuteReturns(p, a) \/ SaveCompleted(p, a)
        PROVE  LeaseInv'
    BY <2>5, StayLease
       DEF InspectConfirms, Inspecting, BeginAction, Starting, Dispatch,
           ExecuteReturns, SaveCompleted
  <2>6. ASSUME NEW a \in Index, InspectFindsNothing(p, a) \/ RefuseWrite(p, a)
        PROVE  LeaseInv'
    BY <2>6, StayLease, ExitLease
       DEF InspectFindsNothing, Inspecting, RefuseWrite
  <2>7. QED
    BY <1>2, <2>1, <2>2, <2>3, <2>4, <2>5, <2>6 DEF ProcessStep
<1>3. ASSUME NEW p \in Processes, ProcessFault(p)
      PROVE  LeaseInv'
  <2>1. CASE ExecuteFails(p)
    BY <2>1, StayLease DEF ExecuteFails
  <2>2. CASE SaveFails(p) \/ Crash(p) \/ (\E a \in Index : InspectFails(p, a))
    BY <2>2, ExitLease DEF SaveFails, Crash, InspectFails
  <2>3. QED
    BY <1>3, <2>1, <2>2 DEF ProcessFault
<1>4. ASSUME NEW a \in Index, NEW n \in 1 .. sent[a], Land(a, n)
      PROVE  LeaseInv'
  BY <1>4 DEF Land, LeaseInv
<1>5. ASSUME NEW pl \in Plans, ReplacePlan(pl)
      PROVE  LeaseInv'
  BY <1>5 DEF ReplacePlan, LeaseInv
<1>6. CASE UNCHANGED vars
  BY <1>6 DEF vars, LeaseInv
<1>7. QED
  BY <1>1, <1>2, <1>3, <1>4, <1>5, <1>6 DEF Next, Command

-----------------------------------------------------------------------------
(* The artifact, the target and the memory of the lease holder.            *)

\* Only the lease holder is past AcquireLease.
LEMMA SoleHolder ==
  ASSUME LeaseInv, NEW p \in Processes, NEW q \in Processes,
         pc[p] \in Holding, pc[q] \in Holding
  PROVE  p = q
BY DEF LeaseInv

\* A command that ends without writing leaves the invariant as it found it.
LEMMA ExitCore ==
  ASSUME TypeOK, CoreInv, NEW p \in Processes, Exit(p),
         UNCHANGED <<disk, sent, landed>>
  PROVE  CoreInv'
<1> USE DEF TypeOK
<1>1. \A q \in Processes : q # p => pc'[q] = pc[q] /\ cmd'[q] = cmd[q] /\ run'[q] = run[q]
  BY DEF Exit, Goto
<1>2. pc'[p] = "idle"
  BY DEF Exit, Goto
<1>3. ArtifactInv' /\ TargetInv'
  BY DEF CoreInv, ArtifactInv, TargetInv, AllSucceeded
<1>4. MemoryInv'
  BY <1>1, <1>2 DEF CoreInv, MemoryInv, InProgress, IsNext, Working, Holding
<1>5. ProgressInv'
  BY <1>1, <1>2 DEF CoreInv, ProgressInv, InProgress, IsNext
<1>6. QED
  BY <1>3, <1>4, <1>5 DEF CoreInv

\* Steps before the lease touch nothing the invariant speaks of.
LEMMA EntryCore ==
  ASSUME TypeOK, CoreInv, NEW p \in Processes,
         \/ \E kind \in Kinds, acked \in BOOLEAN, cf \in Configs : Invoke(p, kind, acked, cf)
         \/ Reload(p)
         \/ AcquireLease(p)
  PROVE  CoreInv'
<1> USE DEF TypeOK, target
<1>1. /\ UNCHANGED <<disk, sent, landed, run>>
      /\ pc'[p] \in {"reload", "lease", "open"}
      /\ pc'[p] \in {"lease", "open"} => cmd'[p].plan \in Plans
      /\ \A q \in Processes : q # p => pc'[q] = pc[q] /\ cmd'[q] = cmd[q]
  BY DEF Invoke, Reload, AcquireLease, Goto, CoreInv, MemoryInv, Commands
<1>2. ArtifactInv' /\ TargetInv'
  BY <1>1 DEF CoreInv, ArtifactInv, TargetInv, AllSucceeded
<1>3. MemoryInv'
  BY <1>1 DEF CoreInv, MemoryInv, InProgress, IsNext, Working, Holding
<1>4. ProgressInv'
  BY <1>1 DEF CoreInv, ProgressInv, InProgress, IsNext
<1>5. QED
  BY <1>2, <1>3, <1>4 DEF CoreInv

\* At work, the action at hand is the same seen from the memory of the
\* process and from the artifact.
LEMMA AtActionIsNext ==
  ASSUME CoreInv, NEW p \in Processes, NEW a \in Index,
         pc[p] \in Working \ {"inspected"}
  PROVE  AtAction(p, a) <=> IsNext(disk, disk.plan, a)
BY DEF CoreInv, MemoryInv, AtAction

\* Two actions cannot both be next.
LEMMA OneNext ==
  ASSUME NEW r, NEW pl \in Plans, NEW a \in Index, NEW b \in Index,
         IsNext(r, pl, a), IsNext(r, pl, b)
  PROVE  a = b
<1>1. a \in Nat /\ b \in Nat /\ a >= 1 /\ b >= 1
  BY DEF Index
<1>2. ~(a < b)
  <2>1. a < b => a \in 1 .. (b - 1)
    BY <1>1
  <2>2. QED
    BY <2>1 DEF IsNext
<1>3. ~(b < a)
  <2>1. b < a => b \in 1 .. (a - 1)
    BY <1>1
  <2>2. QED
    BY <2>1 DEF IsNext
<1>4. QED
  BY <1>1, <1>2, <1>3

\* Steps of the holder that change neither the artifact nor the target.
LEMMA ThinkingCore ==
  ASSUME TypeOK, LeaseInv, CoreInv, NEW p \in Processes,
         \/ LoadRun(p) \/ ExecuteFails(p)
         \/ \E a \in Index : InspectConfirms(p, a) \/ ExecuteReturns(p, a)
  PROVE  CoreInv'
<1> USE DEF TypeOK, target
<1>1. /\ UNCHANGED <<disk, sent, landed, cmd>>
      /\ pc[p] \in Holding
      /\ \A q \in Processes : q # p => pc'[q] = pc[q] /\ run'[q] = run[q]
  BY DEF LoadRun, ExecuteFails, InspectConfirms, ExecuteReturns, Inspecting, Goto, Holding
<1>2. ArtifactInv' /\ TargetInv'
  BY <1>1 DEF CoreInv, ArtifactInv, TargetInv, AllSucceeded
<1>3. CASE LoadRun(p)
  <2>1. pc'[p] = "loop" /\ run'[p] = disk
    BY <1>3 DEF LoadRun, Goto
  <2>2. MemoryInv'
    BY <1>1, <1>3, <2>1
       DEF CoreInv, MemoryInv, InProgress, IsNext, Working, Holding, LoadRun, Resumable, Bound
  <2>3. ProgressInv'
    BY <1>1, <2>1 DEF CoreInv, ProgressInv, InProgress, IsNext
  <2>4. QED
    BY <1>2, <2>2, <2>3 DEF CoreInv
<1>4. CASE ExecuteFails(p)
  <2>1. /\ pc'[p] = "failing" /\ run'[p] = run[p]
        /\ pc[p] \in {"dispatch", "await", "returned"}
    BY <1>4 DEF ExecuteFails, Goto
  <2>2. MemoryInv'
    BY <1>1, <2>1 DEF CoreInv, MemoryInv, InProgress, IsNext, Working, Holding
  <2>3. ProgressInv'
    BY <1>1, <2>1 DEF CoreInv, ProgressInv, InProgress, IsNext
  <2>4. QED
    BY <1>2, <2>2, <2>3 DEF CoreInv
<1>5. ASSUME NEW a \in Index, InspectConfirms(p, a)
      PROVE  CoreInv'
  <2>1. /\ pc[p] = "loop" /\ pc'[p] = "inspected"
        /\ run'[p] = Complete(disk, a) /\ landed[a] # {}
        /\ InProgress(a)
    BY <1>5 DEF InspectConfirms, Inspecting, Goto, CoreInv, MemoryInv, Working, Holding,
                AtAction, InProgress
  <2>2. MemoryInv'
    <3>1. \A q \in Processes : q # p => pc'[q] # "inspected"
      BY <1>1, <2>1, SoleHolder DEF Holding
    <3>2. InProgress(a)' /\ run'[p] = Complete(disk', a)
      BY <1>1, <2>1 DEF InProgress, IsNext
    <3>3. QED
      BY <1>1, <2>1, <3>1, <3>2 DEF CoreInv, MemoryInv, Working, Holding
  <2>3. ProgressInv'
    BY <1>1, <2>1 DEF CoreInv, ProgressInv, InProgress, IsNext
  <2>4. QED
    BY <1>2, <2>2, <2>3 DEF CoreInv
<1>6. ASSUME NEW a \in Index, ExecuteReturns(p, a)
      PROVE  CoreInv'
  <2>1. /\ pc[p] = "await" /\ pc'[p] = "returned" /\ run'[p] = run[p]
        /\ landed[a] # {} /\ IsNext(disk, disk.plan, a) /\ disk.plan \in Plans
    BY <1>6, AtActionIsNext
       DEF ExecuteReturns, Goto, Working, Holding, CoreInv, ArtifactInv, MemoryInv
  <2>2. MemoryInv'
    BY <1>1, <2>1 DEF CoreInv, MemoryInv, InProgress, IsNext, Working, Holding
  <2>3. \A b \in Index : InProgress(b) => b = a
    BY <2>1, OneNext DEF InProgress
  <2>4. ProgressInv'
    BY <1>1, <2>1, <2>3 DEF CoreInv, ProgressInv, InProgress, IsNext
  <2>5. QED
    BY <1>2, <2>2, <2>4 DEF CoreInv
<1>7. QED
  BY <1>3, <1>4, <1>5, <1>6

-----------------------------------------------------------------------------
(* Steps of the holder that write the artifact or reach the target.        *)

\* Everybody but the holder is outside the lease, so only the holder's own
\* memory has to agree with what it wrote.
LEMMA OthersOutside ==
  ASSUME LeaseInv, NEW p \in Processes, pc[p] \in Holding
  PROVE  \A q \in Processes : q # p => pc[q] \notin Holding
BY SoleHolder

LEMMA CreateCore ==
  ASSUME TypeOK, LeaseInv, CoreInv, NEW p \in Processes, CreateRun(p)
  PROVE  CoreInv'
<1> USE DEF TypeOK, target
<1>1. /\ disk' = PendingRun(cmd[p].plan, cmd[p].config)
      /\ run'[p] = disk' /\ pc'[p] = "loop"
      /\ cmd[p].plan \in Plans
      /\ UNCHANGED <<sent, landed, cmd>>
      /\ pc[p] = "open" /\ disk.outcome = "absent"
      /\ \A q \in Processes : q # p => pc'[q] = pc[q] /\ run'[q] = run[q]
  BY DEF CreateRun, Creatable, SaveAs, Goto, CoreInv, MemoryInv, Holding
<1>2. \A q \in Processes : q # p => pc[q] \notin Holding
  BY <1>1, OthersOutside DEF Holding
<1>3. \A i \in Index : sent[i] = 0 /\ landed[i] \subseteq 1 .. sent[i]
  BY <1>1 DEF CoreInv, ArtifactInv, TargetInv
<1>4. /\ disk'.outcome = "pending" /\ disk'.plan = cmd[p].plan
      /\ \A i \in Index : disk'.cps[i] = "none"
  BY <1>1 DEF PendingRun
<1>5. ArtifactInv'
  BY <1>1, <1>4 DEF ArtifactInv
<1>6. TargetInv'
  BY <1>1, <1>3, <1>4 DEF TargetInv
<1>7. MemoryInv'
  BY <1>1, <1>2, <1>4 DEF CoreInv, MemoryInv, Working, Holding
<1>8. ProgressInv'
  BY <1>1, <1>2, <1>4 DEF ProgressInv, InProgress, Holding
<1>9. QED
  BY <1>5, <1>6, <1>7, <1>8 DEF CoreInv

\* A save by the holder that turns the checkpoint of the next action into
\* "succeeded": after an inspection or after an execution.
LEMMA ConfirmCore ==
  ASSUME TypeOK, LeaseInv, CoreInv, NEW p \in Processes, NEW a \in Index,
         pc[p] \in Working, InProgress(a), landed[a] # {},
         disk' = Complete(disk, a), run'[p] = disk', Goto(p, "loop"),
         UNCHANGED <<sent, landed, cmd>>,
         \A q \in Processes : q # p => run'[q] = run[q]
  PROVE  CoreInv'
<1> USE DEF TypeOK
<1>1. /\ disk'.outcome = disk.outcome /\ disk'.plan = disk.plan
      /\ disk'.cps[a] = "succeeded"
      /\ \A i \in Index : i # a => disk'.cps[i] = disk.cps[i]
  BY DEF Complete, Runs
<1>2. pc'[p] = "loop" /\ \A q \in Processes : q # p => pc'[q] = pc[q] /\ pc[q] \notin Holding
  BY OthersOutside DEF Goto, Working
<1>3. disk.outcome \notin {"absent", "succeeded"} /\ cmd[p].plan = disk.plan
  BY DEF CoreInv, MemoryInv
<1>4. ArtifactInv'
  <2>1. ASSUME NEW i \in Index, disk'.cps[i] # "none"
        PROVE  i \in Actions(disk'.plan) /\ \A j \in 1 .. (i - 1) : disk'.cps[j] = "succeeded"
    <3>1. disk.cps[i] # "none"
      BY <1>1, <2>1 DEF InProgress
    <3>2. \A j \in 1 .. (i - 1) : j \in Index /\ disk.cps[j] = "succeeded"
      BY <3>1 DEF CoreInv, ArtifactInv, Index
    <3>3. QED
      BY <1>1, <3>1, <3>2 DEF CoreInv, ArtifactInv
  <2>2. QED
    BY <1>1, <1>3, <2>1 DEF CoreInv, ArtifactInv
<1>5. TargetInv'
  BY <1>1, <1>3 DEF CoreInv, TargetInv
<1>6. MemoryInv'
  BY <1>1, <1>2, <1>3 DEF CoreInv, MemoryInv, Working, Holding
<1>7. ProgressInv'
  <2>1. \A b \in Index : disk'.cps[b] # "started"
    <3>1. ASSUME NEW b \in Index, disk.cps[b] = "started"
          PROVE  b = a
      <4>1. disk.plan \in Plans
        BY <1>3 DEF CoreInv, ArtifactInv
      <4>2. IsNext(disk, disk.plan, b)
        BY <3>1 DEF CoreInv, ArtifactInv, IsNext
      <4>3. QED
        BY <4>1, <4>2, OneNext DEF InProgress
    <3>2. QED
      BY <1>1, <3>1
  <2>2. QED
    BY <1>2, <2>1 DEF ProgressInv, InProgress, Holding
<1>8. QED
  BY <1>4, <1>5, <1>6, <1>7 DEF CoreInv

LEMMA SaveInspectedCore ==
  ASSUME TypeOK, LeaseInv, CoreInv, NEW p \in Processes, SaveInspected(p)
  PROVE  CoreInv'
<1>1. PICK a \in Index : InProgress(a) /\ landed[a] # {} /\ run[p] = Complete(disk, a)
  BY DEF SaveInspected, CoreInv, MemoryInv
<1>2. QED
  BY <1>1, ConfirmCore DEF SaveInspected, SaveAs, Working, Holding, TypeOK, target

LEMMA SaveCompletedCore ==
  ASSUME TypeOK, LeaseInv, CoreInv, NEW p \in Processes, NEW a \in Index,
         SaveCompleted(p, a)
  PROVE  CoreInv'
<1>1. pc[p] = "returned" /\ IsNext(disk, disk.plan, a) /\ run[p] = disk /\ disk.plan \in Plans
  BY AtActionIsNext
     DEF SaveCompleted, CoreInv, MemoryInv, ArtifactInv, Working, Holding
<1>2. InProgress(a) /\ landed[a] # {}
  <2>1. PICK b \in Index : InProgress(b)
    BY <1>1 DEF CoreInv, ProgressInv
  <2>2. b = a
    BY <1>1, <2>1, OneNext DEF InProgress
  <2>3. QED
    BY <1>1, <2>1, <2>2 DEF CoreInv, ProgressInv
<1>3. QED
  BY <1>1, <1>2, ConfirmCore DEF SaveCompleted, SaveAs, Working, Holding, TypeOK, target

\* The checkpoint before the write: the action was never sent, or it was
\* inspected and may be sent again.
LEMMA BeginCore ==
  ASSUME TypeOK, LeaseInv, CoreInv, NEW p \in Processes, NEW a \in Index,
         BeginAction(p, a)
  PROVE  CoreInv'
<1> USE DEF TypeOK, target
<1>1. /\ pc[p] \in {"begin", "loop"} /\ pc'[p] = "dispatch"
      /\ pc[p] = "loop" => disk.cps[a] = "none"
      /\ IsNext(disk, disk.plan, a)
      /\ disk' = Begin(disk, a) /\ run'[p] = disk'
      /\ UNCHANGED <<sent, landed, cmd>>
      /\ cmd[p].plan = disk.plan /\ disk.plan \in Plans
      /\ disk.outcome \notin {"absent", "succeeded"}
      /\ \A q \in Processes : q # p => pc'[q] = pc[q] /\ run'[q] = run[q]
  BY AtActionIsNext
     DEF BeginAction, Starting, SaveAs, Goto, CoreInv, MemoryInv, ArtifactInv, Working, Holding
<1>2. /\ disk'.outcome = "running" /\ disk'.plan = disk.plan
      /\ disk'.cps[a] = "started"
      /\ \A i \in Index : i # a => disk'.cps[i] = disk.cps[i]
  BY <1>1 DEF Begin, Runs
<1>3. \A q \in Processes : q # p => pc[q] \notin Holding
  BY <1>1, OthersOutside DEF Holding
<1>4. \A i \in Index : i # a /\ disk.cps[i] # "none" => disk.cps[i] = "succeeded" /\ i \in 1 .. (a - 1)
  <2>1. ASSUME NEW i \in Index, i # a, disk.cps[i] # "none"
        PROVE  i \in 1 .. (a - 1)
    <3>1. i > a => a \in 1 .. (i - 1)
      BY DEF Index
    <3>2. ~(i > a)
      BY <1>1, <2>1, <3>1 DEF CoreInv, ArtifactInv, IsNext
    <3>3. QED
      BY <2>1, <3>2 DEF Index
  <2>2. QED
    BY <1>1, <2>1 DEF IsNext
<1>5. IsNext(disk', disk'.plan, a)
  <2>1. \A b \in 1 .. (a - 1) : b \in Index /\ b # a
    BY DEF Index
  <2>2. QED
    BY <1>1, <1>2, <2>1 DEF IsNext
<1>6. ArtifactInv'
  <2>1. ASSUME NEW i \in Index, disk'.cps[i] # "none"
        PROVE  i \in Actions(disk'.plan) /\ \A j \in 1 .. (i - 1) : disk'.cps[j] = "succeeded"
    <3>1. CASE i = a
      BY <3>1, <1>5 DEF IsNext
    <3>2. CASE i # a
      <4>1. disk.cps[i] # "none" /\ i \in 1 .. (a - 1)
        BY <3>2, <1>2, <1>4, <2>1
      <4>2. \A j \in 1 .. (i - 1) : j \in 1 .. (a - 1)
        BY <4>1 DEF Index
      <4>3. i \in Actions(disk'.plan)
        BY <4>1, <1>2 DEF CoreInv, ArtifactInv
      <4>4. QED
        BY <4>2, <4>3, <1>5 DEF IsNext
    <3>3. QED
      BY <3>1, <3>2
  <2>2. QED
    BY <1>1, <1>2, <2>1 DEF ArtifactInv
<1>7. TargetInv'
  BY <1>1, <1>2 DEF CoreInv, TargetInv
<1>8. MemoryInv'
  BY <1>1, <1>2, <1>3 DEF CoreInv, MemoryInv, Working, Holding
<1>9. ProgressInv'
  <2>1. InProgress(a)'
    BY <1>2, <1>5 DEF InProgress
  <2>2. \A b \in Index : InProgress(b)' => b = a
    BY <1>1, <1>2, <1>4 DEF InProgress
  <2>3. OnceOnly(disk'.plan, a) => sent'[a] = 0
    <3>1. CASE disk.cps[a] = "none"
      BY <3>1, <1>1 DEF CoreInv, TargetInv
    <3>2. CASE disk.cps[a] # "none"
      <4>1. pc[p] = "begin" /\ InProgress(a)
        BY <3>2, <1>1 DEF InProgress, IsNext, Runs, Statuses
      <4>2. QED
        BY <4>1, <1>2 DEF CoreInv, ProgressInv
    <3>3. QED
      BY <3>1, <3>2
  <2>4. QED
    BY <1>1, <1>3, <2>1, <2>2, <2>3 DEF ProgressInv, Holding
<1>10. QED
  BY <1>6, <1>7, <1>8, <1>9 DEF CoreInv

\* The last save of a command, partial or succeeded, and its exit.
LEMMA LastSaveCore ==
  ASSUME TypeOK, LeaseInv, CoreInv, NEW p \in Processes,
         SavePartial(p) \/ Finish(p)
  PROVE  CoreInv'
<1> USE DEF TypeOK, target
<1>1. /\ pc[p] \in Working /\ pc'[p] = "idle"
      /\ run[p] = disk /\ disk.plan \in Plans /\ cmd[p].plan = disk.plan
      /\ disk' = Partial(disk) \/ (disk' = Succeeded(disk) /\ AllSucceeded(disk, disk.plan))
      /\ UNCHANGED <<sent, landed>>
      /\ disk.outcome # "absent"
      /\ \A q \in Processes : q # p => pc'[q] = pc[q] /\ run'[q] = run[q] /\ cmd'[q] = cmd[q]
  BY DEF SavePartial, Finish, Exit, Goto, CoreInv, MemoryInv, ArtifactInv, Working, Holding
<1>2. /\ disk'.cps = disk.cps /\ disk'.plan = disk.plan
      /\ disk'.outcome \in {"partial", "succeeded"}
      /\ disk'.outcome = "succeeded" => AllSucceeded(disk, disk.plan)
  BY <1>1 DEF Partial, Succeeded, Runs
<1>3. \A q \in Processes : q # p => pc[q] \notin Holding
  BY <1>1, OthersOutside DEF Working
<1>4. ArtifactInv'
  BY <1>1, <1>2 DEF CoreInv, ArtifactInv, AllSucceeded
<1>5. TargetInv'
  BY <1>1, <1>2 DEF CoreInv, TargetInv
<1>6. MemoryInv'
  BY <1>1, <1>3 DEF CoreInv, MemoryInv, Working, Holding
<1>7. ProgressInv'
  BY <1>1, <1>3 DEF ProgressInv, Holding
<1>8. QED
  BY <1>4, <1>5, <1>6, <1>7 DEF CoreInv

\* Sending: an action that must not be repeated has not been sent before.
LEMMA DispatchCore ==
  ASSUME TypeOK, LeaseInv, CoreInv, NEW p \in Processes, NEW a \in Index,
         Dispatch(p, a)
  PROVE  CoreInv'
<1> USE DEF TypeOK, target
<1>1. /\ pc[p] = "dispatch" /\ pc'[p] = "await"
      /\ IsNext(disk, disk.plan, a) /\ disk.plan \in Plans
      /\ sent'[a] = sent[a] + 1
      /\ \A i \in Index : i # a => sent'[i] = sent[i]
      /\ UNCHANGED <<disk, landed, cmd, run>>
      /\ \A q \in Processes : q # p => pc'[q] = pc[q]
  BY AtActionIsNext DEF Dispatch, Goto, CoreInv, MemoryInv, ArtifactInv, Working, Holding
<1>2. InProgress(a)
  <2>1. PICK b \in Index : InProgress(b)
    BY <1>1 DEF CoreInv, ProgressInv
  <2>2. QED
    BY <1>1, <2>1, OneNext DEF InProgress
<1>3. \A q \in Processes : q # p => pc[q] \notin Holding
  BY <1>1, OthersOutside DEF Holding
<1>4. ArtifactInv'
  BY <1>1 DEF CoreInv, ArtifactInv, AllSucceeded
<1>5. TargetInv'
  <2>1. ASSUME NEW i \in Index
        PROVE  landed'[i] \subseteq 1 .. sent'[i]
    <3>1. sent[i] \in Nat /\ sent'[i] \in Nat /\ sent[i] <= sent'[i]
      BY <1>1
    <3>2. landed[i] \subseteq 1 .. sent[i]
      BY DEF CoreInv, TargetInv
    <3>3. QED
      BY <1>1, <3>1, <3>2
  <2>2. OnceOnly(disk.plan, a) => sent'[a] <= 1
    BY <1>1, <1>2 DEF CoreInv, ProgressInv
  <2>3. disk.cps[a] # "none"
    BY <1>2 DEF InProgress
  <2>4. QED
    BY <1>1, <2>1, <2>2, <2>3 DEF CoreInv, TargetInv
<1>6. MemoryInv'
  BY <1>1, <1>3 DEF CoreInv, MemoryInv, Working, Holding, InProgress, IsNext
<1>7. ProgressInv'
  BY <1>1, <1>3 DEF CoreInv, ProgressInv, Holding, InProgress, IsNext
<1>8. QED
  BY <1>4, <1>5, <1>6, <1>7 DEF CoreInv

LEMMA LandCore ==
  ASSUME TypeOK, CoreInv, NEW a \in Index, NEW n \in 1 .. sent[a], Land(a, n)
  PROVE  CoreInv'
<1> USE DEF TypeOK
<1>1. /\ UNCHANGED <<disk, pc, cmd, run, sent>>
      /\ landed'[a] = landed[a] \union {n}
      /\ \A i \in Index : i # a => landed'[i] = landed[i]
  BY DEF Land
<1>2. ArtifactInv'
  BY <1>1 DEF CoreInv, ArtifactInv, AllSucceeded
<1>3. TargetInv'
  BY <1>1 DEF CoreInv, TargetInv
<1>4. \A i \in Index : landed[i] # {} => landed'[i] # {}
  BY <1>1
<1>5. MemoryInv'
  <2>1. ASSUME NEW q \in Processes, pc'[q] = "inspected"
        PROVE  \E b \in Index : InProgress(b)' /\ landed'[b] # {} /\ run'[q] = Complete(disk', b)
    <3>1. PICK b \in Index : InProgress(b) /\ landed[b] # {} /\ run[q] = Complete(disk, b)
      BY <1>1, <2>1 DEF CoreInv, MemoryInv
    <3>2. InProgress(b)' /\ run'[q] = Complete(disk', b)
      BY <1>1, <3>1 DEF InProgress, IsNext
    <3>3. QED
      BY <1>4, <3>1, <3>2
  <2>2. QED
    BY <1>1, <2>1 DEF CoreInv, MemoryInv, Working
<1>6. ProgressInv'
  BY <1>1, <1>4 DEF CoreInv, ProgressInv, InProgress, IsNext
<1>7. QED
  BY <1>2, <1>3, <1>5, <1>6 DEF CoreInv

\* An inspection that proves nothing lets only replayable actions go on.
LEMMA InspectFindsNothingCore ==
  ASSUME TypeOK, LeaseInv, CoreInv, NEW p \in Processes, NEW a \in Index,
         InspectFindsNothing(p, a)
  PROVE  CoreInv'
<1> USE DEF TypeOK, target
<1>1. CASE ~Replayable(cmd[p].plan, a)
  BY <1>1, ExitCore DEF InspectFindsNothing
<1>2. CASE Replayable(cmd[p].plan, a)
  <2>1. /\ pc[p] = "loop" /\ pc'[p] = "begin"
        /\ InProgress(a) /\ ~OnceOnly(disk.plan, a) /\ disk.plan \in Plans
        /\ UNCHANGED <<disk, sent, landed, cmd, run>>
        /\ \A q \in Processes : q # p => pc'[q] = pc[q]
    BY <1>2
       DEF InspectFindsNothing, Inspecting, AtAction, InProgress, Replayable, Goto,
           CoreInv, MemoryInv, ArtifactInv, Working, Holding
  <2>2. ArtifactInv' /\ TargetInv'
    BY <2>1 DEF CoreInv, ArtifactInv, TargetInv, AllSucceeded
  <2>3. MemoryInv'
    BY <2>1 DEF CoreInv, MemoryInv, Working, Holding, InProgress, IsNext
  <2>4. \A b \in Index : InProgress(b) => b = a
    BY <2>1, OneNext DEF InProgress
  <2>5. ProgressInv'
    BY <2>1, <2>4 DEF CoreInv, ProgressInv, InProgress, IsNext
  <2>6. QED
    BY <2>2, <2>3, <2>5 DEF CoreInv
<1>3. QED
  BY <1>1, <1>2

-----------------------------------------------------------------------------
(* The invariant holds, and with it the safety properties.                 *)

LEMMA CoreStep ==
  ASSUME TypeOK, LeaseInv, CoreInv, [Next]_vars
  PROVE  CoreInv'
<1>1. ASSUME NEW p \in Processes, Command(p)
      PROVE  CoreInv'
  BY <1>1, EntryCore DEF Command
<1>2. ASSUME NEW p \in Processes, ProcessStep(p)
      PROVE  CoreInv'
  <2>1. CASE Reload(p) \/ AcquireLease(p)
    BY <2>1, EntryCore
  <2>2. CASE RefuseReload(p) \/ RefuseBusy(p) \/ RefuseOpen(p)
    BY <2>2, ExitCore DEF RefuseReload, RefuseBusy, RefuseOpen, target
  <2>3. CASE CreateRun(p)
    BY <2>3, CreateCore
  <2>4. CASE LoadRun(p)
    BY <2>4, ThinkingCore
  <2>5. CASE SaveInspected(p)
    BY <2>5, SaveInspectedCore
  <2>6. CASE SavePartial(p) \/ Finish(p)
    BY <2>6, LastSaveCore
  <2>7. ASSUME NEW a \in Index, InspectConfirms(p, a) \/ ExecuteReturns(p, a)
        PROVE  CoreInv'
    BY <2>7, ThinkingCore
  <2>8. ASSUME NEW a \in Index, InspectFindsNothing(p, a)
        PROVE  CoreInv'
    BY <2>8, InspectFindsNothingCore
  <2>9. ASSUME NEW a \in Index, BeginAction(p, a)
        PROVE  CoreInv'
    BY <2>9, BeginCore
  <2>10. ASSUME NEW a \in Index, RefuseWrite(p, a)
         PROVE  CoreInv'
    BY <2>10, ExitCore DEF RefuseWrite, target
  <2>11. ASSUME NEW a \in Index, Dispatch(p, a)
         PROVE  CoreInv'
    BY <2>11, DispatchCore
  <2>12. ASSUME NEW a \in Index, SaveCompleted(p, a)
         PROVE  CoreInv'
    BY <2>12, SaveCompletedCore
  <2>13. QED
    BY <1>2, <2>1, <2>2, <2>3, <2>4, <2>5, <2>6, <2>7, <2>8, <2>9, <2>10, <2>11,
       <2>12 DEF ProcessStep
<1>3. ASSUME NEW p \in Processes, ProcessFault(p)
      PROVE  CoreInv'
  <2>1. CASE ExecuteFails(p)
    BY <2>1, ThinkingCore
  <2>2. CASE SaveFails(p) \/ Crash(p) \/ (\E a \in Index : InspectFails(p, a))
    BY <2>2, ExitCore DEF SaveFails, Crash, InspectFails, target
  <2>3. QED
    BY <1>3, <2>1, <2>2 DEF ProcessFault
<1>4. ASSUME NEW a \in Index, NEW n \in 1 .. sent[a], Land(a, n)
      PROVE  CoreInv'
  BY <1>4, LandCore
<1>5. CASE UNCHANGED vars \/ (\E pl \in Plans : ReplacePlan(pl))
  <2>1. UNCHANGED <<disk, pc, cmd, run, sent, landed>>
    BY <1>5 DEF vars, ReplacePlan, target
  <2>2. QED
    BY <2>1 DEF CoreInv, ArtifactInv, TargetInv, MemoryInv, ProgressInv,
                InProgress, IsNext, AllSucceeded
<1>6. QED
  BY <1>1, <1>2, <1>3, <1>4, <1>5 DEF Next

\* The inductive invariant, for every number of processes, plans and faults.
THEOREM Invariance == Spec => []IInv
<1>1. Init => IInv
  <2> SUFFICES ASSUME Init
               PROVE  LeaseInv /\ CoreInv
    BY InitTypes DEF IInv
  <2> USE DEF Init, NoRun
  <2>1. LeaseInv
    BY DEF LeaseInv, Holding
  <2>2. ArtifactInv /\ TargetInv
    BY DEF ArtifactInv, TargetInv
  <2>3. MemoryInv /\ ProgressInv
    BY DEF MemoryInv, ProgressInv, Working, Holding
  <2>4. QED
    BY <2>1, <2>2, <2>3 DEF CoreInv
<1>2. TypeOK /\ TypeOK' /\ IInv /\ [Next]_vars => IInv'
  BY LeaseStep, CoreStep DEF IInv
<1>3. QED
  BY <1>1, <1>2, TypeCorrect, PTL DEF Spec

\* A write that is not idempotent is sent at most once.
THEOREM AtMostOnceHolds == Spec => []AtMostOnce
<1>1. IInv => AtMostOnce
  BY DEF IInv, CoreInv, TargetInv, AtMostOnce
<1>2. QED
  BY <1>1, Invariance, PTL

\* Nothing is sent that the artifact does not have on record.
THEOREM WriteAheadHolds == Spec => []WriteAhead
<1>1. IInv => WriteAhead
  BY DEF IInv, CoreInv, TargetInv, ArtifactInv, WriteAhead, TypeOK, Runs, Statuses
<1>2. QED
  BY <1>1, Invariance, PTL

\* Actions reach the target in plan order, each after its predecessors are in.
THEOREM PlanOrderHolds == Spec => []PlanOrder
<1>1. IInv => PlanOrder
  <2> SUFFICES ASSUME IInv, NEW a \in Index, sent[a] > 0, NEW b \in 1 .. (a - 1)
               PROVE  landed[b] # {} /\ disk.cps[b] = "succeeded"
    BY DEF PlanOrder
  <2>1. b \in Index
    BY DEF Index
  <2>2. disk.cps[a] # "none"
    BY DEF IInv, CoreInv, TargetInv
  <2>3. disk.cps[b] = "succeeded"
    BY <2>2 DEF IInv, CoreInv, ArtifactInv
  <2>4. QED
    BY <2>1, <2>3 DEF IInv, CoreInv, TargetInv
<1>2. QED
  BY <1>1, Invariance, PTL

\* The artifact never claims more than the target shows.
THEOREM HonestArtifactHolds == Spec => []HonestArtifact
<1>1. IInv => HonestArtifact
  <2> SUFFICES ASSUME IInv
               PROVE  HonestArtifact
    OBVIOUS
  <2>1. \A a \in Index : disk.cps[a] = "succeeded" => landed[a] # {}
    BY DEF IInv, CoreInv, TargetInv
  <2>2. ASSUME disk.outcome = "succeeded", NEW a \in Actions(disk.plan)
        PROVE  landed[a] # {}
    <3>1. disk.plan \in Plans /\ disk.cps[a] = "succeeded"
      BY <2>2 DEF IInv, CoreInv, ArtifactInv, AllSucceeded
    <3>2. a \in Index
      BY <3>1 DEF Actions, Index
    <3>3. QED
      BY <2>1, <3>1, <3>2
  <2>3. QED
    BY <2>1, <2>2 DEF HonestArtifact
<1>2. QED
  BY <1>1, Invariance, PTL

-----------------------------------------------------------------------------
(* How an artifact can be stranded.                                        *)

\* The outcome on disk agrees with the checkpoints up to the one exception
\* StrandedOnlyAfterInspection allows.
OutcomeInv ==
  /\ disk.outcome = "pending" => Noted(disk) = {}
  /\ disk.outcome \in {"running", "partial"} => Noted(disk) # {}

LEMMA OutcomeStep ==
  ASSUME IInv, OutcomeInv, [Next]_vars
  PROVE  OutcomeInv'
<1> USE DEF IInv, TypeOK, Noted, target
<1>1. CASE UNCHANGED disk
  BY <1>1 DEF OutcomeInv
<1>2. ASSUME NEW p \in Processes, CreateRun(p)
      PROVE  OutcomeInv'
  BY <1>2 DEF CreateRun, SaveAs, PendingRun, OutcomeInv
<1>3. ASSUME NEW p \in Processes, SaveInspected(p)
      PROVE  OutcomeInv'
  <2>1. PICK a \in Index : InProgress(a) /\ disk' = Complete(disk, a)
    BY <1>3 DEF SaveInspected, SaveAs, CoreInv, MemoryInv
  <2>2. disk'.outcome = disk.outcome /\ disk'.cps[a] # "none" /\ disk.cps[a] # "none"
    BY <2>1 DEF Complete, Runs, InProgress
  <2>3. QED
    BY <2>2 DEF OutcomeInv
<1>4. ASSUME NEW p \in Processes, NEW a \in Index, BeginAction(p, a)
      PROVE  OutcomeInv'
  <2>1. disk' = Begin(run[p], a) /\ run[p] \in Runs
    BY <1>4 DEF BeginAction, SaveAs
  <2>2. disk'.outcome = "running" /\ disk'.cps[a] # "none"
    BY <2>1 DEF Begin, Runs
  <2>3. QED
    BY <2>2 DEF OutcomeInv
<1>5. ASSUME NEW p \in Processes, NEW a \in Index, SaveCompleted(p, a)
      PROVE  OutcomeInv'
  <2>1. disk' = Complete(disk, a) /\ IsNext(disk, disk.plan, a)
    BY <1>5, AtActionIsNext DEF SaveCompleted, SaveAs, CoreInv, MemoryInv, Working, Holding
  <2>2. disk'.outcome = disk.outcome /\ disk'.cps[a] # "none"
    BY <2>1 DEF Complete, Runs
  <2>3. disk.outcome # "pending"
    <3>1. PICK b \in Index : InProgress(b)
      BY <1>5 DEF SaveCompleted, CoreInv, ProgressInv
    <3>2. QED
      BY <3>1 DEF InProgress, OutcomeInv
  <2>4. QED
    BY <2>2, <2>3 DEF OutcomeInv
<1>6. ASSUME NEW p \in Processes, SavePartial(p)
      PROVE  OutcomeInv'
  <2>1. PICK b \in Index : InProgress(b)
    BY <1>6 DEF SavePartial, CoreInv, ProgressInv
  <2>2. disk' = Partial(disk)
    BY <1>6 DEF SavePartial, CoreInv, MemoryInv, Working, Holding
  <2>3. disk'.outcome = "partial" /\ disk'.cps[b] # "none"
    BY <2>1, <2>2 DEF Partial, Runs, InProgress
  <2>4. QED
    BY <2>3 DEF OutcomeInv
<1>7. ASSUME NEW p \in Processes, Finish(p)
      PROVE  OutcomeInv'
  BY <1>7 DEF Finish, Succeeded, Runs, OutcomeInv
<1>8. QED
  BY <1>1, <1>2, <1>3, <1>4, <1>5, <1>6, <1>7
     DEF Next, vars, Command, Invoke, ProcessStep, ProcessFault, Reload, RefuseReload,
         AcquireLease, RefuseBusy, LoadRun, RefuseOpen, InspectConfirms,
         InspectFindsNothing, InspectFails, RefuseWrite, Dispatch, ExecuteReturns,
         ExecuteFails, SaveFails, Crash, Land, ReplacePlan

\* An artifact resume_run rejects is always a partial run whose checkpoints
\* all succeeded: the inspection path is the only way there.
THEOREM StrandedOnlyAfterInspectionHolds == Spec => []StrandedOnlyAfterInspection
<1>1. Init => OutcomeInv
  BY DEF Init, NoRun, OutcomeInv
<1>2. IInv /\ OutcomeInv => StrandedOnlyAfterInspection
  <2> SUFFICES ASSUME IInv, OutcomeInv, disk.outcome # "absent",
                      ~ValidCheckpoints(disk, disk.plan)
               PROVE  /\ disk.outcome = "partial"
                      /\ Noted(disk) # {}
                      /\ \A i \in Noted(disk) : disk.cps[i] = "succeeded"
    BY DEF StrandedOnlyAfterInspection
  <2>1. /\ Noted(disk) \subseteq Actions(disk.plan)
        /\ \A i \in Noted(disk) : \A j \in 1 .. (i - 1) : disk.cps[j] = "succeeded"
        /\ disk.outcome = "succeeded" => AllSucceeded(disk, disk.plan)
    BY DEF IInv, CoreInv, ArtifactInv, Noted
  <2>2. disk.outcome = "partial" /\ \A i \in Noted(disk) : disk.cps[i] # "started"
    BY <2>1 DEF ValidCheckpoints, OutcomeInv
  <2>3. QED
    BY <2>2 DEF OutcomeInv, Noted, IInv, TypeOK, Runs, Statuses
<1>3. IInv /\ OutcomeInv /\ [Next]_vars => OutcomeInv'
  BY OutcomeStep
<1>4. QED
  BY <1>1, <1>2, <1>3, Invariance, PTL DEF Spec

-----------------------------------------------------------------------------
(* Refinement of ActionLedger, and the action properties.                  *)

\* What a step may do to the artifact and the target.
LEMMA StepsOfTheLedger ==
  ASSUME IInv, [Next]_vars
  PROVE  \/ UNCHANGED <<disk, sent, landed>>
         \/ \E p \in Processes :
              \/ CreateRun(p) \/ SaveInspected(p) \/ SavePartial(p) \/ Finish(p)
              \/ \E a \in Index : BeginAction(p, a) \/ SaveCompleted(p, a) \/ Dispatch(p, a)
         \/ \E a \in Index : \E n \in 1 .. sent[a] : Land(a, n)
BY DEF Next, vars, target, Command, Invoke, ProcessStep, ProcessFault, Reload, RefuseReload,
       AcquireLease, RefuseBusy, LoadRun, RefuseOpen, InspectConfirms,
       InspectFindsNothing, InspectFails, RefuseWrite, ExecuteReturns,
       ExecuteFails, SaveFails, Crash, ReplacePlan

\* What each of the steps that write the artifact does to it.
LEMMA CreateWrites ==
  ASSUME IInv, NEW p \in Processes, CreateRun(p)
  PROVE  /\ disk.outcome = "absent" /\ disk'.plan \in Plans
         /\ disk'.cps = disk.cps
         /\ UNCHANGED <<sent, landed>>
BY DEF IInv, CreateRun, Creatable, SaveAs, PendingRun, CoreInv, ArtifactInv, MemoryInv,
       Holding, target

LEMMA ConfirmWrites ==
  ASSUME IInv, NEW p \in Processes,
         SaveInspected(p) \/ \E a \in Index : SaveCompleted(p, a)
  PROVE  /\ \E a \in Index : /\ InProgress(a) /\ landed[a] # {}
                             /\ disk' = Complete(disk, a)
         /\ UNCHANGED <<sent, landed>>
<1> USE DEF IInv, target
<1>1. CASE SaveInspected(p)
  BY <1>1 DEF SaveInspected, SaveAs, CoreInv, MemoryInv
<1>2. ASSUME NEW a \in Index, SaveCompleted(p, a)
      PROVE  /\ InProgress(a) /\ landed[a] # {} /\ disk' = Complete(disk, a)
             /\ UNCHANGED <<sent, landed>>
  <2>1. /\ pc[p] = "returned" /\ IsNext(disk, disk.plan, a) /\ run[p] = disk
        /\ disk.plan \in Plans
    BY <1>2, AtActionIsNext
       DEF SaveCompleted, CoreInv, MemoryInv, ArtifactInv, Working, Holding
  <2>2. PICK b \in Index : InProgress(b)
    BY <2>1 DEF CoreInv, ProgressInv
  <2>3. b = a
    BY <2>1, <2>2, OneNext DEF InProgress
  <2>4. QED
    BY <1>2, <2>1, <2>2, <2>3 DEF SaveCompleted, SaveAs, CoreInv, ProgressInv
<1>3. QED
  BY <1>1, <1>2

LEMMA BeginWrites ==
  ASSUME IInv, NEW p \in Processes, NEW a \in Index, BeginAction(p, a)
  PROVE  /\ IsNext(disk, disk.plan, a) /\ disk.plan \in Plans
         /\ disk.outcome \notin {"absent", "succeeded"}
         /\ disk' = Begin(disk, a)
         /\ UNCHANGED <<sent, landed>>
BY AtActionIsNext
   DEF IInv, BeginAction, Starting, SaveAs, CoreInv, MemoryInv, ArtifactInv, Working,
       Holding, target

LEMMA LastWrites ==
  ASSUME IInv, NEW p \in Processes, SavePartial(p) \/ Finish(p)
  PROVE  /\ disk' = Partial(disk) \/ disk' = Succeeded(disk)
         /\ disk.outcome \notin {"absent", "succeeded"}
         /\ UNCHANGED <<sent, landed>>
BY DEF IInv, SavePartial, Finish, CoreInv, MemoryInv, Working, Holding, target

LEMMA DispatchSends ==
  ASSUME IInv, NEW p \in Processes, NEW a \in Index, Dispatch(p, a)
  PROVE  /\ InProgress(a) /\ disk.plan \in Plans
         /\ lock = p /\ cmd[p].plan = disk.plan
         /\ OnceOnly(disk.plan, a) => sent[a] = 0
         /\ UNCHANGED <<disk, landed>>
<1> USE DEF IInv
<1>1. /\ pc[p] = "dispatch" /\ IsNext(disk, disk.plan, a) /\ disk.plan \in Plans
      /\ cmd[p].plan = disk.plan
  BY AtActionIsNext DEF Dispatch, CoreInv, MemoryInv, ArtifactInv, Working, Holding
<1>2. InProgress(a)
  <2>1. PICK b \in Index : InProgress(b)
    BY <1>1 DEF CoreInv, ProgressInv
  <2>2. QED
    BY <1>1, <2>1, OneNext DEF InProgress
<1>3. QED
  BY <1>1, <1>2 DEF Dispatch, CoreInv, ProgressInv, LeaseInv, Holding

\* The run implements the ledger: every step of a process, crash or landing is
\* a step of ActionLedger or changes nothing the ledger shows.
THEOREM LedgerImplemented == Spec => ImplementsLedger
<1>1. Init => Ledger!LedgerInit
  BY DEF Init, NoRun, Ledger!LedgerInit, Ledger!Slots, Index
<1>2. IInv /\ [Next]_vars => [Ledger!LedgerNext]_(Ledger!ledgerVars)
  <2> SUFFICES ASSUME IInv, [Next]_vars
               PROVE  Ledger!LedgerNext \/ UNCHANGED Ledger!ledgerVars
    OBVIOUS
  <2> USE DEF Ledger!LedgerNext, Ledger!ledgerVars, Ledger!Slots, Index
  <2>1. CASE UNCHANGED <<disk, sent, landed>>
    BY <2>1
  <2>2. ASSUME NEW p \in Processes, CreateRun(p)
        PROVE  Ledger!LedgerNext
    <3>1. disk.plan = None
      BY <2>2, CreateWrites DEF IInv, CoreInv, ArtifactInv, TypeOK
    <3>2. QED
      BY <2>2, <3>1, CreateWrites DEF Ledger!Bind
  <2>3. ASSUME NEW p \in Processes,
               SaveInspected(p) \/ \E a \in Index : SaveCompleted(p, a)
        PROVE  Ledger!LedgerNext
    <3>1. PICK a \in Index : InProgress(a) /\ landed[a] # {} /\ disk' = Complete(disk, a)
      BY <2>3, ConfirmWrites
    <3>2. UNCHANGED <<sent, landed>>
      BY <2>3, ConfirmWrites
    <3>3. Ledger!Confirm(a)
      BY <3>1, <3>2 DEF Ledger!Confirm, Complete, InProgress, IInv, TypeOK, Runs
    <3>4. QED
      BY <3>3
  <2>4. ASSUME NEW p \in Processes, SavePartial(p) \/ Finish(p)
        PROVE  UNCHANGED Ledger!ledgerVars
    BY <2>4, LastWrites DEF Partial, Succeeded, IInv, TypeOK, Runs
  <2>5. ASSUME NEW p \in Processes, NEW a \in Index, BeginAction(p, a)
        PROVE  Ledger!LedgerNext \/ UNCHANGED Ledger!ledgerVars
    <3>1. /\ disk'.plan = disk.plan /\ disk'.cps = [disk.cps EXCEPT ![a] = "started"]
          /\ UNCHANGED <<sent, landed>>
      <4>1. disk' = Begin(disk, a) /\ UNCHANGED <<sent, landed>> /\ disk \in Runs
        BY <2>5, BeginWrites DEF IInv, TypeOK
      <4>2. Begin(disk, a).plan = disk.plan
        BY <4>1 DEF Begin, Runs
      <4>3. Begin(disk, a).cps = [disk.cps EXCEPT ![a] = "started"]
        BY <4>1 DEF Begin, Runs
      <4>4. QED
        BY <4>1, <4>2, <4>3
    <3>2. Ledger!Turn(a) /\ disk.cps[a] # "succeeded"
      BY <2>5, BeginWrites DEF Ledger!Turn, IsNext, Actions
    <3>3. CASE disk.cps[a] = "none"
      BY <3>1, <3>2, <3>3 DEF Ledger!Note
    <3>4. CASE disk.cps[a] = "started"
      <4>1. disk'.cps = disk.cps
        BY <3>1, <3>4 DEF IInv, TypeOK, Runs
      <4>2. QED
        BY <3>1, <4>1
    <3>5. QED
      BY <3>2, <3>3, <3>4 DEF IInv, TypeOK, Runs, Statuses
  <2>6. ASSUME NEW p \in Processes, NEW a \in Index, Dispatch(p, a)
        PROVE  Ledger!LedgerNext
    <3>1. Ledger!Turn(a) /\ disk.cps[a] = "started"
      BY <2>6, DispatchSends DEF Ledger!Turn, InProgress, IsNext, Actions
    <3>2. Ledger!Send(a)
      BY <2>6, <3>1, DispatchSends DEF Ledger!Send, Ledger!SentOnce, OnceOnly, Dispatch
    <3>3. QED
      BY <3>2
  <2>7. ASSUME NEW a \in Index, NEW n \in 1 .. sent[a], Land(a, n)
        PROVE  Ledger!LedgerNext
    BY <2>7 DEF Land, Ledger!TakeEffect
  <2>8. QED
    BY <2>1, <2>2, <2>3, <2>4, <2>5, <2>6, <2>7, StepsOfTheLedger
<1>3. QED
  BY <1>1, <1>2, Invariance, PTL DEF Spec, ImplementsLedger, Ledger!LedgerSpec

\* Work on record is never lost, whoever writes next.
THEOREM NoCheckpointLostHolds == Spec => NoCheckpointLost
<1> DEFINE Kept ==
      disk.outcome # "absent" =>
        /\ disk'.plan = disk.plan /\ disk'.config = disk.config
        /\ \A a \in Index :
             /\ disk.cps[a] = "succeeded" => disk'.cps[a] = "succeeded"
             /\ disk.cps[a] = "started" => disk'.cps[a] # "none"
        /\ disk.outcome = "succeeded" => disk' = disk
<1>1. IInv /\ [Next]_vars => Kept
  <2> SUFFICES ASSUME IInv, [Next]_vars
               PROVE  Kept
    OBVIOUS
  <2>1. CASE UNCHANGED disk
    BY <2>1
  <2>2. ASSUME NEW p \in Processes, CreateRun(p)
        PROVE  Kept
    BY <2>2, CreateWrites DEF IInv
  <2>3. ASSUME NEW p \in Processes,
               SaveInspected(p) \/ \E a \in Index : SaveCompleted(p, a)
        PROVE  Kept
    <3>1. PICK a \in Index : InProgress(a) /\ disk' = Complete(disk, a)
      BY <2>3, ConfirmWrites
    <3>2. disk.outcome # "succeeded"
      BY <3>1 DEF IInv, CoreInv, ArtifactInv, AllSucceeded, InProgress, IsNext
    <3>3. QED
      BY <3>1, <3>2 DEF Complete, IInv, TypeOK, Runs
  <2>4. ASSUME NEW p \in Processes, SavePartial(p) \/ Finish(p)
        PROVE  Kept
    BY <2>4, LastWrites DEF Partial, Succeeded, IInv, TypeOK, Runs
  <2>5. ASSUME NEW p \in Processes, NEW a \in Index, BeginAction(p, a)
        PROVE  Kept
    <3>1. /\ disk' = Begin(disk, a) /\ disk \in Runs
          /\ disk.outcome # "succeeded" /\ disk.cps[a] # "succeeded"
      BY <2>5, BeginWrites DEF IsNext, IInv, TypeOK
    <3>2. disk'.plan = disk.plan /\ disk'.config = disk.config
      BY <3>1 DEF Begin, Runs
    <3>3. disk'.cps[a] = "started" /\ \A i \in Index : i # a => disk'.cps[i] = disk.cps[i]
      BY <3>1 DEF Begin, Runs
    <3>4. QED
      BY <3>1, <3>2, <3>3
  <2>6. ASSUME NEW p \in Processes, NEW a \in Index, Dispatch(p, a)
        PROVE  Kept
    <3>1. UNCHANGED disk
      BY <2>6 DEF Dispatch
    <3>2. QED
      BY <3>1, <2>1
  <2>7. ASSUME NEW a \in Index, NEW n \in 1 .. sent[a], Land(a, n)
        PROVE  Kept
    <3>1. UNCHANGED disk
      BY <2>7 DEF Land
    <3>2. QED
      BY <3>1, <2>1
  <2> HIDE DEF Kept
  <2>8. QED
    BY <2>1, <2>2, <2>3, <2>4, <2>5, <2>6, <2>7, StepsOfTheLedger
<1>2. QED
  BY <1>1, Invariance, PTL DEF Spec, NoCheckpointLost

-----------------------------------------------------------------------------
(* Acknowledgement.                                                        *)

\* A start that got past its own check, and a process about to send, may write.
AckInv ==
  \A p \in Processes :
    /\ pc[p] \in Holding \union {"lease"} /\ cmd[p].kind = "start" =>
         cmd[p].acked \/ ~HasWrites(cmd[p].plan)
    /\ pc[p] = "dispatch" => \A a \in Index : InProgress(a) => MayWrite(p, a)

LEMMA AckStep ==
  ASSUME IInv, IInv', AckInv, [Next]_vars
  PROVE  AckInv'
<1> USE DEF IInv, TypeOK, target
<1> SUFFICES ASSUME NEW p \in Processes
             PROVE  /\ pc'[p] \in Holding \union {"lease"} /\ cmd'[p].kind = "start" =>
                         cmd'[p].acked \/ ~HasWrites(cmd'[p].plan)
                    /\ pc'[p] = "dispatch" => \A a \in Index : InProgress(a)' => MayWrite(p, a)'
  BY DEF AckInv
<1>1. CASE pc'[p] = pc[p] /\ cmd'[p] = cmd[p]
  <2>1. CASE pc[p] = "dispatch"
    <3>1. lock = p
      BY <2>1 DEF LeaseInv, Holding
    <3>2. \A q \in Processes : q # p => pc[q] \notin Holding
      BY <2>1, OthersOutside DEF Holding
    <3>3. UNCHANGED disk
      <4>1. ASSUME NEW q \in Processes,
                   \/ CreateRun(q) \/ SaveInspected(q) \/ SavePartial(q) \/ Finish(q)
                   \/ \E a \in Index : BeginAction(q, a) \/ SaveCompleted(q, a)
            PROVE  FALSE
        <5>1. pc[q] \in Holding \ {"dispatch"}
          BY <4>1 DEF CreateRun, SaveInspected, SavePartial, Finish, BeginAction, Starting,
                      SaveCompleted, Holding
        <5>2. QED
          BY <5>1, <3>2, <2>1
      <4>2. QED
        BY <4>1, StepsOfTheLedger DEF Dispatch, Land
    <3>4. QED
      BY <1>1, <2>1, <3>3 DEF AckInv, InProgress, IsNext, MayWrite
  <2>2. CASE pc[p] # "dispatch"
    BY <1>1, <2>2 DEF AckInv
  <2>3. QED
    BY <2>1, <2>2
<1>2. CASE Reload(p)
  <2>1. pc'[p] = "lease" /\ cmd'[p].plan = planFile /\ cmd'[p].kind = cmd[p].kind
        /\ cmd'[p].acked = cmd[p].acked /\ ~Unacknowledged(p)
    BY <1>2 DEF Reload, Goto, Commands
  <2>2. QED
    BY <2>1 DEF Unacknowledged
<1>3. ASSUME NEW a \in Index, BeginAction(p, a)
      PROVE  /\ cmd'[p].kind = "start" => cmd'[p].acked \/ ~HasWrites(cmd'[p].plan)
             /\ \A b \in Index : InProgress(b)' => MayWrite(p, b)'
  <2>1. /\ UNCHANGED cmd /\ MayWrite(p, a) /\ pc[p] \in Holding
        /\ disk'.cps[a] = "started"
    <3>1. disk' = Begin(disk, a)
      BY <1>3, BeginWrites
    <3>2. disk'.cps[a] = "started"
      BY <3>1 DEF Begin, Runs
    <3>3. QED
      BY <1>3, <3>2 DEF BeginAction, Starting, Holding
  <2>2. IsNext(disk, disk.plan, a)
    BY <1>3, BeginWrites
  <2>3. ASSUME NEW b \in Index, InProgress(b)'
        PROVE  b = a
    <3>1. disk'.cps[b] # "none" /\ disk'.cps[a] # "none" /\ disk'.cps[b] # "succeeded"
      BY <2>1, <2>3 DEF InProgress
    <3>2. a \in 1 .. (b - 1) => disk'.cps[a] = "succeeded"
      BY <2>3 DEF InProgress, IsNext
    <3>3. b \in 1 .. (a - 1) => disk'.cps[b] = "succeeded"
      BY <3>1, <2>1 DEF CoreInv, ArtifactInv
    <3>4. QED
      BY <2>1, <3>1, <3>2, <3>3 DEF Index
  <2>4. QED
    BY <2>1, <2>3 DEF MayWrite, AckInv
<1>4. CASE pc'[p] \notin {"lease", "dispatch"} /\ (pc'[p] \in Holding =>
             pc[p] \in Holding \union {"lease"} /\ cmd'[p] = cmd[p])
  BY <1>4 DEF AckInv
<1>5. QED
  <2>1. ASSUME NEW q \in Processes, q # p, Command(q) \/ ProcessStep(q) \/ ProcessFault(q)
        PROVE  pc'[p] = pc[p] /\ cmd'[p] = cmd[p]
    BY <2>1
       DEF Command, Invoke, ProcessStep, ProcessFault, Reload, RefuseReload, AcquireLease,
           RefuseBusy, CreateRun, LoadRun, RefuseOpen, InspectConfirms, InspectFindsNothing,
           InspectFails, SaveInspected, BeginAction, RefuseWrite, Dispatch, ExecuteReturns,
           ExecuteFails, SaveCompleted, SavePartial, Finish, SaveFails, Crash, Exit, Goto
  <2>2. CASE Command(p) \/ ProcessStep(p) \/ ProcessFault(p)
    <3>1. CASE Exit(p)
      BY <3>1, <1>4 DEF Exit, Goto, Holding
    <3>2. CASE Command(p)
      BY <3>2, <1>4 DEF Command, Invoke, Goto, Holding
    <3>3. CASE \/ AcquireLease(p) \/ CreateRun(p) \/ LoadRun(p) \/ SaveInspected(p)
               \/ ExecuteFails(p)
               \/ \E a \in Index : \/ InspectConfirms(p, a) \/ Dispatch(p, a)
                                  \/ ExecuteReturns(p, a) \/ SaveCompleted(p, a)
      BY <3>3, <1>4
         DEF AcquireLease, CreateRun, LoadRun, SaveInspected, ExecuteFails,
             InspectConfirms, Inspecting, Dispatch, ExecuteReturns, SaveCompleted, Goto, Holding
    <3>4. ASSUME NEW a \in Index, InspectFindsNothing(p, a)
          PROVE  \/ Exit(p)
                 \/ pc'[p] = "begin" /\ pc[p] = "loop" /\ cmd'[p] = cmd[p]
      BY <3>4 DEF InspectFindsNothing, Inspecting, Goto, Holding
    <3>5. ASSUME NEW a \in Index, BeginAction(p, a)
          PROVE  pc'[p] = "dispatch"
      BY <3>5 DEF BeginAction, Goto
    <3>6. QED
      BY <2>2, <1>2, <1>3, <1>4, <3>1, <3>2, <3>3, <3>4, <3>5
         DEF ProcessStep, ProcessFault, RefuseReload, RefuseBusy, RefuseOpen, SavePartial,
             Finish, RefuseWrite, SaveFails, Crash, InspectFails, Holding
  <2>3. CASE UNCHANGED <<pc, cmd>>
    BY <2>3, <1>1
  <2>4. QED
    BY <2>1, <2>2, <2>3, <1>1 DEF Next, vars, Land, ReplacePlan

\* A write leaves only a command that acknowledged writes, for the plan the
\* artifact is bound to.
THEOREM OnlyAcknowledgedBoundWritesHolds == Spec => OnlyAcknowledgedBoundWrites
<1> DEFINE Sound ==
      \A a \in Index : sent'[a] # sent[a] =>
        \E p \in Processes :
          /\ lock = p
          /\ cmd[p].plan = disk.plan
          /\ a \in Writes[disk.plan] => cmd[p].acked
<1>1. Init => AckInv
  BY DEF Init, AckInv, Holding
<1>2. IInv /\ AckInv /\ [Next]_vars => Sound
  <2> SUFFICES ASSUME IInv, AckInv, [Next]_vars, NEW a \in Index, sent'[a] # sent[a]
               PROVE  \E p \in Processes :
                        /\ lock = p
                        /\ cmd[p].plan = disk.plan
                        /\ a \in Writes[disk.plan] => cmd[p].acked
    OBVIOUS
  <2>1. PICK p \in Processes, b \in Index : Dispatch(p, b)
    BY StepsOfTheLedger, CreateWrites, ConfirmWrites, LastWrites, BeginWrites DEF Land
  <2>2. b = a
    BY <2>1 DEF Dispatch, IInv, TypeOK
  <2>3. /\ InProgress(a) /\ disk.plan \in Plans /\ lock = p /\ cmd[p].plan = disk.plan
        /\ pc[p] = "dispatch"
    BY <2>1, <2>2, DispatchSends DEF Dispatch
  <2>4. a \in Writes[disk.plan] => cmd[p].acked
    <3>1. a \in Actions(disk.plan) /\ MayWrite(p, a)
      BY <2>3 DEF AckInv, InProgress, IsNext
    <3>2. QED
      BY <2>3, <3>1 DEF MayWrite, AckInv, Holding, HasWrites
  <2>5. QED
    BY <2>3, <2>4
<1>3. IInv /\ IInv' /\ AckInv /\ [Next]_vars => AckInv'
  BY AckStep
<1>4. QED
  BY <1>1, <1>2, <1>3, Invariance, PTL DEF Spec, OnlyAcknowledgedBoundWrites
=============================================================================
