--------------------------- MODULE OutputParts_proofs ---------------------------
(***************************************************************************)
(* The safety properties of the output writers and of apply, for any       *)
(* number of commands and faults, any plans, any servers: those of         *)
(* AtomicOutput are proved here, those of the JavaScript writer and of     *)
(* apply follow from the invariants of JsOutput_proofs and                 *)
(* ImportApply_proofs, which a behaviour of OutputParts keeps for the part *)
(* it is about.                                                            *)
(***************************************************************************)
EXTENDS OutputParts, TLAPS

-----------------------------------------------------------------------------
(* The Python writers.                                                     *)

\* A command that has not installed yet has said nothing, and what it is
\* about to install is on the disk.
ProgressInv ==
  \A w \in Writers :
    /\ pc[w] \in {"check", "stage", "fill", "sync", "install"} =>
         said[w] = "nothing" /\ installed[w] = "none"
    /\ pc[w] = "install" => tmp[w] = "synced"
    /\ pc[w] = "unlink" =>
         installed[w] = "new" /\ said[w] = "nothing" /\ kind[w] # "replace"
    /\ pc[w] = "cleanup" => said[w] \in {"error", "refused"}

\* What one command keeps to itself.
CoreInv == TypeOK /\ NeverTorn /\ ProgressInv /\ SaidIsDone

\* The command has put its file at the path, and says so or is about to.
Done(w) == said[w] = "ok" \/ pc[w] = "unlink"

\* What racing commands keep of each other: a file that was not there at the
\* check is there only after a race, and the first to put one there is alone.
RaceInv ==
  /\ \A w \in Writers :
       /\ Preparing(w) /\ kind[w] = "replace" /\ ~force[w] /\ Exists => raced[w]
       /\ installed[w] = "over" /\ ~force[w] => kind[w] = "replace" /\ raced[w]
       /\ Done(w) => Exists
  /\ \A v, w \in Writers :
       v # w /\ Done(v) /\ Done(w) => "over" \in {installed[v], installed[w]}

\* The inductive invariant.
IInv == CoreInv /\ RaceInv

LEMMA InitIInv == Init => IInv
  BY FaultAssumption, NoneAssumption
  DEF Init, IInv, CoreInv, RaceInv, Preparing, Done, Exists, TypeOK, NeverTorn, ProgressInv, SaidIsDone,
      Files, NoFile, Data, Kinds, Locations, Endings, Installations

LEMMA WriteCoreInv ==
  ASSUME CoreInv, NEW w \in Writers, Write(w)
  PROVE  CoreInv'
<1> USE DEF CoreInv, Goto, Say, Fault, Preparing
<1>1. CASE Check(w)
  BY <1>1 DEF Check, TypeOK, NeverTorn, ProgressInv, SaidIsDone, Locations
<1>2. CASE Refuse(w)
  BY <1>2 DEF Refuse, TypeOK, NeverTorn, ProgressInv, SaidIsDone, Locations, Endings
<1>3. CASE Stage(w)
  BY <1>3 DEF Stage, TypeOK, NeverTorn, ProgressInv, SaidIsDone, Locations, Data
<1>4. CASE Fill(w)
  BY <1>4 DEF Fill, TypeOK, NeverTorn, ProgressInv, SaidIsDone, Locations, Data
<1>5. CASE Sync(w)
  BY <1>5 DEF Sync, Fsync, TypeOK, NeverTorn, ProgressInv, SaidIsDone, Locations, Data
<1>6. CASE Replace(w)
  <2>1. dest' = [by |-> w, data |-> "synced"]
    BY <1>6 DEF Replace, Install, ProgressInv
  <2>2. TypeOK'
    BY <1>6, <2>1 DEF Replace, Install, TypeOK, Files, Data, Locations, Endings, Installations
  <2>3. NeverTorn'
    BY <1>6, <2>1 DEF Replace, NeverTorn
  <2>4. ProgressInv' /\ SaidIsDone'
    BY <1>6 DEF Replace, Replaces, Install, TypeOK, ProgressInv, SaidIsDone, Installations
  <2> QED BY <2>2, <2>3, <2>4
<1>7. CASE Link(w)
  <2>1. dest' = [by |-> w, data |-> "synced"]
    BY <1>7 DEF Link, Install, ProgressInv
  <2>2. TypeOK'
    BY <1>7, <2>1 DEF Link, Install, TypeOK, Files, Data, Locations, Installations
  <2>3. NeverTorn'
    BY <1>7, <2>1 DEF Link, NeverTorn
  <2>4. ProgressInv' /\ SaidIsDone'
    BY <1>7 DEF Link, Replaces, Install, TypeOK, ProgressInv, SaidIsDone, Installations
  <2> QED BY <2>2, <2>3, <2>4
<1>8. CASE LinkRefused(w)
  BY <1>8 DEF LinkRefused, TypeOK, NeverTorn, ProgressInv, SaidIsDone, Locations, Endings
<1>9. CASE Unlink(w)
  BY <1>9 DEF Unlink, TypeOK, NeverTorn, ProgressInv, SaidIsDone, Locations, Endings, Data
<1>10. CASE UnlinkFails(w)
  <2>1. kind[w] = "new" \/ kind[w] = "json"
    BY <1>10 DEF UnlinkFails, TypeOK, ProgressInv, SaidIsDone, Kinds
  <2> QED
    BY <1>10, <2>1, FaultAssumption DEF UnlinkFails, Swallows, TypeOK, NeverTorn, ProgressInv, SaidIsDone,
       Locations, Endings, Data
<1>11. CASE CallFails(w)
  BY <1>11, FaultAssumption DEF CallFails, TypeOK, NeverTorn, ProgressInv, SaidIsDone, Locations, Endings
<1>12. CASE Cleanup(w)
  BY <1>12 DEF Cleanup, TypeOK, NeverTorn, ProgressInv, SaidIsDone, Locations, Data
<1> QED
  BY <1>1, <1>2, <1>3, <1>4, <1>5, <1>6, <1>7, <1>8, <1>9, <1>10, <1>11, <1>12 DEF Write

LEMMA NextCoreInv == CoreInv /\ [Next]_vars => CoreInv'
<1> SUFFICES ASSUME CoreInv, [Next]_vars PROVE CoreInv'
  OBVIOUS
<1>1. ASSUME NEW w \in Writers, NEW k \in Kinds, NEW f \in BOOLEAN, Begin(w, k, f)
      PROVE  CoreInv'
  BY <1>1 DEF CoreInv, Begin, Goto, Say, TypeOK, NeverTorn, ProgressInv,
     SaidIsDone, Locations, Endings, Installations
<1>2. ASSUME NEW w \in Writers, Write(w) PROVE CoreInv'
  BY <1>2, WriteCoreInv
<1>3. ASSUME NEW w \in Writers, Crash(w) PROVE CoreInv'
  BY <1>3, FaultAssumption DEF CoreInv, Crash, Goto, Fault, TypeOK, NeverTorn, ProgressInv,
     SaidIsDone, Locations, Data
<1>4. CASE Settle
  BY <1>4 DEF CoreInv, Settle, TypeOK, NeverTorn, ProgressInv, SaidIsDone
<1>5. CASE PowerLoss
  <2>1. dest' \in {dest, settled}
    BY <1>5 DEF CoreInv, PowerLoss, AfterPowerLoss, NeverTorn
  <2> QED
    BY <1>5, <2>1, FaultAssumption DEF CoreInv, PowerLoss, Fault, TypeOK, NeverTorn, ProgressInv,
       SaidIsDone, Locations, Endings, Data
<1>6. CASE UNCHANGED vars
  BY <1>6 DEF CoreInv, vars, TypeOK, NeverTorn, ProgressInv, SaidIsDone
<1> QED
  BY <1>1, <1>2, <1>3, <1>4, <1>5, <1>6 DEF Next

\* A step that leaves the path, the kinds and what was installed alone keeps the
\* races as they are, unless a command passes its check or says that it is done.
LEMMA QuietRaceInv ==
  ASSUME RaceInv, UNCHANGED <<dest, kind, force, installed, raced>>,
         \A u \in Writers : /\ Preparing(u)' => Preparing(u) \/ OverwriteAllowed(u)
                            /\ Done(u)' => Done(u)
  PROVE  RaceInv'
  BY DEF RaceInv, Exists, OverwriteAllowed

\* A command puts its file at the path: it races whoever is preparing, and if
\* nothing was there, no command was done.
LEMMA InstallRaceInv ==
  ASSUME IInv, NEW w \in Writers, pc[w] = "install", Install(w),
         Replaces(w) \/ ~Exists,
         UNCHANGED <<kind, force>>,
         \A u \in Writers \ {w} : pc'[u] = pc[u] /\ said'[u] = said[u],
         pc'[w] \in {"idle", "unlink"}
  PROVE  RaceInv'
<1>1. Exists'
  BY NoneAssumption DEF Install, Exists, NoFile
<1>2. ~raced[w] => ~Exists \/ force[w] \/ kind[w] # "replace"
  BY DEF IInv, RaceInv, Preparing
<1>3. /\ raced' \in [Writers -> BOOLEAN] /\ raced'[w] = raced[w]
      /\ \A u \in Writers \ {w} : raced'[u] = (raced[u] \/ Preparing(u))
  BY DEF IInv, CoreInv, TypeOK, Install
<1>4. /\ installed'[w] = IF Exists THEN "over" ELSE "new"
      /\ \A u \in Writers \ {w} : installed'[u] = installed[u]
  BY DEF IInv, CoreInv, TypeOK, Install
<1>5. ASSUME NEW u \in Writers
      PROVE  /\ Preparing(u)' /\ kind'[u] = "replace" /\ ~force'[u] /\ Exists' => raced'[u]
             /\ installed'[u] = "over" /\ ~force'[u] => kind'[u] = "replace" /\ raced'[u]
  BY <1>2, <1>3, <1>4 DEF IInv, RaceInv, Preparing, Replaces
<1>6. ASSUME NEW u \in Writers, NEW v \in Writers, u # v, Done(u)', Done(v)'
      PROVE  "over" \in {installed'[u], installed'[v]}
  <2>1. CASE u # w /\ v # w
    BY <1>4, <1>6, <2>1 DEF IInv, RaceInv, Done
  <2>2. CASE u = w
    BY <1>4, <1>6, <2>2 DEF IInv, RaceInv, Done
  <2>3. CASE v = w
    BY <1>4, <1>6, <2>3 DEF IInv, RaceInv, Done
  <2> QED
    BY <2>1, <2>2, <2>3
<1> QED
  BY <1>1, <1>5, <1>6 DEF RaceInv

LEMMA NextRaceInv == IInv /\ [Next]_vars => RaceInv'
<1> SUFFICES ASSUME IInv, [Next]_vars PROVE RaceInv'
  OBVIOUS
<1> USE DEF Goto, Say
<1>1. ASSUME NEW w \in Writers, NEW k \in Kinds, NEW f \in BOOLEAN, Begin(w, k, f)
      PROVE  RaceInv'
  <2>1. ~Done(w)' /\ \A u \in Writers \ {w} : Done(u)' = Done(u) /\ Preparing(u)' = Preparing(u)
    BY <1>1 DEF IInv, CoreInv, TypeOK, Begin, Done, Preparing
  <2>2. /\ kind'[w] = "replace" => ~Preparing(w)'
        /\ installed'[w] = "none"
        /\ \A u \in Writers \ {w} : /\ installed'[u] = installed[u] /\ raced'[u] = raced[u]
                                    /\ kind'[u] = kind[u] /\ force'[u] = force[u]
    BY <1>1 DEF IInv, CoreInv, TypeOK, Begin, Preparing
  <2> QED
    BY <1>1, <2>1, <2>2 DEF IInv, RaceInv, Exists, Begin
<1>2. ASSUME NEW w \in Writers, Replace(w) \/ Link(w)
      PROVE  RaceInv'
  <2>1. CASE Replace(w)
    BY <2>1, InstallRaceInv DEF Replace, IInv, CoreInv, TypeOK
  <2>2. CASE Link(w)
    BY <2>2, InstallRaceInv DEF Link, IInv, CoreInv, TypeOK
  <2> QED
    BY <1>2, <2>1, <2>2
<1>3. ASSUME NEW w \in Writers,
             Check(w) \/ Refuse(w) \/ Stage(w) \/ Fill(w) \/ Sync(w) \/ LinkRefused(w)
               \/ Unlink(w) \/ UnlinkFails(w) \/ CallFails(w) \/ Cleanup(w) \/ Crash(w)
      PROVE  RaceInv'
  <2>1. UNCHANGED <<dest, kind, force, installed, raced>>
    BY <1>3 DEF Check, Refuse, Stage, Fill, Sync, LinkRefused, Unlink, UnlinkFails, CallFails, Cleanup, Crash
  <2>2. \A u \in Writers : Preparing(u)' => Preparing(u) \/ OverwriteAllowed(u)
    BY <1>3 DEF IInv, CoreInv, TypeOK, Preparing,
       Check, Refuse, Stage, Fill, Sync, LinkRefused, Unlink, UnlinkFails, CallFails, Cleanup, Crash
  <2>3. \A u \in Writers : Done(u)' => Done(u)
    BY <1>3 DEF IInv, CoreInv, TypeOK, ProgressInv, Done,
       Check, Refuse, Stage, Fill, Sync, LinkRefused, Unlink, UnlinkFails, CallFails, Cleanup, Crash
  <2> QED
    BY <2>1, <2>2, <2>3, QuietRaceInv DEF IInv
<1>4. CASE Settle \/ UNCHANGED vars
  BY <1>4, QuietRaceInv DEF IInv, Settle, vars, Preparing, Done
<1>5. CASE PowerLoss
  BY <1>5 DEF IInv, RaceInv, PowerLoss, Preparing, Done
<1> QED
  BY <1>1, <1>2, <1>3, <1>4, <1>5 DEF Next, Write

LEMMA NextIInv == IInv /\ [Next]_vars => IInv'
  BY NextCoreInv, NextRaceInv DEF IInv

\* The invariant holds in every reachable state of any instance.
THEOREM Invariance == Spec => []IInv
  BY InitIInv, NextIInv, PTL DEF Spec

\* output_io.py's promise: whatever command is killed or fails wherever, and
\* whenever the power goes, the file at the output path is whole.
THEOREM NeverTornHolds == Spec => []NeverTorn
<1>1. IInv => NeverTorn
  BY DEF IInv, CoreInv
<1> QED BY <1>1, Invariance, PTL

\* Without --force a file is overwritten only by os.replace, and only when it was
\* installed between the check and the replacement; of any number of commands that
\* say they wrote, at most one wrote where there was nothing.
THEOREM OnlyARaceOverwritesHolds == Spec => []OnlyARaceOverwrites
<1>1. IInv => OnlyARaceOverwrites
  BY DEF IInv, RaceInv, Done, OnlyARaceOverwrites
<1> QED BY <1>1, Invariance, PTL

\* What a replacing command reports is what it did to the output path.
THEOREM SaidIsDoneHolds == Spec => []SaidIsDone
<1>1. IInv => SaidIsDone
  BY DEF IInv, CoreInv
<1> QED BY <1>1, Invariance, PTL

-----------------------------------------------------------------------------
(* The parts together.  JsP and ApplyP are the modules of proofs about the *)
(* parts, with the constants and variables of Js and Apply.                *)

JsP == INSTANCE JsOutput_proofs
         WITH Files <- JsFiles, Directories <- JsDirectories, Plans <- JsPlans

ApplyP == INSTANCE ImportApply_proofs
            WITH Servers <- ApplyServers, MaxFaults <- ApplyFaults, pc <- place, faults <- mishaps

\* What the proofs assume of the constants.
PartsSettings == JsP!Settings /\ ApplyP!NoneIsNone

\* A definition of Js and its copy in JsP are one formula.
LEMMA JsAgrees ==
  /\ Js!Init => JsP!Init
  /\ Js!Next => JsP!Next
  BY DEF
      Js!Init, Js!Next, Js!Paths, Js!Begin, Js!Check, Js!Stage, Js!Backup, Js!Link, Js!Unlink,
      Js!Move, Js!InTheWay, Js!CallFails, Js!Clear, Js!Undo, Js!Restore, Js!Kill, Js!MayBegin,
      Js!Path, Js!Forward, Js!End, Js!BackedUp, Js!Put, Js!Complete, Js!RollBack, Js!Fail,
      Js!BackupAt, Js!Undone, Js!Restores, Js!Running, Js!BackupsOf, Js!Writes, JsP!Init,
      JsP!Next, JsP!Paths, JsP!Begin, JsP!Check, JsP!Stage, JsP!Backup, JsP!Link, JsP!Unlink,
      JsP!Move, JsP!InTheWay, JsP!CallFails, JsP!Clear, JsP!Undo, JsP!Restore, JsP!Kill,
      JsP!MayBegin, JsP!Path, JsP!Forward, JsP!End, JsP!BackedUp, JsP!Put, JsP!Complete,
      JsP!RollBack, JsP!Fail, JsP!BackupAt, JsP!Undone, JsP!Restores, JsP!Running, JsP!BackupsOf,
      JsP!Writes

LEMMA ApplyAgrees ==
  /\ Apply!Init => ApplyP!Init
  /\ Apply!Next => ApplyP!Next
  BY DEF
      Apply!Init, Apply!Next, Apply!Begin, Apply!Apply, Apply!Queue, Apply!Reject, Apply!Crash,
      Apply!ServerChanges, Apply!Goto, Apply!End, Apply!probe, Apply!batch, Apply!Answers,
      Apply!Retry, Apply!ReadManifest, Apply!ReadJobs, Apply!Proceed, Apply!NotReady,
      Apply!SendStart, Apply!StartFails, Apply!EndBatch, Apply!StartSucceeds, Apply!EmitNothing,
      Apply!EmitRefused, Apply!Emit, Apply!WriteReceipt, Apply!WriteFails, Apply!Offers,
      Apply!Current, Apply!Fault, Apply!Transient, Apply!Attempts, Apply!Answered,
      Apply!ManifestAnswers, Apply!ManifestVerdict, Apply!Conclude, Apply!JobsAnswers,
      Apply!JobsVerdict, Apply!MayImport, Apply!Echo, Apply!PreflightReport, Apply!ExitCode,
      Apply!Action, Apply!Stop, Apply!AllStarted, Apply!JobOf, Apply!Receipt, Apply!ExitWritten,
      Apply!ExitUnwritten, Apply!Grants, Apply!Failure, Apply!Capability, Apply!Denied,
      Apply!Unlicensed, ApplyP!Init, ApplyP!Next, ApplyP!Begin, ApplyP!Apply, ApplyP!Queue,
      ApplyP!Reject, ApplyP!Crash, ApplyP!ServerChanges, ApplyP!Goto, ApplyP!End, ApplyP!probe,
      ApplyP!batch, ApplyP!Answers, ApplyP!Retry, ApplyP!ReadManifest, ApplyP!ReadJobs,
      ApplyP!Proceed, ApplyP!NotReady, ApplyP!SendStart, ApplyP!StartFails, ApplyP!EndBatch,
      ApplyP!StartSucceeds, ApplyP!EmitNothing, ApplyP!EmitRefused, ApplyP!Emit,
      ApplyP!WriteReceipt, ApplyP!WriteFails, ApplyP!Offers, ApplyP!Current, ApplyP!Fault,
      ApplyP!Transient, ApplyP!Attempts, ApplyP!Answered, ApplyP!ManifestAnswers,
      ApplyP!ManifestVerdict, ApplyP!Conclude, ApplyP!JobsAnswers, ApplyP!JobsVerdict,
      ApplyP!MayImport, ApplyP!Echo, ApplyP!PreflightReport, ApplyP!ExitCode, ApplyP!Action,
      ApplyP!Stop, ApplyP!AllStarted, ApplyP!JobOf, ApplyP!Receipt, ApplyP!ExitWritten,
      ApplyP!ExitUnwritten, ApplyP!Grants, ApplyP!Failure, ApplyP!Capability, ApplyP!Denied,
      ApplyP!Unlicensed

\* Whatever part a behaviour is about, its Python writers do what AtomicOutput says, so the
\* theorems above hold of it too.
THEOREM PythonPart == PartsSpec => Spec
<1>1. PartsInit => Init
  BY DEF PartsInit
<1>2. [PartsNext]_all => [Next]_vars
  BY DEF PartsNext, Python, JavaScript, Applying, all
<1> QED
  BY <1>1, <1>2, PTL DEF PartsSpec, Spec

-----------------------------------------------------------------------------
\* The writers' invariant, and that of the part in focus.
PartsInv ==
  /\ IInv
  /\ focus = "javascript" => JsP!IInv
  /\ focus = "apply" => ApplyP!IInv

LEMMA InitParts ==
  ASSUME PartsSettings, PartsInit
  PROVE  PartsInv
<1>1. IInv
  BY InitIInv DEF PartsInit
<1>2. focus = "javascript" => JsP!IInv
  BY JsAgrees, JsP!InitIInv DEF PartsInit, PartsSettings
<1>3. focus = "apply" => ApplyP!IInv
  BY ApplyAgrees, ApplyP!InitIInv DEF PartsInit, PartsSettings
<1> QED
  BY <1>1, <1>2, <1>3 DEF PartsInv

LEMMA NextParts ==
  ASSUME PartsSettings, PartsInv, [PartsNext]_all
  PROVE  PartsInv'
<1>1. IInv'
  <2>1. [Next]_vars
    BY DEF PartsNext, Python, JavaScript, Applying, all
  <2> QED
    BY <2>1, NextIInv DEF PartsInv
<1>2. focus' = focus
  BY DEF PartsNext, Python, JavaScript, Applying, all
<1>3. ASSUME focus = "javascript"
      PROVE  JsP!IInv'
  <2>1. [Js!Next]_jsOnly
    BY <1>3 DEF PartsNext, Python, JavaScript, Applying, all
  <2>2. [JsP!Next]_(JsP!vars)
    BY <2>1, JsAgrees DEF jsOnly, JsP!vars
  <2> QED
    BY <1>3, <2>2, JsP!NextIInv DEF PartsInv, PartsSettings
<1>4. ASSUME focus = "apply"
      PROVE  ApplyP!IInv'
  <2>1. [Apply!Next]_applyOnly
    BY <1>4 DEF PartsNext, Python, JavaScript, Applying, all
  <2>2. [ApplyP!Next]_(ApplyP!vars)
    BY <2>1, ApplyAgrees DEF applyOnly, ApplyP!vars, ApplyP!probe, ApplyP!batch
  <2> QED
    BY <1>4, <2>2, ApplyP!NextIInv DEF PartsInv, PartsSettings
<1> QED
  BY <1>1, <1>2, <1>3, <1>4 DEF PartsInv

\* The invariant above, from which the rest follows.
THEOREM PartsInvariance ==
  ASSUME PartsSettings
  PROVE  PartsSpec => []PartsInv
<1>1. PartsInit => PartsInv
  BY InitParts
<1>2. PartsInv /\ [PartsNext]_all => PartsInv'
  BY NextParts
<1> QED
  BY <1>1, <1>2, PTL DEF PartsSpec

\* Every variable of the part in focus has its type, and exit codes, kinds of output and
\* stages are those of the code.
THEOREM TypesOKHolds ==
  ASSUME PartsSettings
  PROVE  PartsSpec => []TypesOK
<1>1. PartsInv => TypesOK
  BY JsP!TypeOKFollows, ApplyP!TypeOKFollows
  DEF PartsInv, PartsSettings, TypesOK, IInv, CoreInv, Js!TypeOK, Js!Paths, Js!Contents, Js!Backups,
      Js!Stages, Js!Endings, JsP!TypeOK, JsP!Paths, JsP!Contents, JsP!Backups, JsP!Stages,
      JsP!Endings, Apply!TypeOK, Apply!AllServers, Apply!Action, Apply!Receipts, Apply!Locations,
      Apply!Verdicts, Apply!Exits, ApplyP!TypeOK, ApplyP!AllServers, ApplyP!Action,
      ApplyP!Receipts, ApplyP!Locations, ApplyP!Verdicts, ApplyP!Exits
<1> QED
  BY <1>1, PartsInvariance, PTL

\* output-writer.ts, with --force one command at a time: a command that failed or was
\* refused left no trace, and neither a kill nor a failing call loses a complete output.
THEOREM JsOutputsSurviveHolds ==
  ASSUME PartsSettings
  PROVE  PartsSpec => []JsOutputsSurvive
<1>1. PartsInv => JsOutputsSurvive
  BY JsP!PreservedFollows, JsP!NothingLostFollows
  DEF PartsInv, PartsSettings, JsOutputsSurvive, Js!Preserved, Js!NothingLost, Js!Running,
      Js!Paths, JsP!Preserved, JsP!NothingLost, JsP!Running, JsP!Paths
<1> QED
  BY <1>1, PartsInvariance, PTL

\* However answers are lost and POSTs are late, _apply of arcgis.py queues the actions of
\* its plan in order, each once, and at most one it cannot name.
THEOREM ApplyStartsOnceInOrderHolds ==
  ASSUME PartsSettings
  PROVE  PartsSpec => []ApplyStartsOnceInOrder
<1>1. PartsInv => ApplyStartsOnceInOrder
  BY ApplyP!OneJobPerActionFollows, ApplyP!StartedInOrderFollows, ApplyP!OrphanBoundFollows
  DEF PartsInv, PartsSettings, ApplyStartsOnceInOrder, Apply!OneJobPerAction,
      Apply!StartedInOrder, Apply!OrphanBound, Apply!JobsOf, Apply!Known, ApplyP!OneJobPerAction,
      ApplyP!StartedInOrder, ApplyP!OrphanBound, ApplyP!JobsOf, ApplyP!Known
<1> QED
  BY <1>1, PartsInvariance, PTL

\* The receipt of apply names every job that it knows of, and _handoff_scope hands each over
\* for the action that it imported.
THEOREM ApplyReceiptIsTrueHolds ==
  ASSUME PartsSettings
  PROVE  PartsSpec => []ApplyReceiptIsTrue
<1>1. PartsInv => ApplyReceiptIsTrue
  BY ApplyP!QueuedJobsPrintedFollows, ApplyP!HandoffMapsJobsFollows
  DEF PartsInv, PartsSettings, ApplyReceiptIsTrue, Apply!QueuedJobsPrinted, Apply!HandoffMapsJobs,
      Apply!Receipt, Apply!HandoffAccepts, Apply!Action, ApplyP!QueuedJobsPrinted,
      ApplyP!HandoffMapsJobs, ApplyP!Receipt, ApplyP!HandoffAccepts, ApplyP!Action
<1> QED
  BY <1>1, PartsInvariance, PTL

\* The exit code of apply tells what was queued.
THEOREM ApplyExitTellsTruthHolds ==
  ASSUME PartsSettings
  PROVE  PartsSpec => []ApplyExitTellsTruth
<1>1. PartsInv => ApplyExitTellsTruth
  BY ApplyP!ExitTellsTruthFollows
  DEF PartsInv, PartsSettings, ApplyExitTellsTruth, Apply!ExitTellsTruth, Apply!JobsOf,
      ApplyP!ExitTellsTruth, ApplyP!JobsOf
<1> QED
  BY <1>1, PartsInvariance, PTL

\* Nothing is imported where the manifest that apply has just read does not grant it.
THEOREM ApplyOnlyWhereGrantedHolds ==
  ASSUME PartsSettings
  PROVE  PartsSpec => []ApplyOnlyWhereGranted
<1>1. PartsInv => ApplyOnlyWhereGranted
  BY ApplyP!ImportsOnlyWhereGrantedFollows
  DEF PartsInv, PartsSettings, ApplyOnlyWhereGranted, Apply!ImportsOnlyWhereGranted, Apply!Grants,
      ApplyP!ImportsOnlyWhereGranted, ApplyP!Grants
<1> QED
  BY <1>1, PartsInvariance, PTL
=============================================================================
