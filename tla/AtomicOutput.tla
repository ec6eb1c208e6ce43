----------------------------- MODULE AtomicOutput -----------------------------
(***************************************************************************)
(* The three ways the Python tools write an artifact, by concurrent        *)
(* commands at ONE output path:                                            *)
(*   "replace"  ensure_overwrite_allowed, then atomic_write_text           *)
(*              (scan, report, caps, GeoServer, GP run),                   *)
(*   "json"     _preflight_output, then _write_json (GeoServices import),  *)
(*   "new"      _atomic_write_new (the first save of a migration run).     *)
(* All stage a temporary sibling file, fsync it and install it in one      *)
(* rename or one hard link.  Commands are killed, calls of the operating   *)
(* system fail, and the machine loses power: data not yet fsynced is then  *)
(* torn, and a directory entry not yet settled may fall back.              *)
(***************************************************************************)
EXTENDS Naturals

CONSTANTS
  Writers,    \* commands that may write the path at the same time
  MaxFaults,  \* bound: kills, failed calls and power losses
  None

ASSUME FaultAssumption == MaxFaults \in Nat
ASSUME NoneAssumption == None \notin Writers

VARIABLES
  dest,      \* the file at the output path
  settled,   \* the file at the path after a power loss
  tmp,       \* tmp[w]: the data in the temporary file of w
  pc,        \* pc[w]: where command w stands
  kind,      \* kind[w]: how w writes
  force,     \* force[w]: --force
  said,      \* said[w]: how the last command of w ended
  installed, \* installed[w]: what that command installed so far (history)
  raced,     \* raced[w]: another one installed while it ran, after its check (history)
  faults

vars == <<dest, settled, tmp, pc, kind, force, said, installed, raced, faults>>

-----------------------------------------------------------------------------
Data == {"none", "torn", "written", "synced"}

Files == [by : Writers \union {None}, data : Data]

NoFile == [by |-> None, data |-> "none"]

Kinds == {"replace", "json", "new"}

Locations == {"idle", "check", "stage", "fill", "sync", "install", "unlink",
              "cleanup"}

Endings == {"nothing", "ok", "error", "refused"}

\* Nothing, a file where there was none, a file over another one.
Installations == {"none", "new", "over"}

Exists == dest # NoFile

Fault == faults < MaxFaults /\ faults' = faults + 1

Goto(w, l) == pc' = [pc EXCEPT ![w] = l]

Say(w, e) == said' = [said EXCEPT ![w] = e]

\* os.replace, which overwrites; otherwise os.link, which does not.
Replaces(w) == kind[w] = "replace" \/ (kind[w] = "json" /\ force[w])

Init ==
  /\ dest = NoFile
  /\ settled = NoFile
  /\ tmp = [w \in Writers |-> "none"]
  /\ pc = [w \in Writers |-> "idle"]
  /\ kind = [w \in Writers |-> "replace"]
  /\ force = [w \in Writers |-> FALSE]
  /\ said = [w \in Writers |-> "nothing"]
  /\ installed = [w \in Writers |-> "none"]
  /\ raced = [w \in Writers |-> FALSE]
  /\ faults = 0

\* A command reaches its write; a new run file is written without a check.
Begin(w, k, f) ==
  /\ pc[w] = "idle"
  /\ k = "new" => ~f
  /\ kind' = [kind EXCEPT ![w] = k]
  /\ force' = [force EXCEPT ![w] = f]
  /\ Say(w, "nothing")
  /\ installed' = [installed EXCEPT ![w] = "none"]
  /\ raced' = [raced EXCEPT ![w] = FALSE]
  /\ Goto(w, IF k = "new" THEN "stage" ELSE "check")
  /\ UNCHANGED <<dest, settled, tmp, faults>>

MutOverwriteAllowed(w) == TRUE

\* ensure_overwrite_allowed and _preflight_output.
OverwriteAllowed(w) == force[w] \/ ~Exists

Check(w) ==
  /\ pc[w] = "check"
  /\ OverwriteAllowed(w)
  /\ Goto(w, "stage")
  /\ UNCHANGED <<dest, settled, tmp, kind, force, said, installed, raced, faults>>

Refuse(w) ==
  /\ pc[w] = "check"
  /\ ~OverwriteAllowed(w)
  /\ Say(w, "refused")
  /\ Goto(w, "idle")
  /\ UNCHANGED <<dest, settled, tmp, kind, force, installed, raced, faults>>

\* The temporary file is created and written, in any number of writes.
Stage(w) ==
  /\ pc[w] = "stage"
  /\ tmp' = [tmp EXCEPT ![w] = "torn"]
  /\ Goto(w, "fill")
  /\ UNCHANGED <<dest, settled, kind, force, said, installed, raced, faults>>

Fill(w) ==
  /\ pc[w] = "fill"
  /\ tmp' = [tmp EXCEPT ![w] = "written"]
  /\ Goto(w, "sync")
  /\ UNCHANGED <<dest, settled, kind, force, said, installed, raced, faults>>

MutFsync(d) == d

MutFsyncUntyped(d) == "flushed"

\* flush and os.fsync.
Fsync(d) == "synced"

Sync(w) ==
  /\ pc[w] = "sync"
  /\ tmp' = [tmp EXCEPT ![w] = Fsync(@)]
  /\ Goto(w, "install")
  /\ UNCHANGED <<dest, settled, kind, force, said, installed, raced, faults>>

\* Past its check, or where it needs none, and before its installation.
Preparing(w) == pc[w] \in {"stage", "fill", "sync", "install"}

Install(w) ==
  /\ dest' = [by |-> w, data |-> tmp[w]]
  /\ installed' = [installed EXCEPT ![w] = IF Exists THEN "over" ELSE "new"]
  /\ raced' = [u \in Writers |-> raced[u] \/ (u # w /\ Preparing(u))]

\* os.replace: the temporary file becomes the output.
Replace(w) ==
  /\ pc[w] = "install"
  /\ Replaces(w)
  /\ Install(w)
  /\ tmp' = [tmp EXCEPT ![w] = "none"]
  /\ Say(w, "ok")
  /\ Goto(w, "idle")
  /\ UNCHANGED <<settled, kind, force, faults>>

\* os.link: the output and the temporary file are one file with two names.
Link(w) ==
  /\ pc[w] = "install"
  /\ ~Replaces(w)
  /\ ~Exists
  /\ Install(w)
  /\ Goto(w, "unlink")
  /\ UNCHANGED <<settled, tmp, kind, force, said, faults>>

LinkRefused(w) ==
  /\ pc[w] = "install"
  /\ ~Replaces(w)
  /\ Exists
  /\ Say(w, "refused")
  /\ Goto(w, "cleanup")
  /\ UNCHANGED <<dest, settled, tmp, kind, force, installed, raced, faults>>

Unlink(w) ==
  /\ pc[w] = "unlink"
  /\ tmp' = [tmp EXCEPT ![w] = "none"]
  /\ Say(w, "ok")
  /\ Goto(w, "idle")
  /\ UNCHANGED <<dest, settled, kind, force, installed, raced, faults>>

MutSwallows(w) == FALSE

\* The unlink of _atomic_write_new stands in its finally and may fail.
Swallows(w) == kind[w] = "new"

\* Unlinking fails: _atomic_write_new lets it pass and leaves the second name,
\* _write_json reports that nothing could be written and tries once more.
UnlinkFails(w) ==
  /\ pc[w] = "unlink"
  /\ Fault
  /\ IF Swallows(w)
       THEN /\ Say(w, "ok")
            /\ tmp' = [tmp EXCEPT ![w] = "none"]
            /\ Goto(w, "idle")
       ELSE /\ Say(w, "error")
            /\ Goto(w, "cleanup")
            /\ UNCHANGED tmp
  /\ UNCHANGED <<dest, settled, kind, force, installed, raced>>

\* Creating, writing, syncing or installing fails.
CallFails(w) ==
  /\ Preparing(w)
  /\ Fault
  /\ Say(w, "error")
  /\ Goto(w, "cleanup")
  /\ UNCHANGED <<dest, settled, tmp, kind, force, installed, raced>>

\* The temporary file is removed, or stays behind under its own name.
Cleanup(w) ==
  /\ pc[w] = "cleanup"
  /\ tmp' = [tmp EXCEPT ![w] = "none"]
  /\ Goto(w, "idle")
  /\ UNCHANGED <<dest, settled, kind, force, said, installed, raced, faults>>

\* A kill.
Crash(w) ==
  /\ pc[w] # "idle"
  /\ Fault
  /\ Goto(w, "idle")
  /\ tmp' = [tmp EXCEPT ![w] = "none"]
  /\ UNCHANGED <<dest, settled, kind, force, said, installed, raced>>

\* The file system writes the directory back, whenever it likes.
Settle ==
  /\ settled # dest
  /\ settled' = dest
  /\ UNCHANGED <<dest, tmp, pc, kind, force, said, installed, raced, faults>>

AfterPowerLoss(file) ==
  IF file.data = "written" THEN [file EXCEPT !.data = "torn"] ELSE file

PowerLoss ==
  /\ Fault
  /\ dest' \in {AfterPowerLoss(dest), AfterPowerLoss(settled)}
  /\ settled' = dest'
  /\ pc' = [w \in Writers |-> "idle"]
  /\ tmp' = [w \in Writers |-> "none"]
  /\ said' = [w \in Writers |-> "nothing"]
  /\ UNCHANGED <<kind, force, installed, raced>>

Write(w) ==
  \/ Check(w) \/ Refuse(w) \/ Stage(w) \/ Fill(w) \/ Sync(w)
  \/ Replace(w) \/ Link(w) \/ LinkRefused(w)
  \/ Unlink(w) \/ UnlinkFails(w) \/ CallFails(w) \/ Cleanup(w)

Next ==
  \/ \E w \in Writers :
       \/ \E k \in Kinds, f \in BOOLEAN : Begin(w, k, f)
       \/ Write(w) \/ Crash(w)
  \/ Settle \/ PowerLoss

Spec == Init /\ [][Next]_vars
-----------------------------------------------------------------------------
TypeOK ==
  /\ dest \in Files /\ settled \in Files
  /\ tmp \in [Writers -> Data]
  /\ pc \in [Writers -> Locations]
  /\ kind \in [Writers -> Kinds]
  /\ force \in [Writers -> BOOLEAN]
  /\ said \in [Writers -> Endings]
  /\ installed \in [Writers -> Installations]
  /\ raced \in [Writers -> BOOLEAN]
  /\ faults \in 0 .. MaxFaults

\* "a mid-write failure can never leave a truncated file in place of a prior
\* valid one" (output_io.py), and neither can a kill or a power loss: what is
\* at the output path is whole and on the disk.
NeverTorn == dest.data \in {"none", "synced"} /\ settled.data \in {"none", "synced"}

\* "refusing every overwrite race" (_atomic_write_new), and what is left of it
\* where the check and os.replace are two steps (ensure_overwrite_allowed,
\* atomic_write_text): a command without --force writes over a file only if it
\* replaces and another command installed that file after its own check; and of
\* the commands that say they wrote, only one wrote where there was nothing.
OnlyARaceOverwrites ==
  /\ \A w \in Writers :
       installed[w] = "over" /\ ~force[w] => kind[w] = "replace" /\ raced[w]
  /\ \A v, w \in Writers :
       v # w /\ said[v] = "ok" /\ said[w] = "ok" => "over" \in {installed[v], installed[w]}

\* "On any failure ... the destination is left untouched" (atomic_write_text):
\* a replacing command says it failed or was refused only when it changed
\* nothing, and says it succeeded only when its file was installed.
SaidIsDone ==
  \A w \in Writers :
    /\ said[w] = "ok" => installed[w] # "none"
    /\ said[w] \in {"error", "refused"} /\ installed[w] # "none" => kind[w] = "json"
=============================================================================
