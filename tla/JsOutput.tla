------------------------------- MODULE JsOutput -------------------------------
(***************************************************************************)
(* The output writer of the JavaScript toolkit (output-writer.ts): the     *)
(* several files of one command are written by writeOutputFilesAtomically, *)
(* a directory by commitStagedOutputDirectory.  With --force, what is in   *)
(* the way is renamed to a hidden backup beside it; a failure rolls the    *)
(* command back.  Commands race, calls of the operating system fail and    *)
(* commands are killed.                                                    *)
(*                                                                         *)
(* Staged files have names of their own and are fsynced before the first   *)
(* of them is linked, so staging is one step here.  existsSync and the     *)
(* call it guards are one step: losing that race is a call that fails.     *)
(***************************************************************************)
EXTENDS Sequences, Naturals, FiniteSets

CONSTANTS
  Commands,    \* commands, each run once
  Files,       \* output files
  Directories, \* output directories
  Plans,       \* what a command may write: sequences of outputs
  Overlap,     \* a command with --force may run beside another one
  MaxFailures, \* bound: failing calls and kills
  Nothing,     \* the content of an output that does not exist
  Prior        \* what was there before the first command

\* The outputs of a plan are distinct (assertUniqueOutputs).
Paths == Files \union Directories

VARIABLES
  disk,      \* disk[p]: whose content is at p
  backups,   \* the backups beside the outputs
  stage,     \* stage[c]: what command c does
  plan,      \* plan[c]: its outputs
  at,        \* at[c]: the index of the output at hand
  forced,    \* forced[c]: --force
  committed, \* committed[c]: the files it linked, its `committed`
  ending,    \* ending[c]
  owner,     \* what ought to be at p: the last command that put all its outputs there
  marred,    \* a command was killed, or its rollback failed
  failures

vars == <<disk, backups, stage, plan, at, forced, committed, ending, owner, marred, failures>>

-----------------------------------------------------------------------------
Contents == Commands \union {Prior, Nothing}

\* A backup belongs to the command that made it, or after its death to nobody.
Backups == [path : Paths, content : Contents \ {Nothing}, by : Commands \union {Nothing}]

Stages == {"new", "check", "stage", "backup", "link", "unlink", "clear", "undo", "restore", "ended"}

Endings == {"none", "ok", "error", "refused", "killed"}

Running(c) == stage[c] \notin {"new", "ended"}

Path(c) == plan[c][at[c]]

Writes(c, p) == \E i \in DOMAIN plan[c] : plan[c][i] = p

BackupsOf(c) == {b \in backups : b.by = c}

BackupAt(c) == {b \in BackupsOf(c) : b.path = Path(c)}

Fail == failures < MaxFailures /\ failures' = failures + 1

Put(p, content) == disk' = [disk EXCEPT ![p] = content]

\* The loops over the outputs, forwards and (rollbackOutputs) backwards.
Forward(c, this, next) ==
  IF at[c] < Len(plan[c])
    THEN stage' = [stage EXCEPT ![c] = this] /\ at' = [at EXCEPT ![c] = @ + 1]
    ELSE stage' = [stage EXCEPT ![c] = next] /\ at' = [at EXCEPT ![c] = 1]

RollBack(c) ==
  /\ stage' = [stage EXCEPT ![c] = "undo"]
  /\ at' = [at EXCEPT ![c] = Len(plan[c])]

End(c, how) ==
  /\ stage' = [stage EXCEPT ![c] = "ended"]
  /\ ending' = [ending EXCEPT ![c] = how]

Init ==
  /\ disk \in [Paths -> {Prior, Nothing}]
  /\ backups = {}
  /\ stage = [c \in Commands |-> "new"]
  /\ plan \in [Commands -> Plans]
  /\ at = [c \in Commands |-> 1]
  /\ forced \in [Commands -> BOOLEAN]
  /\ committed = [c \in Commands |-> {}]
  /\ ending = [c \in Commands |-> "none"]
  /\ owner = disk
  /\ marred = FALSE
  /\ failures = 0

\* Operators run one command with --force at a time, unless Overlap.
MayBegin(c) ==
  Overlap \/ \A d \in Commands : Running(d) => ~forced[c] /\ ~forced[d]

Begin(c) ==
  /\ stage[c] = "new"
  /\ MayBegin(c)
  /\ stage' = [stage EXCEPT ![c] = "check"]
  /\ UNCHANGED <<disk, backups, plan, at, forced, committed, ending, owner, marred, failures>>

\* preflightOutputPlan, one output after the other.
Check(c) ==
  /\ stage[c] = "check"
  /\ IF forced[c] \/ disk[Path(c)] = Nothing
       THEN Forward(c, "check", "stage") /\ UNCHANGED ending
       ELSE End(c, "refused") /\ UNCHANGED at
  /\ UNCHANGED <<disk, backups, plan, forced, committed, owner, marred, failures>>

\* The temporary files are written and fsynced.
Stage(c) ==
  /\ stage[c] = "stage"
  /\ stage' = [stage EXCEPT ![c] = IF forced[c] THEN "backup" ELSE "link"]
  /\ UNCHANGED <<disk, backups, plan, at, forced, committed, ending, owner, marred, failures>>

\* What is in the way is deleted.
MutBackedUp(c) == backups

\* What is in the way is renamed.
BackedUp(c) ==
  IF disk[Path(c)] = Nothing THEN backups
  ELSE backups \union {[path |-> Path(c), content |-> disk[Path(c)], by |-> c]}

Backup(c) ==
  /\ stage[c] = "backup"
  /\ backups' = BackedUp(c)
  /\ Put(Path(c), Nothing)
  /\ Forward(c, "backup", "link")
  /\ UNCHANGED <<plan, forced, committed, ending, owner, marred, failures>>

\* Every output of c is in place.
Complete(c) ==
  owner' = [p \in Paths |-> IF Writes(c, p) THEN c ELSE owner[p]]

\* linkSync; a file has two names for a moment.
Link(c) ==
  /\ stage[c] = "link"
  /\ Path(c) \in Files
  /\ disk[Path(c)] = Nothing
  /\ Put(Path(c), c)
  /\ committed' = [committed EXCEPT ![c] = @ \union {Path(c)}]
  /\ stage' = [stage EXCEPT ![c] = "unlink"]
  /\ UNCHANGED <<backups, plan, at, forced, ending, owner, marred, failures>>

\* The temporary name goes.
Unlink(c) ==
  /\ stage[c] = "unlink"
  /\ Forward(c, "link", "clear")
  /\ IF at[c] = Len(plan[c]) THEN Complete(c) ELSE UNCHANGED owner
  /\ UNCHANGED <<disk, backups, plan, forced, committed, ending, marred, failures>>

\* renameSync of the staged directory.
Move(c) ==
  /\ stage[c] = "link"
  /\ Path(c) \in Directories
  /\ disk[Path(c)] = Nothing
  /\ Put(Path(c), c)
  /\ Forward(c, "link", "clear")
  /\ Complete(c)
  /\ UNCHANGED <<backups, plan, forced, committed, ending, marred, failures>>

\* linkSync, or renameSync of a directory, finds something in the way.
InTheWay(c) ==
  /\ stage[c] = "link"
  /\ disk[Path(c)] # Nothing
  /\ RollBack(c)
  /\ UNCHANGED <<disk, backups, plan, forced, committed, ending, owner, marred, failures>>

\* A call fails inside the try.
CallFails(c) ==
  /\ stage[c] \in {"stage", "backup", "link", "unlink"}
  /\ Fail
  /\ RollBack(c)
  /\ UNCHANGED <<disk, backups, plan, forced, committed, ending, owner, marred>>

\* The backups are removed; one that cannot be removed is left.
Clear(c) ==
  /\ stage[c] = "clear"
  /\ \/ backups' = backups \ BackupAt(c) /\ UNCHANGED failures
     \/ BackupAt(c) # {} /\ Fail /\ UNCHANGED backups
  /\ Forward(c, "clear", "ended")
  /\ ending' = [ending EXCEPT ![c] = IF at[c] = Len(plan[c]) THEN "ok" ELSE @]
  /\ UNCHANGED <<disk, plan, forced, committed, owner, marred>>

-----------------------------------------------------------------------------
(* rollbackOutputs, and the catch of commitStagedOutputDirectory, which    *)
(* removes nothing.                                                        *)

\* Linked files stay where they are.
MutUndone(c) == {}

Undone(c) == committed[c]

Undo(c) ==
  /\ stage[c] = "undo"
  /\ \/ /\ IF Path(c) \in Undone(c) THEN Put(Path(c), Nothing) ELSE UNCHANGED disk
        /\ UNCHANGED <<marred, failures>>
     \/ Path(c) \in Undone(c) /\ Fail /\ marred' = TRUE /\ UNCHANGED disk
  /\ stage' = [stage EXCEPT ![c] = "restore"]
  /\ UNCHANGED <<backups, plan, at, forced, committed, ending, owner>>

\* A backup is renamed over whatever is there, that of a directory only when
\* nothing is.
Restores(c) ==
  BackupAt(c) # {} /\ (Path(c) \in Directories => disk[Path(c)] = Nothing)

Restore(c) ==
  /\ stage[c] = "restore"
  /\ \/ /\ Restores(c)
        /\ \E b \in BackupAt(c) : Put(b.path, b.content) /\ backups' = backups \ {b}
        /\ UNCHANGED <<marred, failures>>
     \/ Restores(c) /\ Fail /\ marred' = TRUE /\ UNCHANGED <<disk, backups>>
     \/ ~Restores(c) /\ UNCHANGED <<disk, backups, marred, failures>>
  /\ IF at[c] > 1
       THEN at' = [at EXCEPT ![c] = @ - 1] /\ stage' = [stage EXCEPT ![c] = "undo"] /\ UNCHANGED ending
       ELSE End(c, "error") /\ UNCHANGED at
  /\ UNCHANGED <<plan, forced, committed, owner>>

\* The command is killed; its backups stay.
Kill(c) ==
  /\ Running(c)
  /\ Fail
  /\ End(c, "killed")
  /\ backups' = (backups \ BackupsOf(c)) \union {[b EXCEPT !.by = Nothing] : b \in BackupsOf(c)}
  /\ marred' = TRUE
  /\ UNCHANGED <<disk, plan, at, forced, committed, owner>>

Next ==
  \E c \in Commands :
    \/ Begin(c) \/ Check(c) \/ Stage(c) \/ Backup(c) \/ Link(c) \/ Unlink(c) \/ Move(c)
    \/ InTheWay(c) \/ CallFails(c) \/ Clear(c) \/ Undo(c) \/ Restore(c) \/ Kill(c)

Spec == Init /\ [][Next]_vars
-----------------------------------------------------------------------------
TypeOK ==
  /\ disk \in [Paths -> Contents] /\ owner \in [Paths -> Contents]
  /\ backups \subseteq Backups
  /\ stage \in [Commands -> Stages]
  /\ plan \in [Commands -> Plans]
  /\ at \in [Commands -> Nat \ {0}]
  /\ forced \in [Commands -> BOOLEAN]
  /\ committed \in [Commands -> SUBSET Files]
  /\ ending \in [Commands -> Endings]
  /\ marred \in BOOLEAN
  /\ failures \in 0 .. MaxFailures

\* "Output write failed; existing outputs were preserved." (output-writer.ts):
\* once no command runs, the outputs are those of the last command that put all
\* of its own in place; commands that failed or were refused, at whatever call
\* and with whatever rivals, left no trace.
Preserved ==
  (\A c \in Commands : ~Running(c)) /\ ~marred => disk = owner

\* "never delete the prior content" (rollbackOutputs): whatever is killed, and
\* whatever call fails, even in a rollback, an output that was complete is at
\* its place or in a backup beside it until a command replaced all of its own.
NothingLost ==
  \A p \in Paths : owner[p] # Nothing =>
    disk[p] = owner[p] \/ \E b \in backups : b.path = p /\ b.content = owner[p]

\* The same message, of commands with --force side by side: a command that fails
\* does not undo one that succeeded.  It does not hold: see README.
FailurePreservesSuccess ==
  (\A c \in Commands : ~Running(c)) /\ ~marred =>
    \A c \in Commands, p \in Paths : ending[c] = "ok" /\ Writes(c, p) =>
      \E d \in Commands : ending[d] = "ok" /\ Writes(d, p) /\ disk[p] = d
=============================================================================
