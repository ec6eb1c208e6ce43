---------------------------- MODULE JsOutput_proofs ----------------------------
(***************************************************************************)
(* Proofs about JsOutput, for any commands, outputs and numbers of         *)
(* failures: when commands with --force run alone, a failure leaves no     *)
(* trace, and no complete output is ever lost.                             *)
(*                                                                         *)
(* The argument: an output that is not as it ought to be is in the hands   *)
(* of one command (Changing), which holds what it needs to complete the    *)
(* output or to put back what was there.                                   *)
(***************************************************************************)
EXTENDS JsOutput, TLAPS

-----------------------------------------------------------------------------
(* The inductive invariant.                                                *)

\* The outputs of a plan are distinct, a directory is the only one of its plan, and a
\* command with --force runs alone.
Settings ==
  /\ ~Overlap
  /\ Files \intersect Directories = {}
  /\ MaxFailures \in Nat
  /\ Prior \notin Commands /\ Nothing \notin Commands /\ Prior # Nothing
  /\ \A s \in Plans :
       /\ s \in Seq(Paths) /\ Len(s) > 0
       /\ \A i, j \in 1 .. Len(s) : s[i] = s[j] => i = j
       /\ \A i \in 1 .. Len(s) : s[i] \in Directories => Len(s) = 1

Indices(c) == 1 .. Len(plan[c])

ForcedAlone ==
  \A c, d \in Commands : forced[c] /\ Running(c) /\ Running(d) => c = d

PlaceIsTrue(c) ==
  at[c] \in Indices(c) /\ (stage[c] \in {"new", "stage"} => at[c] = 1)

\* The i-th output of c is in place, and nobody but c takes it away.
InPlace(c, i) ==
  \/ stage[c] = "link" /\ i < at[c]
  \/ stage[c] = "unlink" /\ i <= at[c]
  \/ stage[c] = "clear"
  \/ plan[c][i] \in committed[c] /\ \/ stage[c] \in {"link", "unlink"}
                                    \/ stage[c] = "undo" /\ i <= at[c]
                                    \/ stage[c] = "restore" /\ i < at[c]

LinksAreTrue(c) ==
  /\ stage[c] \in {"new", "check", "stage", "backup"} => committed[c] = {}
  /\ \A i \in Indices(c) : InPlace(c, i) => disk[plan[c][i]] = c

OwnsIfDone(c) ==
  /\ \A p \in Paths : owner[p] = c => stage[c] \in {"clear", "ended"}
  /\ stage[c] = "clear" => \A i \in Indices(c) : owner[plan[c][i]] = c

\* Until its outputs are complete, the backups of c are those of its own outputs, which
\* nobody else writes.
BackupsAreTrue(c) ==
  /\ Running(c) /\ stage[c] # "clear" =>
       \A b \in BackupsOf(c) :
         /\ forced[c] /\ disk[b.path] \in {Nothing, c}
         /\ ~marred => b.content = owner[b.path]
         /\ \A other \in BackupsOf(c) : other.path = b.path => other = b
  /\ stage[c] \in {"new", "check", "stage"} => BackupsOf(c) = {}
  /\ stage[c] = "backup" =>
       forced[c] /\ \A b \in BackupsOf(c) : \E i \in Indices(c) : i < at[c] /\ b.path = plan[c][i]

CommandIsTrue(c) ==
  PlaceIsTrue(c) /\ LinksAreTrue(c) /\ OwnsIfDone(c) /\ BackupsAreTrue(c)

\* c has changed p and has yet to complete it or to put back what was there.
Changing(c, p) ==
  /\ stage[c] \in {"backup", "link", "unlink", "undo", "restore"}
  /\ \E i \in Indices(c) :
       /\ plan[c][i] = p
       /\ stage[c] = "backup" => i < at[c]
       /\ stage[c] \in {"undo", "restore"} => i <= at[c]
       /\ stage[c] = "restore" /\ i = at[c] => disk[p] = Nothing
  /\ disk[p] = Nothing \/ (disk[p] = c /\ p \in committed[c])
  /\ owner[p] = Nothing \/ \E b \in BackupsOf(c) : b.path = p /\ b.content = owner[p]

Tidy == ~marred => \A p \in Paths : disk[p] = owner[p] \/ \E c \in Commands : Changing(c, p)

IInv ==
  /\ TypeOK
  /\ ForcedAlone
  /\ \A c \in Commands : CommandIsTrue(c)
  /\ NothingLost
  /\ Tidy
-----------------------------------------------------------------------------
(* What a step leaves to the other commands.                               *)

LEMMA PlanFacts ==
  ASSUME Settings, TypeOK, NEW c \in Commands
  PROVE  /\ Len(plan[c]) \in Nat \ {0} /\ DOMAIN plan[c] = Indices(c)
         /\ \A i \in Indices(c) : plan[c][i] \in Paths
         /\ \A i, j \in Indices(c) : plan[c][i] = plan[c][j] => i = j
         /\ \A i \in Indices(c) : plan[c][i] \in Directories => Len(plan[c]) = 1
<1>1. plan[c] \in Plans
  BY DEF TypeOK
<1>2. plan[c] \in Seq(Paths) /\ Len(plan[c]) > 0
  BY <1>1 DEF Settings
<1>3. Len(plan[c]) \in Nat \ {0} /\ DOMAIN plan[c] = 1 .. Len(plan[c])
  BY <1>2
<1>4. \A i \in 1 .. Len(plan[c]) : plan[c][i] \in Paths
  BY <1>2
<1> QED
  BY <1>1, <1>3, <1>4 DEF Settings, Indices

\* The others keep their state and their backups.
Apart(c) ==
  /\ UNCHANGED <<plan, forced>>
  /\ \A d \in Commands \ {c} :
       /\ stage'[d] = stage[d] /\ at'[d] = at[d] /\ committed'[d] = committed[d]
       /\ BackupsOf(d)' = BackupsOf(d)
  /\ marred => marred'

\* c writes what nobody else relies on.
WritesOwn(c) ==
  \/ UNCHANGED disk
  \/ /\ Running(c) /\ Path(c) \in Paths
     /\ forced[c] \/ disk[Path(c)] \in {Nothing, c}
     /\ \E x \in Contents : disk' = [disk EXCEPT ![Path(c)] = x]

OwnsOwn(c) ==
  \/ UNCHANGED owner
  \/ /\ Running(c)
     /\ owner' = [p \in Paths |-> IF Writes(c, p) THEN c ELSE owner[p]]
     /\ \A p \in Paths : Writes(c, p) => disk'[p] = c

LEMMA OthersStay ==
  ASSUME Settings, IInv, NEW c \in Commands, Apart(c), WritesOwn(c), OwnsOwn(c)
  PROVE  \A d \in Commands \ {c} : CommandIsTrue(d)'
<1> SUFFICES ASSUME NEW d \in Commands \ {c} PROVE CommandIsTrue(d)'
  OBVIOUS
<1>1. /\ plan'[d] = plan[d] /\ forced'[d] = forced[d] /\ stage'[d] = stage[d] /\ at'[d] = at[d]
      /\ committed'[d] = committed[d] /\ BackupsOf(d)' = BackupsOf(d)
      /\ Indices(d)' = Indices(d) /\ (marred => marred')
  BY DEF Apart, Indices
<1>2. CommandIsTrue(d) /\ \A i \in Indices(d) : plan[d][i] \in Paths
  BY PlanFacts DEF IInv
<1>3. ASSUME Running(d), NEW p \in Paths, disk[p] = d
      PROVE  disk'[p] = d
  BY <1>3 DEF IInv, TypeOK, WritesOwn, ForcedAlone, Settings
<1>4. ASSUME Running(d), forced[d]
      PROVE  disk' = disk /\ owner' = owner
  BY <1>4 DEF IInv, WritesOwn, OwnsOwn, ForcedAlone
<1>5. ASSUME NEW p \in Paths
      PROVE  owner'[p] = d => owner[p] = d
  BY DEF OwnsOwn
<1>6. ASSUME stage[d] = "clear", NEW i \in Indices(d)
      PROVE  owner'[plan[d][i]] = d
  <2>1. Running(d) /\ plan[d][i] \in Paths /\ owner[plan[d][i]] = d /\ disk[plan[d][i]] = d
    BY <1>2, <1>6 DEF Running, CommandIsTrue, OwnsIfDone, LinksAreTrue, InPlace
  <2>2. disk'[plan[d][i]] = d
    BY <1>3, <2>1
  <2> QED
    BY <2>1, <2>2 DEF OwnsOwn
<1>7. PlaceIsTrue(d)'
  BY <1>1, <1>2 DEF CommandIsTrue, PlaceIsTrue
<1>8. LinksAreTrue(d)'
  <2>1. ASSUME NEW i \in Indices(d), InPlace(d, i)
        PROVE  disk'[plan[d][i]] = d
    <3>1. Running(d) /\ disk[plan[d][i]] = d /\ plan[d][i] \in Paths
      BY <1>2, <2>1 DEF CommandIsTrue, LinksAreTrue, InPlace, Running
    <3> QED
      BY <1>3, <3>1
  <2>2. \A i \in Indices(d) : InPlace(d, i)' => InPlace(d, i)
    BY <1>1 DEF InPlace
  <2>3. \A i \in Indices(d)' : InPlace(d, i)' => (disk[plan[d][i]])' = d
    BY <1>1, <2>1, <2>2
  <2> QED
    BY <1>1, <1>2, <2>3 DEF CommandIsTrue, LinksAreTrue
<1>9. OwnsIfDone(d)'
  BY <1>1, <1>2, <1>5, <1>6 DEF CommandIsTrue, OwnsIfDone
<1>10. BackupsAreTrue(d)'
  <2>1. ASSUME Running(d), stage[d] # "clear", NEW b \in BackupsOf(d)
        PROVE  /\ forced[d] /\ disk'[b.path] \in {Nothing, d}
               /\ ~marred => b.content = owner'[b.path]
               /\ \A other \in BackupsOf(d) : other.path = b.path => other = b
    BY <1>2, <1>4, <2>1 DEF CommandIsTrue, BackupsAreTrue
  <2>2. Running(d)' = Running(d)
    BY <1>1 DEF Running
  <2>3. stage[d] \in {"new", "check", "stage"} => BackupsOf(d)' = {}
    BY <1>1, <1>2 DEF CommandIsTrue, BackupsAreTrue
  <2>4. ASSUME stage[d] = "backup"
        PROVE  forced[d] /\ \A b \in BackupsOf(d)' : \E i \in Indices(d)' : i < at[d] /\ b.path = plan[d][i]
    BY <1>1, <1>2, <2>4 DEF CommandIsTrue, BackupsAreTrue
  <2> QED
    BY <1>1, <2>1, <2>2, <2>3, <2>4 DEF BackupsAreTrue
<1> QED
  BY <1>7, <1>8, <1>9, <1>10 DEF CommandIsTrue

\* An output that a step leaves alone stays in the hands of another command.
LEMMA OthersChanging ==
  ASSUME Settings, IInv, NEW c \in Commands, Apart(c), NEW d \in Commands \ {c}, NEW p \in Paths,
         disk'[p] = disk[p], owner'[p] = owner[p], Changing(d, p)
  PROVE  Changing(d, p)'
<1>1. /\ plan'[d] = plan[d] /\ stage'[d] = stage[d] /\ at'[d] = at[d]
      /\ committed'[d] = committed[d] /\ BackupsOf(d)' = BackupsOf(d) /\ Indices(d)' = Indices(d)
  BY DEF Apart, Indices
<1> QED
  BY <1>1 DEF Changing

LEMMA StillAlone ==
  ASSUME IInv, NEW c \in Commands, Apart(c), Running(c)
  PROVE  ForcedAlone'
<1>1. \A d \in Commands : Running(d)' => Running(d)
  BY DEF Apart, Running
<1> QED
  BY <1>1 DEF IInv, ForcedAlone, Apart
-----------------------------------------------------------------------------
(* Steps that change no output.                                            *)

LEMMA QuietKeeps ==
  ASSUME Settings, IInv, NEW c \in Commands,
         UNCHANGED <<disk, backups, plan, forced, committed, owner, marred>>,
         \A d \in Commands \ {c} : stage'[d] = stage[d] /\ at'[d] = at[d],
         TypeOK', ForcedAlone', CommandIsTrue(c)',
         \A p \in Paths : Changing(c, p) => Changing(c, p)'
  PROVE  IInv'
<1>1. Apart(c) /\ WritesOwn(c) /\ OwnsOwn(c)
  BY DEF Apart, WritesOwn, OwnsOwn, BackupsOf
<1>2. \A d \in Commands : CommandIsTrue(d)'
  BY <1>1, OthersStay
<1>3. NothingLost'
  BY DEF IInv, NothingLost
<1>4. Tidy'
  <2>1. ASSUME NEW p \in Paths, NEW d \in Commands, Changing(d, p)
        PROVE  Changing(d, p)'
    BY <1>1, <2>1, OthersChanging
  <2> QED
    BY <2>1 DEF IInv, Tidy
<1> QED
  BY <1>2, <1>3, <1>4 DEF IInv

LEMMA BeginKeeps ==
  ASSUME Settings, IInv, NEW c \in Commands, Begin(c)
  PROVE  IInv'
<1>1. /\ stage[c] = "new" /\ stage' = [stage EXCEPT ![c] = "check"]
      /\ UNCHANGED <<disk, backups, plan, at, forced, committed, ending, owner, marred, failures>>
  BY DEF Begin
<1>2. CommandIsTrue(c) /\ stage'[c] = "check" /\ at[c] \in Indices(c)
  BY <1>1 DEF IInv, TypeOK, CommandIsTrue, PlaceIsTrue
<1>3. \A d \in Commands \ {c} : stage'[d] = stage[d] /\ at'[d] = at[d]
  BY <1>1 DEF IInv, TypeOK
<1>4. TypeOK'
  BY <1>1 DEF IInv, TypeOK, Stages
<1>5. ForcedAlone'
  <2>1. \A d \in Commands : Running(d) => ~forced[c] /\ ~forced[d]
    BY DEF Begin, MayBegin, Settings
  <2>2. \A d \in Commands \ {c} : Running(d)' => Running(d)
    BY <1>3 DEF Running
  <2> QED
    BY <1>1, <2>1, <2>2 DEF IInv, ForcedAlone
<1>6. PlaceIsTrue(c)' /\ OwnsIfDone(c)'
  BY <1>1, <1>2 DEF CommandIsTrue, PlaceIsTrue, OwnsIfDone, Indices
<1>7. LinksAreTrue(c)'
  <2>1. committed[c] = {}
    BY <1>1, <1>2 DEF CommandIsTrue, LinksAreTrue
  <2> QED
    BY <1>1, <1>2, <2>1 DEF LinksAreTrue, InPlace, Indices
<1>8. BackupsAreTrue(c)'
  <2>1. BackupsOf(c)' = {}
    BY <1>1, <1>2 DEF CommandIsTrue, BackupsAreTrue, BackupsOf
  <2> QED
    BY <1>2, <2>1 DEF BackupsAreTrue
<1>9. \A p \in Paths : ~Changing(c, p)
  BY <1>1 DEF Changing
<1> QED
  BY <1>1, <1>3, <1>4, <1>5, <1>6, <1>7, <1>8, <1>9, QuietKeeps DEF CommandIsTrue

\* The check of one output, and the end of staging.
LEMMA ChecksKeep ==
  ASSUME Settings, IInv, NEW c \in Commands, Check(c) \/ Stage(c)
  PROVE  IInv'
<1>1. /\ stage[c] \in {"check", "stage"}
      /\ UNCHANGED <<disk, backups, plan, forced, committed, owner, marred, failures>>
      /\ \/ at[c] < Len(plan[c]) /\ at' = [at EXCEPT ![c] = @ + 1]
            /\ stage' = [stage EXCEPT ![c] = "check"] /\ UNCHANGED ending
         \/ at' = [at EXCEPT ![c] = 1] /\ stage' = [stage EXCEPT ![c] = "stage"] /\ UNCHANGED ending
         \/ UNCHANGED at /\ stage' = [stage EXCEPT ![c] = "ended"]
            /\ ending' = [ending EXCEPT ![c] = "refused"]
         \/ stage[c] = "stage" /\ ~forced[c] /\ UNCHANGED <<at, ending>>
            /\ stage' = [stage EXCEPT ![c] = "link"]
         \/ stage[c] = "stage" /\ forced[c] /\ UNCHANGED <<at, ending>>
            /\ stage' = [stage EXCEPT ![c] = "backup"]
  BY DEF Check, Stage, Forward, End
<1>2. /\ CommandIsTrue(c) /\ at[c] \in Indices(c) /\ committed[c] = {} /\ BackupsOf(c) = {}
      /\ Len(plan[c]) \in Nat \ {0} /\ (stage[c] = "stage" => at[c] = 1)
  BY <1>1, PlanFacts DEF IInv, CommandIsTrue, PlaceIsTrue, LinksAreTrue, BackupsAreTrue
<1>3. \A d \in Commands \ {c} : stage'[d] = stage[d] /\ at'[d] = at[d]
  BY <1>1 DEF IInv, TypeOK
<1>4. /\ stage'[c] \in {"check", "stage", "ended", "link", "backup"}
      /\ at'[c] \in Indices(c) /\ (stage'[c] \in {"stage", "link", "backup"} => at'[c] = 1)
      /\ stage'[c] = "backup" => forced[c]
  BY <1>1, <1>2 DEF IInv, TypeOK, Indices
<1>5. TypeOK'
  <2>1. stage' \in [Commands -> Stages] /\ ending' \in [Commands -> Endings]
    BY <1>1 DEF IInv, TypeOK, Stages, Endings
  <2>2. at' \in [Commands -> Nat \ {0}]
    BY <1>1 DEF IInv, TypeOK
  <2> QED
    BY <1>1, <2>1, <2>2 DEF IInv, TypeOK
<1>6. Apart(c) /\ Running(c)
  BY <1>1, <1>3 DEF Apart, BackupsOf, Running
<1>7. PlaceIsTrue(c)' /\ OwnsIfDone(c)'
  BY <1>1, <1>2, <1>4 DEF CommandIsTrue, PlaceIsTrue, OwnsIfDone, Indices
<1>8. LinksAreTrue(c)'
  BY <1>1, <1>2, <1>4 DEF LinksAreTrue, InPlace, Indices
<1>9. BackupsAreTrue(c)'
  <2>1. BackupsOf(c)' = {}
    BY <1>1, <1>2 DEF BackupsOf
  <2> QED
    BY <1>1, <1>4, <2>1 DEF BackupsAreTrue
<1>10. \A p \in Paths : ~Changing(c, p)
  BY <1>1 DEF Changing
<1> QED
  BY <1>1, <1>3, <1>5, <1>6, <1>7, <1>8, <1>9, <1>10, StillAlone, QuietKeeps DEF CommandIsTrue

\* A failure, or something in the way: the command turns back.
LEMMA TurnsBack ==
  ASSUME Settings, IInv, NEW c \in Commands, InTheWay(c) \/ CallFails(c)
  PROVE  IInv'
<1>1. /\ stage[c] \in {"stage", "backup", "link", "unlink"} /\ RollBack(c)
      /\ UNCHANGED <<disk, backups, plan, forced, committed, ending, owner, marred>>
      /\ failures' = failures \/ Fail
  BY DEF InTheWay, CallFails
<1>2. CommandIsTrue(c) /\ Len(plan[c]) \in Nat \ {0}
  BY PlanFacts DEF IInv
<1>3. /\ stage'[c] = "undo" /\ at'[c] = Len(plan[c])
      /\ \A d \in Commands \ {c} : stage'[d] = stage[d] /\ at'[d] = at[d]
  BY <1>1 DEF IInv, TypeOK, RollBack
<1>4. TypeOK'
  <2>1. stage' \in [Commands -> Stages] /\ at' \in [Commands -> Nat \ {0}]
    BY <1>1, <1>2 DEF IInv, TypeOK, Stages, RollBack
  <2>2. failures' \in 0 .. MaxFailures
    BY <1>1 DEF IInv, TypeOK, Fail, Settings
  <2> QED
    BY <1>1, <2>1, <2>2 DEF IInv, TypeOK
<1>5. Apart(c) /\ Running(c)
  BY <1>1, <1>3 DEF Apart, BackupsOf, Running
<1>6. PlaceIsTrue(c)' /\ OwnsIfDone(c)'
  BY <1>1, <1>2, <1>3 DEF CommandIsTrue, PlaceIsTrue, OwnsIfDone, Indices
<1>7. LinksAreTrue(c)'
  <2>1. ASSUME NEW i \in Indices(c), InPlace(c, i)'
        PROVE  disk[plan[c][i]] = c
    <3>1. plan[c][i] \in committed[c]
      BY <1>1, <1>3, <2>1 DEF InPlace
    <3>2. InPlace(c, i)
      BY <1>1, <1>2, <3>1 DEF CommandIsTrue, LinksAreTrue, InPlace
    <3> QED
      BY <1>2, <3>2 DEF CommandIsTrue, LinksAreTrue
  <2> QED
    BY <1>1, <1>3, <2>1 DEF LinksAreTrue, Indices
<1>8. BackupsAreTrue(c)'
  <2>1. Running(c)
    BY <1>1 DEF Running
  <2> QED
    BY <1>1, <1>2, <1>3, <2>1 DEF CommandIsTrue, BackupsAreTrue, BackupsOf
<1>9. ASSUME NEW p \in Paths, Changing(c, p)
      PROVE  Changing(c, p)'
  <2>1. PICK i \in Indices(c) : plan[c][i] = p
    BY <1>9 DEF Changing
  <2>2. i <= Len(plan[c]) /\ BackupsOf(c)' = BackupsOf(c) /\ Indices(c)' = Indices(c)
    BY <1>1, <1>2 DEF Indices, BackupsOf
  <2> QED
    BY <1>1, <1>3, <1>9, <2>1, <2>2 DEF Changing
<1> QED
  BY <1>1, <1>3, <1>4, <1>5, <1>6, <1>7, <1>8, <1>9, StillAlone, QuietKeeps DEF CommandIsTrue
-----------------------------------------------------------------------------
(* Steps that complete the outputs of a command.                           *)

\* All outputs of c are in place, and nobody's are touched.
LEMMA CompleteKeeps ==
  ASSUME Settings, IInv, NEW c \in Commands, stage[c] \in {"link", "unlink"},
         UNCHANGED <<backups, plan, forced, committed, ending, marred, failures>>,
         stage' = [stage EXCEPT ![c] = "clear"], at' = [at EXCEPT ![c] = 1],
         Complete(c), WritesOwn(c), disk' \in [Paths -> Contents],
         \A i \in Indices(c) : disk'[plan[c][i]] = c,
         \A p \in Paths : ~Writes(c, p) => disk'[p] = disk[p]
  PROVE  IInv'
<1>1. /\ stage'[c] = "clear" /\ at'[c] = 1 /\ Running(c)
      /\ \A d \in Commands \ {c} : stage'[d] = stage[d] /\ at'[d] = at[d]
  BY DEF IInv, TypeOK, Running
<1>2. /\ CommandIsTrue(c) /\ Len(plan[c]) \in Nat \ {0} /\ DOMAIN plan[c] = Indices(c)
      /\ \A i \in Indices(c) : plan[c][i] \in Paths
  BY PlanFacts DEF IInv
<1>3. \A p \in Paths : /\ Writes(c, p) => owner'[p] = c /\ disk'[p] = c
                       /\ ~Writes(c, p) => owner'[p] = owner[p] /\ disk'[p] = disk[p]
  BY <1>2 DEF Complete, Writes
<1>4. Apart(c) /\ OwnsOwn(c)
  BY <1>1, <1>3 DEF Apart, BackupsOf, OwnsOwn, Complete
<1>5. TypeOK'
  <2>1. owner' \in [Paths -> Contents]
    BY DEF IInv, TypeOK, Complete, Contents
  <2>2. stage' \in [Commands -> Stages] /\ at' \in [Commands -> Nat \ {0}]
    BY DEF IInv, TypeOK, Stages
  <2> QED
    BY <2>1, <2>2 DEF IInv, TypeOK
<1>6. CommandIsTrue(c)'
  <2>1. PlaceIsTrue(c)' /\ LinksAreTrue(c)'
    BY <1>1, <1>2 DEF PlaceIsTrue, LinksAreTrue, Indices
  <2>2. OwnsIfDone(c)'
    <3>1. \A i \in Indices(c) : Writes(c, plan[c][i])
      BY <1>2 DEF Writes
    <3> QED
      BY <1>1, <1>2, <1>3, <3>1 DEF OwnsIfDone, Indices
  <2>3. BackupsAreTrue(c)'
    BY <1>1 DEF BackupsAreTrue
  <2> QED
    BY <2>1, <2>2, <2>3 DEF CommandIsTrue
<1>7. NothingLost'
  <2>1. ASSUME NEW p \in Paths, owner'[p] # Nothing, disk'[p] # owner'[p]
        PROVE  \E b \in backups' : b.path = p /\ b.content = owner'[p]
    BY <1>3, <2>1 DEF IInv, NothingLost
  <2> QED
    BY <2>1 DEF NothingLost
<1>8. Tidy'
  <2>1. ASSUME NEW p \in Paths, ~marred, disk'[p] # owner'[p]
        PROVE  \E d \in Commands : Changing(d, p)'
    <3>1. ~Writes(c, p) /\ owner'[p] = owner[p] /\ disk'[p] = disk[p]
      BY <1>3, <2>1
    <3>2. PICK d \in Commands : Changing(d, p)
      BY <2>1, <3>1 DEF IInv, Tidy
    <3>3. d # c
      BY <1>2, <3>1, <3>2 DEF Changing, Writes
    <3> QED
      BY <1>4, <3>1, <3>2, <3>3, OthersChanging
  <2> QED
    BY <2>1 DEF Tidy
<1> QED
  BY <1>1, <1>4, <1>5, <1>6, <1>7, <1>8, OthersStay, StillAlone DEF IInv

LEMMA UnlinkKeeps ==
  ASSUME Settings, IInv, NEW c \in Commands, Unlink(c)
  PROVE  IInv'
<1>1. /\ CommandIsTrue(c) /\ at[c] \in Indices(c) /\ Len(plan[c]) \in Nat \ {0}
      /\ stage[c] = "unlink" /\ \A i \in 1 .. at[c] : disk[plan[c][i]] = c
      /\ UNCHANGED <<disk, backups, plan, forced, committed, ending, marred, failures>>
  <2>1. CommandIsTrue(c) /\ at[c] \in Indices(c) /\ Len(plan[c]) \in Nat \ {0}
    BY PlanFacts DEF IInv, CommandIsTrue, PlaceIsTrue
  <2> QED
    BY <2>1 DEF Unlink, CommandIsTrue, LinksAreTrue, InPlace, Indices
<1>2. CASE at[c] = Len(plan[c])
  <2>1. Complete(c) /\ stage' = [stage EXCEPT ![c] = "clear"] /\ at' = [at EXCEPT ![c] = 1]
    BY <1>1, <1>2 DEF Unlink, Forward
  <2>2. \A i \in Indices(c) : disk'[plan[c][i]] = c
    BY <1>1, <1>2 DEF Indices
  <2>3. WritesOwn(c) /\ disk' \in [Paths -> Contents]
    BY <1>1 DEF WritesOwn, IInv, TypeOK
  <2> QED
    BY <1>1, <2>1, <2>2, <2>3, CompleteKeeps
<1>3. CASE at[c] # Len(plan[c])
  <2>1. /\ stage' = [stage EXCEPT ![c] = "link"] /\ at' = [at EXCEPT ![c] = @ + 1]
        /\ UNCHANGED owner /\ at[c] < Len(plan[c])
    BY <1>1, <1>3 DEF Unlink, Forward, Indices
  <2>2. /\ stage'[c] = "link" /\ at'[c] = at[c] + 1 /\ Running(c)
        /\ \A d \in Commands \ {c} : stage'[d] = stage[d] /\ at'[d] = at[d]
    BY <1>1, <2>1 DEF IInv, TypeOK, Running
  <2>3. TypeOK'
    <3>1. stage' \in [Commands -> Stages] /\ at' \in [Commands -> Nat \ {0}]
      BY <2>1 DEF IInv, TypeOK, Stages
    <3> QED
      BY <1>1, <2>1, <3>1 DEF IInv, TypeOK
  <2>4. Apart(c)
    BY <1>1, <2>2 DEF Apart, BackupsOf
  <2>5. PlaceIsTrue(c)' /\ OwnsIfDone(c)'
    BY <1>1, <2>1, <2>2 DEF CommandIsTrue, PlaceIsTrue, OwnsIfDone, Indices
  <2>6. LinksAreTrue(c)'
    <3>1. \A i \in Indices(c) : InPlace(c, i)' => InPlace(c, i)
      BY <1>1, <2>2 DEF InPlace, Indices
    <3> QED
      BY <1>1, <2>2, <3>1 DEF CommandIsTrue, LinksAreTrue, Indices
  <2>7. BackupsAreTrue(c)'
    BY <1>1, <2>1, <2>2 DEF CommandIsTrue, BackupsAreTrue, BackupsOf
  <2>8. \A p \in Paths : Changing(c, p) => Changing(c, p)'
    BY <1>1, <2>1, <2>2 DEF Changing, BackupsOf, Indices
  <2> QED
    BY <1>1, <2>1, <2>2, <2>3, <2>4, <2>5, <2>6, <2>7, <2>8, StillAlone, QuietKeeps
       DEF CommandIsTrue
<1> QED
  BY <1>2, <1>3

LEMMA MoveKeeps ==
  ASSUME Settings, IInv, NEW c \in Commands, Move(c)
  PROVE  IInv'
<1>1. /\ at[c] \in Indices(c) /\ Len(plan[c]) \in Nat \ {0}
      /\ Path(c) = plan[c][at[c]] /\ Path(c) \in Paths /\ DOMAIN plan[c] = Indices(c)
      /\ stage[c] = "link" /\ Path(c) \in Directories /\ disk[Path(c)] = Nothing
      /\ disk' = [disk EXCEPT ![Path(c)] = c]
      /\ UNCHANGED <<backups, plan, forced, committed, ending, marred, failures>> /\ Complete(c)
  BY PlanFacts DEF IInv, CommandIsTrue, PlaceIsTrue, Move, Put, Path
<1>2. Len(plan[c]) = 1 /\ at[c] = 1 /\ Indices(c) = {1}
  <2>1. Len(plan[c]) = 1
    BY <1>1, PlanFacts DEF IInv
  <2> QED
    BY <1>1, <2>1 DEF Indices
<1>3. stage' = [stage EXCEPT ![c] = "clear"] /\ at' = [at EXCEPT ![c] = 1]
  BY <1>2 DEF Move, Forward
<1>4. disk' \in [Paths -> Contents] /\ \A p \in Paths : disk'[p] = IF p = Path(c) THEN c ELSE disk[p]
  BY <1>1 DEF IInv, TypeOK, Contents
<1>5. WritesOwn(c)
  BY <1>1 DEF WritesOwn, Running, Contents
<1>6. \A i \in Indices(c) : disk'[plan[c][i]] = c
  BY <1>1, <1>2, <1>4
<1>7. \A p \in Paths : ~Writes(c, p) => disk'[p] = disk[p]
  BY <1>1, <1>4 DEF Writes
<1> QED
  BY <1>1, <1>3, <1>4, <1>5, <1>6, <1>7, CompleteKeeps

\* The backups go once everything is in place.
LEMMA ClearKeeps ==
  ASSUME Settings, IInv, NEW c \in Commands, Clear(c)
  PROVE  IInv'
<1>1. /\ stage[c] = "clear" /\ UNCHANGED <<disk, plan, forced, committed, owner, marred>>
      /\ backups' = backups \ BackupAt(c) \/ UNCHANGED backups
      /\ UNCHANGED failures \/ Fail
      /\ \/ at[c] < Len(plan[c]) /\ stage' = [stage EXCEPT ![c] = "clear"] /\ at' = [at EXCEPT ![c] = @ + 1]
         \/ stage' = [stage EXCEPT ![c] = "ended"] /\ at' = [at EXCEPT ![c] = 1]
  BY DEF Clear, Forward
<1>2. /\ CommandIsTrue(c) /\ at[c] \in Indices(c) /\ Len(plan[c]) \in Nat \ {0}
      /\ Path(c) = plan[c][at[c]] /\ Path(c) \in Paths
  BY PlanFacts DEF IInv, CommandIsTrue, PlaceIsTrue, Path
<1>3. /\ stage'[c] \in {"clear", "ended"} /\ at'[c] \in Indices(c) /\ Running(c)
      /\ \A d \in Commands \ {c} : stage'[d] = stage[d] /\ at'[d] = at[d]
  BY <1>1, <1>2 DEF IInv, TypeOK, Running, Indices
<1>4. TypeOK'
  <2>1. stage' \in [Commands -> Stages]
    BY <1>1 DEF IInv, TypeOK, Stages
  <2>2. at' \in [Commands -> Nat \ {0}]
    BY <1>1 DEF IInv, TypeOK
  <2>3. ending' \in [Commands -> Endings]
    BY DEF IInv, TypeOK, Clear, Endings
  <2>4. failures' \in 0 .. MaxFailures
    BY <1>1 DEF IInv, TypeOK, Fail, Settings
  <2>5. backups' \subseteq Backups
    BY <1>1 DEF IInv, TypeOK
  <2> QED
    BY <1>1, <2>1, <2>2, <2>3, <2>4, <2>5 DEF IInv, TypeOK
<1>5. Apart(c) /\ WritesOwn(c) /\ OwnsOwn(c)
  BY <1>1, <1>3 DEF Apart, BackupsOf, BackupAt, WritesOwn, OwnsOwn
<1>6. CommandIsTrue(c)'
  <2>1. PlaceIsTrue(c)' /\ LinksAreTrue(c)'
    BY <1>1, <1>2, <1>3 DEF CommandIsTrue, PlaceIsTrue, LinksAreTrue, InPlace, Indices
  <2>2. OwnsIfDone(c)' /\ BackupsAreTrue(c)'
    BY <1>1, <1>2, <1>3 DEF CommandIsTrue, OwnsIfDone, BackupsAreTrue, Running, Indices
  <2> QED
    BY <2>1, <2>2 DEF CommandIsTrue
<1>7. NothingLost'
  <2>1. ASSUME NEW p \in Paths, owner[p] # Nothing, disk[p] # owner[p]
        PROVE  \E b \in backups' : b.path = p /\ b.content = owner[p]
    <3>1. PICK b \in backups : b.path = p /\ b.content = owner[p]
      BY <2>1 DEF IInv, NothingLost
    <3>2. disk[Path(c)] = c /\ owner[Path(c)] = c
      BY <1>1, <1>2 DEF CommandIsTrue, LinksAreTrue, InPlace, OwnsIfDone
    <3>3. b \notin BackupAt(c)
      BY <2>1, <3>1, <3>2 DEF BackupAt
    <3> QED
      BY <1>1, <3>1, <3>3
  <2> QED
    BY <1>1, <2>1 DEF NothingLost
<1>8. Tidy'
  <2>1. ASSUME NEW p \in Paths, NEW d \in Commands, Changing(d, p)
        PROVE  Changing(d, p)'
    BY <1>1, <1>5, <2>1, OthersChanging DEF Changing
  <2> QED
    BY <1>1, <2>1 DEF IInv, Tidy
<1> QED
  BY <1>3, <1>4, <1>5, <1>6, <1>7, <1>8, OthersStay, StillAlone DEF IInv
-----------------------------------------------------------------------------
(* Steps that change an output.                                            *)

LEMMA LinkKeeps ==
  ASSUME Settings, IInv, NEW c \in Commands, Link(c)
  PROVE  IInv'
<1>0. PICK path \in Paths : path = Path(c)
  BY PlanFacts DEF IInv, CommandIsTrue, PlaceIsTrue, Path
<1>1. /\ stage[c] = "link" /\ path \in Files /\ disk[path] = Nothing
      /\ disk' = [disk EXCEPT ![path] = c]
      /\ committed' = [committed EXCEPT ![c] = @ \union {path}]
      /\ stage' = [stage EXCEPT ![c] = "unlink"]
      /\ UNCHANGED <<backups, plan, at, forced, ending, owner, marred, failures>>
  BY <1>0 DEF Link, Put
<1>2. /\ CommandIsTrue(c) /\ at[c] \in Indices(c) /\ Len(plan[c]) \in Nat \ {0}
      /\ path = plan[c][at[c]] /\ path \in Paths /\ c # Nothing
      /\ \A i, j \in Indices(c) : plan[c][i] = plan[c][j] => i = j
      /\ \A i \in Indices(c) : plan[c][i] \in Paths
  BY <1>0, PlanFacts DEF IInv, CommandIsTrue, PlaceIsTrue, Path, Settings
<1>3. /\ stage'[c] = "unlink" /\ committed'[c] = committed[c] \union {path} /\ Running(c)
      /\ \A d \in Commands \ {c} : stage'[d] = stage[d] /\ committed'[d] = committed[d]
      /\ \A p \in Paths : disk'[p] = IF p = path THEN c ELSE disk[p]
  BY <1>1, <1>2 DEF IInv, TypeOK, Running
<1>4. TypeOK'
  <2>1. stage' \in [Commands -> Stages] /\ disk' \in [Paths -> Contents]
    BY <1>1 DEF IInv, TypeOK, Stages, Contents
  <2>2. committed' \in [Commands -> SUBSET Files]
    BY <1>1 DEF IInv, TypeOK
  <2> QED
    BY <1>1, <2>1, <2>2 DEF IInv, TypeOK
<1>5. Apart(c) /\ WritesOwn(c) /\ OwnsOwn(c)
  BY <1>0, <1>1, <1>2, <1>3 DEF Apart, BackupsOf, WritesOwn, OwnsOwn, Contents
<1>6. PlaceIsTrue(c)' /\ OwnsIfDone(c)'
  BY <1>1, <1>2, <1>3 DEF CommandIsTrue, PlaceIsTrue, OwnsIfDone, Indices
<1>7. LinksAreTrue(c)'
  <2>1. ASSUME NEW i \in Indices(c), InPlace(c, i)'
        PROVE  disk'[plan[c][i]] = c
    <3>1. i = at[c] \/ InPlace(c, i)
      BY <1>1, <1>2, <1>3, <2>1 DEF InPlace, Indices
    <3> QED
      BY <1>2, <1>3, <3>1 DEF CommandIsTrue, LinksAreTrue
  <2> QED
    BY <1>1, <1>3, <2>1 DEF LinksAreTrue, Indices
<1>8. BackupsAreTrue(c)'
  <2>1. BackupsOf(c)' = BackupsOf(c) /\ \A b \in BackupsOf(c) : b.path \in Paths
    BY <1>1 DEF BackupsOf, IInv, TypeOK, Backups
  <2> QED
    BY <1>1, <1>2, <1>3, <2>1 DEF CommandIsTrue, BackupsAreTrue
<1>9. NothingLost'
  <2>1. ASSUME NEW p \in Paths, owner[p] # Nothing
        PROVE  disk'[p] = owner[p] \/ \E b \in backups : b.path = p /\ b.content = owner[p]
    BY <1>1, <1>3, <2>1 DEF IInv, NothingLost
  <2> QED
    BY <1>1, <2>1 DEF NothingLost
<1>10. ASSUME ~marred
       PROVE  owner[path] = Nothing \/ \E b \in BackupsOf(c) : b.path = path /\ b.content = owner[path]
  <2>1. CASE disk[path] # owner[path]
    <3>1. PICK d \in Commands : Changing(d, path)
      BY <1>2, <1>10, <2>1 DEF IInv, Tidy
    <3>2. PICK b \in BackupsOf(d) : b.path = path /\ b.content = owner[path]
      BY <1>1, <2>1, <3>1 DEF Changing
    <3>3. Running(d) /\ stage[d] # "clear"
      BY <3>1 DEF Changing, Running
    <3>4. forced[d]
      BY <3>2, <3>3 DEF IInv, CommandIsTrue, BackupsAreTrue
    <3>5. d = c
      BY <1>3, <3>3, <3>4 DEF IInv, ForcedAlone
    <3> QED
      BY <3>2, <3>5
  <2> QED
    BY <1>1, <2>1
<1>11. ASSUME ~marred
       PROVE  Changing(c, path)'
  <2>1. BackupsOf(c)' = BackupsOf(c) /\ Indices(c)' = Indices(c)
    BY <1>1 DEF BackupsOf, Indices
  <2>2. \E i \in Indices(c) : plan'[c][i] = path
    BY <1>1, <1>2
  <2> QED
    BY <1>1, <1>2, <1>3, <1>10, <1>11, <2>1, <2>2 DEF Changing
<1>12. ASSUME NEW p \in Paths \ {path}, NEW d \in Commands, Changing(d, p)
       PROVE  Changing(d, p)'
  <2>1. disk'[p] = disk[p] /\ owner'[p] = owner[p]
    BY <1>1, <1>3
  <2>2. CASE d = c
    BY <1>1, <1>3, <1>12, <2>1, <2>2 DEF Changing, BackupsOf, Indices
  <2> QED
    BY <1>5, <1>12, <2>1, <2>2, OthersChanging
<1>13. Tidy'
  <2>1. ASSUME NEW p \in Paths, ~marred
        PROVE  disk'[p] = owner[p] \/ \E d \in Commands : Changing(d, p)'
    <3>1. CASE p = path
      BY <1>11, <2>1, <3>1
    <3>2. CASE p # path
      BY <1>3, <1>12, <2>1, <3>2 DEF IInv, Tidy
    <3> QED
      BY <3>1, <3>2
  <2> QED
    BY <1>1, <2>1 DEF Tidy
<1> QED
  BY <1>3, <1>4, <1>5, <1>6, <1>7, <1>8, <1>9, <1>13, OthersStay, StillAlone
     DEF IInv, CommandIsTrue

LEMMA BackupKeeps ==
  ASSUME Settings, IInv, NEW c \in Commands, Backup(c)
  PROVE  IInv'
<1>0. PICK path \in Paths : path = Path(c)
  BY PlanFacts DEF IInv, CommandIsTrue, PlaceIsTrue, Path
<1>1. /\ stage[c] = "backup" /\ backups' = BackedUp(c)
      /\ disk' = [disk EXCEPT ![path] = Nothing]
      /\ \/ at[c] < Len(plan[c]) /\ stage' = [stage EXCEPT ![c] = "backup"] /\ at' = [at EXCEPT ![c] = @ + 1]
         \/ stage' = [stage EXCEPT ![c] = "link"] /\ at' = [at EXCEPT ![c] = 1]
      /\ UNCHANGED <<plan, forced, committed, ending, owner, marred, failures>>
  BY <1>0 DEF Backup, Put, Forward
<1>2. /\ CommandIsTrue(c) /\ at[c] \in Indices(c) /\ Len(plan[c]) \in Nat \ {0}
      /\ path = plan[c][at[c]] /\ committed[c] = {} /\ forced[c]
      /\ \A i, j \in Indices(c) : plan[c][i] = plan[c][j] => i = j
  BY <1>0, <1>1, PlanFacts
     DEF IInv, CommandIsTrue, PlaceIsTrue, LinksAreTrue, BackupsAreTrue, Path
<1>3. /\ Running(c) /\ at'[c] \in Indices(c)
      /\ stage'[c] = "link" \/ (stage'[c] = "backup" /\ at'[c] = at[c] + 1)
      /\ stage'[c] = "link" => at'[c] = 1
      /\ \A d \in Commands \ {c} : stage'[d] = stage[d] /\ at'[d] = at[d]
      /\ \A p \in Paths : disk'[p] = IF p = path THEN Nothing ELSE disk[p]
  BY <1>1, <1>2 DEF IInv, TypeOK, Running, Indices
<1> DEFINE copy == [path |-> path, content |-> disk[path], by |-> c]
<1>4. IF disk[path] = Nothing THEN backups' = backups ELSE backups' = backups \union {copy}
  BY <1>0, <1>1 DEF BackedUp
<1>5. copy.path = path /\ copy.content = disk[path] /\ copy.by = c
  OBVIOUS
<1>6. disk[path] # Nothing => copy \in Backups
  BY DEF Backups, IInv, TypeOK, Contents
<1> HIDE DEF copy
<1>7. TypeOK'
  <2>1. stage' \in [Commands -> Stages]
    BY <1>1 DEF IInv, TypeOK, Stages
  <2>2. at' \in [Commands -> Nat \ {0}]
    BY <1>1 DEF IInv, TypeOK
  <2>3. disk' \in [Paths -> Contents]
    BY <1>1 DEF IInv, TypeOK, Contents
  <2>4. backups' \subseteq Backups
    BY <1>4, <1>6 DEF IInv, TypeOK
  <2> QED
    BY <1>1, <2>1, <2>2, <2>3, <2>4 DEF IInv, TypeOK
<1>8. /\ BackupsOf(c)' = IF disk[path] = Nothing THEN BackupsOf(c) ELSE BackupsOf(c) \union {copy}
      /\ \A d \in Commands \ {c} : BackupsOf(d)' = BackupsOf(d)
  BY <1>4, <1>5 DEF BackupsOf
<1>9. Apart(c) /\ WritesOwn(c) /\ OwnsOwn(c)
  BY <1>0, <1>1, <1>2, <1>3, <1>8 DEF Apart, WritesOwn, OwnsOwn, Contents
<1>10. ASSUME ~marred
       PROVE  disk[path] = owner[path]
  <2>1. ASSUME NEW d \in Commands, Changing(d, path)
        PROVE  FALSE
    <3>1. d = c
      BY <1>2, <1>3, <2>1 DEF IInv, ForcedAlone, Changing, Running
    <3>2. PICK i \in Indices(c) : plan[c][i] = path /\ i < at[c]
      BY <1>1, <2>1, <3>1 DEF Changing
    <3> QED
      BY <1>2, <3>2 DEF Indices
  <2> QED
    BY <1>10, <2>1 DEF IInv, Tidy
<1>11. PlaceIsTrue(c)' /\ OwnsIfDone(c)'
  BY <1>1, <1>2, <1>3 DEF CommandIsTrue, PlaceIsTrue, OwnsIfDone, Indices
<1>12. LinksAreTrue(c)'
  BY <1>1, <1>2, <1>3 DEF LinksAreTrue, InPlace, Indices
<1>13. \A b \in BackupsOf(c) : b.path \in Paths /\ \E i \in Indices(c) : i < at[c] /\ b.path = plan[c][i]
  BY <1>1, <1>2 DEF CommandIsTrue, BackupsAreTrue, BackupsOf, IInv, TypeOK, Backups
<1>14. \A b \in BackupsOf(c) : b.path # path
  BY <1>2, <1>13 DEF Indices
<1>15. BackupsAreTrue(c)'
  <2>1. ASSUME NEW b \in BackupsOf(c)'
        PROVE  /\ disk'[b.path] \in {Nothing, c}
               /\ ~marred => b.content = owner[b.path]
               /\ \A other \in BackupsOf(c)' : other.path = b.path => other = b
               /\ \E i \in Indices(c) : i <= at[c] /\ b.path = plan[c][i]
    <3>1. CASE b \in BackupsOf(c)
      <4>1. /\ disk[b.path] \in {Nothing, c} /\ (~marred => b.content = owner[b.path])
            /\ \A other \in BackupsOf(c) : other.path = b.path => other = b
        BY <1>1, <1>2, <1>3, <3>1 DEF CommandIsTrue, BackupsAreTrue
      <4>2. \A other \in BackupsOf(c)' : other.path = b.path => other = b
        BY <1>5, <1>8, <1>14, <3>1, <4>1
      <4>3. \E i \in Indices(c) : i <= at[c] /\ b.path = plan[c][i]
        BY <1>2, <1>13, <3>1 DEF Indices
      <4> QED
        BY <1>3, <1>13, <3>1, <4>1, <4>2, <4>3
    <3>2. CASE b = copy
      BY <1>2, <1>3, <1>5, <1>8, <1>10, <1>14, <3>2, <2>1 DEF Indices
    <3> QED
      BY <1>8, <2>1, <3>1, <3>2
  <2>2. ASSUME stage'[c] = "backup", NEW b \in BackupsOf(c)'
        PROVE  \E i \in Indices(c) : i < at'[c] /\ b.path = plan[c][i]
    BY <1>2, <1>3, <2>1, <2>2 DEF Indices
  <2> QED
    BY <1>1, <1>2, <1>3, <2>1, <2>2 DEF BackupsAreTrue, Indices
<1>16. NothingLost'
  <2>1. ASSUME NEW p \in Paths, owner[p] # Nothing
        PROVE  disk'[p] = owner[p] \/ \E b \in backups' : b.path = p /\ b.content = owner[p]
    <3>1. CASE disk[p] = owner[p]
      BY <1>3, <1>4, <1>5, <2>1, <3>1
    <3>2. CASE disk[p] # owner[p]
      BY <1>4, <2>1, <3>2 DEF IInv, NothingLost
    <3> QED
      BY <3>1, <3>2
  <2> QED
    BY <1>1, <2>1 DEF NothingLost
<1>17. ASSUME ~marred
       PROVE  Changing(c, path)'
  <2>1. owner[path] = Nothing \/ \E b \in BackupsOf(c)' : b.path = path /\ b.content = owner[path]
    BY <1>5, <1>8, <1>10, <1>17
  <2>2. stage'[c] = "backup" => at[c] < at'[c]
    BY <1>2, <1>3 DEF Indices
  <2>3. \E i \in Indices(c) : plan[c][i] = path /\ (stage'[c] = "backup" => i < at'[c])
    BY <1>2, <2>2
  <2> QED
    BY <1>1, <1>3, <2>1, <2>3 DEF Changing, Indices
<1>18. ASSUME NEW p \in Paths \ {path}, NEW d \in Commands, Changing(d, p)
       PROVE  Changing(d, p)'
  <2>1. disk'[p] = disk[p] /\ owner'[p] = owner[p]
    BY <1>1, <1>3
  <2>2. CASE d = c
    <3>1. PICK i \in Indices(c) : plan[c][i] = p /\ i < at[c]
      BY <1>1, <1>18, <2>2 DEF Changing
    <3>2. stage'[c] = "backup" => i < at'[c]
      BY <1>2, <1>3, <3>1 DEF Indices
    <3>3. owner[p] = Nothing \/ \E b \in BackupsOf(c)' : b.path = p /\ b.content = owner[p]
      BY <1>8, <1>18, <2>2 DEF Changing
    <3>4. disk[p] = Nothing
      BY <1>2, <1>18, <2>2 DEF Changing
    <3> QED
      BY <1>1, <1>3, <2>1, <2>2, <3>1, <3>2, <3>3, <3>4 DEF Changing, Indices
  <2> QED
    BY <1>9, <1>18, <2>1, <2>2, OthersChanging
<1>19. Tidy'
  <2>1. ASSUME NEW p \in Paths, ~marred
        PROVE  disk'[p] = owner[p] \/ \E d \in Commands : Changing(d, p)'
    <3>1. CASE p = path
      BY <1>17, <2>1, <3>1
    <3>2. CASE p # path
      BY <1>3, <1>18, <2>1, <3>2 DEF IInv, Tidy
    <3> QED
      BY <3>1, <3>2
  <2> QED
    BY <1>1, <2>1 DEF Tidy
<1> QED
  BY <1>3, <1>7, <1>9, <1>11, <1>12, <1>15, <1>16, <1>19, OthersStay, StillAlone
     DEF IInv, CommandIsTrue

\* A killed command leaves its backups to nobody.
LEMMA KillKeeps ==
  ASSUME Settings, IInv, NEW c \in Commands, Kill(c)
  PROVE  IInv'
<1>1. /\ Running(c) /\ stage' = [stage EXCEPT ![c] = "ended"]
      /\ ending' = [ending EXCEPT ![c] = "killed"] /\ marred' = TRUE /\ Fail
      /\ backups' = (backups \ BackupsOf(c)) \union {[b EXCEPT !.by = Nothing] : b \in BackupsOf(c)}
      /\ UNCHANGED <<disk, plan, at, forced, committed, owner>>
  BY DEF Kill, End
<1>2. CommandIsTrue(c)
  BY DEF IInv
<1>3. stage'[c] = "ended" /\ \A d \in Commands \ {c} : stage'[d] = stage[d]
  BY <1>1 DEF IInv, TypeOK
<1>4. ASSUME NEW b \in backups
      PROVE  LET left == [b EXCEPT !.by = Nothing]
             IN  left \in Backups /\ left.path = b.path /\ left.content = b.content /\ left.by = Nothing
  BY DEF IInv, TypeOK, Backups
<1>5. TypeOK'
  <2>1. stage' \in [Commands -> Stages] /\ ending' \in [Commands -> Endings]
    BY <1>1 DEF IInv, TypeOK, Stages, Endings
  <2>2. backups' \subseteq Backups
    BY <1>1, <1>4 DEF BackupsOf, IInv, TypeOK
  <2>3. failures' \in 0 .. MaxFailures /\ marred' \in BOOLEAN
    BY <1>1 DEF IInv, TypeOK, Fail, Settings
  <2> QED
    BY <1>1, <2>1, <2>2, <2>3 DEF IInv, TypeOK
<1>6. Apart(c) /\ WritesOwn(c) /\ OwnsOwn(c)
  <2>1. ASSUME NEW d \in Commands \ {c}
        PROVE  BackupsOf(d)' = BackupsOf(d)
    <3>1. d # Nothing /\ d # c
      BY DEF Settings
    <3>2. \A b \in backups' : b.by = d => b \in backups
      BY <1>1, <1>4, <3>1 DEF BackupsOf
    <3>3. \A b \in backups : b.by = d => b \in backups'
      BY <1>1, <3>1 DEF BackupsOf
    <3> QED
      BY <3>2, <3>3 DEF BackupsOf
  <2> QED
    BY <1>1, <1>3, <2>1 DEF Apart, WritesOwn, OwnsOwn
<1>7. CommandIsTrue(c)'
  <2>1. PlaceIsTrue(c)' /\ LinksAreTrue(c)'
    BY <1>1, <1>2, <1>3 DEF CommandIsTrue, PlaceIsTrue, LinksAreTrue, InPlace, Indices
  <2>2. OwnsIfDone(c)' /\ BackupsAreTrue(c)'
    BY <1>1, <1>2, <1>3 DEF CommandIsTrue, OwnsIfDone, BackupsAreTrue, Running
  <2> QED
    BY <2>1, <2>2 DEF CommandIsTrue
<1>8. NothingLost'
  <2>1. ASSUME NEW p \in Paths, owner[p] # Nothing, disk[p] # owner[p]
        PROVE  \E b \in backups' : b.path = p /\ b.content = owner[p]
    <3>1. PICK b \in backups : b.path = p /\ b.content = owner[p]
      BY <2>1 DEF IInv, NothingLost
    <3>2. CASE b \in BackupsOf(c)
      BY <1>1, <1>4, <3>1, <3>2
    <3> QED
      BY <1>1, <3>1, <3>2
  <2> QED
    BY <1>1, <2>1 DEF NothingLost
<1>9. Tidy'
  BY <1>1 DEF Tidy
<1> QED
  BY <1>1, <1>5, <1>6, <1>7, <1>8, <1>9, OthersStay, StillAlone DEF IInv
-----------------------------------------------------------------------------
(* rollbackOutputs.                                                        *)

LEMMA UndoKeeps ==
  ASSUME Settings, IInv, NEW c \in Commands, Undo(c)
  PROVE  IInv'
<1>0. PICK path \in Paths : path = Path(c)
  BY PlanFacts DEF IInv, CommandIsTrue, PlaceIsTrue, Path
<1>1. /\ stage[c] = "undo" /\ stage' = [stage EXCEPT ![c] = "restore"]
      /\ \/ path \in committed[c] /\ disk' = [disk EXCEPT ![path] = Nothing]
            /\ UNCHANGED <<marred, failures>>
         \/ path \notin committed[c] /\ UNCHANGED <<disk, marred, failures>>
         \/ Fail /\ marred' = TRUE /\ UNCHANGED disk
      /\ UNCHANGED <<backups, plan, at, forced, committed, ending, owner>>
  BY <1>0 DEF Undo, Undone, Put
<1>2. /\ CommandIsTrue(c) /\ at[c] \in Indices(c) /\ Len(plan[c]) \in Nat \ {0}
      /\ path = plan[c][at[c]] /\ c # Nothing
      /\ \A i, j \in Indices(c) : plan[c][i] = plan[c][j] => i = j
  BY <1>0, PlanFacts DEF IInv, CommandIsTrue, PlaceIsTrue, Path, Settings
<1>3. /\ Running(c) /\ stage'[c] = "restore" /\ (marred => marred')
      /\ \A d \in Commands \ {c} : stage'[d] = stage[d]
      /\ \A p \in Paths \ {path} : disk'[p] = disk[p]
      /\ disk'[path] \in {disk[path], Nothing}
      /\ BackupsOf(c)' = BackupsOf(c)
  BY <1>1, <1>2 DEF IInv, TypeOK, Running, BackupsOf
<1>4. path \in committed[c] => disk[path] = c
  BY <1>1, <1>2 DEF CommandIsTrue, LinksAreTrue, InPlace, Indices
<1>5. \A p \in Paths : owner[p] # c
  BY <1>1, <1>2 DEF CommandIsTrue, OwnsIfDone
<1>6. TypeOK'
  <2>1. stage' \in [Commands -> Stages] /\ disk' \in [Paths -> Contents]
    BY <1>1 DEF IInv, TypeOK, Stages, Contents
  <2>2. (marred' = marred /\ failures' = failures) \/ (Fail /\ marred' = TRUE)
    BY <1>1
  <2>3. failures' \in 0 .. MaxFailures
    BY <2>2 DEF IInv, TypeOK, Fail, Settings
  <2>4. marred' \in BOOLEAN
    BY <2>2 DEF IInv, TypeOK
  <2> QED
    BY <1>1, <2>1, <2>3, <2>4 DEF IInv, TypeOK
<1>7. Apart(c) /\ WritesOwn(c) /\ OwnsOwn(c)
  BY <1>0, <1>1, <1>3, <1>4 DEF Apart, WritesOwn, OwnsOwn, Contents, BackupsOf
<1>8. PlaceIsTrue(c)' /\ OwnsIfDone(c)'
  BY <1>1, <1>2, <1>3, <1>5 DEF PlaceIsTrue, OwnsIfDone, Indices
<1>9. LinksAreTrue(c)'
  <2>1. ASSUME NEW i \in Indices(c), InPlace(c, i)'
        PROVE  disk'[plan[c][i]] = c
    <3>1. InPlace(c, i) /\ i # at[c]
      BY <1>1, <1>2, <1>3, <2>1 DEF InPlace, Indices
    <3>2. plan[c][i] # path /\ plan[c][i] \in Paths
      BY <1>2, <3>1, PlanFacts DEF IInv
    <3> QED
      BY <1>2, <1>3, <3>1, <3>2 DEF CommandIsTrue, LinksAreTrue
  <2> QED
    BY <1>1, <1>3, <2>1 DEF LinksAreTrue, Indices
<1>10. BackupsAreTrue(c)'
  <2>1. \A b \in BackupsOf(c) : b.path \in Paths
    BY DEF BackupsOf, IInv, TypeOK, Backups
  <2>2. \A b \in BackupsOf(c) :
          /\ forced[c] /\ disk'[b.path] \in {Nothing, c}
          /\ ~marred => b.content = owner[b.path]
          /\ \A other \in BackupsOf(c) : other.path = b.path => other = b
    BY <1>1, <1>2, <1>3, <2>1 DEF CommandIsTrue, BackupsAreTrue
  <2> QED
    BY <1>1, <1>3, <2>2 DEF BackupsAreTrue
<1>11. NothingLost'
  <2>1. ASSUME NEW p \in Paths, owner[p] # Nothing
        PROVE  disk'[p] = owner[p] \/ \E b \in backups : b.path = p /\ b.content = owner[p]
    <3>1. CASE disk'[p] = disk[p]
      BY <2>1, <3>1 DEF IInv, NothingLost
    <3>2. CASE disk'[p] # disk[p]
      <4>1. disk[p] = c
        BY <1>1, <1>3, <1>4, <3>2
      <4> QED
        BY <1>5, <2>1, <4>1 DEF IInv, NothingLost
    <3> QED
      BY <3>1, <3>2
  <2> QED
    BY <1>1, <2>1 DEF NothingLost
<1>12. ASSUME ~marred', Changing(c, path)
       PROVE  Changing(c, path)'
  <2>1. disk'[path] = Nothing
    <3>1. CASE path \in committed[c]
      BY <1>1, <1>12, <3>1 DEF IInv, TypeOK
    <3>2. CASE path \notin committed[c]
      BY <1>1, <1>12, <3>2 DEF Changing
    <3> QED
      BY <3>1, <3>2
  <2>2. owner[path] = Nothing \/ \E b \in BackupsOf(c)' : b.path = path /\ b.content = owner[path]
    BY <1>3, <1>12 DEF Changing
  <2>3. \E i \in Indices(c)' : plan'[c][i] = path /\ i <= at'[c]
    BY <1>1, <1>2 DEF Indices
  <2> QED
    BY <1>1, <1>3, <2>1, <2>2, <2>3 DEF Changing
<1>13. ASSUME NEW p \in Paths \ {path}, Changing(c, p)
       PROVE  Changing(c, p)'
  <2>1. PICK i \in Indices(c) : plan[c][i] = p /\ i <= at[c]
    BY <1>1, <1>13 DEF Changing
  <2>2. i # at[c] /\ i \in Indices(c)'
    BY <1>1, <1>2, <1>13, <2>1 DEF Indices
  <2> QED
    BY <1>1, <1>3, <1>13, <2>1, <2>2 DEF Changing
<1>14. ASSUME NEW p \in Paths, NEW d \in Commands \ {c}, Changing(d, p)
       PROVE  disk'[p] = owner[p] \/ \E e \in Commands : Changing(e, p)'
  <2>1. CASE disk'[p] = disk[p]
    BY <1>1, <1>7, <1>14, <2>1, OthersChanging
  <2>2. CASE disk'[p] # disk[p]
    <3>1. disk[p] = c
      BY <1>1, <1>3, <1>4, <2>2
    <3> QED
      BY <1>2, <1>14, <3>1 DEF Changing
  <2> QED
    BY <2>1, <2>2
<1>15. Tidy'
  <2>1. ASSUME NEW p \in Paths, ~marred'
        PROVE  disk'[p] = owner[p] \/ \E d \in Commands : Changing(d, p)'
    <3>1. CASE disk[p] = owner[p]
      BY <1>1, <1>3, <1>4, <1>5, <3>1
    <3>2. CASE \E d \in Commands : Changing(d, p)
      BY <1>12, <1>13, <1>14, <2>1, <3>2
    <3> QED
      BY <1>3, <2>1, <3>1, <3>2 DEF IInv, Tidy
  <2> QED
    BY <1>1, <2>1 DEF Tidy
<1> QED
  BY <1>3, <1>6, <1>7, <1>8, <1>9, <1>10, <1>11, <1>15, OthersStay, StillAlone
     DEF IInv, CommandIsTrue

LEMMA RestoreKeeps ==
  ASSUME Settings, IInv, NEW c \in Commands, Restore(c)
  PROVE  IInv'
<1>0. PICK path \in Paths : path = Path(c)
  BY PlanFacts DEF IInv, CommandIsTrue, PlaceIsTrue, Path
<1> DEFINE Saved == {b \in BackupsOf(c) : b.path = path}
           Puts(b) == b \in Saved /\ disk' = [disk EXCEPT ![path] = b.content]
                      /\ backups' = backups \ {b} /\ UNCHANGED <<marred, failures>>
<1>1. /\ stage[c] = "restore" /\ UNCHANGED <<plan, forced, committed, owner>>
      /\ \/ \E b \in BackupsOf(c) : Puts(b)
         \/ Fail /\ marred' = TRUE /\ UNCHANGED <<disk, backups>>
         \/ /\ Saved = {} \/ (path \in Directories /\ disk[path] # Nothing)
            /\ UNCHANGED <<disk, backups, marred, failures>>
      /\ \/ at[c] > 1 /\ at' = [at EXCEPT ![c] = @ - 1] /\ stage' = [stage EXCEPT ![c] = "undo"] /\ UNCHANGED ending
         \/ ~(at[c] > 1) /\ UNCHANGED at /\ stage' = [stage EXCEPT ![c] = "ended"]
            /\ ending' = [ending EXCEPT ![c] = "error"]
  <2>1. Saved = BackupAt(c)
    BY <1>0 DEF BackupAt
  <2>2. /\ stage[c] = "restore" /\ UNCHANGED <<plan, forced, committed, owner>>
        /\ \/ \E b \in BackupAt(c) : Puts(b)
           \/ Fail /\ marred' = TRUE /\ UNCHANGED <<disk, backups>>
           \/ ~Restores(c) /\ UNCHANGED <<disk, backups, marred, failures>>
    BY <1>0, <2>1 DEF Restore, Put
  <2>3. \/ at[c] > 1 /\ at' = [at EXCEPT ![c] = @ - 1] /\ stage' = [stage EXCEPT ![c] = "undo"] /\ UNCHANGED ending
        \/ ~(at[c] > 1) /\ UNCHANGED at /\ stage' = [stage EXCEPT ![c] = "ended"]
           /\ ending' = [ending EXCEPT ![c] = "error"]
    BY DEF Restore, End
  <2> QED
    BY <1>0, <2>1, <2>2, <2>3 DEF Restores, BackupAt
<1>2. /\ CommandIsTrue(c) /\ at[c] \in Indices(c) /\ Len(plan[c]) \in Nat \ {0}
      /\ path = plan[c][at[c]] /\ c # Nothing
      /\ \A i, j \in Indices(c) : plan[c][i] = plan[c][j] => i = j
      /\ \A i \in Indices(c) : plan[c][i] \in Paths
  BY <1>0, PlanFacts DEF IInv, CommandIsTrue, PlaceIsTrue, Path, Settings
<1>3. /\ Running(c) /\ (marred => marred')
      /\ stage'[c] = "ended" \/ (stage'[c] = "undo" /\ at[c] > 1 /\ at'[c] = at[c] - 1)
      /\ at'[c] \in Indices(c) /\ (at[c] > 1 => stage'[c] = "undo")
      /\ \A d \in Commands \ {c} : stage'[d] = stage[d] /\ at'[d] = at[d]
  BY <1>1, <1>2 DEF IInv, TypeOK, Running, Indices
<1>4. \A b \in BackupsOf(c) :
        /\ b \in Backups /\ b.path \in Paths /\ b.by = c
        /\ forced[c] /\ disk[b.path] \in {Nothing, c}
        /\ ~marred => b.content = owner[b.path]
        /\ \A other \in BackupsOf(c) : other.path = b.path => other = b
  BY <1>1, <1>2, <1>3 DEF CommandIsTrue, BackupsAreTrue, BackupsOf, IInv, TypeOK, Backups
<1>5. \A p \in Paths : owner[p] # c
  BY <1>1, <1>2 DEF CommandIsTrue, OwnsIfDone
<1>6. \A p \in Paths \ {path} : disk'[p] = disk[p]
  BY <1>1 DEF IInv, TypeOK
<1>7. \A b \in backups : b.path # path => b \in backups'
  BY <1>1
<1>8. backups' \subseteq backups /\ BackupsOf(c)' \subseteq BackupsOf(c)
  BY <1>1 DEF BackupsOf
<1>9. TypeOK'
  <2>1. stage' \in [Commands -> Stages]
    BY <1>1 DEF IInv, TypeOK, Stages
  <2>2. at' \in [Commands -> Nat \ {0}]
    <3>1. at[c] > 1 => at[c] - 1 \in Nat \ {0}
      BY <1>2 DEF Indices
    <3> QED
      BY <1>1, <3>1 DEF IInv, TypeOK
  <2>3. ending' \in [Commands -> Endings]
    BY <1>1 DEF IInv, TypeOK, Endings
  <2>4. disk' \in [Paths -> Contents]
    BY <1>1, <1>4 DEF IInv, TypeOK, Backups
  <2>5. (marred' = marred /\ failures' = failures) \/ (Fail /\ marred' = TRUE)
    BY <1>1
  <2>6. failures' \in 0 .. MaxFailures
    BY <2>5 DEF IInv, TypeOK, Fail, Settings
  <2>7. marred' \in BOOLEAN
    BY <2>5 DEF IInv, TypeOK
  <2> QED
    BY <1>1, <1>8, <2>1, <2>2, <2>3, <2>4, <2>6, <2>7 DEF IInv, TypeOK
<1>10. Apart(c) /\ WritesOwn(c) /\ OwnsOwn(c)
  <2>1. \A d \in Commands \ {c} : BackupsOf(d)' = BackupsOf(d)
    BY <1>1, <1>4 DEF BackupsOf
  <2>2. UNCHANGED disk \/ (forced[c] /\ \E x \in Contents : disk' = [disk EXCEPT ![path] = x])
    BY <1>1, <1>4 DEF Backups
  <2> QED
    BY <1>0, <1>1, <1>3, <2>1, <2>2 DEF Apart, WritesOwn, OwnsOwn
<1>11. PlaceIsTrue(c)' /\ OwnsIfDone(c)'
  BY <1>1, <1>2, <1>3, <1>5 DEF PlaceIsTrue, OwnsIfDone, Indices
<1>12. LinksAreTrue(c)'
  <2>1. ASSUME NEW i \in Indices(c), InPlace(c, i)'
        PROVE  disk'[plan[c][i]] = c
    <3>1. InPlace(c, i) /\ i # at[c]
      BY <1>1, <1>2, <1>3, <2>1 DEF InPlace, Indices
    <3>2. plan[c][i] # path /\ plan[c][i] \in Paths
      BY <1>2, <3>1
    <3> QED
      BY <1>2, <1>6, <3>1, <3>2 DEF CommandIsTrue, LinksAreTrue
  <2> QED
    BY <1>1, <1>3, <2>1 DEF LinksAreTrue, Indices
<1>13. BackupsAreTrue(c)'
  <2>1. ASSUME NEW b \in BackupsOf(c)'
        PROVE  disk'[b.path] = disk[b.path]
    <3>1. CASE b.path = path
      BY <1>1, <1>4, <1>8, <2>1, <3>1 DEF BackupsOf
    <3> QED
      BY <1>4, <1>6, <1>8, <2>1, <3>1
  <2> QED
    BY <1>1, <1>3, <1>4, <1>8, <2>1 DEF BackupsAreTrue
<1>14. NothingLost'
  <2>1. ASSUME NEW p \in Paths, owner[p] # Nothing
        PROVE  disk'[p] = owner[p] \/ \E b \in backups' : b.path = p /\ b.content = owner[p]
    <3>1. CASE p # path
      BY <1>6, <1>7, <2>1, <3>1 DEF IInv, NothingLost
    <3>2. CASE p = path /\ \E b \in BackupsOf(c) : Puts(b)
      <4>1. PICK b \in BackupsOf(c) : Puts(b)
        BY <3>2
      <4>2. disk'[path] = b.content /\ disk[path] # owner[path]
        BY <1>4, <1>5, <2>1, <3>2, <4>1 DEF IInv, TypeOK
      <4>3. PICK other \in backups : other.path = path /\ other.content = owner[path]
        BY <2>1, <3>2, <4>2 DEF IInv, NothingLost
      <4> QED
        BY <3>2, <4>1, <4>2, <4>3
    <3>3. CASE UNCHANGED <<disk, backups>>
      BY <2>1, <3>3 DEF IInv, NothingLost
    <3> QED
      BY <1>1, <3>1, <3>2, <3>3
  <2> QED
    BY <1>1, <2>1 DEF NothingLost
\* An output that has been put back is as it ought to be.
<1>15. ASSUME ~marred', disk[path] = owner[path] \/ Changing(c, path)
       PROVE  disk'[path] = owner[path]
  <2>1. CASE \E b \in BackupsOf(c) : Puts(b)
    BY <1>3, <1>4, <1>15, <2>1 DEF IInv, TypeOK
  <2>2. CASE UNCHANGED disk /\ Changing(c, path) /\ (Saved = {} \/ disk[path] # Nothing)
    <3>1. disk[path] = Nothing
      BY <1>1, <1>2, <2>2 DEF Changing
    <3>2. owner[path] = Nothing
      BY <2>2, <3>1 DEF Changing
    <3> QED
      BY <2>2, <3>1, <3>2
  <2> QED
    BY <1>1, <1>15, <2>1, <2>2
<1>16. ASSUME NEW p \in Paths \ {path}, Changing(c, p)
       PROVE  Changing(c, p)'
  <2>1. PICK i \in Indices(c) : plan[c][i] = p /\ i <= at[c]
    BY <1>1, <1>16 DEF Changing
  <2>2. i \in Indices(c)' /\ i < at[c]
    BY <1>1, <1>2, <1>16, <2>1 DEF Indices
  <2>3. stage'[c] = "undo" /\ i <= at'[c]
    BY <1>2, <1>3, <2>1, <2>2 DEF Indices
  <2>4. owner[p] = Nothing \/ \E b \in BackupsOf(c)' : b.path = p /\ b.content = owner[p]
    BY <1>7, <1>16 DEF Changing, BackupsOf
  <2> QED
    BY <1>1, <1>6, <1>16, <2>1, <2>2, <2>3, <2>4 DEF Changing
<1>17. ASSUME NEW p \in Paths, NEW d \in Commands \ {c}, Changing(d, p)
       PROVE  Changing(d, p)'
  <2>1. UNCHANGED disk
    <3>1. ~forced[c]
      BY <1>3, <1>17 DEF IInv, ForcedAlone, Changing, Running
    <3> QED
      BY <1>1, <1>4, <3>1
  <2> QED
    BY <1>1, <1>10, <1>17, <2>1, OthersChanging
<1>18. Tidy'
  <2>1. ASSUME NEW p \in Paths, ~marred'
        PROVE  disk'[p] = owner[p] \/ \E d \in Commands : Changing(d, p)'
    <3>1. CASE \E d \in Commands \ {c} : Changing(d, p)
      BY <1>17, <3>1
    <3>2. CASE p = path /\ (disk[path] = owner[path] \/ Changing(c, path))
      BY <1>15, <2>1, <3>2
    <3>3. CASE p # path /\ (disk[p] = owner[p] \/ Changing(c, p))
      BY <1>6, <1>16, <3>3
    <3> QED
      BY <1>3, <2>1, <3>1, <3>2, <3>3 DEF IInv, Tidy
  <2> QED
    BY <1>1, <2>1 DEF Tidy
<1> QED
  BY <1>3, <1>9, <1>10, <1>11, <1>12, <1>13, <1>14, <1>18, OthersStay, StillAlone
     DEF IInv, CommandIsTrue
-----------------------------------------------------------------------------
(* Theorems.                                                               *)

LEMMA InitIInv ==
  ASSUME Settings, Init
  PROVE  IInv
<1>1. Prior \in Contents /\ Nothing \in Contents
  BY DEF Contents
<1>2. TypeOK
  <2>1. disk \in [Paths -> Contents] /\ owner \in [Paths -> Contents]
    BY <1>1 DEF Init
  <2>2. stage \in [Commands -> Stages] /\ ending \in [Commands -> Endings]
    BY DEF Init, Stages, Endings
  <2>3. at \in [Commands -> Nat \ {0}] /\ committed \in [Commands -> SUBSET Files]
    BY DEF Init
  <2>4. failures \in 0 .. MaxFailures
    BY DEF Init, Settings
  <2>5. marred \in BOOLEAN /\ backups \subseteq Backups
    BY DEF Init
  <2> QED
    BY <2>1, <2>2, <2>3, <2>4, <2>5 DEF Init, TypeOK
<1>3. ForcedAlone
  BY DEF Init, ForcedAlone, Running
<1>4. ASSUME NEW c \in Commands
      PROVE  CommandIsTrue(c)
  <2>1. stage[c] = "new" /\ at[c] = 1 /\ committed[c] = {} /\ BackupsOf(c) = {}
    BY DEF Init, BackupsOf
  <2>2. PlaceIsTrue(c)
    BY <1>2, <2>1, PlanFacts DEF PlaceIsTrue, Indices
  <2>3. LinksAreTrue(c) /\ BackupsAreTrue(c)
    BY <2>1 DEF LinksAreTrue, InPlace, BackupsAreTrue, Running
  <2>4. OwnsIfDone(c)
    BY <2>1 DEF Init, OwnsIfDone, Settings
  <2> QED
    BY <2>2, <2>3, <2>4 DEF CommandIsTrue
<1>5. NothingLost /\ Tidy
  BY DEF Init, NothingLost, Tidy
<1> QED
  BY <1>2, <1>3, <1>4, <1>5 DEF IInv

LEMMA NextIInv ==
  ASSUME Settings, IInv, [Next]_vars
  PROVE  IInv'
<1>1. ASSUME NEW c \in Commands, Begin(c) \/ Check(c) \/ Stage(c) \/ InTheWay(c) \/ CallFails(c)
      PROVE  IInv'
  BY <1>1, BeginKeeps, ChecksKeep, TurnsBack
<1>2. ASSUME NEW c \in Commands, Backup(c) \/ Link(c) \/ Unlink(c) \/ Move(c) \/ Clear(c)
      PROVE  IInv'
  BY <1>2, BackupKeeps, LinkKeeps, UnlinkKeeps, MoveKeeps, ClearKeeps
<1>3. ASSUME NEW c \in Commands, Undo(c) \/ Restore(c) \/ Kill(c)
      PROVE  IInv'
  BY <1>3, UndoKeeps, RestoreKeeps, KillKeeps
<1>4. CASE UNCHANGED vars
  <2>1. TypeOK' /\ ForcedAlone' /\ NothingLost'
    BY <1>4 DEF vars, IInv, TypeOK, ForcedAlone, Running, NothingLost
  <2>2. ASSUME NEW c \in Commands
        PROVE  CommandIsTrue(c)' /\ \A p \in Paths : Changing(c, p) => Changing(c, p)'
    <3>1. BackupsOf(c)' = BackupsOf(c) /\ Indices(c)' = Indices(c) /\ CommandIsTrue(c)
      BY <1>4 DEF vars, BackupsOf, Indices, IInv
    <3>2. PlaceIsTrue(c)' /\ LinksAreTrue(c)' /\ OwnsIfDone(c)' /\ BackupsAreTrue(c)'
      BY <1>4, <3>1 DEF vars, CommandIsTrue, PlaceIsTrue, LinksAreTrue, InPlace, OwnsIfDone,
                        BackupsAreTrue, Running
    <3>3. \A p \in Paths : Changing(c, p) => Changing(c, p)'
      BY <1>4, <3>1 DEF vars, Changing
    <3> QED
      BY <3>2, <3>3 DEF CommandIsTrue
  <2>3. Tidy'
    BY <1>4, <2>2 DEF vars, IInv, Tidy
  <2> QED
    BY <2>1, <2>2, <2>3 DEF IInv
<1> QED
  BY <1>1, <1>2, <1>3, <1>4 DEF Next

\* The invariant above, from which the rest follows.
THEOREM Invariance ==
  ASSUME Settings
  PROVE  Spec => []IInv
<1>1. Init => IInv
  BY InitIInv
<1>2. IInv /\ [Next]_vars => IInv'
  BY NextIInv
<1> QED
  BY <1>1, <1>2, PTL DEF Spec

LEMMA TypeOKFollows ==
  ASSUME Settings, IInv
  PROVE  TypeOK
  BY DEF IInv

\* Disks, backups, loops and endings are of their types, and no more calls fail than
\* MaxFailures.
THEOREM TypesHold ==
  ASSUME Settings
  PROVE  Spec => []TypeOK
<1>1. IInv => TypeOK
  BY TypeOKFollows
<1> QED
  BY <1>1, Invariance, PTL

LEMMA PreservedFollows ==
  ASSUME Settings, IInv
  PROVE  Preserved
<1>1. ASSUME IInv, \A c \in Commands : ~Running(c), ~marred
      PROVE  disk = owner
  <2>1. \A c \in Commands, p \in Paths : ~Changing(c, p)
    BY <1>1 DEF Changing, Running
  <2>2. \A p \in Paths : disk[p] = owner[p]
    BY <1>1, <2>1 DEF IInv, Tidy
  <2> QED
    BY <1>1, <2>2 DEF IInv, TypeOK
<1> QED
  BY <1>1 DEF Preserved

\* "Output write failed; existing outputs were preserved.": once no command runs, none was
\* killed and no rollback failed, every output of writeOutputFilesAtomically and
\* commitStagedOutputDirectory is that of the last command that put all of its own in place.
THEOREM PreservedHolds ==
  ASSUME Settings
  PROVE  Spec => []Preserved
<1>1. IInv => Preserved
  BY PreservedFollows
<1> QED
  BY <1>1, Invariance, PTL

LEMMA NothingLostFollows ==
  ASSUME Settings, IInv
  PROVE  NothingLost
  BY DEF IInv

\* "never delete the prior content" (rollbackOutputs): whatever is killed and whatever call
\* fails, even in a rollback, a complete output is at its place or in a backup beside it
\* until a command replaced all of its own.
THEOREM NothingLostHolds ==
  ASSUME Settings
  PROVE  Spec => []NothingLost
<1>1. IInv => NothingLost
  BY NothingLostFollows
<1> QED
  BY <1>1, Invariance, PTL
=============================================================================
