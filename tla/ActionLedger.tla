----------------------------- MODULE ActionLedger -----------------------------
(***************************************************************************)
(* What a durable run promises its operator, whatever processes, crashes   *)
(* and retries lie underneath: one plan is bound for good; its actions are *)
(* noted, sent, and confirmed in plan order; an action is noted before it  *)
(* is sent and confirmed only after it took effect; an action that must    *)
(* not be repeated is sent at most once.                                   *)
(*                                                                         *)
(* RunOrchestration implements this with plan <- disk.plan and             *)
(* ledger <- disk.cps.                                                     *)
(***************************************************************************)
EXTENDS Naturals

CONSTANTS Plans, MaxActions, Length, Writes, Idempotent, None

VARIABLES
  plan,    \* the plan the run is bound to, or None
  ledger,  \* ledger[a]: what the run has on record about action a
  sent,    \* sent[a]: requests for a so far
  landed   \* landed[a]: those that took effect

ledgerVars == <<plan, ledger, sent, landed>>

Slots == 1 .. MaxActions

SentOnce(a) == a \in Writes[plan] /\ a \notin Idempotent[plan]

\* a is the turn of the plan: everything before it is confirmed.
Turn(a) ==
  /\ plan # None
  /\ a \in 1 .. Length[plan]
  /\ \A b \in 1 .. (a - 1) : ledger[b] = "succeeded"

LedgerInit ==
  /\ plan = None
  /\ ledger = [a \in Slots |-> "none"]
  /\ sent = [a \in Slots |-> 0]
  /\ landed = [a \in Slots |-> {}]

Bind(pl) ==
  /\ plan = None
  /\ plan' = pl
  /\ UNCHANGED <<ledger, sent, landed>>

Note(a) ==
  /\ Turn(a)
  /\ ledger[a] = "none"
  /\ ledger' = [ledger EXCEPT ![a] = "started"]
  /\ UNCHANGED <<plan, sent, landed>>

Send(a) ==
  /\ Turn(a)
  /\ ledger[a] = "started"
  /\ SentOnce(a) => sent[a] = 0
  /\ sent' = [sent EXCEPT ![a] = @ + 1]
  /\ UNCHANGED <<plan, ledger, landed>>

TakeEffect(a, n) ==
  /\ n \in (1 .. sent[a]) \ landed[a]
  /\ landed' = [landed EXCEPT ![a] = @ \union {n}]
  /\ UNCHANGED <<plan, ledger, sent>>

Confirm(a) ==
  /\ ledger[a] = "started"
  /\ landed[a] # {}
  /\ ledger' = [ledger EXCEPT ![a] = "succeeded"]
  /\ UNCHANGED <<plan, sent, landed>>

LedgerNext ==
  \/ \E pl \in Plans : Bind(pl)
  \/ \E a \in Slots :
       \/ Note(a) \/ Send(a) \/ Confirm(a)
       \/ \E n \in 1 .. sent[a] : TakeEffect(a, n)

LedgerSpec == LedgerInit /\ [][LedgerNext]_ledgerVars
=============================================================================
