------------------------------ MODULE Assessment ------------------------------
(* What the commands that only read have in common, the scans of           *)
(* honua_esri_assess and the scan of scripts: a world that stands still    *)
(* while it is read, requests that fail one by one, diagnostics that name  *)
(* what could not be read, and a result at the end.                        *)
EXTENDS Naturals, FiniteSets, Sequences

CONSTANT None

VARIABLES
  world,   \* what is scanned, and what the operator asked for
  pc,      \* where the scan stands
  found,   \* what it has read so far
  diags,   \* its diagnostics, a set of [scope, code]
  result   \* what it ends with, or None

vars == <<world, pc, found, diags, result>>

\* The typed errors of the clients: see AssessRequests.
Failures == {"auth", "forbidden", "not-found", "limited", "connection", "api"}

Outcomes == Failures \union {"ok"}

Diag(scope, code) == [scope |-> scope, code |-> code]

Report(scope, code) == diags' = diags \union {Diag(scope, code)}

\* Nothing is written: the error ends the command.
Abort ==
  /\ pc' = "aborted"
  /\ UNCHANGED <<world, found, diags, result>>

Over == pc \in {"aborted", "ended"}
=============================================================================
