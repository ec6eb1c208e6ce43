-------------------------- MODULE MCRunOrchestration --------------------------
(* Constant values for the runs of RunOrchestration.                       *)
EXTENDS RunOrchestration_proofs, TLC

CONSTANTS p1, p2, mixed, plain, reads, c1, c2

\* "mixed": a write that must not be repeated, then one that may.
\* "plain": a read and an idempotent write.  "reads": one read, so that its
\* start needs no acknowledgement.  A run gives Plans one or two of these.
MCLength == [pl \in Plans |-> IF pl = reads THEN 1 ELSE 2]
MCWrites ==
  [pl \in Plans |-> CASE pl = mixed -> {1, 2} [] pl = plain -> {2} [] pl = reads -> {}]
MCIdempotent == [pl \in Plans |-> IF pl = reads THEN {} ELSE {2}]

ProcessSymmetry == Permutations({p1, p2})
=============================================================================
