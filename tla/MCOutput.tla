------------------------------ MODULE MCOutput ------------------------------
(* OutputParts for TLC: the plans of the JavaScript commands, the servers   *)
(* of the applies, and what may be permuted.                                *)
EXTENDS OutputParts, FiniteSets, TLC

CONSTANTS w1, w2, c1, c2, c3, a1, a2, report, matrix, corpus

MCJsFiles == {report, matrix}

MCJsDirectories == {corpus}

\* A report and its matrix in either order, a directory.
MCJsPlans == {<<report, matrix>>, <<matrix, report>>, <<corpus>>}

Plain == [key |-> "admin", contract |-> "ours", declared |-> {TRUE},
          licensing |-> "disabled", license |-> "unstated"]

\* One server for every way to be ready or not.
MCApplyServers ==
  { Plain,
    [Plain EXCEPT !.licensing = "enabled", !.license = "invalid"],
    [Plain EXCEPT !.declared = {TRUE, FALSE}],
    [Plain EXCEPT !.declared = {}],
    [Plain EXCEPT !.contract = "other"],
    [Plain EXCEPT !.key = "user"],
    [Plain EXCEPT !.key = "unknown"] }

ASSUME ApplyConstantsOK == Apply!ConstantsOK

Odd(p) == Cardinality({c \in Commands : p[c] = c}) = Cardinality(Commands) - 2

Swap == (w1 :> w2) @@ (w2 :> w1) @@ (a1 :> a2) @@ (a2 :> a1)

\* Every permutation of the JavaScript commands, the odd ones with the writers and
\* the applies swapped: no more than the parts need, since only one of them moves.
MCSymmetry ==
  {p @@ (IF Odd(p) THEN Swap ELSE [v \in {w1, w2, a1, a2} |-> v]) : p \in Permutations(Commands)}
=============================================================================
