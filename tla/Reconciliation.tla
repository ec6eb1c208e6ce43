---------------------------- MODULE Reconciliation ----------------------------
(* reconcile compare (runs/reconciliation.py): a run and two snapshots that *)
(* an adapter took of the source and of the target, compared category by   *)
(* category.  The files come from different commands and may belong to     *)
(* different runs; the result is written once, to a path of its own.       *)
EXTENDS Assessment, Functions

CONSTANTS
  Runs,      \* runs that may be in the artifact: [id, plan, digest, service, outcome]
  Snapshots  \* snapshots: [id, plan, digest, service, values, metadata, supported]

\* values[c] is what a snapshot holds of a category, a sequence, or None.
Comparisons == <<"counts", "schemas", "extents", "samples", "relationships">>

Unordered == {"samples", "relationships"}

BindingFields == {"id", "plan", "digest", "service"}

Worlds == [run : Runs, source : Snapshots, target : Snapshots, taken : BOOLEAN]

Init ==
  /\ world \in Worlds
  /\ pc = "load"
  /\ found = <<>>
  /\ diags = {}
  /\ result = None

Refuse ==
  /\ pc' = "ended"
  /\ UNCHANGED <<world, found, diags, result>>

\* Any two of the fields will do.
MutBound(snapshot) == snapshot.id = world.run.id /\ snapshot.service = world.run.service

\* _validate_snapshot_binding.
Bound(snapshot) == \A f \in BindingFields : snapshot[f] = world.run[f]

\* reconcile_run up to the comparison.
Load ==
  /\ pc = "load"
  /\ IF world.run.outcome = "succeeded" /\ Bound(world.source) /\ Bound(world.target)
       THEN /\ pc' = "compare"
            /\ UNCHANGED <<world, found, diags, result>>
       ELSE Refuse

\* The same items, each as often: sorted they are equal.
SameItems(s, t) ==
  \E places \in Bijection(DOMAIN s, DOMAIN t) : \A i \in DOMAIN s : s[i] = t[places[i]]

Same(c, s, t) == IF c \in Unordered THEN SameItems(s, t) ELSE s = t

Check(c) ==
  LET s == world.source.values[c]
      t == world.target.values[c]
  IN IF s = None \/ t = None THEN "skipped" ELSE IF Same(c, s, t) THEN "matched" ELSE "mismatched"

Compare ==
  /\ pc = "compare"
  /\ Len(found) < Len(Comparisons)
  /\ found' = Append(found, Check(Comparisons[Len(found) + 1]))
  /\ UNCHANGED <<world, pc, diags, result>>

\* The part of some metadata that the target supports.
Supported(metadata) ==
  [n \in DOMAIN metadata \intersect world.target.supported |-> metadata[n]]

\* _compare_metadata: what the target does not support is named, and no mismatch.
MetadataCheck ==
  LET s == world.source.metadata
      t == world.target.metadata
  IN IF s = None \/ t = None \/ world.target.supported = None THEN "skipped"
     ELSE IF Supported(s) = Supported(t) THEN "matched" ELSE "mismatched"

CompareMetadata ==
  /\ pc = "compare"
  /\ Len(found) = Len(Comparisons)
  /\ found' = Append(found, MetadataCheck)
  /\ diags' = IF MetadataCheck = "skipped" THEN diags
              ELSE diags \union {Diag(<<"metadata", n>>, "metadata-unsupported") :
                                   n \in DOMAIN world.source.metadata \ world.target.supported}
  /\ pc' = "write"
  /\ UNCHANGED <<world, result>>

\* A category that is missing does not count.
MutStatus(checks) == IF "mismatched" \in checks THEN "mismatched" ELSE "matched"

Status(checks) ==
  IF "mismatched" \in checks THEN "mismatched"
  ELSE IF "skipped" \in checks THEN "partial" ELSE "matched"

\* write_reconciliation: a result that is there is not replaced; see AtomicOutput.
Write ==
  /\ pc = "write"
  /\ IF world.taken THEN Refuse
     ELSE /\ pc' = "ended"
          /\ result' = [run |-> world.run.id, status |-> Status(Range(found)), checks |-> found]
          /\ UNCHANGED <<world, found, diags>>

\* reconcile_compare_command: only a match is a success.
Exit ==
  IF result = None THEN "refused" ELSE IF result.status = "matched" THEN "success" ELSE "partial"

Next == Load \/ Compare \/ CompareMetadata \/ Write

Spec == Init /\ [][Next]_vars /\ WF_vars(Next)

-----------------------------------------------------------------------------
TypeOK ==
  /\ world \in Worlds
  /\ pc \in {"load", "compare", "write", "ended"}
  /\ found \in Seq({"matched", "mismatched", "skipped"}) /\ Len(found) <= Len(Comparisons) + 1
  /\ result # None => result.status \in {"matched", "mismatched", "partial"}

\* A match is one of this run: it succeeded, both snapshots are of it, of its
\* plan as it was digested, and every category is in both and equal, samples and
\* relationships in any order; a source's metadata reached the target or is
\* named as unsupported.
MatchIsComplete ==
  pc = "ended" /\ Exit = "success" =>
    /\ world.run.outcome = "succeeded"
    /\ \A s \in {world.source, world.target}, f \in BindingFields : s[f] = world.run[f]
    /\ \A c \in Range(Comparisons) \ Unordered : world.source.values[c] = world.target.values[c]
    /\ \A c \in Range(Comparisons) : world.source.values[c] # None /\ world.target.values[c] # None
    /\ \A c \in Unordered : Range(world.source.values[c]) = Range(world.target.values[c])
    /\ \A n \in DOMAIN world.source.metadata :
         \/ Diag(<<"metadata", n>>, "metadata-unsupported") \in diags
         \/ n \in DOMAIN world.target.metadata /\ world.target.metadata[n] = world.source.metadata[n]
=============================================================================
