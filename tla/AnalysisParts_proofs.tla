------------------------- MODULE AnalysisParts_proofs -------------------------
(* Proofs about the parts of AnalysisParts, and about a behaviour of any of *)
(* them.  A part that needs more than its types has an inductive invariant  *)
(* of its own; the invariant of the whole is that of the part in focus.     *)
EXTENDS AnalysisParts, FiniteSetTheorems, SequenceTheorems, TLAPS

-----------------------------------------------------------------------------
(* Requests.                                                               *)

\* What a client may have slept after n attempts.
Slept(client, n) ==
  CASE client = "server" -> Budget
    [] client = "portal" -> n * Cap
    [] OTHER -> 0

\* A sleep belongs to the attempt it follows, and only what can be repeated
\* sleeps: whoever is about to send has an attempt left.
RequestsIInv ==
  /\ world \in [client : Requests!Clients]
  /\ pc \in {"send", "sent", "sleep", "ended"}
  /\ found \in [attempt : 0 .. MaxAttempts, slept : Nat, last : Requests!Answer \union {None},
                delay : Nat]
  /\ pc # "send" => found.attempt >= 1
  /\ pc \in {"send", "sleep"} => found.attempt < MaxAttempts
  /\ pc # "sleep" => found.delay = 0
  /\ pc \in {"send", "sleep"} => found.slept + found.delay <= Slept(world.client, found.attempt)
  /\ pc \in {"sent", "ended"} => found.slept <= Slept(world.client, found.attempt - 1)
  /\ pc = "sent" => found.last = None
  /\ result \in Requests!Outcomes \union {None}
  /\ Requests!AnswerIsUnderstood

LEMMA DelayIsBounded ==
  ASSUME NEW client \in Requests!Clients, NEW a \in Requests!Answer, NEW n \in 1 .. MaxAttempts
  PROVE  /\ Requests!Delay(client, a, n) \in Nat
         /\ client = "portal" => Requests!Delay(client, a, n) <= Cap
         /\ client \notin {"server", "portal"} => Requests!Delay(client, a, n) = 0
<1>1. a.after \in Nat \union {None}
  BY RequestsAssumption DEF Requests!Answer
<1>2. Requests!Backoff(n) \in Nat
  BY RequestsAssumption
<1>3. \A x, y \in Nat : Requests!Lesser(x, y) \in Nat /\ Requests!Lesser(x, y) <= y
  BY DEF Requests!Lesser
<1> QED
  BY <1>1, <1>2, <1>3, RequestsAssumption DEF Requests!Delay, Requests!Clients

\* A server that says no and an envelope that says so are no answer.
LEMMA MeaningIsTrue ==
  ASSUME NEW client \in Requests!Clients, NEW a \in Requests!Answer
  PROVE  /\ Requests!Meaning(client, a) \in Requests!Outcomes
         /\ Requests!Meaning(client, a) = "ok" <=> a.status = 200 /\ a.body = Requests!Object
<1>1. a.status \in Requests!Statuses /\ a.body \in Requests!Bodies
  BY DEF Requests!Answer
<1>2. \A s \in Requests!Statuses \union Requests!Bodies :
        Requests!StatusError(s) \in {"auth", "forbidden", "not-found", "limited", "connection", "api"}
  BY DEF Requests!StatusError, Requests!Statuses, Requests!Bodies
<1>3. CASE client = "server"
  BY <1>1, <1>3 DEF Requests!Meaning, Requests!ServerOutcome, Requests!StatusError,
    Requests!EnvelopeError, Requests!Outcomes, Requests!Failures, Requests!Statuses,
    Requests!Bodies, Requests!Object, Requests!NotJson
<1>4. CASE client = "portal"
  BY <1>1, <1>4 DEF Requests!Meaning, Requests!PortalOutcome, Requests!StatusError,
    Requests!Outcomes, Requests!Failures, Requests!Statuses, Requests!Bodies, Requests!Object,
    Requests!NotJson
<1>5. CASE client = "scanner"
  BY <1>1, <1>5 DEF Requests!Meaning, Requests!ScannerOutcome, Requests!StatusError,
    Requests!Outcomes, Requests!Failures, Requests!Statuses, Requests!Bodies, Requests!Object,
    Requests!NotJson
<1>6. CASE client = "entitlements"
  BY <1>1, <1>6 DEF Requests!Meaning, Requests!EntitlementsOutcome, Requests!StatusError,
    Requests!Outcomes, Requests!Failures, Requests!Statuses, Requests!Bodies, Requests!Object,
    Requests!NotJson
<1> QED
  BY <1>3, <1>4, <1>5, <1>6 DEF Requests!Clients

LEMMA InitRequests ==
  ASSUME Requests!Init
  PROVE  RequestsIInv
BY RequestsAssumption DEF Requests!Init, RequestsIInv, Slept, Requests!Clients,
  Requests!AnswerIsUnderstood

LEMMA NextRequests ==
  ASSUME RequestsIInv, [Requests!Next]_(Requests!vars)
  PROVE  RequestsIInv'
<1> USE RequestsAssumption
<1> DEFINE client == world.client
<1>1. client \in Requests!Clients
  BY DEF RequestsIInv
<1>2. CASE Requests!Send
  <2>1. /\ pc = "send" /\ pc' = "sent" /\ UNCHANGED <<world, diags, result>>
        /\ found' = [found EXCEPT !.attempt = @ + 1, !.last = None]
    BY <1>2 DEF Requests!Send
  <2>2. found' = [attempt |-> found.attempt + 1, slept |-> found.slept, last |-> None, delay |-> 0]
    BY <2>1 DEF RequestsIInv
  <2>3. /\ found.attempt \in 0 .. MaxAttempts - 1 /\ found.slept \in Nat
        /\ found.slept <= Slept(world.client, found.attempt)
    BY <2>1 DEF RequestsIInv
  <2>4. (found.slept <= Slept(world.client, found.attempt - 1))'
    BY <2>1, <2>2, <2>3 DEF Slept
  <2>5. Requests!AnswerIsUnderstood'
    BY <2>1 DEF Requests!AnswerIsUnderstood
  <2> QED
    BY <2>1, <2>2, <2>3, <2>4, <2>5 DEF RequestsIInv
<1>3. CASE Requests!Unreachable
  BY <1>3 DEF Requests!Unreachable, Requests!Finish, RequestsIInv, Slept,
    Requests!AnswerIsUnderstood, Requests!Outcomes, Requests!Failures
<1>4. CASE Requests!Wake
  <2>1. /\ pc = "sleep" /\ pc' = "send" /\ UNCHANGED <<world, diags, result>>
        /\ found' = [attempt |-> found.attempt, slept |-> found.slept + found.delay,
                     last |-> found.last, delay |-> 0]
    BY <1>4 DEF Requests!Wake, RequestsIInv
  <2> QED
    BY <2>1 DEF RequestsIInv, Slept, Requests!AnswerIsUnderstood
<1>5. ASSUME NEW a \in Requests!Answer, Requests!Receive(a)
      PROVE  RequestsIInv'
  <2>1. CASE Requests!Repeats(client, a)
    <3> DEFINE delay == Requests!Delay(client, a, found.attempt)
    <3>1. /\ pc = "sent" /\ pc' = "sleep" /\ UNCHANGED <<world, diags, result>>
          /\ found' = [found EXCEPT !.delay = delay, !.last = a]
      BY <1>5, <2>1 DEF Requests!Receive
    <3>2. /\ found.attempt \in 1 .. MaxAttempts /\ found.attempt < MaxAttempts
          /\ client = "server" => found.slept + delay <= Budget
      BY <2>1, <3>1 DEF Requests!Repeats, Requests!Affords, RequestsIInv
    <3>3. /\ delay \in Nat
          /\ client = "portal" => delay <= Cap
          /\ client \notin {"server", "portal"} => delay = 0
      BY <1>1, <3>2, DelayIsBounded
    <3> HIDE DEF delay
    <3>4. (found.attempt - 1) * Cap + Cap = found.attempt * Cap
      BY <3>2
    <3>5. found.slept + delay <= Slept(world.client, found.attempt)
      <4>1. found.slept \in Nat /\ found.slept <= Slept(world.client, found.attempt - 1)
        BY <3>1 DEF RequestsIInv
      <4> QED
        BY <3>2, <3>3, <3>4, <4>1 DEF Slept
    <3> QED
      BY <3>1, <3>2, <3>3, <3>5 DEF RequestsIInv, Slept, Requests!AnswerIsUnderstood
  <2>2. CASE ~Requests!Repeats(client, a)
    <3>1. /\ pc = "sent" /\ pc' = "ended" /\ UNCHANGED <<world, diags>>
          /\ result' = Requests!Meaning(client, a)
          /\ found' = [found EXCEPT !.last = a]
      BY <1>5, <2>2 DEF Requests!Receive, Requests!Finish
    <3>2. /\ result' \in Requests!Outcomes
          /\ result' = "ok" <=> a.status = 200 /\ a.body = Requests!Object
      BY <1>1, <3>1, MeaningIsTrue
    <3>3. found'.last = a /\ found'.attempt = found.attempt /\ found'.slept = found.slept
          /\ found'.delay = found.delay
      BY <3>1 DEF RequestsIInv
    <3> QED
      BY <3>1, <3>2, <3>3 DEF RequestsIInv, Slept, Requests!AnswerIsUnderstood
  <2> QED
    BY <2>1, <2>2
<1>6. CASE UNCHANGED Requests!vars
  BY <1>6 DEF Requests!vars, RequestsIInv, Slept, Requests!AnswerIsUnderstood
<1> QED
  BY <1>2, <1>3, <1>4, <1>5, <1>6 DEF Requests!Next

LEMMA RequestsFollows ==
  ASSUME RequestsIInv
  PROVE  Requests!TypeOK /\ Requests!RequestIsBounded /\ Requests!AnswerIsUnderstood
<1> USE RequestsAssumption
<1>1. found.attempt \in 0 .. MaxAttempts /\ found.slept \in Nat /\ found.delay \in Nat
  BY DEF RequestsIInv
<1>2. \A n \in 0 .. MaxAttempts - 1 : n * Cap <= (MaxAttempts - 1) * Cap
  OBVIOUS
<1>3. Requests!RequestIsBounded
  <2>1. \E n \in 0 .. MaxAttempts - 1 : found.slept + found.delay <= Slept(world.client, n)
    <3>1. CASE pc \in {"send", "sleep"}
      BY <1>1, <3>1 DEF RequestsIInv
    <3>2. CASE pc \in {"sent", "ended"}
      <4>1. found.attempt - 1 \in 0 .. MaxAttempts - 1 /\ found.delay = 0
            /\ found.slept <= Slept(world.client, found.attempt - 1)
        BY <1>1, <3>2 DEF RequestsIInv
      <4> QED
        BY <1>1, <4>1
    <3> QED
      BY <3>1, <3>2 DEF RequestsIInv
  <2> QED
    BY <1>1, <1>2, <2>1 DEF Requests!RequestIsBounded, Slept
<1> QED
  BY <1>1, <1>3 DEF RequestsIInv, Requests!TypeOK

-----------------------------------------------------------------------------
(* Reconciliation.                                                         *)

Checks == {"matched", "mismatched", "skipped"}

\* What was compared so far is what Check says of it; what Load let through
\* belongs together.
ReconcileIInv ==
  /\ world \in Reconcile!Worlds
  /\ pc \in {"load", "compare", "write", "ended"}
  /\ found \in Seq(Checks) /\ Len(found) <= 6
  /\ pc = "load" => found = <<>>
  /\ pc = "compare" => Len(found) <= 5
  /\ pc = "write" => Len(found) = 6
  /\ pc \in {"compare", "write"} \/ result # None =>
       /\ world.run.outcome = "succeeded"
       /\ Reconcile!Bound(world.source) /\ Reconcile!Bound(world.target)
  /\ \A i \in 1 .. 5 : i <= Len(found) => found[i] = Reconcile!Check(Reconcile!Comparisons[i])
  /\ Len(found) = 6 =>
       /\ found[6] = Reconcile!MetadataCheck
       /\ Reconcile!MetadataCheck # "skipped" =>
            \A n \in DOMAIN world.source.metadata \ world.target.supported :
              Reconcile!Diag(<<"metadata", n>>, "metadata-unsupported") \in diags
  /\ result # None =>
       /\ pc = "ended" /\ Len(found) = 6
       /\ result.status = Reconcile!Status(Reconcile!Range(found))

\* Items that occur as often in the one as in the other occur in both.
LEMMA SameItemsSameSet ==
  ASSUME NEW s, NEW t, Reconcile!SameItems(s, t)
  PROVE  Reconcile!Range(s) = Reconcile!Range(t)
BY DEF Reconcile!SameItems, Reconcile!Bijection, Reconcile!Injection, Reconcile!Surjection,
  Reconcile!Range

LEMMA ChecksAreChecks ==
  /\ \A c : Reconcile!Check(c) \in Checks
  /\ Reconcile!MetadataCheck \in Checks
BY DEF Reconcile!Check, Reconcile!MetadataCheck, Checks

LEMMA InitReconcile ==
  ASSUME Reconcile!Init
  PROVE  ReconcileIInv
<1>1. <<>> \in Seq(Checks) /\ Len(<<>>) = 0
  OBVIOUS
<1> QED
  BY <1>1 DEF Reconcile!Init, ReconcileIInv

\* What is compared stands still.
LEMMA ChecksStandStill ==
  ASSUME world' = world
  PROVE  /\ \A c : Reconcile!Check(c)' = Reconcile!Check(c)
         /\ Reconcile!MetadataCheck' = Reconcile!MetadataCheck
         /\ \A s : Reconcile!Bound(s)' = Reconcile!Bound(s)
BY DEF Reconcile!Check, Reconcile!MetadataCheck, Reconcile!Supported, Reconcile!Bound

LEMMA NextReconcile ==
  ASSUME ReconcileIInv, [Reconcile!Next]_(Reconcile!vars)
  PROVE  ReconcileIInv'
<1>1. world' = world
  BY DEF Reconcile!Next, Reconcile!Load, Reconcile!Refuse, Reconcile!Compare,
    Reconcile!CompareMetadata, Reconcile!Write, Reconcile!vars
<1>2. /\ \A c : Reconcile!Check(c)' = Reconcile!Check(c)
      /\ Reconcile!MetadataCheck' = Reconcile!MetadataCheck
      /\ Reconcile!Bound(world.source)' = Reconcile!Bound(world.source)
      /\ Reconcile!Bound(world.target)' = Reconcile!Bound(world.target)
  BY <1>1, ChecksStandStill DEF Reconcile!Bound
<1>3. CASE Reconcile!Load
  <2>1. /\ pc = "load" /\ UNCHANGED <<world, found, diags, result>>
        /\ pc' \in {"compare", "ended"}
        /\ pc' = "compare" => /\ world.run.outcome = "succeeded"
                              /\ Reconcile!Bound(world.source) /\ Reconcile!Bound(world.target)
    BY <1>3 DEF Reconcile!Load, Reconcile!Refuse
  <2>2. found = <<>> /\ found' = <<>> /\ Len(<<>>) = 0 /\ result = None /\ result' = None
    BY <2>1 DEF ReconcileIInv
  <2> QED
    BY <1>2, <2>1, <2>2 DEF ReconcileIInv
<1>4. CASE Reconcile!Compare
  <2> DEFINE n == Len(found) + 1
             c == Reconcile!Check(Reconcile!Comparisons[n])
  <2>1. /\ pc = "compare" /\ found \in Seq(Checks) /\ n \in 1 .. 5 /\ found' = Append(found, c)
        /\ UNCHANGED <<world, pc, diags, result>>
    <3>1. Len(Reconcile!Comparisons) = 5
      BY DEF Reconcile!Comparisons
    <3> QED
      BY <1>4, <3>1 DEF Reconcile!Compare, ReconcileIInv
  <2>2. c \in Checks
    BY ChecksAreChecks
  <2> HIDE DEF c
  <2>3. /\ found' \in Seq(Checks) /\ Len(found') = n
        /\ \A i \in 1 .. n : found'[i] = IF i = n THEN c ELSE found[i]
    BY <2>1, <2>2
  <2>4. \A i \in 1 .. 5 : i <= Len(found') =>
          found'[i] = Reconcile!Check(Reconcile!Comparisons[i])
    BY <2>1, <2>3 DEF ReconcileIInv, c
  <2>5. (\A i \in 1 .. 5 : i <= Len(found) =>
           found[i] = Reconcile!Check(Reconcile!Comparisons[i]))'
    BY <1>2, <2>4
  <2> QED
    BY <1>2, <2>1, <2>3, <2>5 DEF ReconcileIInv
<1>5. CASE Reconcile!CompareMetadata
  <2> DEFINE m == Len(found) + 1
             c == Reconcile!MetadataCheck
  <2>1. /\ pc = "compare" /\ pc' = "write" /\ found \in Seq(Checks) /\ m = 6
        /\ found' = Append(found, c)
        /\ UNCHANGED <<world, result>>
    BY <1>5 DEF Reconcile!CompareMetadata, ReconcileIInv, Reconcile!Comparisons
  <2>2. c \in Checks
    BY ChecksAreChecks
  <2>3. c # "skipped" =>
          \A n \in DOMAIN world.source.metadata \ world.target.supported :
            Reconcile!Diag(<<"metadata", n>>, "metadata-unsupported") \in diags'
    BY <1>5 DEF Reconcile!CompareMetadata
  <2> HIDE DEF c
  <2>4. /\ found' \in Seq(Checks) /\ Len(found') = m
        /\ \A i \in 1 .. m : found'[i] = IF i = m THEN c ELSE found[i]
    BY <2>1, <2>2
  <2>5. (\A i \in 1 .. 5 : i <= Len(found) =>
           found[i] = Reconcile!Check(Reconcile!Comparisons[i]))'
    BY <1>2, <2>1, <2>4 DEF ReconcileIInv
  <2> QED
    BY <1>1, <1>2, <2>1, <2>3, <2>4, <2>5 DEF ReconcileIInv, c
<1>6. CASE Reconcile!Write
  <2>1. /\ pc = "write" /\ pc' = "ended" /\ UNCHANGED <<world, found, diags>>
        /\ \/ result' = result
           \/ result'.status = Reconcile!Status(Reconcile!Range(found))
    BY <1>6 DEF Reconcile!Write, Reconcile!Refuse
  <2>2. Reconcile!Status(Reconcile!Range(found))' = Reconcile!Status(Reconcile!Range(found))
    BY <2>1 DEF Reconcile!Status, Reconcile!Range
  <2>3. (\A i \in 1 .. 5 : i <= Len(found) =>
           found[i] = Reconcile!Check(Reconcile!Comparisons[i]))'
    BY <1>2, <2>1 DEF ReconcileIInv
  <2> QED
    BY <1>2, <2>1, <2>2, <2>3 DEF ReconcileIInv
<1>7. CASE UNCHANGED Reconcile!vars
  <2>1. UNCHANGED <<world, pc, found, diags, result>>
    BY <1>7 DEF Reconcile!vars
  <2>2. Reconcile!Status(Reconcile!Range(found))' = Reconcile!Status(Reconcile!Range(found))
    BY <2>1 DEF Reconcile!Status, Reconcile!Range
  <2>3. (\A i \in 1 .. 5 : i <= Len(found) =>
           found[i] = Reconcile!Check(Reconcile!Comparisons[i]))'
    BY <1>2, <2>1 DEF ReconcileIInv
  <2> QED
    BY <1>2, <2>1, <2>2, <2>3 DEF ReconcileIInv
<1> QED
  BY <1>3, <1>4, <1>5, <1>6, <1>7 DEF Reconcile!Next

LEMMA ReconcileTypeOKFollows ==
  ASSUME ReconcileIInv
  PROVE  Reconcile!TypeOK
<1>1. Len(Reconcile!Comparisons) = 5
  BY DEF Reconcile!Comparisons
<1>2. found \in Seq(Checks) /\ Len(found) <= 6
  BY DEF ReconcileIInv
<1> QED
  BY <1>1, <1>2 DEF ReconcileIInv, Reconcile!TypeOK, Reconcile!Status, Checks

LEMMA MatchIsCompleteFollows ==
  ASSUME ReconcileIInv
  PROVE  Reconcile!MatchIsComplete
<1> SUFFICES ASSUME pc = "ended", Reconcile!Exit = "success"
             PROVE  Reconcile!MatchIsComplete
  BY DEF Reconcile!MatchIsComplete
<1>1. /\ found \in Seq(Checks) /\ Len(found) = 6
      /\ Reconcile!Status(Reconcile!Range(found)) = "matched"
  BY DEF Reconcile!Exit, ReconcileIInv
<1>2. \A i \in 1 .. 6 : found[i] = "matched"
  <2>1. found \in [1 .. 6 -> Checks]
    BY <1>1, LenProperties
  <2> QED
    BY <1>1, <2>1 DEF Reconcile!Status, Reconcile!Range, Checks
<1>3. \A i \in 1 .. 5 : Reconcile!Check(Reconcile!Comparisons[i]) = "matched"
  BY <1>1, <1>2 DEF ReconcileIInv
<1>4. Reconcile!MetadataCheck = "matched"
  BY <1>1, <1>2 DEF ReconcileIInv
<1>5. Reconcile!Range(Reconcile!Comparisons)
        = {"counts", "schemas", "extents", "samples", "relationships"}
  BY DEF Reconcile!Comparisons, Reconcile!Range
<1>6. \A c \in Reconcile!Range(Reconcile!Comparisons) : Reconcile!Check(c) = "matched"
  BY <1>3 DEF Reconcile!Comparisons, Reconcile!Range
<1>7. \A c \in Reconcile!Range(Reconcile!Comparisons) :
        /\ world.source.values[c] # None /\ world.target.values[c] # None
        /\ Reconcile!Same(c, world.source.values[c], world.target.values[c])
  BY <1>6 DEF Reconcile!Check
<1>8. \A c \in Reconcile!Unordered :
        Reconcile!Range(world.source.values[c]) = Reconcile!Range(world.target.values[c])
  BY <1>5, <1>7, SameItemsSameSet DEF Reconcile!Same, Reconcile!Unordered
<1>9. \A n \in DOMAIN world.source.metadata :
        \/ Reconcile!Diag(<<"metadata", n>>, "metadata-unsupported") \in diags
        \/ /\ n \in DOMAIN world.target.metadata
           /\ world.target.metadata[n] = world.source.metadata[n]
  <2>1. Reconcile!Supported(world.source.metadata) = Reconcile!Supported(world.target.metadata)
    BY <1>4 DEF Reconcile!MetadataCheck
  <2>2. ASSUME NEW n \in DOMAIN world.source.metadata, n \in world.target.supported
        PROVE  /\ n \in DOMAIN world.target.metadata
               /\ world.target.metadata[n] = world.source.metadata[n]
    BY <2>1, <2>2 DEF Reconcile!Supported
  <2>3. ASSUME NEW n \in DOMAIN world.source.metadata, n \notin world.target.supported
        PROVE  Reconcile!Diag(<<"metadata", n>>, "metadata-unsupported") \in diags
    BY <1>1, <1>4, <2>3 DEF ReconcileIInv
  <2> QED
    BY <2>2, <2>3
<1>10. /\ world.run.outcome = "succeeded"
       /\ Reconcile!Bound(world.source) /\ Reconcile!Bound(world.target)
  BY DEF ReconcileIInv, Reconcile!Exit
<1> QED
  BY <1>7, <1>8, <1>9, <1>10 DEF Reconcile!MatchIsComplete, Reconcile!Same, Reconcile!Bound

-----------------------------------------------------------------------------
(* Handoffs.                                                               *)

Relations == UNION {Range(o.related) : o \in {x \in Origins : x.related # None}}

Layers == {o.layer : o \in Origins} \union {r.layer : r \in Relations}

Tables ==
  {o.table : o \in Origins} \union {Handoff!DerivedTable(r.title, r.layer) : r \in Relations}

Imports == [layer : Layers, table : Tables]

Plans == [origin : Origins, requests : Seq(Imports), edited : BOOLEAN]

Receipts == [plan : Seq(Imports), jobs : Seq(Nat)]

Drafts == [origin : Origins, requests : Seq(Imports), at : Nat]

Mappings == [plan : Seq(Imports), layer : Layers, table : Tables, target : Nat,
             job : Nat \union {None}]

HandoffTypes ==
  /\ world \in [plans : Seq(Plans), jobs : Seq(Imports), receipts : SUBSET Receipts]
  /\ found \in [draft : Drafts \union {None}, mapping : SUBSET Mappings,
                mode : {None, "coexistence", "cutover"},
                recovery : {None} \union ({"none", "endpoint-switchback"} \X {None, "preserved"})]
  /\ pc \in {"plan", "expand", "handoff", "status", "outcome", "ended"}
  /\ Len(world.plans) <= MaxPlans /\ Len(world.jobs) <= MaxJobs

\* The requests cover the layer o asks for and those of its first relationships.
Covers(requests, o, relationships) ==
  /\ requests \in Seq(Imports) /\ requests # <<>>
  /\ requests[1].layer = o.layer
  /\ \A i, j \in DOMAIN requests :
       requests[i].layer = requests[j].layer \/ requests[i].table = requests[j].table => i = j
  /\ o.related # None => \A i \in DOMAIN requests : Handoff!Acceptable(requests[i].table)
  /\ {requests[i].layer : i \in DOMAIN requests}
       = {o.layer} \union ({Handoff!Related(o)[i].layer : i \in 1 .. relationships} \ {None})

PlansAreCovers ==
  /\ pc = "expand" =>
       /\ found.draft \in Drafts
       /\ Len(world.plans) < MaxPlans
       /\ found.draft.at \in 1 .. Len(Handoff!Related(found.draft.origin)) + 1
       /\ Covers(found.draft.requests, found.draft.origin, found.draft.at - 1)
  /\ \A p \in DOMAIN world.plans :
       Covers(world.plans[p].requests, world.plans[p].origin,
              Len(Handoff!Related(world.plans[p].origin)))

\* A receipt names the jobs of the first requests of its plan, in their order.
ReceiptsAreTrue ==
  \A r \in world.receipts : \A i \in DOMAIN r.jobs :
    /\ r.jobs[i] \in DOMAIN world.jobs /\ i \in DOMAIN r.plan
    /\ world.jobs[r.jobs[i]] = r.plan[i]

\* What is mapped is a whole plan that nobody has changed.
MappingIsTrue ==
  /\ pc \in {"plan", "expand"} => found.mapping = {}
  /\ \A m \in found.mapping :
       /\ m.job # None => /\ m.job \in DOMAIN world.jobs
                          /\ world.jobs[m.job] = Handoff!Request(m.layer, m.table)
       /\ \A i \in DOMAIN m.plan : \E n \in found.mapping :
            n.plan = m.plan /\ Handoff!Request(n.layer, n.table) = m.plan[i]
       /\ \E p \in DOMAIN world.plans :
            world.plans[p].requests = m.plan /\ ~world.plans[p].edited

ResultIsTrue ==
  result # None =>
    /\ pc = "ended"
    /\ result.mapping = found.mapping
    /\ result.plans = {m.plan : m \in found.mapping}
    /\ \E i, r, a \in Handoff!Reported : result.parts = {i, r, a}
    /\ result.outcome = Handoff!Outcome(result.parts)

HandoffIInv == HandoffTypes /\ PlansAreCovers /\ ReceiptsAreTrue /\ MappingIsTrue /\ ResultIsTrue

LEMMA RelatedIsSeq ==
  ASSUME NEW o \in Origins
  PROVE  /\ Handoff!Related(o) \in Seq(Relations)
         /\ o.related # None => Handoff!Related(o) = o.related
         /\ o.related = None => Handoff!Related(o) = <<>>
<1>1. CASE o.related = None
  BY <1>1 DEF Handoff!Related
<1>2. CASE o.related # None
  <2>1. o.related \in Seq(Range(o.related))
    BY <1>2, OriginsAssumption
  <2>2. Range(o.related) \subseteq Relations
    BY <1>2 DEF Relations
  <2>3. o.related \in Seq(Relations)
    BY <2>1, <2>2
  <2> QED
    BY <1>2, <2>3 DEF Handoff!Related
<1> QED
  BY <1>1, <1>2

\* Where Expand puts a related layer, the server will take it.
LEMMA DerivedIsAcceptable ==
  ASSUME NEW r \in Relations
  PROVE  Handoff!Acceptable(Handoff!DerivedTable(r.title, r.layer))
<1>1. PICK o \in Origins : o.related # None /\ r \in Range(o.related)
  BY DEF Relations
<1>2. ~Handoff!Acceptable(<<r.title.stem>>) => r.title.digit
  BY <1>1, OriginsAssumption
<1> QED
  BY <1>2 DEF Handoff!Acceptable, Handoff!DerivedTable

LEMMA BeginCovers ==
  ASSUME NEW o \in Origins, o.related = None \/ Handoff!Acceptable(o.table)
  PROVE  /\ <<Handoff!Request(o.layer, o.table)>> \in Seq(Imports)
         /\ Covers(<<Handoff!Request(o.layer, o.table)>>, o, 0)
<1> DEFINE r == Handoff!Request(o.layer, o.table)
<1>1. r \in Imports /\ r.layer = o.layer /\ r.table = o.table
  BY DEF Handoff!Request, Imports, Layers, Tables
<1> HIDE DEF r
<1>2. /\ <<r>> \in Seq(Imports) /\ <<r>> # <<>> /\ <<r>>[1] = r /\ DOMAIN <<r>> = {1}
  BY <1>1
<1>3. {<<r>>[i].layer : i \in DOMAIN <<r>>} = {o.layer}
  BY <1>1, <1>2
<1>4. {Handoff!Related(o)[i].layer : i \in 1 .. 0} = {}
  OBVIOUS
<1>5. Covers(<<r>>, o, 0)
  BY <1>1, <1>2, <1>3, <1>4 DEF Covers
<1> QED
  BY <1>2, <1>5 DEF r

LEMMA SkipCovers ==
  ASSUME NEW o \in Origins, NEW requests, NEW n \in Nat, n < Len(Handoff!Related(o)),
         Covers(requests, o, n),
         LET l == Handoff!Related(o)[n + 1].layer
         IN l = None \/ l \in {requests[i].layer : i \in DOMAIN requests}
  PROVE  Covers(requests, o, n + 1)
<1> DEFINE layer(i) == Handoff!Related(o)[i].layer
<1>1. {layer(i) : i \in 1 .. n + 1} = {layer(i) : i \in 1 .. n} \union {layer(n + 1)}
  OBVIOUS
<1> QED
  BY <1>1 DEF Covers

LEMMA AppendCovers ==
  ASSUME NEW o \in Origins, NEW requests, NEW n \in Nat, n < Len(Handoff!Related(o)),
         Covers(requests, o, n),
         NEW l, NEW table,
         l = Handoff!Related(o)[n + 1].layer, l # None,
         table = Handoff!DerivedTable(Handoff!Related(o)[n + 1].title, l),
         l \notin {requests[i].layer : i \in DOMAIN requests},
         table \notin {requests[i].table : i \in DOMAIN requests}
  PROVE  Covers(Append(requests, Handoff!Request(l, table)), o, n + 1)
<1> DEFINE r == Handoff!Request(l, table)
           new == Append(requests, r)
           layer(i) == Handoff!Related(o)[i].layer
<1>1. o.related # None /\ Handoff!Related(o)[n + 1] \in Relations
  BY RelatedIsSeq
<1>2. r \in Imports /\ r.layer = l /\ r.table = table
  BY <1>1 DEF Handoff!Request, Imports, Layers, Tables
<1>3. Handoff!Acceptable(table)
  BY <1>1, DerivedIsAcceptable
<1> HIDE DEF r
<1>4. /\ requests \in Seq(Imports) /\ Len(requests) \in Nat
      /\ new \in Seq(Imports) /\ new # <<>>
      /\ DOMAIN requests = 1 .. Len(requests)
      /\ DOMAIN new = 1 .. Len(requests) + 1
      /\ \A i \in DOMAIN new : new[i] = IF i = Len(requests) + 1 THEN r ELSE requests[i]
  BY <1>2 DEF Covers
<1> HIDE DEF new
<1>5. Len(requests) >= 1
  BY <1>4 DEF Covers
<1>6. new[1].layer = o.layer
  BY <1>4, <1>5 DEF Covers
<1>7. \A i, j \in DOMAIN new :
        new[i].layer = new[j].layer \/ new[i].table = new[j].table => i = j
  BY <1>2, <1>4 DEF Covers
<1>8. \A i \in DOMAIN new : Handoff!Acceptable(new[i].table)
  BY <1>1, <1>2, <1>3, <1>4 DEF Covers
<1>9. {new[i].layer : i \in DOMAIN new} = {requests[i].layer : i \in DOMAIN requests} \union {l}
  BY <1>2, <1>4
<1>10. {layer(i) : i \in 1 .. n + 1} = {layer(i) : i \in 1 .. n} \union {l}
  OBVIOUS
<1>11. {new[i].layer : i \in DOMAIN new} = {o.layer} \union ({layer(i) : i \in 1 .. n + 1} \ {None})
  BY <1>9, <1>10 DEF Covers
<1> QED
  BY <1>4, <1>6, <1>7, <1>8, <1>11 DEF Covers, new, r

LEMMA InitHandoff ==
  ASSUME Handoff!Init
  PROVE  HandoffIInv
<1> USE OriginsAssumption
<1>1. <<>> \in Seq(Plans) /\ <<>> \in Seq(Imports) /\ Len(<<>>) = 0 /\ DOMAIN <<>> = {}
  OBVIOUS
<1>2. HandoffTypes
  BY <1>1 DEF Handoff!Init, HandoffTypes
<1> QED
  BY <1>1, <1>2 DEF Handoff!Init, HandoffIInv, PlansAreCovers, ReceiptsAreTrue, MappingIsTrue,
    ResultIsTrue

\* Actions of plan before its handoff leave nothing mapped.
LEMMA BeginPlanKeeps ==
  ASSUME HandoffIInv, NEW o \in Origins, Handoff!BeginPlan(o)
  PROVE  HandoffIInv'
<1>1. CASE pc' = "ended"
  <2>1. UNCHANGED <<world, found, diags, result>> /\ pc = "plan" /\ pc' = "ended"
    BY <1>1 DEF Handoff!BeginPlan, Handoff!Refuse
  <2> QED
    BY <2>1 DEF HandoffIInv, HandoffTypes, PlansAreCovers, ReceiptsAreTrue, MappingIsTrue,
      ResultIsTrue
<1>2. CASE pc' # "ended"
  <2> DEFINE draft == [origin |-> o, requests |-> <<Handoff!Request(o.layer, o.table)>>, at |-> 1]
  <2>1. /\ pc = "plan" /\ pc' = "expand" /\ Len(world.plans) < MaxPlans
        /\ o.related = None \/ Handoff!Acceptable(o.table)
        /\ found' = [found EXCEPT !.draft = draft]
        /\ UNCHANGED <<world, diags, result>>
    BY <1>2 DEF Handoff!BeginPlan, Handoff!Draft, Handoff!Refuse
  <2>2. draft \in Drafts /\ Covers(draft.requests, draft.origin, draft.at - 1)
    BY <2>1, BeginCovers DEF Drafts
  <2>3. draft.at \in 1 .. Len(Handoff!Related(draft.origin)) + 1
    <3>1. Len(Handoff!Related(o)) \in Nat
      BY RelatedIsSeq
    <3> QED
      BY <3>1
  <2> HIDE DEF draft
  <2>4. found'.draft = draft /\ found'.mapping = found.mapping /\ HandoffTypes'
    BY <2>1, <2>2 DEF HandoffIInv, HandoffTypes
  <2> QED
    BY <2>1, <2>2, <2>3, <2>4 DEF HandoffIInv, PlansAreCovers, ReceiptsAreTrue, MappingIsTrue,
      ResultIsTrue
<1> QED
  BY <1>1, <1>2

LEMMA ExpandKeeps ==
  ASSUME HandoffIInv, Handoff!Expand
  PROVE  HandoffIInv'
<1> DEFINE d == found.draft
           o == d.origin
           n == d.at - 1
           r == Handoff!Related(o)[d.at]
           table == Handoff!DerivedTable(r.title, r.layer)
           skipped == [d EXCEPT !.at = @ + 1]
           added == [skipped EXCEPT !.requests = Append(@, Handoff!Request(r.layer, table))]
<1>1. /\ pc = "expand" /\ d \in Drafts /\ o \in Origins /\ Len(world.plans) < MaxPlans
      /\ n \in Nat /\ n < Len(Handoff!Related(o)) /\ d.at = n + 1
      /\ Len(Handoff!Related(o)) \in Nat
      /\ Covers(d.requests, o, n)
      /\ UNCHANGED <<world, diags, result>>
  <2>1. pc = "expand" /\ d \in Drafts /\ o \in Origins
    BY DEF Handoff!Expand, HandoffIInv, PlansAreCovers, Drafts
  <2>2. Len(Handoff!Related(o)) \in Nat
    BY <2>1, RelatedIsSeq
  <2>3. /\ d.at \in 1 .. Len(Handoff!Related(o)) + 1 /\ Len(world.plans) < MaxPlans
        /\ Covers(d.requests, o, n)
    BY <2>1 DEF HandoffIInv, PlansAreCovers
  <2>4. d.at <= Len(Handoff!Related(o)) /\ UNCHANGED <<world, diags, result>>
    BY DEF Handoff!Expand, Handoff!Draft, Handoff!Refuse
  <2> QED
    BY <2>1, <2>2, <2>3, <2>4
<1>2. CASE UNCHANGED found /\ pc' = "ended"
  BY <1>1, <1>2 DEF HandoffIInv, HandoffTypes, PlansAreCovers, ReceiptsAreTrue, MappingIsTrue,
    ResultIsTrue
<1>3. ASSUME NEW e \in Drafts, e.origin = o, e.at = d.at + 1, Covers(e.requests, o, n + 1),
             found' = [found EXCEPT !.draft = e], UNCHANGED pc
      PROVE  HandoffIInv'
  <2>1. found'.draft = e /\ found'.mapping = found.mapping /\ HandoffTypes'
    BY <1>1, <1>3 DEF HandoffIInv, HandoffTypes
  <2> QED
    BY <1>1, <1>3, <2>1 DEF HandoffIInv, PlansAreCovers, ReceiptsAreTrue, MappingIsTrue,
      ResultIsTrue
<1>4. CASE /\ r.layer = None \/ Handoff!Seen(d.requests, r)
           /\ found' = [found EXCEPT !.draft = skipped] /\ UNCHANGED pc
  <2>1. Covers(d.requests, o, n + 1)
    BY <1>1, <1>4, SkipCovers DEF Handoff!Seen
  <2>2. skipped \in Drafts /\ skipped.origin = o /\ skipped.at = d.at + 1
        /\ skipped.requests = d.requests
    BY <1>1 DEF Drafts
  <2> QED
    BY <1>3, <1>4, <2>1, <2>2
<1>5. CASE /\ r.layer # None /\ ~Handoff!Seen(d.requests, r)
           /\ ~Handoff!Clashes(d.requests, table)
           /\ found' = [found EXCEPT !.draft = added] /\ UNCHANGED pc
  <2>1. Covers(Append(d.requests, Handoff!Request(r.layer, table)), o, n + 1)
    BY <1>1, <1>5, AppendCovers DEF Handoff!Seen, Handoff!Clashes
  <2>2. Append(d.requests, Handoff!Request(r.layer, table)) \in Seq(Imports)
    BY <2>1 DEF Covers
  <2>3. skipped \in Drafts /\ skipped.origin = o /\ skipped.at = d.at + 1
        /\ skipped.requests = d.requests
    BY <1>1 DEF Drafts
  <2>4. added = [skipped EXCEPT !.requests = Append(d.requests, Handoff!Request(r.layer, table))]
    BY <2>3
  <2>5. added \in Drafts /\ added.origin = o /\ added.at = d.at + 1
        /\ added.requests = Append(d.requests, Handoff!Request(r.layer, table))
    <3> HIDE DEF skipped, added, d, r, table
    <3> QED
      BY <2>2, <2>3, <2>4 DEF Drafts
  <2> QED
    BY <1>3, <1>5, <2>1, <2>5
<1> QED
  BY <1>2, <1>4, <1>5 DEF Handoff!Expand, Handoff!Draft, Handoff!Refuse

LEMMA EndPlanKeeps ==
  ASSUME HandoffIInv, Handoff!EndPlan
  PROVE  HandoffIInv'
<1> DEFINE d == found.draft
           plan == [origin |-> d.origin, requests |-> d.requests, edited |-> FALSE]
<1>1. /\ pc = "expand" /\ pc' = "plan" /\ UNCHANGED <<diags, result>>
      /\ d \in Drafts /\ Len(world.plans) < MaxPlans
      /\ d.at \in 1 .. Len(Handoff!Related(d.origin)) + 1
      /\ d.at > Len(Handoff!Related(d.origin))
      /\ Covers(d.requests, d.origin, d.at - 1)
      /\ world' = [world EXCEPT !.plans = Append(@, plan)]
      /\ found' = [found EXCEPT !.draft = None]
  BY DEF Handoff!EndPlan, HandoffIInv, PlansAreCovers
<1>2. Len(Handoff!Related(d.origin)) \in Nat
  BY <1>1, RelatedIsSeq DEF Drafts
<1>3. d.at - 1 = Len(Handoff!Related(d.origin))
  BY <1>1, <1>2
<1>4. plan \in Plans /\ Covers(plan.requests, plan.origin, Len(Handoff!Related(plan.origin)))
  BY <1>1, <1>3 DEF Drafts, Plans
<1> HIDE DEF plan
<1>5. /\ world.plans \in Seq(Plans) /\ Len(world.plans) \in Nat
      /\ world'.plans \in Seq(Plans) /\ Len(world'.plans) = Len(world.plans) + 1
      /\ DOMAIN world.plans = 1 .. Len(world.plans)
      /\ DOMAIN world'.plans = 1 .. Len(world.plans) + 1
      /\ \A p \in DOMAIN world'.plans :
           world'.plans[p] = IF p = Len(world.plans) + 1 THEN plan ELSE world.plans[p]
      /\ world'.jobs = world.jobs /\ world'.receipts = world.receipts
  BY <1>1, <1>4 DEF HandoffIInv, HandoffTypes
<1>6. found'.draft = None /\ found'.mapping = found.mapping /\ found.mapping = {}
  BY <1>1 DEF HandoffIInv, HandoffTypes, MappingIsTrue
<1>7. HandoffTypes'
  <2>1. found' \in [draft : Drafts \union {None}, mapping : SUBSET Mappings,
                    mode : {None, "coexistence", "cutover"},
                    recovery : {None} \union ({"none", "endpoint-switchback"}
                                                \X {None, "preserved"})]
    BY <1>1 DEF HandoffIInv, HandoffTypes
  <2>2. world' \in [plans : Seq(Plans), jobs : Seq(Imports), receipts : SUBSET Receipts]
    BY <1>1, <1>5 DEF HandoffIInv, HandoffTypes
  <2>3. Len(world'.plans) <= MaxPlans
    BY <1>1, <1>5, OriginsAssumption
  <2>4. Len(world'.jobs) <= MaxJobs
    BY <1>5 DEF HandoffIInv, HandoffTypes
  <2> QED
    BY <1>1, <2>1, <2>2, <2>3, <2>4 DEF HandoffTypes
<1>8. PlansAreCovers'
  BY <1>1, <1>4, <1>5 DEF HandoffIInv, PlansAreCovers
<1>9. ReceiptsAreTrue' /\ MappingIsTrue' /\ ResultIsTrue'
  BY <1>1, <1>5, <1>6 DEF HandoffIInv, ReceiptsAreTrue, MappingIsTrue, ResultIsTrue
<1> QED
  BY <1>7, <1>8, <1>9 DEF HandoffIInv

LEMMA EditKeeps ==
  ASSUME HandoffIInv, NEW q \in DOMAIN world.plans, Handoff!Edit(q)
  PROVE  HandoffIInv'
<1>1. /\ pc = "plan" /\ UNCHANGED <<pc, found, diags, result>>
      /\ world' = [world EXCEPT !.plans[q].edited = TRUE]
  BY DEF Handoff!Edit
<1>2. /\ world'.plans = [world.plans EXCEPT ![q] = [@ EXCEPT !.edited = TRUE]]
      /\ world'.jobs = world.jobs /\ world'.receipts = world.receipts
      /\ world.plans \in Seq(Plans)
      /\ DOMAIN world' = DOMAIN world
  BY <1>1 DEF HandoffIInv, HandoffTypes
<1>3. [world.plans[q] EXCEPT !.edited = TRUE] \in Plans
  <2>1. world.plans[q] \in Plans
    BY <1>2, ElementOfSeq
  <2> QED
    BY <2>1 DEF Plans
<1>4. /\ world'.plans \in Seq(Plans) /\ Len(world'.plans) = Len(world.plans)
      /\ DOMAIN world'.plans = DOMAIN world.plans
      /\ \A p \in DOMAIN world.plans : /\ world'.plans[p].origin = world.plans[p].origin
                                       /\ world'.plans[p].requests = world.plans[p].requests
  BY <1>2, <1>3 DEF Plans
<1>5. world' \in [plans : Seq(Plans), jobs : Seq(Imports), receipts : SUBSET Receipts]
  BY <1>1, <1>2, <1>4 DEF HandoffIInv, HandoffTypes
<1>6. HandoffTypes'
  BY <1>1, <1>2, <1>4, <1>5 DEF HandoffIInv, HandoffTypes
<1>7. PlansAreCovers'
  BY <1>1, <1>4 DEF HandoffIInv, PlansAreCovers
<1>8. ReceiptsAreTrue' /\ MappingIsTrue' /\ ResultIsTrue'
  BY <1>1, <1>2 DEF HandoffIInv, ReceiptsAreTrue, MappingIsTrue, ResultIsTrue
<1> QED
  BY <1>6, <1>7, <1>8 DEF HandoffIInv

LEMMA ImportKeeps ==
  ASSUME HandoffIInv, NEW q \in DOMAIN world.plans, NEW n \in DOMAIN world.plans[q].requests,
         Handoff!Import(q, n)
  PROVE  HandoffIInv'
<1> DEFINE requests == world.plans[q].requests
           more == SubSeq(requests, 1, n)
           jobs == [i \in 1 .. n |-> Len(world.jobs) + i]
           receipt == [plan |-> requests, jobs |-> jobs]
<1>1. /\ pc = "plan" /\ UNCHANGED <<pc, found, diags, result>>
      /\ Len(world.jobs) + n <= MaxJobs
      /\ world' = [world EXCEPT !.jobs = @ \o more, !.receipts = @ \union {receipt}]
  BY DEF Handoff!Import
<1>2. /\ world.plans \in Seq(Plans) /\ world.jobs \in Seq(Imports)
      /\ world.receipts \in SUBSET Receipts
  BY DEF HandoffIInv, HandoffTypes
<1>3. requests \in Seq(Imports)
  <2>1. world.plans[q] \in Plans
    BY <1>2, ElementOfSeq
  <2> QED
    BY <2>1 DEF Plans
<1> HIDE DEF requests
<1>4. n \in 1 .. Len(requests) /\ Len(requests) \in Nat
  BY <1>3 DEF requests
<1>5. more \in Seq(Imports) /\ Len(more) = n /\ \A i \in 1 .. n : more[i] = requests[i]
  BY <1>3, <1>4
<1> HIDE DEF more
<1>6. jobs \in Seq(Nat) /\ DOMAIN jobs = 1 .. n /\ \A i \in 1 .. n : jobs[i] = Len(world.jobs) + i
  BY <1>2, <1>4
<1> HIDE DEF jobs
<1>7. receipt \in Receipts /\ receipt.plan = requests /\ receipt.jobs = jobs
  BY <1>3, <1>6 DEF Receipts
<1> HIDE DEF receipt
<1>8. /\ world.jobs \o more \in Seq(Imports)
      /\ Len(world.jobs \o more) = Len(world.jobs) + n
      /\ \A i \in 1 .. Len(world.jobs) : (world.jobs \o more)[i] = world.jobs[i]
      /\ \A i \in 1 .. n : (world.jobs \o more)[Len(world.jobs) + i] = requests[i]
      /\ Len(world.jobs) \in Nat
  <2>1. world.jobs \in Seq(Imports) /\ Len(world.jobs) \in Nat /\ n \in Nat
    BY <1>2, <1>4
  <2>2. \A i \in 1 .. n : i \in 1 .. Len(more) /\ more[i] = requests[i]
    BY <1>5
  <2>3. /\ world.jobs \o more \in Seq(Imports)
        /\ Len(world.jobs \o more) = Len(world.jobs) + n
        /\ \A i \in 1 .. Len(world.jobs) + n : (world.jobs \o more)[i] =
              IF i <= Len(world.jobs) THEN world.jobs[i] ELSE more[i - Len(world.jobs)]
    BY <1>5, <2>1, ConcatProperties
  <2>4. ASSUME NEW i \in 1 .. n
        PROVE  (world.jobs \o more)[Len(world.jobs) + i] = requests[i]
    <3>1. /\ Len(world.jobs) + i \in 1 .. Len(world.jobs) + n
          /\ ~(Len(world.jobs) + i <= Len(world.jobs))
          /\ (Len(world.jobs) + i) - Len(world.jobs) = i
      BY <2>1
    <3> QED
      BY <2>2, <2>3, <3>1
  <2>5. ASSUME NEW i \in 1 .. Len(world.jobs)
        PROVE  (world.jobs \o more)[i] = world.jobs[i]
    BY <2>1, <2>3
  <2> QED
    BY <2>1, <2>3, <2>4, <2>5
<1>9. /\ world'.plans = world.plans /\ world'.jobs = world.jobs \o more
      /\ world'.receipts = world.receipts \union {receipt}
      /\ world' \in [plans : Seq(Plans), jobs : Seq(Imports), receipts : SUBSET Receipts]
  BY <1>1, <1>7, <1>8 DEF HandoffIInv, HandoffTypes
<1>10. /\ DOMAIN world.jobs = 1 .. Len(world.jobs)
       /\ DOMAIN world'.jobs = 1 .. Len(world.jobs) + n
  BY <1>2, <1>4, <1>8, <1>9
<1>11. HandoffTypes'
  BY <1>1, <1>8, <1>9, OriginsAssumption DEF HandoffIInv, HandoffTypes
<1>12. PlansAreCovers'
  BY <1>1, <1>9 DEF HandoffIInv, PlansAreCovers
<1>13. ReceiptsAreTrue'
  <2>1. ASSUME NEW r \in world.receipts, NEW i \in DOMAIN r.jobs
        PROVE  /\ r.jobs[i] \in DOMAIN world'.jobs /\ i \in DOMAIN r.plan
               /\ world'.jobs[r.jobs[i]] = r.plan[i]
    BY <1>4, <1>8, <1>9, <1>10 DEF HandoffIInv, ReceiptsAreTrue
  <2>2. ASSUME NEW i \in DOMAIN receipt.jobs
        PROVE  /\ receipt.jobs[i] \in DOMAIN world'.jobs /\ i \in DOMAIN receipt.plan
               /\ world'.jobs[receipt.jobs[i]] = receipt.plan[i]
    <3>1. i \in 1 .. n /\ receipt.jobs[i] = Len(world.jobs) + i
      BY <1>6, <1>7
    <3>2. world'.jobs[Len(world.jobs) + i] = requests[i]
      BY <1>8, <1>9, <3>1
    <3>3. Len(world.jobs) + i \in DOMAIN world'.jobs /\ i \in DOMAIN requests
      BY <1>3, <1>4, <1>8, <1>10, <3>1
    <3> QED
      BY <1>7, <3>1, <3>2, <3>3
  <2> QED
    BY <1>9, <2>1, <2>2 DEF ReceiptsAreTrue
<1>14. MappingIsTrue' /\ ResultIsTrue'
  BY <1>1 DEF HandoffIInv, MappingIsTrue, ResultIsTrue
<1> QED
  BY <1>11, <1>12, <1>13, <1>14 DEF HandoffIInv

\* What an entry adds to the mapping: a whole plan, and jobs that imported it.
LEMMA MappedIsTrue ==
  ASSUME HandoffIInv, NEW entry \in Handoff!Entries, Handoff!Lists(entry)
  PROVE  LET mapped == Handoff!Mapped(entry)
         IN /\ mapped \subseteq Mappings
            /\ \A m \in mapped :
                 /\ m.job # None => /\ m.job \in DOMAIN world.jobs
                                    /\ world.jobs[m.job] = Handoff!Request(m.layer, m.table)
                 /\ \A i \in DOMAIN m.plan : \E n \in mapped :
                      n.plan = m.plan /\ Handoff!Request(n.layer, n.table) = m.plan[i]
                 /\ \E p \in DOMAIN world.plans :
                      world.plans[p].requests = m.plan /\ ~world.plans[p].edited
<1> DEFINE p == entry.plan
           plan == world.plans[p]
           requests == plan.requests
           job(i) == IF entry.receipt = None THEN None
                     ELSE Handoff!JobIds(plan, entry.receipt)[i]
           entryOf(i) == [plan |-> requests, layer |-> requests[i].layer,
                          table |-> requests[i].table, target |-> i, job |-> job(i)]
<1>1. /\ p \in DOMAIN world.plans /\ entry.receipt \in world.receipts \union {None}
      /\ world.plans \in Seq(Plans) /\ world.receipts \in SUBSET Receipts
  BY DEF Handoff!Entries, HandoffIInv, HandoffTypes
<1>2. plan \in Plans /\ requests \in Seq(Imports) /\ Len(requests) \in Nat
  <2>1. plan \in Plans
    BY <1>1, ElementOfSeq
  <2> QED
    BY <2>1 DEF Plans
<1>3. ~plan.edited /\ requests # <<>>
  BY <1>1 DEF Handoff!Lists, Handoff!Readable, HandoffIInv, PlansAreCovers, Covers
<1>4. Handoff!Mapped(entry) = {entryOf(i) : i \in DOMAIN requests}
  BY DEF Handoff!Mapped
<1>5. entry.receipt # None => Len(Handoff!JobIds(plan, entry.receipt)) = Len(requests)
  BY DEF Handoff!Lists
<1> HIDE DEF p, plan, requests
<1>6. Len(requests) > 0
  BY <1>2, <1>3
<1>7. entry.receipt # None =>
        /\ entry.receipt \in Receipts /\ entry.receipt.plan = requests
        /\ Len(entry.receipt.jobs) = Len(requests)
        /\ \A i \in DOMAIN requests : job(i) = entry.receipt.jobs[i]
  BY <1>1, <1>5, <1>6 DEF Handoff!JobIds, requests
<1>8. ASSUME NEW i \in DOMAIN requests
      PROVE  /\ requests[i] \in Imports
             /\ requests[i] = Handoff!Request(requests[i].layer, requests[i].table)
  <2>1. requests[i] \in Imports
    BY <1>2
  <2> QED
    BY <2>1 DEF Imports, Handoff!Request
<1>9. ASSUME NEW i \in DOMAIN requests
      PROVE  /\ job(i) \in Nat \union {None}
             /\ job(i) # None => /\ job(i) \in DOMAIN world.jobs
                                 /\ world.jobs[job(i)] = requests[i]
  <2>1. CASE entry.receipt = None
    BY <2>1
  <2>2. CASE entry.receipt # None
    <3>1. entry.receipt.jobs \in Seq(Nat) /\ i \in DOMAIN entry.receipt.jobs
      BY <1>2, <1>7, <2>2 DEF Receipts
    <3>2. entry.receipt.jobs[i] \in Nat
      BY <3>1
    <3>3. /\ entry.receipt.jobs[i] \in DOMAIN world.jobs
          /\ world.jobs[entry.receipt.jobs[i]] = requests[i]
      BY <1>1, <1>7, <2>2, <3>1 DEF HandoffIInv, ReceiptsAreTrue
    <3> QED
      BY <1>7, <2>2, <3>2, <3>3
  <2> QED
    BY <2>1, <2>2
<1> HIDE DEF job
<1>10. ASSUME NEW i \in DOMAIN requests
       PROVE  entryOf(i) \in Mappings
  <2>1. requests[i].layer \in Layers /\ requests[i].table \in Tables
    BY <1>8 DEF Imports
  <2>2. i \in Nat
    BY <1>2
  <2> QED
    BY <1>2, <1>9, <2>1, <2>2 DEF Mappings
<1>11. ASSUME NEW i \in DOMAIN requests
       PROVE  /\ entryOf(i).plan = requests
              /\ Handoff!Request(entryOf(i).layer, entryOf(i).table) = requests[i]
              /\ entryOf(i).job = job(i)
  BY <1>8 DEF Handoff!Request
<1> HIDE DEF entryOf
<1>12. ASSUME NEW m \in Handoff!Mapped(entry)
       PROVE  /\ m \in Mappings
              /\ m.job # None => /\ m.job \in DOMAIN world.jobs
                                 /\ world.jobs[m.job] = Handoff!Request(m.layer, m.table)
              /\ m.plan = requests
  <2>1. PICK i \in DOMAIN requests : m = entryOf(i)
    BY <1>4
  <2> QED
    BY <1>9, <1>10, <1>11, <2>1
<1>13. \A i \in DOMAIN requests : \E n \in Handoff!Mapped(entry) :
         n.plan = requests /\ Handoff!Request(n.layer, n.table) = requests[i]
  BY <1>4, <1>11
<1>14. world.plans[p].requests = requests /\ ~world.plans[p].edited
  BY <1>3 DEF requests, plan
<1> QED
  BY <1>1, <1>12, <1>13, <1>14

LEMMA ReadEntryKeeps ==
  ASSUME HandoffIInv, NEW entry \in Handoff!Entries, Handoff!ReadEntry(entry)
  PROVE  HandoffIInv'
<1>1. CASE pc' = "ended"
  <2>1. pc = "handoff" /\ pc' = "ended" /\ UNCHANGED <<world, found, diags, result>>
    BY <1>1 DEF Handoff!ReadEntry, Handoff!Refuse
  <2> QED
    BY <2>1 DEF HandoffIInv, HandoffTypes, PlansAreCovers, ReceiptsAreTrue, MappingIsTrue,
      ResultIsTrue
<1>2. CASE pc' # "ended"
  <2> DEFINE mapped == Handoff!Mapped(entry)
  <2>1. /\ Handoff!Lists(entry) /\ pc = "handoff" /\ UNCHANGED <<world, pc, diags, result>>
        /\ found' = [found EXCEPT !.mapping = @ \union mapped]
    BY <1>2 DEF Handoff!ReadEntry, Handoff!Refuse
  <2>2. /\ mapped \subseteq Mappings
        /\ \A m \in mapped :
             /\ m.job # None => /\ m.job \in DOMAIN world.jobs
                                /\ world.jobs[m.job] = Handoff!Request(m.layer, m.table)
             /\ \A i \in DOMAIN m.plan : \E n \in mapped :
                  n.plan = m.plan /\ Handoff!Request(n.layer, n.table) = m.plan[i]
             /\ \E p \in DOMAIN world.plans :
                  world.plans[p].requests = m.plan /\ ~world.plans[p].edited
    BY <2>1, MappedIsTrue
  <2> HIDE DEF mapped
  <2>3. found'.mapping = found.mapping \union mapped /\ HandoffTypes'
    BY <2>1, <2>2 DEF HandoffIInv, HandoffTypes
  <2>4. MappingIsTrue'
    BY <2>1, <2>2, <2>3 DEF HandoffIInv, MappingIsTrue
  <2> QED
    BY <2>1, <2>3, <2>4 DEF HandoffIInv, PlansAreCovers, ReceiptsAreTrue, ResultIsTrue
<1> QED
  BY <1>1, <1>2

\* From the mapping on, an artifact is made of what is there.
LEMMA ChoicesKeep ==
  ASSUME HandoffIInv,
         \/ Handoff!BeginHandoff
         \/ \E mode \in {"coexistence", "cutover"},
              baseline \in Handoff!Given \union {"serving"}, cutover \in Handoff!Given :
              Handoff!ChooseMode(mode, baseline, cutover)
         \/ \E recovery \in {"none", "endpoint-switchback"}, handling \in {None, "preserved"} :
              Handoff!ChooseStatus(recovery, handling)
  PROVE  HandoffIInv'
<1>1. /\ pc \in {"plan", "handoff", "status"} /\ pc' \in {"handoff", "status", "outcome", "ended"}
      /\ UNCHANGED <<world, diags, result>>
      /\ \/ UNCHANGED found
         \/ \E mode \in {"coexistence", "cutover"} : found' = [found EXCEPT !.mode = mode]
         \/ \E recovery \in {"none", "endpoint-switchback"}, handling \in {None, "preserved"} :
              found' = [found EXCEPT !.recovery = <<recovery, handling>>]
  BY DEF Handoff!BeginHandoff, Handoff!ChooseMode, Handoff!ChooseStatus, Handoff!Refuse
<1>2. HandoffTypes' /\ found'.mapping = found.mapping
  BY <1>1 DEF HandoffIInv, HandoffTypes
<1> QED
  BY <1>1, <1>2 DEF HandoffIInv, PlansAreCovers, ReceiptsAreTrue, MappingIsTrue, ResultIsTrue

LEMMA EmitKeeps ==
  ASSUME HandoffIInv, NEW i \in Handoff!Reported, NEW r \in Handoff!Reported,
         NEW a \in Handoff!Reported, NEW changes, Handoff!Emit({i, r, a}, changes)
  PROVE  HandoffIInv'
<1> DEFINE parts == {i, r, a}
<1>1. /\ pc = "outcome" /\ pc' = "ended" /\ UNCHANGED <<world, found, diags>>
      /\ \/ UNCHANGED result
         \/ result' = [mapping |-> found.mapping, changes |-> changes, parts |-> parts,
                       plans |-> {m.plan : m \in found.mapping},
                       outcome |-> Handoff!Outcome(parts)]
  BY DEF Handoff!Emit, Handoff!Refuse
<1>2. \E j, k, l \in Handoff!Reported : parts = {j, k, l}
  <2> WITNESS i \in Handoff!Reported, r \in Handoff!Reported, a \in Handoff!Reported
  <2> QED
    OBVIOUS
<1> HIDE DEF parts
<1>3. ResultIsTrue'
  <2>1. CASE UNCHANGED result
    BY <1>1, <2>1 DEF HandoffIInv, ResultIsTrue
  <2>2. CASE ~UNCHANGED result
    <3> DEFINE plans == {m.plan : m \in found.mapping}
    <3>1. /\ result'.mapping = found.mapping /\ result'.plans = plans
          /\ result'.parts = parts /\ result'.outcome = Handoff!Outcome(parts)
      BY <1>1, <2>2
    <3>2. plans = {m.plan : m \in found'.mapping} /\ found' = found
      BY <1>1
    <3> HIDE DEF plans
    <3> QED
      BY <1>1, <1>2, <3>1, <3>2 DEF ResultIsTrue, Handoff!Outcome
  <2> QED
    BY <2>1, <2>2
<1> QED
  BY <1>1, <1>3 DEF HandoffIInv, HandoffTypes, PlansAreCovers, ReceiptsAreTrue, MappingIsTrue

LEMMA NextHandoff ==
  ASSUME HandoffIInv, [Handoff!Next]_(Handoff!vars)
  PROVE  HandoffIInv'
<1>1. ASSUME NEW o \in Origins, Handoff!BeginPlan(o)
      PROVE  HandoffIInv'
  BY <1>1, BeginPlanKeeps
<1>2. CASE Handoff!Expand
  BY <1>2, ExpandKeeps
<1>3. CASE Handoff!EndPlan
  BY <1>3, EndPlanKeeps
<1>4. ASSUME NEW p \in DOMAIN world.plans, Handoff!Edit(p)
      PROVE  HandoffIInv'
  BY <1>4, EditKeeps
<1>5. ASSUME NEW p \in DOMAIN world.plans, NEW n \in DOMAIN world.plans[p].requests,
             Handoff!Import(p, n)
      PROVE  HandoffIInv'
  BY <1>5, ImportKeeps
<1>6. ASSUME NEW entry \in Handoff!Entries, Handoff!ReadEntry(entry)
      PROVE  HandoffIInv'
  BY <1>6, ReadEntryKeeps
<1>7. ASSUME NEW i \in Handoff!Reported, NEW r \in Handoff!Reported, NEW a \in Handoff!Reported,
             NEW changes \in SUBSET {"none", "endpoint"}, Handoff!Emit({i, r, a}, changes)
      PROVE  HandoffIInv'
  BY <1>7, EmitKeeps
<1>8. CASE UNCHANGED Handoff!vars
  BY <1>8 DEF Handoff!vars, HandoffIInv, HandoffTypes, PlansAreCovers, ReceiptsAreTrue,
    MappingIsTrue, ResultIsTrue
<1> QED
  BY <1>1, <1>2, <1>3, <1>4, <1>5, <1>6, <1>7, <1>8, ChoicesKeep DEF Handoff!Next

LEMMA HandoffFollows ==
  ASSUME HandoffIInv
  PROVE  /\ Handoff!TypeOK
         /\ Handoff!PlanIsTheClosure
         /\ Handoff!HandoffMapsImports
         /\ Handoff!HandoffClaimsNoMore
<1>1. ASSUME result # None
      PROVE  /\ result.outcome \in Handoff!Reported \ {"unknown"}
             /\ result.outcome = "success" <=> result.parts = {"success"}
  <2>1. PICK i, r, a \in Handoff!Reported : result.parts = {i, r, a}
    BY <1>1 DEF HandoffIInv, ResultIsTrue
  <2>2. result.outcome = Handoff!Outcome({i, r, a})
    BY <1>1, <2>1 DEF HandoffIInv, ResultIsTrue
  <2> QED
    BY <2>1, <2>2 DEF Handoff!Outcome, Handoff!Reported
<1>2. Handoff!TypeOK
  BY <1>1 DEF HandoffIInv, HandoffTypes, Handoff!TypeOK
<1>3. ASSUME NEW p \in DOMAIN world.plans
      PROVE  LET plan == world.plans[p]
                 layers == [i \in DOMAIN plan.requests |-> plan.requests[i].layer]
                 tables == [i \in DOMAIN plan.requests |-> plan.requests[i].table]
             IN /\ layers[1] = plan.origin.layer
                /\ Handoff!IsInjective(layers) /\ Handoff!IsInjective(tables)
                /\ plan.origin.related # None =>
                     \A i \in DOMAIN tables : Handoff!Acceptable(tables[i])
                /\ Handoff!Range(layers) = {plan.origin.layer} \union
                     (IF plan.origin.related = None THEN {}
                      ELSE {plan.origin.related[i].layer : i \in DOMAIN plan.origin.related}
                             \ {None})
  <2> DEFINE o == world.plans[p].origin
             requests == world.plans[p].requests
             layers == [i \in DOMAIN requests |-> requests[i].layer]
             tables == [i \in DOMAIN requests |-> requests[i].table]
             related == IF o.related = None THEN {}
                        ELSE {o.related[i].layer : i \in DOMAIN o.related} \ {None}
  <2>1. o \in Origins
    <3>1. world.plans[p] \in Plans
      BY ElementOfSeq DEF HandoffIInv, HandoffTypes
    <3> QED
      BY <3>1 DEF Plans
  <2>2. Covers(requests, o, Len(Handoff!Related(o)))
    BY DEF HandoffIInv, PlansAreCovers
  <2> HIDE DEF o, requests
  <2>3. {Handoff!Related(o)[i].layer : i \in 1 .. Len(Handoff!Related(o))} \ {None} = related
    <3>1. CASE o.related = None
      BY <2>1, <3>1, RelatedIsSeq
    <3>2. CASE o.related # None
      <4>1. Handoff!Related(o) = o.related /\ o.related \in Seq(Relations)
        BY <2>1, <3>2, RelatedIsSeq
      <4>2. 1 .. Len(Handoff!Related(o)) = DOMAIN o.related
        BY <4>1
      <4> QED
        BY <3>2, <4>1, <4>2
    <3> QED
      BY <3>1, <3>2
  <2>4. 1 \in DOMAIN requests
    BY <2>2 DEF Covers
  <2>5. /\ layers[1] = o.layer
        /\ Handoff!IsInjective(layers) /\ Handoff!IsInjective(tables)
        /\ o.related # None => \A i \in DOMAIN tables : Handoff!Acceptable(tables[i])
    BY <2>2, <2>4 DEF Covers, Handoff!IsInjective
  <2>6. Handoff!Range(layers) = {requests[i].layer : i \in DOMAIN requests}
    BY DEF Handoff!Range
  <2>7. Handoff!Range(layers) = {o.layer} \union related
    BY <2>2, <2>3, <2>6 DEF Covers
  <2> QED
    BY <2>5, <2>7 DEF o, requests
<1>4. Handoff!PlanIsTheClosure
  BY <1>3 DEF Handoff!PlanIsTheClosure
<1>5. Handoff!HandoffMapsImports
  BY DEF HandoffIInv, MappingIsTrue, ResultIsTrue, Handoff!HandoffMapsImports
<1>6. Handoff!HandoffClaimsNoMore
  BY <1>1 DEF Handoff!HandoffClaimsNoMore
<1> QED
  BY <1>2, <1>4, <1>5, <1>6

-----------------------------------------------------------------------------
(* Access.                                                                 *)

AccessRoles == Access!BuiltIn \union [id : DOMAIN Privileges, type : {"custom"},
                                      privileges : SUBSET UNION {Privileges[r] : r \in DOMAIN Privileges}]

AccessAces == UNION {{Access!Ace(s, e) : e \in s.aces} : s \in AccessServices}

\* What the scan may know when the answers to silent were passed over.
AccessFound(silent) ==
  [todo : SUBSET (AccessServices \union DOMAIN Privileges),
   folders : SUBSET {s.folder : s \in AccessServices},
   aces : SUBSET AccessAces, roles : SUBSET AccessRoles,
   users : SUBSET {Access!User(a) : a \in Accounts}, open : {None} \union BOOLEAN,
   silent : {silent}]

AccessTypes ==
  /\ world \in Access!Worlds
  /\ found \in AccessFound(found.silent)
  /\ pc \in IF world.kind = "server"
            THEN {"names", "users", "catalog", "crawl", "emit", "ended"}
            ELSE {"self", "users", "roles", "privileges", "emit", "ended"}
  /\ \A d \in diags : d.code \in {"missing-permission", "rate-limited", "partial-coverage"}
  /\ result # None => pc = "ended"

\* Access!Gap of f and the diagnostics ds.
AccessGap(f, ds, scope) == scope \in f.silent \/ \E d \in ds : d.scope = scope

\* What f has read of a service is its whole list, or nothing: then it is still
\* to be read, or the request for it failed or was answered with no object.
ListIsWhole(f, ds, s) ==
  \/ \A e \in s.aces : Access!Ace(s, e) \in f.aces
  \/ /\ \A a \in f.aces : a.service # <<s.folder, s.name>>
     /\ \/ s \in f.todo
        \/ s.folder \in f.folders
        \/ AccessGap(f, ds, <<"services">>)
        \/ AccessGap(f, ds, <<"services", s.folder>>)
        \/ AccessGap(f, ds, <<"services", s.folder, s.name>>)

ListsAreWhole ==
  world.kind = "server" =>
    /\ \A r \in found.roles : r.type = "custom"
    /\ \A a \in found.aces : \E s \in world.services : \E e \in s.aces : a = Access!Ace(s, e)
    /\ found.todo \subseteq world.services
    /\ pc \in {"names", "users", "catalog"} => found.aces = {} /\ found.todo = {}
    /\ pc \in {"crawl", "emit", "ended"} => \A s \in world.services : ListIsWhole(found, diags, s)
    /\ pc \in {"emit", "ended"} => found.todo = {} /\ found.folders = {}

\* The privileges of a role are read, still to be read, or the request for them
\* failed or was answered with no object.
RoleIsWhole(f, ds, id) ==
  \/ id \in f.todo
  \/ Access!Custom(id, Privileges[id]) \in f.roles
  \/ AccessGap(f, ds, <<"roles">>)
  \/ AccessGap(f, ds, <<"roles", id>>)

RolesAreWhole ==
  world.kind = "portal" =>
    /\ \A r \in found.roles : r \in Access!BuiltIn \/ r.privileges \subseteq Privileges[r.id]
    /\ pc \in {"self", "users", "roles"} => found.roles = {}
    /\ pc \in {"privileges", "emit", "ended"} =>
         /\ found.todo \subseteq DOMAIN Privileges
         /\ \A id \in DOMAIN Privileges : RoleIsWhole(found, diags, id)
    /\ pc \in {"emit", "ended"} => found.todo = {}

AccessResultIsTrue ==
  result # None =>
    result = [users |-> found.users, roles |-> {Access!HonuaRole(r) : r \in found.roles},
              policies |-> {Access!Policy(p) : p \in Access!Effective}, anonymous |-> found.open]

AccessIInv == AccessTypes /\ ListsAreWhole /\ RolesAreWhole /\ AccessResultIsTrue

LEMMA WorldsAreTyped ==
  ASSUME world \in Access!Worlds
  PROVE  /\ world.kind \in {"server", "portal"}
         /\ world.kind = "server" => world.services \subseteq AccessServices
         /\ world.kind = "portal" => /\ world.services = {}
                                     /\ world.inline \subseteq DOMAIN Privileges
BY DEF Access!Worlds

LEMMA CodesAreKnown ==
  ASSUME NEW o \in Access!Outcomes
  PROVE  Access!Code(o) \in {"missing-permission", "rate-limited", "partial-coverage"}
BY DEF Access!Code

\* After an answer is known what f says, and of a failure or an odd answer there
\* is a trace.
LEMMA LearnAdds ==
  ASSUME NEW o \in Access!Answers, NEW scope, NEW f \in AccessFound(found.silent),
         Access!Learn(scope, o, f), AccessTypes
  PROVE  /\ UNCHANGED <<world, result>>
         /\ found' \in AccessFound(found'.silent)
         /\ found'.todo = f.todo /\ found'.folders = f.folders /\ found'.aces = f.aces
         /\ found'.roles = f.roles /\ found'.users = f.users /\ found'.open = f.open
         /\ found.silent \subseteq found'.silent
         /\ diags \subseteq diags'
         /\ o # "ok" => AccessGap(found', diags', scope)
         /\ \A d \in diags' : d.code \in {"missing-permission", "rate-limited", "partial-coverage"}
<1>1. UNCHANGED <<world, result>>
      /\ found' = IF o = "odd" THEN [f EXCEPT !.silent = @ \union {scope}] ELSE f
  BY DEF Access!Learn
<1>2. CASE o = "odd"
  <2>1. found' = [f EXCEPT !.silent = found.silent \union {scope}] /\ UNCHANGED diags
    BY <1>2 DEF Access!Learn, AccessFound
  <2> QED
    BY <1>1, <2>1 DEF AccessFound, AccessGap, AccessTypes
<1>3. CASE o = "ok"
  BY <1>1, <1>3 DEF Access!Learn, AccessFound, AccessTypes
<1>4. CASE o \notin {"ok", "odd"}
  <2>1. o \in Access!Outcomes /\ diags' = diags \union {Access!Diag(scope, Access!Code(o))}
    BY <1>4 DEF Access!Learn, Access!Report, Access!Answers
  <2>2. Access!Diag(scope, Access!Code(o)).scope = scope
        /\ Access!Diag(scope, Access!Code(o)).code = Access!Code(o)
    BY DEF Access!Diag
  <2>3. AccessGap(found', diags', scope)
    BY <2>1, <2>2 DEF AccessGap
  <2>4. \A d \in diags' : d.code \in {"missing-permission", "rate-limited", "partial-coverage"}
    BY <2>1, <2>2, CodesAreKnown DEF AccessTypes
  <2> QED
    BY <1>1, <1>4, <2>1, <2>3, <2>4 DEF AccessFound
<1> QED
  BY <1>2, <1>3, <1>4

\* A trace stays.
LEMMA GapStays ==
  ASSUME found.silent \subseteq found'.silent, diags \subseteq diags', NEW scope,
         AccessGap(found, diags, scope)
  PROVE  AccessGap(found', diags', scope)
BY DEF AccessGap

LEMMA InitAccess ==
  ASSUME Access!Init
  PROVE  AccessIInv
<1>1. AccessTypes
  BY WorldsAreTyped DEF Access!Init, AccessTypes, AccessFound
<1> QED
  BY <1>1, WorldsAreTyped DEF Access!Init, AccessIInv, ListsAreWhole, RolesAreWhole,
    AccessResultIsTrue

\* Until the result is there, nothing is claimed of it.
LEMMA NoResultYet ==
  ASSUME AccessIInv, pc # "ended", UNCHANGED <<world, result>>
  PROVE  result = None /\ AccessResultIsTrue' /\ (result # None => pc = "ended")'
BY DEF AccessIInv, AccessTypes, AccessResultIsTrue

LEMMA AceIsTyped ==
  ASSUME NEW s \in AccessServices, NEW e \in s.aces
  PROVE  /\ Access!Ace(s, e) \in AccessAces
         /\ Access!Ace(s, e).service = <<s.folder, s.name>>
<1>1. Access!Ace(s, e) \in {Access!Ace(s, f) : f \in s.aces}
  OBVIOUS
<1>2. Access!Ace(s, e).service = <<s.folder, s.name>>
  BY DEF Access!Ace
<1> QED
  BY <1>1, <1>2, Zenon DEF AccessAces

LEMMA ReadNamesKeeps ==
  ASSUME AccessIInv, NEW o \in Access!Answers, Access!ReadNames(o)
  PROVE  AccessIInv'
<1> DEFINE roles == IF o = "ok" THEN {Access!Custom(r, {}) : r \in DOMAIN Privileges} ELSE {}
           f == [found EXCEPT !.roles = roles]
<1>1. pc = "names" /\ pc' = "users" /\ Access!Learn(<<"names">>, o, f)
  BY DEF Access!ReadNames
<1>2. roles \subseteq AccessRoles /\ \A r \in roles : r.type = "custom"
  BY DEF AccessRoles, Access!Custom
<1> HIDE DEF roles
<1>3. world.kind = "server"
  BY <1>1, WorldsAreTyped DEF AccessIInv, AccessTypes
<1>4. f \in AccessFound(found.silent) /\ f.aces = found.aces /\ f.todo = found.todo /\ f.roles = roles
  BY <1>2 DEF AccessIInv, AccessTypes, AccessFound
<1> HIDE DEF f
<1>5. /\ found' \in AccessFound(found'.silent) /\ UNCHANGED <<world, result>>
      /\ found'.aces = f.aces /\ found'.todo = f.todo /\ found'.roles = f.roles
      /\ \A d \in diags' : d.code \in {"missing-permission", "rate-limited", "partial-coverage"}
  BY <1>1, <1>4, LearnAdds DEF AccessIInv
<1>6. AccessTypes'
  BY <1>1, <1>3, <1>5, NoResultYet DEF AccessIInv, AccessTypes
<1>7. ListsAreWhole'
  BY <1>1, <1>2, <1>3, <1>4, <1>5 DEF AccessIInv, ListsAreWhole
<1> QED
  BY <1>1, <1>3, <1>5, <1>6, <1>7, NoResultYet DEF AccessIInv, RolesAreWhole

LEMMA ReadUsersKeeps ==
  ASSUME AccessIInv, NEW o \in Access!Answers, Access!ReadUsers(o)
  PROVE  AccessIInv'
<1> DEFINE users == IF o = "ok" THEN {Access!User(a) : a \in world.users} ELSE {}
           f == [found EXCEPT !.users = users]
<1>1. /\ pc = "users" /\ pc' = IF world.kind = "server" THEN "catalog" ELSE "roles"
      /\ Access!Learn(<<"users">>, o, f)
  BY DEF Access!ReadUsers
<1>2. users \subseteq {Access!User(a) : a \in Accounts}
  BY DEF AccessIInv, AccessTypes, Access!Worlds
<1> HIDE DEF users
<1>3. world.kind \in {"server", "portal"}
  BY WorldsAreTyped DEF AccessIInv, AccessTypes
<1>4. f \in AccessFound(found.silent) /\ f.aces = found.aces /\ f.todo = found.todo
      /\ f.roles = found.roles
  BY <1>2 DEF AccessIInv, AccessTypes, AccessFound
<1> HIDE DEF f
<1>5. /\ found' \in AccessFound(found'.silent) /\ UNCHANGED <<world, result>>
      /\ found'.aces = f.aces /\ found'.todo = f.todo /\ found'.roles = f.roles
      /\ \A d \in diags' : d.code \in {"missing-permission", "rate-limited", "partial-coverage"}
  BY <1>1, <1>4, LearnAdds DEF AccessIInv
<1>6. AccessTypes'
  BY <1>1, <1>3, <1>5, NoResultYet DEF AccessIInv, AccessTypes
<1>7. ListsAreWhole' /\ RolesAreWhole'
  BY <1>1, <1>3, <1>4, <1>5 DEF AccessIInv, ListsAreWhole, RolesAreWhole
<1> QED
  BY <1>1, <1>5, <1>6, <1>7, NoResultYet DEF AccessIInv

LEMMA ReadCatalogKeeps ==
  ASSUME AccessIInv, NEW o \in Access!Answers, Access!ReadCatalog(o)
  PROVE  AccessIInv'
<1> DEFINE f == IF o # "ok" THEN found
                ELSE [found EXCEPT !.todo = Access!In(None),
                                   !.folders = {s.folder : s \in world.services} \ {None}]
<1>1. pc = "catalog" /\ pc' = "crawl" /\ Access!Learn(<<"services">>, o, f)
  BY DEF Access!ReadCatalog
<1>2. world.kind = "server" /\ world.services \subseteq AccessServices
  BY <1>1, WorldsAreTyped DEF AccessIInv, AccessTypes
<1>3. /\ {s.folder : s \in world.services} \ {None} \subseteq {s.folder : s \in AccessServices}
      /\ Access!In(None) \subseteq world.services
  BY <1>2 DEF Access!In
<1>4. /\ f \in AccessFound(found.silent)
      /\ f.aces = {} /\ f.roles = found.roles /\ f.todo \subseteq world.services
      /\ o = "ok" => /\ f.todo = Access!In(None)
                     /\ f.folders = {s.folder : s \in world.services} \ {None}
  BY <1>1, <1>2, <1>3 DEF AccessIInv, AccessTypes, AccessFound, ListsAreWhole
<1> HIDE DEF f
<1>5. /\ found' \in AccessFound(found'.silent) /\ UNCHANGED <<world, result>>
      /\ found'.aces = f.aces /\ found'.todo = f.todo /\ found'.roles = f.roles
      /\ found'.folders = f.folders
      /\ o # "ok" => AccessGap(found', diags', <<"services">>)
      /\ \A d \in diags' : d.code \in {"missing-permission", "rate-limited", "partial-coverage"}
  BY <1>1, <1>4, LearnAdds DEF AccessIInv
<1>6. AccessTypes'
  BY <1>1, <1>2, <1>5, NoResultYet DEF AccessIInv, AccessTypes
<1>7. ASSUME NEW s \in world.services
      PROVE  ListIsWhole(found', diags', s)
  <2>1. CASE o = "ok"
    <3>1. s \in Access!In(None) \/ s.folder \in {t.folder : t \in world.services} \ {None}
      BY DEF Access!In
    <3> QED
      BY <1>4, <1>5, <2>1, <3>1 DEF ListIsWhole
  <2>2. CASE o # "ok"
    BY <1>4, <1>5, <2>2 DEF ListIsWhole
  <2> QED
    BY <2>1, <2>2
<1>8. ListsAreWhole'
  BY <1>1, <1>2, <1>4, <1>5, <1>7 DEF AccessIInv, ListsAreWhole
<1> QED
  BY <1>1, <1>2, <1>5, <1>6, <1>8, NoResultYet DEF AccessIInv, RolesAreWhole

LEMMA ReadFolderKeeps ==
  ASSUME AccessIInv, NEW o \in Access!Answers, NEW g \in found.folders, Access!ReadFolder(g, o)
  PROVE  AccessIInv'
<1> DEFINE todo == IF o = "ok" THEN found.todo \union Access!In(g) ELSE found.todo
           f == [found EXCEPT !.folders = @ \ {g}, !.todo = todo]
<1>1. pc = "crawl" /\ UNCHANGED pc /\ Access!Learn(<<"services", g>>, o, f)
  BY DEF Access!ReadFolder, AccessIInv, AccessTypes, AccessFound
<1>2. world.kind = "server" /\ world.services \subseteq AccessServices
  BY <1>1, WorldsAreTyped DEF AccessIInv, AccessTypes
<1>3. todo \subseteq world.services /\ found.todo \subseteq todo
  BY <1>2 DEF AccessIInv, ListsAreWhole, Access!In
<1>4. o = "ok" => \A s \in world.services : s.folder = g => s \in todo
  BY DEF Access!In
<1> HIDE DEF todo
<1>5. /\ f \in AccessFound(found.silent)
      /\ f.aces = found.aces /\ f.roles = found.roles /\ f.todo = todo
      /\ f.folders = found.folders \ {g}
  BY <1>2, <1>3 DEF AccessIInv, AccessTypes, AccessFound
<1> HIDE DEF f
<1>6. /\ found' \in AccessFound(found'.silent) /\ UNCHANGED <<world, result>>
      /\ found'.aces = f.aces /\ found'.todo = f.todo /\ found'.roles = f.roles
      /\ found'.folders = f.folders
      /\ found.silent \subseteq found'.silent /\ diags \subseteq diags'
      /\ o # "ok" => AccessGap(found', diags', <<"services", g>>)
      /\ \A d \in diags' : d.code \in {"missing-permission", "rate-limited", "partial-coverage"}
  BY <1>1, <1>5, LearnAdds DEF AccessIInv
<1>7. AccessTypes'
  BY <1>1, <1>2, <1>6, NoResultYet DEF AccessIInv, AccessTypes
<1>8. ASSUME NEW s \in world.services
      PROVE  ListIsWhole(found', diags', s)
  <2>1. ListIsWhole(found, diags, s)
    BY <1>1, <1>2 DEF AccessIInv, ListsAreWhole
  <2>2. \A scope : AccessGap(found, diags, scope) => AccessGap(found', diags', scope)
    BY <1>6, GapStays
  <2>3. CASE s.folder = g
    BY <1>3, <1>4, <1>5, <1>6, <2>1, <2>2, <2>3 DEF ListIsWhole
  <2>4. CASE s.folder # g
    BY <1>3, <1>5, <1>6, <2>1, <2>2, <2>4 DEF ListIsWhole
  <2> QED
    BY <2>3, <2>4
<1>9. ListsAreWhole'
  BY <1>1, <1>2, <1>3, <1>5, <1>6, <1>8 DEF AccessIInv, ListsAreWhole
<1> QED
  BY <1>1, <1>2, <1>6, <1>7, <1>9, NoResultYet DEF AccessIInv, RolesAreWhole

LEMMA ReadPermissionsKeeps ==
  ASSUME AccessIInv, NEW o \in Access!Answers, NEW s \in found.todo, Access!ReadPermissions(s, o)
  PROVE  AccessIInv'
<1> DEFINE list == {Access!Ace(s, e) : e \in s.aces}
           aces == IF o = "ok" THEN found.aces \union list ELSE found.aces
           f == [found EXCEPT !.todo = @ \ {s}, !.aces = aces]
<1>1. /\ pc = "crawl" /\ UNCHANGED pc
      /\ Access!Learn(<<"services", s.folder, s.name>>, o, f)
  BY DEF Access!ReadPermissions, AccessIInv, AccessTypes, AccessFound
<1>2. world.kind = "server" /\ world.services \subseteq AccessServices
  BY <1>1, WorldsAreTyped DEF AccessIInv, AccessTypes
<1>3. s \in world.services
  BY <1>2 DEF AccessIInv, ListsAreWhole
<1>4. list \subseteq AccessAces /\ \A a \in list : a.service = <<s.folder, s.name>>
  BY <1>2, <1>3, AceIsTyped
<1>5. /\ f \in AccessFound(found.silent)
      /\ f.aces = aces /\ f.roles = found.roles /\ f.todo = found.todo \ {s}
      /\ f.folders = found.folders
  <2>1. aces \subseteq AccessAces
    BY <1>4 DEF AccessIInv, AccessTypes, AccessFound
  <2> HIDE DEF aces
  <2> QED
    BY <2>1 DEF AccessIInv, AccessTypes, AccessFound
<1> HIDE DEF f
<1>6. /\ found' \in AccessFound(found'.silent) /\ UNCHANGED <<world, result>>
      /\ found'.aces = f.aces /\ found'.todo = f.todo /\ found'.roles = f.roles
      /\ found'.folders = f.folders
      /\ found.silent \subseteq found'.silent /\ diags \subseteq diags'
      /\ o # "ok" => AccessGap(found', diags', <<"services", s.folder, s.name>>)
      /\ \A d \in diags' : d.code \in {"missing-permission", "rate-limited", "partial-coverage"}
  <2> HIDE DEF aces
  <2> QED
    BY <1>1, <1>5, LearnAdds DEF AccessIInv
<1>7. AccessTypes'
  BY <1>1, <1>2, <1>6, NoResultYet DEF AccessIInv, AccessTypes
<1>8. \A a \in found'.aces : \E t \in world.services : \E e \in t.aces : a = Access!Ace(t, e)
  BY <1>2, <1>3, <1>5, <1>6 DEF AccessIInv, ListsAreWhole
<1>9. ASSUME NEW t \in world.services
      PROVE  ListIsWhole(found', diags', t)
  <2>1. ListIsWhole(found, diags, t)
    BY <1>1, <1>2 DEF AccessIInv, ListsAreWhole
  <2>2. \A scope : AccessGap(found, diags, scope) => AccessGap(found', diags', scope)
    BY <1>6, GapStays
  <2>3. CASE t = s
    <3>1. CASE o = "ok"
      BY <1>5, <1>6, <2>3, <3>1 DEF ListIsWhole
    <3>2. CASE o # "ok"
      BY <1>5, <1>6, <2>1, <2>2, <2>3, <3>2 DEF ListIsWhole
    <3> QED
      BY <3>1, <3>2
  <2>4. CASE t # s
    <3>1. <<t.folder, t.name>> # <<s.folder, s.name>>
      <4>1. t.folder # s.folder \/ t.name # s.name
        BY <1>2, <1>3, <2>4, AccessAssumption
      <4> QED
        BY <4>1
    <3>2. \A a \in list : a.service # <<t.folder, t.name>>
      BY <1>4, <3>1
    <3> HIDE DEF list
    <3> QED
      BY <1>5, <1>6, <2>1, <2>2, <2>4, <3>2 DEF ListIsWhole
  <2> QED
    BY <2>3, <2>4
<1>10. ListsAreWhole'
  <2>1. found'.todo \subseteq world.services
    BY <1>2, <1>5, <1>6 DEF AccessIInv, ListsAreWhole
  <2> QED
    BY <1>1, <1>2, <1>5, <1>6, <1>8, <1>9, <2>1 DEF AccessIInv, ListsAreWhole
<1> QED
  BY <1>1, <1>2, <1>6, <1>7, <1>10, NoResultYet DEF AccessIInv, RolesAreWhole

LEMMA EndCrawlKeeps ==
  ASSUME AccessIInv, Access!EndCrawl
  PROVE  AccessIInv'
<1>1. /\ pc = "crawl" /\ pc' = "emit" /\ found.todo = {} /\ found.folders = {}
      /\ UNCHANGED <<world, found, diags, result>>
  BY DEF Access!EndCrawl
<1>2. world.kind = "server"
  BY <1>1, WorldsAreTyped DEF AccessIInv, AccessTypes
<1>3. AccessTypes' /\ ListsAreWhole'
  BY <1>1, <1>2, NoResultYet DEF AccessIInv, AccessTypes, ListsAreWhole
<1> QED
  BY <1>1, <1>2, <1>3, NoResultYet DEF AccessIInv, RolesAreWhole

LEMMA ReadSelfKeeps ==
  ASSUME AccessIInv, NEW o \in Access!Answers, Access!ReadSelf(o)
  PROVE  AccessIInv'
<1> DEFINE open == IF o # "ok" \/ world.access = None THEN None ELSE world.access = "public"
           f == [found EXCEPT !.open = open]
<1>1. pc = "self" /\ pc' = "users" /\ Access!Learn(<<"self">>, o, f)
  BY DEF Access!ReadSelf
<1>2. open \in {None} \union BOOLEAN
  OBVIOUS
<1> HIDE DEF open
<1>3. world.kind = "portal"
  BY <1>1, WorldsAreTyped DEF AccessIInv, AccessTypes
<1>4. f \in AccessFound(found.silent) /\ f.roles = found.roles
  BY <1>2 DEF AccessIInv, AccessTypes, AccessFound
<1> HIDE DEF f
<1>5. /\ found' \in AccessFound(found'.silent) /\ UNCHANGED <<world, result>>
      /\ found'.roles = f.roles
      /\ \A d \in diags' : d.code \in {"missing-permission", "rate-limited", "partial-coverage"}
  BY <1>1, <1>4, LearnAdds DEF AccessIInv
<1>6. AccessTypes'
  BY <1>1, <1>3, <1>5, NoResultYet DEF AccessIInv, AccessTypes
<1> QED
  BY <1>1, <1>3, <1>4, <1>5, <1>6, NoResultYet DEF AccessIInv, ListsAreWhole, RolesAreWhole

LEMMA CustomIsTyped ==
  ASSUME NEW r \in DOMAIN Privileges
  PROVE  /\ Access!Custom(r, Privileges[r]) \in AccessRoles /\ Access!Custom(r, {}) \in AccessRoles
         /\ Access!Custom(r, Privileges[r]).privileges \subseteq Privileges[Access!Custom(r, Privileges[r]).id]
         /\ Access!Custom(r, {}).privileges = {}
BY DEF AccessRoles, Access!Custom

LEMMA ReadRolesKeeps ==
  ASSUME AccessIInv, NEW o \in Access!Answers, Access!ReadRoles(o)
  PROVE  AccessIInv'
<1> DEFINE given == {r \in world.inline : Privileges[r] # {}}
           inline == IF o = "ok" THEN {Access!Custom(r, Privileges[r]) : r \in given} ELSE {}
           todo == IF o = "ok" THEN DOMAIN Privileges \ given ELSE {}
           roles == Access!BuiltIn \union inline
           f == [found EXCEPT !.roles = roles, !.todo = todo]
<1>1. pc = "roles" /\ pc' = "privileges" /\ Access!Learn(<<"roles">>, o, f)
  BY DEF Access!ReadRoles
<1>2. world.kind = "portal" /\ given \subseteq DOMAIN Privileges
  BY <1>1, WorldsAreTyped DEF AccessIInv, AccessTypes
<1>3. inline \subseteq AccessRoles /\ \A r \in inline : r.privileges \subseteq Privileges[r.id]
  BY <1>2, CustomIsTyped
<1>4. roles \subseteq AccessRoles
  BY <1>3 DEF AccessRoles
<1>5. todo \subseteq DOMAIN Privileges
  OBVIOUS
<1>6. o = "ok" => \A id \in DOMAIN Privileges :
        id \in todo \/ Access!Custom(id, Privileges[id]) \in roles
  OBVIOUS
<1>7. \A r \in roles : r \in Access!BuiltIn \/ r.privileges \subseteq Privileges[r.id]
  BY <1>3
<1> HIDE DEF roles, todo
<1>8. f \in AccessFound(found.silent) /\ f.roles = roles /\ f.todo = todo
  BY <1>4, <1>5 DEF AccessIInv, AccessTypes, AccessFound
<1> HIDE DEF f
<1>9. /\ found' \in AccessFound(found'.silent) /\ UNCHANGED <<world, result>>
      /\ found'.roles = f.roles /\ found'.todo = f.todo
      /\ o # "ok" => AccessGap(found', diags', <<"roles">>)
      /\ \A d \in diags' : d.code \in {"missing-permission", "rate-limited", "partial-coverage"}
  BY <1>1, <1>8, LearnAdds DEF AccessIInv
<1>10. AccessTypes'
  BY <1>1, <1>2, <1>9, NoResultYet DEF AccessIInv, AccessTypes
<1>11. ASSUME NEW id \in DOMAIN Privileges
       PROVE  RoleIsWhole(found', diags', id)
  BY <1>6, <1>8, <1>9 DEF RoleIsWhole
<1>12. RolesAreWhole'
  BY <1>1, <1>2, <1>5, <1>7, <1>8, <1>9, <1>11 DEF RolesAreWhole
<1> QED
  BY <1>1, <1>2, <1>9, <1>10, <1>12, NoResultYet DEF AccessIInv, ListsAreWhole

LEMMA ReadPrivilegesKeeps ==
  ASSUME AccessIInv, NEW o \in Access!Answers, NEW r \in found.todo, Access!ReadPrivileges(r, o)
  PROVE  AccessIInv'
<1> DEFINE role == Access!Custom(r, IF o = "ok" THEN Privileges[r] ELSE {})
           f == [found EXCEPT !.todo = @ \ {r}, !.roles = @ \union {role}]
<1>1. pc = "privileges" /\ UNCHANGED pc /\ Access!Learn(<<"roles", r>>, o, f)
  BY DEF Access!ReadPrivileges, AccessIInv, AccessTypes, AccessFound
<1>2. world.kind = "portal" /\ r \in DOMAIN Privileges
  BY <1>1, WorldsAreTyped DEF AccessIInv, AccessTypes, RolesAreWhole
<1>3. /\ role \in AccessRoles /\ role.privileges \subseteq Privileges[role.id]
      /\ o = "ok" => role = Access!Custom(r, Privileges[r])
  BY <1>2, CustomIsTyped
<1> HIDE DEF role
<1>4. /\ f \in AccessFound(found.silent)
      /\ f.roles = found.roles \union {role} /\ f.todo = found.todo \ {r}
  BY <1>2, <1>3 DEF AccessIInv, AccessTypes, AccessFound
<1> HIDE DEF f
<1>5. /\ found' \in AccessFound(found'.silent) /\ UNCHANGED <<world, result>>
      /\ found'.roles = f.roles /\ found'.todo = f.todo
      /\ found.silent \subseteq found'.silent /\ diags \subseteq diags'
      /\ o # "ok" => AccessGap(found', diags', <<"roles", r>>)
      /\ \A d \in diags' : d.code \in {"missing-permission", "rate-limited", "partial-coverage"}
  BY <1>1, <1>4, LearnAdds DEF AccessIInv
<1>6. AccessTypes'
  BY <1>1, <1>2, <1>5, NoResultYet DEF AccessIInv, AccessTypes
<1>7. ASSUME NEW id \in DOMAIN Privileges
      PROVE  RoleIsWhole(found', diags', id)
  <2>1. RoleIsWhole(found, diags, id)
    BY <1>1, <1>2 DEF AccessIInv, RolesAreWhole
  <2>2. \A scope : AccessGap(found, diags, scope) => AccessGap(found', diags', scope)
    BY <1>5, GapStays
  <2> QED
    BY <1>3, <1>4, <1>5, <2>1, <2>2 DEF RoleIsWhole
<1>8. RolesAreWhole'
  BY <1>1, <1>2, <1>3, <1>4, <1>5, <1>7 DEF AccessIInv, RolesAreWhole
<1> QED
  BY <1>1, <1>2, <1>5, <1>6, <1>8, NoResultYet DEF AccessIInv, ListsAreWhole

LEMMA EndRolesKeeps ==
  ASSUME AccessIInv, Access!EndRoles
  PROVE  AccessIInv'
<1>1. /\ pc = "privileges" /\ pc' = "emit" /\ found.todo = {}
      /\ UNCHANGED <<world, found, diags, result>>
  BY DEF Access!EndRoles
<1>2. world.kind = "portal"
  BY <1>1, WorldsAreTyped DEF AccessIInv, AccessTypes
<1>3. AccessTypes' /\ RolesAreWhole'
  BY <1>1, <1>2, NoResultYet DEF AccessIInv, AccessTypes, RolesAreWhole
<1> QED
  BY <1>1, <1>2, <1>3, NoResultYet DEF AccessIInv, ListsAreWhole

LEMMA EmitAccessKeeps ==
  ASSUME AccessIInv, Access!Emit
  PROVE  AccessIInv'
<1> DEFINE emitted == [users |-> found.users, roles |-> {Access!HonuaRole(r) : r \in found.roles},
                       policies |-> {Access!Policy(p) : p \in Access!Effective},
                       anonymous |-> found.open]
<1>1. /\ pc = "emit" /\ pc' = "ended" /\ UNCHANGED <<world, found, diags>> /\ result' = emitted
  BY DEF Access!Emit
<1>2. UNCHANGED Access!Effective
  BY <1>1 DEF Access!Effective
<1>3. ASSUME NEW p
      PROVE  UNCHANGED Access!Policy(p)
  BY <1>1 DEF Access!Policy, Access!Principal
<1>4. emitted' = emitted
  BY <1>1, <1>2, <1>3
<1>5. AccessResultIsTrue'
  BY <1>1, <1>4 DEF AccessResultIsTrue
<1> QED
  BY <1>1, <1>5 DEF AccessIInv, AccessTypes, ListsAreWhole, RolesAreWhole

LEMMA NextAccess ==
  ASSUME AccessIInv, [Access!Next]_(Access!vars)
  PROVE  AccessIInv'
<1>1. ASSUME NEW o \in Access!Answers,
             \/ Access!ReadNames(o) \/ Access!ReadCatalog(o) \/ Access!ReadSelf(o)
             \/ Access!ReadRoles(o) \/ Access!ReadUsers(o)
      PROVE  AccessIInv'
  BY <1>1, ReadNamesKeeps, ReadCatalogKeeps, ReadSelfKeeps, ReadRolesKeeps, ReadUsersKeeps
<1>2. ASSUME NEW o \in Access!Answers, NEW g \in found.folders, Access!ReadFolder(g, o)
      PROVE  AccessIInv'
  BY <1>2, ReadFolderKeeps
<1>3. ASSUME NEW o \in Access!Answers, NEW t \in found.todo,
             Access!ReadPermissions(t, o) \/ Access!ReadPrivileges(t, o)
      PROVE  AccessIInv'
  BY <1>3, ReadPermissionsKeeps, ReadPrivilegesKeeps
<1>4. CASE UNCHANGED Access!vars
  <2>1. UNCHANGED <<world, pc, found, diags, result>>
    BY <1>4 DEF Access!vars
  <2>2. UNCHANGED Access!Effective
    BY <2>1 DEF Access!Effective
  <2>3. ASSUME NEW p
        PROVE  UNCHANGED Access!Policy(p)
    BY <2>1 DEF Access!Policy, Access!Principal
  <2>4. AccessResultIsTrue'
    BY <2>1, <2>2, <2>3 DEF AccessIInv, AccessResultIsTrue
  <2> QED
    BY <2>1, <2>4 DEF AccessIInv, AccessTypes, ListsAreWhole, RolesAreWhole
<1> QED
  BY <1>1, <1>2, <1>3, <1>4, EndCrawlKeeps, EndRolesKeeps, EmitAccessKeeps DEF Access!Next

\* Who is who stays so in Honua: principals of a type have different names there.
LEMMA PrincipalsAreTold ==
  ASSUME \A r \in found.roles : r.type = "custom",
         NEW p, NEW q, p.type = q.type, Access!Principal(p) = Access!Principal(q)
  PROVE  p.principal = q.principal
<1> DEFINE of(x) == {r \in found.roles : r.id = x.principal}
<1>1. ASSUME NEW x
      PROVE  \/ x.type = "role" /\ Access!Principal(x) = <<"honua.custom", x.principal>>
             \/ ~(x.type = "role" /\ of(x) # {}) /\ Access!Principal(x) = <<x.principal>>
  <2>1. CASE x.type = "role" /\ of(x) # {}
    <3> DEFINE r == CHOOSE r \in of(x) : TRUE
    <3>1. r \in of(x)
      BY <2>1
    <3>2. r.id = x.principal /\ r.type = "custom"
      BY <3>1
    <3>3. Access!Principal(x) = Access!HonuaId(r)
      BY <2>1 DEF Access!Principal
    <3> QED
      BY <2>1, <3>2, <3>3 DEF Access!HonuaId
  <2>2. CASE ~(x.type = "role" /\ of(x) # {})
    BY <2>2 DEF Access!Principal
  <2> QED
    BY <2>1, <2>2
<1>2. \A x, y : <<"honua.custom", x>> # <<y>>
  OBVIOUS
<1>3. \A x, y : <<x>> = <<y>> => x = y
  OBVIOUS
<1>4. \A x, y : <<"honua.custom", x>> = <<"honua.custom", y>> => x = y
  OBVIOUS
<1> HIDE DEF of
<1> QED
  BY <1>1, <1>2, <1>3, <1>4

LEMMA AccessIsNotWidenedFollows ==
  ASSUME AccessIInv
  PROVE  Access!AccessIsNotWidened
<1> SUFFICES ASSUME result # None, NEW s \in world.services, NEW e \in s.aces
             PROVE  \/ Access!Rules(s, e) = {} /\ Access!Missing(s)
                    \/ \E p \in Access!Rules(s, e) :
                         /\ Access!Rules(s, e) = {p}
                         /\ e.ops \subseteq p.ops
                         /\ p.effect = "allow" <=>
                              \A f \in s.aces : f.principal = e.principal => f.allowed
  BY DEF Access!AccessIsNotWidened
<1> DEFINE a == Access!Ace(s, e)
           same(k) == {b \in found.aces : Access!Key(b) = k}
           rule(k) == [service |-> k[1], type |-> k[2], principal |-> k[3],
                       effect |-> Access!Effect(same(k)), ops |-> UNION {b.ops : b \in same(k)}]
           keys == {Access!Key(b) : b \in found.aces}
           key == Access!Key(a)
<1>1. world.kind = "server" /\ world.services \subseteq AccessServices /\ pc = "ended"
  BY WorldsAreTyped DEF AccessIInv, AccessTypes
<1>2. /\ \A r \in found.roles : r.type = "custom"
      /\ \A b \in found.aces : \E t \in world.services : \E f \in t.aces : b = Access!Ace(t, f)
      /\ ListIsWhole(found, diags, s) /\ found.todo = {} /\ found.folders = {}
  BY <1>1 DEF AccessIInv, ListsAreWhole
<1>3. result.policies = {Access!Policy(rule(k)) : k \in keys}
  <2>1. Access!Effective = {rule(k) : k \in keys}
    BY DEF Access!Effective
  <2>2. result.policies = {Access!Policy(p) : p \in Access!Effective}
    BY DEF AccessIInv, AccessResultIsTrue
  <2> HIDE DEF rule, keys
  <2> QED
    BY <2>1, <2>2
<1>4. ASSUME NEW k
      PROVE  /\ rule(k).service = k[1] /\ rule(k).type = k[2] /\ rule(k).principal = k[3]
             /\ rule(k).effect = Access!Effect(same(k))
             /\ rule(k).ops = UNION {b.ops : b \in same(k)}
             /\ Access!Policy(rule(k)).service = k[1] /\ Access!Policy(rule(k)).type = k[2]
             /\ Access!Policy(rule(k)).principal = Access!Principal(rule(k))
             /\ Access!Policy(rule(k)).effect = Access!Effect(same(k))
             /\ Access!Policy(rule(k)).ops = UNION {b.ops : b \in same(k)}
  BY DEF Access!Policy
<1>5. a.service = <<s.folder, s.name>>
  BY DEF Access!Ace
<1>6. /\ key = <<a.service, a.type, a.principal>>
      /\ key[1] = a.service /\ key[2] = a.type /\ key[3] = a.principal
  BY DEF Access!Key
<1>7. \A b : Access!Key(b)[1] = b.service /\ Access!Key(b) = <<b.service, b.type, b.principal>>
             /\ Access!Key(b)[2] = b.type /\ Access!Key(b)[3] = b.principal
  BY DEF Access!Key
<1> HIDE DEF a, rule, key, same
<1>8. ASSUME NEW k \in keys
      PROVE  Access!Policy(rule(k)) \in Access!Rules(s, e) <=> k = key
  <2>1. PICK b \in found.aces : k = Access!Key(b)
    OBVIOUS
  <2>2. Access!Policy(rule(k)) \in Access!Rules(s, e)
          <=> k[1] = a.service /\ Access!Principal(rule(k)) = Access!Principal(a) /\ k[2] = a.type
    BY <1>3, <1>4, <1>5 DEF Access!Rules, a
  <2>3. CASE k[1] = a.service /\ Access!Principal(rule(k)) = Access!Principal(a) /\ k[2] = a.type
    <3>1. rule(k).principal = a.principal
      BY <1>2, <1>4, <2>3, PrincipalsAreTold
    <3>2. k = <<a.service, a.type, a.principal>>
      BY <1>4, <1>7, <2>1, <2>3, <3>1
    <3> QED
      BY <1>6, <2>2, <2>3, <3>2
  <2>4. CASE k = key
    <3>1. k[1] = a.service /\ k[2] = a.type /\ rule(k).principal = a.principal
          /\ rule(k).type = a.type
      BY <1>4, <1>6, <2>4
    <3>2. Access!Principal(rule(k)) = Access!Principal(a)
      BY <3>1 DEF Access!Principal
    <3> QED
      BY <2>2, <2>4, <3>1, <3>2
  <2> QED
    BY <2>2, <2>3, <2>4
<1>9. Access!Rules(s, e) \subseteq {Access!Policy(rule(k)) : k \in keys}
  BY <1>3 DEF Access!Rules
<1> HIDE DEF keys
<1>10. CASE \A f \in s.aces : Access!Ace(s, f) \in found.aces
  <2>1. a \in found.aces /\ key \in keys
    BY <1>10 DEF a, key, keys
  <2> DEFINE p == Access!Policy(rule(key))
  <2>2. p \in Access!Rules(s, e) /\ Access!Rules(s, e) = {p}
    BY <1>8, <1>9, <2>1
  <2>3. e.ops \subseteq p.ops
    <3>1. a \in same(key) /\ a.ops = e.ops
      BY <2>1 DEF same, key, a, Access!Ace
    <3> QED
      BY <1>4, <3>1
  <2>4. ASSUME NEW f \in s.aces, f.principal = e.principal
        PROVE  Access!Ace(s, f) \in same(key)
    <3>1. Access!Key(Access!Ace(s, f)) = Access!Key(a)
      BY <2>4 DEF Access!Key, Access!Ace, a
    <3> QED
      BY <1>10, <3>1 DEF same, key
  <2>5. ASSUME NEW b \in same(key)
        PROVE  \E f \in s.aces : f.principal = e.principal /\ b = Access!Ace(s, f)
    <3>1. b \in found.aces /\ b.service = a.service /\ b.type = a.type /\ b.principal = a.principal
      BY <1>6, <1>7 DEF same
    <3>2. PICK t \in world.services : \E f \in t.aces : b = Access!Ace(t, f)
      BY <1>2, <3>1
    <3>3. PICK f \in t.aces : b = Access!Ace(t, f)
      BY <3>2
    <3>4. t.folder = s.folder /\ t.name = s.name
      <4>1. b.service = <<t.folder, t.name>>
        BY <3>3 DEF Access!Ace
      <4> QED
        BY <1>5, <3>1, <4>1
    <3>5. t = s
      BY <1>1, <3>4, AccessAssumption
    <3>6. f.principal = e.principal
      BY <3>1, <3>3 DEF Access!Ace, a
    <3> QED
      BY <3>3, <3>5, <3>6
  <2>6. p.effect = "allow" <=> \A f \in s.aces : f.principal = e.principal => f.allowed
    <3>1. p.effect = Access!Effect(same(key))
      BY <1>4
    <3>2. p.effect = "allow" <=> \A b \in same(key) : b.access # "deny"
      BY <3>1 DEF Access!Effect
    <3>3. \A f : Access!Ace(s, f).access # "deny" <=> f.allowed
      BY DEF Access!Ace
    <3> QED
      BY <2>4, <2>5, <3>2, <3>3
  <2> HIDE DEF p
  <2> QED
    BY <2>2, <2>3, <2>6
<1>11. CASE ~ \A f \in s.aces : Access!Ace(s, f) \in found.aces
  <2>1. /\ \A b \in found.aces : b.service # <<s.folder, s.name>>
        /\ Access!Missing(s)
    BY <1>2, <1>11 DEF ListIsWhole, AccessGap, Access!Missing, Access!Gap
  <2>2. key \notin keys
    BY <1>5, <1>6, <1>7, <2>1 DEF keys
  <2>3. Access!Rules(s, e) = {}
    BY <1>8, <1>9, <2>2
  <2> QED
    BY <2>1, <2>3
<1> QED
  BY <1>10, <1>11

LEMMA RolesKeepPrivilegesFollows ==
  ASSUME AccessIInv
  PROVE  Access!RolesKeepPrivileges
<1> SUFFICES ASSUME result # None, world.kind = "portal"
             PROVE  /\ \A r \in result.roles : r.source \in DOMAIN Privileges =>
                         r.permissions \subseteq Access!Verbs(Privileges[r.source])
                    /\ \A id \in DOMAIN Privileges :
                         \/ Access!Gap(<<"roles">>) \/ Access!Gap(<<"roles", id>>)
                         \/ \E r \in result.roles :
                              /\ r.id = <<"honua.custom", id>>
                              /\ \A p \in Privileges[id] :
                                   p \in r.unmapped \/ Access!Verb[p] \in r.permissions
  BY DEF Access!RolesKeepPrivileges
<1>1. result.roles = {Access!HonuaRole(r) : r \in found.roles}
  BY DEF AccessIInv, AccessResultIsTrue
<1>2. /\ \A r \in found.roles : r \in Access!BuiltIn \/ r.privileges \subseteq Privileges[r.id]
      /\ found.todo = {}
      /\ \A id \in DOMAIN Privileges : RoleIsWhole(found, diags, id)
  BY DEF AccessIInv, AccessTypes, RolesAreWhole
<1>3. ASSUME NEW r
      PROVE  /\ Access!HonuaRole(r).id = Access!HonuaId(r) /\ Access!HonuaRole(r).source = r.id
             /\ Access!HonuaRole(r).permissions = Access!Verbs(r.privileges)
             /\ Access!HonuaRole(r).unmapped = r.privileges \ DOMAIN Access!Verb
  BY DEF Access!HonuaRole
<1>4. ASSUME NEW r \in found.roles, r.id \in DOMAIN Privileges
      PROVE  Access!Verbs(r.privileges) \subseteq Access!Verbs(Privileges[r.id])
  <2>1. r \notin Access!BuiltIn
    BY <1>4, AccessAssumption
  <2> QED
    BY <1>2, <2>1 DEF Access!Verbs
<1>5. ASSUME NEW id \in DOMAIN Privileges, Access!Custom(id, Privileges[id]) \in found.roles
      PROVE  \E r \in result.roles :
               /\ r.id = <<"honua.custom", id>>
               /\ \A p \in Privileges[id] : p \in r.unmapped \/ Access!Verb[p] \in r.permissions
  <2> DEFINE c == Access!Custom(id, Privileges[id])
             r == Access!HonuaRole(c)
  <2>1. c.id = id /\ c.type = "custom" /\ c.privileges = Privileges[id]
    BY DEF Access!Custom
  <2>2. r \in result.roles
    BY <1>1, <1>5
  <2>3. r.id = <<"honua.custom", id>>
    BY <1>3, <2>1 DEF Access!HonuaId
  <2>4. \A p \in Privileges[id] : p \in r.unmapped \/ Access!Verb[p] \in r.permissions
    BY <1>3, <2>1 DEF Access!Verbs
  <2> HIDE DEF r
  <2> QED
    BY <2>2, <2>3, <2>4
<1>6. ASSUME NEW r \in result.roles, r.source \in DOMAIN Privileges
      PROVE  r.permissions \subseteq Access!Verbs(Privileges[r.source])
  <2>1. PICK c \in found.roles : r = Access!HonuaRole(c)
    BY <1>1
  <2>2. r.source = c.id /\ r.permissions = Access!Verbs(c.privileges)
    BY <1>3, <2>1
  <2> QED
    BY <1>4, <1>6, <2>2
<1> QED
  BY <1>2, <1>5, <1>6 DEF RoleIsWhole, AccessGap, Access!Gap

LEMMA AccessTypeOKFollows ==
  ASSUME AccessIInv
  PROVE  Access!TypeOK
<1>1. \A a \in AccessAces : a.access \in {"allow", "deny"}
  BY DEF AccessAces, Access!Ace
<1> QED
  BY <1>1 DEF AccessIInv, AccessTypes, AccessFound, Access!TypeOK

-----------------------------------------------------------------------------
(* Servers.                                                                *)

CatalogLayers == UNION {s.layers : s \in Catalog}

ServerRecords == [service : Catalog, deep : BOOLEAN, layers : SUBSET CatalogLayers,
                  detail : SUBSET CatalogLayers, lock : {s.lock : s \in Catalog} \union {None}]

ServerTypes ==
  /\ world \in Server!Worlds
  /\ found \in [folders : SUBSET {s.folder : s \in Catalog}, todo : SUBSET Catalog,
                records : SUBSET ServerRecords, at : ServerRecords \union {None},
                pending : SUBSET CatalogLayers, usage : SUBSET Catalog, stores : SUBSET Stores]
  /\ pc \in {"info", "root", "walk", "layers", "usage", "stores", "emit", "ended", "aborted"}
  /\ found.todo \subseteq world.services
  /\ \A r \in found.records : r.service \in world.services
  /\ \A d \in diags : d.code \in Server!DiagCodes
  /\ result # None => pc = "ended"

\* Everything a probe can tell of its service.
IsWhole(r) ==
  /\ r.service.type \in Server!DeepProbeTypes => r.deep /\ r.lock = r.service.lock
  /\ r.service.type \in Server!LayerDetailTypes => r.detail = r.service.layers

SaidOfService(ds, s) ==
  \E d \in ds : Len(d.scope) >= 4 /\ SubSeq(d.scope, 1, 4) = Server!ScopeOf(s)

SaidOfFolder(ds, s) ==
  \E d \in ds : d.scope = <<"folders", s.folder>> /\ d.code # "server.service.malformed"

\* A service is still to be read, or it was, or what is missing has a diagnostic.
IsAccountedFor(f, ds, p, s) ==
  \/ s.folder \in f.folders
  \/ s \in f.todo
  \/ p = "layers" /\ s = f.at.service
  \/ SaidOfFolder(ds, s)
  \/ SaidOfService(ds, s)
  \/ \E r \in f.records : r.service = s /\ IsWhole(r)

\* While its layers are read, a service lacks those to come and those reported.
LayersAreAccountedFor(f, ds) ==
  LET s == f.at.service
  IN /\ f.at \in ServerRecords /\ s \in world.services
     /\ f.at.deep /\ f.at.lock = s.lock /\ f.pending \subseteq s.layers
     /\ SaidOfService(ds, s) \/ f.at.detail = s.layers \ f.pending

ServicesAreAccountedFor ==
  /\ pc \in {"walk", "layers", "usage", "stores", "emit", "ended"} =>
       \A s \in world.services : IsAccountedFor(found, diags, pc, s)
  /\ pc = "layers" => LayersAreAccountedFor(found, diags)
  /\ pc \in {"info", "root"} => found.todo = {} /\ found.records = {}
  /\ pc \in {"usage", "stores", "emit", "ended"} => found.todo = {} /\ found.folders = {}

ServerResultIsTrue ==
  result # None =>
    /\ result.inventory = Server!Retained
    /\ result.verdict = Server!Evaluate({Server!Item(r) : r \in Server!Retained},
                                        Server!Broad(Server!Retained), FALSE)

ServerIInv == ServerTypes /\ ServicesAreAccountedFor /\ ServerResultIsTrue

\* Until the result is there, nothing is claimed of it.
LEMMA NoFootprintYet ==
  ASSUME ServerTypes, pc # "ended", UNCHANGED <<world, result>>
  PROVE  ServerResultIsTrue' /\ (result # None => pc = "ended")'
<1>1. result = None /\ result' = None
  BY DEF ServerTypes
<1>2. ServerResultIsTrue'
  BY <1>1 DEF ServerResultIsTrue
<1> QED
  BY <1>1, <1>2

LEMMA ScopesAreTyped ==
  ASSUME NEW s, NEW l
  PROVE  /\ Len(Server!ScopeOf(s)) = 4
         /\ SubSeq(Server!ScopeOf(s), 1, 4) = Server!ScopeOf(s)
         /\ Len(Server!LayerScope(s, l)) = 5
         /\ SubSeq(Server!LayerScope(s, l), 1, 4) = Server!ScopeOf(s)
<1> DEFINE scope == Server!ScopeOf(s)
           S == {"services", s.folder, s.name, s.type, l}
<1>1. scope \in Seq(S) /\ Len(scope) = 4
  BY DEF Server!ScopeOf
<1> HIDE DEF scope
<1>2. /\ Append(scope, l) \in Seq(S) /\ Len(Append(scope, l)) = 5
      /\ \A i \in 1 .. 4 : Append(scope, l)[i] = scope[i]
  <2>1. l \in S
    OBVIOUS
  <2> HIDE DEF S
  <2>2. /\ Append(scope, l) \in Seq(S) /\ Len(Append(scope, l)) = Len(scope) + 1
        /\ \A i \in 1 .. Len(scope) : Append(scope, l)[i] = scope[i]
    <3>1. scope \in Seq(S)
      BY <1>1
    <3> QED
      BY <2>1, <3>1
  <2>3. Len(scope) + 1 = 5 /\ 1 .. Len(scope) = 1 .. 4
    BY <1>1
  <2> QED
    BY <2>2, <2>3, Zenon
<1>3. ASSUME NEW t \in Seq(S), Len(t) >= 4, \A i \in 1 .. 4 : t[i] = scope[i]
      PROVE  SubSeq(t, 1, 4) = scope
  <2> HIDE DEF S
  <2>1. Len(SubSeq(t, 1, 4)) = 4 /\ \A i \in 1 .. 4 : SubSeq(t, 1, 4)[i] = t[i]
    BY <1>3
  <2>2. SubSeq(t, 1, 4) \in Seq(S)
    BY <1>3
  <2> QED
    BY <1>1, <1>3, <2>1, <2>2
<1>4. SubSeq(scope, 1, 4) = scope
  BY <1>1, <1>3
<1>5. SubSeq(Append(scope, l), 1, 4) = scope
  BY <1>2, <1>3
<1> QED
  BY <1>1, <1>2, <1>4, <1>5 DEF scope, Server!LayerScope

\* What is reported stays, and is of a known code.
LEMMA ReportAdds ==
  ASSUME NEW scope, NEW code, Server!Report(scope, code), code \in Server!DiagCodes, ServerTypes
  PROVE  /\ diags \subseteq diags'
         /\ \E d \in diags' : d.scope = scope /\ d.code = code
         /\ \A d \in diags' : d.code \in Server!DiagCodes
<1>1. Server!Diag(scope, code).scope = scope /\ Server!Diag(scope, code).code = code
  BY DEF Server!Diag
<1> QED
  BY <1>1 DEF Server!Report, ServerTypes

LEMMA CodesOfServer ==
  /\ \A o \in Server!Failures \ {"auth"} : /\ Server!FolderCode(o) \in Server!DiagCodes
                                           /\ Server!FolderCode(o) # "server.service.malformed"
  /\ \A o \in Server!Failures : Server!ServiceCode(o) \in Server!DiagCodes
  /\ \A o \in Server!Failures \ {"limited"} : Server!AdminCode(o) \in Server!DiagCodes
  /\ {"server.info.partial", "server.service.malformed", "rate-limited",
      "server.service.unknown-type"} \subseteq Server!DiagCodes
<1>1. \A o \in Server!Failures \ {"auth"} : Server!FolderCode(o) # "server.service.malformed"
  BY DEF Server!Failures, Server!FolderCode
<1> QED
  BY <1>1 DEF Server!DiagCodes

\* More diagnostics account for no less.
LEMMA StillAccountedFor ==
  ASSUME NEW ds, NEW es, ds \subseteq es, NEW f, NEW p, NEW s, IsAccountedFor(f, ds, p, s)
  PROVE  IsAccountedFor(f, es, p, s)
BY DEF IsAccountedFor, SaidOfFolder, SaidOfService

LEMMA InitServer ==
  ASSUME Server!Init
  PROVE  ServerIInv
BY DEF Server!Init, ServerIInv, ServerTypes, ServicesAreAccountedFor, ServerResultIsTrue

LEMMA AbortKeeps ==
  ASSUME ServerIInv, Server!Abort, pc # "ended"
  PROVE  ServerIInv'
<1>1. pc' = "aborted" /\ UNCHANGED <<world, found, diags, result>>
  BY DEF Server!Abort
<1> QED
  BY <1>1, NoFootprintYet DEF ServerIInv, ServerTypes, ServicesAreAccountedFor

LEMMA ReadInfoKeeps ==
  ASSUME ServerIInv, NEW o \in Server!Outcomes, Server!ReadInfo(o)
  PROVE  ServerIInv'
<1>1. CASE o = "auth"
  BY <1>1, AbortKeeps DEF Server!ReadInfo
<1>2. CASE o # "auth"
  <2>1. /\ pc = "info" /\ pc' = "root" /\ UNCHANGED <<world, found, result>>
        /\ UNCHANGED diags \/ Server!Report(<<"info">>, "server.info.partial")
    BY <1>2 DEF Server!ReadInfo, Server!Step
  <2>2. \A d \in diags' : d.code \in Server!DiagCodes
    BY <2>1, ReportAdds, CodesOfServer DEF ServerIInv, ServerTypes
  <2> QED
    BY <2>1, <2>2, NoFootprintYet DEF ServerIInv, ServerTypes, ServicesAreAccountedFor
<1> QED
  BY <1>1, <1>2

LEMMA ListingAdds ==
  ASSUME ServerIInv, NEW f, Server!Malformed(f)
  PROVE  diags \subseteq diags' /\ \A d \in diags' : d.code \in Server!DiagCodes
BY ReportAdds, CodesOfServer DEF Server!Malformed, ServerIInv, ServerTypes

LEMMA ReadRootKeeps ==
  ASSUME ServerIInv, NEW o \in Server!Outcomes, Server!ReadRoot(o)
  PROVE  ServerIInv'
<1>1. CASE o # "ok"
  BY <1>1, AbortKeeps DEF Server!ReadRoot
<1>2. CASE o = "ok"
  <2> DEFINE folders == Server!FoldersOf(world)
             todo == Server!In(Server!Root)
  <2>1. /\ pc = "root" /\ pc' = "walk" /\ UNCHANGED <<world, result>>
        /\ found' = [found EXCEPT !.folders = folders, !.todo = todo]
        /\ Server!Malformed(Server!Root)
    BY <1>2 DEF Server!ReadRoot, Server!Step
  <2>2. world.services \subseteq Catalog
    BY DEF ServerIInv, ServerTypes, Server!Worlds
  <2>3. /\ todo \subseteq world.services /\ folders \subseteq {s.folder : s \in Catalog}
        /\ \A s \in world.services : s.folder \in folders \/ s \in todo
    BY <2>2 DEF Server!In, Server!FoldersOf
  <2> HIDE DEF folders, todo
  <2>4. found'.folders = folders /\ found'.todo = todo /\ found'.records = {}
    BY <2>1 DEF ServerIInv, ServerTypes, ServicesAreAccountedFor
  <2>5. ServerTypes'
    BY <2>1, <2>2, <2>3, <2>4, ListingAdds, NoFootprintYet DEF ServerIInv, ServerTypes
  <2>6. ServicesAreAccountedFor'
    BY <2>1, <2>3, <2>4 DEF ServicesAreAccountedFor, IsAccountedFor
  <2> QED
    BY <2>1, <2>5, <2>6, NoFootprintYet DEF ServerIInv
<1> QED
  BY <1>1, <1>2

LEMMA ReadServerFolderKeeps ==
  ASSUME ServerIInv, NEW g \in found.folders, NEW o \in Server!Outcomes, Server!ReadFolder(g, o)
  PROVE  ServerIInv'
<1>1. CASE o = "auth"
  BY <1>1, AbortKeeps DEF Server!ReadFolder
<1>2. CASE o # "auth"
  <2> DEFINE todo == IF o = "ok" THEN Server!In(g) ELSE {}
  <2>1. /\ pc = "walk" /\ UNCHANGED <<world, pc, result>> /\ found.todo = {}
        /\ found' = [found EXCEPT !.folders = @ \ {g}, !.todo = todo]
        /\ IF o = "ok" THEN Server!Malformed(g)
           ELSE Server!Report(<<"folders", g>>, Server!FolderCode(o))
    BY <1>2 DEF Server!ReadFolder, Server!Step
  <2>2. /\ todo \subseteq world.services /\ world.services \subseteq Catalog
        /\ o = "ok" => \A s \in world.services : s.folder = g => s \in todo
    BY DEF Server!In, ServerIInv, ServerTypes, Server!Worlds
  <2> HIDE DEF todo
  <2>3. /\ found'.folders = found.folders \ {g} /\ found'.todo = todo
        /\ found'.records = found.records /\ found'.at = found.at
    BY <2>1 DEF ServerIInv, ServerTypes
  <2>4. /\ diags \subseteq diags' /\ \A d \in diags' : d.code \in Server!DiagCodes
        /\ o # "ok" => \E d \in diags' : /\ d.scope = <<"folders", g>>
                                         /\ d.code # "server.service.malformed"
    <3>1. CASE o = "ok"
      BY <2>1, <3>1, ListingAdds
    <3>2. CASE o # "ok"
      <4>1. o \in Server!Failures \ {"auth"}
        BY <1>2, <3>2 DEF Server!Outcomes
      <4> QED
        BY <2>1, <3>2, <4>1, ReportAdds, CodesOfServer DEF ServerIInv
    <3> QED
      BY <3>1, <3>2
  <2>5. ServerTypes'
    BY <2>1, <2>2, <2>3, <2>4, NoFootprintYet DEF ServerIInv, ServerTypes
  <2>6. ASSUME NEW s \in world.services
        PROVE  IsAccountedFor(found', diags', pc', s)
    <3>1. IsAccountedFor(found, diags', pc, s)
      BY <2>1, <2>4, StillAccountedFor DEF ServerIInv, ServicesAreAccountedFor
    <3>2. CASE s.folder = g
      BY <2>1, <2>2, <2>3, <2>4, <3>2 DEF IsAccountedFor, SaidOfFolder
    <3>3. CASE s.folder # g
      BY <2>1, <2>3, <3>1, <3>3 DEF IsAccountedFor
    <3> QED
      BY <3>2, <3>3
  <2>7. ServicesAreAccountedFor'
    BY <2>1, <2>6 DEF ServicesAreAccountedFor
  <2> QED
    BY <2>1, <2>5, <2>7, NoFootprintYet DEF ServerIInv
<1> QED
  BY <1>1, <1>2

\* A record that is kept accounts for its service.
LEMMA KeptIsAccountedFor ==
  ASSUME NEW r \in found'.records, NEW t, r.service = t,
         \A s \in world.services : IsAccountedFor(found, diags, pc, s),
         UNCHANGED world, diags \subseteq diags', found.records \subseteq found'.records,
         found'.folders = found.folders, found.todo \ {t} \subseteq found'.todo,
         pc = "layers" => t = found.at.service,
         IsWhole(r) \/ SaidOfService(diags', t)
  PROVE  \A s \in world.services : IsAccountedFor(found', diags', pc', s)
<1> TAKE s \in world.services
<1>1. IsAccountedFor(found, diags', pc, s)
  BY StillAccountedFor
<1>2. CASE s = t
  BY <1>2 DEF IsAccountedFor
<1>3. CASE s # t
  BY <1>1, <1>3 DEF IsAccountedFor
<1> QED
  BY <1>2, <1>3

LEMMA ListServiceKeeps ==
  ASSUME ServerIInv, NEW t \in found.todo, Server!ListService(t)
  PROVE  ServerIInv'
<1> DEFINE r == Server!Shallow(t)
<1>1. /\ pc = "walk" /\ UNCHANGED <<world, pc, result>> /\ t.type \notin Server!DeepProbeTypes
      /\ found' = [found EXCEPT !.todo = @ \ {t}, !.records = Server!Keep(r)]
      /\ UNCHANGED diags \/ Server!Report(Server!ScopeOf(t), "server.service.unknown-type")
  BY DEF Server!ListService, Server!Step
<1>2. t \in world.services /\ t \in Catalog
  BY DEF ServerIInv, ServerTypes
<1>3. r \in ServerRecords /\ r.service = t /\ IsWhole(r)
  BY <1>1, <1>2 DEF Server!Shallow, ServerRecords, IsWhole, Server!DeepProbeTypes,
    Server!LayerDetailTypes
<1> HIDE DEF r
<1>4. /\ found'.folders = found.folders /\ found'.todo = found.todo \ {t}
      /\ found'.records = found.records \union {r} /\ found'.at = found.at
  BY <1>1 DEF ServerIInv, ServerTypes, Server!Keep
<1>5. diags \subseteq diags' /\ \A d \in diags' : d.code \in Server!DiagCodes
  BY <1>1, ReportAdds, CodesOfServer DEF ServerIInv, ServerTypes
<1>6. ServerTypes'
  BY <1>1, <1>2, <1>3, <1>4, <1>5, NoFootprintYet DEF ServerIInv, ServerTypes, Server!Keep
<1>7. \A s \in world.services : IsAccountedFor(found', diags', pc', s)
  <2>1. \A s \in world.services : IsAccountedFor(found, diags, pc, s)
    BY <1>1 DEF ServerIInv, ServicesAreAccountedFor
  <2> QED
    BY <1>1, <1>3, <1>4, <1>5, <2>1, KeptIsAccountedFor
<1>8. ServicesAreAccountedFor'
  BY <1>1, <1>7 DEF ServicesAreAccountedFor
<1> QED
  BY <1>1, <1>6, <1>8, NoFootprintYet DEF ServerIInv

LEMMA ProbeServiceKeeps ==
  ASSUME ServerIInv, NEW t \in found.todo, NEW o \in Server!Outcomes, Server!ProbeService(t, o)
  PROVE  ServerIInv'
<1>1. pc = "walk" /\ UNCHANGED <<world, result>> /\ t.type \in Server!DeepProbeTypes
  BY DEF Server!ProbeService, Server!Step
<1>2. t \in world.services /\ t \in Catalog
  BY DEF ServerIInv, ServerTypes
<1>3. t.layers \subseteq CatalogLayers
  BY <1>2 DEF CatalogLayers
<1>4. /\ Server!Deep(t) \in ServerRecords /\ Server!Deep(t).service = t /\ Server!Deep(t).deep
      /\ Server!Deep(t).lock = t.lock /\ Server!Deep(t).detail = {}
      /\ Server!Shallow(t) \in ServerRecords /\ Server!Shallow(t).service = t
  BY <1>2, <1>3 DEF Server!Deep, Server!Shallow, ServerRecords
<1>5. ASSUME NEW r \in ServerRecords, r.service = t, UNCHANGED pc,
             found' = [found EXCEPT !.todo = @ \ {t}, !.records = Server!Keep(r)],
             diags \subseteq diags', \A d \in diags' : d.code \in Server!DiagCodes,
             IsWhole(r) \/ SaidOfService(diags', t)
      PROVE  ServerIInv'
  <2>1. /\ found'.folders = found.folders /\ found'.todo = found.todo \ {t}
        /\ found'.records = found.records \union {r} /\ found'.at = found.at
    BY <1>5 DEF ServerIInv, ServerTypes, Server!Keep
  <2>2. ServerTypes'
    BY <1>1, <1>2, <1>5, <2>1, NoFootprintYet DEF ServerIInv, ServerTypes, Server!Keep
  <2>3. \A s \in world.services : IsAccountedFor(found', diags', pc', s)
    <3>1. \A s \in world.services : IsAccountedFor(found, diags, pc, s)
      BY <1>1 DEF ServerIInv, ServicesAreAccountedFor
    <3> QED
      BY <1>1, <1>5, <2>1, <3>1, KeptIsAccountedFor
  <2>4. ServicesAreAccountedFor'
    BY <1>1, <1>5, <2>3 DEF ServicesAreAccountedFor
  <2> QED
    BY <1>1, <2>2, <2>4, NoFootprintYet DEF ServerIInv
<1>6. CASE o = "ok" /\ ~(t.type \in Server!LayerDetailTypes /\ t.layers # {})
  <2>1. /\ UNCHANGED <<pc, diags>>
        /\ found' = [found EXCEPT !.todo = @ \ {t}, !.records = Server!Keep(Server!Deep(t))]
    BY <1>6 DEF Server!ProbeService, Server!Step
  <2>2. IsWhole(Server!Deep(t))
    BY <1>4, <1>6 DEF IsWhole
  <2> QED
    BY <1>4, <1>5, <2>1, <2>2 DEF ServerIInv, ServerTypes
<1>7. CASE o # "ok"
  <2>1. /\ UNCHANGED pc /\ Server!Report(Server!ScopeOf(t), Server!ServiceCode(o))
        /\ found' = [found EXCEPT !.todo = @ \ {t}, !.records = Server!Keep(Server!Shallow(t))]
    BY <1>7 DEF Server!ProbeService, Server!Step
  <2>2. o \in Server!Failures
    BY <1>7 DEF Server!Outcomes
  <2>3. /\ diags \subseteq diags' /\ \A d \in diags' : d.code \in Server!DiagCodes
        /\ \E d \in diags' : d.scope = Server!ScopeOf(t)
    BY <2>1, <2>2, ReportAdds, CodesOfServer DEF ServerIInv
  <2>4. SaidOfService(diags', t)
    BY <2>3, ScopesAreTyped DEF SaidOfService
  <2> QED
    BY <1>4, <1>5, <2>1, <2>3, <2>4
<1>8. CASE o = "ok" /\ t.type \in Server!LayerDetailTypes /\ t.layers # {}
  <2>1. /\ pc' = "layers" /\ UNCHANGED diags
        /\ found' = [found EXCEPT !.todo = @ \ {t}, !.at = Server!Deep(t), !.pending = t.layers]
    BY <1>8 DEF Server!ProbeService, Server!Step
  <2>2. /\ found'.folders = found.folders /\ found'.todo = found.todo \ {t}
        /\ found'.records = found.records /\ found'.at = Server!Deep(t)
        /\ found'.pending = t.layers
    BY <2>1 DEF ServerIInv, ServerTypes
  <2>3. ServerTypes'
    BY <1>1, <1>2, <1>3, <1>4, <2>1, <2>2, NoFootprintYet DEF ServerIInv, ServerTypes
  <2>4. ASSUME NEW s \in world.services
        PROVE  IsAccountedFor(found', diags', pc', s)
    <3>1. IsAccountedFor(found, diags, pc, s)
      BY <1>1 DEF ServerIInv, ServicesAreAccountedFor
    <3>2. CASE s = t
      BY <1>4, <2>1, <2>2, <3>2 DEF IsAccountedFor
    <3>3. CASE s # t
      BY <1>1, <2>1, <2>2, <3>1, <3>3 DEF IsAccountedFor
    <3> QED
      BY <3>2, <3>3
  <2>5. LayersAreAccountedFor(found', diags')
    BY <1>2, <1>4, <2>2, <1>1 DEF LayersAreAccountedFor
  <2>6. ServicesAreAccountedFor'
    BY <1>1, <2>1, <2>4, <2>5 DEF ServicesAreAccountedFor, LayersAreAccountedFor
  <2> QED
    BY <1>1, <2>3, <2>6, NoFootprintYet DEF ServerIInv
<1> QED
  BY <1>6, <1>7, <1>8

LEMMA ProbeLayerKeeps ==
  ASSUME ServerIInv, NEW l \in found.pending, NEW o \in Server!Outcomes, Server!ProbeLayer(l, o)
  PROVE  ServerIInv'
<1> DEFINE t == found.at.service
           r == IF o = "ok" THEN [found.at EXCEPT !.detail = @ \union {l}] ELSE found.at
<1>1. /\ pc = "layers" /\ UNCHANGED <<world, result>>
      /\ IF o = "ok" THEN UNCHANGED diags
         ELSE Server!Report(Server!LayerScope(t, l), Server!ServiceCode(o))
  BY DEF Server!ProbeLayer, Server!Step
<1>2. LayersAreAccountedFor(found, diags) /\ l \in CatalogLayers
  BY <1>1 DEF ServerIInv, ServicesAreAccountedFor, ServerTypes
<1>3. /\ found.at \in ServerRecords /\ t \in world.services
      /\ found.at.deep /\ found.at.lock = t.lock /\ found.pending \subseteq t.layers
      /\ SaidOfService(diags, t) \/ found.at.detail = t.layers \ found.pending
  BY <1>2 DEF LayersAreAccountedFor
<1>4. /\ r \in ServerRecords /\ r.service = t /\ r.deep /\ r.lock = t.lock
      /\ r.detail = IF o = "ok" THEN found.at.detail \union {l} ELSE found.at.detail
  BY <1>2, <1>3 DEF ServerRecords
<1>5. /\ diags \subseteq diags' /\ \A d \in diags' : d.code \in Server!DiagCodes
      /\ o # "ok" => SaidOfService(diags', t)
  <2>1. CASE o = "ok"
    BY <1>1, <2>1 DEF ServerIInv, ServerTypes
  <2>2. CASE o # "ok"
    <3>1. o \in Server!Failures
      BY <2>2 DEF Server!Outcomes
    <3>2. /\ diags \subseteq diags' /\ \A d \in diags' : d.code \in Server!DiagCodes
          /\ \E d \in diags' : d.scope = Server!LayerScope(t, l)
      BY <1>1, <2>2, <3>1, ReportAdds, CodesOfServer DEF ServerIInv
    <3> QED
      BY <3>2, ScopesAreTyped DEF SaidOfService
  <2> QED
    BY <2>1, <2>2
<1>6. SaidOfService(diags, t) => SaidOfService(diags', t)
  BY <1>5 DEF SaidOfService
<1>7. SaidOfService(diags', t) \/ r.detail = t.layers \ (found.pending \ {l})
  <2>1. CASE o = "ok" /\ found.at.detail = t.layers \ found.pending
    BY <1>3, <1>4, <2>1
  <2>2. CASE ~(o = "ok" /\ found.at.detail = t.layers \ found.pending)
    BY <1>3, <1>5, <1>6, <2>2
  <2> QED
    BY <2>1, <2>2
<1>8. CASE found.pending = {l}
  <2>1. /\ pc' = "walk"
        /\ found' = [found EXCEPT !.pending = {}, !.at = None, !.records = Server!Keep(r)]
    BY <1>8 DEF Server!ProbeLayer, Server!Step
  <2>2. IsWhole(r) \/ SaidOfService(diags', t)
    BY <1>4, <1>7, <1>8 DEF IsWhole
  <2> HIDE DEF r
  <2>3. /\ found'.folders = found.folders /\ found'.todo = found.todo
        /\ found'.records = found.records \union {r}
    BY <2>1 DEF ServerIInv, ServerTypes, Server!Keep
  <2>4. ServerTypes'
    BY <1>1, <1>3, <1>4, <1>5, <2>1, <2>3, NoFootprintYet DEF ServerIInv, ServerTypes, Server!Keep
  <2>5. \A s \in world.services : IsAccountedFor(found', diags', pc', s)
    <3>1. \A s \in world.services : IsAccountedFor(found, diags, pc, s)
      BY <1>1 DEF ServerIInv, ServicesAreAccountedFor
    <3>2. /\ r \in found'.records /\ found.records \subseteq found'.records
          /\ found.todo \ {t} \subseteq found'.todo
      BY <2>3
    <3> QED
      BY <1>1, <1>4, <1>5, <2>2, <2>3, <3>1, <3>2, KeptIsAccountedFor
  <2>6. ServicesAreAccountedFor'
    BY <1>1, <2>1, <2>5 DEF ServicesAreAccountedFor
  <2> QED
    BY <1>1, <2>4, <2>6, NoFootprintYet DEF ServerIInv
<1>9. CASE found.pending # {l}
  <2>1. UNCHANGED pc /\ found' = [found EXCEPT !.pending = @ \ {l}, !.at = r]
    BY <1>9 DEF Server!ProbeLayer, Server!Step
  <2> HIDE DEF r
  <2>2. /\ found'.folders = found.folders /\ found'.todo = found.todo
        /\ found'.records = found.records /\ found'.at = r /\ found'.pending = found.pending \ {l}
    BY <2>1 DEF ServerIInv, ServerTypes
  <2>3. ServerTypes'
    BY <1>1, <1>4, <1>5, <2>1, <2>2, NoFootprintYet DEF ServerIInv, ServerTypes
  <2>4. ASSUME NEW s \in world.services
        PROVE  IsAccountedFor(found', diags', pc', s)
    <3>1. IsAccountedFor(found, diags', pc, s)
      BY <1>1, <1>5, StillAccountedFor DEF ServerIInv, ServicesAreAccountedFor
    <3> QED
      BY <1>4, <2>1, <2>2, <3>1 DEF IsAccountedFor
  <2>5. LayersAreAccountedFor(found', diags')
    BY <1>1, <1>3, <1>4, <1>7, <2>2 DEF LayersAreAccountedFor
  <2>6. ServicesAreAccountedFor'
    BY <1>1, <2>1, <2>4, <2>5 DEF ServicesAreAccountedFor, LayersAreAccountedFor
  <2> QED
    BY <1>1, <2>3, <2>6, NoFootprintYet DEF ServerIInv
<1> QED
  BY <1>8, <1>9

LEMMA EndWalkKeeps ==
  ASSUME ServerIInv, Server!EndWalk
  PROVE  ServerIInv'
<1>1. /\ pc = "walk" /\ pc' \in {"usage", "emit"} /\ found.todo = {} /\ found.folders = {}
      /\ UNCHANGED <<world, found, diags, result>>
  BY DEF Server!EndWalk, Server!Step
<1> QED
  BY <1>1, NoFootprintYet DEF ServerIInv, ServerTypes, ServicesAreAccountedFor, IsAccountedFor

\* What the administration tells leaves the inventory as it is.
LEMMA AdminKeeps ==
  ASSUME ServerIInv,
         \/ Server!AdminLimited
         \/ \E o \in Server!Outcomes : Server!ReadUsage(o) \/ Server!ReadStores(o)
  PROVE  ServerIInv'
<1>1. PICK usage \in SUBSET Catalog, stores \in SUBSET Stores :
        /\ pc \in {"usage", "stores"} /\ pc' \in {"stores", "emit"}
        /\ UNCHANGED <<world, result>>
        /\ found' = [found EXCEPT !.usage = usage, !.stores = stores]
        /\ diags \subseteq diags' /\ \A d \in diags' : d.code \in Server!DiagCodes
  <2>1. /\ world.services \subseteq Catalog /\ Server!Reported \subseteq Catalog
        /\ found.usage \subseteq Catalog /\ found.stores \subseteq Stores
        /\ \A d \in diags : d.code \in Server!DiagCodes
    BY DEF ServerIInv, ServerTypes, Server!Worlds, Server!Reported
  <2>2. ASSUME NEW o \in Server!Outcomes, o # "limited", o # "ok"
        PROVE  Server!AdminCode(o) \in Server!DiagCodes
    BY <2>2, CodesOfServer DEF Server!Outcomes
  <2>3. CASE Server!AdminLimited
    <3>1. diags \subseteq diags' /\ \A d \in diags' : d.code \in Server!DiagCodes
      BY <2>3, ReportAdds, CodesOfServer DEF Server!AdminLimited, ServerIInv
    <3> QED
      BY <2>3, <3>1 DEF Server!AdminLimited, Server!Step
  <2>4. ASSUME NEW o \in Server!Outcomes, Server!ReadUsage(o)
        PROVE  \E usage \in SUBSET Catalog, stores \in SUBSET Stores :
                 /\ pc \in {"usage", "stores"} /\ pc' \in {"stores", "emit"}
                 /\ UNCHANGED <<world, result>>
                 /\ found' = [found EXCEPT !.usage = usage, !.stores = stores]
                 /\ diags \subseteq diags' /\ \A d \in diags' : d.code \in Server!DiagCodes
    <3> DEFINE usage == IF o = "ok" THEN Server!Reported ELSE {}
    <3>1. /\ pc = "usage" /\ pc' = "stores" /\ o # "limited" /\ UNCHANGED <<world, result>>
          /\ found' = [found EXCEPT !.usage = usage]
          /\ IF o = "ok" THEN UNCHANGED diags
             ELSE Server!Report(<<"server.admin", "usagereports">>, Server!AdminCode(o))
      BY <2>4 DEF Server!ReadUsage, Server!Step
    <3>2. usage \in SUBSET Catalog
      BY <2>1
    <3> HIDE DEF usage
    <3>3. found' = [found EXCEPT !.usage = usage, !.stores = found.stores]
      BY <3>1 DEF ServerIInv, ServerTypes
    <3>4. diags \subseteq diags' /\ \A d \in diags' : d.code \in Server!DiagCodes
      BY <2>1, <2>2, <3>1, ReportAdds DEF ServerIInv
    <3> QED
      BY <2>1, <3>1, <3>2, <3>3, <3>4
  <2>5. ASSUME NEW o \in Server!Outcomes, Server!ReadStores(o)
        PROVE  \E usage \in SUBSET Catalog, stores \in SUBSET Stores :
                 /\ pc \in {"usage", "stores"} /\ pc' \in {"stores", "emit"}
                 /\ UNCHANGED <<world, result>>
                 /\ found' = [found EXCEPT !.usage = usage, !.stores = stores]
                 /\ diags \subseteq diags' /\ \A d \in diags' : d.code \in Server!DiagCodes
    <3> DEFINE stores == IF o = "ok" THEN Stores ELSE {}
    <3>1. /\ pc = "stores" /\ pc' = "emit" /\ o # "limited" /\ UNCHANGED <<world, result>>
          /\ found' = [found EXCEPT !.stores = stores]
          /\ IF o = "ok" THEN UNCHANGED diags
             ELSE Server!Report(<<"server.admin", "data/items">>, Server!AdminCode(o))
      BY <2>5 DEF Server!ReadStores, Server!Step
    <3>2. stores \in SUBSET Stores
      OBVIOUS
    <3> HIDE DEF stores
    <3>3. found' = [found EXCEPT !.usage = found.usage, !.stores = stores]
      BY <3>1 DEF ServerIInv, ServerTypes
    <3>4. diags \subseteq diags' /\ \A d \in diags' : d.code \in Server!DiagCodes
      BY <2>1, <2>2, <3>1, ReportAdds DEF ServerIInv
    <3> QED
      BY <2>1, <3>1, <3>2, <3>3, <3>4
  <2> QED
    BY <2>3, <2>4, <2>5
<1>2. /\ found'.folders = found.folders /\ found'.todo = found.todo
      /\ found'.records = found.records /\ found'.at = found.at /\ found'.pending = found.pending
  BY <1>1 DEF ServerIInv, ServerTypes
<1>3. ServerTypes'
  BY <1>1, <1>2, NoFootprintYet DEF ServerIInv, ServerTypes
<1>4. ASSUME NEW s \in world.services
      PROVE  IsAccountedFor(found', diags', pc', s)
  <2>1. IsAccountedFor(found, diags', pc, s)
    BY <1>1, StillAccountedFor DEF ServerIInv, ServicesAreAccountedFor
  <2> QED
    BY <1>1, <1>2, <2>1 DEF IsAccountedFor
<1>5. ServicesAreAccountedFor'
  BY <1>1, <1>2, <1>4 DEF ServerIInv, ServicesAreAccountedFor
<1> QED
  BY <1>1, <1>3, <1>5, NoFootprintYet DEF ServerIInv

LEMMA EmitServerKeeps ==
  ASSUME ServerIInv, Server!Emit
  PROVE  ServerIInv'
<1> DEFINE kept == Server!Retained
           verdict == Server!Evaluate({Server!Item(r) : r \in kept}, Server!Broad(kept), FALSE)
<1>1. /\ pc = "emit" /\ pc' = "ended" /\ UNCHANGED <<world, found, diags>>
      /\ result'.inventory = kept /\ result'.verdict = verdict
  BY DEF Server!Emit
<1>2. UNCHANGED kept
  BY <1>1 DEF Server!Retained, Server!Omitted
<1> HIDE DEF kept
<1>3. UNCHANGED verdict
  BY <1>2
<1>4. ServerResultIsTrue'
  BY <1>1, <1>2, <1>3 DEF ServerResultIsTrue, kept
<1> QED
  BY <1>1, <1>4 DEF ServerIInv, ServerTypes, ServicesAreAccountedFor, IsAccountedFor

LEMMA NextServer ==
  ASSUME ServerIInv, [Server!Next]_(Server!vars)
  PROVE  ServerIInv'
<1>1. ASSUME NEW o \in Server!Outcomes,
             \/ Server!ReadInfo(o) \/ Server!ReadRoot(o)
             \/ Server!ReadUsage(o) \/ Server!ReadStores(o)
      PROVE  ServerIInv'
  BY <1>1, ReadInfoKeeps, ReadRootKeeps, AdminKeeps
<1>2. ASSUME NEW o \in Server!Outcomes, NEW g \in found.folders, Server!ReadFolder(g, o)
      PROVE  ServerIInv'
  BY <1>2, ReadServerFolderKeeps
<1>3. ASSUME NEW o \in Server!Outcomes, NEW t \in found.todo, Server!ProbeService(t, o)
      PROVE  ServerIInv'
  BY <1>3, ProbeServiceKeeps
<1>4. ASSUME NEW o \in Server!Outcomes, NEW l \in found.pending, Server!ProbeLayer(l, o)
      PROVE  ServerIInv'
  BY <1>4, ProbeLayerKeeps
<1>5. ASSUME NEW t \in found.todo, Server!ListService(t)
      PROVE  ServerIInv'
  BY <1>5, ListServiceKeeps
<1>6. CASE UNCHANGED Server!vars
  <2>1. UNCHANGED <<world, pc, found, diags, result>>
    BY <1>6 DEF Server!vars
  <2>2. UNCHANGED Server!Retained
    BY <2>1 DEF Server!Retained, Server!Omitted
  <2>3. ServerResultIsTrue'
    BY <2>1, <2>2 DEF ServerIInv, ServerResultIsTrue
  <2> QED
    BY <2>1, <2>3 DEF ServerIInv, ServerTypes, ServicesAreAccountedFor, LayersAreAccountedFor
<1> QED
  BY <1>1, <1>2, <1>3, <1>4, <1>5, <1>6, EndWalkKeeps, AdminKeeps, EmitServerKeeps DEF Server!Next

LEMMA ServerTypeOKFollows ==
  ASSUME ServerIInv
  PROVE  Server!TypeOK
BY DEF ServerIInv, ServerTypes, Server!TypeOK

LEMMA EveryGapIsReportedFollows ==
  ASSUME ServerIInv
  PROVE  Server!EveryGapIsReported
<1> SUFFICES ASSUME result # None, NEW s \in world.services
             PROVE  Server!Complete(s) \/ Server!GapReported(s)
  BY DEF Server!EveryGapIsReported
<1>1. pc = "ended" /\ found.todo = {} /\ found.folders = {} /\ IsAccountedFor(found, diags, pc, s)
  BY DEF ServerIInv, ServerTypes, ServicesAreAccountedFor
<1>2. CASE SaidOfFolder(diags, s) \/ SaidOfService(diags, s)
  BY <1>2 DEF SaidOfFolder, SaidOfService, Server!GapReported
<1>3. CASE \E r \in found.records : r.service = s /\ IsWhole(r)
  <2>1. PICK r \in found.records : r.service = s /\ IsWhole(r)
    BY <1>3
  <2>2. CASE Server!Omitted(r)
    BY <2>1, <2>2 DEF Server!Omitted, Server!GapReported
  <2>3. CASE ~Server!Omitted(r)
    <3>1. r \in Server!Kept(s)
      BY <2>1, <2>3 DEF ServerIInv, ServerResultIsTrue, Server!Retained, Server!Kept
    <3> QED
      BY <2>1, <3>1 DEF IsWhole, Server!Complete
  <2> QED
    BY <2>2, <2>3
<1> QED
  BY <1>1, <1>2, <1>3 DEF IsAccountedFor

\* Every capability of the registry has a tier.
LEMMA TiersAreKnown ==
  \A e \in Server!Registry : e.tier \in {"go", "conditional", "no-go"}
<1> DEFINE Entry(k, t, p, s, c, ps) == Server!Entry(k, t, p, s, c, ps)
           e1 == Entry("web-map", "go", {"Web Map"}, {}, {}, Server!Web \union {"gov"})
           e2 == Entry("feature-service", "go", {"Feature Service"}, {"FeatureServer"}, {},
                       Server!Web \union {"editing-heavy", "gov"})
           e3 == Entry("editing", "go", {}, {}, {"editing"}, {"editing-heavy"})
           e4 == Entry("image-service", "conditional", {"Image Service"}, {"ImageServer"},
                       {"image"}, {"raster/imagery"})
           e5 == Entry("dashboards-apps", "conditional", {"Dashboard"}, {}, {},
                       Server!Web \union {"gov"})
           e6 == Entry("geoprocessing", "conditional", {"Geoprocessing Service"}, {"GPServer"},
                       {}, {})
           e7 == Entry("utility-network", "no-go", {"Utility Network"}, {"UtilityNetworkServer"},
                       {"utilitynetwork"}, {"utility"})
           e8 == Entry("parcel-fabric", "no-go", {"Parcel Fabric"}, {"ParcelFabricServer"},
                       {"parcelfabric"}, {"gov"})
           e9 == Entry("lrs", "no-go", {"LRS Network"}, {"LRServer"}, {"lrs"}, {"utility", "gov"})
<1>1. Server!Registry = {e1, e2, e3, e4, e5, e6, e7, e8, e9}
  BY DEF Server!Registry
<1>2. e1.tier = "go" /\ e2.tier = "go" /\ e3.tier = "go"
  BY DEF Server!Entry
<1>3. e4.tier = "conditional" /\ e5.tier = "conditional" /\ e6.tier = "conditional"
  BY DEF Server!Entry
<1>4. e7.tier = "no-go" /\ e8.tier = "no-go" /\ e9.tier = "no-go"
  BY DEF Server!Entry
<1> HIDE DEF e1, e2, e3, e4, e5, e6, e7, e8, e9
<1> QED
  BY <1>1, <1>2, <1>3, <1>4

\* The worst tier decides.
LEMMA NoGoDecides ==
  ASSUME NEW entries \in SUBSET Server!Registry, NEW e \in entries, e.tier = "no-go"
  PROVE  Server!Tier(entries) = "no-go" /\ e.key \in Server!Boundaries(entries)
<1>1. \A f \in entries : f.tier \in {"go", "conditional", "no-go"}
  BY TiersAreKnown
<1>2. /\ Server!TierRank["go"] = 0 /\ Server!TierRank["conditional"] = 1
      /\ Server!TierRank["no-go"] = 2
  BY DEF Server!TierRank
<1>3. \A f \in entries : Server!TierRank[f.tier] \in 0 .. 2
                         /\ (Server!TierRank[f.tier] = 2 => f.tier = "no-go")
  BY <1>1, <1>2
<1> DEFINE worst(g) == \A f \in entries : Server!TierRank[f.tier] <= Server!TierRank[g.tier]
           g == CHOOSE x \in entries : worst(x)
<1>4. worst(e)
  BY <1>2, <1>3
<1>5. g \in entries /\ worst(g)
  BY <1>4
<1>6. g.tier = "no-go"
  BY <1>2, <1>3, <1>5
<1>7. Server!Tier(entries) = "no-go"
  BY <1>6 DEF Server!Tier
<1> QED
  BY <1>7 DEF Server!Boundaries

LEMMA LockInTypesAreNoGoFollows ==
  ASSUME ServerIInv
  PROVE  Server!LockInTypesAreNoGo
<1> SUFFICES ASSUME result # None, NEW s \in world.services, s.type = "UtilityNetworkServer",
                    Server!Kept(s) # {}, NEW p \in Server!Profiles
             PROVE  /\ result.verdict[p].verdict = "no-go"
                    /\ "utility-network" \in result.verdict[p].boundaries
  BY DEF Server!LockInTypesAreNoGo
<1> DEFINE items == {Server!Item(r) : r \in Server!Retained}
           entries == Server!EntriesFor(p, items)
           e == Server!Entry("utility-network", "no-go", {"Utility Network"},
                             {"UtilityNetworkServer"}, {"utilitynetwork"}, {"utility"})
<1>1. PICK r \in Server!Retained : r.service = s
  BY DEF ServerIInv, ServerResultIsTrue, Server!Kept
<1>2. Server!Matches(e, Server!Item(r))
  BY <1>1 DEF Server!Matches, Server!Item, Server!Entry
<1>3. e \in Server!Registry /\ e.key = "utility-network" /\ e.tier = "no-go"
  BY DEF Server!Registry, Server!Entry
<1> HIDE DEF e
<1>4. e \in Server!Detected(items)
  BY <1>1, <1>2, <1>3 DEF Server!Detected
<1>5. e \in entries /\ entries \in SUBSET Server!Registry
  BY <1>3, <1>4 DEF Server!EntriesFor, Server!Detected, Server!HardLockIns
<1>6. result.verdict = Server!Evaluate(items, Server!Broad(Server!Retained), FALSE)
  BY DEF ServerIInv, ServerResultIsTrue
<1>7. /\ result.verdict[p].verdict = Server!Tier(entries)
      /\ result.verdict[p].boundaries = Server!Boundaries(entries)
  <2> HIDE DEF items
  <2> QED
    BY <1>6 DEF Server!Evaluate
<1> HIDE DEF entries
<1> QED
  BY <1>3, <1>5, <1>7, NoGoDecides

-----------------------------------------------------------------------------
(* Licences.                                                               *)

LicensingScopes ==
  {<<"portal", "self">>, <<"portal", "subscriptionInfo">>, <<"portal", "userLicenseTypes">>,
   <<"portal", "users">>, <<"rest/info">>, <<"admin/info">>, <<"system/licenses">>, <<"services">>}
    \union {<<"services", s.folder>> : s \in LicensedServices}
    \union {Licensing!ServiceScope(s) : s \in LicensedServices}

Extensions == [code : Codes \union {l.code : l \in Licences},
               status : {"licensed", "evaluation", "expired", "unknown"}]

ServiceExtensions ==
  {[service |-> s, extensions |-> Licensing!Enabled(s)] : s \in LicensedServices}

Licensed == [extensions : SUBSET Extensions, seats : Licensing!Seats, anyone : BOOLEAN,
             version : {None, "rest", "admin"}, edition : BOOLEAN,
             folders : SUBSET {s.folder : s \in LicensedServices}, todo : SUBSET LicensedServices,
             services : SUBSET ServiceExtensions, silent : SUBSET LicensingScopes]

LicensingTypes ==
  /\ world \in Licensing!Worlds
  /\ found \in Licensed
  /\ pc \in IF world.part = "portal"
            THEN {"self", "subscription", "types", "users", "end", "ended", "aborted"}
            ELSE {"rest", "admin", "licenses", "services", "folders", "end", "ended", "aborted"}
  /\ result # None => pc = "ended" /\ result = found

\* What scope would have told is missing: a diagnostic says so, or it said nothing.
Missing(f, ds, scope) == (\E d \in ds : d.scope = scope) \/ scope \in f.silent

CodesOf(f) == {e.code : e \in f.extensions}

\* What a portal has told so far.
PortalIsTrue(w, f, ds, p) ==
  w.part = "portal" /\ p # "aborted" =>
    /\ CodesOf(f) \subseteq w.self \union w.subscription
    /\ p # "self" => w.self \subseteq CodesOf(f) \/ Missing(f, ds, <<"portal", "self">>)
    /\ p \notin {"self", "subscription"} =>
         /\ w.subscription \subseteq CodesOf(f) \/ Missing(f, ds, <<"portal", "subscriptionInfo">>)
         /\ w.seats = "counted" /\ f.seats # "counted" =>
              Missing(f, ds, <<"portal", "subscriptionInfo">>)
    /\ \A c \in CodesOf(f) \ Catalogued : Licensing!Unknown(c) \in ds
    /\ p \in {"users", "end", "ended"} =>
         (w.types = "counted" /\ f.seats # "counted" =>
            Missing(f, ds, <<"portal", "userLicenseTypes">>) \/ w.anonymous)
    /\ f.anyone => f.seats = "unlisted" /\ p \in {"end", "ended"}

\* What a server has told so far.
ServerIsTrue(w, f, ds, p) ==
  w.part = "server" /\ p # "aborted" =>
    /\ \A e \in f.extensions : e.status = "licensed" =>
         \E l \in w.licences : l.code = e.code /\ l.status \in {"good", "valid", "licensed", "ok"}
    /\ p \notin {"rest", "admin", "licenses"} =>
         \A l \in w.licences : (\E e \in f.extensions : e.code = l.code)
                               \/ Missing(f, ds, <<"system/licenses">>)
    /\ p # "rest" /\ f.version = None => Missing(f, ds, <<"rest/info">>)
    /\ p \notin {"rest", "admin"} /\ f.version = None => Missing(f, ds, <<"admin/info">>)
    /\ p \in {"services", "folders"} => w.extensions
    /\ p = "end" => ~w.extensions
    /\ p = "folders" \/ (p = "ended" /\ w.extensions) => \A s \in w.services :
         \/ s.folder \in f.folders \/ s \in f.todo
         \/ [service |-> s, extensions |-> Licensing!Enabled(s)] \in f.services
         \/ Missing(f, ds, <<"services">>) \/ Missing(f, ds, <<"services", s.folder>>)
         \/ Missing(f, ds, Licensing!ServiceScope(s))
    /\ p = "ended" /\ w.extensions => f.folders = {} /\ f.todo = {}
    /\ f.todo \subseteq w.services

LicensingIInv ==
  LicensingTypes /\ PortalIsTrue(world, found, diags, pc) /\ ServerIsTrue(world, found, diags, pc)

LEMMA LicensingWorlds ==
  ASSUME world \in Licensing!Worlds
  PROVE  /\ world.part \in {"portal", "server"}
         /\ world.part = "portal" => /\ world.self \subseteq Codes /\ world.subscription \subseteq Codes
                                     /\ world.seats \in Licensing!Seats
                                     /\ world.types \in Licensing!Seats
         /\ world.part = "server" => /\ world.licences \subseteq Licences
                                     /\ world.services \subseteq LicensedServices
BY DEF Licensing!Worlds

LEMMA InitLicensing ==
  ASSUME Licensing!Init
  PROVE  LicensingIInv
<1>1. LicensingTypes
  BY LicensingWorlds DEF Licensing!Init, LicensingTypes, Licensed, Licensing!Seats
<1>2. CodesOf(found) = {}
  BY DEF Licensing!Init, CodesOf
<1> QED
  BY <1>1, <1>2, LicensingWorlds DEF Licensing!Init, LicensingIInv, PortalIsTrue, ServerIsTrue

LEMMA AbortLicensingKeeps ==
  ASSUME LicensingIInv, Licensing!Abort, pc # "ended"
  PROVE  LicensingIInv'
<1>1. pc' = "aborted" /\ UNCHANGED <<world, found, diags, result>>
  BY DEF Licensing!Abort
<1> QED
  BY <1>1 DEF LicensingIInv, LicensingTypes, PortalIsTrue, ServerIsTrue

\* What a request that told nothing leaves.
ToldNothing ==
  /\ found' \in Licensed /\ CodesOf(found') = CodesOf(found)
  /\ \A field \in {"extensions", "seats", "anyone", "version", "folders", "todo", "services"} :
       found'[field] = found[field]
  /\ found.silent \subseteq found'.silent

LEMMA NothingTold ==
  ASSUME found \in Licensed, NEW silent \in SUBSET LicensingScopes,
         found.silent \subseteq silent, found' = [found EXCEPT !.silent = silent]
  PROVE  ToldNothing /\ found'.silent = silent
<1>1. found' \in Licensed /\ found'.extensions = found.extensions
  BY DEF Licensed
<1>2. CodesOf(found') = CodesOf(found)
  BY <1>1 DEF CodesOf
<1> QED
  BY <1>1, <1>2 DEF Licensed, ToldNothing

\* A request that does not end the collection told what it is read for, or its
\* scope is missing from then on.
LEMMA AskTells ==
  ASSUME LicensingIInv, pc # "ended", NEW scope \in LicensingScopes, NEW o \in Licensing!Answers,
         NEW next, NEW read, Licensing!Ask(scope, o, next, read)
  PROVE  \/ LicensingIInv'
         \/ /\ pc' = next /\ UNCHANGED <<world, result>> /\ result = None
            /\ diags \subseteq diags'
            /\ \/ o = "ok" /\ found' = read
               \/ o # "ok" /\ ToldNothing /\ Missing(found', diags', scope)
<1>1. CASE ~Licensing!Soft(o)
  BY <1>1, AbortLicensingKeeps DEF Licensing!Ask
<1>2. CASE Licensing!Soft(o)
  <2>1. /\ pc' = next /\ UNCHANGED <<world, result>>
        /\ found' = IF o = "ok" THEN read
                    ELSE IF o \in Licensing!Shapeless
                         THEN [found EXCEPT !.silent = @ \union {scope}] ELSE found
        /\ diags' = diags \union (IF Licensing!Readable(o) THEN {}
                                  ELSE {Licensing!Diag(scope, Licensing!Code(o))})
    BY <1>2 DEF Licensing!Ask
  <2>2. result = None /\ found \in Licensed
    BY DEF LicensingIInv, LicensingTypes
  <2>3. CASE o = "ok"
    BY <2>1, <2>2, <2>3
  <2>4. CASE o \in Licensing!Shapeless
    <3>1. o # "ok"
      BY <2>4 DEF Licensing!Shapeless
    <3> DEFINE silent == found.silent \union {scope}
    <3>2. silent \in SUBSET LicensingScopes /\ found.silent \subseteq silent /\ scope \in silent
      BY <2>2 DEF Licensed
    <3>3. found' = [found EXCEPT !.silent = silent]
      BY <2>1, <2>4, <3>1
    <3> HIDE DEF silent
    <3>4. ToldNothing /\ scope \in found'.silent
      BY <2>2, <3>2, <3>3, NothingTold
    <3> QED
      BY <2>1, <2>2, <3>1, <3>4 DEF Missing
  <2>5. CASE o # "ok" /\ o \notin Licensing!Shapeless
    <3>1. found' = found /\ found' = [found EXCEPT !.silent = found.silent]
          /\ found.silent \in SUBSET LicensingScopes
      BY <2>1, <2>2, <2>5 DEF Licensed
    <3>2. Licensing!Diag(scope, Licensing!Code(o)) \in diags'
          /\ Licensing!Diag(scope, Licensing!Code(o)).scope = scope
      BY <2>1, <2>5 DEF Licensing!Readable, Licensing!Diag
    <3>3. ToldNothing
      BY <2>2, <3>1, NothingTold
    <3> QED
      BY <2>1, <2>2, <2>5, <3>2, <3>3 DEF Missing
  <2> QED
    BY <2>3, <2>4, <2>5
<1> QED
  BY <1>1, <1>2

\* A gap that was named stays named.
LEMMA StillMissing ==
  ASSUME found.silent \subseteq found'.silent, diags \subseteq diags', NEW scope,
         Missing(found, diags, scope)
  PROVE  Missing(found', diags', scope)
BY DEF Missing

LEMMA PortalPhases ==
  ASSUME LicensingIInv
  PROVE  /\ pc \in {"self", "subscription", "types", "users"} => world.part = "portal"
         /\ pc \in {"rest", "admin", "licenses", "services", "folders"} => world.part = "server"
BY LicensingWorlds DEF LicensingIInv, LicensingTypes

\* What portals/self or the subscription adds.
LEMMA SubscribedCodes ==
  ASSUME NEW codes \in SUBSET Codes
  PROVE  /\ Licensing!Subscribed(codes) \subseteq Extensions
         /\ {e.code : e \in Licensing!Subscribed(codes)} = codes
<1> DEFINE entry(c) == [code |-> c, status |-> "licensed"]
<1>1. \A c \in codes : entry(c) \in Extensions /\ entry(c).code = c
  BY DEF Extensions
<1>2. Licensing!Subscribed(codes) = {entry(c) : c \in codes}
  BY DEF Licensing!Subscribed
<1> HIDE DEF entry
<1> QED
  BY <1>1, <1>2

LEMMA ReadPortalSelfKeeps ==
  ASSUME LicensingIInv, NEW o \in Licensing!Answers, Licensing!ReadSelf(o)
  PROVE  LicensingIInv'
<1>1. pc = "self" /\ world.part = "portal" /\ result = None /\ found \in Licensed
      /\ ~found.anyone /\ world.self \subseteq Codes /\ world.subscription \subseteq Codes
      /\ world \in Licensing!Worlds
  BY PortalPhases, LicensingWorlds
  DEF Licensing!ReadSelf, LicensingIInv, LicensingTypes, PortalIsTrue, Licensed
<1>2. CASE ~Licensing!Readable(o)
  BY <1>1, <1>2, AbortLicensingKeeps DEF Licensing!ReadSelf
<1>3. CASE Licensing!Readable(o)
  <2> DEFINE gap == Licensing!Diag(<<"portal", "subscriptionInfo">>, "missing-permission")
             odd == Licensing!Diag(<<"portal", "self">>, "partial-coverage")
  <2>1. /\ pc' = IF world.anonymous THEN "end" ELSE "subscription"
        /\ world' = world /\ result' = None
        /\ diags \subseteq diags'
        /\ world.anonymous => gap \in diags'
        /\ gap.scope = <<"portal", "subscriptionInfo">> /\ odd.scope = <<"portal", "self">>
    BY <1>1, <1>3 DEF Licensing!ReadSelf, Licensing!Diag
  <2>2. world.anonymous => Missing(found', diags', <<"portal", "subscriptionInfo">>)
    BY <2>1 DEF Missing
  <2>3. CASE o = "ok"
    <3>1. found' = [found EXCEPT !.extensions = Licensing!Subscribed(world.self)]
          /\ Licensing!Flags(world.self) \subseteq diags'
      BY <1>3, <2>3 DEF Licensing!ReadSelf
    <3>2. found' \in Licensed /\ found'.extensions = Licensing!Subscribed(world.self)
          /\ ~found'.anyone
      BY <1>1, <3>1, SubscribedCodes DEF Licensed
    <3>3. CodesOf(found') = world.self
      BY <1>1, <3>2, SubscribedCodes DEF CodesOf
    <3>4. \A c \in world.self \ Catalogued : Licensing!Unknown(c) \in diags'
      BY <3>1 DEF Licensing!Flags
    <3>5. PortalIsTrue(world', found', diags', pc')
      BY <1>1, <2>1, <2>2, <3>2, <3>3, <3>4 DEF PortalIsTrue
    <3> QED
      BY <1>1, <2>1, <3>2, <3>5 DEF LicensingIInv, LicensingTypes, ServerIsTrue
  <2>4. CASE o # "ok"
    <3> DEFINE silent == found.silent \union {<<"portal", "self">>}
    <3>1. silent \in SUBSET LicensingScopes
      BY <1>1 DEF Licensed, LicensingScopes
    <3>2. found' = [found EXCEPT !.silent = silent] /\ odd \in diags'
      BY <1>3, <2>4 DEF Licensing!ReadSelf
    <3> HIDE DEF silent, odd, gap
    <3>3. found' \in Licensed /\ found'.extensions = found.extensions /\ ~found'.anyone
      BY <1>1, <3>1, <3>2 DEF Licensed
    <3>4. Missing(found', diags', <<"portal", "self">>)
      BY <2>1, <3>2 DEF Missing
    <3>5. CodesOf(found') = CodesOf(found)
      BY <3>3 DEF CodesOf
    <3>6. PortalIsTrue(world, found, diags, pc)
      BY DEF LicensingIInv
    <3>7. PortalIsTrue(world', found', diags', pc')
      BY <1>1, <2>1, <2>2, <3>3, <3>4, <3>5, <3>6 DEF PortalIsTrue
    <3> QED
      BY <1>1, <2>1, <3>3, <3>7 DEF LicensingIInv, LicensingTypes, ServerIsTrue
  <2> QED
    BY <2>3, <2>4
<1> QED
  BY <1>2, <1>3

LEMMA ReadSubscriptionKeeps ==
  ASSUME LicensingIInv, NEW o \in Licensing!Answers, Licensing!ReadSubscription(o)
  PROVE  LicensingIInv'
<1> DEFINE scope == <<"portal", "subscriptionInfo">>
<1>1. pc = "subscription" /\ world.part = "portal" /\ result = None /\ found \in Licensed
      /\ ~found.anyone /\ world.self \subseteq Codes /\ world.subscription \subseteq Codes
      /\ world \in Licensing!Worlds /\ world.seats \in Licensing!Seats
      /\ scope \in LicensingScopes
  BY PortalPhases, LicensingWorlds
  DEF Licensing!ReadSubscription, LicensingIInv, LicensingTypes, PortalIsTrue, LicensingScopes
<1>2. PortalIsTrue(world, found, diags, pc)
  BY DEF LicensingIInv
<1>3. CASE o = "ok"
  <2> DEFINE more == found.extensions \union Licensing!Subscribed(world.subscription)
  <2>1. /\ pc' = "types" /\ world' = world /\ result' = None
        /\ found' = [found EXCEPT !.extensions = more, !.seats = world.seats]
        /\ diags' = diags \union Licensing!Flags(world.subscription)
    BY <1>1, <1>3 DEF Licensing!ReadSubscription
  <2>2. more \in SUBSET Extensions
    BY <1>1, SubscribedCodes DEF Licensed
  <2>3. {e.code : e \in more} = CodesOf(found) \union world.subscription
    BY <1>1, SubscribedCodes DEF CodesOf
  <2> HIDE DEF more
  <2>4. /\ found' \in Licensed /\ found'.extensions = more /\ found'.seats = world.seats
        /\ found'.anyone = found.anyone /\ found'.silent = found.silent
    BY <1>1, <2>1, <2>2 DEF Licensed
  <2>5. CodesOf(found') = CodesOf(found) \union world.subscription
    BY <2>3, <2>4 DEF CodesOf
  <2>6. \A c \in CodesOf(found') \ Catalogued : Licensing!Unknown(c) \in diags'
    BY <1>1, <1>2, <2>1, <2>5 DEF PortalIsTrue, Licensing!Flags
  <2>7. Missing(found, diags, <<"portal", "self">>) => Missing(found', diags', <<"portal", "self">>)
    BY <2>1, <2>4 DEF Missing
  <2>8. PortalIsTrue(world', found', diags', pc')
    BY <1>1, <1>2, <2>1, <2>4, <2>5, <2>6, <2>7 DEF PortalIsTrue
  <2> QED
    BY <1>1, <2>1, <2>4, <2>8 DEF LicensingIInv, LicensingTypes, ServerIsTrue
<1>4. CASE o # "ok"
  <2>1. Licensing!Ask(scope, o, "types", found)
    BY <1>4 DEF Licensing!ReadSubscription
  <2>2. \/ LicensingIInv'
        \/ /\ pc' = "types" /\ UNCHANGED <<world, result>> /\ diags \subseteq diags'
           /\ ToldNothing /\ Missing(found', diags', scope)
    BY <1>1, <1>4, <2>1, AskTells
  <2>3. CASE /\ pc' = "types" /\ UNCHANGED <<world, result>> /\ diags \subseteq diags'
             /\ ToldNothing /\ Missing(found', diags', scope)
    <3>1. Missing(found, diags, <<"portal", "self">>) => Missing(found', diags', <<"portal", "self">>)
      BY <2>3, StillMissing DEF ToldNothing
    <3>2. PortalIsTrue(world', found', diags', pc')
      BY <1>1, <1>2, <2>3, <3>1 DEF PortalIsTrue, ToldNothing
    <3> QED
      BY <1>1, <2>3, <3>2 DEF LicensingIInv, LicensingTypes, ServerIsTrue, ToldNothing
  <2> QED
    BY <2>2, <2>3
<1> QED
  BY <1>3, <1>4


LEMMA ReadTypesKeeps ==
  ASSUME LicensingIInv, NEW o \in Licensing!Answers, Licensing!ReadTypes(o)
  PROVE  LicensingIInv'
<1> DEFINE scope == <<"portal", "userLicenseTypes">>
           next == IF world.named /\ <<"portal", "self">> \notin found.silent THEN "users" ELSE "end"
           seats == Licensing!MergeTypes(found.seats, world.types)
           read == [found EXCEPT !.seats = seats]
<1>1. pc = "types" /\ world.part = "portal" /\ result = None /\ found \in Licensed
      /\ ~found.anyone /\ world \in Licensing!Worlds /\ world.types \in Licensing!Seats
      /\ scope \in LicensingScopes /\ found.seats \in Licensing!Seats
  BY PortalPhases, LicensingWorlds
  DEF Licensing!ReadTypes, LicensingIInv, LicensingTypes, PortalIsTrue, LicensingScopes, Licensed
<1>2. PortalIsTrue(world, found, diags, pc)
  BY DEF LicensingIInv
<1>3. /\ seats \in Licensing!Seats
      /\ found.seats = "counted" => seats = "counted"
      /\ world.types = "counted" => seats = "counted"
  BY <1>1 DEF Licensing!MergeTypes, Licensing!Seats
<1>4. Licensing!Ask(scope, o, next, read)
  BY <1>1 DEF Licensing!ReadTypes
<1>5. next \in {"users", "end"}
  OBVIOUS
<1> HIDE DEF next, seats
<1>6. /\ read \in Licensed /\ read.seats = seats /\ read.extensions = found.extensions
      /\ read.anyone = found.anyone /\ read.silent = found.silent
  BY <1>1, <1>3 DEF Licensed
<1> HIDE DEF read
<1>7. \/ LicensingIInv'
      \/ /\ pc' = next /\ UNCHANGED <<world, result>> /\ diags \subseteq diags'
         /\ found' = read \/ (ToldNothing /\ Missing(found', diags', scope))
  BY <1>1, <1>4, AskTells
<1>8. CASE /\ pc' = next /\ UNCHANGED <<world, result>> /\ diags \subseteq diags'
           /\ found' = read \/ (ToldNothing /\ Missing(found', diags', scope))
  <2>1. /\ found' \in Licensed /\ CodesOf(found') = CodesOf(found)
        /\ found'.anyone = found.anyone /\ found.silent \subseteq found'.silent
        /\ found.seats = "counted" => found'.seats = "counted"
        /\ world.types = "counted" =>
             found'.seats = "counted" \/ Missing(found', diags', scope)
    BY <1>1, <1>3, <1>6, <1>8 DEF ToldNothing, CodesOf
  <2>2. \A s : Missing(found, diags, s) => Missing(found', diags', s)
    BY <1>8, <2>1, StillMissing
  <2>3. PortalIsTrue(world', found', diags', pc')
    BY <1>1, <1>2, <1>5, <1>8, <2>1, <2>2 DEF PortalIsTrue
  <2> QED
    BY <1>1, <1>5, <1>8, <2>1, <2>3 DEF LicensingIInv, LicensingTypes, ServerIsTrue
<1> QED
  BY <1>7, <1>8

LEMMA ReadPortalUsersKeeps ==
  ASSUME LicensingIInv, NEW o \in Licensing!Answers, Licensing!ReadUsers(o)
  PROVE  LicensingIInv'
<1> DEFINE scope == <<"portal", "users">>
           anyone == found.seats = "unlisted"
           read == [found EXCEPT !.anyone = anyone]
<1>1. pc = "users" /\ world.part = "portal" /\ result = None /\ found \in Licensed
      /\ ~found.anyone /\ world \in Licensing!Worlds /\ scope \in LicensingScopes
  BY PortalPhases, LicensingWorlds
  DEF Licensing!ReadUsers, LicensingIInv, LicensingTypes, PortalIsTrue, LicensingScopes, Licensed
<1>2. PortalIsTrue(world, found, diags, pc)
  BY DEF LicensingIInv
<1>3. Licensing!Ask(scope, o, "end", read)
  BY <1>1 DEF Licensing!ReadUsers
<1>4. anyone \in BOOLEAN
  OBVIOUS
<1> HIDE DEF anyone
<1>5. /\ read \in Licensed /\ read.seats = found.seats /\ read.extensions = found.extensions
      /\ read.anyone = anyone /\ read.silent = found.silent
  BY <1>1, <1>4 DEF Licensed
<1> HIDE DEF read
<1>6. \/ LicensingIInv'
      \/ /\ pc' = "end" /\ UNCHANGED <<world, result>> /\ diags \subseteq diags'
         /\ found' = read \/ ToldNothing
  BY <1>1, <1>3, AskTells
<1>7. CASE /\ pc' = "end" /\ UNCHANGED <<world, result>> /\ diags \subseteq diags'
           /\ found' = read \/ ToldNothing
  <2>1. /\ found' \in Licensed /\ CodesOf(found') = CodesOf(found)
        /\ found'.seats = found.seats /\ found.silent \subseteq found'.silent
        /\ found'.anyone => found'.seats = "unlisted"
    BY <1>1, <1>5, <1>7 DEF ToldNothing, CodesOf, anyone
  <2>2. \A s : Missing(found, diags, s) => Missing(found', diags', s)
    BY <1>7, <2>1, StillMissing
  <2>3. PortalIsTrue(world', found', diags', pc')
    BY <1>1, <1>2, <1>7, <2>1, <2>2 DEF PortalIsTrue
  <2> QED
    BY <1>1, <1>7, <2>1, <2>3 DEF LicensingIInv, LicensingTypes, ServerIsTrue
<1> QED
  BY <1>6, <1>7

LEMMA ReadRestKeeps ==
  ASSUME LicensingIInv, NEW o \in Licensing!Answers, Licensing!ReadRest(o)
  PROVE  LicensingIInv'
<1> DEFINE scope == <<"rest/info">>
           read == [found EXCEPT !.version = "rest"]
<1>1. pc = "rest" /\ world.part = "server" /\ result = None /\ found \in Licensed
      /\ world \in Licensing!Worlds /\ scope \in LicensingScopes
  BY PortalPhases DEF Licensing!ReadRest, LicensingIInv, LicensingTypes, LicensingScopes
<1>2. ServerIsTrue(world, found, diags, pc)
  BY DEF LicensingIInv
<1>3. Licensing!Ask(scope, o, "admin", read)
  BY <1>1 DEF Licensing!ReadRest
<1>4. /\ read \in Licensed /\ read.version = "rest" /\ read.extensions = found.extensions
      /\ read.todo = found.todo /\ "rest" # None
  BY <1>1, LicensingAssumption DEF Licensed
<1> HIDE DEF read
<1>5. \/ LicensingIInv'
      \/ /\ pc' = "admin" /\ UNCHANGED <<world, result>> /\ diags \subseteq diags'
         /\ found' = read \/ (ToldNothing /\ Missing(found', diags', scope))
  BY <1>1, <1>3, AskTells
<1>6. CASE /\ pc' = "admin" /\ UNCHANGED <<world, result>> /\ diags \subseteq diags'
           /\ found' = read \/ (ToldNothing /\ Missing(found', diags', scope))
  <2>1. /\ found' \in Licensed /\ found'.extensions = found.extensions
        /\ found'.todo = found.todo
        /\ found'.version = None => Missing(found', diags', scope)
    BY <1>1, <1>4, <1>6 DEF ToldNothing
  <2>2. ServerIsTrue(world', found', diags', pc')
    BY <1>1, <1>2, <1>6, <2>1 DEF ServerIsTrue
  <2> QED
    BY <1>1, <1>6, <2>1, <2>2 DEF LicensingIInv, LicensingTypes, PortalIsTrue
<1> QED
  BY <1>5, <1>6

LEMMA ReadAdminKeeps ==
  ASSUME LicensingIInv, NEW o \in Licensing!Answers, Licensing!ReadAdmin(o)
  PROVE  LicensingIInv'
<1> DEFINE scope == <<"admin/info">>
           version == IF found.version = None THEN "admin" ELSE found.version
           read == [found EXCEPT !.edition = TRUE, !.version = version]
<1>1. pc = "admin" /\ world.part = "server" /\ result = None /\ found \in Licensed
      /\ world \in Licensing!Worlds /\ scope \in LicensingScopes
  BY PortalPhases DEF Licensing!ReadAdmin, LicensingIInv, LicensingTypes, LicensingScopes
<1>2. ServerIsTrue(world, found, diags, pc)
  BY DEF LicensingIInv
<1>3. Licensing!Ask(scope, o, "licenses", read)
  BY <1>1 DEF Licensing!ReadAdmin
<1>4. version \in {"rest", "admin"} /\ None \notin {"rest", "admin"}
  BY <1>1, LicensingAssumption DEF Licensed
<1> HIDE DEF version
<1>5. /\ read \in Licensed /\ read.version = version /\ read.extensions = found.extensions
      /\ read.todo = found.todo /\ read.silent = found.silent
  BY <1>1, <1>4 DEF Licensed
<1> HIDE DEF read
<1>6. \/ LicensingIInv'
      \/ /\ pc' = "licenses" /\ UNCHANGED <<world, result>> /\ diags \subseteq diags'
         /\ found' = read \/ (ToldNothing /\ Missing(found', diags', scope))
  BY <1>1, <1>3, AskTells
<1>7. CASE /\ pc' = "licenses" /\ UNCHANGED <<world, result>> /\ diags \subseteq diags'
           /\ found' = read \/ (ToldNothing /\ Missing(found', diags', scope))
  <2>1. /\ found' \in Licensed /\ found'.extensions = found.extensions
        /\ found'.todo = found.todo /\ found.silent \subseteq found'.silent
        /\ found'.version = None => found.version = None /\ Missing(found', diags', scope)
    BY <1>1, <1>4, <1>5, <1>7 DEF ToldNothing
  <2>2. \A s : Missing(found, diags, s) => Missing(found', diags', s)
    BY <1>7, <2>1, StillMissing
  <2>3. ServerIsTrue(world', found', diags', pc')
    BY <1>1, <1>2, <1>7, <2>1, <2>2 DEF ServerIsTrue
  <2> QED
    BY <1>1, <1>7, <2>1, <2>3 DEF LicensingIInv, LicensingTypes, PortalIsTrue
<1> QED
  BY <1>6, <1>7

\* The licences of a server as the result names them.
LEMMA LicensesRead ==
  ASSUME NEW licences \in SUBSET Licences
  PROVE  LET told == {[l EXCEPT !.status = Licensing!Status(@)] : l \in licences}
         IN /\ told \subseteq Extensions
            /\ \A e \in told : e.status = "licensed" =>
                 \E l \in licences :
                   l.code = e.code /\ l.status \in {"good", "valid", "licensed", "ok"}
            /\ \A l \in licences : \E e \in told : e.code = l.code
<1> DEFINE entry(l) == [l EXCEPT !.status = Licensing!Status(@)]
<1>1. ASSUME NEW l \in licences
      PROVE  /\ entry(l) \in Extensions /\ entry(l).code = l.code
             /\ entry(l).status = Licensing!Status(l.status)
  <2>1. l \in Licences /\ l \in [code : {l.code}, status : {l.status}]
    BY LicensingAssumption
  <2>2. entry(l) = [code |-> l.code, status |-> Licensing!Status(l.status)]
    BY <2>1
  <2>3. Licensing!Status(l.status) \in {"licensed", "evaluation", "expired", "unknown"}
    BY DEF Licensing!Status
  <2> QED
    BY <2>1, <2>2, <2>3 DEF Extensions
<1>2. ASSUME NEW l \in licences, Licensing!Status(l.status) = "licensed"
      PROVE  l.status \in {"good", "valid", "licensed", "ok"}
  BY <1>2 DEF Licensing!Status
<1> HIDE DEF entry
<1>3. /\ {entry(l) : l \in licences} \subseteq Extensions
      /\ \A e \in {entry(l) : l \in licences} : e.status = "licensed" =>
           \E l \in licences : l.code = e.code /\ l.status \in {"good", "valid", "licensed", "ok"}
      /\ \A l \in licences : \E e \in {entry(m) : m \in licences} : e.code = l.code
  BY <1>1, <1>2
<1> QED
  BY <1>3 DEF entry

LEMMA ReadLicensesKeeps ==
  ASSUME LicensingIInv, NEW o \in Licensing!Answers, Licensing!ReadLicenses(o)
  PROVE  LicensingIInv'
<1> DEFINE scope == <<"system/licenses">>
           next == IF world.extensions THEN "services" ELSE "end"
           told == {[l EXCEPT !.status = Licensing!Status(@)] : l \in world.licences}
<1>1. pc = "licenses" /\ world.part = "server" /\ result = None /\ found \in Licensed
      /\ world \in Licensing!Worlds /\ scope \in LicensingScopes
      /\ world.licences \subseteq Licences
  BY PortalPhases, LicensingWorlds
  DEF Licensing!ReadLicenses, LicensingIInv, LicensingTypes, LicensingScopes
<1>2. ServerIsTrue(world, found, diags, pc)
  BY DEF LicensingIInv
<1>3. next \in {"services", "end"} /\ (next = "services" => world.extensions)
      /\ (next = "end" => ~world.extensions)
  OBVIOUS
<1>4. /\ told \subseteq Extensions
      /\ \A e \in told : e.status = "licensed" =>
           \E l \in world.licences :
             l.code = e.code /\ l.status \in {"good", "valid", "licensed", "ok"}
      /\ \A l \in world.licences : \E e \in told : e.code = l.code
  BY <1>1, LicensesRead
\* Two fields of what was found change at most.
<1>5. ASSUME pc' = next, UNCHANGED <<world, result>>, diags \subseteq diags',
             found' \in Licensed, found'.todo = found.todo, found'.version = found.version,
             found.silent \subseteq found'.silent,
             \/ found'.extensions = told
             \/ found'.extensions \subseteq found.extensions /\ Missing(found', diags', scope)
      PROVE  LicensingIInv'
  <2>1. \A s : Missing(found, diags, s) => Missing(found', diags', s)
    BY <1>5, StillMissing
  <2> HIDE DEF told, next
  <2>2. ServerIsTrue(world', found', diags', pc')
    BY <1>1, <1>2, <1>3, <1>4, <1>5, <2>1 DEF ServerIsTrue
  <2> QED
    BY <1>1, <1>3, <1>5, <2>2 DEF LicensingIInv, LicensingTypes, PortalIsTrue
<1>6. CASE o = "ok"
  <2>1. /\ pc' = next /\ UNCHANGED <<world, result>> /\ diags \subseteq diags'
        /\ found' = [found EXCEPT !.extensions = told]
    BY <1>6 DEF Licensing!ReadLicenses
  <2> HIDE DEF told, next
  <2> QED
    BY <1>1, <1>4, <1>5, <2>1 DEF Licensed
<1>7. CASE o = "odd"
  <2>1. /\ pc' = next /\ UNCHANGED <<world, result>> /\ diags \subseteq diags'
        /\ found' = [found EXCEPT !.extensions = {}]
        /\ Licensing!Diag(scope, "partial-coverage") \in diags'
    BY <1>7 DEF Licensing!ReadLicenses
  <2>2. Missing(found', diags', scope)
    BY <2>1 DEF Missing, Licensing!Diag
  <2> HIDE DEF told, next
  <2> QED
    BY <1>1, <1>5, <2>1, <2>2 DEF Licensed
<1>8. CASE o \notin {"ok", "odd"}
  <2>1. Licensing!Ask(scope, o, next, found)
    BY <1>8 DEF Licensing!ReadLicenses
  <2> HIDE DEF told, next
  <2>2. \/ LicensingIInv'
        \/ /\ pc' = next /\ UNCHANGED <<world, result>> /\ diags \subseteq diags'
           /\ ToldNothing /\ Missing(found', diags', scope)
    BY <1>1, <1>8, <2>1, AskTells
  <2> QED
    BY <1>5, <2>2 DEF ToldNothing
<1> QED
  BY <1>6, <1>7, <1>8

LEMMA ListServicesKeeps ==
  ASSUME LicensingIInv, NEW o \in Licensing!Answers, Licensing!ListServices(o)
  PROVE  LicensingIInv'
<1> DEFINE scope == <<"services">>
           todo == Licensing!In(Licensing!Root)
           folders == {s.folder : s \in world.services} \ {Licensing!Root}
           read == [found EXCEPT !.todo = todo, !.folders = folders]
<1>1. pc = "services" /\ world.part = "server" /\ result = None /\ found \in Licensed
      /\ world \in Licensing!Worlds /\ scope \in LicensingScopes
      /\ world.services \subseteq LicensedServices
  BY PortalPhases, LicensingWorlds
  DEF Licensing!ListServices, LicensingIInv, LicensingTypes, LicensingScopes
<1>2. ServerIsTrue(world, found, diags, pc)
  BY DEF LicensingIInv
<1>3. Licensing!Ask(scope, o, "folders", read)
  BY <1>1 DEF Licensing!ListServices
<1>4. /\ todo \subseteq world.services /\ todo \in SUBSET LicensedServices
      /\ folders \in SUBSET {s.folder : s \in LicensedServices}
      /\ \A s \in world.services : s \in todo \/ s.folder \in folders
  BY <1>1 DEF Licensing!In
<1> HIDE DEF todo, folders
<1>5. /\ read \in Licensed /\ read.todo = todo /\ read.folders = folders
      /\ read.extensions = found.extensions /\ read.version = found.version
      /\ read.silent = found.silent
  BY <1>1, <1>4 DEF Licensed
<1> HIDE DEF read
<1>6. \/ LicensingIInv'
      \/ /\ pc' = "folders" /\ UNCHANGED <<world, result>> /\ diags \subseteq diags'
         /\ found' = read \/ (ToldNothing /\ Missing(found', diags', scope))
  BY <1>1, <1>3, AskTells
<1>7. CASE /\ pc' = "folders" /\ UNCHANGED <<world, result>> /\ diags \subseteq diags'
           /\ found' = read \/ (ToldNothing /\ Missing(found', diags', scope))
  <2>1. /\ found' \in Licensed /\ found'.extensions = found.extensions
        /\ found'.version = found.version /\ found.silent \subseteq found'.silent
        /\ found'.todo \subseteq world.services
        /\ \/ Missing(found', diags', scope)
           \/ \A s \in world.services : s \in found'.todo \/ s.folder \in found'.folders
    BY <1>1, <1>2, <1>4, <1>5, <1>7 DEF ToldNothing, ServerIsTrue
  <2>2. \A s : Missing(found, diags, s) => Missing(found', diags', s)
    BY <1>7, <2>1, StillMissing
  <2>3. ServerIsTrue(world', found', diags', pc')
    BY <1>1, <1>2, <1>7, <2>1, <2>2 DEF ServerIsTrue
  <2> QED
    BY <1>1, <1>7, <2>1, <2>3 DEF LicensingIInv, LicensingTypes, PortalIsTrue
<1> QED
  BY <1>6, <1>7

\* A service that was to be read is read, named as a gap, or still to be read.
LEMMA ServicesKeep ==
  ASSUME LicensingIInv, pc = "folders", UNCHANGED <<world, pc, result>>, diags \subseteq diags',
         found' \in Licensed, found'.extensions = found.extensions,
         found'.version = found.version, found.silent \subseteq found'.silent,
         found.services \subseteq found'.services, found'.todo \subseteq world.services,
         \A s \in world.services :
           s \in found.todo \/ s.folder \in found.folders =>
             \/ s.folder \in found'.folders \/ s \in found'.todo
             \/ [service |-> s, extensions |-> Licensing!Enabled(s)] \in found'.services
             \/ Missing(found', diags', <<"services", s.folder>>)
             \/ Missing(found', diags', Licensing!ServiceScope(s))
  PROVE  LicensingIInv'
<1>1. world.part = "server" /\ result = None /\ world \in Licensing!Worlds
  BY PortalPhases DEF LicensingIInv, LicensingTypes
<1>2. \A s : Missing(found, diags, s) => Missing(found', diags', s)
  BY StillMissing
<1>3. ServerIsTrue(world, found, diags, pc)
  BY DEF LicensingIInv
<1>4. ServerIsTrue(world', found', diags', pc')
  BY <1>1, <1>2, <1>3 DEF ServerIsTrue
<1> QED
  BY <1>1, <1>4 DEF LicensingIInv, LicensingTypes, PortalIsTrue

LEMMA ListFolderKeeps ==
  ASSUME LicensingIInv, NEW o \in Licensing!Answers, NEW f \in found.folders,
         Licensing!ListFolder(f, o)
  PROVE  LicensingIInv'
<1> DEFINE scope == <<"services", f>>
           folders == found.folders \ {f}
           more == IF o = "ok" THEN found.todo \union Licensing!In(f) ELSE found.todo
           silent == IF o \in Licensing!Shapeless THEN found.silent \union {scope} ELSE found.silent
<1>1. pc = "folders" /\ world.part = "server" /\ result = None /\ found \in Licensed
      /\ world \in Licensing!Worlds /\ world.services \subseteq LicensedServices
  BY PortalPhases, LicensingWorlds DEF Licensing!ListFolder, LicensingIInv, LicensingTypes
<1>2. scope \in LicensingScopes
  BY <1>1 DEF LicensingScopes, Licensed
<1>3. CASE ~Licensing!Soft(o)
  BY <1>1, <1>3, AbortLicensingKeeps DEF Licensing!ListFolder
<1>4. CASE Licensing!Soft(o)
  <2>1. /\ UNCHANGED <<world, pc, result>> /\ diags \subseteq diags'
        /\ found' = [[found EXCEPT !.folders = folders] EXCEPT
                       !.todo = IF o = "ok" THEN @ \union Licensing!In(f) ELSE @,
                       !.silent = IF o \in Licensing!Shapeless THEN @ \union {scope} ELSE @]
        /\ ~Licensing!Readable(o) => Licensing!Diag(scope, Licensing!Code(o)) \in diags'
    <3>1. "ok" \notin Licensing!Shapeless
      BY DEF Licensing!Shapeless
    <3> QED
      BY <1>1, <1>4, <3>1 DEF Licensing!ListFolder, Licensed
  <2>2. found.todo \subseteq world.services
    BY <1>1 DEF LicensingIInv, ServerIsTrue
  <2>3. /\ more \subseteq world.services /\ more \in SUBSET LicensedServices
        /\ found.todo \subseteq more /\ folders \in SUBSET {s.folder : s \in LicensedServices}
        /\ silent \in SUBSET LicensingScopes /\ found.silent \subseteq silent
        /\ o = "ok" => \A s \in world.services : s.folder = f => s \in more
        /\ \A s \in world.services : s.folder \in found.folders =>
             s.folder \in folders \/ s.folder = f
    BY <1>1, <1>2, <2>2 DEF Licensing!In, Licensed
  <2>4. /\ found' \in Licensed /\ found'.extensions = found.extensions
        /\ found'.version = found.version /\ found'.services = found.services
        /\ found'.folders = folders /\ found'.todo = more /\ found'.silent = silent
    <3>1. found' = [found EXCEPT !.folders = folders, !.todo = more, !.silent = silent]
      BY <1>1, <2>1 DEF Licensed
    <3> HIDE DEF folders, more, silent
    <3> QED
      BY <1>1, <2>3, <3>1 DEF Licensed
  <2>5. o # "ok" => Missing(found', diags', scope)
    BY <2>1, <2>4 DEF Missing, Licensing!Readable, Licensing!Diag
  <2> HIDE DEF folders, more, silent
  <2> QED
    BY <1>1, <2>1, <2>3, <2>4, <2>5, ServicesKeep
<1> QED
  BY <1>3, <1>4

LEMMA ReadServiceKeeps ==
  ASSUME LicensingIInv, NEW o \in Licensing!Answers, NEW s \in found.todo,
         Licensing!ReadService(s, o)
  PROVE  LicensingIInv'
<1> DEFINE scope == Licensing!ServiceScope(s)
           todo == found.todo \ {s}
           entry == [service |-> s, extensions |-> Licensing!Enabled(s)]
           services == IF o = "ok" THEN found.services \union {entry} ELSE found.services
           silent == IF o \in Licensing!Shapeless THEN found.silent \union {scope} ELSE found.silent
<1>1. pc = "folders" /\ world.part = "server" /\ result = None /\ found \in Licensed
      /\ world \in Licensing!Worlds /\ found.todo \subseteq LicensedServices
      /\ found.todo \subseteq world.services
  BY PortalPhases, LicensingWorlds
  DEF Licensing!ReadService, LicensingIInv, LicensingTypes, Licensed, ServerIsTrue
<1>2. scope \in LicensingScopes /\ entry \in ServiceExtensions
  BY <1>1 DEF LicensingScopes, ServiceExtensions
<1>3. CASE ~(Licensing!Soft(o) \/ o = "api")
  BY <1>1, <1>3, AbortLicensingKeeps DEF Licensing!ReadService
<1>4. CASE Licensing!Soft(o) \/ o = "api"
  <2>1. /\ UNCHANGED <<world, pc, result>> /\ diags \subseteq diags'
        /\ found' = [[found EXCEPT !.todo = todo] EXCEPT
                       !.services = IF o = "ok" THEN @ \union {entry} ELSE @,
                       !.silent = IF o \in Licensing!Shapeless THEN @ \union {scope} ELSE @]
        /\ ~Licensing!Readable(o) => Licensing!Diag(scope, Licensing!Code(o)) \in diags'
    <3>1. "ok" \notin Licensing!Shapeless
      BY DEF Licensing!Shapeless
    <3> QED
      BY <1>1, <1>4, <3>1 DEF Licensing!ReadService, Licensed
  <2>2. /\ todo \subseteq world.services /\ todo \in SUBSET LicensedServices
        /\ services \in SUBSET ServiceExtensions /\ found.services \subseteq services
        /\ silent \in SUBSET LicensingScopes /\ found.silent \subseteq silent
        /\ o = "ok" => entry \in services
        /\ \A t \in found.todo : t \in todo \/ t = s
    BY <1>1, <1>2 DEF Licensed
  <2>3. found' = [found EXCEPT !.todo = todo, !.services = services, !.silent = silent]
    BY <1>1, <2>1 DEF Licensed
  <2>4. /\ found' \in Licensed /\ found'.extensions = found.extensions
        /\ found'.version = found.version /\ found'.folders = found.folders
        /\ found'.todo = todo /\ found'.services = services /\ found'.silent = silent
    <3> HIDE DEF todo, services, silent
    <3> QED
      BY <1>1, <2>2, <2>3 DEF Licensed
  <2>5. o # "ok" => Missing(found', diags', scope)
    BY <2>1, <2>4 DEF Missing, Licensing!Readable, Licensing!Diag
  <2> HIDE DEF todo, services, silent
  <2>6. found'.todo \subseteq world.services /\ found.services \subseteq found'.services
        /\ found.silent \subseteq found'.silent
    BY <2>2, <2>4
  <2>7. \A t \in world.services :
          t \in found.todo \/ t.folder \in found.folders =>
            \/ t.folder \in found'.folders \/ t \in found'.todo
            \/ [service |-> t, extensions |-> Licensing!Enabled(t)] \in found'.services
            \/ Missing(found', diags', <<"services", t.folder>>)
            \/ Missing(found', diags', Licensing!ServiceScope(t))
    BY <2>2, <2>4, <2>5
  <2> QED
    BY <1>1, <2>1, <2>4, <2>6, <2>7, ServicesKeep
<1> QED
  BY <1>3, <1>4

LEMMA FinishLicensingKeeps ==
  ASSUME LicensingIInv, Licensing!Finish
  PROVE  LicensingIInv'
<1>1. /\ pc' = "ended" /\ result' = found /\ UNCHANGED <<world, found, diags>>
      /\ pc = "end" \/ (pc = "folders" /\ found.folders = {} /\ found.todo = {})
  BY DEF Licensing!Finish
<1>2. PortalIsTrue(world', found', diags', pc')
  BY <1>1, PortalPhases DEF LicensingIInv, PortalIsTrue
<1>3. ServerIsTrue(world', found', diags', pc')
  BY <1>1 DEF LicensingIInv, ServerIsTrue
<1> QED
  BY <1>1, <1>2, <1>3 DEF LicensingIInv, LicensingTypes

LEMMA NextLicensing ==
  ASSUME LicensingIInv, [Licensing!Next]_(Licensing!vars)
  PROVE  LicensingIInv'
<1>1. CASE UNCHANGED Licensing!vars
  BY <1>1 DEF Licensing!vars, LicensingIInv, LicensingTypes
<1>2. CASE \E o \in Licensing!Answers :
             \/ Licensing!ReadSelf(o) \/ Licensing!ReadSubscription(o)
             \/ Licensing!ReadTypes(o) \/ Licensing!ReadUsers(o)
  BY <1>2, ReadPortalSelfKeeps, ReadSubscriptionKeeps, ReadTypesKeeps, ReadPortalUsersKeeps
<1>3. CASE \E o \in Licensing!Answers :
             \/ Licensing!ReadRest(o) \/ Licensing!ReadAdmin(o)
             \/ Licensing!ReadLicenses(o) \/ Licensing!ListServices(o)
  BY <1>3, ReadRestKeeps, ReadAdminKeeps, ReadLicensesKeeps, ListServicesKeeps
<1>4. CASE \E o \in Licensing!Answers :
             \/ \E f \in found.folders : Licensing!ListFolder(f, o)
             \/ \E s \in found.todo : Licensing!ReadService(s, o)
  BY <1>4, ListFolderKeeps, ReadServiceKeeps
<1>5. CASE Licensing!Finish
  BY <1>5, FinishLicensingKeeps
<1> QED
  BY <1>1, <1>2, <1>3, <1>4, <1>5 DEF Licensing!Next

LEMMA LicensingTypeOKFollows ==
  ASSUME LicensingIInv
  PROVE  Licensing!TypeOK
<1>1. found \in Licensed /\ world \in Licensing!Worlds
  BY DEF LicensingIInv, LicensingTypes
<1>2. pc \in {"self", "subscription", "types", "users", "rest", "admin", "licenses",
              "services", "folders", "end", "ended", "aborted"}
  BY DEF LicensingIInv, LicensingTypes
<1>3. \A e \in found.extensions : e.status \in {"licensed", "evaluation", "expired", "unknown"}
  BY <1>1 DEF Licensed, Extensions
<1> QED
  BY <1>1, <1>2, <1>3 DEF Licensed, Licensing!TypeOK

LEMMA LicensingIsTrueFollows ==
  ASSUME LicensingIInv
  PROVE  Licensing!LicensingIsTrue
<1> SUFFICES ASSUME result # None
             PROVE  IF world.part = "portal" THEN Licensing!PortalLicensingIsTrue
                                             ELSE Licensing!ServerLicensingIsTrue
  BY DEF Licensing!LicensingIsTrue
<1>1. pc = "ended" /\ result = found /\ world.part \in {"portal", "server"}
  BY LicensingWorlds DEF LicensingIInv, LicensingTypes
<1>2. \A scope : Licensing!Gap(scope) <=> Missing(found, diags, scope)
  BY DEF Licensing!Gap, Missing
<1>3. CASE world.part = "portal"
  <2>1. PortalIsTrue(world, found, diags, "ended")
    BY <1>1 DEF LicensingIInv
  <2> QED
    BY <1>1, <1>2, <1>3, <2>1 DEF PortalIsTrue, CodesOf, Licensing!PortalLicensingIsTrue
<1>4. CASE world.part = "server"
  <2>1. ServerIsTrue(world, found, diags, "ended")
    BY <1>1 DEF LicensingIInv
  <2> QED
    BY <1>1, <1>2, <1>4, <2>1 DEF ServerIsTrue, Licensing!ServerLicensingIsTrue
<1> QED
  BY <1>1, <1>3, <1>4

-----------------------------------------------------------------------------
(* The portal.                                                             *)

PortalIds(w) == {i.id : i \in Portal!Range(w.items)}

PortalFound(w) ==
  [groups : Nat, users : {None, 1}, items : {SubSeq(w.items, 1, n) : n \in 0 .. Len(w.items)},
   servers : {None, w.servers}, start : Nat \ {0}, probe : SUBSET Portal!Range(w.items),
   layers : SUBSET PortalIds(w), order : Seq(PortalIds(w))]

PortalSurfaces == {"groups", "users", "items", "federation", "item-probe"}

\* Whatever is not skipped and no matter of rates is a warning.
PortalDiags(w) ==
  {d \in [scope : PortalIds(w) \union {None}, surface : PortalSurfaces,
          code : {"forbidden", "rate-limited", "failed", "skipped"}, severity : {"info", "warn"}] :
     d.severity = "info" => d.code \in {"rate-limited", "skipped"}}

PortalTypes ==
  /\ world \in Portal!Worlds
  /\ found \in PortalFound(world)
  /\ diags \subseteq PortalDiags(world)
  /\ pc \in {"org", "groups", "users", "items", "federation", "probe", "order", "cycles",
             "ended", "aborted"}

Told(ds, surface) == \E d \in ds : d.surface = surface /\ d.code \in Portal!Broken

\* A failed probe of the item is reported.
Unprobed(ds, i) ==
  \E d \in ds : d.scope = i.id /\ d.surface = "item-probe" /\ d.code \in Portal!Broken

Least(m, n) == IF m < n THEN m ELSE n

\* What the pages gave so far is the beginning of what there is, and where it
\* stopped short a diagnostic says so.
PortalIsTold(w, f, ds, p) ==
  /\ p \in {"org", "groups", "users"} => f.items = <<>>
  /\ p \in {"org", "users"} => f.start = 1
  /\ p = "org" => f.groups = 0
  /\ p = "groups" => f.groups = Least(f.start - 1, w.groups)
  /\ p = "items" => Len(f.items) = Least(f.start - 1, Len(w.items))
  /\ p \notin {"org", "groups", "aborted"} /\ w.advances /\ f.groups < w.groups =>
       Told(ds, "groups")
  /\ p \in {"federation", "probe", "order", "cycles", "ended"}
       /\ w.advances /\ Len(f.items) < Len(w.items) => Told(ds, "items")
  /\ p \in {"probe", "order", "cycles", "ended"} /\ f.servers = None /\ w.servers # {} =>
       Told(ds, "federation")
  /\ p \in {"probe", "order", "cycles", "ended"} /\ w.deep =>
       \A i \in Portal!Range(f.items) : i.host # None /\ i.id \notin f.layers =>
         i \in f.probe \/ Unprobed(ds, i)
  /\ p \in {"order", "cycles", "ended"} => f.probe = {}

\* The node at place i comes after everything else that it needs.
Released(order, edges, i) ==
  \A n : <<order[i], n>> \in edges /\ n # order[i] => \E j \in 1 .. i - 1 : order[j] = n

\* The order so far: the nodes of Kahn's algorithm, then those it left.
PortalIsOrdered(order, edges, p) ==
  /\ p \notin {"order", "cycles", "ended"} => order = <<>>
  /\ \A i \in DOMAIN order : order[i] \in Portal!Ends(edges)
  /\ \A i, j \in DOMAIN order : order[i] = order[j] => i = j
  /\ \A i \in DOMAIN order :
       Released(order, edges, i) \/ (p # "order" /\ Portal!BehindCycle(order[i], edges))
  /\ p \in {"cycles", "ended"} => \A n \in Portal!Ends(edges) \ Portal!Range(order) :
                                    Portal!BehindCycle(n, edges)

\* What it ends with.
PortalIsMade ==
  result # None =>
    /\ pc = "ended"
    /\ result.items = found.items /\ result.edges = Portal!Edges
    /\ result.federation = Portal!Federation /\ result.order = found.order
    /\ result.review = {i.id : i \in Portal!ManualReview(Portal!Items, Portal!Emitted)}
    /\ Portal!Ends(Portal!Edges) \subseteq Portal!Range(found.order)

PortalIInv ==
  /\ PortalTypes
  /\ PortalIsTold(world, found, diags, pc)
  /\ PortalIsOrdered(found.order, Portal!Edges, pc)
  /\ PortalIsMade

LEMMA PortalWorlds ==
  ASSUME world \in Portal!Worlds
  PROVE  /\ world.items \in Seq(Portal!Range(world.items)) /\ world.items \in Listings
         /\ Len(world.items) \in Nat /\ world.groups \in Nat
         /\ world.servers \in Federations /\ world.servers # None
         /\ \A i, j \in Portal!Range(world.items) : i.id # None /\ (i.id = j.id => i = j)
<1>1. world.items \in Listings /\ world.groups \in 0 .. 2 /\ world.servers \in Federations
  BY DEF Portal!Worlds
<1>2. Range(world.items) = Portal!Range(world.items)
  BY DEF Range, Portal!Range
<1> QED
  BY <1>1, <1>2, PortalAssumption, LenProperties

\* What is there of the items after n of them.
LEMMA FirstItems ==
  ASSUME world \in Portal!Worlds, NEW n \in 0 .. Len(world.items)
  PROVE  LET items == SubSeq(world.items, 1, n)
         IN /\ Len(items) = n /\ DOMAIN items = 1 .. n
            /\ \A i \in 1 .. n : items[i] = world.items[i]
            /\ Portal!Range(items) \subseteq Portal!Range(world.items)
<1> DEFINE items == SubSeq(world.items, 1, n)
           S == Portal!Range(world.items)
<1>1. world.items \in Seq(S) /\ Len(world.items) \in Nat
  BY PortalWorlds
<1>2. \A i \in 1 .. n : world.items[i] \in S
  BY <1>1, ElementOfSeq
<1>3. items \in Seq(S) /\ Len(items) = n /\ \A i \in 1 .. n : items[i] = world.items[i]
  BY <1>1, <1>2, SubSeqProperties
<1>4. DOMAIN items = 1 .. n
  BY <1>3, LenProperties
<1> QED
  BY <1>2, <1>3, <1>4 DEF Portal!Range

LEMMA InitPortal ==
  ASSUME Portal!Init
  PROVE  PortalIInv
<1>1. /\ world \in Portal!Worlds /\ pc = "org" /\ diags = {} /\ result = None
      /\ found = [groups |-> 0, users |-> None, items |-> <<>>, servers |-> None,
                  start |-> 1, probe |-> {}, layers |-> {}, order |-> <<>>]
  BY DEF Portal!Init
<1>2. SubSeq(world.items, 1, 0) = <<>>
  BY SubSeqEmpty
<1>3. <<>> \in {SubSeq(world.items, 1, n) : n \in 0 .. Len(world.items)}
  BY <1>1, <1>2, PortalWorlds
<1>4. <<>> \in Seq(PortalIds(world))
  BY EmptySeq
<1>5. PortalTypes
  BY <1>1, <1>3, <1>4 DEF PortalTypes, PortalFound
<1>6. PortalIsTold(world, found, diags, pc)
  BY <1>1, PortalWorlds DEF PortalIsTold
<1>7. DOMAIN <<>> = {}
  OBVIOUS
<1>8. PortalIsOrdered(found.order, Portal!Edges, pc)
  BY <1>1, <1>7 DEF PortalIsOrdered
<1> QED
  BY <1>1, <1>5, <1>6, <1>8 DEF PortalIInv, PortalIsMade

\* A request that failed is reported.
LEMMA FailureIsTold ==
  ASSUME diags \subseteq PortalDiags(world), NEW scope \in PortalIds(world) \union {None},
         NEW surface \in PortalSurfaces, NEW o \in Portal!Outcomes, o # "ok",
         Portal!Failed(scope, surface, o)
  PROVE  /\ diags' \subseteq PortalDiags(world) /\ diags \subseteq diags'
         /\ \E d \in diags' : d.scope = scope /\ d.surface = surface /\ d.code \in Portal!Broken
<1> DEFINE d == [scope |-> scope, surface |-> surface, code |-> Portal!Kind(o),
                 severity |-> Portal!Severity(Portal!Kind(o))]
<1>1. diags' = diags \union {d}
  BY DEF Portal!Failed
<1>2. Portal!Kind(o) \in Portal!Broken
  BY DEF Portal!Kind, Portal!Broken
<1>3. d \in PortalDiags(world) /\ d.scope = scope /\ d.surface = surface
      /\ d.code \in Portal!Broken
  BY <1>2 DEF PortalDiags, Portal!Severity, Portal!Broken
<1> QED
  BY <1>1, <1>3

\* The page after this one, if the listing goes on.
LEMMA NextPage ==
  ASSUME found.start \in Nat \ {0}, NEW total \in Nat
  PROVE  LET named == Portal!Named(total)
         IN /\ Portal!GoesOn(named) => named = found.start + PageSize
            /\ ~Portal!GoesOn(named) /\ world.advances => found.start + PageSize > total
BY PortalAssumption DEF Portal!Named, Portal!GoesOn

LEMMA PageOfGroups ==
  ASSUME found.start \in Nat \ {0}, NEW total \in Nat
  PROVE  Portal!Cardinality(Portal!Page(total)) \in Nat
         /\ Least(found.start - 1, total) + Portal!Cardinality(Portal!Page(total))
              = Least(found.start + PageSize - 1, total)
<1> DEFINE last == Least(found.start + PageSize - 1, total)
<1>1. PageSize \in Nat \ {0} /\ last \in Nat
  BY PortalAssumption DEF Least
<1>2. Portal!Page(total) = found.start .. last
  BY <1>1 DEF Portal!Page, Least
<1>3. Portal!Cardinality(Portal!Page(total)) = Cardinality(found.start .. last)
  BY <1>2 DEF Portal!Cardinality, Cardinality
<1> HIDE DEF last
<1>4. Cardinality(found.start .. last) = IF found.start > last THEN 0 ELSE last - found.start + 1
  <2>1. found.start \in Int /\ last \in Int
    BY <1>1
  <2> QED
    BY <2>1, FS_Interval
<1>5. CASE found.start > last
  BY <1>1, <1>3, <1>4, <1>5 DEF Least, last
<1>6. CASE found.start <= last
  BY <1>1, <1>3, <1>4, <1>6 DEF Least, last
<1> QED
  BY <1>1, <1>5, <1>6

\* Steps before the probes leave the rest of what was found as it is.
LEMMA PortalKeeps ==
  ASSUME PortalIInv, pc \notin {"ended", "aborted"}, UNCHANGED <<world, result>>,
         diags' \subseteq PortalDiags(world), found' \in PortalFound(world),
         pc' \in {"org", "groups", "users", "items", "federation", "probe"},
         pc \in {"org", "groups", "users", "items", "federation", "probe"},
         found'.order = found.order,
         PortalIsTold(world, found', diags', pc')
  PROVE  PortalIInv'
<1>1. result = None /\ found.order = <<>> /\ DOMAIN <<>> = {}
  BY DEF PortalIInv, PortalIsMade, PortalIsOrdered
<1>2. PortalTypes'
  BY DEF PortalIInv, PortalTypes
<1>3. PortalIsOrdered(found.order, Portal!Edges, pc)'
  BY <1>1 DEF PortalIsOrdered
<1> QED
  BY <1>1, <1>2, <1>3 DEF PortalIInv, PortalIsMade

\* What is known before a step of the listings.
LEMMA PortalKnows ==
  ASSUME PortalIInv
  PROVE  /\ world \in Portal!Worlds /\ found \in PortalFound(world)
         /\ diags \subseteq PortalDiags(world)
         /\ PortalIsTold(world, found, diags, pc)
         /\ found.start \in Nat \ {0} /\ found.groups \in Nat
         /\ found.items \in {SubSeq(world.items, 1, n) : n \in 0 .. Len(world.items)}
         /\ found.order \in Seq(PortalIds(world))
BY DEF PortalIInv, PortalTypes, PortalFound

LEMMA ReadOrgKeeps ==
  ASSUME PortalIInv, NEW o \in Portal!Outcomes, Portal!ReadOrg(o)
  PROVE  PortalIInv'
<1>1. CASE Portal!Abort
  <2>1. pc = "org" /\ pc' = "aborted" /\ UNCHANGED <<world, found, diags, result>>
        /\ result = None /\ found.order = <<>> /\ DOMAIN <<>> = {}
    BY <1>1 DEF Portal!Abort, Portal!ReadOrg, PortalIInv, PortalIsMade, PortalIsOrdered
  <2>2. PortalTypes' /\ PortalIsTold(world, found, diags, pc)'
    BY <2>1 DEF PortalIInv, PortalTypes, PortalIsTold
  <2>3. PortalIsOrdered(found.order, Portal!Edges, pc)'
    BY <2>1 DEF PortalIsOrdered
  <2> QED
    BY <2>1, <2>2, <2>3 DEF PortalIInv, PortalIsMade
<1>2. CASE ~Portal!Abort
  <2>1. pc = "org" /\ pc' = "groups" /\ UNCHANGED <<world, found, diags, result>>
    BY <1>2 DEF Portal!ReadOrg, Portal!Step
  <2>2. world.groups \in Nat
    BY PortalKnows, PortalWorlds
  <2>3. PortalIsTold(world, found', diags', pc')
    BY <2>1, <2>2, PortalKnows DEF PortalIsTold, Least
  <2> QED
    BY <2>1, <2>3, PortalKnows, PortalKeeps
<1> QED
  BY <1>1, <1>2

LEMMA ReadGroupsKeeps ==
  ASSUME PortalIInv, NEW o \in Portal!Outcomes, Portal!ReadGroups(o)
  PROVE  PortalIInv'
<1> DEFINE named == Portal!Named(world.groups)
           more == o = "ok" /\ Portal!GoesOn(named)
           start == IF more THEN named ELSE 1
           count == Portal!Cardinality(Portal!Page(world.groups))
           groups == IF o = "ok" THEN found.groups + count ELSE 0
<1>1. /\ pc = "groups" /\ world.groups \in Nat /\ UNCHANGED <<world, result>>
      /\ found.groups = Least(found.start - 1, world.groups)
      /\ found.items = <<>>
  BY PortalKnows, PortalWorlds DEF Portal!ReadGroups, Portal!Step, PortalIsTold
<1>2. /\ pc' = IF more THEN "groups" ELSE "users"
      /\ found' = [found EXCEPT !.start = start, !.groups = groups]
  BY PortalKnows DEF Portal!ReadGroups, Portal!Step, PortalFound
<1>3. /\ more => start = found.start + PageSize
      /\ ~more /\ o = "ok" /\ world.advances => found.start + PageSize > world.groups
      /\ ~more => start = 1
  BY <1>1, PortalKnows, NextPage
<1>4. groups \in Nat /\ (o = "ok" => groups = Least(found.start + PageSize - 1, world.groups))
  <2>1. count \in Nat /\ Least(found.start - 1, world.groups) + count
                            = Least(found.start + PageSize - 1, world.groups)
    BY <1>1, PortalKnows, PageOfGroups
  <2> HIDE DEF count
  <2> QED
    BY <1>1, <2>1, PortalKnows
<1>5. \/ o = "ok" /\ diags' = diags
      \/ /\ o # "ok" /\ diags' \subseteq PortalDiags(world) /\ diags \subseteq diags'
         /\ Told(diags', "groups")
  <2>1. CASE o = "ok"
    BY <2>1 DEF Portal!ReadGroups
  <2>2. CASE o # "ok"
    <3>1. Portal!Failed(None, "groups", o) /\ None \in PortalIds(world) \union {None}
          /\ "groups" \in PortalSurfaces /\ diags \subseteq PortalDiags(world)
      BY <2>2, PortalKnows DEF Portal!ReadGroups, PortalSurfaces
    <3> QED
      BY <2>2, <3>1, FailureIsTold DEF Told
  <2> QED
    BY <2>1, <2>2
<1>6. more => o = "ok"
  OBVIOUS
<1> HIDE DEF more, start, groups, count, named
<1>7. start \in Nat \ {0}
  BY <1>1, <1>3, PortalKnows, PortalAssumption
<1>8. /\ found' \in PortalFound(world) /\ found'.start = start /\ found'.groups = groups
      /\ found'.items = found.items /\ found'.order = found.order
  BY <1>2, <1>4, <1>7, PortalKnows DEF PortalFound
<1>9. PortalIsTold(world, found', diags', pc')
  <2>1. more => groups = Least(start - 1, world.groups)
    BY <1>3, <1>4, <1>6, PortalKnows, PortalAssumption
  <2>2. ~more /\ world.advances /\ groups < world.groups => Told(diags', "groups")
    BY <1>1, <1>3, <1>4, <1>5, PortalKnows, PortalAssumption DEF Least
  <2>3. pc' \in {"groups", "users"} /\ (pc' = "users" => ~more) /\ (pc' = "groups" => more)
    BY <1>2
  <2> QED
    BY <1>1, <1>3, <1>8, <2>1, <2>2, <2>3 DEF PortalIsTold
<1>10. pc' \in {"groups", "users"} /\ diags' \subseteq PortalDiags(world)
  BY <1>2, <1>5, PortalKnows
<1> QED
  BY <1>1, <1>8, <1>9, <1>10, PortalKeeps

\* Diagnostics are only added.
LEMMA StillTold ==
  ASSUME NEW some, NEW more, some \subseteq more
  PROVE  /\ \A s \in PortalSurfaces : Told(some, s) => Told(more, s)
         /\ \A i : Unprobed(some, i) => Unprobed(more, i)
BY DEF Told, Unprobed

LEMMA AnonymousKeeps ==
  ASSUME PortalIInv, Portal!SkipUsers
  PROVE  PortalIInv'
<1> DEFINE d == [scope |-> None, surface |-> "users", code |-> "skipped", severity |-> "info"]
<1>1. /\ pc = "users" /\ pc' = "items" /\ UNCHANGED <<world, found, result>>
      /\ diags' = diags \union {d}
  BY DEF Portal!SkipUsers, Portal!Step
<1>2. d \in PortalDiags(world)
  BY DEF PortalDiags, PortalSurfaces
<1>3. diags' \subseteq PortalDiags(world) /\ diags \subseteq diags'
  BY <1>1, <1>2, PortalKnows
<1> HIDE DEF d
<1>4. found.items = <<>> /\ found.start = 1 /\ Len(world.items) \in Nat
      /\ (Told(diags, "groups") => Told(diags', "groups"))
  BY <1>1, <1>3, PortalKnows, PortalWorlds, StillTold DEF PortalIsTold, PortalSurfaces
<1>5. PortalIsTold(world, found', diags', pc')
  BY <1>1, <1>4, PortalKnows DEF PortalIsTold, Least
<1> QED
  BY <1>1, <1>3, <1>5, PortalKnows, PortalKeeps

LEMMA CountUsersKeeps ==
  ASSUME PortalIInv, NEW o \in Portal!Outcomes, Portal!ReadUsers(o)
  PROVE  PortalIInv'
<1> DEFINE users == IF o = "ok" THEN 1 ELSE None
<1>1. /\ pc = "users" /\ pc' = "items" /\ UNCHANGED <<world, result>>
      /\ found' = [found EXCEPT !.users = users] /\ users \in {None, 1}
  BY DEF Portal!ReadUsers, Portal!Step
<1>2. diags' \subseteq PortalDiags(world) /\ diags \subseteq diags'
  <2>1. CASE o = "ok"
    BY <2>1, PortalKnows DEF Portal!ReadUsers
  <2>2. CASE o # "ok"
    <3>1. Portal!Failed(None, "users", o) /\ None \in PortalIds(world) \union {None}
          /\ "users" \in PortalSurfaces /\ diags \subseteq PortalDiags(world)
      BY <2>2, PortalKnows DEF Portal!ReadUsers, PortalSurfaces
    <3> QED
      BY <2>2, <3>1, FailureIsTold
  <2> QED
    BY <2>1, <2>2
<1> HIDE DEF users
<1>3. /\ found' \in PortalFound(world) /\ found'.start = found.start
      /\ found'.groups = found.groups
      /\ found'.items = found.items /\ found'.order = found.order
  BY <1>1, PortalKnows DEF PortalFound
<1>4. found.items = <<>> /\ found.start = 1 /\ Len(world.items) \in Nat
      /\ (Told(diags, "groups") => Told(diags', "groups"))
  BY <1>1, <1>2, PortalKnows, PortalWorlds, StillTold DEF PortalIsTold, PortalSurfaces
<1>5. PortalIsTold(world, found', diags', pc')
  BY <1>1, <1>3, <1>4, PortalKnows DEF PortalIsTold, Least
<1> QED
  BY <1>1, <1>2, <1>3, <1>5, PortalKnows, PortalKeeps

\* The page of items that a request gives continues what was found.
LEMMA PageOfItems ==
  ASSUME world \in Portal!Worlds, found.start \in Nat \ {0},
         NEW n \in 0 .. Len(world.items), n = Least(found.start - 1, Len(world.items)),
         NEW page, page = SubSeq(world.items, found.start,
                                 Least(found.start + PageSize - 1, Len(world.items)))
  PROVE  SubSeq(world.items, 1, n) \o page
           = SubSeq(world.items, 1, Least(found.start + PageSize - 1, Len(world.items)))
<1> DEFINE S == Portal!Range(world.items)
           total == Len(world.items)
           last == Least(found.start + PageSize - 1, total)
<1>1. world.items \in Seq(S) /\ total \in Nat /\ PageSize \in Nat \ {0} /\ last \in 0 .. total
  BY PortalWorlds, PortalAssumption DEF Least
<1>2. CASE found.start <= total
  <2>1. n = found.start - 1 /\ n \in 0 .. total /\ last \in n .. total /\ n + 1 = found.start
        /\ 1 \in 1 .. total + 1 /\ 1 - 1 = 0
    BY <1>1, <1>2 DEF Least
  <2> HIDE DEF last, S
  <2>2. SubSeq(world.items, 1, n) \o SubSeq(world.items, n + 1, last) = SubSeq(world.items, 1, last)
    BY <1>1, <2>1, ConcatAdjacentSubSeq
  <2> QED
    BY <2>1, <2>2 DEF last
<1>3. CASE found.start > total
  <2>1. n = total /\ last = total /\ last < found.start
    BY <1>1, <1>3 DEF Least
  <2>2. page = <<>>
    <3>1. SubSeq(world.items, found.start, last) = <<>>
      <4>1. found.start \in Int /\ last \in Int
        BY <1>1
      <4> HIDE DEF last
      <4> QED
        BY <2>1, <4>1, SubSeqEmpty
    <3> QED
      BY <3>1
  <2>3. SubSeq(world.items, 1, n) \in Seq(S)
    BY <1>1, <2>1, SubSeqFull
  <2>4. SubSeq(world.items, 1, n) \o <<>> = SubSeq(world.items, 1, n)
    BY <2>3, ConcatEmptySeq
  <2> QED
    BY <2>1, <2>2, <2>4
<1>4. found.start <= total \/ found.start > total
  <2>1. total \in Nat
    BY <1>1
  <2> HIDE DEF total
  <2> QED
    BY <2>1
<1> QED
  BY <1>2, <1>3, <1>4

LEMMA ReadItemsKeeps ==
  ASSUME PortalIInv, NEW o \in Portal!Outcomes, Portal!ReadItems(o)
  PROVE  PortalIInv'
<1> DEFINE total == Len(world.items)
           named == Portal!Named(total)
           more == o = "ok" /\ Portal!GoesOn(named)
           start == IF more THEN named ELSE found.start
           last == Least(found.start + PageSize - 1, total)
           page == SubSeq(world.items, found.start, last)
           items == IF o = "ok" THEN found.items \o page ELSE found.items
<1>1. /\ pc = "items" /\ total \in Nat /\ UNCHANGED <<world, result>>
      /\ Len(found.items) = Least(found.start - 1, total)
      /\ world \in Portal!Worlds /\ PageSize \in Nat \ {0}
  BY PortalKnows, PortalWorlds, PortalAssumption DEF Portal!ReadItems, Portal!Step, PortalIsTold
<1>2. /\ pc' = IF more THEN "items" ELSE "federation"
      /\ found' = [found EXCEPT !.items = items, !.start = start]
  <2>1. last = IF found.start + PageSize - 1 < total THEN found.start + PageSize - 1 ELSE total
    BY DEF Least
  <2> QED
    BY <2>1, PortalKnows DEF Portal!ReadItems, Portal!Step, PortalFound
<1>3. /\ more => start = found.start + PageSize
      /\ ~more /\ o = "ok" /\ world.advances => found.start + PageSize > total
      /\ ~more => start = found.start
  BY <1>1, PortalKnows, NextPage
<1>4. PICK n \in 0 .. total : found.items = SubSeq(world.items, 1, n)
  BY PortalKnows
<1>5. Len(found.items) = n
  BY <1>1, <1>4, FirstItems
<1>6. last \in 0 .. total
  BY <1>1, PortalKnows DEF Least
<1>7. items = SubSeq(world.items, 1, IF o = "ok" THEN last ELSE n)
  <2>1. SubSeq(world.items, 1, n) \o page = SubSeq(world.items, 1, last)
    BY <1>1, <1>5, PortalKnows, PageOfItems
  <2> QED
    BY <1>4, <2>1
<1>8. Len(items) = IF o = "ok" THEN last ELSE n
  <2> HIDE DEF items
  <2> QED
    BY <1>1, <1>6, <1>7, FirstItems
<1>9. \/ o = "ok" /\ diags' = diags
      \/ /\ o # "ok" /\ diags' \subseteq PortalDiags(world) /\ diags \subseteq diags'
         /\ Told(diags', "items")
  <2>1. CASE o = "ok"
    BY <2>1 DEF Portal!ReadItems
  <2>2. CASE o # "ok"
    <3>1. Portal!Failed(None, "items", o) /\ None \in PortalIds(world) \union {None}
          /\ "items" \in PortalSurfaces /\ diags \subseteq PortalDiags(world)
      BY <2>2, PortalKnows DEF Portal!ReadItems, PortalSurfaces
    <3> QED
      BY <2>2, <3>1, FailureIsTold DEF Told
  <2> QED
    BY <2>1, <2>2
<1>10. more => o = "ok"
  OBVIOUS
<1>11. items \in {SubSeq(world.items, 1, k) : k \in 0 .. total}
  BY <1>6, <1>7
<1> HIDE DEF more, start, items, named, page
<1>12. start \in Nat \ {0}
  BY <1>1, <1>3, PortalKnows
<1>13. /\ found' \in PortalFound(world) /\ found'.start = start /\ found'.items = items
       /\ found'.groups = found.groups /\ found'.order = found.order
  BY <1>2, <1>11, <1>12, PortalKnows DEF PortalFound
<1>14. PortalIsTold(world, found', diags', pc')
  <2>1. more => Len(items) = Least(start - 1, total)
    BY <1>1, <1>3, <1>8, <1>10, PortalKnows DEF Least
  <2>2. ~more /\ world.advances /\ Len(items) < total => Told(diags', "items")
    BY <1>1, <1>3, <1>8, <1>9, PortalKnows DEF Least
  <2>3. pc' \in {"items", "federation"} /\ (pc' = "federation" => ~more) /\ (pc' = "items" => more)
    BY <1>2
  <2>4. Told(diags, "groups") => Told(diags', "groups")
    BY <1>9, StillTold DEF PortalSurfaces
  <2>5. world.advances /\ found'.groups < world.groups => Told(diags', "groups")
    BY <1>1, <1>13, <2>4, PortalKnows DEF PortalIsTold
  <2> HIDE DEF total
  <2> QED
    BY <1>1, <1>3, <1>13, <2>1, <2>2, <2>3, <2>5 DEF PortalIsTold, total
<1>15. pc' \in {"items", "federation"} /\ diags' \subseteq PortalDiags(world)
  BY <1>2, <1>9, PortalKnows
<1> QED
  BY <1>1, <1>13, <1>14, <1>15, PortalKnows, PortalKeeps

\* The probes: every service item that was not read is to be probed, or reported.
LEMMA ReadFederationKeeps ==
  ASSUME PortalIInv, NEW o \in Portal!Outcomes, Portal!ReadFederation(o)
  PROVE  PortalIInv'
<1> DEFINE servers == IF o = "ok" /\ world.servers # {} THEN world.servers ELSE None
           probe == IF world.deep THEN {i \in Portal!Range(found.items) : Portal!Service(i)} ELSE {}
<1>1. /\ pc = "federation" /\ pc' = "probe" /\ UNCHANGED <<world, result>>
      /\ found' = [found EXCEPT !.servers = servers, !.probe = probe]
      /\ world \in Portal!Worlds
  BY PortalKnows DEF Portal!ReadFederation, Portal!Step
<1>2. servers \in {None, world.servers} /\ (o = "ok" /\ world.servers # {} => servers # None)
  BY <1>1, PortalWorlds
<1>3. probe \in SUBSET Portal!Range(world.items)
  <2>1. PICK n \in 0 .. Len(world.items) : found.items = SubSeq(world.items, 1, n)
    BY PortalKnows
  <2> QED
    BY <1>1, <2>1, FirstItems
<1>4. world.deep => \A i \in Portal!Range(found.items) : i.host # None => i \in probe
  BY DEF Portal!Service
<1>5. \/ o = "ok" /\ diags' = diags
      \/ /\ o # "ok" /\ diags' \subseteq PortalDiags(world) /\ diags \subseteq diags'
         /\ Told(diags', "federation")
  <2>1. CASE o = "ok"
    BY <2>1 DEF Portal!ReadFederation
  <2>2. CASE o # "ok"
    <3>1. Portal!Failed(None, "federation", o) /\ None \in PortalIds(world) \union {None}
          /\ "federation" \in PortalSurfaces /\ diags \subseteq PortalDiags(world)
      BY <2>2, PortalKnows DEF Portal!ReadFederation, PortalSurfaces
    <3> QED
      BY <2>2, <3>1, FailureIsTold DEF Told
  <2> QED
    BY <2>1, <2>2
<1> HIDE DEF servers, probe
<1>6. /\ found' \in PortalFound(world) /\ found'.servers = servers /\ found'.probe = probe
      /\ found'.items = found.items /\ found'.groups = found.groups
      /\ found'.order = found.order
  BY <1>1, <1>2, <1>3, PortalKnows DEF PortalFound
<1>7. diags \subseteq diags' /\ diags' \subseteq PortalDiags(world)
  BY <1>5, PortalKnows
<1>8. \A s \in {"groups", "items"} : Told(diags, s) => Told(diags', s)
  BY <1>7, StillTold DEF PortalSurfaces
<1>9. PortalIsTold(world, found', diags', pc')
  BY <1>1, <1>2, <1>4, <1>5, <1>6, <1>8, PortalKnows DEF PortalIsTold
<1> QED
  BY <1>1, <1>6, <1>7, <1>9, PortalKnows, PortalKeeps

LEMMA ProbeItemKeeps ==
  ASSUME PortalIInv, NEW o \in Portal!Outcomes, NEW i \in found.probe, Portal!ProbeItem(i, o)
  PROVE  PortalIInv'
<1> DEFINE probe == found.probe \ {i}
           layers == IF o = "ok" THEN found.layers \union {i.id} ELSE found.layers
           answer == IF Portal!Allowed(i) THEN o ELSE "api"
<1>1. /\ pc = "probe" /\ pc' = "probe" /\ UNCHANGED <<world, result>>
      /\ found' = [found EXCEPT !.probe = probe, !.layers = layers]
  BY PortalKnows DEF Portal!ProbeItem, Portal!Step, PortalFound
<1>2. i.id \in PortalIds(world)
  BY PortalKnows DEF PortalFound, PortalIds
<1>3. probe \in SUBSET Portal!Range(world.items) /\ layers \in SUBSET PortalIds(world)
      /\ found.layers \subseteq layers /\ (o = "ok" => i.id \in layers)
      /\ \A j \in found.probe : j \in probe \/ j = i
  BY <1>2, PortalKnows DEF PortalFound
<1>4. \/ o = "ok" /\ diags' = diags
      \/ /\ o # "ok" /\ diags' \subseteq PortalDiags(world) /\ diags \subseteq diags'
         /\ Unprobed(diags', i)
  <2>1. CASE o = "ok"
    BY <2>1 DEF Portal!ProbeItem
  <2>2. CASE o # "ok"
    <3>1. answer \in Portal!Outcomes /\ answer # "ok"
      BY <2>2 DEF Portal!Outcomes, Portal!Failures
    <3>2. Portal!Failed(i.id, "item-probe", answer) /\ i.id \in PortalIds(world) \union {None}
          /\ "item-probe" \in PortalSurfaces /\ diags \subseteq PortalDiags(world)
      BY <1>2, <2>2, PortalKnows DEF Portal!ProbeItem, PortalSurfaces
    <3> HIDE DEF answer
    <3> QED
      BY <2>2, <3>1, <3>2, FailureIsTold DEF Unprobed
  <2> QED
    BY <2>1, <2>2
<1> HIDE DEF probe, layers, answer
<1>5. /\ found' \in PortalFound(world) /\ found'.probe = probe /\ found'.layers = layers
      /\ found'.items = found.items /\ found'.groups = found.groups
      /\ found'.servers = found.servers /\ found'.order = found.order
  BY <1>1, <1>3, PortalKnows DEF PortalFound
<1>6. diags \subseteq diags' /\ diags' \subseteq PortalDiags(world)
  BY <1>4, PortalKnows
<1>7. /\ \A s \in PortalSurfaces : Told(diags, s) => Told(diags', s)
      /\ \A j : Unprobed(diags, j) => Unprobed(diags', j)
  BY <1>6, StillTold
<1>8. world.deep => \A j \in Portal!Range(found.items) : j.host # None /\ j.id \notin layers =>
                      j \in probe \/ Unprobed(diags', j)
  BY <1>1, <1>3, <1>4, <1>7, PortalKnows DEF PortalIsTold
<1>9. /\ world.advances /\ found.groups < world.groups => Told(diags', "groups")
      /\ world.advances /\ Len(found.items) < Len(world.items) => Told(diags', "items")
      /\ found.servers = None /\ world.servers # {} => Told(diags', "federation")
  BY <1>1, <1>7, PortalKnows DEF PortalIsTold, PortalSurfaces
<1>10. PortalIsTold(world, found', diags', pc')
  BY <1>1, <1>5, <1>8, <1>9 DEF PortalIsTold
<1> QED
  BY <1>1, <1>5, <1>6, <1>10, PortalKnows, PortalKeeps

\* The edges are made of the items, which do not change any more.
LEMMA EdgesStay ==
  ASSUME found'.items = found.items
  PROVE  Portal!Edges' = Portal!Edges
BY DEF Portal!Edges, Portal!Known

\* What is told does not depend on the order.
LEMMA OrderTellsNothing ==
  ASSUME PortalIInv, UNCHANGED <<world, diags>>, found' \in PortalFound(world),
         pc \in {"probe", "order", "cycles"}, pc' \in {"order", "cycles", "ended"},
         found.probe = {},
         found' = found \/ (\E s \in Seq(PortalIds(world)) : found' = [found EXCEPT !.order = s])
  PROVE  PortalTypes' /\ PortalIsTold(world, found, diags, pc)'
<1>1. /\ found'.items = found.items /\ found'.groups = found.groups
      /\ found'.servers = found.servers /\ found'.layers = found.layers
      /\ found'.probe = found.probe
  BY PortalKnows DEF PortalFound
<1>2. PortalIsTold(world, found', diags, pc')
  BY <1>1, PortalKnows DEF PortalIsTold
<1> QED
  BY <1>2 DEF PortalIInv, PortalTypes

LEMMA EndProbeKeeps ==
  ASSUME PortalIInv, Portal!EndProbe
  PROVE  PortalIInv'
<1>1. /\ pc = "probe" /\ pc' = "order" /\ UNCHANGED <<world, found, diags, result>>
      /\ found.probe = {} /\ result = None /\ found.order = <<>> /\ DOMAIN <<>> = {}
  BY DEF Portal!EndProbe, Portal!Step, PortalIInv, PortalIsMade, PortalIsOrdered
<1>2. PortalTypes' /\ PortalIsTold(world, found, diags, pc)'
  BY <1>1, PortalKnows, OrderTellsNothing
<1>3. PortalIsOrdered(found.order, Portal!Edges, pc)'
  BY <1>1 DEF PortalIsOrdered
<1> QED
  BY <1>1, <1>2, <1>3 DEF PortalIInv, PortalIsMade

\* An edge goes from an item that was read to another one.
LEMMA EdgesOfItems ==
  ASSUME PortalIInv
  PROVE  /\ \A e \in Portal!Edges : /\ e[1] \in Portal!Ends(Portal!Edges)
                                    /\ e[2] \in Portal!Ends(Portal!Edges)
                                    /\ e = <<e[1], e[2]>>
         /\ Portal!Ends(Portal!Edges) \subseteq Portal!Known
         /\ Portal!Known \subseteq PortalIds(world)
<1> DEFINE maps == {j \in Portal!Range(found.items) : j.type = "Web Map"}
           needs(i) == (i.deps \intersect Portal!Known) \ {i.id}
           from(i) == {<<i.id, d>> : d \in needs(i)}
<1>1. Portal!Edges = UNION {from(i) : i \in maps}
  BY DEF Portal!Edges
<1>2. ASSUME NEW i \in maps, NEW e \in from(i)
      PROVE  /\ e = <<e[1], e[2]>> /\ e[1] \in Portal!Known /\ e[2] \in Portal!Known
  <2>1. PICK d \in needs(i) : e = <<i.id, d>>
    OBVIOUS
  <2>2. i.id \in Portal!Known
    BY DEF Portal!Known
  <2> QED
    BY <2>1, <2>2
<1> HIDE DEF from, maps
<1>3. \A e \in Portal!Edges : e = <<e[1], e[2]>> /\ e[1] \in Portal!Known /\ e[2] \in Portal!Known
  BY <1>1, <1>2
<1>4. Portal!Ends(Portal!Edges) \subseteq Portal!Known
  <2> HIDE DEF needs
  <2> SUFFICES ASSUME NEW n \in Portal!Ends(Portal!Edges)
               PROVE  n \in Portal!Known
    OBVIOUS
  <2>1. PICK e \in Portal!Edges : n \in {e[1], e[2]}
    BY DEF Portal!Ends
  <2> QED
    BY <1>3, <2>1
<1>5. \A e \in Portal!Edges : e[1] \in Portal!Ends(Portal!Edges) /\ e[2] \in Portal!Ends(Portal!Edges)
  BY DEF Portal!Ends
<1>6. Portal!Known \subseteq PortalIds(world)
  <2>1. PICK n \in 0 .. Len(world.items) : found.items = SubSeq(world.items, 1, n)
    BY PortalKnows
  <2>2. Portal!Range(found.items) \subseteq Portal!Range(world.items)
    BY <2>1, PortalKnows, FirstItems
  <2> QED
    BY <2>2 DEF Portal!Known, PortalIds
<1> QED
  BY <1>3, <1>4, <1>5, <1>6

\* A node is placed after what it needs, or it is on or behind a cycle.
LEMMA PlaceKeeps ==
  ASSUME PortalIInv, pc \in {"order", "cycles"}, UNCHANGED pc,
         NEW n \in Portal!Ends(Portal!Edges), n \notin Portal!Placed, Portal!Place(n),
         \/ \A m : <<n, m>> \in Portal!Edges /\ m # n => m \in Portal!Placed
         \/ pc # "order" /\ Portal!BehindCycle(n, Portal!Edges)
  PROVE  PortalIInv'
<1> DEFINE order == found.order
           next == Append(order, n)
           edges == Portal!Edges
<1>1. order \in Seq(PortalIds(world)) /\ n \in PortalIds(world) /\ result = None
  BY PortalKnows, EdgesOfItems DEF PortalIInv, PortalIsMade
<1>2. /\ next \in Seq(PortalIds(world)) /\ Len(next) = Len(order) + 1 /\ Len(order) \in Nat
      /\ DOMAIN order = 1 .. Len(order) /\ DOMAIN next = 1 .. Len(order) + 1
      /\ \A i \in 1 .. Len(order) : next[i] = order[i]
      /\ next[Len(order) + 1] = n
  BY <1>1, AppendProperties, LenProperties
<1>3. /\ found' = [found EXCEPT !.order = next] /\ UNCHANGED <<world, diags, result>>
  BY PortalKnows DEF Portal!Place, Portal!Step, PortalFound
<1>4. Portal!Placed = {order[i] : i \in 1 .. Len(order)}
  BY <1>2 DEF Portal!Placed, Portal!Range
<1>5. PortalIsOrdered(order, edges, pc)
  BY DEF PortalIInv
<1>6. found.probe = {} /\ pc' = pc
  BY PortalKnows DEF PortalIsTold
<1> HIDE DEF next
<1>7. found' \in PortalFound(world) /\ found'.order = next /\ found'.items = found.items
  BY <1>2, <1>3, PortalKnows DEF PortalFound
<1>8. PortalTypes' /\ PortalIsTold(world, found, diags, pc)'
  BY <1>2, <1>3, <1>6, <1>7, OrderTellsNothing
<1>9. edges' = edges
  BY <1>7, EdgesStay
<1>10. PortalIsOrdered(next, edges, pc)
  <2> HIDE DEF edges, order
  <2> DEFINE k == Len(order)
  <2>1. \A i \in 1 .. k + 1 : i \in 1 .. k \/ i = k + 1
    BY <1>2
  <2>2. \A i \in 1 .. k + 1 : next[i] \in Portal!Ends(edges)
    BY <1>2, <1>5, <2>1 DEF PortalIsOrdered, edges
  <2>3. \A i, j \in 1 .. k + 1 : next[i] = next[j] => i = j
    BY <1>2, <1>4, <1>5, <2>1 DEF PortalIsOrdered
  <2>4. ASSUME NEW i \in 1 .. k
        PROVE  Released(next, edges, i)
                 \/ (pc # "order" /\ Portal!BehindCycle(next[i], edges))
    <3>1. next[i] = order[i] /\ \A j \in 1 .. i - 1 : j \in 1 .. k /\ next[j] = order[j]
      BY <1>2
    <3>2. Released(order, edges, i) => Released(next, edges, i)
      BY <3>1 DEF Released
    <3> QED
      BY <1>2, <1>5, <3>1, <3>2 DEF PortalIsOrdered
  <2>5. Released(next, edges, k + 1) \/ (pc # "order" /\ Portal!BehindCycle(next[k + 1], edges))
    <3>1. CASE \A m : <<n, m>> \in edges /\ m # n => m \in Portal!Placed
      <4>1. \A j \in 1 .. k + 1 - 1 : j \in 1 .. k
        BY <1>2
      <4>2. \A j \in 1 .. k : j \in 1 .. k + 1 - 1
        BY <1>2
      <4> QED
        BY <1>2, <1>4, <3>1, <4>2 DEF Released
    <3>2. CASE pc # "order" /\ Portal!BehindCycle(n, edges)
      BY <1>2, <3>2
    <3> QED
      BY <3>1, <3>2 DEF edges
  <2>6. Portal!Ends(edges) \ Portal!Range(next) \subseteq Portal!Ends(edges) \ Portal!Range(order)
    BY <1>2 DEF Portal!Range
  <2>7. pc \notin {"order", "cycles", "ended"} => next = <<>>
    OBVIOUS
  <2>8. \A i \in 1 .. k + 1 : Released(next, edges, i)
                                \/ (pc # "order" /\ Portal!BehindCycle(next[i], edges))
    BY <2>1, <2>4, <2>5
  <2> QED
    BY <1>2, <1>5, <2>2, <2>3, <2>6, <2>7, <2>8 DEF PortalIsOrdered
<1>11. PortalIsOrdered(found.order, Portal!Edges, pc)'
  BY <1>6, <1>7, <1>9, <1>10
<1> QED
  BY <1>1, <1>3, <1>8, <1>11 DEF PortalIInv, PortalIsMade

LEMMA PopKeeps ==
  ASSUME PortalIInv, Portal!Pop
  PROVE  PortalIInv'
<1>1. PICK n \in Portal!Ready(Portal!Edges, Portal!Placed) : pc = "order" /\ Portal!Place(n)
  BY DEF Portal!Pop
<1>2. n \in Portal!Ends(Portal!Edges) /\ n \notin Portal!Placed
  BY <1>1 DEF Portal!Ready
<1>3. ASSUME NEW m, <<n, m>> \in Portal!Edges, m # n
      PROVE  m \in Portal!Placed
  BY <1>1, <1>3 DEF Portal!Ready
<1>4. UNCHANGED pc
  BY <1>1 DEF Portal!Place
<1> QED
  BY <1>1, <1>2, <1>3, <1>4, PlaceKeeps

\* Where none is ready, each of what is left needs another one of it.
LEMMA EndReadyKeeps ==
  ASSUME PortalIInv, Portal!EndReady
  PROVE  PortalIInv'
<1>1. /\ pc = "order" /\ pc' = "cycles" /\ UNCHANGED <<world, found, diags, result>>
      /\ Portal!Ready(Portal!Edges, Portal!Placed) = {} /\ result = None
  BY DEF Portal!EndReady, Portal!Step, PortalIInv, PortalIsMade
<1> DEFINE left == Portal!Ends(Portal!Edges) \ Portal!Placed
<1>2. \A k \in left : \E e \in Portal!Edges : e[1] = k /\ e[2] \in left \ {k}
  BY <1>1, EdgesOfItems DEF Portal!Ready
<1>3. \A n \in left : Portal!BehindCycle(n, Portal!Edges)
  <2>1. left \in SUBSET Portal!Ends(Portal!Edges)
    OBVIOUS
  <2> HIDE DEF left
  <2> QED
    BY <1>2, <2>1 DEF Portal!BehindCycle
<1>4. found.probe = {}
  BY <1>1, PortalKnows DEF PortalIsTold
<1>5. PortalTypes' /\ PortalIsTold(world, found, diags, pc)'
  BY <1>1, <1>4, PortalKnows, OrderTellsNothing
<1>6. Portal!Edges' = Portal!Edges
  BY <1>1, EdgesStay
<1>7. PortalIsOrdered(found.order, Portal!Edges, pc)
  BY DEF PortalIInv
<1>8. PortalIsOrdered(found.order, Portal!Edges, pc')
  BY <1>1, <1>3, <1>7 DEF PortalIsOrdered, Portal!Placed
<1> QED
  BY <1>1, <1>5, <1>6, <1>8 DEF PortalIInv, PortalIsMade

LEMMA AppendCycleKeeps ==
  ASSUME PortalIInv, Portal!AppendCycle
  PROVE  PortalIInv'
<1>1. PICK n \in Portal!Ends(Portal!Edges) \ Portal!Placed : pc = "cycles" /\ Portal!Place(n)
  BY DEF Portal!AppendCycle
<1>2. Portal!BehindCycle(n, Portal!Edges)
  BY <1>1 DEF PortalIInv, PortalIsOrdered, Portal!Placed
<1>3. UNCHANGED pc
  BY <1>1 DEF Portal!Place
<1> QED
  BY <1>1, <1>2, <1>3, PlaceKeeps

LEMMA EmitPortalKeeps ==
  ASSUME PortalIInv, Portal!Emit
  PROVE  PortalIInv'
<1>1. /\ pc = "cycles" /\ pc' = "ended" /\ UNCHANGED <<world, found, diags>>
      /\ Portal!Ends(Portal!Edges) \subseteq Portal!Range(found.order)
  BY DEF Portal!Emit, Portal!Placed
<1>2. /\ result'.items = found.items /\ result'.edges = Portal!Edges
      /\ result'.federation = Portal!Federation /\ result'.order = found.order
      /\ result'.review = {i.id : i \in Portal!ManualReview(Portal!Items, Portal!Emitted)}
  BY DEF Portal!Emit
<1>3. found.probe = {}
  BY <1>1, PortalKnows DEF PortalIsTold
<1>4. PortalTypes' /\ PortalIsTold(world, found, diags, pc)'
  BY <1>1, <1>3, PortalKnows, OrderTellsNothing
<1>5. Portal!Edges' = Portal!Edges
  BY <1>1, EdgesStay
<1>6. /\ Portal!Federation' = Portal!Federation /\ Portal!Items' = Portal!Items
      /\ Portal!Emitted' = Portal!Emitted
  BY <1>1 DEF Portal!Federation, Portal!Items, Portal!Emitted
<1>7. PortalIsOrdered(found.order, Portal!Edges, pc)
  BY DEF PortalIInv
<1>8. PortalIsOrdered(found.order, Portal!Edges, pc')
  BY <1>1, <1>7 DEF PortalIsOrdered
<1>9. PortalIsMade'
  BY <1>1, <1>2, <1>5, <1>6 DEF PortalIsMade
<1> QED
  BY <1>1, <1>4, <1>5, <1>8, <1>9 DEF PortalIInv

LEMMA NextPortal ==
  ASSUME PortalIInv, [Portal!Next]_(Portal!vars)
  PROVE  PortalIInv'
<1>1. CASE UNCHANGED Portal!vars
  <2>1. UNCHANGED <<world, pc, found, diags, result>>
    BY <1>1 DEF Portal!vars
  <2>2. Portal!Edges' = Portal!Edges
    BY <2>1, EdgesStay
  <2>3. /\ Portal!Federation' = Portal!Federation /\ Portal!Items' = Portal!Items
        /\ Portal!Emitted' = Portal!Emitted
    BY <2>1 DEF Portal!Federation, Portal!Items, Portal!Emitted
  <2> QED
    BY <2>1, <2>2, <2>3 DEF PortalIInv, PortalTypes, PortalIsMade
<1>2. CASE \E o \in Portal!Outcomes :
             \/ Portal!ReadOrg(o) \/ Portal!ReadGroups(o) \/ Portal!ReadUsers(o)
             \/ Portal!ReadItems(o) \/ Portal!ReadFederation(o)
             \/ \E i \in found.probe : Portal!ProbeItem(i, o)
  BY <1>2, ReadOrgKeeps, ReadGroupsKeeps, CountUsersKeeps, ReadItemsKeeps, ReadFederationKeeps,
     ProbeItemKeeps
<1>3. CASE Portal!SkipUsers \/ Portal!EndProbe
  BY <1>3, AnonymousKeeps, EndProbeKeeps
<1>4. CASE Portal!Pop \/ Portal!EndReady \/ Portal!AppendCycle \/ Portal!Emit
  BY <1>4, PopKeeps, EndReadyKeeps, AppendCycleKeeps, EmitPortalKeeps
<1> QED
  BY <1>1, <1>2, <1>3, <1>4 DEF Portal!Next

LEMMA PortalTypeOKFollows ==
  ASSUME PortalIInv
  PROVE  Portal!TypeOK
<1>1. PICK n \in 0 .. Len(world.items) : found.items = SubSeq(world.items, 1, n)
  BY PortalKnows
<1>2. Portal!Range(found.items) \subseteq Portal!Range(world.items)
  BY <1>1, PortalKnows, FirstItems
<1>3. found.probe \subseteq Portal!Range(world.items) /\ found.start \in Nat \ {0}
  BY PortalKnows DEF PortalFound
<1>4. \A d \in diags : d.surface \in PortalSurfaces
                       /\ d.code \in {"forbidden", "rate-limited", "failed", "skipped"}
  BY PortalKnows DEF PortalDiags
<1>5. /\ world \in Portal!Worlds
      /\ pc \in {"org", "groups", "users", "items", "federation", "probe", "order", "cycles",
                 "ended", "aborted"}
      /\ result # None => pc = "ended"
  BY DEF PortalIInv, PortalTypes, PortalIsMade
<1> QED
  BY <1>2, <1>3, <1>4, <1>5 DEF Portal!TypeOK, PortalSurfaces

LEMMA PortalGapsAreReportedFollows ==
  ASSUME PortalIInv
  PROVE  Portal!PortalGapsAreReported
<1> SUFFICES ASSUME result # None
             PROVE  /\ result.items = SubSeq(world.items, 1, Len(result.items))
                    /\ world.advances /\ Len(result.items) < Len(world.items) =>
                         Portal!Says("items", Portal!Broken)
                    /\ result.federation = None /\ world.servers # {} =>
                         Portal!Says("federation", Portal!Broken)
                    /\ world.advances /\ found.groups < world.groups =>
                         Portal!Says("groups", Portal!Broken)
  BY DEF Portal!PortalGapsAreReported
<1>1. /\ pc = "ended" /\ result.items = found.items /\ result.federation = Portal!Federation
      /\ PortalIsTold(world, found, diags, "ended")
  BY DEF PortalIInv, PortalIsMade
<1>2. \A s : Portal!Says(s, Portal!Broken) <=> Told(diags, s)
  BY DEF Portal!Says, Told
<1>3. PICK n \in 0 .. Len(world.items) : found.items = SubSeq(world.items, 1, n)
  BY PortalKnows
<1>4. Len(found.items) = n
  BY <1>3, PortalKnows, FirstItems
<1>5. found.servers # None => Portal!Federation # None
  <2> DEFINE roles == {Portal!Role(s) : s \in found.servers}
             advanced == {s.function : s \in found.servers} \intersect Portal!AdvancedFunctions
  <2>1. roles \in SUBSET {"hosting", "federated"} /\ advanced \in SUBSET Portal!AdvancedFunctions
    BY DEF Portal!Role
  <2>2. found.servers # None => Portal!Federation = [roles |-> roles, advanced |-> advanced]
    BY DEF Portal!Federation
  <2> HIDE DEF roles, advanced
  <2> QED
    BY <2>1, <2>2, PortalAssumption
<1> QED
  BY <1>1, <1>2, <1>3, <1>4, <1>5 DEF PortalIsTold

LEMMA UnreadItemsAreReviewedFollows ==
  ASSUME PortalIInv
  PROVE  Portal!UnreadItemsAreReviewed
<1> SUFFICES ASSUME result # None, world.deep, NEW i \in Portal!Range(result.items),
                    Portal!Service(i), i.id \notin found.layers,
                    ~\E d \in diags : d.scope = i.id /\ d.code = "rate-limited"
             PROVE  i.id \in result.review
  BY DEF Portal!UnreadItemsAreReviewed
<1>1. /\ pc = "ended" /\ result.items = found.items
      /\ result.review = {j.id : j \in Portal!ManualReview(Portal!Items, Portal!Emitted)}
      /\ PortalIsTold(world, found, diags, "ended")
  BY DEF PortalIInv, PortalIsMade
<1>2. PICK d \in diags : d.scope = i.id /\ d.surface = "item-probe" /\ d.code \in Portal!Broken
  <2>1. found.probe = {} /\ i.host # None
    BY <1>1 DEF PortalIsTold, Portal!Service
  <2> QED
    BY <1>1, <2>1 DEF PortalIsTold, Unprobed
<1>3. i.id # None
  <2>1. PICK n \in 0 .. Len(world.items) : found.items = SubSeq(world.items, 1, n)
    BY PortalKnows
  <2>2. i \in Portal!Range(world.items)
    BY <1>1, <2>1, PortalKnows, FirstItems
  <2> QED
    BY <2>2, PortalKnows, PortalWorlds
<1>4. d.code # "rate-limited" /\ d.code # "skipped"
  BY <1>2 DEF Portal!Broken
<1>5. d.severity # "info"
  BY <1>4, PortalKnows DEF PortalDiags
<1> DEFINE emit(x) == [x EXCEPT !.code = Portal!CodeMap(x),
                                !.scope = IF @ = None THEN "arcgis-online" ELSE @]
           item == [kind |-> "portal-item", type |-> i.type, tokens |-> {}, id |-> i.id]
<1>6. emit(d).scope = i.id /\ emit(d).severity # "info"
  <2>1. d \in [scope : PortalIds(world) \union {None}, surface : PortalSurfaces,
               code : {"forbidden", "rate-limited", "failed", "skipped"},
               severity : {"info", "warn"}]
    BY PortalKnows DEF PortalDiags
  <2> QED
    BY <1>2, <1>3, <1>5, <2>1
<1>7. emit(d) \in Portal!Emitted
  BY DEF Portal!Emitted
<1>8. item \in Portal!Items
  BY <1>1 DEF Portal!Items
<1> HIDE DEF emit
<1>9. Portal!Flagged(item, Portal!Emitted)
  BY <1>6, <1>7 DEF Portal!Flagged, Portal!Warnings
<1>10. "flagged-by-diagnostic" \in Portal!ReviewReasons(item, Portal!Emitted)
  BY <1>9 DEF Portal!ReviewReasons
<1>11. item \in Portal!ManualReview(Portal!Items, Portal!Emitted)
  BY <1>8, <1>10 DEF Portal!ManualReview
<1> QED
  BY <1>1, <1>11

LEMMA PortalOrderIsSoundFollows ==
  ASSUME PortalIInv
  PROVE  Portal!PortalOrderIsSound
<1> SUFFICES ASSUME result # None
             PROVE  /\ \A m, s \in Portal!Range(result.items) :
                         m.type = "Web Map" /\ s.id \in m.deps /\ s # m
                           <=> <<m.id, s.id>> \in result.edges
                    /\ Portal!Ends(result.edges) \subseteq Portal!Known
                    /\ Portal!SoundOrder(result.order, result.edges)
  BY DEF Portal!PortalOrderIsSound
<1> DEFINE edges == Portal!Edges
           order == found.order
<1>1. /\ pc = "ended" /\ result.items = found.items /\ result.edges = edges
      /\ result.order = order /\ Portal!Ends(edges) \subseteq Portal!Range(order)
      /\ PortalIsOrdered(order, edges, "ended")
  BY DEF PortalIInv, PortalIsMade
<1>2. /\ order \in Seq(PortalIds(world)) /\ Len(order) \in Nat
      /\ DOMAIN order = 1 .. Len(order)
  BY PortalKnows, LenProperties
<1>3. Portal!Range(order) = Portal!Ends(edges)
  BY <1>1, <1>2 DEF PortalIsOrdered, Portal!Range
<1>4. ASSUME NEW i \in DOMAIN order, NEW j \in DOMAIN order, i < j,
             <<order[i], order[j]>> \in edges
      PROVE  Portal!BehindCycle(order[i], edges)
  <2>1. order[j] # order[i] /\ \A k \in 1 .. i - 1 : k \in DOMAIN order /\ k # j
    BY <1>1, <1>2, <1>4 DEF PortalIsOrdered
  <2>2. \A k \in 1 .. i - 1 : order[k] # order[j]
    BY <1>1, <2>1 DEF PortalIsOrdered
  <2>3. ~Released(order, edges, i)
    BY <1>4, <2>1, <2>2 DEF Released
  <2> QED
    BY <1>1, <2>3 DEF PortalIsOrdered
<1>5. Portal!SoundOrder(order, edges)
  BY <1>1, <1>3, <1>4 DEF Portal!SoundOrder, PortalIsOrdered
<1>6. ASSUME NEW m \in Portal!Range(found.items), NEW s \in Portal!Range(found.items)
      PROVE  m.type = "Web Map" /\ s.id \in m.deps /\ s # m <=> <<m.id, s.id>> \in edges
  <2>1. \A i, j \in Portal!Range(found.items) : i.id = j.id => i = j
    <3>1. PICK n \in 0 .. Len(world.items) : found.items = SubSeq(world.items, 1, n)
      BY PortalKnows
    <3>2. Portal!Range(found.items) \subseteq Portal!Range(world.items)
      BY <3>1, PortalKnows, FirstItems
    <3> QED
      BY <3>2, PortalKnows, PortalWorlds
  <2> DEFINE maps == {j \in Portal!Range(found.items) : j.type = "Web Map"}
             needs(i) == (i.deps \intersect Portal!Known) \ {i.id}
             from(i) == {<<i.id, d>> : d \in needs(i)}
  <2>2. edges = UNION {from(i) : i \in maps}
    BY DEF Portal!Edges
  <2>3. s.id \in Portal!Known
    BY DEF Portal!Known
  <2>4. ASSUME m.type = "Web Map", s.id \in m.deps, s # m
        PROVE  <<m.id, s.id>> \in edges
    <3>1. s.id \in needs(m) /\ m \in maps
      BY <2>1, <2>3, <2>4
    <3>2. <<m.id, s.id>> \in from(m)
      BY <3>1
    <3> HIDE DEF maps, from
    <3> QED
      BY <2>2, <3>1, <3>2
  <2>5. ASSUME <<m.id, s.id>> \in edges
        PROVE  m.type = "Web Map" /\ s.id \in m.deps /\ s # m
    <3>1. PICK i \in maps : <<m.id, s.id>> \in from(i)
      <4> HIDE DEF maps, from
      <4> QED
        BY <2>2, <2>5
    <3>2. PICK d \in needs(i) : <<m.id, s.id>> = <<i.id, d>>
      BY <3>1
    <3>3. m = i /\ s.id = d
      BY <2>1, <3>2
    <3> QED
      BY <3>3
  <2> QED
    BY <2>4, <2>5
<1>7. Portal!Ends(edges) \subseteq Portal!Known
  BY EdgesOfItems
<1> HIDE DEF edges, order
<1> QED
  BY <1>1, <1>5, <1>6, <1>7

-----------------------------------------------------------------------------
(* Scripts.                                                                *)

\* What the scan reads of the calls of a world, and what becomes of them.
ReadCalls == {Read(c) : c \in Range(world.calls)}

Steps == [call : ReadCalls, payload : {Payload(c) : c \in ReadCalls}]

\* What the proofs need of a call that was read.
Readable(c) ==
  /\ Legal(c)
  /\ DOMAIN c.args = 1 .. Len(c.args) /\ Len(c.args) \in Nat

\* at lists the numbers of S, m of them, from the least to the greatest.
Enumerates(at, m, S) ==
  /\ at \in [1 .. m -> S]
  /\ \A j, k \in 1 .. m : j < k => at[j] < at[k]
  /\ \A i \in S : \E j \in 1 .. m : at[j] = i

Extended(at, m, i) == [j \in 1 .. m + 1 |-> IF j = m + 1 THEN i ELSE at[j]]

SeenTo(n) == {i \in 1 .. n : Seen(world.calls[i])}

SupportedTo(calls, n) == {i \in 1 .. n : Supported(calls[i])}

ScriptTypes ==
  /\ world \in Worlds
  /\ pc \in {"scan", "translate", "ended"}
  /\ found \in [at : Nat \ {0}, calls : Seq(ReadCalls), plan : Seq(Steps)]
  /\ ~world.valid => found.at = 1 /\ pc # "translate"

\* How many calls were scanned and how many of those that were read translated.
Scanned == IF pc # "scan" /\ world.valid THEN Len(world.calls) ELSE found.at - 1

Tried ==
  IF pc = "scan" THEN 0 ELSE IF pc = "translate" THEN found.at - 1 ELSE Len(found.calls)

\* The scan has read just the calls it sees among those it scanned.
CallsAreSeen ==
  /\ Scanned <= Len(world.calls) /\ Len(found.calls) <= Scanned
  /\ \E at : /\ Enumerates(at, Len(found.calls), SeenTo(Scanned))
             /\ \A n \in 1 .. Len(found.calls) : found.calls[n] = Read(world.calls[at[n]])

\* The plan has a step for just the supported calls among those tried.
PlanIsOfCalls ==
  /\ Tried <= Len(found.calls) /\ Len(found.plan) <= Tried
  /\ found.at <= Len(world.calls) + 1
  /\ \E at : /\ Enumerates(at, Len(found.plan), SupportedTo(found.calls, Tried))
             /\ \A n \in 1 .. Len(found.plan) :
                  found.plan[n] = [call |-> found.calls[at[n]], payload |-> Payload(found.calls[at[n]])]

ScriptOutcomes ==
  {"syntax-error", "translated", "unsupported-control-flow", "unresolved-input",
   "missing-input", "no-runnable-steps", "partial-plan", "not-executable", "run"}

ScriptResultIsTrue ==
  /\ pc # "ended" => result = None
  /\ result # None =>
       /\ result.outcome \in ScriptOutcomes
       /\ result.evidence # None => world.valid /\ result.evidence = Evidence
       /\ result.outcome = "run" =>
            /\ world.command = "run" /\ world.valid
            /\ Refusal = None /\ Sendable /\ result.steps = found.plan

ScriptIInv == ScriptTypes /\ CallsAreSeen /\ PlanIsOfCalls /\ ScriptResultIsTrue

-----------------------------------------------------------------------------
\* An enumeration goes on with a number greater than all before it.
LEMMA EnumeratesNothing == Enumerates(<<>>, 0, {})
BY DEF Enumerates

LEMMA EnumeratesMore ==
  ASSUME NEW m \in Nat, NEW i \in Nat \ {0}, NEW S, S \subseteq 1 .. i - 1,
         NEW at, Enumerates(at, m, S)
  PROVE  Enumerates(Extended(at, m, i), m + 1, S \union {i})
<1> DEFINE more == Extended(at, m, i)
<1>1. \A j \in 1 .. m : at[j] \in S /\ at[j] < i
  <2>1. \A j \in 1 .. m : at[j] \in S
    BY DEF Enumerates
  <2>2. \A l \in S : l < i
    OBVIOUS
  <2> QED  BY <2>1, <2>2
<1>2. /\ more \in [1 .. m + 1 -> S \union {i}] /\ more[m + 1] = i
      /\ \A j \in 1 .. m : more[j] = at[j]
  BY <1>1 DEF Extended
<1>3. \A j \in 1 .. m + 1 : j = m + 1 \/ j \in 1 .. m
  OBVIOUS
<1> HIDE DEF more
<1>4. ASSUME NEW j \in 1 .. m + 1, NEW k \in 1 .. m + 1, j < k
      PROVE  more[j] < more[k]
  <2>1. j \in 1 .. m
    BY <1>4
  <2>2. CASE k = m + 1
    BY <1>1, <1>2, <2>1, <2>2
  <2>3. CASE k \in 1 .. m
    BY <1>2, <1>4, <2>1, <2>3 DEF Enumerates
  <2> QED  BY <1>3, <2>2, <2>3
<1>5. ASSUME NEW l \in S \union {i}
      PROVE  \E j \in 1 .. m + 1 : more[j] = l
  <2>1. CASE l = i
    BY <1>2, <2>1
  <2>2. CASE l \in S
    <3>1. PICK j \in 1 .. m : at[j] = l
      BY <2>2 DEF Enumerates
    <3>2. j \in 1 .. m + 1 /\ more[j] = l
      BY <1>2, <3>1
    <3> QED  BY <3>2
  <2> QED  BY <2>1, <2>2
<1>6. Enumerates(more, m + 1, S \union {i})
  BY <1>2, <1>4, <1>5 DEF Enumerates
<1> QED  BY <1>6 DEF more

LEMMA WorldsOfScripts ==
  ASSUME world \in Worlds
  PROVE  /\ world.calls \in Sources /\ world.calls \in Seq(Range(world.calls))
         /\ DOMAIN world.calls = 1 .. Len(world.calls) /\ Len(world.calls) \in Nat
         /\ \A i \in 1 .. Len(world.calls) : world.calls[i] \in Range(world.calls)
<1>1. world.calls \in Sources
  BY DEF Worlds
<1>2. world.calls \in Seq(Range(world.calls))
  BY <1>1, ScriptAssumption
<1> QED  BY <1>1, <1>2 DEF Range

LEMMA SpecIsRegistered ==
  ASSUME NEW c, Supported(c)
  PROVE  SpecOf(c) \in Registry
BY DEF Supported, SpecOf, Lookup

\* What a call is taken for is what ScriptAssumption foresees.
LEMMA ReadingIsKnown ==
  ASSUME world \in Worlds, NEW c
  PROVE  /\ Reading(c)[1] \in {c.family, "core", "management"} \union Families(c.tool)
                                \union UNION {Range(stars) : stars \in Stars}
         /\ Reading(c)[2] \in {c.tool, c.tool \o "_" \o c.family}
<1>1. CASE Bare(c) /\ world.stars # <<>>
  <2>1. world.stars \in Stars \/ world.stars = <<>>
    BY DEF Worlds
  <2>2. world.stars \in Seq(Range(world.stars))
    BY <1>1, <2>1, ScriptAssumption
  <2>3. Head(world.stars) \in Range(world.stars)
    BY <1>1, <2>2 DEF Range
  <2>4. Head(world.stars) \in UNION {Range(stars) : stars \in Stars}
    BY <1>1, <2>1, <2>3
  <2>5. CoreFamily(c.tool) \in {"core", "management"}
    BY DEF CoreFamily
  <2>6. Reading(c) = OfStar(c)
    BY <1>1 DEF Reading
  <2>7. /\ OfStar(c)[1] \in {Head(world.stars), c.family, CoreFamily(c.tool)}
        /\ OfStar(c)[2] \in {c.tool, c.tool \o "_" \o c.family}
    BY DEF OfStar
  <2> QED  BY <2>4, <2>5, <2>6, <2>7
<1>2. CASE ~(Bare(c) /\ world.stars # <<>>)
  <2>1. ASSUME Cardinality(Families(c.tool)) = 1
        PROVE  (CHOOSE f \in Families(c.tool) : TRUE) \in Families(c.tool)
    <3>1. Families(c.tool) # {}
      BY <2>1, FS_EmptySet
    <3> QED  BY <3>1
  <2> QED  BY <1>2, <2>1 DEF Reading
<1> QED  BY <1>1, <1>2

\* The module of a single star import is the one that brings what is starred.
LEMMA StarredIsRead ==
  ASSUME world \in Worlds, NEW c, Bare(c), OfArcPy(c), ~(Len(world.stars) > 1)
  PROVE  world.stars # <<>> /\ Reading(c) = <<c.family, c.tool>>
<1>1. PICK star \in Range(world.stars) : Brings(star, c)
  BY DEF Bare, OfArcPy
<1>2. world.stars \in Stars \/ world.stars = <<>>
  BY DEF Worlds
<1>3. world.stars # <<>>
  BY <1>1 DEF Range
<1>4. world.stars \in Seq(Range(world.stars))
  BY <1>2, <1>3, ScriptAssumption
<1>5. Len(world.stars) = 1 /\ DOMAIN world.stars = 1 .. 1
  <2>1. Len(world.stars) \in Nat \ {0} /\ DOMAIN world.stars = 1 .. Len(world.stars)
    BY <1>3, <1>4, EmptySeq
  <2> DEFINE n == Len(world.stars)
  <2>2. n \in Nat \ {0} /\ ~(n > 1)
    BY <2>1
  <2> HIDE DEF n
  <2>3. n = 1
    BY <2>2
  <2> QED  BY <2>1, <2>3 DEF n
<1>6. star = Head(world.stars)
  BY <1>1, <1>4, <1>5 DEF Range
<1>7. OfStar(c) = <<c.family, c.tool>>
  BY <1>1, <1>6 DEF OfStar, Brings
<1> QED  BY <1>3, <1>7 DEF Reading

\* What the scan makes of a call is readable; in a script it is the call, but for the
\* family and the tool of a bare name.
LEMMA ReadIsReadable ==
  ASSUME world \in Worlds, NEW c \in Range(world.calls)
  PROVE  /\ Readable(Read(c))
         /\ world.form = "script" /\ ~Bare(c) => Read(c) = c
         /\ world.form = "script" /\ OfArcPy(c) /\ ~(Len(world.stars) > 1) => Read(c) = c
         /\ world.form = "script" =>
              Read(c) = [c EXCEPT !.family = Read(c).family, !.tool = Read(c).tool]
<1> DEFINE f == Reading(c)[1]
           t == Reading(c)[2]
           read == [c EXCEPT !.family = f, !.tool = t]
           listed == [read EXCEPT !.args = <<>>, !.kwargs = @ @@ Listed(c)]
<1>1. world.calls \in Sources
  BY WorldsOfScripts
<1>2. c \in [ref : {c.ref}, legacy : {c.legacy}, blocked : {c.blocked}, expanded : {c.expanded},
             family : {c.family}, tool : {c.tool}, args : {c.args}, kwargs : {c.kwargs}]
  BY <1>1, ScriptAssumption
<1>3. c.args \in Seq(Range(c.args))
  BY <1>1, ScriptAssumption
<1>4. Legal(read) /\ Legal(listed)
  BY <1>1, ScriptAssumption, ReadingIsKnown
<1>5. Read(c) = IF world.form = "model" THEN listed ELSE read
  BY <1>2 DEF Read
<1>6. read.args = c.args /\ listed.args = <<>>
  BY <1>2
<1>7. world.form = "script" /\ ~Bare(c) => f = c.family /\ t = c.tool
  BY DEF Reading
<1>8. OfArcPy(c) /\ Bare(c) /\ ~(Len(world.stars) > 1) => f = c.family /\ t = c.tool
  BY StarredIsRead
<1>9. f = c.family /\ t = c.tool => read = c
  BY <1>2
<1>10. read = [c EXCEPT !.family = read.family, !.tool = read.tool]
  BY <1>2
<1> HIDE DEF f, t, read, listed
<1>11. Readable(read)
  BY <1>3, <1>4, <1>6 DEF Readable
<1>12. Readable(listed)
  BY <1>4, <1>6 DEF Readable
<1> QED  BY <1>5, <1>7, <1>8, <1>9, <1>10, <1>11, <1>12

\* The world stands still, and with it what is seen and read of it.
LEMMA ScriptStandsStill ==
  ASSUME world' = world
  PROVE  /\ ReadCalls' = ReadCalls /\ Steps' = Steps
         /\ \A c : Read(c)' = Read(c)
         /\ \A n : SeenTo(n)' = SeenTo(n)
<1>1. \A c : Read(c)' = Read(c)
  BY DEF Read, Reading, OfStar, Bare
<1>2. ReadCalls' = ReadCalls
  BY <1>1 DEF ReadCalls
<1>3. \A n : SeenTo(n)' = SeenTo(n)
  BY DEF SeenTo, Seen, Bare
<1> QED  BY <1>1, <1>2, <1>3 DEF Steps

LEMMA InitScript ==
  ASSUME Init
  PROVE  ScriptIInv
<1> USE DEF Init
<1>1. Len(world.calls) \in Nat
  BY WorldsOfScripts
<1>2. SeenTo(0) = {} /\ SupportedTo(<<>>, 0) = {}
  BY DEF SeenTo, SupportedTo
<1>3. ScriptTypes
  BY DEF ScriptTypes
<1>4. Scanned = 0 /\ Tried = 0
  BY DEF Scanned, Tried
<1>5. /\ found.calls = <<>> /\ found.plan = <<>> /\ found.at = 1
      /\ Len(<<>>) = 0 /\ 1 .. 0 = {}
  OBVIOUS
<1> HIDE DEF Init
<1>6. CallsAreSeen
  <2>1. Enumerates(<<>>, Len(found.calls), SeenTo(Scanned))
    BY <1>2, <1>4, <1>5, EnumeratesNothing
  <2>2. \A n \in 1 .. Len(found.calls) : FALSE
    BY <1>5
  <2>3. Scanned <= Len(world.calls) /\ Len(found.calls) <= Scanned
    BY <1>1, <1>4, <1>5
  <2> QED  BY <2>1, <2>2, <2>3 DEF CallsAreSeen
<1>8. PlanIsOfCalls
  <2>1. Enumerates(<<>>, Len(found.plan), SupportedTo(found.calls, Tried))
    BY <1>2, <1>4, <1>5, EnumeratesNothing
  <2>2. \A n \in 1 .. Len(found.plan) : FALSE
    BY <1>5
  <2>3. Tried <= Len(found.calls) /\ Len(found.plan) <= Tried /\ found.at <= Len(world.calls) + 1
    BY <1>1, <1>4, <1>5
  <2> QED  BY <2>1, <2>2, <2>3 DEF PlanIsOfCalls
<1>7. ScriptResultIsTrue
  BY DEF Init, ScriptResultIsTrue
<1> QED  BY <1>3, <1>6, <1>7, <1>8 DEF ScriptIInv

LEMMA SyntaxErrorKeeps ==
  ASSUME ScriptIInv, SyntaxError
  PROVE  ScriptIInv'
<1> USE DEF SyntaxError, End
<1>1. ScriptTypes'
  BY ScriptStandsStill DEF ScriptIInv, ScriptTypes
<1>2. /\ Scanned' = Scanned /\ found' = found /\ world' = world
  BY DEF Scanned
<1>3. CallsAreSeen'
  BY <1>2, ScriptStandsStill DEF ScriptIInv, CallsAreSeen
<1>4. found.calls \in Seq(ReadCalls) /\ found.plan \in Seq(Steps) /\ found.at = 1
  BY DEF ScriptIInv, ScriptTypes
<1>5. Scanned = 0 /\ Tried = 0
  BY <1>4 DEF Scanned, Tried
<1>6. Len(found.calls) = 0 /\ Len(found.plan) = 0
  BY <1>4, <1>5 DEF ScriptIInv, CallsAreSeen, PlanIsOfCalls
<1>7. Tried' = Tried
  BY <1>5, <1>6 DEF Tried
<1>8. PlanIsOfCalls'
  BY <1>2, <1>7 DEF ScriptIInv, PlanIsOfCalls
<1>9. ScriptResultIsTrue'
  BY DEF ScriptResultIsTrue, ScriptOutcomes
<1> QED  BY <1>1, <1>3, <1>8, <1>9 DEF ScriptIInv

LEMMA CollectKeeps ==
  ASSUME ScriptIInv, Collect
  PROVE  ScriptIInv'
<1> DEFINE c == world.calls[found.at]
           n == Len(found.calls)
<1>1. /\ pc = "scan" /\ world.valid /\ found.at <= Len(world.calls)
      /\ found' = [found EXCEPT !.at = @ + 1,
                                !.calls = IF Seen(c) THEN Append(@, Read(c)) ELSE @]
      /\ pc' = pc /\ world' = world /\ diags' = diags /\ result' = result
  BY DEF Collect, Step
<1>2. /\ world \in Worlds
      /\ found \in [at : Nat \ {0}, calls : Seq(ReadCalls), plan : Seq(Steps)]
  BY DEF ScriptIInv, ScriptTypes
<1>3. /\ Len(world.calls) \in Nat /\ n \in Nat /\ found.at \in Nat \ {0}
      /\ c \in Range(world.calls)
  BY <1>1, <1>2, WorldsOfScripts
<1>4. Read(c) \in ReadCalls
  BY <1>3 DEF ReadCalls
<1>5. /\ found'.at = found.at + 1 /\ found'.plan = found.plan
      /\ Seen(c) => found'.calls = Append(found.calls, Read(c))
      /\ ~Seen(c) => found'.calls = found.calls
  BY <1>1, <1>2
<1>6. found' \in [at : Nat \ {0}, calls : Seq(ReadCalls), plan : Seq(Steps)]
  <2>1. Append(found.calls, Read(c)) \in Seq(ReadCalls)
    BY <1>2, <1>4, AppendProperties
  <2>2. found'.calls \in Seq(ReadCalls)
    BY <1>2, <1>5, <2>1
  <2>3. found' = [at |-> found.at + 1, calls |-> found'.calls, plan |-> found'.plan]
    BY <1>1, <1>2
  <2>4. found.at + 1 \in Nat \ {0} /\ found'.calls \in Seq(ReadCalls) /\ found'.plan \in Seq(Steps)
    BY <1>2, <1>3, <1>5, <2>2
  <2> QED  BY <2>3, <2>4
<1>7. ScriptTypes'
  BY <1>1, <1>6, ScriptStandsStill DEF ScriptIInv, ScriptTypes
<1>8. Scanned = found.at - 1 /\ Scanned' = found.at /\ Tried = 0 /\ Tried' = 0
  BY <1>1, <1>3, <1>5 DEF Scanned, Tried
<1>9. /\ n <= found.at - 1 /\ Len(found.plan) = 0
      /\ Len(found'.calls) <= found.at /\ 0 <= Len(found'.calls)
  BY <1>2, <1>3, <1>4, <1>5, <1>8, AppendProperties DEF ScriptIInv, CallsAreSeen, PlanIsOfCalls
<1>10. PICK at : /\ Enumerates(at, n, SeenTo(found.at - 1))
                 /\ \A j \in 1 .. n : found.calls[j] = Read(world.calls[at[j]])
  BY <1>8 DEF ScriptIInv, CallsAreSeen
<1>11. \E more : /\ Enumerates(more, Len(found'.calls), SeenTo(found.at))
                 /\ \A j \in 1 .. Len(found'.calls) : found'.calls[j] = Read(world.calls[more[j]])
  <2>1. CASE Seen(c)
    <3> DEFINE more == Extended(at, n, found.at)
    <3>1. SeenTo(found.at) = SeenTo(found.at - 1) \union {found.at}
      BY <1>3, <2>1 DEF SeenTo
    <3>2. SeenTo(found.at - 1) \subseteq 1 .. found.at - 1
      BY DEF SeenTo
    <3>3. Enumerates(more, n + 1, SeenTo(found.at))
      BY <1>3, <1>10, <3>1, <3>2, EnumeratesMore
    <3>4. /\ Len(found'.calls) = n + 1 /\ found'.calls[n + 1] = Read(c)
          /\ \A j \in 1 .. n : found'.calls[j] = found.calls[j]
      BY <1>2, <1>4, <1>5, <2>1, AppendProperties
    <3>5. ASSUME NEW j \in 1 .. n + 1
          PROVE  found'.calls[j] = Read(world.calls[more[j]])
      <4>1. CASE j = n + 1
        <5>1. more[j] = found.at
          BY <1>3, <4>1 DEF Extended
        <5> QED  BY <3>4, <4>1, <5>1
      <4>2. CASE j # n + 1
        <5>1. j \in 1 .. n /\ more[j] = at[j]
          BY <1>3, <4>2 DEF Extended
        <5> QED  BY <1>10, <3>4, <5>1
      <4> QED  BY <4>1, <4>2
    <3> QED  BY <3>3, <3>4, <3>5
  <2>2. CASE ~Seen(c)
    <3>1. SeenTo(found.at) = SeenTo(found.at - 1)
      BY <1>3, <2>2 DEF SeenTo
    <3> QED  BY <1>5, <1>10, <2>2, <3>1
  <2> QED  BY <2>1, <2>2
<1>12. CallsAreSeen'
  BY <1>1, <1>3, <1>8, <1>9, <1>11, ScriptStandsStill DEF CallsAreSeen
<1>13. PlanIsOfCalls'
  <2>1. SupportedTo(found'.calls, 0) = {} /\ SupportedTo(found.calls, 0) = {}
    BY DEF SupportedTo
  <2>2. found'.at <= Len(world'.calls) + 1
    BY <1>1, <1>3, <1>5
  <2>3. Len(found'.plan) = 0 /\ 1 .. 0 = {} /\ 0 <= 0
    BY <1>5, <1>9
  <2>4. \E list : /\ Enumerates(list, Len(found'.plan), SupportedTo(found'.calls, Tried'))
                  /\ \A j \in 1 .. Len(found'.plan) :
                       found'.plan[j] = [call |-> found'.calls[list[j]],
                                         payload |-> Payload(found'.calls[list[j]])]
    BY <1>8, <2>1, <2>3, EnumeratesNothing
  <2> QED  BY <1>8, <1>9, <2>2, <2>3, <2>4 DEF PlanIsOfCalls
<1>14. ScriptResultIsTrue'
  BY <1>1 DEF ScriptIInv, ScriptResultIsTrue
<1> QED  BY <1>7, <1>12, <1>13, <1>14 DEF ScriptIInv

LEMMA EndScanKeeps ==
  ASSUME ScriptIInv, EndScan
  PROVE  ScriptIInv'
<1>1. /\ pc = "scan" /\ pc' = "translate" /\ world.valid /\ found.at > Len(world.calls)
      /\ found' = [found EXCEPT !.at = 1]
      /\ world' = world /\ diags' = diags /\ result' = result
  BY DEF EndScan, Step
<1>2. /\ world \in Worlds
      /\ found \in [at : Nat \ {0}, calls : Seq(ReadCalls), plan : Seq(Steps)]
  BY DEF ScriptIInv, ScriptTypes
<1>3. Len(world.calls) \in Nat /\ Len(found.calls) \in Nat /\ found.at \in Nat
  BY <1>2, WorldsOfScripts
<1>4. found'.at = 1 /\ found'.calls = found.calls /\ found'.plan = found.plan
  BY <1>1, <1>2
<1>5. found' \in [at : Nat \ {0}, calls : Seq(ReadCalls), plan : Seq(Steps)]
  BY <1>1, <1>2
<1>6. ScriptTypes'
  BY <1>1, <1>5, ScriptStandsStill DEF ScriptIInv, ScriptTypes
<1>7. Scanned <= Len(world.calls) /\ Scanned = found.at - 1 /\ Tried = 0
  BY <1>1 DEF ScriptIInv, CallsAreSeen, Scanned, Tried
<1>8. Scanned = Len(world.calls) /\ Scanned' = Len(world.calls) /\ Tried' = 0
  BY <1>1, <1>3, <1>4, <1>7 DEF Scanned, Tried
<1>9. CallsAreSeen'
  BY <1>1, <1>3, <1>4, <1>8, ScriptStandsStill DEF ScriptIInv, CallsAreSeen
<1>10. PlanIsOfCalls'
  BY <1>1, <1>3, <1>4, <1>7, <1>8 DEF ScriptIInv, PlanIsOfCalls
<1>11. ScriptResultIsTrue'
  BY <1>1 DEF ScriptIInv, ScriptResultIsTrue
<1> QED  BY <1>6, <1>9, <1>10, <1>11 DEF ScriptIInv

LEMMA TranslateKeeps ==
  ASSUME ScriptIInv, Translate
  PROVE  ScriptIInv'
<1> DEFINE c == found.calls[found.at]
           step == [call |-> c, payload |-> Payload(c)]
           n == Len(found.plan)
<1>1. /\ pc = "translate" /\ found.at <= Len(found.calls)
      /\ found' = [found EXCEPT !.at = @ + 1,
                                !.plan = IF Supported(c) THEN Append(@, step) ELSE @]
      /\ pc' = pc /\ world' = world /\ diags' = diags /\ result' = result
  BY DEF Translate, Step
<1>2. /\ world \in Worlds
      /\ found \in [at : Nat \ {0}, calls : Seq(ReadCalls), plan : Seq(Steps)]
      /\ world.valid
  BY <1>1 DEF ScriptIInv, ScriptTypes
<1>3. /\ Len(world.calls) \in Nat /\ n \in Nat /\ found.at \in Nat \ {0}
      /\ Len(found.calls) \in Nat /\ c \in ReadCalls
  BY <1>1, <1>2, WorldsOfScripts
<1>4. step \in Steps
  BY <1>3 DEF Steps
<1> HIDE DEF step
<1>5. /\ found'.at = found.at + 1 /\ found'.calls = found.calls
      /\ Supported(c) => found'.plan = Append(found.plan, step)
      /\ ~Supported(c) => found'.plan = found.plan
  BY <1>1, <1>2
<1>6. found' \in [at : Nat \ {0}, calls : Seq(ReadCalls), plan : Seq(Steps)]
  <2>1. Append(found.plan, step) \in Seq(Steps)
    BY <1>2, <1>4, AppendProperties
  <2>2. found'.plan \in Seq(Steps)
    BY <1>2, <1>5, <2>1
  <2>3. found' = [at |-> found.at + 1, calls |-> found'.calls, plan |-> found'.plan]
    BY <1>1, <1>2
  <2>4. found.at + 1 \in Nat \ {0} /\ found'.calls \in Seq(ReadCalls) /\ found'.plan \in Seq(Steps)
    BY <1>2, <1>3, <1>5, <2>2
  <2> QED  BY <2>3, <2>4
<1>7. ScriptTypes'
  BY <1>1, <1>2, <1>6, ScriptStandsStill DEF ScriptIInv, ScriptTypes
<1>8. /\ Scanned = Len(world.calls) /\ Scanned' = Len(world.calls)
      /\ Tried = found.at - 1 /\ Tried' = found.at
  BY <1>1, <1>2, <1>3, <1>5 DEF Scanned, Tried
<1>9. CallsAreSeen'
  BY <1>1, <1>5, <1>8, ScriptStandsStill DEF ScriptIInv, CallsAreSeen
<1>10. n <= found.at - 1 /\ Len(found'.plan) <= found.at
  BY <1>2, <1>3, <1>4, <1>5, <1>8, AppendProperties DEF ScriptIInv, PlanIsOfCalls
<1>11. PICK at : /\ Enumerates(at, n, SupportedTo(found.calls, found.at - 1))
                 /\ \A j \in 1 .. n :
                      found.plan[j] = [call |-> found.calls[at[j]], payload |-> Payload(found.calls[at[j]])]
  BY <1>8 DEF ScriptIInv, PlanIsOfCalls
<1>12. \E more :
         /\ Enumerates(more, Len(found'.plan), SupportedTo(found.calls, found.at))
         /\ \A j \in 1 .. Len(found'.plan) :
              found'.plan[j] =
                [call |-> found.calls[more[j]], payload |-> Payload(found.calls[more[j]])]
  <2>1. CASE Supported(c)
    <3> DEFINE more == Extended(at, n, found.at)
    <3>1. SupportedTo(found.calls, found.at) =
            SupportedTo(found.calls, found.at - 1) \union {found.at}
      BY <1>3, <2>1 DEF SupportedTo
    <3>2. SupportedTo(found.calls, found.at - 1) \subseteq 1 .. found.at - 1
      BY DEF SupportedTo
    <3>3. Enumerates(more, n + 1, SupportedTo(found.calls, found.at))
      BY <1>3, <1>11, <3>1, <3>2, EnumeratesMore
    <3>4. /\ Len(found'.plan) = n + 1 /\ found'.plan[n + 1] = step
          /\ \A j \in 1 .. n : found'.plan[j] = found.plan[j]
      BY <1>2, <1>4, <1>5, <2>1, AppendProperties
    <3>5. ASSUME NEW j \in 1 .. n + 1
          PROVE  found'.plan[j] =
                   [call |-> found.calls[more[j]], payload |-> Payload(found.calls[more[j]])]
      <4>1. CASE j = n + 1
        <5>1. more[j] = found.at
          BY <1>3, <4>1 DEF Extended
        <5> QED  BY <3>4, <4>1, <5>1 DEF step
      <4>2. CASE j # n + 1
        <5>1. j \in 1 .. n /\ more[j] = at[j]
          BY <1>3, <4>2 DEF Extended
        <5> QED  BY <1>11, <3>4, <5>1
      <4> QED  BY <4>1, <4>2
    <3> QED  BY <3>3, <3>4, <3>5
  <2>2. CASE ~Supported(c)
    <3>1. SupportedTo(found.calls, found.at) = SupportedTo(found.calls, found.at - 1)
      BY <1>3, <2>2 DEF SupportedTo
    <3> QED  BY <1>5, <1>11, <2>2, <3>1
  <2> QED  BY <2>1, <2>2
<1>13. PlanIsOfCalls'
  <2>1. Len(found.calls) <= Len(world.calls)
    BY <1>8 DEF ScriptIInv, CallsAreSeen
  <2>2. found'.at <= Len(world'.calls) + 1 /\ Tried' <= Len(found'.calls)
    BY <1>1, <1>3, <1>5, <1>8, <2>1
  <2> QED  BY <1>5, <1>8, <1>10, <1>12, <2>2 DEF PlanIsOfCalls
<1>14. ScriptResultIsTrue'
  BY <1>1 DEF ScriptIInv, ScriptResultIsTrue
<1> QED  BY <1>7, <1>9, <1>13, <1>14 DEF ScriptIInv

\* The evidence, the refusal and the check of what the server has are of the calls
\* read and of the plan alone.
LEMMA JudgementStandsStill ==
  ASSUME world' = world, found' = found
  PROVE  Evidence' = Evidence /\ Refusal' = Refusal /\ (Sendable' <=> Sendable)
<1>1. \A s : CallsWith(s)' = CallsWith(s)
  BY DEF CallsWith
<1>2. Covered' = Covered /\ Evidence' = Evidence
  BY <1>1 DEF Covered, Evidence
<1>3. Incomplete' = Incomplete
  BY <1>2 DEF Incomplete
<1>4. Refusal' = Refusal
  BY <1>2, <1>3 DEF Refusal
<1>5. Sendable' <=> Sendable
  BY DEF Sendable
<1> QED  BY <1>2, <1>4, <1>5

LEMMA RefusalsAreKnown ==
  Refusal \in {"unsupported-control-flow", "unresolved-input", "missing-input",
               "no-runnable-steps", "partial-plan", None}
BY DEF Refusal

\* What ends a script leaves what was read and planned.
LEMMA EndScriptKeeps ==
  ASSUME ScriptIInv, pc = "translate", pc' = "ended", found.at > Len(found.calls),
         world' = world, found' = found
  PROVE  ScriptTypes' /\ CallsAreSeen' /\ PlanIsOfCalls'
<1>1. /\ world.valid /\ Len(found.calls) \in Nat /\ found.at \in Nat
      /\ ScriptTypes'
  BY ScriptStandsStill DEF ScriptIInv, ScriptTypes
<1>2. Tried = found.at - 1 /\ Tried <= Len(found.calls)
  BY DEF ScriptIInv, PlanIsOfCalls, Tried
<1>3. Scanned' = Scanned /\ Tried' = Tried
  BY <1>1, <1>2 DEF Scanned, Tried
<1>4. CallsAreSeen'
  BY <1>3, ScriptStandsStill DEF ScriptIInv, CallsAreSeen
<1>5. PlanIsOfCalls'
  BY <1>3 DEF ScriptIInv, PlanIsOfCalls
<1> QED  BY <1>1, <1>4, <1>5

LEMMA EndTranslationKeeps ==
  ASSUME ScriptIInv, EndTranslation
  PROVE  ScriptIInv'
<1>1. /\ pc = "translate" /\ pc' = "ended" /\ found.at > Len(found.calls)
      /\ world' = world /\ found' = found
      /\ result' = [outcome |-> "translated", steps |-> <<>>, evidence |-> Evidence]
  BY DEF EndTranslation, Translated, End
<1>2. world.valid
  BY <1>1 DEF ScriptIInv, ScriptTypes
<1>3. ScriptResultIsTrue'
  BY <1>1, <1>2, JudgementStandsStill DEF ScriptResultIsTrue, ScriptOutcomes
<1> QED  BY <1>1, <1>3, EndScriptKeeps DEF ScriptIInv

LEMMA RunKeeps ==
  ASSUME ScriptIInv, Run
  PROVE  ScriptIInv'
<1> DEFINE outcome == IF Refusal # None THEN Refusal
                      ELSE IF Sendable THEN "run" ELSE "not-executable"
<1>1. /\ pc = "translate" /\ pc' = "ended" /\ found.at > Len(found.calls)
      /\ world.command = "run" /\ world' = world /\ found' = found
      /\ result' = [outcome |-> outcome,
                    steps |-> IF outcome = "run" THEN found.plan ELSE <<>>,
                    evidence |-> Evidence]
  BY DEF Run, Translated, End
<1>2. world.valid
  BY <1>1 DEF ScriptIInv, ScriptTypes
<1>3. outcome \in ScriptOutcomes /\ (outcome = "run" => Refusal = None /\ Sendable)
  BY RefusalsAreKnown DEF ScriptOutcomes
<1> HIDE DEF outcome
<1>4. ScriptResultIsTrue'
  BY <1>1, <1>2, <1>3, JudgementStandsStill DEF ScriptResultIsTrue
<1> QED  BY <1>1, <1>4, EndScriptKeeps DEF ScriptIInv

LEMMA NextScript ==
  ASSUME ScriptIInv, [Next]_vars
  PROVE  ScriptIInv'
<1>1. CASE UNCHANGED vars
  <2>1. world' = world /\ pc' = pc /\ found' = found /\ result' = result
    BY <1>1 DEF vars
  <2>2. Scanned' = Scanned /\ Tried' = Tried
    BY <2>1 DEF Scanned, Tried
  <2>3. ScriptTypes'
    BY <2>1, ScriptStandsStill DEF ScriptIInv, ScriptTypes
  <2>4. CallsAreSeen' /\ PlanIsOfCalls'
    BY <2>1, <2>2, ScriptStandsStill DEF ScriptIInv, CallsAreSeen, PlanIsOfCalls
  <2>5. ScriptResultIsTrue'
    BY <2>1, JudgementStandsStill DEF ScriptIInv, ScriptResultIsTrue
  <2> QED  BY <2>3, <2>4, <2>5 DEF ScriptIInv
<1>2. CASE Next
  BY <1>2, SyntaxErrorKeeps, CollectKeeps, EndScanKeeps, TranslateKeeps, EndTranslationKeeps,
     RunKeeps DEF Next
<1> QED  BY <1>1, <1>2

-----------------------------------------------------------------------------
\* What a payload has under the name of a parameter is what the checks of the call
\* take for the argument, and it has one where they do.
LEMMA BoundIsArgument ==
  ASSUME NEW c, Readable(c), Supported(c), NEW i \in DOMAIN SpecOf(c).params
  PROVE  LET spec  == SpecOf(c)
             name  == ProcessName(spec, spec.params[i])
             value == Argument(c, i, spec.params[i])
         IN /\ value # Absent => name \in DOMAIN Bound(c)
            /\ name \in DOMAIN Bound(c) => Bound(c)[name] = value
<1> DEFINE spec == SpecOf(c)
           param == spec.params[i]
           name == ProcessName(spec, param)
           given == Spellings(spec, param) \intersect DOMAIN c.kwargs
           byPosition == [p \in {Slot(spec, j) : j \in DOMAIN c.args} |->
                            c.args[CHOOSE j \in DOMAIN c.args : Slot(spec, j) = p]]
           byKeyword == [p \in {Named(spec, k) : k \in DOMAIN c.kwargs} |->
                           c.kwargs[CHOOSE k \in DOMAIN c.kwargs : Named(spec, k) = p]]
<1>1. spec \in Registry
  BY SpecIsRegistered
<1>2. /\ i \in 1 .. Len(spec.params) /\ Len(spec.params) \in Nat
      /\ \A k \in Spellings(spec, param) : Named(spec, k) = name
  BY <1>1, RegistryIsRegular
<1>3. /\ \A j, k \in DOMAIN c.kwargs : Named(spec, j) = Named(spec, k) => j = k
      /\ \A k \in DOMAIN c.kwargs : Named(spec, k) = name => k \in Spellings(spec, param)
      /\ \A j \in DOMAIN c.args : Slot(spec, j) = name => j = i
  BY DEF Readable, Legal
<1>4. DOMAIN c.args = 1 .. Len(c.args) /\ Len(c.args) \in Nat
  BY DEF Readable
<1>5. Slot(spec, i) = name
  BY <1>2 DEF Slot
<1>6. Argument(c, i, param) = IF given # {} THEN c.kwargs[CHOOSE k \in given : TRUE]
                              ELSE IF i <= Len(c.args) THEN c.args[i] ELSE Absent
  BY DEF Argument
<1>7. /\ DOMAIN Bound(c) = {Named(spec, k) : k \in DOMAIN c.kwargs}
                             \union {Slot(spec, j) : j \in DOMAIN c.args}
      /\ \A p \in DOMAIN Bound(c) :
           Bound(c)[p] = IF p \in {Named(spec, k) : k \in DOMAIN c.kwargs}
                         THEN c.kwargs[CHOOSE k \in DOMAIN c.kwargs : Named(spec, k) = p]
                         ELSE c.args[CHOOSE j \in DOMAIN c.args : Slot(spec, j) = p]
  BY DEF Bound
<1> HIDE DEF spec, param, name
<1>8. CASE given # {}
  <2> DEFINE k == CHOOSE l \in given : TRUE
  <2>1. k \in Spellings(spec, param) /\ k \in DOMAIN c.kwargs
    BY <1>8
  <2>2. Named(spec, k) = name
    BY <1>2, <2>1
  <2> HIDE DEF k
  <2>3. (CHOOSE l \in DOMAIN c.kwargs : Named(spec, l) = name) = k
    BY <1>3, <2>1, <2>2
  <2>4. name \in {Named(spec, l) : l \in DOMAIN c.kwargs}
    BY <2>1, <2>2
  <2>5. name \in DOMAIN Bound(c) /\ Bound(c)[name] = c.kwargs[k]
    BY <1>7, <2>3, <2>4
  <2>6. Argument(c, i, param) = c.kwargs[k]
    BY <1>6, <1>8 DEF k
  <2> QED  BY <2>5, <2>6 DEF spec, param, name
<1>9. CASE given = {}
  <2>1. name \notin {Named(spec, l) : l \in DOMAIN c.kwargs}
    BY <1>3, <1>9
  <2>2. CASE i <= Len(c.args)
    <3>1. i \in DOMAIN c.args
      BY <1>2, <1>4, <2>2
    <3>2. (CHOOSE j \in DOMAIN c.args : Slot(spec, j) = name) = i
      BY <1>3, <1>5, <3>1
    <3>3. name \in {Slot(spec, j) : j \in DOMAIN c.args}
      BY <1>5, <3>1
    <3>4. name \in DOMAIN Bound(c) /\ Bound(c)[name] = c.args[i]
      BY <1>7, <2>1, <3>2, <3>3
    <3>5. Argument(c, i, param) = c.args[i]
      BY <1>6, <1>9, <2>2
    <3> QED  BY <3>4, <3>5 DEF spec, param, name
  <2>3. CASE ~(i <= Len(c.args))
    <3>1. Argument(c, i, param) = Absent
      BY <1>6, <1>9, <2>3
    <3>2. name \notin {Slot(spec, j) : j \in DOMAIN c.args}
      BY <1>2, <1>3, <1>4, <2>3
    <3>3. name \notin DOMAIN Bound(c)
      BY <1>7, <2>1, <3>2
    <3> QED  BY <3>1, <3>3 DEF spec, param, name
  <2> QED  BY <2>2, <2>3
<1> QED  BY <1>8, <1>9

\* The calls of a plan, and all that were read, are readable.
LEMMA CallsAreReadable ==
  ASSUME ScriptIInv
  PROVE  /\ \A n \in 1 .. Len(found.calls) : Readable(found.calls[n])
         /\ \A n \in 1 .. Len(found.plan) :
              /\ Readable(found.plan[n].call) /\ Supported(found.plan[n].call)
              /\ found.plan[n].payload = Payload(found.plan[n].call)
<1>1. world \in Worlds
  BY DEF ScriptIInv, ScriptTypes
<1>2. /\ Scanned <= Len(world.calls)
      /\ \E at : /\ Enumerates(at, Len(found.calls), SeenTo(Scanned))
                 /\ \A n \in 1 .. Len(found.calls) : found.calls[n] = Read(world.calls[at[n]])
  BY DEF ScriptIInv, CallsAreSeen
<1>3. Scanned \in Nat /\ Tried \in Nat /\ Tried <= Len(found.calls) /\ Len(found.calls) \in Nat
  BY <1>1, WorldsOfScripts DEF ScriptIInv, ScriptTypes, PlanIsOfCalls, Scanned, Tried
<1>4. ASSUME NEW n \in 1 .. Len(found.calls)
      PROVE  Readable(found.calls[n])
  <2>1. PICK at : /\ Enumerates(at, Len(found.calls), SeenTo(Scanned))
                  /\ \A m \in 1 .. Len(found.calls) : found.calls[m] = Read(world.calls[at[m]])
    BY <1>2
  <2>2. at[n] \in 1 .. Scanned
    BY <2>1 DEF Enumerates, SeenTo
  <2>3. world.calls[at[n]] \in Range(world.calls)
    BY <1>1, <1>2, <1>3, <2>2, WorldsOfScripts
  <2> QED  BY <1>1, <2>1, <2>3, ReadIsReadable
<1>5. ASSUME NEW n \in 1 .. Len(found.plan)
      PROVE  /\ Readable(found.plan[n].call) /\ Supported(found.plan[n].call)
             /\ found.plan[n].payload = Payload(found.plan[n].call)
  <2>1. PICK at : /\ Enumerates(at, Len(found.plan), SupportedTo(found.calls, Tried))
                  /\ \A m \in 1 .. Len(found.plan) :
                       found.plan[m] = [call |-> found.calls[at[m]],
                                        payload |-> Payload(found.calls[at[m]])]
    BY DEF ScriptIInv, PlanIsOfCalls
  <2>2. at[n] \in SupportedTo(found.calls, Tried)
    BY <2>1 DEF Enumerates
  <2>3. at[n] \in 1 .. Tried /\ Supported(found.calls[at[n]])
    BY <2>2 DEF SupportedTo
  <2>4. Readable(found.calls[at[n]])
    BY <1>3, <1>4, <2>3
  <2>5. found.plan[n] = [call |-> found.calls[at[n]], payload |-> Payload(found.calls[at[n]])]
    BY <2>1
  <2>6. /\ found.plan[n].call = found.calls[at[n]]
        /\ found.plan[n].payload = Payload(found.calls[at[n]])
    BY <2>5
  <2> QED  BY <2>3, <2>4, <2>6
<1> QED  BY <1>4, <1>5

LEMMA ScriptTypeOKFollows ==
  ASSUME ScriptIInv
  PROVE  TypeOK
<1>1. /\ world \in Worlds /\ pc \in {"scan", "translate", "ended"}
      /\ found \in [at : Nat \ {0}, calls : Seq(ReadCalls), plan : Seq(Steps)]
  BY DEF ScriptIInv, ScriptTypes
<1>2. Len(world.calls) \in Nat /\ Len(found.calls) \in Nat /\ Len(found.plan) \in Nat
  BY <1>1, WorldsOfScripts
<1>3. found.at \in 1 .. Len(world.calls) + 1
  BY <1>1, <1>2 DEF ScriptIInv, PlanIsOfCalls
<1>4. Len(found.plan) <= Len(found.calls)
  <2>1. Tried \in Int
    BY <1>1, <1>2 DEF Tried
  <2> QED  BY <1>2, <2>1 DEF ScriptIInv, PlanIsOfCalls
<1>5. result # None => result.outcome \in ScriptOutcomes
  BY DEF ScriptIInv, ScriptResultIsTrue
<1> QED  BY <1>1, <1>3, <1>4, <1>5 DEF TypeOK, ScriptOutcomes

LEMMA ArgumentsKeepTheirPlaceFollows ==
  ASSUME ScriptIInv
  PROVE  ArgumentsKeepTheirPlace
<1> SUFFICES ASSUME NEW n \in DOMAIN found.plan,
                    NEW i \in DOMAIN SpecOf(found.plan[n].call).params
             PROVE  LET call  == found.plan[n].call
                        spec  == SpecOf(call)
                        name  == ProcessName(spec, spec.params[i])
                        value == Argument(call, i, spec.params[i])
                        side  == IF name \in Outputs THEN found.plan[n].payload.outputs
                                                     ELSE found.plan[n].payload.inputs
                    IN value # Absent => name \in DOMAIN side /\ side[name] = value
  BY DEF ArgumentsKeepTheirPlace
<1> DEFINE call  == found.plan[n].call
           payload == found.plan[n].payload
           name  == ProcessName(SpecOf(call), SpecOf(call).params[i])
           value == Argument(call, i, SpecOf(call).params[i])
<1>1. n \in 1 .. Len(found.plan)
  BY DEF ScriptIInv, ScriptTypes
<1>2. Readable(call) /\ Supported(call) /\ payload = Payload(call)
  BY <1>1, CallsAreReadable
<1>3. value # Absent => name \in DOMAIN Bound(call) /\ Bound(call)[name] = value
  BY <1>2, BoundIsArgument
<1>4. /\ payload.inputs = [p \in DOMAIN Bound(call) \ Outputs |-> Bound(call)[p]]
      /\ payload.outputs = [p \in DOMAIN Bound(call) \intersect Outputs |-> Bound(call)[p]]
  BY <1>2 DEF Payload
<1> HIDE DEF call, payload, name, value
<1>5. value # Absent =>
        LET side == IF name \in Outputs THEN payload.outputs ELSE payload.inputs
        IN name \in DOMAIN side /\ side[name] = value
  BY <1>3, <1>4
<1> QED  BY <1>5 DEF call, payload, name, value

\* Where the registry has a spatial join, and what its process calls what would
\* give a row for every match.
LEMMA JoinsAreRegistered ==
  ASSUME NEW s \in Registry, s.tool = "spatialjoin"
  PROVE  /\ 4 \in DOMAIN s.params /\ s.params[4] = "join_operation"
         /\ 5 \in DOMAIN s.params /\ s.params[5] = "join_type"
         /\ ProcessName(s, "join_operation") = "join_operation"
         /\ ProcessName(s, "join_type") = "join_type"
<1>1. /\ s \notin FeatureTools /\ s \notin LayerTools /\ s \notin OverlayTools
      /\ s \notin ShapeTools /\ s \notin SmoothingTools
  BY DEF FeatureTools, LayerTools, OverlayTools, ShapeTools, SmoothingTools, Registered
<1>2. s \notin SurfaceTools /\ s \notin RasterTools
  BY DEF SurfaceTools, RasterTools, Registered
<1>3. s \in AnalysisTools
  BY <1>1, <1>2 DEF Registry
<1>4. s.params = <<"target_features", "join_features", "out_feature_class", "join_operation",
                   "join_type", "field_mapping", "match_option", "search_radius",
                   "distance_field_name", "match_fields">>
  BY <1>3 DEF AnalysisTools, Registered
<1>5. ~Raster(s)
  BY <1>2 DEF Raster
<1>6. /\ ProcessName(s, "join_operation") = "join_operation"
      /\ ProcessName(s, "join_type") = "join_type"
  BY <1>5 DEF ProcessName, FeatureName
<1> QED  BY <1>4, <1>6

LEMMA VisibleIsSeen ==
  ASSUME world.form = "script", NEW i \in Visible
  PROVE  Seen(world.calls[i])
<1>1. CASE world.calls[i].ref \in {"qualified", "imported"}
  BY <1>1 DEF Seen
<1>2. CASE world.calls[i].ref = "starred"
  <2>1. world.stars # <<>>
    BY <1>2 DEF Visible, OfArcPy, Range
  <2> QED  BY <1>2, <2>1 DEF Seen, Bare
<1> QED  BY <1>1, <1>2 DEF Visible, OfArcPy

LEMMA EvidenceIsHonestFollows ==
  ASSUME ScriptIInv
  PROVE  EvidenceIsHonest
<1> SUFFICES ASSUME result # None, result.evidence # None
             PROVE  /\ world.form = "script" =>
                         /\ Cardinality(Visible) <= result.evidence.total
                         /\ world.stars = <<>>
                              /\ (\A i \in DOMAIN world.calls : world.calls[i].ref # "rebound") =>
                              Cardinality(Visible) = result.evidence.total
                    /\ \A i \in result.evidence.translatable :
                         LET c == found.calls[i]
                             bound == Bound(c)
                         IN /\ SpecOf(c).job \in ExecutableProcesses
                            /\ SpecOf(c).tool = "spatialjoin" =>
                                 /\ "join_operation" \in DOMAIN bound =>
                                      bound["join_operation"] # "JOIN_ONE_TO_MANY"
                                 /\ "join_type" \in DOMAIN bound =>
                                      bound["join_type"] # "KEEP_COMMON"
                    /\ result.evidence.translatable \union result.evidence.manual
                         \union result.evidence.unsupported = 1 .. result.evidence.total
  BY DEF EvidenceIsHonest
<1>1. /\ world.valid /\ pc = "ended"
      /\ result.evidence.total = Len(found.calls) /\ result.evidence.translatable = Covered
      /\ result.evidence.manual = CallsWith("manual-review")
      /\ result.evidence.unsupported = CallsWith("unsupported")
  BY DEF ScriptIInv, ScriptTypes, ScriptResultIsTrue, Evidence
<1>2. /\ world \in Worlds /\ found.calls \in Seq(ReadCalls)
      /\ DOMAIN found.calls = 1 .. Len(found.calls) /\ Len(found.calls) \in Nat
  BY DEF ScriptIInv, ScriptTypes
<1>3. DOMAIN world.calls = 1 .. Len(world.calls) /\ Len(world.calls) \in Nat
  BY <1>2, WorldsOfScripts
<1>4. ASSUME world.form = "script"
      PROVE  /\ Cardinality(Visible) <= Len(found.calls)
             /\ world.stars = <<>> /\ (\A i \in DOMAIN world.calls : world.calls[i].ref # "rebound") =>
                  Cardinality(Visible) = Len(found.calls)
  <2> DEFINE seen == SeenTo(Len(world.calls))
  <2>1. Visible \subseteq seen
    BY <1>3, <1>4, VisibleIsSeen DEF SeenTo, Visible
  <2>2. ASSUME world.stars = <<>>, \A i \in DOMAIN world.calls : world.calls[i].ref # "rebound"
        PROVE  Visible = seen
    <3>1. ASSUME NEW i \in seen
          PROVE  i \in Visible
      BY <1>3, <2>2, <3>1 DEF SeenTo, Seen, Bare, Visible, OfArcPy
    <3> QED  BY <2>1, <3>1
  <2>3. Scanned = Len(world.calls)
    BY <1>1 DEF Scanned
  <2>4. PICK at : Enumerates(at, Len(found.calls), seen)
    BY <2>3 DEF ScriptIInv, CallsAreSeen
  <2>5. seen \subseteq 1 .. Len(world.calls)
    BY DEF SeenTo
  <2> HIDE DEF seen
  <2>6. /\ at \in [1 .. Len(found.calls) -> seen]
        /\ \A j, k \in 1 .. Len(found.calls) : j < k => at[j] < at[k]
        /\ \A i \in seen : \E j \in 1 .. Len(found.calls) : at[j] = i
    BY <2>4 DEF Enumerates
  <2>7. ASSUME NEW j \in 1 .. Len(found.calls), NEW k \in 1 .. Len(found.calls), at[j] = at[k]
        PROVE  j = k
    <3>1. at[j] \in Nat /\ at[k] \in Nat
      BY <1>3, <2>5, <2>6
    <3>2. ~(at[j] < at[k]) /\ ~(at[k] < at[j])
      BY <2>7, <3>1
    <3>3. ~(j < k) /\ ~(k < j)
      BY <2>6, <3>2
    <3> QED  BY <1>2, <3>3
  <2>8. at \in Bijection(1 .. Len(found.calls), seen)
    BY <2>6, <2>7, Zenon DEF Bijection, Injection, IsInjective, Surjection
  <2>9. ExistsBijection(1 .. Len(found.calls), seen)
    BY <2>8 DEF ExistsBijection
  <2>10. IsFiniteSet(seen) /\ Cardinality(seen) = Len(found.calls)
    <3>1. IsFiniteSet(1 .. Len(found.calls)) /\ Cardinality(1 .. Len(found.calls)) = Len(found.calls)
      BY <1>2, FS_Interval
    <3> QED  BY <2>9, <3>1, FS_Bijection
  <2>11. Cardinality(Visible) <= Cardinality(seen)
    BY <2>1, <2>10, FS_Subset
  <2> QED  BY <2>2, <2>10, <2>11
<1>5. ASSUME NEW i \in Covered
      PROVE  LET c == found.calls[i]
                 bound == Bound(c)
             IN /\ SpecOf(c).job \in ExecutableProcesses
                /\ SpecOf(c).tool = "spatialjoin" =>
                     /\ "join_operation" \in DOMAIN bound =>
                          bound["join_operation"] # "JOIN_ONE_TO_MANY"
                     /\ "join_type" \in DOMAIN bound => bound["join_type"] # "KEEP_COMMON"
  <2> DEFINE c == found.calls[i]
  <2>1. i \in 1 .. Len(found.calls) /\ Status(c) = "translatable"
    BY <1>2 DEF Covered, CallsWith
  <2>2. Readable(c)
    BY <2>1, CallsAreReadable
  <2> HIDE DEF c
  <2>3. /\ Supported(c) /\ SpecOf(c).job \in ExecutableProcesses
        /\ SpecOf(c).tool = "spatialjoin" => ~FansOut(c)
    BY <2>1 DEF Status
  <2>4. ASSUME SpecOf(c).tool = "spatialjoin"
        PROVE  /\ "join_operation" \in DOMAIN Bound(c) =>
                    Bound(c)["join_operation"] # "JOIN_ONE_TO_MANY"
               /\ "join_type" \in DOMAIN Bound(c) => Bound(c)["join_type"] # "KEEP_COMMON"
    <3>1. SpecOf(c) \in Registry
      BY <2>3, SpecIsRegistered
    <3>2. /\ 4 \in DOMAIN SpecOf(c).params /\ SpecOf(c).params[4] = "join_operation"
          /\ 5 \in DOMAIN SpecOf(c).params /\ SpecOf(c).params[5] = "join_type"
          /\ ProcessName(SpecOf(c), "join_operation") = "join_operation"
          /\ ProcessName(SpecOf(c), "join_type") = "join_type"
      BY <2>4, <3>1, JoinsAreRegistered
    <3>3. "join_operation" \in DOMAIN Bound(c) =>
            Bound(c)["join_operation"] = Argument(c, 4, "join_operation")
      BY <2>2, <2>3, <3>2, BoundIsArgument
    <3>4. "join_type" \in DOMAIN Bound(c) => Bound(c)["join_type"] = Argument(c, 5, "join_type")
      BY <2>2, <2>3, <3>2, BoundIsArgument
    <3> QED  BY <2>3, <2>4, <3>3, <3>4 DEF FansOut
  <2> QED  BY <2>3, <2>4 DEF c
<1>6. Covered \union CallsWith("manual-review") \union CallsWith("unsupported")
        = 1 .. Len(found.calls)
  <2>1. \A c : Status(c) \in {"translatable", "manual-review", "unsupported"}
    BY DEF Status
  <2> QED  BY <1>2, <2>1 DEF Covered, CallsWith
<1> QED  BY <1>1, <1>4, <1>5, <1>6

LEMMA RunIsTheScriptFollows ==
  ASSUME ScriptIInv
  PROVE  RunIsTheScript
<1> DEFINE m == Len(found.calls)
<1> SUFFICES ASSUME result # None, result.outcome = "run"
             PROVE  /\ world.form = "script" /\ world.valid
                    /\ result.steps # <<>>
                    /\ \E at \in [DOMAIN result.steps -> DOMAIN world.calls] :
                         /\ \A j, n \in DOMAIN at : j < n => at[j] < at[n]
                         /\ \A i \in Visible : \E n \in DOMAIN at : at[n] = i
                         /\ \A n \in DOMAIN at : Taken(result.steps[n].call, world.calls[at[n]])
                    /\ \A n \in DOMAIN result.steps :
                         LET call == result.steps[n].call
                         IN /\ ~call.blocked
                            /\ Expression \notin Values(call)
                            /\ SpecOf(call).job \in ExecutableProcesses
                            /\ world.published => SpecOf(call).job = "geometry.buffer"
  BY DEF RunIsTheScript
<1>1. /\ pc = "ended" /\ world \in Worlds /\ world.command = "run" /\ world.valid
      /\ Refusal = None /\ Sendable /\ result.steps = found.plan
      /\ found.calls \in Seq(ReadCalls) /\ found.plan \in Seq(Steps)
  BY DEF ScriptIInv, ScriptTypes, ScriptResultIsTrue
<1>2. world.form = "script"
  BY <1>1 DEF Worlds
<1>3. /\ DOMAIN found.calls = 1 .. m /\ m \in Nat
      /\ DOMAIN found.plan = 1 .. Len(found.plan) /\ Len(found.plan) \in Nat
      /\ DOMAIN world.calls = 1 .. Len(world.calls) /\ Len(world.calls) \in Nat
  BY <1>1, WorldsOfScripts
<1>4. /\ \A j \in 1 .. m : ~found.calls[j].blocked
      /\ Incomplete = {} /\ found.calls # <<>> /\ Covered = 1 .. m
  BY <1>1, <1>3, ScriptAssumption DEF Refusal
<1>5. ASSUME NEW j \in 1 .. m
      PROVE  /\ Supported(found.calls[j])
             /\ SpecOf(found.calls[j]).job \in ExecutableProcesses
             /\ ~Unresolved(found.calls[j])
  <2>1. Status(found.calls[j]) = "translatable"
    BY <1>4 DEF Covered, CallsWith
  <2> QED  BY <1>4, <2>1 DEF Status, Incomplete
<1>6. Scanned = Len(world.calls) /\ Tried = m /\ SupportedTo(found.calls, m) = 1 .. m
  BY <1>1, <1>5 DEF Scanned, Tried, SupportedTo
<1>7. PICK scan : /\ Enumerates(scan, m, SeenTo(Len(world.calls)))
                  /\ \A j \in 1 .. m : found.calls[j] = Read(world.calls[scan[j]])
  BY <1>6 DEF ScriptIInv, CallsAreSeen
<1>8. PICK plan : /\ Enumerates(plan, Len(found.plan), 1 .. m)
                  /\ \A n \in 1 .. Len(found.plan) :
                       found.plan[n] = [call |-> found.calls[plan[n]],
                                        payload |-> Payload(found.calls[plan[n]])]
  BY <1>6 DEF ScriptIInv, PlanIsOfCalls
\* What was read is the call that was seen, or a bare name taken for another's.
<1>9. ASSUME NEW j \in 1 .. m
      PROVE  scan[j] \in DOMAIN world.calls /\ Taken(found.calls[j], world.calls[scan[j]])
  <2> DEFINE c == world.calls[scan[j]]
  <2>1. scan[j] \in 1 .. Len(world.calls) /\ Seen(c)
    BY <1>7 DEF Enumerates, SeenTo
  <2>2. c \in Range(world.calls)
    BY <1>1, <2>1, WorldsOfScripts
  <2>3. /\ ~Bare(c) => Read(c) = c
        /\ OfArcPy(c) /\ ~(Len(world.stars) > 1) => Read(c) = c
        /\ Read(c) = [c EXCEPT !.family = Read(c).family, !.tool = Read(c).tool]
    BY <1>1, <1>2, <2>2, ReadIsReadable
  <2>4. found.calls[j] = Read(c)
    BY <1>7
  <2>5. Bare(c) => world.stars # <<>>
    BY <2>1 DEF Seen, Bare
  <2> HIDE DEF c
  <2>6. ASSUME Bare(c)
        PROVE  Taken(Read(c), c)
    <3>1. ~(OfArcPy(c) => Len(world.stars) > 1) => Read(c) = c /\ OfArcPy(c)
      BY <2>3
    <3> QED  BY <2>3, <2>5, <2>6, <3>1 DEF Taken
  <2>7. ASSUME ~Bare(c)
        PROVE  Taken(Read(c), c)
    <3>1. OfArcPy(c) \/ c.ref = "rebound"
      BY <2>1, <2>7 DEF c, Seen, OfArcPy, Bare
    <3> QED  BY <2>3, <2>7, <3>1 DEF Taken
  <2>8. Taken(Read(c), c)
    BY <2>6, <2>7
  <2> QED  BY <1>3, <2>1, <2>4, <2>8 DEF c
<1>10. ASSUME NEW i \in Visible
       PROVE  \E j \in 1 .. m : scan[j] = i
  <2>1. i \in SeenTo(Len(world.calls))
    BY <1>2, <1>3, VisibleIsSeen DEF SeenTo, Visible
  <2> QED  BY <1>7, <2>1 DEF Enumerates
<1>11. result.steps # <<>>
  <2>1. 1 \in 1 .. m
    BY <1>1, <1>3, <1>4, EmptySeq
  <2>2. \E n \in 1 .. Len(found.plan) : plan[n] = 1
    BY <1>8, <2>1 DEF Enumerates
  <2>3. Len(found.plan) # 0
    BY <2>2
  <2> QED  BY <1>1, <2>3
<1> DEFINE place == [n \in 1 .. Len(found.plan) |-> scan[plan[n]]]
<1>12. /\ place \in [DOMAIN result.steps -> DOMAIN world.calls]
       /\ DOMAIN place = 1 .. Len(found.plan)
  BY <1>1, <1>3, <1>8, <1>9 DEF Enumerates
<1>13. ASSUME NEW j \in DOMAIN place, NEW n \in DOMAIN place, j < n
       PROVE  place[j] < place[n]
  <2>1. plan[j] \in 1 .. m /\ plan[n] \in 1 .. m /\ plan[j] < plan[n]
    BY <1>8, <1>13 DEF Enumerates
  <2> QED  BY <1>7, <2>1 DEF Enumerates
<1>14. ASSUME NEW i \in Visible
       PROVE  \E n \in DOMAIN place : place[n] = i
  <2>1. PICK j \in 1 .. m : scan[j] = i
    BY <1>10
  <2>2. PICK n \in 1 .. Len(found.plan) : plan[n] = j
    BY <1>8 DEF Enumerates
  <2>3. n \in DOMAIN place /\ place[n] = i
    BY <2>1, <2>2
  <2> QED  BY <2>3
<1>15. ASSUME NEW n \in 1 .. Len(found.plan)
       PROVE  /\ plan[n] \in 1 .. m /\ found.plan[n].call = found.calls[plan[n]]
              /\ Taken(found.plan[n].call, world.calls[place[n]])
  <2>1. plan[n] \in 1 .. m
    BY <1>8 DEF Enumerates
  <2>2. found.plan[n] = [call |-> found.calls[plan[n]], payload |-> Payload(found.calls[plan[n]])]
    BY <1>8
  <2>3. found.plan[n].call = found.calls[plan[n]]
    BY <2>2
  <2> QED  BY <1>9, <2>1, <2>3
<1>16. ASSUME NEW n \in 1 .. Len(found.plan)
       PROVE  LET call == result.steps[n].call
              IN /\ ~call.blocked
                 /\ Expression \notin Values(call)
                 /\ SpecOf(call).job \in ExecutableProcesses
                 /\ world.published => SpecOf(call).job = "geometry.buffer"
  <2>1. plan[n] \in 1 .. m /\ result.steps[n].call = found.calls[plan[n]]
    BY <1>1, <1>15
  <2>2. world.published => SpecOf(found.plan[n].call).job = "geometry.buffer"
    BY <1>1, <1>3 DEF Sendable, Published
  <2> QED  BY <1>1, <1>4, <1>5, <2>1, <2>2 DEF Unresolved
<1> HIDE DEF place
<1>17. \E map \in [DOMAIN result.steps -> DOMAIN world.calls] :
         /\ \A j, n \in DOMAIN map : j < n => map[j] < map[n]
         /\ \A i \in Visible : \E n \in DOMAIN map : map[n] = i
         /\ \A n \in DOMAIN map : Taken(result.steps[n].call, world.calls[map[n]])
  BY <1>1, <1>12, <1>13, <1>14, <1>15
<1> QED  BY <1>1, <1>2, <1>3, <1>11, <1>16, <1>17

-----------------------------------------------------------------------------
(* The part in focus.                                                      *)

PartsInv ==
  /\ focus = "server" => ServerIInv
  /\ focus = "portal" => PortalIInv
  /\ focus = "access" => AccessIInv
  /\ focus = "requests" => RequestsIInv
  /\ focus = "licensing" => LicensingIInv
  /\ focus = "handoff" => HandoffIInv
  /\ focus = "reconcile" => ReconcileIInv
  /\ focus = "script" => ScriptIInv

LEMMA InitParts ==
  ASSUME PartsInit
  PROVE  PartsInv
<1>1. \/ focus = "server" /\ Server!Init
      \/ focus = "portal" /\ Portal!Init
      \/ focus = "access" /\ Access!Init
      \/ focus = "requests" /\ Requests!Init
      \/ focus = "licensing" /\ Licensing!Init
      \/ focus = "handoff" /\ Handoff!Init
      \/ focus = "reconcile" /\ Reconcile!Init
      \/ focus = "script" /\ Init
  BY DEF PartsInit
<1> QED
  BY <1>1, InitServer, InitPortal, InitAccess, InitRequests, InitLicensing, InitHandoff,
     InitReconcile, InitScript DEF PartsInv

\* The part in focus takes its own step, or the step changes nothing.
LEMMA PartsStep ==
  ASSUME [PartsNext]_all
  PROVE  /\ focus' = focus
         /\ focus = "server" => [Server!Next]_(Server!vars)
         /\ focus = "portal" => [Portal!Next]_(Portal!vars)
         /\ focus = "access" => [Access!Next]_(Access!vars)
         /\ focus = "requests" => [Requests!Next]_(Requests!vars)
         /\ focus = "licensing" => [Licensing!Next]_(Licensing!vars)
         /\ focus = "handoff" => [Handoff!Next]_(Handoff!vars)
         /\ focus = "reconcile" => [Reconcile!Next]_(Reconcile!vars)
         /\ focus = "script" => [Next]_vars
<1>1. CASE UNCHANGED all
  <2>1. focus' = focus /\ UNCHANGED <<world, pc, found, diags, result>>
    BY <1>1 DEF all, vars
  <2> QED
    BY <2>1 DEF vars, Server!vars, Portal!vars, Access!vars, Requests!vars, Licensing!vars,
       Handoff!vars, Reconcile!vars
<1>2. CASE Reads
  BY <1>2 DEF Reads
<1> QED
  BY <1>1, <1>2 DEF PartsNext, Done

LEMMA NextParts ==
  ASSUME PartsInv, [PartsNext]_all
  PROVE  PartsInv'
<1>1. focus = "server" => ServerIInv'
  BY PartsStep, NextServer DEF PartsInv
<1>2. focus = "portal" => PortalIInv'
  BY PartsStep, NextPortal DEF PartsInv
<1>3. focus = "access" => AccessIInv'
  BY PartsStep, NextAccess DEF PartsInv
<1>4. focus = "requests" => RequestsIInv'
  BY PartsStep, NextRequests DEF PartsInv
<1>5. focus = "licensing" => LicensingIInv'
  BY PartsStep, NextLicensing DEF PartsInv
<1>6. focus = "handoff" => HandoffIInv'
  BY PartsStep, NextHandoff DEF PartsInv
<1>7. focus = "reconcile" => ReconcileIInv'
  BY PartsStep, NextReconcile DEF PartsInv
<1>8. focus = "script" => ScriptIInv'
  BY PartsStep, NextScript DEF PartsInv
<1>9. focus' = focus
  BY PartsStep
<1> QED
  BY <1>1, <1>2, <1>3, <1>4, <1>5, <1>6, <1>7, <1>8, <1>9 DEF PartsInv

\* The invariant of the part in focus, from which the rest follows.
THEOREM PartsInvariance == PartsSpec => []PartsInv
<1>1. PartsInit => PartsInv
  BY InitParts
<1>2. PartsInv /\ [PartsNext]_all => PartsInv'
  BY NextParts
<1> QED
  BY <1>1, <1>2, PTL DEF PartsSpec

\* Whatever a part scans, its five variables have their types.
THEOREM TypesOKHolds == PartsSpec => []TypesOK
<1>1. PartsInv => TypesOK
  BY ServerTypeOKFollows, PortalTypeOKFollows, AccessTypeOKFollows, RequestsFollows,
     LicensingTypeOKFollows, HandoffFollows, ReconcileTypeOKFollows, ScriptTypeOKFollows
  DEF PartsInv, TypesOK
<1> QED
  BY <1>1, PartsInvariance, PTL

\* The scans of a server, a portal and their licences (server/scanner.py, portal/scanner.py
\* and entitlements/ of honua_esri_assess) name by a diagnostic whatever they could not read
\* or leave out, and a portal item that was not read is left to a human.
THEOREM GapsAreReportedHolds == PartsSpec => []GapsAreReported
<1>1. PartsInv => GapsAreReported
  BY EveryGapIsReportedFollows, PortalGapsAreReportedFollows, UnreadItemsAreReviewedFollows,
     LicensingIsTrueFollows DEF PartsInv, GapsAreReported
<1> QED
  BY <1>1, PartsInvariance, PTL

\* A utility network that the server scan keeps makes the verdict of every profile a no-go,
\* with the boundary of utility networks (verdict/engine.py).
THEOREM LockInTypesAreNoGoHolds == PartsSpec => []LockInTypesAreNoGo
<1>1. PartsInv => LockInTypesAreNoGo
  BY LockInTypesAreNoGoFollows DEF PartsInv, LockInTypesAreNoGo
<1> QED
  BY <1>1, PartsInvariance, PTL

\* dependency_order of heuristics.py puts an item behind what it depends on, unless it is
\* behind a cycle.
THEOREM PortalOrderIsSoundHolds == PartsSpec => []PortalOrderIsSound
<1>1. PartsInv => PortalOrderIsSound
  BY PortalOrderIsSoundFollows DEF PartsInv, PortalOrderIsSound
<1> QED
  BY <1>1, PartsInvariance, PTL

\* The retries of the clients stay within their attempts and what they may sleep, and their
\* answer is what the last response said.
THEOREM RequestsAreBoundedHolds == PartsSpec => []RequestsAreBounded
<1>1. PartsInv => RequestsAreBounded
  BY RequestsFollows DEF PartsInv, RequestsAreBounded
<1> QED
  BY <1>1, PartsInvariance, PTL

\* No rule that the access assessment writes grants what the server denied or did not say,
\* and the privileges of a role are those that the portal gives it.
THEOREM AccessIsNotWidenedHolds == PartsSpec => []AccessIsNotWidened
<1>1. PartsInv => AccessIsNotWidened
  BY AccessIsNotWidenedFollows, RolesKeepPrivilegesFollows DEF PartsInv, AccessIsNotWidened
<1> QED
  BY <1>1, PartsInvariance, PTL

\* The plan of an import is the closure of its layer, the handoff maps what was planned to
\* what was imported, and a reconciliation that matches compared everything of one run.
THEOREM HandoffIsTrueHolds == PartsSpec => []HandoffIsTrue
<1>1. PartsInv => HandoffIsTrue
  BY HandoffFollows, MatchIsCompleteFollows DEF PartsInv, HandoffIsTrue
<1> QED
  BY <1>1, PartsInvariance, PTL

\* code run sends the ArcPy calls of the script, all and in their order, or nothing.
THEOREM ScriptRunIsTheScriptHolds == PartsSpec => []ScriptRunIsTheScript
<1>1. PartsInv => ScriptRunIsTheScript
  BY RunIsTheScriptFollows DEF PartsInv, ScriptRunIsTheScript
<1> QED
  BY <1>1, PartsInvariance, PTL

\* _translate_call gives the process, for every parameter of a registered tool, the argument
\* that _call_argument takes for it.
THEOREM ScriptKeepsItsArgumentsHolds == PartsSpec => []ScriptKeepsItsArguments
<1>1. PartsInv => ScriptKeepsItsArguments
  BY ArgumentsKeepTheirPlaceFollows DEF PartsInv, ScriptKeepsItsArguments
<1> QED
  BY <1>1, PartsInvariance, PTL

\* build_parity_evidence counts every call once, and calls translatable only what is a job.
THEOREM ScriptEvidenceIsHonestHolds == PartsSpec => []ScriptEvidenceIsHonest
<1>1. PartsInv => ScriptEvidenceIsHonest
  BY EvidenceIsHonestFollows DEF PartsInv, ScriptEvidenceIsHonest
<1> QED
  BY <1>1, PartsInvariance, PTL
=============================================================================
