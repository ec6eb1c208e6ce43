------------------------- MODULE ContentImport_proofs -------------------------
(***************************************************************************)
(* Proofs about ContentImport, for any number of layers and any counts:    *)
(* the report covers every layer, each started once; and with a server     *)
(* that sends statuses by name, the layers it calls completed are, and     *)
(* those that pass the reconciliation arrived.                             *)
(***************************************************************************)
EXTENDS ContentImport, TLAPS

-----------------------------------------------------------------------------
(* The inductive invariant.                                                *)

\* None is no exit code, no verdict, no entry and no report.
NoneIsNone ==
  ConstantsOK /\ None \notin {0, 1} \union Verdicts \union Entries \union [Layers -> Entries]

Untouched(l) == starts[l] = 0 /\ staged[l] = None

Settled(l) == starts[l] = 1 /\ staged[l] \in Entries

Places == {"start", "starting", "poll", "polling"}

\* Layers are settled one after the other.
LayersInOrder ==
  /\ \A l \in Layers : l < layer => Settled(l)
  /\ \A l \in Layers : l > layer => Untouched(l)
  /\ pc = "start" => Untouched(layer)
  /\ pc \in {"starting", "poll", "polling"} => starts[layer] = 1 /\ staged[layer] = None
  /\ pc \notin Places => \A l \in Layers : Settled(l)

\* A start that the server has yet to take has made no job.
StartsAreTrue ==
  \A l \in Layers :
    /\ starts[l] = 0 => job[l].status = "none" /\ l \notin inFlight
    /\ l \in inFlight => job[l].status = "none"

\* A finished job stays as it is, so an answer that shows one stays true.
ReplyIsTrue ==
  reply # None =>
    /\ pc \in {"starting", "polling"}
    /\ reply.status \in Working \union Finished
    /\ reply.status \in Finished => reply = job[layer]

\* The report is what the import staged.
OutputIsTrue ==
  /\ output # None => output = staged /\ pc \in {"report", "ended"}
  /\ pc = "report" => output # None
  /\ exit = 0 => output # None
  /\ pc # "ended" => exit = None /\ \A l \in Layers : verdicts[l] # "pass"

\* Statuses come by name.
Named == Wires = {"name"}

EntriesAreTrue == Named => CompletedIsTrue

VerdictsAreTrue ==
  \A l \in Layers : verdicts[l] = "pass" =>
    staged[l] \in Entries /\ staged[l].status = "completed" /\ CountsAgree(staged[l], manifest[l])

IInv ==
  /\ TypeOK
  /\ LayersInOrder
  /\ StartsAreTrue
  /\ ReplyIsTrue
  /\ OutputIsTrue
  /\ EntriesAreTrue
  /\ VerdictsAreTrue
-----------------------------------------------------------------------------
(* The client.                                                             *)

LEMMA LayerNumbers ==
  ASSUME NoneIsNone, TypeOK
  PROVE  N \in Nat /\ layer \in 1 .. N /\ Layers = 1 .. N
BY DEF NoneIsNone, ConstantsOK, TypeOK, Layers

LEMMA StartKeeps ==
  ASSUME NoneIsNone, IInv, Start
  PROVE  IInv'
<1>1. /\ UNCHANGED <<wire, job, layer, expired, reply, manifest, staged, output, exit, verdicts>>
      /\ pc = "start" /\ pc' = "starting"
      /\ starts' = [starts EXCEPT ![layer] = @ + 1]
      /\ inFlight' = inFlight \union {layer}
  BY DEF Start, command
<1>2. layer \in Layers /\ Untouched(layer) /\ reply = None
      /\ job[layer].status = "none"
  BY <1>1 DEF IInv, TypeOK, LayersInOrder, ReplyIsTrue, StartsAreTrue, Untouched
<1>3. \A l \in Layers : starts'[l] = IF l = layer THEN 1 ELSE starts[l]
  BY <1>1, <1>2 DEF IInv, TypeOK, Untouched
<1>4. TypeOK'
  <2>1. starts \in [Layers -> Nat]
    BY DEF IInv, TypeOK
  <2> DEFINE n == starts[layer] + 1
  <2>2. n \in Nat /\ starts' = [starts EXCEPT ![layer] = n]
    BY <1>1, <1>2, <2>1
  <2> HIDE DEF n
  <2>3. starts' \in [Layers -> Nat]
    BY <2>1, <2>2
  <2>4. inFlight' \subseteq Layers
    BY <1>1, <1>2 DEF IInv, TypeOK
  <2> QED
    BY <1>1, <2>3, <2>4 DEF IInv, TypeOK
<1>5. LayersInOrder'
  BY <1>1, <1>2, <1>3, LayerNumbers DEF IInv, LayersInOrder, Untouched, Settled, Places
<1>6. StartsAreTrue' /\ ReplyIsTrue'
  BY <1>1, <1>2, <1>3 DEF IInv, StartsAreTrue, ReplyIsTrue
<1>7. OutputIsTrue' /\ EntriesAreTrue' /\ VerdictsAreTrue'
  BY <1>1 DEF IInv, OutputIsTrue, EntriesAreTrue, CompletedIsTrue, VerdictsAreTrue, CountsAgree
<1> QED
  BY <1>4, <1>5, <1>6, <1>7 DEF IInv

\* The layer at hand gets its entry, which is true if the status came by name.
LEMMA SettleKeeps ==
  ASSUME NoneIsNone, IInv, pc \in {"starting", "polling"}, NEW entry \in Entries, Settle(entry),
         Named /\ entry.status = "completed" =>
           job[layer].status = "completed" /\ entry.processed = job[layer].processed
  PROVE  IInv'
<1>1. /\ UNCHANGED <<wire, job, inFlight, starts, manifest, output, exit, verdicts>>
      /\ staged' = [staged EXCEPT ![layer] = entry]
      /\ reply' = None /\ expired' = FALSE
      /\ \/ layer < N /\ layer' = layer + 1 /\ pc' = "start"
         \/ ~(layer < N) /\ layer' = layer /\ pc' = "commit"
  BY DEF Settle, server
<1>2. /\ N \in Nat /\ layer \in 1 .. N /\ Layers = 1 .. N
      /\ starts[layer] = 1 /\ staged[layer] = None
  BY LayerNumbers DEF IInv, LayersInOrder
<1>3. \A l \in Layers : staged'[l] = IF l = layer THEN entry ELSE staged[l]
  BY <1>1, <1>2 DEF IInv, TypeOK
<1>4. TypeOK'
  <2>1. staged' \in [Layers -> Entries \union {None}]
    BY <1>1 DEF IInv, TypeOK
  <2>2. layer' \in Layers /\ pc' \in {"start", "commit"}
    BY <1>1, <1>2
  <2> QED
    BY <1>1, <2>1, <2>2 DEF IInv, TypeOK
<1>5. LayersInOrder'
  BY <1>1, <1>2, <1>3 DEF IInv, LayersInOrder, Untouched, Settled, Places
<1>6. StartsAreTrue' /\ ReplyIsTrue'
  BY <1>1 DEF IInv, StartsAreTrue, ReplyIsTrue
<1>7. OutputIsTrue' /\ VerdictsAreTrue'
  <2>1. output = None /\ exit = None /\ \A l \in Layers : verdicts[l] # "pass"
    BY DEF IInv, OutputIsTrue
  <2> QED
    BY <1>1, <2>1 DEF OutputIsTrue, VerdictsAreTrue, NoneIsNone
<1>8. EntriesAreTrue'
  BY <1>1, <1>3 DEF IInv, EntriesAreTrue, CompletedIsTrue, Named
<1> QED
  BY <1>4, <1>5, <1>6, <1>7, <1>8 DEF IInv

LEMMA FailureIsEntry == Failure \in Entries /\ Failure.status = "failed"
BY DEF Failure, Entries

LEMMA LayerFailsKeeps ==
  ASSUME NoneIsNone, IInv, LayerFails
  PROVE  IInv'
BY FailureIsEntry, SettleKeeps DEF LayerFails

\* The client goes on without a word about the layer.
LEMMA GoesOn ==
  ASSUME NoneIsNone, IInv, pc \in {"starting", "poll", "polling"}, pc' \in {"poll", "polling"},
         UNCHANGED <<wire, job, inFlight, starts, layer, manifest, staged, output, exit, verdicts>>,
         expired' \in BOOLEAN,
         reply' = None \/ (reply' = reply /\ (reply # None => pc' = "polling"))
  PROVE  IInv'
<1>1. TypeOK'
  BY DEF IInv, TypeOK
<1>2. LayersInOrder' /\ StartsAreTrue' /\ ReplyIsTrue'
  BY DEF IInv, LayersInOrder, Untouched, Settled, Places, StartsAreTrue, ReplyIsTrue
<1>3. OutputIsTrue' /\ EntriesAreTrue' /\ VerdictsAreTrue'
  BY DEF IInv, OutputIsTrue, EntriesAreTrue, CompletedIsTrue, VerdictsAreTrue, CountsAgree
<1> QED
  BY <1>1, <1>2, <1>3 DEF IInv

LEMMA PollsKeep ==
  ASSUME NoneIsNone, IInv, Started \/ Poll \/ Expire
  PROVE  IInv'
<1>1. reply # None => pc # "poll"
  BY DEF IInv, ReplyIsTrue
<1>2. /\ pc \in {"starting", "poll", "polling"} /\ pc' \in {"poll", "polling"}
      /\ UNCHANGED <<wire, job, inFlight, starts, layer, manifest, staged, output, exit, verdicts>>
      /\ expired' \in {expired, TRUE}
      /\ reply' = None \/ (reply' = reply /\ (reply # None => pc' = "polling"))
  BY <1>1 DEF Started, Poll, Expire, server, command
<1>3. expired' \in BOOLEAN
  BY <1>2 DEF IInv, TypeOK
<1> QED
  BY <1>2, <1>3, GoesOn

\* A status by name is read as what it is; the needs-review of a server is work in progress.
LEMMA NamesAreRead ==
  ASSUME IInv, Named, reply # None, ReadStatus(reply.status) = "completed"
  PROVE  reply.status = "completed" /\ reply = job[layer]
<1>1. wire = "name"
  BY DEF IInv, TypeOK, Named
<1>2. reply.status = "completed"
  BY <1>1 DEF ReadStatus, ReadName
<1> QED
  BY <1>2 DEF IInv, ReplyIsTrue, Finished

LEMMA PolledKeeps ==
  ASSUME NoneIsNone, IInv, Polled
  PROVE  IInv'
<1>1. pc = "polling" /\ reply # None /\ reply \in JobStates /\ expired \in BOOLEAN
  BY DEF Polled, IInv, TypeOK
<1>2. ReadStatus(reply.status) \in {"completed", "failed", "cancelled", "running"}
  BY DEF ReadStatus, ReadName, ReadNumber
<1>3. CASE ReadStatus(reply.status) = "completed"
  <2> DEFINE entry == [status |-> "completed", processed |-> reply.processed]
  <2>1. Settle(entry)
    BY <1>3 DEF Polled
  <2>2. entry \in Entries /\ entry.processed = reply.processed
    BY <1>1 DEF JobStates, Entries
  <2>3. Named => job[layer].status = "completed" /\ reply.processed = job[layer].processed
    BY <1>1, <1>3, NamesAreRead
  <2> HIDE DEF entry
  <2> QED
    BY <1>1, <2>1, <2>2, <2>3, SettleKeeps
<1>4. CASE \/ ReadStatus(reply.status) \in {"failed", "cancelled"}
           \/ ReadStatus(reply.status) = "running" /\ expired
  <2>1. Settle(Failure)
    BY <1>4 DEF Polled
  <2> QED
    BY <1>1, <2>1, FailureIsEntry, SettleKeeps
<1>5. CASE ReadStatus(reply.status) = "running" /\ ~expired
  <2>1. /\ reply' = None /\ pc' = "poll"
        /\ UNCHANGED <<server, starts, layer, expired, command>>
    BY <1>5 DEF Polled
  <2>2. UNCHANGED <<wire, job, inFlight, starts, layer, manifest, staged, output, exit, verdicts>>
    BY <2>1 DEF server, command
  <2> QED
    BY <1>1, <2>1, <2>2, GoesOn
<1> QED
  BY <1>1, <1>2, <1>3, <1>4, <1>5

\* The commands around it.
LEMMA CommandsKeep ==
  ASSUME NoneIsNone, IInv, Commit \/ CommitFails \/ Report
  PROVE  IInv'
<1>1. /\ UNCHANGED <<wire, job, inFlight, starts, layer, expired, reply, manifest, staged, verdicts>>
      /\ pc \in {"commit", "report"}
      /\ \/ pc = "commit" /\ output' = staged /\ pc' = "report" /\ exit' = exit
         \/ pc = "commit" /\ output' = output /\ pc' = "ended" /\ exit' = 1
         \/ pc = "report" /\ output' = output /\ pc' = "ended" /\ exit' \in {0, 1}
  BY DEF Commit, CommitFails, Report, server
<1>2. \A l \in Layers : Settled(l)
  BY <1>1 DEF IInv, LayersInOrder, Places
<1>3. staged \in [Layers -> Entries] /\ staged # None
  BY <1>2 DEF IInv, TypeOK, Settled, NoneIsNone
<1>4. TypeOK'
  BY <1>1, <1>3 DEF IInv, TypeOK
<1>5. LayersInOrder' /\ StartsAreTrue' /\ ReplyIsTrue'
  BY <1>1, <1>2 DEF IInv, LayersInOrder, Untouched, Settled, Places, StartsAreTrue, ReplyIsTrue
<1>6. OutputIsTrue'
  BY <1>1, <1>3 DEF IInv, OutputIsTrue, NoneIsNone
<1>7. EntriesAreTrue' /\ VerdictsAreTrue'
  BY <1>1 DEF IInv, EntriesAreTrue, CompletedIsTrue, VerdictsAreTrue, CountsAgree
<1> QED
  BY <1>4, <1>5, <1>6, <1>7 DEF IInv

LEMMA ReconcileKeeps ==
  ASSUME NoneIsNone, IInv, Reconcile
  PROVE  IInv'
<1>1. /\ UNCHANGED <<wire, job, inFlight, starts, pc, layer, expired, reply, manifest, staged>>
      /\ UNCHANGED <<output, exit>>
      /\ pc = "ended" /\ output # None
      /\ verdicts' = [l \in Layers |->
           IF output[l].status = "completed" /\ CountsAgree(output[l], manifest[l])
             THEN "pass" ELSE "fail"]
  BY DEF Reconcile, server
<1>2. output = staged /\ \A l \in Layers : Settled(l)
  BY <1>1 DEF IInv, OutputIsTrue, LayersInOrder, Places
<1>3. TypeOK'
  BY <1>1 DEF IInv, TypeOK, Verdicts
<1>4. LayersInOrder' /\ StartsAreTrue' /\ ReplyIsTrue' /\ EntriesAreTrue'
  BY <1>1 DEF IInv, LayersInOrder, Untouched, Settled, Places, StartsAreTrue, ReplyIsTrue,
              EntriesAreTrue, CompletedIsTrue
<1>5. OutputIsTrue'
  BY <1>1 DEF IInv, OutputIsTrue
<1>6. VerdictsAreTrue'
  BY <1>1, <1>2 DEF VerdictsAreTrue, Settled, CountsAgree
<1> QED
  BY <1>3, <1>4, <1>5, <1>6 DEF IInv
-----------------------------------------------------------------------------
(* The server.                                                             *)

\* A job that is not finished goes on; the start it came from is done with.
LEMMA JobGoesOn ==
  ASSUME NoneIsNone, IInv, NEW l \in Layers, UNCHANGED <<wire, reply, client>>,
         l \in inFlight \/ job[l].status \in Working,
         inFlight' \in {inFlight, inFlight \ {l}}, l \notin inFlight',
         NEW j \in JobStates, job' = [job EXCEPT ![l] = j]
  PROVE  IInv'
<1>1. /\ UNCHANGED <<wire, starts, pc, layer, expired, reply, manifest, staged, output, exit>>
      /\ UNCHANGED verdicts
  BY DEF client, command
<1>2. /\ job'[l] = j /\ \A k \in Layers \ {l} : job'[k] = job[k]
      /\ job[l].status \notin Finished
  BY DEF IInv, TypeOK, StartsAreTrue, Finished, Working
<1>3. starts[l] # 0
  BY DEF IInv, StartsAreTrue, Working
<1>4. TypeOK'
  BY <1>1 DEF IInv, TypeOK
<1>5. LayersInOrder' /\ OutputIsTrue' /\ VerdictsAreTrue'
  BY <1>1 DEF IInv, LayersInOrder, Untouched, Settled, Places, OutputIsTrue, VerdictsAreTrue,
              CountsAgree
<1>6. StartsAreTrue'
  BY <1>1, <1>2, <1>3 DEF IInv, StartsAreTrue
<1>7. ReplyIsTrue'
  BY <1>1, <1>2 DEF IInv, TypeOK, ReplyIsTrue
<1>8. EntriesAreTrue'
  BY <1>1, <1>2 DEF IInv, EntriesAreTrue, CompletedIsTrue, Finished, Named
<1> QED
  BY <1>4, <1>5, <1>6, <1>7, <1>8 DEF IInv

LEMMA ServerKeeps ==
  ASSUME NoneIsNone, IInv, NEW l \in Layers,
         \/ Queue(l)
         \/ \E s \in Working \union Finished, n \in Counts \union {None} : Proceed(l, s, n)
  PROVE  IInv'
<1>1. CASE Queue(l)
  <2> DEFINE j == [status |-> "importing", processed |-> None]
  <2>1. /\ j \in JobStates /\ UNCHANGED <<wire, reply, client>>
        /\ l \in inFlight /\ inFlight' = inFlight \ {l} /\ job' = [job EXCEPT ![l] = j]
    BY <1>1 DEF Queue, JobStates, Working
  <2> HIDE DEF j
  <2> QED
    BY <2>1, JobGoesOn
<1>2. CASE \E s \in Working \union Finished, n \in Counts \union {None} : Proceed(l, s, n)
  <2>1. PICK s \in Working \union Finished, n \in Counts \union {None} : Proceed(l, s, n)
    BY <1>2
  <2> DEFINE j == [status |-> s, processed |-> n]
  <2>2. /\ j \in JobStates /\ UNCHANGED <<wire, reply, client>>
        /\ job[l].status \in Working /\ inFlight' = inFlight /\ job' = [job EXCEPT ![l] = j]
    BY <2>1 DEF Proceed, JobStates, Working
  <2>3. l \notin inFlight
    BY <2>2 DEF IInv, StartsAreTrue, Working
  <2> HIDE DEF j
  <2> QED
    BY <2>2, <2>3, JobGoesOn
<1> QED
  BY <1>1, <1>2

LEMMA AnswerKeeps ==
  ASSUME NoneIsNone, IInv, Answer
  PROVE  IInv'
<1>1. /\ UNCHANGED <<wire, job, inFlight, starts, pc, layer, expired, manifest, staged, output>>
      /\ UNCHANGED <<exit, verdicts>>
      /\ pc \in {"starting", "polling"} /\ job[layer].status # "none" /\ reply' = job[layer]
  BY DEF Answer, server, client, command
<1>2. job[layer] \in JobStates
  BY DEF IInv, TypeOK
<1>3. TypeOK'
  BY <1>1, <1>2 DEF IInv, TypeOK
<1>4. ReplyIsTrue'
  BY <1>1, <1>2 DEF ReplyIsTrue, JobStates
<1>5. LayersInOrder' /\ StartsAreTrue' /\ OutputIsTrue'
  BY <1>1 DEF IInv, LayersInOrder, Untouched, Settled, Places, StartsAreTrue, OutputIsTrue
<1>6. EntriesAreTrue' /\ VerdictsAreTrue'
  BY <1>1 DEF IInv, EntriesAreTrue, CompletedIsTrue, VerdictsAreTrue, CountsAgree
<1> QED
  BY <1>3, <1>4, <1>5, <1>6 DEF IInv
-----------------------------------------------------------------------------
(* Theorems.                                                               *)

LEMMA InitIInv ==
  ASSUME NoneIsNone, Init
  PROVE  IInv
<1>1. TypeOK
  <2>1. NoJob \in JobStates
    BY DEF NoJob, JobStates
  <2>2. job \in [Layers -> JobStates] /\ starts \in [Layers -> Nat]
    BY <2>1 DEF Init
  <2>3. staged \in [Layers -> Entries \union {None}] /\ verdicts \in [Layers -> Verdicts \union {None}]
    BY DEF Init
  <2>4. layer \in Layers
    BY DEF Init, Layers, NoneIsNone, ConstantsOK
  <2> QED
    BY <2>2, <2>3, <2>4 DEF Init, TypeOK, NoneIsNone
<1>2. LayersInOrder /\ StartsAreTrue
  BY DEF Init, NoneIsNone, ConstantsOK, LayersInOrder, Untouched, Settled, Places, StartsAreTrue,
         NoJob, Layers
<1>3. None # 0 /\ None # "pass"
  BY DEF NoneIsNone, Verdicts
<1>4. \A l \in Layers : verdicts[l] # "pass"
  BY <1>3 DEF Init
<1>5. ReplyIsTrue
  BY DEF Init, ReplyIsTrue
<1>6. OutputIsTrue
  BY <1>3, <1>4 DEF Init, OutputIsTrue
<1>7. EntriesAreTrue
  BY DEF Init, EntriesAreTrue, CompletedIsTrue
<1>8. VerdictsAreTrue
  BY <1>4 DEF VerdictsAreTrue
<1> QED
  BY <1>1, <1>2, <1>5, <1>6, <1>7, <1>8 DEF IInv

LEMMA NextIInv ==
  ASSUME NoneIsNone, IInv, [Next]_vars
  PROVE  IInv'
<1>1. CASE Start \/ LayerFails \/ Started \/ Poll \/ Polled
  BY <1>1, StartKeeps, LayerFailsKeeps, PollsKeep, PolledKeeps
<1>2. CASE Commit \/ CommitFails \/ Report \/ Reconcile
  BY <1>2, CommandsKeep, ReconcileKeeps
<1>3. CASE \E l \in Layers :
             \/ Queue(l)
             \/ \E s \in Working \union Finished, n \in Counts \union {None} : Proceed(l, s, n)
  BY <1>3, ServerKeeps
<1>4. CASE Answer \/ Expire
  BY <1>4, AnswerKeeps, PollsKeep
<1>5. CASE UNCHANGED vars
  <2>1. /\ UNCHANGED <<wire, job, inFlight, starts, pc, layer, expired, reply, manifest, staged>>
        /\ UNCHANGED <<output, exit, verdicts>>
    BY <1>5 DEF vars, server, command
  <2>2. TypeOK' /\ LayersInOrder' /\ StartsAreTrue' /\ ReplyIsTrue'
    BY <2>1 DEF IInv, TypeOK, LayersInOrder, Untouched, Settled, Places, StartsAreTrue, ReplyIsTrue
  <2>3. OutputIsTrue' /\ EntriesAreTrue' /\ VerdictsAreTrue'
    BY <2>1 DEF IInv, OutputIsTrue, EntriesAreTrue, CompletedIsTrue, VerdictsAreTrue, CountsAgree
  <2> QED
    BY <2>2, <2>3 DEF IInv
<1> QED
  BY <1>1, <1>2, <1>3, <1>4, <1>5 DEF Next, Work

\* The invariant above, from which the rest follows.
THEOREM Invariance ==
  ASSUME NoneIsNone
  PROVE  Spec => []IInv
<1>1. Init => IInv
  BY InitIInv
<1>2. IInv /\ [Next]_vars => IInv'
  BY NextIInv
<1> QED
  BY <1>1, <1>2, PTL DEF Spec

LEMMA TypeOKFollows ==
  ASSUME NoneIsNone, IInv
  PROVE  TypeOK
  BY DEF IInv

\* Jobs, answers, entries and verdicts are of their types: no entry has a status that
\* reconcile does not know.
THEOREM TypesHold ==
  ASSUME NoneIsNone
  PROVE  Spec => []TypeOK
<1>1. IInv => TypeOK
  BY TypeOKFollows
<1> QED
  BY <1>1, Invariance, PTL

LEMMA ReportCompleteFollows ==
  ASSUME NoneIsNone, IInv
  PROVE  ReportComplete
<1>1. ASSUME IInv, output # None
      PROVE  \A l \in Layers : output[l] # None /\ starts[l] = 1
  <2>1. output = staged /\ \A l \in Layers : Settled(l)
    BY <1>1 DEF IInv, OutputIsTrue, LayersInOrder, Places
  <2> QED
    BY <2>1 DEF Settled, NoneIsNone
<1> QED
  BY <1>1 DEF IInv, OutputIsTrue, ReportComplete

\* Whichever layers fail, the report that runContentImport leaves behind covers every
\* layer, each was started once, and a command that exits 0 has left a report; for servers
\* of both kinds.
THEOREM ReportCompleteHolds ==
  ASSUME NoneIsNone
  PROVE  Spec => []ReportComplete
<1>1. IInv => ReportComplete
  BY ReportCompleteFollows
<1> QED
  BY <1>1, Invariance, PTL

LEMMA CompletedIsTrueFollows ==
  ASSUME NoneIsNone, Named, IInv
  PROVE  CompletedIsTrue
  BY DEF IInv, EntriesAreTrue

\* When the server sends statuses by name, a layer that the report calls completed is
\* completed, with the features the report counts.  By number it need not be:
\* IMPORT_STATUS_BY_ENUM_VALUE is of another contract.
THEOREM CompletedIsTrueHolds ==
  ASSUME NoneIsNone, Named
  PROVE  Spec => []CompletedIsTrue
<1>1. IInv => CompletedIsTrue
  BY CompletedIsTrueFollows
<1> QED
  BY <1>1, Invariance, PTL

LEMMA PassIsTrueFollows ==
  ASSUME NoneIsNone, Named, IInv
  PROVE  PassIsTrue
<1>1. ASSUME IInv, NEW l \in Layers, verdicts[l] = "pass"
      PROVE  /\ job[l].status = "completed"
             /\ job[l].processed = manifest[l] \/ None \in {job[l].processed, manifest[l]}
  <2>1. /\ staged[l] # None /\ staged[l].status = "completed"
        /\ CountsAgree(staged[l], manifest[l])
    BY <1>1 DEF IInv, VerdictsAreTrue, NoneIsNone
  <2>2. job[l].status = "completed" /\ staged[l].processed = job[l].processed
    BY <1>1, <2>1 DEF IInv, EntriesAreTrue, CompletedIsTrue
  <2> QED
    BY <2>1, <2>2 DEF CountsAgree
<1> QED
  BY <1>1 DEF PassIsTrue

\* A layer that passes runContentReconcile is then completed, and no fewer or more
\* features arrived than were exported, as far as both counts are known.
THEOREM PassIsTrueHolds ==
  ASSUME NoneIsNone, Named
  PROVE  Spec => []PassIsTrue
<1>1. IInv => PassIsTrue
  BY PassIsTrueFollows
<1> QED
  BY <1>1, Invariance, PTL
==============================================================================
