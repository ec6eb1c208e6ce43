---------------------------- MODULE AssessRequests ----------------------------
(* One GET of an assessment, by each of its four clients: server/client.py, *)
(* portal/client.py, scanners/http.py (the flat scanners) and entitlements/ *)
(* http.py (licences, access, usage).  They differ in what they repeat, in  *)
(* how long they sleep, and in what they make of an answer.                *)
EXTENDS Assessment, Integers

CONSTANTS
  MaxAttempts,  \* attempts of a client that repeats
  Budget,       \* max_total_seconds: the sleeps of one request to a server
  Cap,          \* retry_after_cap_seconds: one sleep of a request to a portal
  Delays        \* what Retry-After may say, in seconds; None: no such header

Clients == {"server", "portal", "scanner", "entitlements"}

Statuses == {200, 400, 401, 403, 404, 429, 500, 502, 503}

\* A body is an object, something else, or an error envelope with its code.
Bodies == {0, -1} \union {401, 403, 404, 429, 498, 500}
Object == 0
NotJson == -1

Answer == [status : Statuses, body : Bodies, after : Delays]

Init ==
  /\ world \in [client : Clients]
  /\ pc = "send"
  /\ found = [attempt |-> 0, slept |-> 0, last |-> None, delay |-> 0]
  /\ diags = {}
  /\ result = None

-----------------------------------------------------------------------------
(* What is repeated.                                                       *)

Transient(client) ==
  CASE client = "server" -> {429, 502, 503}
    [] client \in {"portal", "scanner"} -> {429, 500, 502, 503}
    [] client = "entitlements" -> {}

\* Twice as long after every attempt.
Backoff(attempt) == 2 ^ (attempt - 1)

Lesser(a, b) == IF a < b THEN a ELSE b

\* scanners/http does not sleep at all.
Delay(client, answer, attempt) ==
  LET asked == IF answer.after = None THEN Backoff(attempt) ELSE answer.after
  IN CASE client = "server" -> Lesser(asked, Budget)
       [] client = "portal" -> Lesser(asked, Cap)
       [] OTHER -> 0

\* Every sleep is within the budget by itself.
MutAffords(client, slept, delay) == client = "server" => delay <= Budget

\* Only requests to a server count what they have slept.
Affords(client, slept, delay) == client = "server" => slept + delay <= Budget

Repeats(client, answer) ==
  /\ answer.status \in Transient(client)
  /\ found.attempt < MaxAttempts
  /\ Affords(client, found.slept, Delay(client, answer, found.attempt))

-----------------------------------------------------------------------------
(* What an answer means: one of the typed errors, or ok.                   *)

StatusError(status) ==
  CASE status = 401 -> "auth"
    [] status = 403 -> "forbidden"
    [] status = 404 -> "not-found"
    [] status = 429 -> "limited"
    [] status >= 500 -> "connection"
    [] OTHER -> "api"

\* 498 and 499 are Esri's codes for a bad token.
EnvelopeError(code) ==
  CASE code \in {498, 499, 401} -> "auth"
    [] code \in {403, 404, 429} -> StatusError(code)
    [] OTHER -> "api"

\* The status decides before the body is looked at.
ServerOutcome(a) ==
  CASE a.status >= 400 -> StatusError(a.status)
    [] a.body = NotJson -> "api"
    [] a.body # Object -> EnvelopeError(a.body)
    [] OTHER -> "ok"

\* The body decides: a page that is not JSON is an api error whatever its
\* status, and of the codes of an envelope only 498, 499 and 429 count.
PortalOutcome(a) ==
  CASE a.body = NotJson -> "api"
    [] a.body = 498 -> "auth"
    [] a.status \in {401, 403, 404, 429} -> StatusError(a.status)
    [] a.body = 429 -> "limited"
    [] a.status >= 400 \/ a.body # Object -> "api"
    [] OTHER -> "ok"

\* fetch_json and _interpret: denied, limited, or partial.  The first counts a
\* 401 as any other failure; both turn a failure into a diagnostic.
ScannerOutcome(a) ==
  CASE a.status \in {403, 429} -> StatusError(a.status)
    [] a.status >= 400 \/ a.body = NotJson -> "api"
    [] a.body \in {403, 429} -> StatusError(a.body)
    [] a.body # Object -> "api"
    [] OTHER -> "ok"

EntitlementsOutcome(a) ==
  CASE a.body = NotJson -> "api"
    [] a.status \in {401, 403} -> "forbidden"
    [] a.status \in {404, 429} -> StatusError(a.status)
    [] a.status >= 400 -> "api"
    [] a.body \in {401, 403, 498} -> "forbidden"
    [] a.body = 429 -> "limited"
    [] a.body # Object -> "api"
    [] OTHER -> "ok"

\* The envelope of a successful status is not looked at.
MutMeaning(client, a) == IF a.status = 200 /\ a.body # NotJson THEN "ok" ELSE "api"

Meaning(client, a) ==
  CASE client = "server" -> ServerOutcome(a)
    [] client = "portal" -> PortalOutcome(a)
    [] client = "scanner" -> ScannerOutcome(a)
    [] client = "entitlements" -> EntitlementsOutcome(a)

-----------------------------------------------------------------------------
Send ==
  /\ pc = "send"
  /\ pc' = "sent"
  /\ found' = [found EXCEPT !.attempt = @ + 1, !.last = None]
  /\ UNCHANGED <<world, diags, result>>

Finish(outcome) ==
  /\ pc' = "ended"
  /\ result' = outcome
  /\ UNCHANGED <<world, diags>>

\* A failure of the transport ends the request, but for scanners/http.
Unreachable ==
  /\ pc = "sent"
  /\ IF world.client = "scanner" /\ found.attempt < MaxAttempts
       THEN pc' = "send" /\ UNCHANGED <<world, diags, result>>
       ELSE Finish("connection")
  /\ UNCHANGED found

Receive(a) ==
  /\ pc = "sent"
  /\ IF Repeats(world.client, a)
       THEN /\ pc' = "sleep"
            /\ found' = [found EXCEPT !.delay = Delay(world.client, a, found.attempt), !.last = a]
            /\ UNCHANGED <<world, diags, result>>
       ELSE /\ Finish(Meaning(world.client, a))
            /\ found' = [found EXCEPT !.last = a]

Wake ==
  /\ pc = "sleep"
  /\ pc' = "send"
  /\ found' = [found EXCEPT !.slept = @ + found.delay, !.delay = 0]
  /\ UNCHANGED <<world, diags, result>>

Next == Send \/ Unreachable \/ Wake \/ \E a \in Answer : Receive(a)

Spec == Init /\ [][Next]_vars /\ WF_vars(Next)

-----------------------------------------------------------------------------
TypeOK ==
  /\ world.client \in Clients
  /\ pc \in {"send", "sent", "sleep", "ended"}
  /\ found.attempt \in Nat /\ found.slept \in Nat /\ found.delay \in Nat
  /\ result \in Outcomes \union {None}

\* However long a server asks the client to wait, a request is sent no more than
\* MaxAttempts times and sleeps no longer than its budget or its caps allow.
RequestIsBounded ==
  /\ found.attempt <= MaxAttempts
  /\ found.slept + found.delay <=
       CASE world.client = "server" -> Budget
         [] world.client = "portal" -> (MaxAttempts - 1) * Cap
         [] OTHER -> 0

\* A body is used only if the server said it is one: no failing status and no
\* error envelope counts as an answer, and no good answer as a failure.
AnswerIsUnderstood ==
  pc = "ended" /\ found.last # None =>
    (result = "ok" <=> found.last.status = 200 /\ found.last.body = Object)
=============================================================================
