------------------------- MODULE LicensingAssessment -------------------------
(***************************************************************************)
(* The collectors of entitlements: what an organization or a server is     *)
(* licensed for (entitlements/portal.py, entitlements/server.py).  They    *)
(* are called from Python only; no command attaches them yet.              *)
(*                                                                         *)
(* An endpoint the token may not read is skipped with a diagnostic.  Any   *)
(* other failure of a request ends the collection.                         *)
(***************************************************************************)
EXTENDS Assessment

CONSTANTS
  Codes,       \* codes of extensions that a portal may report
  Catalogued,  \* the codes with a name in entitlements/extensions.py
  Licences,    \* licences of a server: [code, status]
  Services     \* its services: [folder, name, extensions], of [name, enabled]

Root == ""

\* How a portal counts the seats of a user type, if it lists the type at all.
Seats == {"unlisted", "uncounted", "counted"}

Worlds ==
  [part : {"portal"}, anonymous : BOOLEAN, named : BOOLEAN,
   self : SUBSET Codes, subscription : SUBSET Codes, seats : Seats, types : Seats]
    \union [part : {"server"}, extensions : BOOLEAN, licences : SUBSET Licences,
            services : SUBSET Services]

Init ==
  /\ world \in Worlds
  /\ pc = IF world.part = "portal" THEN "self" ELSE "rest"
  /\ found = [extensions |-> {}, seats |-> "unlisted", anyone |-> FALSE, version |-> None,
              edition |-> FALSE, folders |-> {}, todo |-> {}, services |-> {}, silent |-> {}]
  /\ diags = {}
  /\ result = None

\* Answers without an object to read: of another shape, or empty.
Shapeless == {"odd", "empty"}

\* An HTTP status or an envelope in an HTTP 200; "gone" is an envelope of 404.
Answers == Outcomes \union Shapeless \union {"gone"}

Readable(o) == o = "ok" \/ o \in Shapeless

\* 401 and 403 of either form, and the envelopes 498 and 499.
Denied == {"auth", "forbidden"}

\* _interpret_response of the two collectors: what of an answer is not the end.
\* Only the server's takes a missing page for a gap.
Soft(o) ==
  \/ Readable(o) \/ o \in Denied
  \/ world.part = "server" /\ o = "not-found"

Code(o) == IF o \in Denied THEN "missing-permission" ELSE "unresolved-reference"

\* One request: what it tells is taken up, refused or given up.  A shapeless
\* answer tells nothing.
Ask(scope, o, next, read) ==
  IF ~Soft(o) THEN Abort
  ELSE /\ pc' = next
       /\ found' = IF o = "ok" THEN read
                   ELSE IF o \in Shapeless THEN [found EXCEPT !.silent = @ \union {scope}] ELSE found
       /\ diags' = diags \union (IF Readable(o) THEN {} ELSE {Diag(scope, Code(o))})
       /\ UNCHANGED <<world, result>>

-----------------------------------------------------------------------------
(* A portal.                                                               *)

Unknown(code) == Diag(<<"portal", "subscriptionInfo", "extensions", code>>, "partial-coverage")

\* The extensions of a subscription, all of them licensed.
Subscribed(codes) == {[code |-> c, status |-> "licensed"] : c \in codes}

Flags(codes) == {Unknown(c) : c \in codes \ Catalogued}

\* portals/self must be there.  A shapeless answer is reported, and names no organization.
ReadSelf(o) ==
  /\ pc = "self"
  /\ IF ~Readable(o) THEN Abort
     ELSE /\ pc' = IF world.anonymous THEN "end" ELSE "subscription"
          /\ found' = IF o = "ok" THEN [found EXCEPT !.extensions = Subscribed(world.self)]
                      ELSE [found EXCEPT !.silent = @ \union {<<"portal", "self">>}]
          /\ diags' = diags
               \union (IF o = "ok" THEN Flags(world.self)
                                   ELSE {Diag(<<"portal", "self">>, "partial-coverage")})
               \union (IF world.anonymous
                         THEN {Diag(<<"portal", "subscriptionInfo">>, "missing-permission")} ELSE {})
          /\ UNCHANGED <<world, result>>

\* The subscription adds to what portals/self told.
ReadSubscription(o) ==
  /\ pc = "subscription"
  /\ IF o = "ok"
       THEN /\ pc' = "types"
            /\ found' = [found EXCEPT !.extensions = @ \union Subscribed(world.subscription),
                                      !.seats = world.seats]
            /\ diags' = diags \union Flags(world.subscription)
            /\ UNCHANGED <<world, result>>
       ELSE Ask(<<"portal", "subscriptionInfo">>, o, "types", found)

\* The later count is the one that stays.
MutMergeTypes(seats, types) == IF types = "unlisted" THEN seats ELSE types

\* _merge_user_types: a count that is there is kept, a missing one is filled in.
MergeTypes(seats, types) ==
  CASE seats = "unlisted" -> types
    [] seats = "counted" -> "counted"
    [] OTHER -> IF types = "counted" THEN "counted" ELSE "uncounted"

ReadTypes(o) ==
  /\ pc = "types"
  /\ Ask(<<"portal", "userLicenseTypes">>, o,
         IF world.named /\ <<"portal", "self">> \notin found.silent THEN "users" ELSE "end",
         [found EXCEPT !.seats = MergeTypes(@, world.types)])

\* The number of all users, where no type is known.
ReadUsers(o) ==
  /\ pc = "users"
  /\ Ask(<<"portal", "users">>, o, "end", [found EXCEPT !.anyone = found.seats = "unlisted"])

-----------------------------------------------------------------------------
(* A server.                                                               *)

ReadRest(o) ==
  /\ pc = "rest"
  /\ Ask(<<"rest/info">>, o, "admin", [found EXCEPT !.version = "rest"])

\* The administration's version counts only where the public one is missing.
ReadAdmin(o) ==
  /\ pc = "admin"
  /\ Ask(<<"admin/info">>, o, "licenses",
         [found EXCEPT !.edition = TRUE, !.version = IF @ = None THEN "admin" ELSE @])

\* Whatever is not expired is licensed.
MutStatus(s) == IF s = "expired" THEN "expired" ELSE "licensed"

Status(s) ==
  CASE s \in {"good", "valid", "licensed", "ok"} -> "licensed"
    [] s \in {"evaluation", "trial"} -> "evaluation"
    [] s \in {"expired", "invalid"} -> "expired"
    [] OTHER -> "unknown"

\* An empty answer is no licence; one of another shape is reported.
ReadLicenses(o) ==
  /\ pc = "licenses"
  /\ IF o \in {"ok", "odd"}
       THEN /\ pc' = IF world.extensions THEN "services" ELSE "end"
            /\ found' = [found EXCEPT !.extensions =
                           IF o = "ok" THEN {[l EXCEPT !.status = Status(@)] : l \in world.licences}
                                       ELSE {}]
            /\ diags' = diags \union
                 (IF o = "ok"
                    THEN {Diag(<<"system/licenses", "extensions", l.code>>, "partial-coverage") :
                            l \in {x \in world.licences : x.code \notin Catalogued}}
                    ELSE {Diag(<<"system/licenses">>, "partial-coverage")})
            /\ UNCHANGED <<world, result>>
       ELSE Ask(<<"system/licenses">>, o, IF world.extensions THEN "services" ELSE "end", found)

In(folder) == {s \in world.services : s.folder = folder}

ListServices(o) ==
  /\ pc = "services"
  /\ Ask(<<"services">>, o, "folders",
         [found EXCEPT !.todo = In(Root),
                       !.folders = {s.folder : s \in world.services} \ {Root}])

ListFolder(f, o) ==
  /\ pc = "folders"
  /\ f \in found.folders
  /\ LET left == [found EXCEPT !.folders = @ \ {f}]
     IN IF Soft(o)
          THEN /\ found' = IF o = "ok" THEN [left EXCEPT !.todo = @ \union In(f)]
                           ELSE [left EXCEPT !.silent = IF o \in Shapeless THEN @ \union {<<"services", f>>}
                                                                     ELSE @]
               /\ diags' = diags \union (IF Readable(o) THEN {}
                                         ELSE {Diag(<<"services", f>>, Code(o))})
               /\ UNCHANGED <<world, pc, result>>
          ELSE Abort

ServiceScope(s) == <<"services", s.folder, s.name>>

Enabled(s) == {x.name : x \in {y \in s.extensions : y.enabled}}

\* _collect_service_extensions: an unexpected status is one service's trouble.
ReadService(s, o) ==
  /\ pc = "folders" /\ found.folders = {}
  /\ s \in found.todo
  /\ LET left == [found EXCEPT !.todo = @ \ {s}]
     IN IF Soft(o) \/ o = "api"
          THEN /\ found' = IF o = "ok"
                             THEN [left EXCEPT !.services =
                                     @ \union {[service |-> s, extensions |-> Enabled(s)]}]
                             ELSE [left EXCEPT !.silent = IF o \in Shapeless THEN @ \union {ServiceScope(s)}
                                                                       ELSE @]
               /\ diags' = diags \union (IF Readable(o) THEN {}
                                         ELSE {Diag(ServiceScope(s), Code(o))})
               /\ UNCHANGED <<world, pc, result>>
          ELSE Abort

-----------------------------------------------------------------------------
Finish ==
  /\ \/ pc = "end"
     \/ pc = "folders" /\ found.folders = {} /\ found.todo = {}
  /\ pc' = "ended"
  /\ result' = found
  /\ UNCHANGED <<world, found, diags>>

Next ==
  \/ \E o \in Answers :
       \/ ReadSelf(o) \/ ReadSubscription(o) \/ ReadTypes(o) \/ ReadUsers(o)
       \/ ReadRest(o) \/ ReadAdmin(o) \/ ReadLicenses(o) \/ ListServices(o)
       \/ \E f \in found.folders : ListFolder(f, o)
       \/ \E s \in found.todo : ReadService(s, o)
  \/ Finish

Spec == Init /\ [][Next]_vars /\ WF_vars(Next)

-----------------------------------------------------------------------------
TypeOK ==
  /\ world \in Worlds
  /\ pc \in {"self", "subscription", "types", "users", "rest", "admin", "licenses",
             "services", "folders", "end", "ended", "aborted"}
  /\ found.seats \in Seats
  /\ found.version \in {None, "rest", "admin"}
  /\ \A e \in found.extensions : e.status \in {"licensed", "evaluation", "expired", "unknown"}
  /\ found.todo \subseteq Services

\* A diagnostic names the endpoint, or it answered with no object, which goes
\* unreported but for portals/self and the licences.
Gap(scope) == (\E d \in diags : d.scope = scope) \/ scope \in found.silent

\* What a portal told of its licences is in the result, under the code it gave,
\* and nothing else is; a type of users has a count if any endpoint gave one.
PortalLicensingIsTrue ==
  LET codes == {e.code : e \in result.extensions}
  IN /\ codes \subseteq world.self \union world.subscription
     /\ world.self \subseteq codes \/ Gap(<<"portal", "self">>)
     /\ world.subscription \subseteq codes \/ Gap(<<"portal", "subscriptionInfo">>)
     /\ \A c \in codes \ Catalogued : Unknown(c) \in diags
     /\ world.seats = "counted" /\ result.seats # "counted" => Gap(<<"portal", "subscriptionInfo">>)
     /\ world.types = "counted" /\ result.seats # "counted" =>
          Gap(<<"portal", "userLicenseTypes">>) \/ world.anonymous
     /\ result.anyone => result.seats = "unlisted"

\* A server's licence is licensed only if the server calls it so, and each of
\* them, like each enabled extension of a service, is there or its gap is named.
ServerLicensingIsTrue ==
  /\ \A e \in result.extensions : e.status = "licensed" =>
       \E l \in world.licences :
         l.code = e.code /\ l.status \in {"good", "valid", "licensed", "ok"}
  /\ \A l \in world.licences :
       (\E e \in result.extensions : e.code = l.code) \/ Gap(<<"system/licenses">>)
  /\ world.extensions =>
       \A s \in world.services :
         \/ [service |-> s, extensions |-> Enabled(s)] \in result.services
         \/ Gap(<<"services">>) \/ Gap(<<"services", s.folder>>) \/ Gap(ServiceScope(s))
  /\ result.version = None => Gap(<<"rest/info">>) /\ Gap(<<"admin/info">>)

\* "missing-permission for optional org/admin endpoints denied by the token"
\* (docs/entitlements.md): a licensing block that is short of what the source
\* would tell says which endpoint was not read, and claims no licence that the
\* source does not grant.
LicensingIsTrue ==
  result # None =>
    IF world.part = "portal" THEN PortalLicensingIsTrue ELSE ServerLicensingIsTrue
=============================================================================
