--------------------------- MODULE AccessAssessment ---------------------------
(***************************************************************************)
(* scan rbac: who may do what, read from a portal or from the              *)
(* administration of a server (scanners/admin_rbac.py), collapsed into     *)
(* effective permissions (footprint/access.py) and mapped to roles and     *)
(* access policies of Honua (footprint/access_mapping.py).                 *)
(*                                                                         *)
(* A request that fails leaves a diagnostic and what it would have told is *)
(* missing.  An answer that is JSON but no object of the expected shape is *)
(* no failure: what it would have told is missing as well, and nothing in  *)
(* the artifact says so.  Nothing aborts the scan.                         *)
(***************************************************************************)
EXTENDS Assessment

CONSTANTS
  Services,  \* services a server may have: [folder, name, aces]
  Accounts,  \* users a source may have: [name, roles], the roles in their order
  Privileges \* what a custom role of a portal may have, by role id: a function

\* An entry of a service's access control list: [principal, allowed, ops].
Everyone == "esriEveryone"

\* "odd" is a 200 that is JSON but not an object.
Answers == Outcomes \union {"odd"}

\* inline: the roles whose privileges come with them; access: of the organization.
Worlds == [kind : {"server"}, services : SUBSET Services, users : SUBSET Accounts,
           inline : {{}}, access : {None}]
            \union [kind : {"portal"}, services : {{}}, users : SUBSET Accounts,
                    inline : SUBSET DOMAIN Privileges, access : {None, "private", "public"}]

Init ==
  /\ world \in Worlds
  /\ pc = IF world.kind = "server" THEN "names" ELSE "self"
  /\ found = [todo |-> {}, folders |-> {}, aces |-> {}, roles |-> {}, users |-> {},
              open |-> None, silent |-> {}]
  /\ diags = {}
  /\ result = None

\* Only the known failures have a code.
MutCode(o) ==
  CASE o \in {"auth", "forbidden"} -> "missing-permission"
    [] o = "limited" -> "rate-limited"
    [] OTHER -> o

Code(o) ==
  CASE o \in {"auth", "forbidden"} -> "missing-permission"
    [] o = "limited" -> "rate-limited"
    [] OTHER -> "partial-coverage"

\* What is known after an answer is f.  A failure is reported; an odd answer is
\* passed over: found.silent is the model's record of it, not the program's.
Learn(scope, o, f) ==
  /\ found' = IF o = "odd" THEN [f EXCEPT !.silent = @ \union {scope}] ELSE f
  /\ IF o \in {"ok", "odd"} THEN UNCHANGED diags ELSE Report(scope, Code(o))
  /\ UNCHANGED <<world, result>>

-----------------------------------------------------------------------------
(* A server: its catalog, one level of folders, and the permissions of     *)
(* every service.                                                          *)

Custom(id, privileges) == [id |-> id, type |-> "custom", privileges |-> privileges]

\* The roles of a server are names.
ReadNames(o) ==
  /\ pc = "names"
  /\ pc' = "users"
  /\ Learn(<<"names">>, o,
           [found EXCEPT !.roles = IF o = "ok" THEN {Custom(r, {}) : r \in DOMAIN Privileges}
                                   ELSE {}])

In(folder) == {s \in world.services : s.folder = folder}

ReadCatalog(o) ==
  /\ pc = "catalog"
  /\ pc' = "crawl"
  /\ Learn(<<"services">>, o,
           IF o # "ok" THEN found
           ELSE [found EXCEPT !.todo = In(None),
                              !.folders = {s.folder : s \in world.services} \ {None}])

ReadFolder(f, o) ==
  /\ pc = "crawl"
  /\ f \in found.folders
  /\ Learn(<<"services", f>>, o,
           [found EXCEPT !.folders = @ \ {f}, !.todo = IF o = "ok" THEN @ \union In(f) ELSE @])
  /\ UNCHANGED pc

\* An entry without isAllowed denies; everyone is a principal of its own kind.
Ace(s, e) ==
  [service |-> <<s.folder, s.name>>,
   type |-> IF e.principal = Everyone THEN "everyone" ELSE "role",
   principal |-> IF e.principal = Everyone THEN "*" ELSE e.principal,
   access |-> IF e.allowed THEN "allow" ELSE "deny",
   ops |-> e.ops]

ReadPermissions(s, o) ==
  /\ pc = "crawl"
  /\ s \in found.todo
  /\ Learn(<<"services", s.folder, s.name>>, o,
           [found EXCEPT !.todo = @ \ {s},
                         !.aces = IF o = "ok" THEN @ \union {Ace(s, e) : e \in s.aces} ELSE @])
  /\ UNCHANGED pc

EndCrawl ==
  /\ pc = "crawl" /\ found.todo = {} /\ found.folders = {}
  /\ pc' = "emit"
  /\ UNCHANGED <<world, found, diags, result>>

-----------------------------------------------------------------------------
(* A portal: its custom roles, whose privileges may need a request each.   *)

BuiltIn ==
  { [id |-> "org_admin", type |-> "administrator",
     privileges |-> {"admin:manageUsers", "admin:manageRoles", "admin:manageSecurity"}],
    [id |-> "org_publisher", type |-> "publisher",
     privileges |-> {"user:createItem", "publisher:publishFeatures"}],
    [id |-> "org_user", type |-> "user", privileges |-> {"user:createItem", "user:viewOrgItems"}],
    [id |-> "org_viewer", type |-> "viewer", privileges |-> {"user:viewOrgItems"}] }

\* Anonymous access is unknown unless the organization says what its access is.
ReadSelf(o) ==
  /\ pc = "self"
  /\ pc' = "users"
  /\ Learn(<<"self">>, o,
           [found EXCEPT !.open = IF o # "ok" \/ world.access = None THEN None
                                  ELSE world.access = "public"])

\* The built-in roles are known without asking.
ReadRoles(o) ==
  /\ pc = "roles"
  /\ pc' = "privileges"
  /\ LET given == {r \in world.inline : Privileges[r] # {}}
     IN Learn(<<"roles">>, o, [found EXCEPT
          !.roles = BuiltIn \union IF o = "ok" THEN {Custom(r, Privileges[r]) : r \in given} ELSE {},
          !.todo = IF o = "ok" THEN DOMAIN Privileges \ given ELSE {}])

ReadPrivileges(r, o) ==
  /\ pc = "privileges"
  /\ r \in found.todo
  /\ Learn(<<"roles", r>>, o,
           [found EXCEPT !.todo = @ \ {r},
                         !.roles = @ \union {Custom(r, IF o = "ok" THEN Privileges[r] ELSE {})}])
  /\ UNCHANGED pc

EndRoles ==
  /\ pc = "privileges" /\ found.todo = {}
  /\ pc' = "emit"
  /\ UNCHANGED <<world, found, diags, result>>

\* One page of users; of the roles of a user the first.
User(a) == [name |-> a.name, role |-> IF a.roles = <<>> THEN "user" ELSE Head(a.roles)]

ReadUsers(o) ==
  /\ pc = "users"
  /\ pc' = IF world.kind = "server" THEN "catalog" ELSE "roles"
  /\ Learn(<<"users">>, o,
           [found EXCEPT !.users = IF o = "ok" THEN {User(a) : a \in world.users} ELSE {}])

-----------------------------------------------------------------------------
(* What becomes of it.                                                     *)

\* The last entry decides.
MutEffect(aces) == (CHOOSE a \in aces : TRUE).access

\* resolve_effective_permissions, one service and principal: deny overrides.
Effect(aces) == IF \E a \in aces : a.access = "deny" THEN "deny" ELSE "allow"

Key(a) == <<a.service, a.type, a.principal>>

Effective ==
  {LET same == {a \in found.aces : Key(a) = k}
   IN [service |-> k[1], type |-> k[2], principal |-> k[3], effect |-> Effect(same),
       ops |-> UNION {a.ops : a \in same}]
     : k \in {Key(a) : a \in found.aces}}

\* Some privileges have a verb of Honua; two may have the same.
Verb == [p \in {"user:createItem", "user:viewOrgItems", "user:shareToOrg", "user:shareToGroup",
                "publisher:publishFeatures", "admin:manageUsers", "admin:manageRoles",
                "admin:manageSecurity"} |->
           CASE p = "user:createItem" -> "content:create"
             [] p = "user:viewOrgItems" -> "content:read"
             [] p \in {"user:shareToOrg", "user:shareToGroup"} -> "content:share"
             [] p = "publisher:publishFeatures" -> "service:publish"
             [] p = "admin:manageUsers" -> "identity:manage"
             [] p = "admin:manageRoles" -> "rbac:manage"
             [] p = "admin:manageSecurity" -> "security:manage"]

Verbs(privileges) == {Verb[p] : p \in privileges \intersect DOMAIN Verb}

\* Built-in roles share a role of Honua each; a custom one has its own.
HonuaId(r) == IF r.type = "custom" THEN <<"honua.custom", r.id>> ELSE <<r.type>>

HonuaRole(r) == [id |-> HonuaId(r), source |-> r.id, permissions |-> Verbs(r.privileges),
                 unmapped |-> r.privileges \ DOMAIN Verb]

\* A principal that is no role of the source keeps its name.
Principal(p) ==
  LET of == {r \in found.roles : r.id = p.principal}
  IN IF p.type = "role" /\ of # {} THEN HonuaId(CHOOSE r \in of : TRUE) ELSE <<p.principal>>

Policy(p) == [service |-> p.service, type |-> p.type, principal |-> Principal(p),
              effect |-> p.effect, ops |-> p.ops]

Emit ==
  /\ pc = "emit"
  /\ pc' = "ended"
  /\ result' = [users |-> found.users, roles |-> {HonuaRole(r) : r \in found.roles},
                policies |-> {Policy(p) : p \in Effective}, anonymous |-> found.open]
  /\ UNCHANGED <<world, found, diags>>

Next ==
  \/ \E o \in Answers :
       \/ ReadNames(o) \/ ReadCatalog(o) \/ ReadSelf(o) \/ ReadRoles(o) \/ ReadUsers(o)
       \/ \E f \in found.folders : ReadFolder(f, o)
       \/ \E t \in found.todo : ReadPermissions(t, o) \/ ReadPrivileges(t, o)
  \/ EndCrawl \/ EndRoles \/ Emit

Spec == Init /\ [][Next]_vars /\ WF_vars(Next)

-----------------------------------------------------------------------------
TypeOK ==
  /\ world \in Worlds
  /\ pc \in {"names", "catalog", "crawl", "self", "roles", "privileges", "users", "emit", "ended"}
  /\ {a.access : a \in found.aces} \subseteq {"allow", "deny"}
  /\ {d.code : d \in diags} \subseteq {"missing-permission", "rate-limited", "partial-coverage"}
  /\ result # None => pc = "ended"

\* What the request of a scope would have told is missing.
Gap(scope) == scope \in found.silent \/ \E d \in diags : d.scope = scope

Missing(s) ==
  \E scope \in {<<"services">>, <<"services", s.folder>>, <<"services", s.folder, s.name>>} :
    Gap(scope)

Rules(s, e) ==
  {p \in result.policies : p.service = <<s.folder, s.name>>
                           /\ p.principal = Principal(Ace(s, e)) /\ p.type = Ace(s, e).type}

\* "deny overrides allow" (footprint/access.py), through the whole crawl: each
\* entry of a service that could be read has one policy, which allows only if no
\* entry of the service denies the same principal; a service has no policies for
\* its entries only where its permissions, its folder or the catalog failed, with
\* a diagnostic, or came back as something else than an object, with none.
AccessIsNotWidened ==
  result # None =>
    \A s \in world.services : \A e \in s.aces :
      \/ Rules(s, e) = {} /\ Missing(s)
      \/ \E p \in Rules(s, e) :
              /\ Rules(s, e) = {p}
              /\ e.ops \subseteq p.ops
              /\ p.effect = "allow" <=>
                   \A f \in s.aces : f.principal = e.principal => f.allowed

\* A role of Honua has no permission its source does not have, and every privilege
\* of a role is a permission, is listed as unmapped, or was lost with a request for
\* it that failed, with a diagnostic, or whose answer was no object, with none.
RolesKeepPrivileges ==
  result # None /\ world.kind = "portal" =>
    /\ \A r \in result.roles : r.source \in DOMAIN Privileges =>
         r.permissions \subseteq Verbs(Privileges[r.source])
    /\ \A id \in DOMAIN Privileges :
         \/ Gap(<<"roles">>) \/ Gap(<<"roles", id>>)
         \/ \E r \in result.roles : /\ r.id = <<"honua.custom", id>>
                                    /\ \A p \in Privileges[id] :
                                         p \in r.unmapped \/ Verb[p] \in r.permissions
=============================================================================
