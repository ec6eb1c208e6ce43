--------------------------- MODULE TargetReadiness ---------------------------
(***************************************************************************)
(* The decision of target_readiness.py: what preflight_target concludes    *)
(* from the capability manifest of a Honua server and from the status of   *)
(* its import job list.                                                    *)
(*                                                                         *)
(* A server is what it tells an authenticated caller:                      *)
(*   key       how it takes the API key                                    *)
(*   contract  manifest schema and API version: ours, another, not stated  *)
(*   declared  what its declarations of import.geoservices say; there may  *)
(*             be none, one, or two that contradict each other             *)
(*   licensing disabled, enabled, or nothing said                          *)
(*   license   whether it calls its license valid                          *)
(***************************************************************************)
EXTENDS Naturals

AllServers == [ key : {"admin", "user", "unknown", "unstated"},
                contract : {"ours", "other", "unstated"},
                declared : SUBSET BOOLEAN,
                licensing : {"disabled", "enabled", "unstated"},
                license : {"valid", "invalid", "unstated"} ]

Verdicts == {"ready", "unreachable", "unauthenticated", "forbidden",
             "incompatible-version", "unavailable-capability", "unknown"}

\* What a request that got an answer, or none, was answered.
Answers == {"200", "401", "402", "403", "busy", "timeout", "unreachable"}

\* Answers that are retried while attempts are left.
Transient == {"busy", "timeout", "unreachable"}

\* What a server may answer to the request for its manifest, which says
\* whether the caller is known, and to the request for the import jobs.
ManifestAnswers(server) ==
  {"200"} \union
  CASE server.key = "unknown" -> {"401"}
    [] server.key = "user" -> {"403"}
    [] server.license = "invalid" -> {"402"}
    [] OTHER -> {}

JobsAnswers(server) ==
  CASE server.key = "unknown" -> {"401"}
    [] server.key = "user" -> {"403"}
    [] server.license = "invalid" -> {"200", "402"}
    [] OTHER -> {"200"}

MutDenied(declared) == TRUE \notin declared

\* One denied declaration outweighs any number of granted ones.
Denied(declared) == FALSE \in declared

MutUnlicensed(server) == FALSE

\* Enabled licensing needs a license that the server itself calls valid.
Unlicensed(server) == server.licensing = "enabled" /\ server.license # "valid"

\* _capability.
Capability(server) ==
  CASE server.declared = {} -> "unknown"
    [] Denied(server.declared) \/ Unlicensed(server) -> "unavailable-capability"
    [] OTHER -> "ready"

\* The status of a probe that did not succeed.
Failure(answer) ==
  CASE answer \in {"timeout", "unreachable"} -> "unreachable"
    [] answer = "401" -> "unauthenticated"
    [] answer = "403" -> "forbidden"
    [] answer = "402" -> "unavailable-capability"
    [] OTHER -> "unknown"

\* _from_manifest up to the second request: the verdict, or "go on".
ManifestVerdict(answer, server) ==
  CASE answer # "200" -> Failure(answer)
    [] server.key = "unknown" -> "unauthenticated"
    [] server.key = "unstated" -> "unknown"
    [] OTHER -> "go on"

\* _from_manifest from the answer to the second request on.  Only the manifest
\* may say "payment required".
JobsVerdict(answer, server) ==
  CASE answer = "402" -> "unknown"
    [] answer # "200" -> Failure(answer)
    [] server.contract = "unstated" -> "unknown"
    [] server.contract = "other" -> "incompatible-version"
    [] OTHER -> Capability(server)

ExitCode(verdict) ==
  CASE verdict = "ready" -> 0
    [] verdict = "unreachable" -> 20
    [] verdict \in {"incompatible-version", "unknown"} -> 4
    [] OTHER -> 40

\* The reference the verdict is compared with: what a manifest must say for
\* the import to be offered, and that the key may use it.
Grants(server) ==
  /\ server.contract = "ours"
  /\ server.declared = {TRUE}
  /\ server.licensing = "enabled" => server.license = "valid"

Offers(server) == server.key = "admin" /\ Grants(server)
=============================================================================
