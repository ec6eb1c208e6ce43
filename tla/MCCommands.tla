------------------------------ MODULE MCCommands ------------------------------
(* CommandParts for TLC: the requests and kinds of the GeoServer commands.  *)
EXTENDS CommandParts, TLC

CONSTANTS c1, c2

\* One request whose redaction changes it, and two that differ in their GeoServer.
MCGeoRequests ==
  { [url |-> "g", scope |-> "secretive"], [url |-> "g", scope |-> "part"],
    [url |-> "h", scope |-> "part"] }

\* A command of any kind, and an apply beside it.
MCGeoRuns == (c1 :> {"plan", "apply", "status", "resume"}) @@ (c2 :> {"apply"})

ASSUME ConstantsOK == Resume!ConstantsOK /\ Content!ConstantsOK
=============================================================================
