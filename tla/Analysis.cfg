\* Eight parts, one at a time: see MCAnalysis for their instances.
SPECIFICATION FairParts
CONSTANTS
  None = None
  Sources <- MCSources
  Stars <- MCStars
  Catalog <- MCCatalog
  Stores <- MCStores
  Listings <- MCListings
  Federations <- MCFederations
  PageSize = 1
  AccessServices <- MCAccessServices
  Accounts <- MCAccounts
  Privileges <- MCPrivileges
  Codes = {"Spatial", "Odd"}
  Catalogued = {"Spatial"}
  Licences <- MCLicences
  LicensedServices <- MCLicensedServices
  MaxAttempts = 4
  Budget = 4
  Cap = 2
  Delays <- MCDelays
  Origins <- MCOrigins
  MaxPlans = 2
  MaxJobs = 3
  Runs <- MCRuns
  Snapshots <- MCSnapshots
  Focuses = {"server", "portal", "access", "requests", "script", "licensing", "handoff", "reconcile"}
INVARIANTS TypesOK GapsAreReported LockInTypesAreNoGo PortalOrderIsSound RequestsAreBounded AccessIsNotWidened HandoffIsTrue ScriptRunIsTheScript ScriptKeepsItsArguments ScriptEvidenceIsHonest
PROPERTY AnalysisEnds
