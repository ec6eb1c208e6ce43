\* The server part alone.
SPECIFICATION PartsSpec
CONSTANTS
  None = None
  Sources <- MCSources
  Stars <- MCStars
  Catalog <- MCCatalog
  Stores <- MCStores
  Listings <- MCListings
  Federations <- MCFederations
  PageSize = 1
  AccessServices <- MCAccessServices
  Accounts <- MCAccounts
  Privileges <- MCPrivileges
  Codes = {"Spatial", "Odd"}
  Catalogued = {"Spatial"}
  Licences <- MCLicences
  LicensedServices <- MCLicensedServices
  MaxAttempts = 4
  Budget = 4
  Cap = 2
  Delays <- MCDelays
  Origins <- MCOrigins
  MaxPlans = 2
  MaxJobs = 3
  Runs <- MCRuns
  Snapshots <- MCSnapshots
  Focuses = {"server"}
INVARIANT LockInsAreBoundaries
