\* GP run: two steps, two polls each.  Resume: a snapshot and a wait of three
\* ticks, polls two ticks apart.  Content: two layers of up to one feature, a
\* server that sends names.  GeoServer: two servers of two job ids, a command of
\* any kind beside an apply.  One retry everywhere.
SPECIFICATION FairParts
CONSTANTS
  None = None
  N = 2
  MaxPolls = 2
  MaxWaits = {0, 3}
  PollInterval = 2
  Backoff = 1
  Retries = 1
  MaxNow = 6
  Wires = {"name"}
  Counts = {0, 1}
  c1 = c1
  c2 = c2
  Commands = {c1, c2}
  Servers = {"s", "t"}
  Ids = {1, 2}
  GeoRequests <- MCGeoRequests
  GeoRuns <- MCGeoRuns
  Focuses = {"gp", "resume", "content", "geo"}
CHECK_DEADLOCK FALSE
INVARIANTS TypesOK GpStepsOnceInOrder GpReportIsTrue ResumeOutcomeIsTrue ResumeKeepsDeadline ContentVerdictIsTrue ContentReportComplete GeoJobIsOneAndNamed GeoImportWasRehearsed
PROPERTY EveryCommandEnds
