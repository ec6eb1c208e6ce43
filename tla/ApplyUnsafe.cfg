\* One apply, one fault.
SPECIFICATION PartsSpec
CONSTANTS
  w1 = w1
  w2 = w2
  None = None
  Writers = {w1, w2}
  MaxFaults = 3
  c1 = c1
  c2 = c2
  c3 = c3
  Commands = {c1, c2}
  report = report
  matrix = matrix
  corpus = corpus
  JsFiles <- MCJsFiles
  JsDirectories <- MCJsDirectories
  JsPlans <- MCJsPlans
  ApplyServers <- MCApplyServers
  Overlap = FALSE
  MaxFailures = 0
  Nothing = Nothing
  Prior = Prior
  a1 = a1
  a2 = a2
  Applies = {a1}
  NumActions = 2
  Retries = 0
  ApplyFaults = 1
  Focuses = {"apply"}
INVARIANT PartialIsPrinted
\* The last command ends.
CHECK_DEADLOCK FALSE
