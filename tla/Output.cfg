\* Two Python commands writing one path in all three ways, three faults; three
\* JavaScript commands, those with --force one at a time, two failures; two applies
\* of one plan of two actions against seven kinds of server, one retry, two faults.
SPECIFICATION PartsSpec
CONSTANTS
  w1 = w1
  w2 = w2
  None = None
  Writers = {w1, w2}
  MaxFaults = 3
  c1 = c1
  c2 = c2
  c3 = c3
  Commands = {c1, c2, c3}
  report = report
  matrix = matrix
  corpus = corpus
  JsFiles <- MCJsFiles
  JsDirectories <- MCJsDirectories
  JsPlans <- MCJsPlans
  ApplyServers <- MCApplyServers
  Overlap = FALSE
  MaxFailures = 2
  Nothing = Nothing
  Prior = Prior
  a1 = a1
  a2 = a2
  Applies = {a1, a2}
  NumActions = 2
  Retries = 1
  ApplyFaults = 2
  Focuses = {"python", "javascript", "apply"}
SYMMETRY MCSymmetry
INVARIANTS TypesOK NeverTorn OnlyARaceOverwrites SaidIsDone JsOutputsSurvive ApplyStartsOnceInOrder ApplyReceiptIsTrue ApplyExitTellsTruth ApplyOnlyWhereGranted
\* The last command ends.
CHECK_DEADLOCK FALSE
