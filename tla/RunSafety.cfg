\* Two processes, two plans, two configurations, three faults of any kind.
SPECIFICATION Spec
CONSTANTS
  p1 = p1
  p2 = p2
  mixed = mixed
  plain = plain
  reads = reads
  c1 = c1
  c2 = c2
  None = None
  Processes = {p1, p2}
  Plans = {mixed, reads}
  Configs = {c1, c2}
  MaxActions = 2
  MaxFaults = 3
  Length <- MCLength
  Writes <- MCWrites
  Idempotent <- MCIdempotent
SYMMETRY ProcessSymmetry
INVARIANTS AtMostOnce WriteAhead PlanOrder HonestArtifact StrandedOnlyAfterInspection IInv
PROPERTIES NoCheckpointLost OnlyAcknowledgedBoundWrites ImplementsLedger
