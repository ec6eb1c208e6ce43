\* One process, two plans, two configurations, two faults of any kind.
SPECIFICATION Spec
CONSTANTS
  p1 = p1
  p2 = p2
  mixed = mixed
  plain = plain
  reads = reads
  c1 = c1
  c2 = c2
  None = None
  Processes = {p1}
  Plans = {mixed, plain}
  Configs = {c1, c2}
  MaxActions = 2
  MaxFaults = 2
  Length <- MCLength
  Writes <- MCWrites
  Idempotent <- MCIdempotent
INVARIANT EveryArtifactResumable
