\* One layer; a server that sends the numbers of the 2026.1 contract.
SPECIFICATION Spec
CONSTANTS
  None = None
  N = 1
  Wires = {"number"}
  Counts = {0, 1}
CHECK_DEADLOCK FALSE
INVARIANT CompletedIsTrue
