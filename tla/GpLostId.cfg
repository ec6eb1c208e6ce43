\* One step, one poll.
SPECIFICATION Spec
CONSTANTS
  None = None
  N = 1
  MaxPolls = 1
CHECK_DEADLOCK FALSE
INVARIANT RefusalSubmitsNothing
