CONSTANTS
  Call = {1}  Compacts = {}  Reads = {}  None = None
  Budgets <- Interrupted
SPECIFICATION Spec
CHECK_DEADLOCK FALSE
INVARIANT EveryCallAnswered
