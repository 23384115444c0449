CONSTANTS
  c1 = c1
  c2 = c2
  c3 = c3
  n1 = n1
  Name = {n1}
  Call = {c1, c2, c3}
  Sessions = 5
  Target <- MCTarget
  None = None
  Budgets <- Plays
SPECIFICATION FairSpec
CHECK_DEADLOCK FALSE
INVARIANTS SessionsOwned FailedIsGone
PROPERTIES HealthyIsKept CallsEnd
