CONSTANTS
  Call = {1, 2, 3}  Compacts = {2}  Reads = {3}  None = None
  Budgets <- Histories
SPECIFICATION FairSpec
CHECK_DEADLOCK FALSE
INVARIANTS TypeOK RequestWellFormed SummaryMeetsTail SummarizedIsFiled StubsReadable
PROPERTIES ClientReturns
