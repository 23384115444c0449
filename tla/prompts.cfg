CONSTANTS
  None = None
  Approval = {1, 2}  Question = {3, 4}
  Budgets <- Plays
SPECIFICATION FairSpec
CHECK_DEADLOCK FALSE
INVARIANTS ApprovalIsShown QuestionIsShown PendingIsReleased
PROPERTIES PromptsEnd RunsInRound
