CONSTANTS
  c1 = c1  c2 = c2  s1 = s1  k1 = k1  q1 = q1  q2 = q2
  None = None  Pump = Pump  Start = Start  Swap = Swap  Login = Login
  Msg = {c1, c2, s1, k1}
  Kind <- MCKind
  SeqTask = {q1}  SafeTask = {f1}  LaterTask = {l1}
  InitialPrompt = None
  Scenarios <- TwoTurns
SPECIFICATION Spec
CHECK_DEADLOCK FALSE
INVARIANT AgentRunningWhileLive
