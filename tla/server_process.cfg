CONSTANTS
  Server = {s1, s2}  Proc = {p1, p2, p3, p4}  Port = {a1, a2}
  Agent = {g1, g2}  First = g1
  None = None  Pump = Pump  Login = Login  Swap = Swap  Start = Start
  Budget <- EachOnce
SPECIFICATION Spec
CHECK_DEADLOCK FALSE
INVARIANTS HandleOwnsLive ServesAssistant
PROPERTY ServiceSpec
SYMMETRY PortSymmetry
