CONSTANTS
  a = a  b = b  c = c  d = d  g = g  k = k  m = m
  orin = orin  nano = nano  agx = agx  pc = pc  arm = arm
  f1 = f1  f2 = f2  f3 = f3
  Comp = {a, b, c, d}  Group = {g, k, m}  Section = {1, 2}
  Board = {orin, nano, agx}  Host = {pc, arm}  File = {f1, f2, f3}
  Manifests <- Captures  MaxBuild = 2
  None = None
SPECIFICATION Spec
CHECK_DEADLOCK FALSE
INVARIANTS ResolvesClosure PlanIsSound
