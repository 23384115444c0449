CONSTANTS
  Window = 2  Buffer = 2  History = 3
  None = None  Pump = Pump  Turn = Turn  Swap = Swap
  Budgets <- Overlaps
SPECIFICATION Spec
CHECK_DEADLOCK FALSE
INVARIANTS NewestMounted ActiveMounted OnlyStored WindowMounted StreamedIsRestored
