CONSTANTS
  CyclesPerMs = 3
  UsPerMs = 2
  CycMod = 8
  TickMod = 4
  MaxTime = 14
SPECIFICATION Spec
CHECK_DEADLOCK FALSE
INVARIANTS
  DiffAcrossWrap
