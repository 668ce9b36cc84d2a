SPECIFICATION Spec
CONSTANTS
  Hour = 4
  MinInterval = 2
  MaxRuntime = 6
  MaxHour = 2
  MaxSession = 3
  Providers = {p1, p2}
  Timers = {t1, t2}
  MaxTime = 8
INVARIANTS
  HourlyLimitHolds
  RuntimeLimitHolds
PROPERTIES
  BudgetPromiseKept
SYMMETRY Symmetry
