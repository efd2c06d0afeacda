SPECIFICATION Spec
CONSTANTS
  w1 = w1 w2 = w2 r1 = r1 r2 = r2
  Worker <- TwoWorkers
  Day <- TwoDays
  DayOf <- OneTickADay
  Minute = 2
  Run = {r1}
  RunOf <- SameRun
  Key = {k1, k2, k3, k4}
  Cost = {1, 2}
  StatusCode = {"403", "429"}
  MaxTime = 1
  Month = {0}
  MonthOf <- OneMonth
  ActiveUntil = 2
  RequestsPerMinute = 4
  Concurrency = 2
  PerRunCap = 3
  DailyCap = 2
  DailyCost = 3
  MonthlyCost = 4
  SettlementMayFail = TRUE
INVARIANTS RequestCaps SharedLimits BreakerIsExact
PROPERTY StopIsFinal
SYMMETRY KeySymmetry
CHECK_DEADLOCK FALSE
