SPECIFICATION Spec
CONSTANTS
  w1 = w1 w2 = w2 r1 = r1 r2 = r2
  Worker <- TwoWorkers
  Day <- TwoDays
  DayOf <- TwoTicksADay
  Minute = 2
  Run = {r1, r2}
  RunOf <- OwnRuns
  Key = {k1, k2}
  Cost = {0}
  StatusCode = {"other"}
  MaxTime = 3
  Month = {0}
  MonthOf <- OneMonth
  ActiveUntil = 3
  RequestsPerMinute = 2
  Concurrency = 1
  PerRunCap = 2
  DailyCap = 4
  DailyCost = 0
  MonthlyCost = 0
  SettlementMayFail = TRUE
INVARIANT RateWindow
SYMMETRY KeySymmetry
CHECK_DEADLOCK FALSE
