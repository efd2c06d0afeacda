SPECIFICATION FairSpec
CONSTANTS
  n1 = n1 n2 = n2 n3 = n3
  Novel <- ThreeNovels
  Daily = {p1}
  Targeted = {p2}
  Caller = {c1}
  CatalogPriority <- RankedAndListed
  Limit = 2
  RetryAfter = 1
  DayLength = 2
  MaxAge = 1
  MaxDeaths = 1
  MaxCalls = 1
INVARIANT CompletedMeansReady
PROPERTIES HydrationEnds BacklogIsDone
CHECK_DEADLOCK FALSE
