SPECIFICATION FairSpec
CONSTANTS
  j1 = j1 n1 = n1 n2 = n2
  Job <- OneJob
  Worker = {w1, w2}
  Caller = {c1}
  Novel = {n1, n2}
  NovelsOf <- BothNovels
  RetryLimit = 3
  MaxVersion <- Versions
  MaxDeaths = 1
INVARIANTS SucceededMeansImported RunMatchesTask
PROPERTIES SnapshotsAreImmutable JobsEnd
CHECK_DEADLOCK FALSE
