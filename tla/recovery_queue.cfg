\* Two workers, one restart, two rows of which the newer is hopeless, one row a cycle.
CONSTANTS
  v = v  w = w
  Workers = {v, w}
  NRows = 2
  Hopeless = {2}
  Limit = 1
  StaleAfter = 1
  Interval = 2
  MaxTask = 2
  MaxCrash = 1
SPECIFICATION FairSpec
INVARIANTS SharedOnlyWhenStale PaidOnceUnlessOutlived
PROPERTY EveryRowRecovers
