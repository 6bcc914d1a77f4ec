CONSTANTS
  p1 = p1  p2 = p2  i1 = i1  t1 = t1  t2 = t2  t3 = t3
  Process = {p1, p2}
  Item = {i1}
  Token = {t1, t2, t3}
  NoToken = NoToken
  MaxAttempts = 2
  BatchLimit = 1
  Concurrency = 1
  LeaseOutlivesWorker = FALSE
  LongDowntime = TRUE
  MaxFaults = 1
  MaxRetries = 1
  MaxRearms = 1
SPECIFICATION Spec
SYMMETRY Symmetry
INVARIANT RowsConsistent
PROPERTY FinishedReopensOnlyWithNewContent
PROPERTY OnlyHolderRecordsFailure
