CONSTANTS
  p1 = p1  p2 = p2  i1 = i1  t1 = t1  t2 = t2  t3 = t3
  Process = {p1, p2}
  Item = {i1}
  Token = {t1, t2, t3}
  NoToken = NoToken
  MaxAttempts = 2
  BatchLimit = 1
  Concurrency = 1
  LeaseOutlivesWorker = TRUE
  LongDowntime = FALSE
  MaxFaults = 2
  MaxRetries = 1
  MaxRearms = 1
SPECIFICATION Spec
SYMMETRY Symmetry
INVARIANT TypeOK
INVARIANT RowsConsistent
INVARIANT LiveAttemptOwnsRow
INVARIANT DuplicateExplained
INVARIANT DeliveredMeansAccepted
PROPERTY ImplementsLifecycle
