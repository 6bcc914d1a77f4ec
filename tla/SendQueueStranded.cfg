CONSTANTS
  p1 = p1  i1 = i1  t1 = t1  t2 = t2  t3 = t3
  Process = {p1}
  Item = {i1}
  Token = {t1, t2, t3}
  NoToken = NoToken
  MaxAttempts = 2
  BatchLimit = 1
  Concurrency = 1
  LeaseOutlivesWorker = TRUE
  LongDowntime = FALSE
  MaxFaults = 1
  MaxRetries = 0
  MaxRearms = 0
SPECIFICATION FairSpec
PROPERTY SendingIsWorkersBusiness
