CONSTANTS
  p1 = p1  i1 = i1  i2 = i2  t1 = t1  t2 = t2  t3 = t3
  Process = {p1}
  Item = {i1, i2}
  Token = {t1, t2, t3}
  NoToken = NoToken
  MaxAttempts = 2
  BatchLimit = 1
  Concurrency = 1
  LeaseOutlivesWorker = TRUE
  LongDowntime = FALSE
  MaxFaults = 2
  MaxRetries = 0
  MaxRearms = 0
  h1 = h1  n1 = n1  w1 = w1  q1 = q1  NoOne = NoOne
  Hook = {h1}
  Note = {n1}
  HookWorker = {w1}
  NoteWorker = {q1}
  MaxTries = 2
  MaxSaves = 1
  OutboxRetries = 1
  OutboxFaults = 2
SPECIFICATION LiveSpec
PROPERTY EventuallySettled
PROPERTY OutboxSettles
CHECK_DEADLOCK FALSE
