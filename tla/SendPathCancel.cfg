SPECIFICATION Spec
CONSTANTS
  w1 = w1
  w2 = w2
  s1 = s1
  d1 = d1
  Worker = {w1, w2}
  Sched = {s1}
  Direct = {d1}
  Drafted = {s1}
  Cost <- MCCost
  DailyLimit = 2
  MinuteLimit = 1
  NoMail = NoMail
  MaxFaults = 0
INVARIANT
  CancelledIsUnsent
CHECK_DEADLOCK FALSE
