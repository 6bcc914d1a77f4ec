CONSTANTS
  w1 = w1  j1 = j1
  Worker = {w1}
  Job = {j1}
  Blocked = {}
  Nobody = Nobody
  NoJob = NoJob
  Quota = 0
  MaxAttempts = 2
  MaxFaults = 2
  MaxUserOps = 0
SPECIFICATION Spec
CHECK_DEADLOCK FALSE
INVARIANT AtMostMaxAttempts
