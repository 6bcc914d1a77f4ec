CONSTANTS
  q1 = q1  q2 = q2
  Request = {q1, q2}
  FailureLimit <- Failures
  MaxStarts = 4
  MaxEarly = 1
  MaxResets = 1
  MaxSecrets = 5
  MaxSteps = 1
  pa = pa  pb = pb  pc = pc  np = np  d1 = d1  s1 = s1  s2 = s2  r1 = r1  r2 = r2
  Person = {pa, pb, pc}
  NoPerson = np
  DefaultAdmin = np
  Reader = pc
  Realm = {d1}
  Home = d1
  AdminSlot = {s1, s2}
  Resolver = {r1, r2}
  Budget <- Budgets
  p1 = p1  p2 = p2  mo = mo  mm = mm  mn = mn  bx = bx  by = by  c1 = c1  c2 = c2
  Applicant = {p1, p2}
  Member = {mo, mm, mn}
  Owner = mo
  Address = {bx, by}
  NoOne = np
  Cap <- Caps
  Daily = 2
  MaxUses = 1
  Challenge = {c1, c2}
  MaxRequests = 3
  MaxChanges = 1
  u1 = u1  u2 = u2  g1 = g1  g2 = g2  reg = reg  k1 = k1  k2 = k2
  manage = manage  audit = audit
  Staff = {u1, u2}
  Group = {g1, g2}
  Regular = reg
  Right = {manage, audit}
  Manage = manage
  Default = {}
  Allowance <- Allowances
  Desk = {k1, k2}
  MaxEdits = 2
SPECIFICATION AccountsSpec
INVARIANT TargetNotTransferred
CHECK_DEADLOCK FALSE
