CONSTANTS
  w1 = w1  w2 = w2  j1 = j1  j2 = j2
  Worker = {w1, w2}
  Job = {j1, j2}
  Blocked = {j1}
  Nobody = Nobody
  NoJob = NoJob
  Quota = 1
  MaxAttempts = 2
  MaxFaults = 1
  MaxUserOps = 1
SPECIFICATION FairSpec
CHECK_DEADLOCK FALSE
INVARIANT TypeOK
INVARIANT InsertedOnce
INVARIANT StoredWithAttachments
INVARIANT QuotaKept
INVARIANT MaildirMatchesRow
INVARIANT BlockedLeavesInbox
PROPERTY EventuallySettled
PROPERTY DeliveryImplementsLifecycle
