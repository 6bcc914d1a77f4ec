CONSTANTS
  h1 = h1  n1 = n1  p1 = p1  p2 = p2  q1 = q1  q2 = q2
  Hook = {h1}
  Note = {n1}
  HookWorker = {p1, p2}
  NoteWorker = {q1, q2}
  NoOne = NoOne
  MaxTries = 2
  MaxSaves = 1
  OutboxRetries = 1
  OutboxFaults = 2
  ad1 = ad1  ad2 = ad2  r1 = r1  r2 = r2  f1 = f1
  Addr = {ad1, ad2}
  OwnAddr = {ad2}
  FwdRequest = {r1, r2}
  FwdMail = {f1}
  ForwardTo = {ad1, ad2}
  MaxAddresses = 1
  MaxGuesses = 1
  MaxCodes = 2
  MaxDeletes = 1
  Rule = {"ra", "rb", "rc", "rx"}
  OwnRule = {"ra", "rb", "rc"}
  Bare <- BareRules
  Definition <- Definitions
  MaxWishes = 3
  l1 = l1  s1 = s1  s2 = s2  inbox = inbox  drafts = drafts  work = work  trash = trash
  e1 = e1
  Letter = {l1}
  Slot = {s1, s2}
  Box = {inbox, drafts, work}
  Inbox = inbox
  Drafts = drafts
  Trash = trash
  Custom = {work}
  Editor = {e1}
  Scanner = worker
  NoFile = nofile
  MaxNames = 2
  MaxEvents = 2
  x1 = x1  x2 = x2
  Runner = {x1, x2}
  MaxMails = 2
  BatchSize = 1
  MaxPerRun = 2
  MaxTurns = 1
SPECIFICATION MailSpec
INVARIANT MailTypeOK
INVARIANT OutboxSafe
INVARIANT ForwardingSafe
INVARIANT RulesSafe
INVARIANT MaildirSafe
INVARIANT ExternalImapSafe
PROPERTY OutboxImplementsLifecycle
CHECK_DEADLOCK FALSE
