# LanQin Email in TLA+

This directory models the parts of LanQin Email whose correctness depends on
the order in which processes, workers, request handlers, crashes and clocks
take their steps. Paths such as `send_queue.go` are relative to
`src/apps/api/internal/app/`.

## 1. Inventory

LanQin Email is a self-hosted mail service: a Go API (`apps/api`), a React
client (`apps/web`) and the Postfix/Dovecot/Rspamd configuration (`deploy`).
The API keeps its state in one database (SQLite with one connection, MySQL or
PostgreSQL; with the last two several API processes may share it) and in
`DataDir` (delivered markers, attachments) and the Maildir tree. Every process
starts the same workers (`app.go:100-118`); they meet each other and the
request handlers only in the database and on the disk.

| Component | State it keeps | Operations | Meets | What makes it correct |
| --- | --- | --- | --- | --- |
| Send queue (`send_queue.go`, `queue_leases.go`) | `send_queue` rows, marker files | enqueue, claim, send, mark, recover, retry, cancel, prune, go with the mailbox | compose, submission, forwarding, verification; administrators | one attempt at a time per row; no repeat without a lost proof; every mail settled in the end |
| Scheduled sends (`mail_handlers.go:1724-1944`) | `scheduled_sends` | schedule, cancel, worker | compose | sent once, not after a cancel, never forgotten |
| Compose, drafts, quota (`mail_handlers.go:871-1382`) | `messages`, `smtp_send_events` | send, save draft, charge quota | send queue, local delivery, Maildir | a send is charged once and stored once; the limit holds under parallel sends |
| Submission (`submission.go`) | SMTP session, `sent_message_dedupe_keys` | AUTH, MAIL, RCPT, DATA | compose, send queue | command order; one Sent copy per message |
| Local delivery (`local_delivery.go`) | `local_delivery_jobs`, messages, Maildir | enqueue, claim, insert, write file, finish | rules, quota, Maildir | one message per job, file eventually written, controls applied once |
| Webhook outbox (`status_webhook.go`) | `status_webhook_outbox` | enqueue, claim, deliver, retry, cancel, prune, go with the mailbox | every audit | at most ten attempts, one worker at a time, every event settled |
| Telegram (`telegram_notifications.go`) | settings, outbox | save/delete settings, enqueue, deliver | rules | as above, nothing sent with deleted settings |
| Forwarding (`rule_forward.go`) | verification state per address | request, verify, delete, forward | send queue, quota | at most five guesses per code; only verified addresses are used; their number is bounded |
| Sign-in (`auth_handlers.go`, `login_rate_limit.go`, `session.go`, `two_factor.go`) | users, sessions, challenges, failure counters | login, second factor, setup/enable/disable, resets | administrators | a code is used once; a reset ends every session; the flag and the secret agree |
| Invites and quotas (`registration_invite_handlers.go`, `app.go:1735-1935`) | invites, mailboxes, creation events | register, create mailbox | administrators | no invite is overspent, no quota exceeded |
| Permissions (`permissions.go`) | groups, grants | resolve, assign | all handlers | nobody comes to hold more than was handed out |
| Domains and collection (`domain_collection.go`, `admin_handlers.go`) | domains, collection targets | set, remove, delete mailbox | local delivery | the target of a domain exists and is active |
| Sharing and push (`mailbox_sharing.go`, `mailbox_push.go`) | shares, push requests | grant, update, revoke, leave; push, accept, reject, cancel | administrators | a reader has the owner's consent; the state of a push tells what happened |
| Maildir (`maildir_sync.go`, `maildir_write.go`, `imap_metadata.go`) | files, messages, flags | scan, write, move, flag | Dovecot | the two stores converge without losing a message |
| External IMAP (`external_imap.go`) | accounts, cursors | sync, move, delete | remote servers | no message skipped or doubled by overlapping or failing runs |
| Mailbox operations, settings, templates, DNS, search, translation, health, open API, schema, configuration, web client, deployment | one table each, or none | read and single updates | | |

What is hard in this code is listed, line by line, under "hazards" in
`PROJECT.json`: lease hand-over between processes, stops between two steps of
which one is in the database and the other on the disk or at a remote server,
handlers that act on a status they read earlier, updates that do not repeat it,
and limits that are checked at one time and used at another.

## 2. Plan

| Module | Part | With |
| --- | --- | --- |
| `SendQueue`, `SendQueueRefinement` | send queue | `SendQueueProofs`, `MCSendQueue`, `MCQueuesLive` |
| `LocalDelivery`, `LocalDeliveryRefinement` | local delivery jobs | `LocalDeliveryProofs`, `MCLocalDelivery` |
| `SendPath` | compose, scheduled sends, the allowance | `SendPathProofs`, `MCSendPath` |
| `Outbox`, `OutboxRefinement` | webhook events and Telegram notifications | `OutboundProofs`, `MCMail`, `MCQueuesLive` |
| `Forwarding` | verified forward addresses and rule forwards | `OutboundProofs`, `MCMail` |
| `MailRules` | inbound rules, blocked senders, clean-up | `MailboxProofs`, `MCMail` |
| `MaildirSync` | rows and files of one mailbox | `MaildirProofs`, `MCMail` |
| `ExternalImap` | imports of one external account | `MailboxProofs`, `MCMail` |
| `SignIn` | sign-in, sessions, the second factor, resets, tokens | `SignInProofs`, `MCAccounts` |
| `Ownership` | administration, collection rules, pushes, shares | `AdministrationProofs`, `MCAccounts` |
| `Registration` | accounts, invites, mailbox quotas, Linux.do | `AdministrationProofs`, `MCAccounts` |
| `Permissions` | permission groups and who may grant what | `AdministrationProofs`, `MCAccounts` |
| `SendLifecycle` | abstract: what the send queue and local delivery promise of a mail | implemented by both |
| `EventLifecycle` | abstract: what an outbox promises of an event | implemented by `Outbox` |
| `MailComponents`, `AccountComponents` | `Outbox` to `ExternalImap`, and `SignIn` to `Permissions`, side by side | `OutboundProofs`, `SignInProofs` |

SendQueue, LocalDelivery and SendPath follow an operation through several
processes. The nine others each state what concurrent requests
and workers must keep together in one part of the system. What they do to each
other's tables appears in the module that depends on it as an action of its
environment: a push in `Registration` is `ReceiveBox`, a rule that moves an
imported message is a parameter of `InsertOnce` in `ExternalImap`.

Every safety property a passing run checks, type invariants and the three
refinements included, is proved for all values of the constants. The four
liveness properties are checked by TLC only: a proof of them needs ENABLED,
which is out of the provers' reach.

Left to model, if it turns out to matter: the session automaton of
`submission.go`, the resolution of recipients to mailboxes, the UIDs the
Maildir scan assigns, and the text order of RFC3339Nano times (trailing zeros
are dropped, so within a second the texts that the queues compare do not sort
as the times do).

## 3. The send queue

### Modules

* `SendQueue.tla`: the state, one action per statement or effect of the code.
* `SendLifecycle.tla`: what a user sees: a mail is pending, delivered, failed,
  canceled, gone, or removed with its mailbox. Local delivery (section 4) keeps
  the same promise.
* `SendQueueRefinement.tla`: the first implements the second.
* `SendQueueProofs.tla`: theorems about `SendQueue`.
* `MCSendQueue.tla`: the instance for TLC, with the symmetry of its safety runs.
* `MCQueuesLive.tla`: the liveness of the send queue and, beside it, of the
  outboxes (section 6).

### State

| Variable | Code |
| --- | --- |
| `row[i]` | the row of `send_queue`: `status`, `attempt_count`, `lease_token`, whether `lease_until` is in the future (`live`), whether `next_attempt_at` has come (`due`), and which content it holds (`version`, raised by each re-arm in `enqueueSend`) |
| `marker` | the files `DataDir/send_queue_delivered/<id>.marker` |
| `phase[p]`, `job[p][i]` | where the tick of process `p` is: recovering stale rows or claiming, and at which step of `recoverStaleSendQueueItems` or `processSendQueueItem` it is with row `i` |
| `handler[p][i]` | a request handler between two of its statements |
| `accepted`, `doubt`, `orphan` | history: how often the server took each content; for which the proof of acceptance was lost; which markers outlived their entry |
| `faults`, `retries` | how much of the bounds is used |

A Go function that issues several statements is several actions: `enqueueSend`
is `EnqueueInsert`, or `EnqueueRead`, `EnqueueRearm`, `HandlerClean`; an attempt
is `Claim`, `SmtpAccept` or `SmtpReject`, `WriteMarker`, `MarkDelivered` or
`MarkFailed`, `CleanMarker`. `Crash` stops a process anywhere and lets it start
again; `StatementFails` makes one statement fail.

`RemoveMailbox(S)` is the cascade of the foreign keys (`app.go:510-511`): when a
mailbox goes, or a user with several, their rows S go too, in any status, and
under an attempt. The worker is not told: its session with the SMTP server goes
on, its UPDATEs find no row, and its marker may stay. "removed" is final, as
nothing enqueues for a mailbox that does not exist. `LiveAttemptOwnsRow` is about
rows that are still there. In `SendLifecycle` a mail that is removed while a
delivery is under way is `leaving`: that delivery may still hand it over, once,
and nothing is reported of it.

Left out: addresses and MIME content, `last_error`, the audit rows recorded
after each change (the webhook events that go with them are in `Outbox`, where
they may arise at any time), rows without a lease from before
`migrateQueueLeases`, an empty message id (always a new row: a new item here).
All processes are taken to share `DataDir`; `LANQIN_SMTP_HOST` is set.

### Runs

| Run | Instance | Shows |
| --- | --- | --- |
| `send_queue_safety` | 2 processes, 1 row, 2 attempts, 2 faults, 1 retry, 1 re-arm | `TypeOK`, `RowsConsistent`, `LiveAttemptOwnsRow`, `DuplicateExplained`, `DeliveredMeansAccepted`, and `ImplementsLifecycle`: every step is a step of the mail lifecycle |
| `send_queue_any_timing` | the same with 1 fault, leases that run out under an attempt, and outages as long as the retention | what the lease token alone guarantees |
| `send_queue_live` | 1 process, 2 rows, batches of 1, 2 faults, fairness; and the outboxes | `EventuallySettled`, `OutboxSettles` |
| `send_queue_stranded` | 1 process, 1 fault, fairness | violated: an interrupted last attempt stays in `sending` |
| `send_queue_orphan` | 1 process, 3 faults | violated: a left-over marker vouches for content that was never sent |

Bounds. Rows do not interact except through the batch and the concurrency
limit of a tick, so safety needs one row and as many processes as can race for
it; two attempts are a first and a last one; three tokens let a row, an
overtaken attempt and a new claim differ; one re-arm and one retry are enough
for every handler to meet every step of a worker; two faults let a crash hit
the repair of an earlier one. A removal is not bounded: any set of rows may go at
any time. Two rows with a batch of one show that no row
starves. `LeaseOutlivesWorker` is the code's own timing (a dial is cut off
after 10 s, a session after 45 s, a lease lasts 15 minutes) and is dropped in
the second run.

Fairness. `WF(Worker)`: the ticker starts a tick every ten seconds and a
goroutine runs on. `WF(Handling)`: a handler in progress ends. `WF` of lease
expiry and of the retry delay: time passes. Nothing is assumed of enqueueing,
retries, cancels, the retention sweep, deletions, crashes or failing statements,
which the bound `MaxFaults` makes finite.

### Findings

* `send_queue.go:204`: the recovery selects `attempt_count<max_attempts`, the
  claim counts an attempt when it starts. A stop during the last attempt, a
  deployment for instance, strands the row in `sending`, even with a marker.
* `send_queue.go:241`: a marker is trusted by id. If its removal fails (or the
  process stops before it), the id is enqueued again and that attempt is
  interrupted, the new content is reported delivered without having been sent.

### Proofs

`SendQueueProofs` proves, for every value of the constants that satisfies
`BoundsAssumption` and `ConstantsAssumption` (positive limits; the empty token
is no token):

* `TypeCorrect`: `Spec => []TypeOK`;
* `RowsAlwaysConsistent`: `Spec => []RowsConsistent`;
* `AttemptsOwnTheirRows`: `Spec => []LiveAttemptOwnsRow`;
* `DuplicatesAreExplained`: `Spec => []DuplicateExplained`;
* `DeliveredWasAccepted`: `Spec => []DeliveredMeansAccepted`;
* `FinishedStaysFinished` and `FailureIsTheHolders`: the two action properties;
* `QueueImplementsLifecycle`: the refinement of `SendLifecycle`, for the timing of
  the code (`LeaseOutlivesWorker`, no `LongDowntime`), as in the run.

The first three rest on `Inv`. `RowsConsistent` alone is not inductive: a
requeue by the recovery could give a row with no attempt left back to the queue,
unless the snapshot the recovery took is still what the row says as long as the
tokens agree (`SnapshotSafe`). `LiveAttemptOwnsRow` needs that no two jobs hold
the same token (`HoldersDistinct`), which follows from `FreshToken`, that
every guard of a handler excludes a row in `sending`, and that no item is attempted
twice at once even after its row was removed (`AttemptsAlone`). Lemmas state what the
helpers return; `TypeStep`, `RowsStep` and `LeasesStep` go through the actions
one by one, and the last steps are propositional temporal logic.

The two about acceptances rest on `AcceptanceInv`, which says where the
knowledge that a content was accepted is at each stage of a row: a row that
waits holds content that was not accepted or is in doubt, an attempt sends only
such content, one that is going to mark the row delivered has the acceptance or
a marker behind it, and an acceptance without doubt is on disk as soon as its
attempt can lose its lease. It also needs that a tick recovers or sends, but
does not do both (`OneTrade`). The action properties and the refinement follow
from `RowLife`, the ways a step can take the status of a row. That a removed mail
is handed over only by the delivery that was under way then needs that sessions
with the SMTP server begin with a claim only (`SessionsStart`).

Only model-checked: liveness, which the proof system cannot do.

## 4. The local delivery

Without an SMTP host a mail is delivered by jobs, one per source and target
mailbox. An attempt claims the job, inserts the message in a transaction that
also records its id with the job, writes the Maildir file under the stable name
`local-<id>`, stores its path, marks the job delivered and only then applies
the inbound controls. A retry resumes behind the insertion.

### Modules

* `LocalDelivery.tla`: the state and one action per statement, transaction or
  file operation.
* `LocalDeliveryRefinement.tla`: it implements `SendLifecycle` (section 3), where
  what is handed over is the message a job inserts.
* `LocalDeliveryProofs.tla`: theorems about both.
* `MCLocalDelivery.tla`: the instance for TLC.

### State

| Variable | Code |
| --- | --- |
| `row[j]` | the row of `local_delivery_jobs`: status, attempts, lease token, whether the lease runs and the delay is over, whether `message_id` is set |
| `mail[j]` | the row of `messages` the job inserted: its folder and `raw_path` |
| `attached` | the jobs whose message has `DataDir/attachments/<id>` |
| `files[j]` | the Maildir files that hold the message, each a folder and a name |
| `att[w]` | the attempt of goroutine `w`: its step, its job, the path it is about to write or store |
| `owner[j]` | the owner of the mailbox between the file and the row of a move or a deletion |
| `copies`, `skipped`, `tangled` | history: insertions per job; jobs whose controls were interrupted; messages that two actors handled at the same time |
| `faults`, `userOps` | how much of the bounds is used |

`processLocalDelivery` is `Claim` and, on an error, `Reschedule`;
`completeLocalDelivery` is `BeginTx` (both row locks and the quota check under
them), `CommitTx` or `CommitUnknown`, `WriteRead`, `WriteFile`, `WritePath`,
`Finish`; the controls are `Controls`, `SpamFile`, `SpamRow`. `moveMessageMaildir`
of the owner is `UserMoveFile`, `UserMoveRow`, and `deleteMessage` is
`UserDeleteFiles`, `UserDeleteRow`. `Fails` is a failing statement or a mailbox
that is not active, `Interrupted` a stop or the canceled context of the request
that runs the job, `LeaseExpires` under an attempt one that takes more than
five minutes.

Abstractions. One target mailbox, as jobs meet only there; all messages have the
same size, so that the quota is a number of messages; a goroutine makes one attempt
at a time and serves as its lease token. Left out: how recipients are resolved to
mailboxes and the copies for unknown addresses, rules, forwards and notifications of
the controls (`MailRules`, `Forwarding`), IMAP counters, flags, the directory of
attachments a stop leaves behind in the middle of a transaction, other paths that
insert into the mailbox without taking its row lock, and a job enqueued anew after
its row was pruned.

### Runs

| Run | Instance | Shows |
| --- | --- | --- |
| `local_delivery` | 2 workers, 2 jobs of which one is blocked, room for 1 message, 2 attempts, 1 fault, 1 move or deletion, fairness | `TypeOK`, `InsertedOnce`, `StoredWithAttachments`, `QuotaKept`, `MaildirMatchesRow`, `BlockedLeavesInbox`, `EventuallySettled`, the refinement `DeliveryImplementsLifecycle` |
| `local_delivery_attempts` | 2 workers, 2 faults | violated: a job is tried more often than the limit |

Bounds. Two workers are an overtaken attempt and its successor, or two jobs at
once; two jobs and room for one make them compete; two attempts are a first and
a last one; one fault interrupts any step, loses a lease or an acknowledgement,
and one operation of the owner meets every step. The same instance with two
faults (425 thousand states) passes as well and is not repeated here for its
length.

Fairness. `WF` of each goroutine's own steps, of the claim of each job (the
worker looks every five seconds), of the expiry of a lease and the retry delay
(time passes), and of the second half of an operation of the owner (a request
ends). Nothing is assumed of new jobs, of the owner starting anything, of
pruning or of faults.

`MaildirMatchesRow` and `BlockedLeavesInbox` name their exceptions. A message is
`tangled` once somebody moves or deletes it while an attempt is writing its file,
while somebody else moves it, or after an interrupted write left a file its row does
not know: the code takes no lock there, and a second file can stay behind for the
scan of the Maildir to find (`MaildirSync`). A job is `skipped` when its controls
were interrupted: they run after the job is marked delivered and nothing runs them
again.

### Finding

* `local_delivery.go:223`: `docs/DOMAIN_COLLECTION.md:28` says a job is tried at
  most eight times, but the limit is looked at only after an attempt that
  reports an error. Interrupted attempts are repeated without limit.

### Proofs

`LocalDeliveryProofs` proves, for every value of the constants that satisfies
`BoundsAssumption` and `ConstantsAssumption`:

* `LocalTypeCorrect`: `Spec => []TypeOK`;
* `NeverInsertedTwice`: `Spec => []InsertedOnce`;
* `AttachmentsStay`: `Spec => []StoredWithAttachments`;
* `QuotaNeverOverdrawn`: `Spec => []QuotaKept`;
* `BlockedMailLeaves`: `Spec => []BlockedLeavesInbox`;
* `MaildirKeepsUp`: `Spec => []MaildirMatchesRow`;
* `LocalDeliveryImplementsLifecycle`: `Spec => DeliveryImplementsLifecycle`.

The three after the first rest on `IInv == TypeOK /\ MailInv /\ QuotaInv`. That no
message is inserted twice needs that `message_id` is unset exactly as long as
there was no insertion, which also gives that a job without one has no message
row and no deletion under way. That the quota holds needs that at most one
transaction is open and that, while one that is going to insert is open, there
is still room: every other action must leave the number of messages alone or
lower it. Finite sets and cardinalities enter only through two lemmas on `Used`.

`BlockedMailLeaves` rests on `ControlInv`: a job is delivered only after its file
is recorded, and as long as the message is in the inbox some attempt still has
the controls before it. `MaildirKeepsUp` rests on `FileInv`, which says for every
message that is neither tangled nor skipped what each actor relies on: attempts
between the write and its record mean the same file (`WritersOK`), the controls
between file and row are alone (`SpammersOK`), and otherwise the file is the one
the row names (`FilesOK`).

`LocalDeliveryImplementsLifecycle` says that whatever overtaken attempts, unknown
outcomes of COMMIT, stops and the owner do, a message appears only while its job
is pending, a job is delivered only after that, and no job that was given up,
delivered or pruned comes back. The mail appears at COMMIT, several steps after
the attempt checked its lease token. What carries it over is `TxOwns`: the row
lock of the open transaction keeps everybody from claiming the job or changing
its row, so the token the attempt found is still there and the row is `sending`.
That a delivered job has its message follows from `ProgressOK` and `MailInv`.
Each action is one step lemma; the actions that change neither a status nor
the number of insertions are stutters of the lifecycle.

Only model-checked: `EventuallySettled`, a liveness property.

## 5. The send path

A mail is sent by a request (`handleMailSend`) or, once it is due, by the
scheduled-send worker of any process. Both run `sendMailWithSource`: charge the
allowance of the user, insert the copy in Sent, write its Maildir file, store
the path, enter the send queue; from the file on, an error deletes the copy
again. The worker claims the item before and deletes its draft and marks it
after that.

### Modules

* `SendPath.tla`: the state and one action per statement, transaction or file
  operation. Its last step is the first of `SendQueue`.
* `SendPathProofs.tla`: theorems about it.
* `MCSendPath.tla`: the instance for TLC.

### State

| Variable | Code |
| --- | --- |
| `sched[s]` | the row of `scheduled_sends`: its status ("none" before it is scheduled) and whether `send_at` has come |
| `list[w]` | the items `processDueScheduledSends` has read and not yet tried |
| `att[p]` | where a worker is in `processScheduledSend`, or a worker or request in `sendMailWithSource`, and with which mail |
| `charge[m]` | the row of `smtp_send_events` of a mail, by the window its `created_at` lies in |
| `sentRow`, `sentFile`, `sentPath` | the row in Sent, its file, and whether `raw_path` names it |
| `queued[m]` | how many entries of `send_queue` were made for the mail |
| `draft` | the drafts of scheduled mails that exist |
| `cancel[s]` | `handleCancelScheduledSend` between its SELECT and its UPDATE |
| `calledOff`, `removed`, `discarded`, `broken` | history: items canceled while pending; Sent copies and drafts the user deleted; mails whose sender was interrupted or met an error it could not tell the extent of |
| `faults` | how much of the bound is used |

`processDueScheduledSends` is `ListDue`; `processScheduledSend` is `Claim` (or
`ClaimFails`), `Check`, the send, `DeleteDraft`, `MarkSent` or `MarkFailed`;
`recordSMTPRate` is `BeginCharge` (row lock and count) and `CommitCharge`; then
`InsertSent` or `InsertPartly`, `WriteFile`, `WritePath`, `Enqueue` or
`EnqueueUnknown`, and `Undo` after an error. `Refuse` is any check that fails:
mailbox, permission, sender, recipients, attachments, message. `Fails` is a
statement that fails and changed nothing, `FailsQuietly` one whose error is
only logged, `Interrupted` a stop of the process or the end of the context of a
request or of the workers, after which no statement takes effect.

Abstractions. One user with one mailbox; his limits do not change, and an
administrator, who has none, is the case of limits 0. A request sends one mail, so
that mails of one user race as requests. The rank of due items and the batch of 20
are left out: a tick takes the whole list in any order. A deletion of a message is
one step (its steps are in LocalDelivery). A draft is edited only while it is not
scheduled: the client sees to that (`pages/mail.tsx:1522`). The user cancels an item
once. Left out: the quota of the mailbox (a `Refuse` here), changes of his limits by
an administrator while he sends, audits, the local delivery that follows without an
SMTP host, and the deletion of the mailbox or the user under a send, with which the
rows of all these tables go (what it does to entries of the queue is in section 3).

### Runs

| Run | Instance | Shows |
| --- | --- | --- |
| `send_path` | 2 workers, 1 scheduled mail with a draft and 1 recipient, 1 direct mail with 2, at most 2 recipients a day and 1 mail a minute, 1 fault, fairness | `TypeOK`, `DayKept`, `MinuteKept`, `QueuedOnce`, `CalledOffStaysUnsent`, `SentMatchesQueue`, `StatusTellsOutcome`, `DraftGoesWithMail`, `DueItemsSettle` |
| `send_path_cancel` | the same without faults | violated: a canceled item was sent |

Bounds. Scheduled items meet only in the allowance, where the direct mail takes
the place of a second one; two workers are what a claim races with. The limits
let either mail through alone and not both together, by recipients and by
mails, so that each window decides in some behaviour. One fault strikes at
every step. With two scheduled mails the state graph takes longer than five
minutes.

Fairness. `WF(Work)`: the ticker starts a tick every thirty seconds and a
goroutine goes through its list. `WF(Send)`: a send in progress goes on.
Nothing is assumed of the user, of the clock or of faults.

`SentMatchesQueue`, `StatusTellsOutcome` and `DueItemsSettle` leave out
`broken` mails. The code has no recovery here: a worker that is interrupted
leaves its item in "sending", an interrupted request a copy in Sent that is not
queued, and an entry whose reply was lost is sent although its copy is deleted
and its item marked failed. `QueuedOnce`, `DraftGoesWithMail` and
`CalledOffStaysUnsent` hold for those mails too.

### Finding

* `mail_handlers.go:1823`: the cancel handler reads the status and then updates
  the row without repeating it. An item a worker claims in between is shown as
  canceled, and the client says so, but is sent.

### Proofs

`SendPathProofs` proves, for every value of the constants that satisfies
`BoundsAssumption` and `ConstantsAssumption` (mails have at least one recipient,
are finitely many, and are either scheduled or direct):

* `SendPathTypeCorrect`: `Spec => []TypeOK`;
* `SendPathQueuedOnce`: `Spec => []QueuedOnce`;
* `SendPathCalledOff`: `Spec => []CalledOffStaysUnsent`;
* `SendPathDraft`: `Spec => []DraftGoesWithMail`;
* `SendPathMinuteKept`: `Spec => []MinuteKept`;
* `SendPathDayKept`: `Spec => []DayKept`;
* `SendPathCopies`: `Spec => []SentMatchesQueue`;
* `SendPathStatus`: `Spec => []StatusTellsOutcome`.

For the three after the first the inductive invariant is `MailInv`: no two
senders hold the same mail, an item that is pending or not yet scheduled is
neither queued nor held, a sender that has not reached the queue holds a mail
that is not in it, and an item called off stays canceled and unheld. It is
inductive because no statement sets a status back to "pending". Most actions
are the same case, a sender that goes on or lets go (`Onward`), so the proof
treats them together and only the claim, the entry of the queue, the deletion
of the draft and the marks apart.

For both allowances it is `AllowanceInv`: at most one sender is in the
transaction, and what it counted under the lock can only have become less. The
recipients of a day are counted as a set, one pair for each recipient of each
mail, as a sum over a set would need an induction.

For the last two it is `WorkInv`: a sender at each of its steps has stored
exactly what the steps before it store (`CopyPhase`), behind the queue there is
an entry and on the way to a failure there is none (`QueuePhase`), and an item
nobody works on has its mail sent with a copy, or neither. Broken mails are
exempt, as in the properties.

Only model-checked: `DueItemsSettle`, a liveness property.

## 6. Around a mailbox

`MailComponents` puts five modules side by side, and `MCMail` is its instance for
TLC: they share no variable, so a behaviour chooses a `focus` in its initial state,
takes steps of that component only and leaves the others where they start. TLC thus
explores the sum of the components, not their product, and nothing is lost, as no
property relates two of them. The outbox has a focus for each of its two kinds of
rows, whose workers and tables are separate. `MCQueuesLive` does the same for
liveness.

### Outbox

`out[e]` is the row of an event or a notification, `todo[w]` what a tick has
listed, `try[w]` the attempt of a worker, `settings` the row that notifications
depend on, `ruleRun[e]` a rule between its check of the settings and its INSERT.
`processDueStatusWebhooks` and `processDueTelegramNotifications` are
`ListOutbox`, `ClaimOut`, `ReadSettings` (Telegram), `SendRequest`, `MarkOut` or
`FailOut`; saving and deleting the settings remove every pending row of the
user. Faults are stops, failing statements, replies that are lost and leases
that run out under an attempt. `OutcomeFails` of the Telegram worker is the end
of its process: `RowsAffected` is called on a nil result.
`DropMailboxRows` is the trigger of SQLite that deletes the status events of a
deleted mailbox (`app.go:586-589`); the other databases have no such trigger, so any
part of the rows may go, or none. `DropUserRows` takes the settings and all
notifications of a deleted user along (`app.go:393`, `407`), with the status events
of the mailboxes. Both strike rows whatever their lease: an attempt goes on, its
request may be taken, and its outcome finds no row. A rule that had read the
settings before finds no user to refer to, and its INSERT fails.

`OutboxSafe` is `RepeatExplained` (the receiver gets an event twice only when
the proof was lost), `RequestsWithinLimit` and `DeliveredWasTaken`.
`OutboxSettles`, under fairness: a pending row is settled, or has no attempt
left. The second half is what a stop in the last attempt leaves behind.

`EventLifecycle` is what whoever raises an event may rely on, without leases,
tokens, lists or workers. An event is absent, pending, spent (no attempt left),
delivered, gone or removed with its mailbox or user, and `busy` while an attempt is
under way. An attempt begins only for a pending event; what is delivered was taken;
gone and removed are final, and delivered events only go or are removed. One attempt
at a time is made, an administrator retries and cancels only between attempts, and
the receiver takes an event once, unless it is `doubtful`: an outcome was lost or an
attempt went on for longer than its lease. In `OutboxRefinement` a pending row is
spent once all its tries are made and its lease has ended, an event is busy while
some `try[w]` has it, and `unproven` are the doubtful ones.
`OutboxImplementsLifecycle` says what `OutboxSafe` does not: that a retry or cancel
never meets an attempt under way, that saving the settings, or the deletion of the
mailbox or the user, takes an event away from the attempt that has it, for good, and
that nothing but the attempt which holds the row decides it.

Fairness: `WF(WorkerStep)`, as the ticker starts a tick every ten seconds and
the goroutine goes on; `WF` of the delay and of the lease, as time passes.
Bounds: two workers per outbox, one row, two attempts, two faults, one retry,
one change of the settings (one worker of each in the liveness run).

### Forwarding

`stored[a]` is the JSON value of an address, `req[h]` a request that has read
and not yet written. `handleRequestForwardAddressVerification` is `AskCode`
(with the check of the number of addresses), `SaveOwn` or `SaveCode`,
`MailCode`, and after a refusal `UndoCode`; `handleVerifyForwardAddress` is
`EnterCode`, `ReadForVerify`, `SwapCode`, which loops while the value changes
under it. `CheckForward` and `QueueForward` are a rule that forwards.

`ForwardingSafe`: `GuessesBounded`, except for codes whose value `UndoCode` put
back; `ForwardedWereProved`; `AddressesBounded`, by one more for each request at
the same time. Bounds: two addresses, one of them the user's own; two requests,
two codes, one guess, one address allowed, one deletion.

### Mail rules

`inbound` is the pass of `applyInboundControls` over one message, action by
action; `existing` that of a new rule over older mail; `sweep` a clean-up that
has listed its folder. Conditions are leaves that hold, do not hold or are
invalid, and matching is computed from them as the code does, groups that have
nothing valid left out. `Steps` is what `applyRuleActions` goes through: the
actions in their order, then the forwards of the rule together, and `Skipped` the
actions its loop passes over. The user creates, deletes, blocks, moves and cleans
up meanwhile, and actions fail: the rest of the rule is dropped, except after a
folder that `ensureFolder` cannot give, which is passed over in silence.

The pass itself is `InboundCheck` (the mailbox and the first look at the sender),
`LoadRules` (the list, then the message), its rules, and `InboundEnd` (the second look
and the move to Spam). None of its errors is reported, and each has its own branch:
`CheckFails` and `EndFails` are a failing look-up of the mailbox, which ends the
pass, a failing look-up of the sender, which counts as not blocked, and an error of
`ensureFolder` or of the move, which leaves the message where it is; `LoadFails` is
the failing query of the rules, after which there is no second look; `LoadPartly` a
list that breaks off, and a message that is not found, of which the rules see the
sender and the subject only (`Bare` says what a rule amounts to then).

`RulesSafe`: `PassComplete` (undisturbed, the message ends where the rules it read
say, and in Spam for a blocked sender) and `OnlyDueLeaves` (no forward and no
notification but of a rule that was due). A pass in which something failed counts as
disturbed: it promises nothing about the place of the message. `OnlyDueLeaves` holds
for it too, by what it had read. Bounds: three rules in every order and number,
three requests or failures. Under SQLite the pass over existing mail waits for its
own connection (see the hazards): the module describes it for the other databases.

`RulesAreSafe` proves it for any rules, with any conditions and actions in any
number and order, read by the pass in any list. The invariant `RulesInv` says where
the pass is: at step m of rule n of the list it read (`PassAt`), with no rule
before n that stops, the rest of the list in `todo` and the rest of the steps in
`acts`. Undisturbed, the message is what the steps at the places behind it say
(`Effect`): in the folder of the last folder action among them, with their marks,
and with the rule of every one that sends in `queued`. A step adds its place after
all the others (`NextPlace`), the next rule begins where this one ended
(`NextRule`), and at the end the places are those of the rules that are due
(`DueArePassed`), so the last move among them is the one `DueFolder` chooses
(`FolderAtEnd`). Matching is not opened: the proof holds for whatever
`RuleMatches` says of a rule, as long as it says the same during one pass. For
`OnlyDueLeaves` it matters that the pass over existing mail is never given the
forwards and passes over the notifications.

### Maildir

`messages` are rows, `issued` the ids ever given to one (they are random and not
given twice), `maildir` files, `job[w]` a request of the web client (or a
write of the scanner) between two statements or file operations, `pass` the
scanner: `syncMaildirOnceDetailed` is `BeginPass`, `ListFolder`, `LookAtFile`
(what the rows say of a file), `UpdateRow`, `ImportFile` or `RemoveCopy`,
`ListBackfill`, `Backfill`, `ListMissing`, `DropRow`. Postfix and Dovecot deliver,
copy, move, flag and expunge files.

`MaildirSafe`: `Converged`, a full pass that nobody disturbed leaves rows and
files equal (a row changed less than five minutes ago may wait); `LetterKept`, no
letter is lost. A letter the scan met in the middle of a write of the program
("clashed") is exempt: there `removeDuplicateMaildirMessage` can remove the new
file while the write removes the old one. Bounds: one letter, two rows, three
folders (the Inbox, Drafts and one of the user's; a purge in the Trash is one in
Drafts), two names, two events, and a mailbox that is empty at first or has the
letter in the Inbox. One request at a time; the proof has no such bound. Neither a
request nor a pass is taken to last the five minutes of the clean-up.

### External accounts

`remote[s]` is the folder at each of two servers, or of two logins, `progress` the
row with the last UID, `imports` the keys with the messages stored under them,
`syncing[r]` a run. A server renumbers, the provider rotates tokens, the user edits
and deletes the account, runs fail anywhere and are cut off.

An edit (`UpdateAccount`) may turn the account to the other server and back, while
folder states and keys stay as they are (`external_imap.go:309-310`); a run under way
stays with the server it has read. `OpenClient` reads the expiry of the access token
again. Two minutes before it ("near") `oauth2` still answers with the token it was
given, up to ten seconds before the end, after which ("over") it asks the provider;
which of the two it does while the token is near is left open, as the clock goes on.
`RefreshToken` and `SaveToken` are the one, `SaveCached` the other: the run writes
back both tokens it read at its start, which another run may have replaced.

`ExternalImapSafe`: `ImportedOnce`, `NoneSkipped`, `GrantKept`, `MarkReachesIts`, each
with the exceptions the code makes necessary: TLC finds a counterexample when one is
dropped, with one event or, for the renumbering and the marks, with two.
No message is imported twice under one numbering of its server, also when the account
went to the other one and back. Nothing is skipped and no other message is marked
while the servers keep their numbers (no UIDVALIDITY is compared, neither to continue
nor to mark) and the account stays with its server (`moved`). The newest refresh token
is on the row, with a run that is about to store it, lost with an answer or an UPDATE
(`dropped`), or overwritten by `SaveCached` (`revived`).

Bounds: two runs, two mails, batches of one, one event besides the runs, which may be
the edit of the server, and one successor of a refresh token.

### Run

| Run | Instance | Shows |
| --- | --- | --- |
| `mail_components` | as above | `MailTypeOK`, `OutboxSafe`, `ForwardingSafe`, `RulesSafe`, `MaildirSafe`, `ExternalImapSafe`, `OutboxImplementsLifecycle` |

### Proofs

`OutboundProofs`: `OutboxesAreSafe`, `OutboxSpec => []OutboxSafe`, under
`OutboxAssumption`. The inductive invariant `OutboxInv` follows an event whose
proof was not lost: one attempt has it and holds its lease, it has not been taken
before that attempt is about to mark it, and every request was counted as a try
before. `OutboxesImplementLifecycle`, `OutboxSpec => OutboxImplementsLifecycle`, rests
on the same invariant and on `KindsInv` (a worker handles the events of its own
outbox, so that only notifications are dismissed). Each action is mapped to the
step of the lifecycle it is: a lemma for the writes outside an attempt, for the
claim, the request, the end of an attempt and the settings. That a row is free only
when no attempt is under way, doubt apart (`FreeIsQuiet`), is what makes the claim,
the retry and the cancel allowed steps; it follows from the attempt holding the
lease.

`ForwardingIsSafe`, `ForwardingSpec => []ForwardingSafe`, is proved under
`ForwardingAssumption` (at least one address, at least one allowed). In
`ForwardingInv` a code that was not written back is at one address, whose counter
has every wrong guess of it; the number of addresses is bounded through those that
have a row or a request that may still write one. The type invariants are proved
too.

`MailComponentsAreSafe`, also in `OutboundProofs`, joins the three proof modules: a
step of `MailSpec` is a step of each component or leaves it alone (`MailStep`), so
a behaviour of it is one of every component, and `MailTypeOK` and the five safety
properties hold in it.

`MailboxProofs`: `ExternalImapIsSafe`, `ExternalImapSpec => []ExternalImapSafe`,
under `ExternalImapAssumption`. `ExternalImapInv` joins what is written down to what
the server has. `ToldInv`: whatever a key or an item under way says of a message was
so under the UIDVALIDITY it names, so that two of them agree on its number.
`CoverInv`: neither the row of the folder nor a run passes over a message, the items
of a run leaving out none below them (`LowestFew`: of finitely many numbers, those
with fewer than n below them are at most n, and with one of them goes every lower
one). `TokenInv`: with a provider that rotates, one run alone has the newest token
until it is stored. All of this survives a renumbering and an edit of the server
except `CoverInv`, which is why `NoneSkipped` does not; until such an edit every run,
key and item is of the first server (`StayInv`). Keys are compared by server and
numbering, so that `ToldInv` holds for both servers at once (`FolderInv`).

`MaildirProofs`: `MaildirIsSafe`, `MaildirSpec => [](MaildirTypeOK /\ MaildirSafe)`,
under `MaildirAssumption`: there is an Inbox, the scanner is no request, and
`NoFile` is none of the things it stands for the lack of. Requests, rows, letters,
folders and names may be as many as one likes. `MaildirInv` has three parts.
`TypesInv` says what a write or the scanner has in hand at each of its steps, and
that a write of the scanner's own is under way only while it imports or writes
files for rows without one. `KeptInv` follows the files: a
name is given once; a row, a write and the scanner know only names that were given;
and the file of a write that has put it and not stored its path has a name nobody
else has heard of (`Unwritten`, `Apart`), so no other step removes it, and it is there
(`WrittenOK`). The old file goes after the new one is there, and the scanner removes
what it calls a copy only while it knows of another file of the letter (`PickOK`);
hence a letter that is here has a file or a row without a path. A file the scanner
meets in the middle of a write is where this breaks, and there the letter is
"clashed". `CalmInv` follows a full pass that nobody disturbs: every file is still to
be listed (`Listed`), in hand with a decision that still fits (`PickInHand`), or has a
row that agrees with it; then every row without a file is still to be written
(`Filed`), and the sweep ends with both equal (`Sweeping`, `Settled`). A step of
anybody else ends the calm (`OthersStir`), so only the scanner's own steps can
break it. A row's id must not be given again while a write that knows it is under
way: that is why `issued` is a variable of the module.

Only model-checked: `OutboxSettles`, which is liveness. The instance of
`mail_components` has no fairness and no liveness property: those are in
`send_queue_live`.

## 7. Accounts

`AccountComponents` puts four modules side by side in the same way, and
`MCAccounts` is its instance for TLC.

### Sign-in

`account` is the row of the user, `limits` the rows of failures, `sessions` and
`challenges` what was issued, `req[r]` a request between reading and writing.
A session, a challenge, a token and the password are known by the number of
resets before they were proved (`since`) and by whether a reset came while they
were pending (`late`). `handleLogin` is `StartPassword`, `ComparePassword`, then
`FailLogin`, `IssueChallenge` or `IssueSession`; the second step `StartCode`,
`CheckCode`. Setup, enable and disable of the second factor each read, check and
write. `Contain` is what both resets do.

`SignInSafe`: `FailuresBounded`, `CodeAcceptedOnce` (the conditional UPDATE of
the counter), `ResetContains`, `EnabledIsConfirmed` (except when changes
overlapped). Bounds: two requests at once, four in all, one reset, two time
steps.

### Ownership

One mailbox, its domain, the users, the rules that deliver into it (`targets`), its
push and its share. `StartAdmin` is the check of an administrator's request and
takes the lock, `WriteAdmin` its write; resolving a push is `ReadPush` and
`AcceptPush` or `ClosePush`, without the lock, or `RollBackPush` when a statement
fails; what a request has read of its push stays with it (`resolving[r]`), so a
request that still resolves a push that was closed meanwhile goes on beside the next
one; the share is changed from a page (`page`) that may be old.

`OwnershipSafe`: `AdminRemains`, `TargetUsable`, `PushTellsOutcome`,
`PageNotStale`, `ReaderHasConsent`. The exceptions are written into each: a push
that fell into a request of an administrator or moved a target, a write that
crossed a resolution, a share row restored for another owner. Bounds: three
users, two requests at once of either kind, and `Budgets`, the mixtures of
requests explored: two administrators with the sharing, one with a push, a push
with the sharing. A request of all three kinds in one behaviour is not explored.

### Registration

`intake[s]` is a request in its transaction. Locks are guards: `RowFree`,
`AddressFree`, `InviteFree`, `EmailFree` wait for the transaction that holds the
row or the unique value. `Count` is where the UPDATE of `consumeMailboxQuotaTx`
takes its snapshot and `CreateBox` where it decides, so that the order the
comment at `app.go:1829` warns of is one the model can show. A callback of
Linux.do reads and then deletes its state.

`RegistrationSafe`: `InviteNotOverspent`, `QuotaHolds`, `IdentityEarned`,
`StateOnce`. Bounds: two requests at once and three in all, three users, two
addresses, one use of the invite, one change by an administrator.

### Permissions

`groups`, `staff`, and `desk[k]`, a request that was checked and has not written.
`GrantOf` merges the groups of a user as the code does, with 0 as the limit that
absorbs every other. `Restart` is what a starting process does to the groups.

`PermissionsSafe`: whoever is not a super administrator never holds more than
`ceiling`, what regular users held at first and what super administrators handed
out, whatever managers do, at the same time too. Bounds: two users, three groups,
two permissions, two requests.

### Runs

| Run | Instance | Shows |
| --- | --- | --- |
| `accounts` | as above | `AccountsTypeOK`, `SignInSafe`, `OwnershipSafe`, `RegistrationSafe`, `PermissionsSafe` |
| `collection_target_transfer` | the same | violated: the target of a collection rule is transferred |

### Finding

* `mailbox_push.go:136`: `docs/DOMAIN_COLLECTION.md:18` says that transferring a
  mailbox a collection rule refers to is refused with 409. Administration does
  refuse it; accepting a push transfers it, and the rule goes on delivering into
  what is now another user's mailbox.

### Proofs

Each of these holds for every value of the constants that satisfies the
assumption of its module: finite sets of requests, users, addresses and groups,
and bounds that are natural numbers.

`SignInProofs`: `SignInIsSafe`, `SignInSpec => []SignInSafe`. `SignInInv` adds to
the properties what the requests under way carry. For the rate limit these are
the failures that requests behind its check may still count (`CountInv`): while
a row counts, its failures and the pending requests together stay below the
bound, as none joins them once the row is locked, a refused challenge apart. For
the codes it is that none above the last counter was accepted (`CodeInv`); for
the resets that the proof of every request and challenge is of this era or late
(`EraInv`); for the second factor that the only change under way has read the
secret in force (`FactorInv`). `MaxSecrets` exceeds the number of requests by
more than two, so that there always is a new secret.

`AdministrationProofs`: `RegistrationIsSafe`, `RegistrationSpec => []RegistrationSafe`.
`RegistrationInv` says what each request in its transaction has secured
(`Fits`): a use of the invite, a name that is free, room for one more mailbox at
the UPDATE that decides, however old the snapshot that statement took; and that
no two requests have secured the same (`Apart`), which is what the locks are
for. A state of Linux.do is unclaimed or gone, so that the claimed ones and those
that are left are no more than were issued.

`AdministrationProofs`: `PermissionsAreSafe`, `PermissionsSpec => []PermissionsSafe`.
The group of regular users, the groups that others than super administrators are in, and
what a manager is about to write or assign are all below the ceiling
(`PermissionsInv`). The check of a handler compares with the merged limits of
the actor, so the proof needs that one of finitely many limits is the widest
(`WidestIsAbove`), a well-founded induction over finite sets from the library.

`AdministrationProofs`: `OwnershipIsSafe`, `OwnershipSpec => []OwnershipSafe`.
`LockInv`: one request of an administrator is between its check and its write,
as it holds the lock; that its write leaves an administrator (`LeavesAdmin`)
stays true whatever happens to the mailbox meanwhile, and that it leaves the
collection rules a usable mailbox (`Cleared`) stays true until a push is accepted,
which is why the exception of `TargetUsable` cannot be dropped. `PushInv`: as
long as no write of an administrator crossed a resolution, what the resolution
read is still so when it decides. `ShareInv`: a page that was loaded is the row of
the share or an older version of it, so that the condition on the version is
enough; an open share was consented to or restored. None of these depends on
`Budgets`: the theorem holds for every mixture of requests, also those the
run does not explore.

`AccountComponentsAreSafe`, in `SignInProofs`, joins the two proof modules: a behaviour
of `AccountsSpec` is one of each component, so `AccountsTypeOK` and the four safety
properties hold in it.

No safety property of these four modules is left to the model checker alone.
`CHECK_DEADLOCK` is off in these runs, as every component stops when its bounds
are used up.

## 8. Not modelled

Every component with status `not_modelled` in `PROJECT.json`, with the reason,
and what the notes of the others name. Two things are left out on purpose
although they can go wrong: the pool of one connection under SQLite, in which a
handler that queries while its rows are open waits for itself
(`personal_handlers.go:1459`), and the order of times as text.
