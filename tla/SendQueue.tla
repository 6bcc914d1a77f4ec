----------------------------- MODULE SendQueue -----------------------------
(***************************************************************************)
(* The persistent outbound queue: table send_queue, the marker files       *)
(* under DataDir/send_queue_delivered, the worker every API process runs   *)
(* (recovery of stale rows, then claims, at most Concurrency SMTP sessions *)
(* at a time), and the handlers that enqueue, retry, cancel and prune.     *)
(*                                                                         *)
(* A process is one API server; the database and DataDir are shared.  An   *)
(* item is one row id.  Every SQL statement is one atomic step; a Go       *)
(* function that issues several statements, or touches the disk between    *)
(* them, is several steps.                                                 *)
(*                                                                         *)
(* Time is abstract: a lease is live or has run out, a retry time is due   *)
(* or not, and LeaseExpires / BecomesDue let it pass.                      *)
(***************************************************************************)
EXTENDS Naturals, FiniteSets

CONSTANTS
  Process,      \* API processes, each with its send queue worker
  Item,         \* send_queue row ids
  Token,        \* lease tokens (newID("lease"))
  NoToken,      \* lease_token = ''
  MaxAttempts,  \* send_queue.max_attempts, 5 in the schema
  BatchLimit,   \* LIMIT 20 of the two worker queries
  Concurrency,  \* sendQueueConcurrency
  LeaseOutlivesWorker,
                \* TRUE: no attempt outstays its lease (a dial is cut off after
                \* 10s, a session after 45s, the lease lasts 15 minutes), and
                \* no marker clean-up stalls for the length of a lease
  LongDowntime, \* TRUE: the service may be down for the 30 days of retention
  MaxFaults,    \* bound: crashes and failing statements or file operations
  MaxRetries,   \* bound: retries requested by users and administrators
  MaxRearms     \* bound: times a finished row is re-armed with new content

ASSUME BoundsAssumption ==
  /\ MaxAttempts \in Nat \ {0}
  /\ {BatchLimit, Concurrency} \subseteq Nat \ {0}
  /\ {MaxFaults, MaxRetries, MaxRearms} \subseteq Nat

ASSUME ConstantsAssumption ==
  /\ NoToken \notin Token
  /\ {LeaseOutlivesWorker, LongDowntime} \subseteq BOOLEAN

VARIABLES
  row,       \* the database rows
  marker,    \* items with a delivered marker on disk
  phase,     \* per process: is its tick recovering stale rows or claiming?
  job,       \* per process and item: what the tick is doing with the item
  handler,   \* per process and item: the request handler under way
  accepted,  \* history: SMTP acceptances per item and content version (0, 1, 2+)
  doubt,     \* history: accepted versions whose proof of acceptance got lost
  orphan,    \* history: items whose marker outlived the entry it belonged to
  faults, retries   \* bound counters

vars == <<row, marker, phase, job, handler, accepted, doubt, orphan,
          faults, retries>>
history == <<accepted, doubt, orphan>>
bounds  == <<faults, retries>>

-----------------------------------------------------------------------------
(* Types *)

\* gone: dropped by the retention sweep; removed: gone with its mailbox.
Status   == {"none", "queued", "sending", "delivered", "failed", "canceled", "gone",
             "removed"}
Finished == {"delivered", "failed", "canceled"}
Version  == 1 .. (MaxRearms + 1)

\* due: next_attempt_at <= now; live: lease_until > now.
Row == [status : Status, attempts : Nat, version : Version,
        token : Token \cup {NoToken}, live : BOOLEAN, due : BOOLEAN]

\* pc of a job: "stale".."recClean" is recoverStaleSendQueueItems,
\* "listed".."failing" is processSendQueueItem.
RecoveryPC == {"stale", "requeue", "recDeliver", "recClean"}
AttemptPC  == {"smtp", "accepted", "deliver", "failing"}
PC         == RecoveryPC \cup AttemptPC \cup {"idle", "listed", "clean"}
Job        == [pc : PC, token : Token \cup {NoToken}, version : Version]
IdleJob    == [pc |-> "idle", token |-> NoToken, version |-> 1]

\* A handler remembers the status enqueueSend read, or still has to remove a marker.
Handler == Finished \cup {"none", "clean"}

TypeOK ==
  /\ row \in [Item -> Row]
  /\ marker \subseteq Item
  /\ phase \in [Process -> {"recovery", "claims"}]
  /\ job \in [Process -> [Item -> Job]]
  /\ handler \in [Process -> [Item -> Handler]]
  /\ accepted \in [Item -> [Version -> 0 .. 2]]
  /\ doubt \subseteq Item \X Version
  /\ orphan \subseteq Item
  /\ faults \in 0 .. MaxFaults
  /\ retries \in 0 .. MaxRetries

-----------------------------------------------------------------------------
(* Helpers *)

Idle(p) == \A i \in Item : job[p][i].pc = "idle"

\* The tokens newID may return: none that a row or a process still remembers.
FreshToken == Token \ ({row[i].token : i \in Item}
                       \cup {job[p][i].token : p \in Process, i \in Item})

\* A query with LIMIT BatchLimit over the rows in S.
Batch(S) == {B \in SUBSET S : IF Cardinality(S) <= BatchLimit
                                THEN B = S
                                ELSE Cardinality(B) = BatchLimit}

Retryable(r) == r.status = "queued" \/ (r.status = "failed" /\ r.attempts < MaxAttempts)
\* Mutants of Stale: the attempt count forgotten, and off by one.
StaleForgetsCount(r) == r.status = "sending" /\ ~r.live
StaleOffByOne(r)     == r.status = "sending" /\ ~r.live /\ r.attempts + 1 < MaxAttempts
Stale(r)     == r.status = "sending" /\ ~r.live /\ r.attempts < MaxAttempts
Claimable(r) == Retryable(r) /\ r.due /\ ~r.live

\* Mutant: the update is keyed by id and status only.
OwnsWithoutToken(p, i) == row[i].status = "sending"

\* WHERE id=? AND status='sending' AND lease_token=?
Owns(p, i) == row[i].status = "sending" /\ row[i].token = job[p][i].token

\* The row is updated, its marker not yet removed.
CleaningUp(p, i) == job[p][i].pc \in {"clean", "recClean"} \/ handler[p][i] = "clean"

\* A row that left "sending" or was re-armed: lease columns cleared.
Released(r, status) == [r EXCEPT !.status = status, !.token = NoToken, !.live = FALSE]
Restarted(r)        == [Released(r, "queued") EXCEPT !.attempts = 0, !.due = TRUE]

Rearmed(r)          == [Restarted(r) EXCEPT !.version = @ + 1]
Claimed(r, t)       == [r EXCEPT !.status = "sending", !.attempts = @ + 1,
                                 !.token = t, !.live = TRUE]

Accept(i, v) == accepted' = [accepted EXCEPT ![i][v] = IF @ = 2 THEN 2 ELSE @ + 1]

Goto(p, i, pc) == job' = [job EXCEPT ![p][i].pc = pc]
Done(p, i)     == job' = [job EXCEPT ![p][i] = IdleJob]

Fault == faults < MaxFaults /\ faults' = faults + 1

\* deleteSendQueueDeliveredMarker.  Removing the marker of an attempt that is
\* still open takes away the only proof that its mail went out.
RemoveMarker(i) ==
  /\ marker' = marker \ {i}
  /\ doubt' = IF i \in marker /\ row[i].status = "sending"
                THEN doubt \cup {<<i, row[i].version>>} ELSE doubt

-----------------------------------------------------------------------------
(* processDueSendQueue, part one: recoverStaleSendQueueItems *)

StartTick(p) ==
  /\ phase[p] = "claims" /\ Idle(p)
  /\ phase' = [phase EXCEPT ![p] = "recovery"]
  /\ \E B \in Batch({i \in Item : Stale(row[i])}) :
       job' = [job EXCEPT ![p] = [i \in Item |->
                 IF i \in B
                   THEN [pc |-> "stale", token |-> row[i].token, version |-> row[i].version]
                   ELSE IdleJob]]
  /\ UNCHANGED <<row, marker, handler, history, bounds>>

\* Mutant: the recovery does not look for a delivered marker.
RecoverCheckBlind(p, i) ==
  /\ job[p][i].pc = "stale"
  /\ Goto(p, i, "requeue")
  /\ UNCHANGED <<row, marker, phase, handler, history, bounds>>

\* The snapshot is worked off one row at a time; the marker is looked at first.
RecoverCheck(p, i) ==
  /\ job[p][i].pc = "stale"
  /\ \A j \in Item : job[p][j].pc \in {"idle", "stale"}
  /\ Goto(p, i, IF i \in marker THEN "recDeliver" ELSE "requeue")
  /\ UNCHANGED <<row, marker, phase, handler, history, bounds>>

RecoverRequeue(p, i) ==
  /\ job[p][i].pc = "requeue"
  /\ row' = IF Owns(p, i)
              THEN [row EXCEPT ![i] = [Released(@, "queued") EXCEPT !.due = TRUE]]
              ELSE row
  /\ Done(p, i)
  /\ UNCHANGED <<marker, phase, handler, history, bounds>>

\* An error inside the recovery, also the sql.ErrNoRows of a mark that came
\* too late, ends the whole tick: nothing is claimed before the next one.
AbortTick(p) ==
  /\ job' = [job EXCEPT ![p] = [i \in Item |-> IdleJob]]
  /\ phase' = [phase EXCEPT ![p] = "claims"]

RecoverDeliver(p, i) ==
  /\ job[p][i].pc = "recDeliver"
  /\ \/ /\ Owns(p, i)
        /\ row' = [row EXCEPT ![i] = Released(@, "delivered")]
        /\ Goto(p, i, "recClean")
        /\ UNCHANGED phase
     \/ /\ ~Owns(p, i)
        /\ AbortTick(p)
        /\ UNCHANGED row
  /\ UNCHANGED <<marker, handler, history, bounds>>

-----------------------------------------------------------------------------
(* processDueSendQueue, part two: claim, send, record *)

ListDue(p) ==
  /\ phase[p] = "recovery" /\ Idle(p)
  /\ phase' = [phase EXCEPT ![p] = "claims"]
  /\ \E B \in Batch({i \in Item : Retryable(row[i]) /\ row[i].due}) :
       job' = [job EXCEPT ![p] = [i \in Item |->
                 IF i \in B THEN [IdleJob EXCEPT !.pc = "listed"] ELSE IdleJob]]
  /\ UNCHANGED <<row, marker, handler, history, bounds>>

Claim(p, i) ==
  /\ job[p][i].pc = "listed"
  /\ Cardinality({j \in Item : job[p][j].pc \in AttemptPC \cup {"clean"}}) < Concurrency
  /\ IF Claimable(row[i])
       THEN \E t \in FreshToken :
              /\ row' = [row EXCEPT ![i] = Claimed(@, t)]
              /\ job' = [job EXCEPT ![p][i] =
                   [pc |-> "smtp", token |-> t, version |-> row[i].version]]
       ELSE Done(p, i) /\ UNCHANGED row
  /\ UNCHANGED <<marker, phase, handler, history, bounds>>

\* Mutant: the error of sendSMTP is lost.
SmtpRejectIgnored(p, i) ==
  /\ job[p][i].pc = "smtp"
  /\ Goto(p, i, "accepted")
  /\ UNCHANGED <<row, marker, phase, handler, history, bounds>>

\* sendSMTP fails and the server has not taken the message.
SmtpReject(p, i) ==
  /\ job[p][i].pc = "smtp"
  /\ Goto(p, i, "failing")
  /\ UNCHANGED <<row, marker, phase, handler, history, bounds>>

\* The server takes the message at the end of DATA.  sendSMTPMessage still
\* fails if the QUIT that follows does: mail sent, error returned.
SmtpAccept(p, i) ==
  /\ job[p][i].pc = "smtp"
  /\ Accept(i, job[p][i].version)
  /\ \/ Goto(p, i, "accepted") /\ UNCHANGED doubt
     \/ Goto(p, i, "failing") /\ doubt' = doubt \cup {<<i, job[p][i].version>>}
  /\ UNCHANGED <<row, marker, phase, handler, orphan, bounds>>

\* A marker that cannot be written is only logged.
WriteMarker(p, i) ==
  /\ job[p][i].pc = "accepted"
  /\ Goto(p, i, "deliver")
  /\ \/ marker' = marker \cup {i} /\ UNCHANGED <<doubt, faults>>
     \/ Fault /\ doubt' = doubt \cup {<<i, job[p][i].version>>} /\ UNCHANGED marker
  /\ UNCHANGED <<row, phase, handler, accepted, orphan, retries>>

MarkDelivered(p, i) ==
  /\ job[p][i].pc = "deliver"
  /\ IF Owns(p, i)
       THEN row' = [row EXCEPT ![i] = Released(@, "delivered")] /\ Goto(p, i, "clean")
       ELSE Done(p, i) /\ UNCHANGED row
  /\ UNCHANGED <<marker, phase, handler, history, bounds>>

\* The tail of markSendQueueDelivered; a removal that fails is only logged.
CleanMarker(p, i) ==
  /\ job[p][i].pc \in {"clean", "recClean"}
  /\ Done(p, i)
  /\ \/ RemoveMarker(i) /\ UNCHANGED <<orphan, faults>>
     \/ /\ i \in marker /\ Fault
        /\ orphan' = orphan \cup {i}
        /\ UNCHANGED <<marker, doubt>>
  /\ UNCHANGED <<row, phase, handler, accepted, retries>>

MarkFailed(p, i) ==
  /\ job[p][i].pc = "failing"
  /\ row' = IF Owns(p, i)
              THEN [row EXCEPT ![i] = [Released(@, "failed") EXCEPT !.due = FALSE]]
              ELSE row
  /\ Done(p, i)
  /\ UNCHANGED <<marker, phase, handler, history, bounds>>

-----------------------------------------------------------------------------
(* Request handlers and the retention sweep *)

EnqueueInsert(i) ==
  /\ row[i].status = "none"
  /\ row' = [row EXCEPT ![i] = Restarted(@)]
  /\ UNCHANGED <<marker, phase, job, handler, history, bounds>>

\* enqueueSend found a row with its mailbox, source and message id, and that
\* row is finished.  (An unfinished one is returned as it is.)
EnqueueRead(p, i) ==
  /\ handler[p][i] = "none"
  /\ row[i].status \in Finished
  /\ row[i].status = "failed" => row[i].attempts >= MaxAttempts
  /\ row[i].version <= MaxRearms
  /\ handler' = [handler EXCEPT ![p][i] = row[i].status]
  /\ UNCHANGED <<row, marker, phase, job, history, bounds>>

\* Mutant: the UPDATE is keyed by id only.
EnqueueRearmUnguarded(p, i) ==
  /\ handler[p][i] \in Finished /\ row[i].version <= MaxRearms
  /\ row' = [row EXCEPT ![i] = Rearmed(@)]
  /\ handler' = [handler EXCEPT ![p][i] = "clean"]
  /\ UNCHANGED <<marker, phase, job, history, bounds>>

\* UPDATE ... WHERE id=? AND status=<the status read>; whether it hit a row
\* is not looked at.  New recipients and content: a new version.
EnqueueRearm(p, i) ==
  /\ handler[p][i] \in Finished
  /\ row[i].status = handler[p][i] => row[i].version <= MaxRearms
  /\ row' = IF row[i].status = handler[p][i]
              THEN [row EXCEPT ![i] = Rearmed(@)]
              ELSE row
  /\ handler' = [handler EXCEPT ![p][i] = "clean"]
  /\ UNCHANGED <<marker, phase, job, history, bounds>>

\* The deleteSendQueueDeliveredMarker that ends enqueueSend, a user's retry
\* and a user's cancel.
HandlerClean(p, i) ==
  /\ handler[p][i] = "clean"
  /\ handler' = [handler EXCEPT ![p][i] = "none"]
  /\ \/ RemoveMarker(i) /\ UNCHANGED <<orphan, faults>>
     \/ /\ i \in marker /\ Fault
        /\ orphan' = orphan \cup {i}
        /\ UNCHANGED <<marker, doubt>>
  /\ UNCHANGED <<row, phase, job, accepted, retries>>

Retry == retries < MaxRetries /\ retries' = retries + 1

\* Mutant: anything that is not under way may be retried.
UserRetryAnyFinished(p, i) ==
  /\ handler[p][i] = "none"
  /\ row[i].status \in Finished
  /\ Retry
  /\ row' = [row EXCEPT ![i] = [@ EXCEPT !.status = "queued", !.attempts = 0, !.due = TRUE]]
  /\ handler' = [handler EXCEPT ![p][i] = "clean"]
  /\ UNCHANGED <<marker, phase, job, history, faults>>

UserRetry(p, i) ==
  /\ handler[p][i] = "none"
  /\ row[i].status = "failed"
  /\ Retry
  /\ row' = [row EXCEPT ![i] = [@ EXCEPT !.status = "queued", !.attempts = 0, !.due = TRUE]]
  /\ handler' = [handler EXCEPT ![p][i] = "clean"]
  /\ UNCHANGED <<marker, phase, job, history, faults>>

\* Mutant: an attempt under way may be canceled.
UserCancelSending(p, i) ==
  /\ handler[p][i] = "none"
  /\ row[i].status \in {"queued", "failed", "sending"}
  /\ row' = [row EXCEPT ![i].status = "canceled"]
  /\ handler' = [handler EXCEPT ![p][i] = "clean"]
  /\ UNCHANGED <<marker, phase, job, history, bounds>>

UserCancel(p, i) ==
  /\ handler[p][i] = "none"
  /\ row[i].status \in {"queued", "failed"}
  /\ row' = [row EXCEPT ![i].status = "canceled"]
  /\ handler' = [handler EXCEPT ![p][i] = "clean"]
  /\ UNCHANGED <<marker, phase, job, history, bounds>>

\* An administrator's retry and cancel respect the lease and leave the marker
\* alone.  (delivered_at IS NULL holds of every queued and failed row.)
AdminRetry(i) ==
  /\ row[i].status = "failed" /\ ~row[i].live
  /\ Retry
  /\ row' = [row EXCEPT ![i] = Restarted(@)]
  /\ UNCHANGED <<marker, phase, job, handler, history, faults>>

\* Mutant: the spelling of scheduled_sends.
AdminCancelMisspelt(i) ==
  /\ row[i].status \in {"queued", "failed"} /\ ~row[i].live
  /\ row' = [row EXCEPT ![i] = Released(@, "cancelled")]
  /\ UNCHANGED <<marker, phase, job, handler, history, bounds>>

AdminCancel(i) ==
  /\ row[i].status \in {"queued", "failed"} /\ ~row[i].live
  /\ row' = [row EXCEPT ![i] = Released(@, "canceled")]
  /\ UNCHANGED <<marker, phase, job, handler, history, bounds>>

\* cleanupExpiredRows, 30 days after the last update.  A failed row with
\* attempts left gets that old only if no worker ran: retries are hours apart.
Prune(i) ==
  /\ row[i].status \in Finished
  /\ Retryable(row[i]) => LongDowntime /\ row[i].due
  /\ row' = [row EXCEPT ![i].status = "gone"]
  /\ UNCHANGED <<marker, phase, job, handler, history, bounds>>

\* A mailbox is deleted, or the user who owns several: the foreign keys of
\* send_queue take every row of theirs along, S, whatever its status.  Markers
\* stay on the disk and a worker that is sending a row is not told.
RemoveMailbox(S) ==
  /\ S \subseteq {i \in Item : row[i].status \notin {"none", "gone", "removed"}}
  /\ row' = [i \in Item |-> IF i \in S THEN Released(row[i], "removed") ELSE row[i]]
  /\ UNCHANGED <<marker, phase, job, handler, history, bounds>>

-----------------------------------------------------------------------------
(* Time and faults *)

LeaseExpires(i) ==
  /\ row[i].live
  /\ LeaseOutlivesWorker =>
       \A p \in Process : /\ ~(job[p][i].pc \in AttemptPC /\ Owns(p, i))
                          /\ ~CleaningUp(p, i)
  /\ row' = [row EXCEPT ![i].live = FALSE]
  /\ UNCHANGED <<marker, phase, job, handler, history, bounds>>

\* The retry delay passes.  (After the last attempt it is a year.)
BecomesDue(i) ==
  /\ row[i].status = "failed" /\ row[i].attempts < MaxAttempts /\ ~row[i].due
  /\ row' = [row EXCEPT ![i].due = TRUE]
  /\ UNCHANGED <<marker, phase, job, handler, history, bounds>>

\* The process stops, for a deployment or by a crash, and starts again: rows
\* and markers survive, everything it was doing is gone.
Crash(p) ==
  /\ Fault
  /\ AbortTick(p)
  /\ handler' = [handler EXCEPT ![p] = [i \in Item |-> "none"]]
  /\ doubt' = doubt \cup {<<i, job[p][i].version>> :
                            i \in {j \in Item : job[p][j].pc = "accepted"}}
  /\ orphan' = orphan \cup {i \in marker : CleaningUp(p, i)}
  /\ UNCHANGED <<row, marker, accepted, retries>>

\* A statement of a job fails: the SELECT after a claim, or the UPDATE that
\* would record the outcome.  The goroutine logs the error and ends.
StatementFails(p, i) ==
  /\ Fault
  /\ \/ job[p][i].pc \in {"smtp", "deliver", "failing"} /\ Done(p, i) /\ UNCHANGED phase
     \/ job[p][i].pc \in {"stale", "requeue", "recDeliver"} /\ AbortTick(p)
  /\ UNCHANGED <<row, marker, handler, history, retries>>

-----------------------------------------------------------------------------
(* Specification *)

NewRow == [status |-> "none", attempts |-> 0, version |-> 1,
           token |-> NoToken, live |-> FALSE, due |-> FALSE]

Init ==
  /\ row = [i \in Item |-> NewRow]
  /\ marker = {}
  /\ phase = [p \in Process |-> "claims"]
  /\ job = [p \in Process |-> [i \in Item |-> IdleJob]]
  /\ handler = [p \in Process |-> [i \in Item |-> "none"]]
  /\ accepted = [i \in Item |-> [v \in Version |-> 0]]
  /\ doubt = {} /\ orphan = {}
  /\ faults = 0 /\ retries = 0

JobStep(p, i) ==
  \/ RecoverCheck(p, i) \/ RecoverRequeue(p, i) \/ RecoverDeliver(p, i)
  \/ Claim(p, i) \/ SmtpReject(p, i) \/ SmtpAccept(p, i)
  \/ WriteMarker(p, i) \/ MarkDelivered(p, i) \/ CleanMarker(p, i) \/ MarkFailed(p, i)

Worker(p) == StartTick(p) \/ ListDue(p) \/ \E i \in Item : JobStep(p, i)

Handling(p) == \E i \in Item : EnqueueRearm(p, i) \/ HandlerClean(p, i)

Request(p, i) == EnqueueRead(p, i) \/ UserRetry(p, i) \/ UserCancel(p, i)

ItemStep(i) ==
  \/ EnqueueInsert(i) \/ AdminRetry(i) \/ AdminCancel(i) \/ Prune(i)
  \/ LeaseExpires(i) \/ BecomesDue(i)

Next ==
  \/ \E p \in Process : Worker(p) \/ Handling(p) \/ Crash(p)
  \/ \E p \in Process, i \in Item : Request(p, i) \/ StatementFails(p, i)
  \/ \E i \in Item : ItemStep(i)
  \/ \E S \in SUBSET Item : RemoveMailbox(S)

\* The worker loop ticks every 10 seconds, a handler runs to its end, and
\* time passes.  Nobody has to enqueue, retry, cancel, prune, delete or crash.
Fairness ==
  /\ \A p \in Process : WF_vars(Worker(p)) /\ WF_vars(Handling(p))
  /\ \A i \in Item : WF_vars(LeaseExpires(i)) /\ WF_vars(BecomesDue(i))

Spec     == Init /\ [][Next]_vars
FairSpec == Spec /\ Fairness

-----------------------------------------------------------------------------
(* Properties *)

\* What the columns promise each other, which the guards of claim, recovery
\* and the handlers rely on: exactly the rows being sent carry a token, only
\* they can be under lease, and a queued row always has an attempt left, for
\* claimSendQueueItem does not look at the attempt count of a queued row.
RowOK(r) ==
  /\ r.token # NoToken <=> r.status = "sending"
  /\ r.live => r.status = "sending"
  /\ r.attempts <= MaxAttempts
  /\ r.status = "queued" => r.attempts < MaxAttempts
  /\ r.status = "sending" => r.attempts > 0

RowsConsistent == \A i \in Item : RowOK(row[i])

\* While leases outlive workers, an attempt under way owns its row: nobody
\* else is sending the item, and it is not canceled, delivered, failed or
\* pruned behind the attempt's back.  (claim, recovery, cancel, retry,
\* re-arm, retention against a worker between its SMTP session and its mark.)
\* Only the deletion of the mailbox takes the row away from under it.
LiveAttemptOwnsRow ==
  LeaseOutlivesWorker =>
    \A p \in Process, i \in Item :
      job[p][i].pc \in AttemptPC /\ row[i].status # "removed" => Owns(p, i) /\ row[i].live

\* A finished entry is only reopened with new content: no overtaken worker,
\* late recovery or repeated click brings a canceled or delivered mail back.
FinishedReopensOnlyWithNewContent ==
  [][\A i \in Item :
       /\ row[i].status \in {"delivered", "canceled"}
       /\ row'[i].status \notin {"delivered", "canceled", "gone", "removed"}
       => row'[i].version = row[i].version + 1]_vars

\* The same content goes out twice only if the proof of the first acceptance
\* was lost: QUIT failed after DATA, the process stopped before it wrote the
\* marker, the marker could not be written, or somebody else's clean-up
\* removed it.  (recovery consults the marker before it queues a row again.)
DuplicateExplained ==
  LeaseOutlivesWorker =>
    \A i \in Item, v \in Version : accepted[i][v] = 2 => <<i, v>> \in doubt

\* A row reads delivered only if the SMTP server took the content the row
\* holds, as long as no marker outlived its entry.
DeliveredMeansAccepted ==
  LeaseOutlivesWorker =>
    \A i \in Item : row[i].status = "delivered" /\ i \notin orphan
                     => accepted[i][row[i].version] > 0

\* docs/API.md: send.delivered means "upstream SMTP accepted".
DeliveredIsUpstreamAccepted ==
  \A i \in Item : row[i].status = "delivered" => accepted[i][row[i].version] > 0

\* A failure is only ever recorded by the attempt whose lease the row carries:
\* a worker that was overtaken cannot fail, or reopen, a newer attempt.
OnlyHolderRecordsFailure ==
  [][\A i \in Item :
       row[i].status = "sending" /\ row'[i].status = "failed"
       => \E p \in Process : /\ job[p][i].pc = "failing" /\ job'[p][i].pc = "idle"
                             /\ job[p][i].token = row[i].token]_vars

Settled(r) == r.status \in {"delivered", "canceled", "gone", "removed"}
              \/ (r.status = "failed" /\ r.attempts = MaxAttempts)

\* A row left in "sending" by its last attempt, which nobody works on: the
\* recovery skips it (attempt_count<max_attempts).
Stranded(i) ==
  /\ row[i].status = "sending" /\ row[i].attempts = MaxAttempts
  /\ \A p \in Process : ~(job[p][i].pc \in AttemptPC /\ Owns(p, i))

\* Every item handed to the queue is settled in the end, whatever crashes,
\* unless its last attempt was interrupted.
EventuallySettled ==
  \A i \in Item : row[i].status \in {"queued", "sending", "failed"}
                  ~> Settled(row[i]) \/ Stranded(i)

\* session.go: queued and sending items are still the worker's business.
SendingIsWorkersBusiness ==
  \A i \in Item : row[i].status = "sending" ~> row[i].status # "sending"
=============================================================================
