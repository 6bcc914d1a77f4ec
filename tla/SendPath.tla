------------------------------ MODULE SendPath ------------------------------
(***************************************************************************)
(* From a compose request or a scheduled send to the send queue: the claim *)
(* of a due item, the charge against the sender's allowance, the copy in   *)
(* Sent, its Maildir file, the entry of the send queue, and what is undone *)
(* when a step fails.  Beside the senders, the user cancels scheduled      *)
(* sends and deletes drafts and Sent copies.                               *)
(*                                                                         *)
(* One user with one mailbox and an SMTP host.  A compose request sends    *)
(* one mail; a worker is the scheduledSendWorker of one API process and    *)
(* sends one mail after the other.  Every statement or transaction is one  *)
(* step.  What the send queue does with an entry is SendQueue.             *)
(***************************************************************************)
EXTENDS Naturals, FiniteSets

CONSTANTS
  Worker,       \* API processes
  Sched,        \* mails to be scheduled
  Direct,       \* mails sent at once, each by a request of its own
  Drafted,      \* scheduled mails that were written as a draft
  Cost,         \* recipients of each mail
  DailyLimit,   \* recipients the user may send to in a day, 0 for no limit
  MinuteLimit,  \* mails the user may send in a minute, 0 for no limit
  NoMail,       \* an idle worker
  MaxFaults     \* bound: failing statements and interruptions

Mail   == Sched \cup Direct
Sender == Worker \cup Direct

ASSUME BoundsAssumption ==
  /\ {DailyLimit, MinuteLimit, MaxFaults} \subseteq Nat
  /\ Cost \in [Mail -> Nat \ {0}]

ASSUME ConstantsAssumption ==
  /\ Drafted \subseteq Sched
  /\ Sched \cap Direct = {} /\ Worker \cap Direct = {}
  /\ NoMail \notin Mail
  /\ IsFiniteSet(Mail)

VARIABLES
  sched,     \* the rows of scheduled_sends
  list,      \* the due items a tick has selected and not yet tried
  att,       \* what each sender is doing
  charge,    \* the rows of smtp_send_events, by their age
  sentRow,   \* mails with a row in the folder Sent
  sentFile,  \* mails with a file in the Maildir folder Sent
  sentPath,  \* rows whose raw_path names that file
  queued,    \* entries made in send_queue for each mail (0, 1, 2+)
  draft,     \* drafts that exist
  cancel,    \* the request that cancels a scheduled send
  calledOff, \* history: items canceled before any worker had claimed them
  removed,   \* history: mails whose Sent copy the user deleted
  discarded, \* history: scheduled mails whose draft the user deleted
  broken,    \* history: mails whose sender was interrupted or could not tell
  faults     \* bound counter

vars == <<sched, list, att, charge, sentRow, sentFile, sentPath, queued, draft,
          cancel, calledOff, removed, discarded, broken, faults>>
copy    == <<sentRow, sentFile, sentPath>>
history == <<calledOff, removed, discarded, broken>>

-----------------------------------------------------------------------------
(* Types *)

Status == {"none", "pending", "sending", "sent", "failed", "cancelled"}
Settled == {"sent", "failed", "cancelled"}
\* due: send_at <= now
Row == [status : Status, due : BOOLEAN]

\* "charge".."undo" is sendMailWithSource; "done" ends a request.
PC == {"idle", "check", "charge", "tx", "insert", "write", "path", "enqueue", "undo",
       "draft", "sent", "failed", "done"}
Att == [pc : PC, mail : Mail \cup {NoMail}]
IdleAtt == [pc |-> "idle", mail |-> NoMail]

\* "minute" and "day": created_at lies in the last minute, in the last day.
Age == {"none", "minute", "day", "over"}

AttOK ==
  /\ att \in [Sender -> Att]
  /\ \A w \in Worker : /\ att[w].pc # "done"
                       /\ IF att[w].pc = "idle" THEN att[w].mail = NoMail ELSE att[w].mail \in Sched
  /\ \A d \in Direct : /\ att[d].mail = d
                       /\ att[d].pc \notin {"check", "draft", "sent", "failed"}

TypeOK ==
  /\ sched \in [Sched -> Row]
  /\ list \in [Worker -> SUBSET Sched]
  /\ AttOK
  /\ charge \in [Mail -> Age]
  /\ sentRow \subseteq Mail /\ sentFile \subseteq Mail /\ sentPath \subseteq sentRow
  /\ queued \in [Mail -> 0 .. 2]
  /\ draft \subseteq Drafted
  /\ cancel \in [Sched -> {"idle", "read", "done"}]
  /\ calledOff \subseteq Sched /\ removed \subseteq Mail /\ discarded \subseteq Sched /\ broken \subseteq Mail
  /\ faults \in 0 .. MaxFaults

-----------------------------------------------------------------------------
(* Helpers *)

At(p, pc)   == att[p].pc = pc
Goto(p, pc) == att' = [att EXCEPT ![p].pc = pc]
Rest(p)     == att' = [att EXCEPT ![p] = IF p \in Worker THEN IdleAtt ELSE [@ EXCEPT !.pc = "done"]]

\* Where sendMailWithSource returns to.
Succeed(p) == Goto(p, IF p \in Worker THEN "draft" ELSE "done")
Fail(p)    == Goto(p, IF p \in Worker THEN "failed" ELSE "done")

Fault == faults < MaxFaults /\ faults' = faults + 1
Break(p) == broken' = broken \cup {att[p].mail}

SetStatus(s, status) == sched' = [sched EXCEPT ![s].status = status]

Due(s) == sched[s].status = "pending" /\ sched[s].due

\* SUM(recipient_count): how many recipients the mails of a set have together.
Recipients(mails) == UNION {{m} \X (1 .. Cost[m]) : m \in mails}

UsedInDay    == Cardinality(Recipients({m \in Mail : charge[m] \in {"minute", "day"}}))
UsedInMinute == Cardinality({m \in Mail : charge[m] = "minute"})

Unlimited == DailyLimit = 0 /\ MinuteLimit = 0
WithinLimits(m) ==
  /\ DailyLimit > 0 => UsedInDay + Cost[m] <= DailyLimit
  /\ MinuteLimit > 0 => UsedInMinute < MinuteLimit

\* Mutant: the transaction does not lock the row of the user.
UserNeverLocked == FALSE
UserLocked == \E p \in Sender : At(p, "tx")

Quiet(m) == \A p \in Sender : att[p].mail = m => att[p].pc \in {"idle", "done"}

-----------------------------------------------------------------------------
(* Scheduling and the tick of the worker *)

Schedule(s) ==
  /\ sched[s].status = "none"
  /\ s \in Drafted => s \in draft
  /\ SetStatus(s, "pending")
  /\ UNCHANGED <<list, att, charge, copy, queued, draft, cancel, history, faults>>

BecomesDue(s) ==
  /\ sched[s].status = "pending" /\ ~sched[s].due
  /\ sched' = [sched EXCEPT ![s].due = TRUE]
  /\ UNCHANGED <<list, att, charge, copy, queued, draft, cancel, history, faults>>

ListDue(w) ==
  /\ At(w, "idle") /\ list[w] = {}
  /\ \E s \in Sched : Due(s)
  /\ list' = [list EXCEPT ![w] = {s \in Sched : Due(s)}]
  /\ UNCHANGED <<sched, att, charge, copy, queued, draft, cancel, history, faults>>

\* Mutant: the claim trusts the list.
ClaimListed(w, s) ==
  /\ At(w, "idle") /\ s \in list[w]
  /\ list' = [list EXCEPT ![w] = @ \ {s}]
  /\ SetStatus(s, "sending")
  /\ att' = [att EXCEPT ![w] = [pc |-> "check", mail |-> s]]
  /\ UNCHANGED <<charge, copy, queued, draft, cancel, history, faults>>

\* Mutant: the draft is deleted as soon as its item is claimed.
ClaimDropsDraft(w, s) ==
  /\ At(w, "idle") /\ s \in list[w] /\ sched[s].status = "pending"
  /\ list' = [list EXCEPT ![w] = @ \ {s}]
  /\ SetStatus(s, "sending")
  /\ att' = [att EXCEPT ![w] = [pc |-> "check", mail |-> s]]
  /\ draft' = draft \ {s}
  /\ UNCHANGED <<charge, copy, queued, cancel, history, faults>>

\* UPDATE ... WHERE id=? AND status='pending': only one worker hits.
Claim(w, s) ==
  /\ At(w, "idle") /\ s \in list[w]
  /\ list' = [list EXCEPT ![w] = @ \ {s}]
  /\ IF sched[s].status = "pending"
       THEN /\ SetStatus(s, "sending")
            /\ att' = [att EXCEPT ![w] = [pc |-> "check", mail |-> s]]
       ELSE UNCHANGED <<sched, att>>
  /\ UNCHANGED <<charge, copy, queued, draft, cancel, history, faults>>

\* The claim fails; where only its reply is lost the item is left in "sending".
ClaimFails(w, s) ==
  /\ At(w, "idle") /\ s \in list[w] /\ Fault
  /\ list' = [list EXCEPT ![w] = @ \ {s}]
  /\ \/ UNCHANGED <<sched, broken>>
     \/ /\ sched[s].status = "pending"
        /\ SetStatus(s, "sending")
        /\ broken' = broken \cup {s}
  /\ UNCHANGED <<att, charge, copy, queued, draft, cancel, calledOff, removed, discarded>>

\* The mailbox is active and its user may still send.
Check(w) ==
  /\ At(w, "check")
  /\ Goto(w, "charge")
  /\ UNCHANGED <<sched, list, charge, copy, queued, draft, cancel, history, faults>>

\* The mailbox, a permission, the sender, the recipients or the message itself
\* is not accepted.  BuildMIME comes after the charge, which stays.
Refuse(p) ==
  /\ att[p].pc \in {"check", "charge", "insert"}
  /\ Fail(p)
  /\ UNCHANGED <<sched, list, charge, copy, queued, draft, cancel, history, faults>>

-----------------------------------------------------------------------------
(* sendMailWithSource *)

Compose(d) ==
  /\ At(d, "idle")
  /\ Goto(d, "charge")
  /\ UNCHANGED <<sched, list, charge, copy, queued, draft, cancel, history, faults>>

\* recordSMTPRate: lock the row of the user, then count.
BeginCharge(p) ==
  /\ At(p, "charge")
  /\ IF Unlimited THEN Goto(p, "insert")
     ELSE /\ ~UserLocked
          /\ IF WithinLimits(att[p].mail) THEN Goto(p, "tx") ELSE Fail(p)
  /\ UNCHANGED <<sched, list, charge, copy, queued, draft, cancel, history, faults>>

CommitCharge(p) ==
  /\ At(p, "tx")
  /\ charge' = [charge EXCEPT ![att[p].mail] = "minute"]
  /\ Goto(p, "insert")
  /\ UNCHANGED <<sched, list, copy, queued, draft, cancel, history, faults>>

InsertSent(p) ==
  /\ At(p, "insert")
  /\ sentRow' = sentRow \cup {att[p].mail}
  /\ Goto(p, "write")
  /\ UNCHANGED <<sched, list, charge, sentFile, sentPath, queued, draft, cancel, history, faults>>

\* An attachment cannot be stored, or the reply to the INSERT is lost: the files
\* of the attachments go, the row stays.
InsertPartly(p) ==
  /\ At(p, "insert") /\ Fault
  /\ sentRow' = sentRow \cup {att[p].mail}
  /\ Fail(p) /\ Break(p)
  /\ UNCHANGED <<sched, list, charge, sentFile, sentPath, queued, draft, cancel, calledOff, removed, discarded>>

\* The user may have deleted the row that is already visible.
WriteFile(p) ==
  LET m == att[p].mail IN
  /\ At(p, "write")
  /\ IF m \in sentRow
       THEN sentFile' = sentFile \cup {m} /\ Goto(p, "path")
       ELSE Goto(p, "undo") /\ UNCHANGED sentFile
  /\ UNCHANGED <<sched, list, charge, sentRow, sentPath, queued, draft, cancel, history, faults>>

\* UPDATE messages SET raw_path=?: no error if the row is gone.
WritePath(p) ==
  LET m == att[p].mail IN
  /\ At(p, "path")
  /\ sentPath' = IF m \in sentRow THEN sentPath \cup {m} ELSE sentPath
  /\ Goto(p, "enqueue")
  /\ UNCHANGED <<sched, list, charge, sentRow, sentFile, queued, draft, cancel, history, faults>>

Entered(m) == queued' = [queued EXCEPT ![m] = IF @ = 2 THEN 2 ELSE @ + 1]

\* enqueueSend with a fresh message id: always a new entry.
Enqueue(p) ==
  /\ At(p, "enqueue")
  /\ Entered(att[p].mail)
  /\ Succeed(p)
  /\ UNCHANGED <<sched, list, charge, copy, draft, cancel, history, faults>>

\* The entry was made but its statement, or the read that follows, failed.
EnqueueUnknown(p) ==
  /\ At(p, "enqueue") /\ Fault
  /\ Entered(att[p].mail)
  /\ Goto(p, "undo") /\ Break(p)
  /\ UNCHANGED <<sched, list, charge, copy, draft, cancel, calledOff, removed, discarded>>

\* deleteMessage: the file raw_path names, the attachments, the row.
Deleted(m) ==
  /\ sentFile' = IF m \in sentPath THEN sentFile \ {m} ELSE sentFile
  /\ sentRow' = sentRow \ {m} /\ sentPath' = sentPath \ {m}

\* Mutant: the error is returned, the copy forgotten.
UndoForgotten(p) ==
  /\ At(p, "undo")
  /\ Fail(p)
  /\ UNCHANGED <<sched, list, charge, copy, queued, draft, cancel, history, faults>>

Undo(p) ==
  /\ At(p, "undo")
  /\ Deleted(att[p].mail)
  /\ Fail(p)
  /\ UNCHANGED <<sched, list, charge, queued, draft, cancel, history, faults>>

-----------------------------------------------------------------------------
(* The end of processScheduledSend *)

DeleteDraft(w) ==
  /\ At(w, "draft")
  /\ draft' = draft \ {att[w].mail}
  /\ Goto(w, "sent")
  /\ UNCHANGED <<sched, list, charge, copy, queued, cancel, history, faults>>

MarkSent(w) ==
  /\ At(w, "sent")
  /\ SetStatus(att[w].mail, "sent")
  /\ Rest(w)
  /\ UNCHANGED <<list, charge, copy, queued, draft, cancel, history, faults>>

\* Mutant: the error is logged, the row left as it is.
MarkFailedForgotten(w) ==
  /\ At(w, "failed")
  /\ Rest(w)
  /\ UNCHANGED <<sched, list, charge, copy, queued, draft, cancel, history, faults>>

MarkFailed(w) ==
  /\ At(w, "failed")
  /\ SetStatus(att[w].mail, "failed")
  /\ Rest(w)
  /\ UNCHANGED <<list, charge, copy, queued, draft, cancel, history, faults>>

-----------------------------------------------------------------------------
(* The user *)

\* handleCancelScheduledSend reads the status, and does not repeat it in the UPDATE.
CancelRead(s) ==
  /\ cancel[s] = "idle"
  /\ sched[s].status \in {"pending", "failed"}
  /\ cancel' = [cancel EXCEPT ![s] = "read"]
  /\ UNCHANGED <<sched, list, att, charge, copy, queued, draft, history, faults>>

\* Mutant: a spelling no query looks for.
CancelWriteMisspelt(s) ==
  /\ cancel[s] = "read"
  /\ SetStatus(s, "canceled")
  /\ calledOff' = IF sched[s].status = "pending" THEN calledOff \cup {s} ELSE calledOff
  /\ cancel' = [cancel EXCEPT ![s] = "done"]
  /\ UNCHANGED <<list, att, charge, copy, queued, draft, removed, discarded, broken, faults>>

CancelWrite(s) ==
  /\ cancel[s] = "read"
  /\ SetStatus(s, "cancelled")
  /\ calledOff' = IF sched[s].status = "pending" THEN calledOff \cup {s} ELSE calledOff
  /\ cancel' = [cancel EXCEPT ![s] = "done"]
  /\ UNCHANGED <<list, att, charge, copy, queued, draft, removed, discarded, broken, faults>>

UserDeletesSent(m) ==
  /\ m \in sentRow
  /\ Deleted(m)
  /\ removed' = removed \cup {m}
  /\ UNCHANGED <<sched, list, att, charge, queued, draft, cancel, calledOff, discarded, broken, faults>>

UserDeletesDraft(s) ==
  /\ s \in draft
  /\ draft' = draft \ {s}
  /\ discarded' = discarded \cup {s}
  /\ UNCHANGED <<sched, list, att, charge, copy, queued, cancel, calledOff, removed, broken, faults>>

-----------------------------------------------------------------------------
(* Time and faults *)

\* A charge leaves the window of a minute, then that of a day.
ChargeAges(m) ==
  /\ charge[m] \in {"minute", "day"}
  /\ charge' = [charge EXCEPT ![m] = IF @ = "minute" THEN "day" ELSE "over"]
  /\ UNCHANGED <<sched, list, att, copy, queued, draft, cancel, history, faults>>

\* Mutant: an entry that could not be made counts as made.
FailsUnnoticed(p) ==
  /\ att[p].pc \in {"check", "charge", "tx", "insert", "write", "enqueue"}
  /\ Fault
  /\ CASE att[p].pc = "enqueue" -> Succeed(p)
       [] att[p].pc = "write"   -> Goto(p, "undo")
       [] OTHER                 -> Fail(p)
  /\ UNCHANGED <<sched, list, charge, copy, queued, draft, cancel, history>>

\* A statement or file operation fails and its transaction is rolled back.
Fails(p) ==
  /\ att[p].pc \in {"check", "charge", "tx", "insert", "write", "enqueue"}
  /\ Fault
  /\ IF att[p].pc \in {"write", "enqueue"} THEN Goto(p, "undo") ELSE Fail(p)
  /\ UNCHANGED <<sched, list, charge, copy, queued, draft, cancel, history>>

\* A deletion or the last UPDATE fails: that is only logged.  Without raw_path
\* the undoing does not find the file.
FailsQuietly(p) ==
  /\ att[p].pc \in {"path", "undo", "draft", "sent", "failed"}
  /\ Fault /\ Break(p)
  /\ CASE At(p, "path")  -> Goto(p, "undo")
       [] At(p, "undo")  -> Fail(p)
       [] At(p, "draft") -> Goto(p, "sent")
       [] OTHER          -> Rest(p)
  /\ UNCHANGED <<sched, list, charge, copy, queued, draft, cancel, calledOff, removed, discarded>>

\* The process stops, or the context of the request or of the workers ends:
\* no statement that would follow takes effect, those of the undoing included.
Interrupted(p) ==
  /\ att[p].pc \notin {"idle", "done"}
  /\ Fault /\ Break(p)
  /\ Rest(p)
  /\ list' = IF p \in Worker THEN [list EXCEPT ![p] = {}] ELSE list
  /\ UNCHANGED <<sched, charge, copy, queued, draft, cancel, calledOff, removed, discarded>>

-----------------------------------------------------------------------------
(* Specification *)

Init ==
  /\ sched = [s \in Sched |-> [status |-> "none", due |-> FALSE]]
  /\ list = [w \in Worker |-> {}]
  /\ att = [p \in Sender |-> IF p \in Worker THEN IdleAtt ELSE [pc |-> "idle", mail |-> p]]
  /\ charge = [m \in Mail |-> "none"]
  /\ sentRow = {} /\ sentFile = {} /\ sentPath = {}
  /\ queued = [m \in Mail |-> 0]
  /\ draft = Drafted
  /\ cancel = [s \in Sched |-> "idle"]
  /\ calledOff = {} /\ removed = {} /\ discarded = {} /\ broken = {}
  /\ faults = 0

Send(p) ==
  \/ BeginCharge(p) \/ CommitCharge(p) \/ InsertSent(p)
  \/ WriteFile(p) \/ WritePath(p) \/ Enqueue(p) \/ Undo(p)

Work(w) ==
  \/ ListDue(w) \/ Check(w) \/ DeleteDraft(w) \/ MarkSent(w) \/ MarkFailed(w)
  \/ \E s \in Sched : Claim(w, s)

Breaks(p) == InsertPartly(p) \/ EnqueueUnknown(p) \/ Fails(p) \/ FailsQuietly(p) \/ Interrupted(p)

Next ==
  \/ \E p \in Sender : Send(p) \/ Refuse(p) \/ Breaks(p)
  \/ \E w \in Worker : Work(w)
  \/ \E d \in Direct : Compose(d)
  \/ \E s \in Sched : \/ Schedule(s) \/ BecomesDue(s)
                      \/ CancelRead(s) \/ CancelWrite(s) \/ UserDeletesDraft(s)
                      \/ \E w \in Worker : ClaimFails(w, s)
  \/ \E m \in Mail : UserDeletesSent(m) \/ ChargeAges(m)

\* The worker looks for due items every thirty seconds, and a goroutine runs on.
Fairness == /\ \A w \in Worker : WF_vars(Work(w))
            /\ \A p \in Sender : WF_vars(Send(p))

Spec     == Init /\ [][Next]_vars
FairSpec == Spec /\ Fairness

-----------------------------------------------------------------------------
(* Properties *)

\* Senders at work at the same time never send to more recipients in a day than
\* their user may together.  (the lock lockUserQuotaRowTx takes before the events
\* are counted)
DayKept == DailyLimit > 0 => UsedInDay <= DailyLimit

\* Nor do they send more mails in a minute together, whichever of them counted first.
MinuteKept == MinuteLimit > 0 => UsedInMinute <= MinuteLimit

\* A mail enters the send queue at most once, whichever workers had its item
\* on their lists and wherever one was interrupted.
QueuedOnce == \A m \in Mail : queued[m] <= 1

\* An item canceled before a worker claimed it is not sent, though it may still
\* be on the list of a tick.
CalledOffStaysUnsent ==
  \A s \in calledOff : queued[s] = 0 /\ sched[s].status = "cancelled"

\* Unless its sender was interrupted or its copy deleted by the user, a mail
\* nobody is working on has a copy in Sent, with its file, exactly if it is in
\* the send queue: what a failed send had stored is gone.
SentMatchesQueue ==
  \A m \in Mail \ (broken \cup removed) : Quiet(m) =>
    /\ m \in sentRow <=> queued[m] = 1
    /\ m \in sentRow <=> m \in sentFile
    /\ m \in sentRow => m \in sentPath

\* What the list of scheduled sends shows is what happened: "sent" is in the
\* queue, "failed" is not and still has its draft.
StatusTellsOutcome ==
  \A s \in Sched \ broken : Quiet(s) =>
    /\ sched[s].status = "sent" => queued[s] = 1
    /\ sched[s].status = "failed" => queued[s] = 0 /\ (s \in Drafted \ discarded => s \in draft)

\* A draft only disappears with a mail that is in the queue, or by its user.
DraftGoesWithMail == \A s \in Drafted \ (draft \cup discarded) : queued[s] >= 1

\* A due item is sent, fails or is canceled in the end, unless the worker that
\* had claimed it was interrupted: nothing takes up an item in "sending".
DueItemsSettle ==
  \A s \in Sched : Due(s) ~> sched[s].status \in Settled \/ s \in broken

\* handleCancelScheduledSend refuses an item that "is not pending", and the
\* client reports the others as canceled: they were not sent.
CancelledIsUnsent == \A s \in Sched : sched[s].status = "cancelled" => queued[s] = 0
=============================================================================
