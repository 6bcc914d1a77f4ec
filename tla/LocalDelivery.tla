--------------------------- MODULE LocalDelivery ---------------------------
(***************************************************************************)
(* Delivery without an SMTP host: table local_delivery_jobs, the message   *)
(* rows and attachment directories the jobs create in one target mailbox,  *)
(* their Maildir files, and the inbound controls that run once a job is    *)
(* delivered.  Beside the workers, the owner of the mailbox may move or    *)
(* delete a message as soon as its row is visible.                         *)
(*                                                                         *)
(* A worker is one goroutine that runs processLocalDelivery: that of       *)
(* localDeliveryWorker or of a request (deliverLocalRecipients runs the    *)
(* jobs it created at once, under the context of the request).  A lease    *)
(* token stands for one attempt, and a worker makes one at a time, so the  *)
(* worker itself serves as its token.  Every statement, transaction or     *)
(* file operation is one step.  All messages have the same size.           *)
(***************************************************************************)
EXTENDS Naturals, FiniteSets

CONSTANTS
  Worker,      \* goroutines of any process
  Job,         \* jobs of one target mailbox
  Blocked,     \* those whose sender the mailbox blocks
  Nobody,      \* lease_token = ''
  NoJob,       \* an idle worker
  Quota,       \* messages the mailbox may hold, 0 for no limit
  MaxAttempts, \* attempts after which a failure is final, 8
  MaxFaults,   \* bound: interruptions, failing steps and overlong attempts
  MaxUserOps   \* bound: moves and deletions by the owner

ASSUME BoundsAssumption ==
  /\ MaxAttempts \in Nat \ {0}
  /\ {Quota, MaxFaults, MaxUserOps} \subseteq Nat

ASSUME ConstantsAssumption ==
  /\ Blocked \subseteq Job /\ IsFiniteSet(Job)
  /\ Nobody \notin Worker /\ NoJob \notin Job

VARIABLES
  row,       \* the jobs
  mail,      \* the message row of each job: folder and raw_path
  attached,  \* jobs whose message has its attachment directory
  files,     \* the Maildir files of each job's message
  att,       \* what each worker is doing
  owner,     \* what the owner of the mailbox is doing with each message
  copies,    \* history: message rows inserted for each job (0, 1, 2+)
  skipped,   \* history: delivered jobs whose controls were interrupted
  tangled,   \* history: messages two actors handled at once
  faults, userOps   \* bound counters

vars == <<row, mail, attached, files, att, owner, copies, skipped, tangled,
          faults, userOps>>
store   == <<mail, attached, files>>
history == <<copies, skipped, tangled>>
bounds  == <<faults, userOps>>

-----------------------------------------------------------------------------
(* Types *)

Status == {"none", "queued", "sending", "delivered", "failed", "gone"}
Folder == {"inbox", "archive", "spam"}

\* message: message_id <> ''; live: lease_until > now; due: next_attempt_at <= now.
Row == [status : Status, attempts : Nat, token : Worker \cup {Nobody},
        live : BOOLEAN, due : BOOLEAN, message : BOOLEAN]

\* A file is known by its folder and its name: the stable name "local-<id>",
\* or the fresh name any other write picks.
Stable == 0
Fresh  == 1
File   == Folder \X Nat
NoFile == <<"none", 0>>

\* folder "absent": there is no such message row.
Mail == [folder : Folder \cup {"absent"}, path : File \cup {NoFile}]

\* pc of an attempt; "claimed".."finish" is completeLocalDelivery.
PC  == {"idle", "claimed", "tx", "write", "file", "path", "finish", "failing",
        "controls", "spamFile", "spamRow"}
\* target: the file the attempt is about to write or to record.
Att == [pc : PC, job : Job \cup {NoJob}, target : File \cup {NoFile}]
IdleAtt == [pc |-> "idle", job |-> NoJob, target |-> NoFile]

\* The owner between the file and the row of a move or a deletion.
Owner == [pc : {"idle", "moving", "deleting"}, target : File \cup {NoFile}]
Resting == [pc |-> "idle", target |-> NoFile]

AttOK ==
  /\ att \in [Worker -> Att]
  /\ \A w \in Worker : att[w].pc = "idle" <=> att[w].job = NoJob
  /\ \A w \in Worker : att[w].pc \in {"file", "path", "spamRow"} => att[w].target \in File

OwnerOK ==
  /\ owner \in [Job -> Owner]
  /\ \A j \in Job : owner[j].pc = "moving" => owner[j].target \in File

TypeOK ==
  /\ row \in [Job -> Row]
  /\ mail \in [Job -> Mail]
  /\ attached \subseteq Job
  /\ files \in [Job -> SUBSET File]
  /\ AttOK /\ OwnerOK
  /\ copies \in [Job -> 0 .. 2]
  /\ skipped \subseteq Job /\ tangled \subseteq Job
  /\ faults \in 0 .. MaxFaults
  /\ userOps \in 0 .. MaxUserOps

-----------------------------------------------------------------------------
(* Helpers *)

At(w, pc)   == att[w].pc = pc
Goto(w, pc) == att' = [att EXCEPT ![w].pc = pc]
Done(w)     == att' = [att EXCEPT ![w] = IdleAtt]

\* WHERE id=? AND lease_token=?
Owns(w) == row[att[w].job].token = w

Fault == faults < MaxFaults /\ faults' = faults + 1

Stored(j) == mail[j].folder # "absent"
Used      == Cardinality({j \in Job : Stored(j)})

\* ensureMailboxQuotaAvailable: quota_mb <= 0 means no limit.
HasRoom == Quota = 0 \/ Used + 1 <= Quota

\* Row locks: an open transaction keeps its job and the mailbox row locked.
JobLocked(j)  == \E w \in Worker : att[w].job = j /\ At(w, "tx")

\* Mutant: the transaction does not touch the mailbox row.
MailboxNeverLocked == FALSE
MailboxLocked == \E w \in Worker : At(w, "tx")

\* Mutant: an attempt that nobody finished is not taken up again.
ClaimableQueuedOnly(r) == r.status = "queued" /\ r.due
Claimable(r) == \/ r.status = "queued" /\ r.due
                \/ r.status = "sending" /\ ~r.live

Claimed(r, w) == [r EXCEPT !.status = "sending", !.attempts = @ + 1,
                           !.token = w, !.live = TRUE]
Released(r, status) == [r EXCEPT !.status = status, !.token = Nobody, !.live = FALSE]

\* Somebody moves or deletes the message, or an attempt is between reading
\* its row and recording the file it wrote.
Moving(j)  == owner[j] # Resting \/ \E w \in Worker : att[w].job = j /\ At(w, "spamRow")
Writing(j) == \E w \in Worker : att[w].job = j /\ att[w].pc \in {"file", "path"}
\* A write that was interrupted left a file the message row does not know.
Stray(j)   == files[j] \ {mail[j].path} # {}

Tangle(j, cond) == tangled' = IF cond THEN tangled \cup {j} ELSE tangled

-----------------------------------------------------------------------------
(* Jobs, and the claim of processLocalDelivery *)

\* deliverLocalRecipients.  A second call for the same source and target finds
\* the row in place and only tries to claim it.
Enqueue(j) ==
  /\ row[j].status = "none"
  /\ row' = [row EXCEPT ![j].status = "queued", ![j].due = TRUE]
  /\ UNCHANGED <<store, att, owner, history, bounds>>

\* There is no limit on the attempts of an expired lease.
Claim(w, j) ==
  /\ At(w, "idle") /\ Claimable(row[j]) /\ ~JobLocked(j)
  /\ row' = [row EXCEPT ![j] = Claimed(@, w)]
  /\ att' = [att EXCEPT ![w] = [pc |-> "claimed", job |-> j, target |-> NoFile]]
  /\ UNCHANGED <<store, owner, history, bounds>>

-----------------------------------------------------------------------------
(* The transaction of completeLocalDelivery *)

\* Mutant: the transaction does not repeat the lease token.
BeginTxUnowned(w) ==
  /\ At(w, "claimed") /\ ~MailboxLocked
  /\ Goto(w, IF row[att[w].job].message \/ HasRoom THEN "tx" ELSE "failing")
  /\ UNCHANGED <<row, store, owner, history, bounds>>

\* Lock the job and the mailbox; an overtaken attempt finds no row and gives
\* up, and so does one that has to insert and finds the mailbox full.
BeginTx(w) ==
  /\ At(w, "claimed") /\ ~MailboxLocked
  /\ Goto(w, IF Owns(w) /\ (row[att[w].job].message \/ HasRoom) THEN "tx" ELSE "failing")
  /\ UNCHANGED <<row, store, owner, history, bounds>>

\* Mutant: the transaction forgets to store message_id with the job.
InsertedUnrecorded(w) ==
  LET j == att[w].job
      first == ~row[j].message IN
  /\ row' = [row EXCEPT ![j].live = TRUE]
  /\ mail' = IF first THEN [mail EXCEPT ![j] = [folder |-> "inbox", path |-> NoFile]] ELSE mail
  /\ copies' = IF first THEN [copies EXCEPT ![j] = IF @ = 2 THEN 2 ELSE @ + 1] ELSE copies

\* What the commit makes visible: the renewed lease, and the message unless an
\* earlier attempt inserted it.
Inserted(w) ==
  LET j == att[w].job
      first == ~row[j].message IN
  /\ row' = [row EXCEPT ![j].live = TRUE, ![j].message = TRUE]
  /\ mail' = IF first THEN [mail EXCEPT ![j] = [folder |-> "inbox", path |-> NoFile]] ELSE mail
  /\ copies' = IF first THEN [copies EXCEPT ![j] = IF @ = 2 THEN 2 ELSE @ + 1] ELSE copies

\* The files in the directory of the message the transaction inserted.
KeepAttachments(w) ==
  attached' = IF row[att[w].job].message THEN attached ELSE attached \cup {att[w].job}

CommitTx(w) ==
  /\ At(w, "tx")
  /\ Inserted(w) /\ KeepAttachments(w)
  /\ Goto(w, "write")
  /\ UNCHANGED <<files, owner, skipped, tangled, bounds>>

\* Mutant: an error of COMMIT is taken to mean that nothing was stored.
CommitUnknownCleansUp(w) ==
  /\ At(w, "tx") /\ Fault
  /\ Inserted(w) /\ attached' = attached \ {att[w].job}
  /\ Goto(w, "failing")
  /\ UNCHANGED <<files, owner, skipped, tangled, userOps>>

\* The database committed but the acknowledgement was lost: an error, yet the
\* attachment files stay.
CommitUnknown(w) ==
  /\ At(w, "tx") /\ Fault
  /\ Inserted(w) /\ KeepAttachments(w)
  /\ Goto(w, "failing")
  /\ UNCHANGED <<files, owner, skipped, tangled, userOps>>

-----------------------------------------------------------------------------
(* writeStoredMessageToMaildir *)

\* Mutant: a name of its own for every attempt.
FilenamePerAttempt(w) == row[att[w].job].attempts + 1

Filename(w) == Stable

\* maildirMessageState: the message may be deleted by now, or its file exist.
WriteRead(w) ==
  LET j == att[w].job IN
  /\ At(w, "write")
  /\ IF ~Stored(j) THEN Goto(w, "failing") /\ UNCHANGED tangled
     ELSE IF mail[j].path \in files[j] THEN Goto(w, "finish") /\ UNCHANGED tangled
     ELSE /\ att' = [att EXCEPT ![w].pc = "file",
                                ![w].target = <<mail[j].folder, Filename(w)>>]
          /\ Tangle(j, Moving(j))
  /\ UNCHANGED <<row, store, owner, copies, skipped, bounds>>

\* Write to tmp, rename into place.
WriteFile(w) ==
  /\ At(w, "file")
  /\ files' = [files EXCEPT ![att[w].job] = @ \cup {att[w].target}]
  /\ Goto(w, "path")
  /\ UNCHANGED <<row, mail, attached, owner, history, bounds>>

\* UPDATE messages SET raw_path=? WHERE id=?: no error if the row is gone.
WritePath(w) ==
  LET j == att[w].job IN
  /\ At(w, "path")
  /\ mail' = IF Stored(j) THEN [mail EXCEPT ![j].path = att[w].target] ELSE mail
  /\ Goto(w, "finish")
  /\ UNCHANGED <<row, attached, files, owner, history, bounds>>

-----------------------------------------------------------------------------
(* The end of an attempt *)

\* Mutant: delivered before the controls are due, which are then forgotten.
FinishWithoutControls(w) ==
  /\ At(w, "finish")
  /\ row' = IF Owns(w) THEN [row EXCEPT ![att[w].job] = Released(@, "delivered")] ELSE row
  /\ Done(w)
  /\ UNCHANGED <<store, owner, history, bounds>>

Finish(w) ==
  /\ At(w, "finish")
  /\ IF Owns(w)
       THEN /\ row' = [row EXCEPT ![att[w].job] = Released(@, "delivered")]
            /\ Goto(w, "controls")
       ELSE Done(w) /\ UNCHANGED row
  /\ UNCHANGED <<store, owner, history, bounds>>

\* Mutant: a status the worker does not look for.
RescheduleMisspelt(w) ==
  /\ At(w, "failing")
  /\ row' = IF ~Owns(w) THEN row
            ELSE [row EXCEPT ![att[w].job] = [Released(@, "deferred") EXCEPT !.due = FALSE]]
  /\ Done(w)
  /\ UNCHANGED <<store, owner, history, bounds>>

\* An error in completeLocalDelivery: retry later, or give up.
Reschedule(w) ==
  /\ At(w, "failing")
  /\ row' = IF ~Owns(w) THEN row
            ELSE [row EXCEPT ![att[w].job] =
                    [Released(@, IF @.attempts >= MaxAttempts THEN "failed" ELSE "queued")
                       EXCEPT !.due = FALSE]]
  /\ Done(w)
  /\ UNCHANGED <<store, owner, history, bounds>>

\* applyInboundControls, as far as the blocked senders of the mailbox.
Controls(w) ==
  /\ At(w, "controls")
  /\ IF att[w].job \in Blocked THEN Goto(w, "spamFile") ELSE Done(w)
  /\ UNCHANGED <<row, store, owner, history, bounds>>

-----------------------------------------------------------------------------
(* moveMessageMaildir: by the controls, and by the owner *)

\* Where the file ends: renamed, keeping its name; one that is missing, or that
\* the row does not know yet, is written anew.
MoveTarget(j, folder) ==
  <<folder, IF mail[j].path \in files[j] THEN mail[j].path[2] ELSE Fresh>>

MoveFile(j, target) == files' = [files EXCEPT ![j] = (@ \ {mail[j].path}) \cup {target}]

\* UPDATE messages SET folder_id=?,raw_path=? WHERE id=?
MoveRow(j, target) ==
  mail' = IF Stored(j) THEN [mail EXCEPT ![j] = [folder |-> target[1], path |-> target]]
          ELSE mail

SpamFile(w) ==
  LET j == att[w].job
      target == MoveTarget(j, "spam") IN
  /\ At(w, "spamFile")
  /\ IF Stored(j)
       THEN /\ MoveFile(j, target)
            /\ att' = [att EXCEPT ![w].pc = "spamRow", ![w].target = target]
            /\ Tangle(j, Moving(j) \/ Writing(j) \/ Stray(j))
       ELSE Done(w) /\ UNCHANGED <<files, tangled>>
  /\ UNCHANGED <<row, mail, attached, owner, copies, skipped, bounds>>

SpamRow(w) ==
  /\ At(w, "spamRow")
  /\ MoveRow(att[w].job, att[w].target)
  /\ Done(w)
  /\ UNCHANGED <<row, attached, files, owner, history, bounds>>

UserOp(j) ==
  /\ owner[j] = Resting /\ Stored(j)
  /\ userOps < MaxUserOps /\ userOps' = userOps + 1
  /\ Tangle(j, Moving(j) \/ Writing(j) \/ Stray(j))

UserMoveFile(j) ==
  LET target == MoveTarget(j, "archive") IN
  /\ UserOp(j)
  /\ MoveFile(j, target)
  /\ owner' = [owner EXCEPT ![j] = [pc |-> "moving", target |-> target]]
  /\ UNCHANGED <<row, mail, attached, att, copies, skipped, faults>>

UserMoveRow(j) ==
  /\ owner[j].pc = "moving"
  /\ MoveRow(j, owner[j].target)
  /\ owner' = [owner EXCEPT ![j] = Resting]
  /\ UNCHANGED <<row, attached, files, att, history, bounds>>

\* deleteMessage: the Maildir file, the attachments, then the row.
UserDeleteFiles(j) ==
  /\ UserOp(j)
  /\ files' = [files EXCEPT ![j] = @ \ {mail[j].path}]
  /\ attached' = attached \ {j}
  /\ owner' = [owner EXCEPT ![j] = [pc |-> "deleting", target |-> NoFile]]
  /\ UNCHANGED <<row, mail, att, copies, skipped, faults>>

UserDeleteRow(j) ==
  /\ owner[j].pc = "deleting"
  /\ mail' = [mail EXCEPT ![j] = [folder |-> "absent", path |-> NoFile]]
  /\ owner' = [owner EXCEPT ![j] = Resting]
  /\ UNCHANGED <<row, attached, files, att, history, bounds>>

-----------------------------------------------------------------------------
(* Time, retention and faults *)

\* A lease lasts five minutes; nothing bounds an attempt, least of all a slow
\* disk, so it may run out under one.
LeaseExpires(j) ==
  /\ row[j].live
  /\ IF \E w \in Worker : att[w].job = j /\ Owns(w)
       THEN Fault
       ELSE UNCHANGED faults
  /\ row' = [row EXCEPT ![j].live = FALSE]
  /\ UNCHANGED <<store, att, owner, history, userOps>>

BecomesDue(j) ==
  /\ row[j].status = "queued" /\ ~row[j].due
  /\ row' = [row EXCEPT ![j].due = TRUE]
  /\ UNCHANGED <<store, att, owner, history, bounds>>

\* localDeliveryWorker deletes finished rows after 30 days; by then every
\* attempt is over.
Prune(j) ==
  /\ row[j].status \in {"delivered", "failed"}
  /\ \A w \in Worker : att[w].job # j
  /\ row' = [row EXCEPT ![j].status = "gone"]
  /\ UNCHANGED <<store, att, owner, history, bounds>>

\* A statement or file operation fails, a transaction is rolled back, or the
\* mailbox, its domain or its user is not active.
Fails(w) ==
  /\ att[w].pc \in {"claimed", "tx", "write", "file", "path", "finish"}
  /\ Fault
  /\ Goto(w, "failing")
  /\ UNCHANGED <<row, store, owner, history, userOps>>

\* The process stops, or the request that ran the job is canceled, and with
\* its context every statement that would follow.  What a control cannot do
\* is not tried again.
Interrupted(w) ==
  /\ att[w].pc # "idle"
  /\ Fault
  /\ Done(w)
  /\ skipped' = IF att[w].pc \in {"controls", "spamFile", "spamRow"}
                  THEN skipped \cup {att[w].job} ELSE skipped
  /\ UNCHANGED <<row, store, owner, copies, tangled, userOps>>

-----------------------------------------------------------------------------
(* Specification *)

NewRow  == [status |-> "none", attempts |-> 0, token |-> Nobody,
            live |-> FALSE, due |-> FALSE, message |-> FALSE]
NewMail == [folder |-> "absent", path |-> NoFile]

Init ==
  /\ row = [j \in Job |-> NewRow]
  /\ mail = [j \in Job |-> NewMail]
  /\ attached = {}
  /\ files = [j \in Job |-> {}]
  /\ att = [w \in Worker |-> IdleAtt]
  /\ owner = [j \in Job |-> Resting]
  /\ copies = [j \in Job |-> 0]
  /\ skipped = {} /\ tangled = {}
  /\ faults = 0 /\ userOps = 0

Attempt(w) ==
  \/ BeginTx(w) \/ CommitTx(w)
  \/ WriteRead(w) \/ WriteFile(w) \/ WritePath(w)
  \/ Finish(w) \/ Reschedule(w) \/ Controls(w) \/ SpamFile(w) \/ SpamRow(w)

Breaks(w) == CommitUnknown(w) \/ Fails(w) \/ Interrupted(w)

UserFinishes(j) == UserMoveRow(j) \/ UserDeleteRow(j)
UserStarts(j)   == UserMoveFile(j) \/ UserDeleteFiles(j)

Next ==
  \/ \E w \in Worker : Attempt(w) \/ Breaks(w)
  \/ \E w \in Worker, j \in Job : Claim(w, j)
  \/ \E j \in Job : Enqueue(j) \/ Prune(j) \/ LeaseExpires(j) \/ BecomesDue(j)
  \/ \E j \in Job : UserStarts(j) \/ UserFinishes(j)

\* A goroutine runs on, the worker looks for due jobs every five seconds, a
\* request ends, and time passes.
Fairness ==
  /\ \A w \in Worker : WF_vars(Attempt(w))
  /\ \A j \in Job : /\ WF_vars(\E w \in Worker : Claim(w, j))
                    /\ WF_vars(LeaseExpires(j)) /\ WF_vars(BecomesDue(j))
                    /\ WF_vars(UserFinishes(j))

Spec     == Init /\ [][Next]_vars
FairSpec == Spec /\ Fairness

-----------------------------------------------------------------------------
(* Properties *)

\* However often a job is retried, taken over or resumed after a stop, its
\* message is inserted once.  (message_id is stored with the message, read
\* again under the row lock; the retry resumes behind the insertion.)
InsertedOnce == \A j \in Job : copies[j] <= 1

\* A message in the mailbox has the attachment files it was inserted with,
\* also when the outcome of its COMMIT was unknown.
StoredWithAttachments ==
  \A j \in Job : Stored(j) /\ owner[j].pc # "deleting" => j \in attached

\* Jobs that insert into the mailbox at the same time do not overdraw its
\* quota together.  (the UPDATE that locks the mailbox row before the check)
QuotaKept == Quota > 0 => Used <= Quota

\* Nobody is at work on the message of a job.
Quiet(j) == owner[j] = Resting /\ \A w \in Worker : att[w].job # j

\* Once a job is delivered and nobody works on it, the Maildir holds exactly
\* the file the message row names, in its folder, and none if the message was
\* deleted, unless two actors handled the message at once: a retry overwrites
\* the file an interrupted attempt left, and an overtaken one adds none.
MaildirMatchesRow ==
  \A j \in Job : row[j].status = "delivered" /\ Quiet(j) /\ j \notin tangled \cup skipped =>
    IF Stored(j)
      THEN files[j] = {mail[j].path} /\ mail[j].path[1] = mail[j].folder
      ELSE files[j] = {}

\* Mail from a blocked sender does not stay in the inbox once its job is
\* delivered, unless the controls were interrupted.  (Controls run only in the
\* attempt whose last UPDATE found its lease.)
BlockedLeavesInbox ==
  \A j \in Blocked : row[j].status = "delivered" /\ Quiet(j) /\ j \notin skipped
                     => mail[j].folder # "inbox"

\* Every job is delivered or given up in the end: no stop, lost lease, full
\* mailbox or failing statement leaves it in "queued" or "sending".
EventuallySettled ==
  \A j \in Job : row[j].status \in {"queued", "sending"}
                 ~> row[j].status \in {"delivered", "failed", "gone"}

\* docs/DOMAIN_COLLECTION.md: a job is tried at most eight times.
AtMostMaxAttempts == \A j \in Job : row[j].attempts <= MaxAttempts
=============================================================================
