------------------------ MODULE LocalDeliveryProofs ------------------------
(* Theorems about LocalDelivery, for any finite set of jobs, any number of  *)
(* workers, any quota and any bounds.                                        *)
EXTENDS LocalDeliveryRefinement, FiniteSetTheorems, TLAPS

-----------------------------------------------------------------------------
(* Typing *)

\* An attempt that is not idle works on a job.
LEMMA AttemptHasJob ==
  ASSUME TypeOK, NEW w \in Worker, att[w].pc # "idle"
  PROVE  att[w].job \in Job
BY DEF TypeOK, AttOK, Att

\* Advancing or ending an attempt yields well-formed attempts.
LEMMA AttHelpers ==
  ASSUME TypeOK, NEW w \in Worker
  PROVE  /\ \A pc \in PC \ {"idle", "file", "path", "spamRow"} :
              att[w].pc # "idle" /\ Goto(w, pc) => AttOK'
         /\ Done(w) => AttOK'
         /\ att[w].pc = "file" /\ Goto(w, "path") => AttOK'
<1>1. att[w] \in Att /\ (att[w].pc # "idle" => att[w].job # NoJob)
  BY DEF TypeOK, AttOK
<1>2. ASSUME NEW pc \in PC, Goto(w, pc), att[w].pc # "idle", pc # "idle",
             pc \in {"file", "path", "spamRow"} => att[w].target \in File
      PROVE  AttOK'
  <2>1. [att[w] EXCEPT !.pc = pc] \in Att
    BY <1>1 DEF Att
  <2>2. QED BY <1>1, <1>2, <2>1 DEF Goto, TypeOK, AttOK, Att
<1>3. ASSUME Done(w) PROVE AttOK'
  <2>1. IdleAtt \in Att
    BY DEF IdleAtt, Att, PC
  <2>2. QED BY <1>3, <2>1 DEF Done, TypeOK, AttOK, IdleAtt
<1>4. att[w].pc = "file" => att[w].target \in File
  BY DEF TypeOK, AttOK
<1>5. "path" \in PC
  BY DEF PC
<1>6. QED BY <1>2, <1>3, <1>4, <1>5

\* Claiming, renewing or releasing a job yields a row.
LEMMA RowHelpers ==
  ASSUME NEW r \in Row
  PROVE  /\ \A w \in Worker : Claimed(r, w) \in Row
         /\ [r EXCEPT !.live = TRUE, !.message = TRUE] \in Row
         /\ \A s \in Status : /\ Released(r, s) \in Row
                              /\ [Released(r, s) EXCEPT !.due = FALSE] \in Row
<1>1. ASSUME NEW w \in Worker PROVE Claimed(r, w) \in Row
  <2>1. r.attempts + 1 \in Nat
    BY DEF Row
  <2>2. "sending" \in Status
    BY DEF Status
  <2>3. QED BY <2>1, <2>2 DEF Claimed, Row
<1>2. [r EXCEPT !.live = TRUE, !.message = TRUE] \in Row
  BY DEF Row
<1>3. ASSUME NEW s \in Status PROVE Released(r, s) \in Row
  BY DEF Released, Row
<1>4. ASSUME NEW s \in Status PROVE [Released(r, s) EXCEPT !.due = FALSE] \in Row
  BY <1>3 DEF Row
<1>5. QED BY <1>1, <1>2, <1>3, <1>4

\* A message that is there lies in a folder, and so does the place it moves to.
LEMMA MailHelpers ==
  ASSUME TypeOK, NEW j \in Job
  PROVE  /\ \A folder \in Folder : MoveTarget(j, folder) \in File
         /\ \A t \in File : MoveFile(j, t) => files' \in [Job -> SUBSET File]
         /\ \A t \in File : MoveRow(j, t) => mail' \in [Job -> Mail]
         /\ Stored(j) => mail[j].folder \in Folder
<1>1. mail[j] \in Mail /\ files[j] \subseteq File
  BY DEF TypeOK
<1>2. ASSUME NEW folder \in Folder PROVE MoveTarget(j, folder) \in File
  <2>1. mail[j].path \in files[j] => mail[j].path[2] \in Nat
    BY <1>1 DEF File
  <2>2. (IF mail[j].path \in files[j] THEN mail[j].path[2] ELSE Fresh) \in Nat
    BY <2>1 DEF Fresh
  <2>3. QED BY <2>2 DEF MoveTarget, File
<1>3. ASSUME NEW t \in File, MoveFile(j, t) PROVE files' \in [Job -> SUBSET File]
  BY <1>1, <1>3 DEF MoveFile, TypeOK
<1>4. ASSUME NEW t \in File, MoveRow(j, t) PROVE mail' \in [Job -> Mail]
  <2>1. t[1] \in Folder
    BY DEF File
  <2>2. [folder |-> t[1], path |-> t] \in Mail
    BY <2>1 DEF Mail
  <2>3. QED BY <1>4, <2>2 DEF MoveRow, TypeOK
<1>5. Stored(j) => mail[j].folder \in Folder
  BY <1>1 DEF Stored, Mail
<1>6. QED BY <1>2, <1>3, <1>4, <1>5

\* Inserting the message keeps the types.
LEMMA InsertedType ==
  ASSUME TypeOK, NEW w \in Worker, att[w].pc = "tx", Inserted(w), KeepAttachments(w)
  PROVE  /\ row' \in [Job -> Row]
         /\ mail' \in [Job -> Mail]
         /\ copies' \in [Job -> 0 .. 2]
         /\ attached' \subseteq Job
<1> DEFINE j == att[w].job
<1>1. j \in Job
  BY AttemptHasJob
<1>2. row' \in [Job -> Row]
  <2>1. row[j] \in Row
    BY <1>1 DEF TypeOK
  <2>2. [row[j] EXCEPT !.live = TRUE, !.message = TRUE] \in Row
    BY <2>1, RowHelpers
  <2>3. row' = [row EXCEPT ![j] = [row[j] EXCEPT !.live = TRUE, !.message = TRUE]]
    BY <1>1 DEF Inserted, TypeOK
  <2>4. QED BY <1>1, <2>2, <2>3 DEF TypeOK
<1>3. mail' \in [Job -> Mail]
  <2>1. [folder |-> "inbox", path |-> NoFile] \in Mail
    BY DEF Mail, Folder
  <2>2. QED BY <1>1, <2>1 DEF Inserted, TypeOK
<1>4. copies' \in [Job -> 0 .. 2]
  BY <1>1 DEF Inserted, TypeOK
<1>5. attached' \subseteq Job
  BY <1>1 DEF KeepAttachments, TypeOK
<1>6. QED BY <1>2, <1>3, <1>4, <1>5

-----------------------------------------------------------------------------
(* Type correctness *)

\* Every step keeps every variable in its type.
LEMMA TypeStep == TypeOK /\ [Next]_vars => TypeOK'
<1> SUFFICES ASSUME TypeOK, [Next]_vars PROVE TypeOK'
  OBVIOUS
<1> USE DEF TypeOK, store, history, bounds
<1>a. Fault => faults' \in 0 .. MaxFaults
  BY BoundsAssumption DEF BoundsAssumption, Fault
<1>b. {"claimed", "tx", "write", "finish", "failing", "controls", "spamFile"}
        \subseteq PC \ {"idle", "file", "path", "spamRow"}
  BY DEF PC
<1>c. UNCHANGED att => AttOK'
  BY DEF AttOK
<1>d. UNCHANGED owner => OwnerOK'
  BY DEF OwnerOK
<1>e. \A j \in Job, c \in BOOLEAN : Tangle(j, c) => tangled' \subseteq Job
  BY DEF Tangle
<1>f. ASSUME NEW w \in Worker, att[w].pc # "idle" PROVE att[w].job \in Job
  BY <1>f, AttemptHasJob
<1>1. ASSUME NEW w \in Worker, Attempt(w) PROVE TypeOK'
  <2>1. CASE BeginTx(w)
    <3>1. AttOK'
      BY <2>1, <1>b, AttHelpers DEF BeginTx, At
    <3>2. QED BY <2>1, <3>1, <1>d DEF BeginTx
  <2>2. CASE CommitTx(w)
    <3>1. AttOK'
      BY <2>2, <1>b, AttHelpers DEF CommitTx, At
    <3>2. QED BY <2>2, <3>1, <1>d, InsertedType DEF CommitTx, At
  <2>3. CASE WriteRead(w)
    <3> DEFINE j == att[w].job
    <3>1. j \in Job /\ att[w] \in Att /\ att[w].pc # "idle"
      BY <2>3, <1>f DEF WriteRead, At, AttOK
    <3>2. CASE Goto(w, "failing") /\ UNCHANGED tangled
      BY <2>3, <3>1, <3>2, <1>b, <1>d, AttHelpers DEF WriteRead
    <3>3. CASE Goto(w, "finish") /\ UNCHANGED tangled
      BY <2>3, <3>1, <3>3, <1>b, <1>d, AttHelpers DEF WriteRead
    <3>4. CASE /\ Stored(j)
               /\ att' = [att EXCEPT ![w].pc = "file",
                                     ![w].target = <<mail[j].folder, Filename(w)>>]
               /\ Tangle(j, Moving(j))
      <4>1. <<mail[j].folder, Filename(w)>> \in File
        BY <3>1, <3>4, MailHelpers DEF File, Filename, Stable
      <4>2. AttOK'
        BY <3>1, <3>4, <4>1 DEF AttOK, Att, PC
      <4>3. tangled' \subseteq Job
        BY <3>1, <3>4 DEF Tangle
      <4>4. QED BY <2>3, <4>2, <4>3, <1>d DEF WriteRead
    <3>5. QED BY <2>3, <3>2, <3>3, <3>4 DEF WriteRead
  <2>4. CASE WriteFile(w)
    <3>1. att[w].job \in Job /\ att[w].target \in File
      BY <2>4, <1>f DEF WriteFile, At, AttOK
    <3>2. files' \in [Job -> SUBSET File]
      BY <2>4, <3>1 DEF WriteFile
    <3>3. AttOK'
      BY <2>4, AttHelpers DEF WriteFile, At
    <3>4. QED BY <2>4, <3>2, <3>3, <1>d DEF WriteFile
  <2>5. CASE WritePath(w)
    <3>1. att[w].job \in Job /\ att[w].target \in File
      BY <2>5, <1>f DEF WritePath, At, AttOK
    <3>2. [mail[att[w].job] EXCEPT !.path = att[w].target] \in Mail
      BY <3>1 DEF Mail
    <3>3. mail' \in [Job -> Mail]
      BY <2>5, <3>1, <3>2 DEF WritePath
    <3>4. AttOK'
      BY <2>5, <1>b, AttHelpers DEF WritePath, At
    <3>5. QED BY <2>5, <3>3, <3>4, <1>d DEF WritePath
  <2>6. CASE Finish(w)
    <3>1. Released(row[att[w].job], "delivered") \in Row
      BY <2>6, <1>f, RowHelpers DEF Finish, At, Status
    <3>2. row' \in [Job -> Row]
      BY <2>6, <3>1 DEF Finish
    <3>3. AttOK'
      BY <2>6, <1>b, AttHelpers DEF Finish, At
    <3>4. QED BY <2>6, <3>2, <3>3, <1>d DEF Finish
  <2>7. CASE Reschedule(w)
    <3> DEFINE r == row[att[w].job]
               s == IF r.attempts >= MaxAttempts THEN "failed" ELSE "queued"
    <3>1. r \in Row /\ s \in Status
      BY <2>7, <1>f DEF Reschedule, At, Status
    <3>2. [Released(r, s) EXCEPT !.due = FALSE] \in Row
      BY <3>1, RowHelpers
    <3>3. row' \in [Job -> Row]
      BY <2>7, <3>2 DEF Reschedule
    <3>4. AttOK'
      BY <2>7, AttHelpers DEF Reschedule
    <3>5. QED BY <2>7, <3>3, <3>4, <1>d DEF Reschedule
  <2>8. CASE Controls(w)
    <3>1. AttOK'
      BY <2>8, <1>b, AttHelpers DEF Controls, At
    <3>2. QED BY <2>8, <3>1, <1>d DEF Controls
  <2>9. CASE SpamFile(w)
    <3> DEFINE j == att[w].job
               t == MoveTarget(j, "spam")
    <3>1. j \in Job /\ att[w] \in Att /\ att[w].pc # "idle"
      BY <2>9, <1>f DEF SpamFile, At, AttOK
    <3>2. CASE Stored(j)
      <4>1. t \in File
        BY <3>1, MailHelpers DEF Folder
      <4>2. files' \in [Job -> SUBSET File]
        BY <2>9, <3>1, <3>2, <4>1, MailHelpers DEF SpamFile
      <4>3. AttOK'
        BY <2>9, <3>1, <3>2, <4>1 DEF SpamFile, AttOK, Att, PC
      <4>4. tangled' \subseteq Job
        BY <2>9, <3>1, <3>2 DEF SpamFile, Tangle
      <4>5. QED BY <2>9, <4>2, <4>3, <4>4, <1>d DEF SpamFile
    <3>3. CASE ~Stored(j)
      <4>1. AttOK'
        BY <2>9, <3>3, AttHelpers DEF SpamFile
      <4>2. QED BY <2>9, <3>3, <4>1, <1>d DEF SpamFile
    <3>4. QED BY <3>2, <3>3
  <2>10. CASE SpamRow(w)
    <3>1. att[w].job \in Job /\ att[w].target \in File
      BY <2>10, <1>f DEF SpamRow, At, AttOK
    <3>2. mail' \in [Job -> Mail]
      BY <2>10, <3>1, MailHelpers DEF SpamRow
    <3>3. AttOK'
      BY <2>10, AttHelpers DEF SpamRow
    <3>4. QED BY <2>10, <3>2, <3>3, <1>d DEF SpamRow
  <2>11. QED
    BY <1>1, <2>1, <2>2, <2>3, <2>4, <2>5, <2>6, <2>7, <2>8, <2>9, <2>10 DEF Attempt
<1>2. ASSUME NEW w \in Worker, Breaks(w) PROVE TypeOK'
  <2>1. CASE CommitUnknown(w)
    <3>1. AttOK'
      BY <2>1, <1>b, AttHelpers DEF CommitUnknown, At
    <3>2. QED BY <2>1, <3>1, <1>a, <1>d, InsertedType DEF CommitUnknown, At
  <2>2. CASE Fails(w)
    <3>1. AttOK'
      BY <2>2, <1>b, AttHelpers DEF Fails
    <3>2. QED BY <2>2, <3>1, <1>a, <1>d DEF Fails
  <2>3. CASE Interrupted(w)
    <3>1. AttOK'
      BY <2>3, AttHelpers DEF Interrupted
    <3>2. skipped' \subseteq Job
      BY <2>3, <1>f DEF Interrupted
    <3>3. QED BY <2>3, <3>1, <3>2, <1>a, <1>d DEF Interrupted
  <2>4. QED BY <1>2, <2>1, <2>2, <2>3 DEF Breaks
<1>3. ASSUME NEW w \in Worker, NEW j \in Job, Claim(w, j) PROVE TypeOK'
  <2>1. Claimed(row[j], w) \in Row
    BY RowHelpers
  <2>2. row' \in [Job -> Row]
    BY <1>3, <2>1 DEF Claim
  <2>3. [pc |-> "claimed", job |-> j, target |-> NoFile] \in Att
    BY DEF Att, PC
  <2>4. AttOK'
    BY <1>3, <2>3, ConstantsAssumption DEF ConstantsAssumption, Claim, AttOK
  <2>5. QED BY <1>3, <2>2, <2>4, <1>d DEF Claim
<1>4. ASSUME NEW j \in Job, Enqueue(j) \/ Prune(j) \/ LeaseExpires(j) \/ BecomesDue(j)
      PROVE  TypeOK'
  <2>1. row[j] \in Row
    OBVIOUS
  <2>2. row' \in [Job -> Row]
    <3>1. CASE Enqueue(j)
      BY <2>1, <3>1 DEF Enqueue, Row, Status
    <3>2. CASE Prune(j)
      BY <2>1, <3>2 DEF Prune, Row, Status
    <3>3. CASE LeaseExpires(j)
      BY <2>1, <3>3 DEF LeaseExpires, Row
    <3>4. CASE BecomesDue(j)
      BY <2>1, <3>4 DEF BecomesDue, Row
    <3>5. QED BY <1>4, <3>1, <3>2, <3>3, <3>4
  <2>3. faults' \in 0 .. MaxFaults
    BY <1>4, <1>a DEF Enqueue, Prune, LeaseExpires, BecomesDue
  <2>4. UNCHANGED <<mail, attached, files, att, owner, copies, skipped, tangled, userOps>>
    BY <1>4 DEF Enqueue, Prune, LeaseExpires, BecomesDue
  <2>5. QED BY <2>2, <2>3, <2>4, <1>c, <1>d
<1>5. ASSUME NEW j \in Job, UserStarts(j) PROVE TypeOK'
  <2> DEFINE t == MoveTarget(j, "archive")
  <2>1. userOps' \in 0 .. MaxUserOps /\ tangled' \subseteq Job
    BY <1>5, BoundsAssumption
    DEF BoundsAssumption, UserStarts, UserMoveFile, UserDeleteFiles, UserOp, Tangle
  <2>2. CASE UserMoveFile(j)
    <3>1. t \in File
      BY MailHelpers DEF Folder
    <3>2. files' \in [Job -> SUBSET File]
      BY <2>2, <3>1, MailHelpers DEF UserMoveFile
    <3>3. OwnerOK'
      BY <2>2, <3>1 DEF UserMoveFile, OwnerOK, Owner
    <3>4. QED BY <2>1, <2>2, <3>2, <3>3, <1>c DEF UserMoveFile
  <2>3. CASE UserDeleteFiles(j)
    <3>1. OwnerOK'
      BY <2>3 DEF UserDeleteFiles, OwnerOK, Owner
    <3>2. QED BY <2>1, <2>3, <3>1, <1>c DEF UserDeleteFiles
  <2>4. QED BY <1>5, <2>2, <2>3 DEF UserStarts
<1>6. ASSUME NEW j \in Job, UserFinishes(j) PROVE TypeOK'
  <2>1. OwnerOK'
    BY <1>6 DEF UserFinishes, UserMoveRow, UserDeleteRow, OwnerOK, Owner, Resting
  <2>2. mail' \in [Job -> Mail]
    <3>1. CASE UserMoveRow(j)
      BY <3>1, MailHelpers DEF UserMoveRow, OwnerOK
    <3>2. CASE UserDeleteRow(j)
      BY <3>2 DEF UserDeleteRow, Mail
    <3>3. QED BY <1>6, <3>1, <3>2 DEF UserFinishes
  <2>3. QED BY <1>6, <2>1, <2>2, <1>c DEF UserFinishes, UserMoveRow, UserDeleteRow
<1>7. CASE UNCHANGED vars
  BY <1>7, <1>c, <1>d DEF vars
<1>8. QED BY <1>1, <1>2, <1>3, <1>4, <1>5, <1>6, <1>7 DEF Next

\* Every variable of the local delivery keeps its type.
THEOREM LocalTypeCorrect == Spec => []TypeOK
<1>1. Init => TypeOK
  BY BoundsAssumption
  DEF BoundsAssumption, Init, TypeOK, AttOK, OwnerOK, NewRow, NewMail, Row, Status, Mail,
      Att, PC, IdleAtt, Owner, Resting
<1>2. QED BY <1>1, TypeStep, PTL DEF Spec

-----------------------------------------------------------------------------
(* One message per job, with its attachments, within the quota *)

\* message_id is set exactly when a message was inserted, once; a message that
\* is there, or that its owner handles, was inserted; it has its attachments.
MailInv ==
  \A j \in Job :
    /\ copies[j] = IF row[j].message THEN 1 ELSE 0
    /\ Stored(j) \/ owner[j] # Resting => row[j].message
    /\ Stored(j) /\ owner[j].pc # "deleting" => j \in attached

\* The mailbox lock excludes a second transaction, so the room an open one
\* found for its message is still there when it commits.
QuotaInv ==
  /\ \A w1, w2 \in Worker : At(w1, "tx") /\ At(w2, "tx") => w1 = w2
  /\ Quota > 0 =>
       /\ Used <= Quota
       /\ \A w \in Worker : At(w, "tx") /\ ~row[att[w].job].message => Used + 1 <= Quota

IInv == TypeOK /\ MailInv /\ QuotaInv

\* What most steps leave alone: which jobs have a message id, which messages
\* are there, and who is in a transaction with which job.
KeepsIds   == \A j \in Job : row'[j].message = row[j].message
KeepsMails == \A j \in Job : Stored(j)' <=> Stored(j)
KeepsTx    == \A w \in Worker : At(w, "tx")' => At(w, "tx") /\ att'[w].job = att[w].job

\* The steps that neither insert, open a transaction nor belong to the owner.
Plain(w) == \/ WriteRead(w) \/ WriteFile(w) \/ WritePath(w) \/ Finish(w) \/ Reschedule(w)
            \/ Controls(w) \/ SpamFile(w) \/ SpamRow(w) \/ Fails(w) \/ Interrupted(w)

\* A claim and a release leave message_id as it is.
LEMMA MessageKept ==
  ASSUME NEW r \in Row
  PROVE  /\ \A w : Claimed(r, w).message = r.message
         /\ \A s : /\ Released(r, s).message = r.message
                   /\ [Released(r, s) EXCEPT !.due = FALSE].message = r.message
BY DEF Claimed, Released, Row

\* They keep all three.
LEMMA PlainKeeps ==
  ASSUME TypeOK, NEW w \in Worker, Plain(w)
  PROVE  KeepsIds /\ KeepsMails /\ KeepsTx /\ UNCHANGED <<attached, owner, copies>>
<1> USE DEF Plain, store, history, bounds
<1>1. att[w] \in Att /\ att[w].pc # "idle"
  BY DEF TypeOK, AttOK, At, WriteRead, WriteFile, WritePath, Finish, Reschedule,
         Controls, SpamFile, SpamRow, Fails, Interrupted
<1>2. att[w].job \in Job
  BY <1>1, AttemptHasJob
<1>3. KeepsIds
  <2>1. CASE UNCHANGED row
    BY <2>1 DEF KeepsIds
  <2>2. CASE Finish(w) \/ Reschedule(w)
    <3>1. row[att[w].job] \in Row
      BY <1>2 DEF TypeOK
    <3>2. \A j \in Job \ {att[w].job} : row'[j] = row[j]
      BY <2>2 DEF Finish, Reschedule, TypeOK
    <3>3. \/ UNCHANGED row
          \/ row'[att[w].job] = Released(row[att[w].job], "delivered")
          \/ \E s : row'[att[w].job] = [Released(row[att[w].job], s) EXCEPT !.due = FALSE]
      <4>1. CASE Finish(w)
        BY <1>2, <4>1 DEF Finish, TypeOK
      <4>2. CASE Reschedule(w)
        BY <1>2, <4>2 DEF Reschedule, TypeOK
      <4>3. QED BY <2>2, <4>1, <4>2
    <3>4. row'[att[w].job].message = row[att[w].job].message
      <4> DEFINE r == row[att[w].job]
      <4>1. ASSUME NEW s, row'[att[w].job] = [Released(r, s) EXCEPT !.due = FALSE]
            PROVE  row'[att[w].job].message = r.message
        <5>1. [Released(r, s) EXCEPT !.due = FALSE].message = r.message
          BY <3>1, MessageKept
        <5>2. QED BY <4>1, <5>1
      <4>2. Released(r, "delivered").message = r.message
        BY <3>1, MessageKept
      <4>3. QED BY <3>3, <4>1, <4>2
    <3>5. QED BY <3>2, <3>4 DEF KeepsIds
  <2>3. QED BY <2>1, <2>2 DEF WriteRead, WriteFile, WritePath, Controls, SpamFile,
               SpamRow, Fails, Interrupted
<1>4. KeepsMails
  <2>1. CASE UNCHANGED mail
    BY <2>1 DEF KeepsMails, Stored
  <2>2. CASE WritePath(w)
    <3>1. CASE Stored(att[w].job)
      BY <1>2, <2>2, <3>1 DEF KeepsMails, Stored, WritePath, TypeOK, Mail
    <3>2. CASE ~Stored(att[w].job)
      BY <2>2, <3>2 DEF KeepsMails, Stored, WritePath
    <3>3. QED BY <3>1, <3>2
  <2>3. CASE SpamRow(w)
    <3>1. att[w].target \in File
      BY <1>1, <2>3 DEF SpamRow, At, TypeOK, AttOK
    <3>2. att[w].target[1] # "absent"
      BY <3>1 DEF File, Folder
    <3>3. CASE Stored(att[w].job)
      BY <1>2, <2>3, <3>2, <3>3 DEF KeepsMails, Stored, SpamRow, MoveRow, TypeOK
    <3>4. CASE ~Stored(att[w].job)
      BY <2>3, <3>4 DEF KeepsMails, Stored, SpamRow, MoveRow
    <3>5. QED BY <3>3, <3>4
  <2>4. QED BY <2>1, <2>2, <2>3 DEF WriteRead, WriteFile, Finish, Reschedule, Controls,
               SpamFile, Fails, Interrupted
<1>5. KeepsTx
  <2>1. \A v \in Worker : v # w => att'[v] = att[v]
    BY DEF WriteRead, WriteFile, WritePath, Finish, Reschedule, Controls, SpamFile,
           SpamRow, Fails, Interrupted, Goto, Done, TypeOK, AttOK
  <2>2. att'[w].pc # "tx"
    BY <1>1 DEF WriteRead, WriteFile, WritePath, Finish, Reschedule, Controls, SpamFile,
           SpamRow, Fails, Interrupted, Goto, Done, TypeOK, AttOK, IdleAtt, Att
  <2>3. QED BY <2>1, <2>2 DEF KeepsTx, At
<1>6. UNCHANGED <<attached, owner, copies>>
  BY DEF WriteRead, WriteFile, WritePath, Finish, Reschedule, Controls, SpamFile,
         SpamRow, Fails, Interrupted
<1>7. QED BY <1>3, <1>4, <1>5, <1>6

\* Claims, and what happens to the row of a job alone.
LEMMA JobStepKeeps ==
  ASSUME TypeOK, NEW j \in Job,
         (\E w \in Worker : Claim(w, j)) \/ Enqueue(j) \/ Prune(j) \/ LeaseExpires(j) \/ BecomesDue(j)
  PROVE  KeepsIds /\ KeepsMails /\ KeepsTx /\ UNCHANGED <<attached, owner, copies>>
<1> USE DEF store, history, bounds
<1>1. KeepsIds
  <2>1. row[j] \in Row
    BY DEF TypeOK
  <2>2. \A i \in Job \ {j} : row'[i] = row[i]
    BY DEF Claim, Enqueue, Prune, LeaseExpires, BecomesDue, TypeOK
  <2>3. CASE \E w \in Worker : Claim(w, j)
    <3>1. PICK w \in Worker : row' = [row EXCEPT ![j] = Claimed(row[j], w)]
      BY <2>3 DEF Claim
    <3>2. row'[j].message = row[j].message
      BY <2>1, <3>1, MessageKept DEF TypeOK
    <3>3. QED BY <2>2, <3>2 DEF KeepsIds
  <2>4. CASE Enqueue(j) \/ Prune(j) \/ LeaseExpires(j) \/ BecomesDue(j)
    <3>1. row'[j].message = row[j].message
      BY <2>1, <2>4 DEF Enqueue, Prune, LeaseExpires, BecomesDue, TypeOK, Row
    <3>2. QED BY <2>2, <3>1 DEF KeepsIds
  <2>5. QED BY <2>3, <2>4
<1>2. UNCHANGED <<mail, attached, owner, copies>>
  BY DEF Claim, Enqueue, Prune, LeaseExpires, BecomesDue
<1>3. KeepsMails
  BY <1>2 DEF KeepsMails, Stored
<1>4. KeepsTx
  <2>1. CASE UNCHANGED att
    BY <2>1 DEF KeepsTx, At
  <2>2. ASSUME NEW w \in Worker, Claim(w, j) PROVE KeepsTx
    BY <2>2 DEF KeepsTx, At, Claim, TypeOK, AttOK
  <2>3. QED BY <2>1, <2>2 DEF Enqueue, Prune, LeaseExpires, BecomesDue
<1>5. QED BY <1>1, <1>2, <1>3, <1>4

\* A step that keeps ids and messages keeps MailInv.
LEMMA FrameMail ==
  ASSUME MailInv, KeepsIds, KeepsMails, UNCHANGED <<attached, owner, copies>>
  PROVE  MailInv'
BY DEF MailInv, KeepsIds, KeepsMails

\* How the number of messages in the mailbox follows the set of them.
LEMMA UsedType ==
  ASSUME TypeOK
  PROVE  /\ IsFiniteSet({j \in Job : Stored(j)}) /\ Used \in Nat
         /\ KeepsMails => Used' = Used
         /\ \A j \in Job : (\A i \in Job : Stored(i)' => Stored(i) \/ i = j)
                           => Used' \in Nat /\ Used' <= Used + 1
         /\ (\A i \in Job : Stored(i)' => Stored(i)) => Used' \in Nat /\ Used' <= Used
<1> DEFINE S == {j \in Job : Stored(j)}
           T == {j \in Job : Stored(j)'}
<1>1. IsFiniteSet(S) /\ Cardinality(S) \in Nat
  <2>1. S \in SUBSET Job
    OBVIOUS
  <2>2. IsFiniteSet(S)
    BY <2>1, ConstantsAssumption, FS_Subset DEF ConstantsAssumption
  <2>3. QED BY <2>2, FS_CardinalityType
<1>2. Used = Cardinality(S) /\ Used' = Cardinality(T)
  BY DEF Used
<1>3. ASSUME KeepsMails PROVE Used' = Used
  <2>1. S = T
    BY <1>3 DEF KeepsMails
  <2>2. QED BY <1>2, <2>1
<1>4. ASSUME NEW j \in Job, \A i \in Job : Stored(i)' => Stored(i) \/ i = j
      PROVE  Used' \in Nat /\ Used' <= Used + 1
  <2>1. T \in SUBSET (S \cup {j})
    BY <1>4
  <2>2. IsFiniteSet(S \cup {j}) /\ Cardinality(S \cup {j}) <= Cardinality(S) + 1
    BY <1>1, FS_AddElement
  <2>3. Cardinality(S \cup {j}) \in Nat
    BY <2>2, FS_CardinalityType
  <2>4. IsFiniteSet(T) /\ Cardinality(T) <= Cardinality(S \cup {j})
    BY <2>1, <2>2, FS_Subset
  <2>5. Cardinality(T) \in Nat
    BY <2>4, FS_CardinalityType
  <2>6. QED BY <1>1, <1>2, <2>2, <2>3, <2>4, <2>5
<1>5. ASSUME \A i \in Job : Stored(i)' => Stored(i) PROVE Used' \in Nat /\ Used' <= Used
  <2>1. T \in SUBSET S
    BY <1>5
  <2>2. IsFiniteSet(T) /\ Cardinality(T) <= Cardinality(S)
    BY <1>1, <2>1, FS_Subset
  <2>3. Cardinality(T) \in Nat
    BY <2>2, FS_CardinalityType
  <2>4. QED BY <1>2, <2>2, <2>3
<1>6. QED BY <1>1, <1>2, <1>3, <1>4, <1>5

\* A step that adds no message, id or transaction keeps QuotaInv.
LEMMA FrameQuota ==
  ASSUME IInv, KeepsIds, KeepsTx, \A i \in Job : Stored(i)' => Stored(i)
  PROVE  QuotaInv'
<1>1. Used \in Nat /\ Used' \in Nat /\ Used' <= Used
  BY UsedType DEF IInv
<1>2. \A w \in Worker : At(w, "tx") => att[w].job \in Job
  BY AttemptHasJob DEF At, IInv
<1>3. Quota \in Nat
  BY BoundsAssumption DEF BoundsAssumption
<1>4. ASSUME NEW w \in Worker, At(w, "tx")', ~row'[att'[w].job].message
      PROVE  At(w, "tx") /\ ~row[att[w].job].message
  BY <1>2, <1>4 DEF KeepsTx, KeepsIds
<1>5. ASSUME Quota > 0, NEW w \in Worker, At(w, "tx")', ~row'[att'[w].job].message
      PROVE  Used' + 1 <= Quota
  <2>1. Used + 1 <= Quota
    BY <1>4, <1>5 DEF IInv, QuotaInv
  <2>2. \A a, b, q \in Nat : a <= b /\ b + 1 <= q => a + 1 <= q
    OBVIOUS
  <2>3. QED BY <1>1, <1>3, <2>1, <2>2
<1>6. Quota > 0 => Used' <= Quota
  BY <1>1, <1>3 DEF IInv, QuotaInv
<1>7. \A w1, w2 \in Worker : At(w1, "tx")' /\ At(w2, "tx")' => w1 = w2
  BY DEF KeepsTx, IInv, QuotaInv
<1>8. QED BY <1>5, <1>6, <1>7 DEF QuotaInv

\* The commit of a transaction inserts at most the one message it found room for.
LEMMA InsertStep ==
  ASSUME IInv, NEW w \in Worker, At(w, "tx"), Inserted(w), KeepAttachments(w),
         NEW pc \in {"write", "failing"}, Goto(w, pc), UNCHANGED owner
  PROVE  MailInv' /\ QuotaInv'
<1> DEFINE j == att[w].job
           first == ~row[j].message
<1>1. TypeOK /\ MailInv /\ QuotaInv /\ j \in Job
  BY AttemptHasJob DEF IInv, At
<1>2. /\ row'[j].message
      /\ \A i \in Job \ {j} : row'[i] = row[i]
  BY <1>1 DEF Inserted, TypeOK, Row
<1>3. /\ \A i \in Job : Stored(i)' <=> Stored(i) \/ (first /\ i = j)
      /\ \A i \in Job : copies'[i] = IF first /\ i = j THEN 1 ELSE copies[i]
      /\ attached' = IF first THEN attached \cup {j} ELSE attached
  <2>1. first => copies[j] = 0 /\ ~Stored(j)
    BY <1>1 DEF MailInv
  <2>2. CASE first
    BY <1>1, <2>1, <2>2 DEF Inserted, KeepAttachments, Stored, TypeOK
  <2>3. CASE ~first
    BY <1>1, <2>3 DEF Inserted, KeepAttachments, Stored, TypeOK
  <2>4. QED BY <2>2, <2>3
<1>4. MailInv'
  <2>1. ASSUME NEW i \in Job
        PROVE  /\ copies'[i] = IF row'[i].message THEN 1 ELSE 0
               /\ Stored(i)' \/ owner[i] # Resting => row'[i].message
               /\ Stored(i)' /\ owner[i].pc # "deleting" => i \in attached'
    <3>1. CASE i = j
      BY <1>1, <1>2, <1>3, <3>1 DEF MailInv
    <3>2. CASE i # j
      BY <1>1, <1>2, <1>3, <3>2 DEF MailInv
    <3>3. QED BY <3>1, <3>2
  <2>2. QED BY <2>1 DEF MailInv, Resting
<1>5. \A v \in Worker : ~At(v, "tx")'
  <2>1. \A v \in Worker \ {w} : att'[v] = att[v]
    BY <1>1 DEF Goto, TypeOK, AttOK
  <2>2. att'[w].pc = pc
    BY <1>1 DEF Goto, TypeOK, AttOK, Att
  <2>3. QED BY <1>1, <2>1, <2>2 DEF At, QuotaInv
<1>6. Quota > 0 => Used' <= Quota
  <2>1. Quota \in Nat /\ Used \in Nat
    BY <1>1, UsedType, BoundsAssumption DEF BoundsAssumption
  <2>2. CASE first
    <3>1. Used' \in Nat /\ Used' <= Used + 1
      BY <1>1, <1>3, UsedType
    <3>2. Quota > 0 => Used + 1 <= Quota
      BY <1>1, <2>2 DEF QuotaInv
    <3>3. QED BY <2>1, <3>1, <3>2
  <2>3. CASE ~first
    <3>1. KeepsMails
      BY <1>3, <2>3 DEF KeepsMails
    <3>2. QED BY <1>1, <3>1, UsedType DEF QuotaInv
  <2>4. QED BY <2>2, <2>3
<1>7. QuotaInv'
  BY <1>5, <1>6 DEF QuotaInv
<1>8. QED BY <1>4, <1>7

\* Opening a transaction takes the lock, and checks the room if it has to insert.
LEMMA BeginStep ==
  ASSUME IInv, NEW w \in Worker, BeginTx(w)
  PROVE  MailInv' /\ QuotaInv'
<1> DEFINE j == att[w].job
<1>1. TypeOK /\ MailInv /\ QuotaInv
  BY DEF IInv
<1>2. UNCHANGED <<row, mail, attached, owner, copies>>
  BY DEF BeginTx, store, history
<1>3. MailInv'
  BY <1>1, <1>2 DEF MailInv, Stored
<1>4. KeepsMails
  BY <1>2 DEF KeepsMails, Stored
<1>5. Used' = Used
  BY <1>1, <1>4, UsedType
<1>6. \A v \in Worker : /\ att'[v].job = att[v].job
                        /\ At(v, "tx")' => v = w /\ (row[j].message \/ HasRoom)
  <2>1. \A v \in Worker : ~At(v, "tx")
    BY DEF BeginTx, MailboxLocked
  <2>2. \A v \in Worker : att'[v].job = att[v].job /\ (v # w => att'[v] = att[v])
    BY <1>1 DEF BeginTx, Goto, TypeOK, AttOK, Att
  <2>3. At(w, "tx")' => row[j].message \/ HasRoom
    BY <1>1 DEF BeginTx, Goto, At, TypeOK, AttOK, Att
  <2>4. QED BY <2>1, <2>2, <2>3 DEF At
<1>7. HasRoom /\ Quota > 0 => Used + 1 <= Quota
  BY BoundsAssumption DEF BoundsAssumption, HasRoom
<1>8. QuotaInv'
  BY <1>1, <1>2, <1>5, <1>6, <1>7 DEF QuotaInv
<1>9. QED BY <1>3, <1>8

\* The owner moves messages and deletes them, but adds none.
LEMMA OwnerStep ==
  ASSUME IInv, NEW j \in Job, UserStarts(j) \/ UserFinishes(j)
  PROVE  MailInv' /\ QuotaInv'
<1> USE DEF history, bounds
<1>1. TypeOK /\ MailInv /\ OwnerOK
  BY DEF IInv, TypeOK
<1>2. UNCHANGED <<row, att, copies>>
  BY DEF UserStarts, UserFinishes, UserMoveFile, UserDeleteFiles, UserMoveRow, UserDeleteRow
<1>3. KeepsIds /\ KeepsTx
  BY <1>2 DEF KeepsIds, KeepsTx, At
<1>4. CASE UserStarts(j)
  <2>1. Stored(j) /\ UNCHANGED mail
    BY <1>4 DEF UserStarts, UserMoveFile, UserDeleteFiles, UserOp
  <2>2. \A i \in Job : Stored(i)' <=> Stored(i)
    BY <2>1 DEF Stored
  <2>3. /\ \A i \in Job \ {j} : owner'[i] = owner[i]
        /\ \/ owner'[j].pc = "deleting" /\ attached' = attached \ {j}
           \/ owner[j] = Resting /\ attached' = attached
    BY <1>1, <1>4 DEF UserStarts, UserMoveFile, UserDeleteFiles, UserOp, OwnerOK
  <2>4. MailInv'
    BY <1>1, <1>2, <2>1, <2>2, <2>3 DEF MailInv, Resting
  <2>5. QED BY <1>3, <2>2, <2>4, FrameQuota
<1>5. CASE UserMoveRow(j)
  <2>1. owner[j].target[1] # "absent"
    BY <1>1, <1>5 DEF UserMoveRow, OwnerOK, File, Folder
  <2>2. \A i \in Job : Stored(i)' <=> Stored(i)
    <3>1. CASE Stored(j)
      BY <1>1, <1>5, <2>1, <3>1 DEF UserMoveRow, MoveRow, Stored, TypeOK
    <3>2. CASE ~Stored(j)
      BY <1>5, <3>2 DEF UserMoveRow, MoveRow, Stored
    <3>3. QED BY <3>1, <3>2
  <2>3. /\ \A i \in Job \ {j} : owner'[i] = owner[i]
        /\ owner[j].pc = "moving" /\ owner'[j] = Resting /\ UNCHANGED attached
    BY <1>1, <1>5 DEF UserMoveRow, OwnerOK
  <2>4. MailInv'
    BY <1>1, <1>2, <2>2, <2>3 DEF MailInv, Resting
  <2>5. QED BY <1>3, <2>2, <2>4, FrameQuota
<1>6. CASE UserDeleteRow(j)
  <2>1. \A i \in Job : Stored(i)' => Stored(i) /\ i # j
    BY <1>1, <1>6 DEF UserDeleteRow, Stored, TypeOK
  <2>2. /\ \A i \in Job \ {j} : owner'[i] = owner[i]
        /\ owner'[j] = Resting /\ UNCHANGED attached
    BY <1>1, <1>6 DEF UserDeleteRow, OwnerOK
  <2>3. MailInv'
    BY <1>1, <1>2, <2>1, <2>2 DEF MailInv
  <2>4. QED BY <1>3, <2>1, <2>3, FrameQuota
<1>7. QED BY <1>4, <1>5, <1>6 DEF UserFinishes

\* The invariant is inductive.
LEMMA IInvStep == IInv /\ [Next]_vars => IInv'
<1> SUFFICES ASSUME IInv, [Next]_vars PROVE IInv'
  OBVIOUS
<1>1. TypeOK' /\ TypeOK /\ MailInv
  BY TypeStep DEF IInv
<1>2. ASSUME KeepsIds, KeepsMails, KeepsTx, UNCHANGED <<attached, owner, copies>>
      PROVE  MailInv' /\ QuotaInv'
  <2>1. MailInv'
    BY <1>1, <1>2, FrameMail
  <2>2. QuotaInv'
    BY <1>2, FrameQuota DEF KeepsMails
  <2>3. QED BY <2>1, <2>2
<1>3. ASSUME NEW w \in Worker, Attempt(w) \/ Breaks(w) PROVE MailInv' /\ QuotaInv'
  <2>1. CASE Plain(w)
    BY <1>1, <1>2, <2>1, PlainKeeps
  <2>2. CASE BeginTx(w)
    BY <2>2, BeginStep
  <2>3. CASE CommitTx(w)
    BY <2>3, InsertStep DEF CommitTx
  <2>4. CASE CommitUnknown(w)
    BY <2>4, InsertStep DEF CommitUnknown
  <2>5. QED BY <1>3, <2>1, <2>2, <2>3, <2>4 DEF Attempt, Breaks, Plain
<1>4. ASSUME NEW j \in Job,
             \/ \E w \in Worker : Claim(w, j)
             \/ Enqueue(j) \/ Prune(j) \/ LeaseExpires(j) \/ BecomesDue(j)
      PROVE  MailInv' /\ QuotaInv'
  BY <1>1, <1>2, <1>4, JobStepKeeps
<1>5. ASSUME NEW j \in Job, UserStarts(j) \/ UserFinishes(j) PROVE MailInv' /\ QuotaInv'
  BY <1>5, OwnerStep
<1>6. ASSUME UNCHANGED vars PROVE MailInv' /\ QuotaInv'
  <2>1. KeepsIds /\ KeepsMails /\ KeepsTx /\ UNCHANGED <<attached, owner, copies>>
    BY <1>6 DEF vars, KeepsIds, KeepsMails, KeepsTx, Stored, At
  <2>2. QED BY <1>2, <2>1
<1>7. MailInv' /\ QuotaInv'
  BY <1>3, <1>4, <1>5, <1>6 DEF Next
<1>8. QED BY <1>1, <1>7 DEF IInv

LEMMA IInvHolds == Spec => []IInv
<1>1. Init => TypeOK
  BY BoundsAssumption
  DEF BoundsAssumption, Init, TypeOK, AttOK, OwnerOK, NewRow, NewMail, Row, Status, Mail,
      Att, PC, IdleAtt, Owner, Resting
<1>2. Init => MailInv
  BY DEF Init, MailInv, NewRow, NewMail, Stored, Resting
<1>3. Init => QuotaInv
  <2> SUFFICES ASSUME Init PROVE QuotaInv
    OBVIOUS
  <2>1. {j \in Job : Stored(j)} = {}
    BY DEF Init, NewMail, Stored
  <2>2. Used = 0
    BY <2>1, FS_EmptySet DEF Used
  <2>3. \A w \in Worker : ~At(w, "tx")
    BY DEF Init, IdleAtt, At
  <2>4. QED BY <2>2, <2>3, BoundsAssumption DEF BoundsAssumption, QuotaInv
<1>4. Init => IInv
  BY <1>1, <1>2, <1>3 DEF IInv
<1>5. QED BY <1>4, IInvStep, PTL DEF Spec

\* Retries, takeovers and resumptions never insert the message of a job twice.
THEOREM NeverInsertedTwice == Spec => []InsertedOnce
<1>1. IInv => InsertedOnce
  BY DEF IInv, MailInv, InsertedOnce
<1>2. QED BY <1>1, IInvHolds, PTL

\* A message in the mailbox has its attachment files.
THEOREM AttachmentsStay == Spec => []StoredWithAttachments
<1>1. IInv => StoredWithAttachments
  BY DEF IInv, MailInv, StoredWithAttachments
<1>2. QED BY <1>1, IInvHolds, PTL

\* However many jobs are delivered at once, the mailbox keeps its quota.
THEOREM QuotaNeverOverdrawn == Spec => []QuotaKept
<1>1. IInv => QuotaKept
  BY DEF IInv, QuotaInv, QuotaKept
<1>2. QED BY <1>1, IInvHolds, PTL

-----------------------------------------------------------------------------
(* Which attempts may still change what *)

\* Only a job in progress has a lease token, and a delivered one has its message.
RowOK(j) ==
  /\ row[j].token # Nobody => row[j].status = "sending"
  /\ row[j].status = "delivered" => row[j].message

\* Behind the transaction the message was inserted; controls move it to "spam".
ProgressOK(w) ==
  /\ att[w].pc \in {"write", "file", "path", "finish", "controls", "spamFile", "spamRow"}
       => row[att[w].job].message
  /\ att[w].pc = "spamRow" => att[w].target[1] = "spam"

OwnerTargets(j) == owner[j].pc = "moving" => owner[j].target[1] = "archive"

\* The file of the message is recorded, if the message is still there.
Recorded(j) == ~Stored(j) \/ mail[j].path # NoFile

\* An attempt that still has to take a message of a blocked sender to "spam".
Controlling(j) == \E w \in Worker : att[w].job = j /\ att[w].pc \in {"controls", "spamFile", "spamRow"}

DeliveredOK(j) ==
  /\ row[j].status = "delivered" => Recorded(j)
  /\ \A w \in Worker : att[w].job = j /\ att[w].pc = "finish" => Recorded(j)
  /\ row[j].status = "delivered" /\ j \in Blocked /\ j \notin skipped /\ mail[j].folder = "inbox"
       => Controlling(j)

ControlInv ==
  /\ \A j \in Job : RowOK(j) /\ OwnerTargets(j) /\ DeliveredOK(j)
  /\ \A w \in Worker : ProgressOK(w)

\* What the helpers write into a row.
LEMMA RowFacts ==
  ASSUME NEW r \in Row
  PROVE  /\ \A w \in Worker : Claimed(r, w).status = "sending" /\ Claimed(r, w).message = r.message
         /\ \A s \in Status : /\ Released(r, s).status = s /\ Released(r, s).token = Nobody
                              /\ Released(r, s).message = r.message
                              /\ [Released(r, s) EXCEPT !.due = FALSE].status = s
                              /\ [Released(r, s) EXCEPT !.due = FALSE].token = Nobody
                              /\ [Released(r, s) EXCEPT !.due = FALSE].message = r.message
BY DEF Claimed, Released, Row

\* What a step of an attempt does to it, and to no other.
LEMMA AttFacts ==
  ASSUME TypeOK, NEW w \in Worker
  PROVE  /\ \A pc : Goto(w, pc) => /\ att'[w].pc = pc /\ att'[w].job = att[w].job
                                   /\ att'[w].target = att[w].target
                                   /\ \A v \in Worker : v # w => att'[v] = att[v]
         /\ Done(w) => att'[w] = IdleAtt /\ \A v \in Worker : v # w => att'[v] = att[v]
<1>1. att \in [Worker -> Att] /\ att[w] \in Att
  BY DEF TypeOK, AttOK
<1>2. QED BY <1>1 DEF Goto, Done, Att

\* The row of a job: who writes its status.
RowMove(j) ==
  \/ /\ row'[j].status = row[j].status /\ row'[j].token = row[j].token
     /\ row'[j].message = row[j].message
  \/ /\ row'[j].status = row[j].status /\ row'[j].token = row[j].token /\ row'[j].message
     /\ \E w \in Worker : At(w, "tx") /\ att[w].job = j
  \/ row'[j].status = "sending" /\ row'[j].message = row[j].message
  \/ /\ row'[j].status \in {"queued", "failed", "gone"} /\ row'[j].token = Nobody
     /\ row'[j].message = row[j].message
  \/ /\ row'[j].status = "delivered" /\ row'[j].token = Nobody /\ row'[j].message = row[j].message
     /\ \E w \in Worker : att[w].job = j /\ At(w, "finish") /\ Goto(w, "controls")
     /\ UNCHANGED <<mail, owner, skipped>>

LEMMA RowMoves ==
  ASSUME TypeOK, \A j \in Job : RowOK(j), Next, NEW j \in Job
  PROVE  RowMove(j)
<1> USE DEF store, history, bounds
<1>a. row[j] \in Row /\ row \in [Job -> Row]
  BY DEF TypeOK
<1>b. UNCHANGED row => RowMove(j)
  BY DEF RowMove
<1>c. \A w \in Worker : att[w].pc # "idle" => att[w].job \in Job
  BY AttemptHasJob
<1>1. ASSUME NEW w \in Worker, Finish(w) PROVE RowMove(j)
  <2>1. CASE ~Owns(w)
    BY <1>1, <1>b, <2>1 DEF Finish
  <2>2. CASE Owns(w)
    <3>1. row' = [row EXCEPT ![att[w].job] = Released(row[att[w].job], "delivered")] /\ Goto(w, "controls")
      BY <1>1, <2>2 DEF Finish
    <3>2. CASE att[w].job # j
      BY <3>1, <3>2, <1>a DEF RowMove
    <3>3. CASE att[w].job = j
      <4>1. row'[j] = Released(row[j], "delivered")
        BY <3>1, <3>3, <1>a
      <4>2. row'[j].status = "delivered" /\ row'[j].token = Nobody /\ row'[j].message = row[j].message
        BY <4>1, <1>a, RowFacts DEF Status
      <4>3. QED BY <4>2, <3>1, <3>3, <1>1 DEF RowMove, Finish
    <3>4. QED BY <3>2, <3>3
  <2>3. QED BY <2>1, <2>2
<1>2. ASSUME NEW w \in Worker, Reschedule(w) PROVE RowMove(j)
  <2>1. CASE ~Owns(w)
    BY <1>2, <1>b, <2>1 DEF Reschedule
  <2>2. CASE Owns(w)
    <3>1. PICK s \in {"failed", "queued"} :
            row' = [row EXCEPT ![att[w].job] = [Released(row[att[w].job], s) EXCEPT !.due = FALSE]]
      BY <1>2, <2>2, <1>c DEF Reschedule, TypeOK, At
    <3>2. CASE att[w].job # j
      BY <3>1, <3>2, <1>a DEF RowMove
    <3>3. CASE att[w].job = j
      <4>1. row'[j] = [Released(row[j], s) EXCEPT !.due = FALSE]
        BY <3>1, <3>3, <1>a
      <4>2. row'[j].status = s /\ row'[j].token = Nobody /\ row'[j].message = row[j].message
        BY <4>1, <1>a, RowFacts DEF Status
      <4>3. QED BY <4>2 DEF RowMove
    <3>4. QED BY <3>2, <3>3
  <2>3. QED BY <2>1, <2>2
<1>3. ASSUME NEW w \in Worker, Inserted(w), At(w, "tx") PROVE RowMove(j)
  <2>1. row' = [row EXCEPT ![att[w].job] = [row[att[w].job] EXCEPT !.live = TRUE, !.message = TRUE]]
    BY <1>3, <1>a, <1>c DEF Inserted, At
  <2>2. CASE att[w].job # j
    BY <2>1, <2>2, <1>a DEF RowMove
  <2>3. CASE att[w].job = j
    <3>1. row'[j] = [row[j] EXCEPT !.live = TRUE, !.message = TRUE]
      BY <2>1, <2>3, <1>a
    <3>2. row'[j].status = row[j].status /\ row'[j].token = row[j].token /\ row'[j].message
      BY <3>1, <1>a DEF Row
    <3>3. QED BY <3>2, <2>3, <1>3 DEF RowMove
  <2>4. QED BY <2>2, <2>3
<1>4. ASSUME NEW w \in Worker, NEW i \in Job, Claim(w, i) PROVE RowMove(j)
  <2>1. row' = [row EXCEPT ![i] = Claimed(row[i], w)]
    BY <1>4 DEF Claim
  <2>2. CASE i # j
    BY <2>1, <2>2, <1>a DEF RowMove
  <2>3. CASE i = j
    BY <2>1, <2>3, <1>a, RowFacts DEF RowMove
  <2>4. QED BY <2>2, <2>3
<1>5. ASSUME NEW i \in Job, Enqueue(i) \/ Prune(i) PROVE RowMove(j)
  <2>1. CASE i # j
    BY <1>5, <2>1, <1>a DEF Enqueue, Prune, RowMove
  <2>2. CASE i = j
    <3>1. row[j].token = Nobody
      BY <1>5, <2>2 DEF Enqueue, Prune, RowOK
    <3>2. /\ row'[j].status \in {"queued", "gone"} /\ row'[j].token = row[j].token
          /\ row'[j].message = row[j].message
      BY <1>5, <2>2, <1>a DEF Enqueue, Prune, Row
    <3>3. QED BY <3>1, <3>2 DEF RowMove
  <2>3. QED BY <2>1, <2>2
<1>6. ASSUME NEW i \in Job, LeaseExpires(i) \/ BecomesDue(i) PROVE RowMove(j)
  BY <1>6, <1>a DEF LeaseExpires, BecomesDue, RowMove, Row
<1>7. CASE UNCHANGED row
  BY <1>7, <1>b
<1>8. QED
  <2>1. ASSUME NEW w \in Worker, Attempt(w) PROVE RowMove(j)
    BY <2>1, <1>1, <1>2, <1>3, <1>7 DEF Attempt, BeginTx, CommitTx, WriteRead, WriteFile, WritePath,
       Controls, SpamFile, SpamRow
  <2>2. ASSUME NEW w \in Worker, Breaks(w) PROVE RowMove(j)
    BY <2>2, <1>3, <1>7 DEF Breaks, CommitUnknown, Fails, Interrupted
  <2>3. ASSUME NEW i \in Job, UserStarts(i) \/ UserFinishes(i) PROVE RowMove(j)
    BY <2>3, <1>7 DEF UserStarts, UserFinishes, UserMoveFile, UserMoveRow, UserDeleteFiles, UserDeleteRow
  <2>4. QED BY <2>1, <2>2, <2>3, <1>4, <1>5, <1>6 DEF Next

\* The message of a job: who writes its place.
MailMove(j) ==
  \/ mail'[j] = mail[j]
  \/ ~row[j].message
  \/ ~Stored(j)'
  \/ /\ Stored(j) /\ mail'[j].path # NoFile
     /\ mail'[j].folder = mail[j].folder \/ mail'[j].folder \in {"spam", "archive"}

LEMMA MailMoves ==
  ASSUME TypeOK, ControlInv, Next, NEW j \in Job
  PROVE  MailMove(j)
<1> USE DEF store, history, bounds
<1>a. mail[j] \in Mail /\ mail \in [Job -> Mail]
  BY DEF TypeOK
<1>b. \A t \in File : t # NoFile
  BY DEF File, NoFile, Folder
<1>c. \A w \in Worker : /\ att[w].pc # "idle" => att[w].job \in Job
                        /\ att[w].pc \in {"file", "path", "spamRow"} => att[w].target \in File
  BY AttemptHasJob DEF TypeOK, AttOK
<1>1. ASSUME NEW w \in Worker, Inserted(w), At(w, "tx") PROVE MailMove(j)
  BY <1>1, <1>a DEF Inserted, MailMove
<1>2. ASSUME NEW w \in Worker, WritePath(w) PROVE MailMove(j)
  <2>1. att[w].target \in File /\ att[w].target # NoFile
    BY <1>2, <1>b, <1>c DEF WritePath, At
  <2>2. CASE Stored(att[w].job) /\ att[w].job = j
    <3>1. mail'[j] = [mail[j] EXCEPT !.path = att[w].target]
      BY <1>2, <2>2, <1>a DEF WritePath
    <3>2. mail'[j].path = att[w].target /\ mail'[j].folder = mail[j].folder
      BY <3>1, <1>a DEF Mail
    <3>3. QED BY <3>2, <2>1, <2>2 DEF MailMove
  <2>3. CASE ~Stored(att[w].job) \/ att[w].job # j
    BY <1>2, <2>3, <1>a DEF WritePath, MailMove
  <2>4. QED BY <2>2, <2>3
<1>3. ASSUME NEW i \in Job, NEW t \in File, MoveRow(i, t), t[1] \in {"spam", "archive"} PROVE MailMove(j)
  <2>1. CASE Stored(i) /\ i = j
    <3>1. mail'[j] = [folder |-> t[1], path |-> t]
      BY <1>3, <2>1, <1>a DEF MoveRow
    <3>2. QED BY <3>1, <2>1, <1>3, <1>b DEF MailMove
  <2>2. CASE ~Stored(i) \/ i # j
    BY <1>3, <2>2, <1>a DEF MoveRow, MailMove
  <2>3. QED BY <2>1, <2>2
<1>4. ASSUME NEW w \in Worker, SpamRow(w) PROVE MailMove(j)
  <2>1. att[w].target \in File /\ att[w].target[1] = "spam" /\ att[w].job \in Job
    BY <1>4, <1>c DEF SpamRow, At, ControlInv, ProgressOK
  <2>2. QED BY <1>3, <1>4, <2>1 DEF SpamRow
<1>5. ASSUME NEW i \in Job, UserMoveRow(i) PROVE MailMove(j)
  <2>1. owner[i].target \in File /\ owner[i].target[1] = "archive"
    BY <1>5 DEF UserMoveRow, ControlInv, OwnerTargets, TypeOK, OwnerOK
  <2>2. QED BY <1>3, <1>5, <2>1 DEF UserMoveRow
<1>6. ASSUME NEW i \in Job, UserDeleteRow(i) PROVE MailMove(j)
  BY <1>6, <1>a DEF UserDeleteRow, MailMove, Stored
<1>7. CASE UNCHANGED mail
  BY <1>7 DEF MailMove
<1>8. QED
  <2>1. ASSUME NEW w \in Worker, Attempt(w) PROVE MailMove(j)
    BY <2>1, <1>1, <1>2, <1>4, <1>7 DEF Attempt, BeginTx, CommitTx, WriteRead, WriteFile, Finish,
       Reschedule, Controls, SpamFile
  <2>2. ASSUME NEW w \in Worker, Breaks(w) PROVE MailMove(j)
    BY <2>2, <1>1, <1>7 DEF Breaks, CommitUnknown, Fails, Interrupted
  <2>3. ASSUME NEW i \in Job, UserStarts(i) \/ UserFinishes(i) PROVE MailMove(j)
    BY <2>3, <1>5, <1>6, <1>7 DEF UserStarts, UserFinishes, UserMoveFile, UserDeleteFiles
  <2>4. QED BY <2>1, <2>2, <2>3, <1>7 DEF Next, Claim, Enqueue, Prune, LeaseExpires, BecomesDue

\* An attempt: how it gets behind its transaction.
Behind == {"write", "file", "path", "finish", "controls", "spamFile", "spamRow"}
AttMove(v) ==
  \/ att'[v] = att[v]
  \/ att'[v].pc \in {"idle", "claimed", "tx", "failing"}
  \/ /\ att'[v].job = att[v].job
     /\ \/ att'[v].pc = "write" /\ row'[att[v].job].message
        \/ att'[v].pc = "finish" /\ att[v].pc \in Behind /\ Recorded(att[v].job)'
        \/ att'[v].pc \in {"file", "path", "controls", "spamFile"} /\ att[v].pc \in Behind
        \/ att'[v].pc = "spamRow" /\ att[v].pc \in Behind /\ att'[v].target[1] = "spam"

LEMMA AttMoves ==
  ASSUME TypeOK, Next, NEW v \in Worker
  PROVE  AttMove(v)
<1> USE DEF store, history, bounds
<1>a. att \in [Worker -> Att]
  BY DEF TypeOK, AttOK
<1>b. ASSUME NEW w \in Worker, NEW pc, Goto(w, pc), pc \in {"claimed", "tx", "failing"} \/ v # w
      PROVE  AttMove(v)
  BY <1>b, AttFacts DEF AttMove
<1>c. ASSUME NEW w \in Worker, Done(w) PROVE AttMove(v)
  BY <1>c, AttFacts DEF AttMove, IdleAtt
<1>d. \A w \in Worker : att[w].pc # "idle" => att[w].job \in Job
  BY AttemptHasJob
<1>e. \A t \in File : t # NoFile
  BY DEF File, NoFile, Folder
<1>f. CASE UNCHANGED att
  BY <1>f DEF AttMove
<1>1. ASSUME NEW w \in Worker, BeginTx(w) PROVE AttMove(v)
  BY <1>1, <1>b DEF BeginTx
<1>2. ASSUME NEW w \in Worker, CommitTx(w) PROVE AttMove(v)
  <2>1. CASE v # w
    BY <1>2, <2>1, <1>b DEF CommitTx
  <2>2. CASE v = w
    <3>1. att'[w].pc = "write" /\ att'[w].job = att[w].job
      BY <1>2, AttFacts DEF CommitTx
    <3>2. att[w].job \in Job
      BY <1>2, <1>d DEF CommitTx, At
    <3>3. row'[att[w].job].message
      BY <1>2, <3>2 DEF CommitTx, Inserted, TypeOK, Row
    <3>4. QED BY <3>1, <3>3, <2>2 DEF AttMove
  <2>3. QED BY <2>1, <2>2
<1>3. ASSUME NEW w \in Worker, WriteRead(w) PROVE AttMove(v)
  <2> DEFINE j == att[w].job
  <2>a. j \in Job
    BY <1>3, <1>d DEF WriteRead, At
  <2>1. CASE Goto(w, "failing")
    BY <2>1, <1>b
  <2>2. CASE Goto(w, "finish") /\ mail[j].path \in files[j]
    <3>1. CASE v # w
      BY <2>2, <3>1, <1>b
    <3>2. CASE v = w
      <4>1. att'[w].pc = "finish" /\ att'[w].job = j
        BY <2>2, AttFacts
      <4>2. mail[j].path # NoFile /\ UNCHANGED mail
        BY <1>3, <2>2, <2>a, <1>e DEF WriteRead, TypeOK
      <4>3. Recorded(j)'
        BY <4>2, <4>1 DEF Recorded
      <4>4. QED BY <4>1, <4>3, <1>3, <3>2 DEF AttMove, Behind, WriteRead, At
    <3>3. QED BY <3>1, <3>2
  <2>3. CASE att' = [att EXCEPT ![w].pc = "file", ![w].target = <<mail[j].folder, Filename(w)>>]
    <3>1. CASE v # w
      BY <2>3, <3>1, <1>a DEF AttMove
    <3>2. CASE v = w
      <4>1. att'[w].pc = "file" /\ att'[w].job = j
        BY <2>3, <1>a DEF Att
      <4>2. QED BY <4>1, <1>3, <3>2 DEF AttMove, Behind, WriteRead, At
    <3>3. QED BY <3>1, <3>2
  <2>4. QED BY <1>3, <2>1, <2>2, <2>3 DEF WriteRead
<1>4. ASSUME NEW w \in Worker, WriteFile(w) \/ Controls(w) PROVE AttMove(v)
  <2>1. CASE Done(w)
    BY <2>1, <1>c
  <2>2. CASE v # w
    BY <1>4, <2>2, <1>b, <1>c DEF WriteFile, Controls
  <2>3. ASSUME NEW pc \in {"path", "spamFile"}, Goto(w, pc), v = w PROVE AttMove(v)
    <3>1. att'[w].pc = pc /\ att'[w].job = att[w].job
      BY <2>3, AttFacts
    <3>2. QED BY <3>1, <2>3, <1>4 DEF AttMove, Behind, WriteFile, Controls, At
  <2>4. QED BY <1>4, <2>1, <2>2, <2>3 DEF WriteFile, Controls
<1>5. ASSUME NEW w \in Worker, WritePath(w) PROVE AttMove(v)
  <2>1. CASE v # w
    BY <1>5, <2>1, <1>b DEF WritePath
  <2>2. CASE v = w
    <3> DEFINE j == att[w].job
    <3>a. j \in Job /\ att[w].target \in File
      BY <1>5, <1>d DEF WritePath, At, TypeOK, AttOK
    <3>1. att'[w].pc = "finish" /\ att'[w].job = j
      BY <1>5, AttFacts DEF WritePath
    <3>2. Recorded(j)'
      <4>1. CASE Stored(j)
        <5>1. mail'[j].path = att[w].target
          BY <1>5, <3>a, <4>1 DEF WritePath, TypeOK, Mail
        <5>2. QED BY <5>1, <3>a, <3>1, <1>e DEF Recorded
      <4>2. CASE ~Stored(j)
        BY <1>5, <3>1, <4>2 DEF WritePath, Recorded, Stored
      <4>3. QED BY <4>1, <4>2
    <3>3. QED BY <3>1, <3>2, <1>5, <2>2 DEF AttMove, Behind, WritePath, At
  <2>3. QED BY <2>1, <2>2
<1>6. ASSUME NEW w \in Worker, Finish(w) PROVE AttMove(v)
  <2>1. CASE Done(w)
    BY <2>1, <1>c
  <2>2. CASE Goto(w, "controls")
    <3>1. CASE v # w
      BY <2>2, <3>1, <1>b
    <3>2. CASE v = w
      BY <1>6, <2>2, <3>2, AttFacts DEF AttMove, Behind, Finish, At
    <3>3. QED BY <3>1, <3>2
  <2>3. QED BY <1>6, <2>1, <2>2 DEF Finish
<1>7. ASSUME NEW w \in Worker, SpamFile(w) PROVE AttMove(v)
  <2> DEFINE t == MoveTarget(att[w].job, "spam")
  <2>1. CASE Done(w)
    BY <2>1, <1>c
  <2>2. CASE att' = [att EXCEPT ![w].pc = "spamRow", ![w].target = t]
    <3>1. CASE v # w
      BY <2>2, <3>1, <1>a DEF AttMove
    <3>2. CASE v = w
      <4>1. att'[w].pc = "spamRow" /\ att'[w].job = att[w].job /\ att'[w].target = t
        BY <2>2, <1>a DEF Att
      <4>2. t[1] = "spam"
        BY DEF MoveTarget
      <4>3. QED BY <4>1, <4>2, <1>7, <3>2 DEF AttMove, Behind, SpamFile, At
    <3>3. QED BY <3>1, <3>2
  <2>3. QED BY <1>7, <2>1, <2>2 DEF SpamFile
<1>8. ASSUME NEW w \in Worker, Reschedule(w) \/ SpamRow(w) \/ Interrupted(w) PROVE AttMove(v)
  BY <1>8, <1>c DEF Reschedule, SpamRow, Interrupted
<1>9. ASSUME NEW w \in Worker, CommitUnknown(w) \/ Fails(w) PROVE AttMove(v)
  BY <1>9, <1>b DEF CommitUnknown, Fails
<1>10. ASSUME NEW w \in Worker, NEW j \in Job, Claim(w, j) PROVE AttMove(v)
  BY <1>10, <1>a DEF Claim, AttMove
<1>11. QED
  <2>1. ASSUME NEW j \in Job, UserStarts(j) \/ UserFinishes(j) PROVE AttMove(v)
    BY <2>1, <1>f DEF UserStarts, UserFinishes, UserMoveFile, UserDeleteFiles, UserMoveRow, UserDeleteRow
  <2>2. ASSUME NEW j \in Job, Enqueue(j) \/ Prune(j) \/ LeaseExpires(j) \/ BecomesDue(j) PROVE AttMove(v)
    BY <2>2, <1>f DEF Enqueue, Prune, LeaseExpires, BecomesDue
  <2>3. QED BY <2>1, <2>2, <1>1, <1>2, <1>3, <1>4, <1>5, <1>6, <1>7, <1>8, <1>9, <1>10
            DEF Next, Attempt, Breaks

\* A step of one attempt leaves the others as they are, and nothing shrinks skipped.
LEMMA OthersStay ==
  ASSUME TypeOK, NEW w \in Worker
  PROVE  /\ \A v \in Worker : (Attempt(v) \/ Breaks(v)) /\ v # w => att'[w] = att[w]
         /\ \A v \in Worker, j \in Job : Claim(v, j) /\ v # w => att'[w] = att[w]
<1>a. att \in [Worker -> Att]
  BY DEF TypeOK, AttOK
<1>1. ASSUME NEW v \in Worker, v # w, (\E pc : Goto(v, pc)) \/ Done(v) PROVE att'[w] = att[w]
  BY <1>1, AttFacts
<1>2. ASSUME NEW v \in Worker, v # w, Attempt(v) PROVE att'[w] = att[w]
  <2>1. CASE WriteRead(v)
    BY <2>1, <1>a, <1>1, <1>2 DEF WriteRead
  <2>2. CASE SpamFile(v)
    BY <2>2, <1>a, <1>1, <1>2 DEF SpamFile
  <2>3. QED
    BY <1>1, <1>2, <2>1, <2>2
    DEF Attempt, BeginTx, CommitTx, WriteFile, WritePath, Finish, Reschedule, Controls, SpamRow
<1>3. ASSUME NEW v \in Worker, v # w, Breaks(v) PROVE att'[w] = att[w]
  BY <1>1, <1>3 DEF Breaks, CommitUnknown, Fails, Interrupted
<1>4. ASSUME NEW v \in Worker, NEW j \in Job, v # w, Claim(v, j) PROVE att'[w] = att[w]
  BY <1>4, <1>a DEF Claim
<1>5. QED BY <1>2, <1>3, <1>4

LEMMA SkippedGrows ==
  ASSUME Next PROVE skipped \subseteq skipped'
<1> USE DEF history
<1>1. ASSUME NEW w \in Worker, Attempt(w) PROVE skipped' = skipped
  BY <1>1 DEF Attempt, BeginTx, CommitTx, WriteRead, WriteFile, WritePath, Finish, Reschedule,
     Controls, SpamFile, SpamRow
<1>2. ASSUME NEW w \in Worker, Breaks(w) PROVE skipped \subseteq skipped'
  BY <1>2 DEF Breaks, CommitUnknown, Fails, Interrupted
<1>3. ASSUME NEW j \in Job, UserStarts(j) \/ UserFinishes(j) PROVE skipped' = skipped
  BY <1>3 DEF UserStarts, UserFinishes, UserMoveFile, UserDeleteFiles, UserMoveRow, UserDeleteRow
<1>4. QED BY <1>1, <1>2, <1>3 DEF Next, Claim, Enqueue, Prune, LeaseExpires, BecomesDue

\* Controls end when the message has left the inbox, or by an interruption.
LEMMA ControllingKept ==
  ASSUME TypeOK, ControlInv, Next, NEW j \in Blocked, Controlling(j)
  PROVE  Controlling(j)' \/ j \in skipped' \/ mail'[j].folder # "inbox"
<1> USE DEF store, history, bounds
<1>1. PICK w \in Worker : att[w].job = j /\ att[w].pc \in {"controls", "spamFile", "spamRow"}
  BY DEF Controlling
<1>a. j \in Job /\ mail \in [Job -> Mail] /\ att[w] \in Att /\ att \in [Worker -> Att]
  BY ConstantsAssumption DEF ConstantsAssumption, TypeOK, AttOK
<1>2. CASE att'[w] = att[w]
  BY <1>1, <1>2 DEF Controlling
<1>3. CASE Attempt(w)
  <2>1. CASE Controls(w)
    <3>1. Goto(w, "spamFile")
      BY <1>1, <2>1 DEF Controls
    <3>2. QED BY <1>1, <3>1, AttFacts DEF Controlling
  <2>2. CASE SpamFile(w)
    <3>1. CASE Stored(j)
      <4>1. att'[w].job = j /\ att'[w].pc = "spamRow"
        BY <1>1, <1>a, <2>2, <3>1 DEF SpamFile, Att
      <4>2. QED BY <4>1 DEF Controlling
    <3>2. CASE ~Stored(j)
      BY <2>2, <3>2 DEF SpamFile, Stored
    <3>3. QED BY <3>1, <3>2
  <2>3. CASE SpamRow(w)
    <3>1. att[w].target[1] = "spam"
      BY <2>3 DEF SpamRow, At, ControlInv, ProgressOK
    <3>2. CASE Stored(j)
      <4>1. mail'[j] = [folder |-> att[w].target[1], path |-> att[w].target]
        BY <1>1, <1>a, <2>3, <3>2 DEF SpamRow, MoveRow
      <4>2. QED BY <3>1, <4>1
    <3>3. CASE ~Stored(j)
      BY <1>1, <2>3, <3>3 DEF SpamRow, MoveRow, Stored
    <3>4. QED BY <3>2, <3>3
  <2>4. QED
    BY <1>1, <1>3, <2>1, <2>2, <2>3
    DEF Attempt, BeginTx, CommitTx, WriteRead, WriteFile, WritePath, Finish, Reschedule, At
<1>4. CASE Breaks(w)
  BY <1>1, <1>4 DEF Breaks, CommitUnknown, Fails, Interrupted, At
<1>5. ASSUME NEW v \in Worker, v # w, Attempt(v) \/ Breaks(v) PROVE att'[w] = att[w]
  BY <1>5, OthersStay
<1>6. ASSUME NEW v \in Worker, NEW i \in Job, Claim(v, i) PROVE att'[w] = att[w]
  <2>1. v # w
    BY <1>1, <1>6 DEF Claim, At
  <2>2. QED BY <1>6, <2>1, OthersStay
<1>7. ASSUME NEW i \in Job, UserStarts(i) \/ UserFinishes(i) PROVE att' = att
  BY <1>7 DEF UserStarts, UserFinishes, UserMoveFile, UserDeleteFiles, UserMoveRow, UserDeleteRow
<1>8. ASSUME NEW i \in Job, Enqueue(i) \/ Prune(i) \/ LeaseExpires(i) \/ BecomesDue(i) PROVE att' = att
  BY <1>8 DEF Enqueue, Prune, LeaseExpires, BecomesDue
<1>9. QED BY <1>2, <1>3, <1>4, <1>5, <1>6, <1>7, <1>8 DEF Next

\* What was recorded stays recorded, and what left the inbox does not come back.
LEMMA MailLasts ==
  ASSUME NEW j \in Job, MailMove(j), row[j].message
  PROVE  /\ Recorded(j) => Recorded(j)'
         /\ mail'[j].folder = "inbox" => mail[j].folder = "inbox"
BY DEF MailMove, Recorded, Stored

LEMMA OwnerTargetsStep ==
  ASSUME TypeOK, \A i \in Job : OwnerTargets(i), Next, NEW j \in Job
  PROVE  OwnerTargets(j)'
<1> USE DEF store, history, bounds
<1>a. owner \in [Job -> Owner]
  BY DEF TypeOK, OwnerOK
<1>1. ASSUME NEW i \in Job, UserMoveFile(i) PROVE OwnerTargets(j)'
  <2>1. owner' = [owner EXCEPT ![i] = [pc |-> "moving", target |-> MoveTarget(i, "archive")]]
    BY <1>1 DEF UserMoveFile
  <2>2. MoveTarget(i, "archive")[1] = "archive"
    BY DEF MoveTarget
  <2>3. CASE i = j
    BY <2>1, <2>2, <2>3, <1>a DEF OwnerTargets
  <2>4. CASE i # j
    BY <2>1, <2>4, <1>a DEF OwnerTargets
  <2>5. QED BY <2>3, <2>4
<1>2. ASSUME NEW i \in Job, UserDeleteFiles(i) \/ UserFinishes(i) PROVE OwnerTargets(j)'
  BY <1>2, <1>a DEF UserDeleteFiles, UserFinishes, UserMoveRow, UserDeleteRow, OwnerTargets, Resting
<1>3. CASE UNCHANGED owner
  BY <1>3 DEF OwnerTargets
<1>4. QED
  <2>1. ASSUME NEW w \in Worker, Attempt(w) \/ Breaks(w) PROVE UNCHANGED owner
    BY <2>1 DEF Attempt, BeginTx, CommitTx, WriteRead, WriteFile, WritePath, Finish, Reschedule,
       Controls, SpamFile, SpamRow, Breaks, CommitUnknown, Fails, Interrupted
  <2>2. QED BY <2>1, <1>1, <1>2, <1>3
            DEF Next, UserStarts, Claim, Enqueue, Prune, LeaseExpires, BecomesDue

LEMMA ControlStep ==
  ASSUME TypeOK, ControlInv, Next
  PROVE  ControlInv'
<1>a. \A j \in Job : RowOK(j) /\ OwnerTargets(j) /\ DeliveredOK(j)
  BY DEF ControlInv
<1>b. \A w \in Worker : ProgressOK(w) /\ AttMove(w)
  BY AttMoves DEF ControlInv
<1>c. \A j \in Job : RowMove(j) /\ MailMove(j) /\ OwnerTargets(j)'
  BY <1>a, RowMoves, MailMoves, OwnerTargetsStep
<1>d. \A w \in Worker : att[w].pc # "idle" => att[w].job \in Job
  BY AttemptHasJob
<1>1. ASSUME NEW j \in Job PROVE RowOK(j)' /\ (row[j].message => row'[j].message)
  <2>1. row[j].message => row'[j].message
    BY <1>c DEF RowMove
  <2>2. RowOK(j)'
    <3>1. RowOK(j) /\ RowMove(j)
      BY <1>a, <1>c
    <3>2. row'[j].token # Nobody => row'[j].status = "sending"
      BY <3>1 DEF RowMove, RowOK
    <3>3. CASE row'[j].status = row[j].status
      BY <3>1, <3>2, <3>3, <2>1 DEF RowOK
    <3>4. CASE row'[j].status = "delivered" /\ \E w \in Worker : att[w].job = j /\ At(w, "finish")
      <4>1. row[j].message
        BY <3>4, <1>b DEF At, ProgressOK
      <4>2. QED BY <4>1, <3>2, <2>1 DEF RowOK
    <3>5. QED BY <3>1, <3>2, <3>3, <3>4 DEF RowMove, RowOK
  <2>3. QED BY <2>1, <2>2
<1>2. ASSUME NEW w \in Worker PROVE ProgressOK(w)'
  <2>1. CASE att'[w] = att[w]
    BY <1>1, <1>b, <1>d, <2>1 DEF ProgressOK
  <2>2. CASE att'[w].pc \in {"idle", "claimed", "tx", "failing"}
    BY <2>2 DEF ProgressOK
  <2>3. CASE att'[w].job = att[w].job /\ att'[w].pc = "write" /\ row'[att[w].job].message
    BY <2>3 DEF ProgressOK
  <2>4. CASE /\ att'[w].job = att[w].job /\ att[w].pc \in Behind
             /\ att'[w].pc = "spamRow" => att'[w].target[1] = "spam"
    <3>1. att[w].job \in Job /\ row[att[w].job].message
      BY <2>4, <1>b, <1>d DEF ProgressOK, Behind
    <3>2. QED BY <3>1, <2>4, <1>1 DEF ProgressOK
  <2>5. QED BY <1>b, <2>1, <2>2, <2>3, <2>4 DEF AttMove
<1>3. ASSUME NEW j \in Job PROVE DeliveredOK(j)'
  <2>1. ASSUME NEW w \in Worker, att'[w].job = j, att'[w].pc = "finish" PROVE Recorded(j)'
    <3>1. CASE att'[w] = att[w]
      <4>1. Recorded(j) /\ row[j].message
        BY <2>1, <3>1, <1>a, <1>b DEF DeliveredOK, ProgressOK
      <4>2. QED BY <4>1, <1>c, MailLasts
    <3>2. CASE att'[w] # att[w]
      BY <2>1, <3>2, <1>b DEF AttMove
    <3>3. QED BY <3>1, <3>2
  <2>2. CASE row'[j].status # "delivered"
    BY <2>1, <2>2 DEF DeliveredOK
  <2>3. CASE row'[j].status = "delivered" /\ row[j].status = "delivered"
    <3>1. row[j].message /\ Recorded(j)
      BY <2>3, <1>a DEF RowOK, DeliveredOK
    <3>2. Recorded(j)' /\ (mail'[j].folder = "inbox" => mail[j].folder = "inbox")
      BY <3>1, <1>c, MailLasts
    <3>3. ASSUME j \in Blocked, j \notin skipped', mail'[j].folder = "inbox" PROVE Controlling(j)'
      <4>1. j \notin skipped
        BY <3>3, SkippedGrows
      <4>2. Controlling(j)
        BY <4>1, <3>2, <3>3, <2>3, <1>a DEF DeliveredOK
      <4>3. QED BY <4>2, <3>3, ControllingKept
    <3>4. QED BY <2>1, <3>2, <3>3 DEF DeliveredOK
  <2>4. CASE row'[j].status = "delivered" /\ row[j].status # "delivered"
    <3>1. PICK w \in Worker : /\ att[w].job = j /\ At(w, "finish") /\ Goto(w, "controls")
                              /\ UNCHANGED <<mail, owner, skipped>>
      BY <2>4, <1>c DEF RowMove
    <3>2. att'[w].job = j /\ att'[w].pc = "controls"
      BY <3>1, AttFacts
    <3>3. Recorded(j)'
      BY <3>1, <1>a DEF DeliveredOK, At, Recorded, Stored
    <3>4. Controlling(j)'
      BY <3>2 DEF Controlling
    <3>5. QED BY <2>1, <3>3, <3>4 DEF DeliveredOK
  <2>5. QED BY <2>2, <2>3, <2>4
<1>4. QED BY <1>1, <1>2, <1>3, <1>c DEF ControlInv

LEMMA ControlHolds == Spec => [](TypeOK /\ ControlInv)
<1>1. Init => ControlInv
  BY DEF Init, ControlInv, RowOK, OwnerTargets, DeliveredOK, ProgressOK, NewRow, NewMail, IdleAtt,
     Resting, Recorded, Stored
<1>2. ASSUME TypeOK, ControlInv, UNCHANGED vars PROVE ControlInv'
  BY <1>2 DEF vars, ControlInv, RowOK, OwnerTargets, DeliveredOK, ProgressOK, Recorded, Stored, Controlling
<1>3. TypeOK /\ ControlInv /\ [Next]_vars => ControlInv'
  BY <1>2, ControlStep
<1>4. QED BY <1>1, <1>3, LocalTypeCorrect, PTL DEF Spec

\* Mail of a blocked sender is out of the inbox once its job is delivered and
\* nobody works on it, whatever its owner, retries and lost leases did.
THEOREM BlockedMailLeaves == Spec => []BlockedLeavesInbox
<1>1. ControlInv => BlockedLeavesInbox
  BY ConstantsAssumption
  DEF ConstantsAssumption, ControlInv, DeliveredOK, Controlling, BlockedLeavesInbox, Quiet
<1>2. QED BY <1>1, ControlHolds, PTL

-----------------------------------------------------------------------------
(* The file of a message *)

\* Where an attempt writes the file of a message, and whether it may do so
\* without anybody else at work on it.
Place(j) == <<mail[j].folder, Stable>>
Calm(j)  == Stored(j) /\ ~Moving(j)

\* Between the write and its record, every writer means the same file.
WritersOK(j) ==
  \A w \in Worker : att[w].job = j /\ att[w].pc \in {"file", "path"} =>
    /\ Calm(j) /\ att[w].target = Place(j)
    /\ mail[j].path \in {NoFile, Place(j)}
    /\ att[w].pc = "path" => Place(j) \in files[j]

\* The controls between file and row are alone, and the file is where they put it.
SpammersOK(j) ==
  \A w \in Worker : att[w].job = j /\ att[w].pc = "spamRow" =>
    /\ Stored(j) /\ owner[j] = Resting /\ files[j] = {att[w].target}
    /\ \A v \in Worker : att[v].job = j /\ att[v].pc = "spamRow" => v = w

FilesOK(j) ==
  /\ ~Stored(j) => files[j] = {} /\ owner[j] = Resting
  /\ owner[j].pc = "moving" => files[j] = {owner[j].target}
  /\ owner[j].pc = "deleting" => files[j] = {}
  /\ Calm(j) => \/ mail[j].path = NoFile /\ files[j] \subseteq {Place(j)}
                \/ mail[j].path[1] = mail[j].folder /\ files[j] = {mail[j].path}

MessageOK(j) == WritersOK(j) /\ SpammersOK(j) /\ FilesOK(j)

FileInv == \A j \in Job : j \notin tangled \cup skipped => MessageOK(j)

\* Nobody does anything to the message of a job, or gets closer to doing so.
Active == {"file", "path", "spamRow"}
StillHere(j) == mail'[j] = mail[j] /\ files'[j] = files[j] /\ owner'[j] = owner[j]
StillAtt(j) ==
  \A w \in Worker : \/ att'[w] = att[w]
                    \/ /\ att'[w].job = j => att'[w].pc \notin Active
                       /\ att[w].job = j => att[w].pc # "spamRow"

LEMMA StillKeeps ==
  ASSUME NEW j \in Job, MessageOK(j), StillHere(j), StillAtt(j)
  PROVE  MessageOK(j)'
<1>1. \A w \in Worker : /\ att'[w].job = j /\ att'[w].pc \in Active => att'[w] = att[w]
                        /\ att[w].job = j /\ att[w].pc = "spamRow" => att'[w] = att[w]
  BY DEF StillAtt
<1>2. Moving(j)' <=> Moving(j)
  BY <1>1 DEF Moving, StillHere, At, Active
<1>3. (Stored(j)' <=> Stored(j)) /\ (Calm(j)' <=> Calm(j)) /\ Place(j)' = Place(j)
  BY <1>2 DEF Stored, Calm, Place, StillHere
<1>4. FilesOK(j)'
  BY <1>3 DEF MessageOK, FilesOK, StillHere
<1>5. WritersOK(j)'
  BY <1>1, <1>3 DEF MessageOK, WritersOK, StillHere, Active
<1>6. SpammersOK(j)'
  BY <1>1, <1>3 DEF MessageOK, SpammersOK, StillHere, Active
<1>7. QED BY <1>4, <1>5, <1>6 DEF MessageOK

\* An attempt on one job leaves the messages of the others alone.
LEMMA AttemptElsewhere ==
  ASSUME TypeOK, NEW w \in Worker, Attempt(w) \/ Breaks(w), NEW j \in Job, att[w].job # j
  PROVE  StillHere(j) /\ StillAtt(j)
<1> USE DEF store, history, bounds
<1> DEFINE i == att[w].job
<1>a. /\ mail \in [Job -> Mail] /\ files \in [Job -> SUBSET File]
      /\ att \in [Worker -> Att] /\ j # NoJob
  BY ConstantsAssumption DEF ConstantsAssumption, TypeOK, AttOK
<1>1. mail'[j] = mail[j] /\ files'[j] = files[j]
  <2>1. CASE WritePath(w)
    BY <2>1, <1>a DEF WritePath
  <2>2. CASE SpamRow(w)
    BY <2>2, <1>a DEF SpamRow, MoveRow
  <2>3. CASE CommitTx(w) \/ CommitUnknown(w)
    BY <2>3, <1>a DEF CommitTx, CommitUnknown, Inserted
  <2>4. CASE WriteFile(w) \/ SpamFile(w)
    BY <2>4, <1>a DEF WriteFile, SpamFile, MoveFile
  <2>5. QED
    BY <2>1, <2>2, <2>3, <2>4
    DEF Attempt, Breaks, BeginTx, WriteRead, Finish, Reschedule, Controls, Fails, Interrupted
<1>2. owner' = owner
  BY DEF Attempt, BeginTx, CommitTx, WriteRead, WriteFile, WritePath, Finish, Reschedule,
     Controls, SpamFile, SpamRow, Breaks, CommitUnknown, Fails, Interrupted
<1>3. att'[w].job # j
  <2>1. (\E pc : Goto(w, pc)) \/ Done(w) => att'[w].job # j
    BY <1>a, AttFacts DEF IdleAtt
  <2>2. CASE WriteRead(w) \/ SpamFile(w)
    BY <2>1, <2>2, <1>a DEF WriteRead, SpamFile, Att
  <2>3. QED
    BY <2>1, <2>2
    DEF Attempt, Breaks, BeginTx, CommitTx, WriteFile, WritePath, Finish, Reschedule,
        Controls, SpamRow, CommitUnknown, Fails, Interrupted
<1>4. \A v \in Worker : v # w => att'[v] = att[v]
  BY OthersStay
<1>5. QED BY <1>1, <1>2, <1>3, <1>4 DEF StillHere, StillAtt

\* Steps of an attempt that do not touch the message of its job.
LEMMA AttemptStill ==
  ASSUME TypeOK, NEW w \in Worker, NEW j \in Job,
         (\E pc : pc \notin Active /\ Goto(w, pc)) \/ Done(w), att[w].pc # "spamRow",
         UNCHANGED <<mail, files, owner>>
  PROVE  StillHere(j) /\ StillAtt(j)
<1>1. att'[w].pc \notin Active
  BY AttFacts DEF IdleAtt, Active
<1>2. \A v \in Worker : v # w => att'[v] = att[v]
  BY AttFacts
<1>3. QED BY <1>1, <1>2 DEF StillHere, StillAtt

LEMMA TangledGrows ==
  ASSUME Next PROVE tangled \subseteq tangled'
<1> USE DEF history
<1>1. ASSUME NEW w \in Worker, Attempt(w) PROVE tangled \subseteq tangled'
  BY <1>1 DEF Attempt, BeginTx, CommitTx, WriteRead, WriteFile, WritePath, Finish, Reschedule,
     Controls, SpamFile, SpamRow, Tangle
<1>2. ASSUME NEW w \in Worker, Breaks(w) PROVE tangled \subseteq tangled'
  BY <1>2 DEF Breaks, CommitUnknown, Fails, Interrupted
<1>3. ASSUME NEW j \in Job, UserStarts(j) \/ UserFinishes(j) PROVE tangled \subseteq tangled'
  BY <1>3 DEF UserStarts, UserFinishes, UserMoveFile, UserDeleteFiles, UserMoveRow, UserDeleteRow,
     UserOp, Tangle
<1>4. QED BY <1>1, <1>2, <1>3 DEF Next, Claim, Enqueue, Prune, LeaseExpires, BecomesDue

\* Nobody writes, moves or deletes the message of a job.
Alone(j) == ~Moving(j) /\ ~Writing(j)

LEMMA AloneFacts ==
  ASSUME NEW j \in Job
  PROVE  Alone(j) <=> /\ owner[j] = Resting
                      /\ \A w \in Worker : att[w].job = j => att[w].pc \notin Active
BY DEF Alone, Moving, Writing, Active, At

\* The message a transaction inserts is new: no file, and nobody knows it yet.
LEMMA InsertMessage ==
  ASSUME TypeOK, MailInv, ControlInv, NEW w \in Worker, At(w, "tx"), Inserted(w),
         NEW pc \in {"write", "failing"}, Goto(w, pc), UNCHANGED <<files, owner>>,
         NEW j \in Job, att[w].job = j, MessageOK(j)
  PROVE  MessageOK(j)'
<1>1. j \in Job
  OBVIOUS
<1>2. /\ att'[w].pc = pc /\ \A v \in Worker : v # w => att'[v] = att[v]
  BY AttFacts
<1>3. CASE row[j].message
  <2>1. UNCHANGED mail
    BY <1>3 DEF Inserted
  <2>2. StillHere(j) /\ StillAtt(j)
    BY <1>1, <2>1, AttemptStill DEF At, Active
  <2>3. QED BY <1>1, <2>2, StillKeeps
<1>4. CASE ~row[j].message
  <2>1. ~Stored(j) /\ owner[j] = Resting /\ files[j] = {}
    BY <1>1, <1>4 DEF MailInv, MessageOK, FilesOK
  <2>2. \A v \in Worker : att'[v].job = j => att'[v].pc \notin Active
    BY <1>1, <1>2, <1>4 DEF ControlInv, ProgressOK, Active
  <2>3. mail'[j] = [folder |-> "inbox", path |-> NoFile]
    BY <1>1, <1>4 DEF Inserted, TypeOK
  <2>4. Alone(j)'
    BY <2>1, <2>2, AloneFacts DEF Alone, Moving, Writing, Active, At
  <2>5. QED BY <2>1, <2>2, <2>3, <2>4
            DEF MessageOK, WritersOK, SpammersOK, FilesOK, Active, Resting
<1>5. QED BY <1>3, <1>4

\* An attempt that decides to write the file finds the message at rest.
LEMMA WriteReadMessage ==
  ASSUME TypeOK, NEW w \in Worker, WriteRead(w), NEW j \in Job, att[w].job = j,
         MessageOK(j), j \notin tangled'
  PROVE  MessageOK(j)'
<1> USE DEF store
<1>1. j \in Job /\ att[w] \in Att /\ att \in [Worker -> Att]
  BY DEF TypeOK, AttOK
<1>2. CASE Goto(w, "failing") \/ Goto(w, "finish")
  <2>1. StillHere(j) /\ StillAtt(j)
    BY <1>1, <1>2, AttemptStill DEF WriteRead, At, Active
  <2>2. QED BY <1>1, <2>1, StillKeeps
<1>3. CASE /\ Stored(j) /\ mail[j].path \notin files[j] /\ Tangle(j, Moving(j))
           /\ att' = [att EXCEPT ![w].pc = "file", ![w].target = <<mail[j].folder, Filename(w)>>]
  <2>1. Calm(j)
    BY <1>3 DEF Tangle, Calm
  <2>2. att'[w].pc = "file" /\ att'[w].job = j /\ att'[w].target = Place(j)
    BY <1>1, <1>3 DEF Att, Place, Filename
  <2>3. \A v \in Worker : v # w => att'[v] = att[v]
    BY <1>1, <1>3
  <2>4. mail' = mail /\ files' = files /\ owner' = owner
    BY DEF WriteRead
  <2>5. mail[j].path = NoFile
    BY <2>1, <1>3 DEF MessageOK, FilesOK
  <2>6. \A v \in Worker : att'[v].job = j => att'[v].pc # "spamRow"
    BY <2>1, <2>2, <2>3 DEF Calm, Moving, At
  <2>7. Calm(j)'
    BY <2>1, <2>4, <2>6 DEF Calm, Moving, Stored, At
  <2>8. WritersOK(j)'
    <3>1. \A v \in Worker : att'[v].job = j /\ att'[v].pc \in {"file", "path"} =>
            att'[v].target = Place(j) /\ (att'[v].pc = "path" => Place(j) \in files[j])
      BY <2>2, <2>3 DEF MessageOK, WritersOK
    <3>2. QED BY <3>1, <2>4, <2>5, <2>7 DEF WritersOK, Place
  <2>9. SpammersOK(j)'
    BY <2>6 DEF SpammersOK
  <2>10. FilesOK(j)'
    BY <2>1, <2>4, <2>7 DEF MessageOK, FilesOK, Calm, Stored, Place
  <2>11. QED BY <2>8, <2>9, <2>10 DEF MessageOK
<1>4. QED BY <1>2, <1>3 DEF WriteRead

\* A writer puts the file where the message lies.
LEMMA WriteFileMessage ==
  ASSUME TypeOK, NEW w \in Worker, WriteFile(w), NEW j \in Job, att[w].job = j, MessageOK(j)
  PROVE  MessageOK(j)'
<1>1. /\ att'[w].pc = "path" /\ att'[w].job = j /\ att'[w].target = att[w].target
      /\ \A v \in Worker : v # w => att'[v] = att[v]
  BY AttFacts DEF WriteFile
<1>2. Calm(j) /\ att[w].target = Place(j) /\ mail[j].path \in {NoFile, Place(j)}
  BY DEF WriteFile, At, MessageOK, WritersOK
<1>3. mail' = mail /\ owner' = owner /\ files'[j] = files[j] \cup {Place(j)}
  BY <1>2 DEF WriteFile, TypeOK
<1>4. \A v \in Worker : att'[v].job = j => att'[v].pc # "spamRow"
  BY <1>1, <1>2 DEF Calm, Moving, At
<1>5. Calm(j)' /\ Place(j)' = Place(j)
  BY <1>2, <1>3, <1>4 DEF Calm, Moving, Stored, At, Place
<1>6. files'[j] = {Place(j)}
  <2>1. NoFile \notin files[j]
    BY DEF TypeOK, File, NoFile, Folder
  <2>2. files[j] \subseteq {Place(j)}
    BY <2>1, <1>2 DEF MessageOK, FilesOK
  <2>3. QED BY <2>2, <1>3
<1>7. WritersOK(j)'
  <2>1. \A v \in Worker : att'[v].job = j /\ att'[v].pc \in {"file", "path"} => att'[v].target = Place(j)
    BY <1>1, <1>2 DEF MessageOK, WritersOK
  <2>2. QED BY <2>1, <1>2, <1>3, <1>5, <1>6 DEF WritersOK
<1>8. FilesOK(j)'
  <2>1. owner'[j] = Resting /\ Stored(j)'
    BY <1>5 DEF Calm, Moving
  <2>2. mail'[j].path = NoFile \/ mail'[j].path = Place(j)
    BY <1>2, <1>3
  <2>3. Place(j)[1] = mail'[j].folder
    BY <1>3 DEF Place
  <2>4. QED BY <2>1, <2>2, <2>3, <1>5, <1>6 DEF FilesOK, Resting
<1>9. QED BY <1>4, <1>7, <1>8 DEF MessageOK, SpammersOK

\* The writer records the file it wrote.
LEMMA WritePathMessage ==
  ASSUME TypeOK, NEW w \in Worker, WritePath(w), NEW j \in Job, att[w].job = j, MessageOK(j)
  PROVE  MessageOK(j)'
<1>1. /\ att'[w].pc = "finish" /\ att'[w].job = j
      /\ \A v \in Worker : v # w => att'[v] = att[v]
  BY AttFacts DEF WritePath
<1>2. /\ Calm(j) /\ att[w].target = Place(j) /\ mail[j].path \in {NoFile, Place(j)}
      /\ Place(j) \in files[j]
  BY DEF WritePath, At, MessageOK, WritersOK
<1>3. owner' = owner /\ files' = files /\ mail'[j] = [mail[j] EXCEPT !.path = Place(j)]
  BY <1>2 DEF WritePath, TypeOK, Calm
<1>4. mail'[j].folder = mail[j].folder /\ mail'[j].path = Place(j)
  BY <1>3 DEF TypeOK, Mail
<1>5. \A v \in Worker : att'[v].job = j => att'[v].pc # "spamRow"
  BY <1>1, <1>2 DEF Calm, Moving, At
<1>6. Calm(j)' /\ Place(j)' = Place(j)
  BY <1>2, <1>3, <1>4, <1>5 DEF Calm, Moving, Stored, At, Place
<1>7. files'[j] = {Place(j)}
  BY <1>2, <1>3 DEF MessageOK, FilesOK
<1>8. WritersOK(j)'
  <2>1. \A v \in Worker : att'[v].job = j /\ att'[v].pc \in {"file", "path"} => att'[v].target = Place(j)
    BY <1>1, <1>2 DEF MessageOK, WritersOK
  <2>2. QED BY <2>1, <1>4, <1>6, <1>7 DEF WritersOK
<1>9. FilesOK(j)'
  <2>1. owner'[j] = Resting /\ Stored(j)'
    BY <1>6 DEF Calm, Moving
  <2>2. Place(j)[1] = mail'[j].folder
    BY <1>4 DEF Place
  <2>3. QED BY <2>1, <2>2, <1>4, <1>6, <1>7 DEF FilesOK, Resting
<1>10. QED BY <1>5, <1>8, <1>9 DEF MessageOK, SpammersOK

\* Whoever starts a move or a deletion untangled finds at most the recorded file.
LEMMA MoveStarts ==
  ASSUME NEW j \in Job, MessageOK(j), Stored(j), ~(Moving(j) \/ Writing(j) \/ Stray(j))
  PROVE  /\ Alone(j) /\ files[j] \subseteq {mail[j].path}
         /\ \A t \in File : MoveFile(j, t) /\ files \in [Job -> SUBSET File] => files'[j] = {t}
<1>1. Alone(j) /\ files[j] \subseteq {mail[j].path}
  BY DEF Alone, Stray
<1>2. QED BY <1>1 DEF MoveFile

LEMMA SpamFileMessage ==
  ASSUME TypeOK, NEW w \in Worker, SpamFile(w), NEW j \in Job, att[w].job = j, MessageOK(j),
         j \notin tangled'
  PROVE  MessageOK(j)'
<1> DEFINE t == MoveTarget(j, "spam")
<1>1. CASE ~Stored(j)
  <2>1. Done(w) /\ UNCHANGED <<mail, files, owner>> /\ att[w].pc = "spamFile"
    BY <1>1 DEF SpamFile, At
  <2>2. StillHere(j) /\ StillAtt(j)
    BY <2>1, AttemptStill
  <2>3. QED BY <2>2, StillKeeps
<1>2. CASE Stored(j)
  <2>1. ~(Moving(j) \/ Writing(j) \/ Stray(j)) /\ t \in File /\ MoveFile(j, t)
    BY <1>2, MailHelpers DEF SpamFile, Tangle, Folder
  <2>2. Alone(j) /\ files'[j] = {t}
    BY <1>2, <2>1, MoveStarts DEF TypeOK
  <2>3. /\ att'[w].pc = "spamRow" /\ att'[w].job = j /\ att'[w].target = t
        /\ \A v \in Worker : v # w => att'[v] = att[v]
    BY <1>2 DEF SpamFile, TypeOK, AttOK, Att
  <2>4. mail' = mail /\ owner' = owner /\ owner[j] = Resting
    BY <2>2, AloneFacts DEF SpamFile
  <2>5. \A v \in Worker : att'[v].job = j /\ att'[v].pc \in Active => v = w
    BY <2>2, <2>3, AloneFacts
  <2>6. WritersOK(j)'
    BY <2>3, <2>5 DEF WritersOK, Active
  <2>7. SpammersOK(j)'
    BY <1>2, <2>2, <2>3, <2>4, <2>5 DEF SpammersOK, Active, Stored
  <2>8. ~Calm(j)'
    BY <2>3 DEF Calm, Moving, At
  <2>9. FilesOK(j)'
    BY <1>2, <2>4, <2>8 DEF FilesOK, Stored, Resting
  <2>10. QED BY <2>6, <2>7, <2>9 DEF MessageOK
<1>3. QED BY <1>1, <1>2

LEMMA SpamRowMessage ==
  ASSUME TypeOK, NEW w \in Worker, SpamRow(w), NEW j \in Job, att[w].job = j, MessageOK(j)
  PROVE  MessageOK(j)'
<1>1. /\ Stored(j) /\ owner[j] = Resting /\ files[j] = {att[w].target}
      /\ \A v \in Worker : att[v].job = j /\ att[v].pc = "spamRow" => v = w
  BY DEF SpamRow, At, MessageOK, SpammersOK
<1>2. /\ att'[w] = IdleAtt /\ \A v \in Worker : v # w => att'[v] = att[v]
  BY AttFacts DEF SpamRow
<1>3. mail'[j] = [folder |-> att[w].target[1], path |-> att[w].target] /\ files' = files /\ owner' = owner
  BY <1>1 DEF SpamRow, MoveRow, TypeOK
<1>4. ~Calm(j)
  BY DEF Calm, Moving, SpamRow, At
<1>5. \A v \in Worker : att'[v].job = j => att'[v].pc \notin Active
  BY <1>1, <1>2, <1>4 DEF MessageOK, WritersOK, Active, IdleAtt
<1>6. FilesOK(j)'
  <2>1. att[w].target \in File
    BY DEF SpamRow, At, TypeOK, AttOK
  <2>2. Stored(j)'
    BY <1>3, <2>1 DEF Stored, File, Folder
  <2>3. QED BY <1>1, <1>3, <2>2 DEF FilesOK, Resting
<1>7. QED BY <1>5, <1>6 DEF MessageOK, WritersOK, SpammersOK, Active

\* The owner moves or deletes a message nobody else handles.
LEMMA OwnerMessage ==
  ASSUME TypeOK, NEW j \in Job, UserStarts(j) \/ UserFinishes(j), MessageOK(j), j \notin tangled'
  PROVE  MessageOK(j)'
<1>a. owner \in [Job -> Owner] /\ mail \in [Job -> Mail] /\ files \in [Job -> SUBSET File]
  BY DEF TypeOK, OwnerOK
<1>b. att' = att
  BY DEF UserStarts, UserFinishes, UserMoveFile, UserDeleteFiles, UserMoveRow, UserDeleteRow
<1>1. CASE UserStarts(j)
  <2>1. Stored(j) /\ ~(Moving(j) \/ Writing(j) \/ Stray(j)) /\ mail' = mail
    BY <1>1 DEF UserStarts, UserMoveFile, UserDeleteFiles, UserOp, Tangle
  <2>2. Alone(j) /\ files[j] \subseteq {mail[j].path}
    BY <2>1, MoveStarts
  <2>3. \A v \in Worker : att'[v].job = j => att'[v].pc \notin Active
    BY <2>2, <1>b, AloneFacts
  <2>4. FilesOK(j)'
    <3>1. CASE UserMoveFile(j)
      <4>1. MoveTarget(j, "archive") \in File
        BY MailHelpers DEF Folder
      <4>2. files'[j] = {MoveTarget(j, "archive")}
        BY <2>1, <3>1, <4>1, <1>a, MoveStarts DEF UserMoveFile
      <4>3. owner'[j] = [pc |-> "moving", target |-> MoveTarget(j, "archive")]
        BY <3>1, <1>a DEF UserMoveFile
      <4>4. ~Calm(j)' /\ Stored(j)'
        BY <2>1, <4>3 DEF Calm, Moving, Resting, Stored
      <4>5. QED BY <4>2, <4>3, <4>4 DEF FilesOK
    <3>2. CASE UserDeleteFiles(j)
      <4>1. files'[j] = {}
        BY <2>2, <3>2, <1>a DEF UserDeleteFiles
      <4>2. owner'[j] = [pc |-> "deleting", target |-> NoFile]
        BY <3>2, <1>a DEF UserDeleteFiles
      <4>3. ~Calm(j)' /\ Stored(j)'
        BY <2>1, <4>2 DEF Calm, Moving, Resting, Stored
      <4>4. QED BY <4>1, <4>2, <4>3 DEF FilesOK
    <3>3. QED BY <1>1, <3>1, <3>2 DEF UserStarts
  <2>5. QED BY <2>3, <2>4 DEF MessageOK, WritersOK, SpammersOK, Active
<1>2. CASE UserFinishes(j)
  <2>1. owner[j].pc \in {"moving", "deleting"} /\ files' = files
    BY <1>2 DEF UserFinishes, UserMoveRow, UserDeleteRow
  <2>2. owner[j] # Resting
    BY <2>1 DEF Resting
  <2>3. ~Calm(j) /\ Stored(j)
    BY <2>2 DEF Calm, Moving, MessageOK, FilesOK
  <2>4. \A v \in Worker : att'[v].job = j => att'[v].pc \notin Active
    BY <2>2, <2>3, <1>b DEF MessageOK, WritersOK, SpammersOK, Active
  <2>5. FilesOK(j)'
    <3>1. CASE UserMoveRow(j)
      <4>1. files[j] = {owner[j].target} /\ owner[j].target \in File
        BY <3>1 DEF UserMoveRow, MessageOK, FilesOK, TypeOK, OwnerOK
      <4>2. mail'[j] = [folder |-> owner[j].target[1], path |-> owner[j].target] /\ owner'[j] = Resting
        BY <2>3, <3>1, <1>a DEF UserMoveRow, MoveRow
      <4>3. Stored(j)'
        BY <4>1, <4>2 DEF Stored, File, Folder
      <4>4. QED BY <2>1, <4>1, <4>2, <4>3 DEF FilesOK, Resting
    <3>2. CASE UserDeleteRow(j)
      <4>1. files[j] = {}
        BY <3>2 DEF UserDeleteRow, MessageOK, FilesOK
      <4>2. mail'[j] = [folder |-> "absent", path |-> NoFile] /\ owner'[j] = Resting
        BY <3>2, <1>a DEF UserDeleteRow
      <4>3. QED BY <2>1, <4>1, <4>2 DEF FilesOK, Resting, Stored, Calm
    <3>3. QED BY <1>2, <3>1, <3>2 DEF UserFinishes
  <2>6. QED BY <2>4, <2>5 DEF MessageOK, WritersOK, SpammersOK, Active
<1>3. QED BY <1>1, <1>2

LEMMA FileStep ==
  ASSUME TypeOK, MailInv, ControlInv, FileInv, Next
  PROVE  FileInv'
<1> USE DEF store, history, bounds
<1> SUFFICES ASSUME NEW j \in Job, j \notin tangled' \cup skipped'
             PROVE  MessageOK(j)'
  BY DEF FileInv
<1>a. MessageOK(j)
  BY TangledGrows, SkippedGrows DEF FileInv
<1>1. ASSUME NEW w \in Worker, Attempt(w) \/ Breaks(w), att[w].job # j PROVE MessageOK(j)'
  BY <1>1, <1>a, AttemptElsewhere, StillKeeps
<1>2. ASSUME NEW w \in Worker, Attempt(w), att[w].job = j PROVE MessageOK(j)'
  <2>1. CASE CommitTx(w)
    BY <2>1, <1>2, <1>a, InsertMessage DEF CommitTx
  <2>2. CASE WriteRead(w)
    BY <2>2, <1>2, <1>a, WriteReadMessage
  <2>3. CASE WriteFile(w)
    BY <2>3, <1>2, <1>a, WriteFileMessage
  <2>4. CASE WritePath(w)
    BY <2>4, <1>2, <1>a, WritePathMessage
  <2>5. CASE SpamFile(w)
    BY <2>5, <1>2, <1>a, SpamFileMessage
  <2>6. CASE SpamRow(w)
    BY <2>6, <1>2, <1>a, SpamRowMessage
  <2>7. CASE BeginTx(w) \/ Finish(w) \/ Reschedule(w) \/ Controls(w)
    <3>1. att[w].pc # "spamRow" /\ UNCHANGED <<mail, files, owner>>
      BY <2>7 DEF BeginTx, Finish, Reschedule, Controls, At
    <3>2. (\E pc : pc \notin Active /\ Goto(w, pc)) \/ Done(w)
      BY <2>7 DEF BeginTx, Finish, Reschedule, Controls, Active
    <3>3. QED BY <3>1, <3>2, <1>a, AttemptStill, StillKeeps
  <2>8. QED BY <1>2, <2>1, <2>2, <2>3, <2>4, <2>5, <2>6, <2>7 DEF Attempt
<1>3. ASSUME NEW w \in Worker, Breaks(w), att[w].job = j PROVE MessageOK(j)'
  <2>1. CASE CommitUnknown(w)
    BY <2>1, <1>3, <1>a, InsertMessage DEF CommitUnknown
  <2>2. CASE Fails(w) \/ Interrupted(w)
    <3>1. att[w].pc # "spamRow" /\ UNCHANGED <<mail, files, owner>>
      BY <2>2, <1>3 DEF Fails, Interrupted
    <3>2. (\E pc : pc \notin Active /\ Goto(w, pc)) \/ Done(w)
      BY <2>2 DEF Fails, Interrupted, Active
    <3>3. QED BY <3>1, <3>2, <1>a, AttemptStill, StillKeeps
  <2>3. QED BY <1>3, <2>1, <2>2 DEF Breaks
<1>4. ASSUME NEW w \in Worker, NEW i \in Job, Claim(w, i) PROVE MessageOK(j)'
  <2>1. att'[w].pc = "claimed" /\ att[w].pc = "idle" /\ \A v \in Worker : v # w => att'[v] = att[v]
    BY <1>4 DEF Claim, At, TypeOK, AttOK
  <2>2. StillHere(j) /\ StillAtt(j)
    BY <1>4, <2>1 DEF Claim, StillHere, StillAtt, Active
  <2>3. QED BY <2>2, <1>a, StillKeeps
<1>5. ASSUME NEW i \in Job, Enqueue(i) \/ Prune(i) \/ LeaseExpires(i) \/ BecomesDue(i)
      PROVE  MessageOK(j)'
  <2>1. StillHere(j) /\ StillAtt(j)
    BY <1>5 DEF Enqueue, Prune, LeaseExpires, BecomesDue, StillHere, StillAtt
  <2>2. QED BY <2>1, <1>a, StillKeeps
<1>6. ASSUME NEW i \in Job, UserStarts(i) \/ UserFinishes(i) PROVE MessageOK(j)'
  <2>1. CASE i = j
    BY <1>6, <2>1, <1>a, OwnerMessage
  <2>2. CASE i # j
    <3>1. mail \in [Job -> Mail] /\ files \in [Job -> SUBSET File] /\ owner \in [Job -> Owner]
      BY DEF TypeOK, OwnerOK
    <3>2. att' = att
      BY <1>6 DEF UserStarts, UserFinishes, UserMoveFile, UserDeleteFiles, UserMoveRow, UserDeleteRow
    <3>3. StillHere(j)
      BY <1>6, <2>2, <3>1
      DEF StillHere, UserStarts, UserFinishes, UserMoveFile, UserDeleteFiles, UserMoveRow,
          UserDeleteRow, MoveFile, MoveRow
    <3>4. QED BY <3>2, <3>3, <1>a, StillKeeps DEF StillAtt
  <2>3. QED BY <2>1, <2>2
<1>7. QED BY <1>1, <1>2, <1>3, <1>4, <1>5, <1>6 DEF Next

LEMMA FileHolds == Spec => [](TypeOK /\ ControlInv /\ FileInv)
<1>1. Init => FileInv
  BY DEF Init, FileInv, MessageOK, WritersOK, SpammersOK, FilesOK, Calm, Stored, NewMail,
     IdleAtt, Resting
<1>2. ASSUME FileInv, UNCHANGED vars PROVE FileInv'
  <2>1. \A j \in Job : StillHere(j) /\ StillAtt(j)
    BY <1>2 DEF vars, StillHere, StillAtt
  <2>2. QED BY <1>2, <2>1, StillKeeps DEF FileInv, vars
<1>3. TypeOK /\ MailInv /\ ControlInv /\ FileInv /\ [Next]_vars => FileInv'
  BY <1>2, FileStep
<1>4. IInv => MailInv
  BY DEF IInv
<1>5. QED BY <1>1, <1>3, <1>4, IInvHolds, ControlHolds, PTL DEF Spec

\* The Maildir holds exactly the file the row of a delivered message names, and
\* no file of a deleted one, however often the delivery was repeated.
THEOREM MaildirKeepsUp == Spec => []MaildirMatchesRow
<1>1. TypeOK /\ ControlInv /\ FileInv => MaildirMatchesRow
  <2> SUFFICES ASSUME TypeOK, ControlInv, FileInv, NEW j \in Job,
                      row[j].status = "delivered", Quiet(j), j \notin tangled \cup skipped
               PROVE  IF Stored(j)
                        THEN files[j] = {mail[j].path} /\ mail[j].path[1] = mail[j].folder
                        ELSE files[j] = {}
    BY DEF MaildirMatchesRow
  <2>1. FilesOK(j) /\ Recorded(j)
    BY DEF FileInv, MessageOK, ControlInv, DeliveredOK
  <2>2. ~Moving(j)
    BY DEF Quiet, Moving
  <2>3. QED BY <2>1, <2>2 DEF FilesOK, Recorded, Calm
<1>2. QED BY <1>1, FileHolds, PTL


-----------------------------------------------------------------------------
(* Local delivery implements the lifecycle of a mail *)

\* The lock of an open transaction keeps its job from being claimed, so its
\* attempt still holds the lease token it found.
TxOwns == \A w \in Worker : At(w, "tx") => Owns(w)

LEMMA TxOwnsStep == TypeOK /\ TxOwns /\ [Next]_vars => TxOwns'
<1> SUFFICES ASSUME TypeOK, TxOwns, [Next]_vars, NEW v \in Worker, att'[v].pc = "tx"
             PROVE  row'[att'[v].job].token = v
  BY DEF TxOwns, At, Owns
<1>a. row \in [Job -> Row] /\ att \in [Worker -> Att] /\ Nobody \notin Worker
  BY ConstantsAssumption DEF TypeOK, AttOK, ConstantsAssumption
<1>b. att[v].pc = "tx" => row[att[v].job].token = v /\ att[v].job \in Job
  BY AttemptHasJob DEF TxOwns, At, Owns
<1>1. ASSUME att[v].pc = "tx", att'[v] = att[v],
             row'[att[v].job].token = row[att[v].job].token
      PROVE  row'[att'[v].job].token = v
  BY <1>1, <1>b
<1>2. ASSUME NEW w \in Worker, BeginTx(w) PROVE row'[att'[v].job].token = v
  <2>1. CASE v = w
    <3>1. Owns(w) /\ att'[v].job = att[v].job /\ row' = row
      BY <1>2, <2>1, AttFacts DEF BeginTx
    <3>2. QED BY <2>1, <3>1 DEF Owns
  <2>2. CASE v # w
    BY <1>1, <1>2, <2>2, AttFacts DEF BeginTx
  <2>3. QED BY <2>1, <2>2
<1>3. ASSUME NEW w \in Worker, CommitTx(w) \/ CommitUnknown(w) PROVE row'[att'[v].job].token = v
  <2>1. v # w /\ att'[v] = att[v]
    BY <1>3, AttFacts DEF CommitTx, CommitUnknown
  <2>2. PICK j \in Job : j = att[w].job
    BY <1>3, AttemptHasJob DEF CommitTx, CommitUnknown, At
  <2>3. row' = [row EXCEPT ![j].live = TRUE, ![j].message = TRUE]
    BY <1>3, <2>2 DEF CommitTx, CommitUnknown, Inserted
  <2>4. \A i \in Job : row'[i].token = row[i].token
    BY <2>3, <1>a DEF Row
  <2>5. QED BY <1>1, <1>b, <2>1, <2>4
<1>4. ASSUME NEW w \in Worker, Finish(w) \/ Reschedule(w) PROVE row'[att'[v].job].token = v
  <2>1. v # w /\ att'[v] = att[v] /\ att[w].job \in Job
    BY <1>4, AttFacts, AttemptHasJob DEF Finish, Reschedule, At, IdleAtt
  <2>2. CASE Owns(w)
    <3>1. att[v].job # att[w].job
      BY <1>b, <2>1, <2>2 DEF Owns
    <3>2. row'[att[v].job] = row[att[v].job]
      BY <1>4, <1>a, <1>b, <2>1, <2>2, <3>1 DEF Finish, Reschedule
    <3>3. QED BY <1>1, <2>1, <3>2
  <2>3. CASE ~Owns(w)
    BY <1>1, <1>4, <2>1, <2>3 DEF Finish, Reschedule
  <2>4. QED BY <2>2, <2>3
<1>5. ASSUME NEW w \in Worker,
             \/ WriteRead(w) \/ WriteFile(w) \/ WritePath(w) \/ Controls(w) \/ SpamFile(w) \/ SpamRow(w)
             \/ Fails(w) \/ Interrupted(w)
      PROVE  row'[att'[v].job].token = v
  <2>1. row' = row
    BY <1>5 DEF WriteRead, WriteFile, WritePath, Controls, SpamFile, SpamRow, Fails, Interrupted
  <2>2. \A u \in Worker : u # w => att'[u] = att[u]
    BY <1>5, <1>a DEF WriteRead, WriteFile, WritePath, Controls, SpamFile, SpamRow, Fails, Interrupted, Goto, Done
  <2>3. att'[w].pc # "tx"
    BY <1>5, <1>a DEF WriteRead, WriteFile, WritePath, Controls, SpamFile, SpamRow, Fails, Interrupted,
                      Goto, Done, IdleAtt, At, Att
  <2>4. QED BY <1>1, <2>1, <2>2, <2>3
<1>6. ASSUME NEW w \in Worker, NEW j \in Job, Claim(w, j) PROVE row'[att'[v].job].token = v
  <2>1. v # w /\ att'[v] = att[v]
    BY <1>6, <1>a DEF Claim
  <2>2. att[v].job # j
    BY <1>6, <2>1 DEF Claim, JobLocked, At
  <2>3. row'[att[v].job] = row[att[v].job]
    BY <1>6, <1>a, <1>b, <2>1, <2>2 DEF Claim
  <2>4. QED BY <1>1, <2>1, <2>3
<1>7. ASSUME NEW j \in Job, Enqueue(j) \/ Prune(j) \/ LeaseExpires(j) \/ BecomesDue(j)
      PROVE  row'[att'[v].job].token = v
  <2>1. att' = att
    BY <1>7 DEF Enqueue, Prune, LeaseExpires, BecomesDue
  <2>2. \A i \in Job : row'[i].token = row[i].token
    BY <1>7, <1>a DEF Enqueue, Prune, LeaseExpires, BecomesDue, Row
  <2>3. QED BY <1>1, <1>b, <2>1, <2>2
<1>8. ASSUME UNCHANGED <<row, att>> PROVE row'[att'[v].job].token = v
  BY <1>1, <1>8
<1>9. ASSUME NEW j \in Job, UserStarts(j) \/ UserFinishes(j) PROVE UNCHANGED <<row, att>>
  BY <1>9 DEF UserStarts, UserFinishes, UserMoveFile, UserMoveRow, UserDeleteFiles, UserDeleteRow
<1>10. QED BY <1>2, <1>3, <1>4, <1>5, <1>6, <1>7, <1>8, <1>9 DEF Next, Attempt, Breaks, vars

\* What the refinement rests on.
Promised == IInv /\ ControlInv /\ TxOwns

LEMMA PromisedAlways == Spec => []Promised
<1>1. Init => TxOwns
  BY DEF Init, TxOwns, At, IdleAtt
<1>2. QED BY <1>1, TxOwnsStep, LocalTypeCorrect, IInvHolds, ControlHolds, PTL DEF Spec, Promised

Stages == [j \in Job |-> StageOf(row[j].status)]
HandedOver == [j \in Job |-> copies[j] > 0]

\* A step that writes one status moves at most that job.
LEMMA OneStage ==
  ASSUME TypeOK, NEW j \in Job, \A i \in Job \ {j} : row'[i].status = row[i].status
  PROVE  Stages' = [Stages EXCEPT ![j] = StageOf(row'[j].status)]
BY DEF Stages, StageOf

\* The moves of the lifecycle a status may make.
MayBecome(j, from, to) ==
  \/ from = to
  \/ from = "absent" /\ to = "pending"
  \/ from = "pending" /\ to = "delivered" /\ copies[j] > 0
  \/ from = "pending" /\ to = "failed"
  \/ from \in {"delivered", "failed"} /\ to = "gone"

LEMMA MoveRefines ==
  ASSUME TypeOK, NEW j \in Job, \A i \in Job \ {j} : row'[i].status = row[i].status, UNCHANGED copies,
         MayBecome(j, StageOf(row[j].status), StageOf(row'[j].status))
  PROVE  [Lifecycle!Next]_(Lifecycle!vars)
<1>1. /\ Stages' = [Stages EXCEPT ![j] = StageOf(row'[j].status)] /\ Stages[j] = StageOf(row[j].status)
      /\ HandedOver' = HandedOver /\ HandedOver[j] = (copies[j] > 0)
  BY OneStage DEF Stages, HandedOver
<1>2. CASE StageOf(row'[j].status) = StageOf(row[j].status)
  <2>1. Stages' = Stages
    BY <1>1, <1>2 DEF Stages
  <2>2. QED BY <1>1, <2>1 DEF Lifecycle!vars, Stages, HandedOver
<1>3. CASE StageOf(row'[j].status) # StageOf(row[j].status)
  <2>1. \/ Lifecycle!Submit(j) \/ Lifecycle!Deliver(j) \/ Lifecycle!GiveUp(j) \/ Lifecycle!Forget(j)
    BY <1>1, <1>3 DEF MayBecome, Lifecycle!Submit, Lifecycle!Deliver, Lifecycle!GiveUp, Lifecycle!Forget,
                      Lifecycle!Move, Stages, HandedOver
  <2>2. QED BY <2>1, <1>1 DEF Lifecycle!Next, Lifecycle!Step, HandedOver
<1>4. QED BY <1>2, <1>3

LEMMA StageOfStatus ==
  /\ StageOf("none") = "absent" /\ StageOf("queued") = "pending" /\ StageOf("sending") = "pending"
  /\ StageOf("delivered") = "delivered" /\ StageOf("failed") = "failed" /\ StageOf("gone") = "gone"
BY DEF StageOf

\* The message appears in the mailbox at COMMIT, and its job is still pending.
LEMMA InsertRefines ==
  ASSUME Promised, NEW w \in Worker, CommitTx(w) \/ CommitUnknown(w)
  PROVE  [Lifecycle!Next]_(Lifecycle!vars)
<1>1. PICK j \in Job : j = att[w].job
  BY AttemptHasJob DEF Promised, IInv, CommitTx, CommitUnknown, At
<1>2. /\ row \in [Job -> Row] /\ copies \in [Job -> 0 .. 2]
      /\ row[j].token = w /\ row[j].status = "sending" /\ w # Nobody
  BY <1>1, ConstantsAssumption
     DEF Promised, IInv, TypeOK, TxOwns, Owns, ControlInv, RowOK, CommitTx, CommitUnknown, At, ConstantsAssumption
<1>3. /\ row' = [row EXCEPT ![j].live = TRUE, ![j].message = TRUE]
      /\ copies' = copies \/ copies' = [copies EXCEPT ![j] = IF copies[j] = 2 THEN 2 ELSE copies[j] + 1]
  BY <1>1, <1>2 DEF CommitTx, CommitUnknown, Inserted
<1>4. \A i \in Job : row'[i].status = row[i].status
  BY <1>2, <1>3 DEF Row
<1>5. Stages' = Stages /\ Stages[j] = "pending"
  BY <1>2, <1>4, StageOfStatus DEF Stages
<1>6. HandedOver' = HandedOver \/ HandedOver' = [HandedOver EXCEPT ![j] = TRUE]
  <2>1. CASE copies' = copies
    BY <2>1 DEF HandedOver
  <2>2. CASE copies' # copies
    <3>1. PICK n : n = IF copies[j] = 2 THEN 2 ELSE copies[j] + 1
      OBVIOUS
    <3>2. copies' = [copies EXCEPT ![j] = n] /\ n > 0
      BY <1>2, <1>3, <2>2, <3>1
    <3>3. \A i \in Job : (copies'[i] > 0) = IF i = j THEN TRUE ELSE copies[i] > 0
      BY <1>2, <3>2
    <3>4. HandedOver' = [i \in Job |-> IF i = j THEN TRUE ELSE copies[i] > 0]
      BY <3>3 DEF HandedOver
    <3>5. QED BY <3>4 DEF HandedOver
  <2>3. QED BY <2>1, <2>2
<1>7. QED BY <1>5, <1>6 DEF Lifecycle!Next, Lifecycle!Step, Lifecycle!HandOver, Lifecycle!vars, Stages, HandedOver

\* Every step of local delivery is one of the lifecycle, or invisible.
LEMMA DeliveryStepRefines == Promised /\ [Next]_vars => [Lifecycle!Next]_(Lifecycle!vars)
<1> SUFFICES ASSUME Promised, [Next]_vars PROVE [Lifecycle!Next]_(Lifecycle!vars)
  OBVIOUS
<1>a. TypeOK /\ row \in [Job -> Row] /\ att \in [Worker -> Att] /\ Nobody \notin Worker
  BY ConstantsAssumption DEF Promised, IInv, TypeOK, AttOK, ConstantsAssumption
<1>1. ASSUME UNCHANGED <<row, copies>> PROVE [Lifecycle!Next]_(Lifecycle!vars)
  BY <1>1 DEF Lifecycle!vars
<1>2. ASSUME NEW j \in Job, NEW r, row' = [row EXCEPT ![j] = r], UNCHANGED copies,
             MayBecome(j, StageOf(row[j].status), StageOf(r.status))
      PROVE  [Lifecycle!Next]_(Lifecycle!vars)
  <2>1. row'[j] = r /\ \A i \in Job \ {j} : row'[i].status = row[i].status
    BY <1>a, <1>2
  <2>2. QED BY <1>a, <1>2, <2>1, MoveRefines
<1>3. ASSUME NEW w \in Worker, Finish(w), Owns(w) PROVE [Lifecycle!Next]_(Lifecycle!vars)
  <2>1. PICK j \in Job : j = att[w].job
    BY <1>3, <1>a, AttemptHasJob DEF Finish, At
  <2>2. row[j].status = "sending" /\ row[j].message
    BY <1>3, <1>a, <2>1 DEF Promised, ControlInv, RowOK, ProgressOK, Finish, At, Owns
  <2>3. copies[j] > 0
    BY <2>2 DEF Promised, IInv, MailInv
  <2>4. Released(row[j], "delivered").status = "delivered"
    BY <1>a, RowFacts DEF Status
  <2>5. MayBecome(j, StageOf(row[j].status), StageOf(Released(row[j], "delivered").status))
    BY <2>2, <2>3, <2>4, StageOfStatus DEF MayBecome
  <2>6. row' = [row EXCEPT ![j] = Released(row[j], "delivered")] /\ UNCHANGED copies
    BY <1>3, <2>1 DEF Finish, history
  <2>7. QED BY <1>2, <2>5, <2>6
<1>4. ASSUME NEW w \in Worker, Reschedule(w), Owns(w) PROVE [Lifecycle!Next]_(Lifecycle!vars)
  <2>1. PICK j \in Job : j = att[w].job
    BY <1>4, <1>a, AttemptHasJob DEF Reschedule, At
  <2>2. row[j].status = "sending"
    BY <1>4, <1>a, <2>1 DEF Promised, ControlInv, RowOK, Owns
  <2>3. PICK s \in {"failed", "queued"} :
          row' = [row EXCEPT ![j] = [Released(row[j], s) EXCEPT !.due = FALSE]]
    BY <1>4, <2>1 DEF Reschedule
  <2>4. [Released(row[j], s) EXCEPT !.due = FALSE].status = s
    BY <1>a, <2>3, RowFacts DEF Status
  <2>5. MayBecome(j, StageOf(row[j].status), StageOf([Released(row[j], s) EXCEPT !.due = FALSE].status))
    BY <2>2, <2>3, <2>4, StageOfStatus DEF MayBecome
  <2>6. UNCHANGED copies
    BY <1>4 DEF Reschedule, history
  <2>7. QED BY <1>2, <2>3, <2>5, <2>6
<1>5. ASSUME NEW w \in Worker, NEW j \in Job, Claim(w, j) PROVE [Lifecycle!Next]_(Lifecycle!vars)
  <2>1. row' = [row EXCEPT ![j] = Claimed(row[j], w)] /\ UNCHANGED copies
    BY <1>5, <1>a DEF Claim, history
  <2>2. Claimed(row[j], w).status = "sending" /\ row[j].status \in {"queued", "sending"}
    BY <1>5, <1>a, RowFacts DEF Claim, Claimable
  <2>3. MayBecome(j, StageOf(row[j].status), StageOf(Claimed(row[j], w).status))
    BY <2>2, StageOfStatus DEF MayBecome
  <2>4. QED BY <1>2, <2>1, <2>3
<1>6. ASSUME NEW j \in Job, Enqueue(j) \/ Prune(j) \/ LeaseExpires(j) \/ BecomesDue(j)
      PROVE  [Lifecycle!Next]_(Lifecycle!vars)
  <2>1. UNCHANGED copies /\ \A i \in Job \ {j} : row'[i].status = row[i].status
    BY <1>6, <1>a DEF Enqueue, Prune, LeaseExpires, BecomesDue, history
  <2>2. \/ row'[j].status = row[j].status
        \/ row[j].status = "none" /\ row'[j].status = "queued"
        \/ row[j].status \in {"delivered", "failed"} /\ row'[j].status = "gone"
    BY <1>6, <1>a DEF Enqueue, Prune, LeaseExpires, BecomesDue, Row
  <2>3. MayBecome(j, StageOf(row[j].status), StageOf(row'[j].status))
    BY <2>2, StageOfStatus DEF MayBecome
  <2>4. QED BY <1>a, <2>1, <2>3, MoveRefines
<1>7. ASSUME NEW w \in Worker, Attempt(w) \/ Breaks(w) PROVE [Lifecycle!Next]_(Lifecycle!vars)
  <2>1. CASE CommitTx(w) \/ CommitUnknown(w)
    BY <2>1, InsertRefines
  <2>2. CASE (Finish(w) \/ Reschedule(w)) /\ Owns(w)
    BY <2>2, <1>3, <1>4
  <2>3. CASE \/ BeginTx(w) \/ WriteRead(w) \/ WriteFile(w) \/ WritePath(w) \/ Controls(w) \/ SpamFile(w)
             \/ SpamRow(w) \/ Fails(w) \/ Interrupted(w)
             \/ (Finish(w) \/ Reschedule(w)) /\ ~Owns(w)
    <3>1. UNCHANGED <<row, copies>>
      BY <2>3 DEF BeginTx, WriteRead, WriteFile, WritePath, Controls, SpamFile, SpamRow, Fails, Interrupted,
                  Finish, Reschedule, history
    <3>2. QED BY <1>1, <3>1
  <2>4. QED BY <1>7, <2>1, <2>2, <2>3 DEF Attempt, Breaks
<1>8. ASSUME NEW j \in Job, UserStarts(j) \/ UserFinishes(j) PROVE UNCHANGED <<row, copies>>
  BY <1>8 DEF UserStarts, UserFinishes, UserMoveFile, UserMoveRow, UserDeleteFiles, UserDeleteRow, history
<1>9. UNCHANGED vars => UNCHANGED <<row, copies>>
  BY DEF vars
<1>10. QED BY <1>1, <1>5, <1>6, <1>7, <1>8, <1>9 DEF Next

\* For any number of workers and jobs, any quota and whatever fails, is interrupted
\* or outlives its lease, local delivery implements the lifecycle of a mail: its
\* message appears only while the job is pending, "delivered" means it did, and no
\* finished job is taken up again.
THEOREM LocalDeliveryImplementsLifecycle == Spec => DeliveryImplementsLifecycle
<1>1. Init => Lifecycle!Init
  <2> SUFFICES ASSUME Init PROVE Lifecycle!Init
    OBVIOUS
  <2>1. \A j \in Job : StageOf(row[j].status) = "absent" /\ (copies[j] > 0) = FALSE
    BY StageOfStatus DEF Init, NewRow
  <2>2. QED BY <2>1 DEF Lifecycle!Init
<1>2. QED BY <1>1, PromisedAlways, DeliveryStepRefines, PTL
         DEF Spec, DeliveryImplementsLifecycle, Lifecycle!Spec
=============================================================================
