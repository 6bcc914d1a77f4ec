-------------------------- MODULE SendQueueProofs --------------------------
(* Theorems about SendQueue, for any number of processes, items and tokens  *)
(* and any bounds.                                                           *)
EXTENDS SendQueueRefinement, TLAPS

-----------------------------------------------------------------------------
(* Typing of the helpers *)

\* The two ways a row leaves an attempt or is re-armed yield rows.
LEMMA RowHelpers ==
  ASSUME NEW r \in Row, NEW s \in Status
  PROVE  /\ Released(r, s) \in Row
         /\ Restarted(r) \in Row
         /\ [Released(r, s) EXCEPT !.due = TRUE] \in Row
         /\ [Released(r, s) EXCEPT !.due = FALSE] \in Row
         /\ r.version < MaxRearms + 1 => Rearmed(r) \in Row
<1>1. Released(r, s) \in Row /\ Released(r, "queued") \in Row
  BY DEF Released, Row, Status
<1>2. Restarted(r) \in Row
  BY <1>1 DEF Restarted, Row
<1>3. /\ [Released(r, s) EXCEPT !.due = TRUE] \in Row
      /\ [Released(r, s) EXCEPT !.due = FALSE] \in Row
  BY <1>1 DEF Row
<1>4. ASSUME r.version < MaxRearms + 1
      PROVE  Rearmed(r) \in Row
  <2>1. Restarted(r).version = r.version
    BY DEF Restarted, Released, Row
  <2>2. r.version \in Version /\ r.version + 1 \in Version
    BY <1>4, BoundsAssumption DEF BoundsAssumption, Row, Version
  <2>3. QED BY <1>2, <2>1, <2>2 DEF Row, Rearmed
<1>5. QED BY <1>1, <1>2, <1>3, <1>4

\* Advancing, finishing or aborting jobs yields jobs.
LEMMA JobHelpers ==
  ASSUME TypeOK, NEW p \in Process, NEW i \in Item
  PROVE  /\ IdleJob \in Job
         /\ \A pc \in PC : Goto(p, i, pc) => job' \in [Process -> [Item -> Job]]
         /\ Done(p, i) => job' \in [Process -> [Item -> Job]]
         /\ AbortTick(p) => /\ job' \in [Process -> [Item -> Job]]
                            /\ phase' \in [Process -> {"recovery", "claims"}]
<1>1. IdleJob \in Job
  BY BoundsAssumption DEF BoundsAssumption, IdleJob, Job, PC, Version
<1>2. ASSUME NEW pc \in PC, Goto(p, i, pc) PROVE job' \in [Process -> [Item -> Job]]
  <2>1. job[p][i] \in Job
    BY DEF TypeOK
  <2>2. [job[p][i] EXCEPT !.pc = pc] \in Job
    BY <2>1 DEF Job
  <2>3. QED BY <1>2, <2>2 DEF Goto, TypeOK
<1>3. Done(p, i) => job' \in [Process -> [Item -> Job]]
  BY <1>1 DEF Done, TypeOK
<1>4. AbortTick(p) => /\ job' \in [Process -> [Item -> Job]]
                      /\ phase' \in [Process -> {"recovery", "claims"}]
  BY <1>1 DEF AbortTick, TypeOK
<1>5. QED BY <1>1, <1>2, <1>3, <1>4

\* Removing a marker only shrinks the markers and adds typed doubts.
LEMMA MarkerHelper ==
  ASSUME TypeOK, NEW i \in Item, RemoveMarker(i)
  PROVE  marker' \subseteq Item /\ doubt' \subseteq Item \X Version
BY DEF RemoveMarker, TypeOK, Row

-----------------------------------------------------------------------------
(* Type correctness *)

\* Every step keeps every variable in its type: rows, jobs and handlers only
\* take states the code knows, histories and counters stay within bounds.
LEMMA TypeStep == TypeOK /\ [Next]_vars => TypeOK'
<1> SUFFICES ASSUME TypeOK, [Next]_vars PROVE TypeOK'
  OBVIOUS
<1> USE DEF TypeOK, history, bounds
<1> DEFINE Jobs == [Process -> [Item -> Job]]
<1>a. IdleJob \in Job
  BY BoundsAssumption DEF BoundsAssumption, IdleJob, Job, PC, Version
<1>b. RecoveryPC \cup AttemptPC \cup {"idle", "listed", "clean"} \subseteq PC
  BY DEF PC
<1>c. Fault => faults' \in 0 .. MaxFaults
  BY BoundsAssumption DEF BoundsAssumption, Fault
<1>d. Retry => retries' \in 0 .. MaxRetries
  BY BoundsAssumption DEF BoundsAssumption, Retry
<1>1. ASSUME NEW p \in Process, StartTick(p) PROVE TypeOK'
  <2>1. PICK B : job' = [job EXCEPT ![p] = [i \in Item |->
                 IF i \in B
                   THEN [pc |-> "stale", token |-> row[i].token, version |-> row[i].version]
                   ELSE IdleJob]]
    BY <1>1 DEF StartTick
  <2>2. \A i \in Item : [pc |-> "stale", token |-> row[i].token, version |-> row[i].version] \in Job
    BY DEF Row, Job, PC, RecoveryPC
  <2>3. job' \in Jobs
    BY <2>1, <2>2, <1>a
  <2>4. QED BY <1>1, <2>3 DEF StartTick
<1>2. ASSUME NEW p \in Process, ListDue(p) PROVE TypeOK'
  <2>1. PICK B : job' = [job EXCEPT ![p] = [i \in Item |->
                 IF i \in B THEN [IdleJob EXCEPT !.pc = "listed"] ELSE IdleJob]]
    BY <1>2 DEF ListDue
  <2>2. [IdleJob EXCEPT !.pc = "listed"] \in Job
    BY <1>a DEF Job, PC
  <2>3. job' \in Jobs
    BY <2>1, <2>2, <1>a
  <2>4. QED BY <1>2, <2>3 DEF ListDue
<1>3. ASSUME NEW p \in Process, NEW i \in Item, JobStep(p, i) PROVE TypeOK'
  <2> USE JobHelpers, RowHelpers
  <2>a. row[i] \in Row /\ job[p][i] \in Job
    OBVIOUS
  <2>b. {"queued", "delivered", "failed"} \subseteq Status
    BY DEF Status
  <2>c. \A s \in {"queued", "delivered", "failed"} : Released(row[i], s) \in Row
    BY <2>a, <2>b
  <2>1. CASE RecoverCheck(p, i)
    <3>1. (IF i \in marker THEN "recDeliver" ELSE "requeue") \in PC
      BY <1>b DEF RecoveryPC
    <3>2. QED BY <2>1, <3>1 DEF RecoverCheck
  <2>2. CASE RecoverRequeue(p, i)
    <3>1. [Released(row[i], "queued") EXCEPT !.due = TRUE] \in Row
      BY <2>c DEF Row
    <3>2. row' \in [Item -> Row]
      BY <2>2, <3>1 DEF RecoverRequeue
    <3>3. QED BY <2>2, <3>2 DEF RecoverRequeue
  <2>3. CASE RecoverDeliver(p, i)
    <3>1. job' \in Jobs /\ phase' \in [Process -> {"recovery", "claims"}]
      BY <2>3, <1>b DEF RecoverDeliver, RecoveryPC
    <3>2. row' \in [Item -> Row]
      BY <2>3, <2>c DEF RecoverDeliver
    <3>3. QED BY <2>3, <3>1, <3>2 DEF RecoverDeliver
  <2>4. CASE Claim(p, i)
    <3>1. CASE Done(p, i) /\ UNCHANGED row
      BY <2>4, <3>1 DEF Claim
    <3>2. ASSUME NEW t \in FreshToken,
                 row' = [row EXCEPT ![i] = Claimed(@, t)],
                 job' = [job EXCEPT ![p][i] =
                   [pc |-> "smtp", token |-> t, version |-> row[i].version]]
          PROVE  TypeOK'
      <4>1. t \in Token
        BY DEF FreshToken
      <4>2. Claimed(row[i], t) \in Row
        <5>1. row[i].attempts + 1 \in Nat
          BY <2>a DEF Row
        <5>2. "sending" \in Status
          BY DEF Status
        <5>3. QED BY <2>a, <4>1, <5>1, <5>2 DEF Claimed, Row
      <4>3. [pc |-> "smtp", token |-> t, version |-> row[i].version] \in Job
        BY <2>a, <4>1 DEF Row, Job, PC, AttemptPC
      <4>4. row' \in [Item -> Row] /\ job' \in Jobs
        BY <3>2, <4>2, <4>3
      <4>5. QED BY <2>4, <4>4 DEF Claim
    <3>3. QED BY <2>4, <3>1, <3>2 DEF Claim
  <2>5. CASE SmtpReject(p, i)
    BY <2>5, <1>b DEF SmtpReject, AttemptPC
  <2>6. CASE SmtpAccept(p, i)
    <3>1. job[p][i].version \in Version
      BY <2>a DEF Job
    <3>2. accepted' \in [Item -> [Version -> 0 .. 2]]
      BY <2>6, <3>1 DEF SmtpAccept, Accept
    <3>3. job' \in Jobs
      BY <2>6, <1>b DEF SmtpAccept, AttemptPC
    <3>4. QED BY <2>6, <3>1, <3>2, <3>3 DEF SmtpAccept
  <2>7. CASE WriteMarker(p, i)
    <3>1. job[p][i].version \in Version
      BY <2>a DEF Job
    <3>2. job' \in Jobs
      BY <2>7, <1>b DEF WriteMarker, AttemptPC
    <3>3. QED BY <2>7, <1>c, <3>1, <3>2 DEF WriteMarker
  <2>8. CASE MarkDelivered(p, i)
    <3>1. job' \in Jobs
      BY <2>8, <1>b DEF MarkDelivered
    <3>2. row' \in [Item -> Row]
      BY <2>8, <2>c DEF MarkDelivered
    <3>3. QED BY <2>8, <3>1, <3>2 DEF MarkDelivered
  <2>9. CASE CleanMarker(p, i)
    BY <2>9, <1>c, MarkerHelper DEF CleanMarker
  <2>10. CASE MarkFailed(p, i)
    <3>1. [Released(row[i], "failed") EXCEPT !.due = FALSE] \in Row
      BY <2>c DEF Row
    <3>2. row' \in [Item -> Row]
      BY <2>10, <3>1 DEF MarkFailed
    <3>3. QED BY <2>10, <3>2 DEF MarkFailed
  <2>11. QED BY <1>3, <2>1, <2>2, <2>3, <2>4, <2>5, <2>6, <2>7, <2>8, <2>9, <2>10 DEF JobStep
<1>4. ASSUME NEW p \in Process, Handling(p) PROVE TypeOK'
  <2>a. "clean" \in Handler /\ "none" \in Handler
    BY DEF Handler
  <2>1. ASSUME NEW i \in Item, EnqueueRearm(p, i) PROVE TypeOK'
    <3>1. row[i] \in Row /\ row[i].version \in Nat
      BY BoundsAssumption DEF BoundsAssumption, Row, Version
    <3>2. row[i].status = handler[p][i] => row[i].version < MaxRearms + 1
      BY <2>1, <3>1, BoundsAssumption DEF BoundsAssumption, EnqueueRearm
    <3>3. "queued" \in Status
      BY DEF Status
    <3>4. CASE row[i].status = handler[p][i]
      <4>1. Rearmed(row[i]) \in Row
        BY <3>1, <3>2, <3>3, <3>4, RowHelpers
      <4>2. QED BY <2>1, <2>a, <3>4, <4>1 DEF EnqueueRearm
    <3>5. CASE row[i].status # handler[p][i]
      BY <2>1, <2>a, <3>5 DEF EnqueueRearm
    <3>6. QED BY <3>4, <3>5
  <2>2. ASSUME NEW i \in Item, HandlerClean(p, i) PROVE TypeOK'
    BY <2>2, <2>a, <1>c, MarkerHelper DEF HandlerClean
  <2>3. QED BY <1>4, <2>1, <2>2 DEF Handling
<1>5. ASSUME NEW p \in Process, Crash(p) PROVE TypeOK'
  <2>1. handler' \in [Process -> [Item -> Handler]]
    BY <1>5 DEF Crash, Handler
  <2>2. job' \in Jobs /\ phase' \in [Process -> {"recovery", "claims"}]
    BY <1>5, <1>a DEF Crash, AbortTick
  <2>3. \A i \in Item : job[p][i].version \in Version
    BY DEF Job
  <2>4. doubt' \subseteq Item \X Version
    BY <1>5, <2>3 DEF Crash
  <2>5. orphan' \subseteq Item
    BY <1>5 DEF Crash
  <2>6. QED BY <1>5, <1>c, <2>1, <2>2, <2>4, <2>5 DEF Crash
<1>6. ASSUME NEW p \in Process, NEW i \in Item, Request(p, i) PROVE TypeOK'
  <2>a. row[i] \in Row /\ {"clean"} \cup Finished \subseteq Handler
    BY DEF Handler
  <2>1. CASE EnqueueRead(p, i)
    BY <2>1, <2>a DEF EnqueueRead
  <2>2. CASE UserRetry(p, i)
    <3>1. [row[i] EXCEPT !.status = "queued", !.attempts = 0, !.due = TRUE] \in Row
      BY <2>a DEF Row, Status
    <3>2. QED BY <2>2, <2>a, <3>1, <1>d DEF UserRetry
  <2>3. CASE UserCancel(p, i)
    <3>1. [row[i] EXCEPT !.status = "canceled"] \in Row
      BY <2>a DEF Row, Status
    <3>2. QED BY <2>3, <2>a, <3>1 DEF UserCancel
  <2>4. QED BY <1>6, <2>1, <2>2, <2>3 DEF Request
<1>7. ASSUME NEW p \in Process, NEW i \in Item, StatementFails(p, i) PROVE TypeOK'
  BY <1>7, <1>c, JobHelpers DEF StatementFails
<1>8. ASSUME NEW i \in Item, ItemStep(i) PROVE TypeOK'
  <2>a. row[i] \in Row /\ {"queued", "canceled", "gone"} \subseteq Status
    BY DEF Status
  <2>b. /\ [row[i] EXCEPT !.status = "gone"] \in Row
        /\ [row[i] EXCEPT !.live = FALSE] \in Row
        /\ [row[i] EXCEPT !.due = TRUE] \in Row
    BY <2>a DEF Row
  <2>c. Restarted(row[i]) \in Row /\ Released(row[i], "canceled") \in Row
    BY <2>a, RowHelpers
  <2>1. QED BY <1>8, <1>d, <2>a, <2>b, <2>c
           DEF ItemStep, EnqueueInsert, AdminRetry, AdminCancel, Prune, LeaseExpires, BecomesDue
<1>9. ASSUME NEW S \in SUBSET Item, RemoveMailbox(S) PROVE TypeOK'
  <2>1. \A i \in Item : Released(row[i], "removed") \in Row
    BY RowHelpers DEF Status
  <2>2. row' \in [Item -> Row]
    BY <1>9, <2>1 DEF RemoveMailbox
  <2>3. QED BY <1>9, <2>2 DEF RemoveMailbox
<1>10. CASE UNCHANGED vars
  BY <1>10 DEF vars
<1>11. QED
  BY <1>1, <1>2, <1>3, <1>4, <1>5, <1>6, <1>7, <1>8, <1>9, <1>10 DEF Next, Worker

\* The queue starts, and stays, in its type.
THEOREM TypeCorrect == Spec => []TypeOK
<1>1. Init => TypeOK
  BY BoundsAssumption DEF BoundsAssumption, Init, TypeOK, Row, NewRow, Status, Version,
     IdleJob, Job, PC, Handler
<1>2. QED
  BY <1>1, TypeStep, PTL DEF Spec

-----------------------------------------------------------------------------
(* The inductive invariant                                                   *)
(*                                                                           *)
(* RowsConsistent and LiveAttemptOwnsRow are not inductive by themselves.    *)
(* What makes them so is that a token is never given out twice: a snapshot   *)
(* of the recovery can only still match its row if nothing happened to the   *)
(* row since, and two attempts never carry the same token.                   *)

SnapshotPC == {"stale", "requeue", "recDeliver"}

\* A row the recovery selected, and whose token is unchanged, is still a row
\* without a live lease and with an attempt left.
SnapshotSafe ==
  \A p \in Process, i \in Item :
    job[p][i].pc \in SnapshotPC /\ Owns(p, i) => ~row[i].live /\ row[i].attempts < MaxAttempts

HoldersDistinct ==
  \A i \in Item : \A p, q \in Process :
    job[p][i].pc \in AttemptPC /\ job[q][i].pc \in AttemptPC /\ p # q
    => job[p][i].token # job[q][i].token

\* Nobody attempts an item another process is attempting, not even one whose
\* row is gone with its mailbox.
AttemptsAlone ==
  LeaseOutlivesWorker =>
    \A i \in Item : \A p, q \in Process :
      job[p][i].pc \in AttemptPC /\ job[q][i].pc \in AttemptPC => p = q

Inv == /\ TypeOK /\ RowsConsistent /\ SnapshotSafe /\ HoldersDistinct /\ AttemptsAlone
       /\ LiveAttemptOwnsRow

\* How the row helpers act on a consistent row.
LEMMA RowOKHelpers ==
  ASSUME NEW r \in Row, RowOK(r)
  PROVE  /\ \A s \in Status \ {"queued", "sending"} : RowOK(Released(r, s))
         /\ r.attempts < MaxAttempts => RowOK([Released(r, "queued") EXCEPT !.due = TRUE])
         /\ RowOK([Released(r, "failed") EXCEPT !.due = FALSE])
         /\ RowOK(Restarted(r)) /\ RowOK(Rearmed(r))
         /\ \A t \in Token : Claimable(r) => RowOK(Claimed(r, t))
<1> USE BoundsAssumption, ConstantsAssumption DEF BoundsAssumption, ConstantsAssumption, RowOK, Row, Status
<1>1. \A s \in Status \ {"queued", "sending"} : RowOK(Released(r, s))
  BY DEF Released
<1>2. r.attempts < MaxAttempts => RowOK([Released(r, "queued") EXCEPT !.due = TRUE])
  BY DEF Released
<1>3. RowOK([Released(r, "failed") EXCEPT !.due = FALSE])
  BY DEF Released
<1>4. RowOK(Restarted(r))
  BY DEF Restarted, Released
<1>5. RowOK(Rearmed(r))
  BY DEF Rearmed, Restarted, Released
<1>6. ASSUME NEW t \in Token, Claimable(r) PROVE RowOK(Claimed(r, t))
  BY <1>6 DEF Claimable, Retryable, Claimed
<1>7. QED BY <1>1, <1>2, <1>3, <1>4, <1>5, <1>6

\* The columns of every row stay consistent: only the recovery queues a row
\* whose attempts it does not reset, and SnapshotSafe says one is left.
LEMMA RowsStep == TypeOK /\ RowsConsistent /\ SnapshotSafe /\ [Next]_vars => RowsConsistent'
<1> SUFFICES ASSUME TypeOK, RowsConsistent, SnapshotSafe, [Next]_vars PROVE RowsConsistent'
  OBVIOUS
<1> USE DEF RowsConsistent
<1>a. \A i \in Item : row[i] \in Row /\ RowOK(row[i])
  BY DEF TypeOK
<1>b. ASSUME NEW i \in Item, NEW r, RowOK(r), row' = [row EXCEPT ![i] = r] PROVE RowsConsistent'
  BY <1>a, <1>b DEF TypeOK
<1>c. row' = row => RowsConsistent'
  BY <1>a
<1>d. {"delivered", "canceled"} \subseteq Status \ {"queued", "sending"}
  BY DEF Status
<1>1. ASSUME NEW p \in Process, NEW i \in Item, JobStep(p, i) PROVE RowsConsistent'
  <2>1. CASE RecoverRequeue(p, i)
    <3>1. CASE Owns(p, i)
      <4>1. row[i].attempts < MaxAttempts
        BY <2>1, <3>1 DEF RecoverRequeue, SnapshotSafe, SnapshotPC
      <4>2. RowOK([Released(row[i], "queued") EXCEPT !.due = TRUE])
        BY <1>a, <4>1, RowOKHelpers
      <4>3. QED BY <2>1, <3>1, <4>2, <1>b DEF RecoverRequeue
    <3>2. CASE ~Owns(p, i) BY <2>1, <3>2, <1>c DEF RecoverRequeue
    <3>3. QED BY <3>1, <3>2
  <2>2. CASE RecoverDeliver(p, i) \/ MarkDelivered(p, i)
    <3>1. RowOK(Released(row[i], "delivered"))
      BY <1>a, <1>d, RowOKHelpers
    <3>2. QED BY <2>2, <3>1, <1>b, <1>c DEF RecoverDeliver, MarkDelivered
  <2>3. CASE Claim(p, i)
    <3>1. CASE Claimable(row[i])
      <4>1. PICK t \in FreshToken : row' = [row EXCEPT ![i] = Claimed(@, t)]
        BY <2>3, <3>1 DEF Claim
      <4>a. t \in Token
        BY DEF FreshToken
      <4>2. RowOK(Claimed(row[i], t))
        BY <1>a, <3>1, <4>a, RowOKHelpers
      <4>3. QED BY <4>1, <4>2, <1>b
    <3>2. CASE ~Claimable(row[i]) BY <2>3, <3>2, <1>c DEF Claim
    <3>3. QED BY <3>1, <3>2
  <2>4. CASE MarkFailed(p, i)
    <3>1. RowOK([Released(row[i], "failed") EXCEPT !.due = FALSE])
      BY <1>a, RowOKHelpers
    <3>2. QED BY <2>4, <3>1, <1>b, <1>c DEF MarkFailed
  <2>5. CASE \/ RecoverCheck(p, i) \/ SmtpReject(p, i) \/ SmtpAccept(p, i)
             \/ WriteMarker(p, i) \/ CleanMarker(p, i)
    BY <2>5, <1>c DEF RecoverCheck, SmtpReject, SmtpAccept, WriteMarker, CleanMarker
  <2>6. QED BY <1>1, <2>1, <2>2, <2>3, <2>4, <2>5 DEF JobStep
<1>2. ASSUME NEW p \in Process, StartTick(p) \/ ListDue(p) \/ Crash(p) PROVE RowsConsistent'
  BY <1>2, <1>c DEF StartTick, ListDue, Crash
<1>3. ASSUME NEW p \in Process, Handling(p) PROVE RowsConsistent'
  <2>1. ASSUME NEW i \in Item, EnqueueRearm(p, i) PROVE RowsConsistent'
    <3>1. RowOK(Rearmed(row[i]))
      BY <1>a, RowOKHelpers
    <3>2. QED BY <2>1, <3>1, <1>b, <1>c DEF EnqueueRearm
  <2>2. ASSUME NEW i \in Item, HandlerClean(p, i) PROVE RowsConsistent'
    BY <2>2, <1>c DEF HandlerClean
  <2>3. QED BY <1>3, <2>1, <2>2 DEF Handling
<1>4. ASSUME NEW p \in Process, NEW i \in Item, Request(p, i) \/ StatementFails(p, i)
      PROVE RowsConsistent'
  <2>1. CASE EnqueueRead(p, i) \/ StatementFails(p, i)
    BY <2>1, <1>c DEF EnqueueRead, StatementFails
  <2>2. CASE UserRetry(p, i)
    <3>1. RowOK([row[i] EXCEPT !.status = "queued", !.attempts = 0, !.due = TRUE])
      BY <2>2, <1>a, BoundsAssumption DEF BoundsAssumption, UserRetry, RowOK, Row
    <3>2. QED BY <2>2, <3>1, <1>b DEF UserRetry
  <2>3. CASE UserCancel(p, i)
    <3>1. RowOK([row[i] EXCEPT !.status = "canceled"])
      BY <2>3, <1>a DEF UserCancel, RowOK, Row
    <3>2. QED BY <2>3, <3>1, <1>b DEF UserCancel
  <2>4. QED BY <1>4, <2>1, <2>2, <2>3 DEF Request
<1>5. ASSUME NEW i \in Item, ItemStep(i) PROVE RowsConsistent'
  <2>1. CASE EnqueueInsert(i) \/ AdminRetry(i)
    <3>1. RowOK(Restarted(row[i]))
      BY <1>a, RowOKHelpers
    <3>2. QED BY <2>1, <3>1, <1>b DEF EnqueueInsert, AdminRetry
  <2>2. CASE AdminCancel(i)
    <3>1. RowOK(Released(row[i], "canceled"))
      BY <1>a, <1>d, RowOKHelpers
    <3>2. QED BY <2>2, <3>1, <1>b DEF AdminCancel
  <2>3. CASE Prune(i)
    <3>1. RowOK([row[i] EXCEPT !.status = "gone"])
      BY <2>3, <1>a DEF Prune, Finished, RowOK, Row
    <3>2. QED BY <2>3, <3>1, <1>b DEF Prune
  <2>4. CASE LeaseExpires(i)
    <3>1. RowOK([row[i] EXCEPT !.live = FALSE])
      BY <1>a DEF RowOK, Row
    <3>2. QED BY <2>4, <3>1, <1>b DEF LeaseExpires
  <2>5. CASE BecomesDue(i)
    <3>1. RowOK([row[i] EXCEPT !.due = TRUE])
      BY <1>a DEF RowOK, Row
    <3>2. QED BY <2>5, <3>1, <1>b DEF BecomesDue
  <2>6. QED BY <1>5, <2>1, <2>2, <2>3, <2>4, <2>5 DEF ItemStep
<1>6. ASSUME NEW S \in SUBSET Item, RemoveMailbox(S) PROVE RowsConsistent'
  <2>1. \A i \in Item : RowOK(Released(row[i], "removed"))
    BY <1>a, RowOKHelpers DEF Status
  <2>2. QED BY <1>6, <1>a, <2>1 DEF RemoveMailbox
<1>7. CASE UNCHANGED vars
  BY <1>7, <1>c DEF vars
<1>8. QED
  BY <1>1, <1>2, <1>3, <1>4, <1>5, <1>6, <1>7 DEF Next, Worker

\* How a step of a worker on one item moves jobs: every other job stays.
LEMMA JobMoves ==
  ASSUME TypeOK, NEW p \in Process, NEW i \in Item
  PROVE  /\ \A pc : Goto(p, i, pc) =>
              /\ job'[p][i].pc = pc /\ job'[p][i].token = job[p][i].token
              /\ \A q \in Process, j \in Item : q # p \/ j # i => job'[q][j] = job[q][j]
         /\ Done(p, i) =>
              /\ job'[p][i] = IdleJob
              /\ \A q \in Process, j \in Item : q # p \/ j # i => job'[q][j] = job[q][j]
         /\ AbortTick(p) =>
              \A q \in Process, j \in Item : job'[q][j] = IF q = p THEN IdleJob ELSE job[q][j]
<1>1. job[p][i] \in Job
  BY DEF TypeOK
<1>2. ASSUME NEW pc, Goto(p, i, pc)
      PROVE  /\ job'[p][i].pc = pc /\ job'[p][i].token = job[p][i].token
             /\ \A q \in Process, j \in Item : q # p \/ j # i => job'[q][j] = job[q][j]
  BY <1>1, <1>2 DEF Goto, TypeOK, Job
<1>3. ASSUME Done(p, i)
      PROVE  /\ job'[p][i] = IdleJob
             /\ \A q \in Process, j \in Item : q # p \/ j # i => job'[q][j] = job[q][j]
  BY <1>3 DEF Done, TypeOK
<1>4. ASSUME AbortTick(p)
      PROVE  \A q \in Process, j \in Item : job'[q][j] = IF q = p THEN IdleJob ELSE job[q][j]
  BY <1>4 DEF AbortTick, TypeOK
<1>5. QED BY <1>2, <1>3, <1>4

Leases == SnapshotSafe /\ HoldersDistinct /\ AttemptsAlone /\ LiveAttemptOwnsRow

\* Jobs only go on with what they hold: nobody acquires a snapshot or a lease.
JobsGoOn ==
  \A q \in Process, j \in Item :
    \/ job'[q][j].pc \notin SnapshotPC \cup AttemptPC
    \/ /\ job'[q][j].token = job[q][j].token
       /\ job'[q][j].pc \in AttemptPC => job[q][j].pc \in AttemptPC
       /\ job'[q][j].pc \in SnapshotPC => job[q][j].pc \in SnapshotPC

\* A step that leaves the rows alone, one that takes a row nobody is attempting
\* out of "sending", and one that removes rows keep the leases as they should be.
LEMMA LeasesKept ==
  ASSUME TypeOK, Leases, JobsGoOn
  PROVE  /\ row' = row => Leases'
         /\ \A i \in Item : \A r :
              /\ row' = [row EXCEPT ![i] = r]
              /\ r.status # "sending"
              /\ LeaseOutlivesWorker => \A q \in Process : job'[q][i].pc \notin AttemptPC
              => Leases'
         /\ (\A i \in Item : row'[i] = row[i] \/ row'[i].status = "removed") => Leases'
<1> USE DEF Leases, JobsGoOn, SnapshotSafe, HoldersDistinct, AttemptsAlone, LiveAttemptOwnsRow, Owns
<1>1. HoldersDistinct' /\ AttemptsAlone'
  BY DEF SnapshotPC, AttemptPC
<1>2. ASSUME row' = row PROVE Leases'
  <2>1. SnapshotSafe' BY <1>2 DEF SnapshotPC, AttemptPC
  <2>2. LiveAttemptOwnsRow' BY <1>2 DEF SnapshotPC, AttemptPC
  <2>3. QED BY <1>1, <2>1, <2>2
<1>3. ASSUME NEW i \in Item, NEW r, row' = [row EXCEPT ![i] = r], r.status # "sending",
             LeaseOutlivesWorker => \A q \in Process : job'[q][i].pc \notin AttemptPC
      PROVE  Leases'
  <2>1. row'[i] = r /\ \A j \in Item : j # i => row'[j] = row[j]
    BY <1>3 DEF TypeOK
  <2>2. SnapshotSafe' BY <1>3, <2>1 DEF SnapshotPC, AttemptPC
  <2>3. LiveAttemptOwnsRow' BY <1>3, <2>1 DEF SnapshotPC, AttemptPC
  <2>4. QED BY <1>1, <2>2, <2>3
<1>4. ASSUME \A i \in Item : row'[i] = row[i] \/ row'[i].status = "removed" PROVE Leases'
  <2>1. SnapshotSafe' BY <1>4 DEF SnapshotPC, AttemptPC
  <2>2. LiveAttemptOwnsRow' BY <1>4 DEF SnapshotPC, AttemptPC
  <2>3. QED BY <1>1, <2>1, <2>2
<1>5. QED BY <1>2, <1>3, <1>4

\* Tokens, snapshots and live leases fit together in every step: a claim uses
\* a token nobody remembers, a snapshot is of a lease that ran out, and what
\* takes a row out of "sending" is its attempt, or a recovery without rival.
LEMMA LeasesStep == TypeOK /\ RowsConsistent /\ Leases /\ [Next]_vars => Leases'
<1> SUFFICES ASSUME TypeOK, RowsConsistent, Leases, [Next]_vars PROVE Leases'
  OBVIOUS
<1>a. \A i \in Item : row[i] \in Row
  BY DEF TypeOK
<1>b. ASSUME NEW i \in Item, row[i].status \notin {"sending", "removed"}
      PROVE  LeaseOutlivesWorker => \A q \in Process : job[q][i].pc \notin AttemptPC
  BY <1>b DEF Leases, LiveAttemptOwnsRow, Owns
<1>c. job' = job => JobsGoOn
  BY DEF JobsGoOn
<1>d. \A r \in Row, s \in Status : /\ Released(r, s).status = s
                                /\ [Released(r, s) EXCEPT !.due = TRUE].status = s
                                /\ [Released(r, s) EXCEPT !.due = FALSE].status = s
  BY DEF Released, Row
<1>e. \A r \in Row : Restarted(r).status = "queued" /\ Rearmed(r).status = "queued"
  BY DEF Restarted, Rearmed, Released, Row
<1>f. {"queued", "delivered", "failed", "canceled"} \subseteq Status
  BY DEF Status
<1>g. IdleJob.pc \notin SnapshotPC \cup AttemptPC
  BY DEF IdleJob, SnapshotPC, AttemptPC
<1>1. ASSUME NEW p \in Process, NEW i \in Item, JobStep(p, i) PROVE Leases'
  <2>a. row[i] \in Row
    BY <1>a
  <2>b. ASSUME Owns(p, i), job[p][i].pc \in SnapshotPC \cup AttemptPC
        PROVE  LeaseOutlivesWorker =>
                 \A q \in Process : job[q][i].pc \in AttemptPC => q = p
    BY <2>b DEF Leases, LiveAttemptOwnsRow, SnapshotSafe, AttemptsAlone, Owns
  <2>c. ASSUME Owns(p, i), job[p][i].pc \in SnapshotPC
        PROVE  LeaseOutlivesWorker => \A q \in Process : job[q][i].pc \notin AttemptPC
    BY <2>c DEF Leases, LiveAttemptOwnsRow, SnapshotSafe, Owns
  <2>1. CASE RecoverCheck(p, i)
    <3>1. JobsGoOn
      BY <2>1, JobMoves DEF RecoverCheck, JobsGoOn, SnapshotPC, AttemptPC
    <3>2. QED BY <2>1, <3>1, LeasesKept DEF RecoverCheck
  <2>2. CASE RecoverRequeue(p, i)
    <3>1. JobsGoOn /\ \A q \in Process : q # p => job'[q][i] = job[q][i]
      BY <2>2, <1>g, JobMoves DEF RecoverRequeue, JobsGoOn
    <3>2. job'[p][i].pc \notin AttemptPC
      BY <2>2, <1>g, JobMoves DEF RecoverRequeue
    <3>3. job[p][i].pc \in SnapshotPC
      BY <2>2 DEF RecoverRequeue, SnapshotPC
    <3>4. CASE Owns(p, i)
      <4>1. row' = [row EXCEPT ![i] = [Released(row[i], "queued") EXCEPT !.due = TRUE]]
        BY <2>2, <3>4 DEF RecoverRequeue
      <4>2. LeaseOutlivesWorker => \A q \in Process : job'[q][i].pc \notin AttemptPC
        BY <2>c, <3>1, <3>2, <3>3, <3>4
      <4>3. [Released(row[i], "queued") EXCEPT !.due = TRUE].status # "sending"
        BY <1>d, <1>f, <2>a
      <4>4. QED BY <3>1, <4>1, <4>2, <4>3, LeasesKept
    <3>5. CASE ~Owns(p, i) BY <2>2, <3>1, <3>5, LeasesKept DEF RecoverRequeue
    <3>6. QED BY <3>4, <3>5
  <2>3. CASE RecoverDeliver(p, i)
    <3>1. job[p][i].pc \in SnapshotPC
      BY <2>3 DEF RecoverDeliver, SnapshotPC
    <3>2. CASE Owns(p, i)
      <4>1. row' = [row EXCEPT ![i] = Released(row[i], "delivered")] /\ Goto(p, i, "recClean")
        BY <2>3, <3>2 DEF RecoverDeliver
      <4>2. JobsGoOn /\ \A q \in Process : q # p => job'[q][i] = job[q][i]
        BY <4>1, JobMoves DEF JobsGoOn, SnapshotPC, AttemptPC
      <4>3. LeaseOutlivesWorker => \A q \in Process : job'[q][i].pc \notin AttemptPC
        BY <2>c, <3>1, <3>2, <4>1, <4>2, JobMoves DEF AttemptPC
      <4>4. Released(row[i], "delivered").status # "sending"
        BY <1>d, <1>f, <2>a
      <4>5. QED BY <4>1, <4>2, <4>3, <4>4, LeasesKept
    <3>3. CASE ~Owns(p, i)
      <4>1. JobsGoOn
        BY <2>3, <3>3, <1>g, JobMoves DEF RecoverDeliver, JobsGoOn
      <4>2. QED BY <2>3, <3>3, <4>1, LeasesKept DEF RecoverDeliver
    <3>4. QED BY <3>2, <3>3
  <2>4. CASE Claim(p, i)
    <3>1. CASE ~Claimable(row[i])
      <4>1. JobsGoOn
        BY <2>4, <3>1, <1>g, JobMoves DEF Claim, JobsGoOn
      <4>2. QED BY <2>4, <3>1, <4>1, LeasesKept DEF Claim
    <3>2. CASE Claimable(row[i])
      <4>1. PICK t \in FreshToken :
              /\ row' = [row EXCEPT ![i] = Claimed(@, t)]
              /\ job' = [job EXCEPT ![p][i] =
                   [pc |-> "smtp", token |-> t, version |-> row[i].version]]
        BY <2>4, <3>2 DEF Claim
      <4>2. /\ row'[i] = Claimed(row[i], t)
            /\ \A j \in Item : j # i => row'[j] = row[j]
        BY <4>1 DEF TypeOK
      <4>3. row'[i].status = "sending" /\ row'[i].token = t /\ row'[i].live
        BY <4>2, <2>a DEF Claimed, Row
      <4>4. /\ job'[p][i] = [pc |-> "smtp", token |-> t, version |-> row[i].version]
            /\ \A q \in Process, j \in Item : q # p \/ j # i => job'[q][j] = job[q][j]
        BY <4>1 DEF TypeOK
      <4>5. job'[p][i].pc \in AttemptPC /\ job'[p][i].pc \notin SnapshotPC /\ job'[p][i].token = t
        BY <4>4 DEF AttemptPC, SnapshotPC
      <4>6. \A q \in Process, j \in Item : job[q][j].token # t
        BY DEF FreshToken
      <4>7. row[i].status \notin {"sending", "removed"}
        BY <3>2 DEF Claimable, Retryable
      <4>8. SnapshotSafe'
        BY <4>2, <4>3, <4>4, <4>5, <4>6 DEF Leases, SnapshotSafe, Owns
      <4>9. HoldersDistinct'
        BY <4>4, <4>5, <4>6 DEF Leases, HoldersDistinct
      <4>10. LiveAttemptOwnsRow'
        BY <4>2, <4>3, <4>4, <4>5, <4>7, <1>b DEF Leases, LiveAttemptOwnsRow, Owns
      <4>11. AttemptsAlone'
        BY <4>4, <4>7, <1>b DEF Leases, AttemptsAlone
      <4>12. QED BY <4>8, <4>9, <4>10, <4>11 DEF Leases
    <3>3. QED BY <3>1, <3>2
  <2>5. CASE SmtpReject(p, i) \/ SmtpAccept(p, i) \/ WriteMarker(p, i) \/ CleanMarker(p, i)
    <3>1. JobsGoOn
      BY <2>5, <1>g, JobMoves
         DEF SmtpReject, SmtpAccept, WriteMarker, CleanMarker, JobsGoOn, SnapshotPC, AttemptPC
    <3>2. QED BY <2>5, <3>1, LeasesKept DEF SmtpReject, SmtpAccept, WriteMarker, CleanMarker
  <2>6. CASE MarkDelivered(p, i) \/ MarkFailed(p, i)
    <3>1. job[p][i].pc \in AttemptPC
      BY <2>6 DEF MarkDelivered, MarkFailed, AttemptPC
    <3>2. /\ job'[p][i].pc \notin SnapshotPC \cup AttemptPC
          /\ \A q \in Process, j \in Item : q # p \/ j # i => job'[q][j] = job[q][j]
      BY <2>6, <1>g, JobMoves DEF MarkDelivered, MarkFailed, SnapshotPC, AttemptPC
    <3>3. JobsGoOn
      BY <3>2 DEF JobsGoOn
    <3>4. CASE Owns(p, i)
      <4>a. ASSUME MarkDelivered(p, i)
            PROVE  \E r : row' = [row EXCEPT ![i] = r] /\ r.status # "sending"
        <5>1. row' = [row EXCEPT ![i] = Released(row[i], "delivered")]
          BY <3>4, <4>a DEF MarkDelivered
        <5>2. Released(row[i], "delivered").status # "sending"
          BY <1>d, <1>f, <2>a
        <5>3. QED BY <5>1, <5>2
      <4>b. ASSUME MarkFailed(p, i)
            PROVE  \E r : row' = [row EXCEPT ![i] = r] /\ r.status # "sending"
        <5>1. row' = [row EXCEPT ![i] = [Released(row[i], "failed") EXCEPT !.due = FALSE]]
          BY <3>4, <4>b DEF MarkFailed
        <5>2. [Released(row[i], "failed") EXCEPT !.due = FALSE].status # "sending"
          BY <1>d, <1>f, <2>a
        <5>3. QED BY <5>1, <5>2
      <4>1. PICK r : row' = [row EXCEPT ![i] = r] /\ r.status # "sending"
        BY <2>6, <4>a, <4>b
      <4>2. LeaseOutlivesWorker => \A q \in Process : job'[q][i].pc \notin AttemptPC
        BY <2>b, <3>1, <3>2, <3>4
      <4>3. QED BY <3>3, <4>1, <4>2, LeasesKept
    <3>5. CASE ~Owns(p, i) BY <2>6, <3>3, <3>5, LeasesKept DEF MarkDelivered, MarkFailed
    <3>6. QED BY <3>4, <3>5
  <2>7. QED BY <1>1, <2>1, <2>2, <2>3, <2>4, <2>5, <2>6 DEF JobStep
<1>2. ASSUME NEW p \in Process, StartTick(p) PROVE Leases'
  <2>1. PICK B \in Batch({i \in Item : Stale(row[i])}) :
          job' = [job EXCEPT ![p] = [i \in Item |->
                 IF i \in B
                   THEN [pc |-> "stale", token |-> row[i].token, version |-> row[i].version]
                   ELSE IdleJob]]
    BY <1>2 DEF StartTick
  <2>2. \A i \in B : i \in Item /\ Stale(row[i])
    BY DEF Batch
  <2>3. \A q \in Process, j \in Item :
          job'[q][j] = IF q # p THEN job[q][j]
                       ELSE IF j \in B
                         THEN [pc |-> "stale", token |-> row[j].token, version |-> row[j].version]
                         ELSE IdleJob
    BY <2>1 DEF TypeOK
  <2>4. row' = row
    BY <1>2 DEF StartTick
  <2>5. \A q \in Process, j \in Item :
          job'[q][j].pc \in AttemptPC => q # p /\ job'[q][j] = job[q][j]
    <3>1. ASSUME NEW j \in Item PROVE job'[p][j].pc \notin AttemptPC
      <4>1. CASE j \in B
        <5>1. job'[p][j] = [pc |-> "stale", token |-> row[j].token, version |-> row[j].version]
          BY <2>3, <4>1
        <5>2. job'[p][j].pc = "stale"
          BY <5>1
        <5>3. QED BY <5>2 DEF AttemptPC
      <4>2. CASE j \notin B
        BY <2>3, <4>2, <1>g
      <4>3. QED BY <4>1, <4>2
    <3>2. QED BY <2>3, <3>1
  <2>6. SnapshotSafe'
    <3>1. ASSUME NEW q \in Process, NEW j \in Item, job'[q][j].pc \in SnapshotPC, Owns(q, j)'
          PROVE  (~row[j].live /\ row[j].attempts < MaxAttempts)'
      BY <2>2, <2>3, <2>4, <3>1, <1>g DEF Leases, SnapshotSafe, Owns, Stale
    <3>2. QED BY <3>1 DEF SnapshotSafe
  <2>7. HoldersDistinct'
    BY <2>5 DEF Leases, HoldersDistinct
  <2>8. LiveAttemptOwnsRow'
    BY <2>4, <2>5 DEF Leases, LiveAttemptOwnsRow, Owns
  <2>9. AttemptsAlone'
    BY <2>5 DEF Leases, AttemptsAlone
  <2>10. QED BY <2>6, <2>7, <2>8, <2>9 DEF Leases
<1>3. ASSUME NEW p \in Process, ListDue(p) PROVE Leases'
  <2>1. PICK B : job' = [job EXCEPT ![p] = [i \in Item |->
                 IF i \in B THEN [IdleJob EXCEPT !.pc = "listed"] ELSE IdleJob]]
    BY <1>3 DEF ListDue
  <2>2. [IdleJob EXCEPT !.pc = "listed"].pc = "listed"
    BY DEF IdleJob
  <2>3. JobsGoOn
    BY <2>1, <2>2, <1>g DEF TypeOK, JobsGoOn, SnapshotPC, AttemptPC
  <2>4. QED BY <1>3, <2>3, LeasesKept DEF ListDue
<1>4. ASSUME NEW p \in Process, Crash(p) PROVE Leases'
  <2>1. JobsGoOn
    BY <1>4, <1>g DEF Crash, AbortTick, TypeOK, JobsGoOn
  <2>2. QED BY <1>4, <2>1, LeasesKept DEF Crash
<1>5. ASSUME NEW p \in Process, NEW i \in Item, StatementFails(p, i) PROVE Leases'
  <2>1. JobsGoOn
    BY <1>5, <1>g, JobMoves DEF StatementFails, JobsGoOn
  <2>2. QED BY <1>5, <2>1, LeasesKept DEF StatementFails
<1>6. ASSUME NEW i \in Item, NEW r, row[i].status \notin {"sending", "removed"}, r.status # "sending",
             job' = job, row' = [row EXCEPT ![i] = r]
      PROVE  Leases'
  BY <1>6, <1>b, <1>c, LeasesKept
<1>7. ASSUME NEW p \in Process, Handling(p) PROVE Leases'
  <2>1. ASSUME NEW i \in Item, EnqueueRearm(p, i) PROVE Leases'
    <3>1. CASE row[i].status = handler[p][i]
      <4>1. row[i].status \notin {"sending", "removed"}
        BY <2>1, <3>1 DEF EnqueueRearm, Finished
      <4>2. Rearmed(row[i]).status # "sending"
        BY <1>a, <1>e
      <4>3. QED BY <2>1, <3>1, <4>1, <4>2, <1>6 DEF EnqueueRearm
    <3>2. CASE row[i].status # handler[p][i]
      BY <2>1, <3>2, <1>c, LeasesKept DEF EnqueueRearm
    <3>3. QED BY <3>1, <3>2
  <2>2. ASSUME NEW i \in Item, HandlerClean(p, i) PROVE Leases'
    BY <2>2, <1>c, LeasesKept DEF HandlerClean
  <2>3. QED BY <1>7, <2>1, <2>2 DEF Handling
<1>8. ASSUME NEW p \in Process, NEW i \in Item, Request(p, i) PROVE Leases'
  <2>1. CASE EnqueueRead(p, i)
    BY <2>1, <1>c, LeasesKept DEF EnqueueRead
  <2>2. CASE UserRetry(p, i)
    <3>1. [row[i] EXCEPT !.status = "queued", !.attempts = 0, !.due = TRUE].status # "sending"
      BY <1>a DEF Row
    <3>2. QED BY <2>2, <3>1, <1>6 DEF UserRetry
  <2>3. CASE UserCancel(p, i)
    <3>1. [row[i] EXCEPT !.status = "canceled"].status # "sending"
      BY <1>a DEF Row
    <3>2. QED BY <2>3, <3>1, <1>6 DEF UserCancel
  <2>4. QED BY <1>8, <2>1, <2>2, <2>3 DEF Request
<1>9. ASSUME NEW i \in Item, ItemStep(i) PROVE Leases'
  <2>a. row[i] \in Row
    BY <1>a
  <2>1. CASE EnqueueInsert(i) \/ AdminRetry(i)
    BY <2>1, <2>a, <1>e, <1>6 DEF EnqueueInsert, AdminRetry
  <2>2. CASE AdminCancel(i)
    BY <2>2, <2>a, <1>d, <1>f, <1>6 DEF AdminCancel
  <2>3. CASE Prune(i)
    <3>1. /\ [row[i] EXCEPT !.status = "gone"].status # "sending"
          /\ row[i].status \notin {"sending", "removed"}
      BY <2>3, <2>a DEF Row, Prune, Finished
    <3>2. QED BY <2>3, <3>1, <1>6 DEF Prune
  <2>4. CASE BecomesDue(i)
    <3>1. /\ [row[i] EXCEPT !.due = TRUE].status # "sending"
          /\ row[i].status \notin {"sending", "removed"}
      BY <2>4, <2>a DEF Row, BecomesDue
    <3>2. QED BY <2>4, <3>1, <1>6 DEF BecomesDue
  <2>5. CASE LeaseExpires(i)
    <3>1. /\ row'[i] = [row[i] EXCEPT !.live = FALSE]
          /\ \A j \in Item : j # i => row'[j] = row[j]
      BY <2>5 DEF LeaseExpires, TypeOK
    <3>2. /\ row'[i].status = row[i].status /\ row'[i].token = row[i].token
          /\ row'[i].attempts = row[i].attempts /\ ~row'[i].live
      BY <2>a, <3>1 DEF Row
    <3>3. job' = job
      BY <2>5 DEF LeaseExpires
    <3>t. \A j \in Item : /\ row'[j].status = row[j].status /\ row'[j].token = row[j].token
                          /\ row'[j].attempts = row[j].attempts
                          /\ row'[j].live => row[j].live
      BY <3>1, <3>2
    <3>4. SnapshotSafe'
      BY <3>t, <3>3 DEF Leases, SnapshotSafe, Owns
    <3>5. HoldersDistinct' /\ AttemptsAlone'
      BY <3>3 DEF Leases, HoldersDistinct, AttemptsAlone
    <3>6. LeaseOutlivesWorker /\ row[i].status # "removed"
            => \A q \in Process : job[q][i].pc \notin AttemptPC
      BY <2>5 DEF LeaseExpires, Leases, LiveAttemptOwnsRow
    <3>7. LiveAttemptOwnsRow'
      <4> SUFFICES ASSUME LeaseOutlivesWorker, NEW q \in Process, NEW j \in Item,
                          job[q][j].pc \in AttemptPC, row'[j].status # "removed"
                   PROVE  Owns(q, j)' /\ row'[j].live
        BY <3>3 DEF LiveAttemptOwnsRow
      <4>1. j # i
        BY <3>2, <3>6
      <4>2. QED BY <3>1, <3>3, <4>1 DEF Leases, LiveAttemptOwnsRow, Owns
    <3>8. QED BY <3>4, <3>5, <3>7 DEF Leases
  <2>6. QED BY <1>9, <2>1, <2>2, <2>3, <2>4, <2>5 DEF ItemStep
<1>10. ASSUME NEW S \in SUBSET Item, RemoveMailbox(S) PROVE Leases'
  <2>1. \A i \in Item : Released(row[i], "removed").status = "removed"
    BY <1>a, <1>d DEF Status
  <2>2. \A i \in Item : row'[i] = row[i] \/ row'[i].status = "removed"
    BY <1>10, <2>1 DEF RemoveMailbox
  <2>3. QED BY <1>10, <1>c, <2>2, LeasesKept DEF RemoveMailbox
<1>11. CASE UNCHANGED vars
  BY <1>11, <1>c, LeasesKept DEF vars
<1>12. QED
  BY <1>1, <1>2, <1>3, <1>4, <1>5, <1>7, <1>8, <1>9, <1>10, <1>11 DEF Next, Worker

\* The invariant holds from the start and forever.
LEMMA InvAlways == Spec => []Inv
<1>1. Init => Inv
  <2>1. ASSUME Init PROVE TypeOK
    BY <2>1, BoundsAssumption DEF BoundsAssumption, Init, TypeOK, Row, NewRow, Status, Version,
       IdleJob, Job, PC, Handler
  <2>2. ASSUME Init PROVE RowsConsistent
    BY <2>2, BoundsAssumption DEF BoundsAssumption, Init, RowsConsistent, RowOK, NewRow
  <2>3. ASSUME Init PROVE \A p \in Process, i \in Item : job[p][i].pc = "idle"
    BY <2>3 DEF Init, IdleJob
  <2>4. ASSUME Init PROVE SnapshotSafe /\ HoldersDistinct /\ AttemptsAlone /\ LiveAttemptOwnsRow
    BY <2>3, <2>4 DEF SnapshotSafe, HoldersDistinct, AttemptsAlone, LiveAttemptOwnsRow,
       SnapshotPC, AttemptPC
  <2>5. QED BY <2>1, <2>2, <2>4 DEF Inv
<1>2. Inv /\ [Next]_vars => Inv'
  BY TypeStep, RowsStep, LeasesStep DEF Inv, Leases
<1>3. QED
  BY <1>1, <1>2, PTL DEF Spec

\* In every reachable state the columns of every row fit together, and a
\* queued row has an attempt left.
THEOREM RowsAlwaysConsistent == Spec => []RowsConsistent
BY InvAlways, PTL DEF Inv

\* If leases outlive workers, an attempt under way always owns its row, until its
\* mailbox is deleted: nobody ends an item that is being sent.
THEOREM AttemptsOwnTheirRows == Spec => []LiveAttemptOwnsRow
BY InvAlways, PTL DEF Inv

-----------------------------------------------------------------------------
(* What is known of acceptances                                              *)
(*                                                                           *)
(* Whether the content of a row was accepted is known to the attempt, to the *)
(* marker, or to nobody, and then the version is in doubt.  DuplicateExplained *)
(* and DeliveredMeansAccepted follow from where that knowledge is at each     *)
(* stage of a row.                                                           *)

\* The content a row holds was not accepted yet, or its acceptance is in doubt.
Clear(i) == accepted[i][row[i].version] = 0 \/ <<i, row[i].version>> \in doubt
\* It was accepted, or a marker of an earlier entry was left behind.
Backed(i) == accepted[i][row[i].version] > 0 \/ i \in orphan

\* A row that waits for an attempt is clear, one that reads delivered is backed.
RestingOK(i) ==
  /\ row[i].status \in {"none", "queued", "failed"} => Clear(i)
  /\ row[i].status = "delivered" => Backed(i)

\* What each job on the item relies on: an attempt works on the content of the
\* row, a message goes out, is failed or is queued again only when it is clear,
\* and is marked delivered only when it is backed.
JobsOK(i) ==
  \A p \in Process :
    /\ job[p][i].pc \in AttemptPC => job[p][i].version = row[i].version
    /\ job[p][i].pc \in {"smtp", "failing"} => Clear(i)
    /\ job[p][i].pc \in {"accepted", "deliver"} => Backed(i)
    /\ job[p][i].pc = "requeue" /\ Owns(p, i) => Clear(i)
    /\ job[p][i].pc = "recDeliver" /\ Owns(p, i) => Backed(i)

\* An acceptance without doubt is on disk, or the attempt is about to put it there.
SendingOK(i) ==
  row[i].status = "sending" =>
    Clear(i) \/ i \in marker \/ \E p \in Process : job[p][i].pc = "accepted"

\* A marker speaks for the content of the row unless somebody is about to
\* remove it; whoever finds it after the lease ran out may rely on it.
MarkerOK(i) ==
  i \in marker =>
    /\ Backed(i) \/ \E p \in Process : handler[p][i] = "clean"
    /\ row[i].status = "sending" /\ ~row[i].live => Backed(i)

CountsOK(i) ==
  /\ \A v \in Version : v > row[i].version => accepted[i][v] = 0
  /\ \A v \in Version : accepted[i][v] = 2 => <<i, v>> \in doubt

Accounted(i) == RestingOK(i) /\ JobsOK(i) /\ SendingOK(i) /\ MarkerOK(i) /\ CountsOK(i)

\* A tick recovers, or it sends, so that an error in the recovery ends no attempt.
OneTrade ==
  \A p \in Process : \/ \A i \in Item : job[p][i].pc \in RecoveryPC \cup {"idle"}
                     \/ \A i \in Item : job[p][i].pc \notin RecoveryPC

AcceptanceInv == LeaseOutlivesWorker => OneTrade /\ \A i \in Item : Accounted(i)

\* Every step only adds to the doubts and to the markers left behind.
LEMMA HistoryGrows == [Next]_vars => doubt \subseteq doubt' /\ orphan \subseteq orphan'
<1> SUFFICES ASSUME [Next]_vars PROVE doubt \subseteq doubt' /\ orphan \subseteq orphan'
  OBVIOUS
<1>1. ASSUME NEW p \in Process, NEW i \in Item, JobStep(p, i)
      PROVE  doubt \subseteq doubt' /\ orphan \subseteq orphan'
  BY <1>1 DEF JobStep, RecoverCheck, RecoverRequeue, RecoverDeliver, Claim, SmtpReject,
     SmtpAccept, WriteMarker, MarkDelivered, CleanMarker, MarkFailed, RemoveMarker, history
<1>2. ASSUME NEW p \in Process, StartTick(p) \/ ListDue(p) \/ Crash(p) \/ Handling(p)
      PROVE  doubt \subseteq doubt' /\ orphan \subseteq orphan'
  BY <1>2 DEF StartTick, ListDue, Crash, Handling, EnqueueRearm, HandlerClean, RemoveMarker, history
<1>3. ASSUME NEW p \in Process, NEW i \in Item, Request(p, i) \/ StatementFails(p, i)
      PROVE  doubt \subseteq doubt' /\ orphan \subseteq orphan'
  BY <1>3 DEF Request, EnqueueRead, UserRetry, UserCancel, StatementFails, history
<1>4. CASE UNCHANGED vars \/ \E S \in SUBSET Item : RemoveMailbox(S)
  BY <1>4 DEF vars, RemoveMailbox, history
<1>5. ASSUME NEW i \in Item, ItemStep(i)
      PROVE  doubt \subseteq doubt' /\ orphan \subseteq orphan'
  BY <1>5 DEF ItemStep,
     EnqueueInsert, AdminRetry, AdminCancel, Prune, LeaseExpires, BecomesDue, history
<1>6. QED BY <1>1, <1>2, <1>3, <1>4, <1>5 DEF Next, Worker

\* The jobs on an item stay, or are over without losing an acceptance.
JobsCalm(i) ==
  \A p \in Process :
    \/ job'[p][i] = job[p][i]
    \/ /\ job'[p][i].pc \notin AttemptPC \cup {"requeue", "recDeliver"}
       /\ job[p][i].pc = "accepted" => <<i, row[i].version>> \in doubt'

\* The row stays, but for its times, or it leaves the attempt behind.
RowCalm(i) ==
  /\ row'[i].version = row[i].version
  /\ \/ /\ row'[i].status = row[i].status /\ row'[i].token = row[i].token
        /\ row'[i].live = row[i].live \/ \A p \in Process : handler[p][i] # "clean"
     \/ /\ row'[i].status # "sending"
        /\ row'[i].status \in {"none", "queued", "failed"} => Clear(i)
        /\ row'[i].status = "delivered" => Backed(i)

\* A marker may go, which puts an open attempt in doubt; a handler that gives up
\* on one leaves it behind.
MarkerCalm(i) ==
  /\ i \in marker' => i \in marker
  /\ i \in marker /\ i \notin marker' =>
       \/ row'[i].status # "sending"
       \/ <<i, row[i].version>> \in doubt'
  /\ (\E p \in Process : handler[p][i] = "clean") =>
       (\E p \in Process : handler'[p][i] = "clean") \/ i \notin marker' \/ i \in orphan'

\* Whatever a step does within these limits keeps the books of an item.
LEMMA CalmStep ==
  ASSUME TypeOK, NEW i \in Item, Accounted(i),
         doubt \subseteq doubt', orphan \subseteq orphan', accepted'[i] = accepted[i],
         RowCalm(i), JobsCalm(i), MarkerCalm(i)
  PROVE  Accounted(i)'
<1> USE DEF Accounted
<1>1. (Clear(i) => Clear(i)') /\ (Backed(i) => Backed(i)')
  BY DEF Clear, Backed, RowCalm
<1>2. RestingOK(i)'
  BY <1>1 DEF RestingOK, RowCalm
<1>3. JobsOK(i)'
  <2> SUFFICES ASSUME NEW p \in Process
               PROVE  (/\ job[p][i].pc \in AttemptPC => job[p][i].version = row[i].version
                       /\ job[p][i].pc \in {"smtp", "failing"} => Clear(i)
                       /\ job[p][i].pc \in {"accepted", "deliver"} => Backed(i)
                       /\ job[p][i].pc = "requeue" /\ Owns(p, i) => Clear(i)
                       /\ job[p][i].pc = "recDeliver" /\ Owns(p, i) => Backed(i))'
    BY DEF JobsOK
  <2>1. Owns(p, i)' /\ job'[p][i] = job[p][i] => Owns(p, i)
    BY DEF RowCalm, Owns
  <2>2. QED BY <1>1, <2>1 DEF JobsOK, JobsCalm, RowCalm, AttemptPC
<1>4. SendingOK(i)'
  <2> SUFFICES ASSUME row'[i].status = "sending"
               PROVE  Clear(i)' \/ i \in marker' \/ \E p \in Process : job'[p][i].pc = "accepted"
    BY DEF SendingOK
  <2>1. row[i].status = "sending"
    BY DEF RowCalm
  <2>2. <<i, row[i].version>> \in doubt' => Clear(i)'
    BY DEF Clear, RowCalm
  <2>3. QED BY <1>1, <2>1, <2>2 DEF SendingOK, JobsCalm, MarkerCalm
<1>5. MarkerOK(i)'
  <2> SUFFICES ASSUME i \in marker'
               PROVE  (/\ Backed(i) \/ \E p \in Process : handler[p][i] = "clean"
                       /\ row[i].status = "sending" /\ ~row[i].live => Backed(i))'
    BY DEF MarkerOK
  <2>1. i \in marker
    BY DEF MarkerCalm
  <2>2. Backed(i)' \/ \E p \in Process : handler'[p][i] = "clean"
    BY <1>1, <2>1 DEF MarkerOK, MarkerCalm, Backed
  <2>3. row'[i].status = "sending" /\ ~row'[i].live => Backed(i)'
    BY <1>1, <2>1 DEF MarkerOK, RowCalm
  <2>4. QED BY <2>2, <2>3
<1>6. CountsOK(i)'
  BY DEF CountsOK, RowCalm
<1>7. QED BY <1>2, <1>3, <1>4, <1>5, <1>6

\* An item a step leaves alone, except that jobs on it may end, stays accounted for.
LEMMA QuietStep ==
  ASSUME TypeOK, NEW i \in Item, Accounted(i),
         doubt \subseteq doubt', orphan \subseteq orphan',
         row'[i] = row[i], accepted'[i] = accepted[i], i \in marker' <=> i \in marker,
         \A p \in Process : handler'[p][i] = handler[p][i],
         JobsCalm(i)
  PROVE  Accounted(i)'
<1>1. RowCalm(i)
  BY DEF RowCalm
<1>2. MarkerCalm(i)
  BY DEF MarkerCalm
<1>3. QED BY <1>1, <1>2, CalmStep

\* A tick goes on in the trade it started with.
LEMMA TradeStep == TypeOK /\ OneTrade /\ [Next]_vars => OneTrade'
<1> SUFFICES ASSUME TypeOK, OneTrade, [Next]_vars PROVE OneTrade'
  OBVIOUS
<1>a. IdleJob.pc = "idle" /\ "idle" \notin RecoveryPC
  BY DEF IdleJob, RecoveryPC
<1>b. ASSUME NEW p \in Process, NEW i \in Item, job[p][i].pc # "idle",
             job'[p][i].pc = "idle" \/ (job'[p][i].pc \in RecoveryPC <=> job[p][i].pc \in RecoveryPC),
             \A q \in Process, j \in Item : q # p \/ j # i => job'[q][j] = job[q][j]
      PROVE  OneTrade'
  BY <1>a, <1>b DEF OneTrade
<1>c. ASSUME NEW p \in Process,
             \A q \in Process, j \in Item : q # p => job'[q][j] = job[q][j],
             \/ \A j \in Item : job'[p][j].pc \in RecoveryPC \cup {"idle"}
             \/ \A j \in Item : job'[p][j].pc \notin RecoveryPC
      PROVE  OneTrade'
  BY <1>c DEF OneTrade
<1>d. ASSUME NEW p \in Process, AbortTick(p) PROVE OneTrade'
  BY <1>a, <1>c, <1>d DEF AbortTick, TypeOK
<1>e. job' = job => OneTrade'
  BY DEF OneTrade
<1>1. ASSUME NEW p \in Process, NEW i \in Item, JobStep(p, i) PROVE OneTrade'
  <2>1. CASE RecoverDeliver(p, i) /\ ~Owns(p, i)
    BY <2>1, <1>d DEF RecoverDeliver
  <2>2. CASE RecoverDeliver(p, i) /\ Owns(p, i)
    BY <2>2, <1>b, JobMoves DEF RecoverDeliver, RecoveryPC
  <2>3. CASE RecoverCheck(p, i) \/ RecoverRequeue(p, i)
    BY <2>3, <1>a, <1>b, JobMoves DEF RecoverCheck, RecoverRequeue, RecoveryPC
  <2>4. CASE Claim(p, i)
    <3>1. CASE Done(p, i)
      BY <2>4, <3>1, <1>a, <1>b, JobMoves DEF Claim
    <3>2. ASSUME NEW t, job' = [job EXCEPT ![p][i] =
                   [pc |-> "smtp", token |-> t, version |-> row[i].version]]
          PROVE  OneTrade'
      <4>1. /\ job'[p][i].pc = "smtp"
            /\ \A q \in Process, j \in Item : q # p \/ j # i => job'[q][j] = job[q][j]
        BY <3>2 DEF TypeOK
      <4>2. QED BY <2>4, <4>1, <1>b DEF Claim, RecoveryPC
    <3>3. QED BY <2>4, <3>1, <3>2 DEF Claim
  <2>5. CASE SmtpReject(p, i) \/ SmtpAccept(p, i) \/ WriteMarker(p, i)
    BY <2>5, <1>b, JobMoves DEF SmtpReject, SmtpAccept, WriteMarker, RecoveryPC
  <2>6. CASE MarkDelivered(p, i) \/ CleanMarker(p, i) \/ MarkFailed(p, i)
    BY <2>6, <1>a, <1>b, JobMoves DEF MarkDelivered, CleanMarker, MarkFailed, RecoveryPC
  <2>7. QED BY <1>1, <2>1, <2>2, <2>3, <2>4, <2>5, <2>6 DEF JobStep
<1>2. ASSUME NEW p \in Process, StartTick(p) PROVE OneTrade'
  <2>1. PICK B : job' = [job EXCEPT ![p] = [i \in Item |->
                 IF i \in B
                   THEN [pc |-> "stale", token |-> row[i].token, version |-> row[i].version]
                   ELSE IdleJob]]
    BY <1>2 DEF StartTick
  <2>2. \A j \in Item : job'[p][j] = IF j \in B
                   THEN [pc |-> "stale", token |-> row[j].token, version |-> row[j].version]
                   ELSE IdleJob
    BY <2>1 DEF TypeOK
  <2>a. \A j \in Item : [pc |-> "stale", token |-> row[j].token, version |-> row[j].version].pc = "stale"
    OBVIOUS
  <2>3. \A j \in Item : job'[p][j].pc \in {"stale", "idle"}
    BY <2>2, <2>a, <1>a, Zenon
  <2>4. \A q \in Process, j \in Item : q # p => job'[q][j] = job[q][j]
    BY <2>1 DEF TypeOK
  <2>5. QED BY <2>3, <2>4, <1>c DEF RecoveryPC
<1>3. ASSUME NEW p \in Process, ListDue(p) PROVE OneTrade'
  <2>1. PICK B : job' = [job EXCEPT ![p] = [i \in Item |->
                 IF i \in B THEN [IdleJob EXCEPT !.pc = "listed"] ELSE IdleJob]]
    BY <1>3 DEF ListDue
  <2>2. [IdleJob EXCEPT !.pc = "listed"].pc = "listed"
    BY DEF IdleJob
  <2>3. \A j \in Item : job'[p][j].pc \in {"listed", "idle"}
    BY <2>1, <2>2, <1>a DEF TypeOK
  <2>4. \A q \in Process, j \in Item : q # p => job'[q][j] = job[q][j]
    BY <2>1 DEF TypeOK
  <2>5. QED BY <2>3, <2>4, <1>c DEF RecoveryPC
<1>4. ASSUME NEW p \in Process, Crash(p) \/ Handling(p) PROVE OneTrade'
  BY <1>4, <1>d, <1>e DEF Crash, Handling, EnqueueRearm, HandlerClean
<1>5. ASSUME NEW p \in Process, NEW i \in Item, Request(p, i) PROVE OneTrade'
  BY <1>5, <1>e DEF Request, EnqueueRead, UserRetry, UserCancel
<1>6. ASSUME NEW p \in Process, NEW i \in Item, StatementFails(p, i) PROVE OneTrade'
  BY <1>6, <1>a, <1>b, <1>d, JobMoves DEF StatementFails
<1>7. ASSUME NEW i \in Item, ItemStep(i) PROVE OneTrade'
  BY <1>7, <1>e DEF ItemStep, EnqueueInsert, AdminRetry, AdminCancel, Prune, LeaseExpires, BecomesDue
<1>8. CASE UNCHANGED vars \/ \E S \in SUBSET Item : RemoveMailbox(S)
  BY <1>8, <1>e DEF vars, RemoveMailbox
<1>9. QED BY <1>1, <1>2, <1>3, <1>4, <1>5, <1>6, <1>7, <1>8 DEF Next, Worker

Books == LeaseOutlivesWorker /\ Inv /\ OneTrade /\ \A i \in Item : Accounted(i)

\* What an attempt under way excludes, and what a row at rest excludes.
LEMMA AttemptFacts ==
  ASSUME Books, NEW i \in Item
  PROVE  /\ \A p \in Process : job[p][i].pc \in AttemptPC =>
              /\ \/ Owns(p, i) /\ row[i].status = "sending" /\ row[i].live
                 \/ row[i].status = "removed"
              /\ job[p][i].version = row[i].version
              /\ \A q \in Process : q # p => job[q][i].pc \notin AttemptPC
              /\ \A q \in Process : job[q][i].pc \in SnapshotPC => ~Owns(q, i)
         /\ row[i].status \notin {"sending", "removed"} =>
              \A p \in Process : job[p][i].pc \notin AttemptPC
BY DEF Books, Inv, LiveAttemptOwnsRow, AttemptsAlone, SnapshotSafe, Owns, Accounted, JobsOK

\* A worker's step on one item leaves every other item accounted for.
LEMMA OthersAccounted ==
  ASSUME Books, [Next]_vars, NEW p \in Process, NEW i \in Item, JobStep(p, i),
         NEW j \in Item, j # i
  PROVE  Accounted(j)'
<1>a. TypeOK /\ Accounted(j) /\ OneTrade
  BY DEF Books, Inv
<1>b. doubt \subseteq doubt' /\ orphan \subseteq orphan'
  BY HistoryGrows
<1>c. IdleJob.pc \notin AttemptPC \cup {"requeue", "recDeliver"}
  BY DEF IdleJob, AttemptPC
<1>d. ASSUME \A q \in Process : job'[q][j] = job[q][j] PROVE JobsCalm(j)
  BY <1>d DEF JobsCalm
<1>e. ASSUME AbortTick(p), job[p][i].pc \in RecoveryPC PROVE JobsCalm(j)
  <2>1. job[p][j].pc # "accepted"
    BY <1>a, <1>e DEF OneTrade, RecoveryPC
  <2>2. QED BY <1>a, <1>c, <1>e, <2>1, JobMoves DEF JobsCalm
<1>f. ASSUME row'[j] = row[j], accepted'[j] = accepted[j], j \in marker' <=> j \in marker,
             handler' = handler, JobsCalm(j)
      PROVE  Accounted(j)'
  BY <1>a, <1>b, <1>f, QuietStep
<1>1. CASE RecoverCheck(p, i) \/ SmtpReject(p, i)
  BY <1>1, <1>a, <1>d, <1>f, JobMoves DEF RecoverCheck, SmtpReject, history
<1>2. CASE RecoverRequeue(p, i) \/ MarkFailed(p, i)
  BY <1>2, <1>a, <1>d, <1>f, JobMoves DEF RecoverRequeue, MarkFailed, history, TypeOK
<1>3. CASE RecoverDeliver(p, i)
  <2>1. JobsCalm(j)
    BY <1>3, <1>a, <1>d, <1>e, JobMoves DEF RecoverDeliver, RecoveryPC
  <2>2. row'[j] = row[j]
    BY <1>3, <1>a DEF RecoverDeliver, TypeOK
  <2>3. QED BY <1>3, <1>f, <2>1, <2>2 DEF RecoverDeliver, history
<1>4. CASE Claim(p, i)
  <2>a. \A r : job' = [job EXCEPT ![p][i] = r] => \A q \in Process : job'[q][j] = job[q][j]
    BY <1>a DEF TypeOK
  <2>1. \A q \in Process : job'[q][j] = job[q][j]
    BY <1>4, <1>a, <2>a, JobMoves DEF Claim
  <2>2. row'[j] = row[j]
    BY <1>4, <1>a DEF Claim, TypeOK
  <2>3. QED BY <1>4, <1>d, <1>f, <2>1, <2>2 DEF Claim, history
<1>5. CASE SmtpAccept(p, i)
  <2>1. accepted'[j] = accepted[j]
    BY <1>5, <1>a DEF SmtpAccept, Accept, TypeOK
  <2>2. QED BY <1>5, <1>a, <1>d, <1>f, <2>1, JobMoves DEF SmtpAccept
<1>6. CASE WriteMarker(p, i)
  BY <1>6, <1>a, <1>d, <1>f, JobMoves DEF WriteMarker
<1>7. CASE MarkDelivered(p, i)
  BY <1>7, <1>a, <1>d, <1>f, JobMoves DEF MarkDelivered, history, TypeOK
<1>8. CASE CleanMarker(p, i)
  BY <1>8, <1>a, <1>d, <1>f, JobMoves DEF CleanMarker, RemoveMarker
<1>9. QED BY <1>1, <1>2, <1>3, <1>4, <1>5, <1>6, <1>7, <1>8 DEF JobStep

\* The recovery finds a marker only of accepted content, and finds none only
\* if the content was not accepted, or nobody can know any more.
LEMMA RecoverCheckAccounts ==
  ASSUME Books, NEW p \in Process, NEW i \in Item, RecoverCheck(p, i)
  PROVE  Accounted(i)'
<1>a. TypeOK /\ Accounted(i) /\ SnapshotSafe
  BY DEF Books, Inv
<1>b. UNCHANGED <<row, marker, handler, accepted, doubt, orphan>>
  BY DEF RecoverCheck, history
<1>c. (Clear(i)' <=> Clear(i)) /\ (Backed(i)' <=> Backed(i))
  BY <1>b DEF Clear, Backed
<1>d. /\ job'[p][i].pc = IF i \in marker THEN "recDeliver" ELSE "requeue"
      /\ \A q \in Process : q # p => job'[q][i] = job[q][i]
      /\ job'[p][i].token = job[p][i].token
  BY <1>a, JobMoves DEF RecoverCheck
<1>1. ASSUME Owns(p, i) PROVE IF i \in marker THEN Backed(i) ELSE Clear(i)
  <2>1. row[i].status = "sending" /\ ~row[i].live
    BY <1>a, <1>1 DEF SnapshotSafe, SnapshotPC, RecoverCheck, Owns
  <2>2. \A q \in Process : job[q][i].pc # "accepted"
    BY <2>1, AttemptFacts DEF AttemptPC
  <2>3. QED BY <1>a, <2>1, <2>2 DEF Accounted, MarkerOK, SendingOK
<1>2. RestingOK(i)'
  BY <1>a, <1>b, <1>c DEF Accounted, RestingOK
<1>3. JobsOK(i)'
  BY <1>a, <1>b, <1>c, <1>d, <1>1 DEF Accounted, JobsOK, AttemptPC, Owns
<1>4. SendingOK(i)'
  BY <1>a, <1>b, <1>c, <1>d DEF Accounted, SendingOK, RecoverCheck
<1>5. MarkerOK(i)' /\ CountsOK(i)'
  BY <1>a, <1>b, <1>c DEF Accounted, MarkerOK, CountsOK
<1>6. QED BY <1>2, <1>3, <1>4, <1>5 DEF Accounted

\* A claim starts an attempt on content that is clear, under a token that no
\* snapshot holds.
LEMMA ClaimAccounts ==
  ASSUME Books, NEW p \in Process, NEW i \in Item, Claim(p, i), Claimable(row[i])
  PROVE  Accounted(i)'
<1>a. TypeOK /\ Accounted(i) /\ row[i] \in Row
  BY DEF Books, Inv, TypeOK
<1>b. UNCHANGED <<marker, handler, accepted, doubt, orphan>>
  BY DEF Claim, history
<1>c. row[i].status # "sending" /\ row[i].status \in {"queued", "failed"}
  BY DEF Claimable, Retryable
<1>1. PICK t \in FreshToken :
        /\ row' = [row EXCEPT ![i] = Claimed(@, t)]
        /\ job' = [job EXCEPT ![p][i] =
             [pc |-> "smtp", token |-> t, version |-> row[i].version]]
  BY DEF Claim
<1>2. /\ row'[i].status = "sending" /\ row'[i].token = t /\ row'[i].live
      /\ row'[i].version = row[i].version
  BY <1>a, <1>1 DEF Claimed, Row, TypeOK
<1>3. /\ job'[p][i].pc = "smtp" /\ job'[p][i].version = row[i].version
      /\ \A q \in Process : q # p => job'[q][i] = job[q][i]
  BY <1>a, <1>1 DEF TypeOK
<1>4. \A q \in Process : job[q][i].token # t
  BY DEF FreshToken
<1>5. Clear(i)' /\ (Backed(i)' <=> Backed(i))
  BY <1>a, <1>b, <1>c, <1>2 DEF Accounted, RestingOK, Clear, Backed
<1>6. \A q \in Process : job[q][i].pc \notin AttemptPC
  BY <1>c, AttemptFacts
<1>7. RestingOK(i)' /\ SendingOK(i)'
  BY <1>2, <1>5 DEF RestingOK, SendingOK
<1>8. JobsOK(i)'
  BY <1>2, <1>3, <1>4, <1>5, <1>6 DEF JobsOK, AttemptPC, Owns
<1>9. MarkerOK(i)'
  BY <1>a, <1>b, <1>2, <1>5 DEF Accounted, MarkerOK
<1>10. CountsOK(i)'
  BY <1>a, <1>b, <1>2 DEF Accounted, CountsOK
<1>11. QED BY <1>7, <1>8, <1>9, <1>10 DEF Accounted

\* The SMTP server accepts content that was clear: a second acceptance is one
\* after a doubt.
LEMMA SmtpAcceptAccounts ==
  ASSUME Books, NEW p \in Process, NEW i \in Item, SmtpAccept(p, i)
  PROVE  Accounted(i)'
<1>a. TypeOK /\ Accounted(i) /\ row[i] \in Row
  BY DEF Books, Inv, TypeOK
<1>b. UNCHANGED <<row, marker, handler, orphan>> /\ doubt \subseteq doubt'
  BY DEF SmtpAccept
<1> DEFINE v == row[i].version
<1>c. v \in Version /\ job[p][i].pc \in AttemptPC /\ job[p][i].version = v /\ Clear(i)
  BY <1>a, AttemptFacts DEF SmtpAccept, AttemptPC, Row, Accounted, JobsOK
<1>d. /\ row[i].status \in {"sending", "removed"}
      /\ \A q \in Process : q # p => job[q][i].pc \notin AttemptPC
      /\ \A q \in Process : job[q][i].pc \in SnapshotPC => ~Owns(q, i)
  BY <1>c, AttemptFacts
<1>1. accepted[i] \in [Version -> 0 .. 2]
  BY <1>a DEF TypeOK
<1>2. /\ accepted'[i][v] = IF accepted[i][v] = 2 THEN 2 ELSE accepted[i][v] + 1
      /\ \A w \in Version : w # v => accepted'[i][w] = accepted[i][w]
  BY <1>a, <1>c, <1>1 DEF SmtpAccept, Accept, TypeOK
<1>3. accepted'[i][v] > 0 /\ (accepted'[i][v] = 2 => <<i, v>> \in doubt')
  BY <1>b, <1>c, <1>1, <1>2 DEF Clear
<1>4. Backed(i)'
  BY <1>b, <1>3 DEF Backed
<1>5. /\ job'[p][i].pc \in {"accepted", "failing"} /\ job'[p][i].version = v
      /\ job'[p][i].pc = "failing" => Clear(i)'
      /\ \A q \in Process : q # p => job'[q][i] = job[q][i]
  <2>1. ASSUME NEW pc, Goto(p, i, pc)
        PROVE  /\ job'[p][i].pc = pc /\ job'[p][i].version = job[p][i].version
               /\ \A q \in Process : q # p => job'[q][i] = job[q][i]
    BY <1>a, <2>1 DEF Goto, TypeOK, Job
  <2>2. <<i, v>> \in doubt' => Clear(i)'
    BY <1>b DEF Clear
  <2>3. QED BY <1>c, <2>1, <2>2 DEF SmtpAccept
<1>6. RestingOK(i)'
  BY <1>b, <1>d DEF RestingOK
<1>7. JobsOK(i)'
  <2> SUFFICES ASSUME NEW q \in Process
               PROVE  (/\ job[q][i].pc \in AttemptPC => job[q][i].version = row[i].version
                       /\ job[q][i].pc \in {"smtp", "failing"} => Clear(i)
                       /\ job[q][i].pc \in {"accepted", "deliver"} => Backed(i)
                       /\ job[q][i].pc = "requeue" /\ Owns(q, i) => Clear(i)
                       /\ job[q][i].pc = "recDeliver" /\ Owns(q, i) => Backed(i))'
    BY DEF JobsOK
  <2>1. CASE q = p
    BY <1>b, <1>4, <1>5, <2>1
  <2>2. CASE q # p
    BY <1>b, <1>d, <1>4, <1>5, <2>2 DEF AttemptPC, SnapshotPC, Owns
  <2>3. QED BY <2>1, <2>2
<1>8. SendingOK(i)'
  BY <1>5 DEF SendingOK
<1>9. MarkerOK(i)'
  BY <1>4 DEF MarkerOK
<1>10. CountsOK(i)'
  <2>1. \A w \in Version : w > v => accepted'[i][w] = 0
    BY <1>a, <1>2, <1>c DEF Accounted, CountsOK, Version
  <2>2. \A w \in Version : accepted'[i][w] = 2 => <<i, w>> \in doubt'
    BY <1>a, <1>b, <1>2, <1>3 DEF Accounted, CountsOK
  <2>3. QED BY <1>b, <2>1, <2>2 DEF CountsOK
<1>11. QED BY <1>6, <1>7, <1>8, <1>9, <1>10 DEF Accounted

\* Writing the marker moves the proof of an acceptance from the attempt to the
\* disk, or loses it with a doubt.
LEMMA WriteMarkerAccounts ==
  ASSUME Books, NEW p \in Process, NEW i \in Item, WriteMarker(p, i)
  PROVE  Accounted(i)'
<1>a. TypeOK /\ Accounted(i)
  BY DEF Books, Inv
<1>b. UNCHANGED <<row, handler, accepted, orphan>> /\ doubt \subseteq doubt'
  BY DEF WriteMarker
<1>c. job[p][i].pc = "accepted" /\ job[p][i].version = row[i].version /\ Backed(i)
  BY <1>a DEF WriteMarker, Accounted, JobsOK, AttemptPC
<1>1. Backed(i)' /\ (Clear(i) => Clear(i)') /\ (i \in marker' \/ Clear(i)')
  BY <1>b, <1>c DEF Backed, Clear, WriteMarker
<1>2. /\ job'[p][i].pc = "deliver" /\ job'[p][i].version = row[i].version
      /\ \A q \in Process : q # p => job'[q][i] = job[q][i]
  BY <1>a, <1>c DEF WriteMarker, Goto, TypeOK, Job
<1>3. RestingOK(i)'
  BY <1>a, <1>b, <1>1 DEF Accounted, RestingOK
<1>4. JobsOK(i)'
  BY <1>a, <1>b, <1>1, <1>2 DEF Accounted, JobsOK, Owns
<1>5. SendingOK(i)' /\ MarkerOK(i)'
  BY <1>1 DEF SendingOK, MarkerOK
<1>6. CountsOK(i)'
  BY <1>a, <1>b DEF Accounted, CountsOK
<1>7. QED BY <1>3, <1>4, <1>5, <1>6 DEF Accounted

\* The steps by which a job ends, or its row leaves the attempt.
LEMMA EndingAccounts ==
  ASSUME Books, [Next]_vars, NEW p \in Process, NEW i \in Item,
         \/ RecoverRequeue(p, i) \/ RecoverDeliver(p, i)
         \/ MarkDelivered(p, i) \/ MarkFailed(p, i) \/ CleanMarker(p, i)
  PROVE  Accounted(i)'
<1>a. TypeOK /\ Accounted(i) /\ row[i] \in Row
  BY DEF Books, Inv, TypeOK
<1>b. doubt \subseteq doubt' /\ orphan \subseteq orphan'
  BY HistoryGrows
<1>c. IdleJob.pc \notin AttemptPC \cup {"requeue", "recDeliver"}
  BY DEF IdleJob, AttemptPC
<1>d. UNCHANGED <<handler, accepted>>
  BY DEF RecoverRequeue, RecoverDeliver, MarkDelivered, MarkFailed, CleanMarker, history
<1>1. JobsCalm(i)
  <2>1. job[p][i].pc # "accepted"
    BY DEF RecoverRequeue, RecoverDeliver, MarkDelivered, MarkFailed, CleanMarker
  <2>2. /\ job'[p][i] = IdleJob \/ job'[p][i].pc \in {"clean", "recClean"}
        /\ \A q \in Process : q # p => job'[q][i] = job[q][i]
    BY <1>a, JobMoves DEF RecoverRequeue, RecoverDeliver, MarkDelivered, MarkFailed, CleanMarker
  <2>3. QED BY <1>c, <2>1, <2>2 DEF JobsCalm, AttemptPC
<1>2. RowCalm(i)
  <2>a. \A s \in Status : /\ Released(row[i], s).status = s
                         /\ Released(row[i], s).version = row[i].version
                         /\ [Released(row[i], s) EXCEPT !.due = TRUE].status = s
                         /\ [Released(row[i], s) EXCEPT !.due = TRUE].version = row[i].version
                         /\ [Released(row[i], s) EXCEPT !.due = FALSE].status = s
                         /\ [Released(row[i], s) EXCEPT !.due = FALSE].version = row[i].version
    BY <1>a DEF Released, Row
  <2>b. {"queued", "delivered", "failed"} \subseteq Status
    BY DEF Status
  <2>1. CASE row' = row
    BY <2>1 DEF RowCalm
  <2>2. CASE RecoverRequeue(p, i) /\ Owns(p, i)
    <3>1. Clear(i)
      BY <1>a, <2>2 DEF RecoverRequeue, Accounted, JobsOK
    <3>2. row'[i] = [Released(row[i], "queued") EXCEPT !.due = TRUE]
      BY <1>a, <2>2 DEF RecoverRequeue, TypeOK
    <3>3. row'[i].status = "queued" /\ row'[i].version = row[i].version
      BY <3>2, <2>a, <2>b
    <3>4. QED BY <3>1, <3>3 DEF RowCalm
  <2>3. CASE (RecoverDeliver(p, i) \/ MarkDelivered(p, i)) /\ Owns(p, i)
    <3>1. Backed(i)
      BY <1>a, <2>3 DEF RecoverDeliver, MarkDelivered, Accounted, JobsOK
    <3>2. row'[i] = Released(row[i], "delivered")
      BY <1>a, <2>3 DEF RecoverDeliver, MarkDelivered, TypeOK
    <3>3. row'[i].status = "delivered" /\ row'[i].version = row[i].version
      BY <3>2, <2>a, <2>b
    <3>4. QED BY <3>1, <3>3 DEF RowCalm
  <2>4. CASE MarkFailed(p, i) /\ Owns(p, i)
    <3>1. Clear(i)
      BY <1>a, <2>4 DEF MarkFailed, Accounted, JobsOK
    <3>2. row'[i] = [Released(row[i], "failed") EXCEPT !.due = FALSE]
      BY <1>a, <2>4 DEF MarkFailed, TypeOK
    <3>3. row'[i].status = "failed" /\ row'[i].version = row[i].version
      BY <3>2, <2>a, <2>b
    <3>4. QED BY <3>1, <3>3 DEF RowCalm
  <2>5. QED BY <2>1, <2>2, <2>3, <2>4
           DEF RecoverRequeue, RecoverDeliver, MarkDelivered, MarkFailed, CleanMarker
<1>3. MarkerCalm(i)
  <2>1. CASE marker' = marker
    BY <1>d, <2>1 DEF MarkerCalm
  <2>2. CASE RemoveMarker(i) /\ row' = row
    BY <1>d, <2>2 DEF MarkerCalm, RemoveMarker
  <2>3. QED BY <2>1, <2>2
           DEF RecoverRequeue, RecoverDeliver, MarkDelivered, MarkFailed, CleanMarker
<1>4. QED BY <1>a, <1>b, <1>d, <1>1, <1>2, <1>3, CalmStep

\* A refused message: nothing was accepted, the attempt goes on to its failure.
LEMMA SmtpRejectAccounts ==
  ASSUME Books, NEW p \in Process, NEW i \in Item, SmtpReject(p, i)
  PROVE  Accounted(i)'
<1>a. TypeOK /\ Accounted(i)
  BY DEF Books, Inv
<1>b. UNCHANGED <<row, marker, handler, accepted, doubt, orphan>>
  BY DEF SmtpReject, history
<1>c. (Clear(i)' <=> Clear(i)) /\ (Backed(i)' <=> Backed(i))
  BY <1>b DEF Clear, Backed
<1>1. /\ job[p][i].pc = "smtp" /\ job'[p][i].pc = "failing"
      /\ job'[p][i].version = job[p][i].version
      /\ \A q \in Process : q # p => job'[q][i] = job[q][i]
  BY <1>a DEF SmtpReject, Goto, TypeOK, Job
<1>2. JobsOK(i)'
  BY <1>a, <1>b, <1>c, <1>1 DEF Accounted, JobsOK, AttemptPC, Owns
<1>3. SendingOK(i)'
  BY <1>a, <1>b, <1>c, <1>1 DEF Accounted, SendingOK
<1>4. RestingOK(i)' /\ MarkerOK(i)' /\ CountsOK(i)'
  BY <1>a, <1>b, <1>c DEF Accounted, RestingOK, MarkerOK, CountsOK
<1>5. QED BY <1>2, <1>3, <1>4 DEF Accounted

\* A handler's update of a row that rests, or no update at all, with the jobs,
\* the markers and the histories left alone.
LEMMA HandlerAccounts ==
  ASSUME Books, NEW i \in Item,
         UNCHANGED <<marker, job, accepted, doubt, orphan>>,
         \A p \in Process : handler[p][i] = "clean" => handler'[p][i] = "clean",
         row'[i].version = row[i].version,
         \/ row'[i] = row[i]
         \/ row'[i].status \in {"canceled", "gone", "removed"}
         \/ row[i].status \in {"none", "failed"} /\ row'[i].status \in {"queued", "failed"}
  PROVE  Accounted(i)'
<1>a. TypeOK /\ Accounted(i)
  BY DEF Books, Inv
<1>1. RowCalm(i)
  BY <1>a DEF RowCalm, Accounted, RestingOK
<1>2. JobsCalm(i) /\ MarkerCalm(i)
  BY DEF JobsCalm, MarkerCalm
<1>3. QED BY <1>a, <1>1, <1>2, CalmStep

\* New content for a finished row: a version nothing was accepted of.
LEMMA RearmAccounts ==
  ASSUME Books, NEW p \in Process, NEW i \in Item, EnqueueRearm(p, i),
         row[i].status = handler[p][i]
  PROVE  Accounted(i)'
<1>a. TypeOK /\ Accounted(i) /\ row[i] \in Row
  BY DEF Books, Inv, TypeOK
<1>b. UNCHANGED <<marker, job, accepted, doubt, orphan>>
  BY DEF EnqueueRearm, history
<1>c. row[i].version \in Version /\ row[i].version + 1 \in Version
  BY <1>a, BoundsAssumption DEF BoundsAssumption, EnqueueRearm, Row, Version
<1>1. row'[i].status = "queued" /\ row'[i].version = row[i].version + 1
  BY <1>a DEF EnqueueRearm, TypeOK, Rearmed, Restarted, Released, Row
<1>2. Clear(i)'
  BY <1>a, <1>b, <1>c, <1>1 DEF Clear, Accounted, CountsOK, Version
<1>3. row[i].status \notin {"sending", "removed"}
  BY DEF EnqueueRearm, Finished
<1>4. \A q \in Process : job[q][i].pc \notin AttemptPC
  BY <1>3, AttemptFacts
<1>5. RestingOK(i)' /\ SendingOK(i)'
  BY <1>1, <1>2 DEF RestingOK, SendingOK
<1>6. JobsOK(i)'
  BY <1>b, <1>1, <1>2, <1>4 DEF JobsOK, AttemptPC, Owns
<1>7. handler'[p][i] = "clean"
  BY <1>a DEF EnqueueRearm, TypeOK
<1>8. MarkerOK(i)'
  BY <1>1, <1>7 DEF MarkerOK
<1>9. CountsOK(i)'
  BY <1>a, <1>b, <1>c, <1>1 DEF Accounted, CountsOK, Version
<1>10. QED BY <1>5, <1>6, <1>8, <1>9 DEF Accounted

\* Every step of a request handler on an item.
LEMMA HandlersAccount ==
  ASSUME Books, [Next]_vars, NEW p \in Process, NEW i \in Item,
         EnqueueRearm(p, i) \/ HandlerClean(p, i) \/ Request(p, i)
  PROVE  \A j \in Item : Accounted(j)'
<1>a. TypeOK /\ \A j \in Item : Accounted(j) /\ row[j] \in Row
  BY DEF Books, Inv, TypeOK
<1>b. doubt \subseteq doubt' /\ orphan \subseteq orphan'
  BY HistoryGrows
<1>c. UNCHANGED <<job, accepted>>
  BY DEF EnqueueRearm, HandlerClean, Request, EnqueueRead, UserRetry, UserCancel, history
<1>d. ASSUME UserRetry(p, i)
      PROVE  /\ row'[i].status = "queued" /\ row'[i].version = row[i].version
             /\ \A j \in Item : j # i => row'[j] = row[j]
  <2>1. ASSUME NEW r, row' = [row EXCEPT ![i] = r],
               r.status = "queued", r.version = row[i].version
        PROVE  /\ row'[i].status = "queued" /\ row'[i].version = row[i].version
               /\ \A j \in Item : j # i => row'[j] = row[j]
    BY <1>a, <2>1 DEF TypeOK
  <2>2. /\ [row[i] EXCEPT !.status = "queued", !.attempts = 0, !.due = TRUE].status = "queued"
        /\ [row[i] EXCEPT !.status = "queued", !.attempts = 0, !.due = TRUE].version = row[i].version
    BY <1>a DEF Row
  <2>3. QED BY <1>d, <2>1, <2>2 DEF UserRetry
<1>1. ASSUME NEW j \in Item, j # i PROVE Accounted(j)'
  <2>a. \A q \in Process : handler'[q][j] = handler[q][j]
    <3>1. \E h : handler' = [handler EXCEPT ![p][i] = h]
      BY DEF EnqueueRearm, HandlerClean, Request, EnqueueRead, UserRetry, UserCancel
    <3>2. QED BY <1>a, <1>1, <3>1 DEF TypeOK
  <2>b. row'[j] = row[j]
    <3>1. CASE UserRetry(p, i)
      BY <1>1, <1>d, <3>1
    <3>2. CASE ~UserRetry(p, i)
      BY <1>a, <1>1, <3>2 DEF EnqueueRearm, HandlerClean, Request, EnqueueRead, UserCancel, TypeOK
    <3>3. QED BY <3>1, <3>2
  <2>2. j \in marker' <=> j \in marker
    BY <1>1 DEF EnqueueRearm, HandlerClean, Request, EnqueueRead, UserRetry, UserCancel,
       RemoveMarker, history
  <2>3. JobsCalm(j)
    BY <1>c DEF JobsCalm
  <2>4. QED BY <1>a, <1>b, <1>c, <2>a, <2>b, <2>2, <2>3, QuietStep
<1>2. Accounted(i)'
  <2>1. CASE EnqueueRearm(p, i) /\ row[i].status = handler[p][i]
    BY <2>1, RearmAccounts
  <2>2. CASE EnqueueRearm(p, i) /\ row[i].status # handler[p][i]
    <3>1. \A q \in Process : handler[q][i] = "clean" => handler'[q][i] = "clean"
      BY <1>a, <2>2 DEF EnqueueRearm, TypeOK
    <3>2. row' = row /\ UNCHANGED <<marker, job, accepted, doubt, orphan>>
      BY <2>2 DEF EnqueueRearm, history
    <3>3. QED BY <3>1, <3>2, HandlerAccounts
  <2>3. CASE HandlerClean(p, i)
    <3>1. RowCalm(i) /\ JobsCalm(i)
      BY <1>c, <2>3 DEF HandlerClean, RowCalm, JobsCalm
    <3>2. \A q \in Process : q # p => handler'[q][i] = handler[q][i]
      BY <1>a, <2>3 DEF HandlerClean, TypeOK
    <3>3. MarkerCalm(i)
      <4>1. CASE RemoveMarker(i)
        BY <2>3, <4>1 DEF HandlerClean, RemoveMarker, MarkerCalm
      <4>2. CASE i \in orphan' /\ marker' = marker
        BY <4>2 DEF MarkerCalm
      <4>3. QED BY <2>3, <4>1, <4>2 DEF HandlerClean
    <3>4. QED BY <1>a, <1>b, <1>c, <3>1, <3>3, CalmStep
  <2>4. CASE Request(p, i)
    <3>1. UNCHANGED <<marker, job, accepted, doubt, orphan>>
      BY <2>4 DEF Request, EnqueueRead, UserRetry, UserCancel, history
    <3>2. handler[p][i] = "none" /\ \A q \in Process : q # p => handler'[q][i] = handler[q][i]
      BY <1>a, <2>4 DEF Request, EnqueueRead, UserRetry, UserCancel, TypeOK
    <3>3. CASE EnqueueRead(p, i)
      BY <3>1, <3>2, <3>3, HandlerAccounts DEF EnqueueRead
    <3>4. CASE UserRetry(p, i)
      <4>1. row'[i].status = "queued" /\ row'[i].version = row[i].version /\ row[i].status = "failed"
        BY <1>d, <3>4 DEF UserRetry
      <4>2. QED BY <3>1, <3>2, <4>1, HandlerAccounts
    <3>5. CASE UserCancel(p, i)
      <4>1. row'[i].status = "canceled" /\ row'[i].version = row[i].version
        BY <1>a, <3>5 DEF UserCancel, TypeOK, Row
      <4>2. QED BY <3>1, <3>2, <4>1, HandlerAccounts
    <3>6. QED BY <2>4, <3>3, <3>4, <3>5 DEF Request
  <2>5. QED BY <2>1, <2>2, <2>3, <2>4
<1>3. QED BY <1>1, <1>2

\* Every step on an item that no process takes part in.
LEMMA ItemStepsAccount ==
  ASSUME Books, [Next]_vars, NEW i \in Item, ItemStep(i)
  PROVE  \A j \in Item : Accounted(j)'
<1>a. TypeOK /\ \A j \in Item : Accounted(j) /\ row[j] \in Row
  BY DEF Books, Inv, TypeOK
<1>b. UNCHANGED <<marker, job, handler, accepted, doubt, orphan>>
  BY DEF ItemStep, EnqueueInsert, AdminRetry, AdminCancel, Prune, LeaseExpires, BecomesDue, history
<1>c. \A j \in Item : JobsCalm(j) /\ MarkerCalm(j)
  BY <1>b DEF JobsCalm, MarkerCalm
<1>1. ASSUME NEW j \in Item, j # i PROVE Accounted(j)'
  <2>1. row'[j] = row[j]
    BY <1>a, <1>1 DEF ItemStep, EnqueueInsert, AdminRetry, AdminCancel, Prune, LeaseExpires,
       BecomesDue, TypeOK
  <2>2. QED BY <1>a, <1>b, <1>c, <2>1, QuietStep
<1>2. Accounted(i)'
  <2>1. CASE EnqueueInsert(i) \/ AdminRetry(i)
    <3>1. row'[i] = Restarted(row[i]) /\ row[i].status \in {"none", "failed"}
      BY <1>a, <2>1 DEF EnqueueInsert, AdminRetry, TypeOK
    <3>2. row'[i].status = "queued" /\ row'[i].version = row[i].version
      BY <1>a, <3>1 DEF Restarted, Released, Row
    <3>3. QED BY <1>b, <3>1, <3>2, HandlerAccounts
  <2>2. CASE AdminCancel(i)
    <3>1. row'[i].status = "canceled" /\ row'[i].version = row[i].version
      BY <1>a, <2>2 DEF AdminCancel, Released, TypeOK, Row
    <3>2. QED BY <1>b, <3>1, HandlerAccounts
  <2>3. CASE Prune(i)
    <3>1. row'[i].status = "gone" /\ row'[i].version = row[i].version
      BY <1>a, <2>3 DEF Prune, TypeOK, Row
    <3>2. QED BY <1>b, <3>1, HandlerAccounts
  <2>4. CASE LeaseExpires(i)
    <3>1. /\ row'[i].status = row[i].status /\ row'[i].token = row[i].token
          /\ row'[i].version = row[i].version
      BY <1>a, <2>4 DEF LeaseExpires, TypeOK, Row
    <3>2. \A p \in Process : handler[p][i] # "clean"
      BY <2>4 DEF LeaseExpires, CleaningUp, Books
    <3>3. RowCalm(i)
      BY <3>1, <3>2 DEF RowCalm
    <3>4. QED BY <1>a, <1>b, <1>c, <3>3, CalmStep
  <2>5. CASE BecomesDue(i)
    <3>1. row[i].status = "failed" /\ row'[i].status = "failed" /\ row'[i].version = row[i].version
      BY <1>a, <2>5 DEF BecomesDue, TypeOK, Row
    <3>2. QED BY <1>b, <3>1, HandlerAccounts
  <2>6. QED BY <2>1, <2>2, <2>3, <2>4, <2>5 DEF ItemStep
<1>3. QED BY <1>1, <1>2

\* The rows of a deleted mailbox: nothing is reported of them any more.
LEMMA RemovalAccounts ==
  ASSUME Books, NEW S \in SUBSET Item, RemoveMailbox(S)
  PROVE  \A j \in Item : Accounted(j)'
<1> SUFFICES ASSUME NEW j \in Item PROVE Accounted(j)'
  OBVIOUS
<1>a. TypeOK /\ row[j] \in Row
  BY DEF Books, Inv, TypeOK
<1>1. /\ UNCHANGED <<marker, job, handler, accepted, doubt, orphan>>
      /\ row'[j] = IF j \in S THEN Released(row[j], "removed") ELSE row[j]
  BY DEF RemoveMailbox, history
<1>2. Released(row[j], "removed").status = "removed"
  BY <1>a DEF Released, Row
<1>3. Released(row[j], "removed").version = row[j].version
  BY <1>a DEF Released, Row
<1>4. row'[j].version = row[j].version /\ (row'[j] = row[j] \/ row'[j].status = "removed")
  BY <1>1, <1>2, <1>3
<1>5. QED BY <1>1, <1>4, HandlerAccounts

\* Ticks begin with no job of the process under way; a crash, and an error that
\* ends a tick, lose no acceptance without a doubt.
LEMMA TicksAccount ==
  ASSUME Books, [Next]_vars, NEW p \in Process,
         StartTick(p) \/ ListDue(p) \/ Crash(p) \/ \E i \in Item : StatementFails(p, i)
  PROVE  \A j \in Item : Accounted(j)'
<1>a. TypeOK /\ OneTrade /\ \A j \in Item : Accounted(j)
  BY DEF Books, Inv
<1>b. doubt \subseteq doubt' /\ orphan \subseteq orphan'
  BY HistoryGrows
<1>c. UNCHANGED <<row, marker, accepted>>
  BY DEF StartTick, ListDue, Crash, StatementFails, history
<1>d. IdleJob.pc \notin AttemptPC \cup {"requeue", "recDeliver"}
  BY DEF IdleJob, AttemptPC
<1>e. ASSUME NEW j \in Item, UNCHANGED handler, JobsCalm(j) PROVE Accounted(j)'
  BY <1>a, <1>b, <1>c, <1>e, QuietStep
<1>1. ASSUME NEW j \in Item, StartTick(p) PROVE Accounted(j)'
  <2>1. PICK B : job' = [job EXCEPT ![p] = [i \in Item |->
                 IF i \in B
                   THEN [pc |-> "stale", token |-> row[i].token, version |-> row[i].version]
                   ELSE IdleJob]]
    BY <1>1 DEF StartTick
  <2>2. /\ job'[p][j] = IF j \in B
                   THEN [pc |-> "stale", token |-> row[j].token, version |-> row[j].version]
                   ELSE IdleJob
        /\ \A q \in Process : q # p => job'[q][j] = job[q][j]
    BY <1>a, <2>1 DEF TypeOK
  <2>3. [pc |-> "stale", token |-> row[j].token, version |-> row[j].version].pc = "stale"
    OBVIOUS
  <2>4. job'[p][j].pc \notin AttemptPC \cup {"requeue", "recDeliver"}
    <3>1. job'[p][j].pc = "stale" \/ job'[p][j] = IdleJob
      BY <2>2, <2>3, Zenon
    <3>2. QED BY <1>d, <3>1 DEF AttemptPC
  <2>5. job[p][j].pc = "idle"
    BY <1>1 DEF StartTick, Idle
  <2>6. QED BY <1>e, <1>1, <2>2, <2>4, <2>5 DEF StartTick, JobsCalm
<1>2. ASSUME NEW j \in Item, ListDue(p) PROVE Accounted(j)'
  <2>1. PICK B : job' = [job EXCEPT ![p] = [i \in Item |->
                 IF i \in B THEN [IdleJob EXCEPT !.pc = "listed"] ELSE IdleJob]]
    BY <1>2 DEF ListDue
  <2>2. [IdleJob EXCEPT !.pc = "listed"].pc = "listed"
    BY DEF IdleJob
  <2>3. /\ job'[p][j].pc \notin AttemptPC \cup {"requeue", "recDeliver"}
        /\ \A q \in Process : q # p => job'[q][j] = job[q][j]
    BY <1>a, <1>d, <2>1, <2>2 DEF TypeOK, AttemptPC
  <2>4. job[p][j].pc = "idle"
    BY <1>2 DEF ListDue, Idle
  <2>5. QED BY <1>e, <1>2, <2>3, <2>4 DEF ListDue, JobsCalm
<1>3. ASSUME NEW j \in Item, NEW i \in Item, StatementFails(p, i) PROVE Accounted(j)'
  <2>1. CASE job[p][i].pc \in {"smtp", "deliver", "failing"} /\ Done(p, i)
    <3>1. JobsCalm(j)
      BY <1>a, <1>d, <2>1, JobMoves DEF JobsCalm
    <3>2. QED BY <1>e, <1>3, <3>1 DEF StatementFails
  <2>2. CASE job[p][i].pc \in {"stale", "requeue", "recDeliver"} /\ AbortTick(p)
    <3>1. job[p][j].pc # "accepted"
      BY <1>a, <2>2 DEF OneTrade, RecoveryPC
    <3>2. JobsCalm(j)
      BY <1>a, <1>d, <2>2, <3>1, JobMoves DEF JobsCalm
    <3>3. QED BY <1>e, <1>3, <3>2 DEF StatementFails
  <2>3. QED BY <1>3, <2>1, <2>2 DEF StatementFails
<1>4. ASSUME NEW j \in Item, Crash(p) PROVE Accounted(j)'
  <2>1. job[p][j].pc = "accepted" => <<j, row[j].version>> \in doubt'
    <3>1. job[p][j].pc = "accepted" => job[p][j].version = row[j].version
      BY <1>a DEF Accounted, JobsOK, AttemptPC
    <3>2. job[p][j].pc = "accepted" => <<j, job[p][j].version>> \in doubt'
      BY <1>4 DEF Crash
    <3>3. QED BY <3>1, <3>2
  <2>2. JobsCalm(j)
    BY <1>a, <1>d, <1>4, <2>1, JobMoves DEF JobsCalm, Crash
  <2>3. MarkerCalm(j)
    <3>1. \A q \in Process : q # p => handler'[q][j] = handler[q][j]
      BY <1>a, <1>4 DEF Crash, TypeOK
    <3>2. j \in marker /\ handler[p][j] = "clean" => j \in orphan'
      BY <1>4 DEF Crash, CleaningUp
    <3>3. QED BY <1>c, <3>1, <3>2 DEF MarkerCalm
  <2>4. QED BY <1>a, <1>b, <1>c, <2>2, <2>3, CalmStep DEF RowCalm
<1>5. QED BY <1>1, <1>2, <1>3, <1>4

\* The books stay right in every step.
LEMMA AcceptanceStep == Inv /\ AcceptanceInv /\ [Next]_vars => AcceptanceInv'
<1> SUFFICES ASSUME Inv, AcceptanceInv, [Next]_vars, LeaseOutlivesWorker
             PROVE  OneTrade' /\ \A i \in Item : Accounted(i)'
  BY DEF AcceptanceInv
<1>a. Books
  BY DEF Books, AcceptanceInv
<1>1. OneTrade'
  BY <1>a, TradeStep DEF Books, Inv
<1>2. \A i \in Item : Accounted(i)'
  <2>1. ASSUME NEW p \in Process, NEW i \in Item, JobStep(p, i) PROVE \A j \in Item : Accounted(j)'
    <3>1. Accounted(i)'
      <4>1. CASE Claim(p, i) /\ ~Claimable(row[i])
        <5>1. TypeOK /\ Accounted(i)
          BY <1>a DEF Books, Inv
        <5>2. UNCHANGED <<row, marker, handler, accepted, doubt, orphan>>
          BY <4>1 DEF Claim, history
        <5>3. JobsCalm(i)
          BY <4>1, <5>1, JobMoves DEF Claim, JobsCalm, IdleJob, AttemptPC
        <5>4. QED BY <5>1, <5>2, <5>3, QuietStep
      <4>2. QED BY <1>a, <2>1, <4>1, RecoverCheckAccounts, ClaimAccounts, SmtpAcceptAccounts,
                  WriteMarkerAccounts, EndingAccounts, SmtpRejectAccounts DEF JobStep
    <3>2. QED BY <1>a, <2>1, <3>1, OthersAccounted
  <2>2. CASE UNCHANGED vars
    <3>1. ASSUME NEW i \in Item PROVE Accounted(i)'
      <4>1. JobsCalm(i)
        BY <2>2 DEF vars, JobsCalm
      <4>2. QED BY <1>a, <2>2, <4>1, QuietStep DEF Books, Inv, vars
    <3>2. QED BY <3>1
  <2>3. QED BY <1>a, <2>1, <2>2, HandlersAccount, ItemStepsAccount, TicksAccount, RemovalAccounts
           DEF Next, Worker, Handling
<1>3. QED BY <1>1, <1>2

\* The books are right from the start and stay so.
LEMMA AcceptanceAlways == Spec => [](Inv /\ AcceptanceInv)
<1>1. Init => AcceptanceInv
  <2> SUFFICES ASSUME Init PROVE OneTrade /\ \A i \in Item : Accounted(i)
    BY DEF AcceptanceInv
  <2>1. \A p \in Process, i \in Item : job[p][i].pc = "idle"
    BY DEF Init, IdleJob
  <2>2. OneTrade
    BY <2>1 DEF OneTrade
  <2>3. ASSUME NEW i \in Item PROVE Accounted(i)
    <3>1. /\ row[i].status = "none" /\ row[i].version = 1 /\ i \notin marker
          /\ \A v \in Version : accepted[i][v] = 0
      BY DEF Init, NewRow
    <3>2. Clear(i)
      BY <3>1, BoundsAssumption DEF BoundsAssumption, Clear, Version
    <3>3. RestingOK(i) /\ SendingOK(i) /\ MarkerOK(i) /\ CountsOK(i)
      BY <3>1, <3>2 DEF RestingOK, SendingOK, MarkerOK, CountsOK
    <3>4. JobsOK(i)
      BY <2>1 DEF JobsOK, AttemptPC
    <3>5. QED BY <3>3, <3>4 DEF Accounted
  <2>4. QED BY <2>2, <2>3
<1>2. QED BY <1>1, AcceptanceStep, InvAlways, PTL DEF Spec

\* If leases outlive workers, the same content is accepted twice only if the
\* proof of the first acceptance was lost.
THEOREM DuplicatesAreExplained == Spec => []DuplicateExplained
<1>1. AcceptanceInv => DuplicateExplained
  BY DEF AcceptanceInv, DuplicateExplained, Accounted, CountsOK
<1>2. QED BY <1>1, AcceptanceAlways, PTL

\* If leases outlive workers, a row reads delivered only if the SMTP server
\* took its content, or a marker of an earlier entry was left behind.
THEOREM DeliveredWasAccepted == Spec => []DeliveredMeansAccepted
<1>1. AcceptanceInv => DeliveredMeansAccepted
  BY DEF AcceptanceInv, DeliveredMeansAccepted, Accounted, RestingOK, Backed
<1>2. QED BY <1>1, AcceptanceAlways, PTL

-----------------------------------------------------------------------------
(* The life of a row, one step at a time *)

\* What the updates make of a row.
LEMMA RowShapes ==
  ASSUME NEW r \in Row
  PROVE  /\ \A s : /\ Released(r, s).status = s /\ Released(r, s).version = r.version
                  /\ Released(r, s).attempts = r.attempts
                  /\ [r EXCEPT !.status = s].status = s
                  /\ [r EXCEPT !.status = s].version = r.version
         /\ \A s : /\ [Released(r, s) EXCEPT !.due = TRUE].status = s
                  /\ [Released(r, s) EXCEPT !.due = TRUE].version = r.version
                  /\ [Released(r, s) EXCEPT !.due = FALSE].status = s
                  /\ [Released(r, s) EXCEPT !.due = FALSE].version = r.version
                  /\ [Released(r, s) EXCEPT !.due = FALSE].attempts = r.attempts
         /\ Restarted(r).status = "queued" /\ Restarted(r).version = r.version
         /\ Rearmed(r).status = "queued" /\ Rearmed(r).version = r.version + 1
         /\ \A t : Claimed(r, t).status = "sending" /\ Claimed(r, t).version = r.version
         /\ [r EXCEPT !.status = "queued", !.attempts = 0, !.due = TRUE].status = "queued"
         /\ [r EXCEPT !.status = "queued", !.attempts = 0, !.due = TRUE].version = r.version
         /\ /\ [r EXCEPT !.live = FALSE].status = r.status
            /\ [r EXCEPT !.live = FALSE].version = r.version
            /\ [r EXCEPT !.live = FALSE].attempts = r.attempts
         /\ /\ [r EXCEPT !.due = TRUE].status = r.status
            /\ [r EXCEPT !.due = TRUE].version = r.version
            /\ [r EXCEPT !.due = TRUE].attempts = r.attempts
<1> USE DEF Row
<1>1. \A s : /\ Released(r, s).status = s /\ Released(r, s).version = r.version
            /\ Released(r, s).attempts = r.attempts
            /\ [r EXCEPT !.status = s].status = s
            /\ [r EXCEPT !.status = s].version = r.version
  BY DEF Released
<1>2. \A s : /\ [Released(r, s) EXCEPT !.due = TRUE].status = s
            /\ [Released(r, s) EXCEPT !.due = TRUE].version = r.version
            /\ [Released(r, s) EXCEPT !.due = FALSE].status = s
            /\ [Released(r, s) EXCEPT !.due = FALSE].version = r.version
            /\ [Released(r, s) EXCEPT !.due = FALSE].attempts = r.attempts
  BY DEF Released
<1>3. /\ Restarted(r).status = "queued" /\ Restarted(r).version = r.version
      /\ Rearmed(r).status = "queued" /\ Rearmed(r).version = r.version + 1
  BY DEF Rearmed, Restarted, Released
<1>4. \A t : Claimed(r, t).status = "sending" /\ Claimed(r, t).version = r.version
  BY DEF Claimed
<1>5. /\ [r EXCEPT !.status = "queued", !.attempts = 0, !.due = TRUE].status = "queued"
      /\ [r EXCEPT !.status = "queued", !.attempts = 0, !.due = TRUE].version = r.version
  OBVIOUS
<1>6. QED BY <1>1, <1>2, <1>3, <1>4, <1>5

\* An update of one row is seen in that row only.
LEMMA OneRow ==
  ASSUME TypeOK, NEW i \in Item, NEW r, row' = [row EXCEPT ![i] = r]
  PROVE  row'[i] = r /\ \A j \in Item : j # i => row'[j] = row[j]
BY DEF TypeOK

\* The ways a row may go on.
RowLife(i) ==
  LET from == row[i].status
      to   == row'[i].status
  IN  \/ to = from
      \/ to = "gone" \/ to = "removed"
      \/ to = "queued" /\ row'[i].version = row[i].version + 1
      \/ from \in {"none", "queued", "failed"} /\ to \in {"queued", "sending", "canceled"}
      \/ from = "sending" /\ to \in {"queued", "delivered"}
      \/ from = "sending" /\ to = "failed" /\
         \E p \in Process : /\ job[p][i].pc = "failing" /\ job'[p][i].pc = "idle"
                           /\ job[p][i].token = row[i].token

\* Every step takes every row along one of these ways.
LEMMA RowsLive == TypeOK /\ [Next]_vars => \A i \in Item : RowLife(i)
<1> SUFFICES ASSUME TypeOK, [Next]_vars PROVE \A j \in Item : RowLife(j)
  OBVIOUS
<1>a. \A j \in Item : row[j] \in Row
  BY DEF TypeOK
<1>b. row' = row => \A j \in Item : RowLife(j)
  BY DEF RowLife
<1>c. ASSUME NEW i \in Item, NEW r, row' = [row EXCEPT ![i] = r], row'[i] = r => RowLife(i)
      PROVE  \A j \in Item : RowLife(j)
  BY <1>c, OneRow DEF RowLife
<1>1. ASSUME NEW p \in Process, NEW i \in Item, JobStep(p, i) PROVE \A j \in Item : RowLife(j)
  <2>1. CASE row' = row
    BY <2>1, <1>b
  <2>2. CASE RecoverRequeue(p, i) /\ Owns(p, i)
    BY <2>2, <1>a, <1>c, RowShapes DEF RecoverRequeue, Owns, RowLife
  <2>3. CASE (RecoverDeliver(p, i) \/ MarkDelivered(p, i)) /\ Owns(p, i)
    <3>1. row' = [row EXCEPT ![i] = Released(row[i], "delivered")] /\ row[i].status = "sending"
      BY <2>3 DEF RecoverDeliver, MarkDelivered, Owns
    <3>2. Released(row[i], "delivered").status = "delivered"
      BY <1>a, RowShapes
    <3>3. QED BY <1>c, <3>1, <3>2 DEF RowLife
  <2>4. CASE Claim(p, i) /\ Claimable(row[i])
    BY <2>4, <1>a, <1>c, RowShapes DEF Claim, Claimable, Retryable, RowLife
  <2>5. CASE MarkFailed(p, i) /\ Owns(p, i)
    <3>1. job[p][i].pc = "failing" /\ job'[p][i].pc = "idle" /\ job[p][i].token = row[i].token
      BY <2>5, JobMoves DEF MarkFailed, Owns, IdleJob
    <3>2. QED BY <2>5, <3>1, <1>a, <1>c, RowShapes DEF MarkFailed, Owns, RowLife
  <2>6. QED BY <1>1, <2>1, <2>2, <2>3, <2>4, <2>5
           DEF JobStep, RecoverCheck, RecoverRequeue, RecoverDeliver, Claim, SmtpReject, SmtpAccept,
               WriteMarker, MarkDelivered, CleanMarker, MarkFailed
<1>2. ASSUME NEW p \in Process, NEW i \in Item, EnqueueRearm(p, i) PROVE \A j \in Item : RowLife(j)
  BY <1>2, <1>a, <1>b, <1>c, RowShapes DEF EnqueueRearm, RowLife
<1>3. ASSUME NEW p \in Process, NEW i \in Item, UserRetry(p, i) PROVE \A j \in Item : RowLife(j)
  BY <1>3, <1>a, <1>c, RowShapes DEF UserRetry, RowLife
<1>4. ASSUME NEW p \in Process, NEW i \in Item, UserCancel(p, i) PROVE \A j \in Item : RowLife(j)
  BY <1>4, <1>a, <1>c, RowShapes DEF UserCancel, RowLife
<1>5. ASSUME NEW i \in Item, ItemStep(i) PROVE \A j \in Item : RowLife(j)
  <2>1. CASE EnqueueInsert(i) \/ AdminRetry(i)
    <3>1. row' = [row EXCEPT ![i] = Restarted(row[i])] /\ row[i].status \in {"none", "failed"}
      BY <2>1 DEF EnqueueInsert, AdminRetry
    <3>2. Restarted(row[i]).status = "queued"
      BY <1>a, RowShapes
    <3>3. QED BY <1>c, <3>1, <3>2 DEF RowLife
  <2>2. CASE AdminCancel(i)
    BY <2>2, <1>a, <1>c, RowShapes DEF AdminCancel, RowLife
  <2>3. CASE Prune(i)
    BY <2>3, <1>a, <1>c, RowShapes DEF Prune, RowLife
  <2>4. CASE LeaseExpires(i) \/ BecomesDue(i)
    <3>1. /\ [row[i] EXCEPT !.live = FALSE].status = row[i].status
          /\ [row[i] EXCEPT !.due = TRUE].status = row[i].status
      BY <1>a, RowShapes
    <3>2. \/ row' = [row EXCEPT ![i] = [row[i] EXCEPT !.live = FALSE]]
          \/ row' = [row EXCEPT ![i] = [row[i] EXCEPT !.due = TRUE]]
      BY <2>4 DEF LeaseExpires, BecomesDue
    <3>3. QED BY <1>c, <3>1, <3>2 DEF RowLife
  <2>5. QED BY <1>5, <2>1, <2>2, <2>3, <2>4 DEF ItemStep
<1>6. CASE row' = row
  BY <1>6, <1>b
<1>7. ASSUME NEW S \in SUBSET Item, RemoveMailbox(S) PROVE \A j \in Item : RowLife(j)
  <2>1. \A j \in Item : row'[j] = row[j] \/ row'[j].status = "removed"
    BY <1>7, <1>a, RowShapes DEF RemoveMailbox
  <2>2. QED BY <2>1 DEF RowLife
<1>8. QED BY <1>1, <1>2, <1>3, <1>4, <1>5, <1>6, <1>7
         DEF Next, Worker, Handling, StartTick, ListDue, Crash, HandlerClean, Request, EnqueueRead,
             StatementFails, vars

\* A delivered or canceled entry is only reopened with new content, whatever
\* the timing.
THEOREM FinishedStaysFinished == Spec => FinishedReopensOnlyWithNewContent
<1>1. TypeOK /\ [Next]_vars =>
        [\A i \in Item :
           /\ row[i].status \in {"delivered", "canceled"}
           /\ row'[i].status \notin {"delivered", "canceled", "gone", "removed"}
           => row'[i].version = row[i].version + 1]_vars
  BY RowsLive DEF RowLife
<1>2. QED BY <1>1, TypeCorrect, PTL DEF Spec, FinishedReopensOnlyWithNewContent

\* A failure is recorded by the attempt whose lease the row carries, whatever
\* the timing.
THEOREM FailureIsTheHolders == Spec => OnlyHolderRecordsFailure
<1>1. TypeOK /\ [Next]_vars =>
        [\A i \in Item :
           row[i].status = "sending" /\ row'[i].status = "failed"
           => \E p \in Process : /\ job[p][i].pc = "failing" /\ job'[p][i].pc = "idle"
                                 /\ job[p][i].token = row[i].token]_vars
  BY RowsLive DEF RowLife
<1>2. QED BY <1>1, TypeCorrect, PTL DEF Spec, OnlyHolderRecordsFailure

-----------------------------------------------------------------------------
(* The queue implements the lifecycle of a mail *)

\* Where a row stands in the life of its mail.
LEMMA StateOfRow ==
  ASSUME NEW r \in Row
  PROVE  /\ r.status = "none" => StateOf(r) = "absent"
         /\ r.status = "sending" \/ Retryable(r) => StateOf(r) = "pending"
         /\ r.status \notin {"none", "sending"} /\ ~Retryable(r) => StateOf(r) = r.status
BY DEF StateOf, Retryable

\* The same by status.
LEMMA StateByStatus ==
  ASSUME NEW r \in Row
  PROVE  /\ r.status = "none" => StateOf(r) = "absent"
         /\ r.status \in {"sending", "queued"} => StateOf(r) = "pending"
         /\ r.status \in {"delivered", "canceled", "gone", "removed"} => StateOf(r) = r.status
         /\ r.status = "failed" => StateOf(r) \in {"pending", "failed"}
<1>1. /\ r.status = "queued" => Retryable(r)
      /\ r.status \notin {"queued", "failed"} => ~Retryable(r)
  BY DEF Retryable
<1>2. QED BY <1>1, StateOfRow

\* An update of one row moves one mail; nothing else shows.
LEMMA OneMail ==
  ASSUME TypeOK, NEW i \in Item, NEW r, row' = [row EXCEPT ![i] = r],
         r.version = row[i].version, UNCHANGED accepted
  PROVE  /\ Lifecycle!Move(i, {StateOf(row[i])}, StateOf(r))
         /\ UNCHANGED [k \in Item |-> accepted[k][row[k].version] > 0]
<1>1. row'[i] = r /\ \A j \in Item : j # i => row'[j] = row[j]
  BY OneRow
<1>2. [k \in Item |-> StateOf(row'[k])] =
      [[k \in Item |-> StateOf(row[k])] EXCEPT ![i] = StateOf(r)]
  <2>1. \A k \in Item : StateOf(row'[k]) = IF k = i THEN StateOf(r) ELSE StateOf(row[k])
    BY <1>1
  <2>2. [k \in Item |-> StateOf(row'[k])] =
        [k \in Item |-> IF k = i THEN StateOf(r) ELSE StateOf(row[k])]
    BY <2>1
  <2>3. [[k \in Item |-> StateOf(row[k])] EXCEPT ![i] = StateOf(r)] =
        [k \in Item |-> IF k = i THEN StateOf(r) ELSE [l \in Item |-> StateOf(row[l])][k]]
    OBVIOUS
  <2>4. \A k \in Item : [l \in Item |-> StateOf(row[l])][k] = StateOf(row[k])
    OBVIOUS
  <2>5. QED BY <2>2, <2>3, <2>4
<1>3. [k \in Item |-> accepted'[k][row'[k].version] > 0] =
      [k \in Item |-> accepted[k][row[k].version] > 0]
  BY <1>1
<1>4. QED BY <1>2, <1>3 DEF Lifecycle!Move

\* The moves of one mail that the lifecycle allows, staying where it is included.
Allowed(i, from, to) ==
  \/ from = to
  \/ from = "absent" /\ to = "pending"
  \/ from = "pending" /\ to = "delivered" /\ Backed(i)
  \/ from = "pending" /\ to = "failed"
  \/ from \in {"pending", "failed"} /\ to = "canceled"
  \/ from = "failed" /\ to = "pending"
  \/ from \in {"delivered", "failed", "canceled"} /\ to = "gone"

\* An update along an allowed move is a step of the lifecycle, or invisible.
LEMMA AllowedMove ==
  ASSUME TypeOK, NEW i \in Item, NEW r, row' = [row EXCEPT ![i] = r],
         r.version = row[i].version, UNCHANGED <<accepted, orphan, Leaving>>,
         Allowed(i, StateOf(row[i]), StateOf(r))
  PROVE  [Lifecycle!Next]_(Lifecycle!vars)
<1> DEFINE from == StateOf(row[i])
           to   == StateOf(r)
           st   == [k \in Item |-> StateOf(row[k])]
<1>a. /\ Lifecycle!Move(i, {from}, to)
      /\ UNCHANGED [k \in Item |-> accepted[k][row[k].version] > 0]
  BY OneMail
<1>b. st[i] = from /\ st' = [st EXCEPT ![i] = to]
  BY <1>a DEF Lifecycle!Move
<1>c. \A S : from \in S => Lifecycle!Move(i, S, to)
  BY <1>a, <1>b DEF Lifecycle!Move
<1> HIDE DEF from, to, st
<1>1. CASE from = to
  <2>1. st' = st
    BY <1>b, <1>1 DEF st
  <2>2. QED BY <1>a, <2>1 DEF Lifecycle!vars, st
<1>2. CASE from # to
  <2>1. CASE from = "absent" /\ to = "pending"
    BY <1>a, <1>c, <2>1 DEF Lifecycle!Next, Lifecycle!Step, Lifecycle!Submit
  <2>2. CASE from = "pending" /\ to = "delivered" /\ Backed(i)
    <3>1. [k \in Item |-> accepted[k][row[k].version] > 0][i] \/ i \in orphan
      BY <2>2 DEF Backed
    <3>2. QED BY <1>a, <1>c, <2>2, <3>1 DEF Lifecycle!Next, Lifecycle!Step, Lifecycle!Deliver
  <2>3. CASE from = "pending" /\ to = "failed"
    BY <1>a, <1>c, <2>3 DEF Lifecycle!Next, Lifecycle!Step, Lifecycle!GiveUp
  <2>4. CASE from \in {"pending", "failed"} /\ to = "canceled"
    BY <1>a, <1>c, <2>4 DEF Lifecycle!Next, Lifecycle!Step, Lifecycle!Cancel
  <2>5. CASE from = "failed" /\ to = "pending"
    BY <1>a, <1>c, <2>5 DEF Lifecycle!Next, Lifecycle!Step, Lifecycle!Retry
  <2>6. CASE from \in {"delivered", "failed", "canceled"} /\ to = "gone"
    BY <1>a, <1>c, <2>6 DEF Lifecycle!Next, Lifecycle!Step, Lifecycle!Forget
  <2>7. QED BY <1>2, <2>1, <2>2, <2>3, <2>4, <2>5, <2>6 DEF Allowed, from, to
<1>3. QED BY <1>1, <1>2

\* A session with the SMTP server only starts with a claim, on a row being sent.
LEMMA SessionsStart ==
  ASSUME TypeOK, [Next]_vars, NEW q \in Process, NEW k \in Item, job'[q][k].pc = "smtp"
  PROVE  job[q][k].pc = "smtp" \/ row'[k].status = "sending"
<1>a. IdleJob.pc = "idle"
  BY DEF IdleJob
<1>1. ASSUME NEW p \in Process, NEW i \in Item, JobStep(p, i)
      PROVE  job[q][k].pc = "smtp" \/ row'[k].status = "sending"
  <2>1. CASE Claim(p, i) /\ Claimable(row[i])
    <3>1. PICK t \in FreshToken :
            /\ row' = [row EXCEPT ![i] = Claimed(@, t)]
            /\ job' = [job EXCEPT ![p][i] =
                 [pc |-> "smtp", token |-> t, version |-> row[i].version]]
      BY <2>1 DEF Claim
    <3>2. row'[i].status = "sending"
      BY <3>1, RowShapes DEF TypeOK
    <3>3. q # p \/ k # i => job'[q][k] = job[q][k]
      BY <3>1 DEF TypeOK
    <3>4. QED BY <3>2, <3>3
  <2>2. CASE ~(Claim(p, i) /\ Claimable(row[i]))
    BY <1>1, <1>a, <2>2, JobMoves
       DEF JobStep, RecoverCheck, RecoverRequeue, RecoverDeliver, Claim, SmtpReject, SmtpAccept,
           WriteMarker, MarkDelivered, CleanMarker, MarkFailed
  <2>3. QED BY <2>1, <2>2
<1>2. ASSUME NEW p \in Process, StartTick(p) PROVE job[q][k].pc = "smtp"
  <2>1. PICK B : job' = [job EXCEPT ![p] = [i \in Item |->
                 IF i \in B
                   THEN [pc |-> "stale", token |-> row[i].token, version |-> row[i].version]
                   ELSE IdleJob]]
    BY <1>2 DEF StartTick
  <2>2. job'[q][k] = IF q # p THEN job[q][k]
                     ELSE IF k \in B
                       THEN [pc |-> "stale", token |-> row[k].token, version |-> row[k].version]
                       ELSE IdleJob
    BY <2>1 DEF TypeOK
  <2>3. QED BY <1>a, <2>2
<1>3. ASSUME NEW p \in Process, ListDue(p) PROVE job[q][k].pc = "smtp"
  <2>1. PICK B : job' = [job EXCEPT ![p] = [i \in Item |->
                 IF i \in B THEN [IdleJob EXCEPT !.pc = "listed"] ELSE IdleJob]]
    BY <1>3 DEF ListDue
  <2>2. [IdleJob EXCEPT !.pc = "listed"].pc = "listed"
    BY DEF IdleJob
  <2>3. QED BY <1>a, <2>1, <2>2 DEF TypeOK
<1>4. ASSUME NEW p \in Process, Crash(p) \/ \E i \in Item : StatementFails(p, i)
      PROVE  job[q][k].pc = "smtp"
  BY <1>4, <1>a, JobMoves DEF Crash, StatementFails
<1>5. ASSUME UNCHANGED job PROVE job[q][k].pc = "smtp"
  BY <1>5
<1>6. QED BY <1>1, <1>2, <1>3, <1>4, <1>5
         DEF Next, Worker, Handling, EnqueueRearm, HandlerClean, Request, EnqueueRead, UserRetry,
             UserCancel, ItemStep, EnqueueInsert, AdminRetry, AdminCancel, Prune, LeaseExpires,
             BecomesDue, RemoveMailbox, vars

\* An update of a row that is not removed, by at most a job on that row.
LEMMA LeavingKept ==
  ASSUME NEW i \in Item, row[i].status # "removed", row'[i].status # "removed",
         \A k \in Item : k # i => row'[k] = row[k],
         \A q \in Process, k \in Item : k # i => job'[q][k] = job[q][k]
  PROVE  Leaving' = Leaving
BY DEF Leaving

\* A step that leaves rows and acceptances alone can only leave markers behind
\* and end sessions on removed rows.
LEMMA OnlyInterrupts ==
  ASSUME [Next]_vars, TypeOK, TypeOK', UNCHANGED <<row, accepted>>
  PROVE  [Lifecycle!Next]_(Lifecycle!vars)
<1>1. orphan \subseteq orphan' /\ orphan' \subseteq Item
  BY HistoryGrows DEF TypeOK
<1>2. orphan' \in SUBSET Item /\ orphan' = orphan \cup orphan'
  BY <1>1
<1>3. \E S \in SUBSET Item : orphan' = orphan \cup S
  BY <1>2
<1>4. /\ UNCHANGED [k \in Item |-> StateOf(row[k])]
      /\ UNCHANGED [k \in Item |-> accepted[k][row[k].version] > 0]
  OBVIOUS
<1>5. Leaving' \in SUBSET Leaving
  BY SessionsStart DEF Leaving
<1>6. Lifecycle!Interrupt
  BY <1>3, <1>4, <1>5 DEF Lifecycle!Interrupt
<1>7. QED BY <1>6 DEF Lifecycle!Next

\* A message leaves for the SMTP server only while its mail is pending, or was
\* removed since the session began.
LEMMA SmtpAcceptRefines ==
  ASSUME Books, NEW p \in Process, NEW i \in Item, SmtpAccept(p, i)
  PROVE  Lifecycle!Next
<1>a. TypeOK /\ row[i] \in Row /\ UNCHANGED <<row, orphan>>
  BY DEF Books, Inv, TypeOK, SmtpAccept
<1>b. job[p][i].pc \in AttemptPC
  BY DEF SmtpAccept, AttemptPC
<1>c. row[i].status \in {"sending", "removed"} /\ job[p][i].version = row[i].version
  BY <1>b, AttemptFacts
<1> DEFINE v  == row[i].version
           ha == [k \in Item |-> accepted[k][row[k].version] > 0]
<1>1. accepted[i] \in [Version -> 0 .. 2] /\ v \in Version
  BY <1>a DEF TypeOK, Row
<1>2. /\ accepted'[i][v] = IF accepted[i][v] = 2 THEN 2 ELSE accepted[i][v] + 1
      /\ \A k \in Item : k # i => accepted'[k] = accepted[k]
  BY <1>a, <1>c, <1>1 DEF SmtpAccept, Accept, TypeOK
<1>3. accepted'[i][v] > 0
  BY <1>1, <1>2
<1>4. ha' = [ha EXCEPT ![i] = TRUE]
  <2>1. \A k \in Item : (accepted'[k][row'[k].version] > 0)
                     = IF k = i THEN TRUE ELSE accepted[k][row[k].version] > 0
    BY <1>a, <1>2, <1>3
  <2>2. QED BY <2>1
<1>5. UNCHANGED [k \in Item |-> StateOf(row[k])]
  BY <1>a
<1>6. /\ job'[p][i].pc # "smtp"
      /\ \A q \in Process, k \in Item : q # p \/ k # i => job'[q][k] = job[q][k]
  BY <1>a, JobMoves DEF SmtpAccept
<1>7. CASE row[i].status = "sending"
  <2>1. [k \in Item |-> StateOf(row[k])][i] = "pending"
    BY <1>a, <1>7, StateByStatus
  <2>2. Leaving' = Leaving
    BY <1>a, <1>6, <1>7, LeavingKept
  <2> HIDE DEF ha
  <2>3. Lifecycle!HandOver(i)
    BY <1>a, <1>4, <1>5, <2>1, <2>2 DEF Lifecycle!HandOver, ha
  <2>4. QED BY <2>3 DEF Lifecycle!Next, Lifecycle!Step
<1>8. CASE row[i].status = "removed"
  <2>1. job[p][i].pc = "smtp" /\ \A q \in Process : q # p => job[q][i].pc # "smtp"
    BY <1>b, AttemptFacts DEF SmtpAccept, AttemptPC
  <2>2. i \in Leaving
    BY <1>8, <2>1 DEF Leaving
  <2>3. Leaving' = Leaving \ {i}
    BY <1>a, <1>6, <2>1 DEF Leaving
  <2> HIDE DEF ha
  <2>4. Lifecycle!HandOverLate(i)
    BY <1>a, <1>4, <1>5, <2>2, <2>3 DEF Lifecycle!HandOverLate, ha
  <2>5. QED BY <2>4 DEF Lifecycle!Next, Lifecycle!Step
<1>9. QED BY <1>c, <1>7, <1>8

\* New content starts a new life, of which nothing was handed over yet.
LEMMA RearmRefines ==
  ASSUME Books, NEW p \in Process, NEW i \in Item, EnqueueRearm(p, i),
         row[i].status = handler[p][i]
  PROVE  Lifecycle!Next
<1>a. TypeOK /\ row[i] \in Row /\ Accounted(i) /\ UNCHANGED <<accepted, orphan>>
  BY DEF Books, Inv, TypeOK, EnqueueRearm, history
<1>b. row' = [row EXCEPT ![i] = Rearmed(row[i])]
  BY DEF EnqueueRearm
<1>c. row'[i] = Rearmed(row[i]) /\ \A k \in Item : k # i => row'[k] = row[k]
  BY <1>a, <1>b, OneRow
<1>d. row'[i].status = "queued" /\ row'[i].version = row[i].version + 1
  BY <1>a, <1>c, RowShapes
<1>e. row[i].version \in Version /\ row[i].version + 1 \in Version
  BY <1>a, BoundsAssumption DEF BoundsAssumption, EnqueueRearm, Row, Version
<1>f. Rearmed(row[i]) \in Row
  <2>1. row[i].version < MaxRearms + 1
    BY <1>e, BoundsAssumption DEF BoundsAssumption, Version
  <2>2. "queued" \in Status
    BY DEF Status
  <2>3. QED BY <1>a, <2>1, <2>2, RowHelpers
<1> DEFINE st == [k \in Item |-> StateOf(row[k])]
           ha == [k \in Item |-> accepted[k][row[k].version] > 0]
<1>1. accepted[i][row'[i].version] = 0
  BY <1>a, <1>d, <1>e DEF Accounted, CountsOK, Version
<1>2. ha' = [ha EXCEPT ![i] = FALSE]
  <2>1. \A k \in Item : (accepted'[k][row'[k].version] > 0)
                     = IF k = i THEN FALSE ELSE accepted[k][row[k].version] > 0
    <3>1. (accepted'[i][row'[i].version] > 0) = FALSE
      BY <1>a, <1>1
    <3>2. \A k \in Item : k # i =>
            (accepted'[k][row'[k].version] > 0) = (accepted[k][row[k].version] > 0)
      BY <1>a, <1>c
    <3>3. QED BY <3>1, <3>2
  <2>2. QED BY <2>1
<1>3. st[i] \in {"delivered", "failed", "canceled", "pending"}
  BY <1>a, StateByStatus DEF EnqueueRearm, Finished
<1>4. StateOf(row'[i]) = "pending"
  BY <1>c, <1>d, <1>f, StateByStatus
<1>5. st' = [st EXCEPT ![i] = "pending"]
  <2>1. \A k \in Item : StateOf(row'[k]) = IF k = i THEN "pending" ELSE StateOf(row[k])
    BY <1>c, <1>4
  <2>2. QED BY <2>1
<1>6. Leaving' = Leaving
  <2>1. row[i].status # "removed" /\ UNCHANGED job
    BY DEF EnqueueRearm, Finished
  <2>2. QED BY <1>c, <1>d, <2>1, LeavingKept
<1> HIDE DEF ha, st
<1>7. Lifecycle!Replace(i)
  BY <1>a, <1>2, <1>3, <1>5, <1>6 DEF Lifecycle!Replace, Lifecycle!Move, ha, st
<1>8. QED BY <1>7 DEF Lifecycle!Next, Lifecycle!Step

\* The rows of a deleted mailbox: whoever is sending one of them was sending a
\* pending mail.
LEMMA RemovalRefines ==
  ASSUME Books, NEW S \in SUBSET Item, RemoveMailbox(S)
  PROVE  Lifecycle!Next
<1>a. /\ TypeOK /\ \A k \in Item : row[k] \in Row
      /\ UNCHANGED <<job, accepted, orphan>>
      /\ \A k \in S : row[k].status \in {"queued", "sending", "delivered", "failed", "canceled"}
  BY DEF Books, Inv, TypeOK, RemoveMailbox, history, Row, Status
<1>b. \A k \in Item : /\ k \in S => row'[k] = Released(row[k], "removed")
                      /\ k \notin S => row'[k] = row[k]
  BY DEF RemoveMailbox
<1>c. \A k \in Item : row'[k].version = row[k].version /\ (k \in S => row'[k].status = "removed")
  BY <1>a, <1>b, RowShapes
<1>d. TypeOK'
  BY TypeStep, <1>a DEF Next
<1> DEFINE st == [k \in Item |-> StateOf(row[k])]
           ha == [k \in Item |-> accepted[k][row[k].version] > 0]
           L  == Leaving' \ Leaving
<1>1. \A m \in S : st[m] \notin {"absent", "gone", "removed"}
  BY <1>a, StateByStatus
<1>2. st' = [m \in Item |-> IF m \in S THEN "removed" ELSE st[m]]
  <2>1. \A m \in Item : StateOf(row'[m]) = IF m \in S THEN "removed" ELSE StateOf(row[m])
    <3>1. \A m \in S : row'[m] \in Row /\ StateOf(row'[m]) = "removed"
      BY <1>c, <1>d, StateByStatus DEF TypeOK
    <3>2. QED BY <1>b, <3>1
  <2>2. QED BY <2>1
<1>3. ha' = ha
  BY <1>a, <1>c
<1>4. Leaving \subseteq Leaving'
  BY <1>a, <1>b DEF Leaving
<1>5. \A m \in L : m \in S /\ st[m] = "pending"
  <2> SUFFICES ASSUME NEW m \in L PROVE m \in S /\ st[m] = "pending"
    OBVIOUS
  <2>1. m \in Item /\ m \in S /\ \E p \in Process : job[p][m].pc = "smtp"
    BY <1>a, <1>b DEF Leaving
  <2>2. row[m].status = "sending"
    BY <1>a, <2>1, AttemptFacts DEF AttemptPC
  <2>3. QED BY <1>a, <2>1, <2>2, StateByStatus
<1>6. Leaving' = Leaving \cup L
  BY <1>4
<1> HIDE DEF st, ha, L
<1>7. Lifecycle!Remove(S)
  BY <1>a, <1>1, <1>2, <1>3, <1>5, <1>6 DEF Lifecycle!Remove, st, ha
<1>8. QED BY <1>7 DEF Lifecycle!Next

\* Every step is a step of the lifecycle, or invisible in it.
LEMMA RefinementStep ==
  ~LongDowntime /\ Books /\ TypeOK' /\ [Next]_vars => [Lifecycle!Next]_(Lifecycle!vars)
<1> SUFFICES ASSUME ~LongDowntime, Books, TypeOK', [Next]_vars
             PROVE  [Lifecycle!Next]_(Lifecycle!vars)
  OBVIOUS
<1>a. TypeOK /\ \A i \in Item : row[i] \in Row /\ row'[i] \in Row /\ Accounted(i)
  BY DEF Books, Inv, TypeOK
<1>b. ASSUME NEW i \in Item, NEW r, row' = [row EXCEPT ![i] = r],
             r.version = row[i].version, UNCHANGED <<accepted, orphan>>,
             row[i].status # "removed", r.status # "removed",
             \A q \in Process, k \in Item : k # i => job'[q][k] = job[q][k],
             r \in Row => Allowed(i, StateOf(row[i]), StateOf(r))
      PROVE  [Lifecycle!Next]_(Lifecycle!vars)
  <2>1. row'[i] = r /\ \A k \in Item : k # i => row'[k] = row[k]
    BY <1>a, <1>b, OneRow
  <2>2. r \in Row
    BY <1>a, <2>1
  <2>3. Leaving' = Leaving
    BY <1>b, <2>1, LeavingKept
  <2>4. QED BY <1>a, <1>b, <2>2, <2>3, AllowedMove
<1>1. ASSUME UNCHANGED <<row, accepted>> PROVE [Lifecycle!Next]_(Lifecycle!vars)
  BY <1>1, <1>a, OnlyInterrupts
<1>2. ASSUME NEW p \in Process, NEW i \in Item, JobStep(p, i)
      PROVE  [Lifecycle!Next]_(Lifecycle!vars)
  <2>a. ASSUME \/ RecoverRequeue(p, i)
               \/ (RecoverDeliver(p, i) \/ MarkDelivered(p, i)) /\ Owns(p, i)
               \/ MarkFailed(p, i) \/ Claim(p, i)
        PROVE  \A q \in Process, k \in Item : k # i => job'[q][k] = job[q][k]
    <3>1. CASE Claim(p, i) /\ Claimable(row[i])
      <4>1. PICK r : job' = [job EXCEPT ![p][i] = r]
        BY <3>1 DEF Claim
      <4>2. QED BY <1>a, <4>1 DEF TypeOK
    <3>2. CASE ~(Claim(p, i) /\ Claimable(row[i]))
      BY <1>a, <2>a, <3>2, JobMoves DEF RecoverRequeue, RecoverDeliver, MarkDelivered, MarkFailed, Claim
    <3>3. QED BY <3>1, <3>2
  <2>1. CASE SmtpAccept(p, i)
    BY <2>1, SmtpAcceptRefines
  <2>2. CASE RecoverRequeue(p, i) /\ Owns(p, i)
    <3>1. [Released(row[i], "queued") EXCEPT !.due = TRUE].status = "queued"
      BY <1>a, RowShapes
    <3>2. [Released(row[i], "queued") EXCEPT !.due = TRUE].version = row[i].version
      BY <1>a, RowShapes
    <3>3. [Released(row[i], "queued") EXCEPT !.due = TRUE] \in Row
           => Allowed(i, StateOf(row[i]), StateOf([Released(row[i], "queued") EXCEPT !.due = TRUE]))
      BY <1>a, <2>2, <3>1, StateByStatus DEF Owns, Allowed
    <3>4. row[i].status # "removed" /\ \A q \in Process, k \in Item : k # i => job'[q][k] = job[q][k]
      BY <2>2, <2>a DEF Owns
    <3>5. QED BY <1>b, <2>2, <3>1, <3>2, <3>3, <3>4 DEF RecoverRequeue, history
  <2>3. CASE (RecoverDeliver(p, i) \/ MarkDelivered(p, i)) /\ Owns(p, i)
    <3>1. Released(row[i], "delivered").status = "delivered"
      BY <1>a, RowShapes
    <3>2. Released(row[i], "delivered").version = row[i].version
      BY <1>a, RowShapes
    <3>3. Backed(i)
      BY <1>a, <2>3 DEF RecoverDeliver, MarkDelivered, Accounted, JobsOK
    <3>4. Released(row[i], "delivered") \in Row
           => Allowed(i, StateOf(row[i]), StateOf(Released(row[i], "delivered")))
      BY <1>a, <2>3, <3>1, <3>3, StateByStatus DEF Owns, Allowed
    <3>5. row' = [row EXCEPT ![i] = Released(row[i], "delivered")] /\ UNCHANGED <<accepted, orphan>>
      BY <2>3 DEF RecoverDeliver, MarkDelivered, history
    <3>6. row[i].status # "removed" /\ \A q \in Process, k \in Item : k # i => job'[q][k] = job[q][k]
      BY <2>3, <2>a DEF Owns
    <3>7. QED BY <1>b, <3>1, <3>2, <3>4, <3>5, <3>6
  <2>4. CASE MarkFailed(p, i) /\ Owns(p, i)
    <3>1. [Released(row[i], "failed") EXCEPT !.due = FALSE].status = "failed"
      BY <1>a, RowShapes
    <3>2. [Released(row[i], "failed") EXCEPT !.due = FALSE].version = row[i].version
      BY <1>a, RowShapes
    <3>3. [Released(row[i], "failed") EXCEPT !.due = FALSE] \in Row
           => Allowed(i, StateOf(row[i]), StateOf([Released(row[i], "failed") EXCEPT !.due = FALSE]))
      BY <1>a, <2>4, <3>1, StateByStatus DEF Owns, Allowed
    <3>4. row[i].status # "removed" /\ \A q \in Process, k \in Item : k # i => job'[q][k] = job[q][k]
      BY <2>4, <2>a DEF Owns
    <3>5. QED BY <1>b, <2>4, <3>1, <3>2, <3>3, <3>4 DEF MarkFailed, history
  <2>5. CASE Claim(p, i) /\ Claimable(row[i])
    <3>1. PICK t : row' = [row EXCEPT ![i] = Claimed(row[i], t)]
      BY <2>5 DEF Claim
    <3>2. Claimed(row[i], t).status = "sending"
      BY <1>a, RowShapes
    <3>3. Claimed(row[i], t).version = row[i].version
      BY <1>a, RowShapes
    <3>4. StateOf(row[i]) = "pending"
      BY <1>a, <2>5, StateOfRow DEF Claimable
    <3>5. Claimed(row[i], t) \in Row => Allowed(i, StateOf(row[i]), StateOf(Claimed(row[i], t)))
      BY <3>2, <3>4, StateByStatus DEF Allowed
    <3>6. UNCHANGED <<accepted, orphan>>
      BY <2>5 DEF Claim, history
    <3>7. row[i].status # "removed" /\ \A q \in Process, k \in Item : k # i => job'[q][k] = job[q][k]
      BY <2>5, <2>a DEF Claimable, Retryable
    <3>8. QED BY <1>b, <3>1, <3>2, <3>3, <3>5, <3>6, <3>7
  <2>6. CASE UNCHANGED <<row, accepted>>
    BY <2>6, <1>1
  <2>7. QED BY <1>2, <2>1, <2>2, <2>3, <2>4, <2>5, <2>6
           DEF JobStep, RecoverCheck, RecoverRequeue, RecoverDeliver, Claim, SmtpReject,
               WriteMarker, MarkDelivered, CleanMarker, MarkFailed, history
<1>3. ASSUME NEW p \in Process, NEW i \in Item, EnqueueRearm(p, i)
      PROVE  [Lifecycle!Next]_(Lifecycle!vars)
  BY <1>1, <1>3, RearmRefines DEF EnqueueRearm, history
<1>4. ASSUME NEW p \in Process, NEW i \in Item, UserRetry(p, i)
      PROVE  [Lifecycle!Next]_(Lifecycle!vars)
  <2>1. /\ [row[i] EXCEPT !.status = "queued", !.attempts = 0, !.due = TRUE].status = "queued"
        /\ [row[i] EXCEPT !.status = "queued", !.attempts = 0, !.due = TRUE].version = row[i].version
    BY <1>a, RowShapes
  <2>2. row[i].status = "failed"
    BY <1>4 DEF UserRetry
  <2>3. ASSUME NEW r \in Row, r.status = "queued" PROVE Allowed(i, StateOf(row[i]), StateOf(r))
    BY <1>a, <2>2, <2>3, StateByStatus DEF Allowed
  <2>4. row[i].status # "removed" /\ UNCHANGED job
    BY <1>4 DEF UserRetry
  <2>5. QED BY <1>b, <1>4, <2>1, <2>3, <2>4 DEF UserRetry, history
<1>5. ASSUME NEW p \in Process, NEW i \in Item, UserCancel(p, i)
      PROVE  [Lifecycle!Next]_(Lifecycle!vars)
  <2>1. [row[i] EXCEPT !.status = "canceled"].status = "canceled"
    BY <1>a, RowShapes
  <2>2. [row[i] EXCEPT !.status = "canceled"].version = row[i].version
    BY <1>a, RowShapes
  <2>3. [row[i] EXCEPT !.status = "canceled"] \in Row
         => Allowed(i, StateOf(row[i]), StateOf([row[i] EXCEPT !.status = "canceled"]))
    BY <1>a, <1>5, <2>1, StateByStatus DEF UserCancel, Allowed
  <2>4. row[i].status # "removed" /\ UNCHANGED job
    BY <1>5 DEF UserCancel
  <2>5. QED BY <1>b, <1>5, <2>1, <2>2, <2>3, <2>4 DEF UserCancel, history
<1>6. ASSUME NEW i \in Item, ItemStep(i) PROVE [Lifecycle!Next]_(Lifecycle!vars)
  <2>1. UNCHANGED <<job, accepted, orphan>>
    BY <1>6 DEF ItemStep, EnqueueInsert, AdminRetry, AdminCancel, Prune, LeaseExpires, BecomesDue, history
  <2>a. row[i].status # "removed"
    <3>1. row[i].live => row[i].status = "sending"
      BY DEF Books, Inv, RowsConsistent, RowOK
    <3>2. QED BY <1>6, <3>1 DEF ItemStep, EnqueueInsert, AdminRetry, AdminCancel, Prune, LeaseExpires,
                 BecomesDue, Finished
  <2>2. CASE EnqueueInsert(i) \/ AdminRetry(i)
    <3>1. Restarted(row[i]).status = "queued" /\ Restarted(row[i]).version = row[i].version
      BY <1>a, RowShapes
    <3>2. Restarted(row[i]) \in Row => Allowed(i, StateOf(row[i]), StateOf(Restarted(row[i])))
      BY <1>a, <2>2, <3>1, StateByStatus DEF EnqueueInsert, AdminRetry, Allowed
    <3>3. QED BY <1>b, <2>1, <2>a, <2>2, <3>1, <3>2 DEF EnqueueInsert, AdminRetry
  <2>3. CASE AdminCancel(i)
    <3>1. Released(row[i], "canceled").status = "canceled"
      BY <1>a, RowShapes
    <3>2. Released(row[i], "canceled").version = row[i].version
      BY <1>a, RowShapes
    <3>3. Released(row[i], "canceled") \in Row
           => Allowed(i, StateOf(row[i]), StateOf(Released(row[i], "canceled")))
      BY <1>a, <2>3, <3>1, StateByStatus DEF AdminCancel, Allowed
    <3>4. QED BY <1>b, <2>1, <2>a, <2>3, <3>1, <3>2, <3>3 DEF AdminCancel
  <2>4. CASE Prune(i)
    <3>1. [row[i] EXCEPT !.status = "gone"].status = "gone"
      BY <1>a, RowShapes
    <3>2. [row[i] EXCEPT !.status = "gone"].version = row[i].version
      BY <1>a, RowShapes
    <3>3. StateOf(row[i]) \in {"delivered", "failed", "canceled"}
      BY <1>a, <2>4, StateOfRow DEF Prune, Finished
    <3>4. [row[i] EXCEPT !.status = "gone"] \in Row
           => Allowed(i, StateOf(row[i]), StateOf([row[i] EXCEPT !.status = "gone"]))
      BY <3>1, <3>3, StateByStatus DEF Allowed
    <3>5. QED BY <1>b, <2>1, <2>a, <2>4, <3>1, <3>2, <3>4 DEF Prune
  <2>5. CASE LeaseExpires(i) \/ BecomesDue(i)
    <3>1. /\ row'[i].status = row[i].status /\ row'[i].attempts = row[i].attempts
          /\ row'[i].version = row[i].version
      BY <1>a, <2>5 DEF LeaseExpires, BecomesDue, TypeOK, Row
    <3>2. StateOf(row'[i]) = StateOf(row[i])
      BY <3>1 DEF StateOf, Retryable
    <3>3. PICK r : row' = [row EXCEPT ![i] = r]
      BY <2>5 DEF LeaseExpires, BecomesDue
    <3>4. row'[i] = r
      BY <1>a, <3>3, OneRow
    <3>5. QED BY <1>b, <2>1, <2>a, <3>1, <3>2, <3>3, <3>4 DEF Allowed
  <2>6. QED BY <1>6, <2>2, <2>3, <2>4, <2>5 DEF ItemStep
<1>7. ASSUME NEW S \in SUBSET Item, RemoveMailbox(S) PROVE [Lifecycle!Next]_(Lifecycle!vars)
  BY <1>7, RemovalRefines
<1>8. QED BY <1>1, <1>2, <1>3, <1>4, <1>5, <1>6, <1>7
         DEF Next, Worker, Handling, StartTick, ListDue, Crash, HandlerClean, Request, EnqueueRead,
             StatementFails, vars, history

\* As long as leases outlive workers and no outage lasts for the retention
\* period, the queue implements the lifecycle: for any number of processes, no
\* mail is handed over or reported delivered unless it is pending, and one whose
\* mailbox was deleted is handed over only by the session under way at that time.
THEOREM QueueImplementsLifecycle ==
  LeaseOutlivesWorker /\ ~LongDowntime /\ Spec => ImplementsLifecycle
<1> SUFFICES ASSUME LeaseOutlivesWorker, ~LongDowntime PROVE Spec => ImplementsLifecycle
  OBVIOUS
<1>1. Init => Lifecycle!Init
  <2> SUFFICES ASSUME Init PROVE Lifecycle!Init
    OBVIOUS
  <2>1. \A i \in Item : row[i] = NewRow /\ row[i].status = "none" /\ row[i].version = 1
    BY DEF Init, NewRow
  <2>2. [i \in Item |-> StateOf(row[i])] = [i \in Item |-> "absent"]
    <3>1. \A i \in Item : StateOf(row[i]) = "absent"
      BY <2>1 DEF StateOf, Retryable
    <3>2. QED BY <3>1
  <2>3. [i \in Item |-> accepted[i][row[i].version] > 0] = [i \in Item |-> FALSE]
    <3>1. 1 \in Version
      BY BoundsAssumption DEF BoundsAssumption, Version
    <3>2. \A i \in Item : (accepted[i][row[i].version] > 0) = FALSE
      BY <2>1, <3>1 DEF Init
    <3>3. QED BY <3>2
  <2>4. Leaving = {}
    BY <2>1 DEF Leaving
  <2>5. QED BY <2>2, <2>3, <2>4 DEF Lifecycle!Init, Init
<1>2. Inv /\ AcceptanceInv => Books
  BY DEF AcceptanceInv, Books
<1>3. Inv => TypeOK
  BY DEF Inv
<1>4. QED BY <1>1, <1>2, <1>3, RefinementStep, AcceptanceAlways, PTL
         DEF Spec, ImplementsLifecycle, Lifecycle!Spec
=============================================================================
