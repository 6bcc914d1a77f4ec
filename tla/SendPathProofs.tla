--------------------------- MODULE SendPathProofs ---------------------------
(* Theorems about SendPath, for any processes, mails, allowances and bounds. *)
EXTENDS SendPath, FiniteSetTheorems, TLAPS

-----------------------------------------------------------------------------
(* Typing *)

\* Workers and requests are different senders, and work on different mails.
LEMMA SenderKinds ==
  ASSUME TypeOK, NEW p \in Sender
  PROVE  /\ p \in Worker <=> p \notin Direct
         /\ att[p] \in Att
         /\ p \in Worker => /\ att[p].pc # "done"
                            /\ att[p].pc = "idle" => att[p].mail = NoMail
                            /\ att[p].pc # "idle" => att[p].mail \in Sched
         /\ p \in Direct => /\ att[p].mail = p
                            /\ att[p].pc \notin {"check", "draft", "sent", "failed"}
BY ConstantsAssumption DEF TypeOK, AttOK, Sender, ConstantsAssumption

\* A sender at work has a mail.
LEMMA SenderMail ==
  ASSUME TypeOK, NEW p \in Sender, att[p].pc # "idle"
  PROVE  att[p].mail \in Mail
BY SenderKinds DEF Mail, Sender

\* Going on keeps attempts well-formed.
LEMMA GotoType ==
  ASSUME TypeOK, NEW p \in Sender, NEW pc \in PC, Goto(p, pc),
         p \in Worker => att[p].pc # "idle" /\ pc \notin {"idle", "done"},
         p \in Direct => pc \notin {"check", "draft", "sent", "failed"}
  PROVE  AttOK'
<1>1. att[p] \in Att /\ att \in [Sender -> Att]
  BY SenderKinds DEF TypeOK, AttOK
<1>2. [att[p] EXCEPT !.pc = pc] \in Att
  BY <1>1 DEF Att
<1>3. att' = [att EXCEPT ![p] = [att[p] EXCEPT !.pc = pc]]
  BY <1>1 DEF Goto
<1>4. att' \in [Sender -> Att]
  BY <1>1, <1>2, <1>3
<1>5. att'[p].pc = pc /\ att'[p].mail = att[p].mail
  BY <1>1, <1>3 DEF Att
<1>6. \A q \in Sender \ {p} : att'[q] = att[q]
  BY <1>1, <1>3
<1>7. ASSUME NEW w \in Worker
      PROVE  /\ att'[w].pc # "done"
             /\ IF att'[w].pc = "idle" THEN att'[w].mail = NoMail ELSE att'[w].mail \in Sched
  <2>1. w \in Sender
    BY DEF Sender
  <2>2. CASE w = p
    BY <1>5, <2>2, SenderKinds
  <2>3. CASE w # p
    BY <1>6, <2>1, <2>3, SenderKinds
  <2>4. QED BY <2>2, <2>3
<1>8. ASSUME NEW d \in Direct
      PROVE  att'[d].mail = d /\ att'[d].pc \notin {"check", "draft", "sent", "failed"}
  <2>1. d \in Sender
    BY DEF Sender
  <2>2. CASE d = p
    BY <1>5, <2>2, SenderKinds
  <2>3. CASE d # p
    BY <1>6, <2>1, <2>3, SenderKinds
  <2>4. QED BY <2>2, <2>3
<1>9. QED BY <1>4, <1>7, <1>8 DEF AttOK

\* Failing, succeeding and resting keep attempts well-formed.
LEMMA EndType ==
  ASSUME TypeOK, NEW p \in Sender, att[p].pc \notin {"idle", "done"}
  PROVE  /\ Fail(p) => AttOK'
         /\ Succeed(p) => AttOK'
         /\ Rest(p) => AttOK'
<1>1. ASSUME Fail(p) PROVE AttOK'
  <2>1. CASE p \in Worker
    <3>1. Goto(p, "failed") /\ p \notin Direct
      BY <1>1, <2>1, SenderKinds DEF Fail
    <3>2. QED BY <3>1, GotoType DEF PC
  <2>2. CASE p \notin Worker
    <3>1. Goto(p, "done")
      BY <1>1, <2>2 DEF Fail
    <3>2. QED BY <2>2, <3>1, GotoType DEF PC
  <2>3. QED BY <2>1, <2>2
<1>2. ASSUME Succeed(p) PROVE AttOK'
  <2>1. CASE p \in Worker
    <3>1. Goto(p, "draft") /\ p \notin Direct
      BY <1>2, <2>1, SenderKinds DEF Succeed
    <3>2. QED BY <3>1, GotoType DEF PC
  <2>2. CASE p \notin Worker
    <3>1. Goto(p, "done")
      BY <1>2, <2>2 DEF Succeed
    <3>2. QED BY <2>2, <3>1, GotoType DEF PC
  <2>3. QED BY <2>1, <2>2
<1>3. ASSUME Rest(p) PROVE AttOK'
  <2>1. CASE p \in Worker
    <3>1. att' = [att EXCEPT ![p] = IdleAtt] /\ p \notin Direct
      BY <1>3, <2>1, SenderKinds DEF Rest
    <3>2. IdleAtt \in Att
      BY DEF IdleAtt, Att, PC
    <3>3. QED BY <3>1, <3>2 DEF TypeOK, AttOK, IdleAtt
  <2>2. CASE p \notin Worker
    <3>1. att' = [att EXCEPT ![p] = [@ EXCEPT !.pc = "done"]]
      BY <1>3, <2>2 DEF Rest
    <3>2. Goto(p, "done")
      BY <3>1 DEF Goto
    <3>3. QED BY <2>2, <3>2, GotoType DEF PC
  <2>3. QED BY <2>1, <2>2
<1>4. QED BY <1>1, <1>2, <1>3

\* The rows and counters stay well-formed under the helpers that change them.
LEMMA StoreType ==
  ASSUME TypeOK
  PROVE  /\ \A s \in Sched, status \in Status : SetStatus(s, status) => sched' \in [Sched -> Row]
         /\ \A m \in Mail : Entered(m) => queued' \in [Mail -> 0 .. 2]
         /\ \A m \in Mail : Deleted(m) =>
              sentRow' \subseteq Mail /\ sentFile' \subseteq Mail /\ sentPath' \subseteq sentRow'
         /\ Fault => faults' \in 0 .. MaxFaults
<1>1. ASSUME NEW s \in Sched, NEW status \in Status, SetStatus(s, status)
      PROVE  sched' \in [Sched -> Row]
  <2>1. sched[s] \in Row
    BY DEF TypeOK
  <2>2. [sched[s] EXCEPT !.status = status] \in Row
    BY <2>1 DEF Row
  <2>3. sched' = [sched EXCEPT ![s] = [sched[s] EXCEPT !.status = status]]
    BY <1>1 DEF SetStatus
  <2>4. QED BY <2>2, <2>3 DEF TypeOK
<1>2. ASSUME NEW m \in Mail, Entered(m)
      PROVE  queued' \in [Mail -> 0 .. 2]
  <2>1. queued \in [Mail -> 0 .. 2] /\ queued[m] \in 0 .. 2
    BY DEF TypeOK
  <2>2. (IF queued[m] = 2 THEN 2 ELSE queued[m] + 1) \in 0 .. 2
    BY <2>1
  <2>3. QED BY <1>2, <2>1, <2>2 DEF Entered
<1>3. ASSUME NEW m \in Mail, Deleted(m)
      PROVE  sentRow' \subseteq Mail /\ sentFile' \subseteq Mail /\ sentPath' \subseteq sentRow'
  BY <1>3 DEF Deleted, TypeOK
<1>4. ASSUME Fault PROVE faults' \in 0 .. MaxFaults
  BY <1>4, BoundsAssumption DEF Fault, TypeOK, BoundsAssumption
<1>5. QED BY <1>1, <1>2, <1>3, <1>4

-----------------------------------------------------------------------------
(* Type correctness *)

\* Every step of a sender keeps every variable in its type.
LEMMA SendType ==
  ASSUME TypeOK, NEW p \in Sender, Send(p)
  PROVE  TypeOK'
<1> USE DEF copy, history, At
<1>1. CASE BeginCharge(p)
  <2>1. AttOK'
    <3>1. CASE Goto(p, "insert")
      BY <1>1, <3>1, GotoType DEF BeginCharge, PC
    <3>2. CASE Goto(p, "tx")
      BY <1>1, <3>2, GotoType DEF BeginCharge, PC
    <3>3. CASE Fail(p)
      BY <1>1, <3>3, EndType DEF BeginCharge
    <3>4. QED BY <1>1, <3>1, <3>2, <3>3 DEF BeginCharge
  <2>2. QED BY <1>1, <2>1 DEF BeginCharge, TypeOK
<1>2. CASE CommitCharge(p)
  <2>1. AttOK'
    BY <1>2, GotoType DEF CommitCharge, PC
  <2>2. charge' \in [Mail -> Age]
    BY <1>2, SenderMail DEF CommitCharge, TypeOK, Age
  <2>3. QED BY <1>2, <2>1, <2>2 DEF CommitCharge, TypeOK
<1>3. CASE InsertSent(p)
  <2>1. AttOK'
    BY <1>3, GotoType DEF InsertSent, PC
  <2>2. QED BY <1>3, <2>1, SenderMail DEF InsertSent, TypeOK
<1>4. CASE WriteFile(p)
  <2>1. AttOK'
    BY <1>4, GotoType DEF WriteFile, PC
  <2>2. QED BY <1>4, <2>1, SenderMail DEF WriteFile, TypeOK
<1>5. CASE WritePath(p)
  <2>1. AttOK'
    BY <1>5, GotoType DEF WritePath, PC
  <2>2. QED BY <1>5, <2>1 DEF WritePath, TypeOK
<1>6. CASE Enqueue(p)
  <2>1. AttOK'
    BY <1>6, EndType DEF Enqueue
  <2>2. queued' \in [Mail -> 0 .. 2]
    BY <1>6, SenderMail, StoreType DEF Enqueue
  <2>3. QED BY <1>6, <2>1, <2>2 DEF Enqueue, TypeOK
<1>7. CASE Undo(p)
  <2>1. AttOK'
    BY <1>7, EndType DEF Undo
  <2>2. sentRow' \subseteq Mail /\ sentFile' \subseteq Mail /\ sentPath' \subseteq sentRow'
    BY <1>7, SenderMail, StoreType DEF Undo
  <2>3. QED BY <1>7, <2>1, <2>2 DEF Undo, TypeOK
<1>8. QED BY <1>1, <1>2, <1>3, <1>4, <1>5, <1>6, <1>7 DEF Send

\* So does a step that refuses or breaks the work of a sender.
LEMMA BreakType ==
  ASSUME TypeOK, NEW p \in Sender, Refuse(p) \/ Breaks(p)
  PROVE  TypeOK'
<1> USE DEF copy, history, At
<1>a. Fault => faults' \in 0 .. MaxFaults
  BY StoreType
<1>b. Break(p) /\ att[p].pc # "idle" => broken' \subseteq Mail
  BY SenderMail DEF Break, TypeOK
<1>1. CASE Refuse(p)
  BY <1>1, EndType DEF Refuse, TypeOK
<1>2. CASE InsertPartly(p)
  <2>1. AttOK'
    BY <1>2, EndType DEF InsertPartly
  <2>2. QED BY <1>2, <1>a, <1>b, <2>1, SenderMail DEF InsertPartly, TypeOK
<1>3. CASE EnqueueUnknown(p)
  <2>1. AttOK'
    BY <1>3, GotoType DEF EnqueueUnknown, PC
  <2>2. queued' \in [Mail -> 0 .. 2]
    BY <1>3, SenderMail, StoreType DEF EnqueueUnknown
  <2>3. QED BY <1>3, <1>a, <1>b, <2>1, <2>2 DEF EnqueueUnknown, TypeOK
<1>4. CASE Fails(p)
  <2>1. CASE Goto(p, "undo")
    BY <1>4, <1>a, <2>1, GotoType DEF Fails, TypeOK, PC
  <2>2. CASE Fail(p)
    BY <1>4, <1>a, <2>2, EndType DEF Fails, TypeOK
  <2>3. QED BY <1>4, <2>1, <2>2 DEF Fails
<1>5. CASE FailsQuietly(p)
  <2>1. AttOK'
    <3>1. CASE att[p].pc = "path"
      <4>1. Goto(p, "undo")
        BY <1>5, <3>1 DEF FailsQuietly
      <4>2. QED BY <3>1, <4>1, GotoType DEF PC
    <3>2. CASE att[p].pc = "undo"
      <4>1. Fail(p)
        BY <1>5, <3>2 DEF FailsQuietly
      <4>2. QED BY <3>2, <4>1, EndType
    <3>3. CASE att[p].pc = "draft"
      <4>1. Goto(p, "sent") /\ p \notin Direct
        BY <1>5, <3>3, SenderKinds DEF FailsQuietly
      <4>2. QED BY <3>3, <4>1, GotoType DEF PC
    <3>4. CASE att[p].pc \in {"sent", "failed"}
      <4>1. Rest(p)
        BY <1>5, <3>4 DEF FailsQuietly
      <4>2. QED BY <3>4, <4>1, EndType
    <3>5. QED BY <1>5, <3>1, <3>2, <3>3, <3>4 DEF FailsQuietly
  <2>2. faults' \in 0 .. MaxFaults /\ broken' \subseteq Mail
    BY <1>5, <1>a, <1>b DEF FailsQuietly
  <2>3. QED BY <1>5, <2>1, <2>2 DEF FailsQuietly, TypeOK
<1>6. CASE Interrupted(p)
  <2>1. AttOK' /\ faults' \in 0 .. MaxFaults /\ broken' \subseteq Mail
    BY <1>6, <1>a, <1>b, EndType DEF Interrupted
  <2>2. list' \in [Worker -> SUBSET Sched]
    BY <1>6 DEF Interrupted, TypeOK
  <2>3. QED BY <1>6, <2>1, <2>2 DEF Interrupted, TypeOK
<1>7. QED BY <1>1, <1>2, <1>3, <1>4, <1>5, <1>6 DEF Breaks

\* So does a step of the scheduled-send worker.
LEMMA WorkType ==
  ASSUME TypeOK, NEW w \in Worker, Work(w)
  PROVE  TypeOK'
<1> USE DEF copy, history, At
<1>a. w \in Sender /\ w \notin Direct
  BY ConstantsAssumption DEF ConstantsAssumption, Sender
<1>b. att[w].pc # "idle" => att[w].mail \in Sched
  BY <1>a, SenderKinds
<1>1. CASE ListDue(w)
  BY <1>1 DEF ListDue, TypeOK, AttOK
<1>2. CASE Check(w)
  <2>1. AttOK'
    BY <1>2, <1>a, GotoType DEF Check, PC
  <2>2. QED BY <1>2, <2>1 DEF Check, TypeOK
<1>3. CASE DeleteDraft(w)
  <2>1. AttOK'
    BY <1>3, <1>a, GotoType DEF DeleteDraft, PC
  <2>2. QED BY <1>3, <2>1 DEF DeleteDraft, TypeOK
<1>4. CASE MarkSent(w)
  <2>1. AttOK'
    BY <1>4, <1>a, EndType DEF MarkSent
  <2>2. sched' \in [Sched -> Row]
    BY <1>4, <1>b, StoreType DEF MarkSent, Status
  <2>3. QED BY <1>4, <2>1, <2>2 DEF MarkSent, TypeOK
<1>5. CASE MarkFailed(w)
  <2>1. AttOK'
    BY <1>5, <1>a, EndType DEF MarkFailed
  <2>2. sched' \in [Sched -> Row]
    BY <1>5, <1>b, StoreType DEF MarkFailed, Status
  <2>3. QED BY <1>5, <2>1, <2>2 DEF MarkFailed, TypeOK
<1>6. ASSUME NEW s \in Sched, Claim(w, s) PROVE TypeOK'
  <2>1. list' \in [Worker -> SUBSET Sched]
    BY <1>6 DEF Claim, TypeOK
  <2>2. CASE sched[s].status = "pending"
    <3>1. sched' \in [Sched -> Row]
      BY <1>6, <2>2, StoreType DEF Claim, Status
    <3>2. [pc |-> "check", mail |-> s] \in Att
      BY DEF Att, PC, Mail
    <3>3. att' = [att EXCEPT ![w] = [pc |-> "check", mail |-> s]]
      BY <1>6, <2>2 DEF Claim
    <3>4. AttOK'
      BY <1>a, <3>2, <3>3 DEF TypeOK, AttOK
    <3>5. QED BY <1>6, <2>1, <3>1, <3>4 DEF Claim, TypeOK
  <2>3. CASE sched[s].status # "pending"
    BY <1>6, <2>1, <2>3 DEF Claim, TypeOK, AttOK
  <2>4. QED BY <2>2, <2>3
<1>7. QED BY <1>1, <1>2, <1>3, <1>4, <1>5, <1>6 DEF Work

\* Every step keeps every variable in its type.
LEMMA TypeStep == TypeOK /\ [Next]_vars => TypeOK'
<1> SUFFICES ASSUME TypeOK, [Next]_vars PROVE TypeOK'
  OBVIOUS
<1> USE DEF copy, history
<1>1. ASSUME NEW d \in Direct, Compose(d) PROVE TypeOK'
  <2>1. d \in Sender /\ d \notin Worker
    BY ConstantsAssumption DEF ConstantsAssumption, Sender
  <2>2. AttOK'
    BY <1>1, <2>1, GotoType DEF Compose, PC
  <2>3. QED BY <1>1, <2>2 DEF Compose, TypeOK
<1>2. ASSUME NEW s \in Sched, Schedule(s) PROVE TypeOK'
  <2>1. sched' \in [Sched -> Row]
    BY <1>2, StoreType DEF Schedule, Status
  <2>2. QED BY <1>2, <2>1 DEF Schedule, TypeOK, AttOK
<1>3. ASSUME NEW s \in Sched, BecomesDue(s) PROVE TypeOK'
  <2>1. [sched[s] EXCEPT !.due = TRUE] \in Row
    BY DEF TypeOK, Row
  <2>2. sched' \in [Sched -> Row]
    BY <1>3, <2>1 DEF BecomesDue, TypeOK
  <2>3. QED BY <1>3, <2>2 DEF BecomesDue, TypeOK, AttOK
<1>4. ASSUME NEW s \in Sched, CancelRead(s) PROVE TypeOK'
  BY <1>4 DEF CancelRead, TypeOK, AttOK
<1>5. ASSUME NEW s \in Sched, CancelWrite(s) PROVE TypeOK'
  <2>1. sched' \in [Sched -> Row]
    BY <1>5, StoreType DEF CancelWrite, Status
  <2>2. QED BY <1>5, <2>1 DEF CancelWrite, TypeOK, AttOK
<1>6. ASSUME NEW s \in Sched, UserDeletesDraft(s) PROVE TypeOK'
  BY <1>6 DEF UserDeletesDraft, TypeOK, AttOK, Mail
<1>0. ASSUME NEW s \in Sched, NEW w \in Worker, ClaimFails(w, s) PROVE TypeOK'
  <2>1. sched' \in [Sched -> Row]
    BY <1>0, StoreType DEF ClaimFails, Status, TypeOK
  <2>2. list' \in [Worker -> SUBSET Sched] /\ faults' \in 0 .. MaxFaults
    BY <1>0, StoreType DEF ClaimFails, TypeOK
  <2>3. broken' \subseteq Mail
    BY <1>0 DEF ClaimFails, TypeOK, Mail
  <2>4. QED BY <1>0, <2>1, <2>2, <2>3 DEF ClaimFails, TypeOK, AttOK
<1>7. ASSUME NEW m \in Mail, UserDeletesSent(m) PROVE TypeOK'
  <2>1. sentRow' \subseteq Mail /\ sentFile' \subseteq Mail /\ sentPath' \subseteq sentRow'
    BY <1>7, StoreType DEF UserDeletesSent
  <2>2. QED BY <1>7, <2>1 DEF UserDeletesSent, TypeOK, AttOK
<1>8. ASSUME NEW m \in Mail, ChargeAges(m) PROVE TypeOK'
  <2>1. charge' \in [Mail -> Age]
    BY <1>8 DEF ChargeAges, TypeOK, Age
  <2>2. QED BY <1>8, <2>1 DEF ChargeAges, TypeOK, AttOK
<1>9. CASE UNCHANGED vars
  BY <1>9 DEF vars, TypeOK, AttOK
<1>10. QED
  BY <1>0, <1>1, <1>2, <1>3, <1>4, <1>5, <1>6, <1>7, <1>8, <1>9, SendType, BreakType, WorkType DEF Next

\* The variables have their types at the start.
LEMMA TypeInit == Init => TypeOK
<1> SUFFICES ASSUME Init PROVE TypeOK
  OBVIOUS
<1>1. att \in [Sender -> Att]
  BY DEF Init, IdleAtt, Att, PC, Mail, Sender
<1>2. AttOK
  BY <1>1, ConstantsAssumption DEF ConstantsAssumption, AttOK, Init, IdleAtt, Sender
<1>3. sched \in [Sched -> Row] /\ charge \in [Mail -> Age]
  BY DEF Init, Row, Status, Age
<1>4. QED BY <1>2, <1>3, BoundsAssumption DEF BoundsAssumption, Init, TypeOK

\* Every variable keeps its type, for any workers, mails, allowances and bounds.
THEOREM SendPathTypeCorrect == Spec => []TypeOK
BY TypeInit, TypeStep, PTL DEF Spec

-----------------------------------------------------------------------------
(* What happens to a mail, and to its draft *)

\* Where a sender has not entered its mail in the queue yet.
Before == {"idle", "check", "charge", "tx", "insert", "write", "path", "enqueue"}

\* Neither in the queue nor with a worker.
Untouched(s) == queued[s] = 0 /\ \A w \in Worker : att[w].mail # s

OwnMail == \A p, q \in Sender : p # q /\ att[p].mail = att[q].mail => att[p].mail = NoMail
PendingUntouched == \A s \in Sched : sched[s].status \in {"none", "pending"} => Untouched(s)
UnsentBefore ==
  \A p \in Sender : att[p].pc \in Before /\ att[p].mail # NoMail => queued[att[p].mail] = 0
CalledOffUntouched == \A s \in calledOff : sched[s].status = "cancelled" /\ Untouched(s)
DraftAfterQueue == \A w \in Worker : att[w].pc = "draft" => queued[att[w].mail] >= 1

\* The claim makes an item the worker's own until it rests, and no item goes
\* back to "pending"; hence one entry in the queue, and none without a claim.
MailInv ==
  /\ OwnMail
  /\ PendingUntouched
  /\ UnsentBefore
  /\ QueuedOnce
  /\ CalledOffUntouched
  /\ DraftAfterQueue
  /\ DraftGoesWithMail

\* A step that enters nothing in the queue keeps its mail or lets go of it.
Onward(p) ==
  /\ \A q \in Sender \ {p} : att'[q] = att[q]
  /\ att'[p].mail \in {att[p].mail, NoMail}
  /\ att'[p].pc \in Before /\ att'[p].mail # NoMail => att[p].pc \in Before
  /\ att'[p].pc # "draft"

\* Going on, failing and resting are such steps.
LEMMA OnwardSteps ==
  ASSUME TypeOK, NEW p \in Sender
  PROVE  /\ \A pc \in PC \ {"draft"} :
              Goto(p, pc) /\ (pc \in Before => att[p].pc \in Before) => Onward(p)
         /\ Fail(p) => Onward(p)
         /\ Rest(p) => Onward(p)
<1>1. att \in [Sender -> Att] /\ att[p] \in Att
  BY DEF TypeOK, AttOK
<1>2. ASSUME NEW pc \in PC \ {"draft"}, Goto(p, pc), pc \in Before => att[p].pc \in Before
      PROVE  Onward(p)
  <2>1. att' = [att EXCEPT ![p] = [att[p] EXCEPT !.pc = pc]]
    BY <1>2 DEF Goto
  <2>2. att'[p].pc = pc /\ att'[p].mail = att[p].mail
    BY <1>1, <2>1 DEF Att
  <2>3. QED BY <1>1, <1>2, <2>1, <2>2 DEF Onward
<1>3. ASSUME Fail(p) PROVE Onward(p)
  <2>1. "failed" \in PC \ {"draft"} /\ "failed" \notin Before
    BY DEF PC, Before
  <2>2. "done" \in PC \ {"draft"} /\ "done" \notin Before
    BY DEF PC, Before
  <2>3. Goto(p, "failed") \/ Goto(p, "done")
    BY <1>3 DEF Fail
  <2>4. QED BY <1>2, <2>1, <2>2, <2>3
<1>4. ASSUME Rest(p) PROVE Onward(p)
  <2>1. CASE p \in Worker
    <3>1. att' = [att EXCEPT ![p] = IdleAtt]
      BY <1>4, <2>1 DEF Rest
    <3>2. QED BY <1>1, <3>1 DEF Onward, IdleAtt
  <2>2. CASE p \notin Worker
    <3>1. Goto(p, "done")
      BY <1>4, <2>2 DEF Rest, Goto
    <3>2. "done" \in PC \ {"draft"} /\ "done" \notin Before
      BY DEF PC, Before
    <3>3. QED BY <1>2, <3>1, <3>2
  <2>3. QED BY <2>1, <2>2
<1>5. QED BY <1>2, <1>3, <1>4

\* Only the sender itself works on the mail of a direct request.
LEMMA SchedIsHeldByWorker ==
  ASSUME TypeOK, NEW p \in Sender, att[p].mail \in Sched
  PROVE  p \in Worker
BY SenderKinds, ConstantsAssumption DEF ConstantsAssumption, Sender

\* A step onward keeps the invariant, whatever it stores elsewhere.
LEMMA OnwardKeeps ==
  ASSUME TypeOK, MailInv, NEW p \in Sender, Onward(p),
         UNCHANGED <<sched, queued, draft, calledOff, discarded>>
  PROVE  MailInv'
<1> USE DEF MailInv
<1>1. OwnMail'
  BY DEF OwnMail, Onward
<1>2. \A s \in Sched : s # NoMail
  BY ConstantsAssumption DEF ConstantsAssumption, Mail
<1>3. \A w \in Worker : w \in Sender
  BY DEF Sender
<1>4. \A s \in Sched : Untouched(s) => Untouched(s)'
  BY <1>2, <1>3 DEF Untouched, Onward
<1>5. PendingUntouched' /\ CalledOffUntouched'
  BY <1>4 DEF PendingUntouched, CalledOffUntouched, TypeOK
<1>6. UnsentBefore'
  BY DEF UnsentBefore, Onward
<1>7. DraftAfterQueue'
  BY <1>3 DEF DraftAfterQueue, Onward
<1>8. QueuedOnce' /\ DraftGoesWithMail'
  BY DEF QueuedOnce, DraftGoesWithMail
<1>9. QED BY <1>1, <1>5, <1>6, <1>7, <1>8

\* Entering the mail in the queue keeps it, whether or not the sender learns of it.
LEMMA EnteredKeeps ==
  ASSUME TypeOK, MailInv, NEW p \in Sender, att[p].pc = "enqueue", Entered(att[p].mail),
         Succeed(p) \/ Goto(p, "undo"),
         UNCHANGED <<sched, draft, calledOff, discarded>>
  PROVE  MailInv'
<1> DEFINE m == att[p].mail
<1> USE DEF MailInv
<1>1. att \in [Sender -> Att] /\ queued \in [Mail -> 0 .. 2] /\ m \in Mail /\ m # NoMail
  BY SenderMail, ConstantsAssumption DEF TypeOK, AttOK, ConstantsAssumption
<1>2. queued[m] = 0
  BY <1>1 DEF UnsentBefore, Before
<1>3. queued' = [queued EXCEPT ![m] = 1]
  BY <1>2 DEF Entered
<1>4. PICK pc \in {"draft", "done", "undo"} : Goto(p, pc)
  BY DEF Succeed
<1>5. att' = [att EXCEPT ![p] = [att[p] EXCEPT !.pc = pc]]
  BY <1>4 DEF Goto
<1>6. \A q \in Sender : /\ att'[q].mail = att[q].mail
                        /\ q # p => att'[q] = att[q]
  BY <1>1, <1>5 DEF Att
<1>7. att'[p].pc = pc
  BY <1>1, <1>5 DEF Att
<1>8. OwnMail'
  BY <1>6 DEF OwnMail
<1>9. \A q \in Sender : q # p => att[q].mail # m
  BY <1>1 DEF OwnMail
<1>10. \A w \in Worker : w \in Sender
  BY DEF Sender
<1>11. \A s \in Sched : Untouched(s) => s # m
  BY SchedIsHeldByWorker DEF Untouched
<1>12. \A s \in Sched : Untouched(s) => Untouched(s)'
  BY <1>1, <1>3, <1>6, <1>10, <1>11 DEF Untouched, Mail
<1>13. PendingUntouched' /\ CalledOffUntouched'
  BY <1>12 DEF PendingUntouched, CalledOffUntouched, TypeOK
<1>14. UnsentBefore'
  <2> SUFFICES ASSUME NEW q \in Sender, att'[q].pc \in Before, att'[q].mail # NoMail
               PROVE  queued'[att'[q].mail] = 0
    BY DEF UnsentBefore
  <2>1. q # p
    BY <1>7 DEF Before
  <2>2. queued[att[q].mail] = 0 /\ att[q].mail # m
    BY <1>6, <1>9, <2>1 DEF UnsentBefore
  <2>3. att[q].mail \in Mail
    BY <1>1, <1>6 DEF Att
  <2>4. QED BY <1>1, <1>3, <1>6, <2>2, <2>3
<1>15. QueuedOnce'
  BY <1>1, <1>3 DEF QueuedOnce
<1>16. \A n \in Mail : queued[n] >= 1 => queued'[n] >= 1
  BY <1>1, <1>3
<1>17. DraftAfterQueue'
  <2> SUFFICES ASSUME NEW w \in Worker, att'[w].pc = "draft"
               PROVE  queued'[att'[w].mail] >= 1
    BY DEF DraftAfterQueue
  <2>1. CASE w = p
    BY <1>1, <1>3, <1>6, <2>1
  <2>2. CASE w # p
    <3>1. att[w].pc = "draft" /\ att[w].mail \in Mail
      BY <1>6, <1>10, <2>2, SenderMail
    <3>2. QED BY <1>6, <1>10, <1>16, <3>1 DEF DraftAfterQueue
  <2>3. QED BY <2>1, <2>2
<1>18. DraftGoesWithMail'
  BY <1>16, ConstantsAssumption DEF ConstantsAssumption, DraftGoesWithMail, Mail
<1>19. QED BY <1>8, <1>13, <1>14, <1>15, <1>17, <1>18

\* The steps of a sender keep it.
LEMMA SendKeeps ==
  ASSUME TypeOK, MailInv, NEW p \in Sender, Send(p) \/ Refuse(p) \/ Breaks(p)
  PROVE  MailInv'
<1> USE DEF copy, history, At
<1>a. {"insert", "tx", "write", "path", "enqueue", "undo", "sent"} \subseteq PC \ {"draft"}
  BY DEF PC
<1>b. {"insert", "tx", "write", "path", "enqueue"} \subseteq Before /\ "undo" \notin Before
  BY DEF Before
<1>c. {"charge", "tx", "insert", "write", "path"} \subseteq Before /\ "sent" \notin Before
  BY DEF Before
<1> DEFINE Kept == UNCHANGED <<sched, queued, draft, calledOff, discarded>>
<1>1. CASE BeginCharge(p)
  <2>1. Goto(p, "insert") \/ Goto(p, "tx") \/ Fail(p)
    BY <1>1 DEF BeginCharge
  <2>2. Onward(p)
    BY <1>1, <2>1, <1>a, <1>b, <1>c, OnwardSteps DEF BeginCharge
  <2>3. QED BY <1>1, <2>2, OnwardKeeps DEF BeginCharge
<1>2. CASE CommitCharge(p)
  <2>1. Onward(p)
    BY <1>2, <1>a, <1>b, <1>c, OnwardSteps DEF CommitCharge
  <2>2. QED BY <1>2, <2>1, OnwardKeeps DEF CommitCharge
<1>3. CASE InsertSent(p)
  <2>1. Onward(p)
    BY <1>3, <1>a, <1>b, <1>c, OnwardSteps DEF InsertSent
  <2>2. QED BY <1>3, <2>1, OnwardKeeps DEF InsertSent
<1>4. CASE WriteFile(p)
  <2>1. Goto(p, "path") \/ Goto(p, "undo")
    BY <1>4 DEF WriteFile
  <2>2. Onward(p)
    BY <1>4, <2>1, <1>a, <1>b, <1>c, OnwardSteps DEF WriteFile
  <2>3. QED BY <1>4, <2>2, OnwardKeeps DEF WriteFile
<1>5. CASE WritePath(p)
  <2>1. Onward(p)
    BY <1>5, <1>a, <1>b, <1>c, OnwardSteps DEF WritePath
  <2>2. QED BY <1>5, <2>1, OnwardKeeps DEF WritePath
<1>6. CASE Enqueue(p)
  BY <1>6, EnteredKeeps DEF Enqueue
<1>7. CASE Undo(p)
  BY <1>7, OnwardSteps, OnwardKeeps DEF Undo
<1>8. CASE Refuse(p)
  BY <1>8, OnwardSteps, OnwardKeeps DEF Refuse
<1>9. CASE InsertPartly(p)
  BY <1>9, OnwardSteps, OnwardKeeps DEF InsertPartly
<1>10. CASE EnqueueUnknown(p)
  BY <1>10, EnteredKeeps DEF EnqueueUnknown
<1>11. CASE Fails(p)
  <2>1. Goto(p, "undo") \/ Fail(p)
    BY <1>11 DEF Fails
  <2>2. Onward(p)
    BY <2>1, <1>a, <1>b, OnwardSteps
  <2>3. QED BY <1>11, <2>2, OnwardKeeps DEF Fails
<1>12. CASE FailsQuietly(p)
  <2>1. Goto(p, "undo") \/ Fail(p) \/ Goto(p, "sent") \/ Rest(p)
    BY <1>12 DEF FailsQuietly
  <2>2. Onward(p)
    BY <2>1, <1>a, <1>b, <1>c, OnwardSteps
  <2>3. QED BY <1>12, <2>2, OnwardKeeps DEF FailsQuietly
<1>13. CASE Interrupted(p)
  BY <1>13, OnwardSteps, OnwardKeeps DEF Interrupted
<1>14. QED
  BY <1>1, <1>2, <1>3, <1>4, <1>5, <1>6, <1>7, <1>8, <1>9, <1>10, <1>11, <1>12, <1>13
  DEF Send, Breaks

\* The steps of the scheduled-send worker keep it.
LEMMA WorkKeeps ==
  ASSUME TypeOK, MailInv, NEW w \in Worker, Work(w)
  PROVE  MailInv'
<1> USE DEF copy, history, At
<1>a. w \in Sender /\ \A v \in Worker : v \in Sender
  BY DEF Sender
<1>b. att[w].pc # "idle" => att[w].mail \in Sched
  BY <1>a, SenderKinds
<1>c. \A s \in Sched : s \in Mail /\ s # NoMail
  BY ConstantsAssumption DEF ConstantsAssumption, Mail
<1>d. att \in [Sender -> Att] /\ sched \in [Sched -> Row]
  BY DEF TypeOK, AttOK
<1>1. CASE ListDue(w)
  BY <1>1 DEF ListDue, MailInv, OwnMail, PendingUntouched, UnsentBefore, QueuedOnce,
              CalledOffUntouched, DraftAfterQueue, DraftGoesWithMail, Untouched
<1>2. CASE Check(w)
  <2>1. "charge" \in PC \ {"draft"} /\ "check" \in Before
    BY DEF PC, Before
  <2>2. Onward(w)
    BY <1>2, <1>a, <2>1, OnwardSteps DEF Check
  <2>3. QED BY <1>2, <1>a, <2>2, OnwardKeeps DEF Check
<1>3. CASE DeleteDraft(w)
  <2> DEFINE s == att[w].mail
  <2>1. "sent" \in PC \ {"draft"} /\ "sent" \notin Before
    BY DEF PC, Before
  <2>2. Onward(w)
    BY <1>3, <1>a, <2>1, OnwardSteps DEF DeleteDraft
  <2>3. queued[s] >= 1
    BY <1>3 DEF DeleteDraft, MailInv, DraftAfterQueue
  <2>4. DraftGoesWithMail'
    BY <1>3, <2>3 DEF DeleteDraft, MailInv, DraftGoesWithMail
  <2>5. OwnMail'
    BY <2>2 DEF MailInv, OwnMail, Onward
  <2>6. \A t \in Sched : Untouched(t) => Untouched(t)'
    BY <1>3, <1>a, <1>c, <2>2 DEF DeleteDraft, Untouched, Onward
  <2>7. PendingUntouched' /\ CalledOffUntouched'
    BY <1>3, <2>6 DEF DeleteDraft, MailInv, PendingUntouched, CalledOffUntouched, TypeOK
  <2>8. UnsentBefore'
    BY <1>3, <2>2 DEF DeleteDraft, MailInv, UnsentBefore, Onward
  <2>9. DraftAfterQueue' /\ QueuedOnce'
    BY <1>3, <1>a, <2>2 DEF DeleteDraft, MailInv, DraftAfterQueue, QueuedOnce, Onward
  <2>10. QED BY <2>4, <2>5, <2>7, <2>8, <2>9 DEF MailInv
<1>4. ASSUME NEW status \in {"sent", "failed"}, SetStatus(att[w].mail, status), Rest(w),
             att[w].pc # "idle", UNCHANGED <<queued, draft, calledOff, discarded>>
      PROVE  MailInv'
  <2> DEFINE s == att[w].mail
  <2>1. Onward(w)
    BY <1>4, <1>a, OnwardSteps
  <2>2. s \in Sched
    BY <1>4, <1>b
  <2>3. \A t \in Sched : Untouched(t) => Untouched(t)' /\ t # s
    BY <1>4, <1>a, <1>c, <2>1 DEF Untouched, Onward
  <2>4. \A t \in Sched : /\ t # s => sched'[t].status = sched[t].status
                         /\ t = s => sched'[t].status = status
    BY <1>4, <1>d, <2>2 DEF SetStatus, Row
  <2>5. PendingUntouched'
    BY <1>4, <2>3, <2>4 DEF MailInv, PendingUntouched
  <2>6. CalledOffUntouched'
    BY <1>4, <2>3, <2>4 DEF MailInv, CalledOffUntouched, TypeOK
  <2>7. OwnMail'
    BY <2>1 DEF MailInv, OwnMail, Onward
  <2>8. UnsentBefore'
    BY <1>4, <2>1 DEF MailInv, UnsentBefore, Onward
  <2>9. DraftAfterQueue' /\ QueuedOnce' /\ DraftGoesWithMail'
    BY <1>4, <1>a, <2>1 DEF MailInv, DraftAfterQueue, QueuedOnce, DraftGoesWithMail, Onward
  <2>10. QED BY <2>5, <2>6, <2>7, <2>8, <2>9 DEF MailInv
<1>5. CASE MarkSent(w)
  BY <1>4, <1>5 DEF MarkSent
<1>6. CASE MarkFailed(w)
  BY <1>4, <1>6 DEF MarkFailed
<1>7. ASSUME NEW s \in Sched, Claim(w, s) PROVE MailInv'
  <2>1. CASE sched[s].status # "pending"
    BY <1>7, <2>1
    DEF Claim, MailInv, OwnMail, PendingUntouched, UnsentBefore, QueuedOnce,
        CalledOffUntouched, DraftAfterQueue, DraftGoesWithMail, Untouched
  <2>2. CASE sched[s].status = "pending"
    <3>1. att' = [att EXCEPT ![w] = [pc |-> "check", mail |-> s]] /\ SetStatus(s, "sending")
      BY <1>7, <2>2 DEF Claim
    <3>2. UNCHANGED <<queued, draft, calledOff, discarded>>
      BY <1>7 DEF Claim
    <3>3. Untouched(s)
      BY <2>2 DEF MailInv, PendingUntouched
    <3>4. \A p \in Sender : att[p].mail # s
      BY <3>3, SchedIsHeldByWorker DEF Untouched
    <3>5. att'[w].pc = "check" /\ att'[w].mail = s /\ \A q \in Sender \ {w} : att'[q] = att[q]
      BY <1>a, <1>d, <3>1
    <3>6. OwnMail'
      BY <3>4, <3>5 DEF MailInv, OwnMail
    <3>7. \A t \in Sched : /\ t # s => sched'[t].status = sched[t].status
                           /\ t = s => sched'[t].status = "sending"
      BY <1>d, <3>1 DEF SetStatus, Row
    <3>8. \A t \in Sched \ {s} : Untouched(t) => Untouched(t)'
      BY <1>a, <3>2, <3>5 DEF Untouched
    <3>9. PendingUntouched'
      BY <3>7, <3>8 DEF MailInv, PendingUntouched
    <3>10. s \notin calledOff
      BY <2>2 DEF MailInv, CalledOffUntouched
    <3>11. CalledOffUntouched'
      BY <3>2, <3>7, <3>8, <3>10 DEF MailInv, CalledOffUntouched, TypeOK
    <3>12. UnsentBefore'
      BY <3>2, <3>3, <3>5 DEF MailInv, UnsentBefore, Untouched
    <3>13. DraftAfterQueue' /\ QueuedOnce' /\ DraftGoesWithMail'
      BY <1>a, <3>2, <3>5 DEF MailInv, DraftAfterQueue, QueuedOnce, DraftGoesWithMail
    <3>14. QED BY <3>6, <3>9, <3>11, <3>12, <3>13 DEF MailInv
  <2>3. QED BY <2>1, <2>2
<1>8. QED BY <1>1, <1>2, <1>3, <1>5, <1>6, <1>7 DEF Work

\* A step of the user or of the clock that sets the status of at most one item,
\* an item nobody may find pending again, keeps it.
LEMMA StatusKeeps ==
  ASSUME TypeOK, MailInv,
         \A s \in Sched : sched'[s].status \in {"none", "pending"} =>
           sched[s].status \in {"none", "pending"},
         \A s \in calledOff' : /\ sched'[s].status = "cancelled"
                               /\ s \in calledOff \/ sched[s].status = "pending",
         calledOff' \subseteq Sched, draft' \cup discarded' = draft \cup discarded,
         UNCHANGED <<att, queued>>
  PROVE  MailInv'
<1> USE DEF MailInv
<1>1. \A s \in Sched : Untouched(s) => Untouched(s)'
  BY DEF Untouched
<1>2. PendingUntouched'
  BY <1>1 DEF PendingUntouched
<1>3. CalledOffUntouched'
  BY <1>1 DEF CalledOffUntouched, PendingUntouched
<1>4. OwnMail' /\ UnsentBefore' /\ QueuedOnce' /\ DraftAfterQueue'
  BY DEF OwnMail, UnsentBefore, QueuedOnce, DraftAfterQueue
<1>5. DraftGoesWithMail'
  BY DEF DraftGoesWithMail
<1>6. QED BY <1>2, <1>3, <1>4, <1>5

\* Every step keeps it.
LEMMA MailStep == TypeOK /\ MailInv /\ [Next]_vars => MailInv'
<1> SUFFICES ASSUME TypeOK, MailInv, [Next]_vars PROVE MailInv'
  OBVIOUS
<1> USE DEF copy, history
<1>a. sched \in [Sched -> Row] /\ calledOff \subseteq Sched
  BY DEF TypeOK
<1>b. \A s \in calledOff : sched[s].status = "cancelled"
  BY DEF MailInv, CalledOffUntouched
<1>1. ASSUME NEW d \in Direct, Compose(d) PROVE MailInv'
  <2>1. d \in Sender /\ "charge" \in PC \ {"draft"} /\ "idle" \in Before
    BY DEF Sender, PC, Before
  <2>2. Onward(d)
    BY <1>1, <2>1, OnwardSteps DEF Compose, At
  <2>3. QED BY <1>1, <2>1, <2>2, OnwardKeeps DEF Compose
<1>2. ASSUME NEW s \in Sched, Schedule(s) PROVE MailInv'
  <2>1. \A t \in Sched : /\ t # s => sched'[t].status = sched[t].status
                         /\ t = s => sched'[t].status = "pending"
    BY <1>2, <1>a DEF Schedule, SetStatus, Row
  <2>2. s \notin calledOff
    BY <1>2, <1>b DEF Schedule
  <2>3. QED BY <1>2, <1>a, <1>b, <2>1, <2>2, StatusKeeps DEF Schedule
<1>3. ASSUME NEW s \in Sched, BecomesDue(s) PROVE MailInv'
  <2>1. \A t \in Sched : sched'[t].status = sched[t].status
    BY <1>3, <1>a DEF BecomesDue, Row
  <2>2. QED BY <1>3, <1>a, <1>b, <2>1, StatusKeeps DEF BecomesDue
<1>4. ASSUME NEW s \in Sched, CancelWrite(s) PROVE MailInv'
  <2>1. \A t \in Sched : /\ t # s => sched'[t].status = sched[t].status
                         /\ t = s => sched'[t].status = "cancelled"
    BY <1>4, <1>a DEF CancelWrite, SetStatus, Row
  <2>2. calledOff' \subseteq Sched
    BY <1>4, <1>a DEF CancelWrite
  <2>3. \A t \in calledOff' : /\ sched'[t].status = "cancelled"
                              /\ t \in calledOff \/ sched[t].status = "pending"
    BY <1>4, <1>a, <1>b, <2>1 DEF CancelWrite
  <2>4. \A t \in Sched : sched'[t].status \in {"none", "pending"} =>
          sched[t].status \in {"none", "pending"}
    BY <2>1
  <2>5. QED BY <1>4, <2>2, <2>3, <2>4, StatusKeeps DEF CancelWrite
<1>5. ASSUME NEW s \in Sched, CancelRead(s) \/ UserDeletesDraft(s) PROVE MailInv'
  <2>1. UNCHANGED <<sched, att, queued, calledOff>>
    BY <1>5 DEF CancelRead, UserDeletesDraft
  <2>2. draft' \cup discarded' = draft \cup discarded
    BY <1>5 DEF CancelRead, UserDeletesDraft
  <2>3. QED BY <1>a, <1>b, <2>1, <2>2, StatusKeeps
<1>6. ASSUME NEW m \in Mail, ChargeAges(m) PROVE MailInv'
  BY <1>6, <1>a, <1>b, StatusKeeps DEF ChargeAges
<1>7. ASSUME NEW m \in Mail, UserDeletesSent(m) PROVE MailInv'
  BY <1>7 DEF UserDeletesSent, MailInv, OwnMail, PendingUntouched, UnsentBefore, QueuedOnce,
              CalledOffUntouched, DraftAfterQueue, DraftGoesWithMail, Untouched
<1>8. ASSUME NEW s \in Sched, NEW w \in Worker, ClaimFails(w, s) PROVE MailInv'
  <2>1. UNCHANGED <<att, queued, draft, calledOff, discarded>>
    BY <1>8 DEF ClaimFails
  <2>2. \A t \in Sched : \/ sched'[t].status = sched[t].status
                         \/ sched[t].status = "pending" /\ sched'[t].status = "sending"
    BY <1>8, <1>a DEF ClaimFails, SetStatus, Row
  <2>3. \A t \in calledOff : sched'[t].status = "cancelled"
    BY <1>a, <1>b, <2>2
  <2>4. \A t \in Sched : sched'[t].status \in {"none", "pending"} =>
          sched[t].status \in {"none", "pending"}
    BY <2>2
  <2>5. QED BY <1>a, <2>1, <2>3, <2>4, StatusKeeps
<1>9. CASE UNCHANGED vars
  BY <1>9, <1>a, <1>b, StatusKeeps DEF vars
<1>10. QED
  BY <1>9, <1>1, <1>2, <1>3, <1>4, <1>5, <1>6, <1>7, <1>8, SendKeeps, WorkKeeps DEF Next

\* Nothing is held, queued or called off at the start, and every draft is there.
LEMMA MailInit == Init => MailInv
<1> SUFFICES ASSUME Init PROVE MailInv
  OBVIOUS
<1>1. \A w \in Worker : att[w] = IdleAtt
  BY DEF Init, Sender
<1>2. \A d \in Direct : att[d] = [pc |-> "idle", mail |-> d]
  BY ConstantsAssumption DEF ConstantsAssumption, Init, Sender
<1>3. OwnMail
  <2>1. \A p \in Sender : att[p].mail \in {p, NoMail}
    <3>1. \A w \in Worker : att[w].mail = NoMail
      BY <1>1 DEF IdleAtt
    <3>2. ASSUME NEW d \in Direct PROVE att[d].mail = d
      <4>1. att[d] = [pc |-> "idle", mail |-> d]
        BY <1>2
      <4>2. QED BY <4>1
    <3>3. QED BY <3>1, <3>2 DEF Sender
  <2>2. ASSUME NEW p \in Sender, NEW q \in Sender, p # q, att[p].mail = att[q].mail
        PROVE  att[p].mail = NoMail
    <3>1. CASE att[p].mail = p
      BY <2>1, <2>2, <3>1
    <3>2. CASE att[p].mail # p
      BY <2>1, <3>2
    <3>3. QED BY <3>1, <3>2
  <2>3. QED BY <2>2 DEF OwnMail
<1>4. \A s \in Sched : Untouched(s)
  BY <1>1, ConstantsAssumption DEF ConstantsAssumption, Untouched, IdleAtt, Init, Mail
<1>5. UnsentBefore
  BY <1>1, <1>2 DEF UnsentBefore, IdleAtt, Init, Sender, Mail
<1>6. QueuedOnce /\ DraftGoesWithMail /\ CalledOffUntouched
  BY DEF QueuedOnce, DraftGoesWithMail, CalledOffUntouched, Init
<1>7. DraftAfterQueue
  BY <1>1 DEF DraftAfterQueue, IdleAtt
<1>8. QED BY <1>3, <1>4, <1>5, <1>6, <1>7 DEF MailInv, PendingUntouched

\* What happens to a mail is as MailInv says.
LEMMA MailAlways == Spec => []MailInv
BY MailInit, MailStep, TypeInit, TypeStep, PTL DEF Spec

\* A mail enters the send queue at most once, however many workers have its item
\* on their lists.
THEOREM SendPathQueuedOnce == Spec => []QueuedOnce
BY MailAlways, PTL DEF MailInv

\* An item canceled before a worker claimed it is never sent.
THEOREM SendPathCalledOff == Spec => []CalledOffStaysUnsent
<1>1. MailInv => CalledOffStaysUnsent
  BY DEF MailInv, CalledOffUntouched, CalledOffStaysUnsent, Untouched
<1>2. QED BY <1>1, MailAlways, PTL

\* A draft only disappears with a mail that is in the queue, or by its user.
THEOREM SendPathDraft == Spec => []DraftGoesWithMail
BY MailAlways, PTL DEF MailInv

-----------------------------------------------------------------------------
(* The allowance *)

InMinute == {m \in Mail : charge[m] = "minute"}
InDay    == {m \in Mail : charge[m] \in {"minute", "day"}}

\* A sender that has counted holds the lock on its user until it has charged,
\* so what it counted still stands, or is less.
AllowanceInv ==
  /\ MinuteKept /\ DayKept
  /\ \A p, q \in Sender : At(p, "tx") /\ At(q, "tx") => p = q
  /\ \A p \in Sender : At(p, "tx") => WithinLimits(att[p].mail)

\* Charging one mail adds at most one to the count, letting one age adds none.
LEMMA Counting ==
  ASSUME NEW S \in SUBSET Mail, NEW T \in SUBSET Mail
  PROVE  /\ Cardinality(S) \in Nat
         /\ T \subseteq S => Cardinality(T) <= Cardinality(S)
         /\ \A m \in Mail : T \subseteq S \cup {m} => Cardinality(T) <= Cardinality(S) + 1
<1>1. IsFiniteSet(S) /\ IsFiniteSet(T)
  BY ConstantsAssumption, FS_Subset DEF ConstantsAssumption
<1>2. Cardinality(S) \in Nat /\ Cardinality(T) \in Nat
  BY <1>1, FS_CardinalityType
<1>3. T \subseteq S => Cardinality(T) <= Cardinality(S)
  BY <1>1, FS_Subset
<1>4. ASSUME NEW m \in Mail, T \subseteq S \cup {m}
      PROVE  Cardinality(T) <= Cardinality(S) + 1
  <2>1. IsFiniteSet(S \cup {m}) /\ Cardinality(S \cup {m}) <= Cardinality(S) + 1
    <3>1. /\ IsFiniteSet(S \cup {m})
          /\ Cardinality(S \cup {m}) = IF m \in S THEN Cardinality(S) ELSE Cardinality(S) + 1
      BY <1>1, FS_AddElement
    <3>2. QED BY <1>2, <3>1
  <2>2. Cardinality(T) <= Cardinality(S \cup {m})
    BY <1>4, <2>1, FS_Subset
  <2>3. Cardinality(S \cup {m}) \in Nat
    BY <2>1, FS_CardinalityType
  <2>4. QED BY <1>2, <2>1, <2>2, <2>3
<1>5. QED BY <1>2, <1>3, <1>4

\* One mail has its recipients, and several have finitely many.
LEMMA OneMail ==
  ASSUME NEW m \in Mail
  PROVE  /\ IsFiniteSet({m} \X (1 .. Cost[m]))
         /\ Cardinality({m} \X (1 .. Cost[m])) = Cost[m]
<1>1. Cost[m] \in Nat /\ Cost[m] > 0
  BY BoundsAssumption DEF BoundsAssumption
<1>2. IsFiniteSet(1 .. Cost[m]) /\ Cardinality(1 .. Cost[m]) = Cost[m]
  <2>1. /\ IsFiniteSet(1 .. Cost[m])
        /\ Cardinality(1 .. Cost[m]) = IF 1 > Cost[m] THEN 0 ELSE Cost[m] - 1 + 1
    <3>1. 1 \in Int /\ Cost[m] \in Int
      BY <1>1
    <3>2. QED BY <3>1, FS_Interval, Zenon
  <2>2. ~ (1 > Cost[m]) /\ Cost[m] - 1 + 1 = Cost[m]
    BY <1>1
  <2>3. QED BY <2>1, <2>2, Zenon
<1>3. IsFiniteSet({m}) /\ Cardinality({m}) = 1
  BY FS_Singleton
<1>4. /\ IsFiniteSet({m} \X (1 .. Cost[m]))
      /\ Cardinality({m} \X (1 .. Cost[m])) = Cardinality({m}) * Cardinality(1 .. Cost[m])
  BY <1>2, <1>3, FS_Product
<1>5. QED BY <1>1, <1>2, <1>3, <1>4

LEMMA RecipientsFinite ==
  ASSUME NEW S \in SUBSET Mail
  PROVE  IsFiniteSet(Recipients(S))
<1> DEFINE R == {{m} \X (1 .. Cost[m]) : m \in S}
           f == [m \in S |-> {m} \X (1 .. Cost[m])]
<1>1. IsFiniteSet(S)
  BY ConstantsAssumption, FS_Subset DEF ConstantsAssumption
<1>2. f \in Surjection(S, R)
  BY DEF Surjection
<1>3. IsFiniteSet(R)
  BY <1>1, <1>2, FS_Surjection
<1>4. \A T \in R : IsFiniteSet(T)
  BY OneMail
<1>5. QED BY <1>3, <1>4, FS_UNION DEF Recipients

\* Charging one mail adds at most its recipients to the sum.
LEMMA Summing ==
  ASSUME NEW S \in SUBSET Mail, NEW T \in SUBSET Mail
  PROVE  /\ Cardinality(Recipients(S)) \in Nat
         /\ T \subseteq S => Cardinality(Recipients(T)) <= Cardinality(Recipients(S))
         /\ \A m \in Mail : T \subseteq S \cup {m} =>
              Cardinality(Recipients(T)) <= Cardinality(Recipients(S)) + Cost[m]
<1>1. /\ IsFiniteSet(Recipients(S)) /\ Cardinality(Recipients(S)) \in Nat
      /\ IsFiniteSet(Recipients(T)) /\ Cardinality(Recipients(T)) \in Nat
  BY RecipientsFinite, FS_CardinalityType
<1>2. ASSUME T \subseteq S PROVE Cardinality(Recipients(T)) <= Cardinality(Recipients(S))
  <2>1. Recipients(T) \subseteq Recipients(S)
    BY <1>2 DEF Recipients
  <2>2. QED BY <1>1, <2>1, FS_Subset
<1>3. ASSUME NEW m \in Mail, T \subseteq S \cup {m}
      PROVE  Cardinality(Recipients(T)) <= Cardinality(Recipients(S)) + Cost[m]
  <2> DEFINE M == {m} \X (1 .. Cost[m])
             U == Recipients(S) \cup M
  <2>1. Recipients(T) \subseteq U
    BY <1>3 DEF Recipients
  <2>2. IsFiniteSet(M) /\ Cardinality(M) = Cost[m] /\ Cost[m] \in Nat
    BY OneMail, BoundsAssumption DEF BoundsAssumption
  <2> HIDE DEF M
  <2>3. /\ IsFiniteSet(U)
        /\ Cardinality(U) = Cardinality(Recipients(S)) + Cardinality(M)
                              - Cardinality(Recipients(S) \cap M)
    BY <1>1, <2>2, FS_Union
  <2>4. Cardinality(Recipients(S) \cap M) \in Nat
    <3>1. IsFiniteSet(Recipients(S) \cap M)
      BY <1>1, FS_Intersection
    <3>2. QED BY <3>1, FS_CardinalityType
  <2> HIDE DEF U
  <2>5. Cardinality(Recipients(T)) <= Cardinality(U)
    BY <2>1, <2>3, FS_Subset
  <2>6. Cardinality(U) <= Cardinality(Recipients(S)) + Cost[m] /\ Cardinality(U) \in Nat
    BY <1>1, <2>2, <2>3, <2>4, FS_CardinalityType
  <2>7. QED BY <1>1, <2>2, <2>5, <2>6
<1>4. QED BY <1>1, <1>2, <1>3

\* What is counted and summed up, in terms of the two sets.
LEMMA Used ==
  /\ UsedInMinute = Cardinality(InMinute) /\ UsedInDay = Cardinality(Recipients(InDay))
  /\ UsedInMinute' = Cardinality(InMinute') /\ UsedInDay' = Cardinality(Recipients(InDay'))
  /\ InMinute \in SUBSET Mail /\ InDay \in SUBSET Mail
  /\ InMinute' \in SUBSET Mail /\ InDay' \in SUBSET Mail
  /\ UsedInMinute \in Nat /\ UsedInMinute' \in Nat /\ UsedInDay \in Nat /\ UsedInDay' \in Nat
<1>1. InMinute \in SUBSET Mail /\ InDay \in SUBSET Mail /\ InMinute' \in SUBSET Mail /\ InDay' \in SUBSET Mail
  BY DEF InMinute, InDay
<1>2. UsedInMinute = Cardinality(InMinute) /\ UsedInDay = Cardinality(Recipients(InDay))
  BY DEF UsedInMinute, UsedInDay, InMinute, InDay
<1>3. UsedInMinute' = Cardinality(InMinute') /\ UsedInDay' = Cardinality(Recipients(InDay'))
  BY DEF UsedInMinute, UsedInDay, InMinute, InDay, Recipients
<1>4. QED BY <1>1, <1>2, <1>3, Counting, Summing

\* A mail that fits still fits when less is used, and what it adds is then kept.
LEMMA Fitting ==
  ASSUME NEW m \in Mail
  PROVE  /\ UsedInMinute' <= UsedInMinute /\ UsedInDay' <= UsedInDay /\ WithinLimits(m) => WithinLimits(m)'
         /\ WithinLimits(m) /\ UsedInMinute' <= UsedInMinute + 1 /\ UsedInDay' <= UsedInDay + Cost[m]
              => MinuteKept' /\ DayKept'
<1>1. /\ MinuteLimit \in Nat /\ DailyLimit \in Nat /\ Cost[m] \in Nat
      /\ UsedInMinute \in Nat /\ UsedInMinute' \in Nat /\ UsedInDay \in Nat /\ UsedInDay' \in Nat
  BY Used, BoundsAssumption DEF BoundsAssumption
<1>2. QED BY <1>1 DEF WithinLimits, MinuteKept, DayKept

\* A step that does not enter the transaction, and lets no mail into the counts,
\* keeps the invariant.
LEMMA AllowanceKeeps ==
  ASSUME TypeOK, AllowanceInv,
         \A p \in Sender : att'[p].pc = "tx" => att[p].pc = "tx" /\ att'[p].mail = att[p].mail,
         InMinute' \subseteq InMinute, InDay' \subseteq InDay
  PROVE  AllowanceInv'
<1>1. UsedInMinute' <= UsedInMinute /\ UsedInDay' <= UsedInDay
  BY Used, Counting, Summing
<1>2. MinuteKept' /\ DayKept'
  <2>1. UsedInMinute \in Nat /\ UsedInMinute' \in Nat /\ UsedInDay \in Nat /\ UsedInDay' \in Nat
    BY Used
  <2>2. MinuteLimit \in Nat /\ DailyLimit \in Nat
    BY BoundsAssumption DEF BoundsAssumption
  <2>3. QED BY <1>1, <2>1, <2>2 DEF AllowanceInv, MinuteKept, DayKept
<1>3. ASSUME NEW p \in Sender, At(p, "tx")' PROVE WithinLimits(att[p].mail)'
  <2>1. At(p, "tx") /\ att'[p].mail = att[p].mail
    BY <1>3 DEF At
  <2>2. att[p].mail \in Mail /\ WithinLimits(att[p].mail)
    BY <2>1, SenderMail DEF At, AllowanceInv
  <2>3. PICK m \in Mail : m = att[p].mail
    BY <2>2
  <2>4. WithinLimits(m)'
    BY <1>1, <2>2, <2>3, Fitting
  <2>5. QED BY <2>1, <2>3, <2>4
<1>4. \A p, q \in Sender : At(p, "tx")' /\ At(q, "tx")' => p = q
  BY DEF AllowanceInv, At
<1>5. QED BY <1>2, <1>3, <1>4 DEF AllowanceInv

\* Counting and charging keep it.
LEMMA ChargeKeeps ==
  ASSUME TypeOK, AllowanceInv, NEW p \in Sender, BeginCharge(p) \/ CommitCharge(p)
  PROVE  AllowanceInv'
<1>a. att \in [Sender -> Att] /\ charge \in [Mail -> Age] /\ MinuteLimit \in Nat
  BY BoundsAssumption DEF BoundsAssumption, TypeOK, AttOK
<1>1. CASE BeginCharge(p) /\ ~Goto(p, "tx")
  <2>1. Goto(p, "insert") \/ Fail(p)
    BY <1>1 DEF BeginCharge
  <2>2. \A q \in Sender : att'[q].pc = "tx" => att[q].pc = "tx" /\ att'[q].mail = att[q].mail
    BY <1>a, <2>1 DEF Goto, Fail, Att
  <2>3. UNCHANGED charge
    BY <1>1 DEF BeginCharge
  <2>4. QED BY <2>2, <2>3, AllowanceKeeps DEF InMinute, InDay
<1>2. CASE BeginCharge(p) /\ Goto(p, "tx")
  <2>1. att'[p].pc = "tx" /\ att'[p].mail = att[p].mail /\ \A q \in Sender \ {p} : att'[q] = att[q]
    BY <1>a, <1>2 DEF Goto, Att
  <2>2. att'[p].pc # "insert" /\ att'[p].pc \notin {"failed", "done"}
    BY <2>1
  <2>3. ~Goto(p, "insert") /\ ~Fail(p)
    BY <1>a, <2>2 DEF Goto, Fail, Att
  <2>4. ~UserLocked /\ WithinLimits(att[p].mail) /\ UNCHANGED charge
    BY <1>2, <2>3 DEF BeginCharge
  <2>5. \A q \in Sender : At(q, "tx")' => q = p
    BY <2>1, <2>4 DEF At, UserLocked
  <2>6. UsedInMinute' = UsedInMinute /\ UsedInDay' = UsedInDay
    BY <2>4 DEF UsedInMinute, UsedInDay, Recipients
  <2>7. WithinLimits(att[p].mail)'
    BY <2>1, <2>4, <2>6 DEF WithinLimits
  <2>8. MinuteKept' /\ DayKept'
    BY <2>6 DEF AllowanceInv, MinuteKept, DayKept
  <2>9. QED BY <2>5, <2>7, <2>8 DEF AllowanceInv
<1>3. CASE CommitCharge(p)
  <2>1. PICK m \in Mail : m = att[p].mail
    BY <1>3, SenderMail DEF CommitCharge, At
  <2>2. att[p].pc = "tx" /\ WithinLimits(m)
    BY <1>3, <2>1 DEF CommitCharge, At, AllowanceInv
  <2>3. \A q \in Sender : att'[q].pc # "tx"
    BY <1>3, <1>a, <2>2 DEF CommitCharge, Goto, AllowanceInv, At, Att
  <2>4. InMinute' \subseteq InMinute \cup {m} /\ InDay' \subseteq InDay \cup {m}
    BY <1>3, <1>a, <2>1 DEF CommitCharge, InMinute, InDay
  <2>5. UsedInMinute' <= UsedInMinute + 1 /\ UsedInDay' <= UsedInDay + Cost[m]
    BY <2>4, Used, Counting, Summing
  <2>6. MinuteKept' /\ DayKept'
    BY <2>2, <2>5, Fitting
  <2>7. QED BY <2>3, <2>6 DEF AllowanceInv, At
<1>4. QED BY <1>1, <1>2, <1>3

\* Every step keeps it.
LEMMA AllowanceStep == TypeOK /\ AllowanceInv /\ [Next]_vars => AllowanceInv'
<1> SUFFICES ASSUME TypeOK, AllowanceInv, [Next]_vars PROVE AllowanceInv'
  OBVIOUS
<1> USE DEF copy, history
<1> DEFINE Calm == \A p \in Sender : att'[p].pc = "tx" => att[p].pc = "tx" /\ att'[p].mail = att[p].mail
<1>a. att \in [Sender -> Att] /\ charge \in [Mail -> Age]
  BY DEF TypeOK, AttOK
<1>b. Calm /\ UNCHANGED charge => AllowanceInv'
  BY AllowanceKeeps DEF InMinute, InDay
<1>c. ASSUME NEW p \in Sender, NEW pc \in PC \ {"tx"}, Goto(p, pc) PROVE Calm
  BY <1>a, <1>c DEF Goto, Att
<1>d. ASSUME NEW p \in Sender, Fail(p) \/ Succeed(p) PROVE Calm
  BY <1>a, <1>d DEF Fail, Succeed, Goto, Att
<1>e. ASSUME NEW p \in Sender, Rest(p) PROVE Calm
  BY <1>a, <1>e DEF Rest, IdleAtt, Att
<1>f. {"charge", "write", "path", "enqueue", "undo", "sent"} \subseteq PC \ {"tx"}
  BY DEF PC
<1>1. ASSUME NEW p \in Sender, Send(p) \/ Refuse(p) \/ Breaks(p) PROVE AllowanceInv'
  <2>1. CASE BeginCharge(p) \/ CommitCharge(p)
    BY <2>1, ChargeKeeps
  <2>2. CASE InsertSent(p)
    BY <2>2, <1>b, <1>c, <1>f DEF InsertSent
  <2>3. CASE WriteFile(p)
    <3>1. Goto(p, "path") \/ Goto(p, "undo")
      BY <2>3 DEF WriteFile
    <3>2. QED BY <2>3, <3>1, <1>b, <1>c, <1>f DEF WriteFile
  <2>4. CASE WritePath(p)
    BY <2>4, <1>b, <1>c, <1>f DEF WritePath
  <2>5. CASE Enqueue(p)
    BY <2>5, <1>b, <1>d DEF Enqueue
  <2>6. CASE Undo(p)
    BY <2>6, <1>b, <1>d DEF Undo
  <2>7. CASE Refuse(p)
    BY <2>7, <1>b, <1>d DEF Refuse
  <2>8. CASE InsertPartly(p)
    BY <2>8, <1>b, <1>d DEF InsertPartly
  <2>9. CASE EnqueueUnknown(p)
    BY <2>9, <1>b, <1>c, <1>f DEF EnqueueUnknown
  <2>10. CASE Fails(p)
    <3>1. Goto(p, "undo") \/ Fail(p)
      BY <2>10 DEF Fails
    <3>2. QED BY <2>10, <3>1, <1>b, <1>c, <1>d, <1>f DEF Fails
  <2>11. CASE FailsQuietly(p)
    <3>1. Goto(p, "undo") \/ Fail(p) \/ Goto(p, "sent") \/ Rest(p)
      BY <2>11 DEF FailsQuietly
    <3>2. QED BY <2>11, <3>1, <1>b, <1>c, <1>d, <1>e, <1>f DEF FailsQuietly
  <2>12. CASE Interrupted(p)
    BY <2>12, <1>b, <1>e DEF Interrupted
  <2>13. QED
    BY <1>1, <2>1, <2>2, <2>3, <2>4, <2>5, <2>6, <2>7, <2>8, <2>9, <2>10, <2>11, <2>12
    DEF Send, Breaks
<1>2. ASSUME NEW w \in Worker, Work(w) PROVE AllowanceInv'
  <2>1. w \in Sender
    BY DEF Sender
  <2>2. CASE ListDue(w)
    BY <2>2, <1>b DEF ListDue
  <2>3. CASE Check(w)
    BY <2>1, <2>3, <1>b, <1>c, <1>f DEF Check
  <2>4. CASE DeleteDraft(w)
    BY <2>1, <2>4, <1>b, <1>c, <1>f DEF DeleteDraft
  <2>5. CASE MarkSent(w) \/ MarkFailed(w)
    BY <2>1, <2>5, <1>b, <1>e DEF MarkSent, MarkFailed
  <2>6. ASSUME NEW s \in Sched, Claim(w, s) PROVE AllowanceInv'
    <3>1. Calm
      BY <1>a, <2>6 DEF Claim, Att
    <3>2. QED BY <2>6, <3>1, <1>b DEF Claim
  <2>7. QED BY <1>2, <2>2, <2>3, <2>4, <2>5, <2>6 DEF Work
<1>3. ASSUME NEW d \in Direct, Compose(d) PROVE AllowanceInv'
  <2>1. d \in Sender
    BY DEF Sender
  <2>2. QED BY <1>3, <2>1, <1>b, <1>c, <1>f DEF Compose
<1>4. ASSUME NEW s \in Sched, \/ Schedule(s) \/ BecomesDue(s)
                              \/ CancelRead(s) \/ CancelWrite(s) \/ UserDeletesDraft(s)
                              \/ \E w \in Worker : ClaimFails(w, s)
      PROVE  AllowanceInv'
  <2>1. UNCHANGED <<att, charge>>
    BY <1>4 DEF Schedule, BecomesDue, CancelRead, CancelWrite, UserDeletesDraft, ClaimFails
  <2>2. QED BY <2>1, <1>b
<1>5. ASSUME NEW m \in Mail, UserDeletesSent(m) PROVE AllowanceInv'
  BY <1>5, <1>b DEF UserDeletesSent
<1>6. ASSUME NEW m \in Mail, ChargeAges(m) PROVE AllowanceInv'
  <2>1. InMinute' \subseteq InMinute /\ InDay' \subseteq InDay
    BY <1>6, <1>a DEF ChargeAges, InMinute, InDay
  <2>2. QED BY <1>6, <2>1, AllowanceKeeps DEF ChargeAges
<1>7. CASE UNCHANGED vars
  BY <1>7, <1>b DEF vars
<1>8. QED BY <1>1, <1>2, <1>3, <1>4, <1>5, <1>6, <1>7 DEF Next

\* Nothing is charged at the start.
LEMMA AllowanceInit == Init => AllowanceInv
<1> SUFFICES ASSUME Init PROVE AllowanceInv
  OBVIOUS
<1>1. UsedInMinute = 0 /\ UsedInDay = 0
  <2>1. {m \in Mail : charge[m] = "minute"} = {} /\ {m \in Mail : charge[m] \in {"minute", "day"}} = {}
    BY DEF Init
  <2>2. Recipients({}) = {}
    BY DEF Recipients
  <2>3. QED BY <2>1, <2>2, FS_EmptySet DEF UsedInMinute, UsedInDay
<1>2. \A p \in Sender : ~At(p, "tx")
  BY DEF Init, At, IdleAtt, Sender
<1>3. QED BY <1>1, <1>2, BoundsAssumption DEF BoundsAssumption, AllowanceInv, MinuteKept, DayKept

\* What senders count against the allowance holds until they have charged.
LEMMA AllowanceAlways == Spec => []AllowanceInv
BY AllowanceInit, AllowanceStep, TypeInit, TypeStep, PTL DEF Spec

\* The mails of all senders together never exceed the allowance of a minute,
\* for any number of workers and requests.
THEOREM SendPathMinuteKept == Spec => []MinuteKept
BY AllowanceAlways, PTL DEF AllowanceInv

\* Nor do their recipients exceed the allowance of a day.
THEOREM SendPathDayKept == Spec => []DayKept
BY AllowanceAlways, PTL DEF AllowanceInv

-----------------------------------------------------------------------------
(* The copy in Sent, and what the list of scheduled sends says *)

None(m) == m \notin sentRow /\ m \notin sentFile /\ m \notin sentPath
All(m)  == m \in sentRow /\ m \in sentFile /\ m \in sentPath

\* A mail that is done with: sent with its copy, or neither.
Resolved(m) == \/ All(m) /\ queued[m] = 1
               \/ None(m) /\ queued[m] = 0

\* What a sender has stored of its mail.
CopyPhase(p, m) ==
  /\ att[p].pc \in {"idle", "check", "charge", "tx", "insert", "failed"} => None(m)
  /\ att[p].pc = "write" => m \in sentRow /\ m \notin sentFile /\ m \notin sentPath
  /\ att[p].pc = "path" => m \in sentRow /\ m \in sentFile /\ m \notin sentPath
  /\ att[p].pc \in {"enqueue", "draft", "sent"} => All(m)
  /\ att[p].pc = "undo" => (m \in sentFile <=> m \in sentPath)
  /\ att[p].pc = "done" => Resolved(m)

\* Behind the queue it has an entry, on the way to a failure it has none.
QueuePhase(p, m) ==
  /\ att[p].pc \in {"undo", "failed"} => queued[m] = 0
  /\ att[p].pc \in {"draft", "sent"} => queued[m] = 1

SenderOK(p, m) ==
  /\ m \notin broken => QueuePhase(p, m)
  /\ m \notin broken \cup removed => CopyPhase(p, m)
  /\ m \in Sched => sched[m].status \in {"sending", "cancelled"}

ItemOK(s) ==
  /\ sched[s].status \in {"none", "pending"} => None(s)
  /\ s \notin broken => /\ sched[s].status = "sent" => queued[s] = 1
                        /\ sched[s].status = "failed" => queued[s] = 0
  /\ s \notin broken \cup removed /\ (\A w \in Worker : att[w].mail # s) => Resolved(s)

WorkInv ==
  /\ \A p \in Sender, m \in Mail : att[p].mail = m => SenderOK(p, m)
  /\ \A s \in Sched : ItemOK(s)

\* The copy of a mail and its entry stay as they are.
Same(m) ==
  /\ m \in sentRow' <=> m \in sentRow
  /\ m \in sentFile' <=> m \in sentFile
  /\ m \in sentPath' <=> m \in sentPath
  /\ queued'[m] = queued[m]

\* How a sender goes on.
LEMMA Endings ==
  ASSUME TypeOK, NEW p \in Sender
  PROVE  /\ \A pc : Goto(p, pc) => att'[p].pc = pc /\ att'[p].mail = att[p].mail
         /\ Fail(p) => att'[p].pc \in {"failed", "done"} /\ att'[p].mail = att[p].mail
         /\ Succeed(p) => att'[p].pc \in {"draft", "done"} /\ att'[p].mail = att[p].mail
         /\ Rest(p) => IF p \in Worker THEN att'[p] = IdleAtt
                                       ELSE att'[p].pc = "done" /\ att'[p].mail = att[p].mail
         /\ (\E pc : Goto(p, pc)) \/ Fail(p) \/ Succeed(p) \/ Rest(p) =>
              \A q \in Sender \ {p} : att'[q] = att[q]
<1>1. att \in [Sender -> Att] /\ att[p] \in Att
  BY DEF TypeOK, AttOK
<1>2. \A pc : Goto(p, pc) => /\ att'[p].pc = pc /\ att'[p].mail = att[p].mail
                             /\ \A q \in Sender \ {p} : att'[q] = att[q]
  BY <1>1 DEF Goto, Att
<1>3. Rest(p) => /\ IF p \in Worker THEN att'[p] = IdleAtt
                                    ELSE att'[p].pc = "done" /\ att'[p].mail = att[p].mail
                 /\ \A q \in Sender \ {p} : att'[q] = att[q]
  BY <1>1 DEF Rest, Att
<1>4. QED BY <1>2, <1>3 DEF Fail, Succeed

\* A step of one sender concerns its own mail only.
LEMMA SenderStep ==
  ASSUME TypeOK, MailInv, WorkInv, NEW p \in Sender, NEW m \in Mail, att[p].mail = m,
         \A q \in Sender \ {p} : att'[q] = att[q], att'[p].mail \in {m, NoMail},
         \A n \in Mail \ {m} : Same(n), broken \subseteq broken', removed' = removed,
         \A s \in Sched \ {m} : sched'[s].status = sched[s].status,
         att'[p].mail = m => SenderOK(p, m)', m \in Sched => ItemOK(m)'
  PROVE  WorkInv'
<1>a. NoMail \notin Mail /\ Sched \subseteq Mail /\ Worker \subseteq Sender
  BY ConstantsAssumption DEF ConstantsAssumption, Mail, Sender
<1>1. ASSUME NEW q \in Sender, NEW n \in Mail, att'[q].mail = n PROVE SenderOK(q, n)'
  <2>1. CASE q = p
    BY <1>a, <1>1, <2>1
  <2>2. CASE q # p
    <3>1. att'[q] = att[q] /\ n # m
      BY <1>a, <1>1, <2>2 DEF MailInv, OwnMail
    <3>2. SenderOK(q, n) /\ Same(n)
      BY <1>1, <3>1 DEF WorkInv
    <3>3. n \in Sched => sched'[n].status = sched[n].status
      BY <3>1
    <3>4. QED BY <3>1, <3>2, <3>3
              DEF SenderOK, QueuePhase, CopyPhase, None, All, Resolved, Same
  <2>3. QED BY <2>1, <2>2
<1>2. ASSUME NEW s \in Sched PROVE ItemOK(s)'
  <2>1. CASE s = m
    BY <2>1
  <2>2. CASE s # m
    <3>1. ItemOK(s) /\ Same(s) /\ sched'[s].status = sched[s].status
      BY <1>a, <2>2 DEF WorkInv
    <3>2. (\A w \in Worker : att'[w].mail # s) => \A w \in Worker : att[w].mail # s
      BY <1>a, <2>2
    <3>3. QED BY <3>1, <3>2 DEF ItemOK, None, All, Resolved, Same
  <2>3. QED BY <2>1, <2>2
<1>3. QED BY <1>1, <1>2 DEF WorkInv

\* As long as it holds its mail, the item of a scheduled one is out of question.
LEMMA GoesOn ==
  ASSUME TypeOK, MailInv, WorkInv, NEW p \in Sender, NEW m \in Mail, att[p].mail = m,
         \A q \in Sender \ {p} : att'[q] = att[q], att'[p].mail \in {m, NoMail},
         \A n \in Mail \ {m} : Same(n), broken \subseteq broken', removed' = removed,
         sched' = sched, att'[p].mail = m \/ m \in broken',
         m \notin broken' => QueuePhase(p, m)',
         m \notin broken' \cup removed => CopyPhase(p, m)'
  PROVE  WorkInv'
<1>1. SenderOK(p, m)
  BY DEF WorkInv
<1>2. SenderOK(p, m)'
  BY <1>1 DEF SenderOK
<1>3. ASSUME m \in Sched PROVE ItemOK(m)'
  <2>1. p \in Worker /\ sched'[m].status \in {"sending", "cancelled"}
    BY <1>1, <1>3, SchedIsHeldByWorker DEF SenderOK
  <2>2. QED BY <2>1 DEF ItemOK
<1>4. QED BY <1>2, <1>3, SenderStep

\* The steps of a sender.
LEMMA SendWorks ==
  ASSUME TypeOK, MailInv, WorkInv, NEW p \in Sender, Send(p) \/ Refuse(p)
  PROVE  WorkInv'
<1> USE DEF copy, history, At
<1> DEFINE pc == att[p].pc
<1>a. /\ pc # "idle" /\ att[p].mail \in Mail /\ att[p].mail # NoMail
      /\ sched' = sched /\ broken' = broken /\ removed' = removed
  <2>1. pc # "idle"
    BY DEF Send, Refuse, BeginCharge, CommitCharge, InsertSent, WriteFile, WritePath, Enqueue, Undo
  <2>2. sched' = sched /\ broken' = broken /\ removed' = removed
    BY DEF Send, Refuse, BeginCharge, CommitCharge, InsertSent, WriteFile, WritePath, Enqueue, Undo
  <2>3. NoMail \notin Mail
    BY ConstantsAssumption DEF ConstantsAssumption
  <2>4. QED BY <2>1, <2>2, <2>3, SenderMail
<1>b. PICK m \in Mail : m = att[p].mail
  BY <1>a
<1>c. /\ m \notin broken => QueuePhase(p, m)
      /\ m \notin broken \cup removed => CopyPhase(p, m)
      /\ pc \in Before => queued[m] = 0
  BY <1>a, <1>b DEF WorkInv, SenderOK, MailInv, UnsentBefore
<1>d. queued \in [Mail -> 0 .. 2]
  BY DEF TypeOK
<1>e. {"check", "charge", "tx", "insert", "write", "path", "enqueue"} \subseteq Before
  BY DEF Before
<1>1. att'[p].mail = m /\ \A q \in Sender \ {p} : att'[q] = att[q]
  BY <1>b, Endings
  DEF Send, Refuse, BeginCharge, CommitCharge, InsertSent, WriteFile, WritePath, Enqueue, Undo
<1>2. SUFFICES /\ \A n \in Mail \ {m} : Same(n)
               /\ m \notin broken => QueuePhase(p, m)'
               /\ m \notin broken \cup removed => CopyPhase(p, m)'
  BY <1>a, <1>b, <1>1, GoesOn
<1>3. CASE BeginCharge(p) \/ CommitCharge(p) \/ Refuse(p)
  <2>1. /\ UNCHANGED <<sentRow, sentFile, sentPath, queued>>
        /\ pc \in {"check", "charge", "tx", "insert"}
    BY <1>3 DEF BeginCharge, CommitCharge, Refuse
  <2>2. att'[p].pc \in {"tx", "insert", "failed", "done"}
    BY <1>3, Endings DEF BeginCharge, CommitCharge, Refuse
  <2>3. queued[m] = 0 /\ (m \notin broken \cup removed => None(m))
    BY <1>c, <1>e, <2>1 DEF CopyPhase
  <2>4. QED BY <2>1, <2>2, <2>3 DEF Same, QueuePhase, CopyPhase, None, All, Resolved
<1>4. CASE InsertSent(p)
  <2>1. att'[p].pc = "write" /\ pc = "insert"
    BY <1>4, Endings DEF InsertSent
  <2>2. sentRow' = sentRow \cup {m} /\ UNCHANGED <<sentFile, sentPath, queued>>
    BY <1>4, <1>b DEF InsertSent
  <2>3. QED BY <1>c, <2>1, <2>2 DEF Same, QueuePhase, CopyPhase, None
<1>5. CASE WriteFile(p)
  <2>0. pc = "write" /\ queued[m] = 0 /\ UNCHANGED <<sentRow, sentPath, queued>>
    BY <1>5, <1>c, <1>e DEF WriteFile
  <2>1. CASE m \in sentRow
    <3>1. att'[p].pc = "path" /\ sentFile' = sentFile \cup {m}
      BY <1>5, <1>b, <2>1, Endings DEF WriteFile
    <3>2. QED BY <1>c, <2>0, <2>1, <3>1 DEF Same, QueuePhase, CopyPhase
  <2>2. CASE m \notin sentRow
    <3>1. att'[p].pc = "undo" /\ sentFile' = sentFile
      BY <1>5, <1>b, <2>2, Endings DEF WriteFile
    <3>2. QED BY <1>c, <2>0, <2>2, <3>1 DEF Same, QueuePhase, CopyPhase
  <2>3. QED BY <2>1, <2>2
<1>6. CASE WritePath(p)
  <2>1. att'[p].pc = "enqueue" /\ pc = "path" /\ UNCHANGED <<sentRow, sentFile, queued>>
    BY <1>6, Endings DEF WritePath
  <2>2. sentPath' = IF m \in sentRow THEN sentPath \cup {m} ELSE sentPath
    BY <1>6, <1>b DEF WritePath
  <2>3. QED BY <1>c, <2>1, <2>2 DEF Same, QueuePhase, CopyPhase, All
<1>7. CASE Enqueue(p)
  <2>1. att'[p].pc \in {"draft", "done"} /\ pc = "enqueue" /\ UNCHANGED <<sentRow, sentFile, sentPath>>
    BY <1>7, Endings DEF Enqueue
  <2>2. queued[m] = 0
    BY <1>c, <1>e, <2>1
  <2>3. queued'[m] = 1 /\ \A n \in Mail \ {m} : queued'[n] = queued[n]
    BY <1>7, <1>b, <1>d, <2>2 DEF Enqueue, Entered
  <2>4. QED BY <1>c, <2>1, <2>3 DEF Same, QueuePhase, CopyPhase, All, Resolved
<1>8. CASE Undo(p)
  <2>1. att'[p].pc \in {"failed", "done"} /\ pc = "undo" /\ queued' = queued
    BY <1>8, Endings DEF Undo
  <2>2. /\ sentFile' = IF m \in sentPath THEN sentFile \ {m} ELSE sentFile
        /\ sentRow' = sentRow \ {m} /\ sentPath' = sentPath \ {m}
    BY <1>8, <1>b DEF Undo, Deleted
  <2>3. /\ m \notin broken => queued'[m] = 0
        /\ m \notin broken \cup removed => None(m)'
    BY <1>c, <2>1, <2>2 DEF QueuePhase, CopyPhase, None
  <2>4. \A n \in Mail \ {m} : Same(n)
    BY <2>1, <2>2 DEF Same
  <2>5. QED BY <2>1, <2>3, <2>4 DEF QueuePhase, CopyPhase, Resolved
<1>9. QED BY <1>3, <1>4, <1>5, <1>6, <1>7, <1>8 DEF Send

\* Failing statements and interruptions.
LEMMA BreaksWork ==
  ASSUME TypeOK, MailInv, WorkInv, NEW p \in Sender, Breaks(p)
  PROVE  WorkInv'
<1> USE DEF copy, history, At
<1> DEFINE pc == att[p].pc
<1>a. /\ pc # "idle" /\ att[p].mail \in Mail /\ att[p].mail # NoMail
      /\ sched' = sched /\ broken \subseteq broken' /\ removed' = removed
  <2>1. pc # "idle"
    BY DEF Breaks, InsertPartly, EnqueueUnknown, Fails, FailsQuietly, Interrupted
  <2>2. sched' = sched /\ broken \subseteq broken' /\ removed' = removed
    BY DEF Breaks, InsertPartly, EnqueueUnknown, Fails, FailsQuietly, Interrupted, Break
  <2>3. NoMail \notin Mail
    BY ConstantsAssumption DEF ConstantsAssumption
  <2>4. QED BY <2>1, <2>2, <2>3, SenderMail
<1>b. PICK m \in Mail : m = att[p].mail
  BY <1>a
<1>1. ASSUME m \in broken', att'[p].mail \in {m, NoMail},
             \A q \in Sender \ {p} : att'[q] = att[q], \A n \in Mail \ {m} : Same(n)
      PROVE  WorkInv'
  BY <1>1, <1>a, <1>b, GoesOn
<1>2. CASE InsertPartly(p)
  <2>1. m \in broken' /\ att'[p].mail = m /\ \A q \in Sender \ {p} : att'[q] = att[q]
    BY <1>2, <1>b, Endings DEF InsertPartly, Break
  <2>2. \A n \in Mail \ {m} : Same(n)
    BY <1>2, <1>b DEF InsertPartly, Same
  <2>3. QED BY <1>1, <2>1, <2>2
<1>3. CASE EnqueueUnknown(p)
  <2>1. m \in broken' /\ att'[p].mail = m /\ \A q \in Sender \ {p} : att'[q] = att[q]
    BY <1>3, <1>b, Endings DEF EnqueueUnknown, Break
  <2>2. \A n \in Mail \ {m} : Same(n)
    BY <1>3, <1>b DEF EnqueueUnknown, Entered, Same, TypeOK
  <2>3. QED BY <1>1, <2>1, <2>2
<1>4. CASE FailsQuietly(p)
  <2>1. (\E x : Goto(p, x)) \/ Fail(p) \/ Rest(p)
    BY <1>4 DEF FailsQuietly
  <2>2. m \in broken' /\ \A n \in Mail : Same(n)
    BY <1>4, <1>b DEF FailsQuietly, Break, Same
  <2>3. att'[p].mail \in {m, NoMail} /\ \A q \in Sender \ {p} : att'[q] = att[q]
    BY <1>b, <2>1, Endings DEF IdleAtt
  <2>4. QED BY <1>1, <2>2, <2>3
<1>5. CASE Interrupted(p)
  <2>1. m \in broken' /\ \A n \in Mail : Same(n)
    BY <1>5, <1>b DEF Interrupted, Break, Same
  <2>2. att'[p].mail \in {m, NoMail} /\ \A q \in Sender \ {p} : att'[q] = att[q]
    BY <1>5, <1>b, Endings DEF Interrupted, IdleAtt
  <2>3. QED BY <1>1, <2>1, <2>2
<1>6. CASE Fails(p)
  <2>a. /\ m \notin broken => QueuePhase(p, m)
        /\ m \notin broken \cup removed => CopyPhase(p, m)
        /\ queued[m] = 0
    BY <1>6, <1>a, <1>b DEF WorkInv, SenderOK, MailInv, UnsentBefore, Before, Fails
  <2>1. UNCHANGED <<sentRow, sentFile, sentPath, queued, broken>>
    BY <1>6 DEF Fails
  <2>2. att'[p].mail = m /\ \A q \in Sender \ {p} : att'[q] = att[q]
    BY <1>6, <1>b, Endings DEF Fails
  <2>3. CASE pc \in {"write", "enqueue"}
    <3>1. att'[p].pc = "undo"
      BY <1>6, <2>3, Endings DEF Fails
    <3>2. QueuePhase(p, m)' /\ (m \notin broken \cup removed => CopyPhase(p, m)')
      BY <2>a, <2>1, <2>3, <3>1 DEF QueuePhase, CopyPhase, All
    <3>3. QED BY <1>a, <1>b, <2>1, <2>2, <3>2, GoesOn DEF Same
  <2>4. CASE pc \in {"check", "charge", "tx", "insert"}
    <3>1. att'[p].pc \in {"failed", "done"}
      BY <1>6, <2>4, Endings DEF Fails
    <3>2. QueuePhase(p, m)' /\ (m \notin broken \cup removed => CopyPhase(p, m)')
      BY <2>a, <2>1, <2>4, <3>1 DEF QueuePhase, CopyPhase, None, Resolved
    <3>3. QED BY <1>a, <1>b, <2>1, <2>2, <3>2, GoesOn DEF Same
  <2>5. QED BY <1>6, <2>3, <2>4 DEF Fails
<1>7. QED BY <1>2, <1>3, <1>4, <1>5, <1>6 DEF Breaks

\* Steps of nobody who holds a mail.
LEMMA ItemStep ==
  ASSUME TypeOK, MailInv, WorkInv, att' = att, queued' = queued, broken \subseteq broken',
         removed \subseteq removed',
         \A m \in Mail : (None(m) => None(m)') /\ (Same(m) \/ m \in removed'),
         \A s \in Sched : \/ sched'[s].status = sched[s].status
                          \/ sched'[s].status = "cancelled"
                          \/ sched[s].status = "none" /\ sched'[s].status = "pending"
                          \/ /\ sched[s].status = "pending" /\ sched'[s].status = "sending"
                             /\ s \in broken'
  PROVE  WorkInv'
<1>a. Sched \subseteq Mail
  BY DEF Mail
<1>1. ASSUME NEW p \in Sender, NEW m \in Mail, att[p].mail = m PROVE SenderOK(p, m)'
  <2>1. SenderOK(p, m)
    BY <1>1 DEF WorkInv
  <2>2. m \notin broken' => QueuePhase(p, m)'
    BY <2>1 DEF SenderOK, QueuePhase
  <2>3. ASSUME m \notin broken' \cup removed' PROVE CopyPhase(p, m)'
    <3>1. CopyPhase(p, m) /\ Same(m)
      BY <2>1, <2>3 DEF SenderOK
    <3>2. QED BY <3>1 DEF CopyPhase, Same, None, All, Resolved
  <2>4. m \in Sched => sched'[m].status \in {"sending", "cancelled"}
    BY <2>1 DEF SenderOK
  <2>5. QED BY <2>2, <2>3, <2>4 DEF SenderOK
<1>2. ASSUME NEW s \in Sched PROVE ItemOK(s)'
  <2>1. ItemOK(s) /\ (None(s) => None(s)') /\ (Same(s) \/ s \in removed')
    BY <1>a DEF WorkInv
  <2>2. sched'[s].status \in {"none", "pending"} => None(s)'
    BY <2>1 DEF ItemOK
  <2>3. ASSUME s \notin broken'
        PROVE  /\ sched'[s].status = "sent" => queued[s] = 1
               /\ sched'[s].status = "failed" => queued[s] = 0
    BY <2>1, <2>3 DEF ItemOK
  <2>4. ASSUME s \notin broken' \cup removed', \A w \in Worker : att[w].mail # s
        PROVE  Resolved(s)'
    BY <2>1, <2>4 DEF ItemOK, Resolved, Same, None, All
  <2>5. QED BY <2>2, <2>3, <2>4 DEF ItemOK
<1>3. QED BY <1>1, <1>2 DEF WorkInv

\* The steps of the scheduled-send worker.
LEMMA WorkerWorks ==
  ASSUME TypeOK, MailInv, WorkInv, NEW w \in Worker, Work(w)
  PROVE  WorkInv'
<1> USE DEF copy, history, At
<1>a. w \in Sender /\ NoMail \notin Mail /\ Sched \subseteq Mail
  BY ConstantsAssumption DEF ConstantsAssumption, Sender, Mail
<1>b. att \in [Sender -> Att] /\ sched \in [Sched -> Row]
  BY DEF TypeOK, AttOK
<1>c. att[w].pc # "idle" => att[w].mail \in Sched
  BY <1>a, SenderKinds
<1>0. Work(w) => /\ UNCHANGED <<sentRow, sentFile, sentPath, queued, broken, removed>>
                 /\ \A n \in Mail : Same(n)
  BY DEF Work, ListDue, Check, DeleteDraft, MarkSent, MarkFailed, Claim, Same
<1>1. CASE ListDue(w)
  <2>1. att' = att /\ sched' = sched
    BY <1>1 DEF ListDue
  <2>2. \A m \in Mail : None(m) => None(m)'
    BY <1>0 DEF None
  <2>3. QED BY <1>0, <2>1, <2>2, ItemStep
<1>2. CASE Check(w) \/ DeleteDraft(w)
  <2>1. PICK m \in Sched : m = att[w].mail
    BY <1>2, <1>c DEF Check, DeleteDraft
  <2>2. \/ att[w].pc = "check" /\ att'[w].pc = "charge"
        \/ att[w].pc = "draft" /\ att'[w].pc = "sent"
    <3>1. CASE Check(w)
      BY <3>1, <1>a, Endings DEF Check
    <3>2. CASE DeleteDraft(w)
      BY <3>2, <1>a, Endings DEF DeleteDraft
    <3>3. QED BY <1>2, <3>1, <3>2
  <2>3. att'[w].mail = m /\ sched' = sched /\ \A q \in Sender \ {w} : att'[q] = att[q]
    BY <1>2, <1>a, <2>1, Endings DEF Check, DeleteDraft
  <2>4. SenderOK(w, m)
    BY <1>a, <2>1 DEF WorkInv
  <2>5. /\ m \notin broken => QueuePhase(w, m)'
        /\ m \notin broken \cup removed => CopyPhase(w, m)'
    BY <1>0, <2>2, <2>4 DEF SenderOK, QueuePhase, CopyPhase, None, All
  <2>6. QED BY <1>0, <1>a, <2>1, <2>3, <2>5, GoesOn
<1>3. CASE MarkSent(w) \/ MarkFailed(w)
  <2>1. PICK m \in Sched : m = att[w].mail
    BY <1>3, <1>c DEF MarkSent, MarkFailed
  <2>2. \/ att[w].pc = "sent" /\ SetStatus(m, "sent")
        \/ att[w].pc = "failed" /\ SetStatus(m, "failed")
    BY <1>3, <2>1 DEF MarkSent, MarkFailed
  <2>3. att'[w].mail = NoMail /\ \A q \in Sender \ {w} : att'[q] = att[q]
    BY <1>3, <1>a, Endings DEF MarkSent, MarkFailed, IdleAtt
  <2>4. \/ att[w].pc = "sent" /\ sched'[m].status = "sent"
        \/ att[w].pc = "failed" /\ sched'[m].status = "failed"
    BY <1>b, <2>2 DEF SetStatus, Row
  <2>5. \A s \in Sched \ {m} : sched'[s].status = sched[s].status
    BY <1>b, <2>2 DEF SetStatus
  <2>6. SenderOK(w, m)
    BY <1>a, <2>1 DEF WorkInv
  <2>7. ItemOK(m)'
    BY <1>0, <2>4, <2>6 DEF SenderOK, QueuePhase, CopyPhase, ItemOK, Resolved, None, All
  <2>8. m \in Mail /\ att'[w].mail # m
    BY <1>a, <2>3
  <2>9. QED BY <1>0, <1>a, <2>1, <2>3, <2>5, <2>7, <2>8, SenderStep
<1>4. ASSUME NEW s \in Sched, Claim(w, s) PROVE WorkInv'
  <2>1. CASE sched[s].status # "pending"
    <3>1. att' = att /\ sched' = sched
      BY <1>4, <2>1 DEF Claim
    <3>2. \A m \in Mail : None(m) => None(m)'
      BY <1>0, <1>4 DEF None, Work
    <3>3. QED BY <1>0, <3>1, <3>2, ItemStep
  <2>2. CASE sched[s].status = "pending"
    <3>1. att' = [att EXCEPT ![w] = [pc |-> "check", mail |-> s]] /\ SetStatus(s, "sending")
      BY <1>4, <2>2 DEF Claim
    <3>2. att'[w].pc = "check" /\ att'[w].mail = s /\ \A q \in Sender \ {w} : att'[q] = att[q]
      BY <1>a, <1>b, <3>1
    <3>3. /\ sched'[s].status = "sending"
          /\ \A t \in Sched \ {s} : sched'[t].status = sched[t].status
      BY <1>b, <3>1 DEF SetStatus, Row
    <3>4. None(s) /\ \A q \in Sender : att[q].mail # s
      <4>1. \A v \in Worker : att[v].mail # s
        BY <2>2 DEF MailInv, PendingUntouched, Untouched
      <4>2. QED BY <2>2, <4>1, SchedIsHeldByWorker DEF WorkInv, ItemOK
    <3>5. ASSUME NEW q \in Sender, NEW n \in Mail, att'[q].mail = n PROVE SenderOK(q, n)'
      <4>1. CASE q = w
        BY <1>0, <3>2, <3>3, <3>4, <3>5, <4>1 DEF SenderOK, QueuePhase, CopyPhase, None
      <4>2. CASE q # w
        <5>1. att'[q] = att[q] /\ n # s /\ SenderOK(q, n)
          BY <3>2, <3>4, <3>5, <4>2 DEF WorkInv
        <5>2. n \in Sched => sched'[n].status = sched[n].status
          BY <3>3, <5>1
        <5>3. QED BY <1>0, <5>1, <5>2 DEF SenderOK, QueuePhase, CopyPhase, None, All, Resolved
      <4>3. QED BY <4>1, <4>2
    <3>6. ASSUME NEW t \in Sched PROVE ItemOK(t)'
      <4>1. CASE t = s
        BY <3>2, <3>3, <4>1 DEF ItemOK
      <4>2. CASE t # s
        <5>1. ItemOK(t) /\ sched'[t].status = sched[t].status
          BY <3>3, <4>2 DEF WorkInv
        <5>2. (\A v \in Worker : att'[v].mail # t) => \A v \in Worker : att[v].mail # t
          BY <1>a, <1>4, <3>2 DEF Claim, Sender, SenderKinds, TypeOK, AttOK
        <5>3. QED BY <1>0, <5>1, <5>2 DEF ItemOK, None, All, Resolved
      <4>3. QED BY <4>1, <4>2
    <3>7. QED BY <3>5, <3>6 DEF WorkInv
  <2>3. QED BY <2>1, <2>2
<1>5. QED BY <1>1, <1>2, <1>3, <1>4 DEF Work

LEMMA WorkInvStep == TypeOK /\ MailInv /\ WorkInv /\ [Next]_vars => WorkInv'
<1> SUFFICES ASSUME TypeOK, MailInv, WorkInv, [Next]_vars PROVE WorkInv'
  OBVIOUS
<1> USE DEF copy, history
<1>a. sched \in [Sched -> Row]
  BY DEF TypeOK
<1>1. ASSUME NEW d \in Direct, Compose(d) PROVE WorkInv'
  <2>1. d \in Sender /\ d \in Mail /\ att[d].mail = d
    BY SenderKinds DEF Sender, Mail
  <2>2. att'[d].pc = "charge" /\ att'[d].mail = d /\ \A q \in Sender \ {d} : att'[q] = att[q]
    BY <1>1, <2>1, Endings DEF Compose
  <2>3. UNCHANGED <<sched, sentRow, sentFile, sentPath, queued, broken, removed>>
    BY <1>1 DEF Compose
  <2>4. SenderOK(d, d) /\ att[d].pc = "idle"
    BY <1>1, <2>1 DEF WorkInv, Compose, At
  <2>5. QueuePhase(d, d)' /\ (d \notin broken \cup removed => CopyPhase(d, d)')
    BY <2>2, <2>3, <2>4 DEF SenderOK, QueuePhase, CopyPhase, None
  <2>6. QED BY <2>1, <2>2, <2>3, <2>5, GoesOn DEF Same
<1>2. ASSUME UNCHANGED <<att, queued, sentRow, sentFile, sentPath, removed>>,
             broken \subseteq broken',
             \A s \in Sched : \/ sched'[s].status = sched[s].status
                              \/ sched'[s].status = "cancelled"
                              \/ sched[s].status = "none" /\ sched'[s].status = "pending"
                              \/ /\ sched[s].status = "pending" /\ sched'[s].status = "sending"
                                 /\ s \in broken'
      PROVE  WorkInv'
  <2>1. \A m \in Mail : (None(m) => None(m)') /\ Same(m)
    BY <1>2 DEF None, Same
  <2>2. QED BY <1>2, <2>1, ItemStep
<1>3. ASSUME NEW s \in Sched, \/ Schedule(s) \/ BecomesDue(s) \/ CancelRead(s) \/ CancelWrite(s)
                              \/ UserDeletesDraft(s)
      PROVE  WorkInv'
  <2>1. UNCHANGED <<att, queued, sentRow, sentFile, sentPath, removed, broken>>
    BY <1>3 DEF Schedule, BecomesDue, CancelRead, CancelWrite, UserDeletesDraft
  <2>2. \A t \in Sched : \/ sched'[t].status = sched[t].status
                         \/ sched'[t].status = "cancelled"
                         \/ sched[t].status = "none" /\ sched'[t].status = "pending"
    BY <1>3, <1>a DEF Schedule, BecomesDue, CancelRead, CancelWrite, UserDeletesDraft, SetStatus, Row
  <2>3. QED BY <1>2, <2>1, <2>2
<1>4. ASSUME NEW s \in Sched, NEW w \in Worker, ClaimFails(w, s) PROVE WorkInv'
  <2>1. UNCHANGED <<att, queued, sentRow, sentFile, sentPath, removed>> /\ broken \subseteq broken'
    BY <1>4 DEF ClaimFails
  <2>2. \A t \in Sched : \/ sched'[t].status = sched[t].status
                         \/ /\ sched[t].status = "pending" /\ sched'[t].status = "sending"
                            /\ t \in broken'
    BY <1>4, <1>a DEF ClaimFails, SetStatus, Row
  <2>3. QED BY <1>2, <2>1, <2>2
<1>5. ASSUME NEW m \in Mail, UserDeletesSent(m) PROVE WorkInv'
  <2>1. /\ att' = att /\ queued' = queued /\ broken' = broken /\ sched' = sched
        /\ removed' = removed \cup {m}
        /\ sentFile' = IF m \in sentPath THEN sentFile \ {m} ELSE sentFile
        /\ sentRow' = sentRow \ {m} /\ sentPath' = sentPath \ {m}
    BY <1>5 DEF UserDeletesSent, Deleted
  <2>2. \A n \in Mail : (None(n) => None(n)') /\ (Same(n) \/ n \in removed')
    BY <2>1 DEF None, Same
  <2>3. QED BY <2>1, <2>2, ItemStep
<1>6. ASSUME NEW m \in Mail, ChargeAges(m) PROVE WorkInv'
  BY <1>6, <1>2 DEF ChargeAges
<1>7. CASE UNCHANGED vars
  BY <1>7, <1>2 DEF vars
<1>8. QED
  BY <1>1, <1>3, <1>4, <1>5, <1>6, <1>7, SendWorks, BreaksWork, WorkerWorks DEF Next

LEMMA WorkInvInit == Init => WorkInv
<1> SUFFICES ASSUME Init PROVE WorkInv
  OBVIOUS
<1>1. \A p \in Sender : att[p].pc = "idle"
  BY DEF Init, IdleAtt
<1>2. \A m \in Mail : None(m) /\ Resolved(m)
  BY DEF Init, None, Resolved
<1>3. \A p \in Sender, m \in Mail : att[p].mail = m => m \notin Sched
  <2>1. \A w \in Worker : att[w].mail = NoMail
    BY DEF Init, IdleAtt, Sender
  <2>2. QED BY <2>1, TypeInit, SchedIsHeldByWorker, ConstantsAssumption DEF ConstantsAssumption
<1>4. \A s \in Sched : s \in Mail /\ sched[s].status = "none"
  BY DEF Init, Mail
<1>5. QED BY <1>1, <1>2, <1>3, <1>4 DEF WorkInv, SenderOK, QueuePhase, CopyPhase, ItemOK

LEMMA WorkAlways == Spec => [](TypeOK /\ MailInv /\ WorkInv)
BY WorkInvInit, WorkInvStep, MailInit, MailStep, TypeInit, TypeStep, PTL DEF Spec

\* Of a mail nobody is at work on, sender and user uninterfered with, there is a
\* complete copy in Sent if it is in the send queue, and no trace otherwise.
THEOREM SendPathCopies == Spec => []SentMatchesQueue
<1>1. TypeOK /\ MailInv /\ WorkInv => SentMatchesQueue
  <2> SUFFICES ASSUME TypeOK, MailInv, WorkInv, NEW m \in Mail \ (broken \cup removed), Quiet(m)
               PROVE  Resolved(m)
    BY DEF SentMatchesQueue, Resolved, None, All
  <2>1. CASE m \in Sched
    <3>1. \A w \in Worker : att[w].mail # m
      BY ConstantsAssumption
      DEF ConstantsAssumption, Quiet, TypeOK, AttOK, Sender
    <3>2. QED BY <2>1, <3>1 DEF WorkInv, ItemOK
  <2>2. CASE m \in Direct
    <3>1. m \in Sender /\ att[m].mail = m /\ att[m].pc \in {"idle", "done"}
      BY <2>2, SenderKinds DEF Sender, Quiet
    <3>2. CopyPhase(m, m)
      BY <3>1 DEF WorkInv, SenderOK
    <3>3. att[m].pc = "idle" => queued[m] = 0
      <4>1. m # NoMail
        BY ConstantsAssumption DEF ConstantsAssumption
      <4>2. QED BY <3>1, <4>1 DEF MailInv, UnsentBefore, Before
    <3>4. QED BY <3>1, <3>2, <3>3 DEF CopyPhase, Resolved
  <2>3. m \in Sched \/ m \in Direct
    BY DEF Mail
  <2>4. QED BY <2>1, <2>2, <2>3
<1>2. QED BY <1>1, WorkAlways, PTL

\* The status of a scheduled send tells what became of it.
THEOREM SendPathStatus == Spec => []StatusTellsOutcome
<1>1. TypeOK /\ MailInv /\ WorkInv => StatusTellsOutcome
  BY DEF MailInv, DraftGoesWithMail, WorkInv, ItemOK, StatusTellsOutcome
<1>2. QED BY <1>1, WorkAlways, PTL
=============================================================================
