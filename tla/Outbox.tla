------------------------------- MODULE Outbox -------------------------------
(***************************************************************************)
(* The two outboxes: status events that go to the webhook of the operator, *)
(* and notifications that mail rules send to the Telegram chat of a user.  *)
(* Both are rows that a worker of each API process claims under a lease,   *)
(* sends and marks.  Rows of the second kind also depend on the settings   *)
(* of the user, who may change or delete them at any time.  Rows go with   *)
(* their mailbox or user too, whoever is at work on them.                  *)
(*                                                                         *)
(* A worker makes one attempt at a time, so it serves as its lease token.  *)
(***************************************************************************)
EXTENDS Naturals, FiniteSets

CONSTANTS
  Hook,          \* status events
  Note,          \* notifications of one user
  HookWorker,    \* statusWebhookWorker, one per process
  NoteWorker,    \* telegramNotificationWorker, one per process
  MaxTries,      \* statusWebhookMaxAttempts, telegramNotificationMaxAttempts
  NoOne,         \* no lease token, no row
  MaxSaves,      \* bound: changes of the settings
  OutboxRetries,    \* bound: retries by an administrator
  OutboxFaults   \* bound: interruptions, lost replies, overrun leases

Event == Hook \cup Note
Sender == HookWorker \cup NoteWorker

ASSUME OutboxAssumption ==
  /\ MaxTries \in Nat \ {0}
  /\ {MaxSaves, OutboxRetries, OutboxFaults} \subseteq Nat
  /\ Hook \cap Note = {} /\ HookWorker \cap NoteWorker = {}
  /\ NoOne \notin Event \cup Sender

VARIABLES
  out,        \* the rows of status_webhook_outbox and telegram_notification_outbox
  ruleRun,    \* enqueueTelegramNotification between its check and its INSERT
  settings,   \* the row of telegram_notification_settings
  todo,       \* the ids a tick has listed and not yet claimed
  try,        \* the attempt of each worker
  taken,      \* history: how often the receiver took each event (0, 1, 2+)
  requests,   \* history: requests made since the event was last re-armed
  unproven,   \* history: events whose acceptance was not or may not be recorded
  used        \* the bounds used up

outboxVars == <<out, ruleRun, settings, todo, try, taken, requests, unproven, used>>

-----------------------------------------------------------------------------
(* Types *)

\* "gone" is a row that was pruned, canceled or deleted with the settings,
\* "removed" one that went with its mailbox or its user.
OutStatus == {"none", "pending", "delivered", "gone", "removed"}
\* holder: lease_token; leased: lease_until > now; due: next_attempt_at <= now.
OutRow == [status : OutStatus, tries : 0 .. MaxTries, holder : Sender \cup {NoOne},
           leased : BOOLEAN, due : BOOLEAN]
Try == [pc : {"idle", "settings", "send", "mark", "fail", "drop"}, event : Event \cup {NoOne}]
NoTry == [pc |-> "idle", event |-> NoOne]

OutboxTypeOK ==
  /\ out \in [Event -> OutRow]
  /\ ruleRun \in [Note -> {"idle", "checked", "done"}]
  /\ settings \in {"none", "off", "on", "gone"}   \* "gone": with the user
  /\ todo \in [Sender -> SUBSET Event]
  /\ try \in [Sender -> Try]
  /\ \A w \in Sender : (try[w].pc = "idle") <=> (try[w].event = NoOne)
  /\ taken \in [Event -> 0 .. 2]
  /\ requests \in [Event -> Nat]
  /\ unproven \subseteq Event
  /\ used \in [saves : 0 .. MaxSaves, retries : 0 .. OutboxRetries, faults : 0 .. OutboxFaults]

-----------------------------------------------------------------------------
(* Helpers *)

Kind(w) == IF w \in HookWorker THEN Hook ELSE Note
NewOut == [status |-> "pending", tries |-> 0, holder |-> NoOne, leased |-> FALSE, due |-> TRUE]
GoneOut == [status |-> "gone", tries |-> 0, holder |-> NoOne, leased |-> FALSE, due |-> FALSE]
RemovedOut == [GoneOut EXCEPT !.status = "removed"]

Pending(e) == out[e].status = "pending"
Free(e) == Pending(e) /\ ~out[e].leased
Holds(w) == try[w].event # NoOne /\ Pending(try[w].event) /\ out[try[w].event].holder = w

\* Mutant: the claim does not look at the lease.
TakeableAnyLease(e) == Pending(e) /\ out[e].due /\ out[e].tries < MaxTries
\* Mutant: the claim does not look at the attempts made.
TakeableForever(e) == Free(e) /\ out[e].due
\* Mutant: a claim waits for the row to be given back.
TakeableWhenReturned(e) == Free(e) /\ out[e].holder = NoOne /\ out[e].due /\ out[e].tries < MaxTries
Takeable(e) == Free(e) /\ out[e].due /\ out[e].tries < MaxTries

\* What an outcome leaves of the lease.
Freed(row) == [row EXCEPT !.holder = NoOne, !.leased = FALSE]

Spend(bound, limit) == used[bound] < limit /\ used' = [used EXCEPT ![bound] = @ + 1]
SpendFault == Spend("faults", OutboxFaults)
Step(w, pc) == try' = [try EXCEPT ![w].pc = pc]
Finish(w) == try' = [try EXCEPT ![w] = NoTry]
Forget(w) == Finish(w) /\ todo' = [todo EXCEPT ![w] = {}]

-----------------------------------------------------------------------------
(* Events arise *)

\* With the audit row, or the delivery event, in one transaction.
EnqueueHook(e) ==
  /\ e \in Hook /\ out[e].status = "none"
  /\ out' = [out EXCEPT ![e] = NewOut]
  /\ UNCHANGED <<ruleRun, settings, todo, try, taken, requests, unproven, used>>

\* telegramConfiguredForUser
CheckConfigured(e) ==
  /\ e \in Note /\ ruleRun[e] = "idle"
  /\ ruleRun' = [ruleRun EXCEPT ![e] = IF settings = "on" THEN "checked" ELSE "done"]
  /\ UNCHANGED <<out, settings, todo, try, taken, requests, unproven, used>>

\* The row refers to the user: without one the INSERT fails.
EnqueueNote(e) ==
  /\ e \in Note /\ ruleRun[e] = "checked"
  /\ ruleRun' = [ruleRun EXCEPT ![e] = "done"]
  /\ out' = IF settings = "gone" THEN out ELSE [out EXCEPT ![e] = NewOut]
  /\ UNCHANGED <<settings, todo, try, taken, requests, unproven, used>>

-----------------------------------------------------------------------------
(* The tick of a worker *)

ListOutbox(w) ==
  /\ try[w].pc = "idle" /\ todo[w] = {}
  /\ \E e \in Kind(w) : Takeable(e)
  /\ todo' = [todo EXCEPT ![w] = {e \in Kind(w) : Takeable(e)}]
  /\ UNCHANGED <<out, ruleRun, settings, try, taken, requests, unproven, used>>

ClaimOut(w, e) ==
  /\ try[w].pc = "idle" /\ e \in todo[w]
  /\ todo' = [todo EXCEPT ![w] = @ \ {e}]
  /\ IF Takeable(e)
     THEN /\ out' = [out EXCEPT ![e].tries = @ + 1, ![e].holder = w, ![e].leased = TRUE]
          /\ try' = [try EXCEPT ![w] = [pc |-> IF w \in NoteWorker THEN "settings" ELSE "send",
                                        event |-> e]]
     ELSE UNCHANGED <<out, try>>
  /\ UNCHANGED <<ruleRun, settings, taken, requests, unproven, used>>

\* A notification without enabled settings is deleted, not sent.
ReadSettings(w) ==
  /\ try[w].pc = "settings"
  /\ IF settings = "on"
     THEN Step(w, "send") /\ UNCHANGED out
     ELSE /\ Finish(w)
          /\ out' = IF Holds(w) THEN [out EXCEPT ![try[w].event] = GoneOut] ELSE out
  /\ UNCHANGED <<ruleRun, settings, todo, taken, requests, unproven, used>>

\* The request: taken, refused for now, refused for good (Telegram only), or
\* taken with a reply that does not arrive.
SendRequest(w, outcome) ==
  LET e == try[w].event IN
  /\ try[w].pc = "send"
  /\ outcome = "drop" => w \in NoteWorker
  /\ requests' = [requests EXCEPT ![e] = @ + 1]
  /\ Step(w, IF outcome = "lost" THEN "fail" ELSE outcome)
  /\ taken' = IF outcome \in {"mark", "lost"} /\ taken[e] < 2 THEN [taken EXCEPT ![e] = @ + 1] ELSE taken
  /\ IF outcome = "lost"
     THEN SpendFault /\ unproven' = unproven \cup {e}
     ELSE UNCHANGED <<used, unproven>>
  /\ UNCHANGED <<out, ruleRun, settings, todo>>

MarkOut(w) ==
  /\ try[w].pc = "mark"
  /\ out' = IF Holds(w) THEN [out EXCEPT ![try[w].event] = [Freed(@) EXCEPT !.status = "delivered"]]
                        ELSE out
  /\ Finish(w)
  /\ UNCHANGED <<ruleRun, settings, todo, taken, requests, unproven, used>>

\* A failure sets the delay; one for good uses up the attempts.
FailedOut(row, pc) == [Freed(row) EXCEPT !.due = FALSE, !.tries = IF pc = "drop" THEN MaxTries ELSE @]
FailOut(w) ==
  /\ try[w].pc \in {"fail", "drop"}
  /\ out' = IF Holds(w) THEN [out EXCEPT ![try[w].event] = FailedOut(@, try[w].pc)] ELSE out
  /\ Finish(w)
  /\ UNCHANGED <<ruleRun, settings, todo, taken, requests, unproven, used>>

\* Its UPDATE fails.  The webhook worker goes on to the next event; the other
\* one calls RowsAffected of a nil result, and the process ends.
OutcomeFails(w) ==
  /\ try[w].pc \in {"mark", "fail", "drop"} /\ SpendFault
  /\ unproven' = IF try[w].pc = "mark" THEN unproven \cup {try[w].event} ELSE unproven
  /\ IF w \in NoteWorker THEN Forget(w) ELSE Finish(w) /\ UNCHANGED todo
  /\ UNCHANGED <<out, ruleRun, settings, taken, requests>>

\* The process stops, or a SELECT after the claim fails and ends the tick.
StopWorker(w) ==
  /\ try[w].pc # "idle" \/ todo[w] # {}
  /\ SpendFault
  /\ unproven' = IF try[w].pc = "mark" THEN unproven \cup {try[w].event} ELSE unproven
  /\ Forget(w)
  /\ UNCHANGED <<out, ruleRun, settings, taken, requests>>

-----------------------------------------------------------------------------
(* The user and the administrator *)

WithoutPendingNotes == [e \in Event |-> IF e \in Note /\ Pending(e) THEN GoneOut ELSE out[e]]

SaveSettings(value) ==
  /\ settings # "gone" /\ Spend("saves", MaxSaves)
  /\ settings' = value
  /\ out' = WithoutPendingNotes
  /\ UNCHANGED <<ruleRun, todo, try, taken, requests, unproven>>

DeleteSettings ==
  /\ settings \notin {"none", "gone"}
  /\ settings' = "none"
  /\ out' = WithoutPendingNotes
  /\ UNCHANGED <<ruleRun, todo, try, taken, requests, unproven, used>>

RearmedOut(row) == [Freed(row) EXCEPT !.tries = 0, !.due = TRUE]
RetryOut(e) ==
  /\ Free(e) /\ out[e].tries >= MaxTries
  /\ Spend("retries", OutboxRetries)
  /\ out' = [out EXCEPT ![e] = RearmedOut(@)]
  /\ requests' = [requests EXCEPT ![e] = 0]
  /\ UNCHANGED <<ruleRun, settings, todo, try, taken, unproven>>

\* Mutant: a cancel does not look at the lease.
CancelOutAnyLease(e) ==
  /\ Pending(e)
  /\ out' = [out EXCEPT ![e] = GoneOut]
  /\ UNCHANGED <<ruleRun, settings, todo, try, taken, requests, unproven, used>>
CancelOut(e) ==
  /\ Free(e)
  /\ out' = [out EXCEPT ![e] = GoneOut]
  /\ UNCHANGED <<ruleRun, settings, todo, try, taken, requests, unproven, used>>

-----------------------------------------------------------------------------
(* Mailboxes and users go *)

Stored(e) == out[e].status \in {"pending", "delivered"}
WithoutRows(S) == [e \in Event |-> IF e \in S THEN RemovedOut ELSE out[e]]

\* A trigger of SQLite deletes the status events S of a deleted mailbox,
\* whatever their lease; the other databases keep them.
DropMailboxRows(S) ==
  /\ S \subseteq {e \in Hook : Stored(e)}
  /\ out' = WithoutRows(S)
  /\ UNCHANGED <<ruleRun, settings, todo, try, taken, requests, unproven, used>>

\* The user goes, with the settings, all notifications and the mailboxes.
DropUserRows(S) ==
  /\ settings # "gone"
  /\ S \subseteq {e \in Hook : Stored(e)}
  /\ settings' = "gone"
  /\ out' = WithoutRows(S \cup {e \in Note : Stored(e)})
  /\ UNCHANGED <<ruleRun, todo, try, taken, requests, unproven, used>>

-----------------------------------------------------------------------------
(* Time *)

\* Thirty days after the last change: no attempt is that old.
PruneOut(e) ==
  /\ out[e].status = "delivered" \/ (Free(e) /\ out[e].tries >= MaxTries)
  /\ \A w \in Sender : try[w].event # e
  /\ out' = [out EXCEPT ![e] = GoneOut]
  /\ UNCHANGED <<ruleRun, settings, todo, try, taken, requests, unproven, used>>

OutDue(e) ==
  /\ Pending(e) /\ ~out[e].due
  /\ out' = [out EXCEPT ![e].due = TRUE]
  /\ UNCHANGED <<ruleRun, settings, todo, try, taken, requests, unproven, used>>

\* A lease lasts a minute and a request at most ten seconds; an attempt that is
\* held up longer is a fault.
OutLeaseEnds(e) ==
  LET busy == \E w \in Sender : try[w].event = e IN
  /\ Pending(e) /\ out[e].leased
  /\ out' = [out EXCEPT ![e].leased = FALSE]
  /\ IF busy THEN SpendFault /\ unproven' = unproven \cup {e} ELSE UNCHANGED <<used, unproven>>
  /\ UNCHANGED <<ruleRun, settings, todo, try, taken, requests>>

-----------------------------------------------------------------------------

OutboxInit ==
  /\ out = [e \in Event |-> [GoneOut EXCEPT !.status = "none"]]
  /\ ruleRun = [e \in Note |-> "idle"]
  /\ settings = "on"
  /\ todo = [w \in Sender |-> {}]
  /\ try = [w \in Sender |-> NoTry]
  /\ taken = [e \in Event |-> 0]
  /\ requests = [e \in Event |-> 0]
  /\ unproven = {}
  /\ used = [saves |-> 0, retries |-> 0, faults |-> 0]

Outcome == {"mark", "fail", "drop", "lost"}

WorkerStep(w) ==
  \/ ListOutbox(w) \/ ReadSettings(w) \/ MarkOut(w) \/ FailOut(w)
  \/ \E e \in Event : ClaimOut(w, e)
  \/ \E o \in Outcome : SendRequest(w, o)

OutboxNext ==
  \/ \E e \in Event : \/ EnqueueHook(e) \/ CheckConfigured(e) \/ EnqueueNote(e)
                      \/ RetryOut(e) \/ CancelOut(e) \/ PruneOut(e) \/ OutDue(e) \/ OutLeaseEnds(e)
  \/ \E w \in Sender : WorkerStep(w) \/ OutcomeFails(w) \/ StopWorker(w)
  \/ \E value \in {"on", "off"} : SaveSettings(value)
  \/ DeleteSettings
  \/ \E S \in SUBSET Hook : DropMailboxRows(S) \/ DropUserRows(S)

OutboxSpec == OutboxInit /\ [][OutboxNext]_outboxVars

\* The ticker starts a tick every ten seconds, and time passes.
OutboxFairness ==
  /\ \A w \in Sender : WF_outboxVars(WorkerStep(w))
  /\ \A e \in Event : WF_outboxVars(OutDue(e)) /\ WF_outboxVars(OutLeaseEnds(e))

-----------------------------------------------------------------------------
(* Properties *)

\* The receiver sees an event twice only when the proof that it took it was
\* lost: its reply, the process or the UPDATE of the row, or the lease.
RepeatExplained == \A e \in Event : taken[e] > 1 => e \in unproven

\* No event is requested more often than the limit, however often its attempts
\* are interrupted, unless an administrator re-arms it (API.md: "up to 10
\* attempts").
RequestsWithinLimit == \A e \in Event \ unproven : requests[e] <= MaxTries

\* What is marked as delivered was taken by the receiver.
DeliveredWasTaken == \A e \in Event : out[e].status = "delivered" => taken[e] > 0

\* Every pending event is marked delivered, given up, cancelled or left with no
\* attempt in it: the worker's ticker comes back to it whatever the receiver
\* answers and whenever a process stops (statusWebhookWorker, telegramWorker).
OutboxSettles == \A e \in Event : Pending(e) ~> ~Pending(e) \/ out[e].tries = MaxTries

\* What the webhook and the Telegram outbox promise across workers, leases,
\* settings saved in between and restarts (claim, processDue and mark).
OutboxSafe == RepeatExplained /\ RequestsWithinLimit /\ DeliveredWasTaken
=============================================================================
