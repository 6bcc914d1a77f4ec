--------------------------- MODULE OutboundProofs ---------------------------
(* Theorems about what is sent on behalf of a setting: the two outboxes, for *)
(* any number of events, workers and attempts, and the verification of       *)
(* forward addresses, for any number of addresses, requests, codes and       *)
(* guesses.  The last section puts them beside the components of the two     *)
(* other proof modules.                                                      *)
EXTENDS MailComponents, MailboxProofs, MaildirProofs, FiniteSetTheorems, TLAPS

-----------------------------------------------------------------------------
(* The outboxes: typing of the helpers *)

\* Using up a bound stays within it.
LEMMA SpendTyped ==
  ASSUME OutboxTypeOK
  PROVE  LET Bounds == [saves : 0 .. MaxSaves, retries : 0 .. OutboxRetries, faults : 0 .. OutboxFaults]
         IN  /\ SpendFault => used' \in Bounds
             /\ Spend("saves", MaxSaves) => used' \in Bounds
             /\ Spend("retries", OutboxRetries) => used' \in Bounds
<1> USE OutboxAssumption DEF OutboxAssumption, OutboxTypeOK, Spend, SpendFault
<1>1. SpendFault => used' \in [saves : 0 .. MaxSaves, retries : 0 .. OutboxRetries, faults : 0 .. OutboxFaults]
  OBVIOUS
<1>2. Spend("saves", MaxSaves) => used' \in [saves : 0 .. MaxSaves, retries : 0 .. OutboxRetries, faults : 0 .. OutboxFaults]
  OBVIOUS
<1>3. Spend("retries", OutboxRetries) => used' \in [saves : 0 .. MaxSaves, retries : 0 .. OutboxRetries, faults : 0 .. OutboxFaults]
  OBVIOUS
<1>4. QED BY <1>1, <1>2, <1>3

\* The rows the statements write.
LEMMA OutRowHelpers ==
  /\ NewOut \in OutRow /\ GoneOut \in OutRow /\ RemovedOut \in OutRow
  /\ \A r \in OutRow : Freed(r) \in OutRow /\ [Freed(r) EXCEPT !.status = "delivered"] \in OutRow
  /\ \A r \in OutRow : RearmedOut(r) \in OutRow /\ RearmedOut(r).status = r.status
  /\ \A r \in OutRow, pc \in {"fail", "drop"} :
       /\ FailedOut(r, pc) \in OutRow /\ FailedOut(r, pc).status = r.status
       /\ FailedOut(r, pc).tries >= r.tries
<1> USE DEF OutRow, OutStatus
<1>a. 0 \in 0 .. MaxTries /\ MaxTries \in 0 .. MaxTries
  BY OutboxAssumption DEF OutboxAssumption
<1>1. NewOut \in OutRow /\ GoneOut \in OutRow /\ RemovedOut \in OutRow
  BY <1>a DEF NewOut, GoneOut, RemovedOut
<1>2. ASSUME NEW r \in OutRow
      PROVE  Freed(r) \in OutRow /\ [Freed(r) EXCEPT !.status = "delivered"] \in OutRow
  BY DEF Freed
<1>3. ASSUME NEW r \in OutRow PROVE RearmedOut(r) \in OutRow /\ RearmedOut(r).status = r.status
  BY <1>a DEF RearmedOut, Freed
<1>4. ASSUME NEW r \in OutRow, NEW pc \in {"fail", "drop"}
      PROVE  /\ FailedOut(r, pc) \in OutRow /\ FailedOut(r, pc).status = r.status
             /\ FailedOut(r, pc).tries >= r.tries
  <2>1. FailedOut(r, pc) \in OutRow /\ FailedOut(r, pc).status = r.status
    BY <1>a DEF FailedOut, Freed
  <2>2. FailedOut(r, pc).tries \in {MaxTries, r.tries} /\ r.tries \in 0 .. MaxTries
    BY DEF FailedOut, Freed
  <2>3. FailedOut(r, pc).tries >= r.tries
    BY <2>2, OutboxAssumption DEF OutboxAssumption
  <2>4. QED BY <2>1, <2>3
<1>5. QED BY <1>1, <1>2, <1>3, <1>4

\* An attempt that goes on, or ends, is an attempt.
LEMMA TryHelpers ==
  ASSUME OutboxTypeOK, NEW w \in Sender
  PROVE  LET TryOK == /\ try' \in [Sender -> Try]
                      /\ \A v \in Sender : (try'[v].pc = "idle") <=> (try'[v].event = NoOne)
         IN  /\ \A pc \in {"settings", "send", "mark", "fail", "drop"} :
                   try[w].pc # "idle" /\ Step(w, pc) => TryOK
             /\ Finish(w) => TryOK
             /\ UNCHANGED try => TryOK
<1> DEFINE TryOK == /\ try' \in [Sender -> Try]
                    /\ \A v \in Sender : (try'[v].pc = "idle") <=> (try'[v].event = NoOne)
<1>a. try[w] \in Try
  BY DEF OutboxTypeOK
<1>1. ASSUME NEW pc \in {"settings", "send", "mark", "fail", "drop"}, try[w].pc # "idle", Step(w, pc)
      PROVE  TryOK
  <2>1. [try[w] EXCEPT !.pc = pc] \in Try
    BY <1>a DEF Try
  <2>2. try' \in [Sender -> Try]
    BY <1>1, <2>1 DEF Step, OutboxTypeOK
  <2>3. try'[w] = [try[w] EXCEPT !.pc = pc] /\ \A v \in Sender : v # w => try'[v] = try[v]
    BY <1>1 DEF Step, OutboxTypeOK
  <2>4. try'[w].pc # "idle" /\ try'[w].event # NoOne
    BY <1>a, <1>1, <2>3 DEF Try, OutboxTypeOK
  <2>5. QED BY <2>2, <2>3, <2>4 DEF OutboxTypeOK
<1>2. ASSUME Finish(w) PROVE TryOK
  BY <1>2 DEF Finish, NoTry, Try, OutboxTypeOK
<1>3. ASSUME UNCHANGED try PROVE TryOK
  BY <1>3 DEF OutboxTypeOK
<1>4. QED BY <1>1, <1>2, <1>3

-----------------------------------------------------------------------------
(* Type correctness *)

\* Every step keeps every variable in its type.
LEMMA OutboxTypeStep == OutboxTypeOK /\ [OutboxNext]_outboxVars => OutboxTypeOK'
<1> SUFFICES ASSUME OutboxTypeOK, [OutboxNext]_outboxVars PROVE OutboxTypeOK'
  OBVIOUS
<1> DEFINE TryOK  == /\ try' \in [Sender -> Try]
                     /\ \A v \in Sender : (try'[v].pc = "idle") <=> (try'[v].event = NoOne)
           UsedOK == used' \in [saves : 0 .. MaxSaves, retries : 0 .. OutboxRetries,
                               faults : 0 .. OutboxFaults]
<1>a. /\ \A e \in Event : out[e] \in OutRow
      /\ \A w \in Sender : try[w] \in Try
  BY DEF OutboxTypeOK
<1>b. ASSUME NEW e \in Event, NEW r \in OutRow, out' = [out EXCEPT ![e] = r]
      PROVE  out' \in [Event -> OutRow]
  BY <1>b DEF OutboxTypeOK
<1>c. UNCHANGED try => TryOK
  BY DEF OutboxTypeOK
<1>d. UNCHANGED used => UsedOK
  BY DEF OutboxTypeOK
<1>e. WithoutPendingNotes \in [Event -> OutRow]
  BY <1>a, OutRowHelpers DEF WithoutPendingNotes
<1>f. \A S \in SUBSET Event : WithoutRows(S) \in [Event -> OutRow]
  BY <1>a, OutRowHelpers DEF WithoutRows
<1> HIDE DEF TryOK, UsedOK
<1>1. ASSUME NEW e \in Event, EnqueueHook(e) \/ CheckConfigured(e) \/ EnqueueNote(e) PROVE OutboxTypeOK'
  <2>1. out' \in [Event -> OutRow]
    BY <1>1, <1>b, OutRowHelpers DEF EnqueueHook, CheckConfigured, EnqueueNote, OutboxTypeOK
  <2>2. ruleRun' \in [Note -> {"idle", "checked", "done"}]
    BY <1>1 DEF EnqueueHook, CheckConfigured, EnqueueNote, OutboxTypeOK
  <2>3. QED BY <1>1, <2>1, <2>2 DEF EnqueueHook, CheckConfigured, EnqueueNote, OutboxTypeOK
<1>2. ASSUME NEW e \in Event, RetryOut(e) \/ CancelOut(e) \/ PruneOut(e) \/ OutDue(e) \/ OutLeaseEnds(e)
      PROVE  OutboxTypeOK'
  <2>1. out' \in [Event -> OutRow]
    <3>1. CASE RetryOut(e)
      <4>1. RearmedOut(out[e]) \in OutRow
        BY <1>a, OutRowHelpers
      <4>2. QED BY <3>1, <4>1, <1>b DEF RetryOut
    <3>2. CASE CancelOut(e) \/ PruneOut(e)
      BY <3>2, <1>b, OutRowHelpers DEF CancelOut, PruneOut
    <3>3. CASE OutDue(e)
      <4>1. [out[e] EXCEPT !.due = TRUE] \in OutRow
        BY <1>a DEF OutRow
      <4>2. QED BY <3>3, <4>1, <1>b DEF OutDue
    <3>4. CASE OutLeaseEnds(e)
      <4>1. [out[e] EXCEPT !.leased = FALSE] \in OutRow
        BY <1>a DEF OutRow
      <4>2. QED BY <3>4, <4>1, <1>b DEF OutLeaseEnds
    <3>5. QED BY <1>2, <3>1, <3>2, <3>3, <3>4
  <2>2. UsedOK
    BY <1>2, <1>d, SpendTyped DEF RetryOut, CancelOut, PruneOut, OutDue, OutLeaseEnds, UsedOK
  <2>3. requests' \in [Event -> Nat]
    BY <1>2 DEF RetryOut, CancelOut, PruneOut, OutDue, OutLeaseEnds, OutboxTypeOK
  <2>4. UNCHANGED <<ruleRun, settings, todo, try, taken>> /\ unproven' \subseteq Event
    BY <1>2 DEF RetryOut, CancelOut, PruneOut, OutDue, OutLeaseEnds, OutboxTypeOK
  <2>5. QED BY <2>1, <2>2, <2>3, <2>4 DEF OutboxTypeOK, UsedOK
<1>3. ASSUME NEW w \in Sender, WorkerStep(w) PROVE OutboxTypeOK'
  <2>a. try[w].pc # "idle" => try[w].event \in Event
    BY <1>a DEF OutboxTypeOK, Try
  <2>b. UNCHANGED <<ruleRun, settings>>
    BY <1>3 DEF WorkerStep, ListOutbox, ClaimOut, ReadSettings, SendRequest, MarkOut, FailOut
  <2>1. CASE ListOutbox(w)
    <3>1. {e \in Kind(w) : Takeable(e)} \in SUBSET Event
      BY DEF Kind, Event
    <3>2. todo' \in [Sender -> SUBSET Event]
      BY <2>1, <3>1 DEF ListOutbox, OutboxTypeOK
    <3>3. QED BY <2>1, <2>b, <3>2 DEF ListOutbox, OutboxTypeOK
  <2>2. ASSUME NEW e \in Event, ClaimOut(w, e) PROVE OutboxTypeOK'
    <3>1. todo' \in [Sender -> SUBSET Event]
      BY <2>2 DEF ClaimOut, OutboxTypeOK
    <3>2. CASE ~Takeable(e)
      BY <2>2, <2>b, <3>1, <3>2 DEF ClaimOut, OutboxTypeOK
    <3>3. CASE Takeable(e)
      <4>a. out[e] \in OutRow
        BY <1>a
      <4>b. out[e].tries + 1 \in 0 .. MaxTries
        BY <4>a, <3>3, OutboxAssumption DEF OutboxAssumption, OutRow, Takeable
      <4>1. [out[e] EXCEPT !.tries = @ + 1, !.holder = w, !.leased = TRUE] \in OutRow
        BY <4>a, <4>b DEF OutRow
      <4>2. out' = [out EXCEPT ![e] = [out[e] EXCEPT !.tries = @ + 1, !.holder = w, !.leased = TRUE]]
        BY <2>2, <3>3 DEF ClaimOut, OutboxTypeOK
      <4>3. PICK pc \in {"settings", "send"} : try' = [try EXCEPT ![w] = [pc |-> pc, event |-> e]]
        BY <2>2, <3>3 DEF ClaimOut
      <4>4. [pc |-> pc, event |-> e] \in Try /\ e # NoOne
        BY OutboxAssumption DEF OutboxAssumption, Try
      <4>5. TryOK
        BY <4>3, <4>4 DEF OutboxTypeOK, TryOK
      <4>6. QED BY <2>2, <2>b, <3>1, <4>1, <4>2, <4>5, <1>b DEF ClaimOut, OutboxTypeOK, TryOK
    <3>4. QED BY <3>2, <3>3
  <2>3. CASE ReadSettings(w)
    <3>1. TryOK
      BY <2>3, TryHelpers DEF ReadSettings, TryOK
    <3>2. out' \in [Event -> OutRow]
      BY <2>3, <2>a, <1>b, OutRowHelpers DEF ReadSettings, OutboxTypeOK
    <3>3. QED BY <2>3, <2>b, <3>1, <3>2 DEF ReadSettings, OutboxTypeOK, TryOK
  <2>4. ASSUME NEW o \in Outcome, SendRequest(w, o) PROVE OutboxTypeOK'
    <3>a. try[w].event \in Event /\ try[w].pc # "idle"
      BY <2>4, <2>a DEF SendRequest
    <3>1. (IF o = "lost" THEN "fail" ELSE o) \in {"settings", "send", "mark", "fail", "drop"}
      BY DEF Outcome
    <3>2. TryOK
      BY <2>4, <3>a, <3>1, TryHelpers DEF SendRequest, TryOK
    <3>3. requests' \in [Event -> Nat] /\ taken' \in [Event -> 0 .. 2]
      BY <2>4, <3>a DEF SendRequest, OutboxTypeOK
    <3>4. UsedOK /\ unproven' \subseteq Event
      <4>1. CASE o = "lost"
        BY <2>4, <3>a, <4>1, SpendTyped DEF SendRequest, OutboxTypeOK, UsedOK
      <4>2. CASE o # "lost"
        BY <2>4, <4>2, <1>d DEF SendRequest, OutboxTypeOK
      <4>3. QED BY <4>1, <4>2
    <3>5. QED BY <2>4, <2>b, <3>2, <3>3, <3>4 DEF SendRequest, OutboxTypeOK, TryOK, UsedOK
  <2>5. CASE MarkOut(w)
    <3>1. TryOK
      BY <2>5, TryHelpers DEF MarkOut, TryOK
    <3>2. out' \in [Event -> OutRow]
      <4>1. try[w].event \in Event
        BY <2>5, <2>a DEF MarkOut
      <4>2. [Freed(out[try[w].event]) EXCEPT !.status = "delivered"] \in OutRow
        BY <1>a, <4>1, OutRowHelpers
      <4>3. QED BY <2>5, <4>1, <4>2, <1>b DEF MarkOut, OutboxTypeOK
    <3>3. QED BY <2>5, <2>b, <3>1, <3>2 DEF MarkOut, OutboxTypeOK, TryOK
  <2>6. CASE FailOut(w)
    <3>1. TryOK
      BY <2>6, TryHelpers DEF FailOut, TryOK
    <3>2. out' \in [Event -> OutRow]
      <4>1. try[w].event \in Event
        BY <2>6, <2>a DEF FailOut
      <4>2. FailedOut(out[try[w].event], try[w].pc) \in OutRow
        BY <2>6, <1>a, <4>1, OutRowHelpers DEF FailOut
      <4>3. QED BY <2>6, <4>1, <4>2, <1>b DEF FailOut, OutboxTypeOK
    <3>3. QED BY <2>6, <2>b, <3>1, <3>2 DEF FailOut, OutboxTypeOK, TryOK
  <2>7. QED BY <1>3, <2>1, <2>2, <2>3, <2>4, <2>5, <2>6 DEF WorkerStep
<1>4. ASSUME NEW w \in Sender, OutcomeFails(w) \/ StopWorker(w) PROVE OutboxTypeOK'
  <2>1. TryOK
    BY <1>4, TryHelpers DEF OutcomeFails, StopWorker, Forget, TryOK
  <2>2. todo' \in [Sender -> SUBSET Event]
    BY <1>4 DEF OutcomeFails, StopWorker, Forget, OutboxTypeOK
  <2>3. unproven' \subseteq Event
    BY <1>4, <1>a DEF OutcomeFails, StopWorker, OutboxTypeOK, Try
  <2>4. UsedOK
    BY <1>4, SpendTyped DEF OutcomeFails, StopWorker, UsedOK
  <2>5. QED BY <1>4, <2>1, <2>2, <2>3, <2>4 DEF OutcomeFails, StopWorker, OutboxTypeOK, TryOK, UsedOK
<1>5. ASSUME NEW value \in {"on", "off"}, SaveSettings(value) PROVE OutboxTypeOK'
  BY <1>5, <1>e, SpendTyped DEF SaveSettings, OutboxTypeOK
<1>6. CASE DeleteSettings
  BY <1>6, <1>e DEF DeleteSettings, OutboxTypeOK
<1>7. ASSUME NEW S \in SUBSET Hook, DropMailboxRows(S) \/ DropUserRows(S) PROVE OutboxTypeOK'
  <2>1. S \in SUBSET Event /\ S \cup {e \in Note : Stored(e)} \in SUBSET Event
    BY DEF Event
  <2>2. out' \in [Event -> OutRow]
    BY <1>7, <1>f, <2>1 DEF DropMailboxRows, DropUserRows
  <2>3. QED BY <1>7, <2>2 DEF DropMailboxRows, DropUserRows, OutboxTypeOK
<1>8. CASE UNCHANGED outboxVars
  BY <1>8 DEF outboxVars, OutboxTypeOK
<1>9. QED BY <1>1, <1>2, <1>3, <1>4, <1>5, <1>6, <1>7, <1>8 DEF OutboxNext

\* The outboxes start in their types.
LEMMA OutboxInitTyped == OutboxInit => OutboxTypeOK
<1> SUFFICES ASSUME OutboxInit PROVE OutboxTypeOK
  OBVIOUS
<1>a. 0 \in 0 .. MaxTries
  BY OutboxAssumption DEF OutboxAssumption
<1>1. [GoneOut EXCEPT !.status = "none"] \in OutRow
  BY <1>a DEF OutRow, OutStatus, GoneOut
<1>2. NoTry \in Try
  BY DEF NoTry, Try
<1>3. used \in [saves : 0 .. MaxSaves, retries : 0 .. OutboxRetries, faults : 0 .. OutboxFaults]
  BY OutboxAssumption DEF OutboxAssumption, OutboxInit
<1>4. /\ ruleRun \in [Note -> {"idle", "checked", "done"}]
      /\ settings \in {"none", "off", "on", "gone"}
      /\ todo \in [Sender -> SUBSET Event]
      /\ taken \in [Event -> 0 .. 2] /\ requests \in [Event -> Nat]
      /\ unproven \subseteq Event
  BY DEF OutboxInit
<1>5. out \in [Event -> OutRow] /\ try \in [Sender -> Try]
  BY <1>1, <1>2 DEF OutboxInit
<1>6. \A w \in Sender : (try[w].pc = "idle") <=> (try[w].event = NoOne)
  BY DEF OutboxInit, NoTry
<1>7. QED BY <1>3, <1>4, <1>5, <1>6 DEF OutboxTypeOK

\* The two outboxes keep the types of their variables, whatever workers, the user
\* and the administrator do.
THEOREM OutboxTypeCorrect == OutboxSpec => []OutboxTypeOK
<1>1. OutboxInit => OutboxTypeOK
  BY OutboxInitTyped
<1>2. OutboxTypeOK /\ [OutboxNext]_outboxVars => OutboxTypeOK'
  BY OutboxTypeStep
<1>3. QED BY <1>1, <1>2, PTL DEF OutboxSpec

-----------------------------------------------------------------------------
(* What is known of an event.  As long as nothing was lost on its way, its    *)
(* one attempt holds its row, and the row counts every request.               *)

\* An event without a row was neither sent nor taken.
FreshOK(e) ==
  /\ e \in Note /\ ruleRun[e] # "done" => out[e].status = "none"
  /\ out[e].status = "none" =>
       taken[e] = 0 /\ requests[e] = 0 /\ \A w \in Sender : try[w].event # e

\* An attempt that is about to mark the event has seen it taken.
TakenOK(e) ==
  /\ \A w \in Sender : try[w].event = e /\ try[w].pc = "mark" => taken[e] > 0
  /\ out[e].status = "delivered" => taken[e] > 0

AttemptOK(e, w) ==
  /\ \A v \in Sender : try[v].event = e => v = w
  /\ Pending(e) => out[e].leased /\ out[e].holder = w
  /\ try[w].pc # "mark" => taken[e] = 0
  /\ try[w].pc \in {"settings", "send"} =>
       requests[e] < MaxTries /\ (Pending(e) => requests[e] < out[e].tries)

CountsOK(e) ==
  /\ Pending(e) /\ (\A w \in Sender : try[w].event # e) => taken[e] = 0
  /\ taken[e] <= 1 /\ requests[e] <= MaxTries
  /\ Pending(e) => requests[e] <= out[e].tries

SoundOK(e) == (\A w \in Sender : try[w].event = e => AttemptOK(e, w)) /\ CountsOK(e)

EventOK(e) == FreshOK(e) /\ TakenOK(e) /\ (e \notin unproven => SoundOK(e))

OutboxInv == OutboxTypeOK /\ \A e \in Event : EventOK(e)

-----------------------------------------------------------------------------
(* Steps that neither send an event nor claim it *)

Continues(w) == try[w].event = try'[w].event
                  /\ (try'[w].pc = try[w].pc \/ (try[w].pc = "settings" /\ try'[w].pc = "send"))

\* An attempt ends, and what it knew is recorded, lost or of no use any more.
Leaves(w, e) == try[w].pc # "mark" \/ e \in unproven' \/ ~Pending(e)'

RowCalm(e) ==
  \/ /\ out'[e].status = out[e].status /\ out'[e].leased = out[e].leased
     /\ out'[e].holder = out[e].holder /\ out'[e].tries = out[e].tries
  \/ out[e].status # "none" /\ out'[e].status \in {"gone", "removed"}
  \/ out[e].status # "none" /\ out'[e].status = "delivered" /\ taken[e] > 0
  \/ /\ Pending(e) /\ Pending(e)' /\ out'[e].tries >= out[e].tries
     /\ (\A w \in Sender : try'[w].event # e) \/ e \in unproven'

Calm(e) ==
  /\ taken'[e] = taken[e] /\ requests'[e] = requests[e]
  /\ unproven \subseteq unproven'
  /\ e \in Note /\ ruleRun'[e] # "done" => ruleRun[e] # "done"
  /\ \A w \in Sender : try'[w].event = e => Continues(w)
  /\ \A w \in Sender : try[w].event = e /\ try'[w].event # e => Leaves(w, e)
  /\ RowCalm(e)

\* A calm step keeps what is known of the event.
LEMMA CalmKeeps ==
  ASSUME OutboxTypeOK, OutboxTypeOK', NEW e \in Event, EventOK(e), Calm(e)
  PROVE  EventOK(e)'
<1>a. /\ taken'[e] = taken[e] /\ requests'[e] = requests[e]
      /\ unproven \subseteq unproven'
      /\ e \in Note /\ ruleRun'[e] # "done" => ruleRun[e] # "done"
      /\ \A w \in Sender : try'[w].event = e => Continues(w)
      /\ \A w \in Sender : try[w].event = e /\ try'[w].event # e => Leaves(w, e)
      /\ RowCalm(e)
  BY DEF Calm
<1>b. out[e] \in OutRow /\ out'[e] \in OutRow /\ taken[e] \in 0 .. 2 /\ requests[e] \in Nat
  BY DEF OutboxTypeOK
<1>t. out[e].tries \in Nat /\ out'[e].tries \in Nat /\ MaxTries \in Nat
  BY <1>b, OutboxAssumption DEF OutboxAssumption, OutRow
<1>1. FreshOK(e)'
  <2>1. out'[e].status = "none" <=> out[e].status = "none"
    BY <1>a DEF RowCalm, Pending
  <2>2. \A w \in Sender : try'[w].event = e => try[w].event = e
    BY <1>a DEF Continues
  <2>3. QED BY <1>a, <2>1, <2>2 DEF EventOK, FreshOK
<1>2. TakenOK(e)'
  <2>1. \A w \in Sender : try'[w].event = e /\ try'[w].pc = "mark" => taken'[e] > 0
    BY <1>a DEF Continues, EventOK, TakenOK
  <2>2. out'[e].status = "delivered" => taken'[e] > 0
    BY <1>a DEF RowCalm, Pending, EventOK, TakenOK
  <2>3. QED BY <2>1, <2>2 DEF TakenOK
<1>3. ASSUME e \notin unproven' PROVE SoundOK(e)'
  <2>a. SoundOK(e)
    BY <1>a, <1>3 DEF EventOK
  <2>1. ASSUME NEW w \in Sender, try'[w].event = e PROVE AttemptOK(e, w)'
    <3>a. try[w].event = e /\ AttemptOK(e, w) /\ Continues(w)
      BY <1>a, <2>a, <2>1 DEF Continues, SoundOK
    <3>1. \A v \in Sender : try'[v].event = e => v = w
      BY <1>a, <3>a DEF Continues, AttemptOK
    <3>2. Pending(e)' => /\ Pending(e) /\ out'[e].leased = out[e].leased
                         /\ out'[e].holder = out[e].holder /\ out'[e].tries = out[e].tries
      BY <1>a, <1>3, <2>1 DEF RowCalm, Pending
    <3>3. Pending(e)' => out'[e].leased /\ out'[e].holder = w
      BY <3>a, <3>2 DEF AttemptOK
    <3>4. try'[w].pc # "mark" => taken'[e] = 0
      BY <1>a, <3>a DEF Continues, AttemptOK
    <3>5. try'[w].pc \in {"settings", "send"} =>
            requests'[e] < MaxTries /\ (Pending(e)' => requests'[e] < out'[e].tries)
      BY <1>a, <3>a, <3>2 DEF Continues, AttemptOK
    <3>6. QED BY <3>1, <3>3, <3>4, <3>5 DEF AttemptOK, Pending
  <2>2. CountsOK(e)'
    <3>1. Pending(e)' => Pending(e) /\ out'[e].tries >= out[e].tries
      BY <1>a, <1>t DEF RowCalm, Pending
    <3>2. Pending(e)' => requests'[e] <= out'[e].tries
      BY <1>a, <1>b, <1>t, <2>a, <3>1 DEF SoundOK, CountsOK
    <3>3. ASSUME Pending(e)', \A w \in Sender : try'[w].event # e PROVE taken'[e] = 0
      <4>1. CASE \E w \in Sender : try[w].event = e
        <5>1. PICK w \in Sender : try[w].event = e
          BY <4>1
        <5>2. try[w].pc # "mark" /\ AttemptOK(e, w)
          BY <1>a, <1>3, <2>a, <3>3, <5>1 DEF Leaves, SoundOK
        <5>3. QED BY <1>a, <5>2 DEF AttemptOK
      <4>2. CASE ~ \E w \in Sender : try[w].event = e
        BY <1>a, <2>a, <3>1, <3>3, <4>2 DEF SoundOK, CountsOK
      <4>3. QED BY <4>1, <4>2
    <3>4. QED BY <1>a, <2>a, <3>2, <3>3 DEF SoundOK, CountsOK, Pending
  <2>3. QED BY <2>1, <2>2 DEF SoundOK
<1>4. QED BY <1>1, <1>2, <1>3 DEF EventOK

\* A step that leaves the row, the history and the attempts of an event alone
\* is calm for it.
LEMMA ElsewhereIsCalm ==
  ASSUME OutboxTypeOK, NEW e \in Event,
         out'[e] = out[e], taken'[e] = taken[e], requests'[e] = requests[e],
         unproven \subseteq unproven',
         e \in Note /\ ruleRun'[e] # "done" => ruleRun[e] # "done",
         \A w \in Sender : try'[w] = try[w] \/ (try[w].event # e /\ try'[w].event # e)
  PROVE  Calm(e)
BY DEF Calm, RowCalm, Continues, OutboxTypeOK

-----------------------------------------------------------------------------
(* Every action keeps what is known of every event *)

\* A new row.
LEMMA EnqueueKnown ==
  ASSUME OutboxInv, OutboxTypeOK', NEW x \in Event,
         EnqueueHook(x) \/ (EnqueueNote(x) /\ settings # "gone"),
         NEW e \in Event
  PROVE  EventOK(e)'
<1>a. EventOK(e) /\ EventOK(x) /\ OutboxTypeOK
  BY DEF OutboxInv
<1>b. /\ out' = [out EXCEPT ![x] = NewOut]
      /\ UNCHANGED <<try, taken, requests, unproven>>
      /\ ruleRun' = ruleRun \/ (x \in Note /\ ruleRun' = [ruleRun EXCEPT ![x] = "done"])
  BY DEF EnqueueHook, EnqueueNote
<1>1. CASE e # x
  <2>1. out'[e] = out[e] /\ (e \in Note => ruleRun'[e] = ruleRun[e])
    BY <1>1, <1>a, <1>b DEF OutboxTypeOK
  <2>2. Calm(e)
    BY <2>1, <1>a, <1>b, ElsewhereIsCalm
  <2>3. QED BY <2>2, <1>a, CalmKeeps
<1>2. CASE e = x
  <2>1. out[e].status = "none" /\ (e \in Note => ruleRun'[e] = "done")
    <3>1. CASE EnqueueHook(x)
      BY <3>1, <1>2, OutboxAssumption DEF EnqueueHook, OutboxAssumption
    <3>2. CASE EnqueueNote(x)
      BY <3>2, <1>2, <1>a DEF EnqueueNote, OutboxTypeOK, EventOK, FreshOK
    <3>3. QED BY <3>1, <3>2
  <2>2. taken'[e] = 0 /\ requests'[e] = 0 /\ \A w \in Sender : try'[w].event # e
    BY <2>1, <1>a, <1>b DEF EventOK, FreshOK
  <2>3. out'[e] = NewOut
    BY <1>2, <1>a, <1>b DEF OutboxTypeOK
  <2>4. out'[e].status = "pending" /\ out'[e].tries = 0
    BY <2>3 DEF NewOut
  <2>5. FreshOK(e)' /\ TakenOK(e)'
    BY <2>1, <2>2, <2>4 DEF FreshOK, TakenOK
  <2>6. SoundOK(e)'
    BY <2>2, <2>4, OutboxAssumption DEF SoundOK, CountsOK, OutboxAssumption
  <2>7. QED BY <2>5, <2>6 DEF EventOK
<1>3. QED BY <1>1, <1>2

\* A claim that finds the row takeable starts an attempt.
LEMMA ClaimKnown ==
  ASSUME OutboxInv, OutboxTypeOK', NEW w \in Sender, NEW x \in Event, ClaimOut(w, x),
         NEW e \in Event
  PROVE  EventOK(e)'
<1>a. EventOK(e) /\ OutboxTypeOK
  BY DEF OutboxInv
<1>b. UNCHANGED <<ruleRun, taken, requests, unproven>>
  BY DEF ClaimOut
<1>c. try[w].event = NoOne /\ e # NoOne
  BY <1>a, OutboxAssumption DEF ClaimOut, OutboxTypeOK, OutboxAssumption
<1>1. CASE ~Takeable(x)
  BY <1>1, <1>a, <1>b, ElsewhereIsCalm, CalmKeeps DEF ClaimOut
<1>2. CASE Takeable(x)
  <2>a. PICK pc \in {"settings", "send"} : try' = [try EXCEPT ![w] = [pc |-> pc, event |-> x]]
    BY <1>2 DEF ClaimOut
  <2>b. out' = [out EXCEPT ![x] = [out[x] EXCEPT !.tries = @ + 1, !.holder = w, !.leased = TRUE]]
    BY <1>2, <1>a DEF ClaimOut, OutboxTypeOK
  <2>c. try'[w] = [pc |-> pc, event |-> x] /\ \A v \in Sender : v # w => try'[v] = try[v]
    BY <2>a, <1>a DEF OutboxTypeOK
  <2>1. CASE e # x
    <3>1. out'[e] = out[e]
      BY <2>1, <2>b, <1>a DEF OutboxTypeOK
    <3>2. \A v \in Sender : try'[v] = try[v] \/ (try[v].event # e /\ try'[v].event # e)
      BY <2>1, <2>c, <1>c
    <3>3. Calm(e)
      BY <3>1, <3>2, <1>a, <1>b, ElsewhereIsCalm
    <3>4. QED BY <3>3, <1>a, CalmKeeps
  <2>2. CASE e = x
    <3>a. out[e] \in OutRow /\ Pending(e) /\ ~out[e].leased /\ out[e].tries < MaxTries
      BY <1>2, <2>2, <1>a DEF Takeable, Free, OutboxTypeOK
    <3>b. out'[e] = [out[e] EXCEPT !.tries = @ + 1, !.holder = w, !.leased = TRUE]
      BY <2>2, <2>b, <1>a DEF OutboxTypeOK
    <3>c. /\ out'[e].status = "pending" /\ out'[e].tries = out[e].tries + 1
          /\ out'[e].holder = w /\ out'[e].leased
      BY <3>a, <3>b DEF OutRow, Pending
    <3>d. out[e].tries \in Nat /\ MaxTries \in Nat /\ requests[e] \in Nat /\ taken[e] \in 0 .. 2
      BY <3>a, <1>a, OutboxAssumption DEF OutRow, OutboxAssumption, OutboxTypeOK
    <3>1. FreshOK(e)'
      BY <3>a, <3>c, <1>a, <1>b DEF EventOK, FreshOK, Pending
    <3>2. TakenOK(e)'
      BY <3>c, <2>c, <1>a, <1>b DEF EventOK, TakenOK
    <3>3. ASSUME e \notin unproven' PROVE SoundOK(e)'
      <4>a. SoundOK(e)
        BY <3>3, <1>a, <1>b DEF EventOK
      <4>b. \A v \in Sender : try[v].event # e
        BY <4>a, <3>a DEF SoundOK, AttemptOK
      <4>c. \A v \in Sender : try'[v].event = e => v = w
        BY <4>b, <2>c
      <4>d. taken[e] = 0 /\ requests[e] <= out[e].tries
        BY <4>a, <4>b, <3>a DEF SoundOK, CountsOK
      <4>e. requests[e] < MaxTries /\ requests[e] < out'[e].tries
        BY <4>d, <3>a, <3>c, <3>d
      <4>1. \A v \in Sender : try'[v].event = e => AttemptOK(e, v)'
        BY <4>c, <4>d, <4>e, <3>c, <1>b DEF AttemptOK
      <4>2. CountsOK(e)'
        BY <4>d, <4>e, <3>d, <3>c, <1>b DEF CountsOK
      <4>3. QED BY <4>1, <4>2 DEF SoundOK
    <3>4. QED BY <3>1, <3>2, <3>3 DEF EventOK
  <2>3. QED BY <2>1, <2>2
<1>3. QED BY <1>1, <1>2

\* A request is counted, and what its answer says is true.
LEMMA SendKnown ==
  ASSUME OutboxInv, OutboxTypeOK', NEW w \in Sender, NEW o \in Outcome, SendRequest(w, o),
         NEW e \in Event
  PROVE  EventOK(e)'
<1> DEFINE x == try[w].event
<1>a. EventOK(e) /\ OutboxTypeOK
  BY DEF OutboxInv
<1>b. x \in Event /\ try[w].pc = "send" /\ try[w] \in Try
  BY <1>a DEF SendRequest, OutboxTypeOK, Try
<1>c. /\ UNCHANGED <<out, ruleRun>>
      /\ requests' = [requests EXCEPT ![x] = @ + 1]
      /\ taken' = IF o \in {"mark", "lost"} /\ taken[x] < 2 THEN [taken EXCEPT ![x] = @ + 1] ELSE taken
      /\ unproven' = IF o = "lost" THEN unproven \cup {x} ELSE unproven
      /\ Step(w, IF o = "lost" THEN "fail" ELSE o)
  BY DEF SendRequest
<1>d. /\ try'[w].event = x /\ try'[w].pc = IF o = "lost" THEN "fail" ELSE o
      /\ \A v \in Sender : v # w => try'[v] = try[v]
  BY <1>a, <1>b, <1>c DEF Step, OutboxTypeOK, Try
<1>1. CASE e # x
  <2>1. taken'[e] = taken[e] /\ requests'[e] = requests[e] /\ unproven \subseteq unproven'
    BY <1>1, <1>a, <1>c DEF OutboxTypeOK
  <2>2. \A v \in Sender : try'[v] = try[v] \/ (try[v].event # e /\ try'[v].event # e)
    BY <1>1, <1>d
  <2>3. Calm(e)
    BY <2>1, <2>2, <1>a, <1>c, ElsewhereIsCalm
  <2>4. QED BY <2>3, <1>a, CalmKeeps
<1>2. CASE e = x
  <2>a. /\ taken[e] \in 0 .. 2 /\ requests[e] \in Nat /\ MaxTries \in Nat
        /\ out[e].tries \in Nat
    BY <1>a, OutboxAssumption DEF OutboxTypeOK, OutRow, OutboxAssumption
  <2>b. /\ requests'[e] = requests[e] + 1
        /\ taken'[e] = IF o \in {"mark", "lost"} /\ taken[e] < 2 THEN taken[e] + 1 ELSE taken[e]
    BY <1>2, <1>a, <1>c DEF OutboxTypeOK
  <2>c. taken'[e] >= taken[e] /\ (o \in {"mark", "lost"} => taken'[e] > 0)
    BY <2>a, <2>b
  <2>1. FreshOK(e)'
    BY <1>2, <1>a, <1>c DEF EventOK, FreshOK
  <2>2. TakenOK(e)'
    <3>1. ASSUME NEW v \in Sender, try'[v].event = e, try'[v].pc = "mark" PROVE taken'[e] > 0
      <4>1. CASE v = w
        BY <4>1, <3>1, <1>d, <2>c
      <4>2. CASE v # w
        <5>1. taken[e] > 0
          BY <4>2, <3>1, <1>a, <1>d DEF EventOK, TakenOK
        <5>2. QED BY <5>1, <2>a, <2>b
      <4>3. QED BY <4>1, <4>2
    <3>2. out'[e].status = "delivered" => taken'[e] > 0
      BY <1>a, <1>c, <2>a, <2>c DEF EventOK, TakenOK
    <3>3. QED BY <3>1, <3>2 DEF TakenOK
  <2>3. ASSUME e \notin unproven' PROVE SoundOK(e)'
    <3>a. SoundOK(e) /\ o # "lost"
      BY <2>3, <1>2, <1>a, <1>c DEF EventOK
    <3>b. AttemptOK(e, w)
      BY <3>a, <1>2 DEF SoundOK
    <3>c. /\ \A v \in Sender : try[v].event = e => v = w
          /\ Pending(e) => out[e].leased /\ out[e].holder = w
          /\ taken[e] = 0 /\ requests[e] < MaxTries
          /\ Pending(e) => requests[e] < out[e].tries
      BY <3>b, <1>b DEF AttemptOK
    <3>d. \A v \in Sender : try'[v].event = e <=> v = w
      BY <3>c, <1>d, <1>2
    <3>e. taken'[e] = (IF o = "mark" THEN 1 ELSE 0) /\ try'[w].pc = o /\ o \in {"mark", "fail", "drop"}
      BY <3>a, <3>c, <2>b, <1>d DEF Outcome
    <3>1. AttemptOK(e, w)'
      BY <3>c, <3>d, <3>e, <1>c DEF AttemptOK, Pending
    <3>2. CountsOK(e)'
      <4>1. requests'[e] <= MaxTries /\ (Pending(e)' => requests'[e] <= out'[e].tries)
        BY <3>c, <2>a, <2>b, <1>c DEF Pending
      <4>2. QED BY <4>1, <3>d, <3>e DEF CountsOK
    <3>3. QED BY <3>1, <3>2, <3>d DEF SoundOK
  <2>4. QED BY <2>1, <2>2, <2>3 DEF EventOK
<1>3. QED BY <1>1, <1>2

\* The steps by which an attempt goes on without a request, or ends.
LEMMA EndingKnown ==
  ASSUME OutboxInv, OutboxTypeOK', NEW w \in Sender,
         ReadSettings(w) \/ MarkOut(w) \/ FailOut(w) \/ OutcomeFails(w) \/ StopWorker(w),
         NEW e \in Event
  PROVE  EventOK(e)'
<1> DEFINE x == try[w].event
<1>a. EventOK(e) /\ OutboxTypeOK
  BY DEF OutboxInv
<1>b. /\ UNCHANGED <<ruleRun, taken, requests>> /\ unproven \subseteq unproven'
      /\ (Step(w, "send") /\ try[w].pc = "settings") \/ Finish(w)
  BY DEF ReadSettings, MarkOut, FailOut, OutcomeFails, StopWorker, Forget
<1>c. /\ \A v \in Sender : v # w => try'[v] = try[v]
      /\ try'[w] = NoTry \/ (try[w].pc = "settings" /\ try'[w].pc = "send" /\ try'[w].event = x)
  BY <1>a, <1>b DEF Step, Finish, OutboxTypeOK, Try
<1>d. e # NoOne /\ NoTry.event = NoOne
  BY OutboxAssumption DEF OutboxAssumption, NoTry
<1>e. \A v \in Sender : try'[v].event = e => Continues(v)
  BY <1>c, <1>d DEF Continues
<1>f. /\ out[e] \in OutRow
      /\ out[e].tries >= out[e].tries
  BY <1>a, OutboxAssumption DEF OutboxTypeOK, OutRow, OutboxAssumption
<1>1. CASE e # x
  <2>1. out'[e] = out[e]
    BY <1>1, <1>a DEF ReadSettings, MarkOut, FailOut, OutcomeFails, StopWorker, OutboxTypeOK
  <2>2. \A v \in Sender : try'[v] = try[v] \/ (try[v].event # e /\ try'[v].event # e)
    BY <1>1, <1>c, <1>d
  <2>3. Calm(e)
    BY <2>1, <2>2, <1>a, <1>b, ElsewhereIsCalm
  <2>4. QED BY <2>3, <1>a, CalmKeeps
<1>2. CASE e = x
  <2>a. \A v \in Sender : v # w => ~(try[v].event = e /\ try'[v].event # e)
    BY <1>c
  <2>b. out[e].status # "none"
    BY <1>2, <1>a DEF EventOK, FreshOK
  <2>c. SoundOK(e) => AttemptOK(e, w)
    BY <1>2 DEF SoundOK
  <2>1. CASE ReadSettings(w)
    <3>1. Leaves(w, e)
      BY <2>1 DEF ReadSettings, Leaves
    <3>2. out'[e] = out[e] \/ out'[e] = GoneOut
      BY <2>1, <1>2, <1>a DEF ReadSettings, OutboxTypeOK
    <3>3. RowCalm(e)
      BY <3>2, <2>b DEF RowCalm, GoneOut
    <3>4. Calm(e)
      BY <3>1, <3>3, <2>a, <1>b, <1>e DEF Calm
    <3>5. QED BY <3>4, <1>a, CalmKeeps
  <2>2. CASE MarkOut(w)
    <3>a. try[w].pc = "mark" /\ UNCHANGED unproven
      BY <2>2 DEF MarkOut
    <3>b. taken[e] > 0
      BY <3>a, <1>2, <1>a DEF EventOK, TakenOK
    <3>1. CASE Holds(w)
      <4>1. out'[e] = [Freed(out[e]) EXCEPT !.status = "delivered"]
        BY <2>2, <3>1, <1>2, <1>a DEF MarkOut, OutboxTypeOK
      <4>2. out'[e].status = "delivered"
        BY <4>1, <1>f DEF Freed, OutRow
      <4>3. RowCalm(e) /\ Leaves(w, e)
        BY <4>2, <3>b, <2>b DEF RowCalm, Leaves, Pending
      <4>4. Calm(e)
        BY <4>3, <2>a, <1>b, <1>e DEF Calm
      <4>5. QED BY <4>4, <1>a, CalmKeeps
    <3>2. CASE ~Holds(w)
      <4>1. out' = out
        BY <2>2, <3>2 DEF MarkOut
      <4>2. e \in unproven' \/ ~Pending(e)'
        BY <4>1, <3>2, <3>a, <1>2, <1>a, <1>d, <2>c DEF Holds, EventOK, AttemptOK, Pending
      <4>3. RowCalm(e) /\ Leaves(w, e)
        BY <4>1, <4>2 DEF RowCalm, Leaves
      <4>4. Calm(e)
        BY <4>3, <2>a, <1>b, <1>e DEF Calm
      <4>5. QED BY <4>4, <1>a, CalmKeeps
    <3>3. QED BY <3>1, <3>2
  <2>3. CASE FailOut(w)
    <3>a. try[w].pc \in {"fail", "drop"} /\ UNCHANGED unproven
      BY <2>3 DEF FailOut
    <3>b. Leaves(w, e) /\ try'[w].event # e
      BY <2>3, <3>a, <1>a, <1>d DEF Leaves, FailOut, Finish, OutboxTypeOK
    <3>c. (\A v \in Sender : try'[v].event # e) \/ e \in unproven'
      BY <3>a, <3>b, <1>a, <1>c, <2>c DEF EventOK, AttemptOK
    <3>1. CASE Holds(w)
      <4>1. out'[e] = FailedOut(out[e], try[w].pc)
        BY <2>3, <3>1, <1>2, <1>a DEF FailOut, OutboxTypeOK
      <4>2. out'[e].status = out[e].status /\ out'[e].tries >= out[e].tries
        BY <4>1, <3>a, <1>f, OutRowHelpers
      <4>3. RowCalm(e)
        BY <4>2, <3>1, <3>c, <1>2 DEF RowCalm, Holds, Pending
      <4>4. Calm(e)
        BY <4>3, <3>b, <2>a, <1>b, <1>e DEF Calm
      <4>5. QED BY <4>4, <1>a, CalmKeeps
    <3>2. CASE ~Holds(w)
      <4>1. RowCalm(e)
        BY <2>3, <3>2 DEF FailOut, RowCalm
      <4>2. Calm(e)
        BY <4>1, <3>b, <2>a, <1>b, <1>e DEF Calm
      <4>3. QED BY <4>2, <1>a, CalmKeeps
    <3>3. QED BY <3>1, <3>2
  <2>4. CASE OutcomeFails(w) \/ StopWorker(w)
    <3>1. Leaves(w, e) /\ RowCalm(e)
      BY <2>4, <1>2 DEF OutcomeFails, StopWorker, Leaves, RowCalm
    <3>2. Calm(e)
      BY <3>1, <2>a, <1>b, <1>e DEF Calm
    <3>3. QED BY <3>2, <1>a, CalmKeeps
  <2>5. QED BY <2>1, <2>2, <2>3, <2>4
<1>3. QED BY <1>1, <1>2

\* An administrator re-arms an event that has used up its attempts.
LEMMA RetryKnown ==
  ASSUME OutboxInv, OutboxTypeOK', NEW x \in Event, RetryOut(x), NEW e \in Event
  PROVE  EventOK(e)'
<1>a. EventOK(e) /\ OutboxTypeOK
  BY DEF OutboxInv
<1>b. /\ out' = [out EXCEPT ![x] = RearmedOut(out[x])]
      /\ requests' = [requests EXCEPT ![x] = 0]
      /\ UNCHANGED <<ruleRun, try, taken, unproven>>
      /\ Pending(x) /\ ~out[x].leased
  BY <1>a DEF RetryOut, Free
<1>1. CASE e # x
  <2>1. out'[e] = out[e] /\ requests'[e] = requests[e]
    BY <1>1, <1>a, <1>b DEF OutboxTypeOK
  <2>2. Calm(e)
    BY <2>1, <1>a, <1>b, ElsewhereIsCalm
  <2>3. QED BY <2>2, <1>a, CalmKeeps
<1>2. CASE e = x
  <2>a. out'[e] = RearmedOut(out[e]) /\ requests'[e] = 0 /\ out[e] \in OutRow
    BY <1>2, <1>a, <1>b DEF OutboxTypeOK
  <2>b. out'[e].status = "pending" /\ out'[e].tries \in Nat /\ MaxTries \in Nat
    BY <2>a, <1>2, <1>b, OutRowHelpers, OutboxAssumption DEF Pending, OutRow, OutboxAssumption
  <2>1. FreshOK(e)' /\ TakenOK(e)'
    BY <2>b, <1>a, <1>b, <1>2 DEF EventOK, FreshOK, TakenOK, Pending
  <2>2. ASSUME e \notin unproven' PROVE SoundOK(e)'
    <3>1. SoundOK(e)
      BY <2>2, <1>a, <1>b DEF EventOK
    <3>2. \A w \in Sender : try'[w].event # e
      BY <3>1, <1>2, <1>b DEF SoundOK, AttemptOK
    <3>3. taken'[e] = 0
      BY <3>1, <3>2, <1>2, <1>b DEF SoundOK, CountsOK
    <3>4. QED BY <3>2, <3>3, <2>a, <2>b DEF SoundOK, CountsOK
  <2>3. QED BY <2>1, <2>2 DEF EventOK
<1>3. QED BY <1>1, <1>2

\* The user, the administrator and time only take rows away or make them due.
LEMMA OthersKnown ==
  ASSUME OutboxInv, OutboxTypeOK', NEW e \in Event,
         \/ \E x \in Event : \/ CheckConfigured(x) \/ CancelOut(x) \/ PruneOut(x) \/ OutDue(x)
                             \/ OutLeaseEnds(x) \/ (EnqueueNote(x) /\ settings = "gone")
         \/ \E w \in Sender : ListOutbox(w)
         \/ \E value \in {"on", "off"} : SaveSettings(value)
         \/ DeleteSettings
         \/ \E S \in SUBSET Hook : DropMailboxRows(S) \/ DropUserRows(S)
         \/ UNCHANGED outboxVars
  PROVE  EventOK(e)'
<1>a. EventOK(e) /\ OutboxTypeOK
  BY DEF OutboxInv
<1>b. /\ UNCHANGED <<try, taken, requests>> /\ unproven \subseteq unproven'
      /\ e \in Note /\ ruleRun'[e] # "done" => ruleRun[e] # "done"
  BY <1>a DEF CheckConfigured, CancelOut, PruneOut, OutDue, OutLeaseEnds, EnqueueNote, ListOutbox,
              SaveSettings, DeleteSettings, DropMailboxRows, DropUserRows, outboxVars, OutboxTypeOK
<1>c. out[e] \in OutRow /\ out[e].tries >= out[e].tries
  BY <1>a, OutboxAssumption DEF OutboxTypeOK, OutRow, OutboxAssumption
<1>1. RowCalm(e)
  <2>1. ASSUME UNCHANGED out PROVE RowCalm(e)
    BY <2>1 DEF RowCalm
  <2>2. CASE \E x \in Event : CancelOut(x) \/ PruneOut(x)
    <3>1. PICK x \in Event : CancelOut(x) \/ PruneOut(x)
      BY <2>2
    <3>2. out' = [out EXCEPT ![x] = GoneOut] /\ out[x].status # "none"
      BY <3>1 DEF CancelOut, PruneOut, Free, Pending
    <3>3. out'[e] = out[e] \/ (out'[e] = GoneOut /\ out[e].status # "none")
      BY <3>2, <1>a DEF OutboxTypeOK
    <3>4. QED BY <3>3 DEF RowCalm, GoneOut
  <2>3. CASE \E x \in Event : OutDue(x)
    <3>1. PICK x \in Event : out' = [out EXCEPT ![x] = [out[x] EXCEPT !.due = TRUE]]
      BY <2>3, <1>a DEF OutDue, OutboxTypeOK
    <3>2. out'[e] = out[e] \/ out'[e] = [out[e] EXCEPT !.due = TRUE]
      BY <3>1, <1>a DEF OutboxTypeOK
    <3>3. QED BY <3>2, <1>c DEF RowCalm, OutRow
  <2>4. CASE \E x \in Event : OutLeaseEnds(x)
    <3>1. PICK x \in Event : OutLeaseEnds(x)
      BY <2>4
    <3>2. out' = [out EXCEPT ![x] = [out[x] EXCEPT !.leased = FALSE]]
      BY <3>1, <1>a DEF OutLeaseEnds, OutboxTypeOK
    <3>3. CASE e # x
      BY <3>2, <3>3, <1>a DEF RowCalm, OutboxTypeOK
    <3>4. CASE e = x
      <4>1. out'[e] = [out[e] EXCEPT !.leased = FALSE]
        BY <3>2, <3>4, <1>a DEF OutboxTypeOK
      <4>2. out'[e].status = out[e].status /\ out'[e].tries = out[e].tries
        BY <4>1, <1>c DEF OutRow
      <4>3. Pending(e) /\ ((\A w \in Sender : try'[w].event # e) \/ e \in unproven')
        BY <3>1, <3>4 DEF OutLeaseEnds
      <4>4. QED BY <4>2, <4>3, <1>c DEF RowCalm, Pending
    <3>5. QED BY <3>3, <3>4
  <2>5. CASE (\E value \in {"on", "off"} : SaveSettings(value)) \/ DeleteSettings
    <3>1. out'[e] = out[e] \/ (out'[e] = GoneOut /\ Pending(e))
      BY <2>5 DEF SaveSettings, DeleteSettings, WithoutPendingNotes
    <3>2. QED BY <3>1 DEF RowCalm, GoneOut, Pending
  <2>6. CASE \E S \in SUBSET Hook : DropMailboxRows(S) \/ DropUserRows(S)
    <3>1. out'[e] = out[e] \/ (out'[e] = RemovedOut /\ Stored(e))
      BY <2>6 DEF DropMailboxRows, DropUserRows, WithoutRows
    <3>2. QED BY <3>1 DEF RowCalm, RemovedOut, GoneOut, Stored
  <2>7. QED BY <2>1, <2>2, <2>3, <2>4, <2>5, <2>6 DEF CheckConfigured, EnqueueNote, ListOutbox, outboxVars
<1>2. Calm(e)
  BY <1>1, <1>b DEF Calm, Continues
<1>3. QED BY <1>2, <1>a, CalmKeeps

-----------------------------------------------------------------------------
(* The outboxes are safe *)

\* What is known of every event stays known.
LEMMA OutboxStep == OutboxInv /\ [OutboxNext]_outboxVars => OutboxInv'
<1> SUFFICES ASSUME OutboxInv, [OutboxNext]_outboxVars PROVE OutboxInv'
  OBVIOUS
<1>1. OutboxTypeOK'
  BY OutboxTypeStep DEF OutboxInv
<1>2. ASSUME NEW e \in Event PROVE EventOK(e)'
  <2>1. ASSUME NEW x \in Event, EnqueueHook(x) \/ (EnqueueNote(x) /\ settings # "gone") \/ RetryOut(x)
        PROVE  EventOK(e)'
    BY <1>1, <2>1, EnqueueKnown, RetryKnown
  <2>2. ASSUME NEW w \in Sender, WorkerStep(w) \/ OutcomeFails(w) \/ StopWorker(w), ~ListOutbox(w)
        PROVE  EventOK(e)'
    BY <1>1, <2>2, ClaimKnown, SendKnown, EndingKnown DEF WorkerStep
  <2>3. CASE \/ \E x \in Event : \/ CheckConfigured(x) \/ CancelOut(x) \/ PruneOut(x) \/ OutDue(x)
                                  \/ OutLeaseEnds(x) \/ (EnqueueNote(x) /\ settings = "gone")
             \/ \E w \in Sender : ListOutbox(w)
             \/ \E value \in {"on", "off"} : SaveSettings(value)
             \/ DeleteSettings
             \/ \E S \in SUBSET Hook : DropMailboxRows(S) \/ DropUserRows(S)
             \/ UNCHANGED outboxVars
    BY <1>1, <2>3, OthersKnown
  <2>4. QED BY <2>1, <2>2, <2>3 DEF OutboxNext
<1>3. QED BY <1>1, <1>2 DEF OutboxInv

\* The invariant holds throughout.
LEMMA OutboxAlways == OutboxSpec => []OutboxInv
<1>1. OutboxInit => OutboxInv
  <2> SUFFICES ASSUME OutboxInit, OutboxTypeOK, NEW e \in Event PROVE EventOK(e)
    BY OutboxInitTyped DEF OutboxInv
  <2>1. /\ out[e] = [GoneOut EXCEPT !.status = "none"] /\ taken[e] = 0 /\ requests[e] = 0
        /\ \A w \in Sender : try[w].event = NoOne /\ e # NoOne
    BY OutboxAssumption DEF OutboxInit, NoTry, OutboxAssumption
  <2>2. out[e].status = "none"
    BY <2>1 DEF GoneOut
  <2>3. QED BY <2>1, <2>2, OutboxAssumption
        DEF EventOK, FreshOK, TakenOK, SoundOK, CountsOK, Pending, OutboxAssumption
<1>2. OutboxInv /\ [OutboxNext]_outboxVars => OutboxInv'
  BY OutboxStep
<1>3. QED BY <1>1, <1>2, PTL DEF OutboxSpec

\* The receiver of status events, or the Telegram chat, sees an event twice only
\* when the proof that it took it was lost, no event is requested more often than
\* the limit between two re-arms, and only what was taken is marked as delivered:
\* for any number of events and workers, and whatever the user does meanwhile.
THEOREM OutboxesAreSafe == OutboxSpec => []OutboxSafe
<1>1. OutboxInv => OutboxSafe
  <2> SUFFICES ASSUME OutboxInv, NEW e \in Event
               PROVE  /\ taken[e] > 1 => e \in unproven
                      /\ e \notin unproven => requests[e] <= MaxTries
                      /\ out[e].status = "delivered" => taken[e] > 0
    BY DEF OutboxSafe, RepeatExplained, RequestsWithinLimit, DeliveredWasTaken
  <2>1. EventOK(e) /\ taken[e] \in 0 .. 2
    BY DEF OutboxInv, OutboxTypeOK
  <2>2. QED BY <2>1 DEF EventOK, TakenOK, SoundOK, CountsOK
<1>2. QED BY <1>1, OutboxAlways, PTL

-----------------------------------------------------------------------------
(* The outboxes implement the lifecycle of an event *)

Stages == [e \in Event |-> StageOf(out[e])]

\* Where a row is in its life.
LEMMA StageOfRow ==
  ASSUME NEW r \in OutRow
  PROVE  /\ r.status = "none" => StageOf(r) = "absent"
         /\ r.status \in {"delivered", "gone", "removed"} => StageOf(r) = r.status
         /\ r.status = "pending" => StageOf(r) = IF r.tries = MaxTries /\ ~r.leased THEN "spent" ELSE "pending"
         /\ StageOf(r) \in {"pending", "spent"} <=> r.status = "pending"
         /\ StageOf(r) = "absent" <=> r.status = "none"
         /\ StageOf(r) = "delivered" <=> r.status = "delivered"
BY DEF StageOf, OutRow, OutStatus

\* A step that writes one row moves at most that event.
LEMMA OneStage ==
  ASSUME OutboxTypeOK, NEW x \in Event, NEW r, out' = [out EXCEPT ![x] = r]
  PROVE  /\ out'[x] = r
         /\ Stages' = [Stages EXCEPT ![x] = StageOf(r)]
         /\ Stages[x] = StageOf(out[x])
         /\ StageOf(r) = StageOf(out[x]) => Stages' = Stages
<1>1. out'[x] = r /\ \A e \in Event \ {x} : out'[e] = out[e]
  BY DEF OutboxTypeOK
<1>2. \A e \in Event : StageOf(out'[e]) = IF e = x THEN StageOf(r) ELSE StageOf(out[e])
  BY <1>1
<1>3. Stages' = [e \in Event |-> StageOf(out'[e])]
  BY DEF Stages, StageOf
<1>4. QED BY <1>1, <1>2, <1>3 DEF Stages

\* The events with an attempt, when that of one worker begins, goes on or ends.
LEMMA AttemptsMove ==
  ASSUME OutboxTypeOK, NEW w \in Sender, NEW a, try' = [try EXCEPT ![w] = a]
  PROVE  /\ a.event = try[w].event => Attempted' = Attempted
         /\ a.event \in Event /\ try[w].event = NoOne => Attempted' = Attempted \cup {a.event}
         /\ a.event = NoOne /\ try[w].event \in Event =>
              /\ try[w].event \in Attempted
              /\ Attempted' = Attempted \ {try[w].event} \/ Attempted' = Attempted
              /\ (\A v \in Sender : try[v].event = try[w].event => v = w)
                   => Attempted' = Attempted \ {try[w].event}
<1>1. try'[w] = a /\ \A v \in Sender \ {w} : try'[v] = try[v]
  BY DEF OutboxTypeOK
<1>2. NoOne \notin Event
  BY OutboxAssumption DEF OutboxAssumption
<1>3. QED BY <1>1, <1>2, Zenon DEF Attempted

\* What is known of an event with an attempt that is not in doubt.
LEMMA SoundAttempt ==
  ASSUME OutboxInv, NEW w \in Sender, NEW x \in Event, try[w].event = x, x \notin unproven
  PROVE  /\ \A v \in Sender : try[v].event = x => v = w
         /\ Pending(x) => out[x].leased
         /\ try[w].pc # "mark" => taken[x] = 0
BY DEF OutboxInv, EventOK, SoundOK, AttemptOK

\* A free row has no attempt that is not in doubt.
LEMMA FreeIsQuiet ==
  ASSUME OutboxInv, NEW x \in Event, Free(x)
  PROVE  Events!Quiet(x)
BY SoundAttempt DEF Events!Quiet, Attempted, Free

\* The attempt of a worker ends.
LEMMA AttemptEnds ==
  ASSUME OutboxInv, NEW w \in Sender, try[w].event \in Event, Finish(w), UNCHANGED taken
  PROVE  Events!End(try[w].event)
<1>1. OutboxTypeOK /\ NoTry.event = NoOne
  BY DEF OutboxInv, NoTry
<1>2. /\ try[w].event \in Attempted
      /\ Attempted' = Attempted \ {try[w].event} \/ Attempted' = Attempted
      /\ (\A v \in Sender : try[v].event = try[w].event => v = w) => Attempted' = Attempted \ {try[w].event}
  BY <1>1, AttemptsMove DEF Finish
<1>3. try[w].event \notin unproven => Attempted' = Attempted \ {try[w].event}
  BY <1>2, SoundAttempt
<1>4. QED BY <1>2, <1>3 DEF Events!End, Attempted

\* A worker handles the events of its own outbox.
KindsInv ==
  \A w \in Sender :
    /\ todo[w] \subseteq Kind(w)
    /\ try[w].event # NoOne => try[w].event \in Kind(w)
    /\ try[w].pc = "settings" => w \in NoteWorker

LEMMA KindsStep == OutboxTypeOK /\ KindsInv /\ [OutboxNext]_outboxVars => KindsInv'
<1> SUFFICES ASSUME OutboxTypeOK, KindsInv, [OutboxNext]_outboxVars, NEW w \in Sender
             PROVE  /\ todo'[w] \subseteq Kind(w)
                    /\ try'[w].event # NoOne => try'[w].event \in Kind(w)
                    /\ try'[w].pc = "settings" => w \in NoteWorker
  BY DEF KindsInv, Kind
<1>a. /\ todo[w] \subseteq Kind(w)
      /\ try[w].event # NoOne => try[w].event \in Kind(w)
      /\ try[w].pc = "settings" => w \in NoteWorker
  BY DEF KindsInv
<1>b. try \in [Sender -> Try] /\ todo \in [Sender -> SUBSET Event]
  BY DEF OutboxTypeOK
<1>1. ASSUME UNCHANGED <<todo, try>>
      PROVE  /\ todo'[w] \subseteq Kind(w)
             /\ try'[w].event # NoOne => try'[w].event \in Kind(w)
             /\ try'[w].pc = "settings" => w \in NoteWorker
  BY <1>a, <1>1
<1>2. ASSUME NEW v \in Sender, WorkerStep(v) \/ OutcomeFails(v) \/ StopWorker(v)
      PROVE  /\ todo'[w] \subseteq Kind(w)
             /\ try'[w].event # NoOne => try'[w].event \in Kind(w)
             /\ try'[w].pc = "settings" => w \in NoteWorker
  <2>1. /\ w # v => todo'[w] = todo[w] /\ try'[w] = try[w]
        /\ todo'[v] \subseteq todo[v] \/ ListOutbox(v)
    <3>1. CASE ListOutbox(v)
      BY <3>1, <1>b DEF ListOutbox
    <3>2. ASSUME NEW e \in Event, ClaimOut(v, e)
          PROVE  todo'[v] \subseteq todo[v] /\ (w # v => todo'[w] = todo[w] /\ try'[w] = try[w])
      BY <3>2, <1>b DEF ClaimOut
    <3>3. ASSUME todo' = todo \/ todo' = [todo EXCEPT ![v] = {}],
                 w # v => try'[w] = try[w]
          PROVE  todo'[v] \subseteq todo[v] /\ (w # v => todo'[w] = todo[w] /\ try'[w] = try[w])
      BY <3>3, <1>b
    <3>4. CASE ReadSettings(v) \/ MarkOut(v) \/ FailOut(v) \/ OutcomeFails(v)
      BY <3>3, <3>4, <1>b DEF ReadSettings, MarkOut, FailOut, OutcomeFails, Step, Finish, Forget
    <3>5. CASE StopWorker(v)
      BY <3>3, <3>5, <1>b DEF StopWorker, Finish, Forget
    <3>6. ASSUME NEW o \in Outcome, SendRequest(v, o)
          PROVE  todo'[v] \subseteq todo[v] /\ (w # v => todo'[w] = todo[w] /\ try'[w] = try[w])
      BY <3>3, <3>6, <1>b DEF SendRequest, Step
    <3>7. QED BY <1>2, <3>1, <3>2, <3>4, <3>5, <3>6 DEF WorkerStep
  <2>2. ListOutbox(v) => todo'[v] \subseteq Kind(v)
    BY <1>b DEF ListOutbox
  <2>3. /\ \/ try'[v].event = try[v].event
           \/ try'[v].event = NoOne
           \/ try'[v].event \in todo[v]
        /\ try'[v].pc = "settings" => try[v].pc = "settings" \/ v \in NoteWorker
    <3>1. CASE ListOutbox(v)
      BY <3>1 DEF ListOutbox
    <3>2. ASSUME NEW e \in Event, ClaimOut(v, e), Takeable(e)
          PROVE  try'[v].event \in todo[v] /\ (try'[v].pc = "settings" => v \in NoteWorker)
      BY <3>2, <1>b DEF ClaimOut
    <3>3. ASSUME NEW e \in Event, ClaimOut(v, e), ~Takeable(e) PROVE try' = try
      BY <3>3 DEF ClaimOut
    <3>4. ASSUME NEW pc, Step(v, pc) PROVE try'[v].event = try[v].event /\ try'[v].pc = pc
      BY <3>4, <1>b DEF Step, Try
    <3>5. CASE Finish(v)
      BY <3>5, <1>b DEF Finish, NoTry
    <3>6. ReadSettings(v) => Step(v, "send") \/ Finish(v)
      BY DEF ReadSettings
    <3>7. MarkOut(v) \/ FailOut(v) \/ OutcomeFails(v) \/ StopWorker(v) => Finish(v)
      BY DEF MarkOut, FailOut, OutcomeFails, StopWorker, Forget
    <3>8. ASSUME NEW o \in Outcome, SendRequest(v, o) PROVE \E pc : pc # "settings" /\ Step(v, pc)
      BY <3>8 DEF SendRequest, Outcome
    <3>9. QED BY <1>2, <3>1, <3>2, <3>3, <3>4, <3>5, <3>6, <3>7, <3>8 DEF WorkerStep
  <2>4. try'[v].pc = "settings" => try[v].pc = "settings" \/ v \in NoteWorker
    BY <2>3
  <2>5. CASE w # v
    BY <1>a, <2>1, <2>5
  <2>6. CASE w = v
    <3>1. todo'[w] \subseteq Kind(w)
      BY <1>a, <2>1, <2>2, <2>6
    <3>2. try'[w].event # NoOne => try'[w].event \in Kind(w)
      BY <1>a, <2>3, <2>6
    <3>3. QED BY <1>a, <2>4, <2>6, <3>1, <3>2
  <2>7. QED BY <2>5, <2>6
<1>3. \/ UNCHANGED <<todo, try>>
      \/ \E v \in Sender : WorkerStep(v) \/ OutcomeFails(v) \/ StopWorker(v)
  BY DEF OutboxNext, EnqueueHook, CheckConfigured, EnqueueNote, RetryOut, CancelOut, PruneOut, OutDue,
      OutLeaseEnds, SaveSettings, DeleteSettings, DropMailboxRows, DropUserRows, outboxVars
<1>4. QED BY <1>1, <1>2, <1>3

\* What the refinement rests on.
Promised == OutboxInv /\ KindsInv

LEMMA PromisedAlways == OutboxSpec => []Promised
<1>1. OutboxInit => KindsInv
  BY DEF OutboxInit, KindsInv, NoTry
<1>2. OutboxInv => OutboxTypeOK
  BY DEF OutboxInv
<1>3. QED BY <1>1, <1>2, KindsStep, OutboxAlways, PTL DEF OutboxSpec, Promised

-----------------------------------------------------------------------------
(* A step of an event is a step of its lifecycle *)

\* The row and nothing else of an event is written outside an attempt.
LEMMA RowStepsRefine ==
  ASSUME Promised, NEW x \in Event,
         \/ EnqueueHook(x) \/ (EnqueueNote(x) /\ settings # "gone") \/ RetryOut(x) \/ CancelOut(x)
         \/ PruneOut(x) \/ OutDue(x) \/ OutLeaseEnds(x)
  PROVE  Events!Step(x) \/ UNCHANGED Events!vars
<1>a. OutboxTypeOK /\ out[x] \in OutRow /\ EventOK(x)
  BY DEF Promised, OutboxInv, OutboxTypeOK
<1>b. MaxTries \in Nat /\ MaxTries > 0
  BY OutboxAssumption DEF OutboxAssumption
<1>c. UNCHANGED <<taken, try>> /\ Attempted' = Attempted
  BY DEF EnqueueHook, EnqueueNote, RetryOut, CancelOut, PruneOut, OutDue, OutLeaseEnds, Attempted
<1>d. NewOut \in OutRow /\ GoneOut \in OutRow /\ RearmedOut(out[x]) \in OutRow
  BY <1>a, OutRowHelpers
<1>1. CASE EnqueueHook(x) \/ (EnqueueNote(x) /\ settings # "gone")
  <2>1. out[x].status = "none" /\ out' = [out EXCEPT ![x] = NewOut] /\ UNCHANGED unproven
    BY <1>1, <1>a DEF EnqueueHook, EnqueueNote, EventOK, FreshOK
  <2>2. NewOut.status = "pending" /\ NewOut.tries # MaxTries
    BY <1>b DEF NewOut
  <2>3. StageOf(out[x]) = "absent" /\ StageOf(NewOut) = "pending"
    BY <2>1, <2>2, <1>a, <1>d, StageOfRow
  <2>4. Stages[x] = "absent" /\ Stages' = [Stages EXCEPT ![x] = "pending"]
    BY <2>1, <2>3, <1>a, OneStage
  <2>5. Events!Raise(x)
    BY <2>1, <2>4, <1>c DEF Events!Raise, Events!Move, Stages, Attempted
  <2>6. QED BY <2>5 DEF Events!Step
<1>2. CASE RetryOut(x) \/ CancelOut(x)
  <2>1. Free(x) /\ UNCHANGED unproven /\ Events!Quiet(x)
    BY <1>2, FreeIsQuiet DEF RetryOut, CancelOut, Promised
  <2>2. CASE RetryOut(x)
    <3>1. out[x].status = "pending" /\ out[x].tries = MaxTries /\ ~out[x].leased
      BY <2>1, <2>2, <1>a, <1>b DEF RetryOut, Free, Pending, OutRow
    <3>2. RearmedOut(out[x]).status = "pending" /\ RearmedOut(out[x]).tries # MaxTries
      BY <3>1, <1>a, <1>b DEF RearmedOut, Freed, OutRow
    <3>3. StageOf(out[x]) = "spent" /\ StageOf(RearmedOut(out[x])) = "pending"
      BY <3>1, <3>2, <1>a, <1>d, StageOfRow
    <3>4. out' = [out EXCEPT ![x] = RearmedOut(out[x])]
      BY <2>2, <1>a DEF RetryOut, OutboxTypeOK
    <3>5. Events!Rearm(x)
      BY <2>1, <3>3, <3>4, <1>a, OneStage DEF Events!Rearm, Events!Move, Stages
    <3>6. QED BY <2>1, <3>5, <1>c DEF Events!Step, Attempted
  <2>3. CASE CancelOut(x)
    <3>1. StageOf(out[x]) \in {"pending", "spent"} /\ StageOf(GoneOut) = "gone"
      BY <2>1, <1>a, <1>d, StageOfRow DEF Free, Pending, GoneOut
    <3>2. Events!Cancel(x)
      BY <2>1, <2>3, <3>1, <1>a, OneStage DEF CancelOut, Events!Cancel, Events!Move, Events!Waiting, Stages
    <3>3. QED BY <2>1, <3>2, <1>c DEF Events!Step, Attempted
  <2>4. QED BY <1>2, <2>2, <2>3
<1>3. CASE PruneOut(x)
  <2>1. StageOf(out[x]) \in {"spent", "delivered"}
    <3>1. CASE out[x].status = "delivered"
      BY <3>1, <1>a, StageOfRow
    <3>2. CASE Free(x) /\ out[x].tries >= MaxTries
      BY <3>2, <1>a, <1>b, StageOfRow DEF Free, Pending, OutRow
    <3>3. QED BY <1>3, <3>1, <3>2 DEF PruneOut
  <2>2. StageOf(GoneOut) = "gone" /\ x \notin Attempted
    BY <1>3, <1>d, StageOfRow DEF PruneOut, GoneOut, Attempted
  <2>3. Events!Prune(x)
    BY <1>3, <2>1, <2>2, <1>a, OneStage DEF PruneOut, Events!Prune, Events!Move, Stages, Attempted
  <2>4. QED BY <1>3, <2>3, <1>c DEF Events!Step, PruneOut, Attempted
<1>4. CASE OutDue(x)
  <2>1. PICK r : r = [out[x] EXCEPT !.due = TRUE]
    OBVIOUS
  <2>2. out' = [out EXCEPT ![x] = r] /\ UNCHANGED unproven
    BY <1>4, <2>1, <1>a DEF OutDue, OutboxTypeOK
  <2>3. r.status = out[x].status /\ r.tries = out[x].tries /\ r.leased = out[x].leased
    BY <2>1, <1>a DEF OutRow
  <2>4. StageOf(r) = StageOf(out[x])
    BY <2>3 DEF StageOf
  <2>5. UNCHANGED Events!vars
    BY <2>2, <2>4, <1>a, <1>c, OneStage DEF Events!vars, Stages, Attempted
  <2>6. QED BY <2>5
<1>5. CASE OutLeaseEnds(x)
  <2>1. PICK r : r = [out[x] EXCEPT !.leased = FALSE]
    OBVIOUS
  <2>2. out' = [out EXCEPT ![x] = r] /\ unproven' = IF x \in Attempted THEN unproven \cup {x} ELSE unproven
    BY <1>5, <2>1, <1>a DEF OutLeaseEnds, OutboxTypeOK, Attempted
  <2>3. r \in OutRow /\ r.status = "pending" /\ out[x].status = "pending" /\ out[x].leased
    BY <1>5, <2>1, <1>a DEF OutRow, OutLeaseEnds, Pending
  <2>4. StageOf(out[x]) = "pending" /\ StageOf(r) \in {"pending", "spent"}
    BY <2>3, <1>a, StageOfRow
  <2>5. Stages' = [Stages EXCEPT ![x] = "spent"] \/ Stages' = Stages
    BY <2>2, <2>4, <1>a, OneStage
  <2>6. Stages[x] = "pending"
    BY <2>4 DEF Stages
  <2>7. Events!Expire(x)
    BY <2>2, <2>5, <2>6, <1>c DEF Events!Expire, Events!Move, Stages, Attempted
  <2>8. QED BY <2>7 DEF Events!Step
<1>6. QED BY <1>1, <1>2, <1>3, <1>4, <1>5

\* A claim begins an attempt, or finds the row taken.
LEMMA ClaimRefines ==
  ASSUME Promised, NEW w \in Sender, NEW x \in Event, ClaimOut(w, x)
  PROVE  Events!Step(x) \/ UNCHANGED Events!vars
<1>a. OutboxTypeOK /\ out[x] \in OutRow /\ try[w].event = NoOne
  BY DEF Promised, OutboxInv, OutboxTypeOK, ClaimOut
<1>b. UNCHANGED <<taken, unproven>>
  BY DEF ClaimOut
<1>1. CASE ~Takeable(x)
  BY <1>1, <1>b DEF ClaimOut, Events!vars, Attempted
<1>2. CASE Takeable(x)
  <2>1. PICK r : r = [out[x] EXCEPT !.tries = @ + 1, !.holder = w, !.leased = TRUE]
    OBVIOUS
  <2>2. out' = [out EXCEPT ![x] = r]
    BY <1>2, <2>1, <1>a DEF ClaimOut, OutboxTypeOK
  <2>a. PICK a : a = [pc |-> IF w \in NoteWorker THEN "settings" ELSE "send", event |-> x]
    OBVIOUS
  <2>3. try' = [try EXCEPT ![w] = a] /\ a.event = x
    BY <1>2, <2>a DEF ClaimOut
  <2>4. out[x].status = "pending" /\ out[x].tries # MaxTries /\ out[x].tries \in Nat /\ MaxTries \in Nat
    BY <1>2, <1>a, OutboxAssumption DEF Takeable, Free, Pending, OutRow, OutboxAssumption
  <2>5. r.status = "pending" /\ r.leased
    BY <2>1, <2>4, <1>a DEF OutRow
  <2>6. StageOf(out[x]) = "pending" /\ StageOf(r) = "pending"
    BY <2>4, <2>5 DEF StageOf
  <2>7. Stages' = Stages /\ Stages[x] = "pending"
    BY <2>2, <2>6, <1>a, OneStage
  <2>8. Events!Quiet(x)
    BY <1>2, FreeIsQuiet DEF Takeable, Promised
  <2>9. Attempted' = Attempted \cup {x}
    BY <2>3, <1>a, AttemptsMove
  <2>10. Events!Begin(x)
    BY <2>7, <2>8, <2>9, <1>b DEF Events!Begin, Stages, Attempted
  <2>11. QED BY <2>10 DEF Events!Step
<1>3. QED BY <1>1, <1>2

\* A request that is taken is an acceptance, another one is invisible.
LEMMA RequestRefines ==
  ASSUME Promised, NEW w \in Sender, NEW o \in Outcome, SendRequest(w, o)
  PROVE  Events!Step(try[w].event) \/ UNCHANGED Events!vars
<1>a. /\ OutboxTypeOK /\ OutboxInv /\ try[w].event \in Event /\ try[w].pc = "send"
      /\ taken[try[w].event] \in 0 .. 2
  BY DEF Promised, OutboxInv, OutboxTypeOK, SendRequest, Try
<1>b. PICK x \in Event : x = try[w].event
  BY <1>a
<1>c. PICK pc : try' = [try EXCEPT ![w] = [try[w] EXCEPT !.pc = pc]]
  BY <1>a DEF SendRequest, Step, OutboxTypeOK
<1>d. [try[w] EXCEPT !.pc = pc].event = try[w].event
  BY <1>a DEF OutboxTypeOK, Try
<1>e. Attempted' = Attempted /\ x \in Attempted
  BY <1>a, <1>b, <1>c, <1>d, AttemptsMove DEF Attempted
<1>f. UNCHANGED out /\ Stages' = Stages
  BY DEF SendRequest, Stages
<1>1. CASE o \in {"mark", "lost"}
  <2>1. taken' = [taken EXCEPT ![x] = IF taken[x] = 0 THEN 1 ELSE 2]
    <3>1. CASE taken[x] < 2
      <4>1. taken' = [taken EXCEPT ![x] = taken[x] + 1]
        BY <1>1, <3>1, <1>a, <1>b DEF SendRequest, OutboxTypeOK
      <4>2. taken[x] + 1 = IF taken[x] = 0 THEN 1 ELSE 2
        BY <3>1, <1>a, <1>b
      <4>3. QED BY <4>1, <4>2
    <3>2. CASE ~(taken[x] < 2)
      <4>1. taken' = taken /\ taken[x] = 2
        BY <3>2, <1>a, <1>b DEF SendRequest
      <4>2. QED BY <4>1, <1>a DEF OutboxTypeOK
    <3>3. QED BY <3>1, <3>2
  <2>2. taken[x] = 0 \/ x \in unproven
    BY <1>a, <1>b, SoundAttempt
  <2>3. Events!Doubt(x)
    BY <1>b DEF SendRequest, Events!Doubt
  <2>4. Events!Accept(x)
    BY <2>1, <2>2, <2>3, <1>e, <1>f DEF Events!Accept, Stages, Attempted
  <2>5. QED BY <2>4, <1>b DEF Events!Step
<1>2. CASE o \notin {"mark", "lost"}
  <2>1. UNCHANGED <<taken, unproven>>
    BY <1>2 DEF SendRequest
  <2>2. QED BY <2>1, <1>e, <1>f DEF Events!vars, Stages, Attempted
<1>3. QED BY <1>1, <1>2

\* The attempt of a worker ends in an outcome, or without a trace.
LEMMA EndingRefines ==
  ASSUME Promised, NEW w \in Sender,
         ReadSettings(w) \/ MarkOut(w) \/ FailOut(w) \/ OutcomeFails(w) \/ StopWorker(w)
  PROVE  (try[w].event \in Event /\ Events!Step(try[w].event)) \/ UNCHANGED Events!vars
<1>a. OutboxTypeOK /\ OutboxInv /\ UNCHANGED taken
  BY DEF Promised, OutboxInv, ReadSettings, MarkOut, FailOut, OutcomeFails, StopWorker
<1>1. CASE ReadSettings(w) /\ settings = "on"
  <2>1. try' = [try EXCEPT ![w] = [try[w] EXCEPT !.pc = "send"]] /\ UNCHANGED <<out, unproven>>
    BY <1>1, <1>a DEF ReadSettings, Step, OutboxTypeOK
  <2>2. [try[w] EXCEPT !.pc = "send"].event = try[w].event
    BY <1>a DEF OutboxTypeOK, Try
  <2>r. PICK a : a = [try[w] EXCEPT !.pc = "send"]
    OBVIOUS
  <2>3. Attempted' = Attempted
    BY <2>1, <2>2, <2>r, <1>a, AttemptsMove
  <2>4. QED BY <2>1, <2>3, <1>a DEF Events!vars, Attempted
<1>2. CASE try[w].event = NoOne
  <2>1. StopWorker(w)
    BY <1>2, <1>a DEF ReadSettings, MarkOut, FailOut, OutcomeFails, OutboxTypeOK
  <2>2. try' = [try EXCEPT ![w] = NoTry] /\ UNCHANGED <<out, unproven>>
    BY <2>1, <1>2, <1>a DEF StopWorker, Forget, Finish, OutboxTypeOK
  <2>n. NoTry.event = try[w].event
    BY <1>2 DEF NoTry
  <2>3. Attempted' = Attempted
    BY <2>2, <2>n, <1>a, AttemptsMove
  <2>4. QED BY <2>2, <2>3, <1>a DEF Events!vars, Attempted
<1>3. CASE try[w].event # NoOne /\ ~(ReadSettings(w) /\ settings = "on")
  <2>a. PICK x \in Event : x = try[w].event
    BY <1>3, <1>a DEF OutboxTypeOK, Try
  <2>b. Finish(w)
    BY <1>3 DEF ReadSettings, MarkOut, FailOut, OutcomeFails, StopWorker, Forget
  <2>c. Events!End(x)
    BY <2>a, <2>b, <1>a, AttemptEnds
  <2>d. out[x] \in OutRow /\ EventOK(x) /\ Stages[x] = StageOf(out[x])
    BY <1>a DEF OutboxInv, OutboxTypeOK, Stages
  <2>e. ASSUME NEW r, out' = [out EXCEPT ![x] = r]
        PROVE  Stages' = [Stages EXCEPT ![x] = StageOf(r)] /\ (StageOf(r) = StageOf(out[x]) => Stages' = Stages)
    BY <2>e, <1>a, OneStage
  <2>1. ASSUME Stages' = Stages, Events!Doubt(x) PROVE Events!Step(x)
    <3>1. Events!NoOutcome(x)
      BY <2>1 DEF Events!NoOutcome, Stages
    <3>2. QED BY <3>1, <2>c DEF Events!Step
  <2>2. CASE UNCHANGED out
    <3>1. Events!Doubt(x)
      BY <1>3, <2>a DEF ReadSettings, MarkOut, FailOut, OutcomeFails, StopWorker, Events!Doubt
    <3>2. QED BY <2>1, <2>2, <2>a, <3>1 DEF Stages
  <2>3. CASE Holds(w) /\ ~OutcomeFails(w) /\ ~StopWorker(w)
    <3>a. UNCHANGED unproven /\ Events!Doubt(x)
      BY <1>3, <2>3 DEF ReadSettings, MarkOut, FailOut, Events!Doubt
    <3>b. out[x].status = "pending" /\ StageOf(out[x]) \in {"pending", "spent"}
      BY <2>3, <2>a, <2>d, StageOfRow DEF Holds, Pending
    <3>1. CASE MarkOut(w)
      <4>1. PICK r : r = [Freed(out[x]) EXCEPT !.status = "delivered"]
        OBVIOUS
      <4>2. out' = [out EXCEPT ![x] = r]
        BY <2>3, <2>a, <3>1, <4>1, <1>a DEF MarkOut, OutboxTypeOK
      <4>3. r \in OutRow /\ r.status = "delivered"
        BY <4>1, <2>d, OutRowHelpers DEF Freed, OutRow
      <4>4. StageOf(r) = "delivered"
        BY <4>3, StageOfRow
      <4>5. Stages' = [Stages EXCEPT ![x] = "delivered"] /\ Stages[x] \in {"pending", "spent"}
        BY <4>2, <4>4, <2>d, <2>e, <3>b
      <4>6. taken[x] > 0
        BY <2>a, <2>d, <3>1 DEF EventOK, TakenOK, MarkOut
      <4>7. Events!Deliver(x)
        BY <4>5, <4>6, <3>a DEF Events!Deliver, Events!Move, Events!Waiting, Stages
      <4>8. QED BY <4>7, <2>a, <2>c DEF Events!Step
    <3>2. CASE FailOut(w)
      <4>1. PICK r : r = FailedOut(out[x], try[w].pc)
        OBVIOUS
      <4>2. out' = [out EXCEPT ![x] = r]
        BY <2>3, <2>a, <3>2, <4>1, <1>a DEF FailOut, OutboxTypeOK
      <4>f. /\ r = [Freed(out[x]) EXCEPT !.due = FALSE, !.tries = r.tries]
            /\ r.tries = out[x].tries \/ r.tries = MaxTries
        BY <4>1, <2>d DEF FailedOut, Freed, OutRow
      <4>3. /\ r \in OutRow /\ r.status = "pending" /\ ~r.leased
            /\ r.tries = out[x].tries \/ r.tries = MaxTries
        <5>1. r \in OutRow
          <6>1. try[w].pc \in {"fail", "drop"}
            BY <3>2 DEF FailOut
          <6>2. QED BY <4>1, <6>1, <2>d, OutRowHelpers
        <5>2. r.status = "pending" /\ ~r.leased
          BY <4>f, <2>d, <3>b DEF Freed, OutRow
        <5>3. QED BY <5>1, <5>2, <4>f
      <4>4. StageOf(out[x]) = "spent" => StageOf(r) = "spent"
        BY <4>3, <2>d, <3>b, StageOfRow
      <4>5. StageOf(r) \in {"pending", "spent"}
        BY <4>3, StageOfRow
      <4>6. CASE StageOf(r) = StageOf(out[x])
        BY <4>2, <4>6, <2>a, <2>e, <2>1, <3>a
      <4>7. CASE StageOf(r) # StageOf(out[x])
        <5>1. Stages[x] = "pending" /\ Stages' = [Stages EXCEPT ![x] = "spent"]
          BY <4>2, <4>4, <4>5, <4>7, <2>d, <2>e, <3>b
        <5>2. Events!Exhaust(x)
          BY <5>1, <3>a DEF Events!Exhaust, Events!Move, Stages
        <5>3. QED BY <5>2, <2>a, <2>c DEF Events!Step
      <4>8. QED BY <4>6, <4>7
    <3>3. CASE ReadSettings(w) /\ settings # "on"
      <4>1. out' = [out EXCEPT ![x] = GoneOut] /\ w \in NoteWorker
        BY <2>3, <2>a, <3>3 DEF ReadSettings, Promised, KindsInv
      <4>2. x \in Note
        BY <1>3, <2>a, <4>1, OutboxAssumption DEF Promised, KindsInv, Kind, OutboxAssumption
      <4>3. StageOf(GoneOut) = "gone"
        BY DEF StageOf, GoneOut
      <4>4. Stages' = [Stages EXCEPT ![x] = "gone"] /\ Stages[x] \in {"pending", "spent"}
        BY <4>1, <4>3, <2>d, <2>e, <3>b
      <4>5. Events!Dismiss(x)
        BY <4>2, <4>4, <3>a DEF Events!Dismiss, Events!Move, Events!Waiting, Stages
      <4>6. QED BY <4>5, <2>a, <2>c DEF Events!Step
    <3>4. QED BY <1>3, <2>3, <3>1, <3>2, <3>3
  <2>4. UNCHANGED out \/ (Holds(w) /\ ~OutcomeFails(w) /\ ~StopWorker(w))
    BY <1>3 DEF ReadSettings, MarkOut, FailOut, OutcomeFails, StopWorker
  <2>5. QED BY <2>2, <2>3, <2>4
<1>4. QED BY <1>1, <1>2, <1>3

\* New settings withdraw the notifications that wait.
LEMMA SettingsRefine ==
  ASSUME Promised, UNCHANGED <<try, taken, unproven>>, out' = WithoutPendingNotes
  PROVE  Events!Withdraw
<1>a. OutboxTypeOK
  BY DEF Promised, OutboxInv
<1>1. ASSUME NEW e \in Event
      PROVE  StageOf(out'[e]) = IF e \in Note /\ StageOf(out[e]) \in {"pending", "spent"} THEN "gone" ELSE StageOf(out[e])
  <2>1. out[e] \in OutRow /\ out'[e] = IF e \in Note /\ Pending(e) THEN GoneOut ELSE out[e]
    BY <1>a DEF WithoutPendingNotes, OutboxTypeOK
  <2>2. StageOf(GoneOut) = "gone"
    BY DEF StageOf, GoneOut
  <2>3. QED BY <2>1, <2>2, StageOfRow DEF Pending
<1>2. Stages' = [e \in Event |-> IF e \in Note /\ Stages[e] \in {"pending", "spent"} THEN "gone" ELSE Stages[e]]
  BY <1>1 DEF Stages, StageOf
<1>3. Attempted' = Attempted
  BY DEF Attempted
<1>4. QED BY <1>2, <1>3 DEF Events!Withdraw, Events!Waiting, Stages, Attempted

\* Rows go with their mailbox or user, whoever is at work on them.
LEMMA RemovalRefines ==
  ASSUME Promised, NEW S, S \subseteq {e \in Event : Stored(e)},
         UNCHANGED <<try, taken, unproven>>, out' = WithoutRows(S)
  PROVE  Events!Remove(S)
<1>a. OutboxTypeOK
  BY DEF Promised, OutboxInv
<1>1. ASSUME NEW e \in Event
      PROVE  StageOf(out'[e]) = IF e \in S THEN "removed" ELSE StageOf(out[e])
  <2>1. out'[e] = IF e \in S THEN RemovedOut ELSE out[e]
    BY DEF WithoutRows
  <2>2. StageOf(RemovedOut) = "removed"
    BY DEF StageOf, RemovedOut, GoneOut
  <2>3. QED BY <2>1, <2>2
<1>2. Stages' = [e \in Event |-> IF e \in S THEN "removed" ELSE Stages[e]]
  BY <1>1 DEF Stages, StageOf
<1>3. ASSUME NEW e \in S PROVE e \in Event /\ Stages[e] \in {"pending", "spent", "delivered"}
  <2>1. e \in Event /\ out[e] \in OutRow /\ out[e].status \in {"pending", "delivered"}
    BY <1>a DEF OutboxTypeOK, Stored
  <2>2. QED BY <2>1, StageOfRow DEF Stages
<1>4. Attempted' = Attempted
  BY DEF Attempted
<1>5. QED BY <1>2, <1>3, <1>4 DEF Events!Remove, Events!Waiting, Stages, Attempted

\* Every step of the outboxes is one of the lifecycle of an event, of the change
\* of the settings, a removal, or invisible.
LEMMA OutboxStepRefines == Promised /\ [OutboxNext]_outboxVars => [Events!Next]_(Events!vars)
<1> SUFFICES ASSUME Promised, [OutboxNext]_outboxVars PROVE Events!Next \/ UNCHANGED Events!vars
  OBVIOUS
<1>1. ASSUME NEW x \in Event, Events!Step(x) \/ UNCHANGED Events!vars
      PROVE  Events!Next \/ UNCHANGED Events!vars
  BY <1>1 DEF Events!Next
<1>2. ASSUME UNCHANGED <<out, try, taken, unproven>> PROVE UNCHANGED Events!vars
  BY <1>2 DEF Events!vars, Attempted
<1>3. ASSUME NEW x \in Event,
             \/ EnqueueHook(x) \/ CheckConfigured(x) \/ EnqueueNote(x) \/ RetryOut(x) \/ CancelOut(x)
             \/ PruneOut(x) \/ OutDue(x) \/ OutLeaseEnds(x)
      PROVE  Events!Next \/ UNCHANGED Events!vars
  <2>1. CASE CheckConfigured(x) \/ (EnqueueNote(x) /\ settings = "gone")
    BY <2>1, <1>2 DEF CheckConfigured, EnqueueNote
  <2>2. CASE ~(CheckConfigured(x) \/ (EnqueueNote(x) /\ settings = "gone"))
    BY <2>2, <1>1, <1>3, RowStepsRefine
  <2>3. QED BY <2>1, <2>2
<1>4. ASSUME NEW w \in Sender, WorkerStep(w) \/ OutcomeFails(w) \/ StopWorker(w)
      PROVE  Events!Next \/ UNCHANGED Events!vars
  <2>1. CASE ListOutbox(w)
    BY <2>1, <1>2 DEF ListOutbox
  <2>2. ASSUME NEW x \in Event, ClaimOut(w, x) PROVE Events!Next \/ UNCHANGED Events!vars
    BY <2>2, <1>1, ClaimRefines
  <2>3. ASSUME NEW o \in Outcome, SendRequest(w, o) PROVE Events!Next \/ UNCHANGED Events!vars
    <3>1. try[w].event \in Event
      BY <2>3 DEF Promised, OutboxInv, OutboxTypeOK, SendRequest, Try
    <3>2. QED BY <2>3, <3>1, <1>1, RequestRefines
  <2>4. CASE ReadSettings(w) \/ MarkOut(w) \/ FailOut(w) \/ OutcomeFails(w) \/ StopWorker(w)
    BY <2>4, <1>1, EndingRefines
  <2>5. QED BY <1>4, <2>1, <2>2, <2>3, <2>4 DEF WorkerStep
<1>5. ASSUME NEW value \in {"on", "off"}, SaveSettings(value) PROVE Events!Next
  BY <1>5, SettingsRefine DEF SaveSettings, Events!Next
<1>6. CASE DeleteSettings
  BY <1>6, SettingsRefine DEF DeleteSettings, Events!Next
<1>7. ASSUME NEW S \in SUBSET Hook, DropMailboxRows(S) \/ DropUserRows(S) PROVE Events!Next
  <2>1. CASE DropMailboxRows(S)
    <3>1. S \subseteq {e \in Event : Stored(e)} /\ S \in SUBSET Event
      BY <2>1 DEF DropMailboxRows, Event
    <3>2. Events!Remove(S)
      BY <2>1, <3>1, RemovalRefines DEF DropMailboxRows
    <3>3. QED BY <3>1, <3>2 DEF Events!Next
  <2>2. CASE DropUserRows(S)
    <3> DEFINE All == S \cup {e \in Note : Stored(e)}
    <3>1. All \subseteq {e \in Event : Stored(e)} /\ All \in SUBSET Event
      BY <2>2 DEF DropUserRows, Event
    <3>2. Events!Remove(All)
      BY <2>2, <3>1, RemovalRefines DEF DropUserRows
    <3>3. QED BY <3>1, <3>2 DEF Events!Next
  <2>3. QED BY <1>7, <2>1, <2>2
<1>8. CASE UNCHANGED outboxVars
  BY <1>8, <1>2 DEF outboxVars
<1>9. QED BY <1>3, <1>4, <1>5, <1>6, <1>7, <1>8 DEF OutboxNext

\* For any number of events and workers, every behaviour of the outboxes is one of
\* the lifecycle: no attempt is begun for an event that has one under way, was
\* delivered, canceled, withdrawn or removed with its mailbox or user, unless
\* something was lost or a lease overrun, and not even then does a late report
\* bring such an event back.
THEOREM OutboxesImplementLifecycle == OutboxSpec => OutboxImplementsLifecycle
<1>1. OutboxInit => Events!Init
  <2> SUFFICES ASSUME OutboxInit PROVE Events!Init
    OBVIOUS
  <2>1. \A e \in Event : out[e].status = "none"
    BY DEF OutboxInit, GoneOut
  <2>2. \A e \in Event : StageOf(out[e]) = "absent"
    BY <2>1 DEF StageOf
  <2>3. \A w \in Sender : \A e \in Event : try[w].event # e
    BY OutboxAssumption DEF OutboxInit, NoTry, OutboxAssumption
  <2>4. Attempted = {}
    BY <2>3 DEF Attempted
  <2>5. QED BY <2>2, <2>4 DEF OutboxInit, Events!Init, Attempted
<1>2. QED BY <1>1, PromisedAlways, OutboxStepRefines, PTL
         DEF OutboxSpec, OutboxImplementsLifecycle, Events!Spec

-----------------------------------------------------------------------------
(* Forwarding: the inductive invariant *)

\* Steps of a request for a code; it may still write the value of its address.
Asking == {"save", "mail", "undo"}

\* What a request knows of the value it has read, made being the codes so far.
RequestGood(r, made) ==
  /\ r.pc \in Asking => ~r.saw.verified
  /\ r.pc \in {"mail", "undo"} => r.own > 0
  /\ r.pc = "swap" => /\ r.saw.kept /\ ~r.saw.verified /\ r.saw.code > 0
                      /\ r.saw.guesses < MaxGuesses
  /\ r.saw.code <= made

RequestsOK == \A h \in FwdRequest : RequestGood(req[h], codes)

\* A verified address was proved, and only codes that were made are stored.
AddressOK(a) == (stored[a].verified => a \in proved) /\ stored[a].code <= codes

\* A code that was not written back is at one address, whose counter has every
\* wrong guess of it.
CodeOK(c) ==
  /\ c > codes => wrong[c] = 0
  /\ c \notin undone =>
       /\ wrong[c] <= MaxGuesses
       /\ \A a, b \in Addr : stored[a].code = c /\ stored[b].code = c => a = b
       /\ \A a \in Addr : stored[a].code = c => wrong[c] <= stored[a].guesses

\* Addresses that have a row, or whose request may still write one.
AskingReq == {h \in FwdRequest : req[h].pc \in Asking}
ClaimedAddr == KeptAddr \cup {req[h].addr : h \in AskingReq}
ClaimsOK == Cardinality(ClaimedAddr) <= MaxAddresses + Cardinality(FwdRequest) - 1

ForwardingInv ==
  /\ ForwardingTypeOK /\ RequestsOK
  /\ \A a \in Addr : AddressOK(a)
  /\ \A c \in 1 .. MaxCodes : CodeOK(c)
  /\ ForwardedWereProved /\ ClaimsOK

-----------------------------------------------------------------------------
(* Values *)

\* The values the handlers write.
LEMMA ValueFacts ==
  /\ NoValue \in FwdValue /\ NoValue.code = 0 /\ ~NoValue.verified /\ ~NoValue.kept
  /\ VerifiedAddr \in FwdValue /\ VerifiedAddr.code = 0
  /\ \A c \in FwdCode : /\ UnprovedAddr(c) \in FwdValue /\ UnprovedAddr(c).code = c
                        /\ ~UnprovedAddr(c).verified /\ UnprovedAddr(c).guesses = 0
<1>1. 0 \in FwdCode /\ 0 \in 0 .. MaxGuesses
  BY ForwardingAssumption DEF ForwardingAssumption, FwdCode
<1>2. NoValue \in FwdValue /\ NoValue.code = 0 /\ ~NoValue.verified /\ ~NoValue.kept
  BY <1>1 DEF NoValue, FwdValue
<1>3. VerifiedAddr \in FwdValue /\ VerifiedAddr.code = 0
  BY <1>1 DEF VerifiedAddr, NoValue, FwdValue
<1>4. ASSUME NEW c \in FwdCode
      PROVE  /\ UnprovedAddr(c) \in FwdValue /\ UnprovedAddr(c).code = c
             /\ ~UnprovedAddr(c).verified /\ UnprovedAddr(c).guesses = 0
  BY <1>1 DEF UnprovedAddr, NoValue, FwdValue
<1>5. QED BY <1>2, <1>3, <1>4

\* One more wrong guess.
LEMMA GuessFacts ==
  ASSUME NEW v \in FwdValue, v.guesses < MaxGuesses
  PROVE  /\ [v EXCEPT !.guesses = @ + 1] \in FwdValue
         /\ [v EXCEPT !.guesses = @ + 1].guesses = v.guesses + 1
         /\ [v EXCEPT !.guesses = @ + 1].code = v.code
         /\ [v EXCEPT !.guesses = @ + 1].verified = v.verified
         /\ [v EXCEPT !.guesses = @ + 1].kept = v.kept
<1>1. v.guesses + 1 \in 0 .. MaxGuesses
  BY ForwardingAssumption DEF ForwardingAssumption, FwdValue
<1>2. QED BY <1>1 DEF FwdValue

\* A request that has nothing to do.
LEMMA IdleRequestFacts ==
  /\ IdleReq \in FwdReq /\ IdleReq.pc = "idle" /\ IdleReq.saw = NoValue /\ IdleReq.own = 0
<1>1. 0 \in FwdCode /\ (CHOOSE a \in Addr : TRUE) \in Addr
  BY ForwardingAssumption DEF ForwardingAssumption, FwdCode
<1>2. QED BY <1>1, ValueFacts DEF IdleReq, FwdReq

-----------------------------------------------------------------------------
(* Which handlers write what *)

LEMMA Writers ==
  ASSUME ForwardingNext
  PROVE  /\ UNCHANGED stored \/ (\E h \in FwdRequest : SaveOwn(h) \/ SaveCode(h) \/ UndoCode(h) \/ SwapCode(h))
                             \/ (\E a \in Addr : DeleteAddr(a))
         /\ UNCHANGED codes \/ \E h \in FwdRequest : SaveCode(h)
         /\ UNCHANGED mailed \/ \E h \in FwdRequest : MailCode(h)
         /\ UNCHANGED expired \/ CodeExpires
         /\ UNCHANGED cooling \/ (\E h \in FwdRequest : SaveCode(h) \/ UndoCode(h) \/ SwapCode(h))
                              \/ (\E a \in Addr : CooldownEnds(a))
         /\ UNCHANGED fwd \/ \E m \in FwdMail : CheckForward(m) \/ \E refused \in BOOLEAN : QueueForward(m, refused)
         /\ UNCHANGED proved \/ \E h \in FwdRequest : SaveOwn(h) \/ SwapCode(h)
         /\ UNCHANGED wrong \/ \E h \in FwdRequest : SwapCode(h)
         /\ UNCHANGED undone \/ \E h \in FwdRequest : UndoCode(h)
         /\ UNCHANGED deletes \/ \E a \in Addr : DeleteAddr(a)
<1> USE DEF fwdHistory
<1>1. CASE \E h \in FwdRequest : SaveOwn(h) \/ SaveCode(h) \/ UndoCode(h) \/ UndoFails(h) \/ MailCode(h)
  BY <1>1 DEF SaveOwn, SaveCode, UndoCode, UndoFails, MailCode
<1>2. CASE \E h \in FwdRequest : MailRefused(h) \/ ReadForVerify(h) \/ SwapCode(h)
  BY <1>2 DEF MailRefused, ReadForVerify, SwapCode
<1>3. CASE \E h \in FwdRequest, a \in Addr : AskCode(h, a) \/ \E c \in KnownCode(a) : EnterCode(h, a, c)
  BY <1>3 DEF AskCode, EnterCode
<1>4. CASE CodeExpires \/ \E a \in Addr : DeleteAddr(a) \/ CooldownEnds(a)
  BY <1>4 DEF CodeExpires, DeleteAddr, CooldownEnds
<1>5. CASE \E m \in FwdMail : CheckForward(m) \/ \E refused \in BOOLEAN : QueueForward(m, refused)
  BY <1>5 DEF CheckForward, QueueForward
<1>6. QED BY <1>1, <1>2, <1>3, <1>4, <1>5 DEF ForwardingNext

-----------------------------------------------------------------------------
(* Requests *)

\* A step moves at most one request, to a state that knows what it should.
LEMMA RequestStep ==
  ASSUME ForwardingTypeOK, RequestsOK, \A a \in Addr : stored[a].code <= codes, ForwardingNext
  PROVE  /\ codes' \in FwdCode /\ codes' >= codes
         /\ \/ req' = req
            \/ \E h \in FwdRequest, r \in FwdReq : /\ req' = [req EXCEPT ![h] = r]
                                                   /\ RequestGood(r, codes')
<1> DEFINE Moved == \E h \in FwdRequest, r \in FwdReq : /\ req' = [req EXCEPT ![h] = r]
                                                        /\ RequestGood(r, codes')
<1>a. codes \in Nat /\ MaxCodes \in Nat /\ MaxGuesses \in Nat
  BY ForwardingAssumption DEF ForwardingAssumption, ForwardingTypeOK, FwdCode
<1>b. /\ \A h \in FwdRequest : req[h] \in FwdReq /\ RequestGood(req[h], codes)
      /\ \A a \in Addr : stored[a] \in FwdValue
  BY DEF ForwardingTypeOK, RequestsOK
<1>c. codes' \in FwdCode /\ codes' >= codes
  <2>1. CASE UNCHANGED codes
    BY <2>1, <1>a DEF ForwardingTypeOK
  <2>2. CASE \E h \in FwdRequest : SaveCode(h)
    BY <2>2, <1>a DEF SaveCode, FwdCode, ForwardingTypeOK
  <2>3. QED BY <2>1, <2>2, Writers
<1>d. codes' \in Nat
  BY <1>c, <1>a DEF FwdCode
<1>e. ASSUME NEW h \in FwdRequest, LeaveReq(h) PROVE Moved
  <2>1. RequestGood(IdleReq, codes')
    BY <1>d, IdleRequestFacts, ValueFacts DEF RequestGood, Asking
  <2>2. QED BY <1>e, <2>1, IdleRequestFacts DEF LeaveReq, EnterReq
<1>f. \A h \in FwdRequest : req[h].saw \in FwdValue /\ req[h].saw.code \in Nat /\ req[h].saw.code <= codes'
  <2> TAKE h \in FwdRequest
  <2>1. req[h].saw \in FwdValue /\ req[h].saw.code <= codes
    BY <1>b DEF FwdReq, RequestGood
  <2>2. req[h].saw.code \in Nat
    BY <2>1 DEF FwdValue, FwdCode
  <2>3. QED BY <2>1, <2>2, <1>a, <1>c, <1>d
<1>g. ASSUME NEW h \in FwdRequest, NEW pc \in {"undo", "read"}, GotoReq(h, pc),
             pc = "undo" => req[h].pc = "mail"
      PROVE  Moved
  <2> DEFINE r == [req[h] EXCEPT !.pc = pc]
  <2>1. /\ r \in FwdReq /\ r.pc = pc /\ r.saw = req[h].saw /\ r.own = req[h].own
    BY <1>b DEF FwdReq
  <2>2. RequestGood(r, codes')
    BY <2>1, <1>b, <1>f, <1>g DEF RequestGood, Asking
  <2>3. req' = [req EXCEPT ![h] = r]
    BY <1>g DEF GotoReq
  <2>4. QED BY <2>1, <2>2, <2>3
<1>1. ASSUME NEW h \in FwdRequest, SaveOwn(h) \/ MailCode(h) \/ UndoCode(h) \/ UndoFails(h) PROVE Moved
  BY <1>1, <1>e DEF SaveOwn, MailCode, UndoCode, UndoFails
<1>2. ASSUME NEW h \in FwdRequest, SaveCode(h) PROVE Moved
  <2> DEFINE r == [req[h] EXCEPT !.pc = "mail", !.own = codes + 1]
  <2>1. codes + 1 \in FwdCode /\ codes + 1 > 0
    BY <1>2, <1>a DEF SaveCode, FwdCode
  <2>2. r \in FwdReq /\ r.pc = "mail" /\ r.own = codes + 1 /\ r.saw = req[h].saw
    BY <1>b, <2>1 DEF FwdReq
  <2>3. RequestGood(r, codes')
    BY <2>1, <2>2, <1>b, <1>f, <1>2 DEF RequestGood, SaveCode, Asking
  <2>4. req' = [req EXCEPT ![h] = r]
    BY <1>2 DEF SaveCode, ForwardingTypeOK
  <2>5. QED BY <2>2, <2>3, <2>4
<1>3. ASSUME NEW h \in FwdRequest, MailRefused(h) PROVE Moved
  BY <1>3, <1>g DEF MailRefused
<1>4. ASSUME NEW h \in FwdRequest, ReadForVerify(h) PROVE Moved
  <2> DEFINE v == stored[req[h].addr]
             r == [req[h] EXCEPT !.pc = "swap", !.saw = v]
  <2>1. CASE ~Guessable(v)
    BY <1>4, <1>e, <2>1 DEF ReadForVerify
  <2>2. CASE Guessable(v)
    <3>1. req[h].addr \in Addr /\ v \in FwdValue
      BY <1>b DEF FwdReq
    <3>2. r \in FwdReq /\ r.pc = "swap" /\ r.saw = v
      BY <1>b, <3>1 DEF FwdReq
    <3>3. v.code <= codes'
      BY <1>4, <3>1 DEF ReadForVerify
    <3>4. RequestGood(r, codes')
      BY <2>2, <3>2, <3>3 DEF RequestGood, Guessable, Asking
    <3>5. req' = [req EXCEPT ![h] = r]
      BY <1>4, <2>2 DEF ReadForVerify, ForwardingTypeOK
    <3>6. QED BY <3>2, <3>4, <3>5
  <2>3. QED BY <2>1, <2>2
<1>5. ASSUME NEW h \in FwdRequest, SwapCode(h) PROVE Moved
  BY <1>5, <1>e, <1>g DEF SwapCode
<1>6. ASSUME NEW h \in FwdRequest, NEW a \in Addr, AskCode(h, a) PROVE Moved
  <2> DEFINE r == [IdleReq EXCEPT !.pc = "save", !.addr = a, !.saw = stored[a]]
  <2>1. r \in FwdReq /\ r.pc = "save" /\ r.saw = stored[a]
    BY <1>b, IdleRequestFacts DEF FwdReq
  <2>2. RequestGood(r, codes')
    BY <2>1, <1>6 DEF RequestGood, AskCode, Asking
  <2>3. QED BY <2>1, <2>2, <1>6 DEF AskCode, EnterReq
<1>7. ASSUME NEW h \in FwdRequest, NEW a \in Addr, NEW c \in KnownCode(a), EnterCode(h, a, c) PROVE Moved
  <2> DEFINE r == [IdleReq EXCEPT !.pc = "read", !.addr = a, !.entered = c]
  <2>1. c \in FwdCode
    BY <1>a DEF KnownCode, FwdCode, ForwardingTypeOK
  <2>2. r \in FwdReq /\ r.pc = "read" /\ r.saw = NoValue
    BY <2>1, IdleRequestFacts DEF FwdReq
  <2>3. RequestGood(r, codes')
    BY <2>2, <1>d, ValueFacts DEF RequestGood, Asking
  <2>4. QED BY <2>2, <2>3, <1>7 DEF EnterCode, EnterReq
<1>8. CASE req' = req
  BY <1>c, <1>8
<1>9. QED BY <1>c, <1>1, <1>2, <1>3, <1>4, <1>5, <1>6, <1>7, <1>8 DEF ForwardingNext, DeleteAddr,
        CooldownEnds, CodeExpires, CheckForward, QueueForward

-----------------------------------------------------------------------------
(* Values, types and proofs of possession *)

\* A step writes at most one value, of a code that was made, and verified only
\* with a proof.
LEMMA ValueStep ==
  ASSUME ForwardingTypeOK, RequestsOK, \A a \in Addr : AddressOK(a), ForwardingNext
  PROVE  /\ proved \subseteq proved' /\ proved' \subseteq Addr
         /\ \/ stored' = stored
            \/ \E a \in Addr, v \in FwdValue : /\ stored' = [stored EXCEPT ![a] = v]
                                               /\ v.code <= codes' /\ (v.verified => a \in proved')
<1> DEFINE Wrote == \E a \in Addr, v \in FwdValue : /\ stored' = [stored EXCEPT ![a] = v]
                                                    /\ v.code <= codes' /\ (v.verified => a \in proved')
<1>a. codes \in Nat /\ codes' \in Nat /\ codes' >= codes
  BY RequestStep, ForwardingAssumption DEF ForwardingAssumption, ForwardingTypeOK, FwdCode, AddressOK
<1>b. \A h \in FwdRequest : /\ req[h] \in FwdReq /\ req[h].addr \in Addr /\ req[h].saw \in FwdValue
                            /\ req[h].saw.code \in Nat /\ req[h].saw.code <= codes'
                            /\ RequestGood(req[h], codes)
  <2> TAKE h \in FwdRequest
  <2>1. req[h] \in FwdReq /\ req[h].addr \in Addr /\ req[h].saw \in FwdValue /\ RequestGood(req[h], codes)
    BY DEF ForwardingTypeOK, FwdReq, RequestsOK
  <2>2. req[h].saw.code \in Nat /\ req[h].saw.code <= codes
    BY <2>1 DEF FwdValue, FwdCode, RequestGood
  <2>3. QED BY <2>1, <2>2, <1>a
<1>c. UNCHANGED proved => proved \subseteq proved' /\ proved' \subseteq Addr
  BY DEF ForwardingTypeOK
<1>d. ASSUME NEW a \in Addr, NEW v \in FwdValue, stored' = [stored EXCEPT ![a] = v],
             v.code <= codes', v.verified => a \in proved'
      PROVE  Wrote
  BY <1>d
<1> HIDE DEF Wrote
<1>1. ASSUME NEW h \in FwdRequest, SaveOwn(h) PROVE proved \subseteq proved' /\ proved' \subseteq Addr /\ Wrote
  <2>1. proved' = proved \cup {req[h].addr} /\ stored' = [stored EXCEPT ![req[h].addr] = VerifiedAddr]
    BY <1>1 DEF SaveOwn, WriteAddr
  <2>2. req[h].addr \in proved' /\ VerifiedAddr.code <= codes'
    BY <2>1, <1>a, ValueFacts
  <2>3. Wrote
    BY <2>1, <2>2, <1>b, <1>d, ValueFacts
  <2>4. QED BY <2>1, <2>3, <1>b DEF ForwardingTypeOK
<1>2. ASSUME NEW h \in FwdRequest, SaveCode(h) PROVE Wrote /\ UNCHANGED proved
  <2>1. /\ codes' = codes + 1 /\ UNCHANGED proved
        /\ stored' = [stored EXCEPT ![req[h].addr] = UnprovedAddr(codes + 1)]
    BY <1>2 DEF SaveCode, WriteAddr
  <2>2. codes + 1 \in FwdCode
    BY <1>2, ForwardingAssumption DEF SaveCode, ForwardingAssumption, ForwardingTypeOK, FwdCode
  <2>3. /\ UnprovedAddr(codes + 1) \in FwdValue /\ UnprovedAddr(codes + 1).code <= codes'
        /\ ~UnprovedAddr(codes + 1).verified
    BY <2>1, <2>2, <1>a, ValueFacts
  <2>4. QED BY <2>1, <2>3, <1>b, <1>d
<1>3. ASSUME NEW h \in FwdRequest, UndoCode(h) PROVE Wrote /\ UNCHANGED proved
  <2>1. stored' = [stored EXCEPT ![req[h].addr] = req[h].saw] /\ UNCHANGED proved
    BY <1>3 DEF UndoCode, WriteAddr
  <2>2. ~req[h].saw.verified
    BY <1>3, <1>b DEF UndoCode, RequestGood, Asking
  <2>3. QED BY <2>1, <2>2, <1>b, <1>d
<1>4. ASSUME NEW h \in FwdRequest, SwapCode(h)
      PROVE  proved \subseteq proved' /\ proved' \subseteq Addr /\ (stored' = stored \/ Wrote)
  <2> DEFINE a == req[h].addr
             v == req[h].saw
             guessed == [v EXCEPT !.guesses = @ + 1]
  <2>1. CASE ~SameValue(h)
    BY <1>4, <2>1, <1>c DEF SwapCode
  <2>2. CASE SameValue(h) /\ req[h].entered = v.code
    <3>1. proved' = proved \cup {a} /\ stored' = [stored EXCEPT ![a] = VerifiedAddr]
      BY <1>4, <2>2 DEF SwapCode, WriteAddr
    <3>2. a \in proved' /\ VerifiedAddr.code <= codes'
      BY <3>1, <1>a, ValueFacts
    <3>3. Wrote
      BY <3>1, <3>2, <1>b, <1>d, ValueFacts
    <3>4. QED BY <3>1, <3>3, <1>b DEF ForwardingTypeOK
  <2>3. CASE SameValue(h) /\ req[h].entered # v.code
    <3>1. UNCHANGED proved /\ stored' = [stored EXCEPT ![a] = guessed]
      BY <1>4, <2>3 DEF SwapCode, WriteAddr
    <3>2. v \in FwdValue /\ v.guesses < MaxGuesses /\ ~v.verified /\ v.code <= codes'
      BY <1>4, <1>b DEF SwapCode, RequestGood
    <3>3. guessed \in FwdValue /\ guessed.code <= codes' /\ ~guessed.verified
      BY <3>2, GuessFacts
    <3>4. Wrote
      BY <3>1, <3>3, <1>b, <1>d
    <3>5. QED BY <3>1, <3>4, <1>c
  <2>4. QED BY <2>1, <2>2, <2>3
<1>5. ASSUME NEW a \in Addr, DeleteAddr(a) PROVE Wrote
  <2>1. stored' = [stored EXCEPT ![a] = NoValue] /\ NoValue.code <= codes'
    BY <1>5, <1>a, ValueFacts DEF DeleteAddr, WriteAddr
  <2>2. QED BY <2>1, <1>d, ValueFacts
<1>6. proved \subseteq proved' /\ proved' \subseteq Addr
  BY <1>1, <1>4, <1>c, Writers
<1>7. stored' = stored \/ Wrote
  BY <1>1, <1>2, <1>3, <1>4, <1>5, Writers
<1>8. QED BY <1>6, <1>7 DEF Wrote

\* Every step keeps every variable in its type.
LEMMA ForwardingTypeStep ==
  ASSUME ForwardingTypeOK, RequestsOK, \A a \in Addr : AddressOK(a), ForwardingNext
  PROVE  ForwardingTypeOK'
<1>a. /\ \A h \in FwdRequest : /\ req[h].addr \in Addr /\ req[h].saw.code \in FwdCode
                               /\ req[h].own \in FwdCode /\ RequestGood(req[h], codes)
      /\ codes \in Nat /\ MaxCodes \in Nat /\ MaxDeletes \in Nat
  BY ForwardingAssumption
  DEF ForwardingAssumption, ForwardingTypeOK, FwdReq, FwdValue, FwdCode, RequestsOK
<1>1. stored' \in [Addr -> FwdValue]
  BY ValueStep DEF ForwardingTypeOK
<1>2. req' \in [FwdRequest -> FwdReq] /\ codes' \in FwdCode
  BY RequestStep DEF ForwardingTypeOK, AddressOK
<1>3. proved' \subseteq Addr
  BY ValueStep
<1>4. mailed' \in [Addr -> SUBSET (1 .. MaxCodes)]
  <2>1. ASSUME NEW h \in FwdRequest, MailCode(h) PROVE mailed' \in [Addr -> SUBSET (1 .. MaxCodes)]
    <3>1. req[h].own \in 1 .. MaxCodes
      BY <2>1, <1>a DEF MailCode, RequestGood, FwdCode
    <3>2. QED BY <2>1, <3>1 DEF MailCode, ForwardingTypeOK
  <2>2. QED BY <2>1, Writers DEF ForwardingTypeOK
<1>5. expired' \in FwdCode
  <2>1. CASE CodeExpires
    BY <2>1, <1>a DEF CodeExpires, ForwardingTypeOK, FwdCode
  <2>2. QED BY <2>1, Writers DEF ForwardingTypeOK
<1>6. cooling' \subseteq Addr
  <2>1. ASSUME NEW h \in FwdRequest, SaveCode(h) \/ UndoCode(h) \/ SwapCode(h) PROVE cooling' \subseteq Addr
    BY <2>1, <1>a DEF SaveCode, UndoCode, SwapCode, ForwardingTypeOK
  <2>2. QED BY <2>1, Writers DEF CooldownEnds, ForwardingTypeOK
<1>7. fwd' \in [FwdMail -> [pc : {"idle", "queue", "done"}, sent : SUBSET Addr]]
  <2>1. ASSUME NEW m \in FwdMail, CheckForward(m)
        PROVE  fwd' \in [FwdMail -> [pc : {"idle", "queue", "done"}, sent : SUBSET Addr]]
    BY <2>1, ForwardingAssumption DEF ForwardingAssumption, CheckForward, ForwardingTypeOK
  <2>2. ASSUME NEW m \in FwdMail, NEW refused \in BOOLEAN, QueueForward(m, refused)
        PROVE  fwd' \in [FwdMail -> [pc : {"idle", "queue", "done"}, sent : SUBSET Addr]]
    <3> DEFINE Mails == [pc : {"idle", "queue", "done"}, sent : SUBSET Addr]
               sent == IF refused THEN {} ELSE fwd[m].sent
    <3>1. fwd[m] \in Mails /\ fwd \in [FwdMail -> Mails]
      BY DEF ForwardingTypeOK
    <3>2. sent \in SUBSET Addr
      BY <3>1
    <3>3. fwd' = [fwd EXCEPT ![m].pc = "done", ![m].sent = sent]
      BY <2>2 DEF QueueForward
    <3> HIDE DEF sent
    <3>4. QED BY <3>1, <3>2, <3>3
  <2>3. QED BY <2>1, <2>2, Writers DEF ForwardingTypeOK
<1>8. wrong' \in [1 .. MaxCodes -> Nat]
  <2>1. ASSUME NEW h \in FwdRequest, SwapCode(h) PROVE wrong' \in [1 .. MaxCodes -> Nat]
    <3>1. req[h].saw.code \in 1 .. MaxCodes
      BY <2>1, <1>a DEF SwapCode, RequestGood, FwdCode
    <3>2. QED BY <2>1, <3>1 DEF SwapCode, ForwardingTypeOK
  <2>2. QED BY <2>1, Writers DEF ForwardingTypeOK
<1>9. undone' \subseteq FwdCode
  <2>1. ASSUME NEW h \in FwdRequest, UndoCode(h) PROVE undone' \subseteq FwdCode
    <3>1. undone' = undone \cup {req[h].saw.code}
      BY <2>1 DEF UndoCode
    <3>2. req[h].saw.code \in FwdCode
      BY DEF ForwardingTypeOK, FwdReq, FwdValue
    <3>3. QED BY <3>1, <3>2 DEF ForwardingTypeOK
  <2>2. undone \subseteq FwdCode
    BY DEF ForwardingTypeOK
  <2>3. QED BY <2>1, <2>2, Writers
<1>10. deletes' \in 0 .. MaxDeletes
  BY <1>a, Writers DEF DeleteAddr, ForwardingTypeOK
<1>11. QED BY <1>1, <1>2, <1>3, <1>4, <1>5, <1>6, <1>7, <1>8, <1>9, <1>10 DEF ForwardingTypeOK

\* The addresses stay proved, and the forwarded mails went to such.
LEMMA ProofStep ==
  ASSUME ForwardingTypeOK, RequestsOK, \A a \in Addr : AddressOK(a), ForwardedWereProved, ForwardingNext
  PROVE  RequestsOK' /\ (\A a \in Addr : AddressOK(a)') /\ ForwardedWereProved'
<1>a. /\ codes \in Nat /\ codes' \in Nat /\ codes' >= codes
      /\ \A h \in FwdRequest : req[h].saw.code \in Nat
      /\ \A a \in Addr : stored[a].code \in Nat
  <2>1. codes \in Nat /\ codes' \in Nat /\ codes' >= codes
    BY RequestStep, ForwardingAssumption DEF ForwardingAssumption, ForwardingTypeOK, FwdCode, AddressOK
  <2>2. \A h \in FwdRequest : req[h].saw.code \in Nat
    BY DEF ForwardingTypeOK, FwdReq, FwdValue, FwdCode
  <2>3. \A a \in Addr : stored[a].code \in Nat
    BY DEF ForwardingTypeOK, FwdValue, FwdCode
  <2>4. QED BY <2>1, <2>2, <2>3
<1>1. RequestsOK'
  <2>1. \A h \in FwdRequest : RequestGood(req[h], codes')
    BY <1>a DEF RequestsOK, RequestGood
  <2>2. QED BY <2>1, RequestStep DEF RequestsOK, ForwardingTypeOK, AddressOK
<1>2. \A a \in Addr : AddressOK(a)'
  <2>1. ASSUME NEW a \in Addr, stored'[a] = stored[a] PROVE AddressOK(a)'
    BY <2>1, <1>a, ValueStep DEF AddressOK
  <2>2. QED BY <2>1, ValueStep DEF AddressOK, ForwardingTypeOK
<1>3. ForwardedWereProved'
  <2>1. ASSUME NEW m \in FwdMail PROVE fwd'[m].sent \subseteq proved'
    <3>a. ASSUME NEW n \in FwdMail, CheckForward(n) PROVE fwd'[m].sent \subseteq fwd[m].sent \cup ForwardTo
      BY <3>a DEF CheckForward, ForwardingTypeOK
    <3>b. ASSUME NEW n \in FwdMail, NEW refused \in BOOLEAN, QueueForward(n, refused)
          PROVE  fwd'[m].sent \subseteq fwd[m].sent
      BY <3>b DEF QueueForward, ForwardingTypeOK
    <3>1. \/ fwd'[m].sent \subseteq fwd[m].sent
          \/ fwd'[m].sent \subseteq fwd[m].sent \cup ForwardTo /\ \A a \in ForwardTo : stored[a].verified
      BY <3>a, <3>b, Writers DEF CheckForward
    <3>2. fwd[m].sent \subseteq proved /\ proved \subseteq proved'
      BY ValueStep DEF ForwardedWereProved
    <3>3. QED BY <3>1, <3>2, ForwardingAssumption DEF ForwardingAssumption, AddressOK
  <2>2. QED BY <2>1 DEF ForwardedWereProved
<1>4. QED BY <1>1, <1>2, <1>3

-----------------------------------------------------------------------------
(* Guesses *)

\* A value without a code, written over another one, disturbs no code.
LEMMA ClearedKeepsCodes ==
  ASSUME ForwardingTypeOK, NEW a \in Addr, NEW v, stored' = [stored EXCEPT ![a] = v],
         v.code = 0, UNCHANGED <<codes, wrong, undone>>, NEW c \in 1 .. MaxCodes, CodeOK(c)
  PROVE  CodeOK(c)'
<1>1. \A b \in Addr : stored'[b].code = c => stored'[b] = stored[b]
  BY DEF ForwardingTypeOK
<1>2. QED BY <1>1 DEF CodeOK

\* A code is guessed wrongly no more often than its limit allows.
LEMMA CodeStep ==
  ASSUME ForwardingTypeOK, RequestsOK, \A a \in Addr : AddressOK(a), ForwardingNext,
         NEW c \in 1 .. MaxCodes, CodeOK(c)
  PROVE  CodeOK(c)'
<1>a. /\ codes \in Nat /\ c \in Nat /\ c > 0 /\ MaxCodes \in Nat /\ MaxGuesses \in Nat
      /\ wrong[c] \in Nat
  BY ForwardingAssumption DEF ForwardingAssumption, ForwardingTypeOK, FwdCode
<1>b. \A h \in FwdRequest : /\ req[h].addr \in Addr /\ req[h].saw \in FwdValue
                            /\ RequestGood(req[h], codes)
  BY DEF ForwardingTypeOK, FwdReq, RequestsOK
<1>1. ASSUME NEW h \in FwdRequest, SaveOwn(h) PROVE CodeOK(c)'
  <2>1. stored' = [stored EXCEPT ![req[h].addr] = VerifiedAddr] /\ UNCHANGED <<codes, wrong, undone>>
    BY <1>1 DEF SaveOwn, WriteAddr
  <2>2. QED BY <2>1, <1>b, ValueFacts, ClearedKeepsCodes
<1>2. ASSUME NEW h \in FwdRequest, SaveCode(h) PROVE CodeOK(c)'
  <2> DEFINE a == req[h].addr
  <2>1. /\ codes' = codes + 1 /\ UNCHANGED <<wrong, undone>>
        /\ stored' = [stored EXCEPT ![a] = UnprovedAddr(codes + 1)]
    BY <1>2 DEF SaveCode, WriteAddr
  <2>2. UnprovedAddr(codes + 1).code = codes + 1 /\ UnprovedAddr(codes + 1).guesses = 0
    BY <1>2, <1>a, ValueFacts DEF SaveCode, FwdCode
  <2>3. stored'[a].code = codes + 1 /\ stored'[a].guesses = 0 /\ \A b \in Addr : b # a => stored'[b] = stored[b]
    BY <2>1, <2>2, <1>b DEF ForwardingTypeOK
  <2>4. \A b \in Addr : stored[b].code \in Nat /\ stored[b].code <= codes
    BY DEF AddressOK, ForwardingTypeOK, FwdValue, FwdCode
  <2>5. c > codes' => wrong'[c] = 0
    BY <2>1, <1>a DEF CodeOK
  <2>6. CASE c = codes + 1
    <3>1. wrong'[c] = 0
      BY <2>1, <2>6, <1>a DEF CodeOK
    <3>2. \A b \in Addr : stored'[b].code = c => b = a
      BY <2>3, <2>4, <2>6, <1>a
    <3>3. wrong'[c] <= MaxGuesses
      BY <3>1, <1>a
    <3>4. \A b \in Addr : stored'[b].code = c => wrong'[c] <= stored'[b].guesses
      BY <3>1, <3>2, <2>3
    <3>5. QED BY <2>5, <3>2, <3>3, <3>4 DEF CodeOK
  <2>7. CASE c # codes + 1
    <3>1. \A b \in Addr : stored'[b].code = c => stored'[b] = stored[b]
      BY <2>3, <2>7
    <3>2. QED BY <2>1, <2>5, <3>1 DEF CodeOK
  <2>8. QED BY <2>6, <2>7
<1>3. ASSUME NEW h \in FwdRequest, UndoCode(h) PROVE CodeOK(c)'
  <2> DEFINE a == req[h].addr
             v == req[h].saw
  <2>1. /\ stored' = [stored EXCEPT ![a] = v] /\ undone' = undone \cup {v.code}
        /\ UNCHANGED <<codes, wrong>>
    BY <1>3 DEF UndoCode, WriteAddr
  <2>2. c \notin undone' => \A b \in Addr : stored'[b].code = c => stored'[b] = stored[b]
    BY <2>1, <1>b DEF ForwardingTypeOK
  <2>3. QED BY <2>1, <2>2 DEF CodeOK
<1>4. ASSUME NEW h \in FwdRequest, SwapCode(h) PROVE CodeOK(c)'
  <2> DEFINE a == req[h].addr
             v == req[h].saw
             guessed == [v EXCEPT !.guesses = @ + 1]
  <2>a. UNCHANGED <<codes, undone>>
    BY <1>4 DEF SwapCode
  <2>1. CASE ~SameValue(h)
    BY <1>4, <2>1, <2>a DEF SwapCode, CodeOK
  <2>2. CASE SameValue(h) /\ req[h].entered = v.code
    <3>1. UNCHANGED wrong /\ stored' = [stored EXCEPT ![a] = VerifiedAddr]
      BY <1>4, <2>2 DEF SwapCode, WriteAddr
    <3>2. QED BY <2>a, <3>1, <1>b, ValueFacts, ClearedKeepsCodes
  <2>3. CASE SameValue(h) /\ req[h].entered # v.code
    <3>a. /\ wrong' = [wrong EXCEPT ![v.code] = @ + 1] /\ stored' = [stored EXCEPT ![a] = guessed]
          /\ stored[a] = v
      BY <1>4, <2>3 DEF SwapCode, WriteAddr, SameValue
    <3>b. v.guesses < MaxGuesses /\ v.guesses \in Nat /\ v.code <= codes /\ v.code \in 1 .. MaxCodes
      BY <1>4, <1>b DEF SwapCode, RequestGood, FwdValue, FwdCode
    <3>c. guessed.code = v.code /\ guessed.guesses = v.guesses + 1
      BY <3>b, <1>b, GuessFacts
    <3>d. stored'[a] = guessed /\ \A b \in Addr : b # a => stored'[b] = stored[b]
      BY <3>a, <1>b DEF ForwardingTypeOK
    <3>e. \A b \in Addr : stored'[b].code = stored[b].code
      BY <3>a, <3>c, <3>d
    <3>1. CASE c # v.code
      <4>1. wrong'[c] = wrong[c]
        BY <3>1, <3>a DEF ForwardingTypeOK
      <4>2. \A b \in Addr : stored'[b].code = c => stored'[b] = stored[b]
        BY <3>1, <3>a, <3>d, <3>e
      <4>3. QED BY <2>a, <4>1, <4>2 DEF CodeOK
    <3>2. CASE c = v.code
      <4>1. wrong'[c] = wrong[c] + 1
        BY <3>2, <3>a DEF ForwardingTypeOK
      <4>2. ASSUME c \notin undone
            PROVE  /\ wrong'[c] <= MaxGuesses /\ wrong'[c] <= guessed.guesses
                   /\ \A b \in Addr : stored'[b].code = c => b = a
        <5>1. wrong[c] <= v.guesses /\ \A b \in Addr : stored[b].code = c => b = a
          BY <4>2, <3>2, <3>a, <1>b DEF CodeOK
        <5>2. QED BY <5>1, <4>1, <3>b, <3>c, <3>e, <1>a
      <4>3. c > codes' => wrong'[c] = 0
        BY <3>2, <3>b, <2>a, <1>a DEF FwdValue, FwdCode
      <4>4. QED BY <2>a, <4>2, <4>3, <3>d DEF CodeOK
    <3>3. QED BY <3>1, <3>2
  <2>4. QED BY <2>1, <2>2, <2>3
<1>5. ASSUME NEW a \in Addr, DeleteAddr(a) PROVE CodeOK(c)'
  BY <1>5, ValueFacts, ClearedKeepsCodes DEF DeleteAddr, WriteAddr
<1>6. CASE UNCHANGED <<stored, codes, wrong, undone>>
  BY <1>6 DEF CodeOK
<1>7. QED BY <1>1, <1>2, <1>3, <1>4, <1>5, <1>6, Writers

-----------------------------------------------------------------------------
(* The number of addresses *)

\* Except for a request that begins, no step claims another address.
LEMMA ClaimsShrink ==
  ASSUME ForwardingTypeOK, RequestsOK, ForwardingNext,
         ~ \E h \in FwdRequest, a \in Addr : AskCode(h, a)
  PROVE  ClaimedAddr' \subseteq ClaimedAddr
<1>a. \A h \in FwdRequest : /\ req[h] \in FwdReq /\ req[h].addr \in Addr /\ req[h].saw \in FwdValue
                            /\ RequestGood(req[h], codes)
  BY DEF ForwardingTypeOK, FwdReq, RequestsOK
<1>1. ASSUME NEW b \in Addr, stored'[b].kept PROVE b \in ClaimedAddr
  <2>1. CASE stored'[b] = stored[b]
    BY <2>1, <1>1 DEF ClaimedAddr, KeptAddr
  <2>2. ASSUME NEW h \in FwdRequest, SaveOwn(h) \/ SaveCode(h) \/ UndoCode(h), b = req[h].addr
        PROVE  b \in ClaimedAddr
    <3>1. h \in AskingReq
      BY <2>2 DEF SaveOwn, SaveCode, UndoCode, AskingReq, Asking
    <3>2. QED BY <2>2, <3>1 DEF ClaimedAddr
  <2>3. ASSUME NEW h \in FwdRequest, SwapCode(h), b = req[h].addr, stored'[b] # stored[b]
        PROVE  b \in ClaimedAddr
    <3>1. stored[b] = req[h].saw /\ req[h].saw.kept
      BY <2>3, <1>a DEF SwapCode, SameValue, RequestGood
    <3>2. QED BY <3>1 DEF ClaimedAddr, KeptAddr
  <2>4. ASSUME NEW h \in FwdRequest, SaveOwn(h) \/ SaveCode(h) \/ UndoCode(h) \/ SwapCode(h), b # req[h].addr
        PROVE  stored'[b] = stored[b]
    BY <2>4, <1>a DEF SaveOwn, SaveCode, UndoCode, SwapCode, WriteAddr, ForwardingTypeOK
  <2>5. ASSUME NEW a \in Addr, DeleteAddr(a) PROVE stored'[b] = stored[b]
    BY <2>5, <1>1, ValueFacts DEF DeleteAddr, WriteAddr, ForwardingTypeOK
  <2>6. QED BY <2>1, <2>2, <2>3, <2>4, <2>5, Writers
<1>2. ASSUME NEW k \in FwdRequest, req'[k].pc \in Asking
      PROVE  req[k].pc \in Asking /\ req'[k].addr = req[k].addr
  <2>1. CASE req'[k] = req[k]
    BY <2>1, <1>2
  <2>2. ASSUME NEW h \in FwdRequest, NEW r, req' = [req EXCEPT ![h] = r], r.pc \notin Asking
        PROVE  req'[k] = req[k]
    BY <2>2, <1>2 DEF ForwardingTypeOK
  <2>a. IdleReq.pc \notin Asking
    BY IdleRequestFacts DEF Asking
  <2>3. ASSUME NEW h \in FwdRequest, SaveOwn(h) \/ MailCode(h) \/ UndoCode(h) \/ UndoFails(h)
        PROVE  req'[k] = req[k]
    BY <2>3, <2>2, <2>a DEF SaveOwn, MailCode, UndoCode, UndoFails, LeaveReq, EnterReq
  <2>4. ASSUME NEW h \in FwdRequest, SaveCode(h)
        PROVE  req'[k] = req[k] \/ (req[k].pc \in Asking /\ req'[k].addr = req[k].addr)
    <3>1. CASE h # k
      BY <2>4, <3>1 DEF SaveCode, ForwardingTypeOK
    <3>2. CASE h = k
      <4>1. req'[k] = [req[k] EXCEPT !.pc = "mail", !.own = codes + 1]
        BY <2>4, <3>2 DEF SaveCode, ForwardingTypeOK
      <4>2. QED BY <4>1, <2>4, <3>2, <1>a DEF SaveCode, FwdReq, Asking
    <3>3. QED BY <3>1, <3>2
  <2>5. ASSUME NEW h \in FwdRequest, NEW pc, GotoReq(h, pc), pc \notin Asking \/ req[h].pc \in Asking
        PROVE  req'[k] = req[k] \/ (req[k].pc \in Asking /\ req'[k].addr = req[k].addr)
    <3>1. CASE h # k
      BY <2>5, <3>1 DEF GotoReq, ForwardingTypeOK
    <3>2. CASE h = k
      <4>1. req'[k] = [req[k] EXCEPT !.pc = pc]
        BY <2>5, <3>2 DEF GotoReq, ForwardingTypeOK
      <4>2. req'[k].pc = pc /\ req'[k].addr = req[k].addr
        BY <4>1, <1>a DEF FwdReq
      <4>3. QED BY <4>2, <2>5, <3>2, <1>2
    <3>3. QED BY <3>1, <3>2
  <2>6. ASSUME NEW h \in FwdRequest, MailRefused(h) PROVE req[k].pc \in Asking /\ req'[k].addr = req[k].addr
    BY <2>6, <2>5, <1>2 DEF MailRefused, Asking
  <2>7. ASSUME NEW h \in FwdRequest, SwapCode(h) PROVE req[k].pc \in Asking /\ req'[k].addr = req[k].addr
    <3>1. "read" \notin Asking
      BY DEF Asking
    <3>2. CASE GotoReq(h, "read")
      BY <3>1, <3>2, <2>5, <1>2
    <3>3. CASE LeaveReq(h)
      BY <3>3, <2>2, <2>a, <1>2 DEF LeaveReq, EnterReq
    <3>4. QED BY <3>2, <3>3, <2>7 DEF SwapCode
  <2>8. ASSUME NEW h \in FwdRequest, ReadForVerify(h) PROVE req'[k] = req[k]
    <3>1. CASE LeaveReq(h)
      BY <3>1, <2>2, <2>a DEF LeaveReq, EnterReq
    <3>2. CASE req' = [req EXCEPT ![h].pc = "swap", ![h].saw = stored[req[h].addr]]
      <4> DEFINE r == [req[h] EXCEPT !.pc = "swap", !.saw = stored[req[h].addr]]
      <4>1. req' = [req EXCEPT ![h] = r]
        BY <3>2 DEF ForwardingTypeOK
      <4>2. r.pc \notin Asking
        BY <1>a DEF FwdReq, Asking
      <4>3. QED BY <4>1, <4>2, <2>2
    <3>3. QED BY <2>8, <3>1, <3>2 DEF ReadForVerify
  <2>9. ASSUME NEW h \in FwdRequest, NEW a \in Addr, NEW c, EnterCode(h, a, c) PROVE req'[k] = req[k]
    <3> DEFINE r == [IdleReq EXCEPT !.pc = "read", !.addr = a, !.entered = c]
    <3>1. req' = [req EXCEPT ![h] = r]
      BY <2>9 DEF EnterCode, EnterReq
    <3>2. r.pc \notin Asking
      BY IdleRequestFacts DEF FwdReq, Asking
    <3>3. QED BY <3>1, <3>2, <2>2
  <2>10. CASE UNCHANGED req
    BY <2>10, <1>2
  <2>11. QED BY <2>1, <2>3, <2>4, <2>6, <2>7, <2>8, <2>9, <2>10, <1>2
           DEF ForwardingNext, DeleteAddr, CooldownEnds, CodeExpires, CheckForward, QueueForward
<1>3. QED BY <1>1, <1>2 DEF ClaimedAddr, KeptAddr, AskingReq

\* The number of claimed addresses stays within its bound.
LEMMA ClaimsStep ==
  ASSUME ForwardingTypeOK, ForwardingTypeOK', RequestsOK, ClaimsOK, ForwardingNext
  PROVE  ClaimsOK'
<1>a. /\ IsFiniteSet(Addr) /\ KeptAddr \subseteq Addr /\ ClaimedAddr \subseteq Addr
      /\ ClaimedAddr' \subseteq Addr
  BY ForwardingAssumption
  DEF ForwardingAssumption, KeptAddr, ClaimedAddr, AskingReq, ForwardingTypeOK, FwdReq
<1>b. /\ IsFiniteSet(KeptAddr) /\ IsFiniteSet(ClaimedAddr) /\ IsFiniteSet(ClaimedAddr')
      /\ Cardinality(KeptAddr) \in Nat /\ Cardinality(ClaimedAddr) \in Nat
      /\ Cardinality(ClaimedAddr') \in Nat
      /\ MaxAddresses \in Nat \ {0} /\ Cardinality(FwdRequest) \in Nat
  BY <1>a, FS_Subset, FS_CardinalityType, ForwardingAssumption DEF ForwardingAssumption
<1>1. ASSUME ClaimedAddr' \subseteq ClaimedAddr PROVE ClaimsOK'
  <2>1. Cardinality(ClaimedAddr') <= Cardinality(ClaimedAddr)
    BY <1>1, <1>b, FS_Subset
  <2>2. QED BY <2>1, <1>b DEF ClaimsOK
<1>2. ASSUME NEW h \in FwdRequest, NEW a \in Addr, AskCode(h, a) PROVE ClaimsOK'
  <2>a. KeptAddr' = KeptAddr
    BY <1>2 DEF AskCode, KeptAddr
  <2>1. CASE stored[a].kept
    <3>1. req' = [req EXCEPT ![h] = [IdleReq EXCEPT !.pc = "save", !.addr = a, !.saw = stored[a]]]
      BY <1>2 DEF AskCode, EnterReq
    <3>2. [IdleReq EXCEPT !.pc = "save", !.addr = a, !.saw = stored[a]].addr = a
      BY IdleRequestFacts DEF FwdReq
    <3>3. \A k \in FwdRequest : req'[k] = req[k] \/ req'[k].addr = a
      BY <3>1, <3>2 DEF ForwardingTypeOK
    <3>4. a \in KeptAddr
      BY <2>1 DEF KeptAddr
    <3>5. QED BY <1>1, <2>a, <3>3, <3>4 DEF ClaimedAddr, AskingReq
  <2>2. CASE ~stored[a].kept
    <3> DEFINE Asked == {req'[k].addr : k \in FwdRequest}
    <3>1. Cardinality(KeptAddr) < MaxAddresses
      BY <1>2, <2>2 DEF AskCode
    <3>2. IsFiniteSet(Asked) /\ Cardinality(Asked) <= Cardinality(FwdRequest) /\ Cardinality(Asked) \in Nat
      <4>1. [h2 \in FwdRequest |-> req'[h2].addr] \in Surjection(FwdRequest, Asked)
        BY DEF Surjection
      <4>2. QED BY <4>1, FS_Surjection, FS_CardinalityType, ForwardingAssumption DEF ForwardingAssumption
    <3>3. ClaimedAddr' \subseteq KeptAddr \cup Asked
      BY <2>a DEF ClaimedAddr, AskingReq
    <3>4. /\ IsFiniteSet(KeptAddr \cup Asked)
          /\ Cardinality(KeptAddr \cup Asked) <= Cardinality(KeptAddr) + Cardinality(Asked)
      <4>1. IsFiniteSet(KeptAddr \cup Asked) /\ IsFiniteSet(KeptAddr \cap Asked)
        BY <1>b, <3>2, FS_Union, FS_Intersection
      <4>2. Cardinality(KeptAddr \cup Asked) =
              Cardinality(KeptAddr) + Cardinality(Asked) - Cardinality(KeptAddr \cap Asked)
        BY <1>b, <3>2, FS_Union
      <4>3. Cardinality(KeptAddr \cap Asked) \in Nat /\ Cardinality(KeptAddr \cup Asked) \in Nat
        BY <4>1, FS_CardinalityType
      <4>4. QED BY <4>1, <4>2, <4>3, <1>b, <3>2
    <3>5. Cardinality(ClaimedAddr') <= Cardinality(KeptAddr \cup Asked)
      BY <3>3, <3>4, FS_Subset
    <3>6. Cardinality(KeptAddr \cup Asked) \in Nat
      BY <3>4, FS_CardinalityType
    <3>7. QED BY <3>1, <3>2, <3>4, <3>5, <3>6, <1>b DEF ClaimsOK
  <2>3. QED BY <2>1, <2>2
<1>3. QED BY <1>1, <1>2, ClaimsShrink

-----------------------------------------------------------------------------
(* Forwarding is safe *)

LEMMA ForwardingStep == ForwardingInv /\ [ForwardingNext]_forwardingVars => ForwardingInv'
<1> SUFFICES ASSUME ForwardingInv, [ForwardingNext]_forwardingVars PROVE ForwardingInv'
  OBVIOUS
<1>1. CASE ForwardingNext
  <2>1. ForwardingTypeOK'
    BY <1>1, ForwardingTypeStep DEF ForwardingInv
  <2>2. RequestsOK' /\ (\A a \in Addr : AddressOK(a)') /\ ForwardedWereProved'
    BY <1>1, ProofStep DEF ForwardingInv
  <2>3. \A c \in 1 .. MaxCodes : CodeOK(c)'
    BY <1>1, CodeStep DEF ForwardingInv
  <2>4. ClaimsOK'
    BY <1>1, <2>1, ClaimsStep DEF ForwardingInv
  <2>5. QED BY <2>1, <2>2, <2>3, <2>4 DEF ForwardingInv
<1>2. CASE UNCHANGED forwardingVars
  <2>1. ForwardingTypeOK' /\ RequestsOK' /\ ForwardedWereProved'
    BY <1>2 DEF ForwardingInv, ForwardingTypeOK, RequestsOK, ForwardedWereProved, forwardingVars
  <2>2. (\A a \in Addr : AddressOK(a)') /\ \A c \in 1 .. MaxCodes : CodeOK(c)'
    BY <1>2 DEF ForwardingInv, AddressOK, CodeOK, forwardingVars
  <2>3. ClaimedAddr' = ClaimedAddr
    BY <1>2 DEF ClaimedAddr, KeptAddr, AskingReq, forwardingVars
  <2>4. ClaimsOK'
    BY <2>3 DEF ForwardingInv, ClaimsOK
  <2>5. QED BY <2>1, <2>2, <2>4 DEF ForwardingInv
<1>3. QED BY <1>1, <1>2

LEMMA ForwardingStart == ForwardingInit => ForwardingInv
<1> SUFFICES ASSUME ForwardingInit PROVE ForwardingInv
  OBVIOUS
<1>a. /\ 0 \in FwdCode /\ 0 \in 0 .. MaxDeletes /\ MaxGuesses \in Nat /\ MaxCodes \in Nat
      /\ MaxAddresses \in Nat \ {0} /\ Cardinality(FwdRequest) \in Nat
  BY FS_CardinalityType, ForwardingAssumption DEF ForwardingAssumption, FwdCode
<1>1. ForwardingTypeOK
  <2>1. stored \in [Addr -> FwdValue] /\ req \in [FwdRequest -> FwdReq]
    BY ValueFacts, IdleRequestFacts DEF ForwardingInit
  <2>2. fwd \in [FwdMail -> [pc : {"idle", "queue", "done"}, sent : SUBSET Addr]]
    BY DEF ForwardingInit
  <2>3. QED BY <2>1, <2>2, <1>a DEF ForwardingInit, ForwardingTypeOK
<1>2. RequestsOK
  BY <1>a, ValueFacts, IdleRequestFacts DEF ForwardingInit, RequestsOK, RequestGood, Asking
<1>3. /\ \A a \in Addr : AddressOK(a)
      /\ \A c \in 1 .. MaxCodes : CodeOK(c)
      /\ ForwardedWereProved
  BY <1>a, ValueFacts DEF ForwardingInit, AddressOK, CodeOK, ForwardedWereProved
<1>4. ClaimsOK
  <2>1. ClaimedAddr = {}
    BY ValueFacts, IdleRequestFacts DEF ForwardingInit, ClaimedAddr, KeptAddr, AskingReq, Asking
  <2>2. QED BY <2>1, <1>a, FS_EmptySet DEF ClaimsOK
<1>5. QED BY <1>1, <1>2, <1>3, <1>4 DEF ForwardingInv

LEMMA ForwardingAlways == ForwardingSpec => []ForwardingInv
BY ForwardingStart, ForwardingStep, PTL DEF ForwardingSpec

\* The values, codes and requests of forward verification keep their types; a
\* counter never passes its limit, although it is written by several requests.
THEOREM ForwardingTypeCorrect == ForwardingSpec => []ForwardingTypeOK
<1>1. ForwardingInv => ForwardingTypeOK
  BY DEF ForwardingInv
<1>2. QED BY <1>1, ForwardingAlways, PTL

\* Requests, entries, refusals and deletions in any order keep the wrong guesses
\* of a code within their limit unless its value was written back, forward mail
\* only to addresses that were proved, and pass the limit of addresses at most
\* by the requests under way.
THEOREM ForwardingIsSafe == ForwardingSpec => []ForwardingSafe
<1>1. ForwardingInv => ForwardingSafe
  <2> SUFFICES ASSUME ForwardingInv PROVE ForwardingSafe
    OBVIOUS
  <2>1. GuessesBounded
    <3>1. ASSUME NEW c \in 1 .. MaxCodes, c \notin undone PROVE ~(wrong[c] > MaxGuesses)
      <4>1. wrong[c] <= MaxGuesses /\ wrong[c] \in Nat /\ MaxGuesses \in Nat
        BY <3>1, ForwardingAssumption DEF ForwardingInv, ForwardingTypeOK, CodeOK, ForwardingAssumption
      <4>2. QED BY <4>1
    <3>2. QED BY <3>1 DEF GuessesBounded
  <2>2. AddressesBounded
    <3>1. IsFiniteSet(ClaimedAddr) /\ KeptAddr \subseteq ClaimedAddr
      <4>1. ClaimedAddr \subseteq Addr
        BY DEF ForwardingInv, ForwardingTypeOK, ClaimedAddr, KeptAddr, AskingReq, FwdReq
      <4>2. QED BY <4>1, FS_Subset, ForwardingAssumption DEF ForwardingAssumption, ClaimedAddr
    <3>2. /\ Cardinality(KeptAddr) <= Cardinality(ClaimedAddr)
          /\ Cardinality(KeptAddr) \in Nat /\ Cardinality(ClaimedAddr) \in Nat
          /\ Cardinality(FwdRequest) \in Nat /\ MaxAddresses \in Nat
      BY <3>1, FS_Subset, FS_CardinalityType, ForwardingAssumption DEF ForwardingAssumption
    <3>3. QED BY <3>2 DEF ForwardingInv, ClaimsOK, AddressesBounded
  <2>3. QED BY <2>1, <2>2 DEF ForwardingSafe, ForwardingInv
<1>2. QED BY <1>1, ForwardingAlways, PTL

-----------------------------------------------------------------------------
(* The components around a mailbox, side by side *)

\* A step of MailSpec is one of each component, or leaves it alone.
LEMMA MailStep ==
  [MailNext]_mailComponentVars =>
    /\ [OutboxNext]_outboxVars /\ [ForwardingNext]_forwardingVars /\ [MailRulesNext]_mailRulesVars
    /\ [MaildirNext]_mailVars /\ [ExternalImapNext]_externalImapVars
BY DEF MailNext, Elsewhere, mailComponentVars

\* Put side by side, every component keeps its types and its promises, as it does on
\* its own: for any number of events, workers, addresses, codes, rules, messages,
\* files, editors and imports.
THEOREM MailComponentsAreSafe ==
  MailSpec => [](MailTypeOK /\ OutboxSafe /\ ForwardingSafe /\ RulesSafe /\ MaildirSafe /\ ExternalImapSafe)
<1>1. MailInit => OutboxInit /\ ForwardingInit /\ MailRulesInit /\ MaildirInit /\ ExternalImapInit
  BY DEF MailInit
<1>2. MailSpec => OutboxSpec /\ ForwardingSpec /\ MailRulesSpec /\ MaildirSpec /\ ExternalImapSpec
  BY <1>1, MailStep, PTL
     DEF MailSpec, OutboxSpec, ForwardingSpec, MailRulesSpec, MaildirSpec, ExternalImapSpec
<1>3. QED
  BY <1>2, OutboxTypeCorrect, OutboxesAreSafe, ForwardingTypeCorrect, ForwardingIsSafe, RulesAreSafe,
     MaildirIsSafe, ExternalImapTypeCorrect, ExternalImapIsSafe, PTL DEF MailTypeOK
=============================================================================
