-------------------------- MODULE OutboxRefinement --------------------------
(***************************************************************************)
(* The outboxes keep the promise of EventLifecycle.  A pending row that    *)
(* has made all its attempts is spent once its last lease has ended.       *)
(***************************************************************************)
EXTENDS Outbox

StageOf(row) ==
  CASE row.status = "none"                                           -> "absent"
    [] row.status = "pending" /\ row.tries = MaxTries /\ ~row.leased -> "spent"
    [] OTHER                                                         -> row.status

Attempted == {e \in Event : \E w \in Sender : try[w].event = e}

Events == INSTANCE EventLifecycle WITH
  Event     <- Event,
  Revocable <- Note,
  state     <- [e \in Event |-> StageOf(out[e])],
  busy      <- Attempted,
  taken     <- taken,
  doubtful  <- unproven

\* Every step of the workers, the settings, the administrator, time and faults
\* is a step of the lifecycle or invisible in it: in particular no attempt is
\* begun beside another one, and an event that was delivered, canceled or
\* withdrawn stays so, whatever a late attempt reports (claimStatusWebhook,
\* claimTelegramNotification, the lease_token of every UPDATE).  A removal with
\* the mailbox or the user may meet an attempt, which leaves no row behind.
OutboxImplementsLifecycle == Events!Spec
=============================================================================
