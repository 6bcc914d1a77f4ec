------------------------ MODULE SendQueueRefinement ------------------------
(***************************************************************************)
(* The send queue keeps the promise of SendLifecycle.  A failed row with   *)
(* attempts left is still pending: the worker will claim it again.         *)
(***************************************************************************)
EXTENDS SendQueue

StateOf(r) ==
  CASE r.status = "none"                     -> "absent"
    [] r.status = "sending" \/ Retryable(r)  -> "pending"
    [] OTHER                                 -> r.status

\* Removed rows whose mail a worker is still handing to the SMTP server.
Leaving == {i \in Item : row[i].status = "removed" /\ \E p \in Process : job[p][i].pc = "smtp"}

Lifecycle == INSTANCE SendLifecycle WITH
  Mail    <- Item,
  state   <- [i \in Item |-> StateOf(row[i])],
  handed  <- [i \in Item |-> accepted[i][row[i].version] > 0],
  tainted <- orphan,
  leaving <- Leaving

\* As long as leases outlive workers and no outage lasts for the retention
\* period, every step of workers, handlers, recovery, crashes and clean-up is
\* a step of the lifecycle or invisible in it: in particular no mail leaves
\* for the SMTP server after it was canceled, given up or reported delivered,
\* and after its mailbox was deleted only if a worker was sending it then.
ImplementsLifecycle == Lifecycle!Spec
=============================================================================
