---------------------- MODULE LocalDeliveryRefinement ----------------------
(***************************************************************************)
(* Local delivery keeps the promise of SendLifecycle too: what is handed   *)
(* over is the message a job inserts into the mailbox, and there is no     *)
(* proof of delivery beside the database that could be left over.  Its     *)
(* jobs have no foreign key: none is removed with a mailbox.               *)
(***************************************************************************)
EXTENDS LocalDelivery

StageOf(status) ==
  CASE status = "none"                  -> "absent"
    [] status \in {"queued", "sending"} -> "pending"
    [] OTHER                            -> status

Lifecycle == INSTANCE SendLifecycle WITH
  Mail    <- Job,
  state   <- [j \in Job |-> StageOf(row[j].status)],
  handed  <- [j \in Job |-> copies[j] > 0],
  tainted <- {},
  leaving <- {}

\* Attempts that lost their lease, unknown outcomes of COMMIT, stops and the owner
\* of the mailbox included, every step is a step of the lifecycle or invisible in
\* it: no message appears for a job that was given up, delivered or pruned, and no
\* late attempt opens or closes a job again (processLocalDelivery: the row lock of
\* its transaction, the lease_token of every UPDATE).
DeliveryImplementsLifecycle == Lifecycle!Spec
=============================================================================
