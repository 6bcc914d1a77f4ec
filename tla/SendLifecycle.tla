--------------------------- MODULE SendLifecycle ---------------------------
(***************************************************************************)
(* What the send queue and local delivery promise to whoever hands them a  *)
(* mail, without leases, markers, workers or processes.  A mail is pending *)
(* until it is delivered, given up or canceled; it is handed over, to the  *)
(* SMTP server or into the mailbox, only while it is pending, and reported *)
(* delivered only after that (or a proof of an earlier delivery was left   *)
(* on disk: tainted).  A mail may be removed at any time; one that is on   *)
(* its way out at that moment (leaving) may still be handed over, but      *)
(* nothing is reported of it any more.                                     *)
(***************************************************************************)
CONSTANT Mail

VARIABLES
  state,    \* per mail: where it is in its life
  handed,   \* per mail: its present content was handed over
  tainted,  \* mails with a left-over proof of delivery
  leaving   \* mails removed while a delivery was under way that is not over yet

vars == <<state, handed, tainted, leaving>>

State == {"absent", "pending", "delivered", "failed", "canceled", "gone", "removed"}

TypeOK ==
  /\ state \in [Mail -> State]
  /\ handed \in [Mail -> BOOLEAN]
  /\ tainted \subseteq Mail
  /\ leaving \subseteq {m \in Mail : state[m] = "removed"}

Move(m, from, to) ==
  /\ state[m] \in from
  /\ state' = [state EXCEPT ![m] = to]

Submit(m)  == Move(m, {"absent"}, "pending")
Deliver(m) == (handed[m] \/ m \in tainted) /\ Move(m, {"pending"}, "delivered")
GiveUp(m)  == Move(m, {"pending"}, "failed")
Cancel(m)  == Move(m, {"pending", "failed"}, "canceled")
Retry(m)   == Move(m, {"failed"}, "pending")
Forget(m)  == Move(m, {"delivered", "failed", "canceled"}, "gone")

\* Sending the same message again after it finished: new content, a new life.
\* (The finish may already have been undone by a retry that failed again.)
Replace(m) ==
  /\ Move(m, {"delivered", "failed", "canceled", "pending"}, "pending")
  /\ handed' = [handed EXCEPT ![m] = FALSE]
  /\ UNCHANGED <<tainted, leaving>>

HandOver(m) ==
  /\ state[m] = "pending"
  /\ handed' = [handed EXCEPT ![m] = TRUE]
  /\ UNCHANGED <<state, tainted, leaving>>

\* The delivery that was under way when the mail was removed succeeds.
HandOverLate(m) ==
  /\ m \in leaving
  /\ handed' = [handed EXCEPT ![m] = TRUE]
  /\ leaving' = leaving \ {m}
  /\ UNCHANGED <<state, tainted>>

\* Mails are removed with the mailbox they belong to, wherever they stand; a
\* delivery can only be under way of those that were pending.
Remove(S) ==
  /\ \A m \in S : state[m] \notin {"absent", "gone", "removed"}
  /\ state' = [m \in Mail |-> IF m \in S THEN "removed" ELSE state[m]]
  /\ \E L \in SUBSET {m \in S : state[m] = "pending"} : leaving' = leaving \cup L
  /\ UNCHANGED <<handed, tainted>>

\* Deliveries of removed mails end without success, and proofs of delivery are
\* left behind: a stop of the program may do both at once.
Interrupt ==
  /\ leaving' \in SUBSET leaving
  /\ \E S \in SUBSET Mail : tainted' = tainted \cup S
  /\ UNCHANGED <<state, handed>>

Init ==
  /\ state = [m \in Mail |-> "absent"]
  /\ handed = [m \in Mail |-> FALSE]
  /\ tainted = {}
  /\ leaving = {}

Step(m) ==
  \/ /\ Submit(m) \/ Deliver(m) \/ GiveUp(m) \/ Cancel(m) \/ Retry(m) \/ Forget(m)
     /\ UNCHANGED <<handed, tainted, leaving>>
  \/ Replace(m)
  \/ HandOver(m)
  \/ HandOverLate(m)

Next ==
  \/ \E m \in Mail : Step(m)
  \/ \E S \in SUBSET Mail : Remove(S)
  \/ Interrupt

Spec == Init /\ [][Next]_vars
=============================================================================
