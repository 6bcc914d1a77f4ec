--------------------------- MODULE EventLifecycle ---------------------------
(***************************************************************************)
(* What an outbox promises to whoever raises an event, without leases,     *)
(* tokens, listings or workers.  An event waits until it is delivered or   *)
(* goes away, for good; an attempt begins only while it is pending; it is  *)
(* delivered only after its receiver took it.  One attempt at a time is    *)
(* made, and its receiver takes it once, unless the event is doubtful: the *)
(* outcome of an attempt was lost, or one went on for longer than a lease. *)
(* What an event belongs to may be removed at any time; an attempt under   *)
(* way may then still be taken.                                            *)
(***************************************************************************)
EXTENDS Naturals

CONSTANTS
  Event,
  Revocable   \* the events among them that a change of the settings withdraws

VARIABLES
  state,     \* per event: where it is in its life
  busy,      \* events with an attempt under way
  taken,     \* per event: how often its receiver took it (0, 1, 2+)
  doubtful   \* events whose attempts are not all accounted for

vars == <<state, busy, taken, doubtful>>

\* "spent" has used up its attempts and waits for an administrator.
State == {"absent", "pending", "spent", "delivered", "gone", "removed"}
Waiting == {"pending", "spent"}

TypeOK ==
  /\ state \in [Event -> State]
  /\ busy \subseteq Event
  /\ taken \in [Event -> 0 .. 2]
  /\ doubtful \subseteq Event

Move(e, from, to) ==
  /\ state[e] \in from
  /\ state' = [state EXCEPT ![e] = to]

\* No attempt is under way, as far as anybody knows.
Quiet(e) == e \in busy => e \in doubtful
\* From here on the event may be doubtful.
Doubt(e) == doubtful' \in {doubtful, doubtful \cup {e}}

Raise(e) == Move(e, {"absent"}, "pending") /\ UNCHANGED <<busy, taken, doubtful>>

Begin(e) ==
  /\ state[e] = "pending" /\ Quiet(e)
  /\ busy' = busy \cup {e}
  /\ UNCHANGED <<state, taken, doubtful>>

\* The receiver takes the event of an attempt; its reply may be lost.
Accept(e) ==
  /\ e \in busy
  /\ taken[e] = 0 \/ e \in doubtful
  /\ taken' = [taken EXCEPT ![e] = IF @ = 0 THEN 1 ELSE 2]
  /\ Doubt(e)
  /\ UNCHANGED <<state, busy>>

\* An attempt ends; another one for the event may remain only in doubt.
End(e) ==
  /\ e \in busy
  /\ busy' = busy \ {e} \/ (e \in doubtful /\ busy' = busy)
  /\ UNCHANGED taken

Deliver(e) == taken[e] > 0 /\ Move(e, Waiting, "delivered") /\ UNCHANGED doubtful
Exhaust(e) == Move(e, {"pending"}, "spent") /\ UNCHANGED doubtful
\* An attempt finds that its event is not wanted any more.
Dismiss(e) == e \in Revocable /\ Move(e, Waiting, "gone") /\ UNCHANGED doubtful
NoOutcome(e) == Doubt(e) /\ UNCHANGED state

\* The lease of an attempt ends: its event is spent if it was the last one, and
\* in doubt if it is still under way.
Expire(e) ==
  /\ Move(e, {"pending"}, "spent") \/ UNCHANGED state
  /\ doubtful' = IF e \in busy THEN doubtful \cup {e} ELSE doubtful
  /\ UNCHANGED <<busy, taken>>

Rearm(e)  == Quiet(e) /\ Move(e, {"spent"}, "pending")
Cancel(e) == Quiet(e) /\ Move(e, Waiting, "gone")
Prune(e)  == e \notin busy /\ Move(e, {"spent", "delivered"}, "gone")

\* The settings change.
Withdraw ==
  /\ state' = [e \in Event |-> IF e \in Revocable /\ state[e] \in Waiting THEN "gone" ELSE state[e]]
  /\ UNCHANGED <<busy, taken, doubtful>>

\* Events go with their mailbox or their user.
Remove(S) ==
  /\ S \subseteq {e \in Event : state[e] \in Waiting \cup {"delivered"}}
  /\ state' = [e \in Event |-> IF e \in S THEN "removed" ELSE state[e]]
  /\ UNCHANGED <<busy, taken, doubtful>>

Init ==
  /\ state = [e \in Event |-> "absent"]
  /\ busy = {}
  /\ taken = [e \in Event |-> 0]
  /\ doubtful = {}

Step(e) ==
  \/ Raise(e) \/ Begin(e) \/ Accept(e) \/ Expire(e)
  \/ End(e) /\ (Deliver(e) \/ Exhaust(e) \/ Dismiss(e) \/ NoOutcome(e))
  \/ (Rearm(e) \/ Cancel(e) \/ Prune(e)) /\ UNCHANGED <<busy, taken, doubtful>>

Next ==
  \/ Withdraw
  \/ \E S \in SUBSET Event : Remove(S)
  \/ \E e \in Event : Step(e)

Spec == Init /\ [][Next]_vars
=============================================================================
