---------------------------- MODULE MCQueuesLive ----------------------------
(***************************************************************************)
(* Liveness of the send queue and of the outboxes on small instances.      *)
(* They share no variable and are checked side by side: a behaviour is one *)
(* of the queue in focus, while the others stay in their initial state.    *)
(***************************************************************************)
EXTENDS SendQueue, Outbox

VARIABLE focus

liveVars == <<vars, outboxVars, focus>>

Queue(action) == focus = "queue" /\ action /\ UNCHANGED <<outboxVars, focus>>
Hooks(action) ==
  /\ focus = "hooks" /\ action
  /\ settings' = "on" /\ \A e \in Note : ruleRun'[e] = "idle"
  /\ UNCHANGED <<vars, focus>>
Notes(action) ==
  /\ focus = "notes" /\ action
  /\ \A e \in Hook : out'[e].status = "none"
  /\ UNCHANGED <<vars, focus>>

LiveInit == focus \in {"queue", "hooks", "notes"} /\ Init /\ OutboxInit
LiveNext == Queue(Next) \/ Hooks(OutboxNext) \/ Notes(OutboxNext)

\* The fairness of the components, each for the behaviours it is in focus of.
LiveFairness ==
  /\ \A p \in Process : WF_liveVars(Queue(Worker(p))) /\ WF_liveVars(Queue(Handling(p)))
  /\ \A i \in Item : WF_liveVars(Queue(LeaseExpires(i))) /\ WF_liveVars(Queue(BecomesDue(i)))
  /\ \A w \in HookWorker : WF_liveVars(Hooks(WorkerStep(w)))
  /\ \A w \in NoteWorker : WF_liveVars(Notes(WorkerStep(w)))
  /\ \A e \in Hook : WF_liveVars(Hooks(OutDue(e))) /\ WF_liveVars(Hooks(OutLeaseEnds(e)))
  /\ \A e \in Note : WF_liveVars(Notes(OutDue(e))) /\ WF_liveVars(Notes(OutLeaseEnds(e)))

LiveSpec == LiveInit /\ [][LiveNext]_liveVars /\ LiveFairness
=============================================================================
