-------------------------- MODULE GatewayDelivery --------------------------
(***************************************************************************)
(* The way of an order event from Shopee to the tenant it belongs to: the  *)
(* gateway stores the event with a delivery in one transaction, its worker *)
(* leases deliveries in batches and posts them one after the other, and    *)
(* the tenant stores the event and then queues a job for its order.        *)
(*                                                                         *)
(* Shopee pushes an event again until it is told that it was accepted.  A  *)
(* worker whose process was replaced may still be busy with its batch.     *)
(***************************************************************************)
EXTENDS Integers, FiniteSets

CONSTANTS
  Events,   \* order events of one shop, each with its dedupe key
  Workers,  \* of the gateway's processes
  NoEvent,
  MaxJobs   \* bound on the jobs counted for an event

ASSUME DeliveryAssumption == NoEvent \notin Events /\ MaxJobs \in Nat \ {0, 1}

VARIABLES
  routed,    \* whether the shop has an active route to an enabled tenant
  acked,     \* events Shopee knows to be accepted
  event,     \* processing_status of push_events
  outbox,    \* rows of delivery_outbox
  worker,    \* what each delivery worker is doing
  stored,    \* events in the tenant's shopee_push_events
  jobs       \* jobs the tenant has queued for each event

vars == <<routed, acked, event, outbox, worker, stored, jobs>>

EventStatuses == {"", "queued", "unknown_shop", "failed", "delivered"}
DeliveryType == [status : {"none", "pending", "running", "failed", "delivered"}, stale : BOOLEAN]
WorkerType == [pc : {"idle", "posting", "stored", "answered", "failing"},
               batch : SUBSET Events, event : Events \cup {NoEvent}]

TypeOK ==
  /\ routed \in BOOLEAN
  /\ acked \subseteq Events
  /\ event \in [Events -> EventStatuses]
  /\ outbox \in [Events -> DeliveryType]
  /\ worker \in [Workers -> WorkerType]
  /\ stored \subseteq Events
  /\ jobs \in [Events -> Nat]

Idle == [pc |-> "idle", batch |-> {}, event |-> NoEvent]

Init ==
  /\ routed \in BOOLEAN
  /\ acked = {}
  /\ event = [e \in Events |-> ""]
  /\ outbox = [e \in Events |-> [status |-> "none", stale |-> FALSE]]
  /\ worker = [w \in Workers |-> Idle]
  /\ stored = {}
  /\ jobs = [e \in Events |-> 0]

tenant == <<stored, jobs>>
gateway == <<routed, acked, event, outbox>>

At(w, pc) == worker[w].pc = pc
Goto(w, pc) == worker' = [worker EXCEPT ![w].pc = pc]

-----------------------------------------------------------------------------
(* SyncTenantRoutes, or an authorisation of the shop.                      *)
ChangeRoute ==
  /\ routed' = ~routed
  /\ UNCHANGED <<acked, event, outbox, worker, tenant>>

(* AcceptPushEvent; the answer to Shopee may be lost.                      *)
AcceptPushEvent(e) ==
  /\ e \notin acked
  /\ acked' \in {acked, acked \cup {e}}
  /\ IF event[e] # "" THEN UNCHANGED <<event, outbox>>
     ELSE /\ event' = [event EXCEPT ![e] = IF routed THEN "queued" ELSE "unknown_shop"]
          /\ outbox' = IF routed THEN [outbox EXCEPT ![e].status = "pending"] ELSE outbox
  /\ UNCHANGED <<routed, worker, tenant>>

-----------------------------------------------------------------------------
(* The delivery worker.                                                    *)

Due(e) == outbox[e].status \in {"pending", "failed"}

(* Faulty variant: a delivery stays with the worker that leased it.        *)
Recovered_Never(e) == outbox[e]

(* A row that has been running for five minutes is due at the next lease.  *)
Recovered(e) ==
  IF outbox[e].status = "running" /\ outbox[e].stale
  THEN [status |-> "failed", stale |-> FALSE] ELSE outbox[e]

(* Backoffs end some time, and the batch has a limit.                      *)
LeaseDeliveries(w, batch) ==
  /\ At(w, "idle") /\ worker[w].batch = {}
  /\ batch \subseteq {e \in Events : Due(e)}
  /\ outbox' = [e \in Events |-> IF e \in batch THEN [status |-> "running", stale |-> FALSE]
                                ELSE Recovered(e)]
  /\ worker' = [worker EXCEPT ![w].batch = batch]
  /\ UNCHANGED <<routed, acked, event, tenant>>

Post(w, e) ==
  /\ At(w, "idle") /\ e \in worker[w].batch
  /\ worker' = [worker EXCEPT ![w] = [pc |-> "posting", batch |-> @.batch \ {e}, event |-> e]]
  /\ UNCHANGED <<gateway, tenant>>

(* The post fails or times out, which cancels the tenant's statements; or  *)
(* the tenant stops, or its answer is lost.                                *)
PostFails(w) ==
  /\ worker[w].pc \in {"posting", "stored", "answered"}
  /\ Goto(w, "failing")
  /\ UNCHANGED <<gateway, tenant>>

(* Faulty variant: a delivery is settled whether or not it succeeded.      *)
StatusAfter_Delivered(w) == "delivered"

StatusAfter(w) == IF At(w, "answered") THEN "delivered" ELSE "failed"

(* MarkDeliveryDone and MarkDeliveryFailed: the row only while it runs, the *)
(* event in any case.                                                      *)
MarkDelivery(w) ==
  LET e == worker[w].event IN
  /\ worker[w].pc \in {"answered", "failing"}
  /\ outbox' = IF outbox[e].status = "running"
               THEN [outbox EXCEPT ![e] = [status |-> StatusAfter(w), stale |-> FALSE]] ELSE outbox
  /\ event' = [event EXCEPT ![e] = StatusAfter(w)]
  /\ worker' = [worker EXCEPT ![w] = [Idle EXCEPT !.batch = worker[w].batch]]
  /\ UNCHANGED <<routed, acked, tenant>>

(* The result cannot be recorded.                                          *)
MarkFails(w) ==
  /\ worker[w].pc \in {"answered", "failing"}
  /\ worker' = [worker EXCEPT ![w] = [Idle EXCEPT !.batch = worker[w].batch]]
  /\ UNCHANGED <<gateway, tenant>>

Stop(w) ==
  /\ worker[w] # Idle
  /\ worker' = [worker EXCEPT ![w] = Idle]
  /\ UNCHANGED <<gateway, tenant>>

(* Five minutes: a batch may take longer.                                  *)
BecomesStale(e) ==
  /\ outbox[e].status = "running" /\ ~outbox[e].stale
  /\ outbox' = [outbox EXCEPT ![e].stale = TRUE]
  /\ UNCHANGED <<routed, acked, event, worker, tenant>>

-----------------------------------------------------------------------------
(* The tenant.                                                             *)

(* Faulty variant: the tenant queues a job for each delivery.              *)
NextStep_Always(e) == "stored"

NextStep(e) == IF e \in stored THEN "answered" ELSE "stored"

(* InsertPushEvent.                                                        *)
InsertPushEvent(w) ==
  LET e == worker[w].event IN
  /\ At(w, "posting")
  /\ stored' = stored \cup {e}
  /\ Goto(w, NextStep(e))
  /\ UNCHANGED <<gateway, jobs>>

EnqueueReconcileJob(w) ==
  LET e == worker[w].event IN
  /\ At(w, "stored") /\ jobs[e] < MaxJobs
  /\ jobs' = [jobs EXCEPT ![e] = @ + 1]
  /\ Goto(w, "answered")
  /\ UNCHANGED <<gateway, stored>>

-----------------------------------------------------------------------------
Deliver(w) == (\E e \in Events : Post(w, e)) \/ InsertPushEvent(w) \/ EnqueueReconcileJob(w) \/ MarkDelivery(w)

Next ==
  \/ ChangeRoute
  \/ \E e \in Events : AcceptPushEvent(e) \/ BecomesStale(e)
  \/ \E w \in Workers : \/ \E batch \in SUBSET Events : LeaseDeliveries(w, batch)
                        \/ Deliver(w) \/ PostFails(w) \/ MarkFails(w) \/ Stop(w)

Spec == Init /\ [][Next]_vars

(* The worker polls every two seconds and works through its batch; the     *)
(* gateway and the tenant are up often enough for a delivery to succeed.   *)
Fairness ==
  /\ \A e \in Events : WF_vars(BecomesStale(e))
  /\ \A w \in Workers :
       /\ WF_vars(\E batch \in SUBSET Events : LeaseDeliveries(w, batch))
       /\ \A e \in Events :
            /\ SF_vars(\E batch \in SUBSET Events : e \in batch /\ LeaseDeliveries(w, batch))
            /\ SF_vars(Post(w, e))
            /\ SF_vars(worker[w].event = e /\ (InsertPushEvent(w) \/ EnqueueReconcileJob(w)))
       /\ WF_vars(Deliver(w))

FairSpec == Spec /\ Fairness

-----------------------------------------------------------------------------
(* An event the tenant has stored and nobody will queue any more: a        *)
(* delivery of it is answered without looking for its job.                 *)
Dropped(e) ==
  e \in stored /\ jobs[e] = 0 /\ \A w \in Workers : ~(At(w, "stored") /\ worker[w].event = e)

Stage(e) ==
  IF jobs[e] = 1 THEN "queued"
  ELSE IF jobs[e] # 0 THEN "queued twice"
  ELSE IF Dropped(e) THEN "dropped"
  ELSE IF event[e] = "" THEN "pushed"
  ELSE IF event[e] = "unknown_shop" THEN "unknown_shop"
  ELSE "accepted"

Stages == [e \in Events |-> Stage(e)]

Channel == INSTANCE EventChannel WITH stage <- Stages

\* Whatever is delivered twice, answered late or not recorded, the tenant
\* queues one job for each event the gateway accepted, and does so in the
\* end, unless it dropped the event between its two statements.
OneJobPerEvent == Channel!Spec

\* The gateway takes an event for delivered only when the tenant has it: the
\* mark of a worker that was too slow does not settle the delivery of
\* another one that has failed or is under way.
DeliveredIsStored ==
  \A e \in Events : outbox[e].status = "delivered" \/ event[e] = "delivered" => e \in stored
=============================================================================
