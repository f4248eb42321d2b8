----------------------- MODULE GatewayDeliveryProofs -----------------------
(***************************************************************************)
(* The safety properties of GatewayDelivery, and the safety part of its    *)
(* refinement of EventChannel, for any number of events and workers.       *)
(***************************************************************************)
EXTENDS GatewayDelivery, TLAPS

Busy(w) == worker[w].pc # "idle"
InHand(w, e) == e \in worker[w].batch \/ (Busy(w) /\ worker[w].event = e)
Queueing(w, e) == At(w, "stored") /\ worker[w].event = e

(* A delivery exists of the events that were accepted for a tenant.        *)
AcceptedIsRouted ==
  \A e \in Events : event[e] \in {"", "unknown_shop"} => outbox[e].status = "none"

(* Nothing happens to an event of which there is none.                     *)
UnroutedIsIdle ==
  \A e \in Events : outbox[e].status = "none" =>
    /\ e \notin stored /\ jobs[e] = 0
    /\ \A w \in Workers : ~InHand(w, e)

(* Who is past the tenant's first statement has stored the event; of those *)
(* before the second one there is one, before any job.                     *)
WorkersStore ==
  /\ \A w \in Workers : Busy(w) => worker[w].event \in Events
  /\ \A w \in Workers : worker[w].pc \in {"stored", "answered"} => worker[w].event \in stored

OneQueues ==
  /\ \A e \in Events, v, w \in Workers : Queueing(v, e) /\ Queueing(w, e) => v = w
  /\ \A e \in Events : jobs[e] # 0 =>
       jobs[e] = 1 /\ e \in stored /\ \A w \in Workers : ~Queueing(w, e)

IInv ==
  TypeOK /\ AcceptedIsRouted /\ UnroutedIsIdle /\ WorkersStore /\ OneQueues /\ DeliveredIsStored

LEMMA InitIInv == Init => IInv
<1> SUFFICES ASSUME Init PROVE IInv
  OBVIOUS
<1>1. Idle \in WorkerType /\ Idle.pc = "idle" /\ Idle.batch = {}
  BY DEF Idle, WorkerType
<1>2. worker \in [Workers -> WorkerType] /\ \A w \in Workers : worker[w].pc = "idle" /\ worker[w].batch = {}
  BY <1>1 DEF Init
<1>3. outbox \in [Events -> DeliveryType] /\ \A e \in Events : outbox[e].status = "none"
  BY DEF Init, DeliveryType
<1>4. event \in [Events -> EventStatuses] /\ \A e \in Events : event[e] = ""
  BY DEF Init, EventStatuses
<1>5. jobs \in [Events -> Nat] /\ \A e \in Events : jobs[e] = 0
  BY DEF Init
<1>6. routed \in BOOLEAN /\ acked = {} /\ stored = {}
  BY DEF Init
<1>7. TypeOK
  BY <1>2, <1>3, <1>4, <1>5, <1>6 DEF TypeOK
<1>8. AcceptedIsRouted /\ DeliveredIsStored
  BY <1>3, <1>4 DEF AcceptedIsRouted, DeliveredIsStored
<1>9. UnroutedIsIdle /\ WorkersStore /\ OneQueues
  BY <1>2, <1>5, <1>6 DEF UnroutedIsIdle, WorkersStore, OneQueues, InHand, Queueing, Busy, At
<1> QED
  BY <1>7, <1>8, <1>9 DEF IInv

-----------------------------------------------------------------------------
(* One worker moves, and the tenant's tables stay.                         *)
LEMMA WorkerMoves ==
  ASSUME IInv, NEW w \in Workers, NEW new \in WorkerType, worker' = [worker EXCEPT ![w] = new],
         UNCHANGED <<outbox, stored, jobs>>,
         new.pc # "idle" => new.event \in Events,
         new.pc = "answered" => new.event \in stored,
         new.pc # "stored",
         \A e \in new.batch \cup {new.event} :
           e \in Events /\ (e \in new.batch \/ new.pc # "idle") => outbox[e].status # "none"
  PROVE  worker' \in [Workers -> WorkerType] /\ UnroutedIsIdle' /\ WorkersStore' /\ OneQueues'
<1>1. worker \in [Workers -> WorkerType] /\ UnroutedIsIdle /\ WorkersStore /\ OneQueues
  BY DEF IInv, TypeOK
<1>2. worker'[w] = new /\ \A v \in Workers \ {w} : worker'[v] = worker[v]
  BY <1>1
<1>3. worker' \in [Workers -> WorkerType]
  BY <1>1
<1>4. UnroutedIsIdle'
  BY <1>1, <1>2 DEF UnroutedIsIdle, InHand, Busy
<1>5. WorkersStore'
  BY <1>1, <1>2 DEF WorkersStore, Busy
<1>6. OneQueues'
  BY <1>1, <1>2 DEF OneQueues, Queueing, At
<1> QED
  BY <1>3, <1>4, <1>5, <1>6

(* What a worker may come to.                                              *)
LEMMA WorkerRows ==
  ASSUME IInv, NEW w \in Workers
  PROVE  /\ \A pc \in {"stored", "answered", "failing"} :
              /\ [worker[w] EXCEPT !.pc = pc] \in WorkerType
              /\ [worker[w] EXCEPT !.pc = pc].pc = pc
              /\ [worker[w] EXCEPT !.pc = pc].event = worker[w].event
              /\ [worker[w] EXCEPT !.pc = pc].batch = worker[w].batch
         /\ \A batch \in SUBSET Events :
              /\ [worker[w] EXCEPT !.batch = batch] \in WorkerType
              /\ [worker[w] EXCEPT !.batch = batch].pc = worker[w].pc
              /\ [worker[w] EXCEPT !.batch = batch].event = worker[w].event
              /\ [worker[w] EXCEPT !.batch = batch].batch = batch
              /\ [Idle EXCEPT !.batch = batch] \in WorkerType
              /\ [Idle EXCEPT !.batch = batch].pc = "idle"
              /\ [Idle EXCEPT !.batch = batch].batch = batch
              /\ \A e \in Events : [pc |-> "posting", batch |-> batch, event |-> e] \in WorkerType
         /\ Idle \in WorkerType /\ Idle.pc = "idle" /\ Idle.batch = {}
         /\ worker \in [Workers -> WorkerType] /\ worker[w] \in WorkerType
         /\ worker[w].batch \in SUBSET Events
<1>1. worker \in [Workers -> WorkerType]
  BY DEF IInv, TypeOK
<1>2. worker[w] \in WorkerType
  BY <1>1
<1>3. worker[w].batch \in SUBSET Events
  BY <1>2 DEF WorkerType
<1> QED
  BY <1>1, <1>2, <1>3 DEF WorkerType, Idle

LEMMA RestRow ==
  ASSUME NEW batch \in SUBSET Events
  PROVE  /\ [Idle EXCEPT !.batch = batch] \in WorkerType
         /\ [Idle EXCEPT !.batch = batch].pc = "idle"
         /\ [Idle EXCEPT !.batch = batch].batch = batch
BY DEF Idle, WorkerType

-----------------------------------------------------------------------------
(* Routes and answers to Shopee do not matter to it.                       *)
LEMMA NothingMoves ==
  ASSUME IInv, routed' \in BOOLEAN, acked' \subseteq Events,
         UNCHANGED <<event, outbox, worker, stored, jobs>>
  PROVE  IInv'
<1>1. TypeOK'
  BY DEF IInv, TypeOK
<1>2. AcceptedIsRouted' /\ DeliveredIsStored'
  BY DEF IInv, AcceptedIsRouted, DeliveredIsStored
<1>3. UnroutedIsIdle'
  BY DEF IInv, UnroutedIsIdle, InHand, Busy
<1>4. WorkersStore' /\ OneQueues'
  BY DEF IInv, WorkersStore, OneQueues, Queueing, Busy, At
<1> QED
  BY <1>1, <1>2, <1>3, <1>4 DEF IInv

LEMMA NextIInv == IInv /\ [Next]_vars => IInv'
<1> SUFFICES ASSUME IInv, [Next]_vars PROVE IInv'
  OBVIOUS
<1>t. /\ routed \in BOOLEAN /\ acked \subseteq Events /\ event \in [Events -> EventStatuses]
      /\ outbox \in [Events -> DeliveryType] /\ worker \in [Workers -> WorkerType]
      /\ stored \subseteq Events /\ jobs \in [Events -> Nat]
  BY DEF IInv, TypeOK
<1>k. AcceptedIsRouted /\ UnroutedIsIdle /\ WorkersStore /\ OneQueues /\ DeliveredIsStored
  BY DEF IInv
<1>o. \A e \in Events : /\ outbox[e] \in DeliveryType
                        /\ [outbox[e] EXCEPT !.status = "pending"] \in DeliveryType
                        /\ [outbox[e] EXCEPT !.status = "pending"].status = "pending"
                        /\ [outbox[e] EXCEPT !.stale = TRUE] \in DeliveryType
                        /\ [outbox[e] EXCEPT !.stale = TRUE].status = outbox[e].status
  <2>1. \A e \in Events : outbox[e] \in DeliveryType
    BY <1>t
  <2> QED
    BY <2>1 DEF DeliveryType
<1>1. CASE ChangeRoute
  BY <1>1, <1>t, NothingMoves DEF ChangeRoute, tenant
\* Steps that write the rows of one event and leave worker and tenant alone.
<1>2. ASSUME NEW e \in Events, NEW s \in EventStatuses, NEW r \in DeliveryType,
             event' = [event EXCEPT ![e] = s], outbox' = [outbox EXCEPT ![e] = r],
             r.status = "none" => outbox[e].status = "none",
             s \in {"", "unknown_shop"} => r.status = "none",
             r.status = "delivered" \/ s = "delivered" => e \in stored,
             routed' \in BOOLEAN, acked' \subseteq Events, UNCHANGED <<worker, stored, jobs>>
      PROVE  IInv'
  <2>1. /\ event'[e] = s /\ outbox'[e] = r
        /\ \A f \in Events \ {e} : event'[f] = event[f] /\ outbox'[f] = outbox[f]
    BY <1>2, <1>t
  <2>2. TypeOK'
    BY <1>2, <1>t DEF TypeOK
  <2>3. AcceptedIsRouted'
    BY <1>2, <1>k, <2>1 DEF AcceptedIsRouted
  <2>4. UnroutedIsIdle'
    BY <1>2, <1>k, <2>1 DEF UnroutedIsIdle, InHand, Busy
  <2>5. WorkersStore' /\ OneQueues'
    BY <1>2, <1>k DEF WorkersStore, OneQueues, Queueing, Busy, At
  <2>6. DeliveredIsStored'
    BY <1>2, <1>k, <2>1 DEF DeliveredIsStored
  <2> QED
    BY <2>2, <2>3, <2>4, <2>5, <2>6 DEF IInv
<1>3. ASSUME NEW e \in Events, AcceptPushEvent(e) PROVE IInv'
  <2>1. acked' \subseteq Events /\ UNCHANGED <<routed, worker, stored, jobs>>
    BY <1>3, <1>t DEF AcceptPushEvent, tenant
  <2>2. CASE event[e] # ""
    <3>1. UNCHANGED <<event, outbox>>
      BY <1>3, <2>2 DEF AcceptPushEvent
    <3> QED
      BY <1>t, <2>1, <3>1, NothingMoves
  <2>3. CASE event[e] = "" /\ routed
    <3>1. event' = [event EXCEPT ![e] = "queued"]
      BY <1>3, <2>3 DEF AcceptPushEvent
    <3>2. outbox' = [outbox EXCEPT ![e] = [outbox[e] EXCEPT !.status = "pending"]]
      BY <1>3, <2>3, <1>t DEF AcceptPushEvent
    <3>3. "queued" \in EventStatuses
      BY DEF EventStatuses
    <3> QED
      BY <1>t, <1>o, <2>1, <3>1, <3>2, <3>3, <1>2
  <2>4. CASE event[e] = "" /\ ~routed
    <3>1. event' = [event EXCEPT ![e] = "unknown_shop"] /\ outbox' = outbox
      BY <1>3, <2>4 DEF AcceptPushEvent
    <3>2. outbox' = [outbox EXCEPT ![e] = outbox[e]] /\ outbox[e].status = "none"
      BY <3>1, <1>t, <1>k, <2>4 DEF AcceptedIsRouted
    <3>3. "unknown_shop" \in EventStatuses
      BY DEF EventStatuses
    <3> QED
      BY <1>t, <1>o, <2>1, <3>1, <3>2, <3>3, <1>2
  <2> QED
    BY <2>2, <2>3, <2>4
<1>4. ASSUME NEW e \in Events, BecomesStale(e) PROVE IInv'
  <2>1. /\ outbox[e].status = "running" /\ UNCHANGED <<routed, acked, event, worker, stored, jobs>>
        /\ outbox' = [outbox EXCEPT ![e] = [outbox[e] EXCEPT !.stale = TRUE]]
    BY <1>4, <1>t DEF BecomesStale, tenant
  <2>2. event' = [event EXCEPT ![e] = event[e]] /\ event[e] \in EventStatuses
    BY <1>t, <2>1
  <2>3. event[e] \notin {"", "unknown_shop"} /\ (event[e] = "delivered" => e \in stored)
    BY <1>k, <2>1 DEF AcceptedIsRouted, DeliveredIsStored
  <2> QED
    BY <1>t, <1>o, <2>1, <2>2, <2>3, <1>2
\* The workers.
<1>5. ASSUME NEW w \in Workers, NEW batch \in SUBSET Events, LeaseDeliveries(w, batch) PROVE IInv'
  <2> DEFINE new == [worker[w] EXCEPT !.batch = batch]
             r == [status |-> "running", stale |-> FALSE]
  <2>1. /\ At(w, "idle") /\ batch \subseteq {e \in Events : Due(e)}
        /\ UNCHANGED <<routed, acked, event, stored, jobs>>
        /\ worker' = [worker EXCEPT ![w] = new]
        /\ outbox' = [e \in Events |-> IF e \in batch THEN r ELSE Recovered(e)]
    BY <1>5, <1>t DEF LeaseDeliveries, tenant
  <2>2. new \in WorkerType /\ new.pc = "idle" /\ new.batch = batch
    BY WorkerRows, <2>1 DEF At
  <2>3. r \in DeliveryType /\ r.status = "running"
    BY DEF DeliveryType
  <2>4. \A e \in Events : /\ Recovered(e) \in DeliveryType
                          /\ Recovered(e).status \in {outbox[e].status, "failed"}
                          /\ Recovered(e).status = "none" <=> outbox[e].status = "none"
    BY <1>o DEF Recovered, DeliveryType
  <2>5. \A e \in batch : outbox[e].status # "none"
    BY <2>1 DEF Due
  <2> HIDE DEF new, r
  <2>6. /\ \A e \in Events : outbox'[e] = IF e \in batch THEN r ELSE Recovered(e)
        /\ outbox' \in [Events -> DeliveryType]
    BY <2>1, <2>3, <2>4
  <2>7. \A e \in Events : /\ outbox'[e].status = "none" <=> outbox[e].status = "none"
                          /\ outbox'[e].status = "delivered" => outbox[e].status = "delivered"
    BY <2>3, <2>4, <2>5, <2>6
  <2>8. /\ worker'[w] = new /\ \A v \in Workers \ {w} : worker'[v] = worker[v]
        /\ worker' \in [Workers -> WorkerType]
    BY <1>t, <2>1, <2>2
  <2>9. AcceptedIsRouted' /\ DeliveredIsStored'
    BY <1>k, <2>1, <2>7 DEF AcceptedIsRouted, DeliveredIsStored
  <2>10. UnroutedIsIdle'
    BY <1>k, <2>1, <2>2, <2>5, <2>7, <2>8 DEF UnroutedIsIdle, InHand, Busy
  <2>11. WorkersStore' /\ OneQueues'
    BY <1>k, <2>1, <2>2, <2>8 DEF WorkersStore, OneQueues, Queueing, Busy, At
  <2> QED
    BY <1>t, <2>1, <2>6, <2>8, <2>9, <2>10, <2>11 DEF IInv, TypeOK
<1>6. ASSUME NEW w \in Workers, NEW new \in WorkerType, worker' = [worker EXCEPT ![w] = new],
             UNCHANGED <<routed, acked, event, outbox, stored, jobs>>,
             new.pc # "idle" => new.event \in Events /\ InHand(w, new.event),
             new.pc = "answered" => new.event \in stored,
             new.pc # "stored", new.batch \subseteq worker[w].batch
      PROVE  IInv'
  <2>1. \A e \in new.batch \cup {new.event} :
           e \in Events /\ (e \in new.batch \/ new.pc # "idle") => outbox[e].status # "none"
    BY <1>6, <1>k DEF UnroutedIsIdle, InHand
  <2>2. worker' \in [Workers -> WorkerType] /\ UnroutedIsIdle' /\ WorkersStore' /\ OneQueues'
    BY <1>6, <2>1, WorkerMoves
  <2>3. AcceptedIsRouted' /\ DeliveredIsStored'
    BY <1>6, <1>k DEF AcceptedIsRouted, DeliveredIsStored
  <2> QED
    BY <1>6, <1>t, <2>2, <2>3 DEF IInv, TypeOK
<1>7. ASSUME NEW w \in Workers, NEW e \in Events, Post(w, e) PROVE IInv'
  <2> DEFINE new == [pc |-> "posting", batch |-> worker[w].batch \ {e}, event |-> e]
  <2>1. /\ UNCHANGED <<routed, acked, event, outbox, stored, jobs>>
        /\ e \in worker[w].batch /\ worker' = [worker EXCEPT ![w] = new]
    BY <1>7, <1>t DEF Post, gateway, tenant
  <2>2. worker[w].batch \ {e} \in SUBSET Events
    BY WorkerRows
  <2>3. new \in WorkerType
    BY <2>2, WorkerRows
  <2>4. new.pc = "posting" /\ new.event = e /\ new.batch \subseteq worker[w].batch
    OBVIOUS
  <2> HIDE DEF new
  <2> QED
    BY <2>1, <2>3, <2>4, <1>6 DEF InHand
<1>8. ASSUME NEW w \in Workers, PostFails(w) PROVE IInv'
  <2> DEFINE new == [worker[w] EXCEPT !.pc = "failing"]
  <2>1. /\ UNCHANGED <<routed, acked, event, outbox, stored, jobs>>
        /\ Busy(w) /\ worker' = [worker EXCEPT ![w] = new]
    BY <1>8, <1>t DEF PostFails, Goto, gateway, tenant, Busy
  <2>2. new \in WorkerType /\ new.pc = "failing" /\ new.event = worker[w].event /\ new.batch = worker[w].batch
    BY WorkerRows
  <2>3. worker[w].event \in Events
    BY <1>k, <2>1 DEF WorkersStore
  <2> HIDE DEF new
  <2> QED
    BY <2>1, <2>2, <2>3, <1>6 DEF InHand
<1>9. ASSUME NEW w \in Workers, MarkFails(w) \/ Stop(w) PROVE IInv'
  <2>1. UNCHANGED <<routed, acked, event, outbox, stored, jobs>>
    BY <1>9 DEF MarkFails, Stop, gateway, tenant
  <2>2. PICK new \in {Idle, [Idle EXCEPT !.batch = worker[w].batch]} : worker' = [worker EXCEPT ![w] = new]
    BY <1>9 DEF MarkFails, Stop
  <2>3. new \in WorkerType /\ new.pc = "idle" /\ new.batch \subseteq worker[w].batch
    <3>1. worker[w].batch \in SUBSET Events /\ Idle \in WorkerType /\ Idle.pc = "idle" /\ Idle.batch = {}
      BY WorkerRows
    <3> QED
      BY <3>1, RestRow
  <2> QED
    BY <2>1, <2>2, <2>3, <1>6
<1>10. ASSUME NEW w \in Workers, MarkDelivery(w) PROVE IInv'
  <2> DEFINE e == worker[w].event
             s == StatusAfter(w)
             new == [Idle EXCEPT !.batch = worker[w].batch]
             r == IF outbox[e].status = "running" THEN [status |-> s, stale |-> FALSE] ELSE outbox[e]
  <2>1. Busy(w) /\ worker[w].pc \in {"answered", "failing"} /\ UNCHANGED <<routed, acked, stored, jobs>>
    BY <1>10 DEF MarkDelivery, tenant, Busy
  <2>2. e \in Events /\ (At(w, "answered") => e \in stored)
    BY <1>k, <2>1 DEF WorkersStore, At
  <2>3. event' = [event EXCEPT ![e] = s] /\ worker' = [worker EXCEPT ![w] = new]
    BY <1>10 DEF MarkDelivery
  <2>4. outbox' = [outbox EXCEPT ![e] = r]
    BY <1>10, <1>t, <2>2 DEF MarkDelivery
  <2>5. s \in {"delivered", "failed"} /\ s \in EventStatuses /\ (s = "delivered" => e \in stored)
    BY <2>2 DEF StatusAfter, EventStatuses
  <2>6. outbox[e].status # "none"
    BY <1>k, <2>1, <2>2 DEF UnroutedIsIdle, InHand
  <2>7. r \in DeliveryType /\ r.status \in {s, outbox[e].status}
    BY <1>o, <2>2, <2>5 DEF DeliveryType
  <2>8. new \in WorkerType /\ new.pc = "idle" /\ new.batch = worker[w].batch
    <3>1. worker[w].batch \in SUBSET Events
      BY WorkerRows
    <3> QED
      BY <3>1, RestRow
  <2>9. outbox[e].status = "delivered" => e \in stored
    BY <1>k, <2>2 DEF DeliveredIsStored
  <2> HIDE DEF e, s, new, r
  <2>10. /\ event'[e] = s /\ outbox'[e] = r /\ outbox' \in [Events -> DeliveryType]
         /\ event' \in [Events -> EventStatuses]
         /\ \A f \in Events \ {e} : event'[f] = event[f] /\ outbox'[f] = outbox[f]
    BY <1>t, <2>2, <2>3, <2>4, <2>5, <2>7
  <2>11. worker'[w] = new /\ (\A v \in Workers \ {w} : worker'[v] = worker[v]) /\ worker' \in [Workers -> WorkerType]
    BY <1>t, <2>3, <2>8
  <2>12. AcceptedIsRouted' /\ DeliveredIsStored'
    BY <1>k, <2>1, <2>5, <2>7, <2>9, <2>10 DEF AcceptedIsRouted, DeliveredIsStored
  <2>13. \A f \in Events : outbox'[f].status = "none" => outbox[f].status = "none"
    BY <2>2, <2>5, <2>6, <2>7, <2>10
  <2>14. UnroutedIsIdle'
    BY <1>k, <2>1, <2>8, <2>11, <2>13 DEF UnroutedIsIdle, InHand, Busy
  <2>15. WorkersStore' /\ OneQueues'
    BY <1>k, <2>1, <2>8, <2>11 DEF WorkersStore, OneQueues, Queueing, Busy, At
  <2> QED
    BY <1>t, <2>1, <2>10, <2>11, <2>12, <2>14, <2>15 DEF IInv, TypeOK
\* The tenant.
<1>11. ASSUME NEW w \in Workers, InsertPushEvent(w) PROVE IInv'
  <2> DEFINE e == worker[w].event
             next == NextStep(e)
             new == [worker[w] EXCEPT !.pc = next]
  <2>1. /\ Busy(w) /\ UNCHANGED <<routed, acked, event, outbox, jobs>> /\ stored' = stored \cup {e}
        /\ worker' = [worker EXCEPT ![w] = new]
    BY <1>11, <1>t DEF InsertPushEvent, Goto, gateway, Busy, At
  <2>2. e \in Events /\ outbox[e].status # "none"
    <3>1. e \in Events
      BY <1>k, <2>1 DEF WorkersStore
    <3> QED
      BY <1>k, <2>1, <3>1 DEF UnroutedIsIdle, InHand
  <2>3. next \in {"stored", "answered"} /\ (next = "stored" => e \notin stored)
    BY DEF NextStep
  <2> HIDE DEF next
  <2>4. new \in WorkerType /\ new.pc = next /\ new.event = e /\ new.batch = worker[w].batch
    <3>1. worker[w] \in WorkerType
      BY WorkerRows
    <3> QED
      BY <2>3, <3>1 DEF WorkerType
  <2> HIDE DEF e, new
  <2>5. worker'[w] = new /\ (\A v \in Workers \ {w} : worker'[v] = worker[v]) /\ worker' \in [Workers -> WorkerType]
    BY <1>t, <2>1, <2>4
  <2>6. worker[w].event = e
    BY DEF e
  <2>7. AcceptedIsRouted' /\ DeliveredIsStored'
    BY <1>k, <2>1 DEF AcceptedIsRouted, DeliveredIsStored
  <2>8. UnroutedIsIdle'
    BY <1>k, <2>1, <2>2, <2>4, <2>5 DEF UnroutedIsIdle, InHand, Busy
  <2>9. WorkersStore'
    BY <1>k, <2>1, <2>2, <2>4, <2>5 DEF WorkersStore, Busy
  <2>10. \A v \in Workers : Queueing(v, e) => e \in stored
    BY <1>k DEF WorkersStore, Queueing, At
  <2>11. OneQueues'
    BY <1>k, <2>1, <2>2, <2>3, <2>4, <2>5, <2>10 DEF OneQueues, Queueing, At
  <2>12. stored' \subseteq Events
    BY <1>t, <2>1, <2>2
  <2> QED
    BY <1>t, <2>1, <2>5, <2>7, <2>8, <2>9, <2>11, <2>12 DEF IInv, TypeOK
<1>12. ASSUME NEW w \in Workers, EnqueueReconcileJob(w) PROVE IInv'
  <2> DEFINE e == worker[w].event
             new == [worker[w] EXCEPT !.pc = "answered"]
  <2>1. /\ At(w, "stored") /\ Busy(w) /\ UNCHANGED <<routed, acked, event, outbox, stored>>
        /\ jobs' = [jobs EXCEPT ![e] = @ + 1] /\ worker' = [worker EXCEPT ![w] = new]
    BY <1>12, <1>t DEF EnqueueReconcileJob, Goto, gateway, Busy, At
  <2>2. e \in Events /\ e \in stored /\ Queueing(w, e)
    BY <1>k, <2>1 DEF WorkersStore, Queueing, At
  <2>3. new \in WorkerType /\ new.pc = "answered" /\ new.event = e /\ new.batch = worker[w].batch
    BY WorkerRows
  <2>4. jobs[e] = 0
    BY <1>k, <2>2 DEF OneQueues
  <2> HIDE DEF e, new
  <2>5. worker'[w] = new /\ (\A v \in Workers \ {w} : worker'[v] = worker[v]) /\ worker' \in [Workers -> WorkerType]
    BY <1>t, <2>1, <2>3
  <2>6. jobs' = [jobs EXCEPT ![e] = 1]
    BY <1>t, <2>1, <2>2, <2>4
  <2>7. jobs'[e] = 1 /\ (\A f \in Events \ {e} : jobs'[f] = jobs[f]) /\ jobs' \in [Events -> Nat]
    BY <1>t, <2>2, <2>6
  <2>8. outbox[e].status # "none"
    BY <1>k, <2>2 DEF UnroutedIsIdle
  <2>9. AcceptedIsRouted' /\ DeliveredIsStored'
    BY <1>k, <2>1 DEF AcceptedIsRouted, DeliveredIsStored
  <2>10. UnroutedIsIdle'
    BY <1>k, <2>1, <2>2, <2>3, <2>5, <2>7, <2>8 DEF UnroutedIsIdle, InHand, Busy
  <2>11. WorkersStore'
    BY <1>k, <2>1, <2>2, <2>3, <2>5 DEF WorkersStore, Busy
  <2>12. OneQueues'
    BY <1>k, <2>1, <2>2, <2>3, <2>5, <2>7 DEF OneQueues, Queueing, At
  <2> QED
    BY <1>t, <2>1, <2>5, <2>7, <2>9, <2>10, <2>11, <2>12 DEF IInv, TypeOK
<1>13. CASE UNCHANGED vars
  BY <1>13, <1>t, NothingMoves DEF vars
<1> QED
  BY <1>1, <1>3, <1>4, <1>5, <1>7, <1>8, <1>9, <1>10, <1>11, <1>12, <1>13 DEF Next, Deliver

-----------------------------------------------------------------------------
LEMMA Invariance == Spec => []IInv
BY InitIInv, NextIInv, PTL DEF Spec

(* Every variable keeps its type.                                          *)
THEOREM TypeCorrect == Spec => []TypeOK
<1>1. IInv => TypeOK
  BY DEF IInv
<1> QED
  BY <1>1, Invariance, PTL

(* However many workers deliver, and however late they mark, what counts   *)
(* as delivered is with the tenant.                                        *)
THEOREM DeliveredStaysStored == Spec => []DeliveredIsStored
<1>1. IInv => DeliveredIsStored
  BY DEF IInv
<1> QED
  BY <1>1, Invariance, PTL

-----------------------------------------------------------------------------
(* Refinement of EventChannel.                                             *)

(* What the stage of an event depends on.                                  *)
LEMMA SameStage ==
  ASSUME NEW e \in Events, jobs'[e] = jobs[e], e \in stored' <=> e \in stored,
         \A w \in Workers : Queueing(w, e)' <=> Queueing(w, e),
         event'[e] = event[e] \/ (event[e] \notin {"", "unknown_shop"} /\ event'[e] \notin {"", "unknown_shop"})
  PROVE  Stage(e)' = Stage(e)
<1>1. Dropped(e)' <=> Dropped(e)
  BY DEF Dropped, Queueing
<1>2. /\ (event[e]' = "") <=> (event[e] = "")
      /\ (event[e]' = "unknown_shop") <=> (event[e] = "unknown_shop")
      /\ jobs[e]' = jobs[e]
  OBVIOUS
<1> QED
  BY <1>1, <1>2 DEF Stage

(* An event somebody works on, or that is stored, was accepted.            *)
LEMMA WorkedOnIsAccepted ==
  ASSUME IInv, NEW e \in Events, e \in stored \/ \E w \in Workers : InHand(w, e)
  PROVE  event[e] \notin {"", "unknown_shop"}
BY DEF IInv, AcceptedIsRouted, UnroutedIsIdle

LEMMA NoJobIsNotOne == 0 # 1
OBVIOUS

LEMMA StageOfPushed ==
  ASSUME IInv, NEW e \in Events, event[e] = ""
  PROVE  Stage(e) = "pushed" /\ jobs[e] = 0 /\ e \notin stored
<1>1. jobs[e] = 0 /\ e \notin stored
  BY DEF IInv, AcceptedIsRouted, UnroutedIsIdle
<1>2. jobs[e] # 1
  BY <1>1, NoJobIsNotOne, Zenon
<1>3. ~Dropped(e)
  BY <1>1 DEF Dropped
<1>4. Stage(e) = "pushed"
  BY <1>1, <1>2, <1>3 DEF Stage
<1> QED
  BY <1>1, <1>4

LEMMA StageOfQueueing ==
  ASSUME IInv, NEW e \in Events, NEW w \in Workers, Queueing(w, e)
  PROVE  Stage(e) = "accepted" /\ jobs[e] = 0 /\ e \in stored
<1>1. jobs[e] = 0 /\ e \in stored
  BY DEF IInv, OneQueues, WorkersStore, Queueing, At
<1>2. ~Dropped(e)
  BY DEF Dropped, Queueing
<1>3. event[e] \notin {"", "unknown_shop"}
  BY <1>1, WorkedOnIsAccepted
<1>4. jobs[e] # 1
  BY <1>1
<1>5. Stage(e) = "accepted"
  BY <1>1, <1>2, <1>3, <1>4 DEF Stage
<1> QED
  BY <1>1, <1>5

(* A step that only one event sees.                                        *)
LEMMA OneEventMoves ==
  ASSUME NEW e \in Events, \A f \in Events \ {e} : Stage(f)' = Stage(f),
         \/ Stage(e)' = Stage(e)
         \/ Stage(e) = "pushed" /\ Stage(e)' \in {"accepted", "unknown_shop"}
         \/ Stage(e) = "accepted" /\ Stage(e)' \in {"queued", "dropped"}
  PROVE  [Channel!Next]_Stages
<1> DEFINE now == Stage(e)'
<1>1. Stages[e] = Stage(e)
  BY DEF Stages
<1>2. Stages' = [Stages EXCEPT ![e] = now]
  BY DEF Stages
<1>3. CASE now = Stage(e)
  BY <1>1, <1>2, <1>3 DEF Stages
<1>4. CASE Stage(e) = "pushed" /\ now \in {"accepted", "unknown_shop"}
  <2>1. Channel!Accept(e) \/ Channel!Refuse(e)
    BY <1>1, <1>2, <1>4 DEF Channel!Accept, Channel!Refuse, Channel!Move
  <2> QED
    BY <2>1 DEF Channel!Next
<1>5. CASE Stage(e) = "accepted" /\ now \in {"queued", "dropped"}
  <2>1. Channel!Queue(e) \/ Channel!Drop(e)
    BY <1>1, <1>2, <1>5 DEF Channel!Queue, Channel!Drop, Channel!Move
  <2> QED
    BY <2>1 DEF Channel!Next
<1> QED
  BY <1>3, <1>4, <1>5

LEMMA NextRefines == IInv /\ [Next]_vars => [Channel!Next]_Stages
<1> SUFFICES ASSUME IInv, [Next]_vars PROVE [Channel!Next]_Stages
  OBVIOUS
<1>t. /\ event \in [Events -> EventStatuses] /\ worker \in [Workers -> WorkerType]
      /\ jobs \in [Events -> Nat]
  BY DEF IInv, TypeOK
<1>k. WorkersStore /\ OneQueues
  BY DEF IInv
<1>0. ASSUME \A e \in Events : Stage(e)' = Stage(e) PROVE [Channel!Next]_Stages
  BY <1>0 DEF Stages
\* Steps the tenant does not see.
<1>1. ASSUME UNCHANGED <<stored, jobs>>,
             \A w \in Workers : worker'[w] = worker[w] \/ (~At(w, "stored") /\ ~At(w, "stored")'),
             \A e \in Events : event'[e] = event[e] \/ (event[e] \notin {"", "unknown_shop"} /\ event'[e] \notin {"", "unknown_shop"})
      PROVE  [Channel!Next]_Stages
  <2>1. \A e \in Events, w \in Workers : Queueing(w, e)' <=> Queueing(w, e)
    BY <1>1 DEF Queueing, At
  <2>2. \A e \in Events : Stage(e)' = Stage(e)
    BY <1>1, <2>1, SameStage
  <2> QED
    BY <2>2, <1>0
<1>2. CASE ChangeRoute \/ (\E e \in Events : BecomesStale(e)) \/ UNCHANGED vars
  <2>1. UNCHANGED <<stored, jobs, worker, event>>
    BY <1>2 DEF ChangeRoute, BecomesStale, tenant, vars
  <2> QED
    BY <2>1, <1>1
<1>3. ASSUME NEW w \in Workers,
             \/ \E batch \in SUBSET Events : LeaseDeliveries(w, batch)
             \/ \E e \in Events : Post(w, e)
             \/ MarkFails(w)
      PROVE  [Channel!Next]_Stages
  <2>1. UNCHANGED <<stored, jobs, event>> /\ ~At(w, "stored")
    BY <1>3 DEF LeaseDeliveries, Post, MarkFails, tenant, gateway, At
  <2>2. ~At(w, "stored")' /\ \A v \in Workers \ {w} : worker'[v] = worker[v]
    <3>1. CASE \E batch \in SUBSET Events : LeaseDeliveries(w, batch)
      <4>1. PICK batch \in SUBSET Events : LeaseDeliveries(w, batch)
        BY <3>1
      <4>2. [worker[w] EXCEPT !.batch = batch].pc = worker[w].pc
        BY WorkerRows
      <4> QED
        BY <1>t, <2>1, <4>1, <4>2 DEF LeaseDeliveries, At
    <3>2. CASE \E e \in Events : Post(w, e)
      BY <1>t, <3>2 DEF Post, At
    <3>3. CASE MarkFails(w)
      <4>1. [Idle EXCEPT !.batch = worker[w].batch].pc = "idle"
        BY DEF Idle
      <4> QED
        BY <1>t, <3>3, <4>1 DEF MarkFails, At
    <3> QED
      BY <1>3, <3>1, <3>2, <3>3
  <2> QED
    BY <2>1, <2>2, <1>1
<1>4. ASSUME NEW w \in Workers, MarkDelivery(w) PROVE [Channel!Next]_Stages
  <2> DEFINE e == worker[w].event
  <2>1. UNCHANGED <<stored, jobs>> /\ worker[w].pc \in {"answered", "failing"} /\ Busy(w)
    BY <1>4 DEF MarkDelivery, tenant, Busy
  <2>2. e \in Events /\ event' = [event EXCEPT ![e] = StatusAfter(w)]
    BY <1>4, <1>k, <2>1 DEF MarkDelivery, WorkersStore
  <2>3. event[e] \notin {"", "unknown_shop"}
    BY <2>1, <2>2, WorkedOnIsAccepted DEF InHand
  <2>4. event'[e] \notin {"", "unknown_shop"} /\ \A f \in Events \ {e} : event'[f] = event[f]
    BY <1>t, <2>2 DEF StatusAfter
  <2>5. /\ ~At(w, "stored") /\ ~At(w, "stored")'
        /\ \A v \in Workers \ {w} : worker'[v] = worker[v]
    BY <1>4, <1>t, <2>1 DEF MarkDelivery, At, Idle
  <2> QED
    BY <2>1, <2>3, <2>4, <2>5, <1>1
\* An event is accepted, or refused.
<1>5. ASSUME NEW e \in Events, AcceptPushEvent(e) PROVE [Channel!Next]_Stages
  <2>1. UNCHANGED <<stored, jobs, worker>>
    BY <1>5 DEF AcceptPushEvent, tenant
  <2>2. CASE event[e] # ""
    <3>1. event' = event
      BY <1>5, <2>2 DEF AcceptPushEvent
    <3> QED
      BY <2>1, <3>1, <1>1
  <2>3. CASE event[e] = ""
    <3>1. Stage(e) = "pushed" /\ jobs[e] = 0 /\ e \notin stored
      BY <2>3, StageOfPushed
    <3>2. event'[e] \in {"queued", "unknown_shop"} /\ \A f \in Events \ {e} : event'[f] = event[f]
      BY <1>5, <1>t, <2>3 DEF AcceptPushEvent
    <3>3. \A f \in Events \ {e} : Stage(f)' = Stage(f)
      <4>1. \A f \in Events, w \in Workers : Queueing(w, f)' <=> Queueing(w, f)
        BY <2>1 DEF Queueing, At
      <4> QED
        BY <2>1, <3>2, <4>1, SameStage
    <3>4. Stage(e)' \in {"accepted", "unknown_shop"}
      <4>1. ~Dropped(e)' /\ jobs'[e] = 0
        BY <2>1, <3>1 DEF Dropped
      <4>2. jobs'[e] # 1
        BY <4>1
      <4> QED
        BY <3>2, <4>1, <4>2 DEF Stage
    <3> QED
      BY <3>1, <3>3, <3>4, OneEventMoves
  <2> QED
    BY <2>2, <2>3
\* A worker gives up: it may have been about to queue the job.
<1>6. ASSUME NEW w \in Workers, PostFails(w) \/ Stop(w) PROVE [Channel!Next]_Stages
  <2>1. UNCHANGED <<stored, jobs, event>>
    BY <1>6 DEF PostFails, Stop, tenant, gateway
  <2>2. ~At(w, "stored")' /\ \A v \in Workers \ {w} : worker'[v] = worker[v]
    BY <1>6, <1>t DEF PostFails, Stop, Goto, At, Idle, WorkerType
  <2>3. CASE ~At(w, "stored")
    BY <2>1, <2>2, <2>3, <1>1
  <2>4. CASE At(w, "stored")
    <3>1. PICK e \in Events : Queueing(w, e)
      BY <2>4, <1>k DEF WorkersStore, Busy, Queueing, At
    <3>2. Stage(e) = "accepted" /\ jobs[e] = 0 /\ e \in stored
      BY <3>1, StageOfQueueing
    <3>3. \A v \in Workers : ~Queueing(v, e)'
      BY <1>k, <2>2, <3>1 DEF OneQueues, Queueing, At
    <3>4. Stage(e)' = "dropped"
      <4>1. Dropped(e)' /\ jobs'[e] = 0
        BY <2>1, <3>2, <3>3 DEF Dropped, Queueing
      <4> QED
        BY <4>1 DEF Stage
    <3>5. \A f \in Events \ {e} : Stage(f)' = Stage(f)
      <4>1. \A f \in Events \ {e}, v \in Workers : Queueing(v, f)' <=> Queueing(v, f)
        BY <2>2, <3>1 DEF Queueing, At
      <4> QED
        BY <2>1, <4>1, SameStage
    <3> QED
      BY <3>1, <3>2, <3>4, <3>5, OneEventMoves
  <2> QED
    BY <2>3, <2>4
\* The tenant stores the event: only the first time it goes on to its job.
<1>7. ASSUME NEW w \in Workers, InsertPushEvent(w) PROVE [Channel!Next]_Stages
  <2>0. PICK e \in Events : e = worker[w].event
    BY <1>7, <1>k DEF InsertPushEvent, WorkersStore, Busy, At
  <2>1. UNCHANGED <<jobs, event>> /\ Busy(w) /\ At(w, "posting") /\ stored' = stored \cup {e}
    BY <1>7, <2>0 DEF InsertPushEvent, gateway, Busy, At
  <2>2. /\ worker'[w] = [worker[w] EXCEPT !.pc = NextStep(e)]
        /\ \A v \in Workers \ {w} : worker'[v] = worker[v]
    BY <1>7, <1>t, <2>0 DEF InsertPushEvent, Goto
  <2>3. worker[w] \in WorkerType
    BY <1>t
  <2>4. worker'[w].pc = NextStep(e) /\ worker'[w].event = e
    BY <2>0, <2>2, <2>3 DEF WorkerType
  <2>6. event[e] \notin {"", "unknown_shop"}
    BY <2>0, <2>1, WorkedOnIsAccepted DEF InHand
  <2>7. \A f \in Events \ {e} : Stage(f)' = Stage(f)
    <3>1. \A f \in Events \ {e}, v \in Workers : Queueing(v, f)' <=> Queueing(v, f)
      BY <2>0, <2>2, <2>4 DEF Queueing, At
    <3> QED
      BY <2>1, <3>1, SameStage
  <2>8. Stage(e)' = Stage(e)
    <3>1. CASE e \in stored
      <4>1. ~At(w, "stored") /\ ~At(w, "stored")'
        BY <2>1, <2>4, <3>1 DEF NextStep, At
      <4>2. \A v \in Workers : Queueing(v, e)' <=> Queueing(v, e)
        BY <2>2, <4>1 DEF Queueing, At
      <4> QED
        BY <2>1, <3>1, <4>2, SameStage
    <3>2. CASE e \notin stored
      <4>1. jobs[e] = 0
        BY <1>k, <3>2 DEF OneQueues
      <4>2. Queueing(w, e)'
        BY <2>4, <3>2 DEF NextStep, Queueing, At
      <4>3. ~Dropped(e) /\ ~Dropped(e)'
        BY <3>2, <4>2 DEF Dropped, Queueing
      <4> QED
        BY <2>1, <2>6, <4>1, <4>3 DEF Stage
    <3> QED
      BY <3>1, <3>2
  <2> QED
    BY <2>7, <2>8, OneEventMoves
<1>8. ASSUME NEW w \in Workers, EnqueueReconcileJob(w) PROVE [Channel!Next]_Stages
  <2>2. PICK e \in Events : Queueing(w, e)
    BY <1>8, <1>k DEF EnqueueReconcileJob, WorkersStore, Busy, Queueing, At
  <2>1. UNCHANGED <<stored, event>> /\ At(w, "stored") /\ jobs' = [jobs EXCEPT ![e] = @ + 1]
    BY <1>8, <2>2 DEF EnqueueReconcileJob, gateway, Queueing
  <2>3. Stage(e) = "accepted" /\ jobs[e] = 0
    BY <2>2, StageOfQueueing
  <2>4. ~At(w, "stored")' /\ \A v \in Workers \ {w} : worker'[v] = worker[v]
    BY <1>8, <1>t DEF EnqueueReconcileJob, Goto, At, WorkerType
  <2>5. jobs'[e] = 1 /\ \A f \in Events \ {e} : jobs'[f] = jobs[f]
    BY <1>t, <2>1, <2>2, <2>3
  <2>6. \A f \in Events \ {e} : Stage(f)' = Stage(f)
    <3>1. \A f \in Events \ {e}, v \in Workers : Queueing(v, f)' <=> Queueing(v, f)
      BY <2>2, <2>4 DEF Queueing, At
    <3> QED
      BY <2>1, <2>5, <3>1, SameStage
  <2>7. Stage(e)' = "queued"
    BY <2>5 DEF Stage
  <2> QED
    BY <2>2, <2>3, <2>6, <2>7, OneEventMoves
<1> QED
  BY <1>2, <1>3, <1>4, <1>5, <1>6, <1>7, <1>8 DEF Next, Deliver

(* Whatever is delivered twice, late or not at all, every step is one of   *)
(* EventChannel or one it does not see: an event is queued once.           *)
THEOREM SafeChannelImplemented == Spec => Channel!Init /\ [][Channel!Next]_Stages
<1>1. Init => Channel!Init
  <2> SUFFICES ASSUME Init PROVE Stages = [e \in Events |-> "pushed"]
    BY DEF Channel!Init
  <2>1. IInv
    BY InitIInv
  <2>2. \A e \in Events : Stage(e) = "pushed"
    BY <2>1, StageOfPushed DEF Init
  <2> QED
    BY <2>2 DEF Stages
<1>2. IInv /\ [Next]_vars => [Channel!Next]_Stages
  BY NextRefines
<1> QED
  BY <1>1, <1>2, Invariance, PTL DEF Spec
=============================================================================
