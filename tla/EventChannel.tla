---------------------------- MODULE EventChannel ----------------------------
(***************************************************************************)
(* What the gateway promises of an order event Shopee pushes: once it has  *)
(* accepted the event, the tenant queues one job for it, however often     *)
(* Shopee pushes it and the gateway delivers it.  An event of a shop       *)
(* nobody owns is kept and goes nowhere, and the tenant may drop an event  *)
(* when it stops between storing it and queueing its job.                  *)
(***************************************************************************)
CONSTANT Events

VARIABLE stage  \* how far each event has come

Init == stage = [e \in Events |-> "pushed"]

Move(e, from, to) == stage[e] = from /\ stage' = [stage EXCEPT ![e] = to]

Accept(e) == Move(e, "pushed", "accepted")
Refuse(e) == Move(e, "pushed", "unknown_shop")
Queue(e) == Move(e, "accepted", "queued")
Drop(e) == Move(e, "accepted", "dropped")

Next == \E e \in Events : Accept(e) \/ Refuse(e) \/ Queue(e) \/ Drop(e)

Spec == Init /\ [][Next]_stage /\ \A e \in Events : WF_stage(Queue(e) \/ Drop(e))
=============================================================================
