------------------------------ MODULE SendOnce ------------------------------
(***************************************************************************)
(* What sending a bill to SML promises: a bill has one payload, chosen     *)
(* once; SML comes to hold that payload or nothing of the bill; and the    *)
(* bill is acknowledged as sent only after that, for good.                 *)
(***************************************************************************)
CONSTANTS Bills, Payloads,
  NoPayload  \* not a payload

VARIABLES chosen, stored, acknowledged

Init ==
  /\ chosen = [b \in Bills |-> NoPayload]
  /\ stored = [b \in Bills |-> NoPayload]
  /\ acknowledged = {}

Choose(b, p) ==
  /\ chosen[b] = NoPayload
  /\ chosen' = [chosen EXCEPT ![b] = p]
  /\ UNCHANGED <<stored, acknowledged>>

Store(b) ==
  /\ chosen[b] # NoPayload
  /\ stored' = [stored EXCEPT ![b] = chosen[b]]
  /\ UNCHANGED <<chosen, acknowledged>>

Acknowledge(b) ==
  /\ stored[b] # NoPayload
  /\ acknowledged' = acknowledged \cup {b}
  /\ UNCHANGED <<chosen, stored>>

Next ==
  \E b \in Bills : (\E p \in Payloads : Choose(b, p)) \/ Store(b) \/ Acknowledge(b)

Spec == Init /\ [][Next]_<<chosen, stored, acknowledged>>
=============================================================================
