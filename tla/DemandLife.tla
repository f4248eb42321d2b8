----------------------------- MODULE DemandLife -----------------------------
(***************************************************************************)
(* What becomes of the stock an order has reserved, whoever moves it: it is *)
(* open until a send claims it, waits once SML has taken the document, and *)
(* ends released, counted by SML or with an operator.  No demand ends      *)
(* twice, none is counted that SML has not taken, and none is released     *)
(* that a send holds or that waits for the count.                          *)
(***************************************************************************)
CONSTANT Orders

VARIABLES
  demand,  \* what has become of the demand of each order
  taken    \* orders whose document SML is known to have taken

Init ==
  /\ demand = [o \in Orders |-> "none"]
  /\ taken = {}

Move(o, from, to) ==
  /\ demand[o] \in from
  /\ demand' = [demand EXCEPT ![o] = to]

Reserve(o) == Move(o, {"none"}, "open") /\ UNCHANGED taken

Release(o) == Move(o, {"open"}, "released") /\ UNCHANGED taken

Claim(o) == o \notin taken /\ Move(o, {"open"}, "sending") /\ UNCHANGED taken

GiveBack(o) == o \notin taken /\ Move(o, {"sending"}, "open") /\ UNCHANGED taken

(* The send of demand it has not claimed, blocked or ended meanwhile, takes *)
(* it along or leaves it alone.                                            *)
Take(o) ==
  /\ o \notin taken
  /\ taken' = taken \cup {o}
  /\ \/ Move(o, {"open", "sending"}, "waiting")
     \/ demand[o] # "sending" /\ UNCHANGED demand

Count(o) == o \in taken /\ Move(o, {"waiting"}, "counted") /\ UNCHANGED taken

HandOver(o) == Move(o, {"open", "sending", "waiting"}, "operator") /\ UNCHANGED taken

Next ==
  \E o \in Orders :
    Reserve(o) \/ Release(o) \/ Claim(o) \/ GiveBack(o) \/ Take(o) \/ Count(o) \/ HandOver(o)

Spec == Init /\ [][Next]_<<demand, taken>>
=============================================================================
