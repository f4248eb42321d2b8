----------------------------- MODULE Reservation -----------------------------
(***************************************************************************)
(* The states of a row of marketplace_stock_reservations and what the      *)
(* transactions that touch it do to its state.  A row in blocked_mapping    *)
(* that still has the components of a set is told apart as "blocked_set".  *)
(***************************************************************************)

ReservationStates == {"none", "blocked_mapping", "blocked_set", "active", "sending_sml",
  "awaiting_stock_recalc", "incorporated_in_sml", "released_cancelled", "manual_reconciliation"}

(* The demand a stock run subtracts; the states that forbid it to write.   *)
Held == {"active", "sending_sml", "awaiting_stock_recalc"}
Unproved == {"blocked_mapping", "blocked_set", "manual_reconciliation"}

(* Demand that no send has claimed.                                        *)
Unclaimed == {"active", "blocked_mapping", "blocked_set"}

(* Faulty variant: the insertion overwrites the state of a row that exists. *)
ReservedAs_Overwrites(old, state) == {state}

(* What insertMarketplaceReservationsTx leaves of a row that was in state   *)
(* old, for a line in the given state.  A row that exists keeps its state,  *)
(* except that of an item sold as a set: its components are there already, *)
(* which the insertion takes for a set without a definition.               *)
ReservedAs(old, state) ==
  CASE old = "none" -> {state}
    [] old = "active" -> {"active", "blocked_set"}
    [] OTHER -> {old}

(* A state as DemandLife knows it.                                         *)
Life(state) ==
  CASE state = "none" -> "none"
    [] state \in Unclaimed -> "open"
    [] state = "sending_sml" -> "sending"
    [] state = "awaiting_stock_recalc" -> "waiting"
    [] state = "incorporated_in_sml" -> "counted"
    [] state = "released_cancelled" -> "released"
    [] state = "manual_reconciliation" -> "operator"

(* What ReconcileMarketplaceReservationCancelled does to a reservation.    *)
Cancelled(state) ==
  CASE state \in Unclaimed -> "released_cancelled"
    [] state \in {"sending_sml", "awaiting_stock_recalc"} -> "manual_reconciliation"
    [] OTHER -> state

(* Faulty variant: a send forgets that a rejection made demand active.     *)
ReservationAfter_OnlySending(outcome, state) ==
  CASE outcome = "sent" /\ state = "sending_sml" -> "awaiting_stock_recalc"
    [] outcome = "failed_exact_retry" /\ state = "sending_sml" -> "active"
    [] /\ outcome = "stale_requires_reconciliation"
       /\ state \notin {"none", "incorporated_in_sml", "released_cancelled"} -> "manual_reconciliation"
    [] OTHER -> state

(* What FinishSMLAttempt does to the reservations of its bill.             *)
ReservationAfter(outcome, state) ==
  CASE outcome = "sent" /\ state \in {"active", "sending_sml"} -> "awaiting_stock_recalc"
    [] outcome = "failed_exact_retry" /\ state = "sending_sml" -> "active"
    [] /\ outcome = "stale_requires_reconciliation"
       /\ state \notin {"none", "incorporated_in_sml", "released_cancelled"} -> "manual_reconciliation"
    [] OTHER -> state
=============================================================================
