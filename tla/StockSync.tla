----------------------------- MODULE StockSync -----------------------------
(***************************************************************************)
(* Publishing the stock of an item to a Shopee shop (RunSync), while       *)
(* orders arrive, are sent and are recalculated (StockRecalc).             *)
(*                                                                         *)
(* A run reads the ledger and the balance of SML at different moments.     *)
(* What it will publish is the stock without the orders it has subtracted: *)
(* the demand it has read and the documents in the balance it has read.    *)
(* The last database statement before each write to Shopee renews the      *)
(* shop's lease and compares the demand revision with that of the start.   *)
(*                                                                         *)
(* One shop, one item.  A change of the settings or of the catalog and a   *)
(* blocked line stop a run before it writes: here any run may stop early.  *)
(***************************************************************************)
EXTENDS StockRecalc

CONSTANTS
  Runs,          \* calls of RunSync; each is its own lease owner
  NoRun,
  MaxWrites      \* calls of update_stock in a run

ASSUME SyncAssumption == NoRun \notin Runs /\ MaxWrites \in Nat \ {0}

VARIABLES
  lease,         \* the shop's row of shopee_stock_leases
  run,           \* row of shopee_stock_runs and local state of each run
  listing        \* orders the quantity offered in the shop leaves out

syncVars == <<lease, run, listing>>
vars == <<ledgerVars, syncVars>>

View == [demand : SUBSET Orders, balance : SUBSET Orders]
Nothing == [demand |-> {}, balance |-> {}]

RunType == [pc : {"idle", "leased", "started", "unblocked", "demanded", "planned", "writing",
                  "unsure", "closing", "done"},
            revision : Nat, view : View, live : BOOLEAN, writes : 0..MaxWrites]

TypeOK ==
  /\ LedgerTypeOK
  /\ lease \in [owner : Runs \cup {NoRun}, live : BOOLEAN]
  /\ run \in [Runs -> RunType]
  /\ listing \in View

IdleRun == [pc |-> "idle", revision |-> 0, view |-> Nothing, live |-> FALSE, writes |-> 0]
NoLease == [owner |-> NoRun, live |-> FALSE]

Init ==
  /\ LedgerInit
  /\ lease = NoLease
  /\ run = [r \in Runs |-> IdleRun]
  /\ listing = Nothing

-----------------------------------------------------------------------------
Closed(r) == [IdleRun EXCEPT !.pc = "closing"]

(* A run that finds the lease taken returns at once.                       *)
AcquireFencedLease(r) ==
  /\ run[r].pc = "idle" /\ ~lease.live
  /\ lease' = [owner |-> r, live |-> TRUE]
  /\ run' = [run EXCEPT ![r].pc = "leased"]
  /\ UNCHANGED <<ledgerVars, listing>>

CreateSyncRun(r) ==
  /\ run[r].pc = "leased"
  /\ run' = [run EXCEPT ![r] = [@ EXCEPT !.pc = "started", !.revision = revision, !.live = TRUE]]
  /\ UNCHANGED <<ledgerVars, lease, listing>>

(* PendingShopeeReservationLedger refuses a ledger with unproved demand.   *)
CheckBlockedReservations(r) ==
  /\ run[r].pc = "started"
  /\ run' = [run EXCEPT ![r] = IF \E o \in Orders : reservation[o] \in Unproved
                               THEN Closed(r) ELSE [@ EXCEPT !.pc = "unblocked"]]
  /\ UNCHANGED <<ledgerVars, lease, listing>>

PendingReservationBaseDemand(r) ==
  /\ run[r].pc = "unblocked"
  /\ run' = [run EXCEPT ![r] = [@ EXCEPT !.pc = "demanded",
                                         !.view.demand = {o \in Orders : reservation[o] \in Held}]]
  /\ UNCHANGED <<ledgerVars, lease, listing>>

BalancesBatch(r) ==
  /\ run[r].pc = "demanded"
  /\ run' = [run EXCEPT ![r] = [@ EXCEPT !.pc = "planned", !.view.balance = counted]]
  /\ UNCHANGED <<ledgerVars, lease, listing>>

(* Faulty variant: without the shop's lease.                               *)
MayWrite_IgnoresLease(r) == run[r].live /\ run[r].revision = revision

(* The conditions of RenewAndValidateLiveWrite.                            *)
MayWrite(r) ==
  /\ lease = [owner |-> r, live |-> TRUE]
  /\ run[r].live
  /\ run[r].revision = revision

RenewAndValidateLiveWrite(r) ==
  /\ run[r].pc = "planned"
  /\ run' = [run EXCEPT ![r] = IF MayWrite(r)
                               THEN [@ EXCEPT !.pc = "writing", !.writes = run[r].writes + 1]
                               ELSE Closed(r)]
  /\ UNCHANGED <<ledgerVars, lease, listing>>

(* Shopee applies the write or not; the answer is a success, a refusal, or *)
(* a timeout that tells nothing.                                           *)
UpdateStock(r) ==
  /\ run[r].pc = "writing"
  /\ \/ listing' = run[r].view /\ run' = [run EXCEPT ![r] = Closed(r)]
     \/ UNCHANGED listing /\ run' = [run EXCEPT ![r] = Closed(r)]
     \/ listing' \in {listing, run[r].view} /\ run' = [run EXCEPT ![r].pc = "unsure"]
  /\ UNCHANGED <<ledgerVars, lease>>

(* Faulty variant: the write is repeated without the gate.                 *)
AfterReadBack_NoGate(r) ==
  IF run[r].writes < MaxWrites
  THEN [run[r] EXCEPT !.pc = "writing", !.writes = run[r].writes + 1] ELSE Closed(r)

(* After a write that was not applied the run tries again from the gate.   *)
AfterReadBack(r) ==
  IF run[r].writes < MaxWrites THEN [run[r] EXCEPT !.pc = "planned"] ELSE Closed(r)

(* readBackMatches; reading back may fail too.                             *)
ReadBack(r) ==
  /\ run[r].pc = "unsure"
  /\ \/ listing = run[r].view /\ run' = [run EXCEPT ![r] = Closed(r)]
     \/ run' = [run EXCEPT ![r] = AfterReadBack(r)]
  /\ UNCHANGED <<ledgerVars, lease, listing>>

(* An error, a blocked or an unchanged line, a pause: nothing is written.  *)
StopEarly(r) ==
  /\ run[r].pc \in {"leased", "started", "unblocked", "demanded", "planned"}
  /\ run' = [run EXCEPT ![r] = Closed(r)]
  /\ UNCHANGED <<ledgerVars, lease, listing>>

(* ReleaseLease deletes the row of its owner only.                         *)
ReleaseLease(r) ==
  /\ run[r].pc = "closing"
  /\ lease' = IF lease.owner = r THEN NoLease ELSE lease
  /\ run' = [run EXCEPT ![r].pc = "done"]
  /\ UNCHANGED <<ledgerVars, listing>>

(* Two minutes without a renewal.  The gate renews the lease of the shop   *)
(* and then that of the run; the call that follows and its read-back time  *)
(* out after 30 s and 15 s.                                                *)
LeaseExpires(r) ==
  /\ lease = [owner |-> r, live |-> TRUE]
  /\ run[r].pc \notin {"writing", "unsure"}
  /\ lease' = [lease EXCEPT !.live = FALSE]
  /\ UNCHANGED <<ledgerVars, run, listing>>

RunLeaseExpires(r) ==
  /\ run[r].live /\ lease # [owner |-> r, live |-> TRUE]
  /\ run' = [run EXCEPT ![r].live = FALSE]
  /\ UNCHANGED <<ledgerVars, lease, listing>>

(* The process of the run stops.                                           *)
RunDies(r) ==
  /\ run[r].pc \notin {"idle", "done"}
  /\ run' = [run EXCEPT ![r] = [IdleRun EXCEPT !.pc = "done"]]
  /\ UNCHANGED <<ledgerVars, lease, listing>>

-----------------------------------------------------------------------------
RunStep(r) ==
  \/ AcquireFencedLease(r)
  \/ CreateSyncRun(r)
  \/ CheckBlockedReservations(r)
  \/ PendingReservationBaseDemand(r)
  \/ BalancesBatch(r)
  \/ RenewAndValidateLiveWrite(r)
  \/ UpdateStock(r)
  \/ ReadBack(r)
  \/ StopEarly(r)
  \/ ReleaseLease(r)
  \/ LeaseExpires(r)
  \/ RunLeaseExpires(r)
  \/ RunDies(r)

Next ==
  \/ LedgerNext /\ UNCHANGED syncVars
  \/ \E r \in Runs : RunStep(r)

Spec == Init /\ [][Next]_vars

-----------------------------------------------------------------------------
Known == Held \cup {"incorporated_in_sml"}

\* At most one run of the shop is between its gate and the end of its write,
\* although a run that calculates for long loses its lease without noticing.
OneWriterPerShop ==
  \A r1, r2 \in Runs :
    run[r1].pc \in {"writing", "unsure"} /\ run[r2].pc \in {"writing", "unsure"} => r1 = r2

\* Whenever the gate lets a write through, the run has subtracted every order
\* whose demand is known at that moment, as demand or in the balance: none has
\* slipped from the ledger into the balance between the two reads.
WritesLeaveOutKnownDemand ==
  [][\A r \in Runs, o \in Orders :
       run[r].pc # "writing" /\ run'[r].pc = "writing" /\ reservation[o] \in Known =>
         o \in run[r].view.demand \cup run[r].view.balance]_vars

\* What such a write subtracts as demand is still open, if perhaps in the
\* operator's hands by now: no write keeps stock back for an order that has
\* been cancelled, mapped elsewhere or counted by SML meanwhile.
WritesSubtractOpenDemand ==
  [][\A r \in Runs :
       run[r].pc # "writing" /\ run'[r].pc = "writing" =>
         \A o \in run[r].view.demand : reservation[o] \in Held \cup {"blocked_set", "manual_reconciliation"}]_vars

\* "An unproved reservation blocks outbound stock rather than falling back to
\* zero demand" (stock runbook): no write goes through that treats an unproved
\* order as if it took nothing.
UnprovedDemandIsNotZero ==
  [][\A r \in Runs, o \in Orders :
       run[r].pc # "writing" /\ run'[r].pc = "writing" /\ reservation[o] \in Unproved =>
         o \in run[r].view.demand \cup run[r].view.balance]_vars
=============================================================================
