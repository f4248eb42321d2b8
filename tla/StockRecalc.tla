---------------------------- MODULE StockRecalc ----------------------------
(***************************************************************************)
(* The reservation ledger of one stock item and the worker that moves      *)
(* demand from the ledger into the balance SML reports.                    *)
(*                                                                         *)
(* Every marketplace order reserves stock until its document is in SML, a  *)
(* recalculation has been requested and SML has proved that it counts the  *)
(* document.  Each change of the demand bumps the item's demand revision,  *)
(* with which a stock run notices that what it has read is out of date.    *)
(* The attempt of an order's bill is the one of SMLAttempt, reduced to what *)
(* the ledger sees of it: an attempt with an unknown outcome is "sending".  *)
(***************************************************************************)
EXTENDS Integers, FiniteSets, Reservation

CONSTANTS
  Orders,       \* orders with a line for the item
  NoOrder,
  Workers,      \* recalculation workers: one for each life of the process
  NoWorker,
  MaxAttempts,  \* claims after which a job that fails is left to an operator
  MaxRevision   \* bound on the demand revisions mapping changes may cause

ASSUME LedgerAssumption ==
  /\ NoOrder \notin Orders
  /\ NoWorker \notin Workers
  /\ MaxAttempts \in Nat \ {0}
  /\ MaxRevision \in Nat

VARIABLES
  reservation,  \* state of each order's row of marketplace_stock_reservations
  attempt,      \* state of the attempt of each order's bill
  revision,     \* the item's row of marketplace_stock_demand_versions
  document,     \* orders whose document SML has stored
  counted,      \* orders whose document the balance of SML accounts for
  job,          \* each order's row of marketplace_stock_recalc_jobs
  worker        \* local state of the workers

ledgerVars == <<reservation, attempt, revision, document, counted, job, worker>>

Outcomes == {"sent", "failed_exact_retry", "stale_requires_reconciliation"}
JobType == [status : {"none", "queued", "running", "failed", "completed", "manual_reconciliation"},
            attempts : 0..MaxAttempts, owner : Workers \cup {NoWorker}, processed : BOOLEAN]
WorkerType == [pc : {"idle", "claimed", "loaded", "requested", "processed", "verified", "checked",
                     "failing", "dead"},
               order : Orders \cup {NoOrder}]

LedgerTypeOK ==
  /\ reservation \in [Orders -> ReservationStates]
  /\ attempt \in [Orders -> Outcomes \cup {"none", "sending"}]
  /\ revision \in Nat
  /\ document \subseteq Orders
  /\ counted \subseteq document
  /\ job \in [Orders -> JobType]
  /\ worker \in [Workers -> WorkerType]

NoJob == [status |-> "none", attempts |-> 0, owner |-> NoWorker, processed |-> FALSE]
IdleWorker == [pc |-> "idle", order |-> NoOrder]

LedgerInit ==
  /\ reservation = [o \in Orders |-> "none"]
  /\ attempt = [o \in Orders |-> "none"]
  /\ revision = 0
  /\ document = {}
  /\ counted = {}
  /\ job = [o \in Orders |-> NoJob]
  /\ worker = [w \in Workers |-> IdleWorker]

-----------------------------------------------------------------------------
(* The orders and the sends of their bills.                                *)

(* Faulty variant: the demand of a new order does not move the revision.   *)
BumpDemandVersion_Never(changes) == revision' = revision

BumpDemandVersion(changes) == revision' = IF changes THEN revision + 1 ELSE revision

(* insertMarketplaceReservationsTx, again for a bill that is recreated.     *)
(* Only known demand moves the revision.                                   *)
Reserve(o, state) ==
  /\ reservation[o] = "none" \/ revision < MaxRevision
  /\ \E reserved \in ReservedAs(reservation[o], state) :
       /\ reservation' = [reservation EXCEPT ![o] = reserved]
       /\ BumpDemandVersion(reserved = "active")
  /\ UNCHANGED <<attempt, document, counted, job, worker>>

(* The mapping worker, for bills without an attempt.                       *)
ReconcileMappingReservations(o, state) ==
  /\ attempt[o] = "none" /\ revision < MaxRevision
  /\ reservation[o] \in Unclaimed \ {state}
  /\ reservation' = [reservation EXCEPT ![o] = state]
  /\ BumpDemandVersion(TRUE)
  /\ UNCHANGED <<attempt, document, counted, job, worker>>

(* ReconcileMarketplaceReservationCancelled; a reservation without a mapped *)
(* item has no revision to move.                                           *)
CancelOrder(o) ==
  /\ reservation[o] # Cancelled(reservation[o])
  /\ reservation' = [reservation EXCEPT ![o] = Cancelled(@)]
  /\ \/ BumpDemandVersion(reservation[o] \in Unclaimed)
     \/ reservation[o] = "blocked_mapping" /\ BumpDemandVersion(FALSE)
  /\ UNCHANGED <<attempt, document, counted, job, worker>>

CreateSMLAttempt(o) ==
  /\ reservation[o] # "none" /\ attempt[o] = "none"
  /\ attempt' = [attempt EXCEPT ![o] = "sending"]
  /\ reservation' = [reservation EXCEPT ![o] = IF @ = "active" THEN "sending_sml" ELSE @]
  /\ UNCHANGED <<revision, document, counted, job, worker>>

(* An exact retry leaves the reservation as the rejection left it.         *)
ClaimExistingSMLAttempt(o) ==
  /\ attempt[o] = "failed_exact_retry"
  /\ attempt' = [attempt EXCEPT ![o] = "sending"]
  /\ UNCHANGED <<reservation, revision, document, counted, job, worker>>

(* SML stores the document of a request, and comes to account for it in the *)
(* balance: at once, as for a sale order, or with a recalculation.         *)
StoreDocument(o) ==
  /\ attempt[o] # "none" /\ o \notin document
  /\ document' = document \cup {o}
  /\ UNCHANGED <<reservation, attempt, revision, counted, job, worker>>

CountDocument(o) ==
  /\ o \in document \ counted
  /\ counted' = counted \cup {o}
  /\ UNCHANGED <<reservation, attempt, revision, document, job, worker>>

(* FinishSMLAttempt: a send moves the revision and queues the job of the   *)
(* attempt.                                                                *)
FinishSMLAttempt(o, outcome) ==
  /\ attempt[o] = "sending"
  /\ outcome = "sent" => o \in document
  /\ attempt' = [attempt EXCEPT ![o] = outcome]
  /\ reservation' = [reservation EXCEPT ![o] = ReservationAfter(outcome, @)]
  /\ BumpDemandVersion(outcome = "sent")
  /\ job' = IF outcome = "sent" /\ job[o].status = "none"
            THEN [job EXCEPT ![o].status = "queued"] ELSE job
  /\ UNCHANGED <<document, counted, worker>>

-----------------------------------------------------------------------------
(* The recalculation worker.                                               *)

At(w, pc) == worker[w].pc = pc
Goto(w, pc) == worker' = [worker EXCEPT ![w].pc = pc]
Rest(w) == worker' = [worker EXCEPT ![w] = IdleWorker]

(* Faulty variant: a job that has failed is not taken up again.            *)
Claimable_Once(status) == status = "queued"

Claimable(status) == status \in {"queued", "failed"}

ClaimStockRecalcJob(w, o) ==
  /\ At(w, "idle")
  /\ Claimable(job[o].status)
  /\ job' = [job EXCEPT ![o] = [@ EXCEPT !.status = "running",
                                        !.attempts = job[o].attempts + 1, !.owner = w]]
  /\ worker' = [worker EXCEPT ![w] = [pc |-> "claimed", order |-> o]]
  /\ UNCHANGED <<reservation, attempt, revision, document, counted>>

(* StockRecalcDemand: without awaiting demand there is nothing to prove; a *)
(* recalculation recorded by an earlier claim is not requested again.      *)
StockRecalcDemand(w) ==
  LET o == worker[w].order IN
  /\ At(w, "claimed")
  /\ Goto(w, IF reservation[o] # "awaiting_stock_recalc" THEN "failing"
             ELSE IF job[o].processed THEN "processed" ELSE "loaded")
  /\ UNCHANGED <<reservation, attempt, revision, document, counted, job>>

(* SML recalculates the item from its documents, or only promises to; the   *)
(* answer may get lost.                                                    *)
ProcessStockRequest(w) ==
  /\ At(w, "loaded")
  /\ counted' \in {counted, document}
  /\ Goto(w, "requested") \/ Goto(w, "failing")
  /\ UNCHANGED <<reservation, attempt, revision, document, job>>

Owns(w) == job[worker[w].order].status = "running" /\ job[worker[w].order].owner = w

MarkStockRecalcProcessed(w) ==
  /\ At(w, "requested")
  /\ IF Owns(w)
     THEN job' = [job EXCEPT ![worker[w].order].processed = TRUE] /\ Goto(w, "processed")
     ELSE Goto(w, "failing") /\ UNCHANGED job
  /\ UNCHANGED <<reservation, attempt, revision, document, counted>>

(* Faulty variant: a stored document is taken for a counted one.           *)
HasEvidence_Stored(o) == o \in document

(* SML's evidence: the document has the demanded quantity in the balance.  *)
HasEvidence(o) == o \in counted

VerifyDemandEvidence(w) ==
  /\ At(w, "processed")
  /\ Goto(w, IF HasEvidence(worker[w].order) THEN "verified" ELSE "failing")
  /\ UNCHANGED <<reservation, attempt, revision, document, counted, job>>

(* The statements of CompleteStockRecalcJob that insert the evidence.      *)
InsertEvidence(w) ==
  LET o == worker[w].order IN
  /\ At(w, "verified")
  /\ Goto(w, IF Owns(w) /\ job[o].processed /\ reservation[o] = "awaiting_stock_recalc"
             THEN "checked" ELSE "failing")
  /\ UNCHANGED <<reservation, attempt, revision, document, counted, job>>

(* Faulty variant: the last statement does not look at the state again.    *)
CompleteStockRecalcJob_AnyState(w) ==
  LET o == worker[w].order IN
  /\ At(w, "checked") /\ Owns(w)
  /\ job' = [job EXCEPT ![o] = [@ EXCEPT !.status = "completed", !.owner = NoWorker]]
  /\ reservation' = [reservation EXCEPT ![o] = "incorporated_in_sml"]
  /\ BumpDemandVersion(TRUE)
  /\ Rest(w)
  /\ UNCHANGED <<attempt, document, counted>>

(* The rest of the transaction.  A cancellation may have come between; the *)
(* job completes, and the reservation stays with the operator.             *)
CompleteStockRecalcJob(w) ==
  LET o == worker[w].order
      awaiting == reservation[o] = "awaiting_stock_recalc"
  IN
  /\ At(w, "checked") /\ Owns(w)
  /\ job' = [job EXCEPT ![o] = [@ EXCEPT !.status = "completed", !.owner = NoWorker]]
  /\ reservation' = IF awaiting THEN [reservation EXCEPT ![o] = "incorporated_in_sml"] ELSE reservation
  /\ BumpDemandVersion(awaiting)
  /\ Rest(w)
  /\ UNCHANGED <<attempt, document, counted>>

(* Any call or statement of a step may fail.                               *)
StepFails(w) ==
  /\ worker[w].pc \in {"claimed", "loaded", "requested", "processed", "verified", "checked"}
  /\ Goto(w, "failing")
  /\ UNCHANGED <<reservation, attempt, revision, document, counted, job>>

(* Faulty variant: the demand of a job that is given up stays awaiting.    *)
ReservationGivenUp_Kept(status, state) == state

ReservationGivenUp(status, state) ==
  IF status = "manual_reconciliation" /\ state = "awaiting_stock_recalc"
  THEN "manual_reconciliation" ELSE state

(* Faulty variant: one attempt too many.                                   *)
StatusAfterFailure_OneMore(attempts) ==
  IF attempts > MaxAttempts THEN "manual_reconciliation" ELSE "failed"

StatusAfterFailure(attempts) ==
  IF attempts >= MaxAttempts THEN "manual_reconciliation" ELSE "failed"

FailStockRecalcJob(w) ==
  LET o == worker[w].order
      status == StatusAfterFailure(job[o].attempts)
  IN
  /\ At(w, "failing")
  /\ IF Owns(w)
     THEN /\ job' = [job EXCEPT ![o] = [@ EXCEPT !.status = status, !.owner = NoWorker]]
          /\ reservation' = [reservation EXCEPT ![o] = ReservationGivenUp(status, @)]
     ELSE UNCHANGED <<job, reservation>>
  /\ Rest(w)
  /\ UNCHANGED <<attempt, revision, document, counted>>

(* Recording the failure fails, which the worker only logs.                *)
FailureUnrecorded(w) ==
  /\ At(w, "failing")
  /\ Rest(w)
  /\ UNCHANGED <<reservation, attempt, revision, document, counted, job>>

ProcessStops(w) ==
  /\ worker[w].pc \notin {"idle", "dead"}
  /\ Goto(w, "dead")
  /\ UNCHANGED <<reservation, attempt, revision, document, counted, job>>

-----------------------------------------------------------------------------
OrderStep(o) ==
  \/ \E state \in {"active", "blocked_mapping"} :
       Reserve(o, state) \/ ReconcileMappingReservations(o, state)
  \/ CancelOrder(o)
  \/ CreateSMLAttempt(o)
  \/ ClaimExistingSMLAttempt(o)
  \/ StoreDocument(o)
  \/ CountDocument(o)
  \/ \E outcome \in Outcomes : FinishSMLAttempt(o, outcome)

WorkerStep(w) ==
  \/ \E o \in Orders : ClaimStockRecalcJob(w, o)
  \/ StockRecalcDemand(w)
  \/ ProcessStockRequest(w)
  \/ MarkStockRecalcProcessed(w)
  \/ VerifyDemandEvidence(w)
  \/ InsertEvidence(w)
  \/ CompleteStockRecalcJob(w)
  \/ FailStockRecalcJob(w)

LedgerNext ==
  \/ \E o \in Orders : OrderStep(o)
  \/ \E w \in Workers : WorkerStep(w) \/ StepFails(w) \/ FailureUnrecorded(w) \/ ProcessStops(w)

LedgerSpec == LedgerInit /\ [][LedgerNext]_ledgerVars

(* The worker polls every 10 s and gives each job at most two minutes.     *)
LedgerFairness == \A w \in Workers : WF_ledgerVars(WorkerStep(w))

FairLedgerSpec == LedgerSpec /\ LedgerFairness

-----------------------------------------------------------------------------
\* Demand leaves the ledger as incorporated only when the balance of SML
\* accounts for it; otherwise a later stock run would sell it again.
IncorporatedIsCounted ==
  \A o \in Orders : reservation[o] = "incorporated_in_sml" => o \in counted

\* Demand that waits for its recalculation has a job that a worker may still
\* take or is working on, whatever the job's attempts came to before.
AwaitingDemandHasOpenJob ==
  \A o \in Orders : reservation[o] = "awaiting_stock_recalc" =>
    job[o].status \in {"queued", "running", "failed"}

\* The demand of every order runs the course of DemandLife: no cancellation,
\* late outcome or repeated job makes it end twice or takes it back from SML.
Demand == INSTANCE DemandLife WITH
  demand <- [o \in Orders |-> Life(reservation[o])],
  taken <- {o \in Orders : attempt[o] = "sent"}

DemandRunsItsCourse == Demand!Spec

Abandoned(o) ==
  job[o].status = "running" /\ \A w \in Workers : worker[w].order = o => At(w, "dead")

\* Demand does not wait for ever, however often the steps of its job fail and
\* whichever worker takes it up again: it is incorporated or handed to an
\* operator, unless a worker has left its job behind or none is alive.
AwaitingDemandIsSettled ==
  \A o \in Orders :
    reservation[o] = "awaiting_stock_recalc" ~>
      \/ reservation[o] # "awaiting_stock_recalc"
      \/ Abandoned(o)
      \/ \A w \in Workers : At(w, "dead")

\* A recalculation in state "running" is recoverable (status model of the
\* document profile runbook): it leaves that state.
RunningJobRecovers ==
  \A o \in Orders : job[o].status = "running" ~> job[o].status # "running"
=============================================================================
