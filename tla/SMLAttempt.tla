----------------------------- MODULE SMLAttempt -----------------------------
(***************************************************************************)
(* Sending the bill of one marketplace order to the SML accounting server. *)
(*                                                                         *)
(* A sale bill is sent by sendBillToSML, called by the operator's retry,   *)
(* the bulk worker and the Auto SML worker, possibly at the same time and  *)
(* from a snapshot of the bill loaded earlier.  The database serialises    *)
(* them: one immutable attempt per bill, a lease on it, a fence on the     *)
(* lease owner when the outcome is recorded.  SML keeps at most one        *)
(* document per document number and may process a request after the sender *)
(* has given up on the answer.                                             *)
(***************************************************************************)
EXTENDS Integers, FiniteSets, Reservation

CONSTANTS
  Bills,          \* bills that can come to exist for the order
  NoBill,
  Calls,          \* invocations of sendBillToSML; each is its own lease owner
  NoCall,
  MaxRev,         \* bound on the versions of a bill's content
  NoDoc,          \* SML holds no document under the bill's number
  ForeignDoc,     \* the number is taken by a document Nexflow did not send
  ShopeeRealtime, \* the bills are Shopee bills: erp_send lease and recreate
  NameMapped,     \* the lines carry no SKU: name mappings rewrite open bills
  StalledSends    \* a sender can be stalled for longer than its lease

Contents == 1..MaxRev

ASSUME MaxRevAssumption == MaxRev \in Nat \ {0}
ASSUME NullAssumption ==
  /\ NoBill \notin Bills
  /\ NoCall \notin Calls
  /\ NoDoc # ForeignDoc
  /\ NoDoc \notin Contents
  /\ ForeignDoc \notin Contents
ASSUME FlagAssumption == {ShopeeRealtime, NameMapped, StalledSends} \subseteq BOOLEAN

VARIABLES
  bill,        \* row of bills: status, archived, document number, revision, content
  attempt,     \* the bill's row of bill_sml_attempts
  order,       \* Shopee order snapshot: linked bill, document number, cancelled
  reservation, \* the order's row of marketplace_stock_reservations
  recalc,      \* bills with a row in marketplace_stock_recalc_jobs
  erpSend,     \* the order's erp_send row of shopee_action_outbox
  call,        \* local state of each invocation of sendBillToSML
  wire,        \* requests sent and not yet processed by SML
  smlDoc       \* what SML holds under each bill's document number

vars == <<bill, attempt, order, reservation, recalc, erpSend, call, wire, smlDoc>>

Sendable == {"pending", "failed", "needs_review"}
AttemptStates == {"none", "sending", "unknown", "sent", "failed_exact_retry",
                  "stale_requires_reconciliation"}
Answers == {"none", "success", "rejected", "mismatch", "transient"}
Results == {"none", "sent", "already_sent", "not_sent"}
Running == {"ready", "waiting", "answered"}

BillType == [status : Sendable \cup {"absent", "sent", "deleted"}, archived : BOOLEAN,
             docNo : BOOLEAN, rev : Contents, content : Contents]
AttemptType == [state : AttemptStates, owner : Calls \cup {NoCall},
                live : BOOLEAN, payload : Contents \cup {NoDoc}]
CallType == [pc : Running \cup {"idle", "loaded", "returning", "syncing", "done", "crashed"},
             bill : Bills \cup {NoBill}, rev : Contents, content : Contents,
             hasAttempt : BOOLEAN, leaseLost : BOOLEAN, answer : Answers, result : Results]
Request == [call : Calls, bill : Bills, payload : Contents]

TypeOK ==
  /\ bill \in [Bills -> BillType]
  /\ attempt \in [Bills -> AttemptType]
  /\ order \in [bill : Bills \cup {NoBill}, docNo : BOOLEAN, cancelled : BOOLEAN]
  /\ reservation \in [state : ReservationStates, bill : Bills \cup {NoBill}]
  /\ recalc \subseteq Bills
  /\ erpSend \in [status : {"none", "running", "done", "failed"}, holder : Calls \cup {NoCall}]
  /\ call \in [Calls -> CallType]
  /\ wire \subseteq Request
  /\ smlDoc \in [Bills -> Contents \cup {NoDoc, ForeignDoc}]

NoAttempt == [state |-> "none", owner |-> NoCall, live |-> FALSE, payload |-> NoDoc]
AbsentBill == [status |-> "absent", archived |-> FALSE, docNo |-> FALSE, rev |-> 1, content |-> 1]
IdleCall == [pc |-> "idle", bill |-> NoBill, rev |-> 1, content |-> 1, hasAttempt |-> FALSE,
             leaseLost |-> FALSE, answer |-> "none", result |-> "none"]

Init ==
  /\ bill = [b \in Bills |-> AbsentBill]
  /\ attempt = [b \in Bills |-> NoAttempt]
  /\ order = [bill |-> NoBill, docNo |-> FALSE, cancelled |-> FALSE]
  /\ reservation = [state |-> "none", bill |-> NoBill]
  /\ recalc = {}
  /\ erpSend = [status |-> "none", holder |-> NoCall]
  /\ call = [c \in Calls |-> IdleCall]
  /\ wire = {}
  /\ smlDoc \in [Bills -> {NoDoc, ForeignDoc}]

-----------------------------------------------------------------------------
(* The order and its bill: creation, edits, archive, cancellation.         *)

(* createBillFromRealtimeSnapshot, with the reservation its transaction    *)
(* upserts: an existing reservation keeps its bill if it has one.          *)
CreateBill(b, status, state) ==
  /\ order.bill = NoBill /\ ~order.cancelled
  /\ bill[b].status = "absent"
  /\ bill' = [bill EXCEPT ![b].status = status]
  /\ order' = [order EXCEPT !.bill = b]
  /\ \E reserved \in ReservedAs(reservation.state, state) :
       reservation' = [state |-> reserved,
                       bill |-> IF reservation.bill = NoBill THEN b ELSE reservation.bill]
  /\ UNCHANGED <<attempt, recalc, erpSend, call, wire, smlDoc>>

Unattempted(b) ==
  /\ bill[b].status \in Sendable
  /\ ~bill[b].archived
  /\ attempt[b].state = "none"

(* Manual item edits, amount review, promotion, document number edit and   *)
(* the mapping worker: all require an unattempted bill and bump its        *)
(* revision.  MaxRev bounds the number of edits.                           *)
EditBill(b, status, docNo) ==
  /\ Unattempted(b)
  /\ bill[b].rev < MaxRev /\ bill[b].content < MaxRev
  /\ status \in {bill[b].status, "pending", "needs_review"}
  /\ docNo \in {bill[b].docNo, TRUE}
  /\ bill' = [bill EXCEPT ![b] = [@ EXCEPT !.rev = bill[b].rev + 1, !.content = bill[b].content + 1,
                                        !.status = status, !.docNo = docNo]]
  /\ UNCHANGED <<attempt, order, reservation, recalc, erpSend, call, wire, smlDoc>>

(* ApplyToOpenNoSKUItems, when an operator saves a name mapping.           *)
ApplyNameMapping(b) ==
  /\ NameMapped
  /\ bill[b].status \in {"pending", "needs_review"} /\ ~bill[b].archived
  /\ bill[b].content < MaxRev
  /\ \E promoted \in {bill[b].status, "pending"} :
       bill' = [bill EXCEPT ![b] = [@ EXCEPT !.content = bill[b].content + 1, !.status = promoted]]
  /\ UNCHANGED <<attempt, order, reservation, recalc, erpSend, call, wire, smlDoc>>

(* The mapping worker re-evaluates the conversion of an unattempted bill.  *)
ReconcileMapping(state) ==
  /\ reservation.bill # NoBill
  /\ Unattempted(reservation.bill)
  /\ reservation.state \in Unclaimed \ {state}
  /\ reservation' = [reservation EXCEPT !.state = state]
  /\ UNCHANGED <<bill, attempt, order, recalc, erpSend, call, wire, smlDoc>>

SetArchived(b, archived) ==
  /\ bill[b].status \notin {"absent", "deleted"} /\ bill[b].archived # archived
  /\ bill' = [bill EXCEPT ![b].archived = archived]
  /\ UNCHANGED <<attempt, order, reservation, recalc, erpSend, call, wire, smlDoc>>

(* Delete: the attempt's foreign key restricts it, the reservation's lets   *)
(* go of the bill, and a bill linked to a Shopee snapshot is refused.      *)
DeleteBill(b) ==
  /\ bill[b].status \notin {"absent", "deleted"} /\ attempt[b].state = "none"
  /\ ShopeeRealtime => order.bill # b
  /\ bill' = [bill EXCEPT ![b] = [AbsentBill EXCEPT !.status = "deleted"]]
  /\ order' = [order EXCEPT !.bill = IF @ = b THEN NoBill ELSE @]
  /\ reservation' = [reservation EXCEPT !.bill = IF @ = b THEN NoBill ELSE @]
  /\ UNCHANGED <<attempt, recalc, erpSend, call, wire, smlDoc>>

(* RecreateShopeeRealtimeDocumentRoute: archive the bill and unlink it, so *)
(* that the order can be given a new one.                                  *)
Recreate(b) ==
  /\ ShopeeRealtime
  /\ order.bill = b /\ ~order.docNo
  /\ bill[b].status # "sent" /\ ~bill[b].archived /\ ~bill[b].docNo
  /\ bill' = [bill EXCEPT ![b].archived = TRUE]
  /\ order' = [order EXCEPT !.bill = NoBill]
  /\ UNCHANGED <<attempt, reservation, recalc, erpSend, call, wire, smlDoc>>

(* A snapshot of the order with status CANCELLED is stored; the marketplace *)
(* repeats it, and so does this action.                                    *)
CancelOrder ==
  /\ order' = [order EXCEPT !.cancelled = TRUE]
  /\ reservation' = [reservation EXCEPT !.state = Cancelled(@)]
  /\ UNCHANGED <<bill, attempt, recalc, erpSend, call, wire, smlDoc>>

(* The recalculation worker settles the demand of a job (see StockRecalc). *)
SettleRecalc ==
  /\ reservation.bill \in recalc /\ reservation.state = "awaiting_stock_recalc"
  /\ \E state \in {"incorporated_in_sml", "manual_reconciliation"} :
       reservation' = [reservation EXCEPT !.state = state]
  /\ UNCHANGED <<bill, attempt, order, recalc, erpSend, call, wire, smlDoc>>

-----------------------------------------------------------------------------
(* sendBillToSML up to the request.                                        *)

(* The caller loads the bill; the rest works on this snapshot.             *)
Load(c, b) ==
  /\ call[c].pc = "idle"
  /\ bill[b].status \in Sendable
  /\ call' = [call EXCEPT ![c] =
              [@ EXCEPT !.pc = IF ShopeeRealtime THEN "loaded" ELSE "ready",
                        !.bill = b, !.rev = bill[b].rev, !.content = bill[b].content,
                        !.hasAttempt = attempt[b].state # "none"]]
  /\ UNCHANGED <<bill, attempt, order, reservation, recalc, erpSend, wire, smlDoc>>

(* The holder has not touched its row for five minutes.                    *)
Overdue(c) == StalledSends \/ call[c].pc = "crashed"

(* A call past its use of the snapshot keeps only its bill and its result. *)
Left(c, pc, result) == [IdleCall EXCEPT !.pc = pc, !.bill = call[c].bill, !.result = result]

(* StartAction on the order's erp_send key.                                *)
StartSend(c) ==
  /\ call[c].pc = "loaded"
  /\ \/ /\ \/ erpSend.status \in {"none", "failed"}
           \/ erpSend.status = "running" /\ Overdue(erpSend.holder)
        /\ erpSend' = [status |-> "running", holder |-> c]
        /\ call' = [call EXCEPT ![c].pc = "ready"]
     \/ /\ erpSend.status = "done"
        /\ call' = [call EXCEPT ![c] = Left(c, "syncing", "already_sent")]
        /\ UNCHANGED erpSend
     \/ /\ erpSend.status = "running"
        /\ call' = [call EXCEPT ![c] = Left(c, "done", "not_sent")]
        /\ UNCHANGED erpSend
  /\ UNCHANGED <<bill, attempt, order, reservation, recalc, wire, smlDoc>>

(* The call is about to return; a Shopee call first completes its action.  *)
Returning(c, result) ==
  call' = [call EXCEPT ![c] = Left(c, IF ShopeeRealtime THEN "returning" ELSE "done", result)]

(* SML not ready, amounts to review, an unusable route, a database error.  *)
Refuse(c) ==
  /\ call[c].pc = "ready"
  /\ Returning(c, "not_sent")
  /\ UNCHANGED <<bill, attempt, order, reservation, recalc, erpSend, wire, smlDoc>>

(* The snapshot shows an unmapped item or stale product master: the bill   *)
(* goes to review with an unconditional UPDATE that clears its number.     *)
SendToReview(c) ==
  LET b == call[c].bill IN
  /\ call[c].pc = "ready" /\ ~call[c].hasAttempt
  /\ bill' = IF bill[b].status = "deleted" THEN bill
             ELSE [bill EXCEPT ![b] = [@ EXCEPT !.status = "needs_review", !.docNo = FALSE]]
  /\ Returning(c, "not_sent")
  /\ UNCHANGED <<attempt, order, reservation, recalc, erpSend, wire, smlDoc>>

(* Faulty variant: the payload is rebuilt from the bill on every send.     *)
Transmit_Rebuilt(c, payload) ==
  /\ wire' = wire \cup {[call |-> c, bill |-> call[c].bill, payload |-> bill[call[c].bill].content]}
  /\ call' = [call EXCEPT ![c].pc = "waiting"]

(* Put the attempt's bytes on the wire and start the heartbeat.            *)
Transmit(c, payload) ==
  /\ wire' = wire \cup {[call |-> c, bill |-> call[c].bill, payload |-> payload]}
  /\ call' = [call EXCEPT ![c].pc = "waiting"]

(* Faulty variant: without the check of the revision.                      *)
MayCreate_IgnoresRevision(c) ==
  LET b == call[c].bill IN
  /\ ~bill[b].archived
  /\ bill[b].status \in Sendable
  /\ attempt[b].state = "none"

(* The conditions CreateSMLAttempt checks under the bill's row lock.       *)
MayCreate(c) ==
  LET b == call[c].bill IN
  /\ ~bill[b].archived
  /\ bill[b].status \in Sendable
  /\ attempt[b].state = "none"
  /\ bill[b].rev = call[c].rev

CreateSMLAttempt(c) ==
  LET b == call[c].bill IN
  /\ call[c].pc = "ready" /\ ~call[c].hasAttempt
  /\ IF MayCreate(c)
     THEN /\ attempt' = [attempt EXCEPT ![b] = [state |-> "sending", owner |-> c, live |-> TRUE,
                                                payload |-> call[c].content]]
          /\ bill' = [bill EXCEPT ![b].docNo = TRUE]
          /\ reservation' = IF reservation.bill = b /\ reservation.state = "active"
                            THEN [reservation EXCEPT !.state = "sending_sml"] ELSE reservation
          /\ Transmit(c, call[c].content)
     ELSE /\ Returning(c, "not_sent")
          /\ UNCHANGED <<attempt, bill, reservation, wire>>
  /\ UNCHANGED <<order, recalc, erpSend, smlDoc>>

Busy(c) ==
  LET a == attempt[call[c].bill] IN a.state = "sending" /\ a.live /\ a.owner # c

(* Faulty variant: an attempt already sent can be claimed.                 *)
MayClaim_ReplaysSent(c) ==
  /\ attempt[call[c].bill].state # "stale_requires_reconciliation"
  /\ ~Busy(c)

MayClaim(c) ==
  /\ attempt[call[c].bill].state \notin {"sent", "stale_requires_reconciliation"}
  /\ ~Busy(c)

ClaimExistingSMLAttempt(c) ==
  LET b == call[c].bill IN
  /\ call[c].pc = "ready" /\ call[c].hasAttempt
  /\ IF MayClaim(c)
     THEN /\ attempt' = [attempt EXCEPT ![b] = [@ EXCEPT !.state = "sending", !.owner = c, !.live = TRUE]]
          /\ Transmit(c, attempt[b].payload)
     ELSE /\ Returning(c, IF attempt[b].state = "sent" THEN "already_sent" ELSE "not_sent")
          /\ UNCHANGED <<attempt, wire>>
  /\ UNCHANGED <<bill, order, reservation, recalc, erpSend, smlDoc>>

-----------------------------------------------------------------------------
(* The request in flight: SML, timeouts and the lease.                     *)

(* SML handles a request, perhaps long after its sender has gone.  A number *)
(* it does not hold is stored or refused; the same payload is already      *)
(* there; another payload is a conflict.                                   *)
Verdicts(r) ==
  CASE smlDoc[r.bill] = NoDoc -> {"success", "rejected"}
    [] smlDoc[r.bill] = r.payload -> {"success"}
    [] OTHER -> {"mismatch", "rejected"}

SMLProcess(r) ==
  /\ r \in wire
  /\ wire' = wire \ {r}
  /\ \E verdict \in Verdicts(r), delivered \in BOOLEAN :
       /\ smlDoc' = IF verdict = "success" THEN [smlDoc EXCEPT ![r.bill] = r.payload] ELSE smlDoc
       /\ call' = IF delivered /\ call[r.call].pc = "waiting"
                  THEN [call EXCEPT ![r.call] = [@ EXCEPT !.pc = "answered", !.answer = verdict]]
                  ELSE call
  /\ UNCHANGED <<bill, attempt, order, reservation, recalc, erpSend>>

(* The HTTP client times out, the connection breaks or SML answers 5xx.    *)
NoAnswer(c) ==
  /\ call[c].pc = "waiting"
  /\ call' = [call EXCEPT ![c] = [@ EXCEPT !.pc = "answered", !.answer = "transient"]]
  /\ UNCHANGED <<bill, attempt, order, reservation, recalc, erpSend, wire, smlDoc>>

Holds(c) == attempt[call[c].bill].owner = c /\ attempt[call[c].bill].state = "sending"

(* A tick of the heartbeat renews the lease, or finds it lost (or fails)   *)
(* and stops.                                                              *)
Heartbeat(c) ==
  LET b == call[c].bill IN
  /\ call[c].pc = "waiting" /\ ~call[c].leaseLost
  /\ \/ /\ Holds(c)
        /\ attempt' = [attempt EXCEPT ![b].live = TRUE]
        /\ UNCHANGED call
     \/ /\ call' = [call EXCEPT ![c].leaseLost = TRUE]
        /\ UNCHANGED attempt
  /\ UNCHANGED <<bill, order, reservation, recalc, erpSend, wire, smlDoc>>

(* Faulty variant: only the death of the owner ends its lease.             *)
LeaseExpires_OnCrashOnly(b) ==
  /\ attempt[b].live
  /\ call[attempt[b].owner].pc = "crashed"
  /\ attempt' = [attempt EXCEPT ![b].live = FALSE]
  /\ UNCHANGED <<bill, order, reservation, recalc, erpSend, call, wire, smlDoc>>

(* Five minutes without a renewal: the owner is gone, has returned without *)
(* recording, lost its heartbeat or is stalled.                            *)
LeaseExpires(b) ==
  /\ attempt[b].live
  /\ \/ StalledSends
     \/ call[attempt[b].owner].pc \notin Running
     \/ call[attempt[b].owner].leaseLost
  /\ attempt' = [attempt EXCEPT ![b].live = FALSE]
  /\ UNCHANGED <<bill, order, reservation, recalc, erpSend, call, wire, smlDoc>>

-----------------------------------------------------------------------------
(* FinishSMLAttempt and the way back.                                      *)

(* Faulty variant: a request without an answer counts as delivered.        *)
OutcomeOf_TimeoutIsSent(answer) ==
  CASE answer \in {"success", "transient"} -> "sent"
    [] answer = "rejected" -> "failed_exact_retry"
    [] answer = "mismatch" -> "stale_requires_reconciliation"

OutcomeOf(answer) ==
  CASE answer = "success"   -> "sent"
    [] answer = "rejected"  -> "failed_exact_retry"
    [] answer = "transient" -> "unknown"
    [] answer = "mismatch"  -> "stale_requires_reconciliation"

BillStatuses(outcome) ==
  CASE outcome = "sent" -> {"sent"}
    [] outcome = "stale_requires_reconciliation" -> {"needs_review"}
    [] OTHER -> {"failed", "needs_review"}

(* Faulty variant: only the first bill that is sent gets a job.            *)
JobsAfter_FirstOnly(outcome, b) == IF outcome = "sent" /\ recalc = {} THEN {b} ELSE recalc

JobsAfter(outcome, b) == IF outcome = "sent" THEN recalc \cup {b} ELSE recalc

(* Faulty variant: the outcome is recorded without the fence.              *)
MayRecord_Unfenced(c) == ~call[c].leaseLost

(* The transaction commits only for the current lease owner of an attempt  *)
(* still being sent; otherwise, or when the heartbeat has lost the lease,  *)
(* nothing is recorded.                                                    *)
MayRecord(c) == Holds(c) /\ ~call[c].leaseLost

Record(c) ==
  LET b == call[c].bill
      outcome == OutcomeOf(call[c].answer)
  IN
  /\ call[c].pc = "answered" /\ MayRecord(c)
  /\ attempt' = [attempt EXCEPT ![b] = [@ EXCEPT !.state = outcome, !.owner = NoCall, !.live = FALSE]]
  /\ \E status \in BillStatuses(outcome) :
       bill' = [bill EXCEPT ![b] = [@ EXCEPT !.status = status, !.docNo = TRUE]]
  /\ reservation' = IF reservation.bill = b
                    THEN [reservation EXCEPT !.state = ReservationAfter(outcome, @)] ELSE reservation
  /\ recalc' = JobsAfter(outcome, b)
  /\ Returning(c, IF outcome = "sent" THEN "sent" ELSE "not_sent")
  /\ UNCHANGED <<order, erpSend, wire, smlDoc>>

(* Faulty variant: a lost lease leaves the call without a way to return.   *)
GiveUp_OnlyWithLease(c) ==
  /\ call[c].pc = "answered" /\ MayRecord(c)
  /\ Returning(c, "not_sent")
  /\ UNCHANGED <<bill, attempt, order, reservation, recalc, erpSend, wire, smlDoc>>

(* The lease is lost, or the transaction fails.                            *)
GiveUp(c) ==
  /\ call[c].pc = "answered"
  /\ Returning(c, "not_sent")
  /\ UNCHANGED <<bill, attempt, order, reservation, recalc, erpSend, wire, smlDoc>>

(* Faulty variant: the row is done whatever the send came to.              *)
CompleteSend_IgnoresResult(c) ==
  /\ call[c].pc = "returning"
  /\ erpSend' = [status |-> "done", holder |-> NoCall]
  /\ call' = [call EXCEPT ![c].pc = "syncing"]
  /\ UNCHANGED <<bill, attempt, order, reservation, recalc, wire, smlDoc>>

(* CompleteAction writes by key, whoever holds the row by now.             *)
CompleteSend(c) ==
  LET ok == call[c].result \in {"sent", "already_sent"} IN
  /\ call[c].pc = "returning"
  /\ erpSend' = [status |-> IF ok THEN "done" ELSE "failed", holder |-> NoCall]
  /\ call' = [call EXCEPT ![c].pc = IF ok THEN "syncing" ELSE "done"]
  /\ UNCHANGED <<bill, attempt, order, reservation, recalc, wire, smlDoc>>

(* syncShopeeRealtimeFromSendResult stores the number on the snapshot.     *)
SyncSnapshot(c) ==
  /\ call[c].pc = "syncing"
  /\ order' = [order EXCEPT !.docNo = @ \/ order.bill = call[c].bill]
  /\ call' = [call EXCEPT ![c].pc = "done"]
  /\ UNCHANGED <<bill, attempt, reservation, recalc, erpSend, wire, smlDoc>>

(* The process is killed, or a statement other than the recording fails    *)
(* and nothing that follows happens.                                       *)
Crash(c) ==
  /\ call[c].pc \notin {"idle", "done", "crashed"}
  /\ call' = [call EXCEPT ![c] = Left(c, "crashed", @.result)]
  /\ UNCHANGED <<bill, attempt, order, reservation, recalc, erpSend, wire, smlDoc>>

-----------------------------------------------------------------------------
SenderStep(c) ==
  \/ StartSend(c)
  \/ Refuse(c)
  \/ SendToReview(c)
  \/ CreateSMLAttempt(c)
  \/ ClaimExistingSMLAttempt(c)
  \/ NoAnswer(c)
  \/ Record(c)
  \/ GiveUp(c)
  \/ CompleteSend(c)
  \/ SyncSnapshot(c)

OrderStep ==
  \/ \E b \in Bills :
       \/ \E status \in {"pending", "needs_review"}, state \in {"active", "blocked_mapping"} :
            CreateBill(b, status, state)
       \/ \E status \in Sendable, docNo \in BOOLEAN : EditBill(b, status, docNo)
       \/ ApplyNameMapping(b)
       \/ \E archived \in BOOLEAN : SetArchived(b, archived)
       \/ DeleteBill(b)
       \/ Recreate(b)
  \/ \E state \in {"active", "blocked_mapping"} : ReconcileMapping(state)
  \/ CancelOrder
  \/ SettleRecalc

Next ==
  \/ OrderStep
  \/ \E c \in Calls, b \in Bills : Load(c, b)
  \/ \E c \in Calls : SenderStep(c) \/ Heartbeat(c) \/ Crash(c)
  \/ \E r \in wire : SMLProcess(r)
  \/ \E b \in Bills : LeaseExpires(b)

Spec == Init /\ [][Next]_vars

(* A running call keeps going: every wait in it has a timeout (30 s on the *)
(* SML client, 5 s on a renewal), so it ends unless its process dies.      *)
Fairness ==
  /\ \A c \in Calls : WF_vars(SenderStep(c))
  /\ \A b \in Bills : WF_vars(LeaseExpires(b))

FairSpec == Spec /\ Fairness

-----------------------------------------------------------------------------
(* Properties.                                                             *)

\* Every request on the wire and every document Nexflow stored in SML under
\* the bill's number is the payload frozen by the bill's one attempt, however
\* many calls race to create it and however often it is retried.
OneImmutablePayload ==
  /\ \A r \in wire : r.payload = attempt[r.bill].payload
  /\ \A b \in Bills : smlDoc[b] \in {NoDoc, ForeignDoc, attempt[b].payload}

\* A frozen payload is the current content of the bill: no call commits a
\* snapshot that an edit has overtaken, and no edit follows the commit.
PayloadIsCurrentContent ==
  \A b \in Bills : attempt[b].state # "none" => attempt[b].payload = bill[b].content

\* A bill is recorded as sent only when SML holds its document.
SentIsStored ==
  \A b \in Bills : attempt[b].state = "sent" => smlDoc[b] = attempt[b].payload

\* At most one call takes the credit for sending a bill (and so writes its
\* audit entry and its recalculation job), whatever leases it lost meanwhile.
OneCallRecordsTheSend ==
  \A b \in Bills : Cardinality({c \in Calls : call[c].bill = b /\ call[c].result = "sent"}) <= 1

\* The sends of all bills implement the promise of SendOnce.
Once == INSTANCE SendOnce WITH
  Payloads <- Contents,
  NoPayload <- NoDoc,
  chosen <- [b \in Bills |-> attempt[b].payload],
  stored <- [b \in Bills |-> IF smlDoc[b] = ForeignDoc THEN NoDoc ELSE smlDoc[b]],
  acknowledged <- {b \in Bills : attempt[b].state = "sent"}

SendsOnce == Once!Spec

\* The demand of the order runs the course of DemandLife, whichever of its
\* bills is archived, deleted, recreated or sent and however often it is
\* cancelled: only the send of the bill it belongs to takes it to SML.
Demand == INSTANCE DemandLife WITH
  Orders <- {"order"},
  demand <- [o \in {"order"} |-> Life(reservation.state)],
  taken <- {o \in {"order"} : \E b \in Bills : reservation.bill = b /\ attempt[b].state = "sent"}

DemandRunsItsCourse == Demand!Spec

\* Stock that waits for a recalculation belongs to a bill SML has taken and
\* for which a job is queued, so that it cannot wait for nothing.
AwaitingDemandHasJob ==
  reservation.state = "awaiting_stock_recalc" =>
    /\ attempt[reservation.bill].state = "sent"
    /\ reservation.bill \in recalc

\* The erp_send row of an order is done, which refuses every later send, only
\* when one of its bills did reach SML, though the row is completed without
\* a fence and can be taken over from a stalled sender.
DoneMeansSent ==
  erpSend.status = "done" => \E b \in Bills : attempt[b].state = "sent"

\* What a late or superseded sender reports cannot undo a recorded send.
SentIsFinal ==
  [][\A b \in Bills : attempt[b].state = "sent" => attempt'[b] = attempt[b]]_vars

\* A sender's request and its attempt do not leave the bill locked for ever:
\* the attempt is recorded or its lease runs out and another call may claim it.
NoAttemptStaysBusy ==
  \A b \in Bills : attempt[b].live ~> ~attempt[b].live

\* A call that has started to send returns or dies with its process.
EveryCallReturns ==
  \A c \in Calls : call[c].pc = "ready" ~> call[c].pc \in {"done", "crashed"}

-----------------------------------------------------------------------------
(* Claims of the comments and documents that the code does not keep.       *)

\* "releases only demand that has never reached SML" (comment on
\* ReconcileMarketplaceReservationCancelled): when an active reservation is
\* released no request for its bill is on its way to SML or stored there.
ReleasedDemandNeverReachedSML ==
  [][reservation.state = "active" /\ reservation'.state = "released_cancelled" =>
       \A b \in {reservation.bill} \ {NoBill} :
         smlDoc[b] \notin Contents /\ \A r \in wire : r.bill # b]_vars

\* The recreate handler refuses a bill that was sent or has an SML document
\* number; an attempted bill has one.
RecreatedWasNeverAttempted ==
  [][\A b \in Bills : order.bill = b /\ order'.bill = NoBill => attempt[b].state = "none"]_vars

\* "A sent reservation remains reserved in awaiting_stock_recalc until
\* processstockrequest succeeds" (stock runbook): once the order's bill is
\* sent its reservation has left the states before the send.  The code keeps
\* this, also through exact retries, except for a bill that was recreated.
SentReservationAwaitsRecalc ==
  order.bill # NoBill /\ attempt[order.bill].state = "sent" =>
    reservation.state \notin {"active", "sending_sml"}

\* "Only never-attempted, non-archived bill items may change" (product
\* mapping master).
OnlyUnattemptedContentChanges ==
  [][\A b \in Bills : bill'[b].content # bill[b].content => attempt[b].state = "none"]_vars
=============================================================================
