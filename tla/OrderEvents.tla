---------------------------- MODULE OrderEvents ----------------------------
(***************************************************************************)
(* The snapshot of one Shopee order.  Jobs that pushes queue and a         *)
(* periodic sync fetch the order and write the snapshot, a send of its     *)
(* bill writes the document number, and the write that finds the order     *)
(* cancelled after its document exists queues the cancellation or warns    *)
(* the operators.  Each statement is a step: nothing locks the order.      *)
(***************************************************************************)
EXTENDS Integers

CONSTANTS
  Jobs,         \* reconciliation jobs, one for each push
  Workers,      \* goroutines that process a batch of jobs
  Sync,         \* the periodic SyncAllActive
  NoJob,
  MaxAttempts,  \* failures after which a job is given up
  MaxStops      \* bound on the times the process stops

Reconcilers == Workers \cup {Sync}

ASSUME EventsAssumption ==
  /\ NoJob \notin Jobs /\ Sync \notin Workers
  /\ MaxAttempts \in Nat \ {0} /\ MaxStops \in Nat

VARIABLES
  order,       \* status of the order at Shopee
  snapshot,    \* status, bill_id and sml_doc_no of the order's snapshot
  bill,        \* status of its bill
  unsynced,    \* a send has ended whose result is not in the snapshot yet
  job,         \* rows of shopee_reconcile_jobs
  reconciler,  \* what each worker and the sync are doing
  noticed,     \* a cancellation was queued, or the operators were warned
  missed,      \* history: a cancellation nobody was going to notice any more
  stops        \* how often the process has stopped

vars == <<order, snapshot, bill, unsynced, job, reconciler, noticed, missed, stops>>

Statuses == {"READY_TO_SHIP", "CANCELLED"}
BillStatuses == {"none", "pending", "sending", "failed", "sent"}
Snapshot == [status : Statuses \cup {""}, linked : BOOLEAN, docNo : BOOLEAN]
JobType == [status : {"none", "queued", "running", "done", "failed"},
            attempts : 0..(MaxAttempts + MaxStops)]
ReconcilerType == [pc : {"idle", "leased", "fetched", "read", "found", "written", "done", "failing"},
                   job : Jobs \cup {NoJob}, detail : Statuses \cup {""}, before : Snapshot,
                   linked : BOOLEAN, docNo : BOOLEAN]

TypeOK ==
  /\ order \in Statuses
  /\ snapshot \in Snapshot
  /\ bill \in BillStatuses
  /\ unsynced \in BOOLEAN /\ noticed \in BOOLEAN /\ missed \in BOOLEAN
  /\ job \in [Jobs -> JobType]
  /\ reconciler \in [Reconcilers -> ReconcilerType]
  /\ stops \in 0..MaxStops

NoSnapshot == [status |-> "", linked |-> FALSE, docNo |-> FALSE]
Idle == [pc |-> "idle", job |-> NoJob, detail |-> "", before |-> NoSnapshot,
         linked |-> FALSE, docNo |-> FALSE]

Init ==
  /\ order = "READY_TO_SHIP"
  /\ snapshot = NoSnapshot
  /\ bill = "none"
  /\ unsynced = FALSE /\ noticed = FALSE /\ missed = FALSE
  /\ job = [j \in Jobs |-> [status |-> "none", attempts |-> 0]]
  /\ reconciler = [r \in Reconcilers |-> Idle]
  /\ stops = 0

At(r, pc) == reconciler[r].pc = pc
Goto(r, pc) == reconciler' = [reconciler EXCEPT ![r].pc = pc]
Forget(r, pc) == reconciler' = [reconciler EXCEPT ![r] = [Idle EXCEPT !.pc = pc, !.job = reconciler[r].job]]

sale == <<bill, unsynced>>
history == <<noticed, missed, stops>>

-----------------------------------------------------------------------------
(* Shopee.                                                                 *)

ChangeOrder ==
  /\ order = "READY_TO_SHIP"
  /\ order' = "CANCELLED"
  /\ UNCHANGED <<snapshot, sale, job, reconciler, history>>

(* EnqueueReconcileJob, for a push of the order that is new.               *)
EnqueueReconcileJob(j) ==
  /\ job[j].status = "none"
  /\ job' = [job EXCEPT ![j].status = "queued"]
  /\ UNCHANGED <<order, snapshot, sale, reconciler, history>>

-----------------------------------------------------------------------------
(* The bill, which may be sent whatever became of the order.               *)

(* A bill is created from a snapshot of an order that is not cancelled and *)
(* linked to it; createBillFromRealtimeSnapshot and LinkSnapshotBill.      *)
CreateDocument ==
  /\ bill = "none" /\ snapshot.status = "READY_TO_SHIP"
  /\ bill' = "pending"
  /\ snapshot' = [snapshot EXCEPT !.linked = TRUE]
  /\ UNCHANGED <<order, unsynced, job, reconciler, history>>

(* The attempt writes the document number into the bill.                   *)
StartSend ==
  /\ bill \in {"pending", "failed"}
  /\ bill' = "sending"
  /\ UNCHANGED <<order, snapshot, unsynced, job, reconciler, history>>

FinishSend(status) ==
  /\ bill = "sending"
  /\ bill' = status
  /\ unsynced' = (status = "sent")
  /\ UNCHANGED <<order, snapshot, job, reconciler, history>>

DocNoOf(status) == status \in {"sending", "failed", "sent"}

Cancelled(s) == s.status = "CANCELLED" /\ s.docNo

(* UpdateSnapshotForBillSendResult: it looks at no status.                 *)
SyncSendResult ==
  /\ unsynced
  /\ unsynced' = FALSE
  /\ snapshot' = [snapshot EXCEPT !.docNo = @ \/ snapshot.linked]
  /\ missed' = (missed \/ (Cancelled(snapshot') /\ ~Cancelled(snapshot)))
  /\ UNCHANGED <<order, bill, job, reconciler, noticed, stops>>

-----------------------------------------------------------------------------
(* The jobs and the sync.                                                  *)

LeaseReconcileJobs(w, j) ==
  /\ At(w, "idle") /\ job[j].status = "queued"
  /\ job' = [job EXCEPT ![j] = [status |-> "running", attempts |-> job[j].attempts + 1]]
  /\ reconciler' = [reconciler EXCEPT ![w] = [Idle EXCEPT !.pc = "leased", !.job = j]]
  /\ UNCHANGED <<order, snapshot, sale, history>>

SyncConnection ==
  /\ At(Sync, "idle")
  /\ Goto(Sync, "leased")
  /\ UNCHANGED <<order, snapshot, sale, job, history>>

(* GetOrderDetail.                                                         *)
Fetch(r) ==
  /\ At(r, "leased")
  /\ reconciler' = [reconciler EXCEPT ![r] = [@ EXCEPT !.pc = "fetched", !.detail = order]]
  /\ UNCHANGED <<order, snapshot, sale, job, history>>

(* FindSnapshot.                                                           *)
ReadBefore(r) ==
  /\ At(r, "fetched")
  /\ reconciler' = [reconciler EXCEPT ![r] = [@ EXCEPT !.pc = "read", !.before = snapshot]]
  /\ UNCHANGED <<order, snapshot, sale, job, history>>

(* findShopeeBill, whose error is ignored.                                 *)
FindBill(r) ==
  /\ At(r, "read")
  /\ \E found \in {bill, "none"} :
       reconciler' = [reconciler EXCEPT ![r] = [@ EXCEPT
         !.pc = "found", !.linked = found # "none", !.docNo = DocNoOf(found)]]
  /\ UNCHANGED <<order, snapshot, sale, job, history>>

(* Faulty variant: the write takes the document number as it was read.     *)
Upserted_Read(r) ==
  [status |-> reconciler[r].detail, linked |-> reconciler[r].linked,
   docNo |-> reconciler[r].docNo]

(* Faulty variant: a snapshot that exists keeps its status.                *)
Upserted_KeepsStatus(r) ==
  [status |-> IF snapshot.status = "" THEN reconciler[r].detail ELSE snapshot.status,
   linked |-> snapshot.linked \/ reconciler[r].linked,
   docNo |-> snapshot.docNo \/ reconciler[r].docNo]

(* The status as it was fetched, however old; the bill and the number only *)
(* if there is one.                                                        *)
Upserted(r) ==
  [status |-> reconciler[r].detail,
   linked |-> snapshot.linked \/ reconciler[r].linked,
   docNo |-> snapshot.docNo \/ reconciler[r].docNo]

(* Faulty variant: only a change of the status is looked at.               *)
Transition_Status(before, after) == Cancelled(after) /\ before.status # "CANCELLED"

(* A first look at a cancelled order counts too.                           *)
Transition(before, after) ==
  Cancelled(after) /\ (before.status # "CANCELLED" \/ before.docNo # after.docNo)

(* UpsertSnapshotFromDetail; what it returns is compared with the snapshot *)
(* read before.                                                            *)
UpsertSnapshotFromDetail(r) ==
  /\ At(r, "found")
  /\ snapshot' = Upserted(r)
  /\ Forget(r, IF Transition(reconciler[r].before, snapshot') THEN "written" ELSE "done")
  /\ UNCHANGED <<order, sale, job, history>>

(* maybeEnqueueAutoSMLCancellation or, if it does not handle it, the alert. *)
NotifySnapshotChange(r) ==
  /\ At(r, "written")
  /\ noticed' = TRUE
  /\ Goto(r, "done")
  /\ UNCHANGED <<order, snapshot, sale, job, missed, stops>>

(* Any call or statement before the write fails.                           *)
ReconcileFails(r) ==
  /\ reconciler[r].pc \in {"leased", "fetched", "read", "found"}
  /\ Forget(r, "failing")
  /\ UNCHANGED <<order, snapshot, sale, job, history>>

Recorded(j, status) == [job EXCEPT ![j].status = status]

(* Faulty variant: a job is tried again however often it has failed.       *)
GivenUp_Never(j) == FALSE

GivenUp(j) == job[j].attempts >= MaxAttempts

(* MarkReconcileJobDone and MarkReconcileJobFailed, by the id of the job.  *)
MarkJob(r) ==
  LET j == reconciler[r].job IN
  /\ reconciler[r].pc \in {"done", "failing"}
  /\ job' = IF j = NoJob THEN job
            ELSE IF At(r, "done") THEN Recorded(j, "done")
            ELSE IF GivenUp(j) THEN Recorded(j, "failed")
            ELSE Recorded(j, "queued")
  /\ reconciler' = [reconciler EXCEPT ![r] = Idle]
  /\ UNCHANGED <<order, snapshot, sale, history>>

(* The process is replaced: StartReconcileWorker queues the jobs again     *)
(* that were not written for five minutes, and no other.                   *)
Restart ==
  /\ stops < MaxStops
  /\ stops' = stops + 1
  /\ missed' = (missed \/ \E r \in Reconcilers : At(r, "written"))
  /\ reconciler' = [r \in Reconcilers |-> Idle]
  /\ \E stale \in SUBSET {j \in Jobs : job[j].status = "running"} :
       job' = [j \in Jobs |-> IF j \in stale THEN [job[j] EXCEPT !.status = "queued"] ELSE job[j]]
  /\ unsynced' = FALSE
  /\ UNCHANGED <<order, snapshot, bill, noticed>>

-----------------------------------------------------------------------------
Reconcile(r) ==
  \/ Fetch(r)
  \/ ReadBefore(r)
  \/ FindBill(r)
  \/ UpsertSnapshotFromDetail(r)
  \/ NotifySnapshotChange(r)

Next ==
  \/ ChangeOrder
  \/ CreateDocument
  \/ StartSend
  \/ \E status \in {"sent", "failed"} : FinishSend(status)
  \/ SyncSendResult
  \/ SyncConnection
  \/ \E j \in Jobs : EnqueueReconcileJob(j)
  \/ \E w \in Workers, j \in Jobs : LeaseReconcileJobs(w, j)
  \/ \E r \in Reconcilers : Reconcile(r) \/ ReconcileFails(r) \/ MarkJob(r)
  \/ Restart

Spec == Init /\ [][Next]_vars

(* What was started goes on; the sync comes every interval, and succeeds   *)
(* for the order now and then.                                             *)
Fairness ==
  /\ \A r \in Reconcilers : WF_vars(Reconcile(r)) /\ WF_vars(MarkJob(r))
  /\ WF_vars(SyncConnection)
  /\ SF_vars(Fetch(Sync)) /\ SF_vars(ReadBefore(Sync)) /\ SF_vars(FindBill(Sync))
  /\ SF_vars(UpsertSnapshotFromDetail(Sync))

FairSpec == Spec /\ Fairness

-----------------------------------------------------------------------------
\* The snapshot never loses its bill or its document number, whatever was
\* read of the bill before the number was written.
DocNoIsKept ==
  [][(snapshot.docNo => snapshot'.docNo) /\ (snapshot.linked => snapshot'.linked)]_vars

\* A snapshot of a cancelled order with a document has been noticed, or one
\* that has seen the change is about to, except that the result of a send
\* came to a snapshot that was cancelled already, or the process stopped
\* between the write and the notice.  Slow readers and repeated changes of
\* the status are no exception.
CancellationIsNoticed ==
  Cancelled(snapshot) => noticed \/ missed \/ \E r \in Reconcilers : At(r, "written")

\* The snapshot comes to the status of the order and stays there, though a
\* slow job may write an old one over a new one: the sync repairs it.
SnapshotConverges == <>[](snapshot.status = order)
=============================================================================
