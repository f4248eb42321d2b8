------------------------- MODULE OrderEventsProofs -------------------------
(***************************************************************************)
(* The safety properties of OrderEvents, for any number of jobs, workers,  *)
(* failures and restarts.                                                  *)
(***************************************************************************)
EXTENDS OrderEvents, TLAPS

(* A job is queued again only while it has failures left, and each restart *)
(* may spare it one.                                                       *)
AttemptsAreLimited ==
  \A j \in Jobs :
    /\ job[j].status = "none" => job[j].attempts = 0
    /\ job[j].status = "queued" => job[j].attempts < MaxAttempts + stops
    /\ job[j].attempts <= MaxAttempts + stops

(* The cancellation is known, was lost for a known reason, or is about to  *)
(* be noticed.                                                             *)
Known == noticed \/ missed \/ \E r \in Reconcilers : At(r, "written")

(* Whoever read a cancelled snapshot may rely on the one who wrote it.     *)
ReadersMayRely == \A r \in Reconcilers : Cancelled(reconciler[r].before) => Known

IInv == TypeOK /\ AttemptsAreLimited /\ CancellationIsNoticed /\ ReadersMayRely

LEMMA InitIInv == Init => IInv
<1> SUFFICES ASSUME Init PROVE IInv
  OBVIOUS
<1>1. NoSnapshot \in Snapshot /\ ~Cancelled(NoSnapshot)
  BY DEF NoSnapshot, Snapshot, Cancelled
<1>2. Idle \in ReconcilerType /\ Idle.before = NoSnapshot
  BY <1>1 DEF Idle, ReconcilerType
<1>3. [status |-> "none", attempts |-> 0] \in JobType
  BY EventsAssumption DEF JobType
<1>4. TypeOK
  <2>1. stops \in 0..MaxStops
    BY EventsAssumption DEF Init
  <2>2. reconciler \in [Reconcilers -> ReconcilerType]
    BY <1>2 DEF Init
  <2>3. job \in [Jobs -> JobType]
    BY <1>3 DEF Init
  <2> QED
    BY <1>1, <2>1, <2>2, <2>3 DEF Init, TypeOK, Statuses, BillStatuses
<1>5. AttemptsAreLimited
  <2>1. 0 < MaxAttempts + stops /\ 0 <= MaxAttempts + stops
    BY EventsAssumption DEF Init
  <2>2. \A j \in Jobs : job[j].status = "none" /\ job[j].attempts = 0
    BY DEF Init
  <2> QED
    BY <2>1, <2>2 DEF AttemptsAreLimited
<1>6. CancellationIsNoticed /\ ReadersMayRely
  BY <1>1, <1>2 DEF Init, CancellationIsNoticed, ReadersMayRely
<1> QED
  BY <1>4, <1>5, <1>6 DEF IInv

-----------------------------------------------------------------------------
(* Steps that write no job leave the attempts as they are.                 *)
LEMMA JobsKept ==
  ASSUME IInv, UNCHANGED <<job, stops>>
  PROVE  AttemptsAreLimited'
<1>1. job' = job /\ stops' = stops
  OBVIOUS
<1> QED
  BY <1>1, Zenon DEF IInv, AttemptsAreLimited

(* What a reconciler does to its own record: it keeps what it has read of  *)
(* the snapshot, forgets it, or reads the snapshot.                        *)
LEMMA ReconcilerMoves ==
  ASSUME IInv, NEW r \in Reconcilers, NEW new \in ReconcilerType,
         new.before \in {reconciler[r].before, snapshot, NoSnapshot},
         reconciler' = [reconciler EXCEPT ![r] = new],
         Known => Known'
  PROVE  reconciler' \in [Reconcilers -> ReconcilerType] /\ ReadersMayRely'
<1>1. reconciler \in [Reconcilers -> ReconcilerType]
  BY DEF IInv, TypeOK
<1>2. reconciler'[r] = new /\ \A q \in Reconcilers \ {r} : reconciler'[q] = reconciler[q]
  BY <1>1
<1>3. ~Cancelled(NoSnapshot)
  BY DEF NoSnapshot, Cancelled
<1>4. Cancelled(new.before) => Known
  BY <1>3 DEF IInv, ReadersMayRely, CancellationIsNoticed, Known
<1>5. ReadersMayRely'
  BY <1>2, <1>4 DEF IInv, ReadersMayRely, Cancelled
<1> QED
  BY <1>1, <1>5

(* A record that is "written" stays so unless it is the one that moves.    *)
LEMMA KnownStays ==
  ASSUME IInv, NEW r \in Reconcilers, NEW new \in ReconcilerType,
         reconciler' = [reconciler EXCEPT ![r] = new],
         noticed => noticed', missed => missed',
         At(r, "written") => noticed' \/ missed'
  PROVE  Known => Known'
<1>1. reconciler \in [Reconcilers -> ReconcilerType]
  BY DEF IInv, TypeOK
<1>2. \A q \in Reconcilers \ {r} : reconciler'[q] = reconciler[q]
  BY <1>1
<1> QED
  BY <1>2 DEF Known, At

(* Steps that touch no reconciler.                                         *)
LEMMA ReconcilersKept ==
  ASSUME IInv, UNCHANGED reconciler, noticed => noticed', missed => missed'
  PROVE  (Known => Known') /\ ReadersMayRely'
<1>1. Known => Known'
  BY DEF Known, At
<1> QED
  BY <1>1 DEF IInv, ReadersMayRely, Cancelled

(* The record of a reconciler that forgets all but its job.                *)
LEMMA Forgotten ==
  ASSUME NEW pc \in {"done", "failing", "written", "leased", "idle"}, NEW j \in Jobs \cup {NoJob}
  PROVE  /\ [Idle EXCEPT !.pc = pc, !.job = j] \in ReconcilerType
         /\ [Idle EXCEPT !.pc = pc, !.job = j].before = NoSnapshot
         /\ [Idle EXCEPT !.pc = pc, !.job = j].pc = pc
<1>1. NoSnapshot \in Snapshot
  BY DEF NoSnapshot, Snapshot
<1> QED
  BY <1>1 DEF Idle, ReconcilerType

(* A job whose status is written keeps its attempts.                       *)
LEMMA JobRecord ==
  ASSUME NEW row \in JobType, NEW status \in {"none", "queued", "running", "done", "failed"}
  PROVE  /\ [row EXCEPT !.status = status] = [status |-> status, attempts |-> row.attempts]
         /\ [row EXCEPT !.status = status] \in JobType
         /\ row.attempts \in Nat
BY EventsAssumption DEF JobType

(* The limit of the attempts, before and after a restart.                  *)
LEMMA Limits ==
  ASSUME NEW n \in Nat, NEW s \in Nat
  PROVE  /\ MaxAttempts + s \in Nat /\ 0 < MaxAttempts + s
         /\ n < MaxAttempts + s => n + 1 <= MaxAttempts + s /\ n <= MaxAttempts + s
         /\ ~(n >= MaxAttempts) => n < MaxAttempts + s
         /\ n <= MaxAttempts + s => n < MaxAttempts + (s + 1) /\ n <= MaxAttempts + (s + 1)
BY EventsAssumption

-----------------------------------------------------------------------------

LEMMA NextIInv == IInv /\ [Next]_vars => IInv'
<1> SUFFICES ASSUME IInv, [Next]_vars PROVE IInv'
  OBVIOUS
<1>t. /\ order \in Statuses /\ snapshot \in Snapshot /\ bill \in BillStatuses
      /\ unsynced \in BOOLEAN /\ noticed \in BOOLEAN /\ missed \in BOOLEAN
      /\ job \in [Jobs -> JobType] /\ reconciler \in [Reconcilers -> ReconcilerType]
      /\ stops \in 0..MaxStops
  BY DEF IInv, TypeOK
<1>s. /\ snapshot.linked \in BOOLEAN /\ snapshot.docNo \in BOOLEAN
      /\ snapshot = [status |-> snapshot.status, linked |-> snapshot.linked, docNo |-> snapshot.docNo]
      /\ snapshot.status \in Statuses \cup {""}
  BY <1>t DEF Snapshot
<1>r. \A r \in Reconcilers : reconciler[r] \in ReconcilerType
  BY <1>t
<1>k. /\ CancellationIsNoticed /\ ReadersMayRely /\ AttemptsAreLimited
      /\ Cancelled(snapshot) => Known
  BY DEF IInv, CancellationIsNoticed, Known
\* Steps of Shopee, the bill and the send: no reconciler moves.
<1>1. CASE ChangeOrder \/ StartSend \/ \E status \in {"sent", "failed"} : FinishSend(status)
  <2>1. UNCHANGED <<snapshot, job, reconciler, noticed, missed, stops>>
    BY <1>1 DEF ChangeOrder, StartSend, FinishSend, sale, history
  <2>2. order' \in Statuses /\ bill' \in BillStatuses /\ unsynced' \in BOOLEAN
    BY <1>1, <1>t DEF ChangeOrder, StartSend, FinishSend, sale, history, Statuses, BillStatuses
  <2>3. CancellationIsNoticed'
    BY <1>k, <2>1 DEF CancellationIsNoticed, Cancelled, At
  <2> QED
    BY <1>t, <2>1, <2>2, <2>3, JobsKept, ReconcilersKept DEF IInv, TypeOK
<1>2. CASE CreateDocument
  <2>1. snapshot' \in Snapshot /\ snapshot'.status = "READY_TO_SHIP"
    BY <1>2, <1>t DEF CreateDocument, Snapshot
  <2>2. CancellationIsNoticed'
    BY <2>1 DEF CancellationIsNoticed, Cancelled
  <2>3. UNCHANGED <<order, unsynced, job, reconciler, noticed, missed, stops>> /\ bill' \in BillStatuses
    BY <1>2 DEF CreateDocument, history, BillStatuses
  <2> QED
    BY <1>t, <2>1, <2>2, <2>3, JobsKept, ReconcilersKept DEF IInv, TypeOK
<1>3. CASE SyncSendResult
  <2>1. /\ UNCHANGED <<order, bill, job, reconciler, noticed, stops>> /\ unsynced' = FALSE
        /\ snapshot' = [snapshot EXCEPT !.docNo = @ \/ snapshot.linked]
        /\ missed' = (missed \/ (Cancelled(snapshot') /\ ~Cancelled(snapshot)))
    BY <1>3 DEF SyncSendResult
  <2>2. snapshot' \in Snapshot
    BY <1>t, <1>s, <2>1 DEF Snapshot
  <2>3. missed' \in BOOLEAN /\ (missed => missed')
    BY <1>t, <2>1
  <2>4. Known => Known'
    BY <2>1, <2>3 DEF Known, At
  <2>5. CancellationIsNoticed'
    BY <1>k, <2>1, <2>4 DEF CancellationIsNoticed, Known
  <2> QED
    BY <1>t, <2>1, <2>2, <2>3, <2>5, JobsKept, ReconcilersKept DEF IInv, TypeOK
\* Steps of a reconciler before it writes.
<1>4. ASSUME NEW r \in Reconcilers, NEW new \in ReconcilerType,
             new.before \in {reconciler[r].before, snapshot, NoSnapshot},
             reconciler' = [reconciler EXCEPT ![r] = new],
             ~At(r, "written"),
             UNCHANGED <<order, snapshot, sale, job, history>>
      PROVE  IInv'
  <2>1. Known => Known'
    BY <1>4, KnownStays DEF history
  <2>2. CancellationIsNoticed'
    BY <1>4, <1>k, <2>1 DEF CancellationIsNoticed, Known, Cancelled
  <2>3. reconciler' \in [Reconcilers -> ReconcilerType] /\ ReadersMayRely'
    BY <1>4, <2>1, ReconcilerMoves
  <2> QED
    BY <1>4, <1>t, <2>2, <2>3, JobsKept DEF IInv, TypeOK, sale, history
<1>5. ASSUME NEW r \in Reconcilers,
             Fetch(r) \/ ReadBefore(r) \/ FindBill(r) \/ (r = Sync /\ SyncConnection)
      PROVE  IInv'
  <2>1. CASE Fetch(r)
    <3>1. [reconciler[r] EXCEPT !.pc = "fetched", !.detail = order] \in ReconcilerType
      BY <1>r, <1>t DEF ReconcilerType
    <3>2. [reconciler[r] EXCEPT !.pc = "fetched", !.detail = order].before = reconciler[r].before
      BY <1>r DEF ReconcilerType
    <3> QED
      BY <2>1, <3>1, <3>2, <1>4 DEF Fetch, At
  <2>2. CASE ReadBefore(r)
    <3>1. [reconciler[r] EXCEPT !.pc = "read", !.before = snapshot] \in ReconcilerType
      BY <1>r, <1>t DEF ReconcilerType
    <3>2. [reconciler[r] EXCEPT !.pc = "read", !.before = snapshot].before = snapshot
      BY <1>r DEF ReconcilerType
    <3> QED
      BY <2>2, <3>1, <3>2, <1>4 DEF ReadBefore, At
  <2>3. CASE FindBill(r)
    <3>1. PICK found \in {bill, "none"} :
            reconciler' = [reconciler EXCEPT ![r] = [reconciler[r] EXCEPT
              !.pc = "found", !.linked = found # "none", !.docNo = DocNoOf(found)]]
      BY <2>3 DEF FindBill
    <3> DEFINE new == [reconciler[r] EXCEPT
              !.pc = "found", !.linked = found # "none", !.docNo = DocNoOf(found)]
    <3>2. DocNoOf(found) \in BOOLEAN
      BY DEF DocNoOf
    <3>3. new \in ReconcilerType /\ new.before = reconciler[r].before
      BY <1>r, <3>2 DEF ReconcilerType
    <3>4. reconciler' = [reconciler EXCEPT ![r] = new]
      BY <3>1
    <3> HIDE DEF new
    <3> QED
      BY <2>3, <3>3, <3>4, <1>4 DEF FindBill, At
  <2>4. CASE r = Sync /\ SyncConnection
    <3>1. [reconciler[r] EXCEPT !.pc = "leased"] \in ReconcilerType
      BY <1>r DEF ReconcilerType
    <3>2. [reconciler[r] EXCEPT !.pc = "leased"].before = reconciler[r].before
      BY <1>r DEF ReconcilerType
    <3>3. reconciler' = [reconciler EXCEPT ![r] = [reconciler[r] EXCEPT !.pc = "leased"]]
      BY <2>4, <1>t DEF SyncConnection, Goto
    <3> QED
      BY <2>4, <3>1, <3>2, <3>3, <1>4 DEF SyncConnection, At
  <2> QED
    BY <1>5, <2>1, <2>2, <2>3, <2>4
<1>6. ASSUME NEW r \in Reconcilers, ReconcileFails(r)
      PROVE  IInv'
  <2>1. reconciler[r].job \in Jobs \cup {NoJob}
    BY <1>r DEF ReconcilerType
  <2>2. ~At(r, "written")
    BY <1>6 DEF ReconcileFails, At
  <2> QED
    BY <1>6, <2>1, <2>2, <1>4, Forgotten DEF ReconcileFails, Forget
\* The write and its notice.
<1>7. ASSUME NEW r \in Reconcilers, UpsertSnapshotFromDetail(r)
      PROVE  IInv'
  <2>1. /\ At(r, "found") /\ snapshot' = Upserted(r)
        /\ UNCHANGED <<order, bill, unsynced, job, noticed, missed, stops>>
    BY <1>7 DEF UpsertSnapshotFromDetail, sale, history
  <2>2. snapshot' \in Snapshot
    BY <1>r, <1>s, <2>1 DEF Upserted, Snapshot, ReconcilerType
  <2>3. PICK pc \in {"written", "done"} :
          /\ pc = IF Transition(reconciler[r].before, snapshot') THEN "written" ELSE "done"
          /\ Forget(r, pc)
    BY <1>7 DEF UpsertSnapshotFromDetail
  <2>4. PICK j \in Jobs \cup {NoJob} : j = reconciler[r].job
    BY <1>r DEF ReconcilerType
  <2> DEFINE new == [Idle EXCEPT !.pc = pc, !.job = j]
  <2>5. new \in ReconcilerType /\ new.before = NoSnapshot /\ new.pc = pc
    BY DEF Idle, ReconcilerType, NoSnapshot, Snapshot
  <2>6. reconciler' = [reconciler EXCEPT ![r] = new]
    BY <2>3, <2>4 DEF Forget
  <2> HIDE DEF new
  <2>7. ~At(r, "written")
    BY <2>1 DEF At
  <2>8. Known => Known'
    BY <2>1, <2>5, <2>6, <2>7, KnownStays
  <2>9. CancellationIsNoticed'
    <3>1. CASE pc = "written"
      BY <3>1, <2>5, <2>6, <1>t DEF CancellationIsNoticed, At
    <3>2. CASE pc = "done" /\ Cancelled(snapshot')
      <4>1. ~Transition(reconciler[r].before, snapshot')
        BY <2>3, <3>2
      <4>2. Cancelled(reconciler[r].before)
        BY <4>1, <3>2 DEF Transition, Cancelled
      <4>3. Known'
        BY <4>2, <2>8, <1>k DEF ReadersMayRely
      <4> QED
        BY <4>3 DEF Known, CancellationIsNoticed
    <3> QED
      BY <3>1, <3>2 DEF CancellationIsNoticed
  <2>10. reconciler' \in [Reconcilers -> ReconcilerType] /\ ReadersMayRely'
    BY <2>5, <2>6, <2>8, ReconcilerMoves
  <2> QED
    BY <1>t, <2>1, <2>2, <2>9, <2>10, JobsKept DEF IInv, TypeOK
<1>8. ASSUME NEW r \in Reconcilers, NotifySnapshotChange(r)
      PROVE  IInv'
  <2> DEFINE new == [reconciler[r] EXCEPT !.pc = "done"]
  <2>1. new \in ReconcilerType /\ new.before = reconciler[r].before
    BY <1>r DEF ReconcilerType
  <2>2. reconciler' = [reconciler EXCEPT ![r] = new]
    BY <1>8, <1>t DEF NotifySnapshotChange, Goto
  <2> HIDE DEF new
  <2>3. UNCHANGED <<order, snapshot, bill, unsynced, job, missed, stops>> /\ noticed' = TRUE
    BY <1>8 DEF NotifySnapshotChange, sale
  <2>4. Known' /\ CancellationIsNoticed'
    BY <2>3 DEF Known, CancellationIsNoticed
  <2>5. reconciler' \in [Reconcilers -> ReconcilerType] /\ ReadersMayRely'
    BY <2>1, <2>2, <2>4, ReconcilerMoves
  <2> QED
    BY <1>t, <2>3, <2>4, <2>5, JobsKept DEF IInv, TypeOK
\* Steps that write jobs.
<1>n. stops \in Nat /\ MaxAttempts \in Nat \ {0} /\ MaxStops \in Nat
  BY <1>t, EventsAssumption
<1>a. \A j \in Jobs :
        /\ job[j] = [status |-> job[j].status, attempts |-> job[j].attempts]
        /\ job[j].attempts \in Nat /\ job[j].attempts <= MaxAttempts + stops
        /\ job[j].status \in {"none", "queued", "running", "done", "failed"}
        /\ job[j].status = "queued" => job[j].attempts < MaxAttempts + stops
        /\ job[j].status = "none" => job[j].attempts = 0
  <2>1. \A j \in Jobs : job[j] \in JobType
    BY <1>t
  <2> QED
    BY <2>1, <1>n, <1>k DEF JobType, AttemptsAreLimited
<1>9. ASSUME NEW j \in Jobs, NEW status \in {"queued", "running", "done", "failed"}, NEW n \in Nat,
             n <= MaxAttempts + stops, status = "queued" => n < MaxAttempts + stops,
             job' = [job EXCEPT ![j] = [status |-> status, attempts |-> n]], UNCHANGED stops
      PROVE  AttemptsAreLimited' /\ job' \in [Jobs -> JobType]
  <2>1. [status |-> status, attempts |-> n] \in JobType
    BY <1>9, <1>t, <1>n DEF JobType
  <2>2. job'[j] = [status |-> status, attempts |-> n] /\ \A i \in Jobs \ {j} : job'[i] = job[i]
    BY <1>9, <1>t
  <2> QED
    BY <1>9, <1>t, <1>k, <2>1, <2>2 DEF AttemptsAreLimited
<1>10. ASSUME NEW j \in Jobs, EnqueueReconcileJob(j)
       PROVE  IInv'
  <2>1. job' = [job EXCEPT ![j] = [status |-> "queued", attempts |-> 0]]
    <3>1. job[j].status = "none" /\ job' = [job EXCEPT ![j].status = "queued"]
      BY <1>10 DEF EnqueueReconcileJob
    <3>2. [job[j] EXCEPT !.status = "queued"] = [status |-> "queued", attempts |-> job[j].attempts]
      BY <1>t, JobRecord
    <3>3. job[j].attempts = 0
      BY <1>a, <3>1
    <3> QED
      BY <3>1, <3>2, <3>3, <1>t
  <2>2. UNCHANGED <<order, snapshot, bill, unsynced, reconciler, noticed, missed, stops>>
    BY <1>10 DEF EnqueueReconcileJob, sale, history
  <2>3. AttemptsAreLimited' /\ job' \in [Jobs -> JobType]
    <3>1. 0 \in Nat /\ 0 < MaxAttempts + stops /\ 0 <= MaxAttempts + stops
      BY <1>n
    <3>2. UNCHANGED stops
      BY <2>2
    <3> QED
      BY <1>9, <2>1, <3>1, <3>2
  <2>4. CancellationIsNoticed'
    BY <1>k, <2>2 DEF CancellationIsNoticed, Cancelled, At
  <2> QED
    BY <1>t, <2>2, <2>3, <2>4, ReconcilersKept DEF IInv, TypeOK
<1>11. ASSUME NEW w \in Workers, NEW j \in Jobs, LeaseReconcileJobs(w, j)
       PROVE  IInv'
  <2> DEFINE new == [Idle EXCEPT !.pc = "leased", !.job = j]
  <2>1. /\ At(w, "idle") /\ job[j].status = "queued" /\ w \in Reconcilers
        /\ job' = [job EXCEPT ![j] = [status |-> "running", attempts |-> job[j].attempts + 1]]
        /\ reconciler' = [reconciler EXCEPT ![w] = new]
        /\ UNCHANGED <<order, snapshot, bill, unsynced, noticed, missed, stops>>
    BY <1>11 DEF LeaseReconcileJobs, sale, history, Reconcilers
  <2>2. new \in ReconcilerType /\ new.before = NoSnapshot /\ new.pc = "leased"
    BY <2>1, Forgotten
  <2> HIDE DEF new
  <2>3. Known => Known'
    BY <2>1, <2>2, KnownStays DEF At
  <2>4. CancellationIsNoticed'
    BY <1>k, <2>1, <2>3 DEF CancellationIsNoticed, Known, Cancelled
  <2>5. reconciler' \in [Reconcilers -> ReconcilerType] /\ ReadersMayRely'
    BY <2>1, <2>2, <2>3, ReconcilerMoves
  <2>6. AttemptsAreLimited' /\ job' \in [Jobs -> JobType]
    <3>1. job[j].attempts + 1 \in Nat /\ job[j].attempts + 1 <= MaxAttempts + stops
      <4>1. job[j].attempts \in Nat /\ job[j].attempts < MaxAttempts + stops
        BY <1>a, <2>1
      <4>2. job[j].attempts + 1 <= MaxAttempts + stops
        BY <4>1, <1>n, Limits
      <4> QED
        BY <4>1, <4>2
    <3> QED
      BY <1>9, <2>1, <3>1
  <2> QED
    BY <1>t, <2>1, <2>4, <2>5, <2>6 DEF IInv, TypeOK
<1>12. ASSUME NEW r \in Reconcilers, MarkJob(r)
       PROVE  IInv'
  <2>1. /\ reconciler[r].pc \in {"done", "failing"}
        /\ reconciler' = [reconciler EXCEPT ![r] = Idle]
        /\ UNCHANGED <<order, snapshot, bill, unsynced, noticed, missed, stops>>
    BY <1>12 DEF MarkJob, sale, history
  <2>2. Idle \in ReconcilerType /\ Idle.before = NoSnapshot
    BY DEF Idle, ReconcilerType, NoSnapshot, Snapshot
  <2>3. Known => Known'
    BY <2>1, <2>2, KnownStays DEF At
  <2>4. CancellationIsNoticed'
    BY <1>k, <2>1, <2>3 DEF CancellationIsNoticed, Known, Cancelled
  <2>5. reconciler' \in [Reconcilers -> ReconcilerType] /\ ReadersMayRely'
    BY <2>1, <2>2, <2>3, ReconcilerMoves
  <2>6. AttemptsAreLimited' /\ job' \in [Jobs -> JobType]
    <3>1. PICK j \in Jobs \cup {NoJob} : j = reconciler[r].job
      BY <1>r DEF ReconcilerType
    <3>2. CASE j = NoJob
      <4>1. job' = job
        BY <1>12, <3>1, <3>2 DEF MarkJob
      <4> QED
        BY <4>1, <2>1, <1>t, JobsKept
    <3>3. CASE j # NoJob
      <4>1. PICK status \in {"queued", "done", "failed"} :
              /\ job' = [job EXCEPT ![j].status = status]
              /\ status = "queued" => ~GivenUp(j)
        BY <1>12, <3>1, <3>3 DEF MarkJob, Recorded
      <4>j. j \in Jobs /\ job[j] \in JobType /\ job[j].attempts \in Nat
        BY <3>1, <3>3, <1>a, <1>t
      <4>2. job' = [job EXCEPT ![j] = [status |-> status, attempts |-> job[j].attempts]]
        <5>1. [job[j] EXCEPT !.status = status] = [status |-> status, attempts |-> job[j].attempts]
          <6>1. status \in {"none", "queued", "running", "done", "failed"}
            BY <4>1
          <6> QED
            BY <4>j, <6>1, JobRecord
        <5> QED
          BY <4>1, <4>j, <5>1, <1>t
      <4>3. status = "queued" => job[j].attempts < MaxAttempts + stops
        <5>1. SUFFICES ASSUME status = "queued" PROVE job[j].attempts < MaxAttempts + stops
          OBVIOUS
        <5>2. ~(job[j].attempts >= MaxAttempts)
          BY <4>1, <5>1 DEF GivenUp
        <5> QED
          BY <5>2, <4>j, <1>n, Limits
      <4>4. status \in {"queued", "running", "done", "failed"} /\ job[j].attempts <= MaxAttempts + stops
        BY <4>1, <4>j, <1>a
      <4>5. UNCHANGED stops
        BY <2>1
      <4> QED
        BY <1>9, <4>j, <4>2, <4>3, <4>4, <4>5
    <3> QED
      BY <3>2, <3>3
  <2> QED
    BY <1>t, <2>1, <2>4, <2>5, <2>6 DEF IInv, TypeOK
<1>13. CASE Restart
  <2>1. PICK stale \in SUBSET {j \in Jobs : job[j].status = "running"} :
          job' = [j \in Jobs |-> IF j \in stale THEN [job[j] EXCEPT !.status = "queued"] ELSE job[j]]
    BY <1>13 DEF Restart
  <2>2. /\ stops < MaxStops /\ stops' = stops + 1 /\ unsynced' = FALSE
        /\ missed' = (missed \/ \E r \in Reconcilers : At(r, "written"))
        /\ reconciler' = [r \in Reconcilers |-> Idle]
        /\ UNCHANGED <<order, snapshot, bill, noticed>>
    BY <1>13 DEF Restart
  <2>3. stops' \in 0..MaxStops /\ stops' \in Nat
    BY <2>2, <1>n
  <2>4. Idle \in ReconcilerType /\ ~Cancelled(Idle.before)
    BY DEF Idle, ReconcilerType, NoSnapshot, Snapshot, Cancelled
  <2>5. reconciler' \in [Reconcilers -> ReconcilerType] /\ ReadersMayRely'
    BY <2>2, <2>4 DEF ReadersMayRely, Cancelled
  <2>6. Known => noticed' \/ missed'
    BY <2>2 DEF Known
  <2>7. CancellationIsNoticed' /\ missed' \in BOOLEAN
    BY <1>t, <1>k, <2>2, <2>6 DEF CancellationIsNoticed, Cancelled
  <2>8. ASSUME NEW j \in Jobs
        PROVE  /\ job'[j] \in JobType
               /\ job'[j].status = "none" => job'[j].attempts = 0
               /\ job'[j].status = "queued" => job'[j].attempts < MaxAttempts + stops'
               /\ job'[j].attempts <= MaxAttempts + stops'
    <3>1. job[j] \in JobType /\ job[j].attempts \in Nat /\ job[j].attempts <= MaxAttempts + stops
      BY <1>t, <1>a
    <3>l. job[j].attempts < MaxAttempts + stops' /\ job[j].attempts <= MaxAttempts + stops'
      <4>1. job[j].attempts < MaxAttempts + (stops + 1) /\ job[j].attempts <= MaxAttempts + (stops + 1)
        BY <3>1, <1>n, Limits
      <4> QED
        BY <4>1, <2>2
    <3>2. CASE j \in stale
      <4>1. job'[j] = [job[j] EXCEPT !.status = "queued"]
        BY <2>1, <3>2
      <4>2. job'[j] = [status |-> "queued", attempts |-> job[j].attempts] /\ job'[j] \in JobType
        BY <3>1, <4>1, JobRecord
      <4> QED
        BY <4>2, <3>l
    <3>3. CASE j \notin stale
      <4>1. job'[j] = job[j]
        BY <2>1, <3>3
      <4> QED
        BY <4>1, <1>a, <3>1, <3>l
    <3> QED
      BY <3>2, <3>3
  <2>9. job' \in [Jobs -> JobType] /\ AttemptsAreLimited'
    BY <2>1, <2>8 DEF AttemptsAreLimited
  <2> QED
    BY <1>t, <2>2, <2>3, <2>5, <2>7, <2>9 DEF IInv, TypeOK
<1>14. CASE UNCHANGED vars
  <2>1. UNCHANGED <<order, snapshot, bill, unsynced, job, reconciler, noticed, missed, stops>>
    BY <1>14 DEF vars
  <2>2. CancellationIsNoticed'
    BY <1>k, <2>1 DEF CancellationIsNoticed, Cancelled, At
  <2> QED
    BY <1>t, <2>1, <2>2, JobsKept, ReconcilersKept DEF IInv, TypeOK
<1>15. Sync \in Reconcilers
  BY DEF Reconcilers
<1> QED
  BY <1>1, <1>2, <1>3, <1>5, <1>6, <1>7, <1>8, <1>10, <1>11, <1>12, <1>13, <1>14, <1>15
     DEF Next, Reconcile

-----------------------------------------------------------------------------
LEMMA Invariance == Spec => []IInv
BY InitIInv, NextIInv, PTL DEF Spec

(* Every variable keeps its type; the attempts of a job stay below their   *)
(* limit and one more for each restart.                                    *)
THEOREM TypeCorrect == Spec => []TypeOK
<1>1. IInv => TypeOK
  BY DEF IInv
<1> QED
  BY <1>1, Invariance, PTL

(* A cancelled order whose document exists is noticed, whichever of the    *)
(* jobs, the sync and the send were slow, unless the result of the send    *)
(* came late or the process stopped.                                       *)
THEOREM CancellationsAreNoticed == Spec => []CancellationIsNoticed
<1>1. IInv => CancellationIsNoticed
  BY DEF IInv
<1> QED
  BY <1>1, Invariance, PTL

LEMMA StepKeepsDocNo ==
  IInv /\ [Next]_vars =>
    (snapshot.docNo => snapshot'.docNo) /\ (snapshot.linked => snapshot'.linked)
<1> SUFFICES ASSUME IInv, [Next]_vars
             PROVE  (snapshot.docNo => snapshot'.docNo) /\ (snapshot.linked => snapshot'.linked)
  OBVIOUS
<1>1. snapshot \in Snapshot
  BY DEF IInv, TypeOK
<1>2. CASE CreateDocument
  BY <1>1, <1>2 DEF CreateDocument, Snapshot
<1>3. CASE SyncSendResult
  BY <1>1, <1>3 DEF SyncSendResult, Snapshot
<1>4. ASSUME NEW r \in Reconcilers, UpsertSnapshotFromDetail(r)
      PROVE  (snapshot.docNo => snapshot'.docNo) /\ (snapshot.linked => snapshot'.linked)
  BY <1>4 DEF UpsertSnapshotFromDetail, Upserted
<1>5. CASE UNCHANGED snapshot
  BY <1>5
<1>6. ASSUME NEW r \in Reconcilers,
             \/ Fetch(r) \/ ReadBefore(r) \/ FindBill(r) \/ NotifySnapshotChange(r)
             \/ ReconcileFails(r) \/ MarkJob(r)
      PROVE  UNCHANGED snapshot
  BY <1>6 DEF Fetch, ReadBefore, FindBill, NotifySnapshotChange, ReconcileFails, MarkJob
<1>7. ASSUME \/ ChangeOrder \/ StartSend \/ (\E status \in {"sent", "failed"} : FinishSend(status))
             \/ SyncConnection \/ (\E j \in Jobs : EnqueueReconcileJob(j))
             \/ (\E w \in Workers, j \in Jobs : LeaseReconcileJobs(w, j)) \/ Restart \/ UNCHANGED vars
      PROVE  UNCHANGED snapshot
  BY <1>7 DEF ChangeOrder, StartSend, FinishSend, SyncConnection, EnqueueReconcileJob,
              LeaseReconcileJobs, Restart, vars
<1> QED
  BY <1>2, <1>3, <1>4, <1>5, <1>6, <1>7 DEF Next, Reconcile

(* No write of a snapshot loses the bill or the number of the document,    *)
(* whatever the writer had read before.                                    *)
THEOREM DocNosAreKept == Spec => DocNoIsKept
<1>1. IInv /\ [Next]_vars =>
        [(snapshot.docNo => snapshot'.docNo) /\ (snapshot.linked => snapshot'.linked)]_vars
  BY StepKeepsDocNo
<1> QED
  BY <1>1, Invariance, PTL DEF Spec, DocNoIsKept
=============================================================================
