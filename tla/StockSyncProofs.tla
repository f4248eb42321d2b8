--------------------------- MODULE StockSyncProofs ---------------------------
(***************************************************************************)
(* What a stock run publishes leaves out every order whose demand is known *)
(* and keeps nothing back for one whose demand is settled, for any number  *)
(* of orders, workers and runs.                                            *)
(***************************************************************************)
EXTENDS StockSync, TLAPS

\* The initial state is well typed.
LEMMA InitType == Init => TypeOK
  BY LedgerAssumption, SyncAssumption
  DEF Init, TypeOK, LedgerInit, LedgerTypeOK, ReservationStates, NoJob, JobType, IdleWorker,
      WorkerType, NoLease, IdleRun, RunType, Nothing, View, Outcomes

\* Bumping the demand revision keeps it a natural number and never lowers it.
LEMMA Bump ==
  ASSUME revision \in Nat, NEW changes \in BOOLEAN, BumpDemandVersion(changes)
  PROVE  revision' \in Nat /\ revision' >= revision /\ (changes => revision' # revision)
  BY DEF BumpDemandVersion

\* A worker that goes on to another of its states stays well typed.
LEMMA GotoType ==
  ASSUME LedgerTypeOK, NEW w \in Workers,
         NEW pc \in {"idle", "claimed", "loaded", "requested", "processed", "verified", "checked",
                     "failing", "dead"},
         Goto(w, pc)
  PROVE  worker' \in [Workers -> WorkerType]
  <1>1. [worker[w] EXCEPT !.pc = pc] \in WorkerType
    <2>1. worker[w] \in WorkerType
      BY DEF LedgerTypeOK
    <2> QED
      BY <2>1 DEF WorkerType
  <1> QED
    BY <1>1 DEF LedgerTypeOK, Goto

-----------------------------------------------------------------------------
(* The ledger alone: what its steps preserve, and what they may change     *)
(* without moving the demand revision.                                     *)

(* A worker past the evidence works on an order SML accounts for.          *)
WorkerInv(w) ==
  /\ worker[w].pc # "idle" => worker[w].order \in Orders
  /\ worker[w].pc \in {"verified", "checked"} => worker[w].order \in counted

(* A job that can still be claimed has claims left.                        *)
JobInv(o) == job[o].status \in {"none", "queued", "failed"} => job[o].attempts < MaxAttempts

LedgerInv ==
  /\ LedgerTypeOK
  /\ IncorporatedIsCounted
  /\ \A o \in Orders : JobInv(o)
  /\ \A w \in Workers : WorkerInv(w)

Open == Held \cup {"blocked_set", "manual_reconciliation"}

(* What a step promises to a run that has read the ledger before.          *)
Quiet ==
  /\ counted \subseteq counted'
  /\ revision' >= revision
  /\ revision' = revision =>
       \A o \in Orders :
         /\ reservation'[o] \in Held => reservation[o] \in Held
         /\ reservation'[o] = "incorporated_in_sml" => reservation[o] = "incorporated_in_sml"
         /\ reservation[o] \in Open => reservation'[o] \in Open

\* A step on an order keeps the ledger's invariant; it can bring demand into
\* the ledger or take it out only with a new demand revision.
LEMMA OrderLedger ==
  ASSUME LedgerInv, NEW o \in Orders, OrderStep(o)
  PROVE  LedgerInv' /\ Quiet
  <1> USE DEF LedgerInv, LedgerTypeOK
  <1>1. ASSUME NEW state \in {"active", "blocked_mapping"}, Reserve(o, state)
        PROVE  LedgerInv' /\ Quiet
    <2>1. PICK reserved \in ReservedAs(reservation[o], state) :
            /\ reservation' = [reservation EXCEPT ![o] = reserved]
            /\ BumpDemandVersion(reserved = "active")
      BY <1>1 DEF Reserve
    <2>2. /\ reserved \in ReservationStates
          /\ reserved \in Held => reserved = "active" \/ reservation[o] = reserved
          /\ reserved = "incorporated_in_sml" => reservation[o] = reserved
          /\ reservation[o] \in Open => reserved \in Open
      BY DEF ReservedAs, ReservationStates, Held, Open
    <2>3. /\ revision' \in Nat /\ revision' >= revision
          /\ reserved = "active" => revision' # revision
      BY <2>1, Bump
    <2> QED
      BY <1>1, <2>1, <2>2, <2>3
      DEF Reserve, Quiet, IncorporatedIsCounted, WorkerInv, JobInv
  <1>2. ASSUME NEW state \in {"active", "blocked_mapping"}, ReconcileMappingReservations(o, state)
        PROVE  LedgerInv' /\ Quiet
    BY <1>2, Bump DEF ReconcileMappingReservations, Quiet, Held, Open, ReservationStates,
                      IncorporatedIsCounted, WorkerInv, JobInv
  <1>3. CASE CancelOrder(o)
    <2>1. Cancelled(reservation[o]) \in {"released_cancelled", "manual_reconciliation"}
      BY <1>3 DEF CancelOrder, Cancelled
    <2>2. revision' \in Nat /\ revision' >= revision
      BY <1>3 DEF CancelOrder, BumpDemandVersion
    <2>3. reservation[o] \in Open /\ revision' = revision => Cancelled(reservation[o]) \in Open
      BY <1>3 DEF CancelOrder, BumpDemandVersion, Open, Held, Unclaimed, Cancelled
    <2> QED
      BY <1>3, <2>1, <2>2, <2>3
      DEF CancelOrder, Quiet, Held, Open, ReservationStates, IncorporatedIsCounted,
                WorkerInv, JobInv
  <1>4. CASE CreateSMLAttempt(o)
    BY <1>4 DEF CreateSMLAttempt, Quiet, Held, Open, ReservationStates, IncorporatedIsCounted,
                WorkerInv, JobInv, Outcomes
  <1>5. CASE ClaimExistingSMLAttempt(o)
    BY <1>5 DEF ClaimExistingSMLAttempt, Quiet, IncorporatedIsCounted, WorkerInv, JobInv, Outcomes
  <1>6. CASE StoreDocument(o) \/ CountDocument(o)
    BY <1>6 DEF StoreDocument, CountDocument, Quiet, IncorporatedIsCounted, WorkerInv, JobInv
  <1>7. ASSUME NEW outcome \in Outcomes, FinishSMLAttempt(o, outcome) PROVE LedgerInv' /\ Quiet
    <2>1. /\ ReservationAfter(outcome, reservation[o]) \in ReservationStates
          /\ ReservationAfter(outcome, reservation[o]) = "incorporated_in_sml" =>
               reservation[o] = "incorporated_in_sml"
          /\ reservation[o] \in Open => ReservationAfter(outcome, reservation[o]) \in Open
          /\ ReservationAfter(outcome, reservation[o]) \in Held => reservation[o] \in Held
      BY DEF ReservationAfter, ReservationStates, Open, Held, Outcomes
    <2>2. revision' \in Nat /\ revision' >= revision
      BY <1>7, Bump DEF FinishSMLAttempt
    <2>3. job' \in [Orders -> JobType] /\ \A p \in Orders : JobInv(p)'
      <3>1. [job[o] EXCEPT !.status = "queued"] \in JobType
        BY DEF JobType
      <3> QED
        BY <1>7, <3>1 DEF FinishSMLAttempt, JobInv, JobType
    <2>4. LedgerTypeOK'
      BY <1>7, <2>1, <2>2, <2>3 DEF FinishSMLAttempt
    <2>5. Quiet
      BY <1>7, <2>1, <2>2 DEF FinishSMLAttempt, Quiet
    <2> QED
      BY <1>7, <2>1, <2>3, <2>4, <2>5 DEF FinishSMLAttempt, IncorporatedIsCounted, WorkerInv
  <1> QED
    BY <1>1, <1>2, <1>3, <1>4, <1>5, <1>6, <1>7 DEF OrderStep

\* A step that changes only the worker's place keeps the ledger's invariant.
LEMMA GotoLedger ==
  ASSUME LedgerInv, NEW w \in Workers,
         NEW pc \in {"claimed", "loaded", "requested", "processed", "verified", "checked",
                     "failing", "dead"},
         Goto(w, pc), worker[w].pc # "idle",
         pc \in {"verified", "checked"} => worker[w].order \in counted,
         counted \subseteq counted', counted' \subseteq document,
         job' \in [Orders -> JobType], \A o \in Orders : JobInv(o)',
         UNCHANGED <<reservation, attempt, revision, document>>
  PROVE  LedgerInv' /\ Quiet
  <1>1. LedgerTypeOK'
    BY GotoType DEF LedgerInv, LedgerTypeOK
  <1>2. \A v \in Workers : WorkerInv(v)'
    BY DEF LedgerInv, LedgerTypeOK, WorkerInv, WorkerType, Goto
  <1>3. IncorporatedIsCounted'
    BY DEF LedgerInv, IncorporatedIsCounted
  <1>4. Quiet
    BY DEF LedgerInv, LedgerTypeOK, Quiet
  <1> QED
    BY <1>1, <1>2, <1>3, <1>4 DEF LedgerInv

\* A worker that comes to rest keeps its part of the invariant.
LEMMA RestInv ==
  ASSUME LedgerInv, NEW w \in Workers, Rest(w), UNCHANGED counted
  PROVE  worker' \in [Workers -> WorkerType] /\ \A v \in Workers : WorkerInv(v)'
  BY DEF LedgerInv, LedgerTypeOK, Rest, IdleWorker, WorkerType, WorkerInv

\* Changing a job's status and owner keeps the jobs well typed.
LEMMA JobStep ==
  ASSUME LedgerInv, NEW o \in Orders,
         NEW status \in {"running", "failed", "completed", "manual_reconciliation"},
         NEW attempts \in 0..MaxAttempts, NEW owner \in Workers \cup {NoWorker},
         status = "failed" => attempts < MaxAttempts,
         job' = [job EXCEPT ![o] = [@ EXCEPT !.status = status, !.attempts = attempts, !.owner = owner]]
  PROVE  job' \in [Orders -> JobType] /\ \A p \in Orders : JobInv(p)'
  <1>1. job \in [Orders -> JobType] /\ \A p \in Orders : JobInv(p)
    BY DEF LedgerInv, LedgerTypeOK
  <1>2. [job[o] EXCEPT !.status = status, !.attempts = attempts, !.owner = owner] \in JobType
    BY <1>1 DEF JobType
  <1> QED
    BY <1>1, <1>2 DEF JobInv, JobType

\* A claim takes one of the job's claims.
LEMMA ClaimLedger ==
  ASSUME LedgerInv, NEW w \in Workers, NEW o \in Orders, ClaimStockRecalcJob(w, o)
  PROVE  LedgerInv' /\ Quiet
  <1>1. job[o] \in JobType /\ JobInv(o)
    BY DEF LedgerInv, LedgerTypeOK
  <1>2. job[o].attempts + 1 \in 0..MaxAttempts
    BY <1>1, LedgerAssumption DEF ClaimStockRecalcJob, Claimable, JobInv, JobType
  <1>3. job' \in [Orders -> JobType] /\ \A p \in Orders : JobInv(p)'
    <2>1. ASSUME NEW n \in 0..MaxAttempts,
                 job' = [job EXCEPT ![o] = [@ EXCEPT !.status = "running", !.attempts = n, !.owner = w]]
          PROVE  job' \in [Orders -> JobType] /\ \A p \in Orders : JobInv(p)'
      BY <2>1, JobStep
    <2>2. job' = [job EXCEPT ![o] = [@ EXCEPT !.status = "running", !.attempts = job[o].attempts + 1,
                                            !.owner = w]]
      BY DEF ClaimStockRecalcJob
    <2> QED
      BY <1>2, <2>1, <2>2
  <1>4. worker' \in [Workers -> WorkerType] /\ \A v \in Workers : WorkerInv(v)'
    BY DEF ClaimStockRecalcJob, LedgerInv, LedgerTypeOK, WorkerType, WorkerInv
  <1> QED
    BY <1>3, <1>4 DEF ClaimStockRecalcJob, LedgerInv, LedgerTypeOK, IncorporatedIsCounted, Quiet

\* Completing a job incorporates demand SML accounts for, with a new revision.
LEMMA CompleteLedger ==
  ASSUME LedgerInv, NEW w \in Workers, CompleteStockRecalcJob(w)
  PROVE  LedgerInv' /\ Quiet
  <1> DEFINE o == worker[w].order
  <1>1. o \in Orders /\ o \in counted
    BY DEF CompleteStockRecalcJob, At, LedgerInv, WorkerInv
  <1>2. job[o] \in JobType
    BY <1>1 DEF LedgerInv, LedgerTypeOK
  <1>3. job' \in [Orders -> JobType] /\ \A p \in Orders : JobInv(p)'
    <2>1. job[o].attempts \in 0..MaxAttempts
      BY <1>2 DEF JobType
    <2>2. job' = [job EXCEPT ![o] = [@ EXCEPT !.status = "completed", !.attempts = job[o].attempts,
                                            !.owner = NoWorker]]
      BY <1>1, <1>2 DEF CompleteStockRecalcJob, JobType, LedgerInv, LedgerTypeOK
    <2> QED
      BY <1>1, <2>1, <2>2, JobStep
  <1>4. worker' \in [Workers -> WorkerType] /\ \A v \in Workers : WorkerInv(v)'
    BY RestInv DEF CompleteStockRecalcJob
  <1>5. revision' \in Nat /\ revision' >= revision
        /\ (reservation[o] = "awaiting_stock_recalc" => revision' # revision)
    BY Bump DEF CompleteStockRecalcJob, LedgerInv, LedgerTypeOK
  <1> QED
    BY <1>1, <1>3, <1>4, <1>5
    DEF CompleteStockRecalcJob, LedgerInv, LedgerTypeOK, IncorporatedIsCounted, Quiet, ReservationStates

\* Giving a job up leaves its demand open, with the operator.
LEMMA FailLedger ==
  ASSUME LedgerInv, NEW w \in Workers, FailStockRecalcJob(w)
  PROVE  LedgerInv' /\ Quiet
  <1> DEFINE o == worker[w].order
             status == StatusAfterFailure(job[o].attempts)
             state == ReservationGivenUp(status, reservation[o])
  <1>1. o \in Orders
    BY DEF FailStockRecalcJob, At, LedgerInv, WorkerInv
  <1>2. job[o] \in JobType /\ reservation[o] \in ReservationStates
    BY <1>1 DEF LedgerInv, LedgerTypeOK
  <1>3. job' \in [Orders -> JobType] /\ \A p \in Orders : JobInv(p)'
    <2>1. CASE Owns(w)
      <3>1. job[o].attempts \in 0..MaxAttempts
        BY <1>2 DEF JobType
      <3>2. status \in {"failed", "manual_reconciliation"}
            /\ (status = "failed" => job[o].attempts < MaxAttempts)
        BY <3>1, LedgerAssumption DEF StatusAfterFailure
      <3>3. job' = [job EXCEPT ![o] = [@ EXCEPT !.status = status, !.attempts = job[o].attempts,
                                              !.owner = NoWorker]]
        BY <1>1, <1>2, <2>1 DEF FailStockRecalcJob, JobType, LedgerInv, LedgerTypeOK
      <3> HIDE DEF status
      <3> QED
        BY <1>1, <3>1, <3>2, <3>3, JobStep
    <2>2. CASE ~Owns(w)
      BY <2>2 DEF FailStockRecalcJob, LedgerInv, LedgerTypeOK, JobInv
    <2> QED
      BY <2>1, <2>2
  <1>4. worker' \in [Workers -> WorkerType] /\ \A v \in Workers : WorkerInv(v)'
    BY RestInv DEF FailStockRecalcJob
  <1>5. reservation' = reservation \/ reservation' = [reservation EXCEPT ![o] = state]
    BY DEF FailStockRecalcJob
  <1>6. /\ state \in ReservationStates
        /\ state \in Held \cup {"incorporated_in_sml"} => state = reservation[o]
        /\ reservation[o] \in Open => state \in Open
    BY <1>2 DEF ReservationGivenUp, Held, Open, ReservationStates
  <1> HIDE DEF state
  <1> QED
    BY <1>1, <1>3, <1>4, <1>5, <1>6
    DEF FailStockRecalcJob, LedgerInv, LedgerTypeOK, IncorporatedIsCounted, Quiet

\* A step of a worker keeps the ledger's invariant, and incorporates demand
\* only with a new demand revision.
LEMMA WorkerLedger ==
  ASSUME LedgerInv, NEW w \in Workers,
         WorkerStep(w) \/ StepFails(w) \/ FailureUnrecorded(w) \/ ProcessStops(w)
  PROVE  LedgerInv' /\ Quiet
  <1> DEFINE o == worker[w].order
  <1>0. /\ job \in [Orders -> JobType] /\ \A p \in Orders : JobInv(p)
        /\ counted \subseteq document
        /\ worker[w].pc # "idle" => o \in Orders
    BY DEF LedgerInv, LedgerTypeOK, WorkerInv
  <1>1. CASE StockRecalcDemand(w)
    BY <1>0, <1>1, GotoLedger DEF StockRecalcDemand, At, JobInv
  <1>2. CASE ProcessStockRequest(w)
    BY <1>0, <1>2, GotoLedger DEF ProcessStockRequest, At, JobInv
  <1>3. CASE MarkStockRecalcProcessed(w)
    <2>1. [job EXCEPT ![o].processed = TRUE] \in [Orders -> JobType]
      <3>1. [job[o] EXCEPT !.processed = TRUE] \in JobType
        BY <1>0, <1>3 DEF MarkStockRecalcProcessed, At, JobType
      <3> QED
        BY <1>0, <3>1
    <2>2. job' \in [Orders -> JobType] /\ \A p \in Orders : JobInv(p)'
      BY <1>0, <1>3, <2>1 DEF MarkStockRecalcProcessed, JobInv, JobType
    <2> QED
      BY <1>0, <1>3, <2>2, GotoLedger DEF MarkStockRecalcProcessed, At
  <1>4. CASE VerifyDemandEvidence(w)
    BY <1>0, <1>4, GotoLedger DEF VerifyDemandEvidence, At, HasEvidence, JobInv
  <1>5. CASE InsertEvidence(w)
    BY <1>0, <1>5, GotoLedger DEF InsertEvidence, At, LedgerInv, WorkerInv, JobInv
  <1>6. CASE StepFails(w)
    BY <1>0, <1>6, GotoLedger DEF StepFails, JobInv
  <1>7. CASE ProcessStops(w)
    BY <1>0, <1>7, GotoLedger DEF ProcessStops, JobInv
  <1>8. CASE FailureUnrecorded(w)
    BY <1>0, <1>8, RestInv
    DEF FailureUnrecorded, LedgerInv, LedgerTypeOK, IncorporatedIsCounted, JobInv, Quiet
  <1> QED
    BY <1>1, <1>2, <1>3, <1>4, <1>5, <1>6, <1>7, <1>8, ClaimLedger, CompleteLedger, FailLedger
    DEF WorkerStep

-----------------------------------------------------------------------------
(* The runs.  As long as the demand revision is still that of its start, a *)
(* run that has read the demand has all of it and nothing that is settled, *)
(* and a run that has read the balance has all that is incorporated: what  *)
(* was incorporated before its start was counted before its start.         *)

RunInv(r) ==
  run[r].revision = revision =>
    /\ run[r].pc \in {"demanded", "planned", "writing", "unsure"} =>
         /\ \A o \in Orders : reservation[o] \in Held => o \in run[r].view.demand
         /\ \A o \in run[r].view.demand : reservation[o] \in Open
    /\ run[r].pc \in {"planned", "writing", "unsure"} =>
         \A o \in Orders : reservation[o] = "incorporated_in_sml" => o \in run[r].view.balance

(* A run about to pass its gate has a write left.                          *)
WritesInv(r) == run[r].pc \notin {"writing", "unsure"} => run[r].writes < MaxWrites

Inv ==
  /\ TypeOK
  /\ LedgerInv
  /\ \A r \in Runs : run[r].revision <= revision
  /\ \A r \in Runs : RunInv(r) /\ WritesInv(r)

\* The initial state satisfies the invariant.
LEMMA InitInv == Init => Inv
  <1> SUFFICES ASSUME Init PROVE Inv
    OBVIOUS
  <1>1. TypeOK
    BY InitType
  <1>2. LedgerInv
    BY <1>1, LedgerAssumption
    DEF Init, LedgerInit, LedgerInv, TypeOK, IncorporatedIsCounted, JobInv, NoJob, WorkerInv, IdleWorker
  <1>3. \A r \in Runs : run[r].revision <= revision /\ RunInv(r) /\ WritesInv(r)
    BY SyncAssumption DEF Init, LedgerInit, IdleRun, RunInv, WritesInv
  <1> QED
    BY <1>1, <1>2, <1>3 DEF Inv

\* A step of the ledger keeps what the runs have read valid, or overtakes it.
LEMMA LedgerNextInv ==
  ASSUME Inv, LedgerNext, UNCHANGED syncVars
  PROVE  Inv'
  <1>1. LedgerInv' /\ Quiet
    BY OrderLedger, WorkerLedger DEF LedgerNext, Inv
  <1>2. TypeOK'
    BY <1>1 DEF Inv, TypeOK, LedgerInv, syncVars
  <1>3. ASSUME NEW r \in Runs PROVE run'[r].revision <= revision' /\ RunInv(r)' /\ WritesInv(r)'
    <2>1. run' = run /\ run[r] \in RunType /\ run[r].revision <= revision /\ RunInv(r)
      BY DEF Inv, TypeOK, syncVars
    <2>2. run[r].revision \in Nat /\ revision \in Nat /\ revision' \in Nat
      BY <1>1, <2>1 DEF RunType, Inv, LedgerInv, LedgerTypeOK
    <2>3. run[r].view.demand \subseteq Orders
      BY <2>1 DEF RunType, View
    <2>4. revision' >= revision
      BY <1>1 DEF Quiet
    <2>5. run[r].revision <= revision'
      BY <2>1, <2>2, <2>4
    <2>6. ASSUME run[r].revision = revision' PROVE revision' = revision /\ run[r].revision = revision
      BY <2>1, <2>2, <2>4, <2>6
    <2>7. RunInv(r)'
      BY <1>1, <2>1, <2>3, <2>6 DEF RunInv, Quiet
    <2>8. WritesInv(r)'
      BY <2>1 DEF Inv, WritesInv
    <2> QED
      BY <2>1, <2>5, <2>7, <2>8
  <1> QED
    BY <1>1, <1>2, <1>3 DEF Inv

\* Replacing one run by a well-typed one that satisfies its part of the
\* invariant keeps the invariant of all runs.
LEMMA OneRun ==
  ASSUME Inv, NEW r \in Runs, NEW new \in RunType, run' = [run EXCEPT ![r] = new],
         UNCHANGED ledgerVars, new.revision <= revision, RunInv(r)', WritesInv(r)'
  PROVE  /\ run' \in [Runs -> RunType]
         /\ \A s \in Runs : run'[s].revision <= revision' /\ RunInv(s)' /\ WritesInv(s)'
  BY DEF Inv, TypeOK, LedgerTypeOK, RunInv, WritesInv, ledgerVars

\* A run that is closed or dead satisfies its part of the invariant.
LEMMA ClosedRun ==
  ASSUME Inv, NEW r \in Runs, NEW pc \in {"closing", "done"},
         run' = [run EXCEPT ![r] = [IdleRun EXCEPT !.pc = pc]],
         UNCHANGED ledgerVars
  PROVE  /\ run' \in [Runs -> RunType]
         /\ \A s \in Runs : run'[s].revision <= revision' /\ RunInv(s)' /\ WritesInv(s)'
  <1>1. revision \in Nat /\ run \in [Runs -> RunType]
    BY DEF Inv, TypeOK, LedgerTypeOK
  <1>2. Nothing \in View
    BY DEF Nothing, View
  <1>3. [IdleRun EXCEPT !.pc = pc] \in RunType
    <2>1. IdleRun \in RunType
      BY <1>2, SyncAssumption DEF IdleRun, RunType
    <2> QED
      BY <2>1 DEF RunType
  <1>4. run'[r] = [IdleRun EXCEPT !.pc = pc] /\ run'[r].pc = pc /\ run'[r].writes = 0
        /\ [IdleRun EXCEPT !.pc = pc].revision = 0
    BY <1>1 DEF IdleRun
  <1>5. RunInv(r)' /\ WritesInv(r)'
    BY <1>4, SyncAssumption DEF RunInv, WritesInv
  <1>6. [IdleRun EXCEPT !.pc = pc].revision <= revision
    BY <1>1, <1>4
  <1> QED
    BY <1>3, <1>5, <1>6, OneRun

\* A step of a run keeps the invariant.
LEMMA RunStepInv ==
  ASSUME Inv, NEW r \in Runs, RunStep(r)
  PROVE  Inv'
  <1>1. UNCHANGED ledgerVars
    BY DEF RunStep, AcquireFencedLease, CreateSyncRun, CheckBlockedReservations,
           PendingReservationBaseDemand, BalancesBatch, RenewAndValidateLiveWrite, UpdateStock,
           ReadBack, StopEarly, ReleaseLease, LeaseExpires, RunLeaseExpires, RunDies
  <1>2. LedgerInv'
    BY <1>1 DEF Inv, ledgerVars, LedgerInv, LedgerTypeOK, IncorporatedIsCounted, JobInv, WorkerInv
  <1>3. /\ run \in [Runs -> RunType] /\ run[r] \in RunType /\ listing \in View
        /\ lease \in [owner : Runs \cup {NoRun}, live : BOOLEAN]
        /\ revision \in Nat /\ counted \subseteq Orders
        /\ run[r].revision <= revision /\ RunInv(r) /\ WritesInv(r)
        /\ UNCHANGED <<reservation, revision, counted>>
    BY <1>1 DEF Inv, TypeOK, LedgerTypeOK, ledgerVars
  <1> DEFINE Lease == lease' \in [owner : Runs \cup {NoRun}, live : BOOLEAN]
             AllRuns == /\ run' \in [Runs -> RunType]
                        /\ \A s \in Runs : run'[s].revision <= revision' /\ RunInv(s)' /\ WritesInv(s)'
  <1>4. SUFFICES Lease /\ AllRuns /\ listing' \in View
    BY <1>2 DEF Inv, TypeOK, LedgerInv
  <1>5. ASSUME run' = [run EXCEPT ![r] = Closed(r)]
        PROVE  AllRuns
    BY <1>1, <1>5, ClosedRun DEF Closed
  <1>6. CASE AcquireFencedLease(r)
    <2> DEFINE new == [run[r] EXCEPT !.pc = "leased"]
    <2>1. new \in RunType /\ new.revision <= revision
      BY <1>3 DEF RunType
    <2>2. run' = [run EXCEPT ![r] = new] /\ RunInv(r)' /\ WritesInv(r)'
      BY <1>3, <1>6 DEF AcquireFencedLease, RunInv, WritesInv, RunType
    <2> HIDE DEF new
    <2>3. AllRuns
      BY <1>1, <2>1, <2>2, OneRun
    <2> QED
      BY <1>3, <1>6, <2>3 DEF AcquireFencedLease
  <1>7. CASE CreateSyncRun(r)
    <2> DEFINE new == [run[r] EXCEPT !.pc = "started", !.revision = revision, !.live = TRUE]
    <2>0. revision \in Nat /\ revision <= revision
      BY <1>3
    <2>1. new \in RunType /\ new.revision <= revision
      <3>1. new \in RunType
        BY <1>3 DEF RunType
      <3>2. new.revision = revision
        BY <1>3 DEF RunType
      <3> QED
        BY <2>0, <3>1, <3>2
    <2>2. run' = [run EXCEPT ![r] = new] /\ RunInv(r)' /\ WritesInv(r)'
      BY <1>3, <1>7 DEF CreateSyncRun, RunInv, WritesInv, RunType
    <2> HIDE DEF new
    <2>3. AllRuns
      BY <1>1, <2>1, <2>2, OneRun
    <2> QED
      BY <1>3, <1>7, <2>3 DEF CreateSyncRun
  <1>8. CASE CheckBlockedReservations(r)
    <2> DEFINE new == [run[r] EXCEPT !.pc = "unblocked"]
    <2>1. CASE run' = [run EXCEPT ![r] = Closed(r)]
      BY <1>3, <1>5, <1>8, <2>1 DEF CheckBlockedReservations
    <2>2. CASE run' = [run EXCEPT ![r] = new]
      <3>1. new \in RunType /\ new.revision <= revision
        BY <1>3 DEF RunType
      <3>2. RunInv(r)' /\ WritesInv(r)'
        BY <1>3, <1>8, <2>2 DEF CheckBlockedReservations, RunInv, WritesInv, RunType
      <3> HIDE DEF new
      <3>3. AllRuns
        BY <1>1, <2>2, <3>1, <3>2, OneRun
      <3> QED
        BY <1>3, <1>8, <3>3 DEF CheckBlockedReservations
    <2> QED
      BY <1>3, <1>8, <2>1, <2>2 DEF CheckBlockedReservations
  <1>9. CASE PendingReservationBaseDemand(r)
    <2> DEFINE new == [run[r] EXCEPT !.pc = "demanded",
                                   !.view.demand = {o \in Orders : reservation[o] \in Held}]
    <2>1. new \in RunType /\ new.revision <= revision
      BY <1>3 DEF RunType, View
    <2>2. run' = [run EXCEPT ![r] = new] /\ RunInv(r)' /\ WritesInv(r)'
      BY <1>3, <1>9 DEF PendingReservationBaseDemand, RunInv, WritesInv, RunType, Open, View
    <2> HIDE DEF new
    <2>3. AllRuns
      BY <1>1, <2>1, <2>2, OneRun
    <2> QED
      BY <1>3, <1>9, <2>3 DEF PendingReservationBaseDemand
  <1>10. CASE BalancesBatch(r)
    <2> DEFINE new == [run[r] EXCEPT !.pc = "planned", !.view.balance = counted]
    <2>1. new \in RunType /\ new.revision <= revision
      BY <1>3 DEF RunType, View
    <2>2. run' = [run EXCEPT ![r] = new] /\ RunInv(r)' /\ WritesInv(r)'
      BY <1>2, <1>3, <1>10 DEF BalancesBatch, LedgerInv, IncorporatedIsCounted, RunInv, WritesInv, RunType, View
    <2> HIDE DEF new
    <2>3. AllRuns
      BY <1>1, <2>1, <2>2, OneRun
    <2> QED
      BY <1>3, <1>10, <2>3 DEF BalancesBatch
  <1>11. CASE RenewAndValidateLiveWrite(r)
    <2> DEFINE new == [run[r] EXCEPT !.pc = "writing", !.writes = run[r].writes + 1]
    <2>0. run[r].pc = "planned" /\ run[r].writes < MaxWrites
      BY <1>3, <1>11 DEF RenewAndValidateLiveWrite, WritesInv
    <2>1. CASE run' = [run EXCEPT ![r] = Closed(r)]
      BY <1>3, <1>5, <1>11, <2>1 DEF RenewAndValidateLiveWrite
    <2>2. CASE run' = [run EXCEPT ![r] = new]
      <3>0. run[r].writes + 1 \in 0..MaxWrites
        BY <1>3, <2>0, SyncAssumption DEF RunType
      <3>1. new \in RunType /\ new.revision = run[r].revision
        BY <1>3, <3>0 DEF RunType
      <3>2. RunInv(r)' /\ WritesInv(r)'
        BY <1>3, <2>0, <2>2, SyncAssumption DEF RunInv, WritesInv, RunType
      <3> HIDE DEF new
      <3>3. AllRuns
        BY <1>1, <1>3, <2>2, <3>1, <3>2, OneRun
      <3> QED
        BY <1>3, <1>11, <3>3 DEF RenewAndValidateLiveWrite
    <2> QED
      BY <1>3, <1>11, <2>1, <2>2 DEF RenewAndValidateLiveWrite
  <1>12. CASE UpdateStock(r)
    <2> DEFINE new == [run[r] EXCEPT !.pc = "unsure"]
    <2>1. Lease /\ listing' \in View
      BY <1>3, <1>12 DEF UpdateStock, RunType
    <2>2. CASE run' = [run EXCEPT ![r] = Closed(r)]
      BY <1>5, <2>1, <2>2
    <2>3. CASE run' = [run EXCEPT ![r] = new]
      <3>1. new \in RunType /\ new.revision <= revision
        BY <1>3 DEF RunType
      <3>2. RunInv(r)' /\ WritesInv(r)'
        BY <1>3, <1>12, <2>3 DEF UpdateStock, RunInv, WritesInv, RunType
      <3> HIDE DEF new
      <3> QED
        BY <1>1, <2>1, <2>3, <3>1, <3>2, OneRun
    <2> QED
      BY <1>12, <2>2, <2>3 DEF UpdateStock
  <1>13. CASE ReadBack(r)
    <2> DEFINE new == [run[r] EXCEPT !.pc = "planned"]
    <2>1. Lease /\ listing' \in View
      BY <1>3, <1>13 DEF ReadBack
    <2>2. CASE run' = [run EXCEPT ![r] = Closed(r)]
      BY <1>5, <2>1, <2>2
    <2>3. CASE run' = [run EXCEPT ![r] = new] /\ run[r].writes < MaxWrites
      <3>1. new \in RunType /\ new.revision <= revision
        BY <1>3 DEF RunType
      <3>2. RunInv(r)' /\ WritesInv(r)'
        BY <1>3, <1>13, <2>3 DEF ReadBack, RunInv, WritesInv, RunType
      <3> HIDE DEF new
      <3> QED
        BY <1>1, <2>1, <2>3, <3>1, <3>2, OneRun
    <2> QED
      BY <1>13, <2>2, <2>3 DEF ReadBack, AfterReadBack
  <1>14. CASE StopEarly(r)
    BY <1>3, <1>5, <1>14 DEF StopEarly
  <1>15. CASE ReleaseLease(r)
    <2> DEFINE new == [run[r] EXCEPT !.pc = "done"]
    <2>1. new \in RunType /\ new.revision <= revision
      BY <1>3 DEF RunType
    <2>2. run' = [run EXCEPT ![r] = new] /\ RunInv(r)' /\ WritesInv(r)'
      BY <1>3, <1>15 DEF ReleaseLease, RunInv, WritesInv, RunType
    <2> HIDE DEF new
    <2>3. AllRuns
      BY <1>1, <2>1, <2>2, OneRun
    <2> QED
      BY <1>3, <1>15, <2>3 DEF ReleaseLease, NoLease
  <1>16. CASE LeaseExpires(r)
    <2>1. AllRuns
      BY <1>1, <1>3, <1>16 DEF LeaseExpires, Inv, RunInv, WritesInv
    <2> QED
      BY <1>3, <1>16, <2>1 DEF LeaseExpires
  <1>17. CASE RunLeaseExpires(r)
    <2> DEFINE new == [run[r] EXCEPT !.live = FALSE]
    <2>1. new \in RunType /\ new.revision <= revision
      BY <1>3 DEF RunType
    <2>2. run' = [run EXCEPT ![r] = new] /\ RunInv(r)' /\ WritesInv(r)'
      BY <1>3, <1>17 DEF RunLeaseExpires, RunInv, WritesInv, RunType
    <2> HIDE DEF new
    <2>3. AllRuns
      BY <1>1, <2>1, <2>2, OneRun
    <2> QED
      BY <1>3, <1>17, <2>3 DEF RunLeaseExpires
  <1>18. CASE RunDies(r)
    BY <1>1, <1>3, <1>18, ClosedRun DEF RunDies
  <1> QED
    BY <1>6, <1>7, <1>8, <1>9, <1>10, <1>11, <1>12, <1>13, <1>14, <1>15, <1>16, <1>17, <1>18
    DEF RunStep

\* Every step keeps the invariant.
LEMMA InvNext == Inv /\ [Next]_vars => Inv'
  <1> SUFFICES ASSUME Inv, [Next]_vars PROVE Inv'
    OBVIOUS
  <1>1. CASE LedgerNext /\ UNCHANGED syncVars
    BY <1>1, LedgerNextInv
  <1>2. ASSUME NEW r \in Runs, RunStep(r) PROVE Inv'
    BY <1>2, RunStepInv
  <1>3. CASE UNCHANGED vars
    BY <1>3 DEF vars, ledgerVars, syncVars, Inv, TypeOK, LedgerInv, LedgerTypeOK, IncorporatedIsCounted,
                JobInv, WorkerInv, RunInv, WritesInv
  <1> QED
    BY <1>1, <1>2, <1>3 DEF Next

\* The invariant holds in every state.
LEMMA Invariance == Spec => []Inv
  BY InitInv, InvNext, PTL DEF Spec

\* The gate opens only for a run whose demand revision is the current one.
LEMMA Gate ==
  ASSUME Inv, [Next]_vars, NEW r \in Runs, run[r].pc # "writing", run'[r].pc = "writing"
  PROVE  run[r].pc = "planned" /\ run[r].revision = revision /\ run'[r].view = run[r].view
  <1>1. run \in [Runs -> RunType]
    BY DEF Inv, TypeOK
  <1>2. ~UNCHANGED run
    OBVIOUS
  <1>3. PICK s \in Runs : RunStep(s)
    BY <1>2 DEF Next, syncVars, vars
  <1>4. s = r
    BY <1>1, <1>3
    DEF RunStep, AcquireFencedLease, CreateSyncRun, CheckBlockedReservations,
        PendingReservationBaseDemand, BalancesBatch, RenewAndValidateLiveWrite, UpdateStock,
        ReadBack, StopEarly, ReleaseLease, LeaseExpires, RunLeaseExpires, RunDies
  <1>5. run[r] \in RunType /\ Closed(r).pc = "closing" /\ IdleRun.pc = "idle"
    BY <1>1 DEF Closed, IdleRun
  <1>6. AfterReadBack(r).pc # "writing"
    BY <1>5 DEF AfterReadBack, RunType
  <1>7. ~(AcquireFencedLease(r) \/ CreateSyncRun(r) \/ PendingReservationBaseDemand(r)
          \/ BalancesBatch(r) \/ ReleaseLease(r))
    BY <1>1, <1>5
    DEF AcquireFencedLease, CreateSyncRun, PendingReservationBaseDemand, BalancesBatch,
        ReleaseLease, RunType
  <1>8. ~(CheckBlockedReservations(r) \/ UpdateStock(r) \/ StopEarly(r))
    BY <1>1, <1>5 DEF CheckBlockedReservations, UpdateStock, StopEarly, RunType
  <1>9. ~ReadBack(r)
    BY <1>1, <1>5, <1>6 DEF ReadBack, RunType
  <1>10. ~(LeaseExpires(r) \/ RunLeaseExpires(r))
    BY <1>1, <1>5 DEF LeaseExpires, RunLeaseExpires, RunType
  <1>11. ~RunDies(r)
    BY <1>1 DEF RunDies, IdleRun
  <1>12. RenewAndValidateLiveWrite(r)
    BY <1>3, <1>4, <1>7, <1>8, <1>9, <1>10, <1>11 DEF RunStep
  <1>13. MayWrite(r)
    BY <1>1, <1>5, <1>12 DEF RenewAndValidateLiveWrite
  <1> QED
    BY <1>1, <1>5, <1>12, <1>13 DEF RenewAndValidateLiveWrite, MayWrite, RunType

\* The variables of the stock component keep their types.
THEOREM TypeCorrect == Spec => []TypeOK
  BY Invariance, PTL DEF Inv

\* No demand leaves the ledger as incorporated before the balance of SML
\* accounts for it, however the recalculation's steps fail.
THEOREM IncorporatedWhenCounted == Spec => []IncorporatedIsCounted
  <1>1. Inv => IncorporatedIsCounted
    BY DEF Inv, LedgerInv
  <1> QED
    BY <1>1, Invariance, PTL

\* No write passes the gate that would sell what a known order has taken.
THEOREM KnownDemandLeftOut == Spec => WritesLeaveOutKnownDemand
  <1>1. ASSUME Inv, [Next]_vars
        PROVE  \A r \in Runs, o \in Orders :
                 run[r].pc # "writing" /\ run'[r].pc = "writing" /\ reservation[o] \in Known =>
                   o \in run[r].view.demand \cup run[r].view.balance
    BY <1>1, Gate DEF Inv, RunInv, Known, Held
  <1> QED
    BY <1>1, Invariance, PTL DEF Spec, WritesLeaveOutKnownDemand

\* No write passes the gate that keeps stock back for a settled order.
THEOREM OpenDemandSubtracted == Spec => WritesSubtractOpenDemand
  <1>1. ASSUME Inv, [Next]_vars
        PROVE  \A r \in Runs :
                 run[r].pc # "writing" /\ run'[r].pc = "writing" =>
                   \A o \in run[r].view.demand :
                     reservation[o] \in Held \cup {"blocked_set", "manual_reconciliation"}
    BY <1>1, Gate DEF Inv, RunInv, Open
  <1> QED
    BY <1>1, Invariance, PTL DEF Spec, WritesSubtractOpenDemand

-----------------------------------------------------------------------------
(* One writer at a time.  The gate lets only the holder of a live lease    *)
(* through, and the lease outlives the write that follows it.              *)

Writes(r) == run[r].pc \in {"writing", "unsure"}

WriterInv == \A r \in Runs : Writes(r) => lease = [owner |-> r, live |-> TRUE]

\* A step that makes no writer and keeps the lease that a writer has.
LEMMA NoNewWriter ==
  ASSUME WriterInv, \A r \in Runs : Writes(r)' => Writes(r) /\ lease' = lease
  PROVE  WriterInv'
  BY DEF WriterInv

\* A run that does not write after its step makes no writer.
LEMMA Retires ==
  ASSUME Inv, NEW r \in Runs, NEW new, run' = [run EXCEPT ![r] = new],
         new.pc \notin {"writing", "unsure"}
  PROVE  \A s \in Runs : Writes(s)' => Writes(s) /\ s # r
  BY DEF Inv, TypeOK, Writes

\* So does one that only moves to another place.
LEMMA Moves ==
  ASSUME Inv, NEW r \in Runs, NEW pc \in {"leased", "done"}, run' = [run EXCEPT ![r].pc = pc]
  PROVE  \A s \in Runs : Writes(s)' => Writes(s) /\ s # r
  BY DEF Inv, TypeOK, RunType, Writes

\* Every step of a run leaves the writer, if any, with the live lease.
LEMMA RunWriter ==
  ASSUME Inv, WriterInv, NEW r \in Runs, RunStep(r)
  PROVE  WriterInv'
  <1>0. run \in [Runs -> RunType] /\ run[r] \in RunType
    BY DEF Inv, TypeOK
  <1>1. Closed(r).pc = "closing" /\ [IdleRun EXCEPT !.pc = "done"].pc = "done"
    BY DEF Closed, IdleRun
  <1>2. ASSUME run' = [run EXCEPT ![r] = Closed(r)], lease' = lease PROVE WriterInv'
    BY <1>1, <1>2, Retires, NoNewWriter
  <1>3. ASSUME NEW new, run' = [run EXCEPT ![r] = new], new.pc \notin {"writing", "unsure"},
               lease' = lease
        PROVE  WriterInv'
    BY <1>3, Retires, NoNewWriter
  <1>4. CASE AcquireFencedLease(r)
    <2>1. \A s \in Runs : ~Writes(s)
      BY <1>4 DEF AcquireFencedLease, WriterInv
    <2>2. \A s \in Runs : ~Writes(s)'
      BY <1>4, <2>1, Moves DEF AcquireFencedLease
    <2> QED
      BY <2>2 DEF WriterInv
  <1>5. CASE RenewAndValidateLiveWrite(r)
    <2>1. CASE MayWrite(r)
      <3>1. \A s \in Runs \ {r} : run'[s] = run[s]
        BY <1>0, <1>5 DEF RenewAndValidateLiveWrite
      <3>2. lease' = lease /\ lease = [owner |-> r, live |-> TRUE]
        BY <1>5, <2>1 DEF RenewAndValidateLiveWrite, MayWrite
      <3> QED
        BY <3>1, <3>2 DEF WriterInv, Writes
    <2>2. CASE ~MayWrite(r)
      BY <1>2, <1>5, <2>2 DEF RenewAndValidateLiveWrite
    <2> QED
      BY <2>1, <2>2
  <1>6. CASE UpdateStock(r)
    <2>1. CASE run' = [run EXCEPT ![r] = Closed(r)]
      BY <1>2, <1>6, <2>1 DEF UpdateStock
    <2>2. CASE run' = [run EXCEPT ![r].pc = "unsure"]
      <3>1. lease' = lease /\ Writes(r) /\ \A s \in Runs \ {r} : run'[s] = run[s]
        BY <1>0, <1>6, <2>2 DEF UpdateStock, Writes
      <3> QED
        BY <3>1 DEF WriterInv, Writes
    <2> QED
      BY <1>6, <2>1, <2>2 DEF UpdateStock
  <1>7. CASE ReadBack(r)
    <2>1. AfterReadBack(r).pc \in {"planned", "closing"}
      BY <1>0, <1>1 DEF AfterReadBack, RunType
    <2> QED
      BY <1>2, <1>3, <1>7, <2>1 DEF ReadBack
  <1>8. CASE ReleaseLease(r)
    <2>1. \A s \in Runs : Writes(s)' => Writes(s) /\ s # r
      BY <1>8, Moves DEF ReleaseLease
    <2>2. ASSUME NEW s \in Runs, Writes(s), s # r PROVE lease' = lease
      <3>1. lease.owner = s
        BY <2>2 DEF WriterInv
      <3> QED
        BY <1>8, <2>2, <3>1 DEF ReleaseLease
    <2> QED
      BY <2>1, <2>2, NoNewWriter
  <1>9. CASE LeaseExpires(r)
    <2>1. run' = run /\ ~Writes(r) /\ lease.owner = r
      BY <1>9 DEF LeaseExpires, Writes
    <2>2. \A s \in Runs : ~Writes(s)
      BY <2>1 DEF WriterInv
    <2> QED
      BY <2>1, <2>2 DEF WriterInv, Writes
  <1>10. CASE RunLeaseExpires(r)
    <2>1. lease' = lease /\ \A s \in Runs : run'[s].pc = run[s].pc
      BY <1>0, <1>10 DEF RunLeaseExpires, RunType
    <2> QED
      BY <2>1, NoNewWriter DEF Writes
  <1>11. CASE RunDies(r)
    BY <1>1, <1>3, <1>11 DEF RunDies
  <1>12. CASE StopEarly(r)
    BY <1>2, <1>12 DEF StopEarly
  <1>13. CASE CreateSyncRun(r) \/ PendingReservationBaseDemand(r) \/ BalancesBatch(r)
    <2>1. lease' = lease /\ ~Writes(r)'
      BY <1>0, <1>13 DEF CreateSyncRun, PendingReservationBaseDemand, BalancesBatch, RunType, Writes
    <2>2. \A s \in Runs \ {r} : run'[s] = run[s]
      BY <1>0, <1>13 DEF CreateSyncRun, PendingReservationBaseDemand, BalancesBatch
    <2> QED
      BY <2>1, <2>2, NoNewWriter DEF Writes
  <1>14. CASE CheckBlockedReservations(r)
    <2>1. [run[r] EXCEPT !.pc = "unblocked"].pc = "unblocked"
      BY <1>0 DEF RunType
    <2> QED
      BY <1>2, <1>3, <1>14, <2>1 DEF CheckBlockedReservations
  <1> QED
    BY <1>4, <1>5, <1>6, <1>7, <1>8, <1>9, <1>10, <1>11, <1>12, <1>13, <1>14 DEF RunStep

\* At no time are two runs between the gate and the end of their write, for
\* any number of runs that overrun their leases, fail or die.
THEOREM OneWriter == Spec => []OneWriterPerShop
  <1>1. Init => WriterInv
    BY DEF Init, IdleRun, WriterInv, Writes
  <1>2. Inv /\ WriterInv /\ [Next]_vars => WriterInv'
    BY RunWriter DEF Next, vars, syncVars, WriterInv, Writes
  <1>3. WriterInv => OneWriterPerShop
    <2>1. ASSUME NEW r1 \in Runs, NEW r2 \in Runs,
                 [owner |-> r1, live |-> TRUE] = [owner |-> r2, live |-> TRUE]
          PROVE  r1 = r2
      BY <2>1
    <2> QED
      BY <2>1 DEF WriterInv, Writes, OneWriterPerShop
  <1> QED
    BY <1>1, <1>2, <1>3, Invariance, PTL DEF Spec

-----------------------------------------------------------------------------
(* The job of waiting demand.  Only a send queues a job, and only a send   *)
(* makes demand wait; a sent attempt is never sent again, so the job that  *)
(* FinishSMLAttempt finds is never one that has already ended.             *)

QueueInv(o) ==
  /\ job[o].status # "none" => attempt[o] = "sent"
  /\ reservation[o] = "awaiting_stock_recalc" => job[o].status \in {"queued", "running", "failed"}

Queues == \A o \in Orders : QueueInv(o)

\* A step on an order keeps the invariant of every order.
LEMMA OrderQueue ==
  ASSUME LedgerInv, \A p \in Orders : QueueInv(p), NEW o \in Orders, OrderStep(o)
  PROVE  \A p \in Orders : QueueInv(p)'
  <1> USE DEF QueueInv
  <1>0. /\ reservation \in [Orders -> ReservationStates] /\ job \in [Orders -> JobType]
        /\ attempt \in [Orders -> Outcomes \cup {"none", "sending"}]
    BY DEF LedgerInv, LedgerTypeOK
  <1>1. ASSUME NEW state \in {"active", "blocked_mapping"}, Reserve(o, state)
        PROVE  \A p \in Orders : QueueInv(p)'
    BY <1>0, <1>1 DEF Reserve, ReservedAs
  <1>2. ASSUME NEW state \in {"active", "blocked_mapping"}, ReconcileMappingReservations(o, state)
        PROVE  \A p \in Orders : QueueInv(p)'
    BY <1>0, <1>2 DEF ReconcileMappingReservations
  <1>3. CASE CancelOrder(o)
    <2>1. Cancelled(reservation[o]) # "awaiting_stock_recalc"
      BY DEF Cancelled
    <2> QED
      BY <1>0, <1>3, <2>1 DEF CancelOrder
  <1>4. CASE CreateSMLAttempt(o)
    BY <1>0, <1>4 DEF CreateSMLAttempt
  <1>5. CASE ClaimExistingSMLAttempt(o)
    BY <1>0, <1>5 DEF ClaimExistingSMLAttempt
  <1>6. CASE StoreDocument(o) \/ CountDocument(o)
    BY <1>6 DEF StoreDocument, CountDocument
  <1>7. ASSUME NEW outcome \in Outcomes, FinishSMLAttempt(o, outcome)
        PROVE  \A p \in Orders : QueueInv(p)'
    <2>1. /\ attempt[o] = "sending" /\ job[o].status = "none"
          /\ reservation[o] # "awaiting_stock_recalc"
      BY <1>7 DEF FinishSMLAttempt
    <2>2. outcome # "sent" =>
            ReservationAfter(outcome, reservation[o]) # "awaiting_stock_recalc" /\ job' = job
      BY <1>7, <2>1 DEF ReservationAfter, FinishSMLAttempt
    <2>3. outcome = "sent" => job'[o].status = "queued" /\ attempt'[o] = "sent"
      BY <1>0, <1>7, <2>1 DEF FinishSMLAttempt, JobType
    <2>4. /\ reservation'[o] = ReservationAfter(outcome, reservation[o])
          /\ \A p \in Orders \ {o} : /\ reservation'[p] = reservation[p]
                                     /\ attempt'[p] = attempt[p] /\ job'[p] = job[p]
      BY <1>0, <1>7 DEF FinishSMLAttempt
    <2>5. QueueInv(o)'
      BY <2>1, <2>2, <2>3, <2>4
    <2> QED
      BY <2>4, <2>5
  <1> QED
    BY <1>1, <1>2, <1>3, <1>4, <1>5, <1>6, <1>7 DEF OrderStep

\* A step that gives a job another status and, if that ends the job, takes its
\* demand out of the waiting.
LEMMA JobQueue ==
  ASSUME LedgerInv, \A p \in Orders : QueueInv(p), NEW o \in Orders, job[o].status # "none",
         \A p \in Orders \ {o} : job'[p] = job[p] /\ reservation'[p] = reservation[p],
         UNCHANGED attempt,
         reservation'[o] = "awaiting_stock_recalc" => job'[o].status \in {"queued", "running", "failed"}
  PROVE  \A p \in Orders : QueueInv(p)'
  BY DEF QueueInv

\* A step of a worker keeps the invariant too: a job that ends takes its
\* demand with it.
LEMMA WorkerQueue ==
  ASSUME LedgerInv, \A p \in Orders : QueueInv(p), NEW w \in Workers,
         WorkerStep(w) \/ StepFails(w) \/ FailureUnrecorded(w) \/ ProcessStops(w)
  PROVE  \A p \in Orders : QueueInv(p)'
  <1> DEFINE o == worker[w].order
  <1>0. /\ reservation \in [Orders -> ReservationStates] /\ job \in [Orders -> JobType]
        /\ worker[w].pc # "idle" => o \in Orders
    BY DEF LedgerInv, LedgerTypeOK, WorkerInv
  <1>1. ASSUME UNCHANGED <<reservation, attempt, job>> PROVE \A p \in Orders : QueueInv(p)'
    BY <1>1 DEF QueueInv
  <1>2. ASSUME NEW p \in Orders, ClaimStockRecalcJob(w, p) PROVE \A q \in Orders : QueueInv(q)'
    <2>1. job[p].status # "none" /\ job'[p].status = "running"
      BY <1>0, <1>2 DEF ClaimStockRecalcJob, Claimable, JobType
    <2>2. /\ UNCHANGED <<reservation, attempt>>
          /\ \A q \in Orders \ {p} : job'[q] = job[q]
      BY <1>0, <1>2 DEF ClaimStockRecalcJob
    <2> QED
      BY <2>1, <2>2, JobQueue
  <1>3. CASE MarkStockRecalcProcessed(w) /\ Owns(w)
    <2>1. o \in Orders /\ job[o].status = "running" /\ job'[o].status = "running"
      BY <1>0, <1>3 DEF MarkStockRecalcProcessed, At, Owns, JobType
    <2>2. /\ UNCHANGED <<reservation, attempt>>
          /\ \A q \in Orders \ {o} : job'[q] = job[q]
      BY <1>0, <1>3 DEF MarkStockRecalcProcessed
    <2> QED
      BY <2>1, <2>2, JobQueue
  <1>4. CASE CompleteStockRecalcJob(w)
    <2>1. o \in Orders /\ job[o].status = "running" /\ attempt' = attempt
      BY <1>0, <1>4 DEF CompleteStockRecalcJob, At, Owns
    <2>2. reservation'[o] # "awaiting_stock_recalc"
      BY <1>0, <1>4, <2>1 DEF CompleteStockRecalcJob
    <2>3. \A q \in Orders \ {o} : job'[q] = job[q] /\ reservation'[q] = reservation[q]
      BY <1>0, <1>4 DEF CompleteStockRecalcJob
    <2> QED
      BY <2>1, <2>2, <2>3, JobQueue
  <1>5. CASE FailStockRecalcJob(w) /\ Owns(w)
    <2> DEFINE status == StatusAfterFailure(job[o].attempts)
    <2>1. o \in Orders /\ job[o].status = "running" /\ attempt' = attempt
      BY <1>0, <1>5 DEF FailStockRecalcJob, At, Owns
    <2>2. /\ job'[o].status = status
          /\ reservation'[o] = ReservationGivenUp(status, reservation[o])
      <3>1. /\ job' = [job EXCEPT ![o] = [@ EXCEPT !.status = status, !.owner = NoWorker]]
            /\ reservation' = [reservation EXCEPT ![o] = ReservationGivenUp(status, @)]
        BY <1>5 DEF FailStockRecalcJob
      <3> HIDE DEF status
      <3> QED
        BY <1>0, <2>1, <3>1 DEF JobType
    <2>3. status \in {"failed", "manual_reconciliation"}
      BY DEF StatusAfterFailure
    <2>4. status = "manual_reconciliation" =>
            ReservationGivenUp(status, reservation[o]) # "awaiting_stock_recalc"
      BY DEF ReservationGivenUp
    <2>5. \A q \in Orders \ {o} : job'[q] = job[q] /\ reservation'[q] = reservation[q]
      BY <1>0, <1>5 DEF FailStockRecalcJob
    <2> HIDE DEF status
    <2> QED
      BY <2>1, <2>2, <2>3, <2>4, <2>5, JobQueue
  <1> QED
    BY <1>1, <1>2, <1>3, <1>4, <1>5
    DEF WorkerStep, StockRecalcDemand, ProcessStockRequest, MarkStockRecalcProcessed,
        VerifyDemandEvidence, InsertEvidence, FailStockRecalcJob, StepFails, FailureUnrecorded,
        ProcessStops

\* Both invariants of the ledger hold for the ledger alone ...
LEMMA LedgerInvariance == LedgerSpec => [](LedgerInv /\ Queues)
  <1>1. LedgerInit => LedgerInv /\ Queues
    BY LedgerAssumption
    DEF LedgerInit, LedgerInv, LedgerTypeOK, ReservationStates, NoJob, JobType, IdleWorker,
        WorkerType, Outcomes, IncorporatedIsCounted, JobInv, WorkerInv, Queues, QueueInv
  <1>2. ASSUME LedgerInv, Queues, [LedgerNext]_ledgerVars
        PROVE  LedgerInv' /\ Queues'
    <2>1. CASE LedgerNext
      BY <1>2, <2>1, OrderLedger, WorkerLedger, OrderQueue, WorkerQueue DEF LedgerNext, Queues
    <2>2. CASE UNCHANGED ledgerVars
      BY <1>2, <2>2 DEF ledgerVars, LedgerInv, LedgerTypeOK, IncorporatedIsCounted, JobInv,
                        WorkerInv, Queues, QueueInv
    <2> QED
      BY <1>2, <2>1, <2>2
  <1> QED
    BY <1>1, <1>2, PTL DEF LedgerSpec

\* ... and so they do while runs publish: their steps leave the ledger alone.
LEMMA RunsLeaveLedger == Spec => LedgerSpec
  <1>1. Init => LedgerInit
    BY DEF Init
  <1>2. [Next]_vars => [LedgerNext]_ledgerVars
    BY DEF Next, RunStep, AcquireFencedLease, CreateSyncRun, CheckBlockedReservations,
           PendingReservationBaseDemand, BalancesBatch, RenewAndValidateLiveWrite, UpdateStock,
           ReadBack, StopEarly, ReleaseLease, LeaseExpires, RunLeaseExpires, RunDies, vars
  <1> QED
    BY <1>1, <1>2, PTL DEF Spec, LedgerSpec

\* Demand never waits for a recalculation whose job has ended or was never
\* queued, whatever fails and whoever cancels meanwhile.
THEOREM AwaitingHasOpenJob == LedgerSpec => []AwaitingDemandHasOpenJob
  <1>1. Queues => AwaitingDemandHasOpenJob
    BY DEF Queues, QueueInv, AwaitingDemandHasOpenJob
  <1> QED
    BY <1>1, LedgerInvariance, PTL

\* The ledger alone incorporates only what the balance of SML accounts for.
THEOREM LedgerIncorporatesCounted == LedgerSpec => []IncorporatedIsCounted
  <1>1. LedgerInv => IncorporatedIsCounted
    BY DEF LedgerInv
  <1> QED
    BY <1>1, LedgerInvariance, PTL

\* The same demand, while any number of runs publish the stock.
COROLLARY AwaitingHasOpenJobInSync == Spec => []AwaitingDemandHasOpenJob
  BY AwaitingHasOpenJob, RunsLeaveLedger, PTL

-----------------------------------------------------------------------------
(* The course of demand: every step of the ledger is one of DemandLife on  *)
(* one order, or one it does not see.                                      *)

Demands == [o \in Orders |-> Life(reservation[o])]
Taken == {o \in Orders : attempt[o] = "sent"}

(* How the demand of an order may move between two states of its attempt.  *)
Course(from, to, before, after) ==
  \/ /\ before = "sent" <=> after = "sent"
     /\ \/ to = from
        \/ from = "none" /\ to = "open"
        \/ from = "open" /\ to = "released"
        \/ from \in {"open", "sending", "waiting"} /\ to = "operator"
        \/ before # "sent" /\ {from, to} = {"open", "sending"}
        \/ before = "sent" /\ from = "waiting" /\ to = "counted"
  \/ /\ before # "sent" /\ after = "sent"
     /\ \/ from \in {"open", "sending"} /\ to = "waiting"
        \/ from # "sending" /\ to = from

\* A step that moves the demand of one order along its course is one of
\* DemandLife, or one it does not see.
LEMMA CourseRefines ==
  ASSUME reservation \in [Orders -> ReservationStates], attempt \in [Orders -> Outcomes \cup {"none", "sending"}],
         NEW o \in Orders, NEW state, NEW after,
         reservation' = [reservation EXCEPT ![o] = state],
         attempt' = [attempt EXCEPT ![o] = after],
         Course(Life(reservation[o]), Life(state), attempt[o], after)
  PROVE  Demand!Next \/ UNCHANGED <<Demands, Taken>>
  <1> DEFINE from == Life(reservation[o])
             to == Life(state)
  <1>1. /\ Demands' = [Demands EXCEPT ![o] = to]
        /\ Demands[o] = from
    <2>1. \A p \in Orders : reservation'[p] = IF p = o THEN state ELSE reservation[p]
      OBVIOUS
    <2>2. \A p \in Orders : Life(reservation'[p]) = IF p = o THEN to ELSE Life(reservation[p])
      BY <2>1
    <2> QED
      BY <2>2 DEF Demands
  <1>2. /\ (attempt[o] = "sent" <=> after = "sent") => Taken' = Taken
        /\ after = "sent" => Taken' = Taken \cup {o}
        /\ attempt[o] = "sent" <=> o \in Taken
    <2>1. \A p \in Orders : attempt'[p] = IF p = o THEN after ELSE attempt[p]
      OBVIOUS
    <2> QED
      BY <2>1 DEF Taken
  <1>3. to = from => Demands' = Demands
    BY <1>1 DEF Demands
  <1> HIDE DEF from, to
  <1>4. CASE attempt[o] = "sent" <=> after = "sent"
    <2>1. CASE to = from
      BY <1>2, <1>3, <1>4, <2>1
    <2>2. CASE to # from
      <3>1. \/ Demand!Reserve(o) \/ Demand!Release(o) \/ Demand!Claim(o)
            \/ Demand!GiveBack(o) \/ Demand!Count(o) \/ Demand!HandOver(o)
        <4>1. \/ from = "none" /\ to = "open"
              \/ from = "open" /\ to = "released"
              \/ from \in {"open", "sending", "waiting"} /\ to = "operator"
              \/ o \notin Taken /\ from = "open" /\ to = "sending"
              \/ o \notin Taken /\ from = "sending" /\ to = "open"
              \/ o \in Taken /\ from = "waiting" /\ to = "counted"
          BY <1>2, <1>4, <2>2 DEF Course, from, to
        <4> QED
          BY <1>1, <1>2, <1>4, <4>1
          DEF Demand!Move, Demand!Reserve, Demand!Release, Demand!Claim, Demand!GiveBack,
              Demand!Count, Demand!HandOver, Demands, Taken
      <3> QED
        BY <3>1 DEF Demand!Next
    <2> QED
      BY <2>1, <2>2
  <1>5. CASE attempt[o] # "sent" /\ after = "sent"
    <2>1. \/ from \in {"open", "sending"} /\ to = "waiting"
          \/ from # "sending" /\ to = from
      BY <1>5 DEF Course, from, to
    <2>2. Demand!Take(o)
      BY <1>1, <1>2, <1>3, <1>5, <2>1 DEF Demand!Take, Demand!Move, Demands, Taken
    <2> QED
      BY <2>2 DEF Demand!Next
  <1> QED
    BY <1>4, <1>5 DEF Course

\* A step on an order moves its demand along its course.
LEMMA OrderCourse ==
  ASSUME LedgerInv, NEW o \in Orders, OrderStep(o)
  PROVE  Demand!Next \/ UNCHANGED <<Demands, Taken>>
  <1> DEFINE Refines == Demand!Next \/ UNCHANGED <<Demands, Taken>>
  <1>0. /\ reservation \in [Orders -> ReservationStates]
        /\ attempt \in [Orders -> Outcomes \cup {"none", "sending"}]
        /\ attempt = [attempt EXCEPT ![o] = attempt[o]]
        /\ reservation = [reservation EXCEPT ![o] = reservation[o]]
    BY DEF LedgerInv, LedgerTypeOK
  <1>1. ASSUME NEW state, NEW after,
               reservation' = [reservation EXCEPT ![o] = state],
               attempt' = [attempt EXCEPT ![o] = after],
               Course(Life(reservation[o]), Life(state), attempt[o], after)
        PROVE  Refines
    BY <1>0, <1>1, CourseRefines
  <1>2. ASSUME NEW state,
               reservation' = [reservation EXCEPT ![o] = state], attempt' = attempt,
               Course(Life(reservation[o]), Life(state), attempt[o], attempt[o])
        PROVE  Refines
    BY <1>0, <1>1, <1>2
  <1>3. ASSUME NEW state \in {"active", "blocked_mapping"}, Reserve(o, state) PROVE Refines
    <2>1. PICK reserved \in ReservedAs(reservation[o], state) :
            reservation' = [reservation EXCEPT ![o] = reserved]
      BY <1>3 DEF Reserve
    <2>2. Course(Life(reservation[o]), Life(reserved), attempt[o], attempt[o])
      BY <1>0, <1>3 DEF ReservedAs, Course, Life, ReservationStates, Unclaimed
    <2> QED
      BY <1>2, <1>3, <2>1, <2>2 DEF Reserve
  <1>4. ASSUME NEW state \in {"active", "blocked_mapping"}, ReconcileMappingReservations(o, state)
        PROVE  Refines
    <2>1. Course(Life(reservation[o]), Life(state), attempt[o], attempt[o])
      BY <1>4 DEF ReconcileMappingReservations, Course, Life, Unclaimed
    <2> QED
      BY <1>2, <1>4, <2>1 DEF ReconcileMappingReservations
  <1>5. CASE CancelOrder(o)
    <2>1. Course(Life(reservation[o]), Life(Cancelled(reservation[o])), attempt[o], attempt[o])
      BY <1>0 DEF Cancelled, Course, Life, ReservationStates, Unclaimed
    <2> QED
      BY <1>2, <1>5, <2>1 DEF CancelOrder
  <1>6. CASE CreateSMLAttempt(o)
    <2> DEFINE state == IF reservation[o] = "active" THEN "sending_sml" ELSE reservation[o]
    <2>1. Course(Life(reservation[o]), Life(state), attempt[o], "sending")
      BY <1>0, <1>6 DEF CreateSMLAttempt, Course, Life, Unclaimed
    <2> QED
      BY <1>1, <1>6, <2>1 DEF CreateSMLAttempt
  <1>7. CASE ClaimExistingSMLAttempt(o)
    <2>1. Course(Life(reservation[o]), Life(reservation[o]), attempt[o], "sending")
      BY <1>7 DEF ClaimExistingSMLAttempt, Course
    <2> QED
      BY <1>0, <1>1, <1>7, <2>1 DEF ClaimExistingSMLAttempt
  <1>8. CASE StoreDocument(o) \/ CountDocument(o)
    BY <1>8 DEF StoreDocument, CountDocument, Demands, Taken
  <1>9. ASSUME NEW outcome \in Outcomes, FinishSMLAttempt(o, outcome) PROVE Refines
    <2>1. Course(Life(reservation[o]), Life(ReservationAfter(outcome, reservation[o])), attempt[o], outcome)
      BY <1>0, <1>9 DEF FinishSMLAttempt, ReservationAfter, Course, Life, ReservationStates, Unclaimed,
                        Outcomes
    <2> QED
      BY <1>1, <1>9, <2>1 DEF FinishSMLAttempt
  <1> QED
    BY <1>3, <1>4, <1>5, <1>6, <1>7, <1>8, <1>9 DEF OrderStep

\* A worker counts the demand of a document that was taken, or hands it over.
LEMMA WorkerCourse ==
  ASSUME LedgerInv, Queues, NEW w \in Workers,
         WorkerStep(w) \/ StepFails(w) \/ FailureUnrecorded(w) \/ ProcessStops(w)
  PROVE  Demand!Next \/ UNCHANGED <<Demands, Taken>>
  <1> DEFINE Refines == Demand!Next \/ UNCHANGED <<Demands, Taken>>
             o == worker[w].order
  <1>0. /\ reservation \in [Orders -> ReservationStates]
        /\ attempt \in [Orders -> Outcomes \cup {"none", "sending"}]
        /\ worker[w].pc # "idle" => o \in Orders
    BY DEF LedgerInv, LedgerTypeOK, WorkerInv
  <1>1. ASSUME reservation' = reservation, attempt' = attempt PROVE Refines
    BY <1>1 DEF Demands, Taken
  <1>2. ASSUME o \in Orders, NEW state,
               reservation' = [reservation EXCEPT ![o] = state], attempt' = attempt,
               Course(Life(reservation[o]), Life(state), attempt[o], attempt[o])
        PROVE  Refines
    <2>1. attempt' = [attempt EXCEPT ![o] = attempt[o]]
      BY <1>0, <1>2
    <2> QED
      BY <1>0, <1>2, <2>1, CourseRefines
  <1>3. CASE CompleteStockRecalcJob(w)
    <2>1. CASE reservation[o] = "awaiting_stock_recalc"
      <3>1. o \in Orders /\ attempt[o] = "sent"
        BY <1>0, <1>3, <2>1 DEF CompleteStockRecalcJob, At, Queues, QueueInv
      <3>2. Course(Life(reservation[o]), Life("incorporated_in_sml"), attempt[o], attempt[o])
        BY <2>1, <3>1 DEF Course, Life, Unclaimed
      <3> QED
        BY <1>2, <1>3, <2>1, <3>1, <3>2 DEF CompleteStockRecalcJob
    <2> QED
      BY <1>1, <1>3, <2>1 DEF CompleteStockRecalcJob
  <1>4. CASE FailStockRecalcJob(w)
    <2> DEFINE status == StatusAfterFailure(job[o].attempts)
               state == ReservationGivenUp(status, reservation[o])
    <2>1. o \in Orders
      BY <1>0, <1>4 DEF FailStockRecalcJob, At
    <2>2. Course(Life(reservation[o]), Life(state), attempt[o], attempt[o])
      BY DEF ReservationGivenUp, Course, Life, Unclaimed
    <2>3. attempt' = attempt
          /\ (reservation' = reservation \/ reservation' = [reservation EXCEPT ![o] = state])
      BY <1>4 DEF FailStockRecalcJob
    <2> HIDE DEF state
    <2> QED
      BY <1>1, <1>2, <2>1, <2>2, <2>3
  <1> QED
    BY <1>1, <1>3, <1>4
    DEF WorkerStep, ClaimStockRecalcJob, StockRecalcDemand, ProcessStockRequest,
        MarkStockRecalcProcessed, VerifyDemandEvidence, InsertEvidence, StepFails,
        FailureUnrecorded, ProcessStops

\* The ledger implements DemandLife: for any orders, failing and dying
\* workers, late outcomes and cancellations, no demand ends twice, and SML has
\* taken what is counted.
THEOREM DemandImplemented == LedgerSpec => DemandRunsItsCourse
  <1>1. LedgerInit => Demand!Init
    <2>1. Life("none") = "none"
      BY DEF Life, Unclaimed
    <2>2. LedgerInit => Demands = [o \in Orders |-> "none"] /\ Taken = {}
      BY <2>1 DEF LedgerInit, Demands, Taken
    <2> QED
      BY <2>2 DEF Demand!Init, Demands, Taken
  <1>2. LedgerInv /\ Queues /\ [LedgerNext]_ledgerVars => [Demand!Next]_<<Demands, Taken>>
    <2>1. UNCHANGED ledgerVars => UNCHANGED <<Demands, Taken>>
      BY DEF ledgerVars, Demands, Taken
    <2> QED
      BY <2>1, OrderCourse, WorkerCourse DEF LedgerNext
  <1> QED
    BY <1>1, <1>2, LedgerInvariance, PTL
       DEF LedgerSpec, DemandRunsItsCourse, Demand!Spec, Demands, Taken

\* So it does while any number of runs publish the stock.
COROLLARY DemandImplementedInSync == Spec => DemandRunsItsCourse
  BY DemandImplemented, RunsLeaveLedger, PTL
=============================================================================
