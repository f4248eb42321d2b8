--------------------------- MODULE SMLCancellation ---------------------------
(***************************************************************************)
(* The cancellation of one sales document in SML after Shopee cancelled    *)
(* its order.  An automatic job and the operators' calls work on rows of   *)
(* shopee_sml_cancellations: each row allocates one document number and    *)
(* keeps it with its payload, so that it can be sent again.  A success     *)
(* queues a recalculation of the stock, which has its own worker.          *)
(*                                                                         *)
(* A row allocates its number once: the number is named by the row.  SML   *)
(* works on a source document under a lock and stores one cancellation of  *)
(* it; another number is told which one is there.                          *)
(***************************************************************************)
EXTENDS Integers, FiniteSets, Sequences, SequencesExt

CONSTANTS
  AutoRow,       \* the row with trigger_source 'auto'
  ManualRows,    \* rows that calls may insert
  NoRow,
  Worker,        \* the goroutine of the automatic jobs
  Calls,         \* requests of operators
  MaxAttempts,   \* leases after which an automatic job fails
  MaxRecalcs,    \* claims after which a recalculation is left to an operator
  MaxStops       \* bound on the times the process stops

Rows == ManualRows \cup {AutoRow}
Actors == Calls \cup {Worker}

ASSUME CancellationAssumption ==
  /\ AutoRow \notin ManualRows /\ NoRow \notin Rows
  /\ Worker \notin Calls
  /\ MaxAttempts \in Nat \ {0} /\ MaxRecalcs \in Nat \ {0} /\ MaxStops \in Nat

VARIABLES
  row,           \* the rows
  recency,       \* rows in the order of updated_at, the newest first
  actor,         \* what the worker and the calls are doing
  recalculator,  \* what the worker of the recalculations is doing
  wire,          \* rows whose request is on its way to SML
  cancellation,  \* number of the cancellation SML has stored
  recalculated,  \* whether SML has recalculated the stock since
  up,            \* whether the process runs
  stops          \* how often it has stopped

vars == <<row, recency, actor, recalculator, wire, cancellation, recalculated, up, stops>>

Statuses == {"none", "pending", "creating", "created", "failed", "blocked", "superseded"}
Recalcs == {"", "pending", "running", "failed", "succeeded", "manual_reconciliation"}
RowType == [status : Statuses, docNo : Rows \cup {NoRow},
            attempts : 0..(MaxAttempts + MaxStops), leased : BOOLEAN, recent : BOOLEAN,
            recalc : Recalcs, recalcs : Nat, recalcLeased : BOOLEAN]
Steps == {"idle", "deciding", "resuming", "inserting", "leased", "preparing", "waiting", "created",
          "retrying", "blocking", "covering", "superseding", "failing"}
ActorType == [pc : Steps, row : Rows \cup {NoRow}]

TypeOK ==
  /\ row \in [Rows -> RowType]
  /\ recency \in Seq(Rows) /\ IsInjective(recency)
  /\ actor \in [Actors -> ActorType]
  /\ recalculator \in [pc : {"idle", "leased", "requested", "failing"}, row : Rows \cup {NoRow}]
  /\ wire \subseteq Rows
  /\ cancellation \in Rows \cup {NoRow}
  /\ recalculated \in BOOLEAN /\ up \in BOOLEAN
  /\ stops \in 0..MaxStops

NewRow ==
  [status |-> "none", docNo |-> NoRow, attempts |-> 0, leased |-> FALSE, recent |-> FALSE,
   recalc |-> "", recalcs |-> 0, recalcLeased |-> FALSE]
Idle == [pc |-> "idle", row |-> NoRow]

Init ==
  /\ row = [r \in Rows |-> NewRow]
  /\ recency = <<>>
  /\ actor = [a \in Actors |-> Idle]
  /\ recalculator = Idle
  /\ wire = {}
  /\ cancellation = NoRow
  /\ recalculated = FALSE
  /\ up = TRUE
  /\ stops = 0

-----------------------------------------------------------------------------
At(a, pc) == actor[a].pc = pc
Goto(a, pc) == actor' = [actor EXCEPT ![a].pc = pc]
Rest(a) == actor' = [actor EXCEPT ![a] = Idle]

sml == <<wire, cancellation, recalculated>>
process == <<up, stops>>

(* Every write sets updated_at.                                            *)
Write(r, value) ==
  /\ row' = [row EXCEPT ![r] = [value EXCEPT !.recent = TRUE]]
  /\ recency' = <<r>> \o SelectSeq(recency, LAMBDA s : s # r)

Succeeded == {r \in Rows : row[r].status = "created"}

(* The first of a set in the order of updated_at.                          *)
Newest(set) == SelectSeq(recency, LAMBDA s : s \in set)[1]

-----------------------------------------------------------------------------
(* The automatic job.                                                      *)

EnqueueAutoSMLCancellation ==
  /\ up /\ row[AutoRow].status = "none"
  /\ Write(AutoRow, [NewRow EXCEPT !.status = "pending"])
  /\ UNCHANGED <<actor, recalculator, sml, process>>

(* Faulty variant: the row of a call that never ended holds the job back.  *)
HeldBack_Stale == \E r \in ManualRows : row[r].status = "creating"

(* A call that works on the document holds the job back for five minutes.  *)
HeldBack == \E r \in ManualRows : row[r].status = "creating" /\ row[r].recent

(* A retry that waits for next_run_at is due some time.                    *)
LeaseAutoSMLCancellation ==
  /\ up /\ At(Worker, "idle")
  /\ row[AutoRow].status = "pending"
  /\ ~HeldBack
  /\ Write(AutoRow, [row[AutoRow] EXCEPT !.status = "creating", !.attempts = @ + 1, !.leased = TRUE])
  /\ actor' = [actor EXCEPT ![Worker] = [pc |-> "leased", row |-> AutoRow]]
  /\ UNCHANGED <<recalculator, sml, process>>

(* LatestSMLCancellation: a success, or else the newest row.               *)
Existing == IF Succeeded # {} THEN Newest(Succeeded) ELSE recency[1]

(* What processAutoSMLCancellationJob decides before it prepares a request. *)
Verdict ==
  LET other == row[Existing] IN
  CASE Succeeded # {} -> "covering"
    [] Existing # AutoRow /\ other.status = "creating" -> "retrying"
    [] Existing # AutoRow /\ other.status \in {"failed", "blocked"} /\ other.docNo # NoRow -> "blocking"
    [] OTHER -> "preparing"

(* Shopee or the tenant's services fail, or the order, the bill, a setting *)
(* or a route that has changed forbids to go on: whatever the rows say.    *)
Preflight ==
  /\ At(Worker, "leased")
  /\ \E pc \in {Verdict, "retrying", "blocking"} : Goto(Worker, pc)
  /\ UNCHANGED <<row, recency, recalculator, sml, process>>

(* Faulty variant: a success does not queue the recalculation.             *)
RecalcAfter_Left(recalc) == recalc

RecalcAfter(recalc) == IF recalc \in {"pending", "running", "succeeded"} THEN recalc ELSE "pending"

(* CompleteSMLCancellation on the success another row has had, so that its *)
(* recalculation is queued if it is not.                                   *)
CompleteExisting ==
  /\ At(Worker, "covering")
  /\ LET r == Existing IN Write(r, [row[r] EXCEPT !.recalc = RecalcAfter(@)])
  /\ Goto(Worker, "superseding")
  /\ UNCHANGED <<recalculator, sml, process>>

SupersedeAutoSMLCancellation ==
  /\ At(Worker, "superseding")
  /\ Write(AutoRow, [row[AutoRow] EXCEPT !.status = "superseded", !.leased = FALSE])
  /\ Rest(Worker)
  /\ UNCHANGED <<recalculator, sml, process>>

(* Faulty variant: a retry that is never given up.                         *)
StatusAfterRetry_Pending == "pending"

StatusAfterRetry == IF row[AutoRow].attempts >= MaxAttempts THEN "failed" ELSE "pending"

MarkAutoSMLCancellationRetry ==
  /\ At(Worker, "retrying")
  /\ Write(AutoRow, [row[AutoRow] EXCEPT !.status = StatusAfterRetry, !.leased = FALSE])
  /\ Rest(Worker)
  /\ UNCHANGED <<recalculator, sml, process>>

BlockAutoSMLCancellation ==
  /\ At(Worker, "blocking")
  /\ Write(AutoRow, [row[AutoRow] EXCEPT !.status = "blocked", !.leased = FALSE])
  /\ Rest(Worker)
  /\ UNCHANGED <<recalculator, sml, process>>

-----------------------------------------------------------------------------
(* A call of an operator.                                                  *)

(* The order, the bill, the route and the client allow it.                 *)
CancelSMLDocument(c) ==
  /\ up /\ At(c, "idle") /\ Succeeded = {}
  /\ Goto(c, "deciding")
  /\ UNCHANGED <<row, recency, recalculator, sml, process>>

(* Faulty variant: an attempt is taken up whatever has become of it.       *)
Attempted_AnyStatus == {r \in Rows : row[r].docNo # NoRow}

(* Attempts whose request may already have reached SML.                    *)
Attempted == {r \in Rows : row[r].status \in {"failed", "blocked"} /\ row[r].docNo # NoRow}

Busy == \E r \in Rows : row[r].status = "creating" /\ row[r].recent

(* StartSMLCancellationCreate reads under an advisory lock, which the      *)
(* automatic job does not take, and then writes what it decided.           *)
Locked == \E c \in Calls : actor[c].pc \in {"resuming", "inserting"}

DecideStart(c) ==
  /\ At(c, "deciding") /\ ~Locked
  /\ Succeeded = {} /\ ~Busy
  /\ \/ Attempted = {} /\ Goto(c, "inserting")
     \/ \E r \in Attempted :
          r = Newest(Attempted) /\ actor' = [actor EXCEPT ![c] = [pc |-> "resuming", row |-> r]]
  /\ UNCHANGED <<row, recency, recalculator, sml, process>>

(* "done", "running" or, for an attempt of another route, "reconciliation". *)
RefuseStart(c) ==
  /\ At(c, "deciding") /\ ~Locked
  /\ Succeeded # {} \/ Busy \/ Attempted # {}
  /\ Rest(c)
  /\ UNCHANGED <<row, recency, recalculator, sml, process>>

ResumeAttempt(c) ==
  LET r == actor[c].row IN
  /\ At(c, "resuming")
  /\ Write(r, [row[r] EXCEPT !.status = "creating", !.leased = (r = AutoRow)])
  /\ Goto(c, "preparing")
  /\ UNCHANGED <<recalculator, sml, process>>

StartAttempt(c) ==
  /\ At(c, "inserting")
  /\ \E r \in ManualRows :
       /\ row[r].status = "none"
       /\ Write(r, [NewRow EXCEPT !.status = "creating"])
       /\ actor' = [actor EXCEPT ![c] = [pc |-> "preparing", row |-> r]]
  /\ UNCHANGED <<recalculator, sml, process>>

-----------------------------------------------------------------------------
(* What the job and the calls have in common.                              *)

(* smlCancellationRequestForAttempt, for an attempt without a payload; the *)
(* write requires that the row is still being worked on.                   *)
PrepareSMLCancellationCreate(a) ==
  LET r == actor[a].row IN
  /\ At(a, "preparing") /\ row[r].docNo = NoRow
  /\ row[r].status = "creating"
  /\ Write(r, [row[r] EXCEPT !.docNo = r])
  /\ UNCHANGED <<actor, recalculator, sml, process>>

(* No number can be allocated, the attempt cannot be stored, or what was   *)
(* stored is of no use.                                                    *)
PrepareFails(a) ==
  /\ At(a, "preparing")
  /\ Goto(a, IF a = Worker THEN "blocking" ELSE "failing")
  /\ UNCHANGED <<row, recency, recalculator, sml, process>>

(* Faulty variant: the number and the payload are stored with the answer.  *)
Ready_Unstored(a) == At(a, "preparing")

(* The number and the payload are stored before the request is sent, and   *)
(* an attempt that has them is sent with them again.                       *)
Ready(a) == At(a, "preparing") /\ row[actor[a].row].docNo # NoRow

Create(a) ==
  /\ Ready(a)
  /\ wire' = wire \cup {actor[a].row}
  /\ Goto(a, "waiting")
  /\ UNCHANGED <<row, recency, recalculator, cancellation, recalculated, process>>

(* The job tells a failure that may pass from one that will not.           *)
Outcome(a, answer) ==
  CASE answer = "created" -> "created"
    [] a # Worker -> "failing"
    [] answer = "transient" -> "retrying"
    [] OTHER -> "blocking"

(* SML works on a request, and tells whoever waits for it.                 *)
SMLProcess(r) ==
  /\ r \in wire
  /\ wire' = wire \ {r}
  /\ \E answer \in {"created", "rejected", "transient"} :
       /\ cancellation' = IF answer = "created" /\ cancellation = NoRow THEN r ELSE cancellation
       /\ actor' = [a \in Actors |-> IF At(a, "waiting") /\ actor[a].row = r
                                     THEN [actor[a] EXCEPT !.pc = Outcome(a, answer)] ELSE actor[a]]
  /\ UNCHANGED <<row, recency, recalculator, recalculated, process>>

(* Without an answer the request may still be on its way, or be stored.    *)
NoAnswer(a) ==
  /\ At(a, "waiting")
  /\ Goto(a, Outcome(a, "transient"))
  /\ UNCHANGED <<row, recency, recalculator, sml, process>>

(* SML stores the document and the answer is lost.                         *)
AnswerLost(r) ==
  /\ r \in wire
  /\ wire' = wire \ {r}
  /\ cancellation' = IF cancellation = NoRow THEN r ELSE cancellation
  /\ UNCHANGED <<row, recency, actor, recalculator, recalculated, process>>

(* Faulty variant: the number of the attempt is kept, whatever SML says.   *)
DocNoAfter_Own(r) == r

(* SML's answer names the cancellation it has.                             *)
DocNoAfter(r) == cancellation

(* CompleteSMLCancellation; a second success of the sale violates the      *)
(* unique index.                                                           *)
CompleteSMLCancellation(a) ==
  LET r == actor[a].row IN
  /\ At(a, "created")
  /\ row[r].status \in {"creating", "created"} /\ Succeeded \subseteq {r}
  /\ Write(r, [row[r] EXCEPT !.status = "created", !.docNo = DocNoAfter(r), !.leased = FALSE,
                             !.recalc = RecalcAfter(@)])
  /\ Rest(a)
  /\ UNCHANGED <<recalculator, sml, process>>

(* The index or the database refuses it: a call leaves its row as it is.   *)
CompleteFails(a) ==
  /\ At(a, "created")
  /\ IF a = Worker THEN Goto(a, "retrying") ELSE Rest(a)
  /\ UNCHANGED <<row, recency, recalculator, sml, process>>

(* CompleteExisting or SupersedeAutoSMLCancellation fails.                 *)
CoverFails ==
  /\ actor[Worker].pc \in {"covering", "superseding"}
  /\ Goto(Worker, "retrying")
  /\ UNCHANGED <<row, recency, recalculator, sml, process>>

CallFails(c) ==
  LET r == actor[c].row IN
  /\ At(c, "failing")
  /\ row[r].status = "creating"
  /\ Write(r, [row[r] EXCEPT !.status = "failed", !.leased = FALSE])
  /\ Rest(c)
  /\ UNCHANGED <<recalculator, sml, process>>

(* The context of the job or of the call ends, and with it every write:    *)
(* the row stays as it is.                                                 *)
ContextEnds(a) ==
  /\ actor[a].pc # "idle"
  /\ Rest(a)
  /\ UNCHANGED <<row, recency, recalculator, sml, process>>

-----------------------------------------------------------------------------
(* The recalculation of the stock.                                         *)

LeaseStockRecalc(r) ==
  /\ up /\ recalculator.pc = "idle"
  /\ row[r].status = "created" /\ row[r].recalc \in {"pending", "failed"}
  /\ Write(r, [row[r] EXCEPT !.recalc = "running", !.recalcs = @ + 1, !.recalcLeased = TRUE])
  /\ recalculator' = [pc |-> "leased", row |-> r]
  /\ UNCHANGED <<actor, sml, process>>

(* processstockrequest, whose answer may be lost.                          *)
ProcessStockRequest ==
  /\ recalculator.pc = "leased"
  /\ \/ recalculated' = (recalculated \/ cancellation # NoRow) /\ recalculator' \in [pc : {"requested", "failing"}, row : {recalculator.row}]
     \/ UNCHANGED recalculated /\ recalculator' = [recalculator EXCEPT !.pc = "failing"]
  /\ UNCHANGED <<row, recency, actor, wire, cancellation, process>>

CompleteStockRecalc ==
  LET r == recalculator.row IN
  /\ recalculator.pc = "requested"
  /\ IF row[r].recalc = "running"
     THEN /\ Write(r, [row[r] EXCEPT !.recalc = "succeeded", !.recalcLeased = FALSE])
          /\ recalculator' = Idle
     ELSE UNCHANGED <<row, recency>> /\ recalculator' = [recalculator EXCEPT !.pc = "failing"]
  /\ UNCHANGED <<actor, sml, process>>

FailStockRecalc ==
  LET r == recalculator.row IN
  /\ recalculator.pc = "failing"
  /\ IF row[r].recalc = "running"
     THEN Write(r, [row[r] EXCEPT !.recalc = IF row[r].recalcs >= MaxRecalcs
                                             THEN "manual_reconciliation" ELSE "failed",
                                  !.recalcLeased = FALSE])
     ELSE UNCHANGED <<row, recency>>
  /\ recalculator' = Idle
  /\ UNCHANGED <<actor, sml, process>>

-----------------------------------------------------------------------------
(* Time and the process.                                                   *)

WorkedOn(r) == \E a \in Actors : actor[a].row = r

(* Two and five minutes; jobs and calls end in 75 seconds and less than 5  *)
(* minutes.                                                                *)
LeaseEnds(r) ==
  /\ row[r].leased /\ ~WorkedOn(r)
  /\ row' = [row EXCEPT ![r].leased = FALSE]
  /\ UNCHANGED <<recency, actor, recalculator, sml, process>>

RecentEnds(r) ==
  /\ row[r].recent /\ ~row[r].leased /\ ~WorkedOn(r)
  /\ row' = [row EXCEPT ![r].recent = FALSE]
  /\ UNCHANGED <<recency, actor, recalculator, sml, process>>

RecalcLeaseEnds(r) ==
  /\ row[r].recalcLeased /\ recalculator.row # r
  /\ row' = [row EXCEPT ![r].recalcLeased = FALSE]
  /\ UNCHANGED <<recency, actor, recalculator, sml, process>>

Stop ==
  /\ up /\ stops < MaxStops
  /\ up' = FALSE
  /\ stops' = stops + 1
  /\ actor' = [a \in Actors |-> Idle]
  /\ recalculator' = Idle
  /\ UNCHANGED <<row, recency, sml>>

(* RecoverStaleAutoSMLCancellations and RecoverStaleSMLCancellationStock-  *)
(* Recalcs: what the last process left, if its lease has ended.            *)
Recovered(r) ==
  [row[r] EXCEPT
     !.status = IF r = AutoRow /\ @ = "creating" /\ ~row[r].leased THEN "pending" ELSE @,
     !.recalc = IF @ = "running" /\ ~row[r].recalcLeased THEN "failed" ELSE @]

(* Recovery happens when the workers start, and only then.                 *)
StartSMLCancellationWorkers ==
  /\ ~up
  /\ up' = TRUE
  /\ row' = [r \in Rows |-> Recovered(r)]
  /\ UNCHANGED <<recency, actor, recalculator, sml, stops>>

-----------------------------------------------------------------------------
JobStep ==
  \/ LeaseAutoSMLCancellation
  \/ Preflight
  \/ CompleteExisting
  \/ SupersedeAutoSMLCancellation
  \/ MarkAutoSMLCancellationRetry
  \/ BlockAutoSMLCancellation
  \/ CoverFails

CallStep(c) ==
  \/ CancelSMLDocument(c)
  \/ DecideStart(c)
  \/ RefuseStart(c)
  \/ ResumeAttempt(c)
  \/ StartAttempt(c)
  \/ CallFails(c)

AttemptStep(a) ==
  \/ PrepareSMLCancellationCreate(a)
  \/ PrepareFails(a)
  \/ Create(a)
  \/ NoAnswer(a)
  \/ CompleteSMLCancellation(a)
  \/ CompleteFails(a)

RecalcStep ==
  \/ \E r \in Rows : LeaseStockRecalc(r)
  \/ ProcessStockRequest
  \/ CompleteStockRecalc
  \/ FailStockRecalc

Timer(r) == LeaseEnds(r) \/ RecentEnds(r) \/ RecalcLeaseEnds(r)

Next ==
  \/ EnqueueAutoSMLCancellation
  \/ JobStep
  \/ \E c \in Calls : CallStep(c)
  \/ \E a \in Actors : AttemptStep(a) \/ ContextEnds(a)
  \/ RecalcStep
  \/ \E r \in Rows : SMLProcess(r) \/ AnswerLost(r) \/ Timer(r)
  \/ Stop
  \/ StartSMLCancellationWorkers

Spec == Init /\ [][Next]_vars

(* The workers poll every few seconds and a due job has its turn, though a *)
(* call may hold it back now and then; what was started goes on until it   *)
(* ends; leases run out; a process that stopped is started again.          *)
Fairness ==
  /\ SF_vars(LeaseAutoSMLCancellation)
  /\ WF_vars(JobStep)
  /\ \A a \in Actors : WF_vars(AttemptStep(a))
  /\ \A c \in Calls : WF_vars(CallFails(c)) /\ WF_vars(DecideStart(c) \/ RefuseStart(c)) /\ WF_vars(ResumeAttempt(c) \/ StartAttempt(c))
  /\ WF_vars(RecalcStep)
  /\ \A r \in Rows : WF_vars(Timer(r))
  /\ WF_vars(StartSMLCancellationWorkers)

FairSpec == Spec /\ Fairness

-----------------------------------------------------------------------------
\* Whatever may have reached SML has its number and payload stored in a row,
\* so that the very same request can be sent again: no crash, lost answer or
\* race of the job with a call leaves SML with a number nobody knows.
RequestIsStored ==
  /\ \A r \in wire : row[r].docNo # NoRow
  /\ cancellation # NoRow => row[cancellation].docNo # NoRow

\* The sale has one successful row at most, and it names the cancellation
\* SML has, whichever attempt SML took it from.
SuccessIsInSML ==
  /\ \A r \in Succeeded : cancellation # NoRow /\ row[r].docNo = cancellation
  /\ Cardinality(Succeeded) <= 1

\* The job and the calls never work on the same attempt at a time, though
\* the lock of the calls is not taken by the job.
OneActorPerAttempt ==
  \A a, b \in Actors : a # b /\ actor[a].row # NoRow => actor[a].row # actor[b].row

\* An automatic cancellation that is due ends, whatever operators do
\* meanwhile.  A job whose context ended or whose process restarted before
\* the lease ran out is left behind: leases are recovered at a start only.
AutoCancellationSettles ==
  row[AutoRow].status = "pending" ~>
    \/ row[AutoRow].status \in {"created", "failed", "blocked", "superseded"}
    \/ row[AutoRow].status = "creating" /\ ~WorkedOn(AutoRow)

\* A cancellation is followed by a recalculation of the stock or is handed
\* to an operator, with the same exception.
SuccessIsRecalculated ==
  \A r \in Rows :
    row[r].status = "created" ~>
      \/ row[r].recalc = "succeeded" /\ recalculated
      \/ row[r].recalc = "manual_reconciliation"
      \/ row[r].recalc = "running" /\ recalculator.row # r

\* An attempt whose payload may have reached SML is replayed or left for
\* reconciliation, and no other number is allocated.  That is what the
\* comment on latestAttemptedSMLCancellationTx asks of its callers.
OneNumberPerSale ==
  Cardinality({row[r].docNo : r \in Rows} \ {NoRow}) <= 1
=============================================================================
