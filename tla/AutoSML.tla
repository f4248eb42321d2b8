------------------------------ MODULE AutoSML ------------------------------
(***************************************************************************)
(* The jobs that create and send the bills of one shop without an          *)
(* operator.  An order that reaches the shop's trigger status after the    *)
(* shop was enabled gets one job; the process leases the jobs of the shop  *)
(* one at a time and marks them by their id, while operators enable,       *)
(* disable and resume the shop, retry jobs and send orders themselves.     *)
(*                                                                         *)
(* What a send does to the bill is module SMLAttempt; here it has one of   *)
(* the outcomes the worker tells apart.                                    *)
(***************************************************************************)
EXTENDS Integers, FiniteSets

CONSTANTS
  Orders,       \* orders of the shop
  MaxAttempts,  \* transient failures after which a job has failed
  MaxFailures,  \* failed jobs in a row that pause the shop
  MaxRoutes,    \* bound on the changes of the document route
  MaxIncidents  \* bound on the operators' own sends and the stops of the process

ASSUME AutoAssumption ==
  /\ {MaxAttempts, MaxFailures} \subseteq Nat \ {0}
  /\ {MaxRoutes, MaxIncidents} \subseteq Nat

VARIABLES
  setting,  \* the shop's row of shopee_auto_sml_settings
  route,    \* signature of the document route as it is configured
  job,      \* rows of shopee_auto_sml_jobs
  worker,   \* what the goroutine of each leased job is doing
  sent,     \* orders whose bill is in SML
  other,    \* whether someone else, or a process that died, holds the order's action
  late,     \* history: sends begun since the shop was disabled or paused
  incidents \* how many sends operators have begun, and stops of the process

vars == <<setting, route, job, worker, sent, other, late, incidents>>

Waiting == {"queued", "retry_wait"}
Ended == {"cancelled", "succeeded"}
Idle == [pc |-> "idle", outcome |-> "none"]

SettingType == [enabled : BOOLEAN, paused : {"", "route_changed", "system_failures"},
                route : Nat, failures : Nat]
JobType == [status : Waiting \cup Ended \cup {"none", "running", "needs_review", "failed"},
            attempts : Nat, live : BOOLEAN, route : Nat]
WorkerType == [pc : {"idle", "leased", "checked", "prepared", "rechecked", "sending", "pausing", "marking"},
               outcome : {"none", "cancelled", "needs_review", "transient", "contention", "succeeded"}]

TypeOK ==
  /\ setting \in SettingType
  /\ route \in 0..MaxRoutes
  /\ job \in [Orders -> JobType]
  /\ worker \in [Orders -> WorkerType]
  /\ sent \subseteq Orders
  /\ other \in [Orders -> {"none", "sending", "dead"}]
  /\ late \in Nat
  /\ incidents \in 0..MaxIncidents

Init ==
  /\ setting = [enabled |-> FALSE, paused |-> "", route |-> 0, failures |-> 0]
  /\ route = 0
  /\ job = [o \in Orders |-> [status |-> "none", attempts |-> 0, live |-> FALSE, route |-> 0]]
  /\ worker = [o \in Orders |-> Idle]
  /\ sent = {}
  /\ other = [o \in Orders |-> "none"]
  /\ late = 0
  /\ incidents = 0

Open == setting.enabled /\ setting.paused = ""

At(o, pc) == worker[o].pc = pc
Goto(o, pc) == worker' = [worker EXCEPT ![o].pc = pc]
ToMark(o, outcome) == worker' = [worker EXCEPT ![o] = [pc |-> "marking", outcome |-> outcome]]
ToPause(o) == worker' = [worker EXCEPT ![o] = [pc |-> "pausing", outcome |-> "needs_review"]]

-----------------------------------------------------------------------------
(* Operators.                                                              *)

(* UpdateSetting with enabled: only if it changes something.  The cutoff it *)
(* sets keeps out the orders that reached the trigger before: they stay as *)
(* they are, without a job.                                                *)
EnableShop(newTrigger) ==
  /\ ~Open \/ setting.route # route \/ newTrigger
  /\ setting' = [enabled |-> TRUE, paused |-> "", route |-> route, failures |-> 0]
  /\ late' = 0
  /\ UNCHANGED <<route, job, worker, sent, other, incidents>>

(* Faulty variant: the job that is running is cancelled with the others.   *)
StoppedByDisable_Running(o) == job[o].status \in Waiting \cup {"running"}

StoppedByDisable(o) == job[o].status \in Waiting

(* UpdateSetting without enabled.                                          *)
DisableShop ==
  /\ setting' = [setting EXCEPT !.enabled = FALSE]
  /\ job' = [o \in Orders |-> IF StoppedByDisable(o)
                              THEN [job[o] EXCEPT !.status = "cancelled", !.live = FALSE]
                              ELSE job[o]]
  /\ UNCHANGED <<route, worker, sent, other, late, incidents>>

ChangeRoute ==
  /\ route < MaxRoutes
  /\ route' = route + 1
  /\ UNCHANGED <<setting, job, worker, sent, other, late, incidents>>

RetryJob(o) ==
  /\ Open /\ job[o].status \in {"needs_review", "failed"}
  /\ job' = [job EXCEPT ![o] = [status |-> "queued", attempts |-> 0, live |-> FALSE,
                                route |-> setting.route]]
  /\ UNCHANGED <<setting, route, worker, sent, other, late, incidents>>

(* An operator creates or sends the order's document: StartAction.         *)
StartManualSend(o) ==
  /\ incidents < MaxIncidents
  /\ o \notin sent /\ other[o] = "none" /\ ~At(o, "sending")
  /\ other' = [other EXCEPT ![o] = "sending"]
  /\ incidents' = incidents + 1
  /\ UNCHANGED <<setting, route, job, worker, sent, late>>

FinishManualSend(o) ==
  /\ other[o] = "sending"
  /\ other' = [other EXCEPT ![o] = "none"]
  /\ sent' \in {sent, sent \cup {o}}
  /\ UNCHANGED <<setting, route, job, worker, late, incidents>>

(* An action that nobody completes can be started again after five minutes. *)
ActionExpires(o) ==
  /\ other[o] = "dead"
  /\ other' = [other EXCEPT ![o] = "none"]
  /\ UNCHANGED <<setting, route, job, worker, sent, late, incidents>>

-----------------------------------------------------------------------------
(* The queue.                                                              *)

(* maybeEnqueueAutoSML and Enqueue, for an order that reached the trigger  *)
(* after the cutoff.  The setting was read before Shopee was asked for the *)
(* order; the statement compares it with the row again.                    *)
Enqueue(o) ==
  /\ Open /\ setting.route = route
  /\ job[o].status = "none"
  /\ job' = [job EXCEPT ![o] = [@ EXCEPT !.status = "queued", !.route = setting.route]]
  /\ UNCHANGED <<setting, route, worker, sent, other, late, incidents>>

Due == {o \in Orders : job[o].status \in Waiting}

(* Faulty variant: whatever became of its lease, a running job counts.     *)
Active_Running(o) == job[o].status = "running"

Active(o) == job[o].status = "running" /\ job[o].live

(* Faulty variant: any two jobs that are due, the size of the batch.       *)
Batches_Limit(due) == {batch \in SUBSET due : Cardinality(batch) \in 1..2}

(* Of each shop only the first job that is due.                            *)
Batches(due) == {{o} : o \in due}

(* processAutoSMLBatch waits for the jobs of the batch before the next.    *)
LeaseJobs(batch) ==
  /\ \A o \in Orders : At(o, "idle")
  /\ Open /\ ~\E o \in Orders : Active(o)
  /\ job' = [o \in Orders |-> IF o \in batch
                              THEN [job[o] EXCEPT !.status = "running", !.live = TRUE,
                                                  !.attempts = @ + 1]
                              ELSE job[o]]
  /\ worker' = [o \in Orders |-> IF o \in batch THEN [pc |-> "leased", outcome |-> "none"]
                                                ELSE worker[o]]
  /\ UNCHANGED <<setting, route, sent, other, late, incidents>>

(* Five minutes after the job was leased, whatever became of it.           *)
LeaseEnds(o) ==
  /\ Active(o)
  /\ job' = [job EXCEPT ![o].live = FALSE]
  /\ UNCHANGED <<setting, route, worker, sent, other, late, incidents>>

(* The process is replaced: StartAutoSMLWorker queues the running jobs     *)
(* whose lease has ended, this once.                                       *)
Restart ==
  /\ incidents < MaxIncidents
  /\ incidents' = incidents + 1
  /\ worker' = [o \in Orders |-> Idle]
  /\ job' = [o \in Orders |-> IF job[o].status = "running" /\ ~job[o].live
                              THEN [job[o] EXCEPT !.status = "queued"] ELSE job[o]]
  /\ other' = [o \in Orders |-> IF other[o] = "sending" \/ worker[o].pc \in {"checked", "sending"}
                                THEN "dead" ELSE other[o]]
  /\ UNCHANGED <<setting, route, sent, late>>

-----------------------------------------------------------------------------
(* processAutoSMLJob: what it decides, and then the mark.                  *)

unmarked == <<setting, route, job, other, incidents>>

(* The first look at the setting and the route.  A setting that cannot be  *)
(* read counts as a closed shop, such a route as a changed one.            *)
CheckSetting(o) ==
  /\ At(o, "leased")
  /\ \/ ToMark(o, "cancelled")
     \/ Open /\ ToPause(o)
     \/ Open /\ setting.route = route /\ job[o].route = route /\ Goto(o, "checked")
  /\ UNCHANGED <<unmarked, sent, late>>

(* reconcileOrder, classifyAutoSMLJobTrigger, createDocumentForOrderMode   *)
(* and the first look at the bill.  Shopee does not answer; the order is   *)
(* cancelled, or not in the status waited for; its document is being       *)
(* created by someone else; the bill is sent already, or not fit to be.    *)
PrepareBill(o) ==
  /\ At(o, "checked")
  /\ \/ \E outcome \in {"transient", "cancelled", "needs_review"} : ToMark(o, outcome)
     \/ other[o] # "none" /\ ToMark(o, "contention")
     \/ other[o] = "none" /\ o \in sent /\ ToMark(o, "succeeded")
     \/ other[o] = "none" /\ o \notin sent /\ Goto(o, "prepared")
  /\ UNCHANGED <<unmarked, sent, late>>

(* The second look, before the send.                                       *)
RecheckSetting(o) ==
  /\ At(o, "prepared")
  /\ \/ ToMark(o, "cancelled")
     \/ Open /\ ToPause(o)
     \/ Open /\ setting.route = route /\ Goto(o, "rechecked")
  /\ UNCHANGED <<unmarked, sent, late>>

(* The last look at the bill, and the start of sendBillToSML.              *)
StartSend(o) ==
  /\ At(o, "rechecked")
  /\ \/ o \in sent /\ ToMark(o, "succeeded") /\ UNCHANGED late
     \/ o \notin sent /\ other[o] # "none" /\ ToMark(o, "contention") /\ UNCHANGED late
     \/ o \notin sent /\ ToMark(o, "needs_review") /\ UNCHANGED late
     \/ ToMark(o, "transient") /\ UNCHANGED late
     \/ /\ o \notin sent /\ other[o] = "none"
        /\ Goto(o, "sending")
        /\ late' = IF Open THEN late ELSE late + 1
  /\ UNCHANGED <<unmarked, sent>>

FinishSend(o) ==
  /\ At(o, "sending")
  /\ \/ sent' = sent \cup {o} /\ ToMark(o, "succeeded")
     \/ \E outcome \in {"transient", "needs_review"} : ToMark(o, outcome) /\ UNCHANGED sent
  /\ UNCHANGED <<unmarked, late>>

(* What was read of the setting may have been put right by now.            *)
PauseForRouteChange(o) ==
  /\ At(o, "pausing")
  /\ setting' = [setting EXCEPT !.paused = "route_changed"]
  /\ Goto(o, "marking")
  /\ UNCHANGED <<route, job, sent, other, late, incidents>>

Marked(o, status) == [job EXCEPT ![o] = [@ EXCEPT !.status = status, !.live = FALSE]]

(* MarkCancelled and MarkNeedsReview.                                      *)
MarkEnded(o) ==
  /\ At(o, "marking") /\ worker[o].outcome \in {"cancelled", "needs_review"}
  /\ job' = Marked(o, worker[o].outcome)
  /\ worker' = [worker EXCEPT ![o] = Idle]
  /\ UNCHANGED <<setting, route, sent, other, late, incidents>>

MarkSucceeded(o) ==
  /\ At(o, "marking") /\ worker[o].outcome = "succeeded"
  /\ job' = Marked(o, "succeeded")
  /\ setting' = [setting EXCEPT !.failures = 0]
  /\ worker' = [worker EXCEPT ![o] = Idle]
  /\ UNCHANGED <<route, sent, other, late, incidents>>

(* The last failure of a job counts for the shop.                          *)
MarkTransientFailure(o) ==
  LET failures == setting.failures + 1 IN
  /\ At(o, "marking") /\ worker[o].outcome = "transient"
  /\ IF job[o].attempts < MaxAttempts
     THEN job' = Marked(o, "retry_wait") /\ UNCHANGED setting
     ELSE /\ job' = Marked(o, "failed")
          /\ setting' = [setting EXCEPT
               !.failures = failures,
               !.paused = IF failures >= MaxFailures THEN "system_failures" ELSE @]
  /\ worker' = [worker EXCEPT ![o] = Idle]
  /\ UNCHANGED <<route, sent, other, late, incidents>>

(* The attempt is not counted.                                             *)
MarkContentionRetry(o) ==
  /\ At(o, "marking") /\ worker[o].outcome = "contention"
  /\ job' = [job EXCEPT ![o] = [job[o] EXCEPT !.status = "retry_wait", !.live = FALSE,
                                             !.attempts = IF @ = 0 THEN 0 ELSE @ - 1]]
  /\ worker' = [worker EXCEPT ![o] = Idle]
  /\ UNCHANGED <<setting, route, sent, other, late, incidents>>

(* The mark fails; its error is dropped, or logged.                        *)
MarkLost(o) ==
  /\ At(o, "marking")
  /\ worker' = [worker EXCEPT ![o] = Idle]
  /\ UNCHANGED <<unmarked, sent, late>>

-----------------------------------------------------------------------------
ProcessJob(o) ==
  \/ CheckSetting(o)
  \/ PrepareBill(o)
  \/ RecheckSetting(o)
  \/ StartSend(o)
  \/ FinishSend(o)
  \/ PauseForRouteChange(o)
  \/ MarkEnded(o)
  \/ MarkSucceeded(o)
  \/ MarkTransientFailure(o)
  \/ MarkContentionRetry(o)

Next ==
  \/ \E newTrigger \in BOOLEAN : EnableShop(newTrigger)
  \/ DisableShop
  \/ ChangeRoute
  \/ \E batch \in Batches(Due) : LeaseJobs(batch)
  \/ \E o \in Orders :
       \/ Enqueue(o)
       \/ RetryJob(o)
       \/ StartManualSend(o)
       \/ FinishManualSend(o)
       \/ ActionExpires(o)
       \/ LeaseEnds(o)
       \/ ProcessJob(o)
       \/ MarkLost(o)
  \/ Restart

Spec == Init /\ [][Next]_vars

(* The worker goes on; of the jobs that are due the one that has waited    *)
(* longest is leased, so that each has its turn; leases and sends end.     *)
Fairness ==
  \A o \in Orders :
    /\ WF_vars(ProcessJob(o))
    /\ SF_vars(\E batch \in Batches(Due) : o \in batch /\ LeaseJobs(batch))
    /\ WF_vars(LeaseEnds(o))
    /\ WF_vars(FinishManualSend(o))
    /\ WF_vars(ActionExpires(o))

FairSpec == Spec /\ Fairness

-----------------------------------------------------------------------------
\* After a shop was disabled or paused at most one more of its orders is
\* sent, the one whose job had looked at the setting for the second time.
ClosingStopsAllButOneSend == late <= 1

\* A job that has succeeded, or was cancelled, stays so: no worker marks it
\* again by its id, whenever its lease ended and whatever operators do.
EndedIsFinal ==
  [][\A o \in Orders : job[o].status \in Ended => job'[o].status = job[o].status]_vars

\* The worker of a job is gone and has not marked it.
Abandoned(o) == job[o].status = "running" /\ At(o, "idle")

\* While the shop is open no job waits for ever, neither behind an abandoned
\* one of the same shop nor behind operators who send the order themselves.
\* An abandoned job itself waits for the next start of the process.
JobsEnd ==
  \A o \in Orders :
    []<>(job[o].status \notin Waiting \cup {"running"} \/ ~Open \/ Abandoned(o))
=============================================================================
