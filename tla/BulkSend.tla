------------------------------ MODULE BulkSend ------------------------------
(***************************************************************************)
(* Jobs that send many bills to SML one after the other.  A request        *)
(* inserts a job with an item for each bill and starts a goroutine that    *)
(* works through the items it has loaded; every statement of it may fail,  *)
(* most of them unnoticed.  One process at a time runs the jobs, and a new *)
(* one first fails whatever the last one left.                             *)
(*                                                                         *)
(* What a send does to a bill is module SMLAttempt.                        *)
(***************************************************************************)
EXTENDS Integers, FiniteSets

CONSTANTS
  Jobs,     \* client_request_id's: a job each at most
  Bills,
  NoBill,
  MaxIncidents  \* bound on the repeated requests and the stops of the process

ASSUME BulkAssumption == IsFiniteSet(Bills) /\ NoBill \notin Bills /\ MaxIncidents \in Nat

VARIABLES
  job,       \* rows of sml_bulk_jobs with their counts
  item,      \* status of each job's item for each bill, in sml_bulk_job_items
  sent,      \* bills that a job has sent
  runner,    \* the goroutine of each job
  left,      \* history: jobs that lost their goroutine since the process started
  repeated,  \* history: jobs that a repeated request has started once more
  up,        \* whether the process runs
  incidents  \* how many requests were repeated, and how often it stopped

vars == <<job, item, sent, runner, left, repeated, up, incidents>>

Counts == [sent : Nat, failed : Nat, skipped : Nat]
NoCounts == [sent |-> 0, failed |-> 0, skipped |-> 0]
JobType == [status : {"none", "queued", "running", "completed", "completed_with_errors", "failed"},
            counts : Counts]
ItemStatuses == {"none", "queued", "running", "sent", "failed", "skipped"}
RunnerType == [pc : {"none", "started", "looping", "sending", "recording"},
               todo : SUBSET Bills, bill : Bills \cup {NoBill}, outcome : ItemStatuses]

TypeOK ==
  /\ job \in [Jobs -> JobType]
  /\ item \in [Jobs -> [Bills -> ItemStatuses]]
  /\ sent \subseteq Bills
  /\ runner \in [Jobs -> RunnerType]
  /\ left \subseteq Jobs /\ repeated \subseteq Jobs
  /\ up \in BOOLEAN
  /\ incidents \in 0..MaxIncidents

NoRunner == [pc |-> "none", todo |-> {}, bill |-> NoBill, outcome |-> "none"]

Init ==
  /\ job = [j \in Jobs |-> [status |-> "none", counts |-> NoCounts]]
  /\ item = [j \in Jobs |-> [b \in Bills |-> "none"]]
  /\ sent = {}
  /\ runner = [j \in Jobs |-> NoRunner]
  /\ left = {} /\ repeated = {}
  /\ up = TRUE
  /\ incidents = 0

Active(j) == job[j].status \in {"queued", "running"}
ItemActive(j, b) == item[j][b] \in {"queued", "running"}

At(j, pc) == runner[j].pc = pc
Goto(j, pc) == runner' = [runner EXCEPT ![j].pc = pc]
End(j) == runner' = [runner EXCEPT ![j] = NoRunner]
process == <<repeated, up, incidents>>

-----------------------------------------------------------------------------
(* Requests.                                                               *)

(* Faulty variant: only an item that is being sent keeps its bill.         *)
Conflict_Running(set) == \E j \in Jobs, b \in set : Active(j) /\ item[j][b] = "running"

Conflict(set) == \E j \in Jobs, b \in set : Active(j) /\ ItemActive(j, b)

(* Create, under a lock of the table of items.  The job is read again      *)
(* after the commit, and without it no goroutine is started.               *)
Create(j, set) ==
  /\ up /\ job[j].status = "none"
  /\ set # {} /\ ~Conflict(set)
  /\ job' = [job EXCEPT ![j].status = "queued"]
  /\ item' = [item EXCEPT ![j] = [b \in Bills |-> IF b \in set THEN "queued" ELSE "none"]]
  /\ \/ Goto(j, "started") /\ UNCHANGED left
     \/ left' = left \cup {j} /\ UNCHANGED runner
  /\ UNCHANGED <<sent, process>>

CreateBulkSendJob(j) == \E set \in SUBSET Bills : Create(j, set)

(* The original may still be running.                                      *)
RetryFailedBulkSendJob(j) ==
  \E original \in Jobs : Create(j, {b \in Bills : item[original][b] = "failed"})

(* A request whose client_request_id has its job already, and that did not *)
(* find it in its first read: the insertion gives the job, whatever its    *)
(* status, and a goroutine is started for it once more.  While another one *)
(* of the job has bills to send the request conflicts with it; one that    *)
(* only has the end to record is left out.                                 *)
RepeatBulkSendJob(j) ==
  /\ up /\ job[j].status # "none" /\ At(j, "none")
  /\ incidents < MaxIncidents
  /\ ~Conflict({b \in Bills : item[j][b] # "none"})
  /\ Goto(j, "started")
  /\ repeated' = repeated \cup {j}
  /\ incidents' = incidents + 1
  /\ UNCHANGED <<job, item, sent, left, up>>

-----------------------------------------------------------------------------
(* runBulkSendJob.                                                         *)

(* StartJob and Get, once the job and SML's readiness are as they have to  *)
(* be.  A job that is no longer active keeps its status and is worked on   *)
(* all the same.                                                           *)
StartJob(j) ==
  /\ At(j, "started")
  /\ job' = IF Active(j) THEN [job EXCEPT ![j].status = "running"] ELSE job
  /\ runner' = [runner EXCEPT ![j].pc = "looping",
                              ![j].todo = {b \in Bills : item[j][b] = "queued"}]
  /\ UNCHANGED <<item, sent, left, process>>

(* MarkJobFailed, whose error is ignored, and the end of the goroutine.    *)
FailJob(j, rows) ==
  /\ \/ job' = [rows EXCEPT ![j].status = "failed"] /\ UNCHANGED left
     \/ job' = rows /\ left' = left \cup {j}
  /\ End(j)
  /\ UNCHANGED <<item, sent, process>>

(* The job cannot be started, loaded or processed.                         *)
Reject(j) ==
  /\ At(j, "started")
  /\ FailJob(j, job)

StartItem(j, b) ==
  /\ At(j, "looping") /\ b \in runner[j].todo
  /\ item' = [item EXCEPT ![j][b] = "running"]
  /\ runner' = [runner EXCEPT ![j].pc = "sending", ![j].bill = b, ![j].todo = @ \ {b}]
  /\ UNCHANGED <<job, sent, left, process>>

(* An item that cannot be started is passed over: it stays queued.         *)
StartItemFails(j, b) ==
  /\ At(j, "looping") /\ b \in runner[j].todo
  /\ runner' = [runner EXCEPT ![j].todo = @ \ {b}]
  /\ UNCHANGED <<job, item, sent, left, process>>

(* Faulty variant: a request that SML has not answered is a success.       *)
SentAfter_Unanswered(b, outcome) == sent

(* A success leaves the bill sent; a failure or a refusal as it is.        *)
SentAfter(b, outcome) == IF outcome = "sent" THEN sent \cup {b} ELSE sent

(* FindByID, the checks of the bill, which may be archived or lack what a  *)
(* send needs, and the send.                                               *)
SendBillToSML(j) ==
  /\ At(j, "sending")
  /\ \E outcome \in {"sent", "failed", "skipped"} :
       /\ sent' = SentAfter(runner[j].bill, outcome)
       /\ runner' = [runner EXCEPT ![j] = [@ EXCEPT !.pc = "recording", !.outcome = outcome]]
  /\ UNCHANGED <<job, item, left, process>>

Count(items, status) == Cardinality({b \in Bills : items[b] = status})

Counted(items) ==
  [sent |-> Count(items, "sent"), failed |-> Count(items, "failed"), skipped |-> Count(items, "skipped")]

(* FinishItemSent, FinishItemFailed or FinishItemSkipped, and then         *)
(* RefreshCounts.  An error of either is ignored: the item stays running,  *)
(* the counts stay old.                                                    *)
FinishItem(j) ==
  /\ At(j, "recording")
  /\ item' \in {item, [item EXCEPT ![j][runner[j].bill] = runner[j].outcome]}
  /\ job' \in {job, [job EXCEPT ![j].counts = Counted(item'[j])]}
  /\ runner' = [runner EXCEPT ![j] = [@ EXCEPT !.pc = "looping", !.bill = NoBill, !.outcome = "none"]]
  /\ UNCHANGED <<sent, left, process>>

(* Faulty variant: the counts of the last item are good enough.            *)
FinalCounts_Cached(j) == job[j].counts

FinalCounts(j) == Counted(item[j])

Recount(j, counts) == [job EXCEPT ![j].counts = counts]

(* The status of a job that is finalised depends on its count of failures, *)
(* whatever status it had.                                                 *)
FinalizeJob(j) ==
  /\ At(j, "looping") /\ runner[j].todo = {}
  /\ job' = [Recount(j, FinalCounts(j)) EXCEPT
       ![j].status = IF FinalCounts(j).failed > 0 THEN "completed_with_errors" ELSE "completed"]
  /\ End(j)
  /\ UNCHANGED <<item, sent, left, process>>

(* The first statement or the second one fails.                            *)
FinalizeFails(j) ==
  /\ At(j, "looping") /\ runner[j].todo = {}
  /\ \E counts \in {job[j].counts, FinalCounts(j)} : FailJob(j, Recount(j, counts))

-----------------------------------------------------------------------------
(* The process.                                                            *)

Stop ==
  /\ up /\ incidents < MaxIncidents
  /\ up' = FALSE
  /\ incidents' = incidents + 1
  /\ runner' = [j \in Jobs |-> NoRunner]
  /\ UNCHANGED <<job, item, sent, left, repeated>>

(* Faulty variant: a job that no goroutine has started is overlooked.      *)
Interrupted_Running == {j \in Jobs : job[j].status = "running"}

Interrupted == {j \in Jobs : Active(j)}

ItemsFailed(j) == [b \in Bills |-> IF ItemActive(j, b) THEN "failed" ELSE item[j][b]]

(* RecoverInterruptedActiveJobs, before requests are served: job after job *)
(* its items, its counts and its status, until a statement fails.          *)
RecoverInterruptedBulkSendJobs ==
  /\ ~up
  /\ up' = TRUE
  /\ \E done \in SUBSET Interrupted : \E partly \in SUBSET (Interrupted \ done) :
     \E counted \in SUBSET partly :
       /\ Cardinality(partly) <= 1
       /\ item' = [j \in Jobs |-> IF j \in done \cup partly THEN ItemsFailed(j) ELSE item[j]]
       /\ job' = [j \in Jobs |->
            [status |-> IF j \in done THEN "failed" ELSE job[j].status,
             counts |-> IF j \in done \cup counted THEN Counted(ItemsFailed(j)) ELSE job[j].counts]]
       /\ left' = Interrupted \ done
  /\ UNCHANGED <<sent, runner, repeated, incidents>>

-----------------------------------------------------------------------------
RunBulkSendJob(j) ==
  \/ StartJob(j)
  \/ \E b \in Bills : StartItem(j, b)
  \/ SendBillToSML(j)
  \/ FinishItem(j)
  \/ FinalizeJob(j)

Next ==
  \/ \E j \in Jobs :
       \/ CreateBulkSendJob(j)
       \/ RetryFailedBulkSendJob(j)
       \/ RepeatBulkSendJob(j)
       \/ RunBulkSendJob(j)
       \/ Reject(j)
       \/ \E b \in Bills : StartItemFails(j, b)
       \/ FinalizeFails(j)
  \/ Stop
  \/ RecoverInterruptedBulkSendJobs

Spec == Init /\ [][Next]_vars

(* A goroutine goes on, each of its calls has a timeout, and a process     *)
(* that stopped is started again.                                          *)
Fairness ==
  /\ \A j \in Jobs : WF_vars(RunBulkSendJob(j))
  /\ WF_vars(RecoverInterruptedBulkSendJobs)

FairSpec == Spec /\ Fairness

-----------------------------------------------------------------------------
WorksOn(j, b) == runner[j].bill = b \/ (Active(j) /\ ItemActive(j, b))

\* A bill is in one job at a time: neither a retry of a job that is still
\* running, nor a goroutine that goes on while its items free their bills,
\* nor what a stopped process left makes two jobs send the same bill.  Only
\* a job that a repeated request has started once more does: its status
\* says that it has ended, and its bills look free.
OneJobPerBill ==
  \A b \in Bills : Cardinality({j \in Jobs \ repeated : WorksOn(j, b)}) <= 1

\* What a job reports when it is completed is true, whichever of its updates
\* got lost: its counts are those of its items, it is completed without
\* errors only if none has failed, and the bill of a sent item is sent.  The
\* exception is again a job that was started once more.
ReportIsTrue ==
  \A j \in Jobs :
    /\ job[j].status \in {"completed", "completed_with_errors"} /\ j \notin repeated =>
         /\ job[j].counts = Counted(item[j])
         /\ job[j].status = "completed" <=> Count(item[j], "failed") = 0
    /\ \A b \in Bills : item[j][b] = "sent" => b \in sent

\* Every job ends and frees its bills, also when the process stops.  It does
\* not when its goroutine was not started or could not record its end, or
\* when the recovery failed: then it is left to the next start.
BulkJobsEnd == \A j \in Jobs : Active(j) ~> ~Active(j) \/ j \in left
=============================================================================
