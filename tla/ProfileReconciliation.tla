----------------------- MODULE ProfileReconciliation -----------------------
(***************************************************************************)
(* The two queues that repair the profile of a document SML already holds: *)
(* sml_document_profile_reconciliation_jobs for sales documents and        *)
(* sml_cancellation_profile_reconciliation_jobs for cancellations.  Both   *)
(* are fenced by a lease owner and token and give up after MaxAttempts     *)
(* claims; they differ in what they claim and in what an operator may      *)
(* queue again.                                                            *)
(*                                                                         *)
(* Each claim takes a new token, so that the token of a job names the last *)
(* worker that claimed it: "holder" stands for lease_owner and lease_token. *)
(***************************************************************************)
EXTENDS Integers

CONSTANTS
  Documents,      \* sales documents, one profile and at most one job each
  Cancellations,  \* cancellation documents, likewise
  NoDocument,
  Workers,        \* each may stop and start again as the next process
  NoWorker,
  MaxAttempts,    \* max_attempts, and the CHECK on attempt_count
  MaxRetries      \* bound on the times an operator queues a job again

Jobs == Documents \cup Cancellations

ASSUME ProfileAssumption ==
  /\ Documents \cap Cancellations = {}
  /\ NoDocument \notin Jobs
  /\ NoWorker \notin Workers
  /\ MaxAttempts \in Nat \ {0}
  /\ MaxRetries \in Nat

VARIABLES
  job,      \* row of each document's reconciliation job
  profile,  \* profile_status of its attempt or cancellation
  worker,   \* what each worker is doing
  active    \* whether the deployment has the cancellation routes' profile active

vars == <<job, profile, worker, active>>

Reported == {"pending", "complete", "needs_reconciliation", "terminal_failure"}
JobType == [status : {"none", "queued", "running", "retry_wait", "complete", "manual_reconciliation"},
            attempts : 0..MaxAttempts, retries : Nat,
            holder : Workers \cup {NoWorker}, expired : BOOLEAN]
WorkerType == [pc : {"idle", "claimed", "completing", "failing", "rejected"},
               document : Jobs \cup {NoDocument}]

TypeOK ==
  /\ job \in [Jobs -> JobType]
  /\ profile \in [Jobs -> Reported \cup {""}]
  /\ worker \in [Workers -> WorkerType]
  /\ active \in BOOLEAN

NoJob == [status |-> "none", attempts |-> 0, retries |-> 0, holder |-> NoWorker, expired |-> FALSE]
IdleWorker == [pc |-> "idle", document |-> NoDocument]

Init ==
  /\ job = [d \in Jobs |-> NoJob]
  /\ profile = [d \in Jobs |-> ""]
  /\ worker = [w \in Workers |-> IdleWorker]
  /\ active \in BOOLEAN

-----------------------------------------------------------------------------
(* SML's answer to the core document, stored with the send or cancellation. *)

(* Faulty variant: what SML requires of a cancellation is taken as it is.  *)
JobRequired_AsReported(d, status, required) == required

(* normalizeSMLCancellationProfileResult mistrusts SML; a send does not.   *)
JobRequired(d, status, required) ==
  IF d \in Cancellations THEN status # "complete" ELSE required

ReportProfile(d, status, required) ==
  /\ profile[d] = ""
  /\ d \in Cancellations => ~(status = "complete" /\ required)
  /\ profile' = [profile EXCEPT ![d] = status]
  /\ job' = IF JobRequired(d, status, required) THEN [job EXCEPT ![d].status = "queued"] ELSE job
  /\ UNCHANGED <<worker, active>>

-----------------------------------------------------------------------------
(* The workers.                                                            *)

(* lease_owner='', lease_until=NULL.                                       *)
Released(d, status) ==
  [job[d] EXCEPT !.status = status, !.holder = NoWorker, !.expired = FALSE]

At(w, pc) == worker[w].pc = pc
Goto(w, pc) == worker' = [worker EXCEPT ![w].pc = pc]
Rest(w) == worker' = [worker EXCEPT ![w] = IdleWorker]

(* Faulty variant: the job of a worker that stopped is not taken up again. *)
Due_Waiting(d) == job[d].status \in {"queued", "retry_wait"}

(* A retry that waits is due some time: next_attempt_at is left out.       *)
Due(d) ==
  \/ job[d].status \in {"queued", "retry_wait"}
  \/ job[d].status = "running" /\ job[d].expired

(* The statement that claims a cancellation's job does not look at its     *)
(* attempts: the CHECK on them fails it.                                   *)
Claimable(d) == Due(d) /\ job[d].attempts < MaxAttempts

(* ClaimSML(Cancellation)ProfileReconciliationJob.                         *)
Claim(w, d) ==
  /\ At(w, "idle")
  /\ Claimable(d)
  /\ job' = [job EXCEPT ![d] = [@ EXCEPT !.status = "running", !.attempts = job[d].attempts + 1,
                                        !.holder = w, !.expired = FALSE]]
  /\ worker' = [worker EXCEPT ![w] = [pc |-> "claimed", document |-> d]]
  /\ UNCHANGED <<profile, active>>

(* Two minutes have passed since the claim.                                *)
LeaseExpires(d) ==
  /\ job[d].status = "running" /\ ~job[d].expired
  /\ job' = [job EXCEPT ![d].expired = TRUE]
  /\ UNCHANGED <<profile, worker, active>>

(* Faulty variant: the owner alone, which is the same for every worker of  *)
(* the cancellation queue.                                                 *)
Fence_OwnerOnly(w) == job[worker[w].document].status = "running"

(* Faulty variant: a job is recorded by its id.                            *)
Fence_None(w) == TRUE

Fence(w) ==
  LET d == worker[w].document IN job[d].status = "running" /\ job[d].holder = w

(* SML gets the immutable payload again: it reports a complete profile,    *)
(* fails for now, or answers what no retry will mend.                      *)
Process(w) ==
  /\ At(w, "claimed")
  /\ worker[w].document \in Cancellations => active
  /\ \E pc \in {"completing", "failing", "rejected"} : Goto(w, pc)
  /\ UNCHANGED <<job, profile, active>>

(* DeferSMLCancellationProfileReconciliationJob.                           *)
Defer(w) ==
  LET d == worker[w].document IN
  /\ At(w, "claimed") /\ d \in Cancellations /\ ~active
  /\ job' = IF Fence(w)
            THEN [job EXCEPT ![d] = [Released(d, "queued") EXCEPT !.attempts = @ - 1]] ELSE job
  /\ Rest(w)
  /\ UNCHANGED <<profile, active>>

(* Faulty variant: the profile is left for the next report of SML.         *)
CompletedProfile_Kept(d) == profile

CompletedProfile(d) == [profile EXCEPT ![d] = "complete"]

(* CompleteSML(Cancellation)ProfileReconciliationJob.                      *)
Complete(w) ==
  LET d == worker[w].document IN
  /\ At(w, "completing")
  /\ IF Fence(w)
     THEN /\ job' = [job EXCEPT ![d] = Released(d, "complete")]
          /\ profile' = CompletedProfile(d)
          /\ Rest(w)
     ELSE Goto(w, "failing") /\ UNCHANGED <<job, profile>>
  /\ UNCHANGED active

Terminal(w) ==
  At(w, "rejected") \/ job[worker[w].document].attempts >= MaxAttempts

(* FailSML(Cancellation)ProfileReconciliationJob; under the fence the      *)
(* attempts of the job are those of the claim.                             *)
Fail(w) ==
  LET d == worker[w].document IN
  /\ worker[w].pc \in {"failing", "rejected"}
  /\ IF Fence(w)
     THEN /\ job' = [job EXCEPT ![d] =
                       Released(d, IF Terminal(w) THEN "manual_reconciliation" ELSE "retry_wait")]
          /\ profile' = [profile EXCEPT ![d] =
                           IF Terminal(w) THEN "terminal_failure" ELSE "needs_reconciliation"]
     ELSE UNCHANGED <<job, profile>>
  /\ Rest(w)
  /\ UNCHANGED active

(* Any call or statement of the processing fails.                          *)
StepFails(w) ==
  /\ \/ At(w, "claimed") /\ (worker[w].document \in Cancellations => active)
     \/ At(w, "completing")
  /\ Goto(w, "failing")
  /\ UNCHANGED <<job, profile, active>>

(* The process stops, or cannot record the failure.                        *)
Abandon(w) ==
  /\ worker[w].pc # "idle"
  /\ Rest(w)
  /\ UNCHANGED <<job, profile, active>>

-----------------------------------------------------------------------------
(* The operator.                                                           *)

SwitchRoute ==
  /\ active' = ~active
  /\ UNCHANGED <<job, profile, worker>>

HandedOver(d) == job[d].status = "manual_reconciliation" \/ profile[d] = "terminal_failure"

DocumentRetryable(d) ==
  /\ job[d].status \notin {"complete", "running"}
  /\ profile[d] \in {"needs_reconciliation", "terminal_failure"}

(* RetrySMLProfileReconciliation.                                          *)
RetryDocument(d) ==
  /\ d \in Documents /\ job[d].status # "none"
  /\ DocumentRetryable(d) /\ job[d].retries < MaxRetries
  /\ job' = [job EXCEPT ![d] = [Released(d, "queued") EXCEPT
               !.retries = @ + 1, !.attempts = IF HandedOver(d) THEN 0 ELSE @]]
  /\ profile' = [profile EXCEPT ![d] = "needs_reconciliation"]
  /\ UNCHANGED <<worker, active>>

CancellationRetryable(d) ==
  /\ job[d].status # "complete"
  /\ job[d].status = "running" => job[d].expired

(* RetrySMLCancellationProfileReconciliation: a job whose lease ran out is *)
(* queued again with the attempts it had.                                  *)
RetryCancellation(d) ==
  LET manual == job[d].status = "manual_reconciliation" IN
  /\ d \in Cancellations /\ job[d].status # "none"
  /\ CancellationRetryable(d) /\ (manual => job[d].retries < MaxRetries)
  /\ job' = [job EXCEPT ![d] = [Released(d, "queued") EXCEPT
               !.retries = IF manual THEN @ + 1 ELSE @, !.attempts = IF manual THEN 0 ELSE @]]
  /\ profile' = [profile EXCEPT ![d] = "needs_reconciliation"]
  /\ UNCHANGED <<worker, active>>

-----------------------------------------------------------------------------
WorkerStep(w) == Process(w) \/ Defer(w) \/ Complete(w) \/ Fail(w)

OperatorStep(d) ==
  \/ \E status \in Reported, required \in BOOLEAN : ReportProfile(d, status, required)
  \/ RetryDocument(d)
  \/ RetryCancellation(d)

Next ==
  \/ SwitchRoute
  \/ \E d \in Jobs : OperatorStep(d) \/ LeaseExpires(d)
  \/ \E w \in Workers : \/ WorkerStep(w) \/ StepFails(w) \/ Abandon(w)
                        \/ \E d \in Jobs : Claim(w, d)

Spec == Init /\ [][Next]_vars

(* A worker died at the last attempt of a job.  For a document no claim    *)
(* takes the job any more.  For a cancellation every claim does, also after *)
(* an operator queued it again, and fails: the job is soon the first of the *)
(* queue, whose LIMIT 1 then never gets past it.                           *)
Exhausted(d) ==
  /\ job[d].attempts = MaxAttempts
  /\ job[d].status \in {"running", "queued"}
  /\ \A w \in Workers : worker[w].document # d

Unblocked(d) == d \in Cancellations => \A e \in Cancellations : ~Exhausted(e)

(* The queues are polled every 10 and 5 seconds in the order of            *)
(* next_attempt_at, so that each due job has its turn; leases run out; a   *)
(* worker that does not stop records what it found.                        *)
Fairness ==
  /\ \A w \in Workers : WF_vars(WorkerStep(w))
  /\ \A d \in Jobs : WF_vars(LeaseExpires(d))
  /\ \A d \in Jobs : SF_vars(Unblocked(d) /\ \E w \in Workers : Claim(w, d))

FairSpec == Spec /\ Fairness

-----------------------------------------------------------------------------
\* The profile the bill and the order page show says what became of the
\* repair: no late worker and no operator moves one without the other.  A
\* cancellation's profile is not complete while its job still has to run.
ProfileFollowsJob ==
  \A d \in Jobs :
    /\ job[d].status = "complete" => profile[d] = "complete"
    /\ job[d].status = "retry_wait" => profile[d] = "needs_reconciliation"
    /\ job[d].status = "manual_reconciliation" => profile[d] = "terminal_failure"
    /\ d \in Cancellations /\ profile[d] = "complete" => job[d].status \in {"none", "complete"}

\* A cancellation whose profile SML did not report as complete has a job,
\* whatever SML said about reconciliation being required.
IncompleteProfileHasJob ==
  \A d \in Cancellations : profile[d] \notin {"", "complete"} => job[d].status # "none"

\* A profile that was repaired stays complete: the failure of a worker that
\* lost its lease, or an operator's retry, does not open it again.
RepairIsFinal ==
  [][\A d \in Jobs : job[d].status = "complete" => job'[d].status = "complete" /\ profile'[d] = profile[d]]_vars

\* While a worker is within the lease of its claim, nobody else settles,
\* releases or takes its job: neither a worker that was too slow, though the
\* owner it was leased to has the same name, nor an operator.
LiveClaimIsKept ==
  [][\A w \in Workers, d \in Jobs :
       worker[w].document = d /\ Fence(w) /\ ~job[d].expired /\ worker'[w].document = d
         => job'[d].status = "running" /\ job'[d].holder = w]_vars

\* Every job ends: repaired, or handed to an operator.  It does not when a
\* worker left it at its last attempt, and for a cancellation not when that
\* happened to any job of the queue; one of an inactive route waits.
EveryRepairEnds ==
  \A d \in Jobs :
    job[d].status = "queued" ~>
      \/ job[d].status \in {"complete", "manual_reconciliation"}
      \/ Exhausted(d)
      \/ d \in Cancellations /\ (~active \/ \E e \in Cancellations : Exhausted(e))
=============================================================================
