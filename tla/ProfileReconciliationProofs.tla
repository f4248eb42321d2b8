-------------------- MODULE ProfileReconciliationProofs --------------------
(***************************************************************************)
(* The safety properties of ProfileReconciliation, for any number of       *)
(* documents, workers, attempts and retries.                               *)
(***************************************************************************)
EXTENDS ProfileReconciliation, TLAPS

(* A worker that is not idle works on a document.                          *)
WorksOnADocument ==
  \A w \in Workers : worker[w].pc # "idle" => worker[w].document \in Jobs

(* A job without attempts has not been claimed since it was queued.        *)
RunningWasClaimed ==
  \A d \in Jobs :
    /\ job[d].status = "running" => job[d].attempts > 0
    /\ job[d].status = "none" => profile[d] \in {"", "complete"} \/ d \in Documents
    /\ profile[d] = "" => job[d].status = "none"

IInv == TypeOK /\ WorksOnADocument /\ RunningWasClaimed /\ ProfileFollowsJob

LEMMA InitIInv == Init => IInv
<1> SUFFICES ASSUME Init PROVE IInv
  OBVIOUS
<1>1. NoJob \in JobType
  BY ProfileAssumption DEF NoJob, JobType
<1>2. IdleWorker \in WorkerType
  BY DEF IdleWorker, WorkerType
<1>3. TypeOK
  BY <1>1, <1>2 DEF Init, TypeOK
<1>4. WorksOnADocument /\ RunningWasClaimed /\ ProfileFollowsJob
  BY DEF Init, WorksOnADocument, RunningWasClaimed, ProfileFollowsJob, NoJob, IdleWorker
<1> QED
  BY <1>3, <1>4 DEF IInv

(* A step that writes the rows of one document.                            *)
LEMMA OneDocument ==
  ASSUME IInv, NEW d \in Jobs, NEW r \in JobType, NEW s \in Reported \cup {""},
         job' = [job EXCEPT ![d] = r], profile' = [profile EXCEPT ![d] = s], active' \in BOOLEAN,
         worker' \in [Workers -> WorkerType], WorksOnADocument',
         r.status = "running" => r.attempts > 0,
         r.status = "none" => s \in {"", "complete"} \/ d \in Documents,
         s = "" => r.status = "none",
         r.status = "complete" => s = "complete",
         r.status = "retry_wait" => s = "needs_reconciliation",
         r.status = "manual_reconciliation" => s = "terminal_failure",
         d \in Cancellations /\ s = "complete" => r.status \in {"none", "complete"}
  PROVE  IInv'
<1>1. TypeOK'
  BY DEF IInv, TypeOK
<1>2. job'[d] = r /\ profile'[d] = s
  BY DEF IInv, TypeOK
<1>3. \A e \in Jobs \ {d} : job'[e] = job[e] /\ profile'[e] = profile[e]
  BY DEF IInv, TypeOK
<1>4. RunningWasClaimed'
  BY <1>2, <1>3 DEF IInv, RunningWasClaimed
<1>5. ProfileFollowsJob'
  BY <1>2, <1>3 DEF IInv, ProfileFollowsJob
<1> QED
  BY <1>1, <1>4, <1>5 DEF IInv

(* A step that writes none of them.                                        *)
LEMMA NoDocumentWritten ==
  ASSUME IInv, UNCHANGED <<job, profile>>, active' \in BOOLEAN,
         worker' \in [Workers -> WorkerType], WorksOnADocument'
  PROVE  IInv'
BY DEF IInv, TypeOK, RunningWasClaimed, ProfileFollowsJob

(* What the worker does to its own record.                                 *)
LEMMA WorkerMoves ==
  ASSUME IInv, NEW w \in Workers,
         \/ Rest(w)
         \/ worker[w].pc # "idle" /\ \E pc \in {"completing", "failing", "rejected"} : Goto(w, pc)
  PROVE  worker' \in [Workers -> WorkerType] /\ WorksOnADocument'
<1>1. worker \in [Workers -> WorkerType] /\ WorksOnADocument
  BY DEF IInv, TypeOK
<1>2. CASE Rest(w)
  <2>1. IdleWorker \in WorkerType /\ IdleWorker.pc = "idle"
    BY DEF IdleWorker, WorkerType
  <2> QED
    BY <1>1, <1>2, <2>1 DEF Rest, WorksOnADocument
<1>3. ASSUME worker[w].pc # "idle", NEW pc \in {"completing", "failing", "rejected"}, Goto(w, pc)
      PROVE  worker' \in [Workers -> WorkerType] /\ WorksOnADocument'
  <2>1. worker[w] \in WorkerType
    BY <1>1
  <2>2. [worker[w] EXCEPT !.pc = pc] \in WorkerType
    BY <2>1 DEF WorkerType
  <2>3. worker' = [worker EXCEPT ![w] = [worker[w] EXCEPT !.pc = pc]]
    BY <1>1, <1>3 DEF Goto
  <2>4. [worker[w] EXCEPT !.pc = pc].document = worker[w].document
    BY <2>1 DEF WorkerType
  <2> QED
    BY <1>1, <1>3, <2>2, <2>3, <2>4 DEF WorksOnADocument
<1> QED
  BY <1>2, <1>3

LEMMA NextIInv == IInv /\ [Next]_vars => IInv'
<1> SUFFICES ASSUME IInv, [Next]_vars PROVE IInv'
  OBVIOUS
<1>t. /\ \A d \in Jobs : job[d] \in JobType /\ profile[d] \in Reported \cup {""}
      /\ job = [d \in Jobs |-> job[d]] /\ profile = [d \in Jobs |-> profile[d]]
      /\ active \in BOOLEAN /\ worker \in [Workers -> WorkerType] /\ WorksOnADocument
  BY DEF IInv, TypeOK
<1>n. \A d \in Jobs : job[d].attempts \in 0..MaxAttempts /\ job[d].retries \in Nat
  BY <1>t DEF JobType
<1>1. ASSUME NEW d \in Jobs, NEW status \in Reported, NEW required \in BOOLEAN,
             ReportProfile(d, status, required)
      PROVE  IInv'
  <2>1. job[d].status = "none"
    BY <1>1 DEF ReportProfile, IInv, RunningWasClaimed
  <2>2. WorksOnADocument'
    BY <1>1, <1>t DEF ReportProfile, WorksOnADocument
  <2>3. CASE JobRequired(d, status, required)
    <3> DEFINE r == [job[d] EXCEPT !.status = "queued"]
    <3>1. r \in JobType /\ r.status = "queued"
      BY <1>t DEF JobType
    <3>2. job' = [job EXCEPT ![d] = r]
      BY <1>1, <2>3, <1>t DEF ReportProfile
    <3>3. ~(d \in Cancellations /\ status = "complete")
      BY <2>3 DEF JobRequired
    <3> HIDE DEF r
    <3> QED
      BY <1>1, <1>t, <2>2, <3>1, <3>2, <3>3, OneDocument DEF ReportProfile, Reported
  <2>4. CASE ~JobRequired(d, status, required)
    <3>1. job' = [job EXCEPT ![d] = job[d]]
      BY <1>1, <2>4, <1>t DEF ReportProfile
    <3>2. status = "complete" \/ d \in Documents
      BY <2>4 DEF JobRequired, Jobs
    <3> QED
      BY <1>1, <1>t, <2>1, <2>2, <3>1, <3>2, OneDocument DEF ReportProfile, Reported
  <2> QED
    BY <2>3, <2>4
<1>2. ASSUME NEW d \in Jobs, RetryDocument(d) \/ RetryCancellation(d)
      PROVE  IInv'
  <2>1. PICK r \in JobType : r.status = "queued" /\ job' = [job EXCEPT ![d] = r]
    <3>1. ASSUME NEW n \in Nat, NEW a \in 0..MaxAttempts
          PROVE  /\ [Released(d, "queued") EXCEPT !.retries = n, !.attempts = a] \in JobType
                 /\ [Released(d, "queued") EXCEPT !.retries = n, !.attempts = a].status = "queued"
      BY <1>t DEF Released, JobType
    <3>2. 0 \in 0..MaxAttempts
      BY ProfileAssumption
    <3>3. Released(d, "queued").retries = job[d].retries /\ Released(d, "queued").attempts = job[d].attempts
      BY <1>t DEF Released, JobType
    <3>4. CASE RetryDocument(d)
      <4> DEFINE n == Released(d, "queued").retries + 1
                 a == IF HandedOver(d) THEN 0 ELSE Released(d, "queued").attempts
      <4>1. job' = [job EXCEPT ![d] = [Released(d, "queued") EXCEPT !.retries = n, !.attempts = a]]
        BY <3>4 DEF RetryDocument
      <4>2. n \in Nat /\ a \in 0..MaxAttempts
        BY <1>n, <3>2, <3>3
      <4> HIDE DEF n, a
      <4> QED
        BY <3>1, <4>1, <4>2
    <3>5. CASE RetryCancellation(d)
      <4> DEFINE manual == job[d].status = "manual_reconciliation"
                 n == IF manual THEN Released(d, "queued").retries + 1 ELSE Released(d, "queued").retries
                 a == IF manual THEN 0 ELSE Released(d, "queued").attempts
      <4>1. job' = [job EXCEPT ![d] = [Released(d, "queued") EXCEPT !.retries = n, !.attempts = a]]
        BY <3>5 DEF RetryCancellation
      <4>2. n \in Nat /\ a \in 0..MaxAttempts
        BY <1>n, <3>2, <3>3
      <4> HIDE DEF n, a
      <4> QED
        BY <3>1, <4>1, <4>2
    <3> QED
      BY <1>2, <3>4, <3>5
  <2>2. /\ profile' = [profile EXCEPT ![d] = "needs_reconciliation"]
        /\ UNCHANGED <<worker, active>>
    BY <1>2 DEF RetryDocument, RetryCancellation
  <2>3. WorksOnADocument'
    BY <2>2, <1>t DEF WorksOnADocument
  <2> QED
    BY <1>t, <2>1, <2>2, <2>3, OneDocument DEF Reported
<1>3. ASSUME NEW d \in Jobs, LeaseExpires(d)
      PROVE  IInv'
  <2> DEFINE r == [job[d] EXCEPT !.expired = TRUE]
  <2>1. r \in JobType /\ r.status = "running" /\ r.attempts = job[d].attempts
    BY <1>t, <1>3 DEF JobType, LeaseExpires
  <2>2. job' = [job EXCEPT ![d] = r] /\ profile' = [profile EXCEPT ![d] = profile[d]]
    BY <1>t, <1>3 DEF LeaseExpires
  <2>3. WorksOnADocument'
    BY <1>3, <1>t DEF LeaseExpires, WorksOnADocument
  <2>4. /\ job[d].attempts > 0 /\ profile[d] # ""
        /\ ~(d \in Cancellations /\ profile[d] = "complete")
    BY <1>3 DEF LeaseExpires, IInv, RunningWasClaimed, ProfileFollowsJob
  <2>5. profile[d] \in Reported \cup {""} /\ active' \in BOOLEAN /\ worker' \in [Workers -> WorkerType]
    BY <1>3, <1>t DEF LeaseExpires
  <2> DEFINE s == profile[d]
  <2> HIDE DEF r, s
  <2> QED
    BY <2>1, <2>2, <2>3, <2>4, <2>5, OneDocument DEF s
<1>4. ASSUME NEW w \in Workers, NEW d \in Jobs, Claim(w, d)
      PROVE  IInv'
  <2> DEFINE a == job[d].attempts + 1
             r == [job[d] EXCEPT !.status = "running", !.attempts = a, !.holder = w, !.expired = FALSE]
             u == [pc |-> "claimed", document |-> d]
  <2>1. job[d].attempts < MaxAttempts /\ job[d].status \in {"queued", "retry_wait", "running"}
    BY <1>4 DEF Claim, Claimable, Due
  <2>2. a \in 0..MaxAttempts /\ a > 0
    BY <1>n, <2>1, ProfileAssumption
  <2>3. r \in JobType /\ r.status = "running" /\ r.attempts > 0
    BY <1>t, <2>2 DEF JobType
  <2>4. job' = [job EXCEPT ![d] = r] /\ profile' = [profile EXCEPT ![d] = profile[d]]
    BY <1>t, <1>4 DEF Claim
  <2>5. u \in WorkerType /\ worker' = [worker EXCEPT ![w] = u]
    BY <1>4 DEF WorkerType, Claim
  <2>6. worker' \in [Workers -> WorkerType] /\ WorksOnADocument'
    BY <1>t, <2>5 DEF WorksOnADocument
  <2>7. profile[d] # "" /\ ~(d \in Cancellations /\ profile[d] = "complete")
    BY <2>1 DEF IInv, RunningWasClaimed, ProfileFollowsJob
  <2>8. profile[d] \in Reported \cup {""} /\ active' \in BOOLEAN
    BY <1>4, <1>t DEF Claim
  <2> HIDE DEF a, r, u
  <2> QED
    BY <2>3, <2>4, <2>6, <2>7, <2>8, OneDocument
<1>5. ASSUME NEW w \in Workers, Process(w) \/ StepFails(w) \/ Abandon(w)
      PROVE  IInv'
  <2>1. worker' \in [Workers -> WorkerType] /\ WorksOnADocument'
    BY <1>5, WorkerMoves DEF Process, StepFails, Abandon, At
  <2> QED
    BY <1>5, <1>t, <2>1, NoDocumentWritten DEF Process, StepFails, Abandon
<1>6. ASSUME NEW w \in Workers, Defer(w) \/ Complete(w) \/ Fail(w)
      PROVE  IInv'
  <2> DEFINE d == worker[w].document
  <2>1. d \in Jobs
    BY <1>6, <1>t DEF Defer, Complete, Fail, At, WorksOnADocument
  <2>2. worker' \in [Workers -> WorkerType] /\ WorksOnADocument'
    BY <1>6, WorkerMoves DEF Defer, Complete, Fail, At
  <2>3. active' \in BOOLEAN
    BY <1>6, <1>t DEF Defer, Complete, Fail
  <2>4. CASE ~Fence(w)
    BY <1>6, <2>2, <2>3, <2>4, NoDocumentWritten DEF Defer, Complete, Fail
  <2>5. CASE Fence(w)
    <3>1. /\ job[d].status = "running" /\ job[d].attempts > 0 /\ profile[d] # ""
          /\ ~(d \in Cancellations /\ profile[d] = "complete")
      BY <2>1, <2>5 DEF Fence, IInv, RunningWasClaimed, ProfileFollowsJob
    <3>2. ASSUME NEW status \in {"queued", "retry_wait", "complete", "manual_reconciliation"}
          PROVE  /\ Released(d, status) \in JobType /\ Released(d, status).status = status
                 /\ Released(d, status).attempts = job[d].attempts
      BY <1>t, <2>1 DEF Released, JobType
    <3>3. CASE Defer(w)
      <4> DEFINE a == Released(d, "queued").attempts - 1
                 r == [Released(d, "queued") EXCEPT !.attempts = a]
      <4>0. Released(d, "queued").attempts = job[d].attempts /\ job[d].attempts \in 0..MaxAttempts
        BY <1>n, <2>1, <3>2
      <4>a. ASSUME NEW x \in 0..MaxAttempts, x > 0
            PROVE  x - 1 \in 0..MaxAttempts
        BY <4>a, ProfileAssumption
      <4>1. a \in 0..MaxAttempts
        BY <3>1, <4>0, <4>a
      <4>2. r \in JobType /\ r.status = "queued"
        BY <3>2, <4>1 DEF JobType
      <4>3. job' = [job EXCEPT ![d] = r] /\ profile' = [profile EXCEPT ![d] = profile[d]]
        BY <1>t, <2>5, <3>3 DEF Defer
      <4> HIDE DEF a, r, d
      <4> QED
        BY <1>t, <2>1, <2>2, <2>3, <3>1, <4>2, <4>3, OneDocument
    <3>4. CASE Complete(w)
      <4>1. job' = [job EXCEPT ![d] = Released(d, "complete")] /\ profile' = [profile EXCEPT ![d] = "complete"]
        BY <2>5, <3>4 DEF Complete, CompletedProfile
      <4> HIDE DEF d
      <4> QED
        BY <2>1, <2>2, <2>3, <3>2, <4>1, OneDocument DEF Reported
    <3>5. CASE Fail(w)
      <4>1. PICK status \in {"retry_wait", "manual_reconciliation"} :
              /\ job' = [job EXCEPT ![d] = Released(d, status)]
              /\ profile' = [profile EXCEPT ![d] = IF status = "retry_wait" THEN "needs_reconciliation"
                                                   ELSE "terminal_failure"]
        BY <2>5, <3>5 DEF Fail
      <4> HIDE DEF d
      <4> QED
        BY <2>1, <2>2, <2>3, <3>2, <4>1, OneDocument DEF Reported
    <3> QED
      BY <1>6, <3>3, <3>4, <3>5
  <2> QED
    BY <2>4, <2>5
<1>7. CASE SwitchRoute \/ UNCHANGED vars
  BY <1>7, <1>t DEF SwitchRoute, vars, IInv, TypeOK, WorksOnADocument, RunningWasClaimed,
                    ProfileFollowsJob
<1> QED
  BY <1>1, <1>2, <1>3, <1>4, <1>5, <1>6, <1>7 DEF Next, OperatorStep, WorkerStep

LEMMA Invariance == Spec => []IInv
  BY InitIInv, NextIInv, PTL DEF Spec

-----------------------------------------------------------------------------
\* The rows keep their types; in particular no claim takes attempt_count out
\* of the range its CHECK allows.
THEOREM ProfileTypeCorrect == Spec => []TypeOK
  BY Invariance, PTL DEF IInv

\* The profile shown follows the job through every claim, failure and retry.
THEOREM ProfilesFollowJobs == Spec => []ProfileFollowsJob
  BY Invariance, PTL DEF IInv

\* A cancellation with an incomplete profile always has a repair job.
THEOREM IncompleteProfilesHaveJobs == Spec => []IncompleteProfileHasJob
<1>1. ASSUME IInv PROVE IncompleteProfileHasJob
  BY <1>1, ProfileAssumption DEF IInv, RunningWasClaimed, IncompleteProfileHasJob, Jobs
<1> QED
  BY <1>1, Invariance, PTL

-----------------------------------------------------------------------------
LEMMA RepairStep ==
  ASSUME IInv, [Next]_vars, NEW d \in Jobs, job[d].status = "complete"
  PROVE  job'[d].status = "complete" /\ profile'[d] = profile[d]
<1> USE ProfileAssumption
<1> USE DEF IInv, TypeOK, RunningWasClaimed, ProfileFollowsJob, WorksOnADocument, JobType, WorkerType
<1>1. ASSUME NEW e \in Jobs, OperatorStep(e) \/ LeaseExpires(e)
      PROVE  job'[d].status = "complete" /\ profile'[d] = profile[d]
  BY <1>1 DEF OperatorStep, ReportProfile, RetryDocument, DocumentRetryable, RetryCancellation,
              CancellationRetryable, Released, LeaseExpires
<1>2. ASSUME NEW w \in Workers, WorkerStep(w) \/ StepFails(w) \/ Abandon(w)
      PROVE  job'[d].status = "complete" /\ profile'[d] = profile[d]
  BY <1>2 DEF WorkerStep, StepFails, Abandon, Process, Defer, Complete, Fail, Fence, Released,
              CompletedProfile
<1>3. ASSUME NEW w \in Workers, NEW e \in Jobs, Claim(w, e)
      PROVE  job'[d].status = "complete" /\ profile'[d] = profile[d]
  BY <1>3 DEF Claim, Claimable, Due
<1>4. CASE SwitchRoute \/ UNCHANGED vars
  BY <1>4 DEF SwitchRoute, vars
<1> QED
  BY <1>1, <1>2, <1>3, <1>4 DEF Next

\* No late worker and no operator opens a repaired profile again.
THEOREM RepairsAreFinal == Spec => RepairIsFinal
<1>1. IInv /\ [Next]_vars =>
        [\A d \in Jobs : job[d].status = "complete"
           => job'[d].status = "complete" /\ profile'[d] = profile[d]]_vars
  BY RepairStep
<1> QED
  BY <1>1, Invariance, PTL DEF Spec, RepairIsFinal

LEMMA ClaimStep ==
  ASSUME IInv, [Next]_vars, NEW w \in Workers, NEW d \in Jobs,
         worker[w].document = d, Fence(w), ~job[d].expired, worker'[w].document = d
  PROVE  job'[d].status = "running" /\ job'[d].holder = w
<1>f. job[d].status = "running" /\ job[d].holder = w
  BY DEF Fence
<1>t. /\ \A e \in Jobs : job[e] \in JobType
      /\ job = [e \in Jobs |-> job[e]] /\ worker = [v \in Workers |-> worker[v]]
      /\ \A v \in Workers : worker[v].pc # "idle" => worker[v].document \in Jobs
  BY DEF IInv, TypeOK, WorksOnADocument
<1>s. SUFFICES job'[d] = job[d] \/ job'[d] = [job[d] EXCEPT !.expired = TRUE]
  BY <1>f, <1>t DEF JobType
<1>1. ASSUME NEW e \in Jobs, OperatorStep(e)
      PROVE  job'[d] = job[d]
  <2>1. e # d
    BY <1>1, <1>f DEF OperatorStep, ReportProfile, RetryDocument, DocumentRetryable,
                      RetryCancellation, CancellationRetryable, IInv, RunningWasClaimed
  <2> QED
    BY <1>1, <1>t, <2>1 DEF OperatorStep, ReportProfile, RetryDocument, RetryCancellation
<1>2. ASSUME NEW e \in Jobs, LeaseExpires(e)
      PROVE  job'[d] = job[d] \/ job'[d] = [job[d] EXCEPT !.expired = TRUE]
  BY <1>2, <1>t DEF LeaseExpires
<1>3. ASSUME NEW v \in Workers, Process(v) \/ StepFails(v) \/ Abandon(v)
      PROVE  job'[d] = job[d]
  BY <1>3 DEF Process, StepFails, Abandon
<1>4. ASSUME NEW v \in Workers, Defer(v) \/ Complete(v) \/ Fail(v)
      PROVE  job'[d] = job[d]
  <2>1. CASE v = w /\ Fence(w)
    <3>1. worker'[w] = IdleWorker
      BY <1>4, <1>t, <2>1 DEF Defer, Complete, Fail, Rest
    <3>2. NoDocument \notin Jobs
      BY ProfileAssumption
    <3> QED
      BY <3>1, <3>2 DEF IdleWorker
  <2>2. CASE ~Fence(v)
    BY <1>4, <2>2 DEF Defer, Complete, Fail
  <2>3. CASE v # w /\ Fence(v)
    <3>1. worker[v].document # d
      BY <1>f, <2>3 DEF Fence
    <3>2. worker[v].document \in Jobs
      BY <1>4, <1>t DEF Defer, Complete, Fail, At
    <3> QED
      BY <1>4, <1>t, <3>1, <3>2 DEF Defer, Complete, Fail
  <2> QED
    BY <2>1, <2>2, <2>3
<1>5. ASSUME NEW v \in Workers, NEW e \in Jobs, Claim(v, e)
      PROVE  job'[d] = job[d]
  <2>1. e # d
    BY <1>5, <1>f DEF Claim, Claimable, Due
  <2> QED
    BY <1>5, <1>t, <2>1 DEF Claim
<1>6. CASE SwitchRoute \/ UNCHANGED vars
  BY <1>6 DEF SwitchRoute, vars
<1> QED
  BY <1>1, <1>2, <1>3, <1>4, <1>5, <1>6 DEF Next, WorkerStep

\* Within its lease a claim belongs to its worker alone.
THEOREM LiveClaimsAreKept == Spec => LiveClaimIsKept
<1>1. IInv /\ [Next]_vars =>
        [\A w \in Workers, d \in Jobs :
           worker[w].document = d /\ Fence(w) /\ ~job[d].expired /\ worker'[w].document = d
             => job'[d].status = "running" /\ job'[d].holder = w]_vars
  BY ClaimStep
<1> QED
  BY <1>1, Invariance, PTL DEF Spec, LiveClaimIsKept
=============================================================================
