--------------------------- MODULE BulkSendProofs ---------------------------
(***************************************************************************)
(* The safety properties of BulkSend, for any number of jobs, any finite   *)
(* set of bills and any number of stops and repeated requests.             *)
(***************************************************************************)
EXTENDS BulkSend, FiniteSetTheorems, TLAPS

Claims(j, b) == Active(j) /\ ItemActive(j, b)

(* The goroutine of a job that nobody has started twice is there only      *)
(* while the job is active, and its bills are those the job claims.        *)
RunnerAgrees(j) ==
  /\ runner[j].pc # "none" => up
  /\ runner[j].pc = "none" => runner[j].todo = {}
  /\ runner[j].bill \in Bills <=> runner[j].pc \in {"sending", "recording"}
  /\ runner[j].pc = "recording" /\ runner[j].outcome = "sent" => runner[j].bill \in sent
  /\ j \notin repeated =>
       /\ runner[j].pc # "none" => Active(j)
       /\ runner[j].bill \in Bills => item[j][runner[j].bill] = "running"
       /\ \A b \in runner[j].todo : item[j][b] = "queued"

(* A job whose rows were not inserted has no goroutine.                    *)
NewJobIsIdle(j) == job[j].status = "none" => j \notin repeated

Reported(j) ==
  job[j].status \in {"completed", "completed_with_errors"} /\ j \notin repeated =>
    /\ job[j].counts = Counted(item[j])
    /\ job[j].status = "completed" <=> Count(item[j], "failed") = 0
SentIsSent(j) == \A b \in Bills : item[j][b] = "sent" => b \in sent

JobAgrees(j) == RunnerAgrees(j) /\ NewJobIsIdle(j) /\ Reported(j) /\ SentIsSent(j)

(* The claims of two jobs differ.                                          *)
OneClaim == \A j, k \in Jobs \ repeated, b \in Bills : Claims(j, b) /\ Claims(k, b) => j = k

IInv == TypeOK /\ (\A j \in Jobs : JobAgrees(j)) /\ OneClaim

-----------------------------------------------------------------------------
LEMMA CountIsNat ==
  ASSUME NEW items \in [Bills -> ItemStatuses], NEW status \in ItemStatuses
  PROVE  Count(items, status) \in Nat
<1>1. IsFiniteSet({b \in Bills : items[b] = status})
  BY BulkAssumption, FS_Subset
<1> QED
  BY <1>1, FS_CardinalityType DEF Count

LEMMA CountedIsCounts ==
  ASSUME NEW items \in [Bills -> ItemStatuses]
  PROVE  Counted(items) \in Counts /\ Counted(items).failed = Count(items, "failed")
<1>1. Count(items, "sent") \in Nat /\ Count(items, "failed") \in Nat /\ Count(items, "skipped") \in Nat
  BY CountIsNat DEF ItemStatuses
<1> QED
  BY <1>1 DEF Counted, Counts

LEMMA JobRows ==
  ASSUME NEW r \in JobType,
         NEW status \in {"none", "queued", "running", "completed", "completed_with_errors", "failed"},
         NEW counts \in Counts
  PROVE  /\ [r EXCEPT !.status = status] \in JobType
         /\ [r EXCEPT !.status = status].status = status
         /\ [r EXCEPT !.status = status].counts = r.counts
         /\ [r EXCEPT !.counts = counts] \in JobType
         /\ [r EXCEPT !.counts = counts].status = r.status
         /\ [r EXCEPT !.counts = counts].counts = counts
BY DEF JobType

LEMMA RunnerRows ==
  ASSUME NEW r \in RunnerType, NEW pc \in {"none", "started", "looping", "sending", "recording"},
         NEW todo \in SUBSET Bills, NEW outcome \in ItemStatuses, NEW bill \in Bills \cup {NoBill}
  PROVE  /\ [r EXCEPT !.pc = pc] \in RunnerType
         /\ [r EXCEPT !.pc = pc].pc = pc /\ [r EXCEPT !.pc = pc].todo = r.todo
         /\ [r EXCEPT !.pc = pc].bill = r.bill
         /\ [pc |-> pc, todo |-> todo, bill |-> bill, outcome |-> outcome] \in RunnerType
         /\ r = [pc |-> r.pc, todo |-> r.todo, bill |-> r.bill, outcome |-> r.outcome]
         /\ r.todo \in SUBSET Bills /\ r.bill \in Bills \cup {NoBill} /\ r.outcome \in ItemStatuses
BY DEF RunnerType

LEMMA NoRunnerRow ==
  /\ NoRunner \in RunnerType /\ NoRunner.pc = "none" /\ NoRunner.bill = NoBill
  /\ NoRunner.todo = {} /\ NoRunner.outcome = "none" /\ NoBill \notin Bills
BY BulkAssumption DEF NoRunner, RunnerType, ItemStatuses

LEMMA InitIInv == Init => IInv
<1> SUFFICES ASSUME Init PROVE IInv
  OBVIOUS
<1>1. /\ job \in [Jobs -> JobType] /\ \A j \in Jobs : job[j].status = "none"
  BY DEF Init, JobType, NoCounts, Counts
<1>2. item \in [Jobs -> [Bills -> ItemStatuses]] /\ \A j \in Jobs, b \in Bills : item[j][b] = "none"
  BY DEF Init, ItemStatuses
<1>3. runner \in [Jobs -> RunnerType]
      /\ \A j \in Jobs : runner[j].pc = "none" /\ runner[j].bill \notin Bills /\ runner[j].todo = {}
  BY NoRunnerRow DEF Init
<1>4. sent = {} /\ left = {} /\ repeated = {} /\ up = TRUE
  BY DEF Init
<1>5. incidents = 0
  BY DEF Init
<1>6. incidents \in 0..MaxIncidents
  BY <1>5, BulkAssumption
<1>7. TypeOK
  BY <1>1, <1>2, <1>3, <1>4, <1>6 DEF TypeOK
<1>8. \A j \in Jobs : JobAgrees(j)
  BY <1>1, <1>2, <1>3, <1>4 DEF JobAgrees, RunnerAgrees, NewJobIsIdle, Reported, SentIsSent
<1>9. OneClaim
  BY <1>1 DEF OneClaim, Claims, Active
<1> QED
  BY <1>7, <1>8, <1>9 DEF IInv

-----------------------------------------------------------------------------
(* The rows and the goroutine of one job change, and bills may be sent.    *)
LEMMA OneJob ==
  ASSUME IInv, NEW j \in Jobs, NEW r \in JobType, NEW items \in [Bills -> ItemStatuses], NEW g \in RunnerType,
         job' = [job EXCEPT ![j] = r], item' = [item EXCEPT ![j] = items], runner' = [runner EXCEPT ![j] = g],
         sent \subseteq sent', sent' \subseteq Bills, left' \subseteq Jobs, UNCHANGED up,
         repeated' \in {repeated, repeated \cup {j}}, incidents' \in 0..MaxIncidents,
         g.pc # "none" => up,
         g.pc = "none" => g.todo = {},
         g.bill \in Bills <=> g.pc \in {"sending", "recording"},
         g.pc = "recording" /\ g.outcome = "sent" => g.bill \in sent',
         j \notin repeated' =>
           /\ g.pc # "none" => r.status \in {"queued", "running"}
           /\ g.bill \in Bills => items[g.bill] = "running"
           /\ \A b \in g.todo : items[b] = "queued"
           /\ r.status \in {"completed", "completed_with_errors"} =>
                r.counts = Counted(items) /\ (r.status = "completed" <=> Count(items, "failed") = 0)
           /\ \A b \in Bills : r.status \in {"queued", "running"} /\ items[b] \in {"queued", "running"} =>
                Claims(j, b) \/ \A k \in Jobs \ {j} : ~Claims(k, b),
         r.status = "none" => j \notin repeated',
         \A b \in Bills : items[b] = "sent" => b \in sent'
  PROVE  IInv'
<1>1. /\ job'[j] = r /\ item'[j] = items /\ runner'[j] = g
      /\ \A k \in Jobs \ {j} : job'[k] = job[k] /\ item'[k] = item[k] /\ runner'[k] = runner[k]
  BY DEF IInv, TypeOK
<1>2. TypeOK'
  BY DEF IInv, TypeOK
<1>3. JobAgrees(j)'
  <2>1. RunnerAgrees(j)'
    BY <1>1 DEF RunnerAgrees, Active, ItemActive
  <2>2. NewJobIsIdle(j)' /\ SentIsSent(j)'
    BY <1>1 DEF NewJobIsIdle, SentIsSent
  <2>3. Reported(j)'
    <3>1. item'[j] = items /\ job'[j] = r
      BY <1>1
    <3>2. Counted(item'[j]) = Counted(items) /\ Count(item'[j], "failed") = Count(items, "failed")
      BY <3>1
    <3> QED
      BY <3>1, <3>2 DEF Reported
  <2> QED
    BY <2>1, <2>2, <2>3 DEF JobAgrees
<1>4. ASSUME NEW k \in Jobs \ {j} PROVE JobAgrees(k)'
  <2>1. JobAgrees(k) /\ (k \in repeated' <=> k \in repeated)
    BY DEF IInv
  <2>2. RunnerAgrees(k)'
    BY <1>1, <2>1 DEF JobAgrees, RunnerAgrees, Active, ItemActive
  <2>3. NewJobIsIdle(k)' /\ SentIsSent(k)'
    BY <1>1, <2>1 DEF JobAgrees, NewJobIsIdle, SentIsSent
  <2>4. Reported(k)'
    BY <1>1, <2>1 DEF JobAgrees, Reported, Counted, Count
  <2> QED
    BY <2>2, <2>3, <2>4 DEF JobAgrees
<1>5. OneClaim'
  <2> SUFFICES ASSUME NEW k \in Jobs \ repeated', NEW l \in Jobs \ repeated', NEW b \in Bills,
                      Claims(k, b)', Claims(l, b)', k # l
               PROVE  FALSE
    BY DEF OneClaim
  <2>1. k \notin repeated /\ l \notin repeated
    OBVIOUS
  <2>2. ASSUME NEW m \in Jobs \ {j}, Claims(m, b)' PROVE Claims(m, b)
    BY <1>1, <2>2 DEF Claims, Active, ItemActive
  <2>3. CASE k # j /\ l # j
    BY <2>1, <2>2, <2>3 DEF IInv, OneClaim
  <2>4. ASSUME NEW m \in Jobs \ {j}, Claims(m, b)', Claims(j, b)', m \notin repeated, j \notin repeated'
        PROVE  FALSE
    <3>1. Claims(m, b) /\ r.status \in {"queued", "running"} /\ items[b] \in {"queued", "running"}
      BY <1>1, <2>2, <2>4 DEF Claims, Active, ItemActive
    <3>2. Claims(j, b)
      BY <2>4, <3>1
    <3>3. j \notin repeated
      BY <2>4
    <3> QED
      BY <2>4, <3>1, <3>2, <3>3 DEF IInv, OneClaim
  <2> QED
    BY <2>1, <2>3, <2>4
<1> QED
  BY <1>2, <1>3, <1>4, <1>5 DEF IInv

(* What is known of a job whose goroutine takes a step.                    *)
LEMMA Working ==
  ASSUME IInv, NEW j \in Jobs
  PROVE  /\ job[j] \in JobType /\ item[j] \in [Bills -> ItemStatuses] /\ runner[j] \in RunnerType
         /\ JobAgrees(j)
         /\ job[j] = [status |-> job[j].status, counts |-> job[j].counts]
         /\ job[j].counts \in Counts
         /\ \A b \in Bills : item[j][b] \in ItemStatuses
         /\ runner[j].pc # "none" => job[j].status # "none"
         /\ Counted(item[j]) \in Counts /\ Counted(item[j]).failed = Count(item[j], "failed")
         /\ incidents \in 0..MaxIncidents
<1>1. /\ job[j] \in JobType /\ item[j] \in [Bills -> ItemStatuses] /\ runner[j] \in RunnerType
      /\ JobAgrees(j) /\ incidents \in 0..MaxIncidents
  BY DEF IInv, TypeOK
<1>2. job[j] = [status |-> job[j].status, counts |-> job[j].counts] /\ job[j].counts \in Counts
  BY <1>1 DEF JobType
<1>3. Counted(item[j]) \in Counts /\ Counted(item[j]).failed = Count(item[j], "failed")
  BY <1>1, CountedIsCounts
<1>4. runner[j].pc # "none" => job[j].status # "none"
  BY <1>1 DEF JobAgrees, RunnerAgrees, NewJobIsIdle, Active
<1> QED
  BY <1>1, <1>2, <1>3, <1>4

LEMMA CreateIInv == ASSUME IInv, NEW j \in Jobs, NEW set \in SUBSET Bills, Create(j, set) PROVE IInv'
<1> DEFINE items == [b \in Bills |-> IF b \in set THEN "queued" ELSE "none"]
<1>w. /\ job[j] \in JobType /\ runner[j] \in RunnerType /\ JobAgrees(j) /\ incidents \in 0..MaxIncidents
      /\ job[j].counts \in Counts
  BY Working
<1>1. up /\ job[j].status = "none" /\ j \notin repeated /\ ~Active(j) /\ runner[j].pc = "none"
      /\ runner[j].todo = {}
  BY <1>w DEF Create, JobAgrees, NewJobIsIdle, RunnerAgrees, Active
<1>2. PICK r \in JobType : r = [job[j] EXCEPT !.status = "queued"] /\ r.status = "queued"
  <2>1. /\ [job[j] EXCEPT !.status = "queued"] \in JobType
        /\ [job[j] EXCEPT !.status = "queued"].status = "queued"
    BY <1>w, JobRows
  <2> QED
    BY <2>1
<1>3. job' = [job EXCEPT ![j] = r]
  BY <1>2 DEF Create
<1>4. items \in [Bills -> ItemStatuses] /\ item' = [item EXCEPT ![j] = items]
      /\ \A b \in Bills : items[b] \in {"queued", "none"} /\ (items[b] = "queued" => b \in set)
  BY DEF Create, ItemStatuses
<1>5. PICK g \in RunnerType : /\ g.pc \in {"none", "started"} /\ g.todo = {} /\ g.bill = runner[j].bill
                              /\ runner' = [runner EXCEPT ![j] = g]
  <2>1. CASE Goto(j, "started")
    <3>1. PICK g \in RunnerType : /\ g = [runner[j] EXCEPT !.pc = "started"] /\ g.pc = "started"
                                  /\ g.todo = runner[j].todo /\ g.bill = runner[j].bill
      <4>1. "none" \in ItemStatuses /\ runner[j].todo \in SUBSET Bills /\ runner[j].bill \in Bills \cup {NoBill}
        BY <1>w DEF ItemStatuses, RunnerType
      <4> QED
        BY <1>w, <4>1, RunnerRows
    <3> QED
      BY <1>1, <2>1, <3>1 DEF Goto
  <2>2. CASE UNCHANGED runner
    <3>1. runner = [runner EXCEPT ![j] = runner[j]]
      BY DEF IInv, TypeOK
    <3> QED
      BY <1>1, <1>w, <2>2, <3>1
  <2> QED
    BY <2>1, <2>2 DEF Create
<1>6. /\ sent' = sent /\ sent \subseteq Bills /\ repeated' = repeated /\ incidents' = incidents /\ UNCHANGED up
      /\ left' \subseteq Jobs
  BY DEF Create, process, IInv, TypeOK
<1>7. g.bill \notin Bills
  BY <1>1, <1>w, <1>5 DEF JobAgrees, RunnerAgrees
<1>8. ASSUME NEW b \in Bills, items[b] \in {"queued", "running"}, NEW k \in Jobs \ {j} PROVE ~Claims(k, b)
  BY <1>4, <1>8 DEF Create, Conflict, Claims
<1> HIDE DEF items
<1> QED
  BY <1>w, <1>1, <1>2, <1>3, <1>4, <1>5, <1>6, <1>7, <1>8, OneJob

LEMMA RepeatIInv == ASSUME IInv, NEW j \in Jobs, RepeatBulkSendJob(j) PROVE IInv'
<1>w. /\ job[j] \in JobType /\ item[j] \in [Bills -> ItemStatuses] /\ runner[j] \in RunnerType
      /\ JobAgrees(j) /\ incidents \in 0..MaxIncidents
  BY Working
<1>1. up /\ job[j].status # "none" /\ runner[j].pc = "none" /\ runner[j].todo = {} /\ runner[j].bill \notin Bills
  BY <1>w DEF RepeatBulkSendJob, At, JobAgrees, RunnerAgrees
<1>2. PICK g \in RunnerType : /\ g = [runner[j] EXCEPT !.pc = "started"] /\ g.pc = "started"
                              /\ g.todo = runner[j].todo /\ g.bill = runner[j].bill
  <2>1. "none" \in ItemStatuses /\ runner[j].todo \in SUBSET Bills /\ runner[j].bill \in Bills \cup {NoBill}
    BY <1>w DEF ItemStatuses, RunnerType
  <2> QED
    BY <1>w, <2>1, RunnerRows
<1>3. /\ runner' = [runner EXCEPT ![j] = g] /\ job' = [job EXCEPT ![j] = job[j]]
      /\ item' = [item EXCEPT ![j] = item[j]]
  BY <1>2 DEF RepeatBulkSendJob, Goto, IInv, TypeOK
<1>4. /\ sent' = sent /\ sent \subseteq Bills /\ repeated' = repeated \cup {j} /\ j \in repeated'
      /\ UNCHANGED up /\ left' \subseteq Jobs
  BY DEF RepeatBulkSendJob, IInv, TypeOK
<1>5. incidents' \in 0..MaxIncidents
  BY <1>w, BulkAssumption DEF RepeatBulkSendJob
<1>6. \A b \in Bills : item[j][b] = "sent" => b \in sent'
  BY <1>w, <1>4 DEF JobAgrees, SentIsSent
<1> QED
  BY <1>w, <1>1, <1>2, <1>3, <1>4, <1>5, <1>6, OneJob

LEMMA StartJobIInv == ASSUME IInv, NEW j \in Jobs, StartJob(j) PROVE IInv'
<1>w. /\ job[j] \in JobType /\ item[j] \in [Bills -> ItemStatuses] /\ runner[j] \in RunnerType
      /\ JobAgrees(j) /\ incidents \in 0..MaxIncidents /\ job[j].status # "none"
      /\ job[j].counts \in Counts
  BY Working DEF StartJob, At
<1> DEFINE g == [runner[j] EXCEPT !.pc = "looping", !.todo = {b \in Bills : item[j][b] = "queued"}]
<1>1. /\ g \in RunnerType /\ g.pc = "looping" /\ g.bill = runner[j].bill
      /\ g.todo = {b \in Bills : item[j][b] = "queued"}
  BY <1>w DEF RunnerType
<1>2. PICK r \in JobType :
        /\ job' = [job EXCEPT ![j] = r]
        /\ IF Active(j) THEN r.status = "running" ELSE r = job[j]
  <2>1. /\ [job[j] EXCEPT !.status = "running"] \in JobType
        /\ [job[j] EXCEPT !.status = "running"].status = "running"
    BY <1>w, JobRows
  <2>2. job = [job EXCEPT ![j] = job[j]]
    BY DEF IInv, TypeOK
  <2>3. CASE Active(j)
    BY <2>1, <2>3 DEF StartJob
  <2>4. CASE ~Active(j)
    BY <1>w, <2>2, <2>4 DEF StartJob
  <2> QED
    BY <2>3, <2>4
<1>3. runner' = [runner EXCEPT ![j] = g] /\ item' = [item EXCEPT ![j] = item[j]]
  BY DEF StartJob, IInv, TypeOK
<1>4. /\ sent' = sent /\ sent \subseteq Bills /\ repeated' = repeated /\ incidents' = incidents /\ UNCHANGED up
      /\ left' \subseteq Jobs
  BY DEF StartJob, process, IInv, TypeOK
<1>5. /\ up /\ runner[j].bill \notin Bills /\ (j \notin repeated => Active(j))
      /\ \A b \in Bills : item[j][b] = "sent" => b \in sent'
  BY <1>w, <1>4 DEF StartJob, At, JobAgrees, RunnerAgrees, SentIsSent
<1>6. ASSUME j \notin repeated
      PROVE  /\ r.status = "running"
             /\ \A b \in Bills : item[j][b] \in {"queued", "running"} => Claims(j, b)
  BY <1>2, <1>5, <1>6 DEF Claims, ItemActive
<1>7. r.status # "none"
  BY <1>2, <1>w
<1> HIDE DEF g
<1> QED
  BY <1>w, <1>1, <1>2, <1>3, <1>4, <1>5, <1>6, <1>7, OneJob

(* The end of a goroutine, whatever it could record of the job.            *)
LEMMA Ending ==
  ASSUME IInv, NEW j \in Jobs, NEW r \in JobType, runner[j].pc # "none",
         job' = [job EXCEPT ![j] = r], End(j), UNCHANGED <<item, sent, process>>, left' \subseteq Jobs,
         r.status # "none",
         j \notin repeated =>
           (r.status \in {"completed", "completed_with_errors"} =>
              r.counts = Counted(item[j]) /\ (r.status = "completed" <=> Count(item[j], "failed") = 0))
  PROVE  IInv'
<1>w. /\ item[j] \in [Bills -> ItemStatuses] /\ JobAgrees(j) /\ incidents \in 0..MaxIncidents
  BY Working
<1>1. runner' = [runner EXCEPT ![j] = NoRunner] /\ item' = [item EXCEPT ![j] = item[j]]
  BY DEF End, IInv, TypeOK
<1>2. /\ sent' = sent /\ sent \subseteq Bills /\ repeated' = repeated /\ incidents' = incidents /\ UNCHANGED up
  BY DEF process, IInv, TypeOK
<1>3. \A b \in Bills : item[j][b] = "sent" => b \in sent'
  BY <1>w, <1>2 DEF JobAgrees, SentIsSent
<1>4. j \notin repeated => \A b \in Bills : item[j][b] \in {"queued", "running"} => Claims(j, b)
  BY <1>w DEF JobAgrees, RunnerAgrees, Claims, ItemActive
<1> QED
  BY <1>w, <1>1, <1>2, <1>3, <1>4, NoRunnerRow, OneJob

LEMMA FailJobIInv ==
  ASSUME IInv, NEW j \in Jobs, runner[j].pc # "none", NEW q \in JobType, q.status = job[j].status,
         NEW rows, rows = [job EXCEPT ![j] = q], FailJob(j, rows)
  PROVE  IInv'
<1>w. /\ job[j] \in JobType /\ JobAgrees(j) /\ job[j].status # "none" /\ q.counts \in Counts
  BY Working DEF JobType
<1>1. End(j) /\ UNCHANGED <<item, sent, process>> /\ left' \subseteq Jobs
  BY DEF FailJob, IInv, TypeOK
<1>2. j \notin repeated => q.status \in {"queued", "running"}
  BY <1>w DEF JobAgrees, RunnerAgrees, Active
<1>3. PICK r \in JobType : job' = [job EXCEPT ![j] = r] /\ r.status \in {"failed", q.status}
  <2>1. [q EXCEPT !.status = "failed"] \in JobType /\ [q EXCEPT !.status = "failed"].status = "failed"
    BY <1>w, JobRows
  <2>2. rows[j] = q /\ [rows EXCEPT ![j] = [q EXCEPT !.status = "failed"]]
                         = [job EXCEPT ![j] = [q EXCEPT !.status = "failed"]]
    BY DEF IInv, TypeOK
  <2>3. CASE job' = [rows EXCEPT ![j].status = "failed"]
    <3>1. [rows EXCEPT ![j].status = "failed"] = [rows EXCEPT ![j] = [q EXCEPT !.status = "failed"]]
      BY <2>2
    <3> QED
      BY <2>1, <2>2, <2>3, <3>1
  <2>4. CASE job' = rows
    BY <2>4
  <2> QED
    BY <2>3, <2>4 DEF FailJob
<1> QED
  BY <1>w, <1>1, <1>2, <1>3, Ending

(* A step of a goroutine that leaves the job's own row alone.              *)
LEMMA ItemStep ==
  ASSUME IInv, NEW j \in Jobs, NEW r \in JobType, NEW items \in [Bills -> ItemStatuses], NEW g \in RunnerType,
         runner[j].pc # "none", g.pc \in {"looping", "sending", "recording"}, r.status = job[j].status,
         job' = [job EXCEPT ![j] = r], item' = [item EXCEPT ![j] = items], runner' = [runner EXCEPT ![j] = g],
         sent \subseteq sent', sent' \subseteq Bills, UNCHANGED <<left, process>>,
         g.bill \in Bills <=> g.pc \in {"sending", "recording"},
         g.pc = "recording" /\ g.outcome = "sent" => g.bill \in sent',
         j \notin repeated =>
           /\ g.bill \in Bills => items[g.bill] = "running"
           /\ \A b \in g.todo : items[b] = "queued"
           /\ \A b \in Bills : items[b] \in {"queued", "running"} => item[j][b] \in {"queued", "running"},
         \A b \in Bills : items[b] = "sent" => b \in sent'
  PROVE  IInv'
<1>w. JobAgrees(j) /\ incidents \in 0..MaxIncidents /\ job[j].status # "none"
  BY Working
<1>1. /\ up /\ left' \subseteq Jobs /\ UNCHANGED up /\ repeated' = repeated /\ incidents' = incidents
      /\ g.pc # "none"
  BY <1>w DEF process, IInv, TypeOK, JobAgrees, RunnerAgrees
<1>2. j \notin repeated => Active(j) /\ r.status \in {"queued", "running"}
  BY <1>w DEF JobAgrees, RunnerAgrees, Active
<1>3. j \notin repeated => \A b \in Bills : items[b] \in {"queued", "running"} => Claims(j, b)
  BY <1>2 DEF Claims, ItemActive
<1> QED
  BY <1>w, <1>1, <1>2, <1>3, OneJob

LEMMA StartItemIInv == ASSUME IInv, NEW j \in Jobs, NEW b \in Bills, StartItem(j, b) PROVE IInv'
<1>w. /\ job[j] \in JobType /\ item[j] \in [Bills -> ItemStatuses] /\ runner[j] \in RunnerType /\ JobAgrees(j)
  BY Working
<1>1. /\ runner[j].pc = "looping" /\ b \in runner[j].todo /\ UNCHANGED <<job, sent, left, process>>
  BY DEF StartItem, At
<1> DEFINE g == [runner[j] EXCEPT !.pc = "sending", !.bill = b, !.todo = runner[j].todo \ {b}]
           items == [item[j] EXCEPT ![b] = "running"]
<1>2. /\ g \in RunnerType /\ g.pc = "sending" /\ g.bill = b /\ g.todo = runner[j].todo \ {b}
  BY <1>w DEF RunnerType
<1>3. /\ items \in [Bills -> ItemStatuses] /\ items[b] = "running"
      /\ \A c \in Bills \ {b} : items[c] = item[j][c]
  BY <1>w DEF ItemStatuses
<1>4. item' = [item EXCEPT ![j] = items] /\ runner' = [runner EXCEPT ![j] = g] /\ job' = [job EXCEPT ![j] = job[j]]
  BY <1>1 DEF StartItem, IInv, TypeOK
<1>5. sent \subseteq sent' /\ sent' \subseteq Bills /\ runner[j].todo \in SUBSET Bills
  BY <1>1, <1>w DEF IInv, TypeOK, RunnerType
<1> HIDE DEF g, items
<1>6. \A c \in Bills : items[c] = "sent" => c \in sent'
  BY <1>w, <1>3, <1>5 DEF JobAgrees, SentIsSent
<1>7. ASSUME j \notin repeated
      PROVE  /\ \A c \in g.todo : items[c] = "queued"
             /\ \A c \in Bills : items[c] \in {"queued", "running"} => item[j][c] \in {"queued", "running"}
  BY <1>w, <1>1, <1>2, <1>3, <1>5, <1>7 DEF JobAgrees, RunnerAgrees
<1> QED
  BY <1>w, <1>1, <1>2, <1>3, <1>4, <1>5, <1>6, <1>7, ItemStep

LEMMA StartItemFailsIInv == ASSUME IInv, NEW j \in Jobs, NEW b \in Bills, StartItemFails(j, b) PROVE IInv'
<1>w. /\ job[j] \in JobType /\ item[j] \in [Bills -> ItemStatuses] /\ runner[j] \in RunnerType /\ JobAgrees(j)
  BY Working
<1>1. /\ runner[j].pc = "looping" /\ UNCHANGED <<job, item, sent, left, process>>
  BY DEF StartItemFails, At
<1> DEFINE g == [runner[j] EXCEPT !.todo = runner[j].todo \ {b}]
<1>2. /\ g \in RunnerType /\ g.pc = "looping" /\ g.bill = runner[j].bill /\ g.todo = runner[j].todo \ {b}
  BY <1>w, <1>1 DEF RunnerType
<1>4. /\ item' = [item EXCEPT ![j] = item[j]] /\ job' = [job EXCEPT ![j] = job[j]]
      /\ runner' = [runner EXCEPT ![j] = g]
  BY <1>1 DEF StartItemFails, IInv, TypeOK
<1>5. sent \subseteq sent' /\ sent' \subseteq Bills
  BY <1>1 DEF IInv, TypeOK
<1> HIDE DEF g
<1>6. \A c \in Bills : item[j][c] = "sent" => c \in sent'
  BY <1>w, <1>5 DEF JobAgrees, SentIsSent
<1>7. g.bill \notin Bills /\ (j \notin repeated => \A c \in g.todo : item[j][c] = "queued")
  BY <1>w, <1>1, <1>2 DEF JobAgrees, RunnerAgrees
<1> QED
  BY <1>w, <1>1, <1>2, <1>4, <1>5, <1>6, <1>7, ItemStep

LEMMA SendBillIInv == ASSUME IInv, NEW j \in Jobs, SendBillToSML(j) PROVE IInv'
<1>w. /\ job[j] \in JobType /\ item[j] \in [Bills -> ItemStatuses] /\ runner[j] \in RunnerType /\ JobAgrees(j)
  BY Working
<1>1. /\ runner[j].pc = "sending" /\ UNCHANGED <<job, item, left, process>>
  BY DEF SendBillToSML, At
<1>2. PICK outcome \in {"sent", "failed", "skipped"} :
        /\ sent' = SentAfter(runner[j].bill, outcome)
        /\ runner' = [runner EXCEPT ![j] = [runner[j] EXCEPT !.pc = "recording", !.outcome = outcome]]
  BY DEF SendBillToSML, IInv, TypeOK
<1> DEFINE g == [runner[j] EXCEPT !.pc = "recording", !.outcome = outcome]
<1>3. /\ g \in RunnerType /\ g.pc = "recording" /\ g.bill = runner[j].bill /\ g.todo = runner[j].todo
      /\ g.outcome = outcome
  BY <1>w DEF RunnerType, ItemStatuses
<1>4. /\ item' = [item EXCEPT ![j] = item[j]] /\ job' = [job EXCEPT ![j] = job[j]]
      /\ runner' = [runner EXCEPT ![j] = g]
  BY <1>1, <1>2 DEF IInv, TypeOK
<1> HIDE DEF g
<1>5. g.bill \in Bills
  BY <1>w, <1>1, <1>3 DEF JobAgrees, RunnerAgrees
<1>6. sent \subseteq sent' /\ sent' \subseteq Bills /\ (outcome = "sent" => g.bill \in sent')
  BY <1>2, <1>3, <1>5 DEF SentAfter, IInv, TypeOK
<1>7. \A c \in Bills : item[j][c] = "sent" => c \in sent'
  BY <1>w, <1>6 DEF JobAgrees, SentIsSent
<1>8. j \notin repeated => item[j][g.bill] = "running" /\ \A c \in g.todo : item[j][c] = "queued"
  BY <1>w, <1>3, <1>5 DEF JobAgrees, RunnerAgrees
<1> QED
  BY <1>w, <1>1, <1>3, <1>4, <1>5, <1>6, <1>7, <1>8, ItemStep

LEMMA FinishItemIInv == ASSUME IInv, NEW j \in Jobs, FinishItem(j) PROVE IInv'
<1>w. /\ job[j] \in JobType /\ item[j] \in [Bills -> ItemStatuses] /\ runner[j] \in RunnerType /\ JobAgrees(j)
  BY Working
<1>1. runner[j].pc = "recording" /\ UNCHANGED <<sent, left, process>>
  BY DEF FinishItem, At
<1>2. runner[j].bill \in Bills /\ runner[j].outcome \in ItemStatuses
  BY <1>w, <1>1 DEF JobAgrees, RunnerAgrees, RunnerType
<1>3. PICK items \in {item[j], [item[j] EXCEPT ![runner[j].bill] = runner[j].outcome]} :
        item' = [item EXCEPT ![j] = items]
  BY DEF FinishItem, IInv, TypeOK
<1>4. /\ items \in [Bills -> ItemStatuses]
      /\ items[runner[j].bill] \in {item[j][runner[j].bill], runner[j].outcome}
      /\ \A c \in Bills : c # runner[j].bill => items[c] = item[j][c]
  BY <1>w, <1>2, <1>3
<1>5. item'[j] = items /\ Counted(items) \in Counts
  BY <1>3, <1>4, CountedIsCounts DEF IInv, TypeOK
<1>6. PICK r \in JobType : job' = [job EXCEPT ![j] = r] /\ r.status = job[j].status
  <2>1. CASE job' = job
    <3>1. job = [job EXCEPT ![j] = job[j]]
      BY DEF IInv, TypeOK
    <3> QED
      BY <1>w, <2>1, <3>1
  <2>2. CASE job' = [job EXCEPT ![j].counts = Counted(item'[j])]
    <3> DEFINE counts == Counted(items)
    <3>1. counts \in Counts /\ job' = [job EXCEPT ![j].counts = counts]
      BY <1>5, <2>2
    <3> HIDE DEF counts
    <3>2. [job[j] EXCEPT !.counts = counts] \in JobType /\ [job[j] EXCEPT !.counts = counts].status = job[j].status
      BY <1>w, <3>1 DEF JobType
    <3> QED
      BY <3>1, <3>2
  <2> QED
    BY <2>1, <2>2 DEF FinishItem
<1> DEFINE g == [runner[j] EXCEPT !.pc = "looping", !.bill = NoBill, !.outcome = "none"]
<1>7. /\ g \in RunnerType /\ g.pc = "looping" /\ g.bill = NoBill /\ g.todo = runner[j].todo
      /\ runner' = [runner EXCEPT ![j] = g]
  BY <1>w DEF FinishItem, RunnerType, ItemStatuses, IInv, TypeOK
<1> HIDE DEF g
<1>8. sent \subseteq sent' /\ sent' \subseteq Bills /\ runner[j].todo \in SUBSET Bills /\ NoBill \notin Bills
  BY <1>1, <1>w, BulkAssumption DEF IInv, TypeOK, RunnerType
<1>9. \A c \in Bills : items[c] = "sent" => c \in sent'
  BY <1>w, <1>1, <1>2, <1>4, <1>8 DEF JobAgrees, SentIsSent, RunnerAgrees
<1>10. ASSUME j \notin repeated
       PROVE  /\ \A c \in g.todo : items[c] = "queued"
              /\ \A c \in Bills : items[c] \in {"queued", "running"} => item[j][c] \in {"queued", "running"}
  <2>1. item[j][runner[j].bill] = "running" /\ \A c \in runner[j].todo : item[j][c] = "queued"
    BY <1>w, <1>2, <1>10 DEF JobAgrees, RunnerAgrees
  <2> QED
    BY <1>2, <1>4, <1>7, <1>8, <2>1
<1> QED
  BY <1>w, <1>1, <1>3, <1>4, <1>6, <1>7, <1>8, <1>9, <1>10, ItemStep

LEMMA FinalizeJobIInv == ASSUME IInv, NEW j \in Jobs, FinalizeJob(j) PROVE IInv'
<1>w. job[j] \in JobType /\ Counted(item[j]) \in Counts /\ Counted(item[j]).failed = Count(item[j], "failed")
  BY Working
<1> DEFINE counts == Counted(item[j])
           status == IF counts.failed > 0 THEN "completed_with_errors" ELSE "completed"
           r == [job[j] EXCEPT !.counts = counts, !.status = status]
<1>1. job' = [job EXCEPT ![j] = r]
  BY DEF FinalizeJob, Recount, FinalCounts, IInv, TypeOK
<1>2. counts \in Counts /\ status \in {"completed", "completed_with_errors"}
  BY <1>w
<1>3. status = "completed" <=> Count(item[j], "failed") = 0
  BY <1>w DEF Counts
<1> HIDE DEF counts, status
<1>4. r \in JobType /\ r.status = status /\ r.counts = counts
  BY <1>w, <1>2 DEF JobType
<1>5. /\ runner[j].pc # "none" /\ End(j) /\ UNCHANGED <<item, sent, process>> /\ left' \subseteq Jobs
  BY DEF FinalizeJob, At, IInv, TypeOK
<1> HIDE DEF r
<1> QED
  BY <1>1, <1>2, <1>3, <1>4, <1>5, Ending DEF counts

LEMMA FinalizeFailsIInv == ASSUME IInv, NEW j \in Jobs, FinalizeFails(j) PROVE IInv'
<1>w. job[j] \in JobType /\ job[j].counts \in Counts /\ Counted(item[j]) \in Counts
  BY Working
<1>1. PICK counts \in Counts : FailJob(j, Recount(j, counts))
  BY <1>w DEF FinalizeFails, FinalCounts
<1> DEFINE q == [job[j] EXCEPT !.counts = counts]
<1>2. q \in JobType /\ q.status = job[j].status /\ Recount(j, counts) = [job EXCEPT ![j] = q]
  BY <1>w DEF JobType, Recount, IInv, TypeOK
<1>3. runner[j].pc # "none"
  BY DEF FinalizeFails, At
<1> HIDE DEF q
<1> QED
  BY <1>1, <1>2, <1>3, FailJobIInv

-----------------------------------------------------------------------------
(* The process stops and starts: the goroutines are gone, and no job       *)
(* claims more than before.                                                *)
LEMMA Process ==
  ASSUME IInv, TypeOK', UNCHANGED <<sent, repeated>>,
         \A j \in Jobs :
           /\ runner'[j].pc = "none" /\ runner'[j].todo = {} /\ runner'[j].bill \notin Bills
           /\ job'[j].status \in {job[j].status, "failed"}
           /\ \A b \in Bills : item'[j][b] \in {item[j][b], "failed"}
           /\ Active(j) \/ (job'[j] = job[j] /\ item'[j] = item[j])
  PROVE  IInv'
<1>1. ASSUME NEW j \in Jobs PROVE JobAgrees(j)'
  <2>1. JobAgrees(j)
    BY DEF IInv
  <2>2. RunnerAgrees(j)'
    BY DEF RunnerAgrees
  <2>3. NewJobIsIdle(j)'
    BY <2>1 DEF JobAgrees, NewJobIsIdle
  <2>4. SentIsSent(j)'
    BY <2>1 DEF JobAgrees, SentIsSent
  <2>5. Reported(j)'
    <3>1. CASE Active(j)
      BY <3>1 DEF Active, Reported
    <3>2. CASE ~Active(j)
      <4>1. job'[j] = job[j] /\ item'[j] = item[j]
        BY <3>2
      <4> QED
        BY <2>1, <4>1 DEF JobAgrees, Reported, Counted, Count
    <3> QED
      BY <3>1, <3>2
  <2> QED
    BY <2>2, <2>3, <2>4, <2>5 DEF JobAgrees
<1>2. OneClaim'
  <2>1. ASSUME NEW j \in Jobs, NEW b \in Bills, Claims(j, b)' PROVE Claims(j, b)
    BY <2>1 DEF Claims, Active, ItemActive
  <2> QED
    BY <2>1 DEF IInv, OneClaim
<1> QED
  BY <1>1, <1>2 DEF IInv

LEMMA StopIInv == ASSUME IInv, Stop PROVE IInv'
<1>1. runner' = [j \in Jobs |-> NoRunner] /\ UNCHANGED <<job, item, sent, left, repeated>> /\ up' = FALSE
  BY DEF Stop
<1>2. incidents' \in 0..MaxIncidents
  BY BulkAssumption DEF Stop, IInv, TypeOK
<1>3. TypeOK'
  BY <1>1, <1>2, NoRunnerRow DEF IInv, TypeOK
<1> QED
  BY <1>1, <1>3, NoRunnerRow, Process DEF IInv, TypeOK

LEMMA RecoverIInv == ASSUME IInv, RecoverInterruptedBulkSendJobs PROVE IInv'
<1>1. PICK done \in SUBSET Interrupted : \E partly \in SUBSET (Interrupted \ done) :
      \E counted \in SUBSET partly :
        /\ item' = [j \in Jobs |-> IF j \in done \cup partly THEN ItemsFailed(j) ELSE item[j]]
        /\ job' = [j \in Jobs |->
             [status |-> IF j \in done THEN "failed" ELSE job[j].status,
              counts |-> IF j \in done \cup counted THEN Counted(ItemsFailed(j)) ELSE job[j].counts]]
        /\ left' = Interrupted \ done
  BY DEF RecoverInterruptedBulkSendJobs
<1>2. PICK partly \in SUBSET (Interrupted \ done) : \E counted \in SUBSET partly :
        /\ item' = [j \in Jobs |-> IF j \in done \cup partly THEN ItemsFailed(j) ELSE item[j]]
        /\ job' = [j \in Jobs |->
             [status |-> IF j \in done THEN "failed" ELSE job[j].status,
              counts |-> IF j \in done \cup counted THEN Counted(ItemsFailed(j)) ELSE job[j].counts]]
        /\ left' = Interrupted \ done
  BY <1>1
<1>c. PICK counted \in SUBSET partly :
        /\ item' = [j \in Jobs |-> IF j \in done \cup partly THEN ItemsFailed(j) ELSE item[j]]
        /\ job' = [j \in Jobs |->
             [status |-> IF j \in done THEN "failed" ELSE job[j].status,
              counts |-> IF j \in done \cup counted THEN Counted(ItemsFailed(j)) ELSE job[j].counts]]
        /\ left' = Interrupted \ done
  BY <1>2
<1>3. ~up /\ up' = TRUE /\ UNCHANGED <<sent, runner, repeated, incidents>>
  BY DEF RecoverInterruptedBulkSendJobs
<1>4. ASSUME NEW j \in Jobs
      PROVE  /\ item'[j] \in [Bills -> ItemStatuses] /\ job'[j] \in JobType
             /\ runner'[j].pc = "none" /\ runner'[j].todo = {} /\ runner'[j].bill \notin Bills
             /\ job'[j].status \in {job[j].status, "failed"}
             /\ \A b \in Bills : item'[j][b] \in {item[j][b], "failed"}
             /\ Active(j) \/ (job'[j] = job[j] /\ item'[j] = item[j])
  <2>1. /\ item[j] \in [Bills -> ItemStatuses] /\ job[j] \in JobType /\ JobAgrees(j)
        /\ job[j] = [status |-> job[j].status, counts |-> job[j].counts] /\ job[j].counts \in Counts
    BY Working
  <2>2. ItemsFailed(j) \in [Bills -> ItemStatuses] /\ \A b \in Bills : ItemsFailed(j)[b] \in {item[j][b], "failed"}
    BY <2>1 DEF ItemsFailed, ItemStatuses
  <2>3. Counted(ItemsFailed(j)) \in Counts
    BY <2>2, CountedIsCounts
  <2>4. item'[j] = IF j \in done \cup partly THEN ItemsFailed(j) ELSE item[j]
    BY <1>c
  <2>5. job'[j] = [status |-> IF j \in done THEN "failed" ELSE job[j].status,
                   counts |-> IF j \in done \cup counted THEN Counted(ItemsFailed(j)) ELSE job[j].counts]
    BY <1>c
  <2>6. ~Active(j) => j \notin done \cup partly \cup counted
    BY DEF Interrupted
  <2>7. item'[j] \in [Bills -> ItemStatuses] /\ \A b \in Bills : item'[j][b] \in {item[j][b], "failed"}
    BY <2>1, <2>2, <2>4
  <2>8. job'[j] \in JobType /\ job'[j].status \in {job[j].status, "failed"}
    <3> DEFINE status == IF j \in done THEN "failed" ELSE job[j].status
               counts == IF j \in done \cup counted THEN Counted(ItemsFailed(j)) ELSE job[j].counts
    <3>1. counts \in Counts
      BY <2>1, <2>3
    <3>2. status \in {job[j].status, "failed"} /\ job'[j] = [status |-> status, counts |-> counts]
      BY <2>5
    <3> HIDE DEF status, counts
    <3> QED
      BY <2>1, <3>1, <3>2 DEF JobType
  <2>9. Active(j) \/ (job'[j] = job[j] /\ item'[j] = item[j])
    <3>1. CASE ~Active(j)
      <4>1. job'[j] = [status |-> job[j].status, counts |-> job[j].counts] /\ item'[j] = item[j]
        BY <2>4, <2>5, <2>6, <3>1
      <4> QED
        BY <2>1, <4>1
    <3> QED
      BY <3>1
  <2>10. runner'[j].pc = "none" /\ runner'[j].todo = {} /\ runner'[j].bill \notin Bills
    BY <1>3, <2>1 DEF JobAgrees, RunnerAgrees
  <2> QED
    BY <2>7, <2>8, <2>9, <2>10
<1>5. TypeOK'
  <2>1. item' \in [Jobs -> [Bills -> ItemStatuses]]
    BY <1>c, <1>4
  <2>2. job' \in [Jobs -> JobType]
    <3>1. DOMAIN job' = Jobs /\ job' = [j \in Jobs |-> job'[j]]
      BY <1>c
    <3> QED
      BY <1>4, <3>1
  <2>3. left' \subseteq Jobs
    BY <1>c DEF Interrupted
  <2> QED
    BY <1>3, <2>1, <2>2, <2>3 DEF IInv, TypeOK
<1> QED
  BY <1>3, <1>4, <1>5, Process

LEMMA NextIInv == IInv /\ [Next]_vars => IInv'
<1> SUFFICES ASSUME IInv, [Next]_vars PROVE IInv'
  OBVIOUS
<1>1. ASSUME NEW j \in Jobs, CreateBulkSendJob(j) PROVE IInv'
  BY <1>1, CreateIInv DEF CreateBulkSendJob
<1>2. ASSUME NEW j \in Jobs, RetryFailedBulkSendJob(j) PROVE IInv'
  <2>1. PICK original \in Jobs : Create(j, {b \in Bills : item[original][b] = "failed"})
    BY <1>2 DEF RetryFailedBulkSendJob
  <2> DEFINE set == {b \in Bills : item[original][b] = "failed"}
  <2>2. set \in SUBSET Bills /\ Create(j, set)
    BY <2>1
  <2> HIDE DEF set
  <2> QED
    BY <2>2, CreateIInv
<1>3. ASSUME NEW j \in Jobs, RepeatBulkSendJob(j) PROVE IInv'
  BY <1>3, RepeatIInv
<1>4. ASSUME NEW j \in Jobs, RunBulkSendJob(j) PROVE IInv'
  BY <1>4, StartJobIInv, StartItemIInv, SendBillIInv, FinishItemIInv, FinalizeJobIInv DEF RunBulkSendJob
<1>5. ASSUME NEW j \in Jobs, Reject(j) PROVE IInv'
  <2>1. job = [job EXCEPT ![j] = job[j]] /\ job[j] \in JobType /\ runner[j].pc # "none" /\ FailJob(j, job)
    BY <1>5 DEF Reject, At, IInv, TypeOK
  <2> QED
    BY <2>1, FailJobIInv
<1>6. ASSUME NEW j \in Jobs, NEW b \in Bills, StartItemFails(j, b) PROVE IInv'
  BY <1>6, StartItemFailsIInv
<1>7. ASSUME NEW j \in Jobs, FinalizeFails(j) PROVE IInv'
  BY <1>7, FinalizeFailsIInv
<1>8. CASE UNCHANGED vars
  <2>1. UNCHANGED <<job, item, sent, runner, left, repeated, up, incidents>>
    BY <1>8 DEF vars
  <2>2. TypeOK'
    BY <2>1 DEF IInv, TypeOK
  <2>3. ASSUME NEW j \in Jobs PROVE JobAgrees(j)'
    BY <2>1 DEF IInv, JobAgrees, RunnerAgrees, NewJobIsIdle, Reported, SentIsSent, Active, Counted, Count
  <2>4. OneClaim'
    BY <2>1 DEF IInv, OneClaim, Claims, Active, ItemActive
  <2> QED
    BY <2>2, <2>3, <2>4 DEF IInv
<1> QED
  BY <1>1, <1>2, <1>3, <1>4, <1>5, <1>6, <1>7, <1>8, StopIInv, RecoverIInv DEF Next

-----------------------------------------------------------------------------
LEMMA Invariance == Spec => []IInv
BY InitIInv, NextIInv, PTL DEF Spec

(* The counts are numbers, the statuses those of the tables' checks.       *)
THEOREM TypeCorrect == Spec => []TypeOK
<1>1. IInv => TypeOK
  BY DEF IInv
<1> QED
  BY <1>1, Invariance, PTL

(* A bill is in one job at a time, except of jobs started twice.           *)
THEOREM OneJobSends == Spec => []OneJobPerBill
<1>1. IInv => OneJobPerBill
  <2> SUFFICES ASSUME IInv, NEW b \in Bills
               PROVE  Cardinality({j \in Jobs \ repeated : WorksOn(j, b)}) <= 1
    BY DEF OneJobPerBill
  <2> DEFINE workers == {j \in Jobs \ repeated : WorksOn(j, b)}
  <2>1. ASSUME NEW j \in workers PROVE j \in Jobs \ repeated /\ Claims(j, b)
    <3>1. j \in Jobs \ repeated /\ WorksOn(j, b) /\ JobAgrees(j)
      BY DEF IInv
    <3>2. CASE runner[j].bill = b
      BY <3>1, <3>2 DEF JobAgrees, RunnerAgrees, Claims, Active, ItemActive
    <3> QED
      BY <3>1, <3>2 DEF WorksOn, Claims
  <2>2. \A j, k \in workers : j = k
    BY <2>1 DEF IInv, OneClaim
  <2> HIDE DEF workers
  <2>3. CASE workers = {}
    <3>1. Cardinality(workers) = 0
      BY <2>3, FS_EmptySet
    <3> QED
      BY <3>1 DEF workers
  <2>4. CASE workers # {}
    <3>1. PICK j \in workers : TRUE
      BY <2>4
    <3>2. workers = {j}
      BY <2>2, <3>1
    <3>3. Cardinality(workers) = 1
      BY <3>2, FS_Singleton
    <3> QED
      BY <3>3 DEF workers
  <2> QED
    BY <2>3, <2>4
<1> QED
  BY <1>1, Invariance, PTL

(* What a completed job reports is true, whatever was lost on the way.     *)
THEOREM ReportsAreTrue == Spec => []ReportIsTrue
<1>1. IInv => ReportIsTrue
  BY DEF IInv, JobAgrees, Reported, SentIsSent, ReportIsTrue
<1> QED
  BY <1>1, Invariance, PTL
=============================================================================
