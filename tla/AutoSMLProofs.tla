--------------------------- MODULE AutoSMLProofs ---------------------------
(***************************************************************************)
(* The safety properties of AutoSML, for any number of orders, attempts,   *)
(* failures and changes of the route.                                      *)
(***************************************************************************)
EXTENDS AutoSML, TLAPS

(* The goroutine of a job is at work only while the job is running, ...    *)
WorkersHaveJobs == \A o \in Orders : ~At(o, "idle") => job[o].status = "running"

(* ... and there is one at most.                                           *)
OneAtWork == \A o, p \in Orders : ~At(o, "idle") /\ ~At(p, "idle") => o = p

BeforeSend == {"leased", "checked", "prepared", "rechecked"}

(* The send of a closed shop is the one whose goroutine was still to come. *)
LateSendWasTheOne ==
  /\ Open => late = 0
  /\ late > 0 => \A o \in Orders : worker[o].pc \notin BeforeSend
  /\ late <= 1

IInv == TypeOK /\ WorkersHaveJobs /\ OneAtWork /\ LateSendWasTheOne

LEMMA InitIInv == Init => IInv
<1> SUFFICES ASSUME Init PROVE IInv
  OBVIOUS
<1>1. MaxRoutes \in Nat /\ MaxIncidents \in Nat
  BY AutoAssumption
<1>2. setting \in SettingType /\ setting.enabled = FALSE
  BY DEF Init, SettingType
<1>3. job \in [Orders -> JobType]
  BY DEF Init, JobType
<1>4. worker \in [Orders -> WorkerType] /\ \A o \in Orders : worker[o].pc = "idle"
  BY DEF Init, WorkerType, Idle
<1>5. TypeOK
  <2>1. route = 0 /\ incidents = 0 /\ late = 0
    BY DEF Init
  <2>3. route \in 0..MaxRoutes /\ incidents \in 0..MaxIncidents /\ late \in Nat
    BY <1>1, <2>1
  <2>2. sent \subseteq Orders /\ other \in [Orders -> {"none", "sending", "dead"}]
    BY DEF Init
  <2> QED
    BY <1>2, <1>3, <1>4, <2>2, <2>3 DEF TypeOK
<1>6. late = 0
  BY DEF Init
<1> QED
  BY <1>4, <1>5, <1>6 DEF IInv, WorkersHaveJobs, OneAtWork, LateSendWasTheOne, At

-----------------------------------------------------------------------------
(* A step of the goroutine of an order that leaves the jobs alone.         *)
LEMMA GoroutineMoves ==
  ASSUME IInv, NEW o \in Orders, ~At(o, "idle"), NEW new \in WorkerType,
         worker' = [worker EXCEPT ![o] = new],
         new.pc \in BeforeSend => At(o, "leased") \/ At(o, "checked") \/ At(o, "prepared"),
         UNCHANGED <<setting, late>>, job' = job
  PROVE  /\ worker' \in [Orders -> WorkerType]
         /\ WorkersHaveJobs' /\ OneAtWork' /\ LateSendWasTheOne'
<1>1. worker \in [Orders -> WorkerType] /\ WorkersHaveJobs /\ OneAtWork /\ LateSendWasTheOne
  BY DEF IInv, TypeOK
<1>2. worker'[o] = new /\ \A p \in Orders \ {o} : worker'[p] = worker[p]
  BY <1>1
<1>3. worker' \in [Orders -> WorkerType]
  BY <1>1
<1>4. WorkersHaveJobs'
  BY <1>1, <1>2 DEF WorkersHaveJobs, At
<1>5. OneAtWork'
  BY <1>1, <1>2 DEF OneAtWork, At
<1>6. LateSendWasTheOne'
  BY <1>1, <1>2 DEF LateSendWasTheOne, At, BeforeSend, Open
<1> QED
  BY <1>3, <1>4, <1>5, <1>6

(* A goroutine that ends, having marked its job or not.                    *)
LEMMA GoroutineEnds ==
  ASSUME IInv, NEW o \in Orders, ~At(o, "idle"), NEW r \in JobType,
         worker' = [worker EXCEPT ![o] = Idle], job' = [job EXCEPT ![o] = r],
         setting' \in SettingType, Open' => Open, late' = late
  PROVE  /\ job' \in [Orders -> JobType] /\ worker' \in [Orders -> WorkerType]
         /\ WorkersHaveJobs' /\ OneAtWork' /\ LateSendWasTheOne'
<1>1. /\ worker \in [Orders -> WorkerType] /\ job \in [Orders -> JobType]
      /\ WorkersHaveJobs /\ OneAtWork /\ LateSendWasTheOne
  BY DEF IInv, TypeOK
<1>2. Idle \in WorkerType /\ Idle.pc = "idle"
  BY DEF Idle, WorkerType
<1>3. worker'[o] = Idle /\ \A p \in Orders \ {o} : worker'[p] = worker[p] /\ job'[p] = job[p]
  BY <1>1
<1>4. WorkersHaveJobs'
  BY <1>1, <1>2, <1>3 DEF WorkersHaveJobs, At
<1>5. OneAtWork'
  BY <1>1, <1>2, <1>3 DEF OneAtWork, At
<1>6. LateSendWasTheOne'
  BY <1>1, <1>2, <1>3 DEF LateSendWasTheOne, BeforeSend
<1> QED
  BY <1>1, <1>2, <1>4, <1>5, <1>6

(* A step that moves no goroutine.                                         *)
LEMMA NoGoroutineMoves ==
  ASSUME IInv, UNCHANGED worker, job' \in [Orders -> JobType],
         \A o \in Orders : job[o].status = "running" => job'[o].status = "running",
         Open' => late' = 0, late' \in {0, late}
  PROVE  WorkersHaveJobs' /\ OneAtWork' /\ LateSendWasTheOne'
<1>1. WorkersHaveJobs /\ OneAtWork /\ LateSendWasTheOne /\ late \in Nat
  BY DEF IInv, TypeOK
<1>2. WorkersHaveJobs' /\ OneAtWork'
  BY <1>1 DEF WorkersHaveJobs, OneAtWork, At
<1>3. LateSendWasTheOne'
  BY <1>1 DEF LateSendWasTheOne
<1> QED
  BY <1>2, <1>3

(* What a goroutine may come to.                                           *)
LEMMA Goroutines ==
  ASSUME IInv, NEW o \in Orders
  PROVE  /\ \A pc \in {"leased", "checked", "prepared", "rechecked", "sending", "pausing", "marking"} :
              /\ [worker[o] EXCEPT !.pc = pc] \in WorkerType
              /\ [worker[o] EXCEPT !.pc = pc].pc = pc
         /\ \A outcome \in {"none", "cancelled", "needs_review", "transient", "contention", "succeeded"} :
              \A pc \in {"leased", "pausing", "marking"} :
                [pc |-> pc, outcome |-> outcome] \in WorkerType
         /\ worker \in [Orders -> WorkerType]
<1>1. worker \in [Orders -> WorkerType]
  BY DEF IInv, TypeOK
<1>2. worker[o] \in WorkerType
  BY <1>1
<1> QED
  BY <1>1, <1>2 DEF WorkerType

(* What becomes of the row of a job, or of the shop, is such a row again.   *)
LEMMA JobRows ==
  ASSUME NEW j \in JobType,
         NEW status \in Waiting \cup Ended \cup {"none", "running", "needs_review", "failed"},
         NEW live \in BOOLEAN, NEW attempts \in Nat, NEW signature \in Nat
  PROVE  /\ [j EXCEPT !.live = live] \in JobType
         /\ [j EXCEPT !.live = live].status = j.status
         /\ [j EXCEPT !.status = status] \in JobType
         /\ [j EXCEPT !.status = status, !.live = live] \in JobType
         /\ [j EXCEPT !.status = status, !.route = signature] \in JobType
         /\ [j EXCEPT !.status = status, !.live = live, !.attempts = attempts] \in JobType
         /\ [j EXCEPT !.status = status, !.live = live, !.attempts = attempts].status = status
<1> DEFINE Statuses == Waiting \cup Ended \cup {"none", "running", "needs_review", "failed"}
<1>1. JobType = [status : Statuses, attempts : Nat, live : BOOLEAN, route : Nat] /\ status \in Statuses
  BY DEF JobType
<1> HIDE DEF Statuses
<1> QED
  BY <1>1

LEMMA LeasedRow ==
  ASSUME NEW j \in JobType
  PROVE  /\ [j EXCEPT !.status = "running", !.live = TRUE, !.attempts = @ + 1] \in JobType
         /\ [j EXCEPT !.status = "running", !.live = TRUE, !.attempts = @ + 1].status = "running"
<1>1. j.attempts \in Nat
  BY DEF JobType
<1>2. j.attempts + 1 \in Nat
  BY <1>1
<1> QED
  BY <1>2 DEF JobType

LEMMA SettingRows ==
  ASSUME NEW s \in SettingType, NEW paused \in {"", "route_changed", "system_failures"},
         NEW failures \in Nat
  PROVE  /\ [s EXCEPT !.failures = failures] \in SettingType
         /\ [s EXCEPT !.failures = failures, !.paused = paused] \in SettingType
BY DEF SettingType

LEMMA Counting == \A n \in Nat : n + 1 \in Nat /\ (IF n = 0 THEN 0 ELSE n - 1) \in Nat
OBVIOUS

LEMMA NextIInv == IInv /\ [Next]_vars => IInv'
<1> SUFFICES ASSUME IInv, [Next]_vars PROVE IInv'
  OBVIOUS
<1>t. /\ setting \in SettingType /\ route \in 0..MaxRoutes /\ job \in [Orders -> JobType]
      /\ worker \in [Orders -> WorkerType] /\ sent \subseteq Orders
      /\ other \in [Orders -> {"none", "sending", "dead"}] /\ late \in Nat
      /\ incidents \in 0..MaxIncidents
  BY DEF IInv, TypeOK
<1>n. MaxRoutes \in Nat /\ MaxIncidents \in Nat /\ route \in Nat
  BY <1>t, AutoAssumption
<1>k. WorkersHaveJobs /\ OneAtWork /\ LateSendWasTheOne
  BY DEF IInv
<1>s. /\ setting.enabled \in BOOLEAN /\ setting.paused \in {"", "route_changed", "system_failures"}
      /\ setting.route \in Nat /\ setting.failures \in Nat
      /\ setting = [enabled |-> setting.enabled, paused |-> setting.paused,
                    route |-> setting.route, failures |-> setting.failures]
  BY <1>t DEF SettingType
<1>j. \A o \in Orders :
        /\ job[o].attempts \in Nat /\ job[o].route \in Nat /\ job[o].live \in BOOLEAN
        /\ job[o].status \in Waiting \cup Ended \cup {"none", "running", "needs_review", "failed"}
        /\ job[o] \in JobType
        /\ job[o] = [status |-> job[o].status, attempts |-> job[o].attempts,
                     live |-> job[o].live, route |-> job[o].route]
  <2>1. \A o \in Orders : job[o] \in JobType
    BY <1>t
  <2> QED
    BY <2>1 DEF JobType
\* Operators.
<1>1. ASSUME NEW newTrigger \in BOOLEAN, EnableShop(newTrigger) PROVE IInv'
  <2>1. UNCHANGED <<route, job, worker, sent, other, incidents>> /\ late' = 0
    BY <1>1 DEF EnableShop
  <2>2. setting' \in SettingType
    BY <1>1, <1>n DEF EnableShop, SettingType
  <2> QED
    BY <1>t, <2>1, <2>2, NoGoroutineMoves DEF IInv, TypeOK
<1>2. CASE DisableShop
  <2>1. UNCHANGED <<route, worker, sent, other, late, incidents>> /\ setting' = [setting EXCEPT !.enabled = FALSE]
    BY <1>2 DEF DisableShop
  <2>2. setting' \in SettingType /\ setting'.enabled = FALSE
    BY <1>s, <2>1 DEF SettingType
  <2>3. ASSUME NEW o \in Orders
        PROVE  /\ [job[o] EXCEPT !.status = "cancelled", !.live = FALSE] \in JobType
               /\ job[o] \in JobType
               /\ job[o].status = "running" => ~StoppedByDisable(o)
    <3>1. [job[o] EXCEPT !.status = "cancelled", !.live = FALSE] \in JobType
      BY <1>j, JobRows DEF Ended
    <3>2. job[o] \in JobType
      BY <1>t
    <3> QED
      BY <3>1, <3>2 DEF StoppedByDisable, Waiting
  <2>4. job' \in [Orders -> JobType] /\ \A o \in Orders : job[o].status = "running" => job'[o] = job[o]
    BY <1>2, <1>t, <2>3 DEF DisableShop
  <2>5. ~Open'
    BY <2>2 DEF Open
  <2> QED
    BY <1>t, <2>1, <2>2, <2>4, <2>5, NoGoroutineMoves DEF IInv, TypeOK
<1>3. CASE ChangeRoute
  <2>1. UNCHANGED <<setting, job, worker, sent, other, late, incidents>> /\ route' \in 0..MaxRoutes
    BY <1>3, <1>t, <1>n DEF ChangeRoute
  <2> QED
    BY <1>t, <1>k, <2>1, NoGoroutineMoves DEF IInv, TypeOK, LateSendWasTheOne, Open
<1>4. ASSUME NEW o \in Orders, NEW r \in JobType, job' = [job EXCEPT ![o] = r],
             job[o].status = "running" => r.status = "running",
             UNCHANGED <<setting, route, worker, sent, other, late, incidents>>
      PROVE  IInv'
  <2>1. job' \in [Orders -> JobType] /\ \A p \in Orders : job[p].status = "running" => job'[p].status = "running"
    BY <1>4, <1>t
  <2>2. Open' => late' = 0
    BY <1>4, <1>k DEF LateSendWasTheOne, Open
  <2> QED
    BY <1>4, <1>t, <2>1, <2>2, NoGoroutineMoves DEF IInv, TypeOK
<1>5. ASSUME NEW o \in Orders, RetryJob(o) \/ Enqueue(o) \/ LeaseEnds(o) PROVE IInv'
  <2>1. CASE RetryJob(o)
    <3>1. [status |-> "queued", attempts |-> 0, live |-> FALSE, route |-> setting.route] \in JobType
      BY <1>s DEF JobType, Waiting
    <3> QED
      BY <2>1, <3>1, <1>4 DEF RetryJob
  <2>2. CASE Enqueue(o)
    <3>1. [job[o] EXCEPT !.status = "queued", !.route = setting.route] \in JobType
      BY <1>s, <1>j, JobRows DEF Waiting
    <3> QED
      BY <2>2, <3>1, <1>4 DEF Enqueue
  <2>3. CASE LeaseEnds(o)
    <3>1. [job[o] EXCEPT !.live = FALSE] \in JobType /\ [job[o] EXCEPT !.live = FALSE].status = job[o].status
      BY <1>j, JobRows
    <3>2. job' = [job EXCEPT ![o] = [job[o] EXCEPT !.live = FALSE]]
      BY <2>3, <1>t DEF LeaseEnds
    <3> QED
      BY <2>3, <3>1, <3>2, <1>4 DEF LeaseEnds
  <2> QED
    BY <1>5, <2>1, <2>2, <2>3
<1>6. ASSUME NEW o \in Orders, StartManualSend(o) \/ FinishManualSend(o) \/ ActionExpires(o) PROVE IInv'
  <2>1. UNCHANGED <<setting, route, job, worker, late>>
    BY <1>6 DEF StartManualSend, FinishManualSend, ActionExpires
  <2>2. sent' \subseteq Orders /\ other' \in [Orders -> {"none", "sending", "dead"}]
    BY <1>6, <1>t DEF StartManualSend, FinishManualSend, ActionExpires
  <2>3. incidents' \in 0..MaxIncidents
    BY <1>6, <1>t, <1>n DEF StartManualSend, FinishManualSend, ActionExpires
  <2> QED
    BY <1>t, <1>k, <2>1, <2>2, <2>3, NoGoroutineMoves DEF IInv, TypeOK, LateSendWasTheOne, Open
\* The queue.
<1>7. ASSUME NEW batch \in Batches(Due), LeaseJobs(batch) PROVE IInv'
  <2>1. PICK o \in Orders : batch = {o}
    BY <1>7 DEF Batches, Due
  <2>2. /\ \A p \in Orders : At(p, "idle")
        /\ Open /\ UNCHANGED <<setting, route, sent, other, late, incidents>>
    BY <1>7 DEF LeaseJobs
  <2> DEFINE r == [job[o] EXCEPT !.status = "running", !.live = TRUE, !.attempts = @ + 1]
             new == [pc |-> "leased", outcome |-> "none"]
  <2>3. r \in JobType /\ r.status = "running"
    BY <1>j, LeasedRow
  <2>4. new \in WorkerType
    BY DEF WorkerType
  <2>5. \A p \in Orders : /\ job'[p] = IF p = o THEN r ELSE job[p]
                          /\ worker'[p] = IF p = o THEN new ELSE worker[p]
    BY <1>7, <2>1 DEF LeaseJobs
  <2>6. job' = [p \in Orders |-> job'[p]] /\ worker' = [p \in Orders |-> worker'[p]]
    BY <1>7 DEF LeaseJobs
  <2> HIDE DEF r, new
  <2>7. job' \in [Orders -> JobType] /\ worker' \in [Orders -> WorkerType]
    BY <1>t, <2>3, <2>4, <2>5, <2>6
  <2>8. WorkersHaveJobs' /\ OneAtWork'
    BY <2>2, <2>3, <2>5 DEF WorkersHaveJobs, OneAtWork, At
  <2>9. late = 0
    BY <1>k, <2>2 DEF LateSendWasTheOne
  <2>10. LateSendWasTheOne'
    BY <2>2, <2>9 DEF LateSendWasTheOne
  <2> QED
    BY <1>t, <2>2, <2>7, <2>8, <2>10 DEF IInv, TypeOK
<1>8. CASE Restart
  <2>1. UNCHANGED <<setting, route, sent, late>> /\ worker' = [o \in Orders |-> Idle]
    BY <1>8 DEF Restart
  <2>2. incidents' \in 0..MaxIncidents /\ other' \in [Orders -> {"none", "sending", "dead"}]
    BY <1>8, <1>t, <1>n DEF Restart
  <2>3. Idle \in WorkerType /\ Idle.pc = "idle"
    BY DEF Idle, WorkerType
  <2>4. \A o \in Orders : job[o] \in JobType /\ [job[o] EXCEPT !.status = "queued"] \in JobType
    BY <1>j, JobRows DEF Waiting
  <2>5. job' \in [Orders -> JobType]
    BY <1>8, <2>4 DEF Restart
  <2>6. WorkersHaveJobs' /\ OneAtWork' /\ LateSendWasTheOne'
    BY <1>k, <2>1, <2>3 DEF WorkersHaveJobs, OneAtWork, LateSendWasTheOne, At, BeforeSend, Open
  <2> QED
    BY <1>t, <2>1, <2>2, <2>3, <2>5, <2>6 DEF IInv, TypeOK
\* The goroutine before its mark.
<1>9. ASSUME NEW o \in Orders, ~At(o, "idle"),
             UNCHANGED <<setting, route, job, other, incidents, late>>, sent' \subseteq Orders,
             NEW new \in WorkerType, worker' = [worker EXCEPT ![o] = new],
             new.pc \in BeforeSend => At(o, "leased") \/ At(o, "checked") \/ At(o, "prepared")
      PROVE  IInv'
  BY <1>9, <1>t, GoroutineMoves DEF IInv, TypeOK
<1>10. ASSUME NEW o \in Orders, ~At(o, "idle"),
              UNCHANGED <<setting, route, job, other, incidents, late>>, sent' \subseteq Orders,
              \/ \E outcome \in {"cancelled", "needs_review", "transient", "contention", "succeeded"} :
                    ToMark(o, outcome)
              \/ ToPause(o)
              \/ Goto(o, "sending") \/ Goto(o, "marking") \/ Goto(o, "pausing")
              \/ \E pc \in BeforeSend : Goto(o, pc) /\ (At(o, "leased") \/ At(o, "checked") \/ At(o, "prepared"))
       PROVE  IInv'
  <2>1. CASE \E outcome \in {"cancelled", "needs_review", "transient", "contention", "succeeded"} : ToMark(o, outcome)
    <3>1. PICK outcome \in {"cancelled", "needs_review", "transient", "contention", "succeeded"} : ToMark(o, outcome)
      BY <2>1
    <3>2. [pc |-> "marking", outcome |-> outcome] \in WorkerType
      BY Goroutines
    <3> QED
      BY <1>10, <3>1, <3>2, <1>9 DEF ToMark, BeforeSend
  <2>2. CASE ToPause(o)
    <3>1. [pc |-> "pausing", outcome |-> "needs_review"] \in WorkerType
      BY Goroutines
    <3> QED
      BY <1>10, <2>2, <3>1, <1>9 DEF ToPause, BeforeSend
  <2>3. ASSUME NEW pc \in {"leased", "checked", "prepared", "rechecked", "sending", "pausing", "marking"}, Goto(o, pc),
               pc \in BeforeSend => At(o, "leased") \/ At(o, "checked") \/ At(o, "prepared")
        PROVE  IInv'
    <3> DEFINE new == [worker[o] EXCEPT !.pc = pc]
    <3>1. new \in WorkerType /\ new.pc = pc /\ worker' = [worker EXCEPT ![o] = new]
      BY <2>3, Goroutines DEF Goto
    <3> HIDE DEF new
    <3> QED
      BY <1>10, <2>3, <3>1, <1>9
  <2> QED
    BY <1>10, <2>1, <2>2, <2>3 DEF BeforeSend
<1>11. ASSUME NEW o \in Orders, CheckSetting(o) \/ PrepareBill(o) \/ RecheckSetting(o) \/ FinishSend(o)
       PROVE  IInv'
  <2>1. UNCHANGED <<setting, route, job, other, incidents, late>> /\ sent' \subseteq Orders /\ ~At(o, "idle")
    BY <1>11, <1>t DEF CheckSetting, PrepareBill, RecheckSetting, FinishSend, unmarked, At
  <2>2. CASE CheckSetting(o)
    BY <2>1, <2>2, <1>10 DEF CheckSetting, BeforeSend
  <2>3. CASE PrepareBill(o)
    BY <2>1, <2>3, <1>10 DEF PrepareBill, BeforeSend
  <2>4. CASE RecheckSetting(o)
    BY <2>1, <2>4, <1>10 DEF RecheckSetting, BeforeSend
  <2>5. CASE FinishSend(o)
    BY <2>1, <2>5, <1>10 DEF FinishSend
  <2> QED
    BY <1>11, <2>2, <2>3, <2>4, <2>5
<1>12. ASSUME NEW o \in Orders, StartSend(o) PROVE IInv'
  <2>1. UNCHANGED <<setting, route, job, other, incidents, sent>> /\ At(o, "rechecked") /\ ~At(o, "idle")
    BY <1>12 DEF StartSend, unmarked, At
  <2>2. CASE late' = late
    BY <2>1, <2>2, <1>12, <1>10, <1>t DEF StartSend
  <2>3. CASE late' # late
    <3>1. ~Open /\ late' = late + 1 /\ Goto(o, "sending")
      BY <1>12, <2>3 DEF StartSend
    <3>2. late = 0
      BY <1>k, <1>t, <2>1 DEF LateSendWasTheOne, BeforeSend, At
    <3> DEFINE new == [worker[o] EXCEPT !.pc = "sending"]
    <3>3. new \in WorkerType /\ new.pc = "sending" /\ worker' = [worker EXCEPT ![o] = new]
      BY <3>1, Goroutines DEF Goto
    <3> HIDE DEF new
    <3>4. worker'[o] = new /\ \A p \in Orders \ {o} : worker'[p] = worker[p]
      BY <1>t, <3>3
    <3>5. \A p \in Orders \ {o} : At(p, "idle")
      BY <1>k, <2>1 DEF OneAtWork
    <3>6. WorkersHaveJobs' /\ OneAtWork'
      BY <1>k, <2>1, <3>4, <3>5 DEF WorkersHaveJobs, OneAtWork, At
    <3>7. ~Open' /\ late' = 1
      <4>1. setting' = setting
        BY <2>1
      <4>2. ~Open'
        BY <3>1, <4>1 DEF Open
      <4> QED
        BY <3>1, <3>2, <4>2
    <3>8. \A p \in Orders : worker'[p].pc \notin BeforeSend
      BY <3>3, <3>4, <3>5 DEF BeforeSend, At
    <3>9. LateSendWasTheOne'
      BY <3>7, <3>8 DEF LateSendWasTheOne
    <3>10. worker' \in [Orders -> WorkerType]
      BY <1>t, <3>3
    <3> QED
      BY <1>t, <2>1, <3>6, <3>7, <3>9, <3>10 DEF IInv, TypeOK
  <2> QED
    BY <2>2, <2>3
<1>13. ASSUME NEW o \in Orders, PauseForRouteChange(o) PROVE IInv'
  <2>1. /\ UNCHANGED <<route, job, sent, other, late, incidents>> /\ At(o, "pausing")
        /\ setting' = [setting EXCEPT !.paused = "route_changed"]
        /\ Goto(o, "marking")
    BY <1>13 DEF PauseForRouteChange
  <2>2. setting' \in SettingType /\ setting'.paused = "route_changed"
    BY <1>s, <2>1 DEF SettingType
  <2> DEFINE new == [worker[o] EXCEPT !.pc = "marking"]
  <2>3. new \in WorkerType /\ new.pc = "marking" /\ worker' = [worker EXCEPT ![o] = new]
    BY <2>1, Goroutines DEF Goto
  <2> HIDE DEF new
  <2>4. worker'[o] = new /\ \A p \in Orders \ {o} : worker'[p] = worker[p]
    BY <1>t, <2>3
  <2>5. WorkersHaveJobs' /\ OneAtWork'
    BY <1>k, <2>1, <2>4 DEF WorkersHaveJobs, OneAtWork, At
  <2>6. LateSendWasTheOne'
    BY <1>k, <2>1, <2>2, <2>3, <2>4 DEF LateSendWasTheOne, BeforeSend, Open
  <2>7. worker' \in [Orders -> WorkerType]
    BY <1>t, <2>3
  <2> QED
    BY <1>t, <2>1, <2>2, <2>5, <2>6, <2>7 DEF IInv, TypeOK
\* The mark.
<1>14. ASSUME NEW o \in Orders, ~At(o, "idle"), NEW r \in JobType, job' = [job EXCEPT ![o] = r],
              worker' = [worker EXCEPT ![o] = Idle], setting' \in SettingType, Open' => Open,
              UNCHANGED <<route, sent, other, late, incidents>>
       PROVE  IInv'
  BY <1>14, <1>t, GoroutineEnds DEF IInv, TypeOK
<1>15. ASSUME NEW o \in Orders,
              MarkEnded(o) \/ MarkSucceeded(o) \/ MarkTransientFailure(o) \/ MarkContentionRetry(o) \/ MarkLost(o)
       PROVE  IInv'
  <2>1. ~At(o, "idle") /\ UNCHANGED <<route, sent, other, late, incidents>> /\ worker' = [worker EXCEPT ![o] = Idle]
    BY <1>15 DEF MarkEnded, MarkSucceeded, MarkTransientFailure, MarkContentionRetry, MarkLost, unmarked, At
  <2>2. \A status \in {"cancelled", "needs_review", "succeeded", "retry_wait", "failed"} :
          [job[o] EXCEPT !.status = status, !.live = FALSE] \in JobType
    BY <1>j, JobRows DEF Waiting, Ended
  <2>3. CASE MarkEnded(o)
    <3>1. setting' = setting /\ worker[o].outcome \in {"cancelled", "needs_review"}
      BY <2>3 DEF MarkEnded
    <3> QED
      BY <2>1, <2>2, <2>3, <3>1, <1>t, <1>14 DEF MarkEnded, Marked, Open
  <2>4. CASE MarkSucceeded(o)
    <3>1. setting' = [setting EXCEPT !.failures = 0]
      BY <2>4 DEF MarkSucceeded
    <3>2. setting' \in SettingType /\ (Open' => Open)
      BY <3>1, <1>s DEF SettingType, Open
    <3> QED
      BY <2>1, <2>2, <2>4, <3>2, <1>14 DEF MarkSucceeded, Marked
  <2>5. CASE MarkTransientFailure(o)
    <3>1. CASE job[o].attempts < MaxAttempts
      BY <2>1, <2>2, <2>5, <3>1, <1>t, <1>14 DEF MarkTransientFailure, Marked, Open
    <3>2. CASE ~(job[o].attempts < MaxAttempts)
      <4>1. setting' = [setting EXCEPT !.failures = setting.failures + 1,
              !.paused = IF setting.failures + 1 >= MaxFailures THEN "system_failures" ELSE @]
        BY <2>5, <3>2 DEF MarkTransientFailure
      <4>2. setting' \in SettingType
        <5>1. setting.failures + 1 \in Nat
          BY <1>s, Counting
        <5>2. CASE setting.failures + 1 >= MaxFailures
          BY <1>t, <4>1, <5>1, <5>2, SettingRows
        <5>3. CASE ~(setting.failures + 1 >= MaxFailures)
          BY <1>t, <1>s, <4>1, <5>1, <5>3, SettingRows
        <5> QED
          BY <5>2, <5>3
      <4>3. Open' => Open
        BY <4>1, <1>s DEF Open
      <4> QED
        BY <2>1, <2>2, <2>5, <3>2, <4>2, <4>3, <1>14 DEF MarkTransientFailure, Marked
    <3> QED
      BY <3>1, <3>2
  <2>6. CASE MarkContentionRetry(o)
    <3>1. [job[o] EXCEPT !.status = "retry_wait", !.live = FALSE,
                         !.attempts = IF @ = 0 THEN 0 ELSE @ - 1] \in JobType
      <4>1. (IF job[o].attempts = 0 THEN 0 ELSE job[o].attempts - 1) \in Nat /\ job[o] \in JobType
        BY <1>j, Counting
      <4> QED
        BY <4>1, JobRows DEF Waiting
    <3> QED
      BY <2>1, <2>6, <3>1, <1>t, <1>14 DEF MarkContentionRetry, Open
  <2>7. CASE MarkLost(o)
    <3>1. job' = [job EXCEPT ![o] = job[o]] /\ job[o] \in JobType /\ setting' = setting
      BY <2>7, <1>t DEF MarkLost, unmarked
    <3> QED
      BY <2>1, <3>1, <1>t, <1>14 DEF Open
  <2> QED
    BY <1>15, <2>3, <2>4, <2>5, <2>6, <2>7
<1>16. CASE UNCHANGED vars
  BY <1>16, <1>t, <1>k, NoGoroutineMoves DEF vars, IInv, TypeOK, LateSendWasTheOne, Open
<1> QED
  BY <1>1, <1>2, <1>3, <1>5, <1>6, <1>7, <1>8, <1>11, <1>12, <1>13, <1>15, <1>16 DEF Next, ProcessJob

-----------------------------------------------------------------------------
LEMMA Invariance == Spec => []IInv
BY InitIInv, NextIInv, PTL DEF Spec

(* Every variable keeps its type.                                          *)
THEOREM TypeCorrect == Spec => []TypeOK
<1>1. IInv => TypeOK
  BY DEF IInv
<1> QED
  BY <1>1, Invariance, PTL

(* However many orders a shop has, after it is disabled or paused at most  *)
(* one more is sent.                                                       *)
THEOREM ClosedShopsSendOneAtMost == Spec => []ClosingStopsAllButOneSend
<1>1. IInv => ClosingStopsAllButOneSend
  BY DEF IInv, LateSendWasTheOne, ClosingStopsAllButOneSend
<1> QED
  BY <1>1, Invariance, PTL

LEMMA StepKeepsEnded ==
  ASSUME IInv, [Next]_vars, NEW o \in Orders, job[o].status \in Ended
  PROVE  job'[o].status = job[o].status
<1>t. job \in [Orders -> JobType]
  BY DEF IInv, TypeOK
<1>e. job[o].status \notin Waiting \cup {"running", "none", "needs_review", "failed"}
  BY DEF Ended, Waiting
<1>w. At(o, "idle")
  BY <1>e DEF IInv, WorkersHaveJobs
<1>1. ASSUME NEW p \in Orders, p # o \/ UNCHANGED job, NEW r, job' = [job EXCEPT ![p] = r]
      PROVE  job'[o] = job[o]
  BY <1>1, <1>t
<1>2. ASSUME NEW p \in Orders, RetryJob(p) \/ Enqueue(p) \/ LeaseEnds(p)
      PROVE  job'[o] = job[o]
  <2>1. p # o
    BY <1>2, <1>e DEF RetryJob, Enqueue, LeaseEnds, Active
  <2> QED
    BY <1>2, <2>1, <1>t DEF RetryJob, Enqueue, LeaseEnds
<1>3. ASSUME NEW p \in Orders,
             MarkEnded(p) \/ MarkSucceeded(p) \/ MarkTransientFailure(p) \/ MarkContentionRetry(p)
      PROVE  job'[o] = job[o]
  <2>1. p # o
    BY <1>3, <1>w DEF MarkEnded, MarkSucceeded, MarkTransientFailure, MarkContentionRetry, At
  <2> QED
    BY <1>3, <2>1, <1>t DEF MarkEnded, MarkSucceeded, MarkTransientFailure, MarkContentionRetry, Marked
<1>4. CASE DisableShop
  BY <1>4, <1>e DEF DisableShop, StoppedByDisable
<1>5. ASSUME NEW batch \in Batches(Due), LeaseJobs(batch)
      PROVE  job'[o] = job[o]
  <2>1. o \notin batch
    BY <1>5, <1>e DEF Batches, Due
  <2> QED
    BY <1>5, <2>1 DEF LeaseJobs
<1>6. CASE Restart
  BY <1>6, <1>e DEF Restart
<1>7. CASE UNCHANGED vars \/ (\E newTrigger \in BOOLEAN : EnableShop(newTrigger)) \/ ChangeRoute
  BY <1>7 DEF vars, EnableShop, ChangeRoute
<1>8. ASSUME NEW p \in Orders,
             \/ StartManualSend(p) \/ FinishManualSend(p) \/ ActionExpires(p) \/ MarkLost(p)
             \/ CheckSetting(p) \/ PrepareBill(p) \/ RecheckSetting(p) \/ StartSend(p)
             \/ FinishSend(p) \/ PauseForRouteChange(p)
      PROVE  job' = job
  BY <1>8 DEF StartManualSend, FinishManualSend, ActionExpires, MarkLost, CheckSetting, PrepareBill,
              RecheckSetting, StartSend, FinishSend, PauseForRouteChange, unmarked
<1> QED
  BY <1>2, <1>3, <1>4, <1>5, <1>6, <1>7, <1>8 DEF Next, ProcessJob

(* A job that has succeeded or was cancelled is never written again,       *)
(* though every mark goes by the id of the job.                            *)
THEOREM EndedJobsStay == Spec => EndedIsFinal
<1>1. IInv /\ [Next]_vars => [\A o \in Orders : job[o].status \in Ended => job'[o].status = job[o].status]_vars
  BY StepKeepsEnded
<1> QED
  BY <1>1, Invariance, PTL DEF Spec, EndedIsFinal
=============================================================================
