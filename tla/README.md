# Nexflow: specifications, checks and proofs

Nexflow takes orders from marketplaces (Shopee, TikTok, Lazada, e-mail, chat),
turns each into a *bill*, sends the bill to an SML accounting server and keeps
the stock shown in the marketplace in step with SML.  It is a Go backend over
PostgreSQL: HTTP handlers, background workers and webhook receivers share
nothing but the database, and talk to servers (SML, Shopee, TikTok) that may
answer late or not at all.  What is hard about it is therefore in the SQL: which
rows a transaction locks, which conditions it repeats, which lease or fence
guards a write, and which writes have none.

These modules model that layer.  Paths below are relative to
`backend/internal/`.

## 1. Inventory

| Component | State it keeps | Operations that change it | What makes it correct |
|---|---|---|---|
| Sending a bill (`handlers/bills.go`, `handlers/bills_sml_attempt.go`, `repository/sml_attempt_repo.go`) | `bills`, `bill_sml_attempts`, the `erp_send` rows of `shopee_action_outbox`, order snapshots | edit, map, archive, delete, recreate; start, create or claim an attempt, heartbeat, finish; complete the action | a bill is sent once, with one payload; it is "sent" only when SML has it; a stale sender changes nothing; nobody stays locked out |
| Reservations and recalculation (`repository/stock_reservation_repo.go`, `services/stockrecalc`) | `marketplace_stock_reservations`, `..._demand_versions`, `..._recalc_jobs`, evidence | reserve, re-map, cancel, send, claim a job, recalculate, verify, complete, fail | demand leaves the ledger only when SML's balance counts it, and does leave |
| Stock runs (`services/shopeestock`) | `shopee_stock_runs`, `shopee_stock_leases`, targets | acquire, read demand, read balances, gate, write, read back, release | one writer per shop; no target ignores an order or counts it twice |
| Mapping and alias jobs (`repository/marketplace_*`, `mapping_repo.go`) | aliases, mapping jobs, bill items | commit a mutation, rewrite open bills, backfill | attempted bills are not touched |
| Document profile reconciliation (`services/smlprofile`, `repository/sml_profile_reconciliation_repo.go`, `repository/shopee_sml_cancellation_profile_repo.go`) | a job for each document or cancellation, its profile | report, claim, complete, defer, fail, manual retry | profile and job agree; a late worker changes nothing; every repair ends or is handed over |
| Order events (`handlers/shopee_realtime.go`, `repository/shopee_realtime_repo.go`) | push events, reconcile jobs, order snapshots | queue, lease, fetch, write the snapshot, notify, mark; sync; result of a send | the snapshot converges, loses no number, and a cancellation after the sale is noticed |
| Shopee Auto SML (`handlers/shopee_auto_sml.go`, `repository/shopee_auto_sml_repo.go`) | settings and jobs of each shop | enable, disable, enqueue, lease, check, send, mark, pause, recover | a closed shop sends no more; outcomes are final; no job waits for ever |
| Cancellation in SML (`handlers/shopee_auto_sml_cancel.go`, `repository/shopee_realtime_repo.go`) | `shopee_sml_cancellations` and their stock recalculation | queue, lease, start or resume, prepare, create, complete, supersede, retry, block | what may be in SML is stored; one success, a true one; the job settles, stock is recalculated |
| Bulk send (`handlers/bills.go`, `repository/sml_bulk_job_repo.go`) | jobs and items | create, retry, start, finish, finalise, recover | a bill is in one job; a report is true; every job ends |
| Shopee gateway (`shopeegateway`) | routes, push events, delivery outbox; connections and tokens, OAuth states | accept, lease, post, mark; authorize, refresh, execute | one job for each accepted event; a state used once, a rotated token not lost |
| TikTok gateway and reconciliation | tokens, cursors, snapshots | refresh, page, apply | the cursor never passes an order |
| Stock targets (`shopeestock/logic.go`) | none | pure functions | exact arithmetic, no negative target, circuit boundaries |
| Document counters | `doc_counters` | reserve a number | a number is handed out once |
| Imports, e-mail, chat, catalog, AI, notifications, users, frontend | their own tables | CRUD and I/O | outside these models |

How they interact.  A push reaches the gateway, which delivers it to a tenant;
the tenant queues a reconcile job, whose write of the snapshot may queue an Auto
SML job or, when the order is cancelled and its sale exists, a cancellation.  An
order becomes a bill and a reservation in one transaction; the attempt of the
bill moves the reservation when it is created and when its outcome is recorded;
a send queues a recalculation job and, if SML's profile of the document is
incomplete, a profile job; the worker of the recalculation moves the
reservation's demand into SML's balance; a stock run reads reservations and
balance and writes the difference to Shopee.  Operators, the bulk goroutine and
the Auto SML worker all enter at `sendBillToSML`.

The behaviours that are hard to test are listed, at their lines, under
`hazards` in `PROJECT.json`.

## 2. Modules

| Module | Role |
|---|---|
| `Reservation` | states of a reservation; what an insertion, a cancellation and an outcome do to one; its phase in `DemandLife` |
| `SendOnce` | abstract specification: a payload is chosen once, stored or not, acknowledged only after |
| `DemandLife` | abstract specification: the demand of an order is open, claimed by a send, waits for SML's balance and ends once |
| `SMLAttempt` | sending the bill of one order; `Once == INSTANCE SendOnce WITH ...` and `Demand == INSTANCE DemandLife WITH ...` are the refinements |
| `StockRecalc` | the reservation ledger of one item and the recalculation workers; it refines `DemandLife` as well |
| `StockSync` | `EXTENDS StockRecalc`: stock runs of a shop that read that ledger |
| `ProfileReconciliation` | the two queues that repair the profile of a document SML has |
| `EventChannel` | abstract specification: one job for each accepted event |
| `GatewayDelivery` | gateway, delivery workers and tenant; `Channel == INSTANCE EventChannel WITH ...` is the refinement |
| `OrderEvents` | the snapshot of one order and everybody who writes it |
| `AutoSML` | the setting and the jobs of one shop |
| `SMLCancellation` | the cancellation of one sale: the automatic job, the operators' calls, the recalculation after it |
| `BulkSend` | bulk jobs, their goroutines and the recovery at start |
| `SMLAttemptProofs`, `StockSyncProofs`, `ProfileReconciliationProofs`, `GatewayDeliveryProofs`, `OrderEventsProofs`, `AutoSMLProofs`, `SMLCancellationProofs`, `BulkSendProofs` | theorems about the module of that name (`StockSyncProofs` also about `StockRecalc`) |
| `MC_SMLAttempt`, `MC_StockSync` | instances with symmetry for TLC; the other modules are small enough to be run as they are |

In every module one action is one transaction, one statement outside a
transaction or one call to another server, so that every interleaving of the
code's steps is one of the model's.  What a goroutine keeps in memory between
two steps is in a variable of its own (`call`, `worker`, `reconciler`, `actor`,
`runner`), so that it may be stale when it is used.  Operators named
`<Name>_<Variant>` and marked "Faulty variant" belong to no behaviour: each is a
plausible bug in the definition `<Name>`, with which the run named under
`mutants` must fail.

### SMLAttempt

One order, the bills it comes to have (more than one after a recreation) and the
calls of `sendBillToSML`.  `bill`, `attempt`, `order`, `reservation`, `recalc`
and `erpSend` are rows; `call` is the memory of each call; `wire` holds the
requests SML has not processed and `smlDoc` what it holds under each number.

- `Load` is the `FindByID` before a send; everything up to the attempt works on
  that snapshot (`rev`, `content`, `hasAttempt`).
- `StartSend` / `CompleteSend` are `StartAction` / `CompleteAction` on the
  order's `erp_send` key.  The five-minute takeover needs a dead or a stalled
  holder (`Overdue`); completion is by key, without a fence, as in the code.
  A blocked row behaves like a failed one and is not distinguished.
- `CreateSMLAttempt` freezes the snapshot's content; `ClaimExistingSMLAttempt`
  takes the frozen bytes again.  Both put the request on the wire in the same
  step: nothing of the code's state changes between the commit and the request,
  and `Crash` covers a death in between (a request on the wire that SML never
  processes looks the same).
- `SMLProcess` may happen at any time, even when nobody waits, and not at all.
  SML keeps at most one document per number: another payload under a number it
  holds is a conflict or a refusal.  The number may be taken before we start.
- `Record` is `FinishSMLAttempt` with all it writes (attempt, bill,
  reservations, job); `GiveUp` is the same call when the lease is lost or the
  transaction fails.
- `SendToReview`, `ApplyNameMapping` and `SetArchived` carry no guard on the
  attempt because the code has none.

Left out: the purchase route, which has no attempts; the checks that can only
refuse a send (`Refuse` stands for all of them); document number *choice* (each
bill has one number, taken or not); payload contents (a content is a version).

### StockRecalc and StockSync

One item, any orders.  A reservation is its state; a quantity is its order: a
stock run's view is the set of orders it subtracts, split into the demand it has
read and the documents in the balance it has read.  Writing one's view is
writing a target.  With quantities replaced by sets, "the target is right" is
"the set is right", which is what the hazards are about; rounding is in
`logic.go`, not here.  `DemandLife` is refined twice: by the order and its bills
in `SMLAttempt`, where the ledger is one row, and by the ledger in `StockRecalc`,
where the send is one step.

The insertion of a reservation that exists (a recreated bill) follows `ReservedAs`.
The one change it makes is to an order of a set: the insertion finds the components
stored, takes the set for unmapped and blocks demand that was active.  Such a
row (`blocked_set`) still counts through its components when a run reads demand,
no revision is moved, and the mapping worker looks at it only while its bill is
open.

`job` follows the SQL of claim, mark, complete and fail.  The lease columns of a
job are written but decide nothing (claimable jobs are never running), and are
left out.  `CompleteStockRecalcJob` is one transaction at READ COMMITTED whose
evidence statements and final update see different commits: it is two actions,
`InsertEvidence` and `CompleteStockRecalcJob`.  The attempt of an order's bill
appears only through what the ledger sees of it; an unknown outcome stays
"sending".  A recreated bill, which has an attempt of its own, is left to
`SMLAttempt`.

A run takes a lease (two minutes), stores the demand revision, looks for
unproved reservations, reads demand, reads balances and then, before every
`update_stock`, passes the gate `RenewAndValidateLiveWrite`, which compares owner, lease
and revision.  The leases of the shop and of the run may expire at any moment
except between the gate and the end of the write, which has just renewed the
lease for two minutes and takes at most 45 seconds (30 s for the call, 15 s for
the read-back).  The fencing token is redundant with the owner, which is unique
per call.  Settings and catalog generations, source freshness and blocked lines
only ever stop a run: `StopEarly`.

### ProfileReconciliation

Sales documents and cancellations have a queue each, with the same fence (owner
and token: `holder`) and different statements around it.  A claim of a document
looks at its attempts; a claim of a cancellation does not, and is failed by the
CHECK of the column when they are used up: `Claimable` has the same outcome for
both, and `Exhausted` says what follows for the *other* jobs of the
cancellation queue, whose `LIMIT 1` meets the same row again.  `ReportProfile`
is the part of a send or a cancellation that stores SML's profile;
`normalizeSMLCancellationProfileResult` mistrusts SML, a send does not.  Workers
may stop at any step (`Abandon`), be slower than their lease (`LeaseExpires`
looks at no worker), and fail anywhere (`StepFails`).  Backoff times are left
out: a retry that waits is due at any time.

### GatewayDelivery

`event` and `outbox` are the gateway's rows, `stored` and `jobs` the tenant's;
`worker` is a batch and the delivery in hand.  A batch of twenty posts with a
timeout each may outlast the five minutes after which a running delivery is
taken for lost (`BecomesStale`, `Recovered`), so that two workers post one event
and the first one's mark, which goes by id, meets the row the second one holds.
The tenant stores the event and queues its job in two statements (`InsertPushEvent`,
`EnqueueReconcileJob`); `PostFails` is any end of the post without an answer.
Shopee pushes again until it knows the event was accepted (`acked`).

### OrderEvents

One order, whose status changes once, to cancelled.  `Workers` process reconcile
jobs, `Sync` is the periodic sync; both fetch, read the snapshot, read the bill,
write the snapshot and compare, in that order and with nothing held in between.
`Upserted` keeps the bill and the number the row has and takes the status as it
was fetched.  `CreateDocument`, `StartSend`, `FinishSend` and `SyncSendResult`
are the parts of a send the snapshot sees (the send itself is `SMLAttempt`).

### AutoSML

One shop.  The order of steps in `processAutoSMLJob` is kept: setting and route
(`CheckSetting`), reconcile and create (`PrepareBill`), setting and route again
(`RecheckSetting`), bill and send (`StartSend`), and the mark.  `other` is the
order's `erp_send` action in somebody else's hands; it ends, or is taken over
after five minutes.  The batch is processed by goroutines the loop waits for, so
`LeaseJobs` needs all workers idle.  Whatever the code reads from SML, Shopee or
the bill and that may make the job stop is a choice of the outcome.

### SMLCancellation

One sale; `AutoRow` is the row of the automatic job, `ManualRows` those of
calls.  A row allocates its number once, so the row's name is its number.
`DecideStart` and the write that follows (`ResumeAttempt`, `StartAttempt`) are
two actions under the advisory lock (`Locked`), which the job does not take.
SML (external, seen through `handlers/shopee_auto_sml_cancel.go`) serialises on
the source document and answers a second request with the cancellation it has.
Calls and jobs end before the leases they hold (75 s against 2 minutes; less
than 5 minutes against 5), hence `~WorkedOn(r)` in the timers.

### BulkSend

`Create` locks the table of items, so that it is one step; so is each statement
of the goroutine.  The errors the code ignores are alternatives of the step:
`FinishItem` may leave the item, the counts or both as they were; `FailJob` may
leave the job active.  `left` and `repeated` are history: jobs that lost their
goroutine, and jobs whose request came twice.  Only jobs that are in neither are
promised anything about them.

## 3. Runs

| Run | Question | Instance |
|---|---|---|
| `concurrent` | Is a bill sent once while three calls race, stall past their leases and lose answers? Does a late report undo anything, and does the demand of a sent bill always move on? | 1 bill, 3 calls, 2 versions of the content |
| `recreate` | Do snapshot, reservation, job and `erp_send` row agree with SML when the bill is archived and recreated, and does the demand run the course of `DemandLife`? | 2 bills, 2 calls, fixed content |
| `live` | Does every call return, and does a dead caller's attempt come free, while name mappings rewrite the bill? | 1 bill, 2 calls, 2 versions, fairness |
| `settles` | Is awaiting demand incorporated only when counted, and is a job left behind the only way to leave it waiting? Does every demand run the course of `DemandLife`? | 2 orders, 2 workers, 2 attempts, fairness |
| `publish` | Do two runs ever write together, miss known demand or subtract closed demand? | 1 order, 1 worker, 2 runs, 2 writes a run, 2 revisions by mappings |
| `profiles` | Do profile and job agree through late workers and operators, and does every repair end? | 1 document, 1 cancellation, 2 workers, 2 attempts, 1 manual retry, fairness |
| `events` | Does the gateway implement `EventChannel`, and is what it calls delivered with the tenant? | 1 event, 3 workers, fairness |
| `orders` | Is a cancellation noticed, is a number kept, does the snapshot converge? | 1 push, 2 workers and the sync, 2 attempts, 1 stop, fairness |
| `auto` | How much does a closed shop still send, are outcomes final, does every job end? | 2 orders, 2 attempts, 2 failures to pause, 1 change of route, 1 manual send or restart, fairness |
| `cancellations` | Is what may be in SML stored, is a success true and the only one, does the job settle and stock follow? | the automatic row and 1 manual row, 2 calls, 2 attempts, 1 recalculation, 1 stop, fairness |
| `bulk` | Is a bill in one job, is a report true, does every job end? | 2 jobs, 2 bills, 1 stop or repeated request, fairness |
| `released` | a claim of a comment that the code does not keep | 1 bill, 2 calls |

Why these bounds.  Three calls are the smallest number in which one call takes
over from a second while a third, older, reports; two versions of the content
tell a stale snapshot from a current one; two bills are one recreation; two
attempts of a job are a failure and the last failure (the code's limits of three
and ten are `MaxAttempts`).  `MaxRev` bounds edits and `MaxRevision` the
re-mappings and repeated reservations, the only steps that could repeat for ever
and move a counter; `MaxJobs` is a bound no behaviour reaches, since an event
has one job.  `publish` has one order because the action properties and the
writes speak of one order at a time and orders do not interact within a run
except through the revision.  `events` has one event and three workers: events
share nothing but batches, and three is a worker that is too slow, one that
takes over and one that takes over from it.  `orders` has one push because any
number of fetches of any age already come from the sync; two workers are one
more than that job can occupy, so that a job that was queued again meets the
worker that has not finished with it.  `profiles` has one job in each queue and
`cancellations` one row of each kind, with two workers or calls for it; a
second cancellation job would only add the
blocked queue that `Exhausted` describes.  `auto` and `bulk` have two of
everything that must exclude each other.  The theorems hold for any of these
numbers.

Deadlock is not checked: when every call has returned and every job has ended
the modelled system has nothing left to do, and the bounds on operators, stops
and retries stop it earlier than that.

## 4. Fairness

Every module's `Fairness` says what the scheduling of the code gives and nothing
of operators, of pushes or of failures, which may or may not happen.

`SMLAttempt`: weak fairness of each call's own steps and of the lease's end.
Every wait in a call has a timeout (30 s in the SML client, 5 s in a renewal),
so a call whose process lives proceeds; time passes, so a lease nobody renews
ends.  Nothing is assumed of SML, of operators or of `Load`, and `Crash` is
always possible.  In `live` a sender is never stalled past its lease
(`StalledSends = FALSE`); safety is checked and proved with stalls as well.

`StockRecalc`: weak fairness of each worker's steps: the worker polls every 10 s
and gives each job two minutes.  Failures (`StepFails`) are not fair and not
prevented, nor are a process that stops and a failure that cannot be recorded.
The last two leave a job running for ever (section 6); `AwaitingDemandIsSettled`
says that nothing else keeps demand waiting: it excepts a job a worker has left
behind and the time when no worker is alive.

`ProfileReconciliation`: weak fairness of a worker's steps and of the end of a
lease; strong fairness of the claim of a job, because the queue is taken in the
order of `next_attempt_at` and each job has its turn.  For a cancellation the
claim is assumed only while no exhausted job blocks the queue.
`EveryRepairEnds` excepts the exhausted jobs and, for cancellations, a queue
that is blocked or a route that is inactive.

`GatewayDelivery`: the worker polls every two seconds and works through its
batch (weak); a delivery is leased, posted and answered if it is due again and
again (strong): the gateway and the tenant are up often enough.  `EventChannel`
promises a job or a drop; the drop is the crash between the tenant's two
statements.

`OrderEvents`: what a reconciler has started goes on (weak); the sync comes every
interval and each of its steps succeeds if it is tried again and again (strong).
Without the sync `SnapshotConverges` fails: a job may be given up.

`AutoSML`: the worker's steps, leases and the sends of others end (weak); of the
due jobs the one that has waited longest is leased, so each has its turn
(strong).  `JobsEnd` excepts closed shops and an abandoned job, whose mark was
lost: it is queued again at the next start of the process and not before.

`SMLCancellation`: weak fairness of what was started, of leases, and of the
start of a stopped process; strong fairness of the lease of the due job, which
an operator's call may hold back now and then.  `AutoCancellationSettles` and
`SuccessIsRecalculated` except work that was under way when its context or its
process ended: leases are recovered when the workers start, only then, and only
if they have run out by then.

`BulkSend`: a goroutine goes on and a stopped process is started again (weak).
`BulkJobsEnd` excepts the jobs in `left`, which lost their goroutine since the
process started: the next start fails them.

## 5. Proofs

The theorems hold for every set of bills, calls, orders, workers, jobs and
events, every bound, and both values of each flag.  The assumptions are the
named ASSUMEs of the modules: null values differ from real ones, bounds are
natural numbers (positive where an attempt must be possible), and the bills of
`BulkSend` are finite, because its counts are cardinalities.  TLC evaluates
them in every run.

Every module proves an invariant `Inv` or `IInv` (`Init => IInv`,
`IInv /\ [Next]_vars => IInv'`) and derives the theorems from it.

`SMLAttemptProofs`.  None of the properties is inductive.  The invariant `Inv`
adds what ties a call to the database:

- a call past `ready` has an attempt, and the attempt has a payload exactly when
  it exists (`CallInv`, `AttemptInv`);
- every request on the wire carries the payload of its bill's attempt
  (`WireInv`): this needs that an attempt is never removed or given another payload (`Keeps`);
- a call that holds the answer "success" has an attempt whose payload SML holds.

The last one is why recording is sound even when the answer is old: documents
are never replaced.  `SenderInv` relates a request to the call that sent it.  From `Inv`:
`TypeCorrect`, `PayloadImmutable`, `StoredWhenSent`.  `SentForGood` needs in
addition that a lease belongs to an attempt in `sending` (`LiveInv`), so that its
end touches no sent attempt.  `SendOnceImplemented` maps every step to
`Choose`, `Store`, `Acknowledge` or a stutter.

The other theorems of the module add an invariant each to `Inv`:

- `PayloadStaysCurrent` (without name mappings, `~NameMapped`): `SnapshotInv`, the
  revision of a bill and of a snapshot is the version of its content.  So equal
  revisions under the row lock are equal contents, whatever the age of the
  snapshot, and an attempted bill is not edited.  With name mappings the property
  is false (`OnlyUnattemptedContentChanges` in section 6), hence the hypothesis.
- `OneCredit`: `CreditInv`, a call that reports a send as its own has recorded
  it and no other call has, for that bill.  Every step makes of a call's report one of
  the four things in `Reports`, and `ReportsOwnSend` needs an attempt that was
  not sent before.
- `DoneOnlyWhenSent`: `ReportInv`, a call says "sent" or "already sent" only when
  one of the order's bills was sent.  This is why the completion by key, without
  a fence, is harmless.
- `AwaitingHasJob`: demand is made to wait only in the step that queues the job;
  it then stays with its bill, and jobs and sent attempts are not removed.
- `DemandImplemented`: every step is one of `DemandLife` or a stutter (`Course`
  is the list of what may happen to one demand).  It needs `FreshInv`, that a bill
  which does not exist yet has no attempt: otherwise an insertion could give
  demand to a bill that was sent before.
- `SentHasMovedOn` (without recreation, `~ShopeeRealtime`): `FollowsInv`, the
  reservation of a sent bill has left the states before the send, also after
  exact retries, which send demand that is active again; and `LinkInv`, order and
  reservation have the same bill.  With recreation `LinkInv` fails and so does
  the property (section 6).

`StockSyncProofs`.  `IncorporatedWhenCounted` needs that a worker past the
verification, and only it, has seen its order in the balance, and that
documents stay counted.  For the two write properties the argument is the
revision: as long as the revision a run has stored is the current one, every order
known now was seen by the run's reads in the demand or in the balance, and every
order it has subtracted as demand is still held, blocked with its
components or in the operator's hands (`Open`).
Every step that could break this moves the revision, which only grows; the gate
then finds a difference.  These theorems do not assume the leases to be exclusive.

`OneWriter` is about that exclusion.  `OneWriterPerShop` alone is not inductive: a run
may stand before its gate when another takes the lease.  `WriterInv` says that a run
between its gate and the end of its write owns the lease and that the lease is live; the gate
establishes it, and nobody takes a lease that is live.

The ledger has theorems of its own, about `LedgerSpec`; those of the composition
follow because a run changes nothing of the ledger (`RunsLeaveLedger`).
`AwaitingHasOpenJob` needs `QueueInv`: only a sent attempt has a job, so that the
job a send queues is new and never one that has ended.  `DemandImplemented` shows the
ledger and its workers to implement `DemandLife`: the completion counts only what
SML has taken although its evidence and its update are two steps, because the
update repeats the condition on the reservation's state.

`ProfileReconciliationProofs`.  A job that runs was claimed (`RunningWasClaimed`:
its attempts are not zero, which `Defer` needs to give one back), and a profile
that was never reported has no job.  The rest follows from the fence: a worker
writes only while the job is running and the worker its holder, and whoever
takes the job replaces or removes the holder.  `RepairsAreFinal` and `LiveClaimsAreKept` are
action properties with a case for each action.

`GatewayDeliveryProofs`.  `UnroutedIsIdle`: no worker has an event in hand that
has no delivery.  `OneQueues`: of the workers between the tenant's two
statements there is one for each event, because only the insertion that was not
a duplicate gets there, and none once there is a job.  These make every step one
of `EventChannel` or a stutter: `SafeChannelImplemented` is the safety part of
`OneJobPerEvent`.  A mark by id is harmless because it writes `delivered` only
after an answer, and an answer needs a stored event.

`OrderEventsProofs`.  `CancellationsAreNoticed` needs `ReadersMayRely`: whoever
read a cancelled snapshot before its own write will see no transition, and may
rely on the one who wrote it, who has noticed it, is about to, or has missed it
for a reason the property names.

`AutoSMLProofs`.  A goroutine is at work only for a running job
(`WorkersHaveJobs`), and only one is (`OneAtWork`); so the mark by id meets the
row of its own job, which has not ended (`EndedJobsStay`), and the send of a
closed shop is the one whose goroutine had passed the second look
(`LateSendWasTheOne`): after it nobody is before a send until the shop opens.

`SMLCancellationProofs`.  `ActorOK`: an actor works on a row while the row is in
creation, and only a call that has decided to resume holds a failed row, under
the lock (`OneHoldsLock`).  The job takes rows in `pending`, a call those that
failed: so two actors never share a row.  `SuccessesAgree` and `CreatedIsKnown`
give the success SML's number.  The invariant does not need the timers' guards.

`BulkSendProofs`.  `RunnerAgrees`: the goroutine of a job nobody repeated is
there only while the job is active, its bill's item is running and the items
before it are queued; so it works only on what the job claims.  `OneClaim`: two
active jobs claim no bill together.  `Create` keeps it because it looks at every
active job, whoever runs it, and `Process` because a recovery never claims.
Reports are made by `FinalizeJob` alone for such jobs, from the items as they
are.

Every safety property that a run checks is stated by a theorem.  The type
invariants of `SMLAttempt`, `StockSync` and `ProfileReconciliation` (`TypeOK`, part
of their inductive invariants) are proved and are in no run.  Only model-checked are the liveness properties (`EveryCallReturns`,
`NoAttemptStaysBusy`, `AwaitingDemandIsSettled`, `EveryRepairEnds`,
`SnapshotConverges`, `JobsEnd`, `AutoCancellationSettles`,
`SuccessIsRecalculated`, `BulkJobsEnd`) and the fairness part of
`OneJobPerEvent`: liveness and ENABLED are out of the prover's reach.  Two theorems
have a flag as a hypothesis, because the code keeps the property only there: while
no name mapping is saved that rewrites open bills, and for orders that are not
Shopee's, whose bills alone are recreated.  Run `concurrent`, which checks
both properties, has the flags set that way.

## 6. Divergences found

Seven statements of the repository's comments and documents do not hold of the
code.  The first one has a run, `released`.  The others are stated as definitions in their
modules; each is refuted when it is checked in the instance named here.

| Claim | Stated in | What the code does | Instance |
|---|---|---|---|
| `ReleasedDemandNeverReachedSML` | comment, `stock_reservation_repo.go:201-203` | a cancellation during an exact retry releases demand that is in flight | run `released` |
| `RecreatedWasNeverAttempted` | guard of the recreate handler, `handlers/bills.go:933-936` | a sender that loaded the bill before the attempt clears the number of an attempted bill (1843), which the guard then lets pass | `MC_SMLAttempt_recreate.cfg` |
| `SentReservationAwaitsRecalc` | `docs/shopee-stock-sync-runbook.md:63-65` | after a recreation the reservation stays with the old bill, and the send of the new one moves none; where bills are not recreated it holds (`concurrent`, `SentHasMovedOn`) | `MC_SMLAttempt_recreate.cfg` |
| `OnlyUnattemptedContentChanges` | `docs/product-mapping-master.md:50` | a name mapping rewrites the items of an attempted bill | `MC_SMLAttempt_live.cfg` |
| `RunningJobRecovers` | `docs/sml-document-profile-runbook.md:35` | a running recalculation job whose worker is gone is never taken again | `StockRecalc_settles.cfg` |
| `UnprovedDemandIsNotZero` | `docs/shopee-stock-sync-runbook.md:74-75` | demand that becomes unproved after a run's only check does not block its write | `MC_StockSync_publish.cfg` |
| `OneNumberPerSale` | comment, `repository/shopee_realtime_repo.go:2467-2469` | the automatic job prepares a number of its own after `Preflight`, while a call resumes or begins an attempt with another; SML's lock on the source document is what remains | `SMLCancellation_cancellations.cfg` |

Behaviour the models show and no document contradicts:

- A bulk request repeated with the same `client_request_id` gets the job it
  created, ended or not, and starts another goroutine for it
  (`sml_bulk_job_repo.go:237-243`).  Items that are still queued look free to
  other jobs by then.  `OneJobPerBill` and `ReportIsTrue` except such jobs
  (`repeated`); without the exception TLC refutes them.
- The insertion of a recreated bill's reservation blocks the active demand of an
  order of a set without moving the revision (`stock_reservation_repo.go:141-180`),
  and the mapping worker does not reach it through the archived bill.  Runs go on
  subtracting its components.
- A cancellation's profile job at its last attempt in `running` fails every
  later claim of its queue (`Exhausted`).
- The tenant loses an event's job when it stops between its two statements
  (`Drop`); the periodic sync repairs the snapshot.
- A failed read of the Auto SML setting cancels the job, and no operator can
  retry a cancelled job.

## 7. What is left

Next, in this order:

1. Token refresh and OAuth states of the gateway: a rotated token whose storing
   fails, an operation executed again after a token error.
2. A version of `StockSync` in which a write to Shopee outlives its timeout and
   is applied after a newer run's.
3. `StockTargets`: allocation and the zero-drop circuit against reference
   definitions over bounded inputs.
4. TikTok: the cursor of the order pages and the reconciliation.
5. Alias jobs and the backfill of mappings; document counters.

Theorems to add: those of the modules above, and for the existing ones the
refinements that are still missing, an abstract specification of `BulkSend` (a
bill is claimed by one job and released by its end) and one of the profile
queues.

## Not modelled

Imports, settlements, e-mail, chat, LINE and MyShop, notifications, catalog, AI
mapping and OCR, users and settings, and the frontend: presentation, CRUD, text
extraction, message I/O and calls to AI services.  They keep no state another
component relies on, beyond the bills and mappings they create, which enter the
models as inputs.  They are most of the lines of the repository and little of
its protocol.  Within the modelled components the lists, searches, previews,
payload building and wording are left out; what is left out of each is in
`components` of `PROJECT.json`.
