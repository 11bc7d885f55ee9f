# CargoFlow: TLA+ models, model checking and proofs

This directory models the core of CargoFlow: the fleet ledger of the integration
API, the outbox and its way through RabbitMQ and the worker, the Bitrix24 webhook
with its idempotency keys, the worker's two-way synchronization of a trip with its
deal, the dashboard's page of trips, and the Bitrix24 module that audits deals.
Paths are relative to the repository root; `api` stands for
`apps/integration-api/src`, `worker` for `apps/integration-worker/src`.

## 1. The system

| Part | Code | State it keeps |
| --- | --- | --- |
| Fleet ledger | `api/fleet/trips.service.ts`, `trip-transitions.ts` | PostgreSQL tables `trips`, `vehicles`, `drivers` |
| Outbox, publisher | `api/common/messaging/outbox.service.ts`, `rabbit.publisher.ts` | table `integration_events`; one connection, one confirm channel |
| Worker | `worker/worker.service.ts` | RabbitMQ queue, retry queue, DLQ; messages in flight (prefetch 10) |
| Trip sync, lock | `worker/trip-sync.service.ts`, `redis-lock.service.ts` | the trip, the deal, `cargoflow:lock:deal:<id>` in Valkey |
| Webhook | `api/integrations/webhooks/*`, `api/common/cache/redis.service.ts` | `cargoflow:webhook:<fingerprint>` in Valkey, `integration_events` |
| REST client | `packages/shared/src/bitrix-client.ts` | none; the deal it updates is Bitrix24's |
| Dashboard | `apps/dashboard/app` | the table shown, the load under way, the marked row, the saving form |
| PHP module | `bitrix/local/modules/cargoflow.core` | an append-only audit table; whether it, the module and the handler are there |
| Queries, health, metrics, configuration, deployment | rest of `apps`, `packages`, `infrastructure` | none of their own |

**Operations and interactions.** A request (`create`, `assignVehicle`,
`updateStatus`) runs one interactive transaction and inserts an integration event
with the change; after the commit it calls `dispatchById`, and a timer calls
`dispatchPending` every five seconds. Both read the row, publish it with a
confirmation and mark it `PUBLISHED`. `WorkerService.consume` runs
`TripSyncService.process` under the deal's lock, marks the row `PROCESSED` and
acks; an error sends the message to a retry queue with a TTL, the last one to the
DLQ. `process` writes the deal through REST. Bitrix24 answers every change of a
deal, the worker's own included, with a webhook call, which becomes one more
event, one more message, and a `pullDealFromBitrix` that writes the trip.
The dashboard sends the requests, and reads the trips again after each that
succeeded. Inside Bitrix24 every update of a deal also runs the PHP module's
handler, which appends the deal's risk to its audit table.

**What is hard here.**

- Two requests interleave between the read that checks a row and the write by id
  alone (READ COMMITTED, no `FOR UPDATE`); several rows are locked in different
  orders.
- A confirmation, an ack, an UPDATE and a log row are four steps, and the process
  or its connection may end between any two.
- The request and the timer dispatch the same row; a message may be handled again
  after it succeeded.
- A claim in Valkey may outlive the process that took it, and may expire, or be
  deleted by another, under a delivery that still runs.
- The lock has a TTL that a slow handler outlasts; a busy lock is an error that
  uses up a retry.
- Messages of one deal are in no order, and each update of the deal makes another.
- The page has one marker for all its rows, shows what others have changed since,
  and replaces a refresh that is under way by the next one.
- The audit sees the fields of one update, rounds before it compares, and may lose
  its table to an installer that was interrupted.

**What makes each part correct.**

- *Ledger*: a vehicle and a driver are in one active trip at a time, both or
  neither; statuses move along the diagram; the end of a trip frees its crew; no
  half of a booking survives a refusal or a crash; events tell what happened; and
  if a request that overlaps another breaks any of it, nothing else does.
- *Delivery*: an event that left the outbox is somewhere, or was processed, or is
  in the DLQ; a final status is true; every stored event settles.
- *Webhook*: one acceptance per event; a key never promises more than the table
  holds; nothing keeps an event out for ever.
- *Trip sync*: a lock is deleted by its owner alone; what is read under it is
  current at the write; echoes die out; the two sides agree at rest.
- *Page of trips*: nothing stays disabled for nothing; who changed a trip sees the
  change; a stale row moves no trip from a stage it did not show.
- *Audit*: a whole update is audited with its risk, and what a partial one can
  misstate is bounded; a worse deal is never rated safer; while the handler is
  registered it finds its module and its table.

## 2. The modules

| Module | Models | State, and what it stands for |
| --- | --- | --- |
| `TripLifecycle` | `trip-transitions.ts`, the status enums | the diagram `allowedTransitions`, `FinalStatus`, `ActiveStatus` |
| `CrewLedger` | what the three operations promise, abstractly | `trip`, `vstatus`, `dstatus`: one atomic step per operation |
| `Fleet` | the three transactions, statement by statement | the four tables as committed, and `tx`: per request the next statement, what it read, the rows it holds |
| `AtLeastOnce` | what outbox, broker and worker promise together, abstractly | `told`, `carried`, `ran`, `acked`, `buried`: what the table says of an event, and what has happened to it |
| `Delivery` | outbox, broker, `consume` | `row`, the dispatchers `disp` and `batch`, the queues as bags, `handler`, `worker` |
| `IdempotentReceiver` | what the webhook promises of an event, abstractly | `stage`, `answers`, `done`: stored or not, how often accepted, called processed or not |
| `Webhook` | `BitrixWebhookService.accept` and its keys | `key`, `stored`, and `req`: where each delivery is |
| `DealSync` | `TripSyncService`, `RedisLockService` | `trip`, `crew`, `deal`, `queue`, `lock`, `handler` |
| `TripsPage` | `trips.vue`: buttons, form, requests, refreshes | `shown`, `load`, `marker`, `saving`, `call`: each click with its handler; `row`: the API's statuses |
| `DealRisk` | `DealEventHandler`, both calculators, the installer | `deal`, `updates`, `audit`, and `table`, `module`, `handler`, `admin` of the installation |
| `*Proofs` | theorems; `FleetSerialProofs` extends `FleetProofs` | |
| `MC*` | the instances TLC checks | |

`Fleet` is refined against `CrewLedger` (`ImplementsLedger`, an `INSTANCE` with
the vehicles' statuses as refinement mapping), `Delivery` against `AtLeastOnce`
(`ImplementsChannel`: a table row is `told` by its status, and an event is `carried`
while a queue, an unacked handler, an ack after success or the DLQ has it), and
`Webhook` against `IdempotentReceiver` (`ImplementsReceiver`: an event's `stage` is
"absent" without a row, "open" while the delivery that inserted the row has neither
answered nor failed, "closed" after; `answers` counts the answers `accepted`; it is
`done` while its key says "processed"). `Fleet`, `DealSync` and `TripsPage` share
`TripLifecycle`.

**Fleet.** A statement is an action; `pc` is the statement that comes next. Writes
become visible at `Commit`, until then the row is in `held` and other writers of
it wait, as in PostgreSQL. `ClaimVehicle` and `ClaimDriver` are the conditional
`updateMany`, which re-reads the row when it is unlocked; `Refuse` is their count
of 0 (409 and rollback), the unique violation of `driver_id`, and P2002 of a deal
that has a trip already. `Abort` is everything else that ends a transaction.
Validation errors that a request meets in its first statement change nothing and
are no actions. `Overlap = TRUE` admits any overlap, as the API does;
`Overlap = FALSE` lets requests about one trip come one by one. The code does not
ensure that: several dashboards, and as `TripsPage` shows one alone, may have two
under way. It is the case in which the transactions are correct, and says what a
lock per trip, or a write conditional on the status, would give. What the code does
give is stated under any overlap: `Stale(r)` says that the trip of `r` is not what
`r` read of it any more, and `OnlyStaleLeaveLedger` that the commit of such a
request alone leaves the ledger.

**Delivery.** Every `await` of `dispatchById`, `dispatchPending` and `consume` that
can fail has its own failing action, counted by `faults`. A broker takes a
message before it confirms it, so `PublishFails` may have enqueued. Messages
unacked when a process or connection ends go back to the queue, unchanged.
After `ConnectionLost` the worker lives on with a dead channel, and its handlers
run until they touch it (`ChannelThrows`), because nothing in the code reconnects.

**Webhook.** An event is its fingerprint. A delivery of it may begin at any time, any
number of times. A failed command of Valkey, or a failed INSERT, may have taken
effect (`Perhaps`). `accepted` counts answers `accepted`; `orphaned` remembers
claims that a crash or a fault of Valkey left behind, to say whose fault a
forgotten claim is. The TTL may pass at any time (`Expire`), which includes a
restart of Valkey without its data.

**DealSync.** One deal. The requests are atomic here (their interleaving is
`Fleet`'s) and their messages are in the queue at once (their way is `Delivery`'s).
Handlers take messages in any order, which includes every delay of the retries.
`lock` names the handler whose token the key holds. A SET NX, an upsert or a
`crm.item.update` whose answer is lost may have taken effect (`DoneUnanswered`), and
a DEL that fails is swallowed (`Release`): then the key stays until its TTL. `Slow` says whether a handler may
outlast the 30 s of its lock; `lapsed` remembers who did. A crash leaves the lock
behind, until it expires.

**TripsPage.** A click is a call that goes from its request to the end of its
handler. The API answers in one step here, as its transactions are `Fleet`'s; an
answer may be lost after the request took effect. `runAction` marks one trip, and
whichever handler ends removes the mark. `StartLoad` is Nuxt's `refresh()`: a new
load replaces one under way, and who awaited the old one awaits the new one. It
does not throw; after a failed load there is no table. `OtherMoves` is any other
user, and the worker. `known` remembers which requests were executed before a
table was read.

**DealRisk.** One deal. An update sets some fields; its handler runs in the same
request, so that handlers of two updates may run in either order, with steps of the
installer between. Amounts are whole units, so PHP's floats are exact fractions
here; `Rounded` is `round`, half away from zero. The steps of `DoInstall` and
`DoUninstall` are actions, and the request may end between any two (`Interrupted`).
The repository throws whenever its INSERT fails, and the handler swallows that: the
row is lost ("unsaved"), with the table or without.

## 3. The runs

| Run | Instance | Question and answer |
| --- | --- | --- |
| `fleet_overlap` | 2 deals, vehicles, drivers, requests, any overlap | Do claims stay exclusive (`BookingTakesFreeCrew`, `OneVehiclePerDriver`), and does a trip past CREATED have its crew (`AssignedHasCrew`)? Does every change commit with its event, which tells it (`EventsTellHistory`)? Is a commit of a request whose trip has changed since it read it the only step that leaves the atomic ledger (`OnlyStaleLeaveLedger`)? Do all wait for each other only in the two cases of section 6 (`SomeoneGoesOn`)? Yes. |
| `fleet_serial` | 3 deals, 2 vehicles, 2 drivers, 2 requests, serial per trip | Do the transactions implement the ledger, with races across trips, rollbacks and aborts anywhere, and keep crews and trips consistent? Yes: here no commit is stale. Races within a trip are `fleet_overlap`'s and `fleet_status_race`'s. |
| `fleet_status_race` | 1 deal, 2 overlapping requests | Does a status follow the diagram under overlap? **No**: `updateStatus` and `assignVehicle` write by id what they checked before. |
| `delivery` | 1 event, 2 handlers, 1 retry, 2 faults, limit 3 | Is a published event never lost silently nor given up early, are final statuses true, is every step one of the channel `AtLeastOnce`, and does every stored event settle? Yes, once the queue is declared and if the worker is restarted. |
| `delivery_undeclared` | API publishes before the first worker | Is it lost? **Yes**: the broker confirms and drops it. |
| `delivery_twice` | no fault at all | Is an event processed once? **No**: request and timer both publish it. |
| `webhook` | 1 event, 3 deliveries, every fault | Is every step one of an idempotent receiver; is there one acceptance, are keys true, is no claim forgotten, and is the event stored in the end? Yes. |
| `deal_sync_lock` | 2 handlers, slow ones, 2 changes, 1 move, 1 retry, 1 fault | Does an owner keep its lock, does no trip fall back to CREATED, and does the worker alone, without a move in the portal, strand no crew? Yes. |
| `deal_sync_liveness` | the same, no slow handlers | Is what a handler read current at its write, is a deal marked once, is everything in step whenever nothing is under way, do echoes end, do the sides agree in the end? Yes. |
| `deal_sync_end` | 1 handler, 1 move, no fault | Does a deal closed in the portal free the crew? **No**: the upsert touches the trip only. |
| `trips_page` | 2 trips, 3 clicks, 1 move by others | Is every disabled row and form waiting for a request of its own, does a handler end with its own change in the table, does a click only move a trip from the stage shown, does every click end? Yes. |
| `deal_risk` | 2 updates, 2 installations | Does the audit state the risk of a whole update, never more than the risk of a partial one that has a price, and never LOW without one; is a worse deal never rated safer; does a registered handler find its module and its table? Yes, but for a margin within half a hundredth of a per cent of a threshold that is rounded onto it. That a heard update gets its row is not so: section 6. |

The four violations are the findings of `PROJECT.json`, each with the sentence of
the documentation it contradicts.

**Bounds, and why they are enough.** The races of the ledger need two requests; two
vehicles and drivers give each request the other's row to want, and a third deal
lets a crew be booked, freed and booked again beside a live trip. Of the two ways in
which all may wait, two overlapping requests about one trip meet the one; the other, of
two creates, takes a third request, and is left to the theorem. In `Delivery`
events meet only in the timer's batch and in the queues; what can go wrong with
an event involves its two dispatchers and the handlers of its copies, hence two
handlers, and two faults, as a second fault during the recovery from a first one
is where copies multiply. `RetryLimit` 1 has a first and a last attempt, and a
middle one differs from neither (2 takes more than the time of a run; the theorems
hold for any number). `DispatchLimit` stands for 20 and is above the faults; at
the limit an event stays PENDING for ever (section 6).
In `Webhook` three deliveries let one fail, one expire and one win; events share
nothing, so one is enough. In `DealSync` two handlers contend for the lock and a
third would do what a redelivered message does for one of them; two changes are
what it takes for an older status to overtake a newer one. In `TripsPage` three
clicks let a request run while a second one of its trip, or a reload, replaces its
refresh, and a third ends in between; one trip has its crew, the other is still to
be created; others move a trip ahead or cancel it. In `DealRisk` the amounts lie on
both sides of a million, the costs put the margin on 10.003, 10 and 9.994 %, on 14.99
and 15 % and on 15.003 %, which is rounded to 15 %, the discounts lie on 7 and 15,
and a property
relates two rows; the second installation finds the table of the first. `count` bounds
changes, moves and faults in their guards; nothing else is bounded.

Symmetry is used where no property is temporal or where only action properties are
checked, over constants that no definition tells apart. Deadlock checking is off
where a system may come to rest for good: all trips ended, all faults spent.

**Fairness.** `Delivery`: dispatchers, handlers and the timer run on (weak fairness:
Node's event loop runs what is ready), and the broker delivers a message that is
ready again and again (strong fairness over the handlers, since crashes empty
them). `WF(WorkerStart)` is not the code's but the operator's: after a lost
connection nothing reconnects, and without this assumption `EventSettles` fails.
`Webhook`: Bitrix24 delivers the event again and again, also once its key is gone
(strong, as the key comes and goes), keys expire, and no fault hits every attempt
of a statement. `DealSync`: handlers run on, messages are delivered, locks expire;
nobody has to change anything. `TripsPage`: requests and loads are answered or fail
(`$fetch` settles), and handlers go on; nobody has to click.

## 4. What is proved

TLAPS checks the following for every number of deals, vehicles, drivers, requests,
events, deliveries, handlers, trips and clicks, every amount and every bound, from
the assumptions on the constants in the modules (identifiers differ from `Null`,
bounds are naturals).

| Theorem | Says |
| --- | --- |
| `CrewLedgerProofs!LedgerConsistent` | `CrewConsistent` holds of the abstract ledger |
| `FleetProofs!TypeCorrect`, `CrewAlways`, `BookingSafe` | types, `AssignedHasCrew` and `BookingTakesFreeCrew`, under any overlap |
| `FleetSerialProofs!OneVehicleEach` | `OneVehiclePerDriver`, under any overlap |
| `FleetSerialProofs!OnlyStaleLeave`, `HistoryTold` | `OnlyStaleLeaveLedger`, `EventsTellHistory`, under any overlap |
| `FleetSerialProofs!CrewsConsistentUnlessStale` | `CrewConsistent`, in every behaviour without a stale commit |
| `FleetSerialProofs!LedgerImplemented`, `CrewsConsistent` | `ImplementsLedger`, `CrewConsistent`, where requests about one trip come one by one |
| `FleetSerialProofs!NoOtherDeadlock` | `SomeoneGoesOn`, under any overlap |
| `FleetSerialProofs!EventsLookLegal` | under any overlap, the newest event of a trip names its status and a step of the diagram |
| `DeliveryProofs!TypeCorrect`, `RowsAreTrue` | types, and `HistoryIsTrue` |
| `DeliveryProofs!NothingLost` | `NoSilentLoss`, where the queue was declared first |
| `DeliveryProofs!NoneGivenUpEarly` | `StillTried` |
| `DeliveryProofs!ChannelImplemented`, `ChannelSuffices` | `ImplementsChannel`, where the queue was declared first; and that any implementation of the channel has `NoSilentLoss` and `HistoryIsTrue` |
| `WebhookProofs!TypeCorrect`, `Idempotent`, `KeysTellTruth`, `ClaimsAccounted` | types, `AcceptedOnce`, `ProcessedIsStored`, `NoForgottenClaim` |
| `WebhookProofs!ReceiverImplemented`, `ReceiverSuffices` | `ImplementsReceiver`; and that any implementation of the receiver has `AcceptedOnce` and `ProcessedIsStored` |
| `WebhookProofs!DatabaseLeavesNoClaim` | where only the database may fail, the event of every claim is stored or in somebody's hands |
| `DealSyncProofs!TypeCorrect`, `LockIsOwned`, `NoneCreatedAgain`, `ReadsAreCurrent` | types, `OwnerKeepsLock`, `NeverCreatedAgain`, and `ReadIsCurrent` where handlers are not slow |
| `DealSyncProofs!LockExcludes` | one handler at most is at work within the TTL of its lock; one at all, where handlers are not slow |
| `DealSyncProofs!DealsMarkedOnce`, `SyncedAtRest` | `MarksOnce`, `RestIsSynced`, where handlers are not slow |
| `DealSyncProofs!WorkerStrandsNoCrew` | `OnlyMovesStrandCrew`, slow handlers included |
| `TripsPageProofs!TypeCorrect`, `NothingStaysDisabled`, `ReadsItsOwnChange`, `MovesFromShown` | types, `DisabledForAReason`, `OwnChangeShown`, `AdvanceFromShown` |
| `DealRiskProofs!TypeCorrect`, `NoStepDown`, `RiskStated`, `HandlerFindsTable` | types, `WorseNeverSafer`, `RiskOfTheDeal`, `HeardFindsItsTable` |

*Fleet.* `AssignedHasCrew` is not inductive: a transaction about to commit could be
anything. The invariant `Inv` adds where a transaction can be (`Shape`), that a
row has one holder (`RowsExclusive`), that what a booking checked of a row it
holds is still so (`ClaimsHold`: the conditional UPDATE and the row lock together),
and that a status change towards a crewed status starts from a trip that has its
crew and cannot lose it (`CrewAhead`, with `CrewPaired`). There is one lemma per
statement; `CommitInv` and `CommitTakesFreeCrew` carry the argument.

*Fleet, the ledger and the history.* `OpenInv` holds under any overlap: a status
change or an assignment remembers a step of the diagram and the crew it read, what a
status change has freed is of that crew, and a trip before its assignment has no crew.
With it the commit of a request that is not `Stale` is one step of `CrewLedger`, and
every other step leaves the tables as the ledger sees them (`NextRefines`, with one
lemma per step of the ledger), which is `OnlyStaleLeave`. `HistoryTold` needs of `OpenInv` the
remembered step only. `CrewsConsistentUnlessStale` is the theorem of the ledger,
instantiated with the refinement mapping. `SerialFresh` shows that no commit is stale
where no two requests are about one trip (`SerialInv`: `OneByOne`, and what was read is
`Current`), which gives `LedgerImplemented` and `CrewsConsistent`; these two say
nothing of races within a trip. `OneVehicleEach`: a driver's vehicle is named by one
row, committed or held (`LinkInv`). `EventsLookLegal` adds to `Inv` what a request
remembers of its check.

*Fleet, circular waits.* `NoOtherDeadlock` holds under any overlap. Who has written a
trip and waits is about to free a vehicle or a driver (`TripHolder`), so that a wait for
a trip is a wait for a status change of that trip: the second named case. Where nobody
waits for a trip, the argument goes from the last lock backwards: who has its driver
goes on (`LastLock`); then no driver is held where all wait, who holds a vehicle is
linking its driver to it (`VehicleHolder`), and waits for the vehicle of another that
replaces that driver, whom it had not read (`Relinker`). That other waits likewise: the
first named case. Where requests about one trip come one by one it is the only one.

*Delivery.* `NoSilentLoss` is not inductive: a message is acked because of another
one. `Carried(e, a)` says that of `e` there is a message of attempt `a` or later, or
an outcome. What is acked after a retry was published is carried by a later attempt
(`AckIsSafe`), and so is what the outbox let go (`LeftIsCarried`); each fault and
each step keeps both, as a message only ever turns into one of a later attempt, into
a success, or into a dead letter. `FaultsCounted` is what `StillTried` needs: the
attempts of a row that never left the outbox, with those its two dispatchers are
about to count, are at most the faults; a dispatcher that fails counts the fault
first. `ChannelImplemented` adds that only stored events are dispatched
(`OnlyStored`). A publication carries its event; `WorkerKeepsAnswered` says that no
later step changes who is answered for: none is lost (`Keeps`, from the lemmas of
`NothingLost`), and none appears, as what is requeued was unacked, what is retried or
dead-lettered is carried already (`AnsweredIsCarried`). Then each handler's step is
one of `Execute`, `Ack`, `Bury`, `TellTruth`, or none. `ChannelSuffices` derives the
two safety properties back from the abstract steps.

*Webhook.* `Inv` names the *winners*: deliveries between their INSERT and their
answer. A winner's row is stored (`RowSeen`), an event has one winner, who has not
been answered (`OneWinner`); only an INSERT makes a winner, and it needs a row that
is not there. Keys play no part in it: they may expire, or be deleted by another
delivery, at any time. `ClaimsAccounted` follows a claim through the steps of the
delivery that took it; without faults of Valkey and crashes nothing is orphaned, which
gives `DatabaseLeavesNoClaim`. `ReceiverImplemented` maps an INSERT to `Store`, the end
of a winner (its answer, or the step to deleting the key after a failure) to `Close`, a
restart to `Close` of every open event at once, and all else to `Same`; that a closed
event does not open again is the unique row and `OneWinner`. `ReceiverSuffices` derives
the two safety properties back from the abstract steps.

*DealSync.* `OwnerKeepsLock` is inductive once types and the fit of a handler's
step and message are known: a lock is taken when free, deleted by its owner, and
expiry moves its owner to `lapsed`. `LockExcludes` is what that gives: two handlers
cannot both own it. `NoneCreatedAgain` needs that a handler at its
upsert has read a stage, not a status. `ReadsAreCurrent` adds that nobody lapses
while nobody is slow; then one handler at most is at work, and only handlers and
managers write the deal. `DealsMarkedOnce` follows the mark a handler read from its
upsert to its own update (`KnowsMark`). `SyncedAtRest` is about rest only; `SyncInv`
makes it inductive: while the sides differ, a message is queued, a handler is under
way, or one is in the DLQ; and a handler that holds an old stage is not the only one,
so that its write is not the last. `WorkerStrandsNoCrew` needs `CrewInv`: without a
move, no final status is in the trip, the deal, a message or a handler before
`updateStatus` has freed the crew, and afterwards no crew is booked.

*TripsPage.* `DisabledForAReason` is inductive as it names the handler that set the
marker. `OwnChangeShown` needs `ReadAfter`: once a load has read the table, whoever
awaits it was executed before, as every refresh begins a new load. `AdvanceFromShown`
follows from what a request names (`Aimed`) and from the diagram, in which each stage
is entered from one other only.

*DealRisk.* `WorseNeverSafer` follows the cost through the division, the rounding
(`RoundedMonotone`) and the two staircases of points (`RiskRises`). `RiskOfTheDeal`
needs that a row has the numbers its update carried (`RowsFit`), that away from a
threshold the rounded margin is on the side of the exact one (`MarginSides`), and that
a cost or discount read as 0 gives no greater risk (`OmissionUnderstates`), and that a
margin of 0 is above LOW by itself (`NoPriceNotLow`).
`HeardFindsItsTable` rests on `Installed`: the handler is registered last and
unregistered first.

**Model-checked only:** liveness under fairness (`EventSettles`, `EventuallyStored`,
`EchoEnds`, `SidesAgree`, `ClicksEnd`), which is out of the prover's reach.
`SyncedAtRest` is the safety half of `SidesAgree`, and `NoOtherDeadlock` what there is to
say of the ledger's progress. `StatusFollowsDiagram` is proved nowhere: it is false of
the code, and where no commit is stale it follows from the ledger.

## 5. What is left out, and why

- *Validation and authorization.* They refuse before anything changes.
- *Malformed messages* (`worker.service.ts:76-89`): no sender of the repository
  produces one.
- *The publisher's connection* (`rabbit.publisher.ts:24-59`): only that a publication
  may fail. *The batch of 50* of `dispatchPending`: the model's batch is everything
  pending, so a head of line that blocks is not seen.
- *The delays of retries*: any order and any delay is admitted instead.
- *Serial requests*: `Overlap = FALSE` is not ensured by the code, so nothing that
  rests on it (`CrewConsistent`, `ImplementsLedger`) excludes a race within a trip.
- *The fingerprint's resolution*: `ts` counts seconds and may be absent, so different
  changes may be one event; `Webhook` takes the fingerprint as given.
- *HTTP details of the REST client*: a call fails, before or after it took effect.
- *The route, price and date fields of a deal*: nothing decides on them.
- *Other pages, queries, health and metrics*: one filtered query each, and no state.
- *On the page of trips*: the available vehicles, which are read beside the trips in
  a second request and may not fit them, the choice of one, and the message line.
- *Of the PHP module*: its options, and rows of other deals. PHP's binary floats are
  taken as exact; two installers at once are not modelled.

## 6. Known gaps that no run lists

Each of these can be seen in the models, and follows from code named here; none
is a property of a run.

- Under overlap `CrewConsistent` fails too, by the same writes by id as
  `fleet_status_race` (`trips.service.ts:172-203`).
- One page may have two requests about one trip under way: a click on another row,
  or the end of any handler, takes the mark from the first (`trips.vue:109-117`).
- What is typed into the form while it saves is wiped (`trips.vue:67-74`).
- The newest audit row may misstate the risk of a deal: after an update that left
  out the cost or the discount it may be too small, after one without a price it
  is at least MEDIUM, and after two updates at once it may be the older one's
  (`DealEventHandler.php:28-36`). `docs/07-business-processes.md:3-4` calls a zero
  price an error; the handler audits it with margin 0 (`DealEventHandler.php:33`).
- A heard update may get no row, but an entry in the log: if its cost is negative
  (`MarginCalculator.php:16`), or if the INSERT fails for any reason, as the handler
  swallows what `IntegrationAuditRepository.php:15-20` throws and tries no second time
  (`DealEventHandler.php:42`).
- An installation that ends after `registerModule` leaves a module that hears
  nothing (`install/index.php:31`).
- `create` checks the vehicle's driver in one statement and overwrites it in the
  next, conditional on the status only (`trips.service.ts:51-68`). Two creates that
  do so at once may want each other's driver and wait for each other, until
  PostgreSQL aborts one; it takes a third request that linked the drivers meanwhile.
- A status change locks trip, vehicle, driver, a booking vehicle, driver, trip. If two
  such requests about one trip overlap, the booking may have claimed a vehicle that the
  status change is to free, and wait for the trip it has written, until PostgreSQL
  aborts one (`trips.service.ts:131-151`, `185-203`). It takes another request that
  freed the vehicle after the status change had read the trip.
- A `PROCESSED` row may be overwritten by `PUBLISHED`
  (`outbox.service.ts:41-44`), and stays so.
- An event that failed 20 times is never read again (`outbox.service.ts:60`).
- A duplicate is answered `ignored` while the first delivery is still to store the
  event, and may fail (`bitrix-webhook.service.ts:52`).
- A late echo writes an older stage over a newer status of the trip
  (`trip-sync.service.ts:89`); the sides agree in the end, on the older one.
- A deal moved to a later stage makes a trip ASSIGNED that has no vehicle
  (`trip-sync.service.ts:82`).

## 7. Plan

Done, in this order: `TripLifecycle`, `CrewLedger` and `Fleet`, as the ledger is what
all else serves, `Delivery` with its channel `AtLeastOnce`, `Webhook` with
`IdempotentReceiver`, `DealSync`, `TripsPage`, `DealRisk`, and the eight proof modules.

What could follow:

1. The connection and channel of `RabbitPublisher` as state of `Delivery`: two
   publications that connect at once, a channel that closes alone and is kept
   (`rabbit.publisher.ts:33-43`), so that `PublishFails` has its causes.
2. A dispatcher with a batch bound, and changes that collapse into one
   fingerprint, composed with the trip they are about.
3. Liveness of the serial ledger: which requests end while the database lives.
