# GustoPro: a verification project

GustoPro runs a restaurant: waiters open orders at tables, guests order from a QR
code, the kitchen works through the dishes, the till takes the money and closes
the day. The backend is a Node.js process (`src/backend`) whose handlers each run
a few SQL statements on PostgreSQL. Node runs one callback at a time, but every
`await` hands the thread to another request, and several clients click at the same
time. PostgreSQL runs at its default level, READ COMMITTED: each statement sees
what is committed when it starts, and a transaction that waited for a row lock
goes on with the new version of that row only. What follows models those
interleavings.

## 1. Inventory

| Part | Code | State | Operations |
|---|---|---|---|
| Order ledger | `orders`, `billing`, `public`, `kds` controllers, `schema.sql` | rows of `orders`, `order_items`, `payments` | create (staff, QR), add items, cancel item, cancel order, pay, "ritirato", "no-show", kitchen status; trigger that sums the rows |
| Table occupancy | `tables`, `orders`, `billing` controllers, trigger `sync_table_status` | `tables.status` | create, pay, cancel and move an order, seat, set by hand, open the day |
| Reservations | `reservations` controller, `serviceTimer.js` | rows of `reservations` | create, seat, cancel, delete; the timer reserves tables |
| Day | `dayClose` controller, migrations 026, 030-032 | rows of `day_closures` | open the day, close a register, close the whole day |
| Workflow of a dish | `kds`, `workflow`, `orders`, `comandista` controllers, `serviceTimer.js` | `workflow_status`, `status`, `fire_at`, `is_manual_hold` of a row | hold, schedule, release, dispatch, cook, serve, cancel |
| Alerts | `service`, `pushAction` controllers, `serviceTimer.js` | `service_alerts` | raise, postpone, escalate |
| Print queue | `print` controller | arrays and timers in memory | enqueue, debounce, drain |
| Idempotency and offline queue | `idempotency.js`, `offlineDB.js`, `offlineSync.js` | `idempotency_keys`, IndexedDB | enqueue, sync, retry, replay |
| Edits of a row | `orders` controller | price, quantity, weight, covers | read, compute, write back |
| Connection pool | `config/db.js` | at most 10 connections | connect, release |
| Stock | `ingredients`, `inventory` controllers | ingredients, movements | import, adjust, receive, discard |
| Master data, accounts, analytics, frontend | remaining controllers, `src/frontend` | own tables, React state | CRUD, reads |

The parts interact through the database. A payment completes an order, the
trigger of `orders` makes its table dirty, the handler sends a further UPDATE of
the table after its COMMIT, and a socket message tells the clients to reload. The
timer and the handlers meet only in rows. The print queue, the debounce timers and
the throttles of the public menu live in the memory of the process and are lost
with it.

Behaviours that are hard here: a value read before a transaction and used inside
it; a guard that is evaluated in one statement while a later one writes; writes
after the COMMIT that arrive late; triggers that compute from a snapshot; row
locks held over several awaits; NULLs in unique keys; at-most-once delivery of
what lives in memory. `PROJECT.json` lists each of them under `hazards`, at its
line.

What makes the parts correct:

- ledger: flag and payments of an order agree; a takeaway is handed over, and its
  money collected, once; a closed order stays closed; a completed table order is
  covered by its payments; a cancelled order leaves nothing to cook (it may: Section 5);
  every request is answered;
- tables: two waiters never open one table twice; status and open orders go
  together; a due booking gets its table;
- day: one row per register; sealed totals were sold; an opened day can be closed;
- workflow: a dish the waiter holds back by hand stays held until a waiter lets it go; a
  served dish does not come back to the kitchen; the dishes of a takeaway wait for the
  payment;
- timer and alerts: a scheduled dish is fired when its time has come, also while alerts are
  due (it is not: Section 3); the limit of postponements bounds them;
- printing: a ticket that was undertaken is on its way until something known disposes of
  it; nothing comes out at the bar twice (drinks added to a takeaway do: Section 5);
- offline queue: nothing is confirmed that was not carried out; what was carried out is
  known by its key; what waits is settled or given up;
- edits: one coperto, for the guests there are; subtotals and total are those of the rows.

## 2. Modules

| Module | Models | Abstraction |
|---|---|---|
| `OrderLedger` | the rows of orders, items and payments and nine handlers; implements `OrderLife` | money in units of one row: the total of an order is the number of its live rows |
| `OrderLife` | what the ledger promises of the life of an order: how it was opened decides what completes it, money is only added, a takeaway is handed over once | no rows, no requests, no totals |
| `TableOccupancy` | the status of the tables, orders and bookings as far as they concern it, twelve handlers, the timer, the trigger | an order is its status, its table and whether staff opened it |
| `DayClose` | the rows of one business day, their two unique indexes, opening, closing, payments | one day; the sum of a register stands for the four sums by method |
| `ItemWorkflow` | the dishes of one order: twenty statements of the room, the kitchen, the pass, the till and the timer that write `workflow_status`, `status`, `fire_at`, `is_manual_hold`, `served_at` | `fire_at` is not set, in the future or due; `served_at` is set or not |
| `ServiceTimer` | the tick of `serviceTimer.js` as one transaction, and `service_alerts` as ticks, waiters and the kitchen write them | the age of a dish is the number of thresholds it has passed; of the manager's alert only its existence |
| `Outbox` | what the offline queue promises: an action is open, rejected, kept, given up or settled, and settled only after it happened | no network, no retries |
| `OfflineQueue` | `api.js`, `offlineDB.js`, `offlineSync.js`, the network and `idempotency.js` around a handler; implements `Outbox` | an action is its key; an answer is 2xx, 4xx or 5xx |
| `PrintQueue` | the queue, timers and callbacks of `print.controller.js` and the handlers that call it | a job is its kind and its rows; how long a timer runs is left open |
| `LineEdit` | `setItemPrice`, `setItemQuantity`, `setItemWeight`, `setOrderCovers` on one order | small prices and quantities; a row with its modifiers is one price |
| `..._proofs` | the invariants of each of the above for all constants | |
| `MC...` | instances for TLC: sets of handlers, symmetry | |

The modules meet in what they share. `OrderLedger`, `TableOccupancy` and `ItemWorkflow` look
at the same handlers from three sides: money, tables, dishes. `ServiceTimer` takes the steps
of the kitchen in `ItemWorkflow` as single ones and adds what they do to alerts.
`OfflineQueue` wraps createOrder and addItems, whose inside is in the other modules, and is
the detailed side of a refinement: its last definitions instantiate `Outbox` with what each
status of a stored row means to the waiter (`Outcome`) and with the actions that were
committed at least once. `OrderLedger` implements `OrderLife` in the same way: the kind of an
order is what its columns `type` and `source` say (`KindOf`), its money is the sum of its
payments, and it was handed over if a click on "ritirato" or "no show" was answered with
success. The ledger may only step from open to completed where `OrderLife` has an event for
it; that a late payment may complete an order which was cancelled meanwhile, and a late
cancellation cancel a completed one, is in `OrderLife` because the code does it (Section 5).

A request is a record in `req[r]`: `pc` names the statement it runs next, the other
fields are what it read. A handler is one action per statement whose reads another
request can overtake, and its writes become visible in the action that commits.
`"map"` in `PROJECT.json` gives the lines of each definition. In particular:

- **Locks.** In `OrderLedger` a row of `order_items` that a request changed and did
  not commit is locked (`Touched`, `Unlocked`); the lock of the `orders` row is taken
  by the last writing statement, after which no handler reads anything another
  request may change, so that locking and committing are one step. In
  `TableOccupancy`, `SELECT ... FOR UPDATE` of a table is `Locked`.
- **The trigger `order_items_total_sync`** runs per changed row inside the statement.
  Its UPDATE takes the sum from the snapshot of its own statement. Where it had to
  wait, the sum may miss what was committed meanwhile: `TriggerTotals` is the set of
  the totals it may leave.
- **The trigger `orders_sync_table_status`** runs in the transaction of the order
  (`AfterOpening`, `AfterClosing`); the UPDATEs that createOrder and cancelOrder
  send after the COMMIT are steps of their own (`CreateOccupy`, `CancelFree`), and so are
  those that follow the statement on the booking, each committed by itself (`ReserveBooked`,
  `OccupySeated`, `LookUpOrders` and `Unreserve`).
- **`updateItemStatus`** reads the row first and refuses dishes that wait or were
  served. The read and the unguarded UPDATE are separate statements, so a state that
  passed the read may have any status when the UPDATE runs; the ledger therefore
  lets the UPDATE meet any row that exists. The guards matter to the workflow of
  the dish, not to the money. `Displays` are the statuses an instance lets it write, and
  `SentBack` the rows it may bring back: a cancelled one, or any to the stove.
- **Checks of a dish.** In `ItemWorkflow` a handler that looks at a dish and writes it in
  another statement is a pair (`KdsCheck`/`KdsUpdate`, `FireAtCheck`/`SetTimer`, ...);
  one whose UPDATE has its own WHERE (`BatchUpdateStatus`, `ConfirmPickup`,
  `CheckScheduledFires`) is one step. What the writing statement does not test is not
  tested in the model either: cancelItem, deleteItem and changeWorkflowStatus never ask
  for the state of the order.
- **ON CONFLICT.** PostgreSQL arbitrates on the index the clause names and fails on
  any other one. `SameUnique` and `SameGlobal` are the rows a new row would conflict
  in either index of `day_closures`; NULL conflicts with nothing in the first.
- **A tick** reads at its start and stores at its end (`TickStart`, `TickCommit`); any
  failing statement in between rolls all of it back (`TickFails`). The INSERT of an alert
  names a column `order_id`, which no migration gives `service_alerts`. `tick.column` says
  whether it is there: never, where `Schemas` is {FALSE}. Without it a tick that finds an alert
  due does not get past it.
- **A delivery** goes from the network to the middleware, the handler, its COMMIT, the answer
  and the key (`Lookup`, `HandlerCommits`, `HandlerAnswers`, `SaveKey`). The client may stop
  waiting at any of them (`FirstNetworkError`, `SyncNetworkError`), after which the number of
  tries is read and written in two steps (`ReadFailed`, `MarkFailed`); the page may be closed
  (`Reload`), the server may end (`Crash`). `carried`, `lost` and `closed` record what the
  properties speak of and are read by no action.
- **Tickets.** `owed` holds what the handlers undertook to print and nothing has disposed of
  since: printing, a failing query, the limit of the queue, an answer that empties it, a
  restart, and a row that is held back, served or cancelled. `copies` counts what came out at
  the bar, `grown` the takeaways addItems added rows to. None of the three is read by an action.
- **An edit** reads the row, writes it, and lets the trigger sum the order (`EditRead`,
  `EditUpdate`, `EditCommit`); `setOrderCovers` is a transaction in four steps that holds the
  order. Where two of them would wait for each other, `Rollback` is the way out PostgreSQL
  takes; any other failing statement takes it too.

## 3. Runs

| Run | Question | Instance |
|---|---|---|
| `ledger_all` | Under all nine handlers: `TypeOK`, `FlagMatchesPayments`, `OneHandover`, `ClosedForGood`, the refinement `ImplementsOrderLife` | 1 order, 3 rows, 2 requests, cash and card |
| `ledger_shrink` | Without addItems, and with a kitchen that goes forward only: `CompletedIsCovered`, `CancelledIsEmpty`, and `Answered` under fairness | 1 order, 2 rows, 2 requests, cash |
| `ledger_double` | fails: `NoDoubleCollection` | till and pick-up counter |
| `tables_open` | All handlers but the move, concurrently: `TypeOK`, `OneStaffOrder` | 2 tables, 2 orders, 1 booking, 2 requests |
| `tables_serial` | One request at a time, with the timer under fairness: `TableInSync`, `ReservedInTime` | 2 tables, 2 orders, 2 bookings |
| `day_seal` | `TypeOK`, `OneRowPerRegister`, `SealedWasSold` | 2 registers, 2 requests, 2 sales each |
| `workflow_all` | All handlers and the timer: `TypeOK`, `HeldByHandIsRespected`, `ServedComesBackOnlyStale` | 1 dish, 2 requests |
| `queue_all` | Network, server and tabs fail as they like: `TypeOK`, `CarriedOutIsKnown`, the refinement `ImplementsOutbox`, and `PendingIsSettled` under fairness | 1 action, 2 tabs, 3 deliveries at a time, 2 tries |
| `timer_all` | Ticks, taps and the kitchen race, on the schema of the migrations and on one with the missing column: `TypeOK`, `PostponesBounded`, and `FiredUnlessAlertDue` under fairness | 1 dish, 2 requests, 2 postponements |
| `timer_schema` | fails: `ScheduledIsFired`, with the columns the migrations create | 2 dishes, no alert is answered |
| `print_all` | Requests, timers, failures and restarts: `TypeOK`, `NothingForgotten`, and `BarOnce`, which excepts takeaways that addItems enlarged | a table and a takeaway with 2 rows each, 1 request, 1 callback, a queue of 1 |
| `line_all` | Edits and changes of the number of guests race: `TypeOK`, `OneCoperto`, `GuestsAreCharged`, `CoversRepairTotal`, `SubtotalOnlyStale` | 1 dish, 2 rows for the coperto, 2 requests |

The runs that fail show a disagreement between the code and what its comments or
answers say; `findings` in `PROJECT.json` quotes them:

- a takeaway paid while "ritirato" is under way is collected twice
  (`NoDoubleCollection`);
- the INSERT of an alert names a column that no migration creates: as soon as one is due
  every tick rolls back, and with it the firing of scheduled dishes (`timer_schema`).

### Bounds, and why they are enough

Orders share nothing but the rows they are given: no handler of the ledger reads
two orders. One order with two requests shows every pairwise race, two payments with
a cancellation between them included (a request that has finished is free for
another). Three rows let two requests change different rows while a third is left;
more than three only repeats them. `MaxTender` is the largest amount of one payment
(2: less than, equal to and more than what a small bill is worth); `MaxPaid` stops
payments once that much is recorded for an order, which keeps the sum finite.
`MaxSales` does the same for the day. One dish is enough for the workflow: no statement
writes a dish because of the state of another one, and two requests show every pair of
a check and a write that overlap. Tables are two because a move and a booking
relate two; orders are as many as are needed for one to close while another opens.
Deadlock is not checked where orders, rows or actions are a finite supply and a run really
ends when they are used up, nor where nothing is left to do once everything is served; it is
checked for the day. Symmetry is used in the runs without liveness properties only.

Queued actions share only the tabs that send them, in any order, so one action shows the
protocol; a second tab shows two rounds that do not know of each other, and three deliveries
are an abandoned first attempt and one of each tab. `MaxAttempts` is 2 instead of 5: a first
failing try, which goes back to the queue, and a last one. `MaxPostpone` is 2 as in the code,
and two requests exceed it together. The tickets need an order at a table and a takeaway,
because only the latter waits for its payment, and two rows of each, so that one can be handed
over while another is gathered, and a queue of one place, so that its limit is met. One
request and one callback are enough where what two of them share is reached in one step each;
that any number of them overlap is covered by the proofs (Section 4). For the edits, prices
and quantities of 1 and 2 tell apart every product that a lost update can mix; a second row
for the coperto shows one being inserted after the first was cancelled. `PerKg` is empty
there, because the price that a new weight gives such a dish is computed from the weight alone
and written as setItemPrice does.

### Fairness

`OrderLedger!Fairness` says that a request that started goes on (weak fairness of its next
step: the event loop and the database answer it), and, strongly, that a statement that waits
for row locks gets them, as PostgreSQL serves the waiters for a row in order. Nothing says
that anybody starts a request. `TableOccupancy!Fairness` says the same of its requests, and
that the timer, a `setInterval`, ticks for ever. `ReservedInTime` takes each tick as one that
commits: the statement that reserves a table shares its transaction with the alerts, and where
one of them is due, `timer_schema` shows what becomes of it. `OfflineQueue!FairSpec` says that
every open tab goes on with its rounds (it polls) and that the server goes on with what it
received, each weakly; the network may lose everything. `ServiceTimer!FairSpec` says that the
clock goes on and the timer ticks, weakly, and strongly that a tick which got past its alerts,
and could commit again and again, does so some time: what makes it fail then (the connection,
a deadlock) passes. A tick that fails for the missing column never gets that far, and fairness
grants it nothing: `FiredUnlessAlertDue` promises nothing once an alert is due without the
column, and `timer_schema` shows that nothing can be promised then. `ItemWorkflow`,
`PrintQueue` and `LineEdit` state safety only: the firing of `ItemWorkflow` is the effect of a
tick that commits, a restart may forget a ticket at any time, and an edit that is rolled back
is not tried again.

## 4. Proofs

The `_proofs` modules are checked by TLAPS for any sets of orders, rows, tables, bookings,
dishes, actions, tabs, requests and handlers and any amounts, from the named assumptions of
the modules (`LedgerAssumption`: rows are finitely many, handlers are those of the module,
amounts are naturals; `OccupancyAssumption`, `WorkflowAssumption`, `QueueAssumption`,
`TimerAssumption`, `PrintAssumption`, `EditAssumption`). Where totals are added up the sets
they range over are assumed finite: rows, registers.

- **`LedgerInv`.** Neither `FlagMatchesPayments` nor `OneHandover` is inductive: both depend
  on what requests in flight have read. `Sound(q)` says that a request works on an order that
  exists, that one about to commit a payment carries money and a flag that is not "unpaid",
  and that one that took its takeaway for paid was right and stays right, since payments only
  grow. `Lifecycle` says that nothing is recorded before an order exists and that a handover
  closes it, which makes a second one impossible: the closing UPDATE wants `status = 'open'`.
  `RowsKnown` ties the rows to orders that exist. From `LedgerInvStep`: `TypeCorrect`,
  `FlagAndPaymentsAgree`, `HandedOverOnce`, and the action property `ClosedIsFinal`.
- **The refinement of `OrderLife`.** `LedgerKeepsPromise` maps every step of the ledger to an
  event of at most one order or a stutter. Most steps change rows and requests only and
  stutter (`NothingLives`); an INSERT opens an order (`OpeningLives`), and of the steps that
  commit, `CommitsLive` names the event. Two facts have to be added to `LedgerInv`:
  `AtTheCounter`, that a request which passed the check of "ritirato" or "no show" holds a
  takeaway, whatever became of it since; and `OpenedForGood`, that no step changes `type` or
  `source`, so that the kind of an order is settled when it opens (`KindOf`). That a prepaid
  pick-up leaves with money in the till, although it records none, is `Sound`.
- **`ShrinkInv`**, under the assumption `Shrinking` (no addItems, and `SentBack = {}`: the
  kitchen display may move a row forward, not bring it back). `CompletedIsCovered` compares
  payments with rows that others are taking away, and totals were read long before. `Fits(q)`
  carries it: every sum a request has read is at least what is left of its order now, since
  rows only go; and the rows it locked are live rows of that order, all those its handler
  promises to stop. `LocksExclusive` keeps two requests off one row; `TotalCovers` says that
  the total in the row of the order, which the trigger may leave too large, is never too
  small. A step that takes away rows others have not locked keeps what they know (`StaysFit`);
  a commit leaves exactly the rows its transaction saw (`CommitLeaves`). `CancelledIsEmpty`
  allows rows that had left the oven where the order ended as a no-show, since that handler
  does not touch them. From `ShrinkStep`: `CompletedOrdersAreCovered` and
  `CancelledOrdersAreEmpty`.
- **`OccupancyInv`.** `OneStaffOrder` depends on the lock of createOrder: between its
  check and its INSERT nobody else may be there (`LockedAlone`), and a request that
  passed the check finds no open order of the staff at its table. An order that
  moves breaks it (Section 5), hence the assumption
  `"moveOrderTable" \notin Handlers` of `OneStaffOrderAtATable`. `TypeCorrect` has
  no such assumption.
- **`SerialInv`**, for one request at a time and without the three handlers that say nothing
  of orders. The status of a table is written by the trigger and again, after the COMMIT or
  by value, by createOrder, processPayment, cancelOrder and moveOrderTable. `TableInSync`
  speaks of a server at rest; `StillSo` carries it through a request: what it read of the
  orders of its table is still so at its UPDATE, and only createOrder's last UPDATE is ever
  missing (`Shown`). `OneOpenOrder` is what makes the trigger right to mark a table dirty when
  one order closes. From `SerialStep`: `TablesInSync`, and `OneStaffOrderInTurn`: under
  these assumptions moves are allowed, since the status of the target can be trusted then.

- **`WorkflowInv`.** What the timer fires is decided by `fire_at` alone, so that
  `HeldByHandIsRespected` needs that a dish held by hand has no `fire_at` (`SoundRow`):
  every statement that sets one of the two columns sets the other. Since the writes of a
  request do not look at the row again, the invariant also says that the row a request
  is about to write was inserted (`RequestHasDish`). `HoldStep` and `ServedStep` go
  through the actions once for each of the two action properties.

- **`DayInv`.** `OneRowPerRegister` is inductive once the rows are known to form a
  sequence of records; what is written into them is of no account (`InsertKeeps`,
  `UpdateKeeps`). `SealedWasSold` is not: a closing inserts what it read before, so the
  invariant says of every request that its total is covered (`ReadWasSold`), and the proof
  that payments are only added (`TotalsGrow`). A total is the number of the payments it adds up
  (`PaymentsOf`), which the theorems on finite sets speak of; `IsFiniteSet(Registers)` is
  assumed for it.

- **`QueueInv`.** Behind both `CarriedOutIsKnown` and the refinement stands one fact about
  answers: wherever a success is (in a delivery, stored under a key, in a row), the action was
  carried out before. The invariant ties each delivery to its key: one that was committed will
  store its answer, unless the process ends, which `lost` records. `QueueKeepsPromise` maps
  every step to one of `Outbox` or a stutter.
- **`TimerInv`.** `PostponesBounded` counts what is stored together with what was checked and
  is not written yet: `taps` of an alert plus the requests that passed its check never
  exceed the limit by more than those requests.
- **`PrintInv`.** `NothingForgotten` needs that a restart of a timer keeps the rows it had, and
  that an entry is emptied in the step in which its callback takes the rows over; further,
  that nothing is owed for a row that was given up. `BarOnce` needs `OnceInv`: a row is in one
  place at a time (not ordered, with one request, one timer, one callback, or printed) or its
  order is in `grown`. Only addItems on a takeaway breaks the first, and it makes the second true
  in the same step; `GrownGrows` says that it stays so. `OnceAtTheBar` assumes nothing else.
- **`LineInv`.** One transaction at a time holds the order; the coperto it is about to write is
  the one that is live, or there is none; the sum it computed is that of the rows as they will
  be, since no edit can commit while it holds the order. `SubtotalBreaksOnlyStale` follows
  from the fact that an edit which read the row as it is writes a product. `TypeCorrect`
  rests on the lemma that a sum over the rows is a number (`SumIsNat`). It unfolds the fold of
  the library, shows that its recursion has a solution on every finite set (`SumDefined`) and
  that the solution takes numbers only, both from the least size at which they would fail
  (`LeastNumber`), since the induction theorems themselves cannot be used.

Only model-checked: the properties under fairness (`Answered`, `ReservedInTime`,
`FiredUnlessAlertDue`, `PendingIsSettled`), which TLAPS cannot prove.

## 5. Known limits of the code that no run states

The models contain these cases; they are documented here to be read with the code.

- addItems accepts rows for a prepaid takeaway that is still open. The flag stays
  "paid", and "ritirato" then collects nothing for them (`orders.controller.js:719,
  1079`).
- A QR order at a table stays open after it is paid (`billing.controller.js:182`), and
  "ritirato", which would complete it, takes takeaways only: cancelOrder is what is
  left.
- The UPDATE that createOrder sends after its COMMIT may mark a table occupied whose
  order was paid meanwhile (`orders.controller.js:395`).
- cancelOrder asks whether the order is open before BEGIN, and its UPDATE has no WHERE for
  it: an order that is paid in full in between ends up cancelled
  (`orders.controller.js:1250, 1265`).
- processPayment asks whether the order is open without locking it, and its UPDATE has no
  WHERE for it either: a payment that ends late completes an order that was cancelled
  meanwhile, and one that computed "partial" early marks with it an order that another
  payment completed (`billing.controller.js:109-118, 181-208`).
- The UPDATE that cancelOrder sends after its COMMIT frees a table at which the next
  guests may already have ordered (`orders.controller.js:1288`).
- cancelItem and the other cancellations leave `workflow_status` and `fire_at` as they
  are: the timer sets a cancelled dish that was scheduled back to "pending" and
  "production" when its time comes (`serviceTimer.js:567`), and so does a release
  (`workflow.controller.js:91`).
- A no-show cancels the rows that are 'pending' or 'cooking' (`orders.controller.js:1201`). A
  pizza in 'oven_done', which is out of the oven and still to be finished
  (`kds.controller.js:198`), stays live in the cancelled order; the comment above the statement
  speaks of what was served or is ready.
- A payment whose fireTakeawayItems fails leaves a paid takeaway that waits
  (`billing.controller.js:215`).
- The start of an order ("INIZIA TAVOLO") sends the dishes of an unpaid takeaway to the
  kitchen: their hold is not marked as one by hand (`orders.controller.js:62-63, 105`).
- The trigger sums the rows its own snapshot sees (`schema.sql:190-195`): two statements that
  change rows of one order at the same time leave its total wrong, until the next change or
  setOrderCovers, which sums under a lock.
- seatTable checks and writes in two statements (`tables.controller.js:192`); the INSERT into
  the log that follows has no order and is refused by its column each time, unnoticed.
- cancelOrder frees a table that has new guests, and moveOrderTable, which trusts the status of
  the target, then joins two open orders there (`orders.controller.js:1913`).
- Two closings of one register at the same time may store the older total
  (`dayClose.controller.js:120`).
- A register that is closed for the first time has no `closed_at`: the INSERT does not name the
  column, whose default migration 031 drops; only the branch DO UPDATE sets it
  (`dayClose.controller.js:117-119`).
- A day that was opened cannot be closed as a whole: the ON CONFLICT of closeDay names the
  index in which a NULL register conflicts with nothing, and the row of the opening is in the
  other one, `uniq_day_closures_global` (`dayClose.controller.js:121`,
  `030_day_opening.sql:6`).
- claimOrder and transferOrder log the waiter they read before their transaction.
- The receipt of the fiscal printer is computed from the menu and the number of guests
  (`fiscal.controller.js:51-66`): discounts, free items and a coperto edited by hand are on
  the bill and not on it.

Offline queue:

- Two deliveries of one key that overlap both run; so does a retry after the server ended
  between the COMMIT and the storing of the key (`idempotency.js:40, 64`).
- A 5xx answer is stored like any other: the retries of an action that met a passing error
  are answered with it until the action is given up, also where the error came after the
  COMMIT of addItems and the rows are there (`orders.controller.js:831`).
- Two tabs whose markFailed overlap on one row count one failure: the number of tries is read
  and written back in two steps (`offlineDB.js:105-108`).
- Nothing in the frontend shows what was given up (`listFailed` has no caller), and a row that
  a closed page was sending stays "syncing" (`offlineDB.js:91`).

Alerts:

- No alert is stored at all as the migrations leave `service_alerts` (Section 3). Nothing is
  claimed here of what alerts are for: that a dish that stands ready comes to the manager's
  attention, and that what was put off rings again. The items below and `PostponesBounded`
  are about a database to which somebody added the column.
- The answer to a third postponement announces the escalation to the manager
  (`service.controller.js:66-67`); nothing escalates before the threshold is over. The deferral
  by respondToAlert has no limit of its own.
- A tick that read an alert before it was put off overwrites the postponement when it commits.
- `ready_at` is never reset: a dish that goes back to the kitchen and is ready again is
  late at once. Serving in a batch, the pick-up, the pass and deleteItem leave its alerts.
- Ticks may overlap, and what they send to the clients before the COMMIT is sent again after
  a ROLLBACK.
- The reminder to emit the bill looks for the course 'dessert'; the menu calls it 'dolce'.

Printing:

- addItems on an unpaid takeaway prints drinks at once, and fireTakeawayItems prints them
  again when it is paid, which the comment at `orders.controller.js:442` rules out; and so does
  "deve uscire UNA stampa al bar" (`print.controller.js:325`). `BarOnce` excepts these rows.
- Drinks of a table that are held back are printed at once; dishes that the timer, a release
  or the answer to an alert let go get no kitchen ticket before the next start of the order.
- A query that fails after the UPDATE of dispatchOrder, or in fireTakeawayItems, loses the
  tickets for good (`orders.controller.js:1809`); so does an answer to the agent that is lost
  (`print.controller.js:34`).

Edits:

- Of two edits of one row that overlap, the later write brings back the price or quantity that
  the earlier one replaced in the subtotal; setItemWeight on a dish that is not sold by weight
  writes back the price it read.
- An edit of the coperto and setOrderCovers can wait for each other: PostgreSQL aborts one,
  which is answered 500 and not tried again (`orders.controller.js:627`).
- The check that the order is open is a statement of its own: an edit may write after it was
  closed.

The page of the till (`CheckoutPage.jsx`), read but not modelled:

- An equal split divides the whole bill by the parts that are left, not what is left of it
  (`CheckoutPage.jsx:124-125`): of a bill of 12 for two, the first part is 6 and the second 12.
  Cash is capped on the server, which gives the rest as change (`billing.controller.js:128-130`);
  a card is charged and booked in full. `GustoPro_Manuale.md:211` promises "Importo diviso
  automaticamente".
- "Intero" asks for the whole bill again after a part was paid (`CheckoutPage.jsx:1427`).
- handlePay catches its errors (`CheckoutPage.jsx:682`), so the parts of a split are shown as paid
  when their payment failed (`CheckoutPage.jsx:131, 268`); an answer that is lost invites a
  second payment, as each call has a key of its own.
- After a discount below what was already paid, a payment in cash is an amount that is not
  positive: the CHECK of `payments` refuses it (`schema.sql:136`) with a 500 each time.
- The shares by dish are rounded one by one, and the number of people may change after some of
  them paid: the sum is not always the bill, which the comment at `CheckoutPage.jsx:219` says.

## 6. What is not modelled

Prices (a row is worth one unit, never negative: discounts that are stored as rows
with a negative price are outside), the splitting of a bill beyond several payments,
receipts and their numbers, covers and counts of the closing, the time zone of
default dates, the administration of tables (`deleteTable` among it), tenants and
permissions (one tenant, an authorised user), sockets, push and fiscal printing (sent
best effort, nothing waits for them), the frontend. The parts that are planned are
listed below and in `PROJECT.json` with their status.

## 7. Plan

Done, each with its proofs: `OrderLedger` with `OrderLife`, `TableOccupancy`, `DayClose`,
`ItemWorkflow`, `OfflineQueue` with `Outbox`, `ServiceTimer`, `PrintQueue`, `LineEdit`.

Left, in this order:

1. The course cycle and the delegate in `ServiceTimer`; claimOrder and transferOrder in
   `OrderLedger`.
2. `ConnPool`: connections, and the transaction that addItems leaves open when it answers 404
   (`orders.controller.js:723`).
3. `TakeawayCounter`: the numbers of the day, which start at 101 or at 1 and change at the
   midnight of UTC or of the database (`orders.controller.js:274`).
4. `BulkImport`: lines that fail within one aborted transaction
   (`ingredients.controller.js:252`).
5. `Checkout`: the splitting of a bill on the page of the till.
6. The ticket as an abstract specification that `PrintQueue` implements.
