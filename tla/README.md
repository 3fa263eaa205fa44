# ursGAL: verification project

ursGAL is the order system of a wholesale shop: a React interface
(`src/frontend`) talks to a NestJS service (`src/backend`), which keeps
everything in PostgreSQL through Prisma. This directory holds TLA+ modules of
the service and of those parts of the interface that carry a protocol, TLC
configurations that model-check them on small instances, and proofs, checked by
TLAPS, of most of the safety properties for every size. `PROJECT.json` maps
every definition to the lines it models and lists runs, mutants, hazards and
theorems.

## The system

The service has almost no state of its own: the state is rows in the database,
and a component is a set of handlers that read and write them. Many requests run
at one time. The isolation level is PostgreSQL's default, READ COMMITTED, so a
handler that reads, decides and writes is only safe where it (a) holds a row
lock from its read (`lockOrderForUpdate`), (b) changes a number by an increment
and looks at the result (`stockQty`), or (c) relies on a unique column (the
numbers of orders, supplies and sheets). Most of the hard questions are about
handlers that do none of these. The interface adds the rest: a network that
loses messages, pages that are closed, tabs that share a cookie, tokens that
expire, a queue that outlives its page.

| Component | State | Operations | Hard behaviour | What makes it correct |
|---|---|---|---|---|
| Orders (`orders.service.ts`) | `Order`, `OrderItem`, numbers of a day | create, update, updateStatus (cancel included) | edits and cancels decided on rows that change meanwhile; max + 1 as a number, with retries; product rows locked in the order of the lines | totals follow the lines; goods given back once; numbers run on; no two new orders wait for each other |
| Payments (`payments.service.ts`) | `Payment`, `FinanceEntry`, `Order.paidAmount/paymentStatus` | addPayment, deletePayment | `paidAmount` is rewritten whole by four handlers | no lost update, never overpaid, status always derived |
| Returns (`returns.service.ts`) | `OrderReturn(Item)` | create | partial returns add up; refund, restock and payroll exclusion together | never more back than ordered |
| Row lock (`lock.util.ts`) | lock of an `Order` row | lockOrderForUpdate | waiting, time limits, death of the process | what was read under it stays true |
| Stock, FEFO (`stock.service.ts`, `batch.util.ts`) | `Product.stockQty`, `StockMovement`, `ProductBatch.remaining` | adjust, applyBatchDelta | early exits, empty and full batches | never below zero, first expired first out |
| Expiry batches (`batches.service.ts`) | `ProductBatch` | create, writeOff | stock and sum read without a lock | batches together never exceed the stock |
| Delivery (`delivery.service.ts`) | `Order.deliveryStatus`, `assignedDriverId`, `routeOrder`, `DriverZone` | assign, automatic and bulk assignment, zones, route order, start, complete | every assignment reads, checks and writes without a lock | a delivery is confirmed by its driver; nobody else holds one; loads balanced; the planned order kept |
| Warehouse (`warehouse.service.ts`) | `DriverHandover`, `Order.handoverId` | createHandover | checks outside the transaction | an order is on one sheet |
| Payroll (`finance.service.ts`) | `DriverPayout`, `Order.payoutId` | payrollClose, payrollPay | orders collected, then marked by id | a delivery is paid once |
| Supplies (`supplies.service.ts`) | `Supply`, its numbers, `paidAmount`, expenses | create, pay | goods added line by line after the number; `paidAmount` rewritten whole, no lock | stock and batches grow together; what a supply says is paid was booked |
| Order requests (`order-requests.service.ts`, public page, drawer) | `OrderRequest`, the public link, a page's form | submit, convert, reject, change of the link, edit | conversion in three transactions, lost answers, two of the staff; three sets of rules for one form | one order for one request; thanks means stored; pages and server agree |
| Authentication (`auth.service.ts`, `api.js`, `AuthContext.jsx`) | `RefreshToken`, cookie, access token of a tab | login, refresh, logout, restore, change of the password | rotation with a theft rule against concurrent 401s, lost answers, several tabs and whatever else revokes tokens | a session ends for a reason only |
| Offline queue (`offlineQueue.js`, `MyDeliveries.jsx`) | IndexedDB queue, flush of a tab | queue, flush | lost answers, closed pages, expired tokens, coverage that comes and goes | a confirmation is kept until it is answered; the queue drains |
| Permissions (`permissions.service.ts`, guard) | roles, exceptions, a cache of a minute | ask, change, invalidate | a read that outlives an invalidation; a change of role | a stale answer only for a reason and a minute |
| Notifications (`notifications.service.ts`, `AppShell.jsx`, `NotificationBell.jsx`) | `Notification`, streams, number and list of the bell | notify, low-stock warning, push, poll, list, mark read | pushes that count and send in different orders, cut streams, duplicate check before insert | one warning a day; read means shown; the number settles on the truth |
| Users (`users.service.ts`) | role, activity, password | change of role, deactivation, reset | a driver leaves his role while he is given work; sessions end | see Delivery and Authentication |
| Reports, analytics, dashboard, reorders, settings, logs, other pages | - | read, append or edit one row | - | - |

Components meet in the rows they share. Payments, returns and edits all write
the money of an order; orders, returns, supplies, adjustments and write-offs all
write the stock of a product. Orders, returns and adjustments let its batches
follow with `applyBatchDelta`; a supply opens a batch of its own for a line with
an expiry date, a write-off empties the one batch it names. The desk, drivers,
warehouse and payroll all write the state columns of an order. The
low-stock warning asks the permission cache about every member of the staff. The
offline queue sends through the session's fetch, so a token that expires in the
middle of a flush is part of the flush.

## Modules

    Fefo ── FefoShelf                    applyBatchDelta against its reference
     │
    ShopState ── Inventory ── OrderDesk ── Payments ─┐
         └────── Delivery ───────────────────────────┴─ Shop ── ShopProps ─┬─ MCShop
    PaymentAccount (INSTANCE of ShopProps)                                 └─ ShopProofs ── OrderProofs ── GoodsProofs
                                                             FefoShelf ─────────────────────────────────────┘

    Intake ── Supplies ──────────┬─ MCIntake      OrderForms ── OrderRequests ─┬─ MCRequests
                                 └─ IntakeProofs                               └─ RequestProofs

    Session ─┬─ OfflineQueue ─┬─ MCPhone          Dispatch ─┬─ MCDispatch
             └─ MCSession     └─ PhoneProofs                └─ DispatchProofs

    Permissions ── Notifications ─┬─ MCBell
                                  └─ BellProofs

| Module | Models |
|---|---|
| ShopState | the rows, the row lock of an order and what a request in flight remembers; `LockOrder`, `Commit`, `Abort`; `FinishUnlocked`, which records a write on a stale check; `TypeOK` |
| Fefo, FefoShelf | `applyBatchDelta`, its two loops as folds in sort order; one product's batches through movements, and the closed form the loops should compute |
| Inventory | what every movement of goods does to stock, movements and batches (`MoveForOrder`), `adjust`, the lines of a supply (`ReceiveUndated`, `ReceiveDated`), product edits, batch create and write-off |
| OrderDesk, Payments, Delivery | create, update, updateStatus and cancel; addPayment, deletePayment, returns; assignDriver, start, complete, createHandover, payrollClose, payrollPay |
| Shop, ShopProps | all of them composed, any number of concurrent requests; the properties, the refinement mapping to PaymentAccount |
| PaymentAccount | the abstract account: every operation on the money of an order is one atomic step |
| Intake | numbers of a day, the unique index, three tries, and the rows that new orders, supplies, sheets and changes of orders (edit, cancel, return) lock one by one; circles of waiting requests |
| Supplies | the debt for what Intake has committed: `pay` with its unlocked read |
| OrderForms | what the four ways of writing an order's address let through, send and store (pages and DTOs, each with its own rules; texts that are too long) |
| OrderRequests | the public page over a lossy network, submit, convert in its three transactions, reject, orders and edits at the desk |
| Session | tabs, the shared cookie, the single-flight refresh of a tab, rotation and theft rule at the server, loss, closed pages; password changed or reset, account shut, cookie run out |
| OfflineQueue | confirmation sheets, the queue and its flushes, over Session |
| Dispatch | assignment of one, of many and by district, zones, route order, start, complete and cancel, each a read and a write, and the users page that takes a driver's role |
| Permissions | the cache with its minute, the guard's question, changes of exceptions and roles |
| Notifications | low-stock warnings, notifications, pushes, polls, the bell's list and its marking, over Permissions |
| ...Proofs | theorems about the module they extend |
| MC... | the constants TLC needs |

### How code becomes actions

A handler is as many steps as others can come between.

- A handler that starts with `lockOrderForUpdate` is two steps: `...Lock` takes
  `lock[o]` and copies the row and its lines into `call[c]`; the second step
  computes everything from that copy, as the code does from the object it
  read, writes and releases the lock. Every other writer of the row waits for
  the lock, as a PostgreSQL UPDATE does.
- A handler that reads and checks outside a transaction, or in one without a
  lock, is a `...Read` step and a write step that uses what was read. Cancel
  puts back the lines it read, a handover sheet takes the orders it read, a start
  puts a delivery under way that it read as assigned, `pay` writes the sum it
  read plus its amount, an automatic assignment counts on the loads it read, a
  route writes over whoever has the orders by then.
- A loop over `await`s is a step for each turn: automatic assignment, the
  low-stock loop over the staff, the flush of the queue, the lines of an order in
  Intake. Products of an edit or a return are locked in any order there: the code
  takes them in the order of the request.
- A stock movement in Inventory is one step: it begins with an update of the
  `Product` row, which holds its row lock to the end of the transaction, and the
  batches are only changed by those who hold that lock. What the locks of
  several lines do to each other is Intake.
- A message of the browser is a request that may be lost, an answer that may be
  lost after the server has acted, and what the page does with either. A page
  may be closed at any of its steps; what is in memory is gone, the cookie and
  the queue stay.
- A cache's read is the database's answer and, later, the entry that is written;
  a change in between is what makes the entry `late`.
- Arguments of a locking request are chosen at its second step: whatever fails
  a check there ends in `Abort`. `Abort` is also a transaction's time limit, a
  rollback and the death of the server; it may strike every request in flight.

History variables (marked so where they are declared) record what a property
must except or compare with: an overlap of two handlers, a write on a check that
had ceased to hold, an answer that was lost, what a page has shown. No action's
guard reads them, with one exception: a driver does not confirm a delivery again
that he was told is kept, because his sheet does not offer it.

### What is abstracted

Ids are model values; a payment id is used once and keeps a `deleted` mark, so
a stale id stays stale, as a uuid does. `OrderReturn` rows are two sums per
line (`returned`, `restocked`); finance entries of an order are two sums per
order (`ledger`), stock movements that name an order a sum per order and product
(`moved`). A form is four groups of fields, each filled or empty, and names the
groups with a text that is too long. Permissions are one key that managers
have and drivers do not. A refresh token that nobody holds any more stands for a
new random one. Names, notes, timestamps, cost prices, photographs and logs are
left out: no rule modelled here reads them. Which of several errors a request
gets does not matter where all of them roll back; where the caller tells them
apart (the queue, the refresh) they are told apart.

Two columns have a width: `MaxStock` for `stockQty` and `MaxAmount` for
`Decimal(12,2)`; a write that does not fit fails in the database, so it is a
guard. All other bounds are on the instance, not on the code: `MaxQty`,
`TotalCost`, `Forms`, `ZoneSets`, `Plans`, `Work` and `Routes` choose arguments;
`MaxCalls`, `MaxLinks`, `MaxEvents`, `Polls`, `Tokens` and the sets of ids bound
what can be created in one behaviour. `|Callers|` is the number of requests in
flight: with one caller the handlers run one after another, and what such a run
shows is about sequences of calls, not about races.

## Runs

| Run | Question | Instance |
|---|---|---|
| Money | Do payments, deletions, edits, cancels and returns of two requests on one order, while prices change, keep money, lines and returns right, and implement the atomic account? | 1 order, 1 product of price 0 or 1, up to 2 pieces, 2 payments, 2 callers |
| Goods | Do sales, edits, cancels, supplies, adjustments, batch creations and write-offs of two requests keep stock and batches within their bounds? | 2 orders, 1 product, 2 batches, stock 2 of at most 2, 2 callers |
| Desk | Do desk, driver, warehouse, return and payroll handlers of two requests keep goods, order states and payouts consistent? | 1 order of up to 2 pieces, 1 driver, 1 sheet, 2 payouts, 2 callers |
| Shelf | Do the FEFO loops compute their closed form? | every table of 3 batches, 2 dates, up to 2 pieces, every movement up to 4 pieces, twice |
| Intake | Do numbers run on, do new rows of one kind never wait in a circle, is a request only sent away under load, does what a supply shows as paid have its expenses, and is everyone answered? | 4 requests (sales of one or two products in opposite orders, a supply, a sheet of two orders, edits of two orders), 2 payers, fairness |
| Requests | Does a request become one order, do thanks mean it is stored, do pages, DTOs and rows agree? | 1 customer, 2 requests, 2 orders, 2 staff, 4 forms, a link that changes |
| SameRules | Does the public page ask for what the DTO asks for? It does not (a finding) | as Requests |
| Session | Does a session end, or a cookie stop counting, only for a reason? | 2 tabs, one with two requests at a time, 4 tokens, every ending |
| Password | Does a page go on after its user changed the password? It does not (a finding) | as Session, no ending but the change |
| Phone | Is a confirmation kept until it is answered, does the queue drain, does nobody wait for a refresh for ever? | 1 tab with a sheet and a flush, 2 confirmations, 2 tokens, a password reset, fairness |
| Dispatch | Is the automatic assignment balanced, is a delivery only ever with a driver, does a planned route keep its order? | 2 orders of 2 districts, 2 drivers with either or both, 2 callers, 3 requests |
| Bell | Is a kept permission set current and of its role, a warning once a day, what is read what was shown, and does the number settle? | 1 member of the staff with a page, 1 partner, 2 callers, 3 calls, 1 poll, 1 cut, loss or midnight, a list of 1 row, fairness |

Why the bounds are enough. The money rules relate a total, a sum and a status;
two units of money give every status, an edit up and down, and a payment of a
part and of all. Two payments and two requests give every interleaving of a
pair. Two payouts are what a double entry needs, two orders what sales that
compete for the last pieces need, two batches what a movement that empties one
and goes on needs. Desk has one order, on which all its handlers meet; sheets
and payouts of several orders are left to the theorems, which have any number,
and so are edits of orders with several lines. Three batches on two dates give
equal dates, an earlier and a later one, each empty, part full, full or written
off. In Intake four requests are what it takes for one to meet three others, and
two products in opposite orders what a circle takes. A second tab and a second
request of one tab are what the theft rule and the single flight are about. Two
orders and two drivers give a load to balance and a route to reorder; a list of
one row is full with its second notification. For the properties that are also
proved the instance only has to be large enough to be worth a run: the theorem
has no bounds.

`CHECK_DEADLOCK FALSE` stands where behaviours end by design: Shelf stops after
two movements, Intake when every request is answered, Requests, Dispatch and
Bell when the bounded calls are used up.

Checks that go stale. The handlers of the desk, the drivers, the payroll and the
batches read, check and write later without a lock, and with two requests in
flight what they check may have ceased to hold when they write. Several
properties are then false of the rows they write. No behaviour is left out for
that: the model takes every such write, and the history variable `stale` keeps
the orders and products that were written on a check that did not hold any more
(`FinishUnlocked`, with what each handler checked: that the transition is still
allowed and the lines are those it read, that the order is still the driver's,
that the orders are still unpaid, that the batch still holds what was read).
`revived` keeps the cancelled orders that a handover sheet took up. The
properties of Goods and Desk except these rows, and only these: a stale write to
one order excuses nothing of another, and no other interleaving breaks them.
What is thereby *not* claimed is listed below, under what the model shows about
the code. `OneAtATimeNeverStale` proves that with one request at a time `stale`
stays empty. A handler that took the row lock before it read, as payments and
returns do, would have no stale check.

Session and Phone know the ways a session may end besides a lost answer or a
race of tabs as `Endings`: the user changes the password, the office resets it or
shuts the account, the cookie runs out after a week. Session has all of them,
Phone the reset, Password only the change.

### Fairness

- Intake: weak fairness of each request's own steps; PostgreSQL's deadlock
  detector is the step `EndCircle`. A transaction ends by commit, by Prisma's
  time limit or with its connection. Nothing says that new requests arrive or
  that a request succeeds.
- Phone: weak fairness of what a page and the server do by themselves, and of
  the return of coverage. `calm` is a moment after which the network holds and
  pages stay open; it is not assumed to come, `QueueDrains` says what follows
  if it does.
- Bell: the page's timer ticks and what was asked and not lost is answered
  (`ServePoll`), a push that has begun ends, what is in the stream arrives.
  Reconnecting and the arrival of notifications are not assumed.

## What is proved

| Module | Theorems | Says |
|---|---|---|
| ShopProofs | MoneyAlways, LedgerAlwaysAgrees, OrdersNeverOverpaid, PayStatusAlwaysDerived, LocksProtectSnapshots | `paidAmount` is income less refunds, at most the total, with the status its amounts give; what was read under a lock stays true |
| OrderProofs | OrdersAlways, PaymentsAlwaysBooked, TotalAlwaysMatchesLines, ReturnsAlwaysWithinLines, SnapshotPricesAlwaysKept, ShopImplementsAccount | payments, lines and returns add up, prices stay, and the shop implements PaymentAccount |
| | DeskAlways, DeliveryAlwaysConsistent, PayoutsAlwaysMatchOrders | but for stale writes, order by order, deliveries and order states agree and payouts count their orders |
| | OneAtATimeNeverStale | requests that do not overlap never write on a stale check |
| GoodsProofs | LoopsComputeReference | the FEFO loops compute their closed form on every table |
| | BatchesAlwaysInOrder, RowsAlwaysTyped | every table keeps its type, no batch leaves its bounds, whatever interleaves |
| | TrackedAlways, TrackedAlwaysWithinStock, StockNeverNegative, GoodsAlwaysAccountedFor | but for stale writes, product by product, batches stay within the stock and stock above zero; order by order, and but for revived ones, movements add up to what orders hold |
| IntakeProofs | IntakeTypes, NumbersRunOnAlways, CirclesAlwaysMixKinds, SentAwayOnlyUnderLoadAlways, DebtAlwaysFollowsExpenses | the numbering, the waiting (new rows of one kind in no circle) and the debt |
| BellProofs | BellTypes, KeptAlwaysCurrent, AnswersAlwaysOfThatRole, WarnedAlwaysOnceADay, ReadAlwaysShown | the permission cache and the bell's safety |
| RequestProofs | RequestTypes, AddressAlwaysOfOneRegion, PagesAlwaysAgree, ThanksAlwaysMeanStored, OneOrderPerRequestAlways | requests, orders, forms |
| DispatchProofs | DispatchTypes, NobodyEverStranded, PlannedOrderAlwaysKept, AlwaysBalanced | assignments and routes |
| PhoneProofs | SessionInvariant, SessionAlwaysTyped, SessionAlwaysEndsForAReason, CookieAlwaysLive | the session, with every way it may end |
| | QueueInvariant, QueueAlwaysTyped, AlwaysKeptUntilAnswered, QueueSessionEndsForAReason | the offline queue over the session |

All hold for any sets of orders, products, drivers, users, tabs, calls, tokens
and so on, any amounts, any number of requests in flight. The assumptions are
the named ones of the modules: sets that are counted or enumerated are finite
(`OrderIds`, `Products`, `PaymentIds`, `BatchIds`, `Batches`, `Requests`,
`RequestIds`, `Orders`, `Users`, `Partners`), batch ids are naturals, which
stand for the time of creation the loops sort by, bounds and amounts are
naturals, `None` is none of the ids, every tab has one call that restores its
session and flushes (`RestorerAssumption`, `SheetsAssumption`). TLC evaluates
each of them in the runs of the module.

The inductive invariants, and why they are needed:

- **MoneyInv.** The second step of a payment writes a `paidAmount` computed from
  the copy in `call[c]`, and an arbitrary copy breaks the ledger. `MoneyInv`
  adds `LockedSnapshots` (a request between its lock and its commit holds the
  lock, and its copy is the row), which in turn needs every writer of the row
  to respect the lock, `AbsentUnpaid` (an order that does not exist has no
  money) and the types. Steps are of three kinds: those that change no order,
  those that change orders nobody has locked, those of the lock holder.
- **OrdersInv.** `MoneyInv` and the sums themselves: payments booked, totals,
  returns. They need that an order which does not exist has no line and
  no entry (`AbsentBlank`), that the orders and the payment a request remembers
  still exist and belong together (`CallsKnown`), and that payments are more
  than nothing (`PaymentsPositive`), so that a deletion moves the account. The
  sums are folds of the community modules: the first part of OrderProofs shows
  what it needs of them (a sum changes by what one member changes, by what joins
  or leaves it) by taking a smallest set for which it would be false. The
  refinement maps a new order, an edit, a payment, its deletion and a refund to
  one `Operate` of that order's account, and every other step to a stutter.
- **DeskInv** is `OrdersInv`, the properties of deliveries and payouts and what
  they lean on: a payout that was not made counts nothing (`UnusedPayouts`), so
  that a closing starts from zero; a cancelled order has no driver and no money
  (`CancelledAtRest`); an order with a return is completed or was taken by a
  sheet afterwards (`ReturnedWentOut`), so that nobody cancels or edits an order
  whose goods came back; the last two except stale orders. The proof is one
  lemma, `Sound`, for each handler about the order it writes, which it either
  writes on checks that hold (`StillChecked`) or makes stale, and one about the
  sets of orders a sheet or a closing writes.
- **The loops.** `Outgoing` and `Incoming` are folds of a community module: a
  function over all sets of batches, chosen by its recursive equation. The closed
  form (`Made`, a `Share` for each batch) satisfies that equation
  (`MadeIsTable`): what is left before the last batch's turn is what the sum of
  the earlier ones did not take. Nothing else does (`TableIsMade`): two solutions
  would differ first on some smallest set. That argument stands in for
  induction, which the provers cannot instantiate.
- **BatchInv, TrackedInv.** Every batch between 0 and what it received, for any
  interleaving; and, of products that are not stale, all batches together within
  a stock that is not negative. A movement out takes from the batches `Clamp`ed
  to what they hold, so either they are empty or have given all of it; a movement
  in gives at most itself; a line of a supply adds as much to the stock as its
  batch holds, or more.
- **HeldInv** is `DeskInv` with `GoodsAccountedFor`. Order by order: the
  invariant's parts decide for each handler whether the order joins, leaves or
  changes what it holds, and that the movements it writes are exactly that,
  unless the order is or becomes stale or revived.
- **IntakeInv.** `Dense`: committed numbers are `1..n`. A request that has read
  them has a number of at most `n + 1`; once inserted it is exactly `n + 1`
  (`AtStep`), so at most one request of a kind is past its insert (`Apart`), and
  only such a request holds rows (`Holders`). Hence no circle within a kind. A
  change takes no number and may hold rows beside any other: the circles that do
  close have one in them, or two kinds. Every collision stands for one committed
  row, which gives the load under which a request is sent away.
- **PermInv.** An entry that is kept, or about to be, is current, marked late, or
  its deletion is under way; answers are founded on some exception the user has
  had. The bell adds that a marking's bound is a row the list has shown.
- **RequestProofs** carry that stored addresses are clean (one region, all it
  must have), that a page in `stored` or `sent` has a request of its own for each
  time it got there, and that an order's request names it unless two handled it
  or its conversion was cut.
- **DispatchInv** says what a caller has filled in at each of its steps; on it
  rest a statement for each property: a delivery being given is to a driver seen
  in the role, a delivery is under way only while its driver drives or its start
  came late, positions written so far are below those to come, the count of an
  automatic assignment is the loads it read and what it gave.
- **SessionInv.** `Leading`: of a tab only the leader has a refresh on its way,
  so two refreshes on their way are of different tabs. `Sound`, unless something
  happened that excuses it: tokens on their way count until replaced, no two
  calls show or get the same one, and the cookie counts or is the one being
  replaced. A race of two tabs breaks `Sound`, which is why `excused` names it,
  and so do a change of the password, a reset, a deactivation and the end of the
  cookie.
- **QueueInv** adds to it that only a flush that goes on owns requests of its
  tab (`Owned`), that what a flush was told about the head of its list is so
  (`Told`), and that whatever was promised is queued, recorded, answered or
  excused (`Kept`).

Every safety property a passing run checks is stated by a theorem. Only
model-checked is liveness (`EveryRequestAnswered`, `QueueDrains`,
`JoinersResume`, `BadgeSettles`): fairness and ENABLED are out of reach of the
prover.

## What the model shows about the code

Most of what the properties say holds. Where it does not, the property names the
exception. Two promises of the comments are false, and a run each shows it:

- `changePassword` revokes every refresh token of the user and makes a new pair,
  as its comment says (auth.service.ts:222), but the controller never puts the
  new token in the cookie (auth.controller.ts:106), and the page keeps none
  (api.js:25). The cookie holds a revoked token: the next refresh, a page load
  or the end of the access token's fifteen minutes, is taken for theft, and the
  user is logged out (run Password).
- The public page says it has exactly the rules of the DTO (PublicOrder.jsx:17),
  but it asks for no maximum length; the DTO does. A text that is too long is
  refused after sending (run SameRules).

The other places:

Orders and money
- `createHandover` writes READY on whatever orders it is given; a cancelled
  order, whose goods are back in stock, becomes READY again
  (warehouse.service.ts:248). Two sheets made at one time can hold the same
  order.
- updateStatus reads outside its transaction (orders.service.ts:546): a payment
  that commits between its check and its write stays on the cancelled order; two
  cancels that both read before either writes put the goods back twice; a status
  written late takes an order out of CANCELLED or COMPLETED. So the comment that
  these two are final (orders.service.ts:30) is not claimed by any property, nor
  that a cancelled order holds no money.
- An edit, a cancel or a return that locks the rows of two products can wait in a
  circle with another one, or with a new order: they take no number that would
  make them queue (orders.service.ts:403, :617, returns.service.ts:144). The
  database ends one of the two with an error.
- A payment that a return has refunded can be deleted; `paidAmount` becomes
  negative (payments.service.ts:133). `LedgerAgrees` still holds.
- Batch create and write-off compare a stock and a sum they read without a lock
  (batches.service.ts:163), so that batches can exceed the stock and the stock
  become negative; two payroll closings for one driver at one time pay
  one delivery twice (finance.service.ts:272).
- Goods that come back fill the first batch with room, which need not be the
  batch they left, although the comment calls it the exact reverse of FEFO
  (batch.util.ts:38).
- Two payments of a supply that overlap: the second overwrites the first's
  `paidAmount`; both expenses stay (supplies.service.ts:330). What the row says
  is then less than what was booked, never more.

Requests and forms
- Two of the staff who convert one request at one time make two orders; a
  conversion that fails after its first transaction leaves an order and a request
  that can be converted again (order-requests.service.ts:246-256). A reject asks
  nothing about the status.
- A lost answer on the public page is shown as an error; pressing again stores a
  second request.
- An order without a receiver's name cannot be saved from the edit drawer, which
  sends the empty name that its DTO refuses. The drawer writes back fields that
  another may have changed since it was opened.

Delivery
- The automatic assignment writes over a driver who was set after its snapshot;
  reassignment keeps the old `routeOrder`; `setRouteOrder` writes orders that
  have changed hands since it read them (delivery.service.ts:604); a driver who
  loses his role between the check and the write keeps the delivery
  (users.service.ts:127); a start that is written after a complete or a cancel
  puts the delivery under way again, with no driver or one who may leave his
  role (delivery.service.ts:641); deactivating a driver asks nothing about
  deliveries.

Session and queue
- The answer to a refresh is lost: the server has revoked the token the cookie
  still holds; the next refresh is taken for theft and every session of the user
  ends. Two tabs that refresh at one time can do the same.
- A refresh answered 429 or 5xx is taken for a refusal (api.js:112).
- Any of these, during a flush, has a status, so the confirmation is taken off
  the queue, although the comment keeps entries on network errors
  (offlineQueue.js:78). A 5xx to the confirmation itself takes it off as well,
  where the comment speaks of 4xx. `KeptUntilAnswered` names these ways out, and
  the proof says there are no others.
- `online` during a flush is ignored; what was queued after the snapshot waits
  for the next one. Flushing is per page: two pages send one queue at one time.
- A logout without coverage, or with an access token that has run out, leaves the
  cookie and the token as they were.

Bell and permissions
- A permission set that a read computed before a change and kept after it stays
  for the rest of its minute (permissions.service.ts:74).
- Two low-stock checks that overlap warn twice (notifications.service.ts:245).
- Opening the bell marks all as read, those included that came after its list or
  did not fit on it (NotificationBell.jsx:66). A marking that is lost is silent.

## Not modelled

- Pages of the interface (orders, products, users, supplies, finance and so on,
  `LanguageContext` and the styles): by lines most of the repository. They call
  one handler at a time and show its answer; what they check the server checks
  again. The pages with a protocol of their own are modelled: the public page,
  the new-order form and the edit drawer (OrderForms, OrderRequests), the fetch
  wrapper and login state (Session), the driver's sheet and queue
  (OfflineQueue), the bell and its stream (Notifications). The share of the
  repository's lines the map covers stays low for that reason.
- Reports, analytics, dashboard, reorders, receivables: they read and aggregate.
- Settings, categories, companies, customers: edits of single rows without rules
  across rows. Activity, security and error logs: append only.
- In modelled components: the lockout after failed logins (counters before
  there is a session), product create, image and
  CSV import, manual finance entries, the keeper of an order, partner reports.
