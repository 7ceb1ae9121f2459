# TLA+ specifications of the Paloma Mensajera backend

Paloma Mensajera sells gifts with a dedication at a university event. A buyer
places an order, a seller reviews the dedication, the buyer chooses a raffle
number and pays, an administrator or a seller confirms the payment, the gift is
delivered, and the numbers of confirmed orders take part in a draw. The backend
is a NestJS server over one database (PostgreSQL; SQLite for development)
reached through Prisma. Any number of HTTP requests are in progress at once; a
handler awaits each query, so between two queries of one request other requests
run. What they share is the database.

Paths below are relative to the repository.

## The system

| Component | State | Operations | Correct when |
|---|---|---|---|
| order handlers, `src/orders/orders.service.ts` | `orders`, `order_items`, `message_reviews`, `payment_transactions`, `delivery_assignments`; changes `raffle_numbers` and `products` | create (one order or one per recipient), review and resubmit the dedication, choose a number, verify the payment (order or group), delete, add an item, report the delivery | a number has one owner and an owner was approved; stock and orders balance; nothing unpaid is delivered; no order goes back to an earlier stage |
| order codes, same file and `order-code.util.ts` | `orders.orderCode` (unique) | read the last sequence, insert, retry on a collision | a retry succeeds unless it loses a race; every checkout is answered |
| delivery reports, `updateDeliveryStatus` | `delivery_assignments`, `orders.status` | find, update or create the assignment, write the order, confirm by mail | order and assignment agree; the buyer is told once, and the truth |
| raffle numbers and draw, `src/raffle-numbers` | `raffle_numbers`, `draw_rounds` | map, draw, configure, reset | a number wins once; only paid orders win; the history stays; no hole in the numbers |
| catalogue, `src/products`, `src/addon-groups`, `src/addon-options` | `products`, `addon_*` | create, update, link, unlink | positions distinct; stock only changes as sold, returned or edited |
| accounts, `src/auth` | `users`, `email_verification_codes`, `password_reset_tokens` | register, verify, log in (password or Microsoft), temporary users, forgot and reset | a link is used once; sessions only for proven addresses; credentials stay the owner's |
| roles and permissions, `src/users`, `src/roles`, `auth/strategies`, `auth/guards` | `users.roleId` and its expiry, `isActive` | reassign, switch, expire, check each request | an assignment lasts as given; an administrator remains; buyers stay anonymous |
| mailer, `src/mailer` | none | send with retries | bounded retries, and only of transient errors; callers are told the truth |
| Teams notices, `src/notifications`, `src/settings` | `delivery_details.teamsNotificationSent`, the mode | notify one order, switch the mode | what counts as sent was sent |
| administrative reset, `src/admin` | every table | reset keeping combos, full reset | never refused by a foreign key; nothing stays that should go |
| metrics, moderation (unused), storage, encryption, start-up | none, or files | queries, pure functions, input and output | - |

Interaction is by shared rows. The order handlers change products and raffle
numbers in their own transactions; the draw reads orders and payments; the
catalogue writes products; both resets delete rows that others refer to. Mail is
sent after a transaction and its failure changes no row.

The hard part is the same in most handlers: **read, test, await, write**. The
test is made on a row read before the transaction, and the transaction updates
by id without repeating it. What stands in the way of a bad interleaving is
then only the schema (unique keys, foreign keys) and a few conditional writes
(`raffleNumber.updateMany ... status AVAILABLE`, the deletion of a reset token).
The second difficulty is in the transactions: PostgreSQL runs them at READ
COMMITTED, where a read and the write that follows it are not one step, and
where rows stay locked until the end. The third is the bookkeeping of stock
across handlers that take and return it by different rules. `PROJECT.json` lists
each hazard at its line.

## Modules

Orders and raffle:

- **`OrderLifecycle`**, abstract: what is promised of an order (stage and
  number), whatever tables hold it.
- **`Orders`**: the order handlers and the draw over the rows. For each handler
  `Xxx` there is its test `CanXxx` (the reads and early errors before the
  transaction) and its transaction `XxxTx`. The action `Xxx` is both in one step:
  requests served one at a time. A `XxxTx` is guarded only by what the database
  itself enforces, so that it can run on rows that changed after the test.
- **`OrderRequests`** extends `Orders` with requests in progress: `BeginXxx` reads
  and tests, `CommitXxx` runs the transaction later on whatever the rows are by
  then, `Fail` is any rejection of it. `Together` says which operations may
  overlap; the code allows all (`AllPairs`).
- **`RaffleAdmin`** extends `Orders` with `configure` (count, then create) and
  `resetAll` (the rounds, then the numbers; a number may be chosen or drawn in
  between); a number can be chosen only while it has a row.
- **`StockTransactions`** opens the transaction of `selectRaffleNumber` and that of
  a rejected payment: each statement is a step, rows are locked by writes,
  deadlocks are cancelled, a lost connection rolls back, the pool is finite.
- **`Deliveries`** opens the transaction of a delivery report the same way, with
  the mail that follows its commit.
- **`OrderCodes`**: the retry loop around the unique `orderCode`.

Catalogue:

- **`Catalogue`**: rows created at the end of a list, the stock saved from a form,
  the product linked to an option, and order lines sold and returned over them.
- **`AdminReset`** extends `Catalogue` with both resets, statement by statement,
  and with whatever else refers to the rows they delete (draws, deliveries,
  registrations).

People:

- **`Accounts`**: every handler of `AuthService`, one action per awaited part.
- **`Roles`**: `JwtStrategy.validate` with the return of an expired role, the
  guards with the permission table of the seed, `reassignRole` and `toggleStatus`,
  and which answers show the buyer of an anonymous order to whom: those of the
  order views, of a decided group, of the Teams notice and of the draw. An
  answer is decided by the role read when the request was validated
  (`BeginView`) and leaves later (`AnswerView`).
- **`Mailer`**: settings, transport, the retry loop and what callers are told.
- **`Notifications`** extends `Mailer` with the requests that mail and with the
  notices by Teams.

`MCXxx` modules give the constants small values; the `.cfg` files name the runs.
`XxxProofs` modules hold the theorems, `SumProofs` the lemmas about sums they share.
`OrdersProofs` covers all modules about orders but the two that open a transaction.

A definition marked `\* mutant` is a plausible error in the definition after it; no
specification uses it. It is there to show that the properties can fail.

### `apart`: what overlaps and what must not

Nothing in the code keeps two requests apart, and some properties survive every
overlap while others do not. Both are checked by one specification. The Boolean
`apart` is chosen in the initial state and never changes: in the behaviours
where it is FALSE everything overlaps, as in the code; in those where it is TRUE
the pairs of requests that conflict do not. A property that reads `apart => ...`
is one the code loses when that pair overlaps, and the comment on the property
names the pair; the others hold in both kinds of behaviour. `OrderRequests` has
more pairs and names them as a constant (`Together`) instead.

### State

| Variable of `Orders` | Column |
|---|---|
| `status`, `channel`, `group` | `orders.status`, `salesChannel`; `group[o]` is the set of orders created with `o`'s `groupId` |
| `review`, `payment`, `assignment` | `message_reviews.humanReviewStatus`; `payment_transactions.verified`, `"NONE"` without a row; whether there is a row in `delivery_assignments` (what the rows say is in `Deliveries`) |
| `items` | `order_items` added up per product: sold as such (`main`), and as the product linked to the chosen add-on (`addOn`) |
| `holder`, `numStatus`, `drawn` | `raffle_numbers.orderId`, `status`, `drawnAsWinner` |
| `rounds` | `draw_rounds` |
| `stock`, `active` | `products.stock`, `isActive` |

Carts are sets of units per product; the sequence of the lines matters only for
locks and is in `StockTransactions`. Dedications are a Boolean (is there one),
people are left out except the role that may decide a payment, prices and
`totalAmount` are left out (nothing reads them to decide).

| Module | Variable | Column, or what it stands for |
|---|---|---|
| `RaffleAdmin` | `rows`; `conf`; `cleared`; `orphans` | the numbers with a row; configurations between count and creation; the rounds a reset in progress has deleted; orders whose number a reset deleted |
| `StockTransactions` | `phase`, `line`, `delta`, `rowLock`, `numLock` | the statement each transaction is at, its uncommitted changes, its locks |
| `Deliveries` | `assignments`; `status`, `old`, `lock`; `mails` | the rows of `delivery_assignments` with their uncommitted values; `orders.status` and the value others still see; mails started |
| `Catalogue` | `position`, `stock`, `linked`; `orders`; `supplied` | `position` (0: no row), `stock`, `linkedProductId`; one line per order; what the administrator put on sale (no column: the other side of the books) |
| `AdminReset` | `numbers`, `rounds`, `team`, `carriers`; `wipe`, `gone` | the tables that refer to the catalogue, orders and users; the statement a reset is at and what it deleted so far |
| `Accounts` | `users`, `rows`, `expired`; `req`; `sessions`, `uses`, `promised` | the row of each email, codes and tokens with a row; what each request keeps across its awaits; history the properties speak of |
| `Roles` | `role`, `until`, `ends`, `active`; `req`; `given`, `held` | `roleId`, `roleExpiresAt`, `expiresAt`, `isActive`; requests between validation and effect or answer; history: the last assignment and every role an account had |
| `Mailer` | `env`; `phase`, `attempt`, `cause`, `accepted`, `result` | the settings; one send: where it is, retries, last error, copies the mail server took, what the caller sees |
| `Notifications` | `sent`, `selfPickup`, `mode`; `byHand` | `teamsNotificationSent`, `selfPickup`, `notificationMode`; history |

Time is a clock only in `Roles`; elsewhere an expiry is a step that may happen at
any moment. Hashes, tokens and codes are members of a set; a fresh one is one
that is not in use.

## Runs

| Run | Instance | What it shows |
|---|---|---|
| `requests` | `OrderRequests`: 2 orders, 2 numbers, any 2 operations overlapping | agreement of the rows of an order and of its number, intact draw history and, until an order is deleted, no unit lost hold however requests overlap (without items added by hand) |
| `lifecycle` | `OrderRequests`: 2 requests, 2 orders, both channels, an item added by hand with its linked product, all pairs but `ConflictingPairs` and reports with reports or deletions | the overlapping handlers implement `OrderLifecycle` (`LifecycleSpec`); added items do not oversell, and of the item itself nothing appears |
| `safe_pairs` | `OrderRequests`: 3 requests, 2 products, all pairs but the 7 `ConflictingPairs` | those seven pairs are the whole problem: with them apart all properties of the serial service hold |
| `codes` | `OrderCodes`: 3 checkouts of 1 or 2 recipients, 2 attempts, deletions, one new year | a code is refused only by a race, a checkout gives up only after losing as many as its attempts, and is always answered |
| `stock` | `StockTransactions`: 3 orders with carts in opposite orders, 2 numbers, 1 unit of each product | no lost update, nothing left of a failed transaction, one owner per number, the last unit sold once unless two takes overlap, every transaction ends |
| `deliveries` | `Deliveries`: 2 reports of every kind on one order | order and assignment agree, at most one assignment per overlapping report, one confirmation, every report ends |
| `raffle` | `RaffleAdmin`: 2 orders, 3 numbers, 2 configurations, resets in two statements | the numbers have no hole, an order owns its number until a reset takes it and then never wins, every round is of a number that is there, the books survive a reset |
| `catalogue` | `AdminReset`: 2 products, 1 group, 1 option, 1 order, 1 administrator and a reset | positions distinct across deletions and resets, the books of the stock balance, a reset is never refused and complete. With one administrator no two forms are open; that two on different products keep the books is the theorem `LedgerAlwaysHolds` |
| `accounts` | `Accounts`: 1 email, 2 requests, 2 passwords, 2 Microsoft identities, 3 secrets | a link works once, sessions only for proven addresses; credentials kept and the last mail works unless named pairs overlap |
| `roles` | `Roles`: 2 accounts, 2 requests, 2 instants | assignments end as given, an answer shows the buyer only to who has been in charge, an administrator remains unless a named overlap happens |
| `notifications` | `Notifications`: 2 requests, 4 kinds of server, 3 retries, every error at every attempt, the mode switched | no mail without a server, truthful answers, honest marks, every request answered |
| `addition_deleted` | `Orders`: 1 order | **violated**: an item added before the number is chosen is not returned by a deletion, against the comment at `orders.service.ts:532-533` |

### Disagreements

`addition_deleted` is the one kept as a run: it needs no overlap. The properties
guarded by `apart` or by `Together` are the others. Each is reproduced by taking
the guard away, in a configuration of the named module:

| Guard taken away | Then violated | What the repository says |
|---|---|---|
| `Together` with `{"verifyPayment"}` (2 requests) | `StockLedger`: two rejections give the stock back twice | `SDD_Paloma_Mensajera.md:37`, no discrepancy in stock and raffle under concurrency |
| `Together` with `{"selectRaffleNumber", "deleteOrder"}` | `NumbersOwned`: the number stays `ASSIGNED` to nobody, for ever | the same |
| `Together` with `{"draw"}` | `WinnersDistinct`: the same winner twice | `SDD_Paloma_Mensajera.md:257` and `:670`, a round excludes earlier winners |
| `apart` in `NoOversell` of `StockTransactions` | stock -1 | `orders.service.ts:920`, availability is validated |
| `CodesNeverReused` of `OrderCodes` as a property | the code of a deleted order is given again | `orders.service.ts:953-957`, the sequence does not go down when an order is deleted |

Repeating the test inside the transaction (for instance by a conditional update,
as `selectRaffleNumber` does with the number) would turn the seven pairs of
`OrderRequests` into the one-step handlers of `Orders`; `safe_pairs` shows that the
other pairs need nothing for its properties, and `lifecycle` that the order of an
order's stages needs it for two pairs more: a report tested before another one
delivered the order sets it back to `IN_ROUTE`, and a deletion tested before it
removes a delivered order (`LifecyclePairs`).

Other behaviour met while modelling, each visible as the guard of a property or
in the comment of an action:

- A registration tests that the account is unverified before the slow hash. If
  the owner verifies or logs in with Microsoft meanwhile, it overwrites the
  password of a proven account. Two Microsoft logins that both see no identity
  linked replace each other's (`CredentialsKept`).
- Two overlapping requests for a code or a link delete each other's rows after
  the mail with one of them left (`LastMailWorks`).
- The expiry of a role, decided on the row that was read, takes away a role
  assigned in between; the account falls back to `comprador` (`AssignmentKept`).
- The last administrator can be lost in three ways: two switch each other off at
  once; one switches the other off while it is itself given another role, by the
  other or by its own second request; the role of one runs out and is taken back
  by a second request while its first switches the other off. `AdminRemains`
  names them and is stated for a switch that no other request of, or on, the two
  accounts overlaps.
- `POST :id/notify-teams` answers with the whole row of `delivery_details`, so the
  role `delivery` sees name and email of the buyer of an anonymous order, which
  `orders.serializer.ts:95-96` leaves out of the other views of that role. In
  `AnonymousBuyer` the notice is therefore an answer that `delivery` is in charge of
  (`InCharge`).
- A reset of the raffle that overlaps with a configuration leaves a hole at the
  start of the numbers (`Contiguous`).
- Two rows of a list created at once get the same position (`PositionsDistinct`).
- The product form writes the stock it showed, over the sales and returns made
  while it was open and over what another form of the product saved meanwhile;
  an option linked to another product between a sale and a rejection gives the
  units to that product (`LedgerHolds`).
- First delivery reports that overlap create one assignment each, and the order
  may keep the status of the older one; later reports change only the newest. Two
  reports of the same arrival mail twice (`AssignmentsBounded`, `ReportAgrees`,
  `ConfirmedOnce`). `Orders` keeps of the assignments only whether there is one.
- A full reset is refused if, for instance, an order is placed and drawn, or a
  product ordered, between two of its statements (`ResetComplete`).
- An item added before the number is chosen is taken twice (`addItem` and then
  `selectRaffleNumber`). The product linked to an item added later is returned
  without having been taken: `addItem` decrements only the item's own product
  (`orders.service.ts:620-635`), a rejection and a deletion increment both
  (`:506-512`, `:568-573`), although `:590-592` says that it takes stock like a normal
  item. `StockBounded` names this exception.
- One order of a group can be decided alone.
- Two checkouts at the turn of the year share a sequence.
- A take and a give deadlock even when all carts list the products in the same
  order, because the give locks its number before the products and the take
  after them.
- `drawHistory` shows the buyer of an anonymous order, which `draw` reserves to
  the role `admin`; with the permissions of the seed both are for administrators
  only.
- The seed deletes the permissions of a role and creates them again in two
  statements; a request between them is refused.

### Bounds, and why they are enough

Two orders and two numbers are needed for a number to change hands and for two
winners. Each race involves two requests and at most a third to move the order
between them, so two slots reach all races of two, and `safe_pairs` has three.
`MaxRounds` = 2 lets a winner be repeated. `MaxUnits` stops `addItem`. `LastYear`
= 2 has one new year. `MaxAttempts` is 2 instead of the code's 5: the loop is
the same for every value, and with three checkouts both exits are reached; the
mailer has the code's three retries. `stock` starts with one unit of each product,
so that every cart after the first meets an empty shelf. `Total` = 3 numbers let
two configurations differ and a third follow a reset. `MaxPosition` = 3 leaves
room for a row after one was deleted; `MaxStock` = `FirstStock` = 1, with one unit
more per save refused beyond it (a return may still lead above it). `MaxTime` = 2 has
an instant before and one after an expiry. `Secret` has three: the two of two
requests and one mailed before. Accounts do not interact but through the reset
tokens, which belong to one each, so one email is checked; that the rest holds
for any number of emails is proved.

Symmetry is used only in runs without liveness; the properties treat the members
of each set alike. In `roles` only the request slots are symmetric, since the
accounts are not.

`CHECK_DEADLOCK FALSE` is stated for `codes` and `stock`, which stop when every
checkout is answered and every order is done, and for `deliveries`, which stops
when the order is delivered or cancelled and takes no more reports.

### Fairness

Only the system's own steps are fair, never users, administrators, crashes or
deletions. `OrderCodes`: a checkout goes on with its loop (Node runs the
continuation of every answered query, and the database answers).
`StockTransactions` and `Deliveries`: statements that wait for nothing are weakly
fair; those that wait for a row are strongly fair, because PostgreSQL serves the
waiters of a row in turn; the deadlock detector is weakly fair (it runs after
`deadlock_timeout`). `Notifications`: every call to a mail server and every query
returns, with an error or without, and timers ring. The other modules have only
safety properties.

### Assumptions about PostgreSQL and Prisma

READ COMMITTED; `updateMany` and `update` are one `UPDATE` whose condition is
evaluated again after waiting for the row; `increment` and `decrement` are
relative; a failed statement aborts the transaction; `delete` of a row that is
gone is an error; the foreign keys are those of the migrations (`CASCADE` for the
rows of an order and the options of a group, `SET NULL` for
`raffle_numbers.orderId`, the option of a line and the product of an option,
`RESTRICT` for `draw_rounds`, the product of a line and the person of a delivery).
A deleted row is visible to others until the commit, and who refers to it waits.
These definitions are marked external in `PROJECT.json`.

## Proofs

Every invariant that a run checks is also proved, for arbitrary sets, carts,
bounds and numbers of requests, and so are the action properties
`CredentialsKept`, `AdminRemains` and `ResetComplete` and the refinement
`LifecycleSpec`. (`StockReturned` is the one that fails.)

Every `XxxProofs` module has the same shape: the initial states satisfy an
inductive invariant, each action preserves it (one lemma per action), and each
theorem follows from it. TLC checked each of these inductive invariants on the
instance of its run.

| Module | Proves about | Properties |
|---|---|---|
| `OrdersProofs` | `Orders`, `OrderRequests`, `OrderLifecycle` | `NumbersAgree`, `StatusAgrees`, `WinnersKept`, `NoUnitLost`, `NumbersOwned`, `RaffleGate`, `PaidFirst`, `WinnersDistinct`, `StockLedger`, `StockBounded`, `LifecycleSpec` |
| | `RaffleAdmin` | `Contiguous`, `SoldOrOrphaned`, `BooksSurviveReset` |
| | `OrderCodes` | `CollisionsAreRaces`, `RejectedAfterRaces` |
| `StockProofs` | `StockTransactions` | `StockConserved`, `NumberOwned`, `NoOversell` |
| `DeliveriesProofs` | `Deliveries` | `ReportAgrees`, `AssignmentsBounded`, `ConfirmedOnce` |
| `CatalogueProofs` | `Catalogue`, `AdminReset` | `PositionsDistinct`, `LedgerHolds`, `ResetComplete` |
| `AccountsProofs` | `Accounts` | `TokenOnce`, `SessionsVerified`, `CredentialsKept`, `LastMailWorks` |
| `RolesProofs` | `Roles` | `AssignmentKept`, `AnonymousBuyer`, `AdminRemains` |
| `NotificationsProofs` | `Mailer`, `Notifications` | `NeverWithoutTransport`, `AnsweredTruly`, `NoticeHonest` |
| `SumProofs` | sums, images and largest elements of finite sets | (lemmas) |

### Orders

Four arguments, each on top of the one before.

*However requests overlap.* `RowInv` (types of the rows, `NumbersAgree`,
`StatusAgrees`, `WinnersKept`) is preserved by every transaction `XxxTx` alone,
without its test: one lemma `XxxTxRows` each. So no interleaving can lose these
properties. `RequestsNoUnitLost` (for finitely many orders, without added items)
adds that a deleted order has no payment, so that no decision finds it
(`GoneUnpaid`), and that until then a decision gives back at least what its orders
held: it may find orders whose number another one released, and errs upwards.

*One request at a time.* `SerialInv` adds `StageRows`, `NumbersOwned`,
`WinnersDistinct` and `PaidFirst`, each needed for another: a drawn order is paid
(`PaidFirst`), so it is not `PAYMENT_PENDING` (`StageRows`) and its number is not
freed by a rejection (`NumbersOwned`), so winners keep their numbers
(`WinnersDistinct`). `LifecycleImplemented` is `Spec => LifecycleSpec`, with `stage`
the image of `status` and `number` the inverse of `holder`. Each handler is one
step of `OrderLifecycle`; a dedication rejected or sent back to the review, an
added item, a draw and a switched product are stutters.

*Only the conflicting pairs kept apart.* The hypothesis is `Together \subseteq
SafePairs`; the number of requests is arbitrary. `OverlapInv` is `SerialInv` and,
for every call in flight, `Fresh`: of what the handler tested, as much as its
transaction relies on is still true, or the order was deleted and the transaction
will not find it. The step that matters is that a commit leaves the other calls
`Fresh`; it fails for exactly the pairs in `ConflictingPairs`. `OverlapLifecycle`
supposes `Together \subseteq LifecyclePairs` and adds to `Fresh` what a step of the
lifecycle asks of the stage it starts from: then every commit is a step of
`OrderLifecycle` or a stutter, whatever committed since the test.

*Stock.* What the orders that own a number took is a sum over orders of sums over
carts. `OverlapStockLedger` supposes `Additions = {}`: an item added by hand before
the number is chosen is taken twice, so the books do not balance with it.
`OverlapStockBounded` allows any of them: no product goes below zero, and only those
linked to an added item can exceed what was there. The instances of `safe_pairs`
and of `lifecycle` are of these two kinds.

*Raffle.* Resets take the numbers of orders that go on, so `NumbersOwned` is false
here. `RaffleInv` says instead what an order without its number (`orphans`) can
become, that whatever was drawn or is held has a row, and, in the behaviours
`apart`, that the rows are `1..k`, no configuration counted more than `k` and none is
in progress during a reset.
`ShelfInv` counts sold orders by their stage, not by their number, and is an
inequality from the deletion of the first orphan on.

*Codes.* `CodesInv` needs the link between reading and losing a race: until
another checkout commits, no code is above the last one read (`ReadHighest`), so a
refused code is a lost race; and a checkout in attempt `k` has lost `k - 1` races to
as many different checkouts (`RacesLost`), because each is answered when it wins.

### The other components

- `StockProofs`: `Written` says that what an open transaction changed so far is the
  sum of the lines before its current one, and `NumbersLocked` that a number being
  claimed or freed is locked; a commit then moves a whole cart at once. For
  `NoOversell`, `StockCovers`: in behaviours `apart`, what a take has read is still
  there, because whoever else touches its products gives.
- `DeliveriesProofs`: `ReportInv` relates the rows to their writers (`RowsOK`,
  `CallsOK`, `LockOK`) and states agreement for what *others* see (`ShownOK`), which is
  what a rollback restores. `AssignmentsBounded` is not inductive by itself: the
  invariant counts the rows seen together with the reports that found none and
  may still add one (`CountOK`).
- `CatalogueProofs`: in behaviours `apart`, what a request read is still so when it
  writes (`ListsOK`, `FormsOK`, `ReferencesOK`). A reset has deleted exactly what its
  statements so far name (`ResetInv`), so that whatever refers to the next row is
  gone.
- `AccountsProofs`: handlers answer with what they read before their last await.
  That is sound because an account that is there stays there and stays proven
  (`UsersKept`, of every step), so what a call has learnt (`CallOK`) stays true. For
  `CredentialsKept`, `ApartInv` says that what a registration or a Microsoft login is
  about to overwrite is still as it was read (`ReadFresh`). For `LastMailWorks`,
  `MailInv` follows a secret through the three steps of a mail: while one is on
  its way nothing is promised, and the secret drawn has its row.
- `RolesProofs`: `Sane` holds whatever overlaps: a role is the one given or the
  buyer's, its end the one given or gone. `ApartInv` adds that no two requests
  concern one account, so an expiry found is still an expiry when it is written.
  The role an answer was let through with is one its account has held
  (`Entered`); `ShownToThoseInCharge` goes through the views and the permission
  table.
- `NotificationsProofs`: `SendOK` counts copies, at most one per attempt that is
  over.

### What the proofs assume

The named assumptions on the constants, which TLC evaluates on every run: null
values are no members of the sets they stand beside, carts and stock have natural
quantities, raffle numbers and request slots are finite in number, and rows of
different tables are different (`TablesAssumption`). They say nothing that the
schema or the choice of the constants does not. Two are special: in `RaffleAdmin`
the numbers are `1..Total`, and only the theorems about `RaffleSpec` use it; and
the theorems with an `ASSUME` of their own (`Together`, `Additions`, finitely many
orders) are about the behaviours that it names. In the properties guarded by `apart` both kinds of
behaviour are covered by one theorem.

Orders and products may be infinite in number (but for `RequestsNoUnitLost`). The sums are over finite sets all
the same: in `Orders` each sold order holds a number (or held one: the orphans),
and elsewhere that finitely many orders are sold is part of the invariant.

The induction theorems of the library take an operator as a parameter, which the
provers cannot instantiate. `SumProofs` goes around it: strict inclusion is well
founded on finite sets, so among the subsets for which a claim fails there is a
smallest one. From this come the recursion of `SumFunctionOnSet`, its
additivity, its independence of what lies outside the set, the finiteness of images
and the existence of a largest element.

### Model-checked only

- `Answered` (of `OrderCodes`, `Deliveries` and `Notifications`) and `Ended`: liveness
  under fairness, which needs `ENABLED`.
- That each pair of `ConflictingPairs` is really in conflict: this is a
  counterexample of TLC for each, not a theorem.

## Not modelled

- `updateProductReady` (a flag nobody reads), prices and `totalAmount`, images.
- DTO validation, layout of mails and notices, logging.
- In `Catalogue`, `isActive` and the links between products and groups: they only
  decide whether a line can be placed or sold, and either may be the case.
- `RolesService.create`: roles of any name with permissions an administrator
  chooses, given to temporary accounts. `Roles` has the four roles of the seed.
- `rolePreviousId` and the audit columns, which nothing reads.
- Metrics (counts over the rows), moderation (no handler calls it), image storage
  and column encryption (input and output, no state), wiring and the validation
  of the environment.
- SQLite: one writer at a time, so the statement races do not arise.

`PROJECT.json` gives the status of each component.

## Plan

1. An abstract shop (stock and owners, each order charged or not, in one step)
   that `StockTransactions` implements, and the same for `Deliveries`: they would
   tie the statements to the one-step handlers of `Orders` by a refinement.
2. The weakest hypotheses under which items added by hand keep the books
   (`OverlapStockLedger` without `Additions = {}`, for items added after the
   number is chosen).
3. Roles of `RolesService.create`, if permissions beyond those of the seed ever
   decide what a view shows.
