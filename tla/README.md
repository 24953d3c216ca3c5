# Verification of the BINNO backend

TLA+ models of the Go backend in `src/binno_backend`, the TLC runs that check
them on small instances, and the theorems TLAPS proves about them for every
instance. `PROJECT.json` maps each definition to the source lines it models.

## The system

BINNO is a marketplace. A buyer places an order at a store, the supplier
confirms it in the app or by a token from an SMS, the buyer pays by hand and
files a receipt, the seller decides on it, prepares and hands over the goods, and
the owner of the store owes a commission. One process, `cmd/binno`, serves HTTP;
another, `cmd/dispatcher`, sweeps deadlines, rolls up commissions, relays events
and prunes sessions. Both run in several copies over one PostgreSQL and one
Redis.

| Component | State | Operations | What is hard |
|---|---|---|---|
| orders (`modules/orders`) | `orders`, `order_items`, confirm tokens | Create, ConfirmToken, the 19 triggers of `transitionTable` | chained edges, a token and three actors departing from the same status |
| order sweeper (`orders/sweeper.go`) | none between passes | RunOnce: list, escalate, expire, payment-expire | acts on an old list; partial failure; restart |
| who may act (`platform/authz`, `location/guard.go`, services) | roles in the access token, owner accounts, owner of a store | Require, RequireRole, EnsureSelf, EnsureOwnsStore before a command | asked outside the transaction, of roles as old as the token |
| catalog (`modules/catalog`) | offers with declared and reserved quantity | reserve, release, consume, UpdateOffer | orders and the seller race for one row |
| location (`modules/location`) | stores, owners | RegisterSeller, the sale gate | status changes under running orders |
| billing settlement (`billing/settlement.go`) | invoices, payments, refunds, ledger | issue, receipt, settle, cancel, refund, accrue | must follow the order in the same transaction |
| refund sweeper (`billing/refundsweep.go`) | none | RunOnce: order first, refund second | two transactions, a crash in between |
| commission rollup (`billing/rollup.go`) | commission invoices | RunOnce, invoicePeriod | sums read outside the transaction; late rows |
| outbox (`platform/messaging/outbox`) | `platform.outbox` | Write, claim, relay, mark, record failure, clean up | leases that lapse, bisection, retries, dead letters |
| idempotency (`httpx`, `cache/idempotency`, `database/dedup`) | Redis reservation and response, mutation receipt | Reserve, SaveResponse, Release, claim | two stores that fail and forget separately |
| identity (`modules/identity`, `cache/otp`) | users, refresh tokens, codes in Redis | RequestCode, VerifyCode, Refresh, Logout, the janitor | no transaction: each call is several statements and Redis commands |
| circuit breaker (`cache/redisx`) | three atomics | allow, succeed, fail, trip | no lock; late results in another state |
| API process (`cmd/binno`, `platform/httpx`) | slots, rate-limit windows, readiness | identity, LimitInFlight, RateLimit, Timeout, drain, shutdown | the handler outlives the answer; a signal at any time |
| lists and search (`orders`, `billing`, `operator`, `catalog`, `search`) | the rows listed; cached pages in Redis | a page after a cursor | rows change between the pages |
| trust (`modules/trust`) | feedback | CreateOrderFeedback | the order is read before the insert |
| money (`platform/money`) | none | Multiply, ApplyBasisPoints | rounding, range |
| mobile app (`src/binno_mobile`) | mock data | user interface | not part of the system's state |

Components call each other inside one database transaction (orders calls
catalog, location and billing ports), and speak to the operator queue and the
analytics store only by events in the outbox. Everything a client asks for goes
through the middleware first, and everything in Redis through the breaker.

What makes each correct: reservations match live orders and never exceed the
declared quantity; invoice, payment and refund follow the order's status; an
ended order stays ended; deadlines are enforced in the end; an escalation
happens once; every closed order is billed once and the statements add up;
events reach the store in order and are not lost; one key carries out one
mutation; an order is moved only by its own parties; a refresh token has one
successor and a code a bounded number of guesses; the breaker always finds its
way back; a refusal by the middleware or by a route of one transaction means that
nothing happened; a client that reads a list to its end has seen what stood in
it, as far as one set of results joins the pages.

## Modules

| Module | Models |
|---|---|
| `OrderTable` | `transitionTable` and what a trigger with its follow-on edge permits, reaches and queues |
| `Stock` | the statements on `catalog.offers`, with their guards and CHECK constraints |
| `Settlement` | the statements on invoices, payments and refunds |
| `Orders` | composes the three: every command as one action, the two sweepers step by step, deadlines, seller status |
| `Trade` | the abstract promise `Orders` implements |
| `Parties` | over `OrderTable`: accounts, tokens, the guard before each command and the command applied later; feedback |
| `Outbox` | writers, the rows, any number of dispatchers, the sink |
| `Delivery` | the abstract promise the outbox implements |
| `Money` | half-up rounding and basis points |
| `Commission` | over `Money`: closing orders in three steps, the rollup, months |
| `Requests` | the requests under one Idempotency-Key, one action per Redis command or transaction |
| `Codes` | the Redis keys of a phone's one-time code and what each script does to them |
| `Sessions` | over `Codes`: RequestCode, VerifyCode, Refresh and Logout one statement a step, the janitor, blocking |
| `Breaker` | the breaker one atomic operation a step |
| `Server` | a request's two goroutines through the middleware; the process from start to exit |
| `Lists` | eight lists with their orders and cursors, their writers, the search cache, one client |

Each `X` that is run has `XProperties` (properties, fairness) and `MCX` (its
instance for TLC). `XProofs` holds the theorems; those about `Server`, `Breaker`
and `Lists` are together in `ApiProofs`. `SumProofs` is a library of lemmas about
sums over finite sets.

Operators marked *Slip* are plausible mistakes in the operator that follows
them. Nothing uses them except the mutation check: with the slip in place of the
definition, the run named in `PROJECT.json` reports the property it is listed
under.

### Orders

A command holds the order's row lock (`GetOrderForUpdate`) for its whole
transaction, so it is one action: the edge and its follow-on, stock, settlement
and events together. `status`, `basket`, `offers`, `invoices`, `payments`,
`refunds` and `ledger` are the tables; rows of an order are sequences of
statuses, oldest first, because statements choose rows by status. Amounts are
left out; the founding allowance keeps whether a ledger row is free. A deadline
is the stage its clock has reached (`running`, `due`, `graced`), which is all the
code compares. A repeated command finds its receipt and stutters; `Requests`
models that machinery by itself.

A sweep is not a transaction. `orderSweep[d]` and `refundSweep[d]` hold the list
dispatcher `d` read and where it is in it; every other action may come between
two steps, each step may fail, and `DispatcherRestarts` may come anywhere. The
clock a pass read at its start decides which orders it expires (`graced`).

`Trade` says what an order promises its two parties: goods are set aside, paid
for, and handed over against the money or given back; money is returned only for
goods that went back; no order ends while the seller holds money for nothing.
`OrdersProperties!Bargain` reads the money off payments and ledger, the goods and
the end off the status. That "back" is given back once is not `Trade`'s to say but
`StockMatchesOrders`'.

No HTTP route drives `operator_cancel`; the trigger is modelled since the table
offers it. No code sets an offer to `archived`.

### Outbox

A row's transaction stays open between `Write` and `Commit` or `Rollback`: ids
are drawn before the commit. `Locked` names the aggregates whose writers hold a
row lock and so take turns. A pass is a list of tasks (send, mark, fail,
cleanup) that `SendRefused` extends as `relay` recurses. The row itself knows
whether its lease holds (`claim`) and its retry is due; `LeaseLapses` may strike
while the holder still works. The sink is `analytics/postgres` (idempotent by
event id, so a set); `poison` rows are those `EventFromRecord` refuses. Its
pruning after 180 days and the ClickHouse sink are left out. The database
statements that delete mutation receipts do not touch the outbox.

`Delivery` says what is promised: events are accepted, delivered only when
accepted and after every earlier event of an ordered aggregate that was not set
aside. `OutboxProperties!Promise` maps committed rows, the sink and the rows
ever dead-lettered to it.

### Commission

`ConfirmReceived` reads the clock, `CountUnderLock` takes the owner's advisory
lock and counts, `CommitClose` commits in whatever month it then is. `late` marks
a row that committed after its month; it is history, no code reads it. A
statement is what `CreateCommissionInvoice` stored, a pass the set of periods
with the sums of when they were listed. The list's order within a month is left
open. The recorded `rate_bps` is left out.

### Requests

One key of one caller for one endpoint. `kind` says whether the endpoint creates
(ReserveNew) or acts on the resource in its path (ReserveFor). The transaction
is one action since the receipt's primary key makes a second one wait. The
client sends its requests within the receipts' retention. A creation answers
with the id of what it created; an acting endpoint answers a bare 200 that names
nothing (`Says`), so a caller takes it for the resource of its own path (`Told`).
What Redis has kept is replayed as it is, to whoever sends the key with the same
body.

### Parties

One order of one store. A command is two actions: `Authorise`, after the service
has read the order and the guard has passed, and `Apply`, the transaction; in
between roles, owner accounts and the order may change, and other commands pass
the guard too. `roles` are those of the access token, read by `SignIn`, so a
seller who is blocked keeps "seller" until the next sign-in or refresh.
`StoreBelongsToUser` looks at ownership alone, not at the status of store or
owner. The confirmation link asks for no sign-in: `TokenConfirm` is said by
nobody in particular. `said` is `orders.order_events`.

The order is reduced to its status and parties; stock, billing and deadlines are
in `Orders`, which takes every command as allowed.

### Sessions and Codes

One phone number. The identity service opens no transaction: RequestCode,
VerifyCode, Refresh and Logout are chains of Redis scripts and SQL statements,
and `requests[r].step` is the next one. Expiry of a token, the end of a
cool-down or of a code, the janitor and a block come between any two. Codes and
cool-downs do not end while a request of the same phone stands between its two
Redis commands, because HTTP_TIMEOUT is far below both. `delivered` and
`compared` are history: which SMS arrived, and how many guesses the present code
was compared with. An access token is a signature of which nothing is kept.

### Breaker

`state`, `openUntil` and `failures` are atomics without a lock, so each load,
store, add and compare-and-swap is a step; a goroutine may stand between two of
them while Redis goes away and returns. Time is only whether `openUntil` is
reached.

### Server

`work[r]` is the handler's goroutine, `conn[r]` the connection's that waits in
`Timeout`. When the deadline strikes the answer goes out and the handler goes
on: it keeps its slot until it returns, and what it writes then is dropped. A
route runs one transaction and what it rejects is rolled back, except for /auth,
whose statements each commit: it refuses also after it consumed a code, stored
one whose SMS then failed, or revoked the sessions of a replayed token
(`internal/modules/identity/service.go:122`, `145`, `181`). Those refusals are
`not_signed_in`, and nothing is promised of them. A Redis that does not answer
the limiter shows as `limiter_unavailable` or, when the deadline has passed
meanwhile, as a time-out.
`process` is where `run` of `cmd/binno` stands. Slots and the counters of the
limiter are exact; a window's end resets the counters. A negative
HTTP_MAX_IN_FLIGHT, which switches admission off, is left out.

### Lists

A row has a rank (time, month or price) and is live or not: its status, and for
an offer the stock and its store's status, keep it in the list. The list of a
behaviour is chosen at the start, with its own sort order, cursor and writers.
Some lists never lose a row.

A search shows more than what is live. Of each owner it shows the best offer
within the circle it searches (`Best`, `Listed`), ordered by price and by the
distance from the caller's point. A search without a radius widens its circle
while the first page stays empty, one statement an attempt (`Widen`); a page
after a cursor does not. Pages are kept in Redis under the radius asked for and
the cursor (`CacheKey`), shared by all callers of a grid cell: `OthersMiss` is a
neighbour, at another point of the cell, whose search fills a page the walk will
meet. A kept page is looked up again before it is given out, but only against the
sale gate (`RefreshOffers`), and keeps its order and its end.

History: `circle` is the circle a page was searched in, `mixed` says that the
walk was given pages of two circles, and `touched` holds the rows whose place
changed since the client, or the kept page, began; a change of one offer may move
every offer of its owner. `MaxKept` bounds the pages kept.

District and product are the same for all callers of the model, since both are
part of the cache's key. Complexes and the places of stores are fixed, since no
operation of the program writes them; a complex switched off in the database by
hand would stay in a kept page just as an offer does that is no longer the best
of its owner.

## Runs

| Run | Instance | Shows |
|---|---|---|
| `settlement` | 1 order, 2 dispatchers, 2 payments | billing, refund, queue and escalation stay in step with the order under every interleaving of commands and sweeps |
| `stock` | 2 orders of 1-2 units, 1 offer, changing stock | reservations match live orders; billing once |
| `sweeps` | 1 order, 1 dispatcher, fair | unanswered and unpaid orders end, late refunds are flagged; refinement of `Trade` |
| `oversell` | violation | a declined, then cancelled order releases stock twice, and a third order takes a unit another holds |
| `outbox` | 2 dispatchers, 2 rows, batches of 2, 2 attempts, one aggregate with and one without lock, fair | no mark without delivery, order, refinement of `Delivery`, every event is stored or dead-lettered |
| `rollup` | 3 orders, 2 owners, 2 dispatchers, months 0-2, fair | allowance under concurrency, rounding, statements that add up, every row billed |
| `key` | 3 requests, 2 bodies, 2 resources, both kinds | one mutation; answers of the transaction are true, replayed ones as far as the key is used for one resource |
| `sessions` | 2 requests, 2 refresh tokens, 2 codes, 1 attempt, janitor batches of 1, fair | rotation is a chain, guesses are counted, a failed SMS spares a delivered code, a block takes effect |
| `parties` | 2 users, one of them an operator, 2 commands in flight | an order closes, is refunded or is reviewed as its own parties agreed |
| `breaker` | 3 goroutines, threshold 2, fair | half-open is always left; once Redis is back for good the breaker closes for good |
| `server` | a mutation and a read, 1 slot, bursts of 1, fair | slots match handlers, refusals applied nothing and successes did, a clean shutdown answered all, the process ends |
| `lists` | 3 rows of 2 owners, 2 ranks, 2 points, 2 radii and one widening, pages of 1, 1 kept page, all eight lists | a row that stands unchanged is given once by pages of one circle; no page holds a row the sale gate refuses |

Bounds. A single order already meets every sweeper, command and deadline in
every order; two are needed only where they share a row (stock, ledger). Two
dispatchers suffice for one to be stale while the other acts. Two payments are a
rejected and a new one. Two attempts are one retry and one dead letter; two rows
are an earlier and a later one, or two halves of a batch. Three requests are a
first one, a repeat and a conflicting one. Two requests of a phone are one that
read and one that overtakes it; rows of refresh tokens are used again once
pruned, so chains longer than two occur. Of three goroutines one is late, one
probes and one is refused. Pages of one row make every position of a cursor a
page break, and three rows can tie, precede and follow. Two of the offers are of
one owner, and what is near from one of the two points is far from the other, so
that best offers, order and circle all depend on who filled the page; one
widening is a first page in another circle than the second. `MaxDeclared`,
`MaxPayments`, `MaxRows`, `MaxMonth` and `MaxKept` bound what the code leaves
open. Only `key` and `server` turn the deadlock check off: all requests may be
over, and a process may have exited.

Fairness. `Run` of each sweeper comes back at a ticker, so a pass that can go on
goes on (WF). In `Orders` a step that passes come to again and again is carried
out in the end (SF on that step): failures and restarts are not the only thing
that ever happens. In `Outbox` and `Commission` the same is said as "from some
time on no fault": `Fault` holds the steps in which a process dies or a database
statement fails; a step that a healthy dispatcher could also take is no fault.
The sink is owed nothing, nor are users, writers and, in `Orders`, clocks. In
`Sessions` and `Server` a request in flight ends, because every call under it
carries the deadline of HTTP_TIMEOUT; in `Server` the timers of the shutdown
fire. In `Breaker` a goroutine goes on to its next atomic, the cool-down passes
and calls keep coming: a breaker nobody asks cannot close, and nobody would
notice. No fairness is put on signals, clients or the recovery of Redis.

## Findings

`oversell` is a violation run, and `PROJECT.json` quotes both sides:
`supplier_decline` and the `buyer_cancel` after it both release the stock.
`StockMatchesOrders` is therefore stated for orders that are not cancelled after
a decline.

Met while modelling, without a run of their own (paths below
`src/binno_backend`):

- `internal/modules/orders/repository.go:712`: `RecordEscalation` does not look
  at the order again, so an escalation may follow the supplier's answer.
- `internal/platform/messaging/outbox/dispatcher.go:400`: `recordFailure` updates
  by id from what its claim read; after a lapsed lease it can revive a dead
  letter. `InOrder` and `Delivery` count a row that was ever dead-lettered.
- The ledger row is stamped before its transaction, the statement's sums are read
  before the rows are attached, and a statement never changes: a row that commits
  after its month is attached to a statement that leaves it out.
  `StatementAddsUp` excludes months with such a row.
- `internal/platform/httpx/middleware_mutation.go:195`: neither the scoped key
  nor the fingerprint holds the resource of the path, so a key used with the same
  body for a second resource is answered from Redis with the bare 200 of the
  first: the second command is skipped, and its caller told of success.
  `internal/platform/database/dedup/receipt.go:3-6` says such a key "is reported
  as ErrKeyReuse rather than silently skipped", which holds only once Redis has
  lost the response. `SuccessIsTrue` therefore speaks of a replayed answer only
  where the key names one resource (`KeyNamesOneResource`).
- `internal/modules/identity/service.go:122`, `145`, `181`: POST /auth/* commits
  before it refuses, see Server. `AnswerIsTrue` leaves those refusals open.
- `internal/modules/search/store/queries.sql:98`: the refresh of a kept page is
  said to make it "exactly what a fresh SearchOffers would return". It re-checks
  offer, stock and store status alone; an offer that another one of its owner has
  undercut stays for the page's TTL. `PagesAreLive` says what is checked.
- `internal/modules/search/cache.go:26-41`, `service.go:127-146`: the callers of a
  cell share pages and cursors though their distances and circles differ, and the
  page after a widened one is searched in the default radius again. A steady offer
  may be skipped or given twice, although `cache_test.go:276` has it that "a
  cursor encodes a position inside one result set". `SteadyRowSeenOnce` is stated
  for walks that are not `mixed`, and is violated without that condition.
- `contracts/binno-openapi-v1.yaml:196-198`, `1122`: an explicit radius "is never
  widened" and is echoed. A caller who names the default shares its key with those
  who name none, and may be given a widened page and its radius.
- An outage of the sink counts against every row of a batch and may dead-letter
  healthy events; order across writers without a common lock is not kept.
- A sweep lists at most Batch orders, oldest first (`orders/sweeper.go:67`): an
  order that fails for ever keeps its place in every page.
- Mutation receipts are pruned by age (`dispatcher.go:344`): a retry later than
  the retention is a new request.
- The ClickHouse sink stops at a bad record of a batch it has partly appended.
- The drain context of the dispatcher is made at start-up
  (`cmd/dispatcher/main.go:138`).

## Proofs

Every safety property of a passing run, invariant or action property, is a
theorem: proved for arbitrary constants under the named assumptions of the
modules, from an inductive invariant. That is the types and the property itself
only in the few places where the text says no more; else it is stronger, and TLC
checked it on the run's instance first.

Orders (`OrdersProofs`):

- `TypeCorrect`, `StockStaysBounded`. The type invariant is inductive: stock stays
  natural because Release is guarded by the reserved quantity; bounds follow from
  the guards of reserve, consume and UpdateOffer.
- `InvoicesFollowOrders`, `PaymentsFollowOrders`, `RefundsFollowOrders`. None is
  inductive alone: an update by status changes every row that matches, so the
  invariant says which rows an order in each status can have at all (at most one
  current invoice, one live payment, one open refund), and for refunds also what a
  sweep that stands between its two transactions may assume (`BillingInv`). It is
  checked command by command through the table.
- `EndedStaysEnded`, `MoneyStaysRemembered` are action properties. `StepKinds`
  reduces a step to its order's command and the settlement that goes with it; no
  command begins in an ended status (`EndedIsClosedToCommands`), and `RowSteps`
  lists what a step can make of the rows of an order.
- `ClosedOrdersBilledOnce`. Inductive beside the types: `closed` has no way out,
  and the commands into it are the only ones that accrue.
- `OneEscalation`. `EscalationInv` ties events to receipts: an escalation is
  queued only with its receipt, and a receipt is never written twice, whatever
  list the sweeper holds.
- `QueuedItemsHaveWork`. The events of a command open and close the queue items
  as its edges enter and leave the review; that an overdue refund is there when
  its item is, and goes with it, is `BillingInv`.
- `StockMatches`. `StockInv` says that finitely many orders hold stock and that
  the refusal of an order that waits for the buyer is queued, so that its
  cancellation shows. A command moves one order into, within or out of the holding
  statuses, and the sum changes by its basket, as the offer's row does.
- `NothingOversold`. The claim that `oversell` refutes holds whenever no declined
  order was cancelled: the double release is the only way to oversell.
- `OrdersKeepTheTrade`. Orders implement `Trade`. `DealInv`, from the payment and
  ledger theorems, says that the rows tell of the money what the status tells of
  it; then each command is one turn of the trade or leaves it as it stands.

Commission (`CommissionProofs`):

- `FoundingFreeOrders`, `LedgerAccruesAsAsserted`, `StatementsAddUp`. `CommissionInv`
  has three parts: a close that has counted holds the owner's lock, so its count
  stands until it commits; a period in a dispatcher's list is over, and its sums
  are still right unless someone invoiced it or a row came late; a statement
  took every row its month had when it was stored.
- `RoundingAsAsserted`, `CommissionWithinLine`, about `Money`, by arithmetic.

API process, breaker and lists (`ApiProofs`):

- `SlotsStayHeld`, `AnswersAreTrue`, `CleanShutdownAnswered`. `ServerInv` says how
  the two goroutines of a request agree with each other and with the process: who
  holds a slot, who has written what, which answers a time-out may give. The slots
  taken are the cardinality of the requests admitted whose handler has not
  returned. `AnswersAreTrue` is about the middleware's refusals and those of a
  route of one transaction.
- `HalfOpenBreakerIsLeft`, inductive beside the types (`BreakerTypes`). Only `Swap`
  enters half-open and its goroutine then owes a store of "closed" or "open"; a
  goroutine that owes it keeps owing until it makes it, save the one that finds
  the breaker not half-open.
- `SteadyRowsAreSeenOnce`, `GivenRowsAreLive`. `ListsInv`: while all pages are of
  one circle, of the rows that did not change those given so far are exactly those
  listed in that circle that the cursor has passed; a page kept in Redis says the
  same, in its own circle, of the stretch between its two cursors. Ties are broken
  by id, so the order is total and After agrees with it. A row that a kept page
  gives against the query's filter was live but moved since (`RefreshedPages`).

The others:

- `RequestsProofs!KeyAppliesOnce`, `SuccessesAreTrue`. `KeyInv` makes the receipt
  the pivot: exactly its resource is applied once, and what Redis keeps is what
  that resource's transaction said. A bare 200 says nothing of whose it is; a
  replayed one is traced to the caller's resource by the condition that no request
  under the key named another. Redis keys may vanish at any step, which is why nothing is
  said about the reservation.
- `SessionsProofs!RotationsMakeAChain`, `GuessesAreCounted`,
  `CancelsSpareDelivered`. The chain needs that a token with a successor, or with
  one under way, is revoked: `RevokeIfActive` lets one request through and no
  later statement makes a row live again. Guesses need that every comparison was
  paid for with an INCR and stopped at the limit; the third that a request
  between its Redis commands and the gateway's answer has the cool-down to
  itself, so nobody else draws a code.
- `PartiesProofs!ClosesAsAgreed`, `RefundsAsDecided`, `FeedbackIsOfTheBuyer`. The
  invariant says what a check is still worth when the command is applied: the
  store and the buyer of an order never change, operators stay operators, a
  closed order stays closed. What was said by each side is then read off the
  status through the transition table.
- `OutboxProofs!MarksAreTrue`, `DeliveryIsInOrder`, `OutboxImplementsDelivery`.
  What a dispatcher holds may be stale in every respect but two: a claimed row
  stays committed, and what stood before it in an ordered aggregate was delivered
  or set aside and never loses that again (`Clean`). Everything in a task list and
  in the sink is clean, everything queued to be marked is in the sink, and of an
  ordered aggregate only the last row may be open. The refinement maps a commit to
  `Accept`, a send to `Deliver`, a dead letter to `SetAside`; the rest stutters.

Sums and counts over sets need induction over finite sets, and the library's
induction theorems take an operator as a parameter, which the provers here cannot
instantiate. `SumProofs` goes round it: of the subsets for which a claim about a sum fails one
is minimal (`MinimalSubset`, since strict inclusion is well-founded on them), and
taking one element from it is a contradiction. `SumWithout`, `SumIsNat` and
`SumRenamed` come from it, and the stock and statement theorems from those.

Only model-checked, because liveness under fairness and ENABLED are beyond the
prover: `UnansweredOrderEnds`, `UnpaidOrderEnds`, `LateRefundIsFlagged`,
`EveryEventSettles`, `EveryRowIsBilled`, `BlockEndsAuthority`, `ClosesForGood`,
`ShutdownEnds`.

## Not modelled

- SMS gateways and the order notifier: I/O. The gateway's answers are inputs of
  `Sessions`; a lost confirmation SMS leaves the app and the sweeper.
- Telemetry, logging, migrations, generated bindings beyond the statements the
  modules map: no state of their own.
- Configuration: parsing; only how the admission limit is derived is in `Server`.
- Catalogue requests: one row and one event each, no further life in this code.
- Decimal quantities (`Money.Multiply`) and the int64 range; the
  computation of a geographic distance: data. Distances themselves are constants
  of `Lists`.
- The ClickHouse sink: a store of its own with another duplicate rule.
- The start-up checks and the wiring of modules in both binaries.
- The mobile application: a user interface over mock data.

## Plan

Done: orders, stock, settlement and sweepers; parties; outbox; commission;
requests; sessions and codes; breaker; server; lists; a theorem for every safety
property that is checked.
Next, in this order:

1. More due orders than a sweep's page.
2. `Money`: Multiply and effectiveRateBps with a bounded integer range.
