# PolyMatrixEngine in TLA+

A verification project for PolyMatrixEngine, a market-making engine for Polymarket: TLA+ modules translated from
the source under `src/`, TLC runs that check them on small instances, and TLAPS proofs of what matters most for every
value of the constants. It covers the LIVE path from the market book to the books of account: the market data gateway, the
quoting engine, orders and reservations, the fill inbox, order reconciliation, the inventory ledger with its copy in memory,
the process and its engine supervisor, the sticky halt and the execution lease.

    tlc -workers 2 -config one_buy_crash.cfg MCOrderReconciliation   # model-check one run
    tlapm OrderReconciliationProofs.tla                               # check the proofs of one module

`PROJECT.json` lists the components, the runs, the lines every definition translates, the hazards and the theorems.

## 1. The system

One asyncio process per wallet. Postgres is the authority for orders, fills, reservations and inventory; Redis carries
books, control messages and fills between tasks; the Polymarket CLOB is reached over HTTP and two websockets.

| Component | State | Operations | Interacts with |
|---|---|---|---|
| **Order management** `oms/core.py` | row of `order_journal`; circuit breaker counters; one coroutine per call | `create_order`, `cancel_order`, `cancel_market_orders`, `CircuitBreaker.execute` | reserves before it journals, journals before it submits, settles the reservation last; halts on doubt |
| **Risk reservations** `risk/reservations.py` | `risk_reservations` rows, cached `portfolio_risk_state.reserved_buy_notional` | reserve (BUY against caps, SELL against shares), mark, release, fill, `rebuild_and_validate` | called by orders, fills, reconciliation and startup, each in its own transaction |
| **Fill inbox** `oms/fill_processor.py` | `fill_events` (RECEIVED, PROCESSED, FAILED), inventory and cash ledgers | `record_and_process`, `retry_unmapped` | fed by the user stream and by reconciliation, with the same deterministic id |
| **Order reconciliation** `oms/order_reconciliation.py` | nothing of its own between passes; writes order and reservation rows, `open_orders_reconciled` | `reconcile`: read facts, recover fills, read again, compare, apply, report | runs beside the order path, under a lock that only excludes a second pass |
| **User stream** `market_data/user_stream.py` | connection, readiness | `handle_fill`, `handle_cancellation` | fills to the inbox, cancels to journal and reservation |
| **Safety state** `core/trading_safety.py`, `core/safety_state.py` | in-memory `_halted` and readiness flags, durable halt | `halt`, `report_readiness`, `persist_halt`, `restore`, acknowledge | read by `create_order` before it starts, written by nearly everyone |
| **Execution lease** `core/execution_lease.py` | `execution_leases` row, `fencing_token` of the process | acquire, renew (loop, and twice in `create_order`), release | a lost lease halts the process |
| **Process lifecycle** `main.py` | which services run | `lifespan`, emergency halt, acknowledge, wipe endpoints | restore, reconcile, rebuild, then start trading |
| **Quoting engine** `quoting/engine.py` | `active_orders`, exposure mirrors, suspended/exit flags, trade lock | `on_tick`, `sync_orders_diff`, `place_orders`, `cancel_all_orders`, control and status messages | calls order management; fed by Redis |
| **Inventory state, watchdog, position reconciliation** | in-memory inventory mirror, kill switch latches | load, snapshot, reconcile, kill switches | mirrors the inventory ledger, suspends engines |
| **Accounting** `core/accounting.py`, `cash_accounting.py`, `accounting_integrity.py` | cash and inventory versions | pure updates, deterministic replay audit | inside the fill transaction; audit at startup |
| **Market data** `market_data/gateway.py`, `integrity.py` | local books with validity, subscriptions | seed, apply event, resync, freshness | publishes books to the engines |
| **Market lifecycle, auto router, exposure limits** | tasks per market, slots | start, stop, rebalance; limit functions | starts engines |
| **Paper execution** `oms/paper_execution.py` | resting paper orders | register, on_book | stands in for the venue in paper mode |
| Validation, configuration, alpha evaluation, dashboard, migrations | none that other tasks change | pure checks, offline statistics, presentation | |

### What is hard

* **Several transactions for one fact.** `create_order` is four transactions and an exchange call (reservation,
  journal, submit, outcome, reservation); a cancel is two. Fills, cancels, reconciliation passes and crashes may come
  between any two, and any of them may fail.
* **Ambiguity.** A submit that times out may have reached the venue. Capital must stay reserved, new risk must stop,
  and the ambiguity must survive a restart.
* **Stale reads.** A reconciliation pass reads local facts, trades, facts again and exchange orders at four
  moments, then applies verdicts about all of them in a fifth.
* **At-least-once delivery.** The same fill arrives from the stream and from REST, concurrently and repeatedly.
* **Derived state.** A cached total is maintained incrementally by eight transactions; readiness flags stand for
  facts that change behind them.
* **Two processes.** A lease with an expiry and a fencing token, over clocks and stalls.
* **Handlers that wait.** The engine decides from its table of orders, then awaits cancels and placements while those orders fill,
  its messages queue up and its task may be canceled.
* **Cancellation.** Stopping a market cancels its engine inside `create_order`; a stream session that fails cancels the periodic
  pass. `CancelledError` is no `Exception`: what stands between two awaits is simply not done, and nothing halts.
* **A supervisor of tasks.** Starts, stops, halts and dying tasks meet in one table; every one of them awaits.
* **Copies.** The inventory entry in memory is written by three coroutines around their commits, the Redis book by two; the wallet, the ledger and
  the fills each claim to be the position.

### What makes each component correct

Orders and reservations: budget is released only for shares the venue can no longer trade; real exposure stays in the
caps; a doubtful submission blocks new risk. Inbox: each fill is accounted once, and refused only over books that an unknown fee made unverifiable. Reconciliation:
readiness means reconciled; a pending cancel is eventually released. Safety state: only an operator of a flat, disabled process ends
a halt. Lease: one holder, one owner per token. Engine: no quote it placed is forgotten, nothing is quoted after suspend or exit, an exit ends.
Supervisor: one engine for a token, and a stopped market stays stopped. Ledger: verified books are the replay of their fills, unverified books block new
risk once their handler is through, the copy is current up to a fill still to be applied, drift and excess are noticed. Market data: a trusted book is the venue's, and an invalid one is seen.

## 2. The modules

    MarketData                the gateway: stream consumer, monitor, REST resync, Redis      (+ MarketDataProofs)
    QuotingEngine             one engine task, its orders and its messages                  (+ QuotingEngineProofs)
    OrderLifecycle            create_order, cancel_order, reservations, inbox, venue, crash  (+ OrderLifecycleProofs)
      OrderReconciliation     EXTENDS it with the reconciliation pass                       (+ OrderReconciliationProofs)
    InventoryLedger           fills, position pass, copy in memory, exposure check, start    (+ InventoryLedgerProofs)
    ControlPlane              the process, its endpoints and the engine supervisor           (+ ControlPlaneProofs)
      StickyHalt              abstract: what the halt promises; ControlPlane refines it
    ExecutionLease            the lease row and its processes                               (+ ExecutionLeaseProofs)
    DataInduction             induction over a set of naturals; a sum over a finite set as a count of units
    MC*                       instances for TLC

The modules meet at what one component sees of the other. `QuotingEngine` reduces the order path to the outcomes `create_order` and `cancel_order`
can have, which `OrderLifecycle` derives; `ControlPlane` reduces an engine to a task that makes its market's journal unresolved and ends some time
after it is canceled, which `QuotingEngine` details; `InventoryLedger` reduces an order to its admission and its one fill. A definition
under "Mutant:" is not part of any model; it is a plausible bug that a run must catch.

### OrderLifecycle

One action for each committed transaction or exchange call, so that anything may happen between two of them.

| Variable | Code |
|---|---|
| `journal[o]` | `OrderJournal.status`, whether the row has an `exchange_order_id`, `payload["filled_size"]` |
| `resv[o]` | `RiskReservation.status`, `remaining_size` |
| `cached` | `PortfolioRiskState.reserved_buy_notional` |
| `shares[m]` | `InventoryLedger` exposure, and its cost basis at one unit a share |
| `event[l]` | `FillEvent.status` |
| `haltDb`, `halted` | `trading_control_state.halted`, `trading_safety._halted` |
| `openOk`, `riskOk` | readiness `open_orders_reconciled`, `risk_reservations` |
| `venue[o]`, `trade[l]` | external: the order in the matching engine, the settlement of each of its shares |
| `task[o]`, `outcome[o]` | where a `create_order` coroutine stands, and its `api_status` |
| `cancel[o]`, `marking` | a `cancel_order` coroutine with the payload it read; handlers that closed the journal row and have not marked the reservation |
| `accounting` | `record_and_process` calls between their two transactions |
| `phase` | `lifespan`: down, boot (startup pass), rebuild, run, held (started halted) |

`create_order` is `Admit` (blockers, read once), `Reserve`, `JournalPending`, `Submit`, one of the `Submit*` replies,
`PersistOutcome`, `SettleReservation`, with a failure action for each: `ReserveFails`, `JournalFails` and
`ReleaseUnjournaled`, `NotSubmitted`, `SubmitAmbiguous`, `PersistFails` and `MarkUnpersisted`, `SettleFails`, and `AbandonCreate` wherever a canceled engine leaves it (task `abandoned`). A cancel is
`CancelSend`, then `CancelConfirmed` or the unlocked read `CancelFoundMatched` and its write-back `CommitMatched`, then
`MarkCancelPending` or `MarkMatchedUnknown`; the stream's cancel event is `StreamCancel` and shares `MarkCancelPending`.
The inbox is `RecordFill`, then `ProcessFill`, `FailFill` or `AbandonFill` (canceled, or failing twice). `FillAccepted` is what the fill transaction
checks: `FillFits` (order, reservation, shares) and `Verified`, the ledger's accounting version, which a fill outside `FeeKnown` spoils for the rest of
its market. `FlagFee` is the halt such a fill raises some time after its commit, or never.

Data abstraction: all orders share one price tick, so a share costs one unit; a market has one token; an order is a set
of one-share *lots*, and the lot is also the deterministic id of its fill event. Partial fills, notional against caps
and the identity of redelivered events are all kept by this.

### OrderReconciliation

`BeginPass`, `ReadTrades`, `RecoverFill` (repeated), `FinishRecovery`, `LoadFacts`, `FetchOrders`, `ApplyReport`,
`FinishPass`, `FailPass` for any exception, and `CancelPass` with `StreamDown` for the session that fails and cancels the pass. The variables `known`, `todo`, `unsettled`, `facts`, `book` are the local
variables of `_reconcile_locked`: what was read and when. `Verdict` is `reconcile_order_facts`, decision by decision;
`JournalAfter`, `ResvAfter` and `ReservedAfter` are `_persist_and_apply`. `Next` lets every action of the order path happen between
any two of these, and a crash take the pass with it. In phase `boot` the pass is the startup reconciliation; with
a durable halt it is skipped, as `lifespan` skips it.

### ExecutionLease

Postgres row, fencing token, the renewal loop, the two renewals `create_order` makes, release at shutdown, crash, and a
clock. `Wipe` deletes the row; with `WipeLive` also beside a live process, which the endpoint does not look for. `granted[p]` is what process `p` was last told. The renewal that clears an order and the submit are separate
steps: between them the process may stall.

### QuotingEngine

| Variable | Code |
|---|---|
| `pc`, `job` | where `run` stands: waiting for a message, in the gather of `cancel_all_orders` or `sync_orders_diff`, in `place_orders`; and for whom |
| `active` | `active_orders`, a dictionary in insertion order |
| `flags` | `suspended`, `exit_mode`, `_shutdown_requested` |
| `anchor` | `last_anchor_mid_price` |
| `inbox` | control and order status messages on the Redis subscription, not read yet |
| `pending` | the pending BUY notional reported to `inventory_state` |
| `order[o]` | a journal row, the order at the venue, its fills and which are booked |
| `inventory`, `contracted` | what the snapshot says of this token, and whether a limit outside it forbids BUYs |
| `safety` | `_halted` and readiness `open_orders_reconciled` |

A message is handled to its end before the next (one loop, one lock), so a handler is a chain of actions: `OnTick`, `OnMessage` or
`OnFault` starts it (or cuts it short, once the calls it awaited have returned), `CancelReturns` and `CreateReturns` are the awaited calls in any order, `CancelsDone` and `PlacesDone` what follows the gather.
Fills, expiries, the stream's cancels, reconciliation passes and control messages come between. `StopTask` is the supervisor canceling the task at
any await. What a tick brings (usable or not, priced or not, fair value, whether a SELL can be priced and a BUY has an edge, whether orders are
old enough to replace) is an input, so pricing is left out and `sync_orders_diff` is kept decision by decision in `Diff`.

### ControlPlane and StickyHalt

`mode`, `closing`: `lifespan`. `halt`: `_halted`, the control row, persistence tasks on their way. `engine`: `engine_tasks`, with `ghosts` counting
running tasks the table lost. `marks`: the exit marks scheduled by the cleanup callback. `call`: the coroutine of each endpoint call or kill switch,
separated where it awaits: start is lock, preflight, commit, launch; stop is suspend, cancel, tasks, wait, status; the emergency halt does the
same for each market, and suspends and stops those that ran when it took its snapshot. `books`: whether a market has unresolved rows or inventory. `quiet` is an observer of the property, not code.
`StickyHalt` has five variables and says: a halt blocks at once and is stored later, a start restores what was stored, only an acknowledgement in a
process that cannot trade, with flat books, ends it. The refinement maps its `blocked` to "in memory, or about to be stored"; `ImplementsStickyHalt` is checked as
a temporal property, with crashes and failing stores. An acknowledgement that meets a late store of the same halt ends the block and leaves the stored
halt for the next start: `StickyHalt` allows it, as it errs on the safe side.

### InventoryLedger

`ledger`, `event`, `order`, `categorical` are durable; `chain` is the wallet; `mirror` is the entry of `inventory_state`, `recent` the buffer of the
last local fill; `handler[h]`, `pass`, `load`, `check` are the coroutines with what each has read. A fill is `Receive`, then one
transaction (`FillCommit`, or `FillCommitRaises` when the commit takes effect and its answer is lost, or `FillRefused`), then `FillApply` to the copy, then
`Publish` to Redis and to the flags. Each of these may raise (`MarkFailedRaises`, `FillApplyRaises`, `PublishRaises`) or be canceled (`HandlerCanceled`), and what
came after it is skipped. `cut` is a history variable: the fills whose handler ended so in this process, and where; no action reads it. The position pass reads the wallet token by token, then locks the ledger (fills wait while it holds it), compares, defers
or overwrites the copy and then the row. `Replay` is the deterministic replay of `accounting_integrity.py`, a recursive function over versions; it is at once what the
audit of a start computes and the reference that `BooksReplay` compares the ledger with. Money is in ticks with integer division; an order has one fill.

### MarketData

One asset. `venue` counts the changes made at the exchange, `stream` is the SDK's connection with its bounded buffer, `local` is `LocalOrderbook`
(levels, validity, resync flag, freshness, cursor), `ob` and `tick` the Redis key and the last message on the channel, `notice` the last
invalid notice, `job` where the consumer and the monitor stand. Every publication is several actions, so the two may overtake each other. Which of the
stream and the REST replies carry sequence numbers is chosen in `Init`: both, the stream alone, or neither. A tick size, a malformed event and a trade (`OtherEvent`)
are no change of the book but reach it; an empty REST reply leaves the book alone (`RestEmpty`). `market_constraints` in Redis is left out: nothing in the gateway
reads it, and its failing write is `RedisFails` at `obValid`.

## 3. The runs

"Pass" runs:

| Run | Instance | States | What it shows |
|---|---|---|---|
| `one_buy_crash` | one BUY of 2 lots, cap 2, one crash, every fault | 1 536 000 | `Covered`, `AccountedOnce`, `FillsAccepted`, `CachedTotalExact`, `RealExposureBounded`: in every interleaving of submit, cancel, fills from both sources, passes, cancellations of engine and stream session and a crash, no budget is freed that the venue can still use, each fill is accounted once, none is refused for want of room, reservation or shares, the cached total is exact. `UnattributedBlocksNewRisk`, `OrphanBlocksResume`: what a crash, a canceled or an ambiguous submit leaves blocks new risk, also after a restart |
| `two_buys` | BUYs of 2 and 1 lots in two markets, one with an unknown fee, global cap 2, every fault | 67 000 | `BookWithinCap`: racing admissions never book more than the cap in the order path alone; `CachedTotalExact` |
| `two_sells` | a BUY of 1 lot, two SELLs of it, one with an unknown fee, faults of fills, engine and stream | 760 000 | `RealExposureBounded`, `FillsAccepted`, `AccountedOnce` for SELLs: inventory is never sold twice, and a fill is refused only after an unknown fee of its market |
| `cancel_released` | one BUY of 2 lots, engines may be canceled, fair | 533 000 | `CancelReleased` (liveness): the reservation kept after a confirmed cancel is released by a later pass |
| `lease` | 3 processes, TTL 2, clock to 4, tokens to 3, wipes while none lives | 15 000 | `OneHolder`, `FenceNamesOwner`, `ClearedUnderNewestFence` |
| `engine` | 2 orders of 2 units, one level, one fair value, every command and fault, two starts | 2 003 000 | `IdleKnowsQuotes`, `SuspendedIsQuiet`, `CleanExit`: whatever cancels fail, answers are lost, statuses are missed or tasks are stopped, the engine knows its quotes between handlers, and none is left by a suspend, a fault or a graceful exit, or trading is halted |
| `engine_exit` | 2 orders of 1 unit, two fair values, a failing venue, fair | 248 000 | `OneQuotePerLevel`, `PendingCoversBuys`; `ExitRemovesBuys` (liveness) |
| `control` | one market, two tokens, two calls at a time, all modes, two starts, every fault | 835 000 | `OneEngine`, `QuietAfterStop`; `ImplementsStickyHalt` (refinement) |
| `ledger` | one token, a BUY of 2 and a SELL of 1, the SELL's fee unknown, two handlers, one fault of ten kinds, one transfer | 2 757 000 | `BooksReplay`, `IncompleteBooksBlock`, `MirrorCurrent` |
| `ledger_live` | two tokens, one handler, the exposure check instead of the engine's load, fair | 555 000 | `OverLimitHalts`, `DriftHalts` (liveness) |
| `market_data` | two changes, after the second the venue's book is crossed; buffer of one; one fault; numbers on both ways, on the stream alone, on neither; fair | 755 000 | `ExactAtCursor`; `BookHeals`, `InvalidIsSeen` (liveness) |

One "violation" run refutes a statement the repository makes of itself:

| Run | Property | What happens |
|---|---|---|
| `pending_forgotten` | `PendingReleased` | `create_order`'s late `mark_unknown` overwrites CANCEL_PENDING_RECONCILE on a closed journal row; no pass looks at the order again and its capital stays reserved (`core.py:487`) |

### Statements that do not hold

These definitions are in the modules, each with the line it comes from. TLC refutes each of them on instances of these sizes; they are
listed here rather than kept as runs, and two have a configuration of their own to see it with (`tlc -config fee_missing.cfg MCInventoryLedger`,
`tlc -config lease_wiped.cfg MCExecutionLease`). The steps that lead there are part of every run of the module, so the properties that pass do so in spite of them.

| Definition | What happens |
|---|---|
| `OrderLifecycle!BookWithinCap`, in `OrderReconciliation` | With passes, the cap holds only in the order path (`two_buys`). A pass reads an order open, its fills are processed, the pass applies OPEN_CONFIRMED with what it read: the consumed reservation is back beside the cost basis (`order_reconciliation.py:805`). Over-reserved, never under (`ReservationsCover`), until a later pass |
| `OrderReconciliation!ReadyMeansReconciled` | `create_order` makes an order UNKNOWN and drops `open_orders_reconciled`; a pass that read before raises it again (`:888`) |
| `OrderReconciliation!InFlightIsNotSticky` | Trades are read before orders; what matches in between makes a sticky incident (`:427`, against 276-279) |
| `OrderReconciliation!HaltSurvivesRestart` | `halt()` schedules its persistence; a crash first loses it (`trading_safety.py:251`). `StickyHalt!End` therefore allows it |
| `OrderLifecycle!FilledExact` | `cancel_order` writes back a payload it read without a lock; a fill in between vanishes from `filled_size` (`core.py:605`) |
| `ExecutionLease!SubmitterHolds` | A stall between renewal and submit longer than the TTL; the token is not part of the request (`core.py:337`) |
| `QuotingEngine!ContractionActsOnNextTick` | The debounce compares fair values only, so a contraction with an unmoved price leaves the BUYs (`engine.py:739`, against 1249) |
| `QuotingEngine!StoppedLeavesNothing` | A task canceled inside `create_order` leaves an order it never tracked (`market_lifecycle.py:67`) |
| `InventoryLedger!MissingFeeHalts` (`fee_missing.cfg`) | "Missing fee inputs ... halt new live risk" (`README.md:21` of the repository). The publication between the commit of such a fill and its flag and halt raises or is canceled (`fill_processor.py:343`): both are skipped, a redelivery is a duplicate, and new risk goes on until the next fill of the market is refused or the process restarts. `IncompleteBooksBlock` is what is left of the promise: only a handler still at that fill, or cut off there in this very process, stands between such books and the halt |
| `ExecutionLease!OneHolder` with `WipeLive` (`lease_wiped.cfg`) | The wipe of a disabled process deletes the row under a live holder (`main.py:859`), and a second process acquires it anew, token 1 |
| `InventoryLedger!NoDirtyOverwrite` | The wallet is read before the lock, so a fill that settles in between is overwritten (`watchdog.py:384`) |
| `InventoryLedger!ReduceOnlyKnowsBooks` | After an overwrite both reduce-only flags stand until the next start (`trading_safety.py:290`) |
| `MarketData!InvalidIsTold` | A valid tick under way is delivered after the invalid notice, which is not repeated (`gateway.py:488`); the key and the flag are right |
| `MarketData!ExactAtCursor` with numbers in the stream alone | The first delta after a seed without a number sets the cursor, whether or not deltas are missing (`integrity.py:83`); the resync heals it (`BookHeals`), and `ExactAtCursor` asks for numbers on both ways |
| `MarketData!TrustNeedsSnapshot` | A `tick_size_change` marks a book healthy that waits for a snapshot (`gateway.py:333`, against 212) |

### Bounds, and why they are enough

* *Orders and lots.* A hazard of one order needs a partial fill, so 2 lots; a race for a cap or for inventory needs two
  orders that do not both fit. `one_buy_crash` has one order because each order multiplies the states by its own task, cancel and
  venue; admission, the one place where orders meet, is in `two_buys` and `two_sells`. The theorems have no such bound.
* *Crashes.* `MaxCrashes = 1`. A crash resets the process to the same state whatever was before; the durable rows
  it may leave are those of one crash. `ReservationsCover` is proved for any number.
* *Faults* names the steps that may fail and the tasks that may be canceled; every run keeps the successful outcome possible. `"settle"` (a release
  that fails after a failed journal insert) and `"engine"` (a canceled `create_order`) leave an active reservation without a journal row in a process that goes
  on; `OrphanBlocksResume` speaks of the next one, and says whose such a reservation may be in this one (task `unjournaled` or `abandoned`).
* *Fees.* `FeeKnown` is all lots of `one_buy_crash`, so that fills are not refused there and the faults do the harm; in `two_buys` and `two_sells` one lot's
  fee is unknown. That a restart over an unverified ledger halts (`Restart`) is in the proofs, which have every `FeeKnown`, and in `ledger`.
* *Time.* The lease run's clock stops at 4 with a TTL of 2: two successive takeovers, each with a late renewal.
* *Liveness* of `cancel_released` is without crashes and failing passes: a pass that may always fail never has to release anything.
* *The engine.* Two orders are the stale one and its replacement; the second start meets what the first left. Lot 2 in `engine` makes partial
  fills and dust; Lot 1 and two prices further apart than the threshold in `engine_exit` make the diff replace, keep and sell.
* *The control plane.* Two calls at a time: any pair of start, stop, halt, kill, acknowledge. One market, as the endpoints of two markets share only
  the halt; two tokens, so that one task may be gone and the other not.
* *The ledger.* One fault from ten kinds, placed anywhere; two handlers race for the row lock and for the copy. The caps are chosen so that
  the BUY alone fits the binary cap and exceeds the categorical one. In `ledger` an order has one fill and one token suffices; `ledger_live` has both tokens.
* *The gateway.* Consumer and monitor; the snapshot fetch of a starting market is the same handler as the monitor's (as a third process it
  makes 9.4 million states and no new kind of step). Two changes of the book give old, next and gap; a buffer of one drops.
  `market_empty.cfg` is the same instance over a book that empties (121 000 states, without numbers): `BookHeals` holds there too, by the aging of the book that
  REST no longer replaces.
* Liveness of `ledger_live`, `market_data` and `engine_exit` is with faults, a bounded number of them or of a kind the property allows for.
* `CHECK_DEADLOCK FALSE`: a process that is held after a halt, a bounded clock and orders that are all done are legitimate ends.

### Fairness

`FairSpec` of `OrderReconciliation` assumes weak fairness throughout: a started `create_order` coroutine, a
handler about to mark a reservation, and a fill handler go on (the event loop runs ready coroutines); the periodic
pass comes round and finishes (`run` loops forever); a process that is down is restarted; the venue settles a
matched trade one way or the other. Nothing obliges the engine to send an order or a cancel, the stream to deliver, the
venue to accept or cancel, or the halt to be persisted. `CancelReleased` also assumes that cancel confirmations stop coming: each of
them may re-mark the reservation.

`FairSpec` of `QuotingEngine`: the handler goes on, venue calls return (they have timeouts), an accepted or refused request is settled. Reading the
subscription and handling a usable tick are strongly fair: the loop returns to the queue after every handler, so a message
that is there again and again is read, and usable books come again and again. Nothing forces a cancel to be confirmed.

`FairSpec` of `InventoryLedger`: a coroutine that can go on does; the position pass and the exposure check come round (both loop with a
sleep); the buffer of a recent fill expires. Settlement, transfers and restarts are not forced.
Fairness of a handler asks only that it takes its next step while it exists: a canceled one (`HandlerCanceled`, no part of `Handle`) and one that
raised take none. `OverLimitHalts` therefore speaks of markets whose last fill reached memory: the monitor sums the entry there, and a fill cut off before it
is missed until the next one.

`FairSpec` of `MarketData`: the consumer, the monitor and their publications go on; the REST resync falls due again and again (strong fairness, since
the monitor is in other steps in between); a book ages while the venue's is empty, since nothing renews it. The venue need not move, the stream need not reconnect.

## 4. The proofs

Every invariant, action property and refinement that a passing run checks is also a theorem about its module, for every value of the constants that satisfies the
named assumption of that module, which TLC evaluates on every run:

| Assumption | What it asks |
|---|---|
| `ConstantsAssumption` (orders) | finitely many lots, orders and markets; each lot of an order, each order of a side and a market; natural caps and inventory |
| `LeaseAssumption` | a positive TTL |
| `EngineAssumption` | natural bounds, prices and thresholds; a positive lot and at least one level |
| `ControlAssumption` | at least one market and one token |
| `LedgerAssumption` | fills of a positive size at natural prices and fees; natural caps and bounds |
| `MarketDataAssumption` | the venue's moves are a sequence of level changes; natural bounds |

Five theorems have a further hypothesis, each in its statement. `BookHolds` and `ExposureHolds` assume `InitialWithinCaps`: a process that
starts over its caps stays over them until it sells. `FenceNamesOwnerHolds`, `ClearedUnderNewest` and `OneHolderHolds` assume `~WipeLive`: no wipe deletes the lease
row beside a live process; the last one also assumes `DistinctOwners`. All others hold for every choice of faults and cancellations.

| Theorem | Statement |
|---|---|
| `OrderReconciliationProofs!TypeCorrect` | `Spec => []TypeOK` |
| `OrderReconciliationProofs!ReservationsCover` | `Spec => []Covered` |
| `OrderReconciliationProofs!InventoryExact` | `Spec => []AccountedOnce` |
| `OrderReconciliationProofs!CachedExact` | `Spec => []CachedTotalExact` |
| `OrderReconciliationProofs!ExposureHolds` | `InitialWithinCaps => (Spec => []RealExposureBounded)` |
| `OrderReconciliationProofs!RefusedForFeesOnly` | `Spec => []FillsAccepted` |
| `OrderReconciliationProofs!UnattributedHolds`, `OrphanHolds` | what a crash, a canceled or an ambiguous submit leaves blocks new risk |
| `OrderLifecycleProofs!LifecycleCovered`, `BookHolds` | `Covered` and `BookWithinCap` of the order path alone |
| `QuotingEngineProofs!TypeCorrect`, `KnowsHolds`, `SuspendedHolds`, `ExitHolds` | types; the engine knows its quotes; none after suspend or exit |
| `QuotingEngineProofs!LevelsHold`, `PendingHolds` | `OneQuotePerLevel`, `PendingCoversBuys` |
| `ControlPlaneProofs!TypeCorrect`, `OneEngineHolds`, `QuietHolds` | types; one engine for a token; a stopped market stays stopped |
| `ControlPlaneProofs!HaltRefinement` | `Spec => ImplementsStickyHalt` |
| `InventoryLedgerProofs!TypeCorrect`, `BlockHolds`, `MirrorHolds`, `ReplayHolds` | types, `IncompleteBooksBlock`, `MirrorCurrent`, `BooksReplay` |
| `MarketDataProofs!TypeCorrect`, `BookExact` | types, `ExactAtCursor` |
| `ExecutionLeaseProofs!TypeCorrect`, `FenceNamesOwnerHolds`, `ClearedUnderNewest`, `OneHolderHolds` | the lease invariants and the action property |
| `DataInduction!SetInduction` | a set of naturals with 0 and with every successor is all of them |

### Orders and reservations

**`ReservationsCover`.** `Covered` says that what an order may still trade (`Claim`) is at most what its reservation
holds. It is not inductive: three actions free budget, and each needs a reason.

* A *release* (`SettleReservation`, `ReleaseUnjournaled`) is safe because the order is not at the venue: `NotSentYet` (the venue does not know an
  order before `Submit`), `FailedNotAtVenue` (an order is only called FAILED when the venue does not have it) and
  `TradesAtVenue`. A timeout counted as a rejection would break `FailedNotAtVenue`.
* A *fill* takes one share off both sides because the event it processes is a confirmed trade that is not accounted yet: `InboxOpen`,
  `EventConfirmed`.
* *Applying a report* writes rows from reads that may be arbitrarily old. What they still guarantee is `PassInv`: a filled
  size that was read is a lower bound of what is accounted now (`FactsBound`), and a canceled order trades no more (`CanceledBook`).
  A verdict that frees budget requires `matched = filled`: then `filled <= |Accounted| <= |Matched| <= matched` closes for a
  canceled order, and for an open one the rest of the order covers everything not accounted. `FilledBound` (the filled size of a row, or
  the copy a `cancel_order` will write back, never exceeds what is accounted) carries `FactsBound`; this is why the lost
  update (`FilledExact`) harms readiness and not the budget.

`LInv` (types, the venue and inbox facts, `FilledBound`, `Covered`) is kept by every action of the order path, `IInv`
adds the pass; the order path is `Monotone` (what is accounted stays, a confirmed trade stays confirmed, a canceled order stays
canceled), which is what keeps stale reads useful. `LInv` and `IInv` were model-checked on the instances above, with every fault, before they were proved.

**`InventoryExact`** needs only that a handler past its insert finds its row RECEIVED, which `InboxOpen` states and
the per-lot guard of `InsertReceived` keeps.

**`CachedExact`.** The cached total is maintained by eight transactions, each of which changes one row; the sum must change as the row does. Whether a row counts
depends on its journal row and its exchange id, so `AllLinked` ties the tables together (a coroutine past its insert has a row, an exchange
id has a row) and `FactsLinked` says the same of what a pass has read. `CachedHeld` is then the invariant: `cached = HeldSum("BUY", Orders)`.

**Sums.** The library's induction theorems take a predicate as a parameter, which the provers cannot instantiate. `SetInduction` states induction of a *set*
of naturals instead, by the least element of its complement. With it `SumIsCount` shows that a sum over a finite set is the cardinality of its
set of units (`UnitsOf`), after which sums are reasoned about as finite sets: `SumMonotone`, `SumChange` (one summand changes), `SumInjected`
(a sum that an injection embeds in another one is at most it), `SumBounded`.

**`ExposureHolds`, `RefusedForFeesOnly`, `BookHolds`.** Real exposure is the capital held plus the claims of the BUYs (`BuyBounded`), and for SELLs the claims against
the shares (`SellBounded`). Only an admission raises a claim, and it compares the caps with the reservations, which bound the claims by `Covered`. A fill moves one unit
from claim to inventory. `SellBounded` is why the fill transaction of a SELL always finds its share;
the accounting version is the one check of the transaction that a fill may fail, and then by an earlier fill of its market (`Verified`). `BookBounded` is the same argument over what
the ledger itself counts; it holds in the order path alone, without crashes, since a pass may restore a consumed reservation (see `BookWithinCap` above).

**`UnattributedHolds`.** `Blocked(o)` lists what keeps new risk away while an order has no exchange id: the halt, a process that is down, a report about to halt,
or missing readiness. Only a report restores readiness, and one in the making has read the row without exchange id, so it finds the order sticky.
`RepliedHalted` (an ambiguous submit halts before its outcome is stored) and `DownQuiet` give it its start.

**`OrphanHolds`.** A reservation without its row is one that a `create_order` of this process is about to journal or to release, or gave up (`abandoned`), or one
that an earlier process left while this one does not trade yet. A crash ends every task, so whatever was abandoned is of the second kind after it; leaving that state
takes a rebuild, which refuses while there is one.

### The quoting engine

`Core` holds until the process halts. A quote the engine does not track must have come from somewhere: a lost answer, a failed store or a match, all of
which halt; or a task stopped inside `place_orders`, whose rows the next bootstrap reads back. An order leaves `active_orders` only when the venue
has closed it: `MessageInv` says a status message is about an order that is over, `GatherInv` that a confirmed cancel is. `TrackInv` says
between which awaits the table is complete, `QuietInv` adds what suspended and stopping tasks may not be doing. `KnowsHolds`, `SuspendedHolds` and `ExitHolds` follow.

`TableInv` holds in every state: an entry of the table covers what its order can still trade and an order has one entry (`ListInv`), orders being placed
are not in it (`Placing`), closed orders are booked when readiness says so (`CaughtUp`), and the budget pays for every BUY that is owed (`Funded`).
`PendingHolds` then embeds the live BUYs into their entries (`SumInjected`): the pending notional was computed from the entries the engine had between handlers.

`LevelsHold` needs the diff itself. `LevelInv` says that the BUYs out, without those a gather is known to have closed, fit the grid together with those
wanted. `Diff` folds `sync_orders_diff` over the table; `DiffFits` unfolds it position by position (by `SetInduction`) to show that what one
pass keeps and what it asks for never exceed the levels. That replacements wait for every stale quote to be confirmed closed does the rest.

### The control plane

`TableInv`: a start past its lock is alone in its market (`LockInv`) and has found no task of it (`StartInv`), so that `launch` replaces nothing
(`OneEngine`); a quiet market has neither a task nor a start under way (`QuietInv`). `ModeInv`: nothing survives the process (`OffInv`), an
acknowledgement runs where nothing trades and over flat books (`AckInv`), and a halt still to be stored has left memory only through one (`StoreInv`).
`HaltRefinement` maps the initial state, then each action, to a step of `StickyHalt` or a stutter; `AckInv` and `StoreInv` are what the
acknowledgement's step needs.

### The ledger

`BlockInv`: incomplete books in a process that trades have a handler on its way to halt it. `MirrorInv`: a row in memory is the committed one or older, and
an older one has a handler that holds the committed one or will halt; versions only grow, so a late copy is recognised. `LockInv` says the row under the
pass's lock is the committed one.

`ReplayHolds` follows `Replay`, a recursive function over versions. `ReplayInv`: while the ledger calls itself v2, versions are contiguous, no two fills share one
(`OneEach`), and the row is the replay at its version. A new fill changes no earlier value of the replay, which is an induction over the versions.

### Market data and the lease

`CursorInv`: with sequence numbers, every book that does not wait for a snapshot, trusted or not, is the venue's book at its cursor (`Exact`); `Cursor` says when there is one.
The trusted book is the special case; only this stronger form is kept by an event that invalidates a book and one that heals it.

The lease row holds the largest token, and whoever holds that token has the row's owner id (`FenceInv`, without any
assumption on owner ids). With distinct owner ids an unexpired grant is the row's current one (`GrantInv`); two of them are one.

### Only model-checked

The six liveness properties: `CancelReleased`, `ExitRemovesBuys`, `OverLimitHalts`, `DriftHalts`, `BookHeals`, `InvalidIsSeen`. They rest on fairness, hence on
`ENABLED`, which the prover does not reason about. TLC also decides the statements that do not hold; those have no proof by nature.

## 5. Not modelled

* **Auto router**: a sequential loop that scores markets by floating point statistics and starts or drains them through the start and graceful exit that
  `ControlPlane` and `QuotingEngine` admit from any caller at any time.
* **Paper execution**: replaces the venue in paper mode and never touches live state; the venue of the models is external anyway.
* **Pricing, quote economics, exit policy, alpha evaluation, evidence, fingerprints**: stateless floating point arithmetic and file hashing.
* **Circuit breaker**: one more cause of `SubmitAmbiguous`; its counters are sequential.
* **Dashboard, validation, configuration, admin authentication, migrations, scripts**: presentation, pure checks, sequential I/O.
* Of the modelled components: `retry_unmapped`; the user stream's connection and geographic eligibility (each one more readiness flag in the same
  conjunction); reported costs in the position pass; several assets in one gateway; notional at different prices in `OrderLifecycle`. A database error inside the
  fill transaction is `FailFill` or `FillRefused`; a deadlock between transactions appears as one of the two failing, which is what Postgres does.

## 6. What is left

* Hazards without a property are in `PROJECT.json` with the reason; most are the subject of a statement that does not hold, or of a part that is not modelled.
* Liveness stays with TLC. The safety half of an argument for it could be proved: that a pending cancel stays visible to passes until one releases it.
* No module declares a RECURSIVE operator, so that every one of them can be proved about; a new property starts as an invariant of a run, with its
  inductive strengthening beside it, and becomes a theorem afterwards.
