# Formal models of the intraday trading engine

TLA+ modules, TLC runs and TLAPS proofs for the Python service under `src/app`:
a FastAPI process that asks strategies for recommendations, trades them
automatically, and keeps the books of a simulated ("paper") account. Everything
that trades runs in one process on one asyncio event loop.

* [1. The system](#1-the-system)
* [2. Modules and the code they model](#2-modules-and-the-code-they-model)
* [3. Runs](#3-runs)
* [4. Where code and documentation disagree](#4-where-code-and-documentation-disagree)
* [5. Proofs](#5-proofs)
* [6. Abstractions and what is not modelled](#6-abstractions-and-what-is-not-modelled)
* [7. What could come next](#7-what-could-come-next)

Run a model with `tlc -config PaperEngine.cfg MCPaperEngine` (the run names, modules and
configurations are in `PROJECT.json`), and check the proofs of a module with
`tlapm PaperEngineProofs.tla`; the other modules with theorems are `SumTheorems`,
`AutoTradingProofs`, `OptionProofs`, `BrokerProofs`, `ApplicationProofs`, `ChainProofs` and
`BacktestProofs`.

## 1. The system

| Component (`src/app/`) | State | Operations | What makes it correct |
|---|---|---|---|
| Paper order manager `paper/order_manager.py` | orders by id, reservation per order | place, cancel, modify, process_price_update, reset | one final status per order, limits honoured, OCO legs exclusive, holds match resting buys |
| Cash ledger `paper/portfolio.py` | cash, reserved cash, realized P&L, capital | debit, credit, reserve, release, record P&L, reset | never negative, reserved is the sum of the holds |
| Positions `paper/position_manager.py` | FIFO lots per symbol, mark, P&L since open | apply_fill, update_last_price, reset | net of fills, lots on one side, P&L of each close right |
| Paper engine `paper/engine.py` | trade history | place, cancel, modify, update_price, reset | money conserved, history explains P&L |
| Paper broker `paper/broker.py` | streaming task | BrokerInterface over the engine | errors mapped, no state of its own |
| Auto equity trading `auto/orchestrator.py` | task handle, stop event, tracked positions | start, stop, emergency_stop, one loop cycle | tracked = held, one loop, stops work, limits and square-off |
| Risk gate `auto/risk.py` | day, trades, P&L, losing streak, cooldown | check, record opened, record closed, reset | limits and cooldown cannot be evaded |
| Options auto-trading `options/auto_trading.py`, `options/paper_trading.py`, `options/risk.py`, `routers/options.py` | task handle, tracked option positions, day's P&L | enter, exit, loop cycle, start, stop | exposure, position and loss limits; bought = watched; nothing written |
| Option chain and selectors `options/*` | cached chains, cached spot symbols | get chain, refresh, spot; pure selection | one edition, calls end, the contract asked for |
| Broker HTTP core `brokers/base.py`, `utils/retry.py` | tokens, generation, refresh lock | request with retry, refresh | one refresh per expiry, truthful answers, requests end |
| Broker adapters `brokers/angel_one.py`, `upstox.py`, `zerodha.py` | none of their own | place, modify, cancel, read orders and positions, quote, decode frames | an order reads back as it was asked for |
| Tick stream `brokers/ws_client.py` | task, stop event | start, receive, reconnect, stop | reconnects after a loss, stop ends it |
| Instrument master `brokers/angel_one_instruments.py` | rows and index in memory, file | rows, resolve | one download, torn files survive |
| Backtest `backtest/*` | position, pending entry, engine; files of candles and results | replay, fetch, save | records explain the capital |
| Strategies, strategy engine, instructor | none | analyze, vote, recommend | what they say passes the validators |
| Routes and lifespan `api/`, `main.py` | singletons | HTTP, start-up, shutdown | everything started is stopped |

**Interactions.** The routes call the orchestrator and the paper engine directly.
The orchestrator awaits the recommendation provider and the broker's `ltp`, and
calls the paper engine. The engine calls the order manager, which calls the ledger
and the positions. All of them share one account: a client placing orders by hand
trades the positions the orchestrator watches. The options loop and the options
routes share the account, one risk gate and the option chains; the chains come from
the instrument master, which the Angel One adapter uses too. Every adapter call goes
through the shared request pipeline, so concurrent requests share its tokens. A backtest
has a paper engine of its own and shares only files.

**Where control changes hands.** The engine's methods are `async` but await only
each other, so an engine call never suspends: it is atomic. The orchestrator
suspends when it waits for a recommendation, for a quote or for its poll
interval, and `stop()` suspends until the cancelled task ends. The options code
suspends for advice, chains, premiums and exit quotes; the adapters for HTTP answers,
for the refresh lock and in a backoff; the instrument master and the chain service for
their locks and the download. These points, and only these, are where requests, other
tasks and manual orders interleave.

**What is hard.** State read before an await and used after it (the position an
exit order closes, the entry the ratchet stores); a task cancelled at whatever
await it is found at; a start that overtakes a returning stop; an exception half way
through a settlement or a cycle; reservations that several operations take and
give back; orders that settle while a list of them is being visited; FIFO lots
through partial closes and flips; a token that expires for several requests at once and can
be refreshed once; an answer that is lost after the broker has acted; caches that are filled
behind locks by downloads that fail or are cancelled. `PROJECT.json` lists each hazard at its
line, with the properties that cover it.

## 2. Modules and the code they model

`PROJECT.json` ("map") gives the source lines of every definition.

**OrderBook** — `order_manager.py` and `portfolio.py`. State: `orders` (a sequence,
an id is an index), `reservations`, `cash`, `reserved`, `capital`, the price update in
progress (`tick`, `pending`) and the history variable `holdLost`. One action per
operation: `PlaceOrder`, `CancelOrder`, `ModifyOrder` and its failing variant
`ModifyLosesHold`, `Reset`, and `process_price_update` as `BeginPriceUpdate`, one
`EvaluateNext` or `EvaluateRaises` per candidate, and `EndPriceUpdate`. The loop is cut
into steps only so that its intermediate states can be looked at: nothing else is
enabled before it has ended. Settlement is a chain of operators on the books
(`ReleaseReservation`, `Complete`, `CancelSibling`, `SpawnBracket`), in the order of
`_settle_fill`; `HalfSettled` is what is left when one of its releases raises.

**OrderLifecycle** — the abstract specification: what a holder of an order id may
rely on. Terms never change, a resting order moves to one final status, a final
order never changes again. OrderBook implements it (`ImplementsLifecycle`).

**Positions** — `position_manager.py`. A lot of quantity *n* is *n* units that carry the id
of their order, so FIFO consumption is taking units from the front.

**PaperEngine** — `engine.py`: OrderBook, Positions, realized P&L and the trade
history, composed step by step: the fill found in a step of OrderBook is applied to
the positions in that same step.

**AutoRisk** — `risk.py` as operators on a record; time is passed in, as in the code.

**AutoTrading** — `orchestrator.py`. State: `handle` (`_task`), `stop_event`, `tracked`
(`_positions`), `risk`, one program counter and one set of cycle locals per task,
`running` (the task between two awaits), the stop request in progress, the account,
the clock. A cycle is `BeginCycle`, `RecommendationArrives` per symbol, then for each
tracked position `ForgetClosed` or `AskQuote` followed by `QuoteKeeps`, `QuoteExits` or
`QuoteFails`, then `BeginEntries`, `PassOver` or `MaybeEnter` per symbol, `EndCycle`.
`CancelArrives` ends a cancelled task at the await it is found at. Requests: `Start`,
`StopRequested` and `StopReturns` (both for stop and for emergency stop), `FlattenAt`
and `FlattenSkips` for the positions an emergency stop visits, `ManualOrder`. Two history
variables record what the properties are conditional on: `intrusions` names the
events that disturb the loop's bookkeeping, `unreported` the positions an
emergency stop left open without reporting.

**MarketAccount** — the paper engine as its automatic clients use it: market orders on cash and
the lots of Positions. AutoTrading, OptionTrading and Replay trade on it.

**OptionRisk, OptionTrading** — `options/risk.py`, and `options/auto_trading.py`,
`options/paper_trading.py` and the order routes of `routers/options.py`. An actor is a task of
the loop or a client of a route; both call the same entry (`AskPremium`, `EnterAt`,
`PremiumFails`) and exit (`AskExitQuote`, `ExitAt`, `ExitQuoteFails`), so two of them overlap as
in the code. The loop's passes are `BeginCycle`, `ForgetClosed`, `AskQuote`, `QuoteArrives`,
`QuoteFails`, `BeginEntries`, `ConsiderEntry`, `Advised`, `NotAdvised`, `EndCycle`.

**Trading, AngelOne, Upstox, Zerodha, Adapters** — what an order becomes on its way to a
vendor and back: the tables from products, types and validities to the vendor's words and from
them, what is rejected before it is sent, what a response means, whether a token can be
refreshed, how a frame of ticks is read. Adapters picks the vendor's operators as
`factory.py` picks the class.

**BrokerHttp** — `base.py` and `retry.py`: a request is sent (`Call`, `Sends`), answered (`Execute`,
`Refuse`, lost answers included), retried (`Retries`, `BackoffEnds`), or finds its token expired and
goes through `_refresh_token_coalesced` (`TokenExpired`, `LockGranted`, `Refreshed`, `RefreshFails`).
The broker is external: which tokens it accepts, and how often it has carried a
request out. **BrokerOrders** puts the order methods of the adapters on top.

**TickStream, Application** — `ws_client.py` with the start and stop of `base.py`, and `main.py`'s
lifespan around it, with both trading loops as background tasks.

**ScripRows, InstrumentMaster, OptionChains** — what is read from a scrip master's rows; its memory,
file and download behind `_load_lock`, with restarts and torn files; the caches on top of
it (chain service, spot symbols, `resolve`'s index).

**OptionSelection, Strategies, Advice** — expiry and strike selection, the strategies and their
vote, as operators; Advice runs one request through them, from candles to answer or
error.

**Replay, Backtests** — the candle loops of the equity and the options replay on an engine of
their own, and the sessions that fetch candles, replay and save.

The modules whose names end in Proofs hold the theorems about the module they extend, see
section 5. The MC modules define the requests, recommendations, chains and frames of the
runs. Definitions whose comment begins with "Mutant of" are plausible bugs;
`PROJECT.json` ("mutants") pairs each with the property that finds it.

## 3. Runs

| Run | Bounds | What it shows |
|---|---|---|
| `OrderBook` | 1 symbol, 2 client orders (of 9 kinds: every type, longs and shorts, both bracket sides), 2 modifications (one that can bring both legs of a bracket within reach of one price), prices 1..3, capital 5 | holds match the book, fills are exact (limits, one leg, nothing left), trailing stops, lifecycle refinement |
| `PaperEngine` | 2 symbols, 3 client orders of 8 kinds, prices 1..2, capital 4 | conservation of cash; history, positions and fills agree |
| `AutoTrading` | 2 symbols, 2 starts, a clock that crosses square-off and the end of the session, limit of one position and two trades | open-position limit, square-off pass; entries wait for the cooldown and the next cycle |
| `AutoAccount` | 1 symbol, 2 starts, longs, shorts and reversals, 1 manual order | tracked = held, both ways; no unknown loop; closes only reduce |
| `AutoLiveness` | 1 symbol, 2 starts, longs only, fairness | cycles and stop requests end, a stop ends every loop |
| `OptionTrading` | 2 underlyings with a contract each, 2 loop tasks, 1 client request of 1 or 2 lots, 2 cycles, a clock over one midnight | exposure, position and loss limits; no option written; what is bought is looked after |
| `BrokerOrders` | 3 vendors, 2 requests (place, modify, read), 2 attempts, 1 expiry, logged in or not | one refresh per expiry, expiry recovered, truthful reports, orders read back as asked, requests end |
| `RejectedOrder` | 1 placed order | a counterexample, see section 4 |
| `Application` | 3 vendors, 2 tick streams, every combination of settings | shutdown complete and finite, lost streams reconnect |
| `OptionChains` | 2 callers, 2 underlyings, 2 editions (the second reuses a token), failing and torn files, restarts | one download, one edition, calls end |
| `Replay` | sessions of up to 3 candles, 3 prices, slippage of 10 %, single, options and batch requests | the records explain the capital, and each is a round trip |
| `Advice` | 3 levels, every reading of three strategies, every chain over 2 expiries and up to 3 strikes | recommendations pass their validators, the contract is the one asked for |

**Why the bounds are enough.** Two client orders give up to six orders with both
brackets: an OCO pair that competes with another order for cash, which is all
that `HoldsMatchTheBook` and the OCO properties need. A failed modify that loses a hold
(and the raised release after it) already needs an order with a hold, a market
buy that spends it and a modification; those occur in `OrderBook` and in
`PaperEngine`, so the properties conditional on `~holdLost` are checked against
states in which it is both true and false. Three engine orders give open, partial
close and flip. Two tasks are what a lost loop needs. In `OptionTrading` an entry by hand, one
by the loop and an exit can wait for their quotes at once, which is what the checks made before
an await can miss; two lots against a limit of two let the exposure be exceeded by
exactly one entry too many. Two requests and one expiry are a shared refresh, and, with a lost
answer, a late one. Two clients are a replaced stream. In `Replay` three candles are an
entry, its exit and an entry that the final candle cuts short. A strategy's readings are
enumerated completely for the levels; what the code compares is their order, and
three levels have every order of close, stop and average.

**Deadlock** is checked in the runs of the paper account and of automatic equity and option
trading. The other runs model requests that are made once, or an application that ends, so they
stop by themselves, and say `CHECK_DEADLOCK FALSE`; that nothing waits for ever is what their
liveness properties say (`RequestsEnd`, `ShutdownEnds`, `CallsEnd`).

**Conditions.** `TrackedIsHeld`, `HeldIsTracked`, `NoUnknownLoop`, `ClosesOnlyReduce` and
some others hold only while certain events have not happened (`Undisturbed`).
The events are in the model and do happen in the runs; a condition states precisely
which of them the code does not survive. `HeldIsTracked` for example fails as soon
as a lost loop exists or an emergency stop left something open.

**Fairness.** `AutoLiveness`: strong fairness of each task's steps and of the
stop request. asyncio runs ready callbacks in the order they became ready, so
what is ready is not passed over for ever; the poll interval is a timeout, and
every HTTP request of the brokers has one, so an await is answered or
raises. Strong rather than weak, because a task's next step is disabled
whenever another task is between two awaits. `BrokerOrders`: weak fairness of what a request does
next and of its answer, which is a timeout at the latest (`request_timeout_seconds`).
`Application`: weak fairness of the shutdown sequence and of a stream's backoff and cancellation;
a connection may stay open, or a connecting one hang, for ever. `OptionChains`: weak fairness of
each caller's next step, since asyncio.Lock grants in turn and the download has a timeout. Nothing
is assumed of the clients, the clock, the server or which answer arrives.

## 4. Where code and documentation disagree

`RejectedOrder` is a counterexample among the runs: a 2xx answer whose body cannot be read
(`base.py:336-346`) is raised as BrokerAPIError, which `place_order` (`angel_one.py:614`) turns into
OrderRejectionError although the broker may have taken the order; the docstring
(`domain/exceptions/broker.py:65-68`) says the broker has explicitly rejected it.

Six more statements are in OrderBook and AutoTrading, under "Properties the documentation states
and the code does not have". TLC refutes each when it replaces the properties of the
configuration named:

| Property | Replace the properties of | Code | Documentation |
|---|---|---|---|
| `AvailableCashWithinCash` | `OrderBook.cfg` | `portfolio.py:101` checks a market buy against cash, not against available cash, so the available cash can be negative and building the snapshot raises | `paper/models.py:267` |
| `FailedModifyRestoresHold` | `OrderBook.cfg`, `MaxOrders = 3` | `order_manager.py:256-263`: when the new hold cannot be funded, taking the old one again can fail too | `order_manager.py:218-220` |
| `OneLoopAtATime` | `AutoLiveness.cfg` with `AutoSpec` and three tasks | `orchestrator.py:238`: a start can run between the end of the cancelled task and `_task = None`; the next start is then a second loop | `routers/auto.py:54-55` |
| `FailedClosesAreReported` | `AutoLiveness.cfg` with `AutoSpec` | `orchestrator.py:271, 300`: an unpriced position is skipped, not reported, and no longer tracked | `orchestrator.py:250-253` |
| `SquareOffLeavesNoLong` | `AutoLiveness.cfg` with `AutoSpec`, `MaxClock = 1` | `orchestrator.py:359-367`: the entry pass of the squaring cycle enters new positions | `auto/models.py:50-51` |
| `NoExitOfAClosedPosition` | `AutoLiveness.cfg` with `AutoSpec`, `ManualOrders = 1` | `orchestrator.py:507`: "still open" is checked before the await of the quote only | `orchestrator.py:502-503` |

Seen while modelling, and part of the models unless it says otherwise:

* `routers/auto.py:66-67` says that stop waits "for the current cycle (if any) to finish first",
  while `stop` cancels the task at the await it is at (`orchestrator.py:235`).
* `base.py:237`: a POST whose answer is lost is sent again, so an order may be carried out
  twice. `ReportsAreTrue` states what still holds.
* `base.py:260`: the generation is read when the 401 is handled, not when the request was sent, so
  a late 401 refreshes a token that is new (`"late_answer"` in BrokerHttp).
* `angel_one.py:692-702` sends no trigger price, so a stop order's trigger is lost; Angel One and Upstox
  send 0 for unset prices although the docstring (`domain/entities/broker.py:92-94`) says they
  are omitted. `ReadsBackAsAsked` is about product, type and price only.
* `zerodha.py:420`: cover and bracket products raise a bare KeyError.
* Angel One's `get_orders`, `get_positions` and `get_holdings` read a refused answer as an empty list.
* `zerodha.py:575`: a truncated last packet raises `struct.error`, which costs the connection; so does an
  `on_tick` that raises (`ws_client.py:116`).
* `base.py:368`: a second start replaces the stream without stopping it; since `start_websocket` awaits
  its tokens, a stop or close may also come before the start it is meant for (`strays` in TickStream).
* `main.py:243-244`: with options enabled and no option chain service, start-up calls `start` on None after the
  equity loop has been started (`StartUpFails`).
* `angel_one_instruments.py:180`: rows in memory never expire, whatever `_DEFAULT_TTL` says of newly listed
  instruments; `_download` lets a ValueError of `response.json()` escape (a failed download here).
* `options/models.py:81-90`: the strikes of an expiry are those of calls and puts together, so
  the contract picked may not be listed, which `options/exceptions.py:77-89` says cannot happen.
* `replay_engine.py:317`: a close the engine rejects is taken as done; an exit decided at one candle
  fills at the next open and is marked in the equity of the one before.
* `session.py:173`: a session that fails loses the aggregate of its batch. Result files are not
  replaced atomically (`storage.py:31-37`, not modelled).
* `summary.total_pnl` leaves out charges that wins and losses count (not modelled).

Consequences visible in the models: after a lost hold, `release_cash` raises inside a
price update (`EvaluateRaises`), which ends it early; the trades of fills earlier in
that update never reach the history, which is why `HistoryExplainsPnl` and
`EveryUnitAccountedFor` are conditional on `~holdLost`, while `CashConservation` is not.

## 5. Proofs

Every safety invariant and action property of the passing runs is proved. Each theorem holds for every value of the constants that satisfies the module's
assumption, which states what the code's validators guarantee and that the sets of symbols,
contracts, underlyings and requests are finite.

| Module | Theorems (property) | Inductive invariant |
|---|---|---|
| `PaperEngineProofs` | `TypeCorrect` (`TypeOK`), `HoldsStayWithRestingBuys` (`HoldsBackRestingBuys`), `LongLegsCancelEachOther` (`OneLongLegFills`), `BookImplementsLifecycle` (`ImplementsLifecycle`), `TrailingStopsOnlyTighten` (`TrailingNeverRetreats`), `HoldsAgreeWithTheBook` (`HoldsMatchTheBook`), `FillsStayExact` (`FillsAreExact`), `CashIsConserved` (`CashConservation`), `HistoryStaysExplained` (`HistoryMatchesFills`), `PositionsStayMatched` (`PositionsMatchFills`), `PositionPnlFollows` (`PositionPnlFollowsLedger`) | `IInv`, `RInv`, `BooksCovered`, `PassedAreBeyond`, `EngineInv` |
| `AutoTradingProofs` | `EveryLoopIsKnown` (`NoUnknownLoop`), `OpenPositionsStayWithinLimit` (`OpenPositionsWithinLimit`), `TrackedStaysHeld` (`TrackedIsHeld`), `HeldStaysTracked` (`HeldIsTracked`), `SquareOffClosesLongs` (`SquareOffPassClosesLongs`), `ClosesReduce` (`ClosesOnlyReduce`), `EntriesWait` (`EntriesWaitTheirTurn`) | `LoopInv`, `LInv`, `AutoInv` |
| `OptionProofs` | `PositionsStayWithinLimit` (`PositionsWithinLimit`), `ExposureStaysWithinLimit` (`ExposureWithinLimit`), `OptionsAreNeverWritten` (`NoOptionIsWritten`), `BoughtStaysLookedAfter` (`BoughtIsLookedAfter`), `EntriesStayAllowed` (`EntriesAreAllowed`) | `PInv`, `OptionInv` |
| `BrokerProofs` | `RefreshIsShared` (`RefreshIsNotRefused`), `ReportsStayTrue` (`ReportsAreTrue`), `ExpiryStaysRecovered` (`ExpiryIsRecovered`), `OrdersReadBackAsAsked` (`ReadsBackAsAsked`) | `BInv`, `ExpirySound`, `AskSound` |
| `ApplicationProofs` | `ShutdownStopsEverything` (`ShutdownIsComplete`) | `AInv` |
| `ChainProofs` | `OneDownload` (`DownloadsAreShared`), `ChainsResolve` (`ContractsResolve`), `AdviceStaysCoherent` (`AdviceIsCoherent`), `ContractStaysAsAsked` (`ContractIsAsAsked`) | `CInv`, `AdviceInv` |
| `BacktestProofs` | `TradesAlwaysExplainCapital` (`TradesExplainCapital`), `RecordsStayRoundTrips` (`RecordsAreRoundTrips`) | `BacktestInv` |

`SumTheorems` has what they need of sums: along a sequence, over a finite set of the indices of a
function, and of a queue of units. The library's induction theorems cannot be used with the
provers at hand, but what a sum over a finite set is can be shown with a well-founded order on
the subsets of a set: a smallest set for which a statement fails has an element to take away.
The operators of the models (`SumFunction`, the folds) come without a recursive definition, so the
facts about them (a sum changes by what one term changes by; a sum over two disjoint sets is
the two sums; a sum of naturals bounds each of its terms) are proved from their fold.

**The order book.** All rests on `IInv == TypeOK /\ Sound(Book)`. `Sound` is the conjunction of

* `Typed`: the books are well formed;
* `HoldsSound`: a nonzero reservation belongs to a resting buy;
* `ParentsSound`: a parent exists, has completed, and is on the other side of its legs;
* `PairsSound`: an entry has at most two legs;
* `LegsSound`: after a sell leg has filled, its sibling is cancelled or rejected.

None of the properties is inductive by itself. That cancelling *the* sibling cancels every
other leg needs `PairsSound`; that an entry has no legs before its fill, so that
`SpawnBracket` makes the only pair, needs `ParentsSound` (a resting entry is no parent);
that a sell leg's sibling is a sell too, so that its release cannot raise, needs
`ParentsSound` and `HoldsSound`. Between a fill and the cancellation it causes,
`LegsSound` is false for that one order: `SoundBut(b, x)` exempts it. The proof has one lemma per
operator on the books (release, add, store, complete, cancel sibling, spawn) and one
per action; the definition of an invariant on a book value rather than on the
variables is what lets the lemmas compose as the operators do.

The refinement and the trailing stops are about what one step may do to the sequence of orders.
`Extends` relates the orders before and after an operator (each makes a move the lifecycle allows,
new ones come after them), `Grows` adds that trailing triggers tighten; both are transitive, so a
settlement (complete, cancel the sibling, spawn the legs) is the composition of its operators.
`RInv` adds to `IInv` that a resting order has no fill price and that filled limits were honoured.

The holds need `Covered(b, x, y)`: the ledger's total is the sum of the holds, every resting buy but
*x* is backed by its worst-case cost, and one leg of a bracket other than *y*'s has filled at most.
Only because the total is the sum does no release raise, and only because no release raises is a
sibling always cancelled, short entries' legs included. `FillsAreExact` needs `PassedAreBeyond`
too: what a price update has been past is out of the price's reach, and stays so while later
candidates fill, cancel their siblings and spawn legs, which `Spared` follows through the
operators.

**The engine.** A step of the book is `Quiet` (nothing fills, cash is what it was) or `FillsOne`
order, for which cash pays. `LedgerFits` relates the books, the queues of open units and the closed
trades: every open unit carries the side and price of a filled order, cash and what the open units
cost are the capital and the realized P&L, the net of a queue is the sum of its symbol's fills, and,
unless a hold has been lost, each unit of a filled order is open or in the history once and the
history's P&L adds up. A fill takes units from the front of one queue, keeps the rest and appends
new ones; `Parts` names the three, and the sums are followed through each. `EngineInv` needs
`BooksCovered` because an update that is cut short drops its trades, and `FlatIsZero` for the P&L
of a position that is opened afresh.

**The equity loop.** `LoopInv` is `NoUnknownLoop` together with the fact that a request which is
not stopping waits for nobody. Without it a new stop request, which forgets the task of the one
before, could lose a live task. Every step of a task moves that task only (`MovesOnIsTaskStep`), so
the argument is about `Start`, `StopRequested` and `StopReturns`.

The entry pass counts and tracks in one step, so what is difficult about the limit is the exit pass,
which stores after an await a position it listed before it (`QuoteKeeps`), even one that an
emergency stop has forgotten. `LInv` adds that unless a loop is lost one task at most goes on
(`TasksSound`, `OneLoop`), and that during its exit pass what is tracked is part of what it has
listed (`RoomSound`). Cancelled tasks are exempt, since they end at their await.

`AutoInv` adds the types and `HeldInv`, which speaks of what the account holds while no loop is lost.
`PassSound` relates a cycle's locals to the state of the moment: what it has still to visit is
tracked as it was listed, past square-off time no long position is behind it, and the cooldown ends
within its length of the time the cycle began at (each entry check uses that time, so this is what
makes `EntriesWaitTheirTurn` true). `BooksHeld` says that what is tracked is held to the unit, and
while an emergency stop is closing positions, that what it has listed is. `TrackedIsHeld` alone is
not inductive: an exit sells the quantity that was listed, which is the right one only because
nobody but the cycle has closed the position in the meantime, and this needs `OneLoop`.

**The options loop.** The loop checks the limit two awaits before it tracks, and nothing
re-checks it: `PInv` says that the one task that goes on still has the room it was promised, since
others only forget positions, except a task that a stop has lost. `OptionInv` adds three layers,
each for as long as the events that break it have not happened. `LedgerSound`: who awaits an exit
quote is the only one to sell that contract and there is enough of it, so nothing is written, and
the deployed premium, a sum over the contracts, falls with every sale. `DaySound`: the gate's
record is the realized P&L of the day. `WatchSound`: what is held is tracked, and what a cycle has still to exit is
tracked as it was listed. Proving it found that `ExitPassSquaresOff` had been stated without its
condition on overlapping exits: two clients that exit one contract at once can write it after the
loop has found it closed, and it is open again when the pass ends. The run has one client request
and could not show it; with two requests TLC finds it.

**The request pipeline.** `BInv` is: whoever refreshes is first in the queue for the lock
(`LockSound`), hence alone; unless new tokens were lost, the refresh token that can be spent is the
adapter's or on its way to it, and a refresh in flight carries it (`TokensSound`); every execution of a
request but one has lost its answer (`ReportsSound`). `ExpirySound` is about the executions in which
the token expires once and no mishap happens, and splits them at the refresh. Before it
(`EarlyCall`) every call on its way carries the token of the login, and none is the one made after
a refresh; after it (`LateCall`) nobody is refreshing, whoever still waits for the lock will find that someone has,
calls made after it carry the new token, and a call that is told of an expired one carries the old. So the
second call of a request, whose answer is final, is never told so. Nothing is said of `mishaps`,
which the property excuses: one of them is the late answer that makes for a second refresh.

`OrdersReadBackAsAsked` is about the adapters' tables: `RoundTrip` says when a word looked up in
one table is read back through another as the key it stands for, `AngelOneTables`, `UpstoxTables` and
`ZerodhaTables` that the tables are such, and `VendorsGoByTables` that the three adapters send and
read by them, each with its own way to leave a price out. `AskSound` says that a request on its way
had a payload. It assumes that an order which is modified was placed with that vendor
(`Init`): Zerodha and Upstox would modify orders of products they have no word for.

**The application.** `AInv` follows the shutdown: loops it has passed are stopped, and a stream that runs is the
current one, the one `close` waits for, or a stray.

**The option chains.** `CInv` says that who downloads is first in the queue for the lock and that
there are no rows yet, so rows never change while a process lives, and that the index and every
chain are of the edition in memory. `ContractIsIndexed` then finds a chain's contract in the index
of the same edition, assuming that rows of one symbol within an edition have the same token, which
the index takes for granted.

**Advice.** `AdviceIsCoherent` is about averages: each strategy that agrees has its stop and targets
on the right sides of its entry, and the plan averages each level by itself. `Sound` says that a
setup is ordered and made of whole numbers, or proposes nothing; `OutcomesAreSound` that the three strategies only
make such setups, whatever the levels are; `AverageGap` that the averages of two levels of the same
voters keep the order the voters agree on, and strictly, although the division is integral, since
the voters keep them a whole unit apart. `PlanIsSound` goes through who agrees. `ContractIsAsAsked`
rests on the choice at the money: no strike is nearer to the price, so a strike above it is above
the price too (`StrikeIsAsAsked`), and one move away from it is out of or in the money unless the
list ends there. `AdviceAssumption` is that chains are
finite and that expiries, strikes and days are numbers.

**The replays.** `BacktestInv` says that, while the engine has rejected no close, its queue of open
units is exactly the units of the one entry the session remembers, at its side and fill
(`EngineFits`), and that cash and what they cost are the capital and the gross of the records. A close
then takes the whole queue, a sum of equal terms, and its record carries the gross that cash moves by.
`EquityFits` says that a session without a position has marked its equity since its last close, and
`PositionPlaced` that the final candle, whichever kind of replay it ends, leaves no position.
Sizing divides by the slipped price, and the proof needs that price to be positive: a slippage over
100% would make it negative, and no position is opened then.

**Only model-checked.** Every liveness property (`WorkEnds`, `StopEndsEveryLoop`, `RequestsEnd`,
`ShutdownEnds`, `LostStreamsReconnect`, `CallsEnd`), which is out of the proof system's reach.

## 6. Abstractions and what is not modelled

* Money and quantities are small integers. Rounding of floats is not modelled.
  `trailing_percent` and the sizing of an entry are integer divisions.
* Optional positive fields use 0 for `None`; order ids are insertion indices;
  timestamps, tags and messages are left out.
* Validation that refuses a request before any state is touched is the assumption
  `ValidRequest` on the requests; a request it refuses changes nothing.
* An option the code stores and never acts on (`IOC`, `expires_at`) has no effect in the
  code and none in the model.
* In AutoTrading the account takes market orders only, which are what the
  orchestrator places; the manual client is restricted to them too, one unit at a time.
  An account reset during trading is not modelled.
* The order in which symbols are visited is left open, which includes the code's.
* At most one stop or emergency-stop request is in progress.
* The time of a cycle is read once at its start, as the code does; the clock moves freely between
  steps up to `MaxClock`.
* In OptionTrading the awaits for the parts of one recommendation are one await, and so are those
  for chain and premium: nothing the trading code keeps is read or written between them.
* In BrokerOrders the quantity of an order is always one and its symbol resolved or not as the vendor
  requires; tokens are numbers in the order of issue. Requests are issued by callers that do not
  depend on each other's answers, and what is modified is an order the vendor could have taken.
* In OptionChains a caller that is granted a free lock takes it in a step of its own, where the code takes it
  at once; this allows more interleavings than the code has.
* Strategies take what their indicators say as readings; confidences are left out, and levels are
  multiples of 12 so that averages and reward multiples are integral. A band of SuperTrend is taken to
  be positive.
* Replays leave charges out: they are reported beside the account, never taken from it. A slippage
  of exactly 100% makes the price of a sale zero, by which the code divides; the model opens nothing.
* Not modelled: the indicators, charges and metrics (floating-point numerics without state),
  historical candles and profiles of the adapters (field copies), lot and symbol formatting, the LRU
  cache, result files' contents, configuration, logging, the Angular frontend; PaperBroker, a facade
  without state; and the packages no running code calls (`control`, `risk`, `execution`, `ai`,
  `ai_agents`, `analytics`, `platform`, `research`).

## 7. What could come next

* A joint model of the equity and the options loop on one account, which here are two models with
  one account each.
* The lifetime of option chains against an exchange that lists new contracts during a session.
