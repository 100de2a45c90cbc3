----------------------------- MODULE AutoTrading -----------------------------
(***************************************************************************)
(* Automatic equity trading: app/auto/orchestrator.py with its risk gate   *)
(* (AutoRisk), the start, stop and emergency-stop requests of              *)
(* app/api/v1/routers/auto.py, and the paper account they trade on.        *)
(*                                                                         *)
(* Everything runs on one event loop, so control changes hands only at an  *)
(* await that really waits: for a recommendation, for a quote, for the     *)
(* poll interval, and, in stop(), for the cancelled task to end.  `running`*)
(* is the task inside the code between two such points; no other action is *)
(* enabled meanwhile.  Calls on the paper engine never wait.               *)
(*                                                                         *)
(* The account is MarketAccount.                                           *)
(***************************************************************************)
EXTENDS AutoRisk, Sequences, FiniteSets, Functions

CONSTANTS
    Symbols,       \* config.symbols
    Tasks,         \* the loop tasks; bound: the loop is started once for each
    NoTask,
    Signals,       \* what the strategies may recommend
    Prices,        \* prices the broker quotes
    Capital,       \* cash the account starts with
    SpendOneIn,    \* 1 / capital_fraction_per_trade
    SessionClose,  \* tick of the day the session ends at
    SquareOffTime, \* tick of the day positions are squared off at
    MaxClock,      \* bound: the clock stops here
    ManualOrders   \* bound: orders placed by hand

None == 0
Actions == {"BUY", "SELL", "HOLD"}

\* confident: confidence reaches confidence_threshold; confirmed: enough
\* strategies agree.  A recommendation may come without a target.
SignalType ==
    [action : Actions, entry : Nat, stop_loss : Nat, target : Nat,
     confident : BOOLEAN, confirmed : BOOLEAN]

NoSignal == [action |-> "NONE"]

\* InstructorRecommendation's validator: a BUY or SELL has its stop on the
\* losing side of its entry and its target, if any, on the winning side.
SoundSignal(signal) ==
    /\ signal.action # "HOLD" => signal.entry > 0
    /\ signal.action = "BUY" =>
         /\ signal.stop_loss < signal.entry
         /\ signal.target # None => signal.target > signal.entry
    /\ signal.action = "SELL" =>
         /\ signal.stop_loss > signal.entry
         /\ signal.target # None => signal.target < signal.entry

ASSUME AutoTradingAssumption ==
    /\ IsFiniteSet(Symbols)
    /\ NoTask \notin Tasks
    /\ \A signal \in Signals : signal \in SignalType /\ SoundSignal(signal)
    /\ Prices \subseteq Nat \ {0}
    /\ Capital \in Nat
    /\ SpendOneIn \in Nat \ {0}
    /\ {SessionClose, SquareOffTime} \subseteq 0..DayLength
    /\ {MaxClock, ManualOrders} \subseteq Nat

-----------------------------------------------------------------------------

VARIABLES
    handle,      \* _task: the task the orchestrator knows of, or NoTask
    stop_event,  \* _stop_event.is_set()
    tracked,     \* _positions: the _AutoPosition of each symbol, or Untracked
    risk,        \* _risk
    pc,          \* where each task is: "waiting" out the poll interval (or
                 \* about to run for the first time), waiting for a
                 \* recommendation in "signals" or for a "quote", inside
                 \* "exits" or "entries", or "done"; at first "new"
    cancelled,   \* tasks whose cancel() has been called
    cycle,       \* the locals of each task's _run_cycle
    running,     \* the task between two awaits, or NoTask
    stopper,     \* the stop or emergency-stop request in progress
    cash, lots,  \* the paper account
    clock,
    manual,      \* orders placed by hand so far
    intrusions,  \* history: what has disturbed the loop's bookkeeping
    unreported   \* history: what the last emergency stop left open unreported

INSTANCE MarketAccount

requestVars == <<handle, stop_event, cancelled, stopper>>
taskVars == <<pc, cycle, running>>
accountVars == <<cash, lots>>
tradeVars == <<tracked, risk, accountVars>>
historyVars == <<intrusions, unreported>>
worldVars == <<clock, manual, historyVars>>
autoVars == <<requestVars, taskVars, tradeVars, worldVars>>

Untracked == [side |-> "NONE"]
IsTracked(symbol) == tracked[symbol] # Untracked
TrackedSymbols == {symbol \in Symbols : IsTracked(symbol)}

NoCycle == [now |-> 0, todo |-> {}, at |-> {}, exited |-> {},
            signals |-> [symbol \in Symbols |-> NoSignal],
            snapshot |-> [symbol \in Symbols |-> Untracked]]

NoStop == [pc |-> "idle", emergency |-> FALSE, awaits |-> NoTask, todo |-> {},
           quantities |-> [symbol \in Symbols |-> 0], closed |-> {}]

Alive(t) == pc[t] \notin {"new", "done"}

\* Mutant of IsRunning: a loop in the middle of a cycle is overlooked.
IsWaiting == handle # NoTask /\ pc[handle] = "waiting"

IsRunning == handle # NoTask /\ Alive(handle)
NobodyRuns == running = NoTask

SessionOpen(now) == now % DayLength < SessionClose
IsSquareOffTime(now) == now % DayLength >= SquareOffTime

-----------------------------------------------------------------------------
(***************************************************************************)
(* Decisions.                                                              *)
(***************************************************************************)
TrailingAmount(position) ==
    IF position.side = "BUY"
    THEN position.entry_price - position.stop_loss
    ELSE position.stop_loss - position.entry_price

\* Mutant of MustExit: the time of day is not looked at.
MustExitAnyTime(position, px, signal, square_off) ==
    IF position.side = "BUY" THEN px <= position.stop_loss ELSE px >= position.stop_loss

\* _exit_reason is not None.
MustExit(position, px, signal, square_off) ==
    LET long == position.side = "BUY"
    IN  \/ square_off
        \/ IF long THEN px <= position.stop_loss ELSE px >= position.stop_loss
        \/ /\ position.target # None
           /\ IF long THEN px >= position.target ELSE px <= position.target
        \/ IF long
           THEN /\ position.best_price > position.entry_price
                /\ px <= position.best_price - TrailingAmount(position)
           ELSE /\ position.best_price < position.entry_price
                /\ px >= position.best_price + TrailingAmount(position)
        \/ /\ signal.action \in {"BUY", "SELL"}
           /\ signal.action # position.side
           /\ signal.confident

RatchetBestPrice(position, px) ==
    [position EXCEPT !.best_price =
        IF (position.side = "BUY") = (px > @) THEN px ELSE @]

\* Mutant of WorthEntering: an open position does not matter.
WorthEnteringTwice(symbol, signal) ==
    signal.action # "HOLD" /\ signal.confident /\ signal.confirmed

\* The gates of _maybe_enter before the risk check.
WorthEntering(symbol, signal) ==
    /\ signal.action # "HOLD"
    /\ signal.confident
    /\ signal.confirmed
    /\ ~IsOpen(symbol)

\* int(available_cash * capital_fraction_per_trade // entry).
EntryQuantity(signal) == cash \div (SpendOneIn * signal.entry)

-----------------------------------------------------------------------------
(***************************************************************************)
(* The loop.  BeginCycle to EndCycle are _run_loop and _run_cycle, cut at  *)
(* the awaits.  The order in which symbols are visited is left open.       *)
(***************************************************************************)
\* Task t waits at an await and its answer may arrive.
Resumes(t, place) ==
    /\ NobodyRuns
    /\ pc[t] = place
    /\ t \notin cancelled

\* Mutant of LoopGoesOn: the stop event is not looked at.
LoopGoesOnRegardless == TRUE

\* The head of the loop.
LoopGoesOn == ~stop_event

LoopEnds(t) ==
    /\ Resumes(t, "waiting")
    /\ ~LoopGoesOn
    /\ pc' = [pc EXCEPT ![t] = "done"]
    /\ UNCHANGED <<requestVars, cycle, running, tradeVars, worldVars>>

\* Outside the session the loop goes back to waiting, and nothing changes.
BeginCycle(t) ==
    /\ Resumes(t, "waiting")
    /\ LoopGoesOn
    /\ SessionOpen(clock)
    /\ pc' = [pc EXCEPT ![t] = "signals"]
    /\ cycle' = [cycle EXCEPT ![t] = [NoCycle EXCEPT !.now = clock, !.todo = Symbols]]
    /\ UNCHANGED <<requestVars, running, tradeVars, worldVars>>

\* A recommendation arrives, or fails (NoSignal) and the symbol is left out.
\* After the last one the positions to monitor are listed.
RecommendationArrives(t, symbol, signal) ==
    LET todo == cycle[t].todo \ {symbol}
        heard == [cycle[t] EXCEPT !.todo = todo, !.signals[symbol] = signal]
    IN  /\ Resumes(t, "signals")
        /\ symbol \in cycle[t].todo
        /\ IF todo # {}
           THEN /\ cycle' = [cycle EXCEPT ![t] = heard]
                /\ UNCHANGED <<pc, running>>
           ELSE /\ cycle' = [cycle EXCEPT ![t] =
                     [heard EXCEPT !.todo = TrackedSymbols, !.snapshot = tracked]]
                /\ pc' = [pc EXCEPT ![t] = "exits"]
                /\ running' = t
        /\ UNCHANGED <<requestVars, tradeVars, worldVars>>

\* The cycle is over, normally or by an exception: the loop waits again.
CycleOver(t) ==
    /\ pc' = [pc EXCEPT ![t] = "waiting"]
    /\ cycle' = [cycle EXCEPT ![t] = NoCycle]
    /\ running' = NoTask

\* The monitoring pass goes on after a symbol.
MonitorOn(t, exited) ==
    /\ pc' = [pc EXCEPT ![t] = "exits"]
    /\ cycle' = [cycle EXCEPT ![t].at = {}, ![t].exited = @ \cup exited]
    /\ running' = t

\* The position was closed elsewhere: it is forgotten; a KeyError ends the
\* cycle when something else has forgotten it first.
ForgetClosed(t, symbol) ==
    /\ running = t /\ pc[t] = "exits"
    /\ symbol \in cycle[t].todo
    /\ ~IsOpen(symbol)
    /\ tracked' = [tracked EXCEPT ![symbol] = Untracked]
    /\ IF IsTracked(symbol)
       THEN /\ cycle' = [cycle EXCEPT ![t].todo = @ \ {symbol}]
            /\ UNCHANGED <<pc, running>>
       ELSE CycleOver(t)
    /\ UNCHANGED <<requestVars, risk, accountVars, worldVars>>

\* The position is open: its quote is asked for.
AskQuote(t, symbol) ==
    /\ running = t /\ pc[t] = "exits"
    /\ symbol \in cycle[t].todo
    /\ IsOpen(symbol)
    /\ pc' = [pc EXCEPT ![t] = "quote"]
    /\ cycle' = [cycle EXCEPT ![t].todo = @ \ {symbol}, ![t].at = {symbol}]
    /\ running' = NoTask
    /\ UNCHANGED <<requestVars, tradeVars, worldVars>>

\* The lookup fails: nothing in the cycle catches it, so it ends the cycle.
QuoteFails(t) ==
    /\ Resumes(t, "quote")
    /\ CycleOver(t)
    /\ UNCHANGED <<requestVars, tradeVars, worldVars>>

\* The quote for `symbol` has arrived, and asks for an exit or does not.
QuoteArrives(t, symbol, px, exit) ==
    /\ Resumes(t, "quote")
    /\ symbol \in cycle[t].at
    /\ exit = MustExit(cycle[t].snapshot[symbol], px, cycle[t].signals[symbol],
                       IsSquareOffTime(cycle[t].now))

\* No exit: the position as it was listed, its best price moved, is stored,
\* whatever has happened to it since.
QuoteKeeps(t, symbol, px) ==
    /\ QuoteArrives(t, symbol, px, FALSE)
    /\ tracked' = [tracked EXCEPT ![symbol] =
                     RatchetBestPrice(cycle[t].snapshot[symbol], px)]
    /\ MonitorOn(t, {})
    /\ UNCHANGED <<requestVars, risk, accountVars, worldVars>>

\* Mutant of QuoteExits: a rejected exit is forgotten as well.
QuoteExitsAnyway(t, symbol, px) ==
    LET position == cycle[t].snapshot[symbol]
        side     == Opposite(position.side)
    IN  /\ QuoteArrives(t, symbol, px, TRUE)
        /\ MarketOrder(symbol, side, position.quantity, px)
        /\ tracked' = [tracked EXCEPT ![symbol] = Untracked]
        /\ MonitorOn(t, {symbol})
        /\ UNCHANGED <<requestVars, risk, worldVars>>

\* _exit_position: an opposite order for the tracked quantity.  When it is
\* rejected the position stays tracked; when it fills but the position has
\* been forgotten meanwhile, a KeyError ends the cycle before the P&L is
\* recorded.
QuoteExits(t, symbol, px) ==
    LET position == cycle[t].snapshot[symbol]
        side     == Opposite(position.side)
    IN  /\ QuoteArrives(t, symbol, px, TRUE)
        /\ IF ~Filled(side, position.quantity, px)
           THEN /\ MonitorOn(t, {})
                /\ UNCHANGED tradeVars
           ELSE /\ FillOrder(symbol, side, position.quantity, px)
                /\ tracked' = [tracked EXCEPT ![symbol] = Untracked]
                /\ IF IsTracked(symbol)
                   THEN /\ MonitorOn(t, {symbol})
                        /\ risk' = RecordTradeClosed(risk,
                                      PnlOf(symbol, side, position.quantity, px),
                                      cycle[t].now)
                   ELSE /\ CycleOver(t)
                        /\ UNCHANGED risk
        /\ UNCHANGED <<requestVars, worldVars>>

\* The entry pass: the symbols with a recommendation that were not exited.
BeginEntries(t) ==
    /\ running = t /\ pc[t] = "exits"
    /\ cycle[t].todo = {}
    /\ pc' = [pc EXCEPT ![t] = "entries"]
    /\ cycle' = [cycle EXCEPT ![t].todo =
                   {symbol \in Symbols : cycle[t].signals[symbol] # NoSignal}
                     \ cycle[t].exited]
    /\ UNCHANGED <<requestVars, running, tradeVars, worldVars>>

\* _maybe_enter that returns before the risk check.
PassOver(t, symbol) ==
    /\ running = t /\ pc[t] = "entries"
    /\ symbol \in cycle[t].todo
    /\ ~WorthEntering(symbol, cycle[t].signals[symbol])
    /\ cycle' = [cycle EXCEPT ![t].todo = @ \ {symbol}]
    /\ UNCHANGED <<requestVars, pc, running, tradeVars, worldVars>>

\* _maybe_enter from the risk check on: entered, refused, or too dear for a
\* single unit.  The market order costs no more than the available cash, so
\* it is never rejected.
MaybeEnter(t, symbol) ==
    LET signal   == cycle[t].signals[symbol]
        now      == cycle[t].now
        rolled   == RollDay(risk, now)
        quantity == EntryQuantity(signal)
    IN  /\ running = t /\ pc[t] = "entries"
        /\ symbol \in cycle[t].todo
        /\ WorthEntering(symbol, signal)
        /\ cycle' = [cycle EXCEPT ![t].todo = @ \ {symbol}]
        /\ IF /\ EntryAllowed(rolled, Cardinality(TrackedSymbols), now)
              /\ quantity >= 1
           THEN /\ FillOrder(symbol, signal.action, quantity, signal.entry)
                /\ risk' = RecordTradeOpened(rolled, now)
                /\ tracked' = [tracked EXCEPT ![symbol] =
                     [side |-> signal.action, quantity |-> quantity,
                      entry_price |-> signal.entry, best_price |-> signal.entry,
                      stop_loss |-> signal.stop_loss, target |-> signal.target]]
           ELSE /\ risk' = rolled
                /\ UNCHANGED <<tracked, accountVars>>
        /\ UNCHANGED <<requestVars, pc, running, worldVars>>

EndCycle(t) ==
    /\ running = t /\ pc[t] = "entries"
    /\ cycle[t].todo = {}
    /\ CycleOver(t)
    /\ UNCHANGED <<requestVars, tradeVars, worldVars>>

\* A cancelled task ends at the await it was found at, wherever that is.
CancelArrives(t) ==
    /\ NobodyRuns
    /\ Alive(t) /\ t \in cancelled
    /\ pc' = [pc EXCEPT ![t] = "done"]
    /\ cancelled' = cancelled \ {t}
    /\ cycle' = [cycle EXCEPT ![t] = NoCycle]
    /\ UNCHANGED <<handle, stop_event, stopper, running, tradeVars, worldVars>>

-----------------------------------------------------------------------------
(***************************************************************************)
(* The requests.  At most one stop or emergency stop is in progress.       *)
(***************************************************************************)
\* start; nothing happens while the known task is alive.
Start ==
    /\ NobodyRuns
    /\ ~IsRunning
    /\ \E t \in Tasks :
         /\ pc[t] = "new"
         /\ handle' = t
         /\ pc' = [pc EXCEPT ![t] = "waiting"]
    /\ stop_event' = FALSE
    /\ risk' = FreshRisk
    /\ intrusions' = intrusions \cup
         (IF stopper.pc = "flattening" THEN {"start_while_flattening"} ELSE {})
    /\ UNCHANGED <<cancelled, stopper, cycle, running, tracked, accountVars, clock, manual, unreported>>

\* Mutant of FlattenReturns: nothing is forgotten.
FlattenKeepsTracking(open, lost) ==
    /\ stopper' = NoStop
    /\ unreported' = {symbol \in open : lots'[symbol] # <<>>}
    /\ intrusions' = intrusions \cup lost
    /\ UNCHANGED tracked

\* Everything tracked is forgotten as an emergency stop returns; `open` is
\* what it found open and did not report an order for.
FlattenReturns(open, lost) ==
    /\ tracked' = [symbol \in Symbols |-> Untracked]
    /\ stopper' = NoStop
    /\ unreported' = {symbol \in open : lots'[symbol] # <<>>}
    /\ intrusions' = intrusions \cup lost \cup
         (IF \E symbol \in Symbols : lots'[symbol] # <<>> THEN {"left_open"} ELSE {})

\* The loop has been stopped.  stop returns; an emergency stop lists every
\* open position, whoever opened it.
AfterStop(emergency, lost) ==
    LET open == {symbol \in Symbols : IsOpen(symbol)}
    IN  IF emergency /\ open = {}
        THEN FlattenReturns({}, lost)
        ELSE /\ stopper' = IF emergency
                           THEN [NoStop EXCEPT !.pc = "flattening", !.todo = open,
                                   !.quantities = [s \in Symbols |-> NetQuantity(s)]]
                           ELSE NoStop
             /\ intrusions' = intrusions \cup lost
             /\ UNCHANGED <<tracked, unreported>>

\* Mutant of StopRequested: the loop is awaited before it is told to stop.
StopAwaitsFirst(emergency) ==
    /\ NobodyRuns
    /\ stopper.pc = "idle"
    /\ IsRunning
    /\ stopper' = [NoStop EXCEPT !.pc = "stopping", !.emergency = emergency,
                                 !.awaits = handle]
    /\ UNCHANGED <<handle, stop_event, cancelled, taskVars, tradeVars, worldVars>>

\* stop and emergency_stop up to the await of the cancelled task.
StopRequested(emergency) ==
    /\ NobodyRuns
    /\ stopper.pc = "idle"
    /\ stop_event' = TRUE
    /\ UNCHANGED accountVars
    /\ IF IsRunning
       THEN /\ cancelled' = cancelled \cup {handle}
            /\ stopper' = [NoStop EXCEPT !.pc = "stopping", !.emergency = emergency,
                                         !.awaits = handle]
            /\ UNCHANGED <<handle, tracked, historyVars>>
       ELSE /\ handle' = NoTask
            /\ AfterStop(emergency, {})
            /\ UNCHANGED cancelled
    /\ UNCHANGED <<taskVars, risk, clock, manual>>

\* The cancelled task has ended: _task is cleared, even when it already names
\* another task, one started between that end and this step.
StopReturns ==
    /\ NobodyRuns
    /\ stopper.pc = "stopping"
    /\ ~Alive(stopper.awaits)
    /\ handle' = NoTask
    /\ UNCHANGED accountVars
    /\ AfterStop(stopper.emergency, IF IsRunning THEN {"lost_loop"} ELSE {})
    /\ UNCHANGED <<stop_event, cancelled, taskVars, risk, clock, manual>>

\* One position of the list is done with; the request returns after the last.
FlattenOn(symbol, reported) ==
    LET rest == [stopper EXCEPT !.todo = @ \ {symbol}, !.closed = @ \cup reported]
    IN  IF rest.todo = {}
        THEN FlattenReturns({s \in Symbols : rest.quantities[s] # 0} \ rest.closed, {})
        ELSE /\ stopper' = rest
             /\ UNCHANGED <<tracked, historyVars>>

\* It is closed at the quoted price with the quantity it was listed with; the
\* order is reported whether or not it completed.
FlattenAt(symbol, px) ==
    LET quantity == stopper.quantities[symbol]
        side     == IF quantity > 0 THEN "SELL" ELSE "BUY"
        size     == IF quantity > 0 THEN quantity ELSE -quantity
    IN  /\ NobodyRuns
        /\ stopper.pc = "flattening"
        /\ symbol \in stopper.todo
        /\ MarketOrder(symbol, side, size, px)
        /\ FlattenOn(symbol, {symbol})
        /\ UNCHANGED <<handle, stop_event, cancelled, taskVars, risk, clock, manual>>

\* Its price cannot be had: it is skipped and nothing is reported.
FlattenSkips(symbol) ==
    /\ NobodyRuns
    /\ stopper.pc = "flattening"
    /\ symbol \in stopper.todo
    /\ UNCHANGED accountVars
    /\ FlattenOn(symbol, {})
    /\ UNCHANGED <<handle, stop_event, cancelled, taskVars, risk, clock, manual>>

\* A client of /api/v1/paper/order trades the same account by hand.
ManualOrder(symbol, side, px) ==
    /\ NobodyRuns
    /\ manual < ManualOrders
    /\ Filled(side, 1, px)
    /\ FillOrder(symbol, side, 1, px)
    /\ manual' = manual + 1
    /\ intrusions' = intrusions \cup {"manual_order"}
    /\ UNCHANGED <<requestVars, taskVars, tracked, risk, clock, unreported>>

Tick ==
    /\ NobodyRuns
    /\ clock < MaxClock
    /\ clock' = clock + 1
    /\ UNCHANGED <<requestVars, taskVars, tradeVars, manual, historyVars>>

AutoInit ==
    /\ handle = NoTask
    /\ stop_event = FALSE
    /\ tracked = [symbol \in Symbols |-> Untracked]
    /\ risk = FreshRisk
    /\ pc = [t \in Tasks |-> "new"]
    /\ cancelled = {}
    /\ cycle = [t \in Tasks |-> NoCycle]
    /\ running = NoTask
    /\ stopper = NoStop
    /\ AccountInit(Capital)
    /\ clock = 0
    /\ manual = 0
    /\ intrusions = {}
    /\ unreported = {}

\* A task waiting for an answer gets one, or an exception.
Answered(t) ==
    \/ \E symbol \in Symbols, signal \in Signals \cup {NoSignal} :
         RecommendationArrives(t, symbol, signal)
    \/ \E symbol \in Symbols, px \in Prices :
         QuoteKeeps(t, symbol, px) \/ QuoteExits(t, symbol, px)
    \/ QuoteFails(t)

\* The synchronous part of a cycle.
Runs(t) ==
    \/ \E symbol \in Symbols : ForgetClosed(t, symbol) \/ AskQuote(t, symbol)
    \/ BeginEntries(t)
    \/ \E symbol \in Symbols : PassOver(t, symbol) \/ MaybeEnter(t, symbol)
    \/ EndCycle(t)

TaskNext(t) ==
    \/ LoopEnds(t)
    \/ BeginCycle(t)
    \/ Answered(t)
    \/ Runs(t)
    \/ CancelArrives(t)

StopNext ==
    \/ StopReturns
    \/ \E symbol \in Symbols, px \in Prices : FlattenAt(symbol, px)
    \/ \E symbol \in Symbols : FlattenSkips(symbol)

AutoNext ==
    \/ \E t \in Tasks : TaskNext(t)
    \/ StopNext
    \/ Start
    \/ \E emergency \in BOOLEAN : StopRequested(emergency)
    \/ \E symbol \in Symbols, side \in {"BUY", "SELL"}, px \in Prices :
         ManualOrder(symbol, side, px)
    \/ Tick

AutoSpec == AutoInit /\ [][AutoNext]_autoVars

\* The event loop runs what is ready in the order it became ready, so nothing
\* ready is passed over for ever; the poll interval and every HTTP request
\* time out.  Nothing is assumed of the clock, the clients or the answers.
AutoFairness ==
    /\ \A t \in Tasks : SF_autoVars(TaskNext(t))
    /\ SF_autoVars(StopNext)

FairAutoSpec == AutoSpec /\ AutoFairness

-----------------------------------------------------------------------------
(***************************************************************************)
(* Properties.                                                             *)
(***************************************************************************)
Undisturbed(by) == intrusions \cap by = {}

Intruders == {"manual_order", "lost_loop", "start_while_flattening"}

\* What the orchestrator tracks is what the account holds, to the unit: an
\* exit order is for the tracked quantity, so a difference would leave a
\* position or open a reverse one.  Cancellations in mid-cycle, failed
\* lookups, rejected exits and restarts do not upset it; manual orders, a lost
\* loop and a start during an emergency stop may.
TrackedIsHeld ==
    Undisturbed(Intruders) /\ stopper.pc # "flattening" =>
      \A symbol \in TrackedSymbols :
        NetQuantity(symbol) = Sign(tracked[symbol].side) * tracked[symbol].quantity

\* No position is held without being watched for its stop: what the account
\* holds is tracked, unless it was bought by hand or left by an emergency stop.
HeldIsTracked ==
    intrusions = {} => \A symbol \in Symbols : IsOpen(symbol) => IsTracked(symbol)

\* Every task that is alive is known: _task names it, or a stop is waiting for
\* it to end.  Only a start that overtakes a returning stop breaks this.
NoUnknownLoop ==
    Undisturbed({"lost_loop"}) =>
      \A t \in Tasks : Alive(t) => t \in {handle, stopper.awaits}

\* The limit on open positions holds across restarts, emergency stops and
\* manual trades: nothing stored after an await brings a position back.
OpenPositionsWithinLimit ==
    Undisturbed({"lost_loop"}) => Cardinality(TrackedSymbols) <= MaxOpenPositions

\* When the monitoring pass of a cycle begun at or after square-off time is
\* over, no long position is tracked any more: only a short whose cover the
\* cash does not reach may remain.
SquareOffPassClosesLongs ==
    \A t \in Tasks :
      /\ Undisturbed({"lost_loop"})
      /\ running = t
      /\ pc[t] = "exits"
      /\ cycle[t].todo = {}
      /\ IsSquareOffTime(cycle[t].now)
      => \A symbol \in TrackedSymbols : tracked[symbol].side = "SELL"

Opens(symbol) == lots[symbol] = <<>> /\ lots'[symbol] # <<>>

Entry(symbol) ==
    \E t \in Tasks : pc[t] = "entries" /\ running = t /\ Opens(symbol)

\* A cooldown is served in full: neither a winning close nor midnight brings
\* its end forward, and no entry is made before it, though every check uses
\* the time its cycle began at.  Only a start clears it.
CooldownIsServed ==
    [][Undisturbed({"lost_loop"}) =>
         /\ risk'.cooldown_until < risk.cooldown_until => risk' = FreshRisk
         /\ \A symbol \in Symbols : Entry(symbol) => clock >= risk.cooldown_until]_autoVars

\* No order of the orchestrator turns a position around or adds to it: exits
\* and emergency closes use a quantity read before the await of the quote.
ClosesOnlyReduce ==
    [][Undisturbed(Intruders) /\ manual' = manual =>
         \A symbol \in Symbols :
           IsOpen(symbol) =>
             \/ lots'[symbol] = lots[symbol]
             \/ lots'[symbol] = <<>>]_autoVars

\* A symbol is not entered again by the cycle that exited it: an entry is only
\* made where nothing was tracked when that cycle listed its positions.
NoReentryInTheSameCycle ==
    [][intrusions = {} =>
         \A t \in Tasks, symbol \in Symbols :
           running = t /\ Entry(symbol) => cycle[t].snapshot[symbol] = Untracked]_autoVars

\* An entry is made only when it is due again: after the cooldown, and not by
\* the cycle that has just left the symbol.
EntriesWaitTheirTurn == CooldownIsServed /\ NoReentryInTheSameCycle

\* A cycle that has begun ends, whatever fails in it.
CyclesEnd ==
    \A t \in Tasks : pc[t] = "signals" ~> pc[t] \in {"waiting", "done"}

\* A stop request returns: the task it waits for does end.
StopsReturn == stopper.pc = "stopping" ~> stopper.pc # "stopping"

\* Whatever is under way comes to an end: cycles and stop requests.
WorkEnds == CyclesEnd /\ StopsReturn

\* Unless somebody starts again, a stop ends every loop, a lost one included.
StopEndsEveryLoop == stop_event ~> (~stop_event \/ \A t \in Tasks : ~Alive(t))

(***************************************************************************)
(* Properties the documentation states and the code does not have.         *)
(***************************************************************************)
\* routers/auto.py, start: "a second call while already running is a no-op".
OneLoopAtATime ==
    \A t, u \in Tasks : Alive(t) /\ Alive(u) => t = u

\* orchestrator.py, emergency_stop: "a failed close is still reported, not
\* silently dropped".
FailedClosesAreReported == unreported = {}

\* models.py, square_off_time: "at/after which every open auto-managed position
\* is force-exited regardless of any other condition".
SquareOffLeavesNoLong ==
    \A t \in Tasks :
      /\ running = t
      /\ pc[t] = "entries"
      /\ cycle[t].todo = {}
      /\ IsSquareOffTime(cycle[t].now)
      => \A symbol \in TrackedSymbols : tracked[symbol].side = "SELL"

\* orchestrator.py, _monitor_exits: "Closed by something other than this
\* orchestrator (a manual /api/v1/paper/order call) -- stop tracking it".
NoExitOfAClosedPosition ==
    [][\A t \in Tasks, symbol \in Symbols :
         pc[t] = "quote" /\ running' = t => ~Opens(symbol)]_autoVars
=============================================================================
