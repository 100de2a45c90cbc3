--------------------------- MODULE OptionTrading ---------------------------
(***************************************************************************)
(* Option paper trading: the automatic loop of app/options/auto_trading.py,*)
(* the orders of app/api/v1/routers/options.py, and the entry and exit of  *)
(* app/options/paper_trading.py that both call, on one paper account and   *)
(* one risk gate (OptionRisk).                                             *)
(*                                                                         *)
(* An actor is a task of the loop or a client of the routes.  Control      *)
(* changes hands only at an await that really waits: for a recommendation, *)
(* for the chain and the premium of an entry, for the quotes of an exit,   *)
(* for the poll interval, and in stop() for the cancelled task.  `running` *)
(* is the task between two of them.  Nothing the trading code keeps is     *)
(* read or written between the awaits of a recommendation, nor between     *)
(* those of chain and premium, so each of these pairs is one await here.   *)
(* Requests carry no bracket levels, as the loop's own entries do not.     *)
(***************************************************************************)
EXTENDS OptionRisk, Sequences, FiniteSets, Functions

CONSTANTS
    Underlyings,       \* config.underlyings
    Contracts,         \* tradingsymbols of the chains
    UnderlyingOf,      \* the underlying of each contract
    Nothing,           \* no task, no underlying, no contract
    Tasks,             \* bound: loop tasks alive at once
    Clients,           \* bound: route requests in progress at once
    MaxRequests,       \* bound: route requests in all
    MaxCycles,         \* bound: cycles of the loop in all
    MaxClock,          \* bound: the clock stops here
    Premiums,          \* premiums the broker quotes
    Capital,
    LotSize,           \* units to a lot, from the chain or the default
    LotsPerTrade,      \* lots_per_trade of the loop
    ManualLots,        \* lots a client may ask for
    MaxOpenPositions,  \* max_open_positions
    ExitTime,          \* tick of the day positions are squared off at
    SessionClose,      \* tick of the day the session ends at
    StopLossPercent, TargetPercent

ASSUME OptionTradingAssumption ==
    /\ IsFiniteSet(Underlyings)
    /\ IsFiniteSet(Contracts)
    /\ UnderlyingOf \in [Contracts -> Underlyings]
    /\ Nothing \notin Underlyings \cup Contracts \cup Tasks \cup Clients
    /\ Tasks \cap Clients = {}
    /\ Premiums \subseteq Nat \ {0}
    /\ {LotSize, LotsPerTrade, MaxOpenPositions} \subseteq Nat \ {0}
    /\ ManualLots \subseteq Nat \ {0}
    /\ {Capital, MaxRequests, MaxCycles, MaxClock, ExitTime, SessionClose, TargetPercent} \subseteq Nat
    /\ StopLossPercent \in 1..100

VARIABLES
    handle,      \* _task
    stop_event,  \* _stop_event.is_set()
    cancelled,   \* tasks whose cancel() has been called
    stopper,     \* the task a stop request is waiting for, or Nothing
    tracked,     \* _positions: the _AutoOptionPosition of each underlying
    risk,        \* the OptionRiskManager
    pc,          \* where each actor is: "idle", "waiting" out the poll
                 \* interval, running in "exits" or "entries", or waiting for
                 \* "advice", "premium", "quote" or "exitquote"
    job,         \* the locals of each actor
    running,     \* the task between two awaits, or Nothing
    cash, lots,  \* the paper account
    clock,
    requests,    \* requests made so far
    cycles,      \* cycles begun so far
    intrusions,  \* history: what has disturbed the bookkeeping
    realized     \* history: the P&L of the clock's day

INSTANCE MarketAccount WITH Symbols <- Contracts

requestVars == <<handle, stop_event, cancelled, stopper>>
actorVars == <<pc, job, running>>
accountVars == <<cash, lots>>
tradeVars == <<tracked, risk, accountVars, realized>>
worldVars == <<clock, requests, cycles, intrusions>>
optionVars == <<requestVars, actorVars, tradeVars, worldVars>>

Actors == Tasks \cup Clients
Untracked == [contract |-> Nothing]
TrackedUnderlyings == {u \in Underlyings : tracked[u] # Untracked}

\* snapshot: the positions listed by the exit pass; unpriced: history, those
\* of them that could not be checked.
NoJob == [now |-> 0, todo |-> {}, exited |-> {}, unpriced |-> {}, at |-> Nothing,
          contract |-> Nothing, lots |-> 0, quantity |-> 0,
          snapshot |-> [u \in Underlyings |-> Untracked]]

Alive(t) == pc[t] # "idle"
IsRunning == handle # Nothing /\ Alive(handle)
NobodyRuns == running = Nothing
Resumes(a, place) == NobodyRuns /\ pc[a] = place /\ a \notin cancelled

\* The loop passes the time its cycle began at to entries, exits and the risk
\* gate; a route lets them take the time of the call.
NowOf(a) == IF a \in Tasks THEN job[a].now ELSE clock

Exposure == Deployed(Contracts)
IsExitTime(now) == now % DayLength >= ExitTime

\* fill_price * (1 - stop_loss_percent / 100) and (1 + target_percent / 100).
HitsStop(position, px) == 100 * px <= position.entry_premium * (100 - StopLossPercent)
HitsTarget(position, px) == 100 * px >= position.entry_premium * (100 + TargetPercent)

\* The reason of _monitor_exits is not None.
MustExit(position, px, now) ==
    IsExitTime(now) \/ HitsStop(position, px) \/ HitsTarget(position, px)

-----------------------------------------------------------------------------
(***************************************************************************)
(* Where an actor goes when a call is over.                                *)
(***************************************************************************)
\* A task's cycle is over, normally or by an exception.
CycleOver(t) ==
    /\ pc' = [pc EXCEPT ![t] = "waiting"]
    /\ job' = [job EXCEPT ![t] = NoJob]
    /\ running' = Nothing

\* Back in a pass of the cycle, with the call's locals dropped.
GoesOn(t, pass, exited, unpriced) ==
    /\ pc' = [pc EXCEPT ![t] = pass]
    /\ job' = [job EXCEPT ![t].at = Nothing, ![t].contract = Nothing, ![t].lots = 0,
                          ![t].quantity = 0, ![t].exited = @ \cup exited,
                          ![t].unpriced = @ \cup unpriced]
    /\ running' = t

\* A client has its answer.
Answered(c) ==
    /\ pc' = [pc EXCEPT ![c] = "idle"]
    /\ job' = [job EXCEPT ![c] = NoJob]
    /\ UNCHANGED running

EntryOver(a) == IF a \in Tasks THEN GoesOn(a, "entries", {}, {}) ELSE Answered(a)

-----------------------------------------------------------------------------
(***************************************************************************)
(* enter_option_position                                                   *)
(***************************************************************************)
\* From the recommendation to the premium: a lot count out of bounds raises.
AskPremium(a, contract, count) ==
    IF count <= MaxLotsPerOrder
    THEN /\ pc' = [pc EXCEPT ![a] = "premium"]
         /\ job' = [job EXCEPT ![a].contract = contract, ![a].lots = count]
         /\ running' = Nothing
    ELSE EntryOver(a)

\* _maybe_enter after the order: only a COMPLETE one is tracked.
Track(t, filled, px) ==
    tracked' = IF filled
               THEN [tracked EXCEPT ![job[t].at] =
                       [contract |-> job[t].contract, entry_premium |-> px]]
               ELSE tracked

\* The premium has arrived: risk check and order, with no await between them.
EnterAt(a, px) ==
    LET quantity == job[a].lots * LotSize
        rolled   == RollDay(risk, NowOf(a))
        filled   == /\ OrderAllowed(rolled, job[a].lots, quantity * px, Exposure)
                    /\ Filled("BUY", quantity, px)
    IN  /\ Resumes(a, "premium")
        /\ risk' = rolled
        /\ IF filled
           THEN /\ FillOrder(job[a].contract, "BUY", quantity, px)
                /\ realized' = realized + PnlOf(job[a].contract, "BUY", quantity, px)
           ELSE UNCHANGED <<accountVars, realized>>
        /\ IF a \in Tasks THEN Track(a, filled, px) ELSE UNCHANGED tracked
        /\ intrusions' = intrusions \cup
             (IF a \in Clients /\ filled THEN {"entry_by_hand"} ELSE {})
        /\ EntryOver(a)
        /\ UNCHANGED <<requestVars, clock, requests, cycles>>

\* The chain or the premium cannot be had.
PremiumFails(a) ==
    /\ Resumes(a, "premium")
    /\ EntryOver(a)
    /\ UNCHANGED <<requestVars, tradeVars, worldVars>>

-----------------------------------------------------------------------------
(***************************************************************************)
(* exit_option_position                                                    *)
(***************************************************************************)
\* Another actor has read the same position and waits for its quote.
Overlaps(a, contract) ==
    \E b \in Actors \ {a} : pc[b] = "exitquote" /\ job[b].contract = contract

\* The position is read, and its quote asked for.
AskExitQuote(a, contract, quantity) ==
    /\ pc' = [pc EXCEPT ![a] = "exitquote"]
    /\ job' = [job EXCEPT ![a].contract = contract, ![a].quantity = quantity]
    /\ running' = Nothing
    /\ intrusions' = intrusions \cup
         (IF Overlaps(a, contract) THEN {"overlapping_exits"} ELSE {})

\* The quote has arrived: an opposite order for the quantity read before the
\* await.  The loop forgets the position whether or not the order completed;
\* when another loop has forgotten it first, a KeyError ends the cycle.
ExitAt(a, px) ==
    LET contract == job[a].contract
        long     == job[a].quantity > 0
        side     == IF long THEN "SELL" ELSE "BUY"
        size     == IF long THEN job[a].quantity ELSE -job[a].quantity
        pnl      == IF Filled(side, size, px) THEN PnlOf(contract, side, size, px) ELSE 0
    IN  /\ Resumes(a, "exitquote")
        /\ MarketOrder(contract, side, size, px)
        /\ risk' = RecordTradeClosed(risk, pnl, NowOf(a))
        /\ realized' = realized + pnl
        /\ IF a \in Clients
           THEN Answered(a) /\ UNCHANGED tracked
           ELSE /\ tracked' = [tracked EXCEPT ![job[a].at] = Untracked]
                /\ IF tracked[job[a].at] # Untracked
                   THEN GoesOn(a, "exits", {job[a].at}, {})
                   ELSE CycleOver(a)
        /\ UNCHANGED <<requestVars, worldVars>>

\* Mutant of ExitQuoteFails: the loop forgets what it could not exit.
ExitQuoteForgets(a) ==
    /\ Resumes(a, "exitquote")
    /\ IF a \in Clients THEN Answered(a) /\ UNCHANGED tracked
       ELSE /\ GoesOn(a, "exits", {job[a].at}, {})
            /\ tracked' = [tracked EXCEPT ![job[a].at] = Untracked]
    /\ UNCHANGED <<requestVars, risk, accountVars, realized, worldVars>>

\* The quote cannot be had: the loop keeps the position for its next cycle.
ExitQuoteFails(a) ==
    /\ Resumes(a, "exitquote")
    /\ IF a \in Clients THEN Answered(a) ELSE GoesOn(a, "exits", {}, {job[a].at})
    /\ UNCHANGED <<requestVars, tradeVars, worldVars>>

-----------------------------------------------------------------------------
(***************************************************************************)
(* The loop: _run_loop and _run_cycle, exits first.  The order in which    *)
(* underlyings are visited within a pass is left open.                     *)
(***************************************************************************)
LoopEnds(t) ==
    /\ Resumes(t, "waiting")
    /\ stop_event
    /\ pc' = [pc EXCEPT ![t] = "idle"]
    /\ UNCHANGED <<requestVars, job, running, tradeVars, worldVars>>

BeginCycle(t) ==
    /\ Resumes(t, "waiting")
    /\ ~stop_event
    /\ cycles < MaxCycles
    /\ clock % DayLength < SessionClose
    /\ pc' = [pc EXCEPT ![t] = "exits"]
    /\ job' = [job EXCEPT ![t] = [NoJob EXCEPT !.now = clock, !.todo = TrackedUnderlyings,
                                               !.snapshot = tracked]]
    /\ running' = t
    /\ cycles' = cycles + 1
    /\ UNCHANGED <<requestVars, tradeVars, clock, requests, intrusions>>

\* The task visits underlying u in a pass.
Visits(t, u, pass) == running = t /\ pc[t] = pass /\ u \in job[t].todo

\* The position was closed elsewhere: it is forgotten, once.
ForgetClosed(t, u) ==
    /\ Visits(t, u, "exits")
    /\ ~IsOpen(job[t].snapshot[u].contract)
    /\ tracked' = [tracked EXCEPT ![u] = Untracked]
    /\ IF tracked[u] # Untracked
       THEN /\ job' = [job EXCEPT ![t].todo = @ \ {u}]
            /\ UNCHANGED <<pc, running>>
       ELSE CycleOver(t)
    /\ UNCHANGED <<requestVars, risk, accountVars, realized, worldVars>>

AskQuote(t, u) ==
    /\ Visits(t, u, "exits")
    /\ IsOpen(job[t].snapshot[u].contract)
    /\ pc' = [pc EXCEPT ![t] = "quote"]
    /\ job' = [job EXCEPT ![t].todo = @ \ {u}, ![t].at = u]
    /\ running' = Nothing
    /\ UNCHANGED <<requestVars, tradeVars, worldVars>>

QuoteFails(t) ==
    /\ Resumes(t, "quote")
    /\ GoesOn(t, "exits", {}, {job[t].at})
    /\ UNCHANGED <<requestVars, tradeVars, worldVars>>

\* Mutant of QuoteArrives: the exit is for the quantity that was bought.
QuoteArrivesAsBought(t, px) ==
    LET position == job[t].snapshot[job[t].at]
    IN  /\ Resumes(t, "quote")
        /\ IF MustExit(position, px, job[t].now) /\ IsOpen(position.contract)
           THEN AskExitQuote(t, position.contract, LotsPerTrade * LotSize)
           ELSE GoesOn(t, "exits", {}, {}) /\ UNCHANGED intrusions
        /\ UNCHANGED <<requestVars, tradeVars, clock, requests, cycles>>

\* The quote may ask for an exit, which reads the position again and raises
\* OptionPositionNotFoundError when it has gone.
QuoteArrives(t, px) ==
    LET position == job[t].snapshot[job[t].at]
    IN  /\ Resumes(t, "quote")
        /\ IF MustExit(position, px, job[t].now) /\ IsOpen(position.contract)
           THEN AskExitQuote(t, position.contract, NetQuantity(position.contract))
           ELSE GoesOn(t, "exits", {}, {}) /\ UNCHANGED intrusions
        /\ UNCHANGED <<requestVars, tradeVars, clock, requests, cycles>>

EntryCandidates(t) == Underlyings \ job[t].exited

BeginEntries(t) ==
    /\ running = t /\ pc[t] = "exits"
    /\ job[t].todo = {}
    /\ pc' = [pc EXCEPT ![t] = "entries"]
    /\ job' = [job EXCEPT ![t].todo = EntryCandidates(t)]
    /\ UNCHANGED <<requestVars, running, tradeVars, worldVars>>

\* Mutant of HasRoom: the count of open positions is not looked at.
HasRoomAlways(u) == tracked[u] = Untracked

\* The checks of _maybe_enter, made before its awaits.
HasRoom(u) ==
    tracked[u] = Untracked /\ Cardinality(TrackedUnderlyings) < MaxOpenPositions

ConsiderEntry(t, u) ==
    /\ Visits(t, u, "entries")
    /\ IF HasRoom(u)
       THEN /\ pc' = [pc EXCEPT ![t] = "advice"]
            /\ job' = [job EXCEPT ![t].todo = @ \ {u}, ![t].at = u]
            /\ running' = Nothing
       ELSE /\ job' = [job EXCEPT ![t].todo = @ \ {u}]
            /\ UNCHANGED <<pc, running>>
    /\ UNCHANGED <<requestVars, tradeVars, worldVars>>

EndCycle(t) ==
    /\ running = t /\ pc[t] = "entries"
    /\ job[t].todo = {}
    /\ CycleOver(t)
    /\ UNCHANGED <<requestVars, tradeVars, worldVars>>

-----------------------------------------------------------------------------
(***************************************************************************)
(* Recommendations, for the loop and for the order route.                  *)
(***************************************************************************)
\* A contract is recommended; the loop also asks for confidence and
\* confirmations, the route does not.
Advised(a, contract, worthwhile) ==
    /\ Resumes(a, "advice")
    /\ UnderlyingOf[contract] = job[a].at
    /\ IF a \in Tasks
       THEN IF worthwhile THEN AskPremium(a, contract, LotsPerTrade) ELSE EntryOver(a)
       ELSE AskPremium(a, contract, job[a].lots)
    /\ UNCHANGED <<requestVars, tradeVars, worldVars>>

\* NO_TRADE, or the recommendation cannot be made.
NotAdvised(a) ==
    /\ Resumes(a, "advice")
    /\ EntryOver(a)
    /\ UNCHANGED <<requestVars, tradeVars, worldVars>>

-----------------------------------------------------------------------------
(***************************************************************************)
(* The requests.                                                           *)
(***************************************************************************)
\* place_option_paper_order
RequestEntry(c, u, count) ==
    /\ Resumes(c, "idle")
    /\ requests < MaxRequests
    /\ requests' = requests + 1
    /\ pc' = [pc EXCEPT ![c] = "advice"]
    /\ job' = [job EXCEPT ![c].at = u, ![c].lots = count]
    /\ UNCHANGED <<requestVars, running, tradeVars, clock, cycles, intrusions>>

\* exit_option_paper_order; one for no position, or for more than there is,
\* is refused and changes nothing.
RequestExit(c, contract, size) ==
    LET held == NetQuantity(contract)
    IN  /\ Resumes(c, "idle")
        /\ requests < MaxRequests
        /\ requests' = requests + 1
        /\ size \in 1..Len(lots[contract])
        /\ AskExitQuote(c, contract, IF held > 0 THEN size ELSE -size)
        /\ UNCHANGED <<requestVars, tradeVars, clock, cycles>>

\* start; the shared risk gate is not reset.
Start ==
    /\ NobodyRuns
    /\ ~IsRunning
    /\ \E t \in Tasks :
         /\ ~Alive(t) /\ t # stopper
         /\ handle' = t
         /\ pc' = [pc EXCEPT ![t] = "waiting"]
    /\ stop_event' = FALSE
    /\ UNCHANGED <<cancelled, stopper, job, running, tradeVars, worldVars>>

\* stop up to the await of the cancelled task.
StopRequested ==
    /\ NobodyRuns
    /\ stopper = Nothing
    /\ stop_event' = TRUE
    /\ IF IsRunning
       THEN /\ cancelled' = cancelled \cup {handle}
            /\ stopper' = handle
            /\ UNCHANGED handle
       ELSE /\ handle' = Nothing
            /\ UNCHANGED <<cancelled, stopper>>
    /\ UNCHANGED <<actorVars, tradeVars, worldVars>>

\* The cancelled task has ended; _task is cleared, whatever it names by now.
StopReturns ==
    /\ NobodyRuns
    /\ stopper # Nothing /\ ~Alive(stopper)
    /\ handle' = Nothing
    /\ stopper' = Nothing
    /\ intrusions' = intrusions \cup (IF IsRunning THEN {"lost_loop"} ELSE {})
    /\ UNCHANGED <<stop_event, cancelled, actorVars, tradeVars, clock, requests, cycles>>

\* A cancelled task ends at the await it was found at.
CancelArrives(t) ==
    /\ NobodyRuns
    /\ Alive(t) /\ t \in cancelled
    /\ pc' = [pc EXCEPT ![t] = "idle"]
    /\ cancelled' = cancelled \ {t}
    /\ job' = [job EXCEPT ![t] = NoJob]
    /\ UNCHANGED <<handle, stop_event, stopper, running, tradeVars, worldVars>>

Tick ==
    /\ NobodyRuns
    /\ clock < MaxClock
    /\ clock' = clock + 1
    /\ realized' = IF Day(clock') = Day(clock) THEN realized ELSE 0
    /\ intrusions' = intrusions \cup
         (IF /\ Day(clock') # Day(clock)
             /\ \E t \in Tasks : pc[t] \notin {"idle", "waiting"}
          THEN {"cycle_over_midnight"} ELSE {})
    /\ UNCHANGED <<requestVars, actorVars, tracked, risk, accountVars, requests, cycles>>

Init ==
    /\ handle = Nothing /\ stopper = Nothing /\ running = Nothing
    /\ stop_event = FALSE
    /\ cancelled = {}
    /\ tracked = [u \in Underlyings |-> Untracked]
    /\ risk = FreshRisk
    /\ pc = [a \in Actors |-> "idle"]
    /\ job = [a \in Actors |-> NoJob]
    /\ AccountInit(Capital)
    /\ clock = 0 /\ requests = 0 /\ cycles = 0 /\ realized = 0
    /\ intrusions = {}

\* Something an actor waits for arrives, or fails.
ActorNext(a) ==
    \/ \E px \in Premiums : EnterAt(a, px) \/ ExitAt(a, px)
    \/ PremiumFails(a) \/ ExitQuoteFails(a)
    \/ \E contract \in Contracts, worthwhile \in BOOLEAN : Advised(a, contract, worthwhile)
    \/ NotAdvised(a)

TaskNext(t) ==
    \/ LoopEnds(t) \/ BeginCycle(t) \/ BeginEntries(t) \/ EndCycle(t) \/ CancelArrives(t)
    \/ \E u \in Underlyings : ForgetClosed(t, u) \/ AskQuote(t, u) \/ ConsiderEntry(t, u)
    \/ QuoteFails(t)
    \/ \E px \in Premiums : QuoteArrives(t, px)

ClientNext(c) ==
    \/ \E u \in Underlyings, count \in ManualLots : RequestEntry(c, u, count)
    \/ \E contract \in Contracts : \E size \in 1..Len(lots[contract]) :
         RequestExit(c, contract, size)

Next ==
    \/ \E a \in Actors : ActorNext(a)
    \/ \E t \in Tasks : TaskNext(t)
    \/ \E c \in Clients : ClientNext(c)
    \/ Start \/ StopRequested \/ StopReturns
    \/ Tick

Spec == Init /\ [][Next]_optionVars

-----------------------------------------------------------------------------
(***************************************************************************)
(* Properties.                                                             *)
(***************************************************************************)
Undisturbed(by) == intrusions \cap by = {}

\* The premium deployed stays within the limit, whoever enters and however
\* many entries wait for their premium at once: exposure is read after the
\* last await of an entry.  Exits that overlap may write options instead.
ExposureWithinLimit ==
    Undisturbed({"overlapping_exits"}) => Exposure <= MaxPremiumExposure

\* No option is ever written: an exit sells no more than is held although its
\* quantity was read before its quote arrived, by the loop and by clients,
\* unless two exits of one contract were under way at once.
NoOptionIsWritten ==
    Undisturbed({"overlapping_exits"}) =>
      \A contract \in Contracts : NetQuantity(contract) >= 0

\* What the loop has bought is watched for its stop until it is sold: neither
\* a rejected order, a failed quote, a cancellation between order and
\* bookkeeping nor an exit by hand of a part of it makes the loop forget it.
BoughtIsWatched ==
    Undisturbed({"entry_by_hand", "overlapping_exits", "lost_loop"}) =>
      \A contract \in Contracts :
        IsOpen(contract) => tracked[UnderlyingOf[contract]].contract = contract

\* The limit on open positions holds although it is checked two awaits before
\* the position is tracked.
PositionsWithinLimit ==
    Undisturbed({"lost_loop"}) => Cardinality(TrackedUnderlyings) <= MaxOpenPositions

\* When the exit pass of a cycle begun at or after the exit time is over, the
\* positions still held are those it could get no quote for.  Overlapping exits
\* may write an option the loop has already found closed.
ExitPassSquaresOff ==
    \A t \in Tasks :
      /\ Undisturbed({"lost_loop", "entry_by_hand", "overlapping_exits"})
      /\ running = t /\ pc[t] = "exits" /\ job[t].todo = {}
      /\ IsExitTime(job[t].now)
      => \A u \in TrackedUnderlyings :
           IsOpen(tracked[u].contract) => u \in job[t].unpriced

\* What the loop has bought is looked after until it is sold: watched for its
\* stop, and sold at the exit time when there is a quote for it.
BoughtIsLookedAfter == BoughtIsWatched /\ ExitPassSquaresOff

Enters(a) == pc[a] = "premium" /\ pc'[a] # "premium" /\ cash' < cash

\* Once the day's realized loss has reached its limit nothing is entered on
\* that day, by the loop or by hand: no exit goes unrecorded and no restart of
\* the loop clears the record.  A loop that records with the day its cycle
\* began on clears it, and the P&L of an entry that covers an option written
\* by overlapping exits is never recorded.
LossLockHolds ==
    [][Undisturbed({"cycle_over_midnight", "overlapping_exits"}) =>
         \A a \in Actors : Enters(a) => realized > -MaxDailyLoss]_optionVars

\* An underlying the cycle has exited is not entered by the same cycle.
NoReentryInTheSameCycle ==
    [][\A t \in Tasks : Enters(t) => job[t].at \notin job[t].exited]_optionVars

\* Nothing is entered that the day's loss or the cycle's own exit forbids.
EntriesAreAllowed == LossLockHolds /\ NoReentryInTheSameCycle
=============================================================================
