------------------------------- MODULE Replay -------------------------------
(***************************************************************************)
(* The replays of one historical session: run_replay of                    *)
(* app/backtest/replay_engine.py trades an equity, run_options_replay of   *)
(* app/backtest/options_replay.py one option of an underlying, each on a   *)
(* paper engine of its own (MarketAccount) that nobody else uses.          *)
(*                                                                         *)
(* Candles are uncovered one ahead: the code looks at the candle after the *)
(* current one to fill an exit, and at no later one.  What the strategies  *)
(* make of the candles so far is a free choice among Signals.  Prices are  *)
(* multiples of 10, so that slippage is integral.  Charges are reported    *)
(* beside the account, never taken from it, and are left out.              *)
(***************************************************************************)
EXTENDS Integers, Sequences, FiniteSets, FiniteSetsExt, Functions

CONSTANTS
    Prices,           \* opens and closes of the candles
    Risks,            \* distances of a recommended stop from the close
    Capital,          \* initial_capital
    SpendOneIn,       \* 1 / capital_fraction_per_trade
    SlippagePercent,  \* cost_model.slippage_percent
    StopLossPercent,  \* of the premium
    TargetPercent,    \* of the premium
    MaxCandles        \* bound: candles of a session

Symbols == {"instrument"}
Instrument == "instrument"

ASSUME ReplayAssumption ==
    /\ Prices \subseteq {10 * n : n \in 1..10}
    /\ Risks \subseteq Nat \ {0}
    /\ {Capital, SlippagePercent, StopLossPercent, TargetPercent} \subseteq Nat
    /\ {SpendOneIn, MaxCandles} \subseteq Nat \ {0}

VARIABLES
    kind,         \* "equity" or "options"
    at,           \* where the replay is in the candle: "open", "signal",
                  \* "resolve", "trade"; or "over"
    left,         \* candles after the current one
    candle,       \* candles[i]; of an option, [close |-> 0] until it trades
    following,    \* candles[i + 1]
    signal,       \* the recommendation made of candles[..i]
    pending,      \* pending_entry
    position,     \* position
    contract,     \* resolved_option_type, "none" before
    cash, lots,   \* the replay's paper engine
    equity,       \* the last point of equity_curve
    trades,       \* the records so far: their number and gross_pnl summed
    last_trade,   \* the latest record
    rejected      \* history: the engine has rejected a close

INSTANCE MarketAccount

candleVars == <<kind, left, candle, following>>
engineVars == <<cash, lots>>
resultVars == <<equity, trades, last_trade, rejected>>
replayVars == <<candleVars, at, signal, pending, position, contract, engineVars, resultVars>>

Signals ==
    [action : {"BUY", "SELL"}, risk : Risks, confident : BOOLEAN]
      \cup {[action |-> "HOLD", risk |-> 0, confident |-> FALSE]}
Candles == [open : Prices, close : Prices]

NoSignal == [action |-> "NONE"]
NoEntry == [side |-> "NONE"]
NoPosition == [side |-> "NONE"]
NoTrade == [side |-> "NONE"]
NoCandle == [open |-> 0, close |-> 0]

Qualifies(s) == s.action # "HOLD" /\ s.confident
IsFinal == left = 0

\* apply_slippage: worse for whoever trades.
Slipped(px, side) == px + Sign(side) * ((px * SlippagePercent) \div 100)

\* _ACTION_TO_OPTION_TYPE.
OptionType(action) == IF action = "BUY" THEN "CE" ELSE "PE"

-----------------------------------------------------------------------------
(***************************************************************************)
(* The engine.                                                             *)
(***************************************************************************)
\* int(available_cash * capital_fraction_per_trade // execution_price).
Quantity(side, px) == cash \div (SpendOneIn * Slipped(px, side))

\* Nothing is ordered when the cash buys no unit, nor at a price below 0 (a
\* slippage of more than 100%); a short is sized alike.
OpensPosition(side, px) ==
    /\ Slipped(px, side) > 0
    /\ Quantity(side, px) >= 1
    /\ Filled(side, Quantity(side, px), Slipped(px, side))

\* _open_position and _open_option_position.
Opens(side, px, about) ==
    IF OpensPosition(side, px)
    THEN /\ FillOrder(Instrument, side, Quantity(side, px), Slipped(px, side))
         /\ position' = [side |-> side, quantity |-> Quantity(side, px),
                         fill |-> Slipped(px, side), best |-> Slipped(px, side),
                         stop |-> about.stop, target |-> about.target,
                         trailing |-> about.trailing]
    ELSE /\ position' = NoPosition
         /\ UNCHANGED engineVars

\* _close_position and _close_option_position.  The caller forgets the
\* position whatever comes of the order.
Closes(px) ==
    LET side == Opposite(position.side)
        fill == Slipped(px, side)
        pnl  == PnlOf(Instrument, side, position.quantity, fill)
    IN  /\ MarketOrder(Instrument, side, position.quantity, fill)
        /\ position' = NoPosition
        /\ IF Filled(side, position.quantity, fill)
           THEN /\ trades' = [count |-> trades.count + 1, gross |-> trades.gross + pnl]
                /\ last_trade' = [side |-> position.side, quantity |-> position.quantity,
                                  entry |-> position.fill, exit |-> fill, gross |-> pnl]
                /\ UNCHANGED rejected
           ELSE /\ rejected' = TRUE
                /\ UNCHANGED <<trades, last_trade>>

KeepsPosition == UNCHANGED <<position, engineVars, trades, last_trade, rejected>>

\* _mark_equity: update_price, then the equity of get_portfolio.
Marks(px) ==
    equity' = cash' + px * (IF lots'[Instrument] = <<>> THEN 0
                            ELSE Sign(lots'[Instrument][1].side) * Len(lots'[Instrument]))

\* The next candle of an equity.
NextCandle ==
    IF IsFinal
    THEN /\ at' = "over"
         /\ UNCHANGED candleVars
    ELSE /\ at' = "open"
         /\ left' = left - 1
         /\ candle' = following
         /\ following' \in IF left' = 0 THEN {NoCandle} ELSE Candles
         /\ UNCHANGED kind

-----------------------------------------------------------------------------
(***************************************************************************)
(* One candle of an equity.                                                *)
(***************************************************************************)
\* What was scheduled at the previous candle is executed at this one's open.
ExecutesEntry ==
    /\ kind = "equity" /\ at = "open"
    /\ at' = "signal"
    /\ pending' = NoEntry
    /\ IF pending # NoEntry THEN Opens(pending.side, candle.open, pending)
       ELSE UNCHANGED <<position, engineVars>>
    /\ UNCHANGED <<candleVars, signal, contract, resultVars>>

\* The strategies see the candles up to this one.
Recommends ==
    /\ at = "signal"
    /\ signal' \in Signals
    /\ at' = IF kind = "options" /\ contract = "none" /\ Qualifies(signal')
             THEN "resolve" ELSE "trade"
    /\ UNCHANGED <<candleVars, pending, position, contract, engineVars, resultVars>>

TrailingStop(px) ==
    IF position.side = "BUY"
    THEN position.best > position.fill /\ px <= position.best - position.trailing
    ELSE position.best < position.fill /\ px >= position.best + position.trailing

\* Mutant of MustExit: the end of the session is not looked at.
MustExitOnPrice(px) ==
    IF position.side = "BUY" THEN px <= position.stop \/ px >= position.target
    ELSE px >= position.stop \/ px <= position.target

\* _exit_reason is not None.
MustExit(px) ==
    \/ IsFinal
    \/ IF position.side = "BUY" THEN px <= position.stop \/ px >= position.target
       ELSE px >= position.stop \/ px <= position.target
    \/ TrailingStop(px)
    \/ Qualifies(signal) /\ signal.action # position.side

Ratchets(px) ==
    position' = [position EXCEPT !.best =
                   IF position.side = "BUY" THEN Max({@, px}) ELSE Min({@, px})]

\* Mutant of Schedules: the open position is not looked at.
SchedulesAnyway ==
    pending' = IF Qualifies(signal) /\ ~IsFinal
               THEN [side |-> signal.action, trailing |-> signal.risk,
                     stop |-> candle.close - Sign(signal.action) * signal.risk,
                     target |-> candle.close + Sign(signal.action) * ((3 * signal.risk) \div 2)]
               ELSE NoEntry

\* An entry for the next open, if the replay is flat.  The first target of
\* every strategy lies one and a half times as far from the close as the stop.
Schedules ==
    pending' = IF position' = NoPosition /\ Qualifies(signal) /\ ~IsFinal
               THEN [side |-> signal.action, trailing |-> signal.risk,
                     stop |-> candle.close - Sign(signal.action) * signal.risk,
                     target |-> candle.close + Sign(signal.action) * ((3 * signal.risk) \div 2)]
               ELSE NoEntry

\* Exits at the next open, at the close of the final candle; then the entry,
\* the mark, and the next candle.
TradesEquity ==
    /\ kind = "equity" /\ at = "trade"
    /\ IF position = NoPosition THEN KeepsPosition
       ELSE IF MustExit(candle.close)
       THEN Closes(IF IsFinal THEN candle.close ELSE following.open)
       ELSE /\ Ratchets(candle.close)
            /\ UNCHANGED <<engineVars, trades, last_trade, rejected>>
    /\ Schedules
    /\ Marks(candle.close)
    /\ NextCandle
    /\ UNCHANGED <<signal, contract>>

-----------------------------------------------------------------------------
(***************************************************************************)
(* One candle of an option.  candle.close is the close of the contract's   *)
(* last candle at or before the underlying's, 0 while it has none.         *)
(***************************************************************************)
\* The contract is picked from today's chain for the first qualifying signal,
\* and its candles are fetched.
ResolvesContract ==
    /\ at = "resolve"
    /\ at' = "trade"
    /\ contract' = OptionType(signal.action)
    /\ \E px \in Prices \cup {0} : candle' = [NoCandle EXCEPT !.close = px]
    /\ UNCHANGED <<kind, left, following, signal, pending, position, engineVars, resultVars>>

\* No contract, or no candles of it: a warning, and the replay ends here.
FindsNoContract ==
    /\ at = "resolve"
    /\ at' = "over"
    /\ UNCHANGED <<candleVars, signal, pending, position, contract, engineVars, resultVars>>

MustExitOption(px) ==
    \/ IsFinal
    \/ 100 * (px - position.fill) <= -StopLossPercent * position.fill
    \/ 100 * (px - position.fill) >= TargetPercent * position.fill
    \/ Qualifies(signal) /\ OptionType(signal.action) # contract

EntersOption ==
    /\ position = NoPosition
    /\ Qualifies(signal) /\ OptionType(signal.action) = contract
    /\ ~IsFinal
    /\ candle # NoCandle

NextOptionCandle ==
    IF IsFinal
    THEN /\ at' = "over"
         /\ UNCHANGED candleVars
    ELSE /\ at' = "signal"
         /\ left' = left - 1
         /\ IF contract = "none" THEN UNCHANGED candle
            ELSE \E px \in Prices \cup (IF candle = NoCandle THEN {0} ELSE {}) :
                   candle' = [NoCandle EXCEPT !.close = px]
         /\ UNCHANGED <<kind, following>>

TradesOption ==
    /\ kind = "options" /\ at = "trade"
    /\ IF EntersOption
       THEN /\ Opens("BUY", candle.close, [stop |-> 0, target |-> 0, trailing |-> 0])
            /\ UNCHANGED <<trades, last_trade, rejected>>
       ELSE IF position # NoPosition /\ MustExitOption(candle.close)
       THEN Closes(candle.close)
       ELSE KeepsPosition
    /\ Marks(candle.close)
    /\ NextOptionCandle
    /\ UNCHANGED <<signal, pending, contract>>

-----------------------------------------------------------------------------
\* A fresh replay with n candles.
StartsReplay(of, n) ==
    /\ kind' = of
    /\ at' = IF of = "equity" THEN "open" ELSE "signal"
    /\ left' = n - 1
    /\ candle' \in IF of = "equity" THEN Candles ELSE {NoCandle}
    /\ following' \in IF of = "equity" /\ n > 1 THEN Candles ELSE {NoCandle}
    /\ signal' = NoSignal
    /\ pending' = NoEntry
    /\ position' = NoPosition
    /\ contract' = "none"
    /\ cash' = Capital
    /\ lots' = [symbol \in Symbols |-> <<>>]
    /\ equity' = Capital
    /\ trades' = [count |-> 0, gross |-> 0]
    /\ last_trade' = NoTrade
    /\ rejected' = FALSE

ReplayInit ==
    /\ kind = "equity" /\ at = "over" /\ left = 0
    /\ candle = NoCandle /\ following = NoCandle
    /\ signal = NoSignal /\ pending = NoEntry /\ position = NoPosition
    /\ contract = "none"
    /\ AccountInit(Capital)
    /\ equity = Capital
    /\ trades = [count |-> 0, gross |-> 0] /\ last_trade = NoTrade /\ rejected = FALSE

ReplayNext ==
    \/ ExecutesEntry
    \/ Recommends
    \/ TradesEquity
    \/ ResolvesContract
    \/ FindsNoContract
    \/ TradesOption
=============================================================================
