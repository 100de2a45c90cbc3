------------------------------ MODULE AutoRisk ------------------------------
(***************************************************************************)
(* The entry gate of automatic equity trading: app/auto/risk.py.           *)
(*                                                                         *)
(* A risk record is the state of one AutoRiskManager; every operator       *)
(* returns the record a method leaves behind.  Time is counted in ticks,   *)
(* DayLength of them to an IST day.                                        *)
(***************************************************************************)
EXTENDS Integers

CONSTANTS
    DayLength,
    MaxOpenPositions,  \* max_open_positions
    MaxDailyTrades,    \* max_daily_trades
    MaxDailyLoss,      \* max_daily_loss
    CooldownAfter,     \* cooldown_after_consecutive_losses
    CooldownTicks      \* cooldown_minutes

ASSUME AutoRiskAssumption ==
    /\ DayLength \in Nat \ {0}
    /\ MaxOpenPositions \in Nat \ {0}
    /\ MaxDailyTrades \in Nat \ {0}
    /\ MaxDailyLoss \in Nat \ {0}
    /\ CooldownAfter \in Nat \ {0}
    /\ CooldownTicks \in Nat \ {0}

NoDay == -1

Day(now) == now \div DayLength

\* reset; cooldown_until is 0 for None, which no time is before.
FreshRisk ==
    [day |-> NoDay, trades_today |-> 0, daily_realized_pnl |-> 0,
     consecutive_losses |-> 0, cooldown_until |-> 0]

\* _roll_day_if_needed: the streak and the cooldown outlive midnight.
RollDay(risk, now) ==
    IF risk.day = Day(now) THEN risk
    ELSE [risk EXCEPT !.day = Day(now), !.trades_today = 0, !.daily_realized_pnl = 0]

\* Mutant of EntryAllowed: the count of open positions is not looked at.
EntryAllowedUncounted(risk, open_position_count, now) ==
    /\ now >= risk.cooldown_until
    /\ risk.trades_today < MaxDailyTrades
    /\ risk.daily_realized_pnl > -MaxDailyLoss

\* check_entry_allowed, for a record whose day has been rolled.
EntryAllowed(risk, open_position_count, now) ==
    /\ now >= risk.cooldown_until
    /\ open_position_count < MaxOpenPositions
    /\ risk.trades_today < MaxDailyTrades
    /\ risk.daily_realized_pnl > -MaxDailyLoss

RecordTradeOpened(risk, now) ==
    [RollDay(risk, now) EXCEPT !.trades_today = @ + 1]

\* Mutant of RecordTradeClosed: a winning close buys the cooldown back.
RecordCloseForgives(risk, pnl, now) ==
    LET r == [RollDay(risk, now) EXCEPT !.daily_realized_pnl = @ + pnl]
        losses == r.consecutive_losses + 1
    IN  IF pnl >= 0 THEN [r EXCEPT !.consecutive_losses = 0, !.cooldown_until = 0]
        ELSE [r EXCEPT !.consecutive_losses = losses,
                       !.cooldown_until = IF losses >= CooldownAfter
                                          THEN now + CooldownTicks ELSE @]

\* record_trade_closed: a win ends the streak, never a cooldown.
RecordTradeClosed(risk, pnl, now) ==
    LET r == [RollDay(risk, now) EXCEPT !.daily_realized_pnl = @ + pnl]
        losses == r.consecutive_losses + 1
    IN  IF pnl >= 0 THEN [r EXCEPT !.consecutive_losses = 0]
        ELSE [r EXCEPT !.consecutive_losses = losses,
                       !.cooldown_until = IF losses >= CooldownAfter
                                          THEN now + CooldownTicks ELSE @]
=============================================================================
