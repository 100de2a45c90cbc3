----------------------------- MODULE OptionRisk -----------------------------
(***************************************************************************)
(* The entry gate of option paper trading: app/options/risk.py.  As in     *)
(* AutoRisk, a risk record is the state of one OptionRiskManager and every *)
(* operator returns the record a method leaves behind.  Orders placed by   *)
(* hand and by the automatic loop share one manager.                       *)
(***************************************************************************)
EXTENDS Integers

CONSTANTS
    DayLength,           \* ticks of the clock to an IST day
    MaxLotsPerOrder,     \* max_lots_per_order
    MaxPremiumPerOrder,  \* max_premium_per_order
    MaxPremiumExposure,  \* max_premium_exposure
    MaxDailyLoss         \* max_daily_loss

ASSUME OptionRiskAssumption ==
    {DayLength, MaxLotsPerOrder, MaxPremiumPerOrder, MaxPremiumExposure, MaxDailyLoss}
      \subseteq Nat \ {0}

NoDay == -1

Day(now) == now \div DayLength

FreshRisk == [day |-> NoDay, daily_realized_pnl |-> 0]

\* _roll_day_if_needed: any other day, an earlier one too, starts from zero.
RollDay(risk, now) ==
    IF risk.day = Day(now) THEN risk ELSE [FreshRisk EXCEPT !.day = Day(now)]

\* Mutant of OrderAllowed: what is already deployed is not counted.
OrderAllowedAlone(risk, lots_, value, exposure) ==
    /\ risk.daily_realized_pnl > -MaxDailyLoss
    /\ lots_ <= MaxLotsPerOrder
    /\ value <= MaxPremiumPerOrder
    /\ value <= MaxPremiumExposure

\* check_order_allowed, for a record whose day has been rolled.
OrderAllowed(risk, lots_, value, exposure) ==
    /\ risk.daily_realized_pnl > -MaxDailyLoss
    /\ lots_ <= MaxLotsPerOrder
    /\ value <= MaxPremiumPerOrder
    /\ exposure + value <= MaxPremiumExposure

\* Mutant of RecordTradeClosed: a loss is recorded for the position, not
\* added to those of the day.
RecordLastClosed(risk, pnl, now) ==
    IF pnl = 0 THEN risk ELSE [RollDay(risk, now) EXCEPT !.daily_realized_pnl = pnl]

\* record_trade_closed; exit_option_position calls it for a P&L other than 0.
RecordTradeClosed(risk, pnl, now) ==
    IF pnl = 0 THEN risk ELSE [RollDay(risk, now) EXCEPT !.daily_realized_pnl = @ + pnl]
=============================================================================
