----------------------------- MODULE Strategies -----------------------------
(***************************************************************************)
(* From readings of the indicators to one recommendation: the strategies   *)
(* of app/strategy/strategies, their vote (app/strategy/engine.py) and the *)
(* instructor (app/instructor/recommendation.py), as operators.            *)
(*                                                                         *)
(* A reading holds what a strategy tells apart: on which side of another   *)
(* value one lies, whether a threshold is reached, and the levels a stop   *)
(* is taken from.  Levels are multiples of 12, so that targets at 1.5 and  *)
(* 2.5 times the risk, and averages over three strategies, are integral.   *)
(* Confidences are left out.                                               *)
(***************************************************************************)
EXTENDS Integers, Sequences, FiniteSets, Functions

CONSTANT Levels   \* prices

ASSUME StrategiesAssumption == Levels \subseteq {12 * n : n \in 1..20}

None == 0

Strategy == {"EMA_TREND", "RSI_MACD_REVERSAL", "VWAP_VOLUME_BREAKOUT"}
Sides == {-1, 0, 1}   \* below, level with, above

\* _no_signal
NoSignal == [direction |-> "NONE", entry |-> None, stop_loss |-> None, targets |-> <<>>]

Sign(direction) == IF direction = "BULLISH" THEN 1 ELSE -1

\* The stop and the two targets of a setup.
Setup(direction, close, stop) ==
    LET risk == Sign(direction) * (close - stop)
    IN  [direction |-> direction, entry |-> close, stop_loss |-> stop,
         targets |-> <<close + Sign(direction) * ((3 * risk) \div 2),
                       close + Sign(direction) * ((5 * risk) \div 2)>>]

\* The stop lies where the setup would lose.
Risked(direction, close, stop) ==
    IF direction = "BULLISH" THEN stop < close ELSE stop > close

Proposal(direction, close, stop) ==
    IF direction # "NONE" /\ stop # None /\ Risked(direction, close, stop)
    THEN Setup(direction, close, stop)
    ELSE NoSignal

-----------------------------------------------------------------------------
\* The fast average against the slow one, the ADX threshold, the direction of
\* SuperTrend and its band on that side.
EmaReadings(close) ==
    [warm : BOOLEAN, cross : Sides, trending : BOOLEAN, supertrend : {-1, 1},
     band : Levels \cup {None}]

EmaTrend(reading, close) ==
    Proposal(IF ~reading.warm \/ ~reading.trending \/ reading.cross # reading.supertrend
             THEN "NONE"
             ELSE IF reading.cross = 1 THEN "BULLISH" ELSE "BEARISH",
             close, reading.band)

\* Which extreme RSI has just left, the side of the MACD histogram, and the
\* lowest and highest price of the last candles, the latest one included.
RsiReadings(close) ==
    [warm : BOOLEAN, left : {"oversold", "overbought", "neither"}, histogram : Sides,
     low : {px \in Levels : px <= close}, high : {px \in Levels : px >= close}]

RsiMacdReversal(reading, close) ==
    IF reading.warm /\ reading.left = "oversold" /\ reading.histogram = 1
    THEN Proposal("BULLISH", close, reading.low)
    ELSE IF reading.warm /\ reading.left = "overbought" /\ reading.histogram = -1
    THEN Proposal("BEARISH", close, reading.high)
    ELSE NoSignal

\* The previous close against the previous VWAP, VWAP now, and the volume
\* threshold.
VwapReadings(close) ==
    [warm : BOOLEAN, previous : Sides, vwap : Levels, heavy : BOOLEAN]

VwapVolumeBreakout(reading, close) ==
    IF ~reading.warm \/ ~reading.heavy THEN NoSignal
    ELSE IF reading.previous <= 0 /\ close > reading.vwap
    THEN Proposal("BULLISH", close, reading.vwap)
    ELSE IF reading.previous >= 0 /\ close < reading.vwap
    THEN Proposal("BEARISH", close, reading.vwap)
    ELSE NoSignal

\* What each strategy can say of a candle closing at close.
Outcomes(strategy, close) ==
    CASE strategy = "EMA_TREND" -> {EmaTrend(reading, close) : reading \in EmaReadings(close)}
      [] strategy = "RSI_MACD_REVERSAL" ->
           {RsiMacdReversal(reading, close) : reading \in RsiReadings(close)}
      [] strategy = "VWAP_VOLUME_BREAKOUT" ->
           {VwapVolumeBreakout(reading, close) : reading \in VwapReadings(close)}

\* The validators of StrategySignal and of InstructorRecommendation.
Coherent(direction, plan) ==
    direction # "NONE" =>
      /\ plan.entry > 0 /\ plan.stop_loss > 0
      /\ Sign(direction) * (plan.entry - plan.stop_loss) > 0
      /\ \A i \in DOMAIN plan.targets :
           /\ Sign(direction) * (plan.targets[i] - plan.entry) > 0
           /\ i > 1 => Sign(direction) * (plan.targets[i] - plan.targets[i - 1]) >= 0

-----------------------------------------------------------------------------
Voters(signals, direction) == {s \in Strategy : signals[s].direction = direction}

\* _merge_into_confluence: the strict majority of those with a setup.
Vote(signals) ==
    LET bullish == Cardinality(Voters(signals, "BULLISH"))
        bearish == Cardinality(Voters(signals, "BEARISH"))
    IN  IF bullish > bearish THEN "BULLISH"
        ELSE IF bearish > bullish THEN "BEARISH"
        ELSE "NONE"

Average(value) == SumFunction(value) \div Cardinality(DOMAIN value)

\* Mutant of Plan: every signal is averaged, the dissenting ones too.
PlanOfAll(signals) ==
    LET voters == {s \in Strategy : signals[s].direction # "NONE"}
    IN  IF Vote(signals) = "NONE" THEN NoSignal
        ELSE [direction |-> Vote(signals),
              entry |-> Average([s \in voters |-> signals[s].entry]),
              stop_loss |-> Average([s \in voters |-> signals[s].stop_loss]),
              targets |-> [i \in 1..2 |-> Average([s \in voters |-> signals[s].targets[i]])]]

\* _consolidate_trade_plan: the levels of those who agree, averaged.
Plan(signals) ==
    LET voters == Voters(signals, Vote(signals))
    IN  IF Vote(signals) = "NONE" THEN NoSignal
        ELSE [direction |-> Vote(signals),
              entry |-> Average([s \in voters |-> signals[s].entry]),
              stop_loss |-> Average([s \in voters |-> signals[s].stop_loss]),
              targets |-> [i \in 1..2 |-> Average([s \in voters |-> signals[s].targets[i]])]]

\* _DIRECTION_TO_ACTION
Action(direction) ==
    CASE direction = "BULLISH" -> "BUY"
      [] direction = "BEARISH" -> "SELL"
      [] direction = "NONE" -> "HOLD"

\* generate_recommendation
Recommendation(signals) ==
    [action |-> Action(Vote(signals)), plan |-> Plan(signals),
     confirmation_count |->
       IF Vote(signals) = "NONE" THEN 0 ELSE Cardinality(Voters(signals, Vote(signals)))]
=============================================================================
