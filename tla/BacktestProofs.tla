---------------------------- MODULE BacktestProofs ----------------------------
(***************************************************************************)
(* Proofs about Backtests, for any histories of candles, capitals, sides   *)
(* and slippages.                                                          *)
(*                                                                         *)
(* While no close has been rejected the engine holds exactly the units of  *)
(* the one entry the session remembers, and cash plus what those units cost*)
(* is the capital plus the gross of the records (EngineFits).  A flat      *)
(* replay has nothing open, so its equity is that sum (EquityFits); and the*)
(* last candle closes whatever is open.                                    *)
(***************************************************************************)
EXTENDS Backtests, SumTheorems, TLAPS

PositionFields == {"side", "quantity", "fill", "best", "stop", "target", "trailing"}

\* The units the one order of an entry opened.
Units(side, n, px) == [i \in 1..n |-> [entry |-> 0, side |-> side, price |-> px]]

UnitsOf(p) == Units(p.side, p.quantity, p.fill)

PositionTyped ==
    position # NoPosition =>
      /\ DOMAIN position = PositionFields
      /\ position.side \in {"BUY", "SELL"}
      /\ position.quantity \in Nat \ {0}
      /\ position.fill \in Int

ReplayTyped ==
    /\ kind \in {"equity", "options"}
    /\ at \in {"open", "signal", "resolve", "trade", "over"}
    /\ left \in Int /\ cash \in Int
    /\ DOMAIN lots = Symbols
    /\ pending # NoEntry => pending.side \in {"BUY", "SELL"}
    /\ at \in {"resolve", "trade"} => signal \in Signals
    /\ PositionTyped

\* Every price that an order can be placed at.
CandlesTyped ==
    /\ candle \in [open : Prices \cup {0}, close : Prices \cup {0}]
    /\ following \in [open : Prices \cup {0}, close : Prices \cup {0}]
    /\ kind = "equity" /\ at # "over" => candle \in Candles
    /\ kind = "equity" /\ left # 0 => following \in Candles
    /\ kind = "options" /\ candle # NoCandle => candle.close \in Prices

\* When a replay may hold a position.
PositionPlaced ==
    /\ pending # NoEntry => position = NoPosition
    /\ at = "over" => position = NoPosition
    /\ kind = "options" => pending = NoEntry
    /\ kind = "options" /\ contract = "none" => position = NoPosition
    /\ at = "resolve" => kind = "options" /\ contract = "none"
    /\ at = "open" => kind = "equity"

\* The engine holds the units of the entry and no others, and its cash is what
\* the records leave of the capital, less what those units cost.
EngineFits ==
    /\ trades.gross \in Int
    /\ lots[Instrument] = IF position = NoPosition THEN <<>> ELSE UnitsOf(position)
    /\ cash + (IF position = NoPosition THEN 0
               ELSE Sign(position.side) * position.quantity * position.fill)
         = Capital + trades.gross

\* A flat replay has marked its equity since its last close.
EquityFits ==
    position = NoPosition => equity = Capital + trades.gross

ReplayInv ==
    /\ ReplayTyped
    /\ CandlesTyped
    /\ PositionPlaced
    /\ ~rejected => EngineFits /\ EquityFits
    /\ RecordsAreRoundTrips

SessionTyped ==
    /\ cached \in [Sessions -> Nat]
    /\ todo \in Seq(Sessions)
    /\ step \in {"fetch", "replay"} => todo # <<>>

BacktestInv == ReplayInv /\ SessionTyped

-----------------------------------------------------------------------------
(***************************************************************************)
(* Prices and quantities.                                                  *)
(***************************************************************************)
LEMMA PricesAreInts == Prices \cup {0} \subseteq Int
BY ReplayAssumption

LEMMA SlippedIsInt ==
  ASSUME NEW px \in Int, NEW side
  PROVE  Slipped(px, side) \in Int
<1>1. SlippagePercent \in Int
  BY ReplayAssumption
<1>2. px * SlippagePercent \in Int
  BY <1>1
<1>3. (px * SlippagePercent) \div 100 \in Int
  <2> DEFINE n == px * SlippagePercent
  <2> HIDE DEF n
  <2>1. n \in Int => n \div 100 \in Int
    OBVIOUS
  <2> QED  BY <1>2, <2>1 DEF n
<1> DEFINE a == (px * SlippagePercent) \div 100
<1> HIDE DEF a
<1>4. a \in Int => Sign(side) * a \in Int
  BY DEF Sign
<1> DEFINE b == Sign(side) * a
<1> HIDE DEF b
<1>5. b \in Int => px + b \in Int
  OBVIOUS
<1> QED  BY <1>3, <1>4, <1>5 DEF a, b, Slipped

\* What is ordered is at least one unit.
LEMMA QuantityType ==
  ASSUME NEW px \in Int, NEW side, cash \in Int, OpensPosition(side, px)
  PROVE  Quantity(side, px) \in Nat \ {0}
<1> DEFINE d == SpendOneIn * Slipped(px, side)
<1>1. Slipped(px, side) \in Nat \ {0}
  BY SlippedIsInt DEF OpensPosition
<1>2. d \in Nat \ {0}
  <2> DEFINE e == Slipped(px, side)
  <2> HIDE DEF e
  <2>1. SpendOneIn \in Nat \ {0}
    BY ReplayAssumption
  <2>2. e \in Nat \ {0} => SpendOneIn * e \in Nat \ {0}
    BY <2>1
  <2> QED  BY <1>1, <2>2 DEF e
<1> HIDE DEF d
<1>3. cash \div d \in Int
  BY <1>2
<1>4. Quantity(side, px) = cash \div d
  BY DEF Quantity, d
<1> QED  BY <1>3, <1>4 DEF OpensPosition

\* The order of an entry, from a flat account, opens its units.
LEMMA FillOpens ==
  ASSUME NEW n \in Nat \ {0}, NEW px \in Int, NEW side,
         DOMAIN lots = Symbols, lots[Instrument] = <<>>,
         FillOrder(Instrument, side, n, px)
  PROVE  /\ DOMAIN lots' = Symbols
         /\ lots'[Instrument] = Units(side, n, px)
<1> DEFINE new == [i \in 1..n |-> [entry |-> 0, side |-> side, price |-> px]]
           u == [entry |-> 0, side |-> side, price |-> px]
<1>1. CloseCount(<<>>, side, n) = 0
  BY DEF CloseCount
<1>2. Kept(<<>>, side, n) = <<>>
  BY <1>1 DEF Kept
<1>3. Opened(<<>>, side, n, px, 0) = new
  BY <1>1 DEF Opened
<1>4. new \in Seq({u})
  OBVIOUS
<1> HIDE DEF new
<1>5. <<>> \o new = new
  BY <1>4
<1>6. lots' = [lots EXCEPT ![Instrument] = new]
  BY <1>2, <1>3, <1>5 DEF FillOrder
<1> QED  BY <1>6 DEF Symbols, Instrument, new, Units

\* The order of a close takes exactly those units.
LEMMA FillCloses ==
  ASSUME NEW n \in Nat \ {0}, NEW px \in Int, NEW entry \in Int, NEW side \in {"BUY", "SELL"},
         DOMAIN lots = Symbols,
         lots[Instrument] = Units(side, n, entry)
  PROVE  /\ PnlOf(Instrument, Opposite(side), n, px) = n * (Sign(side) * (px - entry))
         /\ FillOrder(Instrument, Opposite(side), n, px) =>
              DOMAIN lots' = Symbols /\ lots'[Instrument] = <<>>
<1> DEFINE u == [entry |-> 0, side |-> side, price |-> entry]
           q == lots[Instrument]
           other == Opposite(side)
           v == Sign(side) * (px - entry)
<1>1. /\ q \in Seq({u}) /\ Len(q) = n /\ q # <<>>
      /\ \A i \in 1..n : q[i] = u
  <2>1. [i \in 1..n |-> u] \in Seq({u}) /\ Len([i \in 1..n |-> u]) = n
    OBVIOUS
  <2> QED  BY <2>1 DEF Units
<1>2. other # side
  BY DEF Opposite
<1>3. q[1].side = side
  BY <1>1
<1> HIDE DEF q, other
<1>4. CloseCount(q, other, n) = n
  <2>1. Min({n, n}) = n
    BY LeastOfTwo
  <2> QED  BY <1>1, <1>2, <1>3, <2>1 DEF CloseCount
<1>5. Closed(q, other, n) = q
  BY <1>1, <1>4 DEF Closed
<1>6. RealizedPnl(q, px) = n * v
  <2> DEFINE f == [i \in 1..Len(q) |-> UnitPnl(q[i], px)]
             S == 1..n
  <2>1. DOMAIN f = S /\ IsFiniteSet(S) /\ Cardinality(S) = n
    BY <1>1, IndicesFinite
  <2>2. \A i \in S : f[i] = v
    BY <1>1 DEF UnitPnl
  <2>3. v \in Int
    BY DEF Sign
  <2>4. RealizedPnl(q, px) = SumFunctionOnSet(f, S)
    BY <2>1 DEF RealizedPnl, SumFunction
  <2> HIDE DEF f, S, v
  <2>5. SumFunctionOnSet(f, S) = Cardinality(S) * v
    BY ONLY <2>1, <2>2, <2>3, SumConstant
  <2> QED  BY <2>1, <2>4, <2>5
<1>7. PnlOf(Instrument, other, n, px) = n * v
  BY <1>5, <1>6 DEF PnlOf, q
<1>8. Kept(q, other, n) = <<>>
  BY <1>1, <1>4 DEF Kept
<1>9. Opened(q, other, n, px, 0) = <<>>
  BY <1>4 DEF Opened
<1>10. FillOrder(Instrument, other, n, px) => lots' = [lots EXCEPT ![Instrument] = <<>>]
  <2>1. <<>> \o <<>> = <<>>
    OBVIOUS
  <2> QED  BY <1>8, <1>9, <2>1 DEF FillOrder, q
<1>11. FillOrder(Instrument, other, n, px) => DOMAIN lots' = Symbols /\ lots'[Instrument] = <<>>
  BY <1>10 DEF Symbols, Instrument
<1> QED  BY <1>7, <1>11 DEF other, v

-----------------------------------------------------------------------------
(***************************************************************************)
(* Entries and closes.                                                     *)
(***************************************************************************)
LEMMA SettledCash ==
  ASSUME NEW c \in Int, NEW k \in Int, NEW g \in Int, NEW n \in Int, NEW e \in Int,
         NEW x \in Int, NEW s \in {1, -1}, c + s * n * e = k + g
  PROVE  /\ c - (-s) * n * x = k + (g + n * (s * (x - e)))
         /\ n * (s * (x - e)) = s * n * (x - e)
<1>1. CASE s = 1
  <2>1. c + n * e = k + g
    BY <1>1
  <2>2. n * (x - e) = n * x - n * e
    OBVIOUS
  <2>3. c - (-s) * n * x = c + n * x
    BY <1>1
  <2>4. n * (s * (x - e)) = n * (x - e) /\ s * n * (x - e) = n * (x - e)
    BY <1>1
  <2> QED  BY <2>1, <2>2, <2>3, <2>4
<1>2. CASE s = -1
  <2>1. c - n * e = k + g
    BY <1>2
  <2>2. n * (x - e) = n * x - n * e
    OBVIOUS
  <2>3. c - (-s) * n * x = c - n * x
    BY <1>2
  <2>4. n * (s * (x - e)) = -(n * (x - e)) /\ s * n * (x - e) = -(n * (x - e))
    BY <1>2
  <2> QED  BY <2>1, <2>2, <2>3, <2>4
<1> QED  BY <1>1, <1>2

\* An entry opens what the record of the position says.
LEMMA OpensFits ==
  ASSUME ReplayTyped, position = NoPosition, ~rejected => EngineFits,
         NEW px \in Int, NEW side \in {"BUY", "SELL"}, NEW about, Opens(side, px, about),
         UNCHANGED <<trades, rejected>>
  PROVE  /\ cash' \in Int /\ DOMAIN lots' = Symbols
         /\ PositionTyped'
         /\ ~rejected => EngineFits'
         /\ position' = NoPosition => UNCHANGED <<cash, lots>>
<1>1. CASE ~OpensPosition(side, px)
  <2>1. position' = NoPosition /\ UNCHANGED <<cash, lots>>
    BY <1>1 DEF Opens, engineVars
  <2> QED  BY <2>1 DEF ReplayTyped, PositionTyped, EngineFits, NoPosition
<1>2. CASE OpensPosition(side, px)
  <2> DEFINE n == Quantity(side, px)
             fill == Slipped(px, side)
  <2>1. n \in Nat \ {0} /\ fill \in Int
    BY <1>2, QuantityType, SlippedIsInt DEF ReplayTyped
  <2>2. /\ FillOrder(Instrument, side, n, fill)
        /\ DOMAIN position' = PositionFields
        /\ position'.side = side /\ position'.quantity = n /\ position'.fill = fill
    BY <1>2 DEF Opens, PositionFields
  <2> HIDE DEF n, fill
  <2>3. /\ cash' = cash - Sign(side) * n * fill
        /\ lots' = [lots EXCEPT ![Instrument] =
                      Kept(@, side, n) \o Opened(@, side, n, fill, 0)]
    BY <2>2 DEF FillOrder
  <2>4. cash \in Int /\ DOMAIN lots = Symbols
    BY DEF ReplayTyped
  <2>5. Sign(side) * n * fill \in Int
    <3>1. Sign(side) \in Int
      BY DEF Sign
    <3> DEFINE s == Sign(side)
    <3> HIDE DEF s
    <3>2. s \in Int => s * n * fill \in Int
      BY <2>1
    <3> QED  BY <3>1, <3>2 DEF s
  <2>6. cash' \in Int /\ DOMAIN lots' = Symbols
    BY <2>3, <2>4, <2>5
  <2>7. PositionTyped' /\ position' # NoPosition
    BY <2>1, <2>2 DEF PositionTyped, NoPosition
  <2>8. ASSUME ~rejected PROVE EngineFits'
    <3>1. lots[Instrument] = <<>> /\ cash + 0 = Capital + trades.gross /\ trades.gross \in Int
      BY <2>8 DEF EngineFits
    <3>2. lots'[Instrument] = Units(side, n, fill)
      BY <2>1, <2>2, <2>4, <3>1, FillOpens
    <3>3. UnitsOf(position)' = lots'[Instrument]
      BY <2>2, <3>2 DEF UnitsOf
    <3>4. cash' + Sign(side) * n * fill = Capital + trades.gross
      BY <2>3, <2>4, <2>5, <3>1
    <3> QED  BY <2>2, <2>7, <3>1, <3>3, <3>4 DEF EngineFits
  <2> QED  BY <2>6, <2>7, <2>8
<1> QED  BY <1>1, <1>2

\* A close sells what was bought and records what that made.
LEMMA ClosesFits ==
  ASSUME ReplayTyped, position # NoPosition, ~rejected => EngineFits, RecordsAreRoundTrips,
         NEW px \in Int, Closes(px)
  PROVE  /\ cash' \in Int /\ DOMAIN lots' = Symbols
         /\ position' = NoPosition
         /\ ~rejected' => ~rejected /\ EngineFits'
         /\ RecordsAreRoundTrips'
<1> DEFINE other == Opposite(position.side)
           fill == Slipped(px, other)
           n == position.quantity
           e == position.fill
           s == Sign(position.side)
           pnl == PnlOf(Instrument, other, n, fill)
<1>1. /\ MarketOrder(Instrument, other, n, fill)
      /\ position' = NoPosition
      /\ \/ /\ Filled(other, n, fill)
            /\ trades' = [count |-> trades.count + 1, gross |-> trades.gross + pnl]
            /\ last_trade' = [side |-> position.side, quantity |-> n,
                              entry |-> e, exit |-> fill, gross |-> pnl]
            /\ UNCHANGED rejected
         \/ rejected' = TRUE
  BY DEF Closes
<1>2. /\ position.side \in {"BUY", "SELL"} /\ n \in Nat \ {0} /\ e \in Int /\ fill \in Int
      /\ s \in {1, -1} /\ Sign(other) = -s
      /\ cash \in Int /\ DOMAIN lots = Symbols
  <2>1. position.side \in {"BUY", "SELL"} /\ n \in Nat \ {0} /\ e \in Int
    BY DEF ReplayTyped, PositionTyped
  <2>2. s \in {1, -1} /\ Sign(other) = -s
    BY <2>1 DEF Sign, Opposite
  <2> QED  BY <2>1, <2>2, SlippedIsInt DEF ReplayTyped
<1>3. /\ \/ UNCHANGED <<cash, lots>>
         \/ FillOrder(Instrument, other, n, fill)
      /\ Filled(other, n, fill) => FillOrder(Instrument, other, n, fill)
  BY <1>1 DEF MarketOrder
<1>4. Sign(other) * n * fill \in Int
  <2> HIDE DEF n, fill, s, other
  <2>1. (-s) * n * fill \in Int
    BY <1>2
  <2> QED  BY <1>2, <2>1
<1>5. cash' \in Int /\ DOMAIN lots' = Symbols
  <2>1. CASE FillOrder(Instrument, other, n, fill)
    <3>1. /\ cash' = cash - Sign(other) * n * fill
          /\ DOMAIN lots' = DOMAIN lots
      BY <2>1 DEF FillOrder
    <3> QED  BY <1>2, <1>4, <3>1
  <2>2. CASE UNCHANGED <<cash, lots>>
    BY <1>2, <2>2
  <2> QED  BY <1>3, <2>1, <2>2
<1>6. ASSUME ~rejected' PROVE ~rejected /\ EngineFits' /\ RecordsAreRoundTrips'
  <2>1. /\ FillOrder(Instrument, other, n, fill)
        /\ trades'.gross = trades.gross + pnl
        /\ last_trade' = [side |-> position.side, quantity |-> n,
                          entry |-> e, exit |-> fill, gross |-> pnl]
        /\ ~rejected
    BY <1>1, <1>3, <1>6
  <2>2. /\ lots[Instrument] = UnitsOf(position)
        /\ cash + s * n * e = Capital + trades.gross
        /\ trades.gross \in Int /\ Capital \in Int
    BY <2>1, ReplayAssumption DEF EngineFits
  <2>3. pnl = n * (s * (fill - e)) /\ lots'[Instrument] = <<>>
    <3>1. lots[Instrument] = Units(position.side, n, e)
      BY <2>2 DEF UnitsOf
    <3> DEFINE side == position.side
    <3> HIDE DEF n, e, fill, side
    <3> QED  BY <1>2, <2>1, <3>1, FillCloses DEF side
  <2>4. cash' = cash - (-s) * n * fill
    BY <1>2, <2>1 DEF FillOrder
  <2> HIDE DEF pnl, n, e, fill, s
  <2>5. /\ cash - (-s) * n * fill = Capital + (trades.gross + n * (s * (fill - e)))
        /\ n * (s * (fill - e)) = s * n * (fill - e)
    BY <1>2, <2>2, SettledCash
  <2>6. n * (s * (fill - e)) \in Int
    BY <1>2
  <2>7. EngineFits'
    <3>1. trades'.gross \in Int
      BY <2>1, <2>2, <2>3, <2>6
    <3>2. cash' + 0 = Capital + trades'.gross
      BY <1>5, <2>1, <2>3, <2>4, <2>5
    <3> QED  BY <1>1, <2>3, <3>1, <3>2 DEF EngineFits
  <2>8. RecordsAreRoundTrips'
    <3>1. pnl = s * n * (fill - e)
      BY <2>3, <2>5
    <3> QED  BY <2>1, <3>1 DEF RecordsAreRoundTrips, s
  <2> QED  BY <2>1, <2>7, <2>8
<1>7. rejected' => RecordsAreRoundTrips'
  BY DEF RecordsAreRoundTrips
<1> QED  BY <1>1, <1>5, <1>6, <1>7

\* A mark of a flat replay is its cash.
LEMMA MarksFit ==
  ASSUME NEW px \in Int, Marks(px), cash' \in Int, EngineFits'
  PROVE  EquityFits'
<1> SUFFICES ASSUME position' = NoPosition PROVE equity' = Capital + trades'.gross
  BY DEF EquityFits
<1>1. lots'[Instrument] = <<>> /\ cash' + 0 = Capital + trades'.gross
  BY DEF EngineFits
<1>2. equity' = cash' + px * 0
  BY <1>1 DEF Marks
<1> QED  BY <1>1, <1>2

-----------------------------------------------------------------------------
(***************************************************************************)
(* The steps of a replay.                                                  *)
(***************************************************************************)
\* Steps that leave the engine alone.
LEMMA SameEngine ==
  ASSUME ReplayInv, UNCHANGED <<position, engineVars, resultVars>>
  PROVE  /\ ~rejected' => EngineFits' /\ EquityFits'
         /\ RecordsAreRoundTrips'
         /\ PositionTyped'
         /\ cash' \in Int /\ DOMAIN lots' = Symbols
BY DEF ReplayInv, engineVars, resultVars, EngineFits, EquityFits, RecordsAreRoundTrips,
       PositionTyped, ReplayTyped, UnitsOf, Units

LEMMA ExecutesEntryKeeps ==
  ASSUME ReplayInv, ExecutesEntry
  PROVE  ReplayInv'
<1>1. /\ kind = "equity" /\ at = "open" /\ at' = "signal" /\ pending' = NoEntry
      /\ UNCHANGED <<kind, left, candle, following, signal, contract>>
      /\ UNCHANGED <<equity, trades, last_trade, rejected>>
      /\ candle.open \in Int
  BY PricesAreInts DEF ExecutesEntry, candleVars, resultVars, ReplayInv, CandlesTyped
<1>2. CandlesTyped' /\ RecordsAreRoundTrips'
  BY <1>1 DEF ReplayInv, CandlesTyped, RecordsAreRoundTrips
<1>3. CASE pending = NoEntry
  <2>1. UNCHANGED <<position, engineVars, resultVars>>
    BY <1>1, <1>3 DEF ExecutesEntry, resultVars
  <2> QED
    BY <1>1, <1>2, <2>1, SameEngine DEF ReplayInv, ReplayTyped, PositionPlaced
<1>4. CASE pending # NoEntry
  <2>1. /\ Opens(pending.side, candle.open, pending)
        /\ pending.side \in {"BUY", "SELL"}
        /\ position = NoPosition
    BY <1>4 DEF ExecutesEntry, ReplayInv, ReplayTyped, PositionPlaced
  <2>2. /\ cash' \in Int /\ DOMAIN lots' = Symbols
        /\ PositionTyped'
        /\ ~rejected => EngineFits'
        /\ position' = NoPosition => UNCHANGED <<cash, lots>>
    BY <1>1, <2>1, OpensFits DEF ReplayInv
  <2>3. ~rejected' => EquityFits'
    BY <1>1, <2>1 DEF ReplayInv, EquityFits
  <2>4. PositionPlaced'
    BY <1>1 DEF PositionPlaced
  <2> QED  BY <1>1, <1>2, <2>2, <2>3, <2>4 DEF ReplayInv, ReplayTyped
<1> QED  BY <1>3, <1>4

LEMMA RecommendsKeeps ==
  ASSUME ReplayInv, Recommends
  PROVE  ReplayInv'
<1>1. /\ at = "signal" /\ at' \in {"resolve", "trade"} /\ signal' \in Signals
      /\ at' = "resolve" => kind = "options" /\ contract = "none"
      /\ UNCHANGED <<kind, left, candle, following, pending, contract>>
      /\ UNCHANGED <<position, engineVars, resultVars>>
  BY DEF Recommends, candleVars
<1>2. CandlesTyped'
  BY <1>1 DEF ReplayInv, CandlesTyped
<1>3. PositionPlaced'
  BY <1>1 DEF ReplayInv, PositionPlaced
<1> QED  BY <1>1, <1>2, <1>3, SameEngine DEF ReplayInv, ReplayTyped, resultVars

LEMMA ResolvesContractKeeps ==
  ASSUME ReplayInv, ResolvesContract
  PROVE  ReplayInv'
<1>1. /\ at = "resolve" /\ at' = "trade" /\ kind = "options"
      /\ UNCHANGED <<kind, left, following, signal, pending>>
      /\ UNCHANGED <<position, engineVars, resultVars>>
      /\ position = NoPosition
  BY DEF ResolvesContract, ReplayInv, PositionPlaced
<1>2. CandlesTyped'
  <2>1. PICK px \in Prices \cup {0} : candle' = [NoCandle EXCEPT !.close = px]
    BY DEF ResolvesContract
  <2>2. candle' = [open |-> 0, close |-> px]
    BY <2>1 DEF NoCandle
  <2> QED  BY <1>1, <2>2 DEF ReplayInv, CandlesTyped, NoCandle
<1>3. PositionPlaced'
  BY <1>1 DEF ReplayInv, PositionPlaced
<1> QED  BY <1>1, <1>2, <1>3, SameEngine DEF ReplayInv, ReplayTyped

LEMMA FindsNoContractKeeps ==
  ASSUME ReplayInv, FindsNoContract
  PROVE  ReplayInv'
<1>1. /\ at = "resolve" /\ at' = "over" /\ kind = "options"
      /\ UNCHANGED <<kind, left, candle, following, signal, pending, contract>>
      /\ UNCHANGED <<position, engineVars, resultVars>>
      /\ position = NoPosition
  BY DEF FindsNoContract, candleVars, ReplayInv, PositionPlaced
<1>2. CandlesTyped'
  BY <1>1 DEF ReplayInv, CandlesTyped
<1>3. PositionPlaced'
  BY <1>1 DEF ReplayInv, PositionPlaced
<1> QED  BY <1>1, <1>2, <1>3, SameEngine DEF ReplayInv, ReplayTyped

\* What a candle does to the engine before the mark: nothing, an entry of a
\* flat replay, a close of one that is not, or a better price to trail.
EngineMoved ==
    /\ cash \in Int /\ DOMAIN lots = Symbols
    /\ PositionTyped
    /\ ~rejected => EngineFits
    /\ RecordsAreRoundTrips

LEMMA KeepsFits ==
  ASSUME ReplayInv, KeepsPosition
  PROVE  EngineMoved' /\ position' = position
BY DEF ReplayInv, KeepsPosition, EngineMoved, engineVars, EngineFits, RecordsAreRoundTrips,
       PositionTyped, ReplayTyped, UnitsOf, Units

LEMMA RatchetsFits ==
  ASSUME ReplayInv, position # NoPosition, NEW px, Ratchets(px),
         UNCHANGED <<engineVars, trades, last_trade, rejected>>
  PROVE  EngineMoved'
<1>1. /\ DOMAIN position = PositionFields
      /\ position.side \in {"BUY", "SELL"}
      /\ position.quantity \in Nat \ {0}
      /\ position.fill \in Int
  BY DEF ReplayInv, ReplayTyped, PositionTyped
<1>2. /\ DOMAIN position' = PositionFields
      /\ position'.side = position.side
      /\ position'.quantity = position.quantity
      /\ position'.fill = position.fill
  <2>1. \E best : position' = [position EXCEPT !.best = best]
    BY DEF Ratchets
  <2> QED  BY <1>1, <2>1 DEF PositionFields
<1>3. position' # NoPosition /\ PositionTyped'
  BY <1>1, <1>2 DEF NoPosition, PositionTyped
<1>4. UnitsOf(position)' = UnitsOf(position)
  BY <1>2 DEF UnitsOf, Units
<1>5. ~rejected' => EngineFits'
  BY <1>2, <1>3, <1>4 DEF ReplayInv, EngineFits, engineVars
<1> QED
  BY <1>3, <1>5 DEF EngineMoved, ReplayInv, ReplayTyped, RecordsAreRoundTrips, engineVars

LEMMA TradesEquityKeeps ==
  ASSUME ReplayInv, TradesEquity
  PROVE  ReplayInv'
<1>1. /\ kind = "equity" /\ at = "trade" /\ kind' = kind
      /\ Schedules /\ Marks(candle.close) /\ NextCandle
      /\ signal' = signal /\ contract' = contract
      /\ signal \in Signals
      /\ candle.close \in Int /\ following.open \in Int
      /\ left \in Int
  BY PricesAreInts
  DEF TradesEquity, NextCandle, candleVars, ReplayInv, ReplayTyped, CandlesTyped
<1>2. EngineMoved' /\ (IsFinal => position' = NoPosition)
  <2>1. CASE position = NoPosition
    BY <2>1, KeepsFits DEF TradesEquity
  <2>2. CASE position # NoPosition /\ MustExit(candle.close)
    <3> DEFINE px == IF IsFinal THEN candle.close ELSE following.open
    <3>1. Closes(px) /\ px \in Int
      BY <1>1, <2>2 DEF TradesEquity
    <3> HIDE DEF px
    <3>2. /\ cash' \in Int /\ DOMAIN lots' = Symbols
          /\ position' = NoPosition
          /\ ~rejected' => ~rejected /\ EngineFits'
          /\ RecordsAreRoundTrips'
      BY <2>2, <3>1, ClosesFits DEF ReplayInv
    <3> QED  BY <3>2 DEF EngineMoved, PositionTyped
  <2>3. CASE position # NoPosition /\ ~MustExit(candle.close)
    <3>1. /\ Ratchets(candle.close)
          /\ UNCHANGED <<engineVars, trades, last_trade, rejected>>
      BY <2>3 DEF TradesEquity
    <3>2. ~IsFinal
      BY <2>3 DEF MustExit
    <3> QED  BY <2>3, <3>1, <3>2, RatchetsFits
  <2> QED  BY <2>1, <2>2, <2>3
<1>3. ~rejected' => EngineFits' /\ EquityFits'
  BY <1>1, <1>2, MarksFit DEF EngineMoved
<1>4. /\ pending' # NoEntry => position' = NoPosition /\ ~IsFinal
      /\ pending' # NoEntry => pending'.side \in {"BUY", "SELL"}
  <2>1. CASE position' = NoPosition /\ Qualifies(signal) /\ ~IsFinal
    <3>1. pending'.side = signal.action
      BY <1>1, <2>1 DEF Schedules
    <3>2. signal.action \in {"BUY", "SELL"}
      BY <1>1, <2>1 DEF Signals, Qualifies
    <3> QED  BY <2>1, <3>1, <3>2
  <2>2. CASE ~(position' = NoPosition /\ Qualifies(signal) /\ ~IsFinal)
    BY <1>1, <2>2 DEF Schedules
  <2> QED  BY <2>1, <2>2
<1>5. CASE IsFinal
  <2>1. at' = "over" /\ UNCHANGED <<left, candle, following>>
    BY <1>1, <1>5 DEF NextCandle, candleVars
  <2>2. CandlesTyped'
    BY <1>1, <2>1 DEF ReplayInv, CandlesTyped
  <2>3. PositionPlaced'
    BY <1>1, <1>2, <1>4, <1>5, <2>1 DEF PositionPlaced
  <2>4. ReplayTyped'
    BY <1>1, <1>2, <1>4, <2>1 DEF ReplayInv, ReplayTyped, EngineMoved
  <2> QED  BY <1>2, <1>3, <2>2, <2>3, <2>4 DEF ReplayInv, EngineMoved
<1>6. CASE ~IsFinal
  <2>1. /\ at' = "open" /\ left' = left - 1 /\ candle' = following
        /\ following' \in IF left' = 0 THEN {NoCandle} ELSE Candles
    BY <1>1, <1>6 DEF NextCandle
  <2>2. following \in Candles
    BY <1>1, <1>6 DEF IsFinal, ReplayInv, CandlesTyped
  <2>3. CandlesTyped'
    BY <1>1, <2>1, <2>2 DEF CandlesTyped, Candles, NoCandle
  <2>4. PositionPlaced'
    BY <1>1, <1>4, <2>1 DEF PositionPlaced
  <2>5. ReplayTyped'
    BY <1>1, <1>2, <1>4, <2>1 DEF ReplayInv, ReplayTyped, EngineMoved
  <2> QED  BY <1>2, <1>3, <2>3, <2>4, <2>5 DEF ReplayInv, EngineMoved
<1> QED  BY <1>5, <1>6

LEMMA TradesOptionKeeps ==
  ASSUME ReplayInv, TradesOption
  PROVE  ReplayInv'
<1>1. /\ kind = "options" /\ at = "trade" /\ kind' = kind
      /\ Marks(candle.close) /\ NextOptionCandle
      /\ UNCHANGED <<signal, pending, contract, following>>
      /\ signal \in Signals
      /\ candle.close \in Int
      /\ left \in Int
  BY PricesAreInts
  DEF TradesOption, NextOptionCandle, candleVars, ReplayInv, ReplayTyped, CandlesTyped
<1>2. /\ EngineMoved'
      /\ IsFinal => position' = NoPosition
      /\ contract = "none" => position' = NoPosition
      /\ pending # NoEntry => position' = NoPosition
  <2>1. CASE EntersOption
    <3>1. /\ Opens("BUY", candle.close, [stop |-> 0, target |-> 0, trailing |-> 0])
          /\ UNCHANGED <<trades, last_trade, rejected>>
          /\ position = NoPosition
          /\ pending = NoEntry
      BY <1>1, <2>1 DEF TradesOption, EntersOption, ReplayInv, PositionPlaced
    <3>2. /\ cash' \in Int /\ DOMAIN lots' = Symbols
          /\ PositionTyped'
          /\ ~rejected => EngineFits'
      BY <1>1, <3>1, OpensFits DEF ReplayInv
    <3>3. RecordsAreRoundTrips'
      BY <3>1 DEF ReplayInv, RecordsAreRoundTrips
    <3>4. ~IsFinal /\ contract # "none"
      BY <2>1 DEF EntersOption, OptionType
    <3> QED  BY <3>1, <3>2, <3>3, <3>4 DEF EngineMoved
  <2>2. CASE ~EntersOption /\ position # NoPosition /\ MustExitOption(candle.close)
    <3>1. Closes(candle.close)
      BY <2>2 DEF TradesOption
    <3>2. /\ cash' \in Int /\ DOMAIN lots' = Symbols
          /\ position' = NoPosition
          /\ ~rejected' => ~rejected /\ EngineFits'
          /\ RecordsAreRoundTrips'
      BY <1>1, <2>2, <3>1, ClosesFits DEF ReplayInv
    <3> QED  BY <3>2 DEF EngineMoved, PositionTyped
  <2>3. CASE ~EntersOption /\ ~(position # NoPosition /\ MustExitOption(candle.close))
    <3>1. KeepsPosition
      BY <2>3 DEF TradesOption
    <3>2. IsFinal => position = NoPosition
      BY <2>3 DEF MustExitOption
    <3> QED  BY <1>1, <3>1, <3>2, KeepsFits DEF ReplayInv, PositionPlaced
  <2> QED  BY <2>1, <2>2, <2>3
<1>3. ~rejected' => EngineFits' /\ EquityFits'
  BY <1>1, <1>2, MarksFit DEF EngineMoved
<1>4. /\ \/ IsFinal /\ at' = "over"
         \/ at' = "signal"
      /\ left' \in Int
      /\ \/ candle' = candle
         \/ \E px \in Prices \cup {0} : /\ candle' = [NoCandle EXCEPT !.close = px]
  BY <1>1 DEF NextOptionCandle, candleVars
<1>5. CandlesTyped'
  <2>1. CASE candle' = candle
    BY <1>1, <2>1 DEF ReplayInv, CandlesTyped
  <2>2. CASE \E px \in Prices \cup {0} : candle' = [NoCandle EXCEPT !.close = px]
    <3>1. PICK px \in Prices \cup {0} : candle' = [open |-> 0, close |-> px]
      BY <2>2 DEF NoCandle
    <3> QED  BY <1>1, <3>1 DEF ReplayInv, CandlesTyped, NoCandle
  <2> QED  BY <1>4, <2>1, <2>2
<1>6. PositionPlaced'
  BY <1>1, <1>2, <1>4 DEF ReplayInv, PositionPlaced
<1>7. ReplayTyped'
  BY <1>1, <1>2, <1>4 DEF ReplayInv, ReplayTyped, EngineMoved
<1> QED  BY <1>2, <1>3, <1>5, <1>6, <1>7 DEF ReplayInv, EngineMoved

LEMMA ReplayNextKeeps ==
  ASSUME ReplayInv, ReplayNext
  PROVE  ReplayInv'
BY ExecutesEntryKeeps, RecommendsKeeps, TradesEquityKeeps, ResolvesContractKeeps,
   FindsNoContractKeeps, TradesOptionKeeps
DEF ReplayNext

\* A fresh replay: a new engine, and nothing recorded.
LEMMA FreshFits ==
  ASSUME position = NoPosition, pending = NoEntry, last_trade = NoTrade,
         cash = Capital, equity = Capital, lots = [symbol \in Symbols |-> <<>>],
         trades = [count |-> 0, gross |-> 0]
  PROVE  /\ EngineFits /\ EquityFits
         /\ RecordsAreRoundTrips
         /\ PositionTyped
         /\ cash \in Int /\ DOMAIN lots = Symbols
BY ReplayAssumption
DEF EngineFits, EquityFits, RecordsAreRoundTrips, PositionTyped, Symbols, Instrument

LEMMA StartsReplayInv ==
  ASSUME NEW of \in {"equity", "options"}, NEW n \in Nat \ {0}, StartsReplay(of, n)
  PROVE  ReplayInv'
<1>1. /\ kind' = of /\ at' = (IF of = "equity" THEN "open" ELSE "signal")
      /\ left' = n - 1 /\ left' \in Int
      /\ candle' \in IF of = "equity" THEN Candles ELSE {NoCandle}
      /\ following' \in IF of = "equity" /\ n > 1 THEN Candles ELSE {NoCandle}
      /\ position' = NoPosition /\ pending' = NoEntry /\ contract' = "none"
  BY DEF StartsReplay
<1>2. /\ EngineFits' /\ EquityFits'
      /\ RecordsAreRoundTrips'
      /\ PositionTyped'
      /\ cash' \in Int /\ DOMAIN lots' = Symbols
  <2>1. /\ last_trade' = NoTrade /\ cash' = Capital /\ equity' = Capital
        /\ lots' = [symbol \in Symbols |-> <<>>]
        /\ trades' = [count |-> 0, gross |-> 0]
    BY DEF StartsReplay
  <2> QED
    BY <1>1, <2>1, ReplayAssumption
    DEF EngineFits, EquityFits, RecordsAreRoundTrips, PositionTyped, Symbols, Instrument
<1>3. CandlesTyped'
  BY <1>1 DEF CandlesTyped, Candles, NoCandle
<1>4. PositionPlaced'
  BY <1>1 DEF PositionPlaced
<1> QED  BY <1>1, <1>2, <1>3, <1>4 DEF ReplayInv, ReplayTyped

-----------------------------------------------------------------------------
(***************************************************************************)
(* The requests.                                                           *)
(***************************************************************************)
LEMMA SameReplay ==
  ASSUME ReplayInv, UNCHANGED replayVars
  PROVE  ReplayInv'
<1>1. /\ UNCHANGED <<kind, left, candle, following, at, signal, pending, position, contract>>
      /\ UNCHANGED <<cash, lots, equity, trades, last_trade, rejected>>
  BY DEF replayVars, candleVars, engineVars, resultVars
<1>2. ReplayTyped' /\ CandlesTyped' /\ PositionPlaced'
  BY <1>1 DEF ReplayInv, ReplayTyped, PositionTyped, CandlesTyped, PositionPlaced
<1> QED
  BY <1>1, <1>2, SameEngine DEF ReplayInv, engineVars, resultVars

LEMMA InitBacktestInv == Init => BacktestInv
<1> SUFFICES ASSUME Init PROVE BacktestInv
  OBVIOUS
<1>1. /\ kind = "equity" /\ at = "over" /\ left = 0
      /\ candle = NoCandle /\ following = NoCandle
      /\ pending = NoEntry /\ position = NoPosition
  BY DEF Init, ReplayInit
<1>2. /\ EngineFits /\ EquityFits
      /\ RecordsAreRoundTrips
      /\ PositionTyped
      /\ cash \in Int /\ DOMAIN lots = Symbols
  BY FreshFits DEF Init, ReplayInit, AccountInit
<1>3. CandlesTyped /\ PositionPlaced
  BY <1>1 DEF CandlesTyped, PositionPlaced, NoCandle
<1>4. SessionTyped
  BY DEF Init, SessionTyped
<1> QED  BY <1>1, <1>2, <1>3, <1>4 DEF BacktestInv, ReplayInv, ReplayTyped

LEMMA FindsCandlesKeeps ==
  ASSUME BacktestInv, FindsCandles
  PROVE  BacktestInv'
<1> DEFINE session == Head(todo)
           of == IF request = "options" THEN "options" ELSE "equity"
<1>1. PICK n \in IF cached[session] > 0 THEN {cached[session]} ELSE 1..MaxCandles :
        cached' = [cached EXCEPT ![session] = n] /\ StartsReplay(of, n)
  BY DEF FindsCandles
<1>2. step = "fetch" /\ todo' = todo
  BY DEF FindsCandles, requestVars
<1>3. todo \in Seq(Sessions) /\ todo # <<>> /\ cached \in [Sessions -> Nat]
  BY <1>2 DEF BacktestInv, SessionTyped
<1>4. session \in Sessions
  BY <1>3
<1> HIDE DEF session
<1>5. n \in Nat \ {0}
  BY <1>1, <1>3, <1>4, ReplayAssumption
<1>6. SessionTyped'
  <2>1. cached' \in [Sessions -> Nat]
    BY <1>1, <1>3, <1>4, <1>5
  <2> QED  BY <1>2, <1>3, <2>1 DEF SessionTyped
<1>7. ReplayInv'
  <2>1. of \in {"equity", "options"}
    OBVIOUS
  <2> HIDE DEF of
  <2> QED  BY <1>1, <1>5, <2>1, StartsReplayInv
<1> QED  BY <1>6, <1>7 DEF BacktestInv

LEMMA NextBacktestInv == BacktestInv /\ [Next]_backtestVars => BacktestInv'
<1> SUFFICES ASSUME BacktestInv, [Next]_backtestVars PROVE BacktestInv'
  OBVIOUS
<1>0. ReplayInv /\ SessionTyped
  BY DEF BacktestInv
<1>1. CASE Requests
  <2>1. UNCHANGED replayVars /\ UNCHANGED cached
    BY <1>1 DEF Requests, fileVars
  <2>2. todo' \in Seq(Sessions) /\ todo' # <<>>
    <3>1. PICK session \in Sessions :
            \/ todo' = <<session>>
            \/ \E other \in Sessions : todo' = <<session, other>>
      BY <1>1 DEF Requests
    <3>2. CASE todo' = <<session>>
      BY <3>2
    <3>3. CASE \E other \in Sessions : todo' = <<session, other>>
      <4>1. PICK other \in Sessions : todo' = <<session, other>>
        BY <3>3
      <4> QED  BY <4>1
    <3> QED  BY <3>1, <3>2, <3>3
  <2> QED  BY <1>0, <2>1, <2>2, SameReplay DEF BacktestInv, SessionTyped
<1>2. ASSUME Fails PROVE BacktestInv'
  <2>1. UNCHANGED replayVars /\ UNCHANGED cached /\ todo' = <<>> /\ step' = "idle"
    BY <1>2 DEF Fails, fileVars
  <2> QED  BY <1>0, <2>1, SameReplay DEF BacktestInv, SessionTyped
<1>3. CASE Refuses
  BY <1>2, <1>3 DEF Refuses
<1>4. CASE FindsCandles
  BY <1>4, FindsCandlesKeeps
<1>5. CASE FindsNone
  BY <1>2, <1>5 DEF FindsNone
<1>6. CASE Replays
  BY <1>0, <1>6, ReplayNextKeeps
  DEF Replays, requestVars, fileVars, BacktestInv, SessionTyped
<1>7. CASE ReplayFails
  BY <1>2, <1>7 DEF ReplayFails
<1>8. CASE SavesResult
  <2>1. /\ UNCHANGED replayVars /\ UNCHANGED cached
        /\ todo' = Tail(todo) /\ todo # <<>>
        /\ step' = IF todo' # <<>> THEN "fetch" ELSE "summary"
    BY <1>0, <1>8 DEF SavesResult, SessionTyped
  <2>2. todo' \in Seq(Sessions)
    BY <1>0, <2>1 DEF SessionTyped
  <2> QED  BY <1>0, <2>1, <2>2, SameReplay DEF BacktestInv, SessionTyped
<1>9. CASE Answers
  BY <1>0, <1>9, SameReplay DEF Answers, BacktestInv, SessionTyped
<1>10. CASE UNCHANGED backtestVars
  BY <1>0, <1>10, SameReplay
  DEF backtestVars, requestVars, fileVars, BacktestInv, SessionTyped
<1> QED
  BY <1>1, <1>3, <1>4, <1>5, <1>6, <1>7, <1>8, <1>9, <1>10 DEF Next

\* The invariant of the backtests (run_replay, run_options_replay and the
\* requests around them), from which the two properties follow.
THEOREM BacktestsStaySound == Spec => []BacktestInv
<1>1. Init => BacktestInv
  BY InitBacktestInv
<1>2. BacktestInv /\ [Next]_backtestVars => BacktestInv'
  BY NextBacktestInv
<1> QED  BY <1>1, <1>2, PTL DEF Spec

\* A replay that is over holds nothing and its trades explain its equity,
\* whatever the candles and the recommendations were, unless the engine
\* rejected a close (_close_position, _mark_equity, summarize).
THEOREM TradesAlwaysExplainCapital == Spec => []TradesExplainCapital
<1>1. BacktestInv => TradesExplainCapital
  BY DEF BacktestInv, ReplayInv, PositionPlaced, EngineFits, EquityFits, TradesExplainCapital
<1> QED  BY <1>1, BacktestsStaySound, PTL

\* The gross_pnl of a record is that of its quantity between its entry and its
\* exit: the close consumed the lots of that entry and no others.
THEOREM RecordsStayRoundTrips == Spec => []RecordsAreRoundTrips
<1>1. BacktestInv => RecordsAreRoundTrips
  BY DEF BacktestInv, ReplayInv
<1> QED  BY <1>1, BacktestsStaySound, PTL
=============================================================================
