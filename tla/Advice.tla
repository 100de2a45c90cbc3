------------------------------- MODULE Advice -------------------------------
(***************************************************************************)
(* One recommendation, from the request to the answer: get_signal of       *)
(* app/api/v1/routers/signals.py for an equity, and                        *)
(* generate_option_recommendation of app/options/recommendation.py for an  *)
(* underlying's options.  Requests share no state of their own; the chain  *)
(* an option request waits for may be the one cached yesterday, and what   *)
(* it is asked for is decided before it arrives.                           *)
(***************************************************************************)
EXTENDS Strategies, OptionSelection

CONSTANTS
    Chains,       \* chains the chain service may answer with
    StrikeModes,  \* Settings.option_strike_mode
    ExpiryModes,  \* Settings.option_expiry_mode
    Days          \* what date.today() may say

\* A chain is a finite table; expiries and days are counted alike.
ASSUME AdviceAssumption ==
    /\ \A chain \in Chains :
         /\ IsFiniteSet(chain)
         /\ \A c \in chain : c.expiry \in Nat /\ c.strike \in Nat
    /\ StrikeModes \subseteq {"ATM", "ITM", "OTM"}
    /\ ExpiryModes \subseteq {"NEAREST_WEEKLY", "NEXT_WEEKLY", "MONTHLY"}
    /\ Days \subseteq Nat

VARIABLES
    at,          \* the await or computation the request is in; "idle" before,
                 \* at last "answered" or "failed"
    about,       \* "equity" or "option"
    close,       \* the close of the latest candle
    signals,     \* what the strategies that have run say
    advice,      \* the instructor's recommendation
    strike_mode, expiry_mode, today,
    chain,       \* the chain the contract is picked from
    contract,    \* the contract picked
    error        \* the exception the request ends with

adviceVars == <<at, about, close, signals, advice, strike_mode, expiry_mode, today,
                chain, contract, error>>

Untold == [strategy \in Strategy |-> NoSignal]
NoAdvice == [action |-> "NONE"]
NoContract == [type |-> "NONE"]

\* _ACTION_TO_OPTION_TYPE
OptionType(action) == IF action = "BUY" THEN "CE" ELSE "PE"

AdviceInit ==
    /\ at = "idle"
    /\ about \in {"equity", "option"}
    /\ close = None
    /\ signals = Untold
    /\ advice = NoAdvice
    /\ strike_mode \in StrikeModes
    /\ expiry_mode \in ExpiryModes
    /\ today \in Days
    /\ chain = {} /\ contract = NoContract
    /\ error = "none"

Fails(why) ==
    /\ at' = "failed"
    /\ error' = why
    /\ UNCHANGED <<about, close, signals, advice, strike_mode, expiry_mode, today, chain, contract>>

\* fetch_recent_candles: the underlying resolved, the candles fetched and
\* sound; only the latest close goes on.
FetchesCandles ==
    /\ at = "idle"
    /\ \E px \in Levels : close' = px
    /\ at' = "EMA_TREND"
    /\ UNCHANGED <<about, signals, advice, strike_mode, expiry_mode, today, chain, contract, error>>

\* No such underlying, no candles, a candle that is none, too few of them for
\* an indicator, or the broker failing.
FindsNoCandles ==
    /\ at = "idle"
    /\ Fails("no data")

\* The options route answers only in its trading mode and with a chain service.
RefusesOptions ==
    /\ at = "idle" /\ about = "option"
    /\ Fails("no options")

NextOf(strategy) ==
    CASE strategy = "EMA_TREND" -> "RSI_MACD_REVERSAL"
      [] strategy = "RSI_MACD_REVERSAL" -> "VWAP_VOLUME_BREAKOUT"
      [] strategy = "VWAP_VOLUME_BREAKOUT" -> "instructor"

\* analyze_precomputed: one strategy after another; a signal its own
\* validator refuses ends the request.
Analyzes ==
    /\ at \in Strategy
    /\ \E signal \in Outcomes(at, close) :
         IF Coherent(signal.direction, signal)
         THEN /\ signals' = [signals EXCEPT ![at] = signal]
              /\ at' = NextOf(at)
              /\ UNCHANGED <<about, close, advice, strike_mode, expiry_mode, today,
                             chain, contract, error>>
         ELSE Fails("incoherent")

\* generate_recommendation; for an option, HOLD leaves the chain alone.
Instructs ==
    /\ at = "instructor"
    /\ IF Coherent(Vote(signals), Plan(signals))
       THEN /\ advice' = Recommendation(signals)
            /\ at' = IF about = "equity" \/ advice'.action = "HOLD" THEN "answered" ELSE "chain"
            /\ UNCHANGED <<about, close, signals, strike_mode, expiry_mode, today,
                           chain, contract, error>>
       ELSE Fails("incoherent")

FetchesChain ==
    /\ at = "chain"
    /\ chain' \in Chains
    /\ at' = "select"
    /\ UNCHANGED <<about, close, signals, advice, strike_mode, expiry_mode, today, contract, error>>

FindsNoChain ==
    /\ at = "chain"
    /\ Fails("no chain")

TheExpiry == SelectExpiry(Expiries(chain), expiry_mode, today)
TheStrike == SelectStrike(StrikesOf(chain, TheExpiry), close, OptionType(advice.action), strike_mode)

\* The contract is looked up in the chain it was picked from, and its price
\* asked for.
SelectsContract ==
    /\ at = "select"
    /\ IF TheExpiry = NoExpiry THEN Fails("no expiry")
       ELSE IF ~IsListed(chain, TheExpiry, TheStrike, OptionType(advice.action))
       THEN Fails("no contract")
       ELSE /\ contract' = Contract(TheExpiry, TheStrike, OptionType(advice.action))
            /\ at' = "premium"
            /\ UNCHANGED <<about, close, signals, advice, strike_mode, expiry_mode, today,
                           chain, error>>

QuotesPremium ==
    /\ at = "premium"
    /\ at' = "answered"
    /\ UNCHANGED <<about, close, signals, advice, strike_mode, expiry_mode, today,
                   chain, contract, error>>

FindsNoPremium ==
    /\ at = "premium"
    /\ Fails("no premium")

AdviceNext ==
    \/ FetchesCandles
    \/ FindsNoCandles
    \/ RefusesOptions
    \/ Analyzes
    \/ Instructs
    \/ FetchesChain
    \/ FindsNoChain
    \/ SelectsContract
    \/ QuotesPremium
    \/ FindsNoPremium

AdviceSpec == AdviceInit /\ [][AdviceNext]_adviceVars

-----------------------------------------------------------------------------
(***************************************************************************)
(* Properties                                                              *)
(***************************************************************************)

\* No setup a strategy proposes, and no average of those that won the vote, is
\* one the validators of StrategySignal and InstructorRecommendation refuse:
\* they would end the whole request with an error nobody handles, whatever the
\* other strategies say.
AdviceIsCoherent == error # "incoherent"

\* A recommended option can still be traded and is the one its mode names:
\* listed, not expired, a call for a BUY and a put for a SELL; at the money, no
\* listed strike is nearer; out of the money it has no intrinsic value, and in
\* the money it has one, unless the chain ends before such a strike
\* (ExpirySelector, StrikeSelector, instrument_for).
ContractIsAsAsked ==
    contract # NoContract =>
      LET strikes == StrikesOf(chain, contract.expiry)
          intrinsic == IF advice.action = "BUY" THEN close - contract.strike
                       ELSE contract.strike - close
          furthest == IF (advice.action = "BUY") = (strike_mode = "OTM")
                      THEN Max(strikes) ELSE Min(strikes)
      IN  /\ contract \in chain
          /\ contract.expiry >= today
          /\ contract.type = "CE" <=> advice.action = "BUY"
          /\ strike_mode = "ATM" =>
               \A strike \in strikes : Distance(contract.strike, close) <= Distance(strike, close)
          /\ strike_mode = "OTM" => intrinsic < 0 \/ contract.strike = furthest
          /\ strike_mode = "ITM" => intrinsic > 0 \/ contract.strike = furthest
=============================================================================
