-------------------------- MODULE OptionSelection --------------------------
(***************************************************************************)
(* Which contract of a chain a recommendation becomes:                     *)
(* app/options/models.py, expiry_selector.py and strike_selector.py, as    *)
(* operators.  A chain is the set of its contracts.                        *)
(***************************************************************************)
EXTENDS Integers, FiniteSets, FiniteSetsExt

CONSTANT MonthLength   \* days to a month

ASSUME OptionSelectionAssumption == MonthLength \in Nat \ {0}

NoExpiry == -1
NoStrike == -1

Contract(expiry, strike, type) == [expiry |-> expiry, strike |-> strike, type |-> type]

Expiries(chain) == {c.expiry : c \in chain}

\* strikes_for_expiry: of calls and puts alike.
StrikesOf(chain, expiry) == {c.strike : c \in {d \in chain : d.expiry = expiry}}

\* instrument_for is not None.
IsListed(chain, expiry, strike, type) == Contract(expiry, strike, type) \in chain

Upcoming(expiries, today) == {expiry \in expiries : expiry >= today}

Month(expiry) == expiry \div MonthLength

\* ExpirySelector.select; NoExpiry stands for ExpiryNotFoundError.
SelectExpiry(expiries, mode, today) ==
    LET upcoming == Upcoming(expiries, today)
        monthly  == {expiry \in upcoming :
                       \A other \in upcoming : Month(other) = Month(expiry) => other <= expiry}
    IN  CASE upcoming = {} -> NoExpiry
          [] upcoming # {} /\ mode = "NEAREST_WEEKLY" -> Min(upcoming)
          [] upcoming # {} /\ mode = "NEXT_WEEKLY" ->
               IF Cardinality(upcoming) < 2 THEN NoExpiry ELSE Min(upcoming \ {Min(upcoming)})
          [] upcoming # {} /\ mode = "MONTHLY" -> Min(monthly)

Distance(strike, px) == IF strike >= px THEN strike - px ELSE px - strike

\* _atm_index: of two strikes equally far from the price, the lower.
AtmStrike(strikes, px) ==
    Min({strike \in strikes : \A other \in strikes : Distance(strike, px) <= Distance(other, px)})

\* Mutant of MovesUp: calls and puts move alike.
MovesUpAlike(mode, type) == mode = "OTM"

MovesUp(mode, type) ==
    (mode = "OTM" /\ type = "CE") \/ (mode = "ITM" /\ type = "PE")

\* StrikeSelector.select with steps = 1: the next strike up or down, at the end
\* of the list none but the one at the money.  NoStrike stands for
\* StrikeNotFoundError.
SelectStrike(strikes, px, type, mode) ==
    LET atm   == AtmStrike(strikes, px)
        above == {strike \in strikes : strike > atm}
        below == {strike \in strikes : strike < atm}
    IN  IF strikes = {} THEN NoStrike
        ELSE IF mode = "ATM" THEN atm
        ELSE IF MovesUp(mode, type) THEN (IF above = {} THEN atm ELSE Min(above))
        ELSE (IF below = {} THEN atm ELSE Max(below))
=============================================================================
