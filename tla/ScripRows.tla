------------------------------ MODULE ScripRows ------------------------------
(***************************************************************************)
(* What the options code reads from the rows of Angel One's scrip master:  *)
(* the symbol index of app/brokers/angel_one_instruments.py, the option    *)
(* rows of app/options/option_chain_service.py and the spot rows of        *)
(* app/options/underlying_resolver.py.                                     *)
(*                                                                         *)
(* A row is a record of name, segment, kind (instrumenttype), symbol (a    *)
(* base and a suffix), and expiry, strike, token: sets, empty if the field *)
(* is missing or cannot be parsed.  A strike is in rupees here.            *)
(***************************************************************************)
EXTENDS Naturals, Sequences, FiniteSets

Base(symbol) == symbol[1]
Suffix(symbol) == symbol[2]

\* _build_index: rows without a token are not indexed.
BuildIndex(rows) ==
    UNION {{<<<<row.segment, row.symbol>>, token>> : token \in row.token} : row \in rows}

\* What the index takes for granted: two rows of one symbol with tokens, if
\* there are any, have the same one.
SymbolsAreUnique(rows) ==
    \A row, other \in rows :
      /\ row.segment = other.segment /\ row.symbol = other.symbol
      /\ row.token # {} /\ other.token # {}
      => row.token = other.token

Tokens(index, segment, symbol) == {entry[2] : entry \in {e \in index : e[1] = <<segment, symbol>>}}

\* resolve: a bare cash symbol is tried with -EQ as well.  The set is empty for
\* InstrumentNotFoundError.
ResolveIn(index, exchange, symbol) ==
    LET exact == Tokens(index, exchange, symbol)
    IN  IF exact = {} /\ exchange \in {"NSE", "BSE"} /\ Suffix(symbol) # "EQ"
        THEN Tokens(index, exchange, <<Base(symbol), "EQ">>)
        ELSE exact

-----------------------------------------------------------------------------
IsMatchingOptionRow(row, underlying) ==
    /\ row.name = underlying
    /\ row.segment = "NFO"
    /\ row.kind \in {"OPTIDX", "OPTSTK"}
    /\ Suffix(row.symbol) \in {"CE", "PE"}

\* _parse_row: nothing for a row without an expiry or a strike; a token may be
\* missing.
ParseRow(row) ==
    {[expiry |-> expiry, strike |-> strike, type |-> Suffix(row.symbol),
      symbol |-> row.symbol, token |-> row.token] :
       expiry \in row.expiry, strike \in row.strike}

\* fetch_option_instruments: empty for InvalidOptionChainDataError.
OptionInstruments(rows, underlying) ==
    UNION {ParseRow(row) : row \in {r \in rows : IsMatchingOptionRow(r, underlying)}}

-----------------------------------------------------------------------------
\* _is_matching_row: the underlying's own row on NSE, no cash equity and no
\* derivative.
IsSpotRow(row, underlying) ==
    /\ row.name = underlying
    /\ row.segment = "NSE"
    /\ Suffix(row.symbol) # "EQ"
    /\ row.kind \notin {"OPTIDX", "OPTSTK", "FUTIDX", "FUTSTK"}

\* The quotable index rows if there are any; which of several the length of the
\* symbol decides is left open.
SpotSymbols(rows, underlying) ==
    LET matches == {row \in rows : IsSpotRow(row, underlying)}
        quotable == {row \in matches : row.kind = "AMXIDX"}
    IN  {row.symbol : row \in IF quotable = {} THEN matches ELSE quotable}
=============================================================================
