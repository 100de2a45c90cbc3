--------------------------- MODULE MCOptionChains ---------------------------
(***************************************************************************)
(* Two editions of a small scrip master: the second lists other contracts, *)
(* and gives a token of the first to another contract.                     *)
(***************************************************************************)
EXTENDS OptionChains

Row(name, segment, kind, symbol, expiry, strike, token) ==
    [name |-> name, segment |-> segment, kind |-> kind, symbol |-> symbol,
     expiry |-> expiry, strike |-> strike, token |-> token]

Spot == Row("nifty", "NSE", "AMXIDX", <<"nifty 50", "">>, {}, {}, {9})
Placeholder == Row("nifty", "NSE", "", <<"nifty", "">>, {}, {}, {8})
Equity == Row("sbin", "NSE", "", <<"sbin", "EQ">>, {}, {}, {7})
Call1(token) == Row("nifty", "NFO", "OPTIDX", <<"nifty 1 100", "CE">>, {1}, {100}, {token})
Put1(token) == Row("nifty", "NFO", "OPTIDX", <<"nifty 1 100", "PE">>, {1}, {100}, {token})
Broken == Row("nifty", "NFO", "OPTIDX", <<"nifty 1 ?", "CE">>, {1}, {}, {6})
Tokenless == Row("nifty", "NFO", "OPTIDX", <<"nifty 2 100", "CE">>, {2}, {100}, {})
StockCall == Row("sbin", "NFO", "OPTSTK", <<"sbin 1 50", "CE">>, {1}, {50}, {5})

TwoEditions ==
    <<{Spot, Placeholder, Equity, Call1(1), Put1(2), Broken, StockCall},
      {Spot, Placeholder, Equity, Call1(2), Tokenless}>>
=============================================================================
