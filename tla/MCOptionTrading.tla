-------------------------- MODULE MCOptionTrading --------------------------
(***************************************************************************)
(* Chains for model checking OptionTrading.                                *)
(***************************************************************************)
EXTENDS OptionTrading, TLC

TwoContracts == ("nifty call" :> "NIFTY" @@ "banknifty put" :> "BANKNIFTY")
=============================================================================
