----------------------------- MODULE MCRiskGate -----------------------------
(* RiskGate on a small instance: two markets, with a token each. *)
EXTENDS RiskGate, TLC

MCTokens == {"yes", "other"}
MCMarkets == {"m1", "m2"}
MCMarketOf == ("yes" :> "m1") @@ ("other" :> "m2")

\* Prices in ticks of a cent, at which the detectors find the tokens; manual orders
\* and the exchange's fills may be at others.
MCPrice == ("yes" :> 60) @@ ("other" :> 20)
MCManualPrices == ("yes" :> {40}) @@ ("other" :> {20})
MCFillPrices == {70}

Trade(t, s) == [token |-> t, side |-> s, price |-> MCPrice[t]]

\* Buying all outcomes of an event, buying one outcome (resolution sniping), and
\* selling one.
BuyEvent == [legs |-> <<Trade("yes", "buy"), Trade("other", "buy")>>, size |-> 2,
             markets |-> <<"m1", "m2">>]
BuyOne == [legs |-> <<Trade("yes", "buy")>>, size |-> 3, markets |-> <<"m1">>]
SellOne == [legs |-> <<Trade("yes", "sell")>>, size |-> 2, markets |-> <<"m1">>]

MCOpportunities == {BuyEvent, BuyOne, SellOne}
=============================================================================
