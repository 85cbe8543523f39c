---------------------------- MODULE MCMarketScan ----------------------------
(* MarketScan on small instances: an event of two binary markets. *)
EXTENDS MarketScan, TLC

MCMarkets == {"a", "b"}
MCTokens == {"aYes", "aNo", "bYes", "bNo"}
MCTokensOf == ("a" :> <<"aYes", "aNo">>) @@ ("b" :> <<"bYes", "bNo">>)
MCEventOf == [m \in MCMarkets |-> "e"]

\* Loaded with prices that add up to a dollar, and with less.
MCMids == {[m \in MCMarkets |-> 10], [m \in MCMarkets |-> 5]}
=============================================================================
