------------------------------- MODULE MCGuards -----------------------------
(* Every guard on a small instance. *)
EXTENDS Guards

MCMarkets == {"m1", "m2"}
MCClients == {"c1", "c2"}
MCCategories == {"risk", "feed"}
MCKinds == {"IntraMarket", "MultiOutcome"}
MCRealized == {-2, 0, 1}

\* A good prediction, one at the half-size threshold, a wrong one.
MCErrors == {4, 36, 81}

\* Three markets of two tokens, one of them an event's, one that is closing, one
\* with a single token that is dropped.
MCListed == <<"m1", "m2", "m3", "m4", "m5">>
MCKind == [m \in ToSet(MCListed) |->
              CASE m = "m2" -> "closing" [] m = "m4" -> "event" [] OTHER -> "binary"]
MCTokensOf == [m \in ToSet(MCListed) |->
                  CASE m = "m5" -> <<"t5">> [] OTHER -> <<m \o "y", m \o "n">>]

MCHandlers == {"h1", "h2"}
MCVersions == {"short", "long", "bad"}
MCSane == {"short", "long"}
MCLength == [v \in MCVersions |-> IF v = "long" THEN 3 ELSE 2]

MCTickTokens == <<2, 1>>
MCZeroPriced == {<<1, 2>>}

MCShells == {"s1", "s2"}
MCOtherFiles == {"KILL_SWITCH", "positions.json"}
MCApprovals == <<"usdc-exchange", "ctf-exchange", "usdc-negrisk", "ctf-negrisk">>
MCUpgraders == {"u1", "u2"}
=============================================================================
