------------------------------ MODULE MCOffers ------------------------------
(* One market of its own, two of an event that are also related to it, and  *)
(* one with a question like the first's, of which no book can be fetched.   *)
EXTENDS Offers

MCMarkets == <<"a", "b", "c", "d">>
MCTokens == ("a" :> <<"aYes", "aNo">>) @@ ("b" :> <<"bYes", "bNo">>)
                @@ ("c" :> <<"cYes", "cNo">>) @@ ("d" :> <<"dYes", "dNo">>)
MCNegRisk == {"b", "c"}
MCSharedPrefix == {"a", "c", "d"}
MCEvents == ("a" :> "e1") @@ ("b" :> "e2") @@ ("c" :> "e2") @@ ("d" :> "e3")

\* The user's word on b and c against the detected pair: any relation at once, the
\* other order, and a file with a slip in it.
MCFiles ==
    {{[a |-> "b", b |-> "c", how |-> h] : h \in {"impliedBy", "exclusive", "custom"}}
        \cup {[a |-> "a", b |-> "c", how |-> "exhaustive"]},
     {[a |-> "c", b |-> "b", how |-> "impliedBy"]},
     {[a |-> "b", b |-> "c", how |-> "impliedBy"], [a |-> "a", b |-> "d", how |-> "implies"]}}

At(p, s) == [price |-> p, size |-> s]

\* Cheap, dear and deep, and with more levels than a walk looks at.
Cheap(t) == Snapshot(t, {At(20, 2)}, {At(30, 1), At(40, 2)})
Dear(t) == Snapshot(t, {At(70, 1), At(60, 2)}, {At(80, 2)})
Thin(t) == Snapshot(t, {At(10, 1)}, {At(20, 1), At(50, 1), At(60, 1)})
OneSided(t) == Snapshot(t, {At(50, 3)}, {})

MCFetches ==
    [m \in {"a", "b", "c", "d"} |->
        LET yes == MCTokens[m][1]
            no == MCTokens[m][2]
        IN  IF m = "d" THEN {}
            ELSE IF m = "a"
            THEN {<<y, n>> : y \in {Cheap(yes), Dear(yes), Thin(yes)},
                             n \in {Cheap(no), Dear(no), Thin(no), OneSided(no)}}
            ELSE {<<Cheap(yes), Dear(no)>>, <<Dear(yes), Dear(no)>>,
                  <<Thin(yes), Cheap(no)>>, <<Cheap(no)>>}]

MCMids == ("a" :> <<40, 50>>) @@ ("b" :> <<70, 30>>) @@ ("c" :> <<50, 40>>)
              @@ ("d" :> <<30, 60>>)
=============================================================================
