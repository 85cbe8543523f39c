-------------------------------- MODULE Agents ------------------------------
(***************************************************************************)
(* The agent-based market simulation, agent_model.rs: in every step each    *)
(* agent orders at the price of the step before, and the price moves by the *)
(* net order flow.                                                         *)
(*                                                                         *)
(* Prices are cents, to which the code does not round, and sizes twentieths *)
(* of a share.  The spreads, which no order looks at, are left out.        *)
(***************************************************************************)
EXTENDS Integers, Sequences, FiniteSets, FiniteSetsExt

CONSTANTS Crowds,     \* sequences of agents
          FirstPrice,
          MaxSteps,
          Draws       \* sizes that may be drawn

\* value: what the agent knows of the price, or its budget.
AgentTypes ==
    {"informed", "noise", "marketMaker", "zeroIntelligence", "momentum", "contrarian",
     "arbitrageur"}
AgentKinds == [type : AgentTypes, value : Nat, width : Nat, lookback : Nat \ {0}]

ASSUME AgentsAssumption ==
    /\ FirstPrice \in 1..99 /\ MaxSteps \in Nat /\ Draws \subseteq Nat
    /\ Crowds \subseteq Seq(AgentKinds)

VARIABLES crowd,      \* the agents
          prices,     \* of every step, the initial price first
          orders,     \* what each agent ordered in each step
          budgets,    \* what each agent has left
          convergence \* the first step within a cent of the target, or 0

agentVars == <<crowd, prices, orders, budgets, convergence>>

Price == prices[Len(prices)]
Abs(x) == IF x < 0 THEN -x ELSE x
Within(x, lo, hi) == IF x < lo THEN lo ELSE IF x > hi THEN hi ELSE x

\* The price a trend is measured against.
Past(lookback) == prices[Len(prices) - lookback + 1]

\* A trend follower's order, five shares to the dollar; none until there are more
\* prices than lookback.
Trend(agent) ==
    IF Len(prices) < agent.lookback + 1 THEN 0
    ELSE LET change == Price - Past(agent.lookback)
         IN  IF Abs(change) > agent.width THEN change ELSE 0

EitherWay(sizes) == sizes \cup {-s : s \in sizes}

(***************************************************************************)
(* generate_agent_order: the flows an agent may order.  An informed agent   *)
(* and an arbitrageur order ten shares to the dollar of mispricing.        *)
(***************************************************************************)
\* As Affordable, of all that it began with.
AffordableAnew(agent, budget) == {s \in Draws : s < agent.value}

\* Less than a tenth of what is left of the budget.
Affordable(agent, budget) == {s \in Draws : 10 * s < budget}

Flows(agent, budget) ==
    CASE agent.type = "informed" ->
            {(IF agent.value > Price THEN 1 ELSE -1) * (2 * Abs(agent.value - Price) + z) :
                z \in Draws}
      [] agent.type = "noise" -> EitherWay(Draws)
      [] agent.type = "marketMaker" -> {0}
      [] agent.type = "zeroIntelligence" -> EitherWay(Affordable(agent, budget)) \cup {0}
      [] agent.type = "momentum" -> {Trend(agent)}
      [] agent.type = "contrarian" -> {-Trend(agent)}
      [] agent.type = "arbitrageur" ->
            {IF Abs(Price - agent.value) > agent.width THEN 2 * (agent.value - Price) ELSE 0}

\* Kyle's lambda: a cent for every share, shared among those who trade.
Impact(flow) ==
    LET trading == {i \in DOMAIN crowd : crowd[i].type # "marketMaker"}
    IN  flow \div (20 * Max({1, Cardinality(trading)}))

\* The value of the first agent that knows one.
Knowing == {i \in DOMAIN crowd : crowd[i].type \in {"informed", "arbitrageur"}}

Converged(price) == Knowing # {} /\ Abs(price - crowd[Min(Knowing)].value) < 1

Step ==
    /\ Len(prices) <= MaxSteps
    /\ \E flows \in [DOMAIN crowd -> UNION {Flows(crowd[i], budgets[i]) : i \in DOMAIN crowd}] :
          /\ \A i \in DOMAIN crowd : flows[i] \in Flows(crowd[i], budgets[i])
          /\ LET net == SumFunction([i \in DOMAIN crowd |-> flows[i]])
                 price == Within(Price + Impact(net), 1, 99)
             IN  /\ prices' = Append(prices, price)
                 /\ orders' = Append(orders, flows)
                 /\ budgets' = [i \in DOMAIN crowd |->
                                   IF crowd[i].type = "zeroIntelligence"
                                   THEN budgets[i] - Abs(flows[i]) ELSE budgets[i]]
                 /\ convergence' = IF convergence = 0 /\ Converged(price)
                                   THEN Len(prices) ELSE convergence
    /\ UNCHANGED crowd

AgentsInit ==
    /\ crowd \in Crowds
    /\ prices = <<FirstPrice>> /\ orders = <<>>
    /\ budgets = [i \in DOMAIN crowd |->
                     IF crowd[i].type = "zeroIntelligence" THEN crowd[i].value ELSE 0]
    /\ convergence = 0

(***************************************************************************)
(* Properties                                                              *)
(***************************************************************************)
Traded(i) == SumFunction([k \in DOMAIN orders |-> Abs(orders[k][i])])

\* An agent without intelligence trades no more than its budget in the whole
\* simulation, and the price stays that of an open market.
BudgetsHold ==
    /\ \A i \in DOMAIN crowd :
          crowd[i].type = "zeroIntelligence" =>
              /\ Traded(i) <= crowd[i].value
              /\ budgets[i] = crowd[i].value - Traded(i)
    /\ \A k \in DOMAIN prices : prices[k] \in 1..99

(* What a comment says, and the program does not do. *)

\* AgentType::Momentum: "buy if price trending up over `lookback` steps": the order
\* of a step follows the change over as many steps before it.
TrendsOverLookback ==
    \A k \in DOMAIN orders : \A i \in DOMAIN crowd :
        crowd[i].type = "momentum" /\ k > crowd[i].lookback
            /\ prices[k] - prices[k - crowd[i].lookback] > crowd[i].width =>
            orders[k][i] > 0
=============================================================================
