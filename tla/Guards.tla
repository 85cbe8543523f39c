------------------------------- MODULE Guards -------------------------------
(***************************************************************************)
(* The stand-alone guards and channels around trading, side by side: the    *)
(* quotes of the market maker, the rate limiter, the write-ahead log, the   *)
(* circuit breaker, the monitors, the metrics, the dashboard's clients, the *)
(* first load of the markets, the configuration, the price history and the  *)
(* commands of the polymarket command line.  They share no state, so a      *)
(* behaviour runs one of them.                                              *)
(***************************************************************************)
EXTENDS QuoteManager, RateLimiter, FillLog, CircuitBreaker, Monitoring, Metrics,
        WsClients, MarketLoad, ConfigFile, PriceHistory, CliWallet, CliCommands

VARIABLE guard  \* the one that runs

guardsVars == <<guard, quoteVars, rateVars, fillVars, breakerVars, monitorVars, metricsVars,
          clientVars, loadVars, configVars, tickVars, walletVars, commandVars>>

GuardsInit ==
    /\ guard \in {"quotes", "rate", "log", "breaker", "alerts", "health", "metrics", "clients",
                 "load", "config", "ticks", "wallet", "approve", "upgrade", "batch"}
    /\ QuoteInit /\ RateInit /\ FillInit /\ BreakerInit /\ MonitorInit /\ MetricsInit
    /\ ClientsInit /\ LoadInit /\ ConfigInit /\ TickInit
    /\ WalletInit /\ ApproveInit /\ UpgradeInit /\ BatchInit
    /\ guard # "wallet" => envKey = "unset"

Quotes ==
    /\ guard = "quotes" /\ QuoteNext
    /\ UNCHANGED <<guard, rateVars, fillVars, breakerVars, monitorVars, metricsVars, clientVars,
                   loadVars, configVars, tickVars, walletVars, commandVars>>

Rate ==
    /\ guard = "rate" /\ RateNext
    /\ UNCHANGED <<guard, quoteVars, fillVars, breakerVars, monitorVars, metricsVars, clientVars,
                   loadVars, configVars, tickVars, walletVars, commandVars>>

Log ==
    /\ guard = "log" /\ FillNext
    /\ UNCHANGED <<guard, quoteVars, rateVars, breakerVars, monitorVars, metricsVars, clientVars,
                   loadVars, configVars, tickVars, walletVars, commandVars>>

Breaker ==
    /\ guard = "breaker" /\ BreakerNext
    /\ UNCHANGED <<guard, quoteVars, rateVars, fillVars, monitorVars, metricsVars, clientVars,
                   loadVars, configVars, tickVars, walletVars, commandVars>>

Alerts ==
    /\ guard = "alerts" /\ AlertsNext
    /\ UNCHANGED <<guard, quoteVars, rateVars, fillVars, breakerVars, metricsVars, clientVars,
                   loadVars, configVars, tickVars, walletVars, commandVars>>

Health ==
    /\ guard = "health" /\ HealthNext
    /\ UNCHANGED <<guard, quoteVars, rateVars, fillVars, breakerVars, metricsVars, clientVars,
                   loadVars, configVars, tickVars, walletVars, commandVars>>

Books ==
    /\ guard = "metrics" /\ MetricsNext
    /\ UNCHANGED <<guard, quoteVars, rateVars, fillVars, breakerVars, monitorVars, clientVars,
                   loadVars, configVars, tickVars, walletVars, commandVars>>

Sockets ==
    /\ guard = "clients" /\ ClientsNext
    /\ UNCHANGED <<guard, quoteVars, rateVars, fillVars, breakerVars, monitorVars, metricsVars,
                   loadVars, configVars, tickVars, walletVars, commandVars>>

Loading ==
    /\ guard = "load" /\ LoadNext
    /\ UNCHANGED <<guard, quoteVars, rateVars, fillVars, breakerVars, monitorVars, metricsVars,
                   clientVars, configVars, tickVars, walletVars, commandVars>>

Configuring ==
    /\ guard = "config" /\ ConfigNext
    /\ UNCHANGED <<guard, quoteVars, rateVars, fillVars, breakerVars, monitorVars, metricsVars,
                   clientVars, loadVars, tickVars, walletVars, commandVars>>

Recording ==
    /\ guard = "ticks" /\ TickNext
    /\ UNCHANGED <<guard, quoteVars, rateVars, fillVars, breakerVars, monitorVars, metricsVars,
                   clientVars, loadVars, configVars, walletVars, commandVars>>

Wallets ==
    /\ guard = "wallet" /\ WalletNext
    /\ UNCHANGED <<guard, quoteVars, rateVars, fillVars, breakerVars, monitorVars, metricsVars,
                   clientVars, loadVars, configVars, tickVars, commandVars>>

Approving ==
    /\ guard = "approve" /\ ApproveNext
    /\ UNCHANGED <<guard, quoteVars, rateVars, fillVars, breakerVars, monitorVars, metricsVars,
                   clientVars, loadVars, configVars, tickVars, walletVars, upgradeVars, batchVars>>

Upgrading ==
    /\ guard = "upgrade" /\ UpgradeNext
    /\ UNCHANGED <<guard, quoteVars, rateVars, fillVars, breakerVars, monitorVars, metricsVars,
                   clientVars, loadVars, configVars, tickVars, walletVars, approveVars, batchVars>>

Batching ==
    /\ guard = "batch" /\ BatchNext
    /\ UNCHANGED <<guard, quoteVars, rateVars, fillVars, breakerVars, monitorVars, metricsVars,
                   clientVars, loadVars, configVars, tickVars, walletVars, approveVars, upgradeVars>>

GuardsNext ==
    \/ Quotes \/ Rate \/ Log \/ Breaker \/ Alerts \/ Health \/ Books \/ Sockets
    \/ Loading \/ Configuring \/ Recording \/ Wallets \/ Approving \/ Upgrading \/ Batching

GuardsSpec == GuardsInit /\ [][GuardsNext]_guardsVars

\* What the monitors and the metrics promise; see Monitoring and Metrics.
MonitorsHold == AlertsSpaced /\ HealthSeesWindow /\ DrawdownFromPeak

\* What is written to the disk comes back as it was; see ConfigFile, PriceHistory.
WrittenComesBack == ChangesSurvive /\ HistoryKept /\ HistoryShown
=============================================================================
