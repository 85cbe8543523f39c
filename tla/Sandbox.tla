------------------------------- MODULE Sandbox ------------------------------
(***************************************************************************)
(* The sandbox of the dashboard, routes/sandbox.rs: "what would the         *)
(* strategies find, and what would the history have earned, with these      *)
(* settings?"  Every request works on a copy of the configuration with      *)
(* overrides, and on detectors built for it, whose windows are empty, and   *)
(* scans all active markets; the engine's are those of Signals.  What the   *)
(* structural detectors offer in it is in Offers.                           *)
(*                                                                         *)
(* An answer lasts until the engine or the configuration moves; no request  *)
(* sees another.                                                           *)
(***************************************************************************)
EXTENDS Signals

CONSTANTS Overrides,  \* partial configurations
          Sweeps,     \* [param, values]; a value may be Unparsable
          Unparsable, \* stands for a value of another type
          MaxPoints,  \* values of one sweep (100)
          Histories   \* execution reports, newest first: [edge, fees, size, day]

WithOverrides(c, ov) == ov @@ c

\* apply_param: one setting over the others, if the value is of its type.
Parses(value) == value # Unparsable
Applied(ov, param, value) == (param :> value) @@ ov

ASSUME SandboxAssumption ==
    /\ MaxPoints \in Nat
    /\ \A ov \in Overrides, c \in Configs :
          /\ WithOverrides(c, ov) \in ConfigTypes
          /\ \A sweep \in Sweeps : \A i \in DOMAIN sweep.values :
                Parses(sweep.values[i]) =>
                    WithOverrides(c, Applied(ov, sweep.param, sweep.values[i])) \in ConfigTypes
    /\ Histories \subseteq Seq([edge : Int, fees : Int, size : Nat, day : Int])

VARIABLE answer

sandboxVars == <<answer, signalVars>>

NoAnswer == [request |-> "none"]

\* build_detectors: none for the model, whose estimator is the engine's.  They scan
\* all active markets, as if it were their first scan.
TrialFound(c) ==
    Found([c EXCEPT !.enabled = @ \ {"model"}],
          IF reading.books = <<>> THEN <<>> ELSE <<Depths>>, <<reading.volume>>,
          DOMAIN reading.siblings)

\* As TrialShown, before the edges are refined.
TrialShownUnrefined(c) == {s \in TrialFound(c) : AtLeast(s.net, c.minNet)}

\* What detect and a sweep show of it: the edges refined, by the settings' own minimum.
TrialShown(c) == Retained(TrialFound(c), c.minNet)

TryDetect(ov) ==
    answer' = [request |-> "detect", overrides |-> ov,
               shown |-> TrialShown(WithOverrides(config, ov))]

\* The first value that cannot be applied ends the request.
Sweep(ov, sweep) ==
    answer' = IF Len(sweep.values) > MaxPoints \/ (\E v \in Range(sweep.values) : ~Parses(v))
              THEN [request |-> "refused"]
              ELSE [request |-> "sweep",
                    points |-> [i \in DOMAIN sweep.values |->
                        LET o == Applied(ov, sweep.param, sweep.values[i])
                        IN  [overrides |-> o,
                             shown |-> TrialShown(WithOverrides(config, o))]]]

\* One verdict for each strategy, on what it detects: neither refined nor cut.
Explain(ov) ==
    LET c == WithOverrides(config, ov)
        verdict(kind) ==
            IF kind \notin c.enabled \/ kind = "model" THEN "skipped"
            ELSE IF \E s \in TrialFound(c) : s.kind = kind THEN "opportunity_found"
            ELSE "no_opportunity"
    IN  answer' = [request |-> "explain", overrides |-> ov,
                   verdicts |-> [kind \in SingleKinds |-> verdict(kind)]]

(***************************************************************************)
(* backtest: the reports that the settings would have let through.         *)
(***************************************************************************)
Net(report) == report.edge - report.fees

\* An edge counts by its size, so that a losing trade passes as well as a winner.
TooSmall(c, report) ==
    (IF report.edge < 0 THEN -report.edge ELSE report.edge) < c.minNet

LetThrough(replay) == {i \in 1..Len(replay) : replay[i]}

SizesOf(reports, kept) == SumFunction([i \in kept |-> reports[i].size])

\* As Replay, counting what was rejected towards the exposure.
ReplayCountingAll(c, reports) ==
    [i \in 1..Len(reports) |->
        ~TooSmall(c, reports[i]) /\ SizesOf(reports, 1..i) <= c.cap]

Passes(c, reports, replay, report) ==
    /\ ~TooSmall(c, report)
    /\ SizesOf(reports, LetThrough(replay)) + report.size <= c.cap

\* In the order of the history; what is kept is never closed.
Replay(c, reports) ==
    FoldLeft(LAMBDA replay, report : Append(replay, Passes(c, reports, replay, report)),
             <<>>, reports)

Backtest(ov, reports) ==
    LET replay == Replay(WithOverrides(config, ov), reports)
        kept == LetThrough(replay)
        days == {reports[i].day : i \in DOMAIN reports}
        pnl(chosen) == SumFunction([i \in chosen |-> Net(reports[i])])
    IN  answer' = [request |-> "backtest", overrides |-> ov, reports |-> reports,
                   replay |-> replay, pnl |-> pnl(kept),
                   daily |-> [d \in days |-> pnl({i \in kept : reports[i].day = d})]]

Ask ==
    /\ answer = NoAnswer
    /\ \E ov \in Overrides :
          \/ TryDetect(ov) \/ Explain(ov)
          \/ \E sweep \in Sweeps : Sweep(ov, sweep)
          \/ \E reports \in Histories : Backtest(ov, reports)
    /\ UNCHANGED signalVars

SandboxInit == SignalInit /\ answer = NoAnswer

SandboxNext == Ask \/ (SignalNext /\ answer' = NoAnswer)

(***************************************************************************)
(* Properties                                                              *)
(***************************************************************************)
\* The kinds that need more than the market as it is.
NeedMore == {"liquidity", "volume", "model"}

\* Those the sandbox judges by what the engine's last scan was given: a stale price
\* only if all the siblings were in it.
Comparable(kind) == kind \notin NeedMore /\ (kind = "stale" => beside = DOMAIN reading.siblings)

\* The settings are those the engine's detectors were built with.
OfTheEngine(ov) == scanned /\ WithOverrides(config, ov) = loopConfig

Alike(shown) == {s \in shown : Comparable(s.kind)} = {s \in signals : Comparable(s.kind)}

Agrees(ov, shown) ==
    /\ \A s \in shown : s.kind \notin NeedMore
    /\ OfTheEngine(ov) /\ retainedBy = loopConfig.minNet => Alike(shown)

\* With the settings of the engine's detectors, detect and each point of a sweep show
\* what the engine's last scan left to the risk check, edge by edge, except for the
\* strategies that remember earlier scans or have a model, which the sandbox never
\* shows, for a stale price judged by siblings the engine's scan left out, and for a
\* scan that a newer minimum cut.  Explain has an opportunity exactly where that scan
\* detected one, which the refinement may have taken from the engine since.
TrialsAgree ==
    /\ answer.request = "detect" => Agrees(answer.overrides, answer.shown)
    /\ answer.request = "sweep" =>
          \A i \in DOMAIN answer.points :
              Agrees(answer.points[i].overrides, answer.points[i].shown)
    /\ answer.request = "explain" =>
          \A kind \in SingleKinds :
              LET told == answer.verdicts[kind] = "opportunity_found"
              IN  /\ told => kind \notin NeedMore
                  /\ OfTheEngine(answer.overrides) /\ Comparable(kind) =>
                        (told <=> OfKind(kind) # {})

\* The replay keeps within the cap (which may be below 0: nothing checks overrides),
\* rejects nothing that it could have kept, and its days add up to its total.
ReplayAddsUp ==
    answer.request = "backtest" =>
        LET c == WithOverrides(config, answer.overrides)
            kept == LetThrough(answer.replay)
        IN  /\ kept # {} => SizesOf(answer.reports, kept) <= c.cap
            /\ \A i \in DOMAIN answer.reports \ kept :
                  \/ TooSmall(c, answer.reports[i])
                  \/ SizesOf(answer.reports, {j \in kept : j < i} \cup {i}) > c.cap
            /\ answer.pnl = SumFunction([d \in DOMAIN answer.daily |-> answer.daily[d]])

\* What the sandbox answers.
SandboxHonest == TrialsAgree /\ ReplayAddsUp
=============================================================================
