---------------------------- MODULE TradingHalt -----------------------------
(***************************************************************************)
(* Halting and resuming trading in the arb-api process.                    *)
(*                                                                         *)
(* One fact, "trading is halted", is kept in three places:                 *)
(*   flag    the file ~/.config/polymarket/KILL_SWITCH,                    *)
(*   active  KillSwitch.active, inside the risk_limits mutex,              *)
(*   mirror  AppState.kill_switch_active, an AtomicBool.                   *)
(* The engine task, the HTTP handlers and the command line tool read and   *)
(* write them at different moments.  Every critical section of the         *)
(* risk_limits mutex is one action; a handler or tick that gives the mutex *)
(* up and goes on is several.                                              *)
(*                                                                         *)
(* Positions, exposure and the open-order count are RiskGate's: here the   *)
(* checks that depend on them may pass or fail.                            *)
(***************************************************************************)
EXTENDS Integers

CONSTANTS
    Requests,  \* HTTP requests that may be in progress at the same time
    MaxOpps,   \* bound: opportunities found in one tick
    Edges,     \* what one execution may add to the daily PnL
    PnlBound,  \* bound: |daily PnL|
    Limits,    \* values of config.risk.daily_loss_limit
    LiveMode,  \* config.is_live() when the process starts
    CliOps,    \* the command line tool (or touch/rm) is used
    IoFaults   \* writing or removing the flag file, or saving the config, may fail

ASSUME HaltAssumption ==
    /\ MaxOpps \in Nat
    /\ Edges \subseteq Int
    /\ PnlBound \in Nat
    /\ Limits \subseteq Nat /\ Limits # {}
    /\ LiveMode \in BOOLEAN /\ CliOps \in BOOLEAN /\ IoFaults \in BOOLEAN

VARIABLES
    flag, active, mirror,
    pnl,        \* RiskLimits.daily_pnl
    dayStale,   \* today is no longer the date in RiskLimits.daily_reset
    ownLimit,   \* daily_loss_limit in RiskLimits' own copy of the config
    liveLimit,  \* daily_loss_limit in AppState.config
    diskLimit,  \* daily_loss_limit in config.toml
    executor,   \* the executor the engine task built: live, paper or none yet
    pc,         \* where the engine task is in its tick
    left,       \* opportunities of this tick not yet decided
    req,        \* where each HTTP request is
    halt,       \* history: is a kill ordered, or ordered and fully stored
    overshoot   \* history: automated trades executed since trading was blocked

switch == <<flag, active, mirror>>
limits == <<ownLimit, liveLimit, diskLimit>>
engine == <<executor, pc, left>>
vars == <<flag, active, mirror, pnl, dayStale, ownLimit, liveLimit, diskLimit,
          executor, pc, left, req, halt, overshoot>>

EnginePc == {"init", "initMirror", "gate", "scan", "decide", "exec", "record",
             "lossKill", "lossMirror"}
RequestPc == {"idle", "killMirror", "resumeMirror", "order"}

TypeOK ==
    /\ flag \in BOOLEAN /\ active \in BOOLEAN /\ mirror \in BOOLEAN
    /\ pnl \in Int /\ dayStale \in BOOLEAN
    /\ ownLimit \in Limits /\ liveLimit \in Limits /\ diskLimit \in Limits
    /\ executor \in {"none", "live", "paper"}
    /\ pc \in EnginePc
    /\ left \in 0..MaxOpps
    /\ req \in [Requests -> RequestPc]
    /\ halt \in {"none", "ordered", "standing"}
    /\ overshoot \in Nat

-----------------------------------------------------------------------------
\* KillSwitch: each operation runs inside the risk_limits mutex.

\* A failed write is logged and the switch is active in memory all the same.
Activate ==
    /\ active' = TRUE
    /\ flag' = TRUE \/ (IoFaults /\ flag' = flag)

Deactivate ==
    /\ active' = FALSE
    /\ flag' = FALSE \/ (IoFaults /\ flag' = flag)

\* As CheckSwitch, trusting the memory.
CheckMemoryOnly == UNCHANGED <<flag, active>>

\* check() follows the file in both directions.
CheckSwitch == active' = flag /\ UNCHANGED flag

-----------------------------------------------------------------------------
\* RiskLimits: the daily loss and what blocks an automated trade.

LossExceeded == pnl < -ownLimit

Blocked == flag \/ LossExceeded

\* History: n automated trades are executed by this step.
Executed(n) == overshoot' = IF Blocked' THEN overshoot + n ELSE 0

\* record_execution: the day rolls over here, and only here.
RecordPnl ==
    /\ \E e \in Edges :
        /\ pnl' = (IF dayStale THEN 0 ELSE pnl) + e
        /\ pnl' \in (-PnlBound)..PnlBound
    /\ dayStale' = FALSE

\* As Approves, without the daily loss.
ApprovesIgnoringLoss == ~active'

\* check_opportunity: the switch as just checked, the daily loss, then the
\* limits RiskGate models.
Approves == ~active' /\ ~LossExceeded

-----------------------------------------------------------------------------
\* History: a kill is ordered when the switch is set under the mutex and its file
\* is there, and it stands once the mirror follows with no older resume about to
\* overwrite it.  Without the file the next check undoes the kill.

NoPendingResume == \A r \in Requests : req[r] # "resumeMirror"

KillOrdered == halt' = IF flag' /\ halt = "none" THEN "ordered" ELSE halt

KillStored == halt' = IF halt # "none" /\ NoPendingResume THEN "standing" ELSE halt

-----------------------------------------------------------------------------
\* The engine task: run_engine_loop.

\* Building the executor.  A live executor that fails to initialise kills
\* trading and leaves a paper executor in its place.
EngineInit ==
    /\ pc = "init"
    /\ \/ /\ pc' = "gate"
          /\ executor' = IF LiveMode THEN "live" ELSE "paper"
          /\ UNCHANGED <<flag, active, halt>>
       \/ /\ LiveMode
          /\ Activate
          /\ KillOrdered
          /\ executor' = "paper"
          /\ pc' = "initMirror"
    /\ UNCHANGED <<mirror, pnl, dayStale, limits, left, req>>
    /\ Executed(0)

\* The loop head reads the mirror alone; a set mirror only makes it sleep.
EngineGate ==
    /\ pc = "gate"
    /\ ~mirror
    /\ pc' = "scan"
    /\ UNCHANGED <<switch, pnl, dayStale, limits, executor, left, req, halt, overshoot>>

\* Poll and scan.  No market changed: back to the head, past the loss check.
EngineScan ==
    /\ pc = "scan"
    /\ \/ pc' = "gate" /\ UNCHANGED left
       \/ pc' = "decide" /\ left' \in 0..MaxOpps
    /\ UNCHANGED <<switch, pnl, dayStale, limits, executor, req, halt, overshoot>>

\* As HasOpportunity, one too many.
HasOpportunityOffByOne == left >= 0

HasOpportunity == left > 0

EngineDecide ==
    /\ pc = "decide"
    /\ HasOpportunity
    /\ CheckSwitch
    /\ \/ pc' = "exec" /\ Approves /\ UNCHANGED left
       \/ pc' = "decide" /\ left' = left - 1
    /\ UNCHANGED <<mirror, pnl, dayStale, limits, executor, req, halt, overshoot>>

\* The executor runs with no lock held; an Err is logged and nothing recorded.
EngineExecute ==
    /\ pc = "exec"
    /\ \/ pc' = "record" /\ UNCHANGED left
       \/ pc' = "decide" /\ left' = left - 1
    /\ UNCHANGED <<switch, pnl, dayStale, limits, executor, req, halt>>
    /\ Executed(1)

EngineRecord ==
    /\ pc = "record"
    /\ RecordPnl
    /\ pc' = "decide"
    /\ left' = left - 1
    /\ UNCHANGED <<switch, limits, executor, req, halt>>
    /\ Executed(0)

\* As LossLimitHit, for a gain.
LossLimitHitWrongSign == pnl > liveLimit

\* The tick's own loss check reads the limit of the live config.
LossLimitHit == pnl < -liveLimit

EngineLossCheck ==
    /\ pc = "decide"
    /\ left = 0
    /\ pc' = IF LossLimitHit THEN "lossKill" ELSE "gate"
    /\ UNCHANGED <<switch, pnl, dayStale, limits, executor, left, req, halt, overshoot>>

\* The mutex was dropped after the check and is taken again to activate.
EngineLossKill ==
    /\ pc = "lossKill"
    /\ Activate
    /\ KillOrdered
    /\ pc' = "lossMirror"
    /\ UNCHANGED <<mirror, pnl, dayStale, limits, executor, left, req>>
    /\ Executed(0)

EngineMirror ==
    /\ pc \in {"initMirror", "lossMirror"}
    /\ mirror' = TRUE
    /\ KillStored
    /\ pc' = "gate"
    /\ UNCHANGED <<flag, active, pnl, dayStale, limits, executor, left, req, overshoot>>

\* What the task does by itself, and the three waits for something outside:
\* building the executor, the fetches of a tick, an execution.
EngineStep ==
    \/ EngineGate \/ EngineDecide \/ EngineRecord
    \/ EngineLossCheck \/ EngineLossKill \/ EngineMirror

Engine == EngineStep \/ EngineInit \/ EngineScan \/ EngineExecute

-----------------------------------------------------------------------------
\* HTTP handlers.

KillSwitchOn(r) ==
    /\ req[r] = "idle"
    /\ Activate
    /\ KillOrdered
    /\ req' = [req EXCEPT ![r] = "killMirror"]
    /\ UNCHANGED <<mirror, pnl, dayStale, limits, engine>>
    /\ Executed(0)

KillMirror(r) ==
    /\ req[r] = "killMirror"
    /\ mirror' = TRUE
    /\ KillStored
    /\ req' = [req EXCEPT ![r] = "idle"]
    /\ UNCHANGED <<flag, active, pnl, dayStale, limits, engine, overshoot>>

ResumeSwitchOff(r) ==
    /\ req[r] = "idle"
    /\ Deactivate
    /\ halt' = "none"
    /\ req' = [req EXCEPT ![r] = "resumeMirror"]
    /\ UNCHANGED <<mirror, pnl, dayStale, limits, engine>>
    /\ Executed(0)

ResumeMirror(r) ==
    /\ req[r] = "resumeMirror"
    /\ mirror' = FALSE
    /\ req' = [req EXCEPT ![r] = "idle"]
    /\ UNCHANGED <<flag, active, pnl, dayStale, limits, engine, halt, overshoot>>

\* place_order reads the mirror, and records the order under a later lock.
OrderAdmit(r) ==
    /\ req[r] = "idle"
    /\ ~mirror
    /\ req' = [req EXCEPT ![r] = "order"]
    /\ UNCHANGED <<switch, pnl, dayStale, limits, engine, halt, overshoot>>

OrderRecord(r) ==
    /\ req[r] = "order"
    /\ RecordPnl
    /\ req' = [req EXCEPT ![r] = "idle"]
    /\ UNCHANGED <<switch, limits, engine, halt>>
    /\ Executed(0)

\* close_position, close_all and reduce_position look at no switch.
ClosePosition ==
    /\ RecordPnl
    /\ UNCHANGED <<switch, limits, engine, req, halt>>
    /\ Executed(0)

\* update_config replaces AppState.config and then tries to save it; the
\* config RiskLimits was built with stays as it is.
PutConfig ==
    /\ liveLimit' \in Limits
    /\ diskLimit' = liveLimit' \/ (IoFaults /\ diskLimit' = diskLimit)
    /\ UNCHANGED <<switch, pnl, dayStale, ownLimit, engine, req, halt, overshoot>>

Handler(r) ==
    \/ KillSwitchOn(r) \/ KillMirror(r) \/ ResumeSwitchOff(r) \/ ResumeMirror(r)
    \/ OrderAdmit(r) \/ OrderRecord(r)

-----------------------------------------------------------------------------
\* Outside the process.

\* `arb kill` and touch: only the file changes.
CliKill ==
    /\ CliOps
    /\ flag' = TRUE
    /\ UNCHANGED <<active, mirror, pnl, dayStale, limits, engine, req, halt>>
    /\ Executed(0)

\* `arb resume` and rm: they act on the file, and only if it is there.
CliResume ==
    /\ CliOps
    /\ flag
    /\ flag' = FALSE
    /\ halt' = "none"
    /\ UNCHANGED <<active, mirror, pnl, dayStale, limits, engine, req>>
    /\ Executed(0)

Midnight ==
    /\ dayStale' = TRUE
    /\ UNCHANGED <<switch, pnl, limits, engine, req, halt, overshoot>>

\* As Restart, with a mirror that starts cleared.
RestartMirrorCleared ==
    /\ active' = flag
    /\ mirror' = FALSE
    /\ pnl' = 0 /\ dayStale' = FALSE
    /\ ownLimit' = diskLimit /\ liveLimit' = diskLimit
    /\ executor' = "none" /\ pc' = "init" /\ left' = 0
    /\ req' = [r \in Requests |-> "idle"]
    /\ UNCHANGED <<flag, diskLimit, halt>>
    /\ Executed(0)

\* The process stops, however it stops, and a new one runs main().
Restart ==
    /\ active' = flag
    /\ mirror' = flag
    /\ pnl' = 0 /\ dayStale' = FALSE
    /\ ownLimit' = diskLimit /\ liveLimit' = diskLimit
    /\ executor' = "none" /\ pc' = "init" /\ left' = 0
    /\ req' = [r \in Requests |-> "idle"]
    /\ UNCHANGED <<flag, diskLimit, halt>>
    /\ Executed(0)

-----------------------------------------------------------------------------
Init ==
    /\ flag \in BOOLEAN
    /\ active = flag /\ mirror = flag
    /\ pnl = 0 /\ dayStale = FALSE
    /\ diskLimit \in Limits /\ ownLimit = diskLimit /\ liveLimit = diskLimit
    /\ executor = "none" /\ pc = "init" /\ left = 0
    /\ req = [r \in Requests |-> "idle"]
    /\ halt = "none"
    /\ overshoot = 0

Next ==
    \/ Engine
    \/ \E r \in Requests : Handler(r)
    \/ ClosePosition \/ PutConfig
    \/ CliKill \/ CliResume \/ Midnight \/ Restart

Spec == Init /\ [][Next]_vars

\* tokio polls every ready task, so that the engine and a request in progress go
\* on between two calls.  Nothing bounds a call: orders time out, but neither
\* cancel_all nor the fetch of a book does, and each may hang for ever.
Fairness ==
    /\ WF_vars(EngineStep)
    /\ \A r \in Requests : WF_vars(KillMirror(r) \/ ResumeMirror(r) \/ OrderRecord(r))

FairSpec == Spec /\ Fairness

-----------------------------------------------------------------------------
\* Once a kill is in its file and stored with no older resume in progress, all
\* three copies say so until somebody resumes: across loss kills, retried
\* kills, ticks in progress and restarts.
KillStandsEverywhere == halt = "standing" => flag /\ active /\ mirror

\* However trading came to be blocked (API kill, CLI kill, daily loss booked
\* by a manual order...), only the trade whose check had passed completes.
AtMostOneTradeWhileBlocked == overshoot <= 1

\* What makes TypeOK and KillStandsEverywhere inductive: an opportunity being
\* executed is still counted, an ordered kill is in the file and in memory, and
\* no resume older than a standing kill can still clear its mirror.
Undecided == pc \in {"exec", "record"} => left > 0

KillInv ==
    /\ halt # "none" => flag /\ active
    /\ halt = "standing" => mirror /\ NoPendingResume

\* The engine task implements the contract of HaltContract.
Contract == INSTANCE HaltContract WITH
    blocked <- Blocked, inflight <- (pc = "exec"), late <- overshoot

ContractSpec == Contract!Spec

\* No execution hangs for ever.
ExecutionsReturn == []<>(pc # "exec")

\* While the flag file exists automated trading dies out, whoever created it,
\* unless the execution it finds under way never returns.
HaltQuiesces == (<>[]flag /\ ExecutionsReturn) => <>[](pc # "exec")

\* A daily loss that stays halts trading again after every resume, as long as
\* ticks get as far as their loss check.
LossHalts ==
    (<>[](pnl < -liveLimit /\ executor # "none") /\ []<>(pc = "decide"))
        => []<>mirror

-----------------------------------------------------------------------------
(* What comments and documents say, and the program does not do. *)

\* kill_switch.rs: "Requires manual reset to resume (`arb resume` or delete the
\* file)".  With the file gone for good, an engine that hangs in no call scans
\* again.
CliResumeRestartsEngine ==
    (<>[](~flag /\ executor # "none") /\ ExecutionsReturn) => []<>(pc = "scan")

\* state.rs: "Lock-free kill switch mirror".  With no kill or resume half done,
\* the mirror says what the switch says.
MirrorAgreesAtRest ==
    (NoPendingResume /\ (\A r \in Requests : req[r] # "killMirror")
        /\ pc \notin {"initMirror", "lossMirror"}) => mirror = active
=============================================================================
