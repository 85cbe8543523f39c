---------------------------- MODULE DaemonEngine ----------------------------
(***************************************************************************)
(* The second engine: `arb run`, crates/arb-daemon/src/engine.rs.  One task *)
(* in a process of its own, with a kill switch and a position tracker of   *)
(* its own; only the flag file is shared with arb-api.  Its loop looks at  *)
(* the memory of its switch, and listens for Ctrl+C between two ticks.     *)
(*                                                                         *)
(* What a check decides on sizes and counts is RiskGate's: here it may     *)
(* pass or fail.  Scanning and refining are one step.                      *)
(***************************************************************************)
EXTENDS Integers

CONSTANTS
    MaxOpps,    \* bound: opportunities of one tick
    Edges,      \* what one execution may add to the daily PnL
    PnlBound,   \* bound: |daily PnL|
    LossLimit,  \* config.risk.daily_loss_limit
    DiskFaults    \* writing the flag file or the state file may fail

ASSUME DaemonAssumption ==
    /\ MaxOpps \in Nat /\ Edges \subseteq Int /\ PnlBound \in Nat
    /\ LossLimit \in Nat /\ DiskFaults \in BOOLEAN

VARIABLES
    flag,       \* the file KILL_SWITCH
    active,     \* KillSwitch.active of this process
    pnl, dayStale,
    at,         \* where the task is
    left,       \* opportunities of this tick not yet decided
    listening,  \* the handler of Ctrl+C is installed
    stopAsked,      \* Ctrl+C has come and has not been acted on
    stateFile,  \* whose positions arb-state.json holds
    overshoot   \* history: trades executed since trading was blocked

daemonVars == <<flag, active, pnl, dayStale, at, left, listening, stopAsked, stateFile,
          overshoot>>

Places == {"down", "start", "gate", "scan", "decide", "exec", "record", "loss", "sleep", "stop"}

DaemonTypeOK ==
    /\ flag \in BOOLEAN /\ active \in BOOLEAN
    /\ pnl \in Int /\ dayStale \in BOOLEAN
    /\ at \in Places /\ left \in 0..MaxOpps
    /\ listening \in BOOLEAN /\ stopAsked \in BOOLEAN
    /\ stateFile \in {"nothing", "this session", "an older session"}
    /\ overshoot \in Nat

LossExceeded == pnl < -LossLimit

Blocked == flag \/ LossExceeded

\* History: n trades are executed by this step.
Executed(n) == overshoot' = IF Blocked' THEN overshoot + n ELSE 0

handlerVars == <<listening, stopAsked>>

-----------------------------------------------------------------------------
\* KillSwitch::new reads the file.  The tracker starts empty: the engine saves
\* its state file and never loads it.
Start ==
    /\ at = "down"
    /\ at' = "start"
    /\ active' = flag
    /\ pnl' = 0 /\ dayStale' = FALSE /\ left' = 0
    /\ listening' = FALSE /\ stopAsked' = FALSE
    /\ stateFile' = IF stateFile = "nothing" THEN "nothing" ELSE "an older session"
    /\ UNCHANGED flag
    /\ Executed(0)

\* Detectors, executor and preflight; a live executor that cannot be built ends
\* the process with an error.
Build ==
    /\ at = "start"
    /\ at' \in {"gate", "down"}
    /\ UNCHANGED <<flag, active, pnl, dayStale, left, handlerVars, stateFile, overshoot>>

\* The loop head asks the memory of the switch; active, it sleeps and asks again.
Gate ==
    /\ at = "gate" /\ ~active
    /\ at' = "scan"
    /\ UNCHANGED <<flag, active, pnl, dayStale, left, handlerVars, stateFile, overshoot>>

Scan ==
    /\ at = "scan"
    /\ left' \in 0..MaxOpps
    /\ at' = "decide"
    /\ UNCHANGED <<flag, active, pnl, dayStale, handlerVars, stateFile, overshoot>>

\* As Approves, without the switch.
ApprovesKilled == ~LossExceeded

\* check_opportunity: the switch as it was just read from the file, the loss,
\* and the limits RiskGate models.
Approves == ~active' /\ ~LossExceeded

Decide ==
    /\ at = "decide" /\ left > 0
    /\ active' = flag
    /\ \/ Approves /\ at' = "exec" /\ UNCHANGED left
       \/ at' = "decide" /\ left' = left - 1
    /\ UNCHANGED <<flag, pnl, dayStale, handlerVars, stateFile, overshoot>>

Execute ==
    /\ at = "exec"
    /\ \/ at' = "record" /\ UNCHANGED left
       \/ at' = "decide" /\ left' = left - 1
    /\ UNCHANGED <<flag, active, pnl, dayStale, handlerVars, stateFile>>
    /\ Executed(1)

RecordTrade ==
    /\ at = "record"
    /\ \E e \in Edges : pnl' = (IF dayStale THEN 0 ELSE pnl) + e
    /\ pnl' \in (-PnlBound)..PnlBound
    /\ dayStale' = FALSE
    /\ at' = "decide" /\ left' = left - 1
    /\ UNCHANGED <<flag, active, handlerVars, stateFile>>
    /\ Executed(0)

DecideDone ==
    /\ at = "decide" /\ left = 0
    /\ at' = "loss"
    /\ UNCHANGED <<flag, active, pnl, dayStale, left, handlerVars, stateFile, overshoot>>

LossCheck ==
    /\ at = "loss"
    /\ at' = "sleep"
    /\ IF LossExceeded
       THEN active' = TRUE /\ (flag' = TRUE \/ (DiskFaults /\ flag' = flag))
       ELSE UNCHANGED <<flag, active>>
    /\ UNCHANGED <<pnl, dayStale, left, handlerVars, stateFile>>
    /\ Executed(0)

\* As Sleep, without the branch of Ctrl+C.
SleepDeaf ==
    /\ at = "sleep"
    /\ listening' = TRUE
    /\ at' = "gate"
    /\ UNCHANGED <<flag, active, pnl, dayStale, left, stopAsked, stateFile, overshoot>>

\* tokio::select! of the sleep and Ctrl+C, whose handler is installed when the
\* future is first polled, here.
Sleep ==
    /\ at = "sleep"
    /\ listening' = TRUE
    /\ at' = IF stopAsked THEN "stop" ELSE "gate"
    /\ UNCHANGED <<flag, active, pnl, dayStale, left, stopAsked, stateFile, overshoot>>

\* PositionTracker::save, then main returns.
Stop ==
    /\ at = "stop"
    /\ stateFile' = "this session" \/ (DiskFaults /\ UNCHANGED stateFile)
    /\ at' = "down"
    /\ UNCHANGED <<flag, active, pnl, dayStale, left, handlerVars, overshoot>>

\* What the task does by itself, and the three waits for something outside.
EngineStep ==
    \/ Gate \/ Decide \/ RecordTrade \/ DecideDone \/ LossCheck \/ Sleep \/ Stop

Engine == EngineStep \/ Build \/ Scan \/ Execute

-----------------------------------------------------------------------------
\* Outside the task.  Without the handler SIGINT ends the process; so does
\* SIGTERM at any time, for which there is no handler.
CtrlC ==
    /\ at # "down"
    /\ IF listening THEN stopAsked' = TRUE /\ UNCHANGED at
                    ELSE at' = "down" /\ UNCHANGED stopAsked
    /\ UNCHANGED <<flag, active, pnl, dayStale, left, listening, stateFile, overshoot>>

DaemonCrash ==
    /\ at # "down" /\ at' = "down"
    /\ UNCHANGED <<flag, active, pnl, dayStale, left, handlerVars, stateFile, overshoot>>

\* arb kill, arb resume, the switch of arb-api, touch and rm.
OthersSwitch ==
    /\ flag' = ~flag
    /\ UNCHANGED <<active, pnl, dayStale, at, left, handlerVars, stateFile>>
    /\ Executed(0)

Midnight ==
    /\ dayStale' = TRUE
    /\ UNCHANGED <<flag, active, pnl, at, left, handlerVars, stateFile, overshoot>>

DaemonInit ==
    /\ flag \in BOOLEAN /\ active = FALSE
    /\ pnl = 0 /\ dayStale = FALSE
    /\ at = "down" /\ left = 0
    /\ listening = FALSE /\ stopAsked = FALSE
    /\ stateFile = "nothing" /\ overshoot = 0

DaemonNext == Engine \/ Start \/ CtrlC \/ DaemonCrash \/ OthersSwitch \/ Midnight

DaemonSpec == DaemonInit /\ [][DaemonNext]_daemonVars

\* The task goes on between two calls.  The fetches of a tick and cancel_all have
\* no timeout, so that a call may hang.
DaemonFairSpec == DaemonSpec /\ WF_daemonVars(EngineStep)

-----------------------------------------------------------------------------
\* The daemon, too, lets at most the one trade complete whose check had passed
\* when trading was blocked: it implements HaltContract.
Contract == INSTANCE HaltContract WITH
    blocked <- Blocked, inflight <- (at = "exec"), late <- overshoot

DaemonContract == Contract!Spec

\* No fetch and no execution hangs for ever.
CallsReturn == []<>(at \notin {"scan", "exec"})

\* Ctrl+C between ticks or during one stops the daemon, unless a call of the tick
\* never returns, when nothing listens, or the daemon is killed.
StopsOrKilled == CallsReturn => (stopAsked ~> (at = "down" \/ active))

-----------------------------------------------------------------------------
(* What a comment says, and the program does not do. *)

\* engine.rs: "Main event loop. Runs until Ctrl+C or kill switch."  A daemon
\* that is killed neither ends nor listens any more.
CtrlCStops == stopAsked ~> (at = "down")
=============================================================================
