------------------------------- MODULE Analysis -----------------------------
(***************************************************************************)
(* What the system computes about markets and positions, side by side: the  *)
(* offers of the structural detectors, the signals of the others with the   *)
(* sandbox that tries them, the studies of risk, the estimates of           *)
(* probabilities and the simulated crowd.  They share no state, so a        *)
(* behaviour runs one of them.                                             *)
(***************************************************************************)
EXTENDS Offers, Sandbox, RiskStudies, Estimation, Agents

CONSTANTS FirstConfig, FirstReading  \* of the market where it is not scanned

VARIABLE study  \* the one that runs

vars == <<study, offerVars, sandboxVars, studyVars, estimationVars, agentVars>>

Init ==
    /\ study \in {"offers", "sandbox", "var", "stress", "estimates", "paths", "crowd"}
    /\ OfferInit /\ (study = "offers" \/ program = "scan")
    /\ SandboxInit /\ (study = "sandbox" \/ (config = FirstConfig /\ reading = FirstReading))
    /\ StudyInit /\ (study = "stress" \/ holdings = <<>>)
    /\ EstimationInit
    /\ AgentsInit /\ (study = "crowd" \/ crowd = <<>>)

Offering ==
    /\ study = "offers" /\ OfferNext
    /\ UNCHANGED <<study, sandboxVars, studyVars, estimationVars, agentVars>>

Trying ==
    /\ study = "sandbox" /\ SandboxNext
    /\ UNCHANGED <<study, offerVars, studyVars, estimationVars, agentVars>>

Studying ==
    /\ \/ study = "var" /\ VarNext
       \/ study = "stress" /\ StressNext
    /\ UNCHANGED <<study, offerVars, sandboxVars, estimationVars, agentVars>>

Estimating ==
    /\ \/ study = "estimates" /\ EnsembleNext
       \/ study = "paths" /\ PathsNext
    /\ UNCHANGED <<study, offerVars, sandboxVars, studyVars, agentVars>>

Simulating ==
    /\ study = "crowd" /\ Step
    /\ UNCHANGED <<study, offerVars, sandboxVars, studyVars, estimationVars>>

Next == Offering \/ Trying \/ Studying \/ Estimating \/ Simulating

Spec == Init /\ [][Next]_vars
=============================================================================
