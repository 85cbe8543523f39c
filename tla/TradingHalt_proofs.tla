------------------------- MODULE TradingHalt_proofs --------------------------
(* What TradingHalt guarantees for any number of requests, opportunities and  *)
(* any PnL bound.                                                             *)
EXTENDS TradingHalt, TLAPS

LEMMA InitType == Init => TypeOK /\ Undecided
  <1> SUFFICES ASSUME Init
               PROVE  TypeOK /\ Undecided
    OBVIOUS
  <1>1. flag \in BOOLEAN /\ active \in BOOLEAN /\ mirror \in BOOLEAN /\ dayStale \in BOOLEAN
    BY DEF Init
  <1>2. req \in [Requests -> RequestPc]
    BY DEF Init, RequestPc
  <1> QED
    BY <1>1, <1>2, HaltAssumption DEF Init, TypeOK, EnginePc, Undecided

\* The switch stays Boolean, whether or not the file could be written.
LEMMA SwitchType ==
  ASSUME TypeOK
  PROVE  /\ Activate => flag' \in BOOLEAN /\ active' \in BOOLEAN
         /\ Deactivate => flag' \in BOOLEAN /\ active' \in BOOLEAN
         /\ CheckSwitch => flag' \in BOOLEAN /\ active' \in BOOLEAN
  BY DEF TypeOK, Activate, Deactivate, CheckSwitch

LEMMA HistoryType ==
  ASSUME TypeOK
  PROVE  /\ \A n \in Nat : Executed(n) => overshoot' \in Nat
         /\ KillOrdered => halt' \in {"none", "ordered", "standing"}
         /\ KillStored => halt' \in {"none", "ordered", "standing"}
  BY DEF TypeOK, Executed, KillOrdered, KillStored

LEMMA RecordType ==
  ASSUME TypeOK, RecordPnl
  PROVE  pnl' \in Int /\ dayStale' \in BOOLEAN
  <1>1. pnl' \in Int
    BY HaltAssumption DEF RecordPnl
  <1>2. dayStale' \in BOOLEAN
    BY DEF RecordPnl
  <1> QED
    BY <1>1, <1>2

LEMMA EngineType == TypeOK /\ Undecided /\ Engine => (TypeOK /\ Undecided)'
  <1> SUFFICES ASSUME TypeOK, Undecided, Engine
               PROVE  (TypeOK /\ Undecided)'
    OBVIOUS
  <1> USE HaltAssumption DEF TypeOK, Undecided, EnginePc, switch, limits
  <1>1. CASE EngineInit
    BY <1>1, SwitchType, HistoryType DEF EngineInit
  <1>2. CASE EngineGate
    BY <1>2 DEF EngineGate
  <1>3. CASE EngineScan
    BY <1>3 DEF EngineScan
  <1>4. CASE EngineDecide
    BY <1>4, SwitchType DEF EngineDecide, HasOpportunity
  <1>5. CASE EngineExecute
    <2>1. overshoot' \in Nat
      BY <1>5, HistoryType DEF EngineExecute
    <2> QED
      BY <1>5, <2>1 DEF EngineExecute
  <1>6. CASE EngineRecord
    <2>1. overshoot' \in Nat
      BY <1>6, HistoryType DEF EngineRecord
    <2> QED
      BY <1>6, <2>1, RecordType DEF EngineRecord
  <1>7. CASE EngineLossCheck
    BY <1>7 DEF EngineLossCheck
  <1>8. CASE EngineLossKill
    BY <1>8, SwitchType, HistoryType DEF EngineLossKill
  <1>9. CASE EngineMirror
    <2>1. mirror' \in BOOLEAN
      BY <1>9 DEF EngineMirror
    <2> QED
      BY <1>9, <2>1, HistoryType DEF EngineMirror
  <1> QED
    BY <1>1, <1>2, <1>3, <1>4, <1>5, <1>6, <1>7, <1>8, <1>9 DEF Engine, EngineStep

LEMMA HandlerType ==
  ASSUME TypeOK, Undecided, NEW r \in Requests, Handler(r)
  PROVE  (TypeOK /\ Undecided)'
  <1> USE DEF TypeOK, Undecided, RequestPc, switch, limits, engine
  <1>1. CASE KillSwitchOn(r)
    BY <1>1, SwitchType, HistoryType DEF KillSwitchOn
  <1>2. CASE KillMirror(r)
    <2>1. mirror' \in BOOLEAN
      BY <1>2 DEF KillMirror
    <2> QED
      BY <1>2, <2>1, HistoryType DEF KillMirror
  <1>3. CASE ResumeSwitchOff(r)
    BY <1>3, SwitchType, HistoryType DEF ResumeSwitchOff
  <1>4. CASE ResumeMirror(r)
    <2>1. mirror' \in BOOLEAN
      BY <1>4 DEF ResumeMirror
    <2> QED
      BY <1>4, <2>1 DEF ResumeMirror
  <1>5. CASE OrderAdmit(r)
    BY <1>5 DEF OrderAdmit
  <1>6. CASE OrderRecord(r)
    BY <1>6, RecordType, HistoryType DEF OrderRecord
  <1> QED
    BY <1>1, <1>2, <1>3, <1>4, <1>5, <1>6 DEF Handler

LEMMA OutsideType ==
  ASSUME TypeOK, Undecided,
         ClosePosition \/ PutConfig \/ CliKill \/ CliResume \/ Midnight \/ Restart
  PROVE  (TypeOK /\ Undecided)'
  <1> USE DEF TypeOK, Undecided, RequestPc, switch, limits, engine
  <1>1. CASE ClosePosition
    BY <1>1, RecordType, HistoryType DEF ClosePosition
  <1>2. CASE PutConfig
    BY <1>2 DEF PutConfig
  <1>3. CASE CliKill
    <2>1. flag' \in BOOLEAN
      BY <1>3 DEF CliKill
    <2> QED
      BY <1>3, <2>1, HistoryType DEF CliKill
  <1>4. CASE CliResume
    <2>1. flag' \in BOOLEAN
      BY <1>4 DEF CliResume
    <2> QED
      BY <1>4, <2>1, HistoryType DEF CliResume
  <1>5. CASE Midnight
    <2>1. dayStale' \in BOOLEAN
      BY <1>5 DEF Midnight
    <2> QED
      BY <1>5, <2>1 DEF Midnight
  <1>6. CASE Restart
    <2>1. dayStale' \in BOOLEAN /\ active' \in BOOLEAN /\ mirror' \in BOOLEAN
      BY <1>6 DEF Restart
    <2>2. req' \in [Requests -> RequestPc]
      BY <1>6 DEF Restart
    <2>3. pc' = "init" /\ left' \in 0..MaxOpps
      BY <1>6, HaltAssumption DEF Restart
    <2>4. flag' \in BOOLEAN /\ halt' \in {"none", "ordered", "standing"}
      BY <1>6 DEF Restart
    <2>5. overshoot' \in Nat
      BY <1>6, HistoryType DEF Restart
    <2> QED
      BY <1>6, <2>1, <2>2, <2>3, <2>4, <2>5 DEF Restart, EnginePc
  <1> QED
    BY <1>1, <1>2, <1>3, <1>4, <1>5, <1>6

LEMMA NextType == TypeOK /\ Undecided /\ [Next]_vars => (TypeOK /\ Undecided)'
  <1>1. TypeOK /\ Undecided /\ UNCHANGED vars => (TypeOK /\ Undecided)'
    BY DEF TypeOK, Undecided, vars
  <1> QED
    BY <1>1, EngineType, HandlerType, OutsideType DEF Next

\* Every variable keeps its type; in particular the opportunities left to
\* decide never go below zero, although execution and recording decrement them
\* without looking.
THEOREM TypeCorrect == Spec => [](TypeOK /\ Undecided)
  BY InitType, NextType, PTL DEF Spec

-----------------------------------------------------------------------------
(* A standing kill is in all three copies. *)

\* Ordering a kill keeps the file if it is there, and orders nothing without it.
LEMMA SwitchOn ==
  ASSUME TypeOK, KillInv, Activate, KillOrdered
  PROVE  /\ active'
         /\ halt' # "none" => flag'
         /\ halt' = "standing" => halt = "standing"
  BY DEF TypeOK, KillInv, Activate, KillOrdered

LEMMA EngineKill ==
  ASSUME TypeOK, KillInv, Engine
  PROVE  KillInv'
  <1> USE DEF KillInv, NoPendingResume, switch
  <1>1. CASE EngineInit
    <2>1. CASE UNCHANGED <<flag, active, halt>>
      BY <1>1, <2>1 DEF EngineInit
    <2>2. CASE Activate /\ KillOrdered
      BY <1>1, <2>2, SwitchOn DEF EngineInit
    <2> QED
      BY <1>1, <2>1, <2>2 DEF EngineInit
  <1>2. CASE EngineGate
    BY <1>2 DEF EngineGate
  <1>3. CASE EngineScan
    BY <1>3 DEF EngineScan
  <1>4. CASE EngineDecide
    BY <1>4 DEF EngineDecide, CheckSwitch
  <1>5. CASE EngineExecute
    BY <1>5 DEF EngineExecute
  <1>6. CASE EngineRecord
    BY <1>6 DEF EngineRecord
  <1>7. CASE EngineLossCheck
    BY <1>7 DEF EngineLossCheck
  <1>8. CASE EngineLossKill
    BY <1>8, SwitchOn DEF EngineLossKill
  <1>9. CASE EngineMirror
    BY <1>9 DEF EngineMirror, KillStored
  <1> QED
    BY <1>1, <1>2, <1>3, <1>4, <1>5, <1>6, <1>7, <1>8, <1>9 DEF Engine, EngineStep

LEMMA HandlerKill ==
  ASSUME TypeOK, KillInv, NEW r \in Requests, Handler(r)
  PROVE  KillInv'
  <1> USE DEF KillInv, NoPendingResume, switch, TypeOK
  <1>1. CASE KillSwitchOn(r)
    BY <1>1, SwitchOn DEF KillSwitchOn
  <1>2. CASE KillMirror(r)
    BY <1>2 DEF KillMirror, KillStored
  <1>3. CASE ResumeSwitchOff(r)
    BY <1>3 DEF ResumeSwitchOff
  <1>4. CASE ResumeMirror(r)
    BY <1>4 DEF ResumeMirror
  <1>5. CASE OrderAdmit(r)
    BY <1>5 DEF OrderAdmit
  <1>6. CASE OrderRecord(r)
    BY <1>6 DEF OrderRecord
  <1> QED
    BY <1>1, <1>2, <1>3, <1>4, <1>5, <1>6 DEF Handler

LEMMA OutsideKill ==
  ASSUME KillInv,
         ClosePosition \/ PutConfig \/ CliKill \/ CliResume \/ Midnight \/ Restart
  PROVE  KillInv'
  BY DEF KillInv, NoPendingResume, switch, ClosePosition, PutConfig, CliKill, CliResume,
         Midnight, Restart

\* Once a kill is in its file and stored with no older resume half done, file,
\* memory and mirror all halt trading until somebody resumes, whatever writes of
\* the file fail afterwards.
THEOREM KillStands == Spec => []KillStandsEverywhere
  <1>1. Init => KillInv
    BY DEF Init, KillInv
  <1>2. TypeOK /\ KillInv /\ [Next]_vars => KillInv'
    <2>1. KillInv /\ UNCHANGED vars => KillInv'
      BY DEF KillInv, NoPendingResume, vars
    <2> QED
      BY <2>1, EngineKill, HandlerKill, OutsideKill DEF Next
  <1>3. KillInv => KillStandsEverywhere
    BY DEF KillInv, KillStandsEverywhere
  <1> QED
    BY <1>1, <1>2, <1>3, TypeCorrect, PTL DEF Spec

-----------------------------------------------------------------------------
(* TradingHalt implements HaltContract. *)

InFlight == pc = "exec"

LEMMA BlockedBoolean == Blocked \in BOOLEAN /\ Blocked' \in BOOLEAN
  BY DEF Blocked

\* A step that executes nothing and keeps the engine in or out of an execution
\* is a change of the block, or nothing at all.
LEMMA BlockChanges ==
  ASSUME Executed(0), UNCHANGED InFlight, overshoot \in Nat
  PROVE  Contract!ChangeBlock
  <1>1. overshoot' = IF Blocked' THEN overshoot ELSE 0
    BY DEF Executed
  <1> QED
    BY <1>1, BlockedBoolean DEF Contract!ChangeBlock, InFlight

LEMMA BlockKept ==
  ASSUME UNCHANGED <<flag, pnl, ownLimit, overshoot, InFlight>>
  PROVE  UNCHANGED Contract!vars
  BY DEF Contract!vars, Blocked, LossExceeded, InFlight

LEMMA EngineRefines ==
  ASSUME TypeOK, Engine
  PROVE  [Contract!Next]_(Contract!vars)
  <1> USE BlockChanges, BlockKept DEF Contract!Next, InFlight, switch, limits, TypeOK
  <1>1. CASE EngineInit
    BY <1>1 DEF EngineInit
  <1>2. CASE EngineGate
    BY <1>2 DEF EngineGate
  <1>3. CASE EngineScan
    BY <1>3 DEF EngineScan
  <1>4. CASE EngineDecide
    <2>1. UNCHANGED <<flag, pnl, ownLimit, overshoot>>
      BY <1>4 DEF EngineDecide, CheckSwitch
    <2>2. CASE pc' = "decide"
      BY <1>4, <2>1, <2>2 DEF EngineDecide
    <2>3. CASE pc' # "decide"
      <3>1. ~Blocked /\ pc' = "exec" /\ pc = "decide"
        BY <1>4, <2>3 DEF EngineDecide, CheckSwitch, Approves, Blocked
      <3>2. UNCHANGED <<Blocked, overshoot>>
        BY <2>1 DEF Blocked, LossExceeded
      <3>3. (pc' = "exec") = TRUE
        BY <3>1
      <3>4. Contract!Admit
        BY <3>1, <3>2, <3>3 DEF Contract!Admit
      <3> QED
        BY <3>4
    <2> QED
      BY <2>2, <2>3
  <1>5. CASE EngineExecute
    <2>1. pc = "exec" /\ pc' # "exec" /\ UNCHANGED Blocked
      BY <1>5 DEF EngineExecute, Blocked, LossExceeded
    <2>2. overshoot' = IF Blocked THEN overshoot + 1 ELSE 0
      BY <1>5, <2>1 DEF EngineExecute, Executed
    <2>3. (pc' = "exec") = FALSE
      BY <2>1
    <2>4. Contract!Execute
      BY <2>1, <2>2, <2>3 DEF Contract!Execute
    <2> QED
      BY <2>4
  <1>6. CASE EngineRecord
    BY <1>6 DEF EngineRecord
  <1>7. CASE EngineLossCheck
    BY <1>7 DEF EngineLossCheck
  <1>8. CASE EngineLossKill
    BY <1>8 DEF EngineLossKill
  <1>9. CASE EngineMirror
    BY <1>9 DEF EngineMirror
  <1> QED
    BY <1>1, <1>2, <1>3, <1>4, <1>5, <1>6, <1>7, <1>8, <1>9 DEF Engine, EngineStep

LEMMA HandlerRefines ==
  ASSUME TypeOK, NEW r \in Requests, Handler(r)
  PROVE  [Contract!Next]_(Contract!vars)
  <1> USE BlockChanges, BlockKept
          DEF Contract!Next, InFlight, switch, limits, engine, TypeOK
  <1>1. CASE KillSwitchOn(r)
    BY <1>1 DEF KillSwitchOn
  <1>2. CASE KillMirror(r)
    BY <1>2 DEF KillMirror
  <1>3. CASE ResumeSwitchOff(r)
    BY <1>3 DEF ResumeSwitchOff
  <1>4. CASE ResumeMirror(r)
    BY <1>4 DEF ResumeMirror
  <1>5. CASE OrderAdmit(r)
    BY <1>5 DEF OrderAdmit
  <1>6. CASE OrderRecord(r)
    BY <1>6 DEF OrderRecord
  <1> QED
    BY <1>1, <1>2, <1>3, <1>4, <1>5, <1>6 DEF Handler

LEMMA OutsideRefines ==
  ASSUME TypeOK,
         ClosePosition \/ PutConfig \/ CliKill \/ CliResume \/ Midnight \/ Restart
  PROVE  [Contract!Next]_(Contract!vars)
  <1> USE BlockChanges, BlockKept
          DEF Contract!Next, InFlight, switch, limits, engine, TypeOK
  <1>1. CASE ClosePosition
    BY <1>1 DEF ClosePosition
  <1>2. CASE PutConfig
    BY <1>2 DEF PutConfig
  <1>3. CASE CliKill
    BY <1>3 DEF CliKill
  <1>4. CASE CliResume
    BY <1>4 DEF CliResume
  <1>5. CASE Midnight
    BY <1>5 DEF Midnight
  <1>6. CASE Restart
    <2>1. (pc' = "exec") = FALSE
      BY <1>6 DEF Restart
    <2>2. overshoot' = IF Blocked' THEN overshoot ELSE 0
      BY <1>6 DEF Restart, Executed
    <2>3. Contract!Restart
      BY <2>1, <2>2, BlockedBoolean DEF Contract!Restart
    <2> QED
      BY <2>3
  <1> QED
    BY <1>1, <1>2, <1>3, <1>4, <1>5, <1>6

\* The whole process - engine task, handlers, command line, restarts - keeps
\* the contract of HaltContract.
THEOREM ImplementsContract == Spec => ContractSpec
  <1>1. Init => Contract!Init
    BY BlockedBoolean DEF Init, Contract!Init
  <1>2. TypeOK /\ [Next]_vars => [Contract!Next]_(Contract!vars)
    <2>1. UNCHANGED vars => UNCHANGED Contract!vars
      BY BlockKept DEF vars, InFlight
    <2> QED
      BY <2>1, EngineRefines, HandlerRefines, OutsideRefines DEF Next
  <1> QED
    BY <1>1, <1>2, TypeCorrect, PTL DEF Spec, ContractSpec, Contract!Spec

\* Therefore, from any number of sources of a halt, at most the trade whose risk
\* check had already passed is executed after trading is blocked.
THEOREM AtMostOneTrade == Spec => []AtMostOneTradeWhileBlocked
  <1>1. Contract!AtMostOneLate => AtMostOneTradeWhileBlocked
    BY DEF Contract!AtMostOneLate, AtMostOneTradeWhileBlocked
  <1> QED
    BY <1>1, ImplementsContract, Contract!LateBounded, PTL DEF ContractSpec
=============================================================================
