---------------------------- MODULE HaltContract ----------------------------
(***************************************************************************)
(* What the halting machinery promises, whoever halts trading and however  *)
(* the halt is stored: while trading is blocked no new automated trade is  *)
(* admitted, so the only execution that can still complete is the one that *)
(* was admitted before the block.  TradingHalt implements this contract.   *)
(***************************************************************************)
EXTENDS Naturals, TLAPS

VARIABLES
    blocked,   \* the system refuses automated trades
    inflight,  \* an automated trade has been admitted and not yet executed
    late       \* automated trades executed since trading became blocked

vars == <<blocked, inflight, late>>

TypeOK ==
    /\ blocked \in BOOLEAN
    /\ inflight \in BOOLEAN
    /\ late \in Nat

Init ==
    /\ blocked \in BOOLEAN
    /\ inflight = FALSE
    /\ late = 0

\* Any cause of a block appears, or the last one goes away.
ChangeBlock ==
    /\ blocked' \in BOOLEAN
    /\ late' = IF blocked' THEN late ELSE 0
    /\ UNCHANGED inflight

Admit ==
    /\ ~blocked /\ ~inflight
    /\ inflight' = TRUE
    /\ UNCHANGED <<blocked, late>>

Execute ==
    /\ inflight
    /\ inflight' = FALSE
    /\ late' = IF blocked THEN late + 1 ELSE 0
    /\ UNCHANGED blocked

\* The process dies, and a new one starts with what the disk remembers.
Restart ==
    /\ inflight' = FALSE
    /\ blocked' \in BOOLEAN
    /\ late' = IF blocked' THEN late ELSE 0

Next == ChangeBlock \/ Admit \/ Execute \/ Restart

Spec == Init /\ [][Next]_vars

-----------------------------------------------------------------------------

\* At most one automated trade completes after trading has been blocked: the
\* one whose risk check had already passed (engine_task.rs awaits the executor
\* with no lock held).
AtMostOneLate == late <= 1

\* The inductive form: an admitted trade that outlives the block is the first.
LateInv ==
    /\ TypeOK
    /\ ~blocked => late = 0
    /\ late + (IF inflight THEN 1 ELSE 0) <= 1

-----------------------------------------------------------------------------
LEMMA InitLate == Init => LateInv
  <1> SUFFICES ASSUME Init
               PROVE  LateInv
    OBVIOUS
  <1>1. TypeOK /\ late = 0
    BY DEF Init, TypeOK
  <1>2. ~inflight
    BY DEF Init
  <1> QED
    BY <1>1, <1>2 DEF LateInv

LEMMA NextLate == LateInv /\ [Next]_vars => LateInv'
  <1> SUFFICES ASSUME LateInv, [Next]_vars
               PROVE  LateInv'
    OBVIOUS
  <1> USE DEF LateInv, TypeOK
  <1>1. CASE ChangeBlock
    BY <1>1 DEF ChangeBlock
  <1>2. CASE Admit
    BY <1>2 DEF Admit
  <1>3. CASE Execute
    <2>1. inflight' \in BOOLEAN /\ ~inflight'
      BY <1>3 DEF Execute
    <2> QED
      BY <1>3, <2>1 DEF Execute
  <1>4. CASE Restart
    <2>1. inflight' \in BOOLEAN /\ ~inflight'
      BY <1>4 DEF Restart
    <2> QED
      BY <1>4, <2>1 DEF Restart
  <1>5. CASE UNCHANGED vars
    BY <1>5 DEF vars
  <1> QED
    BY <1>1, <1>2, <1>3, <1>4, <1>5 DEF Next

LEMMA ContractInvariant == Spec => []LateInv
  BY InitLate, NextLate, PTL DEF Spec

\* Whatever implements the contract lets at most one trade complete after
\* trading is blocked: the one execute_opportunity was already awaiting.
THEOREM LateBounded == Spec => []AtMostOneLate
  <1>1. LateInv => AtMostOneLate
    BY DEF LateInv, TypeOK, AtMostOneLate
  <1> QED
    BY <1>1, ContractInvariant, PTL
=============================================================================
