------------------------ MODULE WarmPoolScalerProofs ------------------------
(***************************************************************************)
(* Proofs about WarmPoolScaler for any bounds of the pool, any numbers of  *)
(* sessions and any number of faults, restarts and deployments.            *)
(***************************************************************************)
EXTENDS WarmPoolScaler, TLAPS

USE ScalerAssumption

\* The target the adapter computes is within the bounds of the pool.
LEMMA TargetInBounds == \A n \in Loads : Target(n) \in Replicas
<1> SUFFICES ASSUME NEW n \in Loads
             PROVE  Target(n) \in Replicas
  OBVIOUS
<1>1. n \in Nat
  OBVIOUS
<1>2. QED
  BY <1>1 DEF Target, Larger, Smaller, Replicas

\* The loop of the adapter keeps the types: both patches write a target, every
\* other step of a tick moves pc and at most copies the load.
LEMMA TickKeepsTypes == TypeOK /\ Tick => TypeOK'
<1> SUFFICES ASSUME TypeOK, Tick
             PROVE  TypeOK'
  OBVIOUS
<1> USE DEF TypeOK, envVars
<1>calls. ASSUME Stats \/ WriteGauge \/ SkipPatch \/ Sleep
          PROVE  TypeOK'
  BY <1>calls DEF Stats, WriteGauge, SkipPatch, Sleep
<1>raises. ASSUME TickFails
           PROVE  TypeOK'
  BY <1>raises DEF TickFails, Fault
<1>patches. ASSUME Patch \/ PatchAnswerLost
            PROVE  TypeOK'
  <2>1. Target(depth) \in Replicas
    BY TargetInBounds
  <2>2. ASSUME Patch PROVE TypeOK'
    BY <2>1, <2>2 DEF Patch
  <2>3. ASSUME PatchAnswerLost PROVE TypeOK'
    BY <2>1, <2>3 DEF PatchAnswerLost
  <2>4. QED
    BY <1>patches, <2>2, <2>3
<1> QED
  BY <1>calls, <1>raises, <1>patches DEF Tick

\* So does what happens around it: sessions, a restart, `make deploy`.
LEMMA OutsideKeepsTypes ==
  TypeOK /\ (ChangeLoad \/ Restart \/ Deploy) => TypeOK'
<1> USE DEF TypeOK, adapterVars
<1>sessions. TypeOK /\ ChangeLoad => TypeOK'
  BY DEF ChangeLoad
<1>restart. TypeOK /\ Restart => TypeOK'
  BY DEF Restart
<1>deploy. TypeOK /\ Deploy => TypeOK'
  BY DEF Deploy
<1> QED
  BY <1>sessions, <1>restart, <1>deploy

\* Every reachable state has the types the code keeps: the pool's replicas are
\* always within --min-replicas and --max-replicas.
THEOREM TypeCorrect == Spec => []TypeOK
<1>start. Init => TypeOK
  BY DEF Init, TypeOK
<1>stutter. TypeOK /\ UNCHANGED vars => TypeOK'
  BY DEF TypeOK, vars, adapterVars, envVars
<1>step. TypeOK /\ [Next]_vars => TypeOK'
  BY <1>stutter, TickKeepsTypes, OutsideKeepsTypes DEF Next
<1> QED
  BY <1>start, <1>step, PTL DEF Spec

\* The memory of the adapter. Four facts say which steps write the pool's replicas,
\* which write last_target, and which spoil the agreement.

\* A patch whose answer arrives writes the same number to both.
LEMMA PatchWritesBoth == Patch => replicas' = lastTarget'
BY DEF Patch

\* A restarted adapter remembers nothing.
LEMMA RestartForgets == Restart => lastTarget' = None
BY DEF Restart

\* The two steps that write only the pool leave their mark in a counter.
LEMMA OneSidedWritesAreCounted ==
  TypeOK /\ (PatchAnswerLost \/ Deploy) => lost' # 0 \/ deploys' # 0
BY DEF TypeOK, PatchAnswerLost, Deploy

\* No other step writes the pool or the memory, or takes a mark away.
LEMMA OthersWriteNeither ==
  ASSUME \/ Stats \/ WriteGauge \/ SkipPatch \/ Sleep
         \/ TickFails \/ ChangeLoad \/ UNCHANGED vars
  PROVE  UNCHANGED <<replicas, lastTarget, lost, deploys>>
BY DEF Stats, WriteGauge, SkipPatch, Sleep, TickFails, ChangeLoad,
       vars, adapterVars, envVars

\* Every step falls under one of the four facts, so MemoryIsTrue is inductive.
LEMMA StepKeepsMemory ==
  TypeOK /\ MemoryIsTrue /\ [Next]_vars => MemoryIsTrue'
<1> SUFFICES ASSUME TypeOK, MemoryIsTrue, [Next]_vars
             PROVE  MemoryIsTrue'
  OBVIOUS
<1>agree. ASSUME Patch \/ Restart PROVE MemoryIsTrue'
  BY <1>agree, PatchWritesBoth, RestartForgets DEF MemoryIsTrue
<1>spoil. ASSUME PatchAnswerLost \/ Deploy PROVE MemoryIsTrue'
  BY <1>spoil, OneSidedWritesAreCounted DEF MemoryIsTrue
<1>other. ASSUME UNCHANGED <<replicas, lastTarget, lost, deploys>>
          PROVE  MemoryIsTrue'
  BY <1>other DEF MemoryIsTrue
<1> QED
  BY <1>agree, <1>spoil, <1>other, OthersWriteNeither DEF Next, Tick

\* What the adapter remembers is what the pool has, until an answer is lost or the
\* manifest is applied again (main.py:103-114).
THEOREM MemoryHolds == Spec => []MemoryIsTrue
<1>start. Init => MemoryIsTrue
  BY DEF Init, MemoryIsTrue
<1> QED
  BY <1>start, StepKeepsMemory, TypeCorrect, PTL DEF Spec
=============================================================================
