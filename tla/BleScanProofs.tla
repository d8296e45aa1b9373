---------------------------- MODULE BleScanProofs ----------------------------
(***************************************************************************)
(* The BLE duty cycle is driven by exactly one thing at a time, whatever   *)
(* the agent, the adapter and the callers do, for any number of signals    *)
(* under way.                                                              *)
(***************************************************************************)
EXTENDS BleScan, SequenceTheorems, TLAPS

IInv == TypeOK /\ CycleIsDriven

USE DEF IInv, TypeOK, CycleIsDriven, Active, Phases, AgentStates, cycleVars, agentVars, adapterVars

\* beginWindow leaves a window with an agent or the error it failed with.
LEMMA BeginWindowStep ==
  ASSUME TypeOK, NEW a \in AgentStates, BeginWindow(a)
  PROVE  /\ phase' = "Window" /\ agent' \in AgentStates
         /\ signals' \in Seq({"finished", "error"})
         /\ agent' # "off" \/ signals' # <<>>
<1>1. CASE UNCHANGED signals
  BY <1>1 DEF BeginWindow, AgentStart
<1>2. CASE signals' = Append(signals, "error")
  <2>1. signals' \in Seq({"finished", "error"}) /\ signals' # <<>>
    BY <1>2, AppendProperties
  <2> QED BY <2>1 DEF BeginWindow, AgentStart
<1> QED BY <1>1, <1>2 DEF BeginWindow, AgentStart

\* A start from any state of the agent leaves a cycle something drives (blemanager.cpp startScan).
LEMMA RestartStep ==
  ASSUME IInv, NEW a \in AgentStates, Restart(a), UNCHANGED powered, modes' \in Seq(BOOLEAN)
  PROVE  IInv'
<1>1. 0 \in 0 .. MaxDoublings
  BY MaxDoublingsAssumption
<1> QED BY <1>1, BeginWindowStep DEF Restart

\* The agent signals nothing but the end of a scan and an error.
LEMMA EmittedStep ==
  ASSUME TypeOK, NEW s, Emitted(s)
  PROVE  signals' \in Seq({"finished", "error"})
BY HeadTailProperties DEF Emitted

\* Every step keeps the invariant.
LEMMA Inductive ==
  ASSUME IInv, [Next]_vars
  PROVE  IInv'
<1>0. 0 \in 0 .. MaxDoublings
  BY MaxDoublingsAssumption
<1>1. CASE StartScan
  <2>1. CASE Restart(agent)
    BY <1>1, <2>1, RestartStep DEF StartScan
  <2>2. CASE /\ Active
             /\ scanWanted' = TRUE
             /\ attempts' = 0
             /\ UNCHANGED <<phase, gapTimer, retryTimer, agentVars>>
    BY <1>0, <1>1, <2>2 DEF StartScan
  <2> QED BY <1>1, <2>1, <2>2 DEF StartScan
<1>2. CASE StopScan
  BY <1>0, <1>2 DEF StopScan
<1>3. CASE RetryScan
  <2>1. scanWanted /\ phase = "Gap" /\ BeginWindow(agent)
    BY <1>3 DEF RetryScan
  <2> QED BY <1>3, <2>1, BeginWindowStep DEF RetryScan
<1>4. CASE GapFinished
  <2>1. scanWanted /\ phase = "Gap" /\ BeginWindow(agent)
    BY <1>4 DEF GapFinished
  <2> QED BY <1>4, <2>1, BeginWindowStep DEF GapFinished
<1>5. CASE ScanFinished
  BY <1>5, EmittedStep DEF ScanFinished
<1>6. CASE ErrorOccurred
  <2>1. signals' \in Seq({"finished", "error"})
    BY <1>6, EmittedStep DEF ErrorOccurred
  <2>2. attempts' \in 0 .. MaxDoublings
    BY <1>6, MaxDoublingsAssumption DEF ErrorOccurred, NextAttempt
  <2> QED BY <1>6, <2>1, <2>2 DEF ErrorOccurred
<1>7. CASE HostModeChanged
  <2>1. modes' \in Seq(BOOLEAN)
    BY <1>7, HeadTailProperties DEF HostModeChanged
  <2>2. CASE Restart("off")
    BY <1>7, <2>1, <2>2, RestartStep DEF HostModeChanged
  <2>3. CASE UNCHANGED <<cycleVars, agentVars>>
    BY <1>7, <2>1, <2>3 DEF HostModeChanged
  <2> QED BY <1>7, <2>2, <2>3 DEF HostModeChanged
<1>8. CASE DeviceDiscovered
  BY <1>0, <1>8 DEF DeviceDiscovered
<1>9. CASE AgentEnds
  <2>1. PICK s \in {"finished", "error"} : signals' = Append(signals, s)
    BY <1>9 DEF AgentEnds
  <2>2. signals' \in Seq({"finished", "error"}) /\ signals' # <<>>
    BY <2>1, AppendProperties
  <2> QED BY <1>9, <2>2 DEF AgentEnds
<1>10. CASE PowerChanges
  <2>1. powered' \in BOOLEAN /\ modes' \in Seq(BOOLEAN)
    BY <1>10, AppendProperties DEF PowerChanges
  <2> QED BY <1>10, <2>1 DEF PowerChanges
<1>11. CASE UNCHANGED vars
  BY <1>11 DEF vars
<1> QED BY <1>1, <1>2, <1>3, <1>4, <1>5, <1>6, <1>7, <1>8, <1>9, <1>10, <1>11 DEF Next

\* No cycle runs before the first start.
LEMMA Initially == Init => IInv
<1> SUFFICES ASSUME Init PROVE IInv
  OBVIOUS
<1>1. attempts \in 0 .. MaxDoublings /\ signals \in Seq({"finished", "error"})
      /\ modes \in Seq(BOOLEAN)
  BY MaxDoublingsAssumption DEF Init
<1> QED BY <1>1 DEF Init

\* The inductive invariant holds throughout.
LEMMA Invariant == Spec => []IInv
<1>1. IInv /\ [Next]_vars => IInv'
  BY Inductive
<1> QED BY Initially, <1>1, PTL DEF Spec

\* Every variable of the cycle keeps its type, the bounded count of failures among them.
THEOREM TypeCorrect == Spec => []TypeOK
<1>1. IInv => TypeOK
  OBVIOUS
<1> QED BY Invariant, <1>1, PTL

\* A wanted scan always has exactly one thing that moves its cycle on, and an unwanted one none
\* (BleManager::startScan, stopScan, onScanFinished, onErrorOccurred, onHostModeChanged).
THEOREM CycleDriven == Spec => []CycleIsDriven
<1>1. IInv => CycleIsDriven
  OBVIOUS
<1> QED BY Invariant, <1>1, PTL

\* A caller that asks for the scan it already has never cuts a timed gap short.
THEOREM GapKept == Spec => GapIsKept
<1>1. ASSUME IInv, [Next]_vars
      PROVE  [gapTimer /\ phase' = "Window" => GapFinished \/ HostModeChanged]_vars
  <2> SUFFICES ASSUME gapTimer, phase' = "Window"
               PROVE  GapFinished \/ HostModeChanged
    OBVIOUS
  <2>1. phase = "Gap" /\ ~retryTimer
    BY <1>1
  <2> QED
    BY <1>1, <2>1 DEF Next, vars, StartScan, StopScan, RetryScan, ScanFinished, ErrorOccurred,
                      DeviceDiscovered, AgentEnds, PowerChanges
<1> QED BY Invariant, <1>1, PTL DEF Spec, GapIsKept

=============================================================================
