-------------------------------- MODULE BleScan --------------------------------
(***************************************************************************)
(* daemon/ble/blemanager.cpp, with scanduty.hpp and blescanretry.hpp: the  *)
(* duty cycle of the BLE scan, the retries of a failed window, and the     *)
(* restart after the adapter drops a scan in silence.                      *)
(*                                                                         *)
(* The discovery agent is Qt's.  It is modelled from how BleManager uses   *)
(* it: start() does nothing while it reports a scan, fails with an error   *)
(* when the adapter has no power, and otherwise scans until its timeout or *)
(* an error; stop() may race a signal already under way; and an adapter    *)
(* that loses power leaves it reporting a scan that is no longer live.     *)
(***************************************************************************)
EXTENDS Integers, Sequences

CONSTANTS
  MaxDoublings, \* blescanretry.hpp maxDoublings (6): the delay stops growing there
  MaxSignals,   \* bound: agent signals under way at once
  MaxModes      \* bound: host mode changes under way at once

ASSUME MaxDoublingsAssumption == MaxDoublings \in Nat \ {0}
ASSUME SignalBounds == MaxSignals \in Nat /\ MaxModes \in Nat

VARIABLES
  scanWanted,  \* scanWanted
  phase,       \* duty.m_phase
  gapTimer,    \* gapTimer is running
  retryTimer,  \* retryTimer is running
  attempts,    \* retryLadder.m_attempts, up to where the delay stops growing
  agent,       \* discoveryAgent: off, scanning, or stuck reporting a dead scan
  signals,     \* the agent's finished and error signals under way
  powered,     \* the adapter has power
  modes        \* hostModeStateChanged signals under way

cycleVars == <<scanWanted, phase, gapTimer, retryTimer, attempts>>
agentVars == <<agent, signals>>
adapterVars == <<powered, modes>>
vars == <<cycleVars, agentVars, adapterVars>>

Phases == {"Idle", "Window", "Gap"}
AgentStates == {"off", "scanning", "stuck"}

TypeOK ==
  /\ scanWanted \in BOOLEAN /\ gapTimer \in BOOLEAN /\ retryTimer \in BOOLEAN
  /\ powered \in BOOLEAN
  /\ phase \in Phases
  /\ attempts \in 0 .. MaxDoublings
  /\ agent \in AgentStates
  /\ signals \in Seq({"finished", "error"})
  /\ modes \in Seq(BOOLEAN)

-----------------------------------------------------------------------------
\* Cycle::active
Active == phase # "Idle"

\* QBluetoothDeviceDiscoveryAgent::start, called on an agent in state `a'
AgentStart(a) ==
  \/ a # "off" /\ agent' = a /\ UNCHANGED signals
  \/ a = "off" /\ powered /\ agent' = "scanning" /\ UNCHANGED signals
  \/ /\ a = "off" /\ ~powered /\ Len(signals) < MaxSignals
     /\ agent' = a
     /\ signals' = Append(signals, "error")

\* beginWindow
BeginWindow(a) == phase' = "Window" /\ AgentStart(a)

\* What startScan does to a cycle it (re)starts.
Restart(a) ==
  /\ scanWanted' = TRUE
  /\ attempts' = 0
  /\ retryTimer' = FALSE
  /\ gapTimer' = FALSE
  /\ BeginWindow(a)

-----------------------------------------------------------------------------
\* Mutant: startScan restarts the cycle whatever it is doing.
StartScanAnew == Restart(agent) /\ UNCHANGED adapterVars

\* startScan: a cycle under way is left alone unless it waits for a retry.
StartScan ==
  /\ \/ /\ Active /\ ~retryTimer
        /\ scanWanted' = TRUE
        /\ attempts' = 0
        /\ UNCHANGED <<phase, gapTimer, retryTimer, agentVars>>
     \/ /\ ~Active \/ retryTimer
        /\ Restart(agent)
  /\ UNCHANGED adapterVars

\* stopScan
StopScan ==
  /\ scanWanted' = FALSE
  /\ retryTimer' = FALSE
  /\ attempts' = 0
  /\ phase' = "Idle"
  /\ gapTimer' = FALSE
  /\ agent' = "off"
  /\ UNCHANGED <<signals, adapterVars>>

\* retryScan, the retry timer's slot
RetryScan ==
  /\ retryTimer
  /\ retryTimer' = FALSE
  /\ IF scanWanted /\ phase # "Window"
     THEN BeginWindow(agent)
     ELSE UNCHANGED <<phase, agentVars>>
  /\ UNCHANGED <<scanWanted, gapTimer, attempts, adapterVars>>

\* The gap timer's slot
GapFinished ==
  /\ gapTimer
  /\ gapTimer' = FALSE
  /\ IF phase = "Gap" THEN BeginWindow(agent) ELSE UNCHANGED <<phase, agentVars>>
  /\ UNCHANGED <<scanWanted, retryTimer, attempts, adapterVars>>

Emitted(signal) == signals # <<>> /\ Head(signals) = signal /\ signals' = Tail(signals)

\* Mutant: a finished signal times a gap whether or not a window was open.
ScanFinishedAlways ==
  /\ Emitted("finished")
  /\ phase' = "Gap" /\ gapTimer' = TRUE
  /\ UNCHANGED <<scanWanted, retryTimer, attempts, agent, adapterVars>>

\* onScanFinished
ScanFinished ==
  /\ Emitted("finished")
  /\ IF phase = "Window"
     THEN phase' = "Gap" /\ gapTimer' = TRUE
     ELSE UNCHANGED <<phase, gapTimer>>
  /\ UNCHANGED <<scanWanted, retryTimer, attempts, agent, adapterVars>>

\* Ladder::nextDelayMs counts one more failure; past the limit the delay is the same.
NextAttempt(n) == IF n < MaxDoublings THEN n + 1 ELSE n

\* onErrorOccurred
ErrorOccurred ==
  /\ Emitted("error")
  /\ agent' = "off"
  /\ IF scanWanted
     THEN /\ attempts' = NextAttempt(attempts)
          /\ gapTimer' = FALSE
          /\ phase' = IF phase = "Window" THEN "Gap" ELSE phase
          /\ retryTimer' = TRUE
     ELSE UNCHANGED <<attempts, gapTimer, phase, retryTimer>>
  /\ UNCHANGED <<scanWanted, adapterVars>>

\* Mutant: the agent is not stopped first, so start() finds it still reporting the dead scan.
HostModeChangedUnstopped ==
  /\ modes # <<>> /\ modes' = Tail(modes)
  /\ IF Head(modes) /\ scanWanted THEN Restart(agent) ELSE UNCHANGED <<cycleVars, agentVars>>
  /\ UNCHANGED powered

\* onHostModeChanged
HostModeChanged ==
  /\ modes # <<>>
  /\ modes' = Tail(modes)
  /\ IF Head(modes) /\ scanWanted
     THEN Restart("off")
     ELSE UNCHANGED <<cycleVars, agentVars>>
  /\ UNCHANGED powered

\* onDeviceDiscovered: an advertisement clears the count.
DeviceDiscovered ==
  /\ agent = "scanning"
  /\ attempts' = 0
  /\ UNCHANGED <<scanWanted, phase, gapTimer, retryTimer, agentVars, adapterVars>>

-----------------------------------------------------------------------------
\* The agent and the adapter

AgentEnds ==
  /\ agent = "scanning"
  /\ Len(signals) < MaxSignals
  /\ agent' = "off"
  /\ \E s \in {"finished", "error"} : signals' = Append(signals, s)
  /\ UNCHANGED <<cycleVars, adapterVars>>

PowerChanges ==
  /\ Len(modes) < MaxModes
  /\ powered' = ~powered
  /\ modes' = Append(modes, powered')
  /\ agent' = IF agent = "scanning" THEN "stuck" ELSE agent
  /\ UNCHANGED <<cycleVars, signals>>

Init ==
  /\ scanWanted = FALSE
  /\ phase = "Idle"
  /\ gapTimer = FALSE
  /\ retryTimer = FALSE
  /\ attempts = 0
  /\ agent = "off"
  /\ signals = <<>>
  /\ powered \in BOOLEAN
  /\ modes = <<>>

Next ==
  \/ StartScan \/ StopScan
  \/ RetryScan \/ GapFinished
  \/ ScanFinished \/ ErrorOccurred \/ HostModeChanged \/ DeviceDiscovered
  \/ AgentEnds \/ PowerChanges

\* The event loop fires armed timers and delivers signals.  The callers of startScan and
\* stopScan, the adapter and the advertisements are not fair, nor need the agent's scan end.
Fairness ==
  /\ WF_vars(RetryScan)
  /\ WF_vars(GapFinished)
  /\ WF_vars(ScanFinished \/ ErrorOccurred)
  /\ WF_vars(HostModeChanged)

Spec == Init /\ [][Next]_vars /\ Fairness

-----------------------------------------------------------------------------
\* Properties

\* A scan is wanted exactly while a cycle is under way, and a cycle always has exactly one thing
\* that moves it on: in a gap one of the two timers, in a window the agent or its signal.  No
\* race of a stop, a stale signal, an error and an adapter change leaves it with none or two.
CycleIsDriven ==
  /\ scanWanted <=> Active
  /\ gapTimer \/ retryTimer <=> phase = "Gap"
  /\ ~(gapTimer /\ retryTimer)
  /\ phase = "Window" => agent # "off" \/ signals # <<>>

\* "restarting mid-gap would take back the radio this cycle just handed to whatever is trying
\* to reconnect" (startScan): a gap that is being timed is cut short only by the adapter coming
\* back, never by a caller that wants the scan it already has.
GapIsKept == [][gapTimer /\ phase' = "Window" => GapFinished \/ HostModeChanged]_vars

\* "One failure must not stop discovery for the life of the process" (onErrorOccurred), nor an
\* adapter that drops a live scan without a signal (onHostModeChanged): while a scan stays
\* wanted and the adapter keeps its power, the radio scans again and again.
ScanResumes == <>[](powered /\ scanWanted) => []<>(agent = "scanning")

=============================================================================
