------------------------------ MODULE ControlLink ------------------------------
(***************************************************************************)
(* The control link of the daemon (daemon/main.cpp) and everything that    *)
(* brings it up, notices its loss and recovers it: the L2CAP socket and    *)
(* its callbacks, BlueZ's signals and probe answers (BluetoothMonitor.cpp),*)
(* the recovery session, the one-shot timers, the watchdog, suspend and    *)
(* resume, and the verbs that pick an address.                             *)
(*                                                                         *)
(* The daemon runs on one event loop, so a step is one callback, whole.    *)
(* A helper below that is called by several callbacks constrains only the  *)
(* variables it owns; the callback adds the rest.                          *)
(*                                                                         *)
(* BleManager is seen through isScanning() alone; the MediaController, the *)
(* notifier and the ATT channel, which the callbacks also call, keep no    *)
(* state this module reads.                                                *)
(***************************************************************************)
EXTENDS ControlReconnect, Sequences, FiniteSets

CONSTANTS
  Pods,        \* bonded AirPods, by Bluetooth address
  NoPod,       \* the empty address
  SilentBlueZ, \* may Device1.Connected change with no signal reaching the daemon?
  MaxSignals,  \* bound: signals BlueZ queues before the daemon runs
  MaxShots,    \* bound: initial-connect retries of one pair pending at once
  MaxWakes     \* bound: resume grace timers pending at once; 0 means no suspend

ASSUME PodsAssumption == Pods # {} /\ NoPod \notin Pods
ASSUME BoundsAssumption ==
  /\ SilentBlueZ \in BOOLEAN
  /\ MaxSignals \in Nat /\ MaxShots \in Nat /\ MaxWakes \in Nat

VARIABLES
  \* the daemon
  socket,              \* socket: its peer, its progress and its recovery property
  session,             \* m_controlRecovery
  reconnectTimer,      \* m_controlReconnectTimer is running
  retryCount,          \* m_retryCount
  shots,               \* per pair, the singleShot connects nobody can cancel
  lastAddress,         \* m_lastAirPodsAddress
  deviceAddress,       \* m_deviceInfo->bluetoothAddress()
  finalized,           \* m_disconnectFinalized
  bluezReported,       \* m_bluezReportedConnected
  scanning,            \* m_bleManager->isScanning()
  suspending,          \* m_isSuspending
  wakeTimers,          \* resume grace timers running
  \* its surroundings
  pods,                \* what each pair is to BlueZ: away, held, or ready to accept
  bus,                 \* BlueZ's signals and replies, in the order they are delivered
  requests,            \* probes BlueZ has not answered yet
  asleep               \* between logind's PrepareForSleep(true) and (false)

recoveryVars == <<session, reconnectTimer>>
addressVars == <<lastAddress, deviceAddress>>
powerVars == <<suspending, wakeTimers, asleep>>
bluezVars == <<pods, bus, requests>>
vars == <<socket, recoveryVars, retryCount, shots, addressVars, finalized, bluezReported, scanning,
          powerVars, bluezVars>>

-----------------------------------------------------------------------------
\* State

PodStates == {"away", "held", "ready"}

NoSocket == [state |-> "none", peer |-> NoPod, recovery |-> FALSE]
NewSocket(pod, recovery) == [state |-> "connecting", peer |-> pod, recovery |-> recovery]
Sockets == {NoSocket} \cup
           [state : {"connecting", "connected", "failed"}, peer : Pods, recovery : BOOLEAN]

Signals == [kind : {"connected", "disconnected", "changed"}, pod : Pods]
Requests == [id : ProbeIds, pod : Pods]
Replies == [kind : {"reply"}, pod : Pods, id : ProbeIds, connected : BOOLEAN]

Held == {p \in Pods : pods[p] # "away"}

\* areAirpodsConnected
LinkUp == socket.state = "connected"

InFlight == {r.id : r \in requests} \cup
            {bus[i].id : i \in {j \in DOMAIN bus : bus[j].kind = "reply"}}

TypeOK ==
  /\ socket \in Sockets
  /\ session \in Sessions
  /\ reconnectTimer \in BOOLEAN
  /\ retryCount \in 0 .. RetryAttempts
  /\ shots \in [Pods -> 0 .. MaxShots]
  /\ lastAddress \in Pods \cup {NoPod}
  /\ deviceAddress \in Pods \cup {NoPod}
  /\ {finalized, bluezReported, scanning, suspending, asleep} \subseteq BOOLEAN
  /\ wakeTimers \in 0 .. MaxWakes
  /\ pods \in [Pods -> PodStates]
  /\ bus \in Seq(Signals \cup Replies)
  /\ requests \subseteq Requests

-----------------------------------------------------------------------------
\* Shared helpers

\* Mutant: connectToDevice without its "Already connected" return.
NeverConnectedTo(pod) == FALSE

\* connectToDevice: a socket open to the same peer is kept, any other is dropped.
\* A socket has a peer address, and is open, only once connected.
ConnectedTo(pod) == LinkUp /\ socket.peer = pod

ConnectToDevice(pod, recovery) ==
  IF ConnectedTo(pod)
  THEN UNCHANGED <<socket, deviceAddress>>
  ELSE /\ socket' = NewSocket(pod, recovery)
       /\ deviceAddress' = pod

\* Mutant: the teardown forgets startScan.
FinalizeWithoutScan(scan, count) ==
  /\ scanning' = scan
  /\ IF finalized
     THEN /\ retryCount' = count
          /\ UNCHANGED <<recoveryVars, deviceAddress, finalized>>
     ELSE /\ finalized' = TRUE
          /\ reconnectTimer' = FALSE
          /\ session' = IdleSession
          /\ retryCount' = 0
          /\ deviceAddress' = NoPod

\* Mutant: the teardown forgets to cancel the session.
FinalizeKeepingSession(scan, count) ==
  /\ finalized' = TRUE
  /\ reconnectTimer' = FALSE
  /\ retryCount' = IF finalized THEN count ELSE 0
  /\ deviceAddress' = IF finalized THEN deviceAddress ELSE NoPod
  /\ scanning' = (scan \/ ~finalized)
  /\ UNCHANGED session

\* finalizeDeviceDisconnected: the teardown, at most once per outage.  In this helper and the
\* two below, `scan' and `count' are what the caller left isScanning() and m_retryCount at.
FinalizeDeviceDisconnected(scan, count) ==
  IF finalized
  THEN /\ scanning' = scan
       /\ retryCount' = count
       /\ UNCHANGED <<recoveryVars, deviceAddress, finalized>>
  ELSE /\ finalized' = TRUE
       /\ reconnectTimer' = FALSE
       /\ session' = IdleSession
       /\ retryCount' = 0
       /\ deviceAddress' = NoPod
       /\ scanning' = TRUE

\* scheduleControlRecoveryRetry
ScheduleControlRecoveryRetry(deviceStillConnected, scan, count) ==
  IF HasRetry(session, deviceStillConnected)
  THEN /\ session' = Retried(session, deviceStillConnected)
       /\ reconnectTimer' = TRUE
       /\ scanning' = scan
       /\ retryCount' = count
       /\ UNCHANGED <<deviceAddress, finalized>>
  ELSE FinalizeDeviceDisconnected(scan, count)

\* Mutant: the session in progress is begun again, its budgets given back.
ScheduleControlReconnectAnew(pod, count) ==
  /\ lastAddress' = pod
  /\ retryCount' = count
  /\ IF suspending
     THEN FinalizeDeviceDisconnected(scanning, count)
     ELSE /\ session' = Begin(scanning)
          /\ reconnectTimer' = TRUE
          /\ finalized' = FALSE
          /\ scanning' = FALSE
          /\ UNCHANGED <<deviceAddress>>

\* Mutant: the scan is not stopped for the recovery.
ScheduleControlReconnectLoud(pod, count) ==
  /\ lastAddress' = pod
  /\ retryCount' = count
  /\ IF suspending
     THEN FinalizeDeviceDisconnected(scanning, count)
     ELSE /\ IF IsActive(session)
             THEN UNCHANGED <<recoveryVars, finalized>>
             ELSE session' = Begin(scanning) /\ reconnectTimer' = TRUE /\ finalized' = FALSE
          /\ UNCHANGED <<scanning, deviceAddress>>

\* scheduleControlReconnect.  Every caller passes an address, so only suspending tears down.
ScheduleControlReconnect(pod, count) ==
  /\ lastAddress' = pod
  /\ \/ /\ suspending
        /\ FinalizeDeviceDisconnected(scanning, count)
     \/ /\ ~suspending
        /\ ~IsActive(session)
        /\ session' = Begin(scanning)
        /\ reconnectTimer' = TRUE
        /\ finalized' = FALSE
        /\ scanning' = FALSE
        /\ retryCount' = count
        /\ UNCHANGED <<deviceAddress>>
     \/ /\ ~suspending
        /\ session.state = "ConnectingSocket"
        /\ ScheduleControlRecoveryRetry(FALSE, FALSE, count)
     \/ /\ ~suspending
        /\ session.state \in {"Waiting", "ProbingBlueZ"}
        /\ scanning' = FALSE
        /\ retryCount' = count
        /\ UNCHANGED <<recoveryVars, deviceAddress, finalized>>

\* bluezDeviceConnected, for the pairs one callback announces: `first' and `last' of them.
\* A signal announces one pair; a sweep announces every pair BlueZ holds.
BluezDevicesConnected(first, last) ==
  /\ finalized' = FALSE
  /\ lastAddress' = last
  /\ \/ /\ IsActive(session)
        /\ session.state = "ConnectingSocket" /\ socket # NoSocket
        /\ UNCHANGED <<socket, recoveryVars, deviceAddress>>
     \/ /\ IsActive(session)
        /\ ~(session.state = "ConnectingSocket" /\ socket # NoSocket)
        /\ reconnectTimer' = FALSE
        /\ session' = BeginConnection(session)
        /\ ConnectToDevice(first, TRUE)
     \/ /\ ~IsActive(session)
        /\ IF first = last
           THEN ConnectToDevice(last, FALSE)
           ELSE socket' = NewSocket(last, FALSE) /\ deviceAddress' = last
        /\ UNCHANGED recoveryVars

\* checkAlreadyConnectedDevices: silent when BlueZ holds nothing or does not answer in time.
Sweep ==
  \/ UNCHANGED <<socket, recoveryVars, addressVars, finalized>>
  \/ \E first, last \in Held :
       /\ first = last <=> Cardinality(Held) = 1
       /\ BluezDevicesConnected(first, last)

-----------------------------------------------------------------------------
\* The socket's callbacks

\* handleConnection.  A scan finishControlRecovery restores is stopped again in the same callback.
SocketConnected ==
  /\ socket.state = "connecting"
  /\ pods[socket.peer] = "ready"
  /\ socket' = [socket EXCEPT !.state = "connected"]
  /\ retryCount' = 0
  /\ finalized' = FALSE
  /\ IF socket.recovery /\ IsActive(session)
     THEN session' = IdleSession /\ reconnectTimer' = FALSE
     ELSE UNCHANGED recoveryVars
  /\ scanning' = FALSE
  /\ UNCHANGED <<shots, addressVars, bluezReported, powerVars, bluezVars>>

\* handleError and `disconnected', before a connection.  Only a recovery socket is dropped.
RecoverySocketFailed ==
  /\ socket.state = "connecting" /\ socket.recovery
  /\ pods[socket.peer] # "ready"
  /\ IF IsActive(session)
     THEN /\ socket' = NoSocket
          /\ lastAddress' = socket.peer
          /\ ScheduleControlRecoveryRetry(TRUE, scanning, retryCount)
     ELSE /\ socket' = [socket EXCEPT !.state = "failed"]
          /\ UNCHANGED <<recoveryVars, retryCount, addressVars, finalized, scanning>>
  /\ UNCHANGED <<shots, bluezReported, powerVars, bluezVars>>

InitialConnectFailed ==
  /\ socket.state = "connecting" /\ ~socket.recovery
  /\ pods[socket.peer] # "ready"
  /\ socket' = [socket EXCEPT !.state = "failed"]
  /\ \/ /\ retryCount < RetryAttempts
        /\ shots[socket.peer] < MaxShots
        /\ retryCount' = retryCount + 1
        /\ shots' = [shots EXCEPT ![socket.peer] = @ + 1]
        /\ UNCHANGED <<recoveryVars, addressVars, finalized, scanning>>
     \/ /\ retryCount = RetryAttempts
        /\ ScheduleControlReconnect(socket.peer, 0)
        /\ UNCHANGED shots
  /\ UNCHANGED <<bluezReported, powerVars, bluezVars>>

\* handleControlSocketLoss, for a socket error or `disconnected' on an established link.
SocketLost ==
  /\ LinkUp
  /\ socket' = NoSocket
  /\ ScheduleControlReconnect(socket.peer, retryCount)
  /\ UNCHANGED <<shots, bluezReported, powerVars, bluezVars>>

-----------------------------------------------------------------------------
\* Timers

\* attemptControlReconnect.  The timer runs only while the session waits with an address to
\* try (TimerServesWaiting), so its two early returns are never taken.
AttemptControlReconnect ==
  /\ reconnectTimer
  /\ session.state = "Waiting"
  /\ reconnectTimer' = FALSE
  /\ \/ /\ LinkUp
        \* finishControlRecovery
        /\ session' = IdleSession
        /\ finalized' = FALSE
        /\ scanning' = session.restoreBleScan
        /\ UNCHANGED requests
     \/ /\ ~LinkUp
        /\ \E id \in ProbeIds \ InFlight :
             /\ session' = BeginProbe(session, id)
             /\ requests' = requests \cup {[id |-> id, pod |-> lastAddress]}
        /\ UNCHANGED <<finalized, scanning>>
  /\ UNCHANGED <<socket, retryCount, shots, addressVars, bluezReported,
                 powerVars, pods, bus>>

\* The singleShot of handleError.  Nothing cancels it: not a link, not a recovery, not a teardown.
RetryShot(pod) ==
  /\ shots[pod] > 0
  /\ shots' = [shots EXCEPT ![pod] = @ - 1]
  /\ lastAddress' = IF ConnectedTo(pod) THEN lastAddress ELSE pod
  /\ ConnectToDevice(pod, FALSE)
  /\ UNCHANGED <<recoveryVars, retryCount, finalized, bluezReported, scanning,
                 powerVars, bluezVars>>

\* checkControlLinkWatchdog, the two ticks that do something.
WatchdogRescan ==
  /\ ShouldRescanFromWatchdog(LinkUp, session, suspending, lastAddress # NoPod)
  /\ Sweep
  /\ UNCHANGED <<retryCount, shots, bluezReported, scanning, powerVars, bluezVars>>

WatchdogRetry ==
  /\ ShouldRetryFromWatchdog(LinkUp, session, suspending, lastAddress # NoPod, bluezReported)
  /\ ScheduleControlReconnect(lastAddress, retryCount)
  /\ UNCHANGED <<socket, shots, bluezReported, powerVars, bluezVars>>

-----------------------------------------------------------------------------
\* What BlueZ sends, in order

Delivered(kind) == bus # <<>> /\ Head(bus).kind = kind /\ bus' = Tail(bus)

\* bluezDeviceConnected, from a Connected signal, or from a UUIDs or ServicesResolved change
\* of a device that reads as connected when the daemon asks back.
DeviceConnected ==
  /\ \/ Delivered("connected")
     \/ Delivered("changed") /\ Head(bus).pod \in Held
  /\ BluezDevicesConnected(Head(bus).pod, Head(bus).pod)
  /\ UNCHANGED <<retryCount, shots, bluezReported, scanning, powerVars, pods, requests>>

ChangeOfAbsentDevice ==
  /\ Delivered("changed") /\ Head(bus).pod \notin Held
  /\ UNCHANGED <<socket, recoveryVars, retryCount, shots, addressVars, finalized, bluezReported,
                 scanning, powerVars, pods, requests>>

\* bluezDeviceDisconnected and onDeviceDisconnected
DeviceDisconnected ==
  /\ Delivered("disconnected")
  /\ IF Head(bus).pod = deviceAddress
     THEN /\ socket' = NoSocket
          /\ ScheduleControlReconnect(Head(bus).pod, retryCount)
     ELSE UNCHANGED <<socket, recoveryVars, retryCount, addressVars, finalized, scanning>>
  /\ UNCHANGED <<shots, bluezReported, powerVars, pods, requests>>

\* Mutant: any answer for the pair passes for the one the session waits for.
AnswersAnyProbe(reply) == reply.pod = lastAddress /\ session.state = "ProbingBlueZ"

AnswersProbe(reply) == reply.pod = lastAddress /\ AcceptsProbe(session, reply.id)

\* controlConnectionProbeFinished
ProbeFinished ==
  /\ Delivered("reply")
  /\ LET reply == Head(bus) IN
     \/ /\ ~AnswersProbe(reply)
        /\ UNCHANGED <<socket, recoveryVars, retryCount, addressVars, finalized, bluezReported,
                       scanning>>
     \/ /\ AnswersProbe(reply)
        /\ reply.connected
        /\ bluezReported' = TRUE
        /\ session' = BeginConnection(session)
        /\ ConnectToDevice(reply.pod, TRUE)
        /\ UNCHANGED <<reconnectTimer, retryCount, lastAddress, finalized, scanning>>
     \/ /\ AnswersProbe(reply)
        /\ ~reply.connected
        /\ bluezReported' = FALSE
        /\ ScheduleControlRecoveryRetry(FALSE, scanning, retryCount)
        /\ UNCHANGED <<socket, lastAddress>>
  /\ UNCHANGED <<shots, powerVars, pods, requests>>

-----------------------------------------------------------------------------
\* Suspend and resume

\* onSystemGoingToSleep
GoToSleep ==
  /\ ~asleep
  /\ wakeTimers < MaxWakes
  /\ asleep' = TRUE
  /\ suspending' = TRUE
  /\ scanning' = FALSE
  /\ UNCHANGED <<socket, recoveryVars, retryCount, shots, addressVars, finalized, bluezReported,
                 wakeTimers, bluezVars>>

\* onSystemWakingUp: only the grace timer starts.
WakeUp ==
  /\ asleep
  /\ asleep' = FALSE
  /\ wakeTimers' = wakeTimers + 1
  /\ UNCHANGED <<socket, recoveryVars, retryCount, shots, addressVars, finalized, bluezReported,
                 scanning, suspending, bluezVars>>

\* The lambda of onSystemWakingUp: the scan decision reads the link before the sweep.
WakeSettled ==
  /\ wakeTimers > 0
  /\ wakeTimers' = wakeTimers - 1
  /\ scanning' = ~(LinkUp /\ deviceAddress # NoPod)
  /\ Sweep
  /\ suspending' = FALSE
  /\ UNCHANGED <<retryCount, shots, bluezReported, asleep, bluezVars>>

-----------------------------------------------------------------------------
\* Verbs

\* getAirPodsAddress: the device's own address, else a bonded pair BlueZ lists, which
\* overwrites the last address, else the last address.
AddressForVerb ==
  \/ /\ deviceAddress # NoPod
     /\ UNCHANGED lastAddress
  \/ /\ deviceAddress = NoPod
     /\ \/ lastAddress' \in Pods
        \/ lastAddress # NoPod /\ UNCHANGED lastAddress

\* disconnectAirPods, connectAirPods and forgetDevice: bluetoothctl does the rest, and what comes
\* of it reaches the daemon as a signal.  The flag disconnectAirPods leaves for the notifier is
\* not part of this module.
AddressVerb ==
  /\ AddressForVerb
  /\ UNCHANGED <<socket, recoveryVars, retryCount, shots, deviceAddress, finalized, bluezReported,
                 scanning, powerVars, bluezVars>>

-----------------------------------------------------------------------------
\* BlueZ and the pods

Signal(kind, pod) == Len(bus) < MaxSignals /\ bus' = Append(bus, [kind |-> kind, pod |-> pod])

daemonVars == <<socket, recoveryVars, retryCount, shots, addressVars, finalized, bluezReported,
                scanning, powerVars>>

\* A pair comes, goes, or starts or stops accepting the control link.  Device1.Connected is
\* announced as it changes, unless bluetoothd (re)creates or drops the object silently.
PodChanges(pod) ==
  /\ \E to \in PodStates \ {pods[pod]} :
       /\ pods' = [pods EXCEPT ![pod] = to]
       /\ IF (to = "away") = (pods[pod] = "away")
          THEN UNCHANGED bus
          ELSE \/ Signal(IF to = "away" THEN "disconnected" ELSE "connected", pod)
               \/ SilentBlueZ /\ UNCHANGED bus
  /\ UNCHANGED <<daemonVars, requests>>

\* UUIDs or ServicesResolved changed
PropertiesChange(pod) ==
  /\ pod \in Held
  /\ Signal("changed", pod)
  /\ UNCHANGED <<daemonVars, pods, requests>>

\* probeDeviceConnected's GetManagedObjects answers; an error reads as not connected.
AnswerProbe ==
  /\ \E r \in requests :
       /\ \E connected \in {r.pod \in Held, FALSE} :
            bus' = Append(bus, [kind |-> "reply", pod |-> r.pod, id |-> r.id, connected |-> connected])
       /\ requests' = requests \ {r}
  /\ UNCHANGED <<daemonVars, pods>>

-----------------------------------------------------------------------------
\* The state the constructor leaves: the sweep announced what BlueZ holds, loadFromSettings
\* then put the saved address over the swept one, and the scan was started.
Init ==
  /\ pods \in [Pods -> PodStates]
  /\ \/ socket = NoSocket /\ lastAddress = NoPod
     \/ \E p \in Held : socket = NewSocket(p, FALSE) /\ lastAddress = p
  /\ deviceAddress \in Pods \cup {NoPod}
  /\ session = IdleSession
  /\ reconnectTimer = FALSE
  /\ retryCount = 0
  /\ shots = [p \in Pods |-> 0]
  /\ finalized = FALSE
  /\ bluezReported = FALSE
  /\ scanning = TRUE
  /\ suspending = FALSE
  /\ wakeTimers = 0
  /\ bus = <<>>
  /\ requests = {}
  /\ asleep = FALSE

SocketOutcome == SocketConnected \/ RecoverySocketFailed \/ InitialConnectFailed
Watchdog == WatchdogRescan \/ WatchdogRetry
Deliver == DeviceConnected \/ ChangeOfAbsentDevice \/ DeviceDisconnected \/ ProbeFinished
Shot == \E p \in Pods : RetryShot(p)

Daemon ==
  \/ SocketOutcome \/ SocketLost
  \/ AttemptControlReconnect \/ Shot \/ Watchdog
  \/ Deliver
  \/ GoToSleep \/ WakeUp \/ WakeSettled
  \/ AddressVerb

Environment ==
  \/ \E p \in Pods : PodChanges(p) \/ PropertiesChange(p)
  \/ AnswerProbe

Next == Daemon \/ Environment

\* The event loop runs every armed timer and delivers every message; BlueZ answers a method
\* call or libdbus times it out; a connect ends one way or the other; the kernel reports a
\* socket whose pair has gone.  The user, the pods and logind are not fair.
Fairness ==
  /\ WF_vars(SocketOutcome)
  /\ WF_vars(SocketLost /\ pods[socket.peer] = "away")
  /\ WF_vars(AttemptControlReconnect)
  /\ WF_vars(Shot)
  /\ WF_vars(Watchdog)
  /\ WF_vars(Deliver)
  /\ WF_vars(AnswerProbe)
  /\ WF_vars(WakeSettled)

Spec == Init /\ [][Next]_vars
FairSpec == Spec /\ Fairness

-----------------------------------------------------------------------------
\* Properties

\* A session moves as ProbeNonce.tla says: begun only when none is active, probes told apart
\* while in flight, and a late answer (to a probe a signal or a teardown overtook) without effect
\* (controlreconnect.hpp acceptsProbe, main.cpp controlConnectionProbeFinished).
Nonce == INSTANCE ProbeNonce WITH inFlight <- InFlight
SessionsMatchProbes == Nonce!Spec

\* The one-shot timer runs exactly while the session waits for it.
TimerServesWaiting == reconnectTimer <=> session.state = "Waiting"

\* A session that connects has a socket that has not given up, or a retry that will replace it.
ConnectionUnderWay ==
  session.state = "ConnectingSocket" =>
    /\ socket # NoSocket
    /\ socket.state = "failed" => \E p \in Pods : shots[p] > 0

\* A session that probes has the answer it waits for still to come.
ProbeUnderWay == session.state = "ProbingBlueZ" => session.probe \in InFlight

\* A recovery always has something that will move it on: nothing else re-enters an active
\* session, since the watchdog stays silent while one runs.
RecoveryIsDriven == TimerServesWaiting /\ ConnectionUnderWay /\ ProbeUnderWay

\* finalizeDeviceDisconnected returns early once it has run, so a recovery that begins again
\* must have cleared the flag or could never be torn down.
TeardownEndsRecovery == finalized => ~IsActive(session)

\* "The pods are gone, so playback that was on them stops" (main.cpp finalizeDeviceDisconnected): a
\* pair that was torn down has no control link.  The code does not keep this.
FinalizedMeansGone == finalized => ~LinkUp

\* Every teardown, failure and resume leaves discovery on, or an attempt under way that will:
\* the pods coming back are always noticed.
DiscoveryNotLost ==
  ~LinkUp /\ ~IsActive(session) /\ ~suspending =>
    scanning \/ socket.state = "connecting" \/ \E p \in Pods : shots[p] > 0

\* BlueZ raising and lowering Connected, socket losses and watchdog ticks reuse the session in
\* progress: while it lasts, neither budget is ever given back.
LadderNeverRewinds ==
  [][IsActive(session) /\ IsActive(session)' =>
       /\ session'.absentProbes >= session.absentProbes
       /\ session'.connectedAttempts >= session.connectedAttempts]_vars

\* With one pair, an established link is dropped only by its own loss or by BlueZ reporting the
\* pair gone: no timer, probe answer, retry, resume or verb replaces a socket that works.
LinkDropsOnlyOnLoss ==
  [][LinkUp /\ socket' # socket => SocketLost \/ DeviceDisconnected]_vars

\* "A live scan delays the L2CAP connect this recovery depends on" (main.cpp
\* scheduleControlReconnect): no step starts a scan beside a recovery, or a recovery beside a scan,
\* except the end of a resume's grace (README, behaviours that do not hold).
NoScanJoinsRecovery ==
  [][IsActive(session)' /\ scanning' => WakeSettled \/ (IsActive(session) /\ scanning)]_vars

\* "so attempts don't leak across devices (e.g. switching between two paired AirPods)"
\* (main.cpp handleError): a pending retry of one pair leaves the other pair's link alone.  The
\* code does not keep this (README, behaviours that do not hold); no run checks it.
RetryNeverStealsTheLink == [][LinkUp /\ Shot => UNCHANGED socket]_vars

\* A recovery ends, in a link or in the teardown, whatever BlueZ and the pods do: both budgets
\* are finite and nothing parks the session.
RecoveryTerminates == []<>(~IsActive(session) \/ LinkUp)

\* Pods that leave for good end with the link down, no recovery running and discovery on.
DiscoveryResumes ==
  <>[](Held = {} /\ ~suspending) => <>[](scanning /\ ~IsActive(session) /\ ~LinkUp)

\* The watchdog's promise: once the last probe said connected, pods that stay ready are
\* reconnected however many ladders ran out first.
WatchdogRecovers ==
  (\E p \in Pods : <>[](pods[p] = "ready" /\ bluezReported /\ ~suspending)) => []<>LinkUp

=============================================================================
