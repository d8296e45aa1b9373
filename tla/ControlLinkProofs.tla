--------------------------- MODULE ControlLinkProofs ---------------------------
(***************************************************************************)
(* Theorems about ControlLink.tla, for any number of pairs, probes, queued *)
(* signals and suspends, and any setting of the two budgets.               *)
(*                                                                         *)
(* Neither TeardownEndsRecovery nor TypeOK is inductive alone: a teardown  *)
(* asked for twice leaves the session as it is, so it must already be over *)
(* (TeardownEndsRecovery), and a retry is only ever counted while there is *)
(* budget, which the session's type records.  IInv joins them.  The second *)
(* part is on the radio: the scan beside the sessions and, with one pair,  *)
(* what drives a recovery and what may drop an established link.  The      *)
(* third shows that with one pair the link's sessions implement those of   *)
(* ProbeNonce.tla.                                                         *)
(***************************************************************************)
EXTENDS ControlLink, SequenceTheorems, TLAPS

-----------------------------------------------------------------------------
\* The operators of a session: what each returns, in which state, and that none gives budget back.

\* Both counts of `t' are at least those of `s'.
Spent(s, t) ==
  t.absentProbes >= s.absentProbes /\ t.connectedAttempts >= s.connectedAttempts

\* The idle session is a session, and not active.
LEMMA IdleSessionFacts ==
  IdleSession \in Sessions /\ ~IsActive(IdleSession) /\ IdleSession.state = "Idle"
BY RetryAttemptsAssumption, ConnectedAttemptLimitAssumption
   DEF IdleSession, Sessions, SessionStates, IsActive

\* The fields of a session, with the counts as numbers.
LEMMA SessionFacts ==
  ASSUME NEW s \in Sessions
  PROVE  /\ s.state \in SessionStates
         /\ s.absentProbes \in 0 .. RetryAttempts /\ s.absentProbes \in Int
         /\ s.connectedAttempts \in 0 .. ConnectedAttemptLimit /\ s.connectedAttempts \in Int
         /\ s.restoreBleScan \in BOOLEAN
         /\ s.probe \in ProbeIds \cup {NoProbe}
BY RetryAttemptsAssumption, ConnectedAttemptLimitAssumption DEF Sessions

\* A recovery that begins waits for its first probe.
LEMMA BeginFacts ==
  ASSUME NEW scan \in BOOLEAN
  PROVE  Begin(scan) \in Sessions /\ Begin(scan).state = "Waiting"
<1>1. ASSUME NEW x, x = Begin(scan)
      PROVE  x = [state |-> "Waiting", absentProbes |-> 0, connectedAttempts |-> 0,
                  restoreBleScan |-> scan, probe |-> NoProbe]
  BY <1>1 DEF Begin, IdleSession
<1>2. Begin(scan) = [state |-> "Waiting", absentProbes |-> 0, connectedAttempts |-> 0,
                     restoreBleScan |-> scan, probe |-> NoProbe]
  BY <1>1
<1> QED
  BY <1>2, RetryAttemptsAssumption, ConnectedAttemptLimitAssumption DEF Sessions, SessionStates

\* A probe gives no spent budget back.
LEMMA BeginProbeFacts ==
  ASSUME NEW s \in Sessions, NEW id \in ProbeIds
  PROVE  /\ BeginProbe(s, id) \in Sessions
         /\ BeginProbe(s, id).state = "ProbingBlueZ"
         /\ Spent(s, BeginProbe(s, id))
<1>1. ASSUME NEW x, x = BeginProbe(s, id)
      PROVE  x = [state |-> "ProbingBlueZ", absentProbes |-> s.absentProbes,
                  connectedAttempts |-> s.connectedAttempts,
                  restoreBleScan |-> s.restoreBleScan, probe |-> id]
  BY <1>1 DEF BeginProbe, Sessions
<1>2. PICK x : x = BeginProbe(s, id)
  OBVIOUS
<1> QED BY <1>1, <1>2, SessionFacts DEF Sessions, SessionStates, Spent

\* Nor does a connection.
LEMMA BeginConnectionFacts ==
  ASSUME NEW s \in Sessions
  PROVE  /\ BeginConnection(s) \in Sessions
         /\ BeginConnection(s).state = "ConnectingSocket"
         /\ Spent(s, BeginConnection(s))
<1>1. ASSUME NEW x, x = BeginConnection(s)
      PROVE  x = [state |-> "ConnectingSocket", absentProbes |-> s.absentProbes,
                  connectedAttempts |-> s.connectedAttempts,
                  restoreBleScan |-> s.restoreBleScan, probe |-> NoProbe]
  BY <1>1 DEF BeginConnection, Sessions
<1>2. PICK x : x = BeginConnection(s)
  OBVIOUS
<1> QED BY <1>1, <1>2, SessionFacts DEF Sessions, SessionStates, Spent

\* prepareRetry keeps both counts within their budgets.
LEMMA RetriedFacts ==
  ASSUME NEW s \in Sessions, NEW still \in BOOLEAN, HasRetry(s, still)
  PROVE  /\ Retried(s, still) \in Sessions
         /\ Retried(s, still).state = "Waiting"
         /\ Spent(s, Retried(s, still))
<1> USE RetryAttemptsAssumption, ConnectedAttemptLimitAssumption
<1>1. ASSUME NEW x, x = Retried(s, still)
      PROVE  x = [state |-> "Waiting",
                  absentProbes |-> IF still THEN s.absentProbes ELSE s.absentProbes + 1,
                  connectedAttempts |-> IF still THEN s.connectedAttempts + 1
                                                 ELSE s.connectedAttempts,
                  restoreBleScan |-> s.restoreBleScan, probe |-> NoProbe]
  BY <1>1 DEF Retried, Sessions
<1>2. PICK x : x = Retried(s, still)
  OBVIOUS
<1>3. /\ x.absentProbes \in 0 .. RetryAttempts
      /\ x.connectedAttempts \in 0 .. ConnectedAttemptLimit
      /\ Spent(s, x)
  BY <1>1, <1>2, SessionFacts DEF HasRetry, Spent
<1>4. x \in Sessions /\ x.state = "Waiting"
  BY <1>1, <1>2, <1>3, SessionFacts DEF Sessions, SessionStates
<1> QED BY <1>2, <1>3, <1>4

-----------------------------------------------------------------------------
\* The invariant

\* A recovery has an address to try: it is begun with one, and none is ever forgotten.
ActiveHasAddress == IsActive(session) => lastAddress # NoPod

\* The bound on resume timers counts the one a suspend in progress will start.
SleepWithinBound == asleep => wakeTimers < MaxWakes

IInv ==
  TypeOK /\ TimerServesWaiting /\ TeardownEndsRecovery /\ ActiveHasAddress /\ SleepWithinBound

\* What a step does to the recovery's own variables, if it keeps the invariant.
RecoveryStep ==
  /\ session' \in Sessions
  /\ reconnectTimer' \in BOOLEAN
  /\ finalized' \in BOOLEAN
  /\ reconnectTimer' <=> session'.state = "Waiting"
  /\ finalized' => session'.state = "Idle"
  /\ session.state # "Idle" /\ session'.state # "Idle" => Spent(session, session')
  /\ session'.state # "Idle" => session.state # "Idle" \/ lastAddress' \in Pods

\* An address once remembered is only ever replaced by another.
Remembered == lastAddress' \in Pods \/ lastAddress' = lastAddress

\* The types of what the helpers of ControlLink constrain beside the recovery.
AddressStep == deviceAddress' \in Pods \cup {NoPod}
ScanStep == retryCount' \in 0 .. RetryAttempts /\ scanning' \in BOOLEAN

USE DEF IInv, TypeOK, TimerServesWaiting, TeardownEndsRecovery, ActiveHasAddress,
        SleepWithinBound, IsActive, Remembered

\* A step that leaves the session and its timer alone is a step of a recovery.
LEMMA QuietStep ==
  ASSUME IInv, UNCHANGED <<session, reconnectTimer>>,
         finalized' = FALSE \/ finalized' = finalized
  PROVE  RecoveryStep
<1>1. session.absentProbes \in Int /\ session.connectedAttempts \in Int
  BY SessionFacts
<1>2. Spent(session, session')
  BY <1>1 DEF Spent
<1>3. finalized \in BOOLEAN /\ reconnectTimer \in BOOLEAN /\ session \in Sessions
  OBVIOUS
<1>4. session' \in Sessions /\ reconnectTimer' \in BOOLEAN
  BY <1>3
<1>5. finalized' \in BOOLEAN /\ (finalized' => session'.state = "Idle")
  <2>1. CASE finalized' = FALSE
    BY <2>1
  <2>2. CASE finalized' = finalized
    BY <1>3, <2>2
  <2> QED BY <2>1, <2>2
<1>6. reconnectTimer' <=> session'.state = "Waiting"
  OBVIOUS
<1> QED BY <1>2, <1>4, <1>5, <1>6 DEF RecoveryStep

\* So is one that ends the session and stops its timer.
LEMMA EndStep ==
  ASSUME IInv, session' = IdleSession, reconnectTimer' = FALSE, finalized' \in BOOLEAN
  PROVE  RecoveryStep
BY IdleSessionFacts DEF RecoveryStep

-----------------------------------------------------------------------------
\* The shared helpers

\* The teardown ends the recovery (main.cpp finalizeDeviceDisconnected).
LEMMA FinalizeStep ==
  ASSUME IInv, NEW scan \in BOOLEAN, NEW count \in 0 .. RetryAttempts,
         FinalizeDeviceDisconnected(scan, count)
  PROVE  RecoveryStep /\ AddressStep /\ ScanStep /\ session'.state = "Idle"
<1>1. CASE finalized
  <2>1. UNCHANGED <<session, reconnectTimer, deviceAddress, finalized>> /\ scanning' = scan
        /\ retryCount' = count
    BY <1>1 DEF FinalizeDeviceDisconnected, recoveryVars
  <2> QED BY <1>1, <2>1, QuietStep DEF AddressStep, ScanStep
<1>2. CASE ~finalized
  <2>1. /\ session' = IdleSession /\ reconnectTimer' = FALSE /\ finalized' = TRUE
        /\ retryCount' = 0 /\ deviceAddress' = NoPod /\ scanning' = TRUE
    BY <1>2 DEF FinalizeDeviceDisconnected
  <2>2. RecoveryStep
    BY <2>1, EndStep
  <2> QED BY <2>1, <2>2, IdleSessionFacts, RetryAttemptsAssumption DEF AddressStep, ScanStep
<1> QED BY <1>1, <1>2

\* A retry waits on the timer, or finalizes when its budget is spent.
LEMMA RetryStep ==
  ASSUME IInv, NEW still \in BOOLEAN, NEW scan \in BOOLEAN, NEW count \in 0 .. RetryAttempts,
         ScheduleControlRecoveryRetry(still, scan, count)
  PROVE  /\ RecoveryStep /\ AddressStep /\ ScanStep
         /\ session'.state \in {"Idle", "Waiting"}
         /\ session'.state = "Waiting" => scanning' = scan
<1>1. CASE HasRetry(session, still)
  <2>1. /\ session' = Retried(session, still) /\ reconnectTimer' = TRUE
        /\ scanning' = scan /\ retryCount' = count /\ UNCHANGED <<deviceAddress, finalized>>
    BY <1>1 DEF ScheduleControlRecoveryRetry
  <2>2. session' \in Sessions /\ session'.state = "Waiting" /\ Spent(session, session')
    BY <1>1, <2>1, RetriedFacts
  <2>3. session.state # "Idle" /\ finalized = FALSE
    BY <1>1 DEF HasRetry
  <2> QED BY <2>1, <2>2, <2>3 DEF RecoveryStep, AddressStep, ScanStep
<1>2. CASE ~HasRetry(session, still)
  BY <1>2, FinalizeStep DEF ScheduleControlRecoveryRetry
<1> QED BY <1>1, <1>2

\* A lost link is recovered, or while suspending finalized (main.cpp scheduleControlReconnect).
LEMMA ReconnectStep ==
  ASSUME IInv, NEW pod \in Pods, NEW count \in 0 .. RetryAttempts,
         ScheduleControlReconnect(pod, count)
  PROVE  /\ RecoveryStep /\ AddressStep /\ ScanStep
         /\ lastAddress' = pod
         /\ session'.state # "ConnectingSocket"
         /\ session'.state # "Idle" => scanning' = FALSE
<1>0. lastAddress' = pod
  BY DEF ScheduleControlReconnect
<1>1. CASE suspending /\ FinalizeDeviceDisconnected(scanning, count)
  BY <1>0, <1>1, FinalizeStep
<1>2. CASE /\ ~IsActive(session) /\ session' = Begin(scanning) /\ reconnectTimer' = TRUE
           /\ finalized' = FALSE /\ scanning' = FALSE /\ retryCount' = count
           /\ UNCHANGED deviceAddress
  <2>1. session' \in Sessions /\ session'.state = "Waiting"
    BY <1>2, BeginFacts
  <2> QED BY <1>0, <1>2, <2>1 DEF RecoveryStep, AddressStep, ScanStep
<1>3. CASE session.state = "ConnectingSocket" /\ ScheduleControlRecoveryRetry(FALSE, FALSE, count)
  BY <1>0, <1>3, RetryStep
<1>4. CASE /\ session.state \in {"Waiting", "ProbingBlueZ"}
           /\ scanning' = FALSE /\ retryCount' = count
           /\ UNCHANGED <<session, reconnectTimer, deviceAddress, finalized>>
  BY <1>0, <1>4, QuietStep DEF AddressStep, ScanStep
<1> QED BY <1>1, <1>2, <1>3, <1>4 DEF ScheduleControlReconnect, recoveryVars

\* A connect leaves a socket under way or keeps one that is (main.cpp connectToDevice).
LEMMA ConnectStep ==
  ASSUME TypeOK, NEW pod \in Pods, NEW recovery \in BOOLEAN, ConnectToDevice(pod, recovery)
  PROVE  socket' \in Sockets /\ socket'.state \in {"connecting", "connected"} /\ AddressStep
<1>1. CASE ConnectedTo(pod)
  BY <1>1 DEF ConnectToDevice, ConnectedTo, LinkUp, AddressStep
<1>2. CASE ~ConnectedTo(pod)
  BY <1>2 DEF ConnectToDevice, NewSocket, Sockets, AddressStep
<1> QED BY <1>1, <1>2

\* A pair BlueZ announces never begins a recovery (main.cpp bluezDeviceConnected).
LEMMA AnnounceStep ==
  ASSUME IInv, NEW first \in Pods, NEW last \in Pods, BluezDevicesConnected(first, last)
  PROVE  /\ RecoveryStep /\ AddressStep /\ socket' \in Sockets /\ lastAddress' = last
         /\ session.state = "Idle" => session'.state = "Idle"
<1>0. finalized' = FALSE /\ lastAddress' = last
  BY DEF BluezDevicesConnected
<1>1. CASE UNCHANGED <<socket, session, reconnectTimer, deviceAddress>>
  BY <1>0, <1>1, QuietStep DEF AddressStep
<1>2. CASE /\ session.state # "Idle" /\ reconnectTimer' = FALSE
           /\ session' = BeginConnection(session) /\ ConnectToDevice(first, TRUE)
  <2>1. session' \in Sessions /\ session'.state = "ConnectingSocket" /\ Spent(session, session')
    BY <1>2, BeginConnectionFacts
  <2>2. socket' \in Sockets /\ AddressStep
    BY <1>2, ConnectStep
  <2> QED BY <1>0, <1>2, <2>1, <2>2 DEF RecoveryStep
<1>3. CASE /\ UNCHANGED <<session, reconnectTimer>>
           /\ ConnectToDevice(last, FALSE)
  BY <1>0, <1>3, QuietStep, ConnectStep
<1>4. CASE /\ UNCHANGED <<session, reconnectTimer>>
           /\ socket' = NewSocket(last, FALSE) /\ deviceAddress' = last
  BY <1>0, <1>4, QuietStep DEF NewSocket, Sockets, AddressStep
<1> QED BY <1>1, <1>2, <1>3, <1>4 DEF BluezDevicesConnected, recoveryVars

\* Nor does a sweep over the pairs BlueZ holds; the address it leaves is a pair's, or unchanged.
LEMMA SweepStep ==
  ASSUME IInv, Sweep
  PROVE  /\ RecoveryStep /\ AddressStep /\ socket' \in Sockets
         /\ Remembered
         /\ session.state = "Idle" => session'.state = "Idle"
<1>1. CASE UNCHANGED <<socket, recoveryVars, addressVars, finalized>>
  BY <1>1, QuietStep DEF recoveryVars, addressVars, AddressStep
<1>2. ASSUME NEW first \in Held, NEW last \in Held, BluezDevicesConnected(first, last)
      PROVE  /\ RecoveryStep /\ AddressStep /\ socket' \in Sockets
             /\ Remembered
             /\ session.state = "Idle" => session'.state = "Idle"
  <2>1. first \in Pods /\ last \in Pods
    BY DEF Held
  <2> QED BY <1>2, <2>1, AnnounceStep
<1> QED BY <1>1, <1>2 DEF Sweep

\* A socket that is not the empty one has one of the pairs for a peer.
LEMMA SocketFacts ==
  ASSUME TypeOK, socket.state # "none"
  PROVE  socket.peer \in Pods /\ socket.recovery \in BOOLEAN
         /\ socket.state \in {"connecting", "connected", "failed"}
BY DEF Sockets, NoSocket

\* Delivering a message takes it off the bus, and it names a pair.
LEMMA DeliveredFacts ==
  ASSUME TypeOK, NEW kind, Delivered(kind)
  PROVE  /\ Head(bus) \in Signals \cup Replies
         /\ Head(bus).pod \in Pods
         /\ bus' \in Seq(Signals \cup Replies)
<1>1. bus # <<>> /\ bus' = Tail(bus)
  BY DEF Delivered
<1>2. Head(bus) \in Signals \cup Replies /\ Tail(bus) \in Seq(Signals \cup Replies)
  BY <1>1, HeadTailProperties
<1> QED BY <1>1, <1>2 DEF Signals, Replies

-----------------------------------------------------------------------------
\* One lemma per group of actions: each keeps the types and takes a RecoveryStep.

\* The outcomes of a socket.
LEMMA SocketSteps ==
  ASSUME IInv, SocketConnected \/ RecoverySocketFailed \/ InitialConnectFailed \/ SocketLost
  PROVE  TypeOK' /\ RecoveryStep /\ Remembered
<1>0. /\ socket.peer \in Pods /\ socket.recovery \in BOOLEAN
      /\ finalized \in BOOLEAN /\ scanning \in BOOLEAN
  BY SocketFacts DEF SocketConnected, RecoverySocketFailed, InitialConnectFailed, SocketLost, LinkUp
<1>1. CASE SocketConnected
  <2>1. RecoveryStep
    <3>1. CASE session' = IdleSession /\ reconnectTimer' = FALSE
      BY <1>1, <3>1, EndStep DEF SocketConnected
    <3>2. CASE UNCHANGED <<session, reconnectTimer>>
      BY <1>1, <3>2, QuietStep DEF SocketConnected
    <3> QED BY <1>1, <3>1, <3>2 DEF SocketConnected, recoveryVars
  <2>2. socket' \in Sockets
    <3>1. socket \in [state : {"connecting", "connected", "failed"}, peer : Pods,
                      recovery : BOOLEAN]
      BY <1>1 DEF SocketConnected, Sockets, NoSocket
    <3> QED BY <1>1, <3>1 DEF SocketConnected, Sockets
  <2>3. retryCount' \in 0 .. RetryAttempts /\ finalized' = FALSE /\ scanning' = FALSE
    <3>1. 0 \in 0 .. RetryAttempts
      BY RetryAttemptsAssumption
    <3> QED BY <1>1, <3>1 DEF SocketConnected
  <2> QED BY <1>1, <2>1, <2>2, <2>3
          DEF SocketConnected, RecoveryStep, addressVars, powerVars, bluezVars
<1>2. CASE RecoverySocketFailed
  <2>1. CASE IsActive(session)
    <3>1. RecoveryStep /\ AddressStep /\ ScanStep
      BY <1>0, <1>2, <2>1, RetryStep DEF RecoverySocketFailed
    <3> QED BY <1>0, <1>2, <2>1, <3>1
            DEF RecoverySocketFailed, RecoveryStep, AddressStep, ScanStep, Sockets, powerVars, bluezVars
  <2>2. CASE ~IsActive(session)
    <3>1. RecoveryStep
      BY <1>2, <2>2, QuietStep DEF RecoverySocketFailed, recoveryVars
    <3>2. socket' \in Sockets
      <4>1. socket \in [state : {"connecting", "connected", "failed"}, peer : Pods,
                        recovery : BOOLEAN]
        BY <1>2 DEF RecoverySocketFailed, Sockets, NoSocket
      <4> QED BY <1>2, <2>2, <4>1 DEF RecoverySocketFailed, Sockets
    <3> QED BY <1>2, <2>2, <3>1, <3>2
            DEF RecoverySocketFailed, RecoveryStep, addressVars, powerVars, bluezVars
  <2> QED BY <2>1, <2>2
<1>3. CASE InitialConnectFailed
  <2>0. socket' \in Sockets
    <3>1. socket \in [state : {"connecting", "connected", "failed"}, peer : Pods,
                      recovery : BOOLEAN]
      BY <1>3 DEF InitialConnectFailed, Sockets, NoSocket
    <3> QED BY <1>3, <3>1 DEF InitialConnectFailed, Sockets
  <2>1. CASE /\ retryCount < RetryAttempts
             /\ shots[socket.peer] < MaxShots
             /\ retryCount' = retryCount + 1
             /\ shots' = [shots EXCEPT ![socket.peer] = @ + 1]
             /\ UNCHANGED <<recoveryVars, addressVars, finalized, scanning>>
    <3>1. RecoveryStep
      BY <2>1, QuietStep DEF recoveryVars
    <3>2. retryCount' \in 0 .. RetryAttempts /\ shots' \in [Pods -> 0 .. MaxShots]
      BY <1>0, <2>1, RetryAttemptsAssumption, BoundsAssumption
    <3> QED BY <1>3, <2>0, <2>1, <3>1, <3>2
            DEF InitialConnectFailed, RecoveryStep, addressVars, powerVars, bluezVars
  <2>2. CASE ScheduleControlReconnect(socket.peer, 0) /\ UNCHANGED shots
    <3>0. 0 \in 0 .. RetryAttempts
      BY RetryAttemptsAssumption
    <3>1. RecoveryStep /\ AddressStep /\ ScanStep /\ lastAddress' = socket.peer
      BY <1>0, <2>2, <3>0, ReconnectStep
    <3> QED BY <1>0, <1>3, <2>0, <2>2, <3>1
            DEF InitialConnectFailed, RecoveryStep, AddressStep, ScanStep, powerVars, bluezVars
  <2> QED BY <1>3, <2>1, <2>2 DEF InitialConnectFailed
<1>4. CASE SocketLost
  <2>1. RecoveryStep /\ AddressStep /\ ScanStep /\ lastAddress' = socket.peer
    BY <1>0, <1>4, ReconnectStep DEF SocketLost
  <2> QED BY <1>0, <1>4, <2>1
          DEF SocketLost, RecoveryStep, AddressStep, ScanStep, Sockets, powerVars, bluezVars
<1> QED BY <1>1, <1>2, <1>3, <1>4

\* The timers of the recovery, of a connect and of the watchdog.
LEMMA TimerSteps ==
  ASSUME IInv, AttemptControlReconnect \/ Shot \/ Watchdog
  PROVE  TypeOK' /\ RecoveryStep /\ Remembered
<1>0. finalized \in BOOLEAN /\ scanning \in BOOLEAN
  OBVIOUS
<1>1. CASE AttemptControlReconnect
  <2>0. UNCHANGED <<socket, retryCount, shots, addressVars, bluezReported, powerVars, pods, bus>>
    BY <1>1 DEF AttemptControlReconnect
  <2>1. CASE /\ session' = IdleSession /\ reconnectTimer' = FALSE /\ finalized' = FALSE
             /\ scanning' = session.restoreBleScan /\ UNCHANGED requests
    <3>1. RecoveryStep
      BY <2>1, EndStep
    <3>2. scanning' \in BOOLEAN
      BY <2>1, SessionFacts
    <3> QED BY <2>0, <2>1, <3>1, <3>2 DEF RecoveryStep, addressVars, powerVars
  <2>2. ASSUME NEW id \in ProbeIds,
               session.state = "Waiting", reconnectTimer' = FALSE,
               session' = BeginProbe(session, id),
               requests' = requests \cup {[id |-> id, pod |-> lastAddress]},
               UNCHANGED <<finalized, scanning>>
        PROVE  TypeOK' /\ RecoveryStep /\ Remembered
    <3>1. session' \in Sessions /\ session'.state = "ProbingBlueZ" /\ Spent(session, session')
      BY <2>2, BeginProbeFacts
    <3>2. RecoveryStep
      BY <1>0, <2>2, <3>1 DEF RecoveryStep
    <3>3. lastAddress \in Pods
      BY <2>2
    <3> QED BY <2>0, <2>2, <3>2, <3>3 DEF RecoveryStep, Requests, addressVars, powerVars
  <2> QED BY <1>1, <2>1, <2>2 DEF AttemptControlReconnect, recoveryVars
<1>2. ASSUME NEW pod \in Pods, RetryShot(pod)
      PROVE  TypeOK' /\ RecoveryStep /\ Remembered
  <2>1. RecoveryStep
    BY <1>2, QuietStep DEF RetryShot, recoveryVars
  <2>2. socket' \in Sockets /\ AddressStep
    BY <1>2, ConnectStep DEF RetryShot
  <2>3. shots' \in [Pods -> 0 .. MaxShots] /\ lastAddress' \in Pods \cup {NoPod}
    BY <1>2, BoundsAssumption DEF RetryShot
  <2> QED BY <1>2, <2>1, <2>2, <2>3 DEF RetryShot, RecoveryStep, AddressStep, powerVars, bluezVars
<1>3. CASE WatchdogRescan
  <2>1. /\ RecoveryStep /\ AddressStep /\ socket' \in Sockets
        /\ Remembered
    BY <1>3, SweepStep DEF WatchdogRescan
  <2> QED BY <1>3, <2>1 DEF WatchdogRescan, RecoveryStep, AddressStep, powerVars, bluezVars
<1>4. CASE WatchdogRetry
  <2>0. lastAddress \in Pods
    BY <1>4 DEF WatchdogRetry, ShouldRetryFromWatchdog
  <2>1. RecoveryStep /\ AddressStep /\ ScanStep /\ lastAddress' = lastAddress
    BY <1>4, <2>0, ReconnectStep DEF WatchdogRetry
  <2> QED BY <1>4, <2>1
          DEF WatchdogRetry, RecoveryStep, AddressStep, ScanStep, powerVars, bluezVars
<1> QED BY <1>1, <1>2, <1>3, <1>4 DEF Shot, Watchdog

\* A signal or a reply of BlueZ is delivered.
LEMMA DeliverySteps ==
  ASSUME IInv, Deliver
  PROVE  TypeOK' /\ RecoveryStep /\ Remembered
<1>0. finalized \in BOOLEAN /\ scanning \in BOOLEAN
  OBVIOUS
<1> DEFINE pod == Head(bus).pod
<1>9. pod \in Pods /\ bus' \in Seq(Signals \cup Replies)
  BY DeliveredFacts
     DEF Deliver, DeviceConnected, ChangeOfAbsentDevice, DeviceDisconnected, ProbeFinished
<1> HIDE DEF pod
<1>1. CASE DeviceConnected
  <2>1. /\ RecoveryStep /\ AddressStep /\ socket' \in Sockets
        /\ Remembered
    BY <1>1, <1>9, AnnounceStep DEF DeviceConnected, pod
  <2> QED BY <1>1, <1>9, <2>1 DEF DeviceConnected, RecoveryStep, AddressStep, powerVars
<1>2. CASE ChangeOfAbsentDevice
  <2>1. RecoveryStep
    BY <1>2, QuietStep DEF ChangeOfAbsentDevice, recoveryVars
  <2> QED BY <1>2, <1>9, <2>1 DEF ChangeOfAbsentDevice, RecoveryStep, addressVars, powerVars
<1>3. CASE DeviceDisconnected
  <2>1. CASE socket' = NoSocket /\ ScheduleControlReconnect(pod, retryCount)
    <3>1. RecoveryStep /\ AddressStep /\ ScanStep /\ lastAddress' = pod
      BY <1>9, <2>1, ReconnectStep
    <3> QED BY <1>3, <1>9, <2>1, <3>1
            DEF DeviceDisconnected, RecoveryStep, AddressStep, ScanStep, Sockets, powerVars
  <2>2. CASE UNCHANGED <<socket, recoveryVars, retryCount, addressVars, finalized, scanning>>
    <3>1. RecoveryStep
      BY <2>2, QuietStep DEF recoveryVars
    <3> QED BY <1>3, <1>9, <2>2, <3>1 DEF DeviceDisconnected, RecoveryStep, addressVars, powerVars
  <2> QED BY <1>3, <2>1, <2>2 DEF DeviceDisconnected, pod
<1>4. CASE ProbeFinished
  <2>0. UNCHANGED <<shots, powerVars, pods, requests>>
    BY <1>4 DEF ProbeFinished
  <2>1. CASE UNCHANGED <<socket, recoveryVars, retryCount, addressVars, finalized, bluezReported,
                         scanning>>
    <3>1. RecoveryStep
      BY <2>1, QuietStep DEF recoveryVars
    <3> QED BY <1>9, <2>0, <2>1, <3>1 DEF RecoveryStep, addressVars, powerVars
  <2>2. CASE /\ session.state = "ProbingBlueZ"
             /\ bluezReported' = TRUE
             /\ session' = BeginConnection(session)
             /\ ConnectToDevice(pod, TRUE)
             /\ UNCHANGED <<reconnectTimer, retryCount, lastAddress, finalized, scanning>>
    <3>1. session' \in Sessions /\ session'.state = "ConnectingSocket" /\ Spent(session, session')
      BY <2>2, BeginConnectionFacts
    <3>2. socket' \in Sockets /\ AddressStep
      BY <1>9, <2>2, ConnectStep
    <3>3. RecoveryStep
      BY <1>0, <2>2, <3>1 DEF RecoveryStep
    <3> QED BY <1>9, <2>0, <2>2, <3>2, <3>3 DEF RecoveryStep, AddressStep, powerVars
  <2>3. CASE /\ bluezReported' = FALSE
             /\ ScheduleControlRecoveryRetry(FALSE, scanning, retryCount)
             /\ UNCHANGED <<socket, lastAddress>>
    <3>1. RecoveryStep /\ AddressStep /\ ScanStep
      BY <1>0, <2>3, RetryStep
    <3> QED BY <1>9, <2>0, <2>3, <3>1 DEF RecoveryStep, AddressStep, ScanStep, powerVars
  <2> QED BY <1>4, <2>1, <2>2, <2>3 DEF ProbeFinished, AnswersProbe, AcceptsProbe, pod
<1> QED BY <1>1, <1>2, <1>3, <1>4 DEF Deliver

\* The machine sleeps and wakes, and a verb names an address.
LEMMA PowerAndVerbSteps ==
  ASSUME IInv, GoToSleep \/ WakeUp \/ WakeSettled \/ AddressVerb
  PROVE  TypeOK' /\ RecoveryStep /\ Remembered
<1>1. CASE GoToSleep
  <2>1. RecoveryStep
    BY <1>1, QuietStep DEF GoToSleep, recoveryVars
  <2> QED BY <1>1, <2>1 DEF GoToSleep, RecoveryStep, addressVars, bluezVars
<1>2. CASE WakeUp
  <2>1. RecoveryStep
    BY <1>2, QuietStep DEF WakeUp, recoveryVars
  <2>2. wakeTimers' \in 0 .. MaxWakes
    BY <1>2, BoundsAssumption DEF WakeUp
  <2> QED BY <1>2, <2>1, <2>2 DEF WakeUp, RecoveryStep, addressVars, bluezVars
<1>3. CASE WakeSettled
  <2>1. RecoveryStep /\ AddressStep /\ socket' \in Sockets /\ Remembered
    BY <1>3, SweepStep DEF WakeSettled
  <2>2. wakeTimers' \in 0 .. MaxWakes
    BY <1>3, BoundsAssumption DEF WakeSettled
  <2>3. scanning' \in BOOLEAN
    BY <1>3 DEF WakeSettled
  <2> QED BY <1>3, <2>1, <2>2, <2>3 DEF WakeSettled, RecoveryStep, AddressStep, bluezVars
<1>4. CASE AddressVerb
  <2>1. RecoveryStep
    BY <1>4, QuietStep DEF AddressVerb, recoveryVars
  <2>2. Remembered
    BY <1>4 DEF AddressVerb, AddressForVerb
  <2> QED BY <1>4, <2>1, <2>2 DEF AddressVerb, RecoveryStep, powerVars, bluezVars
<1> QED BY <1>1, <1>2, <1>3, <1>4

\* The pods and BlueZ move on their own.
LEMMA EnvironmentSteps ==
  ASSUME IInv, Environment
  PROVE  TypeOK' /\ RecoveryStep /\ Remembered
<1>0. UNCHANGED daemonVars
  BY DEF Environment, PodChanges, PropertiesChange, AnswerProbe
<1>1. RecoveryStep /\ Remembered
  BY <1>0, QuietStep DEF daemonVars, recoveryVars, addressVars
<1>2. pods' \in [Pods -> PodStates]
  BY DEF Environment, PodChanges, PropertiesChange, AnswerProbe
<1>3. requests' \subseteq Requests
  BY DEF Environment, PodChanges, PropertiesChange, AnswerProbe
<1>4. bus' \in Seq(Signals \cup Replies)
  <2>1. ASSUME NEW kind \in {"connected", "disconnected", "changed"}, NEW pod \in Pods,
               Signal(kind, pod)
        PROVE  bus' \in Seq(Signals \cup Replies)
    <3>1. [kind |-> kind, pod |-> pod] \in Signals \cup Replies
      BY DEF Signals
    <3> QED BY <2>1, <3>1, AppendProperties DEF Signal
  <2>2. ASSUME NEW pod \in Pods, PodChanges(pod)
        PROVE  bus' \in Seq(Signals \cup Replies)
    BY <2>1, <2>2 DEF PodChanges
  <2>3. ASSUME NEW pod \in Pods, PropertiesChange(pod)
        PROVE  bus' \in Seq(Signals \cup Replies)
    BY <2>1, <2>3 DEF PropertiesChange
  <2>4. CASE AnswerProbe
    <3>0. PICK r \in requests : \E connected \in {r.pod \in Held, FALSE} :
            bus' = Append(bus, [kind |-> "reply", pod |-> r.pod, id |-> r.id,
                                connected |-> connected])
      BY <2>4 DEF AnswerProbe
    <3>1. PICK connected \in BOOLEAN :
            bus' = Append(bus, [kind |-> "reply", pod |-> r.pod, id |-> r.id,
                                connected |-> connected])
      <4>1. (r.pod \in Held) \in BOOLEAN
        BY DEF Held
      <4> QED BY <3>0, <4>1, Zenon
    <3>2. [kind |-> "reply", pod |-> r.pod, id |-> r.id, connected |-> connected]
            \in Signals \cup Replies
      BY DEF Requests, Replies
    <3> QED BY <3>1, <3>2, AppendProperties
  <2> QED BY <2>2, <2>3, <2>4 DEF Environment
<1> QED BY <1>0, <1>1, <1>2, <1>3, <1>4
        DEF daemonVars, recoveryVars, addressVars, powerVars, RecoveryStep

\* The daemon starts with no recovery.
LEMMA Initially ==
  Init => IInv
<1> SUFFICES ASSUME Init
             PROVE  IInv
  OBVIOUS
<1>1. socket \in Sockets /\ lastAddress \in Pods \cup {NoPod}
  <2>1. CASE socket = NoSocket /\ lastAddress = NoPod
    BY <2>1 DEF Sockets
  <2>2. ASSUME NEW p \in Held, socket = NewSocket(p, FALSE), lastAddress = p
        PROVE  socket \in Sockets /\ lastAddress \in Pods \cup {NoPod}
    BY <2>2 DEF Sockets, NewSocket, Held
  <2> QED BY <2>1, <2>2 DEF Init
<1>2. /\ retryCount \in 0 .. RetryAttempts /\ wakeTimers \in 0 .. MaxWakes
      /\ shots \in [Pods -> 0 .. MaxShots]
  BY RetryAttemptsAssumption, BoundsAssumption DEF Init
<1>3. bus \in Seq(Signals \cup Replies)
  BY DEF Init
<1> QED BY <1>1, <1>2, <1>3, IdleSessionFacts DEF Init

\* The bound on sleeps is kept.
LEMMA SleepStep ==
  ASSUME IInv, [Next]_vars
  PROVE  SleepWithinBound'
<1>1. CASE UNCHANGED <<wakeTimers, asleep>>
  BY <1>1
<1>2. CASE GoToSleep \/ WakeUp
  BY <1>2 DEF GoToSleep, WakeUp
<1>3. CASE WakeSettled
  BY <1>3, BoundsAssumption DEF WakeSettled
<1>4. SocketOutcome \/ SocketLost => UNCHANGED <<wakeTimers, asleep>>
  BY DEF SocketOutcome, SocketConnected, RecoverySocketFailed, InitialConnectFailed, SocketLost,
         powerVars
<1>5. AttemptControlReconnect \/ Shot \/ Watchdog \/ AddressVerb => UNCHANGED <<wakeTimers, asleep>>
  BY DEF AttemptControlReconnect, Shot, RetryShot, Watchdog, WatchdogRescan, WatchdogRetry,
         AddressVerb, powerVars
<1>6. Deliver => UNCHANGED <<wakeTimers, asleep>>
  BY DEF Deliver, DeviceConnected, ChangeOfAbsentDevice, DeviceDisconnected, ProbeFinished, powerVars
<1>7. Environment \/ UNCHANGED vars => UNCHANGED <<wakeTimers, asleep>>
  BY DEF Environment, PodChanges, PropertiesChange, AnswerProbe, daemonVars, vars, powerVars
<1> QED BY <1>1, <1>2, <1>3, <1>4, <1>5, <1>6, <1>7 DEF Next, Daemon

\* Every step keeps the invariant and is a step of a recovery.
LEMMA Inductive ==
  ASSUME IInv, [Next]_vars
  PROVE  IInv' /\ RecoveryStep
<1>1. TypeOK' /\ RecoveryStep /\ Remembered
  <2>1. CASE UNCHANGED vars
    <3>1. RecoveryStep
      BY <2>1, QuietStep DEF vars, recoveryVars
    <3> QED BY <2>1, <3>1
            DEF vars, recoveryVars, addressVars, powerVars, bluezVars, RecoveryStep
  <2>2. CASE Daemon
    BY <2>2, SocketSteps, TimerSteps, DeliverySteps, PowerAndVerbSteps DEF Daemon, SocketOutcome
  <2>3. CASE Environment
    BY <2>3, EnvironmentSteps
  <2> QED BY <2>1, <2>2, <2>3 DEF Next
<1>2. TimerServesWaiting' /\ TeardownEndsRecovery'
  BY <1>1 DEF RecoveryStep
<1>3. ActiveHasAddress'
  BY <1>1, PodsAssumption DEF RecoveryStep
<1> QED BY <1>1, <1>2, <1>3, SleepStep

\* The inductive invariant holds in every behaviour.
THEOREM Invariant == Spec => []IInv
<1>1. IInv /\ [Next]_vars => IInv'
  BY Inductive
<1> QED BY Initially, <1>1, PTL DEF Spec

\* Every variable of the daemon keeps its type, the two retry budgets among them: no order of
\* signals, answers, losses and suspends spends more than prepareRetry allows.
THEOREM TypeCorrect == Spec => []TypeOK
<1>1. IInv => TypeOK
  OBVIOUS
<1> QED BY Invariant, <1>1, PTL

\* finalizeDeviceDisconnected and scheduleControlReconnect agree on m_disconnectFinalized: a
\* recovery under way can always still be torn down.
THEOREM TeardownEnds == Spec => []TeardownEndsRecovery
<1>1. IInv => TeardownEndsRecovery
  OBVIOUS
<1> QED BY Invariant, <1>1, PTL

\* While a recovery lasts, no signal, loss or watchdog tick gives back what its session has
\* spent (scheduleControlReconnect, bluezDeviceConnected, controlreconnect.hpp Session).
THEOREM LadderOnlyClimbs == Spec => LadderNeverRewinds
<1>1. ASSUME IInv, [Next]_vars
      PROVE  [IsActive(session) /\ IsActive(session)' =>
                /\ session'.absentProbes >= session.absentProbes
                /\ session'.connectedAttempts >= session.connectedAttempts]_vars
  <2>1. RecoveryStep
    BY <1>1, Inductive
  <2> QED BY <2>1 DEF RecoveryStep, Spent
<1> QED BY Invariant, <1>1, PTL DEF Spec, LadderNeverRewinds

-----------------------------------------------------------------------------
\* What the socket, the scan and the recovery owe one another: a recovery that connects has a
\* socket under way, discovery is never lost, and only a resume brings a scan and a recovery
\* together.  With one pair, its link is dropped only by its loss, and the answer that a probing
\* recovery waits for is on its way.

\* DiscoveryNotLost is not inductive: a recovery socket that fails after its session ended
\* starts nothing anew, so only a socket of the initial connect, whose failure leaves a retry or
\* a recovery, counts as an attempt under way.
Discovering ==
  socket.state # "connected" /\ session.state = "Idle" /\ ~suspending =>
    \/ scanning
    \/ socket.state = "connecting" /\ ~socket.recovery
    \/ \E p \in Pods : shots[p] > 0

IRadio == IInv /\ ConnectionUnderWay /\ Discovering

\* What a step leaves of the two: nothing to be driven, or an attempt that is.
RadioStep ==
  /\ session'.state # "ConnectingSocket" \/ socket'.state \in {"connecting", "connected"}
  /\ \/ session'.state # "Idle"
     \/ scanning' = TRUE
     \/ socket'.state = "connected"
     \/ socket'.state = "connecting" /\ socket'.recovery = FALSE

HIDE DEF SleepWithinBound, Remembered
USE DEF LinkUp, ConnectionUnderWay

\* What a radio step leaves is what the invariant asks for.
LEMMA RadioStepKeeps ==
  ASSUME RadioStep
  PROVE  ConnectionUnderWay' /\ Discovering'
BY DEF RadioStep, Discovering, NoSocket

\* A step that moves neither the link nor its session may only turn the scan on.
LEMMA NothingMoves ==
  ASSUME IRadio, UNCHANGED <<socket, session, shots, suspending>>,
         scanning' = scanning \/ scanning' = TRUE
  PROVE  ConnectionUnderWay' /\ Discovering'
<1>1. UNCHANGED <<socket, session, shots, suspending>>
  OBVIOUS
<1>2. ConnectionUnderWay'
  BY <1>1 DEF IRadio
<1>3. scanning => scanning'
  OBVIOUS
<1> QED BY <1>1, <1>2, <1>3 DEF IRadio, Discovering

-----------------------------------------------------------------------------
\* The shared helpers

\* A retry waits, or gives the radio back to the scan.
LEMMA RetryRadio ==
  ASSUME IInv, session.state # "Idle", NEW still \in BOOLEAN, NEW scan \in BOOLEAN,
         NEW count \in 0 .. RetryAttempts, ScheduleControlRecoveryRetry(still, scan, count)
  PROVE  session'.state = "Waiting" \/ (session'.state = "Idle" /\ scanning' = TRUE)
<1>1. CASE HasRetry(session, still)
  <2>1. session' = Retried(session, still)
    BY <1>1 DEF ScheduleControlRecoveryRetry
  <2> QED BY <1>1, <2>1, RetriedFacts
<1>2. CASE ~HasRetry(session, still)
  <2>1. session' = IdleSession /\ scanning' = TRUE
    BY <1>2 DEF ScheduleControlRecoveryRetry, FinalizeDeviceDisconnected
  <2> QED BY <2>1, IdleSessionFacts
<1> QED BY <1>1, <1>2

\* A loss begins a recovery, or gives the radio back to the scan.
LEMMA ReconnectRadio ==
  ASSUME IInv, ~suspending, NEW pod \in Pods, NEW count \in 0 .. RetryAttempts,
         ScheduleControlReconnect(pod, count)
  PROVE  session'.state # "Idle" \/ scanning' = TRUE
<1>1. CASE session' = Begin(scanning)
  BY <1>1, BeginFacts
<1>2. CASE session.state = "ConnectingSocket" /\ ScheduleControlRecoveryRetry(FALSE, FALSE, count)
  BY <1>2, RetryRadio
<1>3. CASE session.state \in {"Waiting", "ProbingBlueZ"} /\ UNCHANGED session
  BY <1>3
<1> QED BY <1>1, <1>2, <1>3 DEF ScheduleControlReconnect, recoveryVars

\* Either way the session is left where no socket is owed to it.
LEMMA ReconnectKeeps ==
  ASSUME IRadio, NEW pod \in Pods, NEW count \in 0 .. RetryAttempts,
         ScheduleControlReconnect(pod, count), UNCHANGED suspending
  PROVE  ConnectionUnderWay' /\ Discovering'
<1>1. session'.state # "ConnectingSocket"
  BY ReconnectStep DEF IRadio
<1>2. CASE suspending
  BY <1>1, <1>2 DEF Discovering
<1>3. CASE ~suspending
  <2>1. session'.state # "Idle" \/ scanning' = TRUE
    BY <1>3, ReconnectRadio DEF IRadio
  <2> QED BY <1>1, <2>1 DEF Discovering
<1> QED BY <1>2, <1>3

\* A connect keeps the socket it finds, or opens one that knows whether it recovers.
LEMMA ConnectRadio ==
  ASSUME TypeOK, NEW pod \in Pods, NEW recovery \in BOOLEAN, ConnectToDevice(pod, recovery)
  PROVE  \/ socket'.state = "connected"
         \/ socket'.state = "connecting" /\ socket'.recovery = recovery
BY DEF ConnectToDevice, ConnectedTo, NewSocket

\* An announced pair takes the session over, or leaves a connect of the recovery alone.
LEMMA AnnounceRadio ==
  ASSUME IInv, NEW first \in Pods, NEW last \in Pods, BluezDevicesConnected(first, last)
  PROVE  \/ RadioStep
         \/ session.state = "ConnectingSocket" /\ UNCHANGED <<socket, session>>
<1>1. CASE session.state = "ConnectingSocket" /\ UNCHANGED <<socket, recoveryVars, deviceAddress>>
  BY <1>1 DEF recoveryVars
<1>2. CASE session' = BeginConnection(session) /\ ConnectToDevice(first, TRUE)
  <2>1. session'.state = "ConnectingSocket"
    BY <1>2, BeginConnectionFacts
  <2> QED BY <1>2, <2>1, ConnectRadio DEF RadioStep
<1>3. CASE session.state = "Idle" /\ UNCHANGED session /\ ConnectToDevice(last, FALSE)
  BY <1>3, ConnectRadio DEF RadioStep
<1>4. CASE session.state = "Idle" /\ UNCHANGED session /\ socket' = NewSocket(last, FALSE)
  BY <1>4 DEF RadioStep, NewSocket
<1> QED BY <1>1, <1>2, <1>3, <1>4 DEF BluezDevicesConnected, recoveryVars

\* So an announcement keeps both properties.
LEMMA AnnounceKeeps ==
  ASSUME IRadio, NEW first \in Pods, NEW last \in Pods, BluezDevicesConnected(first, last),
         UNCHANGED shots
  PROVE  ConnectionUnderWay' /\ Discovering'
<1>1. CASE RadioStep
  BY <1>1, RadioStepKeeps
<1>2. CASE session.state = "ConnectingSocket" /\ UNCHANGED <<socket, session>>
  BY <1>2 DEF IRadio, Discovering
<1> QED BY <1>1, <1>2, AnnounceRadio DEF IRadio

-----------------------------------------------------------------------------
\* The actions

\* So do the outcomes of a socket.
LEMMA SocketKeeps ==
  ASSUME IRadio, SocketOutcome \/ SocketLost
  PROVE  ConnectionUnderWay' /\ Discovering'
<1>0. /\ socket.peer \in Pods /\ socket.recovery \in BOOLEAN
      /\ finalized \in BOOLEAN /\ scanning \in BOOLEAN
  BY SocketFacts DEF IRadio, SocketOutcome, SocketConnected, RecoverySocketFailed,
                     InitialConnectFailed, SocketLost
<1>00. socket.state = "connecting" =>
         socket \in [state : {"connecting", "connected", "failed"}, peer : Pods, recovery : BOOLEAN]
  BY DEF IRadio, Sockets, NoSocket
<1>1. CASE SocketConnected
  <2>1. socket'.state = "connected"
    BY <1>00, <1>1 DEF SocketConnected
  <2> QED BY <2>1, RadioStepKeeps DEF RadioStep
<1>2. CASE RecoverySocketFailed
  <2>1. CASE session.state # "Idle"
    <3>1. session'.state = "Waiting" \/ (session'.state = "Idle" /\ scanning' = TRUE)
      BY <1>0, <1>2, <2>1, RetryRadio DEF IRadio, RecoverySocketFailed
    <3> QED BY <3>1, RadioStepKeeps DEF RadioStep
  <2>2. CASE session.state = "Idle"
    <3>1. UNCHANGED <<session, scanning, shots, suspending>>
      BY <1>2, <2>2 DEF RecoverySocketFailed, recoveryVars, powerVars
    <3>2. socket.state = "connecting" /\ socket.recovery
      BY <1>2 DEF RecoverySocketFailed
    <3> QED BY <2>2, <3>1, <3>2 DEF IRadio, Discovering
  <2> QED BY <2>1, <2>2
<1>3. CASE InitialConnectFailed
  <2>1. CASE ScheduleControlReconnect(socket.peer, 0)
    <3>1. 0 \in 0 .. RetryAttempts
      BY RetryAttemptsAssumption
    <3> QED BY <1>0, <1>3, <2>1, <3>1, ReconnectKeeps DEF InitialConnectFailed, powerVars
  <2>2. CASE shots' = [shots EXCEPT ![socket.peer] = @ + 1] /\ UNCHANGED session
    <3>1. shots'[socket.peer] > 0
      BY <1>0, <2>2, BoundsAssumption DEF IRadio
    <3>2. socket'.state = "failed"
      BY <1>00, <1>3 DEF InitialConnectFailed
    <3> QED BY <1>0, <3>1, <3>2 DEF Discovering, NoSocket
  <2> QED BY <1>3, <2>1, <2>2 DEF InitialConnectFailed, recoveryVars
<1>4. CASE SocketLost
  BY <1>0, <1>4, ReconnectKeeps DEF IRadio, SocketLost, powerVars
<1> QED BY <1>1, <1>2, <1>3, <1>4 DEF SocketOutcome

\* So do the timers.
LEMMA TimersKeep ==
  ASSUME IRadio, AttemptControlReconnect \/ Shot \/ Watchdog
  PROVE  ConnectionUnderWay' /\ Discovering'
<1>1. CASE AttemptControlReconnect
  <2>1. CASE socket.state = "connected" /\ session' = IdleSession
    BY <1>1, <2>1, IdleSessionFacts, RadioStepKeeps DEF RadioStep, AttemptControlReconnect
  <2>2. ASSUME NEW id \in ProbeIds, session' = BeginProbe(session, id)
        PROVE  ConnectionUnderWay' /\ Discovering'
    <3>1. session'.state = "ProbingBlueZ"
      BY <2>2, BeginProbeFacts DEF IRadio
    <3> QED BY <3>1, RadioStepKeeps DEF RadioStep
  <2> QED BY <1>1, <2>1, <2>2 DEF AttemptControlReconnect
<1>2. ASSUME NEW pod \in Pods, RetryShot(pod)
      PROVE  ConnectionUnderWay' /\ Discovering'
  <2>1. \/ socket'.state = "connected"
        \/ socket'.state = "connecting" /\ socket'.recovery = FALSE
    BY <1>2, ConnectRadio DEF IRadio, RetryShot
  <2> QED BY <2>1, RadioStepKeeps DEF RadioStep
<1>3. CASE WatchdogRescan
  <2>0. UNCHANGED <<shots, scanning, suspending>>
    BY <1>3 DEF WatchdogRescan, powerVars
  <2>1. CASE UNCHANGED <<socket, recoveryVars, addressVars, finalized>>
    BY <2>0, <2>1, NothingMoves DEF recoveryVars
  <2>2. ASSUME NEW first \in Held, NEW last \in Held, BluezDevicesConnected(first, last)
        PROVE  ConnectionUnderWay' /\ Discovering'
    <3>1. first \in Pods /\ last \in Pods
      BY DEF Held
    <3> QED BY <2>0, <2>2, <3>1, AnnounceKeeps
  <2> QED BY <1>3, <2>1, <2>2 DEF WatchdogRescan, Sweep
<1>4. CASE WatchdogRetry
  <2>1. lastAddress \in Pods
    BY <1>4 DEF IRadio, WatchdogRetry, ShouldRetryFromWatchdog
  <2> QED BY <1>4, <2>1, ReconnectKeeps DEF IRadio, WatchdogRetry, powerVars
<1> QED BY <1>1, <1>2, <1>3, <1>4 DEF Shot, Watchdog

\* So does what BlueZ delivers.
LEMMA DeliveryKeeps ==
  ASSUME IRadio, Deliver
  PROVE  ConnectionUnderWay' /\ Discovering'
<1> DEFINE pod == Head(bus).pod
<1>0. /\ pod \in Pods /\ finalized \in BOOLEAN /\ scanning \in BOOLEAN
      /\ UNCHANGED <<shots, suspending>>
  BY DeliveredFacts
     DEF IRadio, Deliver, DeviceConnected, ChangeOfAbsentDevice, DeviceDisconnected, ProbeFinished,
         powerVars
<1> HIDE DEF pod
<1>1. CASE DeviceConnected
  BY <1>0, <1>1, AnnounceKeeps DEF DeviceConnected, pod
<1>2. CASE UNCHANGED <<socket, session, scanning>>
  BY <1>0, <1>2, NothingMoves
<1>3. CASE ScheduleControlReconnect(pod, retryCount)
  BY <1>0, <1>3, ReconnectKeeps DEF IRadio
<1>4. CASE session' = BeginConnection(session) /\ ConnectToDevice(pod, TRUE)
  <2>1. session'.state = "ConnectingSocket"
    BY <1>4, BeginConnectionFacts DEF IRadio
  <2> QED BY <1>0, <1>4, <2>1, ConnectRadio, RadioStepKeeps DEF IRadio, RadioStep
<1>5. CASE session.state # "Idle" /\ ScheduleControlRecoveryRetry(FALSE, scanning, retryCount)
  <2>1. session'.state = "Waiting" \/ (session'.state = "Idle" /\ scanning' = TRUE)
    BY <1>0, <1>5, RetryRadio DEF IRadio
  <2> QED BY <2>1, RadioStepKeeps DEF RadioStep
<1> QED BY <1>1, <1>2, <1>3, <1>4, <1>5
        DEF Deliver, ChangeOfAbsentDevice, DeviceDisconnected, ProbeFinished, AnswersProbe,
            AcceptsProbe, recoveryVars, pod

\* So do sleep, verbs and what moves on its own.
LEMMA PowerVerbsAndEnvironmentKeep ==
  ASSUME IRadio, GoToSleep \/ WakeUp \/ WakeSettled \/ AddressVerb \/ Environment \/ UNCHANGED vars
  PROVE  ConnectionUnderWay' /\ Discovering'
<1>1. CASE GoToSleep
  <2>1. suspending' = TRUE /\ UNCHANGED <<socket, session, shots>>
    BY <1>1 DEF GoToSleep, recoveryVars
  <2> QED BY <2>1 DEF IRadio, Discovering
<1>2. CASE WakeSettled
  <2>1. scanning' = ~(socket.state = "connected" /\ deviceAddress # NoPod) /\ UNCHANGED shots
    BY <1>2 DEF WakeSettled
  <2>2. CASE UNCHANGED <<socket, recoveryVars, addressVars, finalized>>
    <3>1. UNCHANGED <<socket, session>>
      BY <2>2 DEF recoveryVars
    <3>2. ConnectionUnderWay'
      BY <2>1, <3>1 DEF IRadio
    <3>3. socket'.state # "connected" => scanning'
      BY <2>1, <3>1
    <3> QED BY <3>2, <3>3 DEF Discovering
  <2>3. ASSUME NEW first \in Held, NEW last \in Held, BluezDevicesConnected(first, last)
        PROVE  ConnectionUnderWay' /\ Discovering'
    <3>1. first \in Pods /\ last \in Pods
      BY DEF Held
    <3> QED BY <2>1, <2>3, <3>1, AnnounceKeeps
  <2> QED BY <1>2, <2>2, <2>3 DEF WakeSettled, Sweep
<1>3. CASE WakeUp \/ AddressVerb \/ Environment \/ UNCHANGED vars
  <2>1. UNCHANGED <<socket, session, shots, suspending, scanning>>
    BY <1>3 DEF WakeUp, AddressVerb, Environment, PodChanges, PropertiesChange, AnswerProbe,
                daemonVars, vars, recoveryVars, powerVars
  <2> QED BY <2>1, NothingMoves
<1> QED BY <1>1, <1>2, <1>3

\* The invariant of the radio holds throughout (main.cpp, controlreconnect.hpp).
THEOREM RadioInvariant == Spec => []IRadio
<1>1. Init => ConnectionUnderWay /\ Discovering
  BY IdleSessionFacts DEF Init, Discovering
<1>2. IRadio /\ [Next]_vars => IRadio'
  <2> SUFFICES ASSUME IRadio, [Next]_vars
               PROVE  IRadio'
    OBVIOUS
  <2>1. ConnectionUnderWay' /\ Discovering'
    BY SocketKeeps, TimersKeep, DeliveryKeeps, PowerVerbsAndEnvironmentKeep DEF Next, Daemon
  <2> QED BY <2>1, Inductive DEF IRadio
<1> QED BY Initially, <1>1, <1>2, PTL DEF Spec, IRadio

\* A session that connects has a socket that has not given up, or a retry that replaces it: the
\* recovery bluezDeviceConnected and controlConnectionProbeFinished leave to a socket goes on.
THEOREM ConnectionsGoOn == Spec => []ConnectionUnderWay
<1>1. IRadio => ConnectionUnderWay
  BY DEF IRadio
<1> QED BY RadioInvariant, <1>1, PTL

\* With the link down, no recovery and no suspend, the daemon scans or is connecting: the scan
\* that five callbacks stop and start is never left off for good.
THEOREM DiscoveryIsNotLost == Spec => []DiscoveryNotLost
<1>1. IRadio => DiscoveryNotLost
  BY DEF IRadio, Discovering, DiscoveryNotLost
<1> QED BY RadioInvariant, <1>1, PTL

-----------------------------------------------------------------------------
\* Scans and recoveries

\* A step leaves no recovery beside a scan that was not there before.
Apart == session'.state = "Idle" \/ ~scanning' \/ (session.state # "Idle" /\ scanning)

\* Only the end of a resume's grace brings a scan and a recovery together.
LEMMA StepsKeepApart ==
  ASSUME IInv, [Next]_vars, ~WakeSettled
  PROVE  Apart
<1> USE DEF Apart
<1>0. scanning \in BOOLEAN /\ retryCount \in 0 .. RetryAttempts
  OBVIOUS
<1>1. CASE SocketOutcome \/ SocketLost
  <2>0. socket.peer \in Pods
    BY <1>1, SocketFacts DEF SocketOutcome, SocketConnected, RecoverySocketFailed,
                             InitialConnectFailed, SocketLost
  <2>1. CASE SocketConnected
    BY <2>1 DEF SocketConnected
  <2>2. CASE RecoverySocketFailed
    <3>1. CASE ScheduleControlRecoveryRetry(TRUE, scanning, retryCount) /\ session.state # "Idle"
      BY <1>0, <3>1, RetryStep
    <3> QED BY <2>2, <3>1 DEF RecoverySocketFailed, recoveryVars
  <2>3. CASE InitialConnectFailed
    <3>1. 0 \in 0 .. RetryAttempts
      BY RetryAttemptsAssumption
    <3>2. CASE ScheduleControlReconnect(socket.peer, 0)
      BY <2>0, <3>1, <3>2, ReconnectStep
    <3>3. CASE UNCHANGED <<recoveryVars, addressVars, finalized, scanning>>
      BY <3>3 DEF recoveryVars
    <3> QED BY <2>3, <3>2, <3>3 DEF InitialConnectFailed
  <2>4. CASE SocketLost
    BY <1>0, <2>0, <2>4, ReconnectStep DEF SocketLost
  <2> QED BY <1>1, <2>1, <2>2, <2>3, <2>4 DEF SocketOutcome
<1>2. CASE AttemptControlReconnect
  BY <1>2, IdleSessionFacts DEF AttemptControlReconnect
<1>3. CASE Shot \/ WatchdogRescan
  <2>1. CASE Shot
    BY <2>1 DEF Shot, RetryShot, recoveryVars
  <2>2. CASE WatchdogRescan
    <3>1. session.state = "Idle" => session'.state = "Idle"
      BY <2>2, SweepStep DEF WatchdogRescan
    <3> QED BY <2>2, <3>1 DEF WatchdogRescan
  <2> QED BY <1>3, <2>1, <2>2
<1>4. CASE WatchdogRetry
  <2>1. lastAddress \in Pods
    BY <1>4 DEF WatchdogRetry, ShouldRetryFromWatchdog
  <2> QED BY <1>0, <1>4, <2>1, ReconnectStep DEF WatchdogRetry
<1>5. CASE Deliver
  <2> DEFINE pod == Head(bus).pod
  <2>0. pod \in Pods
    BY <1>5, DeliveredFacts
       DEF Deliver, DeviceConnected, ChangeOfAbsentDevice, DeviceDisconnected, ProbeFinished
  <2> HIDE DEF pod
  <2>1. CASE BluezDevicesConnected(pod, pod) /\ UNCHANGED scanning
    BY <2>0, <2>1, AnnounceStep
  <2>2. CASE UNCHANGED <<session, scanning>>
    BY <2>2
  <2>3. CASE ScheduleControlReconnect(pod, retryCount)
    BY <1>0, <2>0, <2>3, ReconnectStep
  <2>4. CASE session.state = "ProbingBlueZ" /\ UNCHANGED scanning
    BY <2>4
  <2>5. CASE session.state # "Idle" /\ ScheduleControlRecoveryRetry(FALSE, scanning, retryCount)
    BY <1>0, <2>5, RetryStep
  <2> QED BY <1>5, <2>1, <2>2, <2>3, <2>4, <2>5
          DEF Deliver, DeviceConnected, ChangeOfAbsentDevice, DeviceDisconnected, ProbeFinished,
              AnswersProbe, AcceptsProbe, recoveryVars, pod
<1>6. CASE GoToSleep \/ WakeUp
  BY <1>6 DEF GoToSleep, WakeUp, recoveryVars
<1>7. CASE AddressVerb \/ Environment \/ UNCHANGED vars
  BY <1>7 DEF AddressVerb, Environment, PodChanges, PropertiesChange, AnswerProbe, daemonVars, vars,
              recoveryVars
<1> QED BY <1>1, <1>2, <1>3, <1>4, <1>5, <1>6, <1>7 DEF Next, Daemon, Watchdog

\* No signal, timer, failure, probe or watchdog starts a scan beside a recovery, whose connect it
\* would delay, or a recovery beside a scan (scheduleControlReconnect): only a resume can.
THEOREM RadioStaysQuiet == Spec => NoScanJoinsRecovery
<1>1. ASSUME IInv, [Next]_vars
      PROVE  [IsActive(session)' /\ scanning' => WakeSettled \/ (IsActive(session) /\ scanning)]_vars
  BY <1>1, StepsKeepApart DEF Apart
<1> QED BY Invariant, <1>1, PTL DEF Spec, NoScanJoinsRecovery

-----------------------------------------------------------------------------
\* With one pair

OnePair == \A p, q \in Pods : p = q

\* With one pair, a connect leaves a live link alone.
LEMMA ConnectKeepsLink ==
  ASSUME OnePair, IInv, LinkUp, NEW pod \in Pods, NEW recovery \in BOOLEAN,
         ConnectToDevice(pod, recovery)
  PROVE  socket' = socket
<1>1. socket.peer = pod
  BY SocketFacts DEF OnePair
<1> QED BY <1>1 DEF ConnectToDevice, ConnectedTo

\* With one pair, so does an announcement.
LEMMA AnnounceKeepsLink ==
  ASSUME OnePair, IInv, LinkUp, NEW first \in Pods, NEW last \in Pods,
         BluezDevicesConnected(first, last)
  PROVE  socket' = socket
BY ConnectKeepsLink DEF OnePair, BluezDevicesConnected

\* With one pair, only a loss or BlueZ takes a live link down.
LEMMA LinkKept ==
  ASSUME OnePair, IInv, [Next]_vars, LinkUp, socket' # socket
  PROVE  SocketLost \/ DeviceDisconnected
<1>1. ~SocketOutcome /\ ~Watchdog
  BY DEF SocketOutcome, SocketConnected, RecoverySocketFailed, InitialConnectFailed, Watchdog,
         WatchdogRescan, WatchdogRetry, ShouldRescanFromWatchdog, ShouldRetryFromWatchdog, Quiet
<1>2. ~Shot
  BY ConnectKeepsLink DEF Shot, RetryShot
<1>3. ~WakeSettled
  <2>1. ASSUME NEW first \in Held, NEW last \in Held, BluezDevicesConnected(first, last)
        PROVE  socket' = socket
    <3>1. first \in Pods /\ last \in Pods
      BY DEF Held
    <3> QED BY <2>1, <3>1, AnnounceKeepsLink
  <2> QED BY <2>1 DEF WakeSettled, Sweep
<1>4. ~DeviceConnected /\ ~ChangeOfAbsentDevice
  <2>1. CASE DeviceConnected
    <3>1. Head(bus).pod \in Pods
      BY <2>1, DeliveredFacts DEF DeviceConnected
    <3> QED BY <2>1, <3>1, AnnounceKeepsLink DEF DeviceConnected
  <2> QED BY <2>1 DEF ChangeOfAbsentDevice
<1>5. ~ProbeFinished
  <2>1. CASE ProbeFinished
    <3>1. Head(bus).pod \in Pods
      BY <2>1, DeliveredFacts DEF ProbeFinished
    <3>2. ASSUME ConnectToDevice(Head(bus).pod, TRUE)
          PROVE  socket' = socket
      BY <3>1, <3>2, ConnectKeepsLink
    <3> QED BY <2>1, <3>2 DEF ProbeFinished
  <2> QED BY <2>1
<1>6. ~AttemptControlReconnect /\ ~GoToSleep /\ ~WakeUp /\ ~AddressVerb /\ ~Environment
      /\ ~UNCHANGED vars
  BY DEF AttemptControlReconnect, GoToSleep, WakeUp, AddressVerb, Environment, PodChanges,
         PropertiesChange, AnswerProbe, daemonVars, vars
<1> QED BY <1>1, <1>2, <1>3, <1>4, <1>5, <1>6 DEF Next, Daemon, Deliver

\* One pair's established link is dropped only by its socket's loss or by BlueZ reporting the
\* pair gone: connectToDevice keeps it whatever calls it (a late retry, a probe, a sweep).
THEOREM LinkOutlivesTheRest ==
  ASSUME OnePair
  PROVE  Spec => LinkDropsOnlyOnLoss
<1>1. ASSUME IInv, [Next]_vars
      PROVE  [LinkUp /\ socket' # socket => SocketLost \/ DeviceDisconnected]_vars
  BY <1>1, LinkKept
<1> QED BY Invariant, <1>1, PTL DEF Spec, LinkDropsOnlyOnLoss

-----------------------------------------------------------------------------
\* With one pair, the answer a probe waits for is on its way

Replying(id, messages) == \E i \in DOMAIN messages : messages[i].kind = "reply" /\ messages[i].id = id

\* A probe in flight is asked, or answered and not delivered.
LEMMA FlightFacts ==
  ASSUME NEW id
  PROVE  /\ id \in InFlight <=> (\E r \in requests : r.id = id) \/ Replying(id, bus)
         /\ id \in InFlight' <=> (\E r \in requests' : r.id = id) \/ Replying(id, bus')
BY DEF InFlight, Replying

\* What is sent after an answer does not take it back.
LEMMA AppendKeepsReply ==
  ASSUME TypeOK, NEW m \in Signals \cup Replies, bus' = Append(bus, m), NEW id
  PROVE  /\ Replying(id, bus) => Replying(id, bus')
         /\ m.kind = "reply" /\ m.id = id => Replying(id, bus')
<1>1. /\ Len(bus') = Len(bus) + 1 /\ \A i \in 1 .. Len(bus) : bus'[i] = bus[i]
      /\ bus'[Len(bus) + 1] = m /\ bus' \in Seq(Signals \cup Replies)
  BY AppendProperties
<1>2. Len(bus) \in Nat /\ DOMAIN bus = 1 .. Len(bus) /\ DOMAIN bus' = 1 .. Len(bus) + 1
  BY <1>1
<1>3. Len(bus) + 1 \in DOMAIN bus' /\ \A i \in DOMAIN bus : i \in DOMAIN bus' /\ bus'[i] = bus[i]
  BY <1>1, <1>2
<1> QED BY <1>1, <1>3 DEF Replying

\* Only an answer's own delivery takes it off the bus.
LEMMA TailKeepsReply ==
  ASSUME TypeOK, bus # <<>>, bus' = Tail(bus), NEW id, Replying(id, bus),
         ~(Head(bus).kind = "reply" /\ Head(bus).id = id)
  PROVE  Replying(id, bus')
<1>1. PICK i \in DOMAIN bus : bus[i].kind = "reply" /\ bus[i].id = id
  BY DEF Replying
<1>2. Head(bus) = bus[1] /\ Len(bus') = Len(bus) - 1 /\ bus' \in Seq(Signals \cup Replies)
      /\ \A j \in 1 .. Len(bus') : bus'[j] = bus[j + 1]
  BY HeadTailProperties
<1>3. i \in 2 .. Len(bus) /\ Len(bus) \in Nat
  BY <1>1, <1>2
<1>4. i - 1 \in DOMAIN bus' /\ bus'[i - 1] = bus[i]
  BY <1>2, <1>3
<1> QED BY <1>1, <1>4 DEF Replying

\* Only the timer's callback begins a probe: whatever else finds the session probing left it so.
LEMMA ProbeStays ==
  ASSUME IInv, [Next]_vars, ~AttemptControlReconnect, session'.state = "ProbingBlueZ"
  PROVE  session' = session
<1>0. retryCount \in 0 .. RetryAttempts /\ 0 \in 0 .. RetryAttempts /\ scanning \in BOOLEAN
  BY RetryAttemptsAssumption
<1>1. ASSUME NEW still \in BOOLEAN, NEW scan \in BOOLEAN, NEW count \in 0 .. RetryAttempts,
             ScheduleControlRecoveryRetry(still, scan, count)
      PROVE  FALSE
  BY <1>1, RetryStep
<1>2. ASSUME NEW pod \in Pods, NEW count \in 0 .. RetryAttempts, ScheduleControlReconnect(pod, count)
      PROVE  session' = session
  <2>1. CASE suspending /\ FinalizeDeviceDisconnected(scanning, count)
    BY <1>0, <2>1, FinalizeStep
  <2>2. CASE session' = Begin(scanning)
    BY <1>0, <2>2, BeginFacts
  <2> QED BY <1>1, <1>2, <2>1, <2>2 DEF ScheduleControlReconnect, recoveryVars
<1>3. ASSUME NEW first, NEW last, BluezDevicesConnected(first, last)
      PROVE  session' = session
  <2>1. CASE session' = BeginConnection(session)
    BY <2>1, BeginConnectionFacts
  <2> QED BY <1>3, <2>1 DEF BluezDevicesConnected, recoveryVars
<1>4. ASSUME Sweep
      PROVE  session' = session
  BY <1>3, <1>4 DEF Sweep, recoveryVars
<1>5. CASE SocketOutcome \/ SocketLost
  <2>1. socket.peer \in Pods
    BY <1>5, SocketFacts DEF SocketOutcome, SocketConnected, RecoverySocketFailed,
                             InitialConnectFailed, SocketLost
  <2>2. ~(session' = IdleSession)
    BY IdleSessionFacts
  <2> QED BY <1>0, <1>1, <1>2, <1>5, <2>1, <2>2
          DEF SocketOutcome, SocketConnected, RecoverySocketFailed, InitialConnectFailed, SocketLost,
              recoveryVars
<1>6. CASE Shot \/ Watchdog
  BY <1>0, <1>2, <1>4, <1>6 DEF Shot, RetryShot, Watchdog, WatchdogRescan, WatchdogRetry,
                                 ShouldRetryFromWatchdog, recoveryVars
<1>7. CASE Deliver
  <2>1. Head(bus).pod \in Pods
    BY <1>7, DeliveredFacts
       DEF Deliver, DeviceConnected, ChangeOfAbsentDevice, DeviceDisconnected, ProbeFinished
  <2>2. ~(session' = BeginConnection(session))
    BY BeginConnectionFacts
  <2> QED BY <1>0, <1>1, <1>2, <1>3, <1>7, <2>1, <2>2
          DEF Deliver, DeviceConnected, ChangeOfAbsentDevice, DeviceDisconnected, ProbeFinished,
              recoveryVars
<1>8. CASE GoToSleep \/ WakeUp \/ WakeSettled
  BY <1>4, <1>8 DEF GoToSleep, WakeUp, WakeSettled, recoveryVars
<1>9. CASE AddressVerb \/ Environment \/ UNCHANGED vars
  BY <1>9 DEF AddressVerb, Environment, PodChanges, PropertiesChange, AnswerProbe, daemonVars, vars,
              recoveryVars
<1> QED BY <1>5, <1>6, <1>7, <1>8, <1>9 DEF Next, Daemon

\* While the session waits for an answer, no step loses it: the only delivery that takes it off
\* the bus is its own, which moves the session on.
LEMMA AnswerStays ==
  ASSUME OnePair, IInv, [Next]_vars, ~AttemptControlReconnect, session.state = "ProbingBlueZ",
         session' = session, session.probe \in InFlight
  PROVE  session.probe \in InFlight'
<1> DEFINE id == session.probe
<1>0. (\E r \in requests : r.id = id) \/ Replying(id, bus)
  BY FlightFacts
<1>1. CASE UNCHANGED <<bus, requests>>
  BY <1>0, <1>1, FlightFacts
<1>2. ASSUME NEW kind \in {"connected", "disconnected", "changed"}, NEW pod \in Pods,
             Signal(kind, pod), UNCHANGED requests
      PROVE  id \in InFlight'
  <2>1. [kind |-> kind, pod |-> pod] \in Signals \cup Replies
    BY DEF Signals
  <2> QED BY <1>0, <1>2, <2>1, AppendKeepsReply, FlightFacts DEF Signal
<1>3. CASE AnswerProbe
  <2>1. PICK r \in requests : /\ requests' = requests \ {r}
                              /\ \E connected \in {r.pod \in Held, FALSE} :
                                   bus' = Append(bus, [kind |-> "reply", pod |-> r.pod, id |-> r.id,
                                                       connected |-> connected])
    BY <1>3 DEF AnswerProbe
  <2>2. PICK connected \in BOOLEAN :
          bus' = Append(bus, [kind |-> "reply", pod |-> r.pod, id |-> r.id, connected |-> connected])
    <3>1. (r.pod \in Held) \in BOOLEAN
      BY DEF Held
    <3> QED BY <2>1, <3>1, Zenon
  <2> DEFINE m == [kind |-> "reply", pod |-> r.pod, id |-> r.id, connected |-> connected]
  <2>3. m \in Signals \cup Replies /\ m.kind = "reply" /\ m.id = r.id
    BY DEF Requests, Replies
  <2> HIDE DEF m
  <2>4. Replying(id, bus) => Replying(id, bus')
    BY <2>2, <2>3, AppendKeepsReply DEF m
  <2>5. r.id = id => Replying(id, bus')
    BY <2>2, <2>3, AppendKeepsReply DEF m
  <2> QED BY <1>0, <2>1, <2>4, <2>5, FlightFacts
<1>4. CASE Deliver
  <2>1. bus # <<>> /\ bus' = Tail(bus) /\ UNCHANGED requests
    BY <1>4 DEF Deliver, DeviceConnected, ChangeOfAbsentDevice, DeviceDisconnected, ProbeFinished,
                Delivered
  <2>2. ~(Head(bus).kind = "reply" /\ Head(bus).id = id)
    <3>1. CASE ~ProbeFinished
      BY <1>4, <3>1 DEF Deliver, DeviceConnected, ChangeOfAbsentDevice, DeviceDisconnected, Delivered
    <3>2. CASE ProbeFinished
      <4>1. Head(bus).pod = lastAddress
        BY <3>2, DeliveredFacts DEF ProbeFinished, OnePair
      <4>2. ~AnswersProbe(Head(bus))
        <5>1. session' # BeginConnection(session)
          BY BeginConnectionFacts
        <5>2. ~ScheduleControlRecoveryRetry(FALSE, scanning, retryCount)
          BY RetryStep
        <5> QED BY <3>2, <5>1, <5>2 DEF ProbeFinished
      <4> QED BY <4>1, <4>2 DEF AnswersProbe, AcceptsProbe
    <3> QED BY <3>1, <3>2
  <2> QED BY <1>0, <2>1, <2>2, TailKeepsReply, FlightFacts
<1> QED
  BY <1>1, <1>2, <1>3, <1>4
     DEF Next, Daemon, SocketOutcome, SocketConnected, RecoverySocketFailed, InitialConnectFailed,
         SocketLost, Shot, RetryShot, Watchdog, WatchdogRescan, WatchdogRetry, GoToSleep, WakeUp,
         WakeSettled, AddressVerb, Environment, PodChanges, PropertiesChange, vars, bluezVars

\* With one pair, a recovery always has something that will move it on: its timer, a socket or a
\* retry of one, or the answer to its probe (controlreconnect.hpp, main.cpp).  With two pairs a
\* verb may change the address under a probe: see README.md.
THEOREM RecoveryIsAlwaysDriven ==
  ASSUME OnePair
  PROVE  Spec => []RecoveryIsDriven
<1>1. Init => ProbeUnderWay
  BY IdleSessionFacts DEF Init, ProbeUnderWay
<1>2. IRadio /\ ProbeUnderWay /\ [Next]_vars => ProbeUnderWay'
  <2> SUFFICES ASSUME IRadio, ProbeUnderWay, [Next]_vars, session'.state = "ProbingBlueZ"
               PROVE  session'.probe \in InFlight'
    BY DEF ProbeUnderWay
  <2>1. CASE AttemptControlReconnect
    <3>1. PICK id \in ProbeIds : /\ session' = BeginProbe(session, id)
                                 /\ requests' = requests \cup {[id |-> id, pod |-> lastAddress]}
      BY <2>1, IdleSessionFacts DEF AttemptControlReconnect
    <3>2. session'.probe = id
      BY <3>1 DEF IRadio, BeginProbe, Sessions
    <3>3. \E r \in requests' : r.id = id
      <4> DEFINE asked == [id |-> id, pod |-> lastAddress]
      <4>1. asked \in requests' /\ asked.id = id
        BY <3>1
      <4> QED BY <4>1
    <3>4. id \in InFlight'
      BY <3>3, FlightFacts
    <3> QED BY <3>2, <3>4
  <2>2. CASE ~AttemptControlReconnect
    BY <2>2, ProbeStays, AnswerStays DEF IRadio, ProbeUnderWay
  <2> QED BY <2>1, <2>2
<1>3. IRadio /\ ProbeUnderWay => RecoveryIsDriven
  BY DEF IRadio, RecoveryIsDriven
<1> QED BY RadioInvariant, <1>1, <1>2, <1>3, PTL DEF Spec

-----------------------------------------------------------------------------
\* The sessions of the link implement ProbeNonce: what moves a session is one of its operations,
\* and an identity in flight is that of one request or of one reply, until it is delivered.

\* No identity is in flight twice, so that a delivery takes it out of flight.
FlightOnce ==
  /\ \A r, q \in requests : r.id = q.id => r = q
  /\ \A i, j \in DOMAIN bus :
       bus[i].kind = "reply" /\ bus[j].kind = "reply" /\ bus[i].id = bus[j].id => i = j
  /\ \A r \in requests : ~Replying(r.id, bus)

\* The operations of controlreconnect.hpp on a session, but for the one that asks.
SessionMoves ==
  \/ session.state = "Idle" /\ \E scan \in BOOLEAN : session' = Begin(scan)
  \/ session.state # "Idle" /\ session' = BeginConnection(session)
  \/ \E still \in BOOLEAN : HasRetry(session, still) /\ session' = Retried(session, still)
  \/ session' = IdleSession

\* They are those of ProbeNonce.
LEMMA MovesAreNonce ==
  ASSUME SessionMoves
  PROVE  Nonce!Start \/ Nonce!Connect \/ Nonce!Retry \/ Nonce!End
<1> USE DEF Nonce!IsActive
<1>1. CASE session.state = "Idle" /\ \E scan \in BOOLEAN : session' = Begin(scan)
  BY <1>1 DEF Nonce!Start, Nonce!Begin, Nonce!IdleSession, Begin, IdleSession
<1>2. CASE session.state # "Idle" /\ session' = BeginConnection(session)
  BY <1>2 DEF Nonce!Connect, Nonce!BeginConnection, BeginConnection
<1>3. CASE \E still \in BOOLEAN : HasRetry(session, still) /\ session' = Retried(session, still)
  BY <1>3 DEF Nonce!Retry, Nonce!HasRetry, Nonce!Retried, HasRetry, Retried
<1>4. CASE session' = IdleSession
  BY <1>4 DEF Nonce!End, Nonce!IdleSession, IdleSession
<1> QED BY <1>1, <1>2, <1>3, <1>4 DEF SessionMoves

\* A retry of an active session moves it (main.cpp scheduleControlRecoveryRetry): the teardown it
\* may fall into is not one that was done before.
LEMMA RetryMoves ==
  ASSUME IInv, session.state # "Idle", NEW still \in BOOLEAN, NEW scan, NEW count,
         ScheduleControlRecoveryRetry(still, scan, count)
  PROVE  SessionMoves
BY DEF ScheduleControlRecoveryRetry, FinalizeDeviceDisconnected, SessionMoves

\* A loss moves the session or leaves it.
LEMMA ReconnectMoves ==
  ASSUME IInv, NEW pod, NEW count, ScheduleControlReconnect(pod, count)
  PROVE  SessionMoves \/ UNCHANGED session
<1>1. CASE FinalizeDeviceDisconnected(scanning, count)
  BY <1>1 DEF FinalizeDeviceDisconnected, SessionMoves, recoveryVars
<1>2. CASE session.state = "Idle" /\ session' = Begin(scanning)
  BY <1>2 DEF SessionMoves
<1>3. CASE session.state = "ConnectingSocket" /\ ScheduleControlRecoveryRetry(FALSE, FALSE, count)
  BY <1>3, RetryMoves
<1>4. CASE UNCHANGED session
  BY <1>4
<1> QED BY <1>1, <1>2, <1>3, <1>4 DEF ScheduleControlReconnect, recoveryVars

\* So do an announcement and a sweep.
LEMMA AnnounceMoves ==
  ASSUME NEW first, NEW last, BluezDevicesConnected(first, last)
  PROVE  SessionMoves \/ UNCHANGED session
BY DEF BluezDevicesConnected, SessionMoves, recoveryVars

\* Only the timer's callback asks; whatever else touches the session is one of the moves.
LEMMA StepsMove ==
  ASSUME IInv, [Next]_vars, ~AttemptControlReconnect
  PROVE  SessionMoves \/ UNCHANGED session
<1>1. ASSUME Sweep
      PROVE  SessionMoves \/ UNCHANGED session
  BY <1>1, AnnounceMoves DEF Sweep, recoveryVars
<1>2. CASE SocketOutcome \/ SocketLost
  <2>1. CASE RecoverySocketFailed
    BY <2>1, RetryMoves DEF RecoverySocketFailed, recoveryVars
  <2>2. CASE SocketConnected
    BY <2>2 DEF SocketConnected, SessionMoves, recoveryVars
  <2>3. CASE InitialConnectFailed \/ SocketLost
    BY <2>3, ReconnectMoves DEF InitialConnectFailed, SocketLost, recoveryVars
  <2> QED BY <1>2, <2>1, <2>2, <2>3 DEF SocketOutcome
<1>3. CASE Shot \/ Watchdog
  BY <1>1, <1>3, ReconnectMoves
     DEF Shot, RetryShot, Watchdog, WatchdogRescan, WatchdogRetry, recoveryVars
<1>4. CASE Deliver
  <2>1. CASE ProbeFinished
    <3>1. CASE session.state = "ProbingBlueZ" /\ session' = BeginConnection(session)
      BY <3>1 DEF SessionMoves
    <3>2. CASE session.state = "ProbingBlueZ"
               /\ ScheduleControlRecoveryRetry(FALSE, scanning, retryCount)
      BY <3>2, RetryMoves
    <3> QED BY <2>1, <3>1, <3>2 DEF ProbeFinished, AnswersProbe, AcceptsProbe, recoveryVars
  <2>2. CASE DeviceConnected \/ ChangeOfAbsentDevice \/ DeviceDisconnected
    BY <2>2, AnnounceMoves, ReconnectMoves
       DEF DeviceConnected, ChangeOfAbsentDevice, DeviceDisconnected, recoveryVars
  <2> QED BY <1>4, <2>1, <2>2 DEF Deliver
<1>5. CASE GoToSleep \/ WakeUp \/ WakeSettled
  BY <1>1, <1>5 DEF GoToSleep, WakeUp, WakeSettled, recoveryVars
<1>6. CASE AddressVerb \/ Environment \/ UNCHANGED vars
  BY <1>6 DEF AddressVerb, Environment, PodChanges, PropertiesChange, AnswerProbe, daemonVars, vars,
              recoveryVars
<1> QED BY <1>2, <1>3, <1>4, <1>5, <1>6 DEF Next, Daemon

-----------------------------------------------------------------------------
\* What is in flight

\* A message after the others adds its own identity, if it is a reply, and nothing else.
LEMMA AppendReplies ==
  ASSUME TypeOK, NEW m \in Signals \cup Replies, bus' = Append(bus, m)
  PROVE  /\ \A id : Replying(id, bus') <=> Replying(id, bus) \/ (m.kind = "reply" /\ m.id = id)
         /\ \A i, j \in DOMAIN bus' :
              bus'[i].kind = "reply" /\ bus'[j].kind = "reply" /\ bus'[i].id = bus'[j].id =>
                i = j \/ (i \in DOMAIN bus /\ j \in DOMAIN bus /\ bus'[i] = bus[i] /\ bus'[j] = bus[j])
                      \/ (m.kind = "reply" /\ Replying(m.id, bus))
<1>1. /\ Len(bus) \in Nat /\ DOMAIN bus = 1 .. Len(bus)
      /\ DOMAIN bus' = 1 .. Len(bus) + 1
      /\ \A i \in 1 .. Len(bus) : bus'[i] = bus[i]
      /\ bus'[Len(bus) + 1] = m
  BY AppendProperties
<1>2. ASSUME NEW i \in DOMAIN bus'
      PROVE  (i \in DOMAIN bus /\ bus'[i] = bus[i]) \/ (i = Len(bus) + 1 /\ bus'[i] = m)
  BY <1>1
<1>3. Len(bus) + 1 \in DOMAIN bus' /\ \A i \in DOMAIN bus : i \in DOMAIN bus' /\ bus'[i] = bus[i]
  BY <1>1
<1>4. \A id : Replying(id, bus') <=> Replying(id, bus) \/ (m.kind = "reply" /\ m.id = id)
  BY <1>1, <1>2, <1>3 DEF Replying
<1>5. ASSUME NEW i \in DOMAIN bus', NEW j \in DOMAIN bus', i # j,
             bus'[i].kind = "reply", bus'[j].kind = "reply", bus'[i].id = bus'[j].id
      PROVE  \/ i \in DOMAIN bus /\ j \in DOMAIN bus /\ bus'[i] = bus[i] /\ bus'[j] = bus[j]
             \/ m.kind = "reply" /\ Replying(m.id, bus)
  BY <1>2, <1>5 DEF Replying
<1> QED BY <1>4, <1>5

\* A delivery takes one message off, and with it the identity of the reply it was.
LEMMA TailReplies ==
  ASSUME TypeOK, FlightOnce, bus # <<>>, bus' = Tail(bus)
  PROVE  /\ \A id : Replying(id, bus') <=>
               Replying(id, bus) /\ ~(Head(bus).kind = "reply" /\ Head(bus).id = id)
         /\ \A i, j \in DOMAIN bus' :
              bus'[i].kind = "reply" /\ bus'[j].kind = "reply" /\ bus'[i].id = bus'[j].id => i = j
<1>1. /\ Len(bus) \in Nat /\ Len(bus) >= 1 /\ DOMAIN bus = 1 .. Len(bus)
      /\ Head(bus) = bus[1] /\ DOMAIN bus' = 1 .. Len(bus) - 1
      /\ \A i \in 1 .. Len(bus) - 1 : bus'[i] = bus[i + 1]
  BY HeadTailProperties
<1>2. ASSUME NEW i \in DOMAIN bus'
      PROVE  i + 1 \in DOMAIN bus /\ i + 1 # 1 /\ bus'[i] = bus[i + 1] /\ i \in Int
  BY <1>1
<1>3. \A i, j \in DOMAIN bus' :
        bus'[i].kind = "reply" /\ bus'[j].kind = "reply" /\ bus'[i].id = bus'[j].id => i = j
  <2> SUFFICES ASSUME NEW i \in DOMAIN bus', NEW j \in DOMAIN bus',
                      bus'[i].kind = "reply", bus'[j].kind = "reply", bus'[i].id = bus'[j].id
               PROVE  i = j
    OBVIOUS
  <2>1. i + 1 = j + 1
    BY <1>2 DEF FlightOnce
  <2> QED BY <1>2, <2>1
<1>4. ASSUME NEW id, Replying(id, bus')
      PROVE  Replying(id, bus) /\ ~(Head(bus).kind = "reply" /\ Head(bus).id = id)
  <2>1. PICK i \in DOMAIN bus' : bus'[i].kind = "reply" /\ bus'[i].id = id
    BY <1>4 DEF Replying
  <2>2. i + 1 \in DOMAIN bus /\ i + 1 # 1 /\ bus[i + 1].kind = "reply" /\ bus[i + 1].id = id
    BY <1>2, <2>1
  <2>3. 1 \in DOMAIN bus
    BY <1>1
  <2> QED BY <1>1, <2>2, <2>3 DEF Replying, FlightOnce
<1>5. \A id : Replying(id, bus) /\ ~(Head(bus).kind = "reply" /\ Head(bus).id = id)
                => Replying(id, bus')
  BY TailKeepsReply
<1> QED BY <1>3, <1>4, <1>5

\* What a step does to the probes in flight, and that none is in flight twice after it.
LEMMA FlightSteps ==
  ASSUME IInv, FlightOnce, [Next]_vars
  PROVE  /\ FlightOnce'
         /\ ~AttemptControlReconnect /\ ~ProbeFinished => InFlight' = InFlight
<1>1. CASE UNCHANGED <<bus, requests>>
  BY <1>1 DEF FlightOnce, InFlight, Replying
<1>2. ASSUME NEW kind \in {"connected", "disconnected", "changed"}, NEW pod \in Pods,
             Signal(kind, pod), UNCHANGED requests
      PROVE  FlightOnce' /\ InFlight' = InFlight
  <2> DEFINE m == [kind |-> kind, pod |-> pod]
  <2>1. m \in Signals \cup Replies /\ m.kind # "reply" /\ bus' = Append(bus, m)
    BY <1>2 DEF Signals, Signal
  <2> HIDE DEF m
  <2>2. \A id : Replying(id, bus') <=> Replying(id, bus)
    BY <2>1, AppendReplies
  <2>3. FlightOnce'
    BY <1>2, <2>1, <2>2, AppendReplies DEF FlightOnce
  <2>4. \A id : id \in InFlight' <=> id \in InFlight
    BY <1>2, <2>2, FlightFacts
  <2> QED BY <2>3, <2>4
<1>3. CASE AnswerProbe
  <2>1. PICK r \in requests : /\ requests' = requests \ {r}
                              /\ \E connected \in {r.pod \in Held, FALSE} :
                                   bus' = Append(bus, [kind |-> "reply", pod |-> r.pod, id |-> r.id,
                                                       connected |-> connected])
    BY <1>3 DEF AnswerProbe
  <2>2. PICK connected \in BOOLEAN :
          bus' = Append(bus, [kind |-> "reply", pod |-> r.pod, id |-> r.id, connected |-> connected])
    <3>1. (r.pod \in Held) \in BOOLEAN
      BY DEF Held
    <3> QED BY <2>1, <3>1, Zenon
  <2> DEFINE m == [kind |-> "reply", pod |-> r.pod, id |-> r.id, connected |-> connected]
  <2>3. m \in Signals \cup Replies /\ m.kind = "reply" /\ m.id = r.id /\ bus' = Append(bus, m)
    BY <2>2 DEF Requests, Replies
  <2> HIDE DEF m
  <2>4. \A id : Replying(id, bus') <=> Replying(id, bus) \/ r.id = id
    BY <2>3, AppendReplies
  <2>5. ~Replying(m.id, bus)
    BY <2>3 DEF FlightOnce
  <2>6. \A i, j \in DOMAIN bus' :
          bus'[i].kind = "reply" /\ bus'[j].kind = "reply" /\ bus'[i].id = bus'[j].id => i = j
    <3> SUFFICES ASSUME NEW i \in DOMAIN bus', NEW j \in DOMAIN bus',
                        bus'[i].kind = "reply", bus'[j].kind = "reply", bus'[i].id = bus'[j].id
                 PROVE  i = j
      OBVIOUS
    <3>1. i = j \/ (i \in DOMAIN bus /\ j \in DOMAIN bus /\ bus'[i] = bus[i] /\ bus'[j] = bus[j])
      BY <2>3, <2>5, AppendReplies
    <3> QED BY <3>1 DEF FlightOnce
  <2>7. FlightOnce'
    BY <2>1, <2>4, <2>6 DEF FlightOnce
  <2>8. \A id : (\E q \in requests : q.id = id) <=> (\E q \in requests' : q.id = id) \/ r.id = id
    BY <2>1
  <2>9. \A id : id \in InFlight' <=> id \in InFlight
    BY <2>4, <2>8, FlightFacts
  <2> QED BY <2>7, <2>9
<1>4. CASE Deliver
  <2>1. bus # <<>> /\ bus' = Tail(bus) /\ UNCHANGED requests
    BY <1>4 DEF Deliver, DeviceConnected, ChangeOfAbsentDevice, DeviceDisconnected, ProbeFinished,
                Delivered
  <2>2. FlightOnce'
    BY <2>1, TailReplies DEF FlightOnce
  <2>3. ASSUME ~ProbeFinished
        PROVE  InFlight' = InFlight
    <3>1. Head(bus).kind # "reply"
      BY <1>4, <2>3 DEF Deliver, DeviceConnected, ChangeOfAbsentDevice, DeviceDisconnected, Delivered
    <3>2. \A id : id \in InFlight' <=> id \in InFlight
      BY <2>1, <3>1, TailReplies, FlightFacts
    <3> QED BY <3>2
  <2> QED BY <2>2, <2>3
<1>5. CASE AttemptControlReconnect
  <2>1. CASE UNCHANGED requests
    BY <1>1, <1>5, <2>1 DEF AttemptControlReconnect
  <2>2. ASSUME NEW id \in ProbeIds \ InFlight,
               requests' = requests \cup {[id |-> id, pod |-> lastAddress]}
        PROVE  FlightOnce'
    <3>1. UNCHANGED bus
      BY <1>5 DEF AttemptControlReconnect
    <3>2. (\A r \in requests : r.id # id) /\ ~Replying(id, bus)
      BY FlightFacts
    <3>3. \A r \in requests' : r \in requests \/ (r = [id |-> id, pod |-> lastAddress] /\ r.id = id)
      BY <2>2
    <3>4. \A i : Replying(i, bus') <=> Replying(i, bus)
      BY <3>1
    <3>5. \A r, q \in requests' : r.id = q.id => r = q
      BY <3>2, <3>3 DEF FlightOnce
    <3>6. \A r \in requests' : ~Replying(r.id, bus')
      BY <3>2, <3>3, <3>4 DEF FlightOnce
    <3> QED BY <3>1, <3>5, <3>6 DEF FlightOnce
  <2> QED BY <1>5, <2>1, <2>2 DEF AttemptControlReconnect
<1> QED
  BY <1>1, <1>2, <1>3, <1>4, <1>5
     DEF Next, Daemon, SocketOutcome, SocketConnected, RecoverySocketFailed, InitialConnectFailed,
         SocketLost, Shot, RetryShot, Watchdog, WatchdogRescan, WatchdogRetry, GoToSleep, WakeUp,
         WakeSettled, AddressVerb, Environment, PodChanges, PropertiesChange, vars, bluezVars

-----------------------------------------------------------------------------
\* The two steps of ProbeNonce that name a probe

\* attemptControlReconnect finds the link up and finishes, or asks under an identity of its own.
LEMMA AttemptIsNonce ==
  ASSUME IInv, AttemptControlReconnect
  PROVE  (Nonce!End /\ UNCHANGED InFlight) \/ Nonce!Ask
<1>0. UNCHANGED bus
  BY DEF AttemptControlReconnect
<1>1. CASE session' = IdleSession /\ UNCHANGED requests
  BY <1>0, <1>1 DEF Nonce!End, Nonce!IdleSession, IdleSession, InFlight
<1>2. ASSUME NEW id \in ProbeIds \ InFlight, session' = BeginProbe(session, id),
             requests' = requests \cup {[id |-> id, pod |-> lastAddress]}
      PROVE  Nonce!Ask
  <2>1. \A i : (\E r \in requests' : r.id = i) <=> (\E r \in requests : r.id = i) \/ i = id
    <3> DEFINE asked == [id |-> id, pod |-> lastAddress]
    <3>1. asked.id = id /\ requests' = requests \cup {asked}
      BY <1>2
    <3> HIDE DEF asked
    <3> QED BY <3>1
  <2>2. \A i : i \in InFlight' <=> i \in InFlight \cup {id}
    BY <1>0, <2>1, FlightFacts
  <2>3. InFlight' = InFlight \cup {id}
    BY <2>2
  <2>4. session.state = "Waiting" /\ session' = Nonce!BeginProbe(session, id)
    BY <1>2 DEF AttemptControlReconnect, Nonce!BeginProbe, BeginProbe
  <2> QED BY <2>3, <2>4 DEF Nonce!Ask
<1> QED BY <1>1, <1>2 DEF AttemptControlReconnect

\* controlConnectionProbeFinished moves the session if, and only if, the answer is the awaited one.
\* With one pair, the address the answer is compared with cannot have changed under the probe.
LEMMA AnswerIsNonce ==
  ASSUME OnePair, IInv, FlightOnce, ProbeFinished
  PROVE  \E id \in ProbeIds : Nonce!Answer(id)
<1>1. Delivered("reply")
  BY DEF ProbeFinished
<1> DEFINE reply == Head(bus)
<1>2. bus # <<>> /\ bus' = Tail(bus) /\ reply.kind = "reply" /\ UNCHANGED requests
  BY <1>1 DEF ProbeFinished, Delivered
<1>3. reply.pod \in Pods /\ reply.id \in ProbeIds
  BY <1>1, <1>2, DeliveredFacts DEF Signals, Replies
<1>4. Replying(reply.id, bus)
  <2>1. 1 \in DOMAIN bus /\ bus[1] = reply
    BY <1>2, HeadTailProperties
  <2> QED BY <1>2, <2>1 DEF Replying
<1> HIDE DEF reply
<1>5. ~\E r \in requests : r.id = reply.id
  BY <1>4 DEF FlightOnce
<1>6. \A id : Replying(id, bus') <=> Replying(id, bus) /\ reply.id # id
  BY <1>2, TailReplies DEF reply
<1>7. \A id : id \in InFlight' <=> id \in InFlight \ {reply.id}
  BY <1>2, <1>5, <1>6, FlightFacts
<1>8. InFlight' = InFlight \ {reply.id} /\ reply.id \in InFlight
  BY <1>4, <1>7, FlightFacts
<1>9. AnswersProbe(reply) <=> Nonce!AcceptsProbe(session, reply.id)
  <2>1. session.state = "ProbingBlueZ" => lastAddress = reply.pod
    BY <1>3 DEF OnePair
  <2> QED BY <2>1 DEF AnswersProbe, AcceptsProbe, Nonce!AcceptsProbe
<1>10. CASE AnswersProbe(reply)
  <2>1. session.state # "Idle"
    BY <1>10 DEF AnswersProbe, AcceptsProbe
  <2>2. ASSUME session' = BeginConnection(session)
        PROVE  Nonce!Connect
    BY <2>1, <2>2 DEF Nonce!Connect, Nonce!BeginConnection, BeginConnection, Nonce!IsActive
  <2>3. ASSUME ScheduleControlRecoveryRetry(FALSE, scanning, retryCount)
        PROVE  Nonce!Retry \/ Nonce!End
    <3>1. ASSUME HasRetry(session, FALSE), session' = Retried(session, FALSE)
          PROVE  Nonce!Retry
      BY <3>1 DEF Nonce!Retry, Nonce!HasRetry, Nonce!Retried, Nonce!IsActive, HasRetry, Retried
    <3>2. ASSUME session' = IdleSession
          PROVE  Nonce!End
      BY <3>2 DEF Nonce!End, Nonce!IdleSession, IdleSession
    <3> QED
      BY <2>1, <2>3, <3>1, <3>2 DEF ScheduleControlRecoveryRetry, FinalizeDeviceDisconnected
  <2>4. Nonce!Connect \/ Nonce!Retry \/ Nonce!End
    BY <1>10, <2>2, <2>3 DEF ProbeFinished, reply
  <2>5. Nonce!Answer(reply.id)
    BY <1>8, <1>9, <1>10, <2>4 DEF Nonce!Answer
  <2> QED BY <1>3, <2>5
<1>11. CASE ~AnswersProbe(reply)
  <2>1. UNCHANGED session
    BY <1>11 DEF ProbeFinished, reply, recoveryVars
  <2>2. Nonce!Answer(reply.id)
    BY <1>8, <1>9, <1>11, <2>1 DEF Nonce!Answer
  <2> QED BY <1>3, <2>2
<1> QED BY <1>10, <1>11

\* With one pair the link's sessions are those of ProbeNonce.tla: begun only when none is active,
\* probes told apart in flight, and moved by no answer but the awaited one, however late the others
\* come, and whatever signals, losses, suspends and verbs come between (main.cpp
\* attemptControlReconnect, controlConnectionProbeFinished; controlreconnect.hpp).
THEOREM SessionsImplementNonce ==
  ASSUME OnePair
  PROVE  Spec => SessionsMatchProbes
<1>1. Init => Nonce!Init /\ FlightOnce
  BY DEF Init, Nonce!Init, Nonce!IdleSession, IdleSession, InFlight, FlightOnce, Replying
<1>2. ASSUME IInv, FlightOnce, [Next]_vars
      PROVE  FlightOnce' /\ [Nonce!Next]_<<session, InFlight>>
  <2>1. FlightOnce'
    BY <1>2, FlightSteps
  <2>2. CASE AttemptControlReconnect
    BY <1>2, <2>1, <2>2, AttemptIsNonce DEF Nonce!Next
  <2>3. CASE ProbeFinished
    BY <1>2, <2>1, <2>3, AnswerIsNonce DEF Nonce!Next
  <2>4. CASE ~AttemptControlReconnect /\ ~ProbeFinished
    <3>1. InFlight' = InFlight
      BY <1>2, <2>4, FlightSteps
    <3>2. SessionMoves \/ UNCHANGED session
      BY <1>2, <2>4, StepsMove
    <3> QED BY <2>1, <3>1, <3>2, MovesAreNonce DEF Nonce!Next
  <2> QED BY <2>2, <2>3, <2>4
<1>3. Spec => []FlightOnce
  <2>1. IInv /\ FlightOnce /\ [Next]_vars => FlightOnce'
    BY <1>2
  <2> QED BY Invariant, <1>1, <2>1, PTL DEF Spec
<1>4. IInv /\ FlightOnce /\ [Next]_vars => [Nonce!Next]_<<session, InFlight>>
  BY <1>2
<1> QED BY Invariant, <1>1, <1>3, <1>4, PTL DEF Spec, SessionsMatchProbes, Nonce!Spec

=============================================================================
