--------------------------- MODULE ControlReconnect ---------------------------
(***************************************************************************)
(* daemon/controlreconnect.hpp: the bookkeeping of one recovery session of *)
(* the AirPods control link (class Session), the backoff ladder, and the   *)
(* two predicates the 30 s watchdog asks.                                  *)
(*                                                                         *)
(* Session::m_generation only ever serves to tell the probe a session is   *)
(* waiting for from every other probe still in flight.  It is modelled as  *)
(* a nonce: `probe' is the id of the awaited request, or NoProbe after any *)
(* other step that increments the generation.  ProbeToken.tla keeps the    *)
(* counter itself and is shown to implement this abstraction.              *)
(***************************************************************************)
EXTENDS Integers

CONSTANTS
  RetryAttempts,         \* main.cpp m_retryAttempts, the user's setting (3 by default)
  ConnectedAttemptLimit, \* controlreconnect.hpp connectedAttemptLimit (10)
  ProbeIds,              \* ids of the BlueZ probes that may be in flight at once
  NoProbe

ASSUME RetryAttemptsAssumption == RetryAttempts \in Nat
ASSUME ConnectedAttemptLimitAssumption == ConnectedAttemptLimit \in Nat \ {0}
ASSUME NoProbeAssumption == NoProbe \notin ProbeIds

SessionStates == {"Idle", "Waiting", "ProbingBlueZ", "ConnectingSocket"}

Sessions == [state : SessionStates,
             absentProbes : 0 .. RetryAttempts,
             connectedAttempts : 0 .. ConnectedAttemptLimit,
             restoreBleScan : BOOLEAN,
             probe : ProbeIds \cup {NoProbe}]

\* Session::reset
IdleSession == [state |-> "Idle", absentProbes |-> 0, connectedAttempts |-> 0,
                restoreBleScan |-> FALSE, probe |-> NoProbe]

IsActive(s) == s.state # "Idle"

Begin(bleScanWasActive) ==
  [IdleSession EXCEPT !.state = "Waiting", !.restoreBleScan = bleScanWasActive]

BeginProbe(s, id) == [s EXCEPT !.state = "ProbingBlueZ", !.probe = id]

AcceptsProbe(s, id) == s.state = "ProbingBlueZ" /\ s.probe = id

BeginConnection(s) == [s EXCEPT !.state = "ConnectingSocket", !.probe = NoProbe]

\* Session::prepareRetry succeeds while the branch it is asked about has budget left.
HasRetry(s, deviceStillConnected) ==
  /\ IsActive(s)
  /\ IF deviceStillConnected THEN s.connectedAttempts < ConnectedAttemptLimit
                             ELSE s.absentProbes < RetryAttempts

\* Mutant: the retry leaves the session in the state it failed in.
RetriedInPlace(s, deviceStillConnected) ==
  [s EXCEPT !.probe = NoProbe,
            !.connectedAttempts = IF deviceStillConnected THEN @ + 1 ELSE @,
            !.absentProbes = IF deviceStillConnected THEN @ ELSE @ + 1]

\* Mutant: the retry is not counted.
RetriedForFree(s, deviceStillConnected) == [s EXCEPT !.state = "Waiting", !.probe = NoProbe]

Retried(s, deviceStillConnected) ==
  [s EXCEPT !.state = "Waiting",
            !.probe = NoProbe,
            !.connectedAttempts = IF deviceStillConnected THEN @ + 1 ELSE @,
            !.absentProbes = IF deviceStillConnected THEN @ ELSE @ + 1]

-----------------------------------------------------------------------------
\* The watchdog's two questions.  `quiet' is what they share: no link, no
\* recovery under way, and the machine is not suspending.

Quiet(linkUp, session, suspending) == ~linkUp /\ ~IsActive(session) /\ ~suspending

\* Mutant: the gate on the last probe answer is inverted.
RetriesAbsentPods(linkUp, session, suspending, haveAddress, bluezReported) ==
  Quiet(linkUp, session, suspending) /\ haveAddress /\ ~bluezReported

ShouldRetryFromWatchdog(linkUp, session, suspending, haveAddress, bluezReported) ==
  Quiet(linkUp, session, suspending) /\ haveAddress /\ bluezReported

ShouldRescanFromWatchdog(linkUp, session, suspending, haveAddress) ==
  Quiet(linkUp, session, suspending) /\ ~haveAddress

=============================================================================
