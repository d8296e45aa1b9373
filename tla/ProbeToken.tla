------------------------------ MODULE ProbeToken ------------------------------
(***************************************************************************)
(* class Session of daemon/controlreconnect.hpp as it is written, with the *)
(* counter m_generation, driven by its callers in any order: every probe   *)
(* gets the generation current when it was asked, and an answer is         *)
(* accepted when the generation is still that one.                         *)
(*                                                                         *)
(* m_generation is a std::uint64_t incremented a few times per recovery,   *)
(* so its wrap is out of reach, and it counts without end here: the        *)
(* refinement is for the proofs alone (ProbeTokenProofs.tla).              *)
(***************************************************************************)
EXTENDS Integers

CONSTANTS RetryAttempts, ConnectedAttemptLimit

\* No probe has this generation.
NoProbe == 0 - 1

VARIABLES
  recovery,    \* m_controlRecovery, a Session
  outstanding  \* generations handed to probeDeviceConnected and not yet answered

vars == <<recovery, outstanding>>

States == {"Idle", "Waiting", "ProbingBlueZ", "ConnectingSocket"}

Recoveries == [state : States,
               absentProbes : Nat,
               connectedAttempts : Nat,
               restoreBleScan : BOOLEAN,
               generation : Nat]

TypeOK == recovery \in Recoveries /\ outstanding \subseteq Nat

Active == recovery.state # "Idle"

\* reset, for complete and cancel
Reset(s) == [state |-> "Idle", absentProbes |-> 0, connectedAttempts |-> 0,
             restoreBleScan |-> FALSE, generation |-> s.generation + 1]

\* begin
Begun(s, bleScanWasActive) ==
  [Reset(s) EXCEPT !.state = "Waiting", !.restoreBleScan = bleScanWasActive]

\* beginProbe
Probing(s) == [s EXCEPT !.state = "ProbingBlueZ", !.generation = @ + 1]

\* acceptsProbe
Accepts(s, generation) == s.state = "ProbingBlueZ" /\ generation = s.generation

\* beginConnection
Connecting(s) == [s EXCEPT !.state = "ConnectingSocket", !.generation = @ + 1]

\* prepareRetry
HasBudget(s, deviceStillConnected) ==
  IF deviceStillConnected THEN s.connectedAttempts < ConnectedAttemptLimit
                          ELSE s.absentProbes < RetryAttempts

Retrying(s, deviceStillConnected) ==
  [s EXCEPT !.state = "Waiting",
            !.generation = @ + 1,
            !.connectedAttempts = IF deviceStillConnected THEN @ + 1 ELSE @,
            !.absentProbes = IF deviceStillConnected THEN @ ELSE @ + 1]

-----------------------------------------------------------------------------
Init ==
  /\ recovery = [state |-> "Idle", absentProbes |-> 0, connectedAttempts |-> 0,
                 restoreBleScan |-> FALSE, generation |-> 0]
  /\ outstanding = {}

\* scheduleControlReconnect
Start == ~Active /\ \E scan \in BOOLEAN : recovery' = Begun(recovery, scan)

\* bluezDeviceConnected
Connect == Active /\ recovery' = Connecting(recovery)

\* scheduleControlRecoveryRetry
Retry ==
  /\ Active
  /\ \E still \in BOOLEAN : HasBudget(recovery, still) /\ recovery' = Retrying(recovery, still)

\* finishControlRecovery and finalizeDeviceDisconnected
End == recovery' = Reset(recovery)

\* attemptControlReconnect
Ask ==
  /\ recovery.state = "Waiting"
  /\ recovery' = Probing(recovery)
  /\ outstanding' = outstanding \cup {recovery'.generation}

\* controlConnectionProbeFinished
Answered(generation) ==
  /\ generation \in outstanding
  /\ outstanding' = outstanding \ {generation}
  /\ \/ ~Accepts(recovery, generation) /\ UNCHANGED recovery
     \/ /\ Accepts(recovery, generation)
        /\ Connect \/ Retry \/ End

Next ==
  \/ (Start \/ Connect \/ Retry \/ End) /\ UNCHANGED outstanding
  \/ Ask
  \/ \E generation \in Nat : Answered(generation)

Spec == Init /\ [][Next]_vars

-----------------------------------------------------------------------------
\* No probe is outstanding under a generation the session has yet to reach, so the next one
\* it asks is told apart from all of them.
OutstandingIsPast == \A g \in outstanding : g <= recovery.generation

\* The awaited probe is the one whose generation the session still holds.
Nonce == INSTANCE ProbeNonce WITH
  ProbeIds <- Nat,
  inFlight <- outstanding,
  session <- [state |-> recovery.state,
              absentProbes |-> recovery.absentProbes,
              connectedAttempts |-> recovery.connectedAttempts,
              restoreBleScan |-> recovery.restoreBleScan,
              probe |-> IF recovery.state = "ProbingBlueZ" THEN recovery.generation ELSE NoProbe]

\* Whatever the order of probes, late answers, signals and teardowns, an answer to an earlier
\* probe never passes for the answer the session waits for, and that answer is never refused.
ImplementsNonce == Nonce!Spec

=============================================================================
