------------------------------ MODULE ProbeNonce ------------------------------
(***************************************************************************)
(* What a recovery session promises about its BlueZ probes: each probe is  *)
(* told apart from every other one still in flight, and only the answer to *)
(* the probe a session is waiting for moves that session.  Everything else *)
(* that touches a session (a signal, a socket, a timer, a teardown) may    *)
(* happen at any time.                                                     *)
(*                                                                         *)
(* ProbeToken.tla, which keeps Session::m_generation, and ControlLink.tla, *)
(* which uses sessions, are both shown to implement this specification.    *)
(***************************************************************************)
EXTENDS ControlReconnect

VARIABLES
  session,   \* the session's bookkeeping, with the awaited probe
  inFlight   \* the probes asked whose answer has not been delivered

Init == session = IdleSession /\ inFlight = {}

Start == ~IsActive(session) /\ \E scan \in BOOLEAN : session' = Begin(scan)

Connect == IsActive(session) /\ session' = BeginConnection(session)

Retry == \E still \in BOOLEAN : HasRetry(session, still) /\ session' = Retried(session, still)

End == session' = IdleSession

Ask ==
  /\ session.state = "Waiting"
  /\ \E id \in ProbeIds \ inFlight :
       /\ session' = BeginProbe(session, id)
       /\ inFlight' = inFlight \cup {id}

Answer(id) ==
  /\ id \in inFlight
  /\ inFlight' = inFlight \ {id}
  /\ IF AcceptsProbe(session, id)
     THEN Connect \/ Retry \/ End
     ELSE UNCHANGED session

Next ==
  \/ (Start \/ Connect \/ Retry \/ End) /\ UNCHANGED inFlight
  \/ Ask
  \/ \E id \in ProbeIds : Answer(id)

Spec == Init /\ [][Next]_<<session, inFlight>>

=============================================================================
