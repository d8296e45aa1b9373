--------------------------- MODULE ProbeTokenProofs ---------------------------
(***************************************************************************)
(* Proofs that the generation counter of daemon/controlreconnect.hpp does  *)
(* what ProbeNonce.tla asks of it, for any setting of the budgets and      *)
(* however long it counts.                                                 *)
(***************************************************************************)
EXTENDS ProbeToken, TLAPS

\* The invariant the refinement rests on.
IInv == TypeOK /\ OutstandingIsPast

\* Whatever a session does, it leaves a session, and its generation is one more or the same.
LEMMA StepsKeepType ==
  ASSUME TypeOK, [Next]_vars
  PROVE  TypeOK' /\ recovery'.generation \in {recovery.generation, recovery.generation + 1}
<1>0. recovery.generation \in Nat
  BY DEF TypeOK, Recoveries
<1>1. CASE UNCHANGED vars
  BY <1>1 DEF vars, TypeOK
<1> DEFINE Step == Start \/ Connect \/ Retry \/ End
<1>2. ASSUME Step
      PROVE  /\ recovery' \in Recoveries
             /\ recovery'.generation = recovery.generation + 1
  <2>1. CASE Start
    <3>1. PICK scan \in BOOLEAN : recovery' = Begun(recovery, scan)
      BY <2>1 DEF Start
    <3>2. recovery' = [state |-> "Waiting", absentProbes |-> 0, connectedAttempts |-> 0,
                       restoreBleScan |-> scan, generation |-> recovery.generation + 1]
      BY <3>1 DEF Begun, Reset
    <3> QED BY <1>0, <3>2 DEF Recoveries, States
  <2>2. CASE Connect
    <3>1. recovery' = [recovery EXCEPT !.state = "ConnectingSocket",
                                       !.generation = recovery.generation + 1]
      BY <2>2 DEF Connect, Connecting
    <3>2. recovery.generation + 1 \in Nat /\ "ConnectingSocket" \in States
      BY <1>0 DEF States
    <3> QED BY <3>1, <3>2 DEF TypeOK, Recoveries
  <2>3. CASE Retry
    <3>1. PICK still \in BOOLEAN : HasBudget(recovery, still) /\ recovery' = Retrying(recovery, still)
      BY <2>3 DEF Retry
    <3>2. /\ recovery.absentProbes \in Nat
          /\ recovery.connectedAttempts \in Nat
          /\ recovery.restoreBleScan \in BOOLEAN
      BY DEF TypeOK, Recoveries
    <3>3. recovery' = [state |-> "Waiting",
                       absentProbes |-> IF still THEN recovery.absentProbes
                                                 ELSE recovery.absentProbes + 1,
                       connectedAttempts |-> IF still THEN recovery.connectedAttempts + 1
                                                      ELSE recovery.connectedAttempts,
                       restoreBleScan |-> recovery.restoreBleScan,
                       generation |-> recovery.generation + 1]
      BY <3>1 DEF TypeOK, Recoveries, Retrying
    <3>4. recovery'.absentProbes \in Nat /\ recovery'.connectedAttempts \in Nat
      BY <3>2, <3>3
    <3> QED BY <1>0, <3>2, <3>3, <3>4 DEF Recoveries, States
  <2>4. CASE End
    BY <1>0, <2>4 DEF TypeOK, Recoveries, States, End, Reset
  <2> QED BY <1>2, <2>1, <2>2, <2>3, <2>4
<1>3. CASE Step /\ UNCHANGED outstanding
  BY <1>2, <1>3 DEF TypeOK
<1>4. CASE Ask
  <2>1. recovery' = [recovery EXCEPT !.state = "ProbingBlueZ",
                                     !.generation = recovery.generation + 1]
    BY <1>4 DEF Ask, Probing
  <2>2. recovery.generation + 1 \in Nat /\ "ProbingBlueZ" \in States
    BY <1>0 DEF States
  <2>3. recovery' \in Recoveries /\ recovery'.generation = recovery.generation + 1
    BY <2>1, <2>2 DEF TypeOK, Recoveries
  <2> QED BY <1>4, <2>2, <2>3 DEF TypeOK, Ask
<1>5. ASSUME NEW g \in Nat, Answered(g)
      PROVE  TypeOK' /\ recovery'.generation \in {recovery.generation, recovery.generation + 1}
  <2>1. CASE UNCHANGED recovery
    BY <1>5, <2>1 DEF TypeOK, Answered
  <2>2. CASE (Connect \/ Retry \/ End)
    BY <1>2, <1>5, <2>2 DEF TypeOK, Answered
  <2> QED BY <1>5, <2>1, <2>2 DEF Answered
<1> QED BY <1>1, <1>3, <1>4, <1>5 DEF Next

\* Type correctness of the session and of the generations it has handed out.
THEOREM TokenTypeCorrect == Spec => []TypeOK
<1>1. Init => TypeOK
  BY DEF Init, TypeOK, Recoveries, States
<1>2. TypeOK /\ [Next]_vars => TypeOK'
  BY StepsKeepType
<1> QED BY <1>1, <1>2, PTL DEF Spec

\* The strengthened invariant: the generation never falls, so what is outstanding stays behind it.
LEMMA TokenInvariant == Spec => []IInv
<1>1. Init => IInv
  BY DEF Init, IInv, TypeOK, Recoveries, States, OutstandingIsPast
<1>2. IInv /\ [Next]_vars => IInv'
  <2> SUFFICES ASSUME IInv, [Next]_vars PROVE IInv'
    OBVIOUS
  <2> USE DEF IInv
  <2>1. TypeOK' /\ recovery'.generation \in {recovery.generation, recovery.generation + 1}
    BY StepsKeepType
  <2>2. recovery.generation \in Nat
    BY DEF TypeOK, Recoveries
  <2>3. outstanding' \subseteq outstanding \cup {recovery'.generation}
    BY DEF Next, vars, Ask, Answered
  <2>4. OutstandingIsPast'
    <3> SUFFICES ASSUME NEW g \in outstanding' PROVE g <= recovery'.generation
      BY DEF OutstandingIsPast
    <3>1. CASE g \in outstanding
      <4>1. g <= recovery.generation /\ g \in Nat
        BY <3>1 DEF OutstandingIsPast, TypeOK
      <4> QED BY <4>1, <2>1, <2>2
    <3>2. CASE g = recovery'.generation
      BY <3>2, <2>1, <2>2
    <3> QED BY <3>1, <3>2, <2>3
  <2> QED BY <2>1, <2>4
<1> QED BY <1>1, <1>2, PTL DEF Spec

\* No probe is outstanding under a generation the session has yet to reach (controlreconnect.hpp
\* Session::m_generation, handed to probeDeviceConnected by attemptControlReconnect).
THEOREM OutstandingStaysPast == Spec => []OutstandingIsPast
<1>1. IInv => OutstandingIsPast
  BY DEF IInv
<1> QED BY <1>1, TokenInvariant, PTL

-----------------------------------------------------------------------------
\* The abstract session operations, field by field.  Each is stated of a value `x' known to
\* equal the operation's result, which is the form the provers resolve EXCEPT in.

Nonces == [state : States,
           absentProbes : Nat,
           connectedAttempts : Nat,
           restoreBleScan : BOOLEAN,
           probe : Nat \cup {NoProbe}]

\* What the nonce's begin is, field by field.
LEMMA NonceBegin ==
  ASSUME NEW scan \in BOOLEAN
  PROVE  Nonce!Begin(scan) =
           [state |-> "Waiting", absentProbes |-> 0, connectedAttempts |-> 0,
            restoreBleScan |-> scan, probe |-> NoProbe]
<1>1. ASSUME NEW x, x = Nonce!Begin(scan)
      PROVE  x = [state |-> "Waiting", absentProbes |-> 0, connectedAttempts |-> 0,
                  restoreBleScan |-> scan, probe |-> NoProbe]
  BY <1>1 DEF Nonce!Begin, Nonce!IdleSession
<1> QED BY <1>1

\* What its connection is.
LEMMA NonceBeginConnection ==
  ASSUME NEW s \in Nonces
  PROVE  Nonce!BeginConnection(s) =
           [state |-> "ConnectingSocket", absentProbes |-> s.absentProbes,
            connectedAttempts |-> s.connectedAttempts,
            restoreBleScan |-> s.restoreBleScan, probe |-> NoProbe]
<1>1. ASSUME NEW x, x = Nonce!BeginConnection(s)
      PROVE  x = [state |-> "ConnectingSocket", absentProbes |-> s.absentProbes,
                  connectedAttempts |-> s.connectedAttempts,
                  restoreBleScan |-> s.restoreBleScan, probe |-> NoProbe]
  BY <1>1 DEF Nonce!BeginConnection, Nonces
<1> QED BY <1>1

\* What its probe is.
LEMMA NonceBeginProbe ==
  ASSUME NEW s \in Nonces, NEW id
  PROVE  Nonce!BeginProbe(s, id) =
           [state |-> "ProbingBlueZ", absentProbes |-> s.absentProbes,
            connectedAttempts |-> s.connectedAttempts,
            restoreBleScan |-> s.restoreBleScan, probe |-> id]
<1>1. ASSUME NEW x, x = Nonce!BeginProbe(s, id)
      PROVE  x = [state |-> "ProbingBlueZ", absentProbes |-> s.absentProbes,
                  connectedAttempts |-> s.connectedAttempts,
                  restoreBleScan |-> s.restoreBleScan, probe |-> id]
  BY <1>1 DEF Nonce!BeginProbe, Nonces
<1> QED BY <1>1

\* What its retry is.
LEMMA NonceRetried ==
  ASSUME NEW s \in Nonces, NEW still \in BOOLEAN
  PROVE  Nonce!Retried(s, still) =
           [state |-> "Waiting",
            absentProbes |-> IF still THEN s.absentProbes ELSE s.absentProbes + 1,
            connectedAttempts |-> IF still THEN s.connectedAttempts + 1 ELSE s.connectedAttempts,
            restoreBleScan |-> s.restoreBleScan, probe |-> NoProbe]
<1>1. ASSUME NEW x, x = Nonce!Retried(s, still)
      PROVE  x = [state |-> "Waiting",
                  absentProbes |-> IF still THEN s.absentProbes ELSE s.absentProbes + 1,
                  connectedAttempts |-> IF still THEN s.connectedAttempts + 1
                                                 ELSE s.connectedAttempts,
                  restoreBleScan |-> s.restoreBleScan, probe |-> NoProbe]
  BY <1>1 DEF Nonce!Retried, Nonces
<1> QED BY <1>1

-----------------------------------------------------------------------------
\* The generation counter implements fresh probe identities: an answer is accepted exactly when it
\* is the answer to the probe the session waits for, however late the others come in.
THEOREM TokenImplementsNonce == Spec => ImplementsNonce
<1> USE DEF Nonce!IsActive, Nonce!IdleSession
<1>1. Init => Nonce!Init
  BY DEF Init, Nonce!Init
<1> DEFINE s == [state |-> recovery.state,
                 absentProbes |-> recovery.absentProbes,
                 connectedAttempts |-> recovery.connectedAttempts,
                 restoreBleScan |-> recovery.restoreBleScan,
                 probe |-> IF recovery.state = "ProbingBlueZ" THEN recovery.generation ELSE NoProbe]
<1>2. ASSUME IInv, [Next]_vars
      PROVE  [Nonce!Next]_<<s, outstanding>>
  <2> USE <1>2 DEF IInv
  <2>1. recovery \in Recoveries /\ outstanding \subseteq Nat
    BY DEF TypeOK
  <2>0. s \in Nonces
    BY <2>1 DEF Recoveries, States, Nonces
  <2>2. CASE UNCHANGED vars
    BY <2>2 DEF vars
  <2>3. Start => Nonce!Start
    <3> SUFFICES ASSUME Start PROVE Nonce!Start
      OBVIOUS
    <3>1. PICK scan \in BOOLEAN : recovery' = Begun(recovery, scan)
      BY DEF Start
    <3>2. s' = [state |-> "Waiting", absentProbes |-> 0, connectedAttempts |-> 0,
                restoreBleScan |-> scan, probe |-> NoProbe]
      BY <3>1 DEF Begun, Reset
    <3>3. s' = Nonce!Begin(scan)
      BY <3>2, NonceBegin
    <3> QED BY <3>3 DEF Start, Active, Nonce!Start
  <2>4. Connect => Nonce!Connect
    <3> SUFFICES ASSUME Connect PROVE Nonce!Connect
      OBVIOUS
    <3>1. s' = [state |-> "ConnectingSocket", absentProbes |-> s.absentProbes,
                connectedAttempts |-> s.connectedAttempts,
                restoreBleScan |-> s.restoreBleScan, probe |-> NoProbe]
      BY <2>1 DEF Recoveries, Connect, Connecting
    <3>2. s' = Nonce!BeginConnection(s)
      BY <2>0, <3>1, NonceBeginConnection
    <3> QED BY <3>2 DEF Connect, Active, Nonce!Connect
  <2>5. Retry => Nonce!Retry
    <3> SUFFICES ASSUME Retry PROVE Nonce!Retry
      OBVIOUS
    <3>1. PICK still \in BOOLEAN : HasBudget(recovery, still) /\ recovery' = Retrying(recovery, still)
      BY DEF Retry
    <3>2. Nonce!HasRetry(s, still)
      BY <3>1 DEF Retry, Active, HasBudget, Nonce!HasRetry
    <3>3. s' = [state |-> "Waiting",
                absentProbes |-> IF still THEN s.absentProbes ELSE s.absentProbes + 1,
                connectedAttempts |-> IF still THEN s.connectedAttempts + 1 ELSE s.connectedAttempts,
                restoreBleScan |-> s.restoreBleScan, probe |-> NoProbe]
      BY <2>1, <3>1 DEF Recoveries, Retrying
    <3>4. s' = Nonce!Retried(s, still)
      BY <2>0, <3>3, NonceRetried
    <3> QED BY <3>2, <3>4 DEF Nonce!Retry
  <2>6. End => Nonce!End
    BY DEF End, Reset, Nonce!End
  <2>7. Ask => Nonce!Ask
    <3> SUFFICES ASSUME Ask PROVE Nonce!Ask
      OBVIOUS
    <3> DEFINE id == recovery.generation + 1
    <3>1. recovery.state = "Waiting" /\ recovery' = Probing(recovery)
      BY DEF Ask
    <3>2. recovery'.generation = id /\ outstanding' = outstanding \cup {id}
      BY <2>1, <3>1 DEF Recoveries, Probing, Ask
    <3>3. id \in Nat \ outstanding
      <4>1. recovery.generation \in Nat /\ id \in Nat
        BY <2>1 DEF Recoveries
      <4>2. ASSUME id \in outstanding PROVE FALSE
        <5>1. id <= recovery.generation
          BY <4>2 DEF OutstandingIsPast
        <5> QED BY <4>1, <5>1
      <4> QED BY <4>1, <4>2
    <3>4. s' = [state |-> "ProbingBlueZ", absentProbes |-> s.absentProbes,
                connectedAttempts |-> s.connectedAttempts,
                restoreBleScan |-> s.restoreBleScan, probe |-> id]
      BY <2>1, <3>1 DEF Recoveries, Probing
    <3>5. s' = Nonce!BeginProbe(s, id)
      BY <2>0, <3>4, NonceBeginProbe
    <3> QED BY <3>1, <3>2, <3>3, <3>5 DEF Nonce!Ask
  <2>8. ASSUME NEW g \in Nat, Answered(g)
        PROVE  Nonce!Answer(g)
    <3>1. Accepts(recovery, g) <=> Nonce!AcceptsProbe(s, g)
      BY DEF Accepts, Nonce!AcceptsProbe
    <3>2. CASE ~Accepts(recovery, g) /\ UNCHANGED recovery
      BY <2>8, <3>1, <3>2 DEF Answered, Nonce!Answer
    <3>3. CASE Accepts(recovery, g) /\ (Connect \/ Retry \/ End)
      <4>1. Nonce!Connect \/ Nonce!Retry \/ Nonce!End
        BY <3>3, <2>4, <2>5, <2>6
      <4> QED BY <2>8, <3>1, <3>3, <4>1 DEF Answered, Nonce!Answer
    <3> QED BY <2>8, <3>2, <3>3 DEF Answered
  <2>9. CASE (Start \/ Connect \/ Retry \/ End) /\ UNCHANGED outstanding
    BY <2>9, <2>3, <2>4, <2>5, <2>6 DEF Nonce!Next
  <2>10. CASE Ask
    BY <2>10, <2>7 DEF Nonce!Next
  <2>11. CASE \E g \in Nat : Answered(g)
    BY <2>11, <2>8 DEF Nonce!Next
  <2> QED BY <2>2, <2>9, <2>10, <2>11 DEF Next
<1> QED BY <1>1, <1>2, TokenInvariant, PTL DEF Spec, ImplementsNonce, Nonce!Spec

=============================================================================
