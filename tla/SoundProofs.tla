------------------------------ MODULE SoundProofs ------------------------------
(***************************************************************************)
(* What holds between the daemon and the sound server.                     *)
(*                                                                         *)
(* AudioRoute: one chain of attempts at most, none after a release, and no *)
(* move against the user's but a reclaim, for any codecs, any limits of    *)
(* the ladder and any number of superseded attempts still queued.          *)
(*                                                                         *)
(* SinkVolume: a duck is bounded by its timer, and the daemon never makes  *)
(* the pods louder than the wearer did, for any percents and any number of *)
(* messages under way.                                                     *)
(*                                                                         *)
(* PulseLink: a lost sound server is always being reconnected to, a flag   *)
(* that is up means a live context, and no wakeup is lost, however many    *)
(* calls the callback has posted.                                          *)
(***************************************************************************)
EXTENDS AudioRoute, SinkVolume, PulseLink, FiniteSetTheorems, TLAPS

-----------------------------------------------------------------------------
\* AudioRoute

Claims == [claimed : BOOLEAN, reclaim : BOOLEAN]

\* Cardinality stated so that a step can use it.
AtMostOne == ladder = {} \/ \E shot \in Attempts : ladder = {shot}

\* What the daemon took in this session it took by the session's claim.
TakenByClaim == taken # "no" => claim.claimed

AudioInv == AudioTypeOK /\ AtMostOne /\ ReleaseStands /\ TakenByClaim

\* A chain never holds more than one attempt, so its size is a number.
LEMMA LadderCounts ==
  ASSUME AtMostOne
  PROVE  Cardinality(ladder) \in 0 .. 1
<1>1. CASE ladder = {}
  BY <1>1, FS_EmptySet
<1>2. CASE \E shot \in Attempts : ladder = {shot}
  BY <1>2, FS_Singleton
<1> QED BY <1>1, <1>2 DEF AtMostOne

\* Before the first link there is no chain and no claim.
LEMMA AudioInitially ==
  ASSUME Init
  PROVE  AudioInv
<1>1. AudioTypeOK
  <2>1. claim \in [claimed : BOOLEAN, reclaim : BOOLEAN]
    BY DEF Init
  <2>2. stale \in 0 .. MaxStale
    BY StaleAssumption DEF Init
  <2> QED BY <2>1, <2>2 DEF Init, AudioTypeOK, Profiles
<1>2. AtMostOne /\ ReleaseStands /\ TakenByClaim
  BY DEF Init, AtMostOne, ReleaseStands, TakenByClaim
<1> QED BY <1>1, <1>2 DEF AudioInv

\* The types a step of the sound server keeps.
ServerOK ==
  /\ offers \subseteq Codecs /\ profile \in Profiles
  /\ {card, capture, podsDefault} \subseteq BOOLEAN

\* What is found of the card is of its types.
LEMMA CardTyped ==
  ASSUME CardIsFound
  PROVE  offers' \subseteq Codecs /\ profile' \in Profiles /\ card' \in BOOLEAN
BY DEF CardIsFound, Profiles

\* A restarted WirePlumber leaves the card as it finds it, or as it was.
LEMMA RestartTyped ==
  ASSUME NEW ok \in BOOLEAN, ServerOK, RestartWirePlumber(ok)
  PROVE  /\ offers' \subseteq Codecs /\ profile' \in Profiles
         /\ {card', capture'} \subseteq BOOLEAN /\ restarted'
<1>1. CASE ok
  BY <1>1, CardTyped DEF RestartWirePlumber, ServerOK
<1>2. CASE ~ok
  BY <1>2 DEF RestartWirePlumber, ServerOK, serverVars, cardVars
<1> QED BY <1>1, <1>2

\* The default sink is taken once a session, or to make good a reclaim.
LEMMA ClaimTyped ==
  ASSUME NEW wanted \in Claims, taken \in {"no", "yes", "moved"}, podsDefault \in BOOLEAN,
         taken # "no" => wanted.claimed,
         ClaimDefaultSink(wanted)
  PROVE  /\ claim' \in Claims /\ podsDefault' \in BOOLEAN
         /\ taken' \in {"no", "yes", "moved"}
         /\ taken' # "no" => claim'.claimed
         /\ taken = "moved" /\ taken' = "yes" => wanted.reclaim
<1>1. CASE /\ (follow /\ ~wanted.claimed) \/ wanted.reclaim
           /\ podsDefault' = TRUE
           /\ claim' = [claimed |-> TRUE, reclaim |-> FALSE]
           /\ taken' = "yes"
  BY <1>1 DEF Claims
<1>2. CASE claim' = wanted /\ UNCHANGED <<podsDefault, taken>>
  BY <1>2
<1> QED BY <1>1, <1>2 DEF ClaimDefaultSink

\* What an activation leaves, whether it succeeds or not.
Left(wanted) ==
  /\ device' \in {"none", "unnamed", "named"}
  /\ restarted' \in BOOLEAN
  /\ offers' \subseteq Codecs /\ profile' \in Profiles
  /\ {card', capture', podsDefault'} \subseteq BOOLEAN
  /\ claim' \in Claims
  /\ taken' \in {"no", "yes", "moved"}
  /\ taken' # "no" => claim'.claimed
  /\ taken = "moved" /\ taken' = "yes" => wanted.reclaim

\* An activation that succeeds keeps the types, and takes the sink back only for a reclaim.
LEMMA ActivatesTyped ==
  ASSUME NEW before \in BOOLEAN, NEW wanted \in Claims, AudioTypeOK,
         taken # "no" => wanted.claimed,
         Activates(before, wanted)
  PROVE  Left(wanted)
<1>1. ServerOK
  BY DEF AudioTypeOK, ServerOK
<1>2. /\ claim' \in Claims /\ podsDefault' \in BOOLEAN
      /\ taken' \in {"no", "yes", "moved"}
      /\ taken' # "no" => claim'.claimed
      /\ taken = "moved" /\ taken' = "yes" => wanted.reclaim
  BY ClaimTyped DEF Activates, AudioTypeOK
<1>3. CASE /\ restarted' = before
           /\ \E best \in Codecs : BestPlaybackProfile(offers, best) /\ profile' = best
           /\ UNCHANGED <<card, offers, capture>>
  BY <1>1, <1>2, <1>3 DEF Activates, Left, ServerOK, Profiles
<1>4. CASE RestartWirePlumber(TRUE)
  BY <1>1, <1>2, <1>4, RestartTyped DEF Activates, Left
<1> QED BY <1>3, <1>4 DEF Activates

\* One that fails keeps them too, and takes nothing.
LEMMA FailureTyped ==
  ASSUME NEW before \in BOOLEAN, NEW wanted \in Claims, AudioTypeOK,
         taken # "no" => wanted.claimed,
         ActivationFails(before, wanted)
  PROVE  Left(wanted)
<1>1. ServerOK
  BY DEF AudioTypeOK, ServerOK
<1>2. claim' = wanted /\ taken' = taken /\ taken \in {"no", "yes", "moved"}
  BY DEF ActivationFails, AudioTypeOK
<1>3. CASE /\ device' \in DeviceNames
           /\ restarted' = before
           /\ UNCHANGED <<serverVars, podsDefault>>
  BY <1>1, <1>2, <1>3 DEF Left, ServerOK, DeviceNames, serverVars, cardVars
<1>4. CASE /\ \E ok \in BOOLEAN : RestartWirePlumber(ok)
           /\ device' = IF card' THEN "named" ELSE "unnamed"
           /\ podsDefault' = (podsDefault /\ HasSink')
  <2>1. podsDefault' \in BOOLEAN /\ device' \in {"unnamed", "named"}
    BY <1>4
  <2> QED BY <1>1, <1>2, <1>4, <2>1, RestartTyped DEF Left
<1> QED BY <1>3, <1>4 DEF ActivationFails

\* An attempt with nothing queued beside it leaves at most one to come.
LEMMA AttemptTyped ==
  ASSUME NEW attempt \in 0 .. MaxAttempts - 1, NEW unanswered \in 0 .. MaxUnanswered - 1,
         NEW before \in BOOLEAN, NEW wanted \in Claims, AudioTypeOK,
         taken # "no" => wanted.claimed,
         AttemptA2dpActivation(attempt, unanswered, before, wanted, {})
  PROVE  Left(wanted) /\ AtMostOne'
<1> PICK answer \in CaptureAnswers :
      \/ /\ answer # "idle"
         /\ LET next == UnansweredChecksAfter(answer, unanswered) IN
            ladder' = {} \cup (IF next >= MaxUnanswered THEN {}
                               ELSE {[attempt |-> attempt, unanswered |-> next]})
         /\ device' \in DeviceNames
         /\ restarted' = before
         /\ claim' = wanted
         /\ UNCHANGED <<serverVars, podsDefault, taken>>
      \/ /\ answer = "idle"
         /\ Activates(before, wanted)
         /\ ladder' = {}
      \/ /\ answer = "idle"
         /\ ActivationFails(before, wanted)
         /\ ladder' = {} \cup (IF attempt + 1 >= MaxAttempts THEN {}
                               ELSE {[attempt |-> attempt + 1, unanswered |-> 0]})
  BY DEF AttemptA2dpActivation
<1>1. CASE answer # "idle"
  <2> DEFINE next == UnansweredChecksAfter(answer, unanswered)
  <2>1. next \in Nat
    BY LimitsAssumption DEF UnansweredChecksAfter
  <2>2. ladder' = IF next >= MaxUnanswered THEN {}
                  ELSE {[attempt |-> attempt, unanswered |-> next]}
    BY <1>1
  <2>3. next < MaxUnanswered => [attempt |-> attempt, unanswered |-> next] \in Attempts
    BY <2>1, LimitsAssumption DEF Attempts
  <2> HIDE DEF next
  <2>4. AtMostOne'
    BY <2>1, <2>2, <2>3, LimitsAssumption DEF AtMostOne
  <2>5. Left(wanted)
    BY <1>1 DEF Left, AudioTypeOK, DeviceNames, serverVars, cardVars
  <2> QED BY <2>4, <2>5
<1>2. CASE Activates(before, wanted) /\ ladder' = {}
  BY <1>2, ActivatesTyped DEF AtMostOne
<1>3. CASE /\ ActivationFails(before, wanted)
           /\ ladder' = IF attempt + 1 >= MaxAttempts THEN {}
                        ELSE {[attempt |-> attempt + 1, unanswered |-> 0]}
  <2>1. attempt + 1 < MaxAttempts
          => [attempt |-> attempt + 1, unanswered |-> 0] \in Attempts
    BY LimitsAssumption DEF Attempts
  <2>2. AtMostOne'
    BY <1>3, <2>1, LimitsAssumption DEF AtMostOne
  <2> QED BY <1>3, <2>2, FailureTyped
<1> QED BY <1>1, <1>2, <1>3

\* A chain that starts supersedes the one in flight, which is one attempt at most.
LEMMA SupersedeTyped ==
  ASSUME stale \in 0 .. MaxStale, AtMostOne, Supersede
  PROVE  stale' \in 0 .. MaxStale
BY LadderCounts, StaleAssumption DEF Supersede

\* A start leaves at most one attempt to come, and the pods asked for.
LEMMA StartTyped ==
  ASSUME AudioInv, NEW wanted \in Claims, taken # "no" => wanted.claimed,
         ActivateA2dpProfileWithRetry(wanted)
  PROVE  Left(wanted) /\ AtMostOne' /\ stale' \in 0 .. MaxStale /\ ~released'
<1>1. 0 \in 0 .. MaxAttempts - 1 /\ 0 \in 0 .. MaxUnanswered - 1
  BY LimitsAssumption
<1>2. Left(wanted) /\ AtMostOne'
  BY <1>1, AttemptTyped DEF AudioInv, ActivateA2dpProfileWithRetry
<1>3. stale' \in 0 .. MaxStale
  BY SupersedeTyped DEF AudioInv, AudioTypeOK, ActivateA2dpProfileWithRetry
<1> QED BY <1>2, <1>3 DEF ActivateA2dpProfileWithRetry

\* What a start leaves, with the rest of the state typed, is the invariant again.
LEMMA StartKeeps ==
  ASSUME AudioInv, NEW wanted \in Claims, taken # "no" => wanted.claimed,
         ActivateA2dpProfileWithRetry(wanted),
         link' \in {"over", "connecting", "recovering", "open"},
         {follow', heldThen', lateConnect', lateWake'} \subseteq BOOLEAN
  PROVE  AudioInv' /\ (taken = "moved" /\ taken' = "yes" => wanted.reclaim)
<1>1. Left(wanted) /\ AtMostOne' /\ stale' \in 0 .. MaxStale /\ ~released'
  BY StartTyped
<1>2. ladder' \subseteq Attempts
  BY <1>1 DEF AtMostOne
<1>3. released' \in BOOLEAN
  BY DEF ActivateA2dpProfileWithRetry
<1>4. AudioTypeOK'
  BY <1>1, <1>2, <1>3 DEF Left, Claims, AudioTypeOK
<1>5. ReleaseStands' /\ TakenByClaim'
  BY <1>1 DEF Left, ReleaseStands, TakenByClaim
<1>6. taken = "moved" /\ taken' = "yes" => wanted.reclaim
  BY <1>1 DEF Left
<1> QED BY <1>1, <1>4, <1>5, <1>6 DEF AudioInv

\* A release leaves no attempt of the current generation.
LEMMA CancelKeeps ==
  ASSUME AudioInv, CancelPendingA2dpActivation
  PROVE  /\ ladder' = {} /\ stale' \in 0 .. MaxStale /\ released' = TRUE
         /\ AtMostOne' /\ ReleaseStands'
BY SupersedeTyped DEF AudioInv, AudioTypeOK, CancelPendingA2dpActivation, AtMostOne, ReleaseStands

\* The steps that start a chain.
LEMMA AskedKeeps ==
  ASSUME AudioInv, Asked
  PROVE  /\ AudioInv'
         /\ taken = "moved" /\ taken' = "yes" => claim.reclaim \/ Resumed
<1> claim \in Claims /\ (taken # "no" => claim.claimed)
  BY DEF AudioInv, AudioTypeOK, TakenByClaim, Claims
<1> USE DEF linkVars
<1>1. CASE InEarReported
  BY <1>1, StartKeeps DEF InEarReported, AudioInv, AudioTypeOK
<1>2. CASE MediaClaims
  BY <1>2, StartKeeps DEF MediaClaims, AudioInv, AudioTypeOK
<1>3. CASE Resumed
  <2>1. CASE device = "none"
    <3>1. /\ claim' \in Claims /\ claim'.claimed = claim.claimed
          /\ taken' = taken /\ ladder' = ladder /\ released' = released
      BY <1>3, <2>1 DEF Resumed, Claims, chainVars
    <3>2. AudioTypeOK'
      BY <1>3, <2>1, <3>1
         DEF Resumed, Claims, chainVars, serverVars, cardVars, AudioInv, AudioTypeOK
    <3>3. AtMostOne' /\ ReleaseStands' /\ TakenByClaim'
      BY <3>1 DEF AudioInv, AtMostOne, ReleaseStands, TakenByClaim
    <3> QED BY <1>3, <3>2, <3>3 DEF AudioInv
  <2>2. CASE device # "none"
    <3> DEFINE wanted == [claim EXCEPT !.reclaim = @ \/ heldThen]
    <3>1. wanted \in Claims /\ wanted.claimed = claim.claimed
      BY DEF Claims, AudioInv, AudioTypeOK
    <3> HIDE DEF wanted
    <3>2. ActivateA2dpProfileWithRetry(wanted)
      BY <1>3, <2>2 DEF Resumed, wanted
    <3>3. AudioInv'
      BY <1>3, <3>1, <3>2, StartKeeps DEF Resumed, AudioInv, AudioTypeOK
    <3> QED BY <1>3, <3>3
  <2> QED BY <2>1, <2>2
<1>4. CASE ControlRecovered
  BY <1>4, StartKeeps DEF ControlRecovered, AudioInv, AudioTypeOK
<1>5. CASE LateConnectShot
  BY <1>5, StartKeeps DEF LateConnectShot, AudioInv, AudioTypeOK
<1>6. CASE LateWakeShot
  <2>1. CASE link = "over"
    <3>1. taken' = taken /\ claim' = claim /\ ladder' = ladder /\ released' = released
      BY <1>6, <2>1 DEF LateWakeShot, chainVars, claimVars
    <3>2. AudioTypeOK'
      BY <1>6, <2>1
         DEF LateWakeShot, chainVars, claimVars, serverVars, cardVars, AudioInv, AudioTypeOK
    <3>3. AtMostOne' /\ ReleaseStands' /\ TakenByClaim'
      BY <3>1 DEF AudioInv, AtMostOne, ReleaseStands, TakenByClaim
    <3> QED BY <3>1, <3>2, <3>3 DEF AudioInv
  <2>2. CASE link # "over"
    BY <1>6, <2>2, StartKeeps DEF LateWakeShot, AudioInv, AudioTypeOK
  <2> QED BY <2>1, <2>2
<1> QED BY <1>1, <1>2, <1>3, <1>4, <1>5, <1>6 DEF Asked

\* A queued attempt comes due with nothing beside it, and never after a release.
LEMMA RetryKeeps ==
  ASSUME AudioInv, RetryShot
  PROVE  /\ AudioInv'
         /\ taken = "moved" /\ taken' = "yes" => claim.reclaim
<1>1. PICK shot \in ladder :
        /\ AttemptA2dpActivation(shot.attempt, shot.unanswered, restarted, claim, ladder \ {shot})
        /\ UNCHANGED <<stale, linkVars, follow, heldThen, released>>
  BY DEF RetryShot
<1>2. ladder = {shot} /\ shot \in Attempts /\ ~released
  BY <1>1 DEF AudioInv, AtMostOne, ReleaseStands, AudioTypeOK
<1>3. ladder \ {shot} = {}
  BY <1>2
<1>4. /\ shot.attempt \in 0 .. MaxAttempts - 1 /\ shot.unanswered \in 0 .. MaxUnanswered - 1
      /\ restarted \in BOOLEAN /\ claim \in Claims
      /\ taken # "no" => claim.claimed
  BY <1>2 DEF Attempts, Claims, AudioInv, AudioTypeOK, TakenByClaim
<1>5. AttemptA2dpActivation(shot.attempt, shot.unanswered, restarted, claim, {})
  BY <1>1, <1>3
<1>6. Left(claim) /\ AtMostOne'
  BY <1>4, <1>5, AttemptTyped DEF AudioInv
<1>7. ladder' \subseteq Attempts
  BY <1>6 DEF AtMostOne
<1>8. AudioTypeOK'
  BY <1>1, <1>6, <1>7 DEF linkVars, Left, Claims, AudioInv, AudioTypeOK
<1>9. ReleaseStands' /\ TakenByClaim'
  BY <1>1, <1>2, <1>6 DEF Left, ReleaseStands, TakenByClaim
<1> QED BY <1>6, <1>8, <1>9 DEF AudioInv, Left

\* The link goes, recovered or torn down with its claim.
LEMMA GoneKeeps ==
  ASSUME LinkGoes, claim \in Claims, taken \in {"no", "yes", "moved"}, TakenByClaim
  PROVE  /\ link' \in {"over", "recovering"} /\ claim' \in Claims
         /\ taken' \in {taken, "no"} /\ TakenByClaim'
<1>1. CASE link' = "recovering" /\ UNCHANGED <<claim, taken>>
  BY <1>1 DEF TakenByClaim
<1>2. CASE link' = "over" /\ claim' = [claim EXCEPT !.claimed = FALSE] /\ taken' = "no"
  BY <1>2 DEF Claims, TakenByClaim
<1> QED BY <1>1, <1>2 DEF LinkGoes

\* No other step leaves a chain to come, or moves the sound to the pods but by the user's hand.
LEMMA RestKeeps ==
  ASSUME AudioInv, Next, ~Asked, ~RetryShot
  PROVE  AudioInv' /\ (taken = "moved" /\ taken' = "yes" => PodsSelected)
<1> claim \in Claims /\ TakenByClaim /\ taken \in {"no", "yes", "moved"}
  BY DEF AudioInv, AudioTypeOK, Claims
<1> USE DEF linkVars, chainVars, claimVars, serverVars, cardVars
<1> DEFINE Keeps == UNCHANGED <<ladder, released, claim, taken>>
<1>1. ASSUME Keeps, AudioTypeOK'
      PROVE  AudioInv' /\ (taken = "moved" /\ taken' = "yes" => PodsSelected)
  BY <1>1 DEF AudioInv, AtMostOne, ReleaseStands, TakenByClaim
<1>2. CASE StaleShot
  <2>1. Keeps
    BY <1>2 DEF StaleShot
  <2>2. AudioTypeOK'
    BY <1>2, StaleAssumption DEF StaleShot, AudioInv, AudioTypeOK
  <2> QED BY <1>1, <2>1, <2>2
<1>3. CASE MetadataReceived
  BY <1>1, <1>3 DEF MetadataReceived, DeviceNames, AudioInv, AudioTypeOK
<1>4. CASE Interrupted
  BY <1>1, <1>4 DEF Interrupted, AudioInv, AudioTypeOK
<1>5. CASE RemoveAudioOutputDevice
  <2>1. ladder' = {} /\ stale' \in 0 .. MaxStale /\ released' = TRUE /\ AtMostOne' /\ ReleaseStands'
    BY <1>5, CancelKeeps DEF RemoveAudioOutputDevice
  <2>2. profile' \in Profiles /\ podsDefault' \in BOOLEAN
    BY <1>5 DEF RemoveAudioOutputDevice, Profiles, AudioInv, AudioTypeOK
  <2>3. AudioTypeOK'
    BY <1>5, <2>1, <2>2 DEF RemoveAudioOutputDevice, AudioInv, AudioTypeOK
  <2> QED BY <1>5, <2>1, <2>3 DEF RemoveAudioOutputDevice, AudioInv, TakenByClaim
<1>6. CASE SetFollowOnConnect
  BY <1>1, <1>6 DEF SetFollowOnConnect, AudioInv, AudioTypeOK
<1>7. CASE BluezConnected
  BY <1>1, <1>7 DEF BluezConnected, AudioInv, AudioTypeOK
<1>8. CASE ControlConnected
  BY <1>1, <1>8 DEF ControlConnected, AudioInv, AudioTypeOK
<1>9. CASE ControlLost
  <2>1. link' \in {"over", "recovering"} /\ claim' \in Claims
        /\ taken' \in {taken, "no"} /\ TakenByClaim'
    BY <1>9, GoneKeeps DEF ControlLost
  <2>2. AudioTypeOK'
    BY <1>9, <2>1 DEF ControlLost, Claims, AudioInv, AudioTypeOK
  <2>3. AtMostOne' /\ ReleaseStands'
    BY <1>9 DEF ControlLost, AudioInv, AtMostOne, ReleaseStands
  <2> QED BY <2>1, <2>2, <2>3 DEF AudioInv
<1>10. CASE OnDeviceDisconnected
  <2>1. link' \in {"over", "recovering"} /\ claim' \in Claims
        /\ taken' \in {taken, "no"} /\ TakenByClaim'
    BY <1>10, GoneKeeps DEF OnDeviceDisconnected
  <2>2. ladder' = {} /\ stale' \in 0 .. MaxStale /\ released' = TRUE /\ AtMostOne' /\ ReleaseStands'
    BY <1>10, CancelKeeps DEF OnDeviceDisconnected
  <2>3. AudioTypeOK'
    BY <1>10, <2>1, <2>2 DEF OnDeviceDisconnected, Claims, AudioInv, AudioTypeOK
  <2> QED BY <2>1, <2>2, <2>3 DEF AudioInv
<1>11. CASE WatchdogRetries
  BY <1>1, <1>11 DEF WatchdogRetries, AudioInv, AudioTypeOK
<1>12. CASE WokenUp
  BY <1>1, <1>12 DEF WokenUp, AudioInv, AudioTypeOK
<1>13. CASE CardChanges
  <2>1. Keeps /\ podsDefault' \in BOOLEAN
    BY <1>13 DEF CardChanges
  <2>2. AudioTypeOK'
    BY <1>13, <2>1, CardTyped DEF CardChanges, AudioInv, AudioTypeOK
  <2> QED BY <1>1, <2>1, <2>2
<1>14. CASE CaptureChanges
  BY <1>1, <1>14 DEF CaptureChanges, AudioInv, AudioTypeOK
<1>15. CASE PodsSelected
  BY <1>15 DEF PodsSelected, AudioInv, AudioTypeOK, AtMostOne, ReleaseStands, TakenByClaim
<1>16. CASE OtherSelected
  BY <1>16 DEF OtherSelected, AudioInv, AudioTypeOK, AtMostOne, ReleaseStands, TakenByClaim
<1> QED BY <1>2, <1>3, <1>4, <1>5, <1>6, <1>7, <1>8, <1>9, <1>10, <1>11, <1>12, <1>13, <1>14,
           <1>15, <1>16 DEF Next

\* A step that changes nothing.
LEMMA Stutters ==
  ASSUME AudioInv, UNCHANGED vars
  PROVE  AudioInv' /\ taken' = taken
BY DEF vars, linkVars, chainVars, claimVars, serverVars, cardVars, AudioInv, AudioTypeOK, AtMostOne,
       ReleaseStands, TakenByClaim, Attempts, Profiles

\* What every step may do about the user's move.
UserMoveStep == taken = "moved" /\ taken' = "yes" /\ ~PodsSelected => claim.reclaim \/ Resumed

\* Every step keeps the invariant, and the user's move but for a reclaim.
LEMMA AudioInductive ==
  ASSUME AudioInv, [Next]_vars
  PROVE  AudioInv' /\ [UserMoveStep]_vars
<1>1. CASE Asked
  BY <1>1, AskedKeeps DEF UserMoveStep
<1>2. CASE RetryShot
  BY <1>2, RetryKeeps DEF UserMoveStep
<1>3. CASE Next /\ ~Asked /\ ~RetryShot
  BY <1>3, RestKeeps DEF UserMoveStep
<1>4. CASE UNCHANGED vars
  BY <1>4, Stutters
<1> QED BY <1>1, <1>2, <1>3, <1>4

\* The inductive invariant holds throughout (mediacontroller.cpp, main.cpp).
THEOREM AudioInvariant == Spec => []AudioInv
<1>1. Init => AudioInv
  BY AudioInitially
<1>2. AudioInv /\ [Next]_vars => AudioInv'
  BY AudioInductive
<1> QED BY <1>1, <1>2, PTL DEF Spec

-----------------------------------------------------------------------------

\* Every variable keeps its type (mediacontroller.cpp's ladder, its claims and main.cpp's link).
THEOREM AudioTypeCorrect == Spec => []AudioTypeOK
<1>1. AudioInv => AudioTypeOK
  BY DEF AudioInv
<1> QED BY <1>1, AudioInvariant, PTL

\* One chain of attempts at most is in flight (mediacontroller.cpp activateA2dpProfileWithRetry).
THEOREM OneLadderOnly == Spec => []OneLadder
<1>1. AudioInv => OneLadder
  BY LadderCounts DEF AudioInv, OneLadder
<1> QED BY <1>1, AudioInvariant, PTL

\* After a release no attempt is left (mediacontroller.cpp cancelPendingA2dpActivation).
THEOREM ReleaseIsFinal == Spec => []ReleaseStands
<1>1. AudioInv => ReleaseStands
  BY DEF AudioInv
<1> QED BY <1>1, AudioInvariant, PTL

\* The sound is moved back against the user's move only to make good a reclaim
\* (mediacontroller.cpp activateA2dpProfile).
THEOREM UserMoveIsKept == Spec => UserMoveStands
<1>1. AudioInv /\ [Next]_vars => [UserMoveStep]_vars
  BY AudioInductive
<1>2. Spec => [][UserMoveStep]_vars
  BY <1>1, AudioInvariant, PTL DEF Spec
<1> QED BY <1>2, PTL DEF UserMoveStands, UserMoveStep

-----------------------------------------------------------------------------
\* SinkVolume

\* The highest percent that rounding makes of the percents up to one.
Cap(percent) == IF Snapped(percent) > percent THEN Snapped(percent) ELSE percent

\* Rounding adds two percent at most.
LEMMA CapRounds ==
  ASSUME NEW percent \in Percents
  PROVE  Cap(percent) \in Percents /\ Cap(percent) <= percent + 2 /\ percent <= Cap(percent)
BY DEF Cap, Snapped, SnapToGrid, Percents

\* What a higher percent may become is no lower.
LEMMA CapGrows ==
  ASSUME NEW p \in Percents, NEW q \in Percents, p <= q
  PROVE  Cap(p) <= Cap(q)
BY DEF Cap, Snapped, SnapToGrid, Percents

\* The snap of what is under the cap is under it: the grid's next step up is the cap itself.
LEMMA SnapsUnderCap ==
  ASSUME NEW p \in Percents, NEW q \in 0 .. Cap(p)
  PROVE  Snapped(q) \in 0 .. Cap(p)
BY DEF Cap, Snapped, SnapToGrid, Percents

\* So is the fifth that a duck sets.
LEMMA DucksUnderCap ==
  ASSUME NEW p \in Percents, NEW q \in 0 .. Cap(p)
  PROVE  Snapped(q \div 5) \in 0 .. Cap(p)
BY DEF Cap, Snapped, SnapToGrid, Percents

\* The conversions truncate, and keep the order.
LEMMA VolumeGrows ==
  ASSUME NEW p \in Percents, NEW q \in 0 .. 102, p <= q
  PROVE  ToVolume(p) <= ToVolume(q)
BY DEF ToVolume, Norm, Percents

\* No percent is more than the server's full volume.
LEMMA VolumeInRange ==
  ASSUME NEW p \in Percents
  PROVE  Norm \in Nat /\ ToVolume(p) \in Nat /\ ToVolume(p) <= Norm
BY DEF ToVolume, Norm, Percents

\* What is read back is not above what was set, since both ways truncate.
LEMMA ReadsBack ==
  ASSUME NEW p \in Percents, NEW level \in 0 .. ToVolume(p)
  PROVE  ToPercent(level) \in 0 .. p
BY DEF ToVolume, ToPercent, Norm, Percents

\* What may lie on the connection while nothing is above cap percent.
RequestsUpTo(cap) == [op : {"set", "info"}, by : {"main", "snap"}, percent : 0 .. cap]
AnswersUpTo(cap) == {Changed} \cup 0 .. ToVolume(cap)

BoundedBy(cap) ==
  /\ volume \in 0 .. ToVolume(cap)
  /\ saved \in {None} \cup 0 .. cap
  /\ toServer \in Seq(RequestsUpTo(cap))
  /\ fromServer \in Seq(AnswersUpTo(cap))

\* No step of the daemon raises what is bounded: each sets at most what has been read, saved or
\* sent under the cap.
VolumeInv ==
  /\ VolumeTypeOK
  /\ DuckIsBounded
  /\ BoundedBy(Cap(loudest))

\* What may lie on the connection under a cap is of the model's types.
LEMMA MessagesInRange ==
  ASSUME NEW cap \in Percents
  PROVE  /\ Info \in RequestsUpTo(cap)
         /\ \A by \in {"main", "snap"}, percent \in 0 .. cap :
              Set(by, percent) \in RequestsUpTo(cap)
         /\ RequestsUpTo(cap)
              \subseteq [op : {"set", "info"}, by : {"main", "snap"}, percent : Percents]
         /\ AnswersUpTo(cap) \subseteq {Changed} \cup 0 .. Norm
         /\ Changed \in AnswersUpTo(cap)
         /\ 0 .. cap \subseteq Percents
<1>1. Info \in RequestsUpTo(cap)
  BY DEF Info, RequestsUpTo, Percents
<1>2. ASSUME NEW by \in {"main", "snap"}, NEW percent \in 0 .. cap
      PROVE  Set(by, percent) \in RequestsUpTo(cap)
  BY DEF Set, RequestsUpTo
<1>3. RequestsUpTo(cap) \subseteq [op : {"set", "info"}, by : {"main", "snap"}, percent : Percents]
  BY DEF RequestsUpTo, Percents
<1>4. AnswersUpTo(cap) \subseteq {Changed} \cup 0 .. Norm
  BY VolumeInRange DEF AnswersUpTo
<1>5. 0 .. cap \subseteq Percents
  BY DEF Percents
<1>6. QED
  BY <1>1, <1>2, <1>3, <1>4, <1>5 DEF AnswersUpTo

\* A higher cap bounds what a lower one did.
LEMMA BoundsGrow ==
  ASSUME NEW p \in Percents, NEW q \in Percents, p <= q, BoundedBy(p)
  PROVE  BoundedBy(q)
<1>1. ToVolume(p) <= ToVolume(q) /\ ToVolume(p) \in Int /\ ToVolume(q) \in Int
  <2>1. q \in 0 .. 102
    BY DEF Percents
  <2>2. ToVolume(p) <= ToVolume(q)
    BY <2>1, VolumeGrows
  <2>3. QED
    BY <2>2, VolumeInRange
<1>2. RequestsUpTo(p) \subseteq RequestsUpTo(q)
  BY DEF RequestsUpTo, Percents
<1>3. AnswersUpTo(p) \subseteq AnswersUpTo(q)
  BY <1>1 DEF AnswersUpTo
<1>4. toServer \in Seq(RequestsUpTo(q))
  BY <1>2 DEF BoundedBy
<1>5. fromServer \in Seq(AnswersUpTo(q))
  BY <1>3 DEF BoundedBy
<1>6. volume \in 0 .. ToVolume(q) /\ saved \in {None} \cup 0 .. q
  BY <1>1 DEF BoundedBy, Percents, None
<1>7. QED
  BY <1>4, <1>5, <1>6 DEF BoundedBy

\* A handler of the main thread sets one of these percents, or nothing.
SetOrNot(percents) == NoSet \/ \E percent \in percents : SetSinkVolume(percent)

\* A handler that sets a percent under the cap, or none, keeps what it sends under it.
LEMMA SetsBounded ==
  ASSUME VolumeTypeOK, NEW cap \in Percents, BoundedBy(cap), SetOrNot(0 .. cap)
  PROVE  /\ toServer' \in Seq(RequestsUpTo(cap))
         /\ expected' \in {None} \cup Percents
         /\ Len(toServer') <= Len(toServer) + 1
<1>1. CASE NoSet
  <2>1. Len(toServer) \in Nat
    BY DEF VolumeTypeOK
  <2>2. QED
    BY <1>1, <2>1 DEF NoSet, VolumeTypeOK, BoundedBy
<1>2. ASSUME NEW percent \in 0 .. cap, SetSinkVolume(percent)
      PROVE  /\ toServer' \in Seq(RequestsUpTo(cap))
             /\ expected' \in {None} \cup Percents
             /\ Len(toServer') <= Len(toServer) + 1
  <2>1. Set("main", percent) \in RequestsUpTo(cap)
    BY MessagesInRange
  <2>2. toServer' = Append(toServer, Set("main", percent))
    BY <1>2 DEF SetSinkVolume
  <2>3. toServer' \in Seq(RequestsUpTo(cap)) /\ Len(toServer') = Len(toServer) + 1
    BY <2>1, <2>2 DEF BoundedBy
  <2>4. percent \in Percents /\ expected \in {None} \cup Percents
    BY DEF Percents, VolumeTypeOK
  <2>5. expected' \in {None} \cup Percents
    BY <1>2, <2>4 DEF SetSinkVolume
  <2>6. Len(toServer) \in Nat
    BY DEF VolumeTypeOK
  <2>7. QED
    BY <2>3, <2>5, <2>6
<1>3. QED
  BY <1>1, <1>2 DEF SetOrNot

\* A duck saves and sets no more than the pods have.
LEMMA DuckSetsLess ==
  ASSUME VolumeTypeOK, BoundedBy(Cap(loudest)), DuckForConversation
  PROVE  saved' \in {None} \cup 0 .. Cap(loudest) /\ SetOrNot(0 .. Cap(loudest))
<1>1. loudest \in Percents /\ saved \in {None} \cup 0 .. Cap(loudest)
  BY DEF VolumeTypeOK, BoundedBy
<1>2. ToPercent(volume) \in 0 .. Cap(loudest)
  BY <1>1, CapRounds, ReadsBack DEF BoundedBy
<1>3. saved' \in {None} \cup 0 .. Cap(loudest)
  BY <1>1, <1>2 DEF DuckForConversation
<1>4. saved' # None => Snapped(saved' \div 5) \in 0 .. Cap(loudest)
  BY <1>1, <1>3, DucksUnderCap
<1>5. QED
  BY <1>3, <1>4 DEF DuckForConversation, SetOrNot

\* A restore sets what was saved.
LEMMA RestoreSetsSaved ==
  ASSUME BoundedBy(Cap(loudest)), RestoreAfterConversation
  PROVE  saved' = None /\ SetOrNot(0 .. Cap(loudest))
BY DEF BoundedBy, RestoreAfterConversation, SetOrNot

\* What a step has to show: most of the types follow from the bounds.
LEMMA StepKeeps ==
  ASSUME VolumeInv, loudest' \in Percents,
         {ducked', restoreTimer', snapping', onPods'} \subseteq BOOLEAN,
         expected' \in {None} \cup Percents,
         DuckIsBounded',
         BoundedBy(Cap(loudest))',
         Len(toServer') + Len(fromServer') <= MaxQueue
  PROVE  VolumeInv'
<1> DEFINE cap == Cap(loudest')
<1>1. cap \in Percents
  BY CapRounds
<1>2. toServer' \in Seq(RequestsUpTo(cap)) /\ fromServer' \in Seq(AnswersUpTo(cap))
  BY <1>1 DEF BoundedBy
<1>3. toServer' \in Seq([op : {"set", "info"}, by : {"main", "snap"}, percent : Percents])
  <2> DEFINE messages == [op : {"set", "info"}, by : {"main", "snap"}, percent : Percents]
  <2>1. RequestsUpTo(cap) \subseteq messages
    BY <1>1, MessagesInRange
  <2> HIDE DEF messages
  <2>2. toServer' \in Seq(messages)
    BY <1>2, <2>1
  <2>3. QED
    BY <2>2 DEF messages
<1>4. fromServer' \in Seq({Changed} \cup 0 .. Norm)
  BY <1>1, <1>2, MessagesInRange
<1>5. volume' \in 0 .. Norm
  BY <1>1, VolumeInRange DEF BoundedBy
<1>6. saved' \in {None} \cup Percents
  <2>1. 0 .. cap \subseteq Percents
    BY <1>1, MessagesInRange
  <2>2. QED
    BY <2>1 DEF BoundedBy
<1>7. VolumeTypeOK'
  BY <1>1, <1>3, <1>4, <1>5, <1>6 DEF VolumeTypeOK
<1>8. QED
  BY <1>7 DEF VolumeInv

\* At first the pods are as loud as the wearer has made them.
LEMMA VolumeInitially == VolumeInit => VolumeInv
<1> SUFFICES ASSUME VolumeInit PROVE VolumeInv
  OBVIOUS
<1>1. loudest \in Percents /\ volume = ToVolume(loudest)
  BY PercentsAssumption DEF VolumeInit
<1>2. loudest <= Cap(loudest) /\ Cap(loudest) \in Percents
  BY <1>1, CapRounds
<1>3. volume \in 0 .. Norm
  BY <1>1, VolumeInRange
<1>4. volume \in 0 .. ToVolume(Cap(loudest))
  <2>1. Cap(loudest) \in 0 .. 102
    BY <1>2 DEF Percents
  <2>2. QED
    BY <1>1, <1>2, <2>1, VolumeGrows, VolumeInRange
<1>5. toServer = <<>> /\ fromServer = <<>> /\ MaxQueue \in Nat
  BY QueueAssumption DEF VolumeInit
<1>6. VolumeTypeOK
  <2>1. toServer \in Seq([op : {"set", "info"}, by : {"main", "snap"}, percent : Percents])
    BY <1>5
  <2>2. fromServer \in Seq({Changed} \cup 0 .. Norm) /\ Len(toServer) + Len(fromServer) <= MaxQueue
    BY <1>5
  <2>3. {saved, expected} \subseteq {None} \cup Percents
    BY DEF VolumeInit
  <2>4. {ducked, restoreTimer, snapping, onPods} \subseteq BOOLEAN
    BY DEF VolumeInit
  <2>5. QED
    BY <1>1, <1>3, <2>1, <2>2, <2>3, <2>4 DEF VolumeTypeOK
<1>7. BoundedBy(Cap(loudest))
  BY <1>4, <1>5 DEF VolumeInit, BoundedBy
<1>8. DuckIsBounded
  BY DEF VolumeInit, DuckIsBounded
<1>9. QED
  BY <1>6, <1>7, <1>8 DEF VolumeInv

\* Every step keeps the bounds; only the wearer's own set raises the cap.
LEMMA VolumeInductive == VolumeInv /\ [VolumeNext]_volumeVars => VolumeInv'
<1> SUFFICES ASSUME VolumeInv, [VolumeNext]_volumeVars
             PROVE  VolumeInv'
  OBVIOUS
<1> DEFINE cap == Cap(loudest)
<1>a. /\ VolumeTypeOK /\ DuckIsBounded /\ BoundedBy(cap)
      /\ loudest \in Percents /\ cap \in Percents /\ loudest <= cap
  BY CapRounds DEF VolumeInv, VolumeTypeOK
<1>b. /\ Len(toServer) \in Nat /\ Len(fromServer) \in Nat
      /\ Len(toServer) + Len(fromServer) <= MaxQueue /\ MaxQueue \in Nat
      /\ expected \in {None} \cup Percents
      /\ {ducked, restoreTimer, snapping, onPods} \subseteq BOOLEAN
  BY <1>a, QueueAssumption DEF VolumeTypeOK
<1>c. /\ toServer \in Seq(RequestsUpTo(cap)) /\ fromServer \in Seq(AnswersUpTo(cap))
      /\ volume \in 0 .. ToVolume(cap) /\ saved \in {None} \cup 0 .. cap
  BY <1>a DEF BoundedBy
\* A step of the main thread that sets a percent under the cap, or sets nothing
<1>d. ASSUME SetOrNot(0 .. cap), Room, saved' \in {None} \cup 0 .. cap,
             UNCHANGED <<snapping, onPods, volume, fromServer, loudest>>,
             {ducked', restoreTimer'} \subseteq BOOLEAN,
             DuckIsBounded'
      PROVE  VolumeInv'
  <2>1. /\ toServer' \in Seq(RequestsUpTo(cap)) /\ expected' \in {None} \cup Percents
        /\ Len(toServer') <= Len(toServer) + 1 /\ Len(toServer') \in Nat
    <3>1. toServer' \in Seq(RequestsUpTo(cap)) /\ expected' \in {None} \cup Percents
          /\ Len(toServer') <= Len(toServer) + 1
      BY <1>a, <1>d, SetsBounded
    <3>2. QED
      BY <3>1
  <2>2. Len(toServer') + Len(fromServer') <= MaxQueue
    BY <1>b, <1>d, <2>1 DEF Room
  <2>3. BoundedBy(Cap(loudest))'
    BY <1>c, <1>d, <2>1 DEF BoundedBy
  <2>4. {ducked', restoreTimer', snapping', onPods'} \subseteq BOOLEAN
    BY <1>b, <1>d
  <2>5. QED
    BY <1>a, <1>d, <2>1, <2>2, <2>3, <2>4, StepKeeps
<1>1. ASSUME Speaking PROVE VolumeInv'
  <2>1. saved' \in {None} \cup 0 .. cap /\ SetOrNot(0 .. cap)
    BY <1>1, <1>a, DuckSetsLess DEF Speaking
  <2>2. DuckIsBounded' /\ {ducked', restoreTimer'} \subseteq BOOLEAN
    BY <1>1 DEF Speaking, DuckIsBounded
  <2>3. QED
    BY <1>1, <1>d, <2>1, <2>2 DEF Speaking, Serviced
<1>2. ASSUME Quiet PROVE VolumeInv'
  <2>1. saved' = None /\ SetOrNot(0 .. cap)
    BY <1>2, <1>a, RestoreSetsSaved DEF Quiet
  <2>2. DuckIsBounded' /\ {ducked', restoreTimer'} \subseteq BOOLEAN
    BY <1>2, <2>1 DEF Quiet, DuckIsBounded
  <2>3. QED
    BY <1>2, <1>d, <2>1, <2>2 DEF Quiet
<1>3. ASSUME RestoreTimeout PROVE VolumeInv'
  <2>1. ducked
    BY <1>3, <1>a DEF RestoreTimeout, DuckIsBounded
  <2>2. saved' = None /\ SetOrNot(0 .. cap)
    BY <1>3, <1>a, <2>1, RestoreSetsSaved DEF RestoreTimeout
  <2>3. DuckIsBounded' /\ {ducked', restoreTimer'} \subseteq BOOLEAN
    BY <1>3, <2>2 DEF RestoreTimeout, DuckIsBounded
  <2>4. QED
    BY <1>3, <1>d, <2>2, <2>3 DEF RestoreTimeout
\* A step that leaves the tracker alone keeps DuckIsBounded.
<1>e. ASSUME UNCHANGED trackerVars, UNCHANGED loudest,
             expected' \in {None} \cup Percents, {snapping', onPods'} \subseteq BOOLEAN,
             volume' \in 0 .. ToVolume(cap),
             toServer' \in Seq(RequestsUpTo(cap)), fromServer' \in Seq(AnswersUpTo(cap)),
             Len(toServer') + Len(fromServer') <= MaxQueue
      PROVE  VolumeInv'
  <2>1. DuckIsBounded'
    BY <1>a, <1>e DEF DuckIsBounded, trackerVars
  <2>2. BoundedBy(Cap(loudest))'
    BY <1>c, <1>e DEF BoundedBy, trackerVars
  <2>3. {ducked', restoreTimer', snapping', onPods'} \subseteq BOOLEAN
    BY <1>b, <1>e DEF trackerVars
  <2>4. QED
    BY <1>a, <1>e, <2>1, <2>2, <2>3, StepKeeps
<1>4. ASSUME EnableVolumeSnap PROVE VolumeInv'
  BY <1>4, <1>b, <1>c, <1>e DEF EnableVolumeSnap
<1>5. ASSUME SubscribeCallback PROVE VolumeInv'
  <2>1. fromServer' \in Seq(AnswersUpTo(cap)) /\ Len(fromServer') = Len(fromServer) - 1
    BY <1>5, <1>c DEF SubscribeCallback
  <2>2. Info \in RequestsUpTo(cap)
    BY <1>a, MessagesInRange
  <2>3. toServer' \in Seq(RequestsUpTo(cap)) /\ Len(toServer') <= Len(toServer) + 1
        /\ Len(toServer') \in Nat
    BY <1>5, <1>b, <1>c, <2>2 DEF SubscribeCallback
  <2>4. Len(toServer') + Len(fromServer') <= MaxQueue
    BY <1>b, <2>1, <2>3
  <2>5. QED
    BY <1>5, <1>b, <1>c, <1>e, <2>1, <2>3, <2>4 DEF SubscribeCallback
<1>6. ASSUME SnapSinkInfoCallback PROVE VolumeInv'
  <2> DEFINE percent == ToPercent(Head(fromServer))
  <2>1. fromServer' \in Seq(AnswersUpTo(cap)) /\ Len(fromServer') = Len(fromServer) - 1
    BY <1>6, <1>c DEF SnapSinkInfoCallback
  <2>2. percent \in 0 .. cap
    <3>1. Head(fromServer) \in 0 .. ToVolume(cap)
      BY <1>6, <1>c DEF SnapSinkInfoCallback, AnswersUpTo
    <3>2. QED
      BY <3>1, <1>a, ReadsBack
  <2>3. Snapped(percent) \in 0 .. cap
    BY <2>2, <1>a, SnapsUnderCap
  <2>4. Set("snap", Snapped(percent)) \in RequestsUpTo(cap)
    BY <2>3, <1>a, MessagesInRange
  <2>5. /\ toServer' \in Seq(RequestsUpTo(cap)) /\ Len(toServer') <= Len(toServer) + 1
        /\ Len(toServer') \in Nat
    <3>1. toServer' = toServer \/ toServer' = Append(toServer, Set("snap", Snapped(percent)))
      BY <1>6 DEF SnapSinkInfoCallback, NoSet
    <3>2. QED
      BY <3>1, <2>4, <1>b, <1>c
  <2>6. expected' \in {None} \cup Percents
    <3>1. expected' = expected \/ expected' = Snapped(percent)
      BY <1>6 DEF SnapSinkInfoCallback, NoSet
    <3>2. QED
      BY <3>1, <2>3, <1>a, <1>b, MessagesInRange
  <2>7. Len(toServer') + Len(fromServer') <= MaxQueue
    BY <1>b, <2>1, <2>5
  <2>8. QED
    BY <1>6, <1>b, <1>c, <1>e, <2>1, <2>5, <2>6, <2>7 DEF SnapSinkInfoCallback
<1>7. ASSUME Serve PROVE VolumeInv'
  <2>1. toServer' \in Seq(RequestsUpTo(cap)) /\ Len(toServer') = Len(toServer) - 1
    BY <1>7, <1>c DEF Serve
  <2>2. Head(toServer) \in RequestsUpTo(cap)
    BY <1>7, <1>c DEF Serve
  <2>3. ToVolume(Head(toServer).percent) \in 0 .. ToVolume(cap)
    <3>1. Head(toServer).percent \in 0 .. cap
      BY <2>2 DEF RequestsUpTo
    <3>2. Head(toServer).percent \in Percents /\ cap \in 0 .. 102
      BY <3>1, <1>a DEF Percents
    <3>3. QED
      BY <3>1, <3>2, <1>a, VolumeGrows, VolumeInRange
  <2>4. volume' \in 0 .. ToVolume(cap)
    BY <1>7, <1>c, <2>3 DEF Serve, Becomes
  <2>5. \/ fromServer' = fromServer \/ fromServer' = Append(fromServer, Changed)
        \/ fromServer' = Append(fromServer, volume)
    BY <1>7 DEF Serve, Becomes
  <2>6. volume \in AnswersUpTo(cap) /\ Changed \in AnswersUpTo(cap)
    BY <1>c DEF AnswersUpTo
  <2>7. /\ fromServer' \in Seq(AnswersUpTo(cap)) /\ Len(fromServer') <= Len(fromServer) + 1
        /\ Len(fromServer') \in Nat
    <3>1. fromServer' \in Seq(AnswersUpTo(cap))
      <4>1. \A answer \in AnswersUpTo(cap) :
              Append(fromServer, answer) \in Seq(AnswersUpTo(cap))
        BY <1>c
      <4>2. QED
        BY <2>5, <2>6, <1>c, <4>1
    <3>2. Len(fromServer') = Len(fromServer) \/ Len(fromServer') = Len(fromServer) + 1
      BY <2>5, <1>c
    <3>3. QED
      BY <1>b, <3>1, <3>2
  <2>8. Len(toServer') + Len(fromServer') <= MaxQueue
    BY <1>b, <2>1, <2>7
  <2>9. QED
    BY <1>7, <1>b, <1>e, <2>1, <2>4, <2>7, <2>8 DEF Serve
<1>8. ASSUME DefaultMoves PROVE VolumeInv'
  <2>1. onPods' \in BOOLEAN
    BY <1>8 DEF DefaultMoves
  <2>2. QED
    BY <1>8, <1>b, <1>c, <1>e, <2>1 DEF DefaultMoves
<1>9. ASSUME volumeVars' = volumeVars PROVE VolumeInv'
  BY <1>9, <1>b, <1>c, <1>e DEF volumeVars
<1>10. ASSUME UserSets PROVE VolumeInv'
  <2>1. PICK percent \in UserPercents :
          /\ Becomes(ToVolume(percent))
          /\ loudest' = IF percent > loudest THEN percent ELSE loudest
    BY <1>10 DEF UserSets
  <2>2. /\ percent \in Percents /\ loudest' \in Percents
        /\ loudest <= loudest' /\ percent <= loudest'
    BY <1>a, <2>1, PercentsAssumption DEF Percents
  <2> DEFINE higher == Cap(loudest')
  <2>3. higher \in Percents /\ cap <= higher /\ percent <= higher /\ higher \in 0 .. 102
    <3>1. higher \in Percents /\ loudest' <= higher /\ cap <= higher
      BY <1>a, <2>2, CapRounds, CapGrows
    <3>2. QED
      BY <2>2, <3>1 DEF Percents
  <2>4. BoundedBy(higher)
    BY <1>a, <2>3, BoundsGrow
  <2>5. volume' \in 0 .. ToVolume(higher)
    <3>1. ToVolume(percent) <= ToVolume(higher)
      BY <2>2, <2>3, VolumeGrows
    <3>2. ToVolume(percent) \in Nat /\ ToVolume(higher) \in Nat
      BY <2>2, <2>3, VolumeInRange
    <3>3. QED
      BY <2>1, <3>1, <3>2 DEF Becomes
  <2>6. /\ fromServer' \in Seq(AnswersUpTo(higher)) /\ Len(fromServer') <= Len(fromServer) + 1
        /\ Len(fromServer') \in Nat
    <3>1. fromServer' = fromServer \/ fromServer' = Append(fromServer, Changed)
      BY <2>1 DEF Becomes
    <3>2. fromServer \in Seq(AnswersUpTo(higher)) /\ Changed \in AnswersUpTo(higher)
      BY <2>4 DEF BoundedBy, AnswersUpTo
    <3>3. QED
      BY <1>b, <3>1, <3>2
  <2>7. BoundedBy(Cap(loudest))'
    BY <1>10, <2>4, <2>5, <2>6 DEF BoundedBy, UserSets, trackerVars
  <2>8. DuckIsBounded'
    BY <1>10, <1>a DEF DuckIsBounded, UserSets, trackerVars
  <2>9. Len(toServer') + Len(fromServer') <= MaxQueue
    BY <1>10, <1>b, <2>6 DEF UserSets, Room
  <2>10. /\ expected' \in {None} \cup Percents
         /\ {ducked', restoreTimer', snapping', onPods'} \subseteq BOOLEAN
    BY <1>10, <1>b DEF UserSets, trackerVars
  <2>11. QED
    BY <1>a, <2>2, <2>7, <2>8, <2>9, <2>10, StepKeeps
<1>11. QED
  BY <1>1, <1>2, <1>3, <1>4, <1>5, <1>6, <1>7, <1>8, <1>9, <1>10 DEF VolumeNext

LEMMA VolumeInvariant == VolumeSpec => []VolumeInv
<1>1. QED
  BY VolumeInitially, VolumeInductive, PTL DEF VolumeSpec

\* A volume is saved only while ducked, and ducked only while the timer runs, however long the
\* pods send levels.
THEOREM DuckHasItsTimer == VolumeSpec => []DuckIsBounded
<1>1. VolumeInv => DuckIsBounded
  BY DEF VolumeInv
<1>2. QED
  BY <1>1, VolumeInvariant, PTL

\* However ducks, restores, snaps and late answers cross, the volume is at most the wearer's highest
\* percent and two.
THEOREM PodsAreNeverLouder == VolumeSpec => []NeverLouder
<1>1. VolumeInv => NeverLouder
  <2> SUFFICES ASSUME VolumeInv PROVE NeverLouder
    OBVIOUS
  <2>1. loudest \in Percents /\ volume \in 0 .. ToVolume(Cap(loudest))
    BY DEF VolumeInv, VolumeTypeOK, BoundedBy
  <2>2. /\ Cap(loudest) \in Percents /\ loudest + 2 \in 0 .. 102
        /\ Cap(loudest) <= loudest + 2
    BY <2>1, CapRounds DEF Percents
  <2>3. ToVolume(Cap(loudest)) <= ToVolume(loudest + 2)
    BY <2>2, VolumeGrows
  <2>4. ToVolume(Cap(loudest)) \in Nat /\ ToVolume(loudest + 2) \in Int
    BY <2>2, VolumeInRange DEF ToVolume, Norm
  <2>5. QED
    BY <2>1, <2>3, <2>4 DEF NeverLouder
<1>2. QED
  BY <1>1, VolumeInvariant, PTL

-----------------------------------------------------------------------------
\* PulseLink

\* A context that may still die has room to post its death; the Qt thread opens one only without a
\* connection; and a query that outlives its context leaves what will replace it.
Supporting ==
  /\ context \in {"connecting", "ready"} => queued < MaxQueued
  /\ qt \in Readying => ~initialized
  /\ qt = "starting" /\ context = "dead" => queued > 0
  /\ ~initialized /\ qt = "asking" => queued > 0 \/ timer \/ abandoned

PulseInv == PulseTypeOK /\ InitializedIsAlive /\ ReconnectIsDriven /\ NoWakeupLost /\ Supporting

USE DEF PulseInv, PulseTypeOK, InitializedIsAlive, ReconnectIsDriven, NoWakeupLost, Supporting,
        Readying

\* The start leaves a context that connects, or a reconnect posted.
LEMMA PulseInitially ==
  ASSUME PulseInit
  PROVE  PulseInv
<1>1. queued \in 0 .. MaxQueued
  BY QueuedAssumption DEF PulseInit
<1>2. wakeup \in BOOLEAN
  BY DEF PulseInit
<1>3. PulseTypeOK
  BY <1>1, <1>2 DEF PulseInit
<1>4. InitializedIsAlive /\ ReconnectIsDriven /\ NoWakeupLost
  BY DEF PulseInit
<1>5. Supporting
  BY QueuedAssumption DEF PulseInit
<1> QED BY <1>3, <1>4, <1>5

\* Every step keeps the invariant.
LEMMA PulseInductive ==
  ASSUME PulseInv, [PulseNext]_pulseVars
  PROVE  PulseInv'
<1>1. CASE WaitAgain
  BY <1>1 DEF WaitAgain
<1>2. CASE TimePasses
  BY <1>2 DEF TimePasses
<1>3. CASE WakeupFires
  <2>1. wakeup' \in BOOLEAN /\ woken' \in BOOLEAN /\ (qt # "idle" => woken')
    BY <1>3 DEF WakeupFires, Signal
  <2> QED BY <1>3, <2>1 DEF WakeupFires
<1>4. CASE QueuedScheduleRuns
  <2>1. queued' \in 0 .. MaxQueued
    BY <1>4, QueuedAssumption DEF QueuedScheduleRuns, waitVars
  <2>2. timer' \in BOOLEAN /\ (~initialized => timer')
    BY <1>4 DEF QueuedScheduleRuns, waitVars, ScheduleReconnect
  <2>3. PulseTypeOK' /\ InitializedIsAlive' /\ ReconnectIsDriven' /\ NoWakeupLost'
    BY <1>4, <2>1, <2>2 DEF QueuedScheduleRuns, waitVars
  <2>4. Supporting'
    BY <1>4, <2>1, <2>2, QueuedAssumption DEF QueuedScheduleRuns, waitVars
  <2> QED BY <2>3, <2>4
<1>5. CASE AttemptReconnect
  <2>1. CASE initialized
    BY <1>5, <2>1 DEF AttemptReconnect, waitVars
  <2>2. CASE /\ ~initialized /\ queued < MaxQueued
             /\ BeginWait("connecting", TRUE, "none")
             /\ context' = "connecting"
             /\ timer' = FALSE /\ abandoned' = FALSE
             /\ UNCHANGED <<queued, initialized, server>>
    BY <2>2 DEF BeginWait, waitVars
  <2>3. CASE /\ ~initialized /\ queued < MaxQueued
             /\ context' = "dead" /\ queued' = queued + 1
             /\ timer' = TRUE /\ abandoned' = FALSE
             /\ UNCHANGED <<waitVars, initialized, server>>
    <3>1. queued' \in 0 .. MaxQueued /\ queued' > 0
      BY <2>3, QueuedAssumption
    <3>2. timer' \in BOOLEAN /\ timer' /\ abandoned' \in BOOLEAN
      BY <2>3
    <3>3. PulseTypeOK'
      BY <2>3, <3>1, <3>2 DEF waitVars
    <3>4. InitializedIsAlive' /\ ReconnectIsDriven' /\ NoWakeupLost'
      BY <1>5, <2>3, <3>1, <3>2 DEF AttemptReconnect, waitVars
    <3>5. Supporting'
      BY <1>5, <2>3, <3>1, <3>2 DEF AttemptReconnect, waitVars
    <3> QED BY <3>3, <3>4, <3>5
  <2> QED BY <1>5, <2>1, <2>2, <2>3 DEF AttemptReconnect, waitVars
<1>6. CASE ConnectReady
  BY <1>6 DEF ConnectReady, EndWait
<1>7. CASE ConnectGivenUp
  <2>1. timer' \in BOOLEAN /\ (qt = "connecting" => timer')
    BY <1>7 DEF ConnectGivenUp, ScheduleReconnect
  <2>2. abandoned' \in BOOLEAN /\ (qt = "starting" /\ context = "connecting" => abandoned')
    BY <1>7 DEF ConnectGivenUp
  <2> QED BY <1>7, <2>1, <2>2 DEF ConnectGivenUp, EndWait
<1>8. CASE Ask
  BY <1>8 DEF Ask, BeginWait
<1>9. CASE AskEnds
  BY <1>9 DEF AskEnds, EndWait
<1>10. CASE OperationAnswered
  BY <1>10 DEF OperationAnswered, Signal
<1>11. CASE ContextReady
  BY <1>11 DEF ContextReady, Signal
<1>12. CASE ContextDies
  <2>1. queued' \in 0 .. MaxQueued /\ queued' > 0
    BY <1>12, QueuedAssumption DEF ContextDies, waitVars
  <2>2. operation' \in {"none", "running", "over"}
    BY <1>12 DEF ContextDies, waitVars
  <2>3. woken' \in BOOLEAN /\ (qt # "idle" => woken')
    BY <1>12 DEF ContextDies, waitVars, Signal
  <2> QED BY <1>12, <2>1, <2>2, <2>3 DEF ContextDies, waitVars
<1>13. CASE ServerMoves
  BY <1>13 DEF ServerMoves, waitVars
<1>14. CASE UNCHANGED pulseVars
  BY <1>14 DEF pulseVars, waitVars
<1> QED
  BY <1>1, <1>2, <1>3, <1>4, <1>5, <1>6, <1>7, <1>8, <1>9, <1>10, <1>11, <1>12, <1>13, <1>14
  DEF PulseNext

\* The inductive invariant holds throughout (pulseaudiocontroller.cpp).
THEOREM PulseInvariant == PulseSpec => []PulseInv
<1>1. PulseInit => PulseInv
  BY PulseInitially
<1>2. PulseInv /\ [PulseNext]_pulseVars => PulseInv'
  BY PulseInductive
<1> HIDE DEF PulseInv
<1> QED BY <1>1, <1>2, PTL DEF PulseSpec

\* Every variable keeps its type: the calls posted never exceed their bound.
THEOREM PulseTypeCorrect == PulseSpec => []PulseTypeOK
BY PulseInvariant, PTL

\* m_initialized is up only while the context lives, so a query never runs against one that
\* libpulse has given up (contextStateCallback).
THEOREM FlagMeansAlive == PulseSpec => []InitializedIsAlive
BY PulseInvariant, PTL

\* A dead context is never left with no retry pending (attemptReconnect).
THEOREM ReconnectDriven == PulseSpec => []ReconnectIsDriven
BY PulseInvariant, PTL

\* What a wait is for has always signalled it (waitForContextReady, waitForOperation).
THEOREM WakeupsKept == PulseSpec => []NoWakeupLost
BY PulseInvariant, PTL

=============================================================================
