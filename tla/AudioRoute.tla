------------------------------- MODULE AudioRoute -------------------------------
(***************************************************************************)
(* Where the sound goes: the ladder of attempts that gives the pods' card  *)
(* a playback profile, the default sink that follows the pods, and the     *)
(* release of the card (daemon/media/mediacontroller.cpp), as the control  *)
(* link, the ears and the other device drive them (daemon/main.cpp).       *)
(*                                                                         *)
(* A step is one callback of the event loop.  Its calls to the sound       *)
(* server are blocking and see one state of the server, but any of them    *)
(* may fail.  A queued attempt carries the generation it was armed in; an  *)
(* attempt of the current generation is kept in `ladder', one of an older  *)
(* generation only counted, in `stale'.                                    *)
(*                                                                         *)
(* Left out: the length of the delays; whether the daemon is suspending,   *)
(* so a link that goes may be torn down at once or recovered first; a      *)
(* second late start armed while one is pending, which would only          *)
(* supersede the ladder once more.                                         *)
(***************************************************************************)
EXTENDS Integers, FiniteSets

CONSTANTS
  Codecs,        \* playback profiles a card may offer, by their codec
  MaxAttempts,   \* kMaxAttempts
  MaxUnanswered, \* kMaxUnansweredChecks
  MaxStale       \* bound: superseded attempts still queued

\* codecBitrateKbps
Bitrate(codec) ==
  CASE codec = "SBC-XQ" -> 453 [] codec = "SBC" -> 328 [] codec = "AAC" -> 256 [] OTHER -> 0

Profiles == {"off", "headset"} \cup Codecs

ASSUME CodecsAssumption == {"off", "headset"} \cap Codecs = {}
ASSUME LimitsAssumption == MaxAttempts \in Nat \ {0} /\ MaxUnanswered \in Nat \ {0}
ASSUME StaleAssumption == MaxStale \in Nat

VARIABLES
  \* MediaController
  device,      \* connectedDeviceMacAddress and m_deviceOutputName: "none", "unnamed", "named"
  ladder,      \* queued attempts of the current generation
  stale,       \* queued attempts of an older one
  restarted,   \* m_wirePlumberRestartedThisChain
  follow,      \* m_followOnConnect
  claim,       \* claimed: m_defaultSinkClaimedThisSession; reclaim: m_reclaimDefaultSinkPending
  heldThen,    \* m_defaultSinkAtInterruption is the pods'
  \* main.cpp
  link,        \* "over" once finalized, "connecting", "recovering", or "open"
  lateConnect, \* the start two seconds after BlueZ connected is queued
  lateWake,    \* the start one second after resume is queued
  \* the sound server
  card,        \* the pods' card is there
  offers,      \* the playback profiles it offers
  profile,     \* the card's active profile
  capture,     \* a stream records from the pods
  podsDefault, \* the default sink is the pods'
  \* history
  released,    \* the daemon gave the pods up, and has not been asked for them since
  taken        \* the default sink in this session: "no", "yes" once the daemon took it for the
               \* pods, "moved" once the user then moved it away

chainVars == <<device, ladder, stale, restarted>>
claimVars == <<claim, podsDefault, taken>>
cardVars == <<card, offers, profile>>
serverVars == <<cardVars, capture>>
linkVars == <<link, lateConnect, lateWake>>
vars == <<chainVars, claimVars, serverVars, linkVars, follow, heldThen, released>>

Attempts == [attempt : 0 .. MaxAttempts - 1, unanswered : 0 .. MaxUnanswered - 1]

AudioTypeOK ==
  /\ device \in {"none", "unnamed", "named"}
  /\ ladder \subseteq Attempts
  /\ stale \in 0 .. MaxStale
  /\ link \in {"over", "connecting", "recovering", "open"}
  /\ offers \subseteq Codecs /\ profile \in Profiles
  /\ taken \in {"no", "yes", "moved"}
  /\ claim \in [claimed : BOOLEAN, reclaim : BOOLEAN]
  /\ {restarted, follow, heldThen, lateConnect, lateWake, card,
      capture, podsDefault, released} \subseteq BOOLEAN

-----------------------------------------------------------------------------
\* What the sound server answers

\* getAudioDeviceName: the card's name, or nothing when there is none or the query fails.
DeviceNames == {"unnamed"} \cup (IF card THEN {"named"} ELSE {})

\* captureState
CaptureAnswers == {IF capture THEN "live" ELSE "idle", "unknown"}

\* bestPlaybackProfile: of those offered, one of the highest bitrate.
BestPlaybackProfile(offered, best) ==
  best \in offered /\ \A other \in offered : Bitrate(best) >= Bitrate(other)

\* The card is there, with what it offers and a profile, or is not.
CardIsFound ==
  \/ /\ card' = TRUE
     /\ offers' \in SUBSET Codecs
     /\ profile' \in {"off", "headset"} \cup offers'
  \/ card' = FALSE /\ offers' = {} /\ profile' = "off"

\* A sink of the pods exists while their card has a profile.
HasSink == card /\ profile # "off"

\* isActiveOutputDeviceAirPods: any name contains an empty address, and no sink is named by a
\* query that fails.
IsActiveOutputDeviceAirPods == IF device = "none" THEN {TRUE} ELSE {podsDefault, FALSE}

\* Mutant: an unanswered query does not count.
UnansweredChecksAfterAny(answer, unanswered) == 0

\* unansweredChecksAfter
UnansweredChecksAfter(answer, unanswered) == IF answer = "unknown" THEN unanswered + 1 ELSE 0

-----------------------------------------------------------------------------
\* The ladder

\* The end of activateA2dpProfile: the default sink follows the pods once a session, and once
\* more to reclaim it; there may be no sink yet, and the call may fail.
ClaimDefaultSink(wanted) ==
  \/ /\ (follow /\ ~wanted.claimed) \/ wanted.reclaim
     /\ podsDefault' = TRUE
     /\ claim' = [claimed |-> TRUE, reclaim |-> FALSE]
     /\ taken' = "yes"
  \/ claim' = wanted /\ UNCHANGED <<podsDefault, taken>>

\* restartWirePlumber, `ok' or not: the server comes back with the card as it finds it.
RestartWirePlumber(ok) ==
  /\ restarted' = TRUE
  /\ IF ok
     THEN CardIsFound /\ UNCHANGED capture
     ELSE UNCHANGED serverVars

\* activateA2dpProfile succeeds on a card that offers a playback profile, or that does once
\* WirePlumber is restarted, which a chain does one time when none is offered or the query fails.
Activates(before, wanted) ==
  /\ \/ /\ offers # {}
        /\ restarted' = before
        /\ \E best \in Codecs : BestPlaybackProfile(offers, best) /\ profile' = best
        /\ UNCHANGED <<card, offers, capture>>
     \/ /\ card /\ ~before
        /\ RestartWirePlumber(TRUE)
        /\ BestPlaybackProfile(offers', profile')
  /\ device' = "named"
  /\ ClaimDefaultSink(wanted)

\* activateA2dpProfile fails: no card yet, nothing offered or no answer about it with no restart
\* left or one in vain, or the profile is not set.
ActivationFails(before, wanted) ==
  /\ \/ /\ device' \in DeviceNames
        /\ device' = "named" => offers # {} \/ before
        /\ restarted' = before
        /\ UNCHANGED <<serverVars, podsDefault>>
     \/ /\ card /\ ~before
        /\ \E ok \in BOOLEAN : RestartWirePlumber(ok)
        /\ device' = IF card' THEN "named" ELSE "unnamed"
        /\ podsDefault' = (podsDefault /\ HasSink')
  /\ claim' = wanted
  /\ UNCHANGED taken

\* attemptA2dpActivation, with the attempts of `rest' queued beside it: a capture, or no answer
\* about one, is waited out; else the profile is activated, or one more attempt queued.
AttemptA2dpActivation(attempt, unanswered, before, wanted, rest) ==
  \E answer \in CaptureAnswers :
    \/ /\ answer # "idle"
       /\ LET next == UnansweredChecksAfter(answer, unanswered) IN
          ladder' = rest \cup (IF next >= MaxUnanswered THEN {}
                               ELSE {[attempt |-> attempt, unanswered |-> next]})
       /\ device' \in DeviceNames
       /\ restarted' = before
       /\ claim' = wanted
       /\ UNCHANGED <<serverVars, podsDefault, taken>>
    \/ /\ answer = "idle"
       /\ Activates(before, wanted)
       /\ ladder' = rest
    \/ /\ answer = "idle"
       /\ ActivationFails(before, wanted)
       /\ ladder' = rest \cup (IF attempt + 1 >= MaxAttempts THEN {}
                               ELSE {[attempt |-> attempt + 1, unanswered |-> 0]})

\* ++m_a2dpRetryGeneration
Supersede ==
  /\ stale + Cardinality(ladder) <= MaxStale
  /\ stale' = stale + Cardinality(ladder)

\* Mutant: a new chain leaves the old one running.
ActivateA2dpProfileWithRetryBeside(wanted) ==
  /\ released' = FALSE
  /\ AttemptA2dpActivation(0, 0, FALSE, wanted, ladder)
  /\ UNCHANGED stale

\* activateA2dpProfileWithRetry: supersede the chain in flight, and make the first attempt.
ActivateA2dpProfileWithRetry(wanted) ==
  /\ released' = FALSE
  /\ Supersede
  /\ AttemptA2dpActivation(0, 0, FALSE, wanted, {})

\* cancelPendingA2dpActivation
CancelPendingA2dpActivation ==
  /\ released' = TRUE
  /\ Supersede
  /\ ladder' = {}

\* A queued attempt comes due.
RetryShot ==
  \E shot \in ladder :
    /\ AttemptA2dpActivation(shot.attempt, shot.unanswered, restarted, claim, ladder \ {shot})
    /\ UNCHANGED <<stale, linkVars, follow, heldThen, released>>

\* One of an older generation does nothing.
StaleShot ==
  /\ stale > 0
  /\ stale' = stale - 1
  /\ UNCHANGED <<device, ladder, restarted, claimVars, serverVars, linkVars, follow, heldThen,
                 released>>

-----------------------------------------------------------------------------
\* What asks for the pods, and what gives them up

\* Metadata with a pod in an ear, or an in-ear report once there is an address (parseData,
\* handleEarDetection).
InEarReported ==
  /\ link = "open"
  /\ ActivateA2dpProfileWithRetry(claim)
  /\ UNCHANGED <<linkVars, follow, heldThen>>

\* Metadata with no pod in an ear: setConnectedDeviceMacAddress only.
MetadataReceived ==
  /\ link = "open"
  /\ device' \in DeviceNames
  /\ UNCHANGED <<ladder, stale, restarted, claimVars, serverVars, linkVars, follow, heldThen,
                 released>>

\* handleMediaStateChange: what the user plays here is on another sink, for all it is told.
MediaClaims ==
  /\ link = "open"
  /\ FALSE \in IsActiveOutputDeviceAirPods
  /\ ActivateA2dpProfileWithRetry(claim)
  /\ UNCHANGED <<linkVars, follow, heldThen>>

\* rememberDefaultSinkForInterruption, for a call or media of another device; the query may fail.
Interrupted ==
  /\ link = "open"
  /\ heldThen' \in {podsDefault, FALSE}
  /\ UNCHANGED <<chainVars, claimVars, serverVars, linkVars, follow, released>>

\* reclaimDefaultSinkAfterInterruption, once the other device let go.  Any name contains an empty
\* address, so without one a reclaim is owed at once, and no chain starts.
Resumed ==
  /\ link = "open"
  /\ IF device = "none"
     THEN /\ claim' = [claim EXCEPT !.reclaim = TRUE]
          /\ UNCHANGED <<chainVars, podsDefault, taken, serverVars, released>>
     ELSE ActivateA2dpProfileWithRetry([claim EXCEPT !.reclaim = @ \/ heldThen])
  /\ UNCHANGED <<linkVars, follow, heldThen>>

\* Mutant: the sink is taken down under a chain still in flight.
RemoveAudioOutputDeviceUncancelled ==
  /\ released' = TRUE
  /\ device = "named" /\ card
  /\ profile' = "off" /\ podsDefault' = FALSE
  /\ UNCHANGED <<chainVars, claim, taken, card, offers, capture, linkVars, follow, heldThen>>

\* removeAudioOutputDevice, once both pods were out for a while (handleEarDetection's callback,
\* which runs whatever the link did since): the card is turned off, if the server can.  Without
\* an address there is no chain to cancel and no card to turn off.
RemoveAudioOutputDevice ==
  /\ device # "none"
  /\ CancelPendingA2dpActivation
  /\ \/ /\ device = "named" /\ card
        /\ profile' = "off" /\ podsDefault' = FALSE
     \/ UNCHANGED <<profile, podsDefault>>
  /\ UNCHANGED <<device, restarted, claim, taken, card, offers, capture, linkVars, follow, heldThen>>

SetFollowOnConnect ==
  /\ follow' = ~follow
  /\ UNCHANGED <<chainVars, claimVars, serverVars, linkVars, heldThen, released>>

-----------------------------------------------------------------------------
\* The control link

\* bluezDeviceConnected, but for a recovery: connect, and start a chain two seconds later.
BluezConnected ==
  /\ link # "recovering"
  /\ link' = IF link = "over" THEN "connecting" ELSE link
  /\ lateConnect' = TRUE
  /\ UNCHANGED <<chainVars, claimVars, serverVars, lateWake, follow, heldThen, released>>

\* The initial connect succeeds.
ControlConnected ==
  /\ link = "connecting"
  /\ link' = "open"
  /\ UNCHANGED <<chainVars, claimVars, serverVars, lateConnect, lateWake, follow, heldThen,
                 released>>

\* Mutant: a recovered link starts a new session of its own.
ControlRecoveredAnew ==
  /\ link = "recovering"
  /\ link' = "open"
  /\ ActivateA2dpProfileWithRetry([claim EXCEPT !.claimed = FALSE])
  /\ UNCHANGED <<lateConnect, lateWake, follow, heldThen>>

\* finishControlRecovery: onDeviceDisconnected cancelled what was in flight, so start again.
ControlRecovered ==
  /\ link = "recovering"
  /\ link' = "open"
  /\ ActivateA2dpProfileWithRetry(claim)
  /\ UNCHANGED <<lateConnect, lateWake, follow, heldThen>>

\* scheduleControlReconnect recovers the link, or while suspending finalizes at once;
\* finalizeDeviceDisconnected ends the session, and startFollowSession begins the next.
LinkGoes ==
  \/ link' = "recovering" /\ UNCHANGED <<claim, taken>>
  \/ /\ link' = "over"
     /\ claim' = [claim EXCEPT !.claimed = FALSE]
     /\ taken' = "no"

\* The socket is lost, an initial connect given up, or a recovery: no chain is cancelled.
ControlLost ==
  /\ link # "over"
  /\ LinkGoes
  /\ UNCHANGED <<chainVars, podsDefault, serverVars, lateConnect, lateWake, follow, heldThen,
                 released>>

\* onDeviceDisconnected, by the daemon's verb or BlueZ's signal.
OnDeviceDisconnected ==
  /\ link # "over"
  /\ CancelPendingA2dpActivation
  /\ LinkGoes
  /\ UNCHANGED <<device, restarted, podsDefault, serverVars, lateConnect, lateWake, follow,
                 heldThen>>

\* checkControlLinkWatchdog
WatchdogRetries ==
  /\ link = "over"
  /\ link' = "recovering"
  /\ UNCHANGED <<chainVars, claimVars, serverVars, lateConnect, lateWake, follow, heldThen,
                 released>>

\* The start that BlueZ's signal queued; nothing asks whether the pods are still there.
LateConnectShot ==
  /\ lateConnect
  /\ lateConnect' = FALSE
  /\ ActivateA2dpProfileWithRetry(claim)
  /\ UNCHANGED <<link, lateWake, follow, heldThen>>

\* onSystemWakingUp, once the link is found up ten seconds after resume.
WokenUp ==
  /\ link = "open"
  /\ lateWake' = TRUE
  /\ UNCHANGED <<chainVars, claimVars, serverVars, link, lateConnect, follow, heldThen, released>>

\* The start it queued, in vain once a teardown has forgotten the address.
LateWakeShot ==
  /\ lateWake
  /\ lateWake' = FALSE
  /\ IF link = "over"
     THEN UNCHANGED <<chainVars, claimVars, serverVars, released>>
     ELSE ActivateA2dpProfileWithRetry(claim)
  /\ UNCHANGED <<link, lateConnect, follow, heldThen>>

-----------------------------------------------------------------------------
\* The sound server and the user

\* The card comes, goes, changes what it offers or its profile; without a sink the default moves.
CardChanges ==
  /\ CardIsFound
  /\ cardVars' # cardVars
  /\ podsDefault' = (podsDefault /\ HasSink')
  /\ UNCHANGED <<chainVars, claim, taken, capture, linkVars, follow, heldThen, released>>

CaptureChanges ==
  /\ capture' = ~capture
  /\ UNCHANGED <<chainVars, claimVars, cardVars, linkVars, follow, heldThen, released>>

\* The user, or WirePlumber from the user's last choice, makes the pods the default.
PodsSelected ==
  /\ HasSink /\ ~podsDefault
  /\ podsDefault' = TRUE
  /\ taken' = IF taken = "moved" THEN "yes" ELSE taken
  /\ UNCHANGED <<chainVars, claim, serverVars, linkVars, follow, heldThen, released>>

\* The user makes another sink the default.
OtherSelected ==
  /\ podsDefault
  /\ podsDefault' = FALSE
  /\ taken' = IF taken = "yes" THEN "moved" ELSE taken
  /\ UNCHANGED <<chainVars, claim, serverVars, linkVars, follow, heldThen, released>>

Init ==
  /\ device = "none"
  /\ ladder = {} /\ stale = 0 /\ restarted = FALSE
  /\ follow \in BOOLEAN
  /\ claim = [claimed |-> FALSE, reclaim |-> FALSE]
  /\ heldThen = FALSE
  /\ link = "over" /\ lateConnect = FALSE /\ lateWake = FALSE
  /\ card = FALSE /\ offers = {} /\ profile = "off" /\ capture = FALSE
  /\ podsDefault = FALSE
  /\ released = FALSE
  /\ taken = "no"

\* A chain starts anew.
Asked ==
  \/ InEarReported \/ MediaClaims \/ Resumed
  \/ ControlRecovered \/ LateConnectShot \/ LateWakeShot

Next ==
  \/ Asked
  \/ RetryShot \/ StaleShot
  \/ MetadataReceived \/ Interrupted \/ RemoveAudioOutputDevice \/ SetFollowOnConnect
  \/ BluezConnected \/ ControlConnected \/ ControlLost \/ OnDeviceDisconnected
  \/ WatchdogRetries \/ WokenUp
  \/ CardChanges \/ CaptureChanges \/ PodsSelected \/ OtherSelected

\* A queued timer fires.
Fairness == WF_vars(RetryShot)

Spec == Init /\ [][Next]_vars /\ Fairness

-----------------------------------------------------------------------------
\* Properties

\* However requests, retries and releases overlap, one chain at most is in flight, so that two
\* never switch the card against each other (mediacontroller.cpp activateA2dpProfileWithRetry).
OneLadder == Cardinality(ladder) <= 1

\* What was released stays so: no attempt queued before it is left to bring the sink back
\* (mediacontroller.cpp removeAudioOutputDevice, main.cpp onDeviceDisconnected).
ReleaseStands == released => ladder = {}

\* "One default-sink claim per session (plus a reclaim after an interruption)"
\* (mediacontroller.cpp activateA2dpProfile): when the user has moved the sound off the pods,
\* the daemon moves it back only to make good a reclaim it owes.
UserMoveStands ==
  [][taken = "moved" /\ taken' = "yes" /\ ~PodsSelected => claim.reclaim \/ Resumed]_vars

\* A chain comes to an end, whatever the server answers or fails to, unless calls are taken on
\* the pods or chains started for ever (kMaxAttempts, kMaxUnansweredChecks).
LadderEnds == <>[]~capture /\ <>[][~Asked]_vars => <>[](ladder = {})

\* "Audio follows the pods once per control-link session; the disconnect finalizer starts the
\* next one" (mediacontroller.h): no session begins with its one claim already made.  The code
\* does not keep this (README, behaviours that do not hold); no run checks it.
ClaimBelongsToSession == claim.claimed => link # "over"

=============================================================================
