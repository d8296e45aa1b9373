---------------------------- MODULE PlaybackProofs ----------------------------
(***************************************************************************)
(* The both-out window of ear detection has exactly one callback that will *)
(* end it, and an interruption stands only while the other device holds    *)
(* the pods, for any players, traffic and number of superseded callbacks.  *)
(*                                                                         *)
(* Where no player refuses a call: what the daemon starts and stops sends  *)
(* the pods nothing, and what the user started does not play on against    *)
(* another device that holds them.  A player that refuses a pause plays    *)
(* on, and refutes both.                                                   *)
(***************************************************************************)
EXTENDS Playback, SequenceTheorems, TLAPS

HolderKnown(h) == h.interrupted => h.lastOther # "none"

\* The fields of a handoff state.
LEMMA HandoffFacts ==
  ASSUME NEW h \in HandoffStates
  PROVE  /\ h.localPlaying \in BOOLEAN /\ h.claimFresh \in BOOLEAN
         /\ h.interrupted \in BOOLEAN /\ h.lastOther \in OtherFrames
BY DEF HandoffStates

\* A record with such fields is a handoff state; an interruption names its holder.
LEMMA HandoffMade ==
  ASSUME NEW p \in BOOLEAN, NEW c \in BOOLEAN, NEW i \in BOOLEAN, NEW o \in OtherFrames,
         i => o # "none", NEW x,
         x = [localPlaying |-> p, claimFresh |-> c, interrupted |-> i, lastOther |-> o]
  PROVE  x \in HandoffStates /\ HolderKnown(x)
BY DEF HandoffStates, HolderKnown

\* A local change keeps the state typed and its holder known (handoffstate.hpp onLocalMedia).
LEMMA OnLocalMediaFacts ==
  ASSUME NEW h \in HandoffStates, HolderKnown(h), NEW p \in BOOLEAN, NEW origin
  PROVE  OnLocalMedia(h, p, origin) \in HandoffStates /\ HolderKnown(OnLocalMedia(h, p, origin))
<1> DEFINE i == h.interrupted /\ MediaWire(h, p, origin) # "claim"
<1>1. ASSUME NEW x, x = OnLocalMedia(h, p, origin)
      PROVE  x = [localPlaying |-> p, claimFresh |-> h.claimFresh,
                  interrupted |-> i, lastOther |-> h.lastOther]
  BY <1>1 DEF OnLocalMedia, HandoffStates
<1>2. PICK x : x = OnLocalMedia(h, p, origin)
  OBVIOUS
<1>3. i \in BOOLEAN
  OBVIOUS
<1> HIDE DEF i
<1>4. i => h.interrupted
  BY DEF i
<1> QED BY <1>1, <1>2, <1>3, <1>4, HandoffFacts DEF HandoffStates, HolderKnown

\* So does a claim that was sent.
LEMMA NoteClaimSentFacts ==
  ASSUME NEW h \in HandoffStates, HolderKnown(h)
  PROVE  NoteClaimSent(h) \in HandoffStates /\ HolderKnown(NoteClaimSent(h))
<1>1. ASSUME NEW x, x = NoteClaimSent(h)
      PROVE  x = [localPlaying |-> h.localPlaying, claimFresh |-> TRUE,
                  interrupted |-> h.interrupted, lastOther |-> h.lastOther]
  BY <1>1 DEF NoteClaimSent, HandoffStates
<1>2. PICK x : x = NoteClaimSent(h)
  OBVIOUS
<1>3. x \in HandoffStates /\ HolderKnown(x)
  BY <1>1, <1>2, HandoffFacts, HandoffMade DEF HolderKnown
<1> QED BY <1>2, <1>3

\* A resume ends the interruption.
LEMMA NoteResumedFacts ==
  ASSUME NEW h \in HandoffStates
  PROVE  NoteResumed(h) \in HandoffStates /\ HolderKnown(NoteResumed(h))
<1>1. ASSUME NEW x, x = NoteResumed(h)
      PROVE  x = [localPlaying |-> h.localPlaying, claimFresh |-> h.claimFresh,
                  interrupted |-> FALSE, lastOther |-> h.lastOther]
  BY <1>1 DEF NoteResumed, HandoffStates
<1>2. PICK x : x = NoteResumed(h)
  OBVIOUS
<1>3. x \in HandoffStates /\ HolderKnown(x)
  BY <1>1, <1>2, HandoffFacts, HandoffMade DEF HolderKnown
<1> QED BY <1>2, <1>3

\* A frame that says "none" leaves an interruption to the resume that answers it.
LEMMA OnAudioSourceFacts ==
  ASSUME NEW h \in HandoffStates, HolderKnown(h), NEW frame \in Frames
  PROVE  /\ OnAudioSource(h, frame) \in HandoffStates
         /\ ~Resumes(h, frame) => HolderKnown(OnAudioSource(h, frame))
<1> DEFINE i == h.interrupted \/ Interrupts(h, frame)
<1>1. CASE frame = "here"
  <2>1. ASSUME NEW x, x = OnAudioSource(h, frame)
        PROVE  x = [localPlaying |-> h.localPlaying, claimFresh |-> FALSE,
                    interrupted |-> FALSE, lastOther |-> "none"]
    BY <1>1, <2>1 DEF OnAudioSource, HandoffStates
  <2>2. PICK x : x = OnAudioSource(h, frame)
    OBVIOUS
  <2>3. x \in HandoffStates /\ HolderKnown(x)
    BY <2>1, <2>2, HandoffFacts, HandoffMade DEF OtherFrames
  <2> QED BY <2>2, <2>3
<1>2. CASE frame # "here"
  <2>1. ASSUME NEW x, x = OnAudioSource(h, frame)
        PROVE  x = [localPlaying |-> h.localPlaying, claimFresh |-> h.claimFresh,
                    interrupted |-> i, lastOther |-> frame]
    BY <1>2, <2>1 DEF OnAudioSource, HandoffStates
  <2>2. PICK x : x = OnAudioSource(h, frame)
    OBVIOUS
  <2>3. i \in BOOLEAN
    OBVIOUS
  <2>4. ~Resumes(h, frame) /\ frame = "none" => ~i
    BY DEF Resumes, Interrupts
  <2>5. frame \in OtherFrames
    BY <1>2 DEF Frames
  <2> HIDE DEF i
  <2> QED BY <2>1, <2>2, <2>3, <2>4, <2>5, HandoffFacts DEF HandoffStates, HolderKnown
<1> QED BY <1>1, <1>2

-----------------------------------------------------------------------------
\* The invariant, in the parts a callback touches

HandPart == hand \in HandoffStates /\ HolderKnown(hand)

PlayersPart ==
  /\ pausedBy \subseteq Players /\ playing \subseteq Players
  /\ mark \in {"none", "playing", "paused"}
  /\ starter \in {"user", "daemon", "unseen"}
  /\ unreported \in BOOLEAN /\ touched \in BOOLEAN

EarsPart ==
  /\ behavior \in Behaviors
  /\ ears \in 0 .. 2
  /\ outPending \in BOOLEAN
  /\ windows \in [live : 0 .. 1, stale : 0 .. MaxStale]
  /\ outPending <=> windows.live = 1

LinkPart ==
  /\ link \in {"gone", "lost", "open", "ready"}
  /\ owner \in {"none", "here", "media", "call"}
  /\ podsDefault \in BOOLEAN

TrafficPart ==
  /\ frames \in Seq(Frames) /\ wire \in Seq({"claim", "release"})
  /\ Len(frames) + Len(wire) <= MaxTraffic

IInv == HandPart /\ PlayersPart /\ EarsPart /\ LinkPart /\ TrafficPart

\* The strengthening implies the properties.
LEMMA Implied ==
  IInv => TypeOK /\ OutWindowServed /\ InterruptedByAHolder
BY DEF IInv, HandPart, PlayersPart, EarsPart, LinkPart, TrafficPart, TypeOK, OutWindowServed,
       InterruptedByAHolder, HolderKnown, Traffic

\* No call to a player, whichever refuse, leaves the types.
LEMMA PlayerCalls ==
  ASSUME PlayersPart, Pause \/ Play \/ NoPlayerCall
  PROVE  PlayersPart'
<1>1. CASE Pause
  <2>1. PICK refused \in SUBSET (playing \cap Refusing) :
          /\ mark' = "paused"
          /\ playing' = refused
          /\ pausedBy' = pausedBy \cup (playing \ refused)
          /\ unreported' = (unreported \/ playing # refused)
          /\ UNCHANGED <<starter, touched>>
    BY <1>1 DEF Pause
  <2>2. unreported' \in BOOLEAN
    BY <2>1
  <2>3. pausedBy' \subseteq Players /\ playing' \subseteq Players
    BY <2>1 DEF PlayersPart
  <2> QED BY <2>1, <2>2, <2>3 DEF PlayersPart
<1>2. CASE Play /\ pausedBy # {}
  <2>1. PICK refused \in SUBSET (pausedBy \cap Refusing) :
          /\ mark' = "playing"
          /\ playing' = playing \cup (pausedBy \ refused)
          /\ pausedBy' = IF pausedBy \ refused = {} THEN pausedBy ELSE {}
          /\ unreported' = (unreported \/ ~((pausedBy \ refused) \subseteq playing))
          /\ starter' = IF playing = {} /\ pausedBy \ refused # {} THEN "daemon" ELSE starter
          /\ UNCHANGED touched
    BY <1>2 DEF Play
  <2>2. unreported' \in BOOLEAN
    BY <2>1
  <2>3. pausedBy' \subseteq Players /\ playing' \subseteq Players
    BY <2>1 DEF PlayersPart
  <2>4. starter' \in {"user", "daemon", "unseen"}
    BY <2>1 DEF PlayersPart
  <2> QED BY <2>1, <2>2, <2>3, <2>4 DEF PlayersPart
<1>3. CASE NoPlayerCall \/ (Play /\ pausedBy = {})
  BY <1>3 DEF NoPlayerCall, Play, playerVars, PlayersPart
<1> QED BY <1>1, <1>2, <1>3

\* A claim takes one place on the wire at most.
LEMMA SendClaimFacts ==
  ASSUME TrafficPart, NEW h \in HandoffStates, HolderKnown(h), SendClaim(h)
  PROVE  /\ HandPart'
         /\ wire' \in Seq({"claim", "release"})
         /\ Len(wire') <= Len(wire) + 1
<1>1. CASE Connected
  BY <1>1, NoteClaimSentFacts, AppendProperties DEF SendClaim, HandPart, TrafficPart
<1>2. CASE ~Connected
  BY <1>2 DEF SendClaim, HandPart, TrafficPart
<1> QED BY <1>1, <1>2

\* Only the callbacks below touch the window.
LEMMA WindowMade ==
  ASSUME BoundsAssumption, NEW l \in 0 .. 1, NEW s \in 0 .. MaxStale, NEW x,
         x = [live |-> l, stale |-> s]
  PROVE  /\ x \in [live : 0 .. 1, stale : 0 .. MaxStale]
         /\ x.live = l
OBVIOUS

\* Superseding leaves no live window and none awaited (mediacontroller.cpp handleEarDetection).
LEMMA SupersedeFacts ==
  ASSUME EarsPart, Supersede
  PROVE  /\ outPending' = FALSE
         /\ windows' \in [live : 0 .. 1, stale : 0 .. MaxStale]
         /\ windows'.live = 0
<1> DEFINE s == windows.stale + windows.live
<1>1. s \in 0 .. MaxStale
  BY BoundsAssumption DEF EarsPart, Supersede
<1>2. windows' = [live |-> 0, stale |-> s] /\ outPending' = FALSE
  BY DEF Supersede
<1>3. 0 \in 0 .. 1
  OBVIOUS
<1> HIDE DEF s
<1> QED BY <1>1, <1>2, <1>3, WindowMade, BoundsAssumption

\* A live window opens or closes.
LEMMA LiveMoves ==
  ASSUME EarsPart, NEW l \in 0 .. 1, windows' = [windows EXCEPT !.live = l]
  PROVE  /\ windows' \in [live : 0 .. 1, stale : 0 .. MaxStale]
         /\ windows'.live = l
<1>1. windows' = [live |-> l, stale |-> windows.stale] /\ windows.stale \in 0 .. MaxStale
  BY DEF EarsPart
<1> QED BY <1>1, WindowMade, BoundsAssumption

\* A superseded window closes.
LEMMA StaleMoves ==
  ASSUME EarsPart, windows.stale > 0, windows' = [windows EXCEPT !.stale = @ - 1]
  PROVE  /\ windows' \in [live : 0 .. 1, stale : 0 .. MaxStale]
         /\ windows'.live = windows.live
<1> DEFINE s == windows.stale - 1
<1>1. s \in 0 .. MaxStale /\ windows.live \in 0 .. 1
  BY BoundsAssumption DEF EarsPart
<1>2. windows' = [live |-> windows.live, stale |-> s]
  BY DEF EarsPart
<1> HIDE DEF s
<1> QED BY <1>1, <1>2, WindowMade, BoundsAssumption

-----------------------------------------------------------------------------
\* The steps

\* A player reports a change (main.cpp handleMediaStateChange).
LEMMA MediaReportedStep ==
  ASSUME IInv, MediaReported
  PROVE  IInv'
<1> DEFINE now == playing # {}
           sent == MediaWire(hand, now, Origin)
           h == OnLocalMedia(hand, now, Origin)
<1>1. h \in HandoffStates /\ HolderKnown(h)
  BY OnLocalMediaFacts DEF IInv, HandPart
<1>2. PlayersPart'
  <2>1. starter' \in {"user", "daemon", "unseen"}
    BY DEF IInv, PlayersPart, MediaReported
  <2>2. mark' \in {"none", "playing", "paused"}
    BY DEF IInv, PlayersPart, MediaReported
  <2> QED BY <2>1, <2>2 DEF IInv, PlayersPart, MediaReported
<1>3. EarsPart'
  BY DEF IInv, EarsPart, MediaReported, earVars
<1>4. podsDefault' \in BOOLEAN
  BY DEF IInv, LinkPart, MediaReported, Activate
<1>5. LinkPart'
  BY <1>4 DEF IInv, LinkPart, MediaReported, podsVars
<1>6. /\ HandPart'
      /\ wire' \in Seq({"claim", "release"})
      /\ Len(wire') <= Len(wire) + 1
  <2>1. CASE SendClaim(h)
    BY <1>1, <2>1, SendClaimFacts DEF IInv
  <2>2. CASE hand' = h /\ wire' = Append(wire, "release")
    BY <1>1, <2>2, AppendProperties DEF HandPart, IInv, TrafficPart
  <2>3. CASE hand' = h /\ wire' = wire
    BY <1>1, <2>3 DEF HandPart, IInv, TrafficPart
  <2> HIDE DEF h
  <2>4. SendClaim(h) \/ (hand' = h /\ wire' \in {wire, Append(wire, "release")})
    BY DEF MediaReported, h, sent, now
  <2> QED BY <2>1, <2>2, <2>3, <2>4
<1>7. TrafficPart'
  BY <1>6, BoundsAssumption, LenProperties DEF IInv, TrafficPart, MediaReported, podsVars, Traffic
<1> QED BY <1>2, <1>3, <1>5, <1>6, <1>7 DEF IInv

\* Steps that touch neither the handoff nor the traffic.
LEMMA EarSteps ==
  ASSUME IInv,
         BothOutReported \/ (\E n \in 1 .. 2 : InEarReported(n)) \/ (\E n \in 0 .. 2 : EarsNoted(n))
           \/ OutWindowEnds \/ StaleWindowEnds \/ SetEarDetectionBehavior
  PROVE  IInv'
<1>1. CASE BothOutReported
  <2>1. CASE outPending
    BY <1>1, <2>1 DEF BothOutReported, IInv, HandPart, PlayersPart, EarsPart, LinkPart,
                      TrafficPart, playerVars, podsVars
  <2>2. CASE ~outPending
    <3>1. windows.live = 0
      BY <2>2 DEF IInv, EarsPart
    <3>2. outPending' = TRUE /\ windows' = [windows EXCEPT !.live = 1]
      BY <1>1, <2>2, <3>1 DEF BothOutReported
    <3>3. EarsPart'
      BY <1>1, <3>2, LiveMoves DEF BothOutReported, IInv, EarsPart
    <3> QED BY <1>1, <3>3 DEF BothOutReported, IInv, HandPart, PlayersPart, LinkPart,
                              TrafficPart, playerVars, podsVars
  <2> QED BY <2>1, <2>2 DEF IInv, EarsPart
<1>2. ASSUME NEW n \in 1 .. 2, InEarReported(n)
      PROVE  IInv'
  <2>0. Supersede /\ EarsPart
    BY <1>2 DEF InEarReported, IInv
  <2>1. EarsPart'
    <3>1. outPending' = FALSE /\ windows'.live = 0
          /\ windows' \in [live : 0 .. 1, stale : 0 .. MaxStale]
      BY <2>0, SupersedeFacts
    <3>2. behavior' \in Behaviors /\ ears' \in 0 .. 2
      BY <1>2 DEF InEarReported, IInv, EarsPart
    <3>3. outPending' \in BOOLEAN /\ ~outPending'
      BY <3>1
    <3>4. windows'.live # 1
      BY <3>1
    <3> QED BY <3>1, <3>2, <3>3, <3>4 DEF EarsPart
  <2>2. Pause \/ Play \/ NoPlayerCall
    BY <1>2 DEF InEarReported
  <2>3. PlayersPart'
    BY <2>2, PlayerCalls DEF IInv
  <2>4. podsDefault' \in BOOLEAN
    BY <1>2 DEF InEarReported, Activate, IInv, LinkPart
  <2> QED BY <1>2, <2>1, <2>3, <2>4 DEF InEarReported, IInv, HandPart, LinkPart, TrafficPart, podsVars
<1>3. ASSUME NEW n \in 0 .. 2, EarsNoted(n)
      PROVE  IInv'
  BY <1>3 DEF EarsNoted, IInv, HandPart, PlayersPart, EarsPart, LinkPart, TrafficPart,
              playerVars, podsVars
<1>4. CASE OutWindowEnds
  <2>1. windows' = [windows EXCEPT !.live = 0] /\ outPending' = FALSE
    BY <1>4 DEF OutWindowEnds, IInv, EarsPart
  <2>2. EarsPart'
    <3>1. windows'.live = 0 /\ windows' \in [live : 0 .. 1, stale : 0 .. MaxStale]
      BY <2>1, LiveMoves DEF IInv
    <3>2. behavior' \in Behaviors /\ ears' \in 0 .. 2
      BY <1>4 DEF OutWindowEnds, IInv, EarsPart
    <3>3. outPending' \in BOOLEAN /\ ~outPending'
      BY <2>1, <3>1
    <3>4. windows'.live # 1
      BY <3>1
    <3> QED BY <3>1, <3>2, <3>3, <3>4 DEF EarsPart
  <2>3. Pause \/ Play \/ NoPlayerCall
    BY <1>4 DEF OutWindowEnds
  <2>4. PlayersPart'
    BY <2>3, PlayerCalls DEF IInv
  <2>5. podsDefault' \in BOOLEAN
    BY <1>4 DEF OutWindowEnds, IInv, LinkPart
  <2> QED BY <1>4, <2>2, <2>4, <2>5 DEF OutWindowEnds, IInv, HandPart, LinkPart, TrafficPart, podsVars
<1>5. CASE StaleWindowEnds
  <2>1. EarsPart'
    BY <1>5, StaleMoves DEF StaleWindowEnds, IInv, EarsPart
  <2> QED BY <1>5, <2>1 DEF StaleWindowEnds, IInv, HandPart, PlayersPart, LinkPart, TrafficPart,
                            playerVars, podsVars
<1>6. CASE SetEarDetectionBehavior
  <2>0. Supersede /\ EarsPart
    BY <1>6 DEF SetEarDetectionBehavior, IInv
  <2>1. EarsPart'
    <3>1. outPending' = FALSE /\ windows'.live = 0
          /\ windows' \in [live : 0 .. 1, stale : 0 .. MaxStale]
      BY <2>0, SupersedeFacts
    <3>2. behavior' \in Behaviors /\ ears' \in 0 .. 2
      BY <1>6 DEF SetEarDetectionBehavior, IInv, EarsPart
    <3>3. outPending' \in BOOLEAN /\ ~outPending'
      BY <3>1
    <3>4. windows'.live # 1
      BY <3>1
    <3> QED BY <3>1, <3>2, <3>3, <3>4 DEF EarsPart
  <2> QED BY <1>6, <2>1 DEF SetEarDetectionBehavior, IInv, HandPart, PlayersPart, LinkPart,
                            TrafficPart, playerVars, podsVars
<1> QED BY <1>1, <1>2, <1>3, <1>4, <1>5, <1>6

\* The link opens, is acknowledged, is lost or is torn down.
LEMMA LinkSteps ==
  ASSUME IInv, LinkOpens \/ FeaturesAck \/ LinkLost \/ Teardown
  PROVE  IInv'
<1>1. CASE LinkOpens
  BY <1>1 DEF LinkOpens, IInv, HandPart, PlayersPart, EarsPart, LinkPart, TrafficPart, earVars,
              playerVars, podsVars
<1>2. CASE FeaturesAck
  <2> DEFINE h == OnLocalMedia(hand, TRUE, "user")
  <2>1. h \in HandoffStates /\ HolderKnown(h)
    BY OnLocalMediaFacts DEF IInv, HandPart
  <2>2. SendClaim(h) \/ UNCHANGED <<hand, wire>>
    BY <1>2 DEF FeaturesAck
  <2> HIDE DEF h
  <2>3. /\ HandPart'
        /\ wire' \in Seq({"claim", "release"})
        /\ Len(wire') <= Len(wire) + 1
    <3>1. CASE SendClaim(h)
      BY <2>1, <3>1, SendClaimFacts DEF IInv
    <3>2. CASE UNCHANGED <<hand, wire>>
      BY <3>2 DEF IInv, HandPart, TrafficPart
    <3> QED BY <2>2, <3>1, <3>2
  <2>4. frames' \in Seq(Frames) /\ Len(frames') <= 1
    <3>1. PICK f \in {<<>>} \cup {<<o>> : o \in {owner} \cap OtherFrames} : frames' = f
      BY <1>2 DEF FeaturesAck
    <3>2. ASSUME f = <<>>
          PROVE  f \in Seq(Frames) /\ Len(f) <= 1
      BY <3>2
    <3>3. ASSUME NEW o \in OtherFrames, f = <<o>>
          PROVE  f \in Seq(Frames) /\ Len(f) <= 1
      BY <3>3 DEF Frames
    <3>4. f = <<>> \/ \E o \in OtherFrames : f = <<o>>
      OBVIOUS
    <3>5. f \in Seq(Frames) /\ Len(f) <= 1
      BY <3>2, <3>3, <3>4
    <3> QED BY <3>1, <3>5
  <2>5. TrafficPart'
    BY <1>2, <2>3, <2>4, BoundsAssumption, LenProperties DEF FeaturesAck, IInv, TrafficPart
  <2> QED BY <1>2, <2>3, <2>5 DEF FeaturesAck, IInv, PlayersPart, EarsPart, LinkPart, earVars, playerVars
<1>3. CASE LinkLost
  <2>1. TrafficPart'
    BY <1>3, BoundsAssumption DEF LinkLost, TrafficPart
  <2>2. owner' \in {"none", "here", "media", "call"}
    BY <1>3 DEF LinkLost, IInv, LinkPart
  <2> QED BY <1>3, <2>1, <2>2 DEF LinkLost, IInv, HandPart, PlayersPart, EarsPart, LinkPart,
                                  earVars, playerVars
<1>4. CASE Teardown
  <2>1. Pause \/ Play \/ NoPlayerCall
    BY <1>4 DEF Teardown
  <2>2. PlayersPart'
    BY <2>1, PlayerCalls DEF IInv
  <2> QED BY <1>4, <2>2 DEF Teardown, IInv, HandPart, EarsPart, LinkPart, TrafficPart, podsVars
<1> QED BY <1>1, <1>2, <1>3, <1>4

\* An audio-source frame arrives (main.cpp handleAudioSource).
LEMMA FrameArrivesStep ==
  ASSUME IInv, FrameArrives
  PROVE  IInv'
<1> DEFINE frame == Head(frames)
           h == OnAudioSource(hand, frame)
<1>1. frame \in Frames /\ frames' \in Seq(Frames) /\ Len(frames') = Len(frames) - 1
  BY HeadTailProperties DEF FrameArrives, IInv, TrafficPart
<1>2. h \in HandoffStates /\ (~Resumes(hand, frame) => HolderKnown(h))
  BY <1>1, OnAudioSourceFacts DEF IInv, HandPart
<1>3. Pause \/ Play \/ NoPlayerCall
  BY DEF FrameArrives
<1>4. PlayersPart'
  BY <1>3, PlayerCalls DEF IInv
<1>5. podsDefault' \in BOOLEAN
  BY DEF FrameArrives, Activate, IInv, LinkPart
<1>6. EarsPart' /\ LinkPart'
  BY <1>5 DEF FrameArrives, IInv, EarsPart, LinkPart, earVars
<1>7. CASE Resumes(hand, frame)
  <2>1. ~Interrupts(hand, frame)
    BY <1>7 DEF Resumes, Interrupts
  <2>2. SendClaim(NoteResumed(h))
    BY <1>7, <2>1 DEF FrameArrives
  <2>3. NoteResumed(h) \in HandoffStates /\ HolderKnown(NoteResumed(h))
    BY <1>2, NoteResumedFacts
  <2> HIDE DEF h, frame
  <2>4. HandPart' /\ wire' \in Seq({"claim", "release"}) /\ Len(wire') <= Len(wire) + 1
    BY <2>2, <2>3, SendClaimFacts DEF IInv
  <2>5. TrafficPart'
    BY <1>1, <2>4, BoundsAssumption, LenProperties DEF IInv, TrafficPart
  <2> QED BY <1>4, <1>6, <2>4, <2>5 DEF IInv
<1>8. CASE ~Resumes(hand, frame)
  <2>1. hand' = h /\ wire' = wire
    BY <1>8 DEF FrameArrives
  <2>2. TrafficPart'
    BY <1>1, <2>1, BoundsAssumption, LenProperties DEF IInv, TrafficPart
  <2> QED BY <1>2, <1>4, <1>6, <1>8, <2>1, <2>2 DEF IInv, HandPart
<1> QED BY <1>7, <1>8

\* A claim is fresh no more.
LEMMA ClaimAgesStep ==
  ASSUME IInv, ClaimAges
  PROVE  IInv'
<1>1. hand' = [localPlaying |-> hand.localPlaying, claimFresh |-> FALSE,
               interrupted |-> hand.interrupted, lastOther |-> hand.lastOther]
  BY DEF ClaimAges, IInv, HandPart, HandoffStates
<1>2. FALSE \in BOOLEAN
  OBVIOUS
<1>3. HandPart'
  BY <1>1, <1>2, HandoffFacts, HandoffMade DEF IInv, HandPart, HolderKnown
<1> QED BY <1>3 DEF ClaimAges, IInv, PlayersPart, EarsPart, LinkPart, TrafficPart, earVars,
                    playerVars, podsVars

\* The players, the pods and the other device; and a mark that lapses.
LEMMA OutsideSteps ==
  ASSUME IInv,
         MarkExpires \/ DefaultSinkMoves \/ PodsHear \/ OtherMoves
           \/ (\E p \in Players : UserPlays(p) \/ UserPauses(p))
  PROVE  IInv'
<1>1. CASE MarkExpires
  BY <1>1 DEF MarkExpires, IInv, HandPart, PlayersPart, EarsPart, LinkPart, TrafficPart, earVars,
              playerVars, podsVars
<1>2. CASE DefaultSinkMoves
  BY <1>2 DEF DefaultSinkMoves, IInv, HandPart, PlayersPart, EarsPart, LinkPart, TrafficPart,
              earVars, playerVars, podsVars
<1>3. CASE PodsHear
  <2>1. wire' \in Seq({"claim", "release"}) /\ Len(wire') = Len(wire) - 1
    BY <1>3, HeadTailProperties DEF PodsHear, IInv, TrafficPart
  <2>2. "here" \in Frames
    BY DEF Frames
  <2>3. frames' \in Seq(Frames) /\ Len(frames') <= Len(frames) + 1
    <3>0. frames \in Seq(Frames) /\ Len(frames) \in Nat
      BY LenProperties DEF IInv, TrafficPart
    <3>1. CASE frames' = Append(frames, "here")
      BY <2>2, <3>0, <3>1, AppendProperties
    <3>2. CASE frames' = frames
      BY <3>0, <3>2
    <3> QED BY <1>3, <3>1, <3>2 DEF PodsHear
  <2>4. TrafficPart'
    BY <2>1, <2>3, BoundsAssumption, LenProperties DEF IInv, TrafficPart
  <2>5. owner' \in {"none", "here", "media", "call"}
    BY <1>3 DEF PodsHear, IInv, LinkPart
  <2> QED BY <1>3, <2>4, <2>5 DEF PodsHear, IInv, HandPart, PlayersPart, EarsPart, LinkPart,
                                  earVars, playerVars
<1>4. CASE OtherMoves
  <2>1. PICK new \in OtherFrames \ {owner} :
          /\ owner' = new
          /\ IF link = "ready"
             THEN Traffic < MaxTraffic /\ frames' = Append(frames, new)
             ELSE UNCHANGED frames
    BY <1>4 DEF OtherMoves
  <2>2. new \in Frames /\ owner' \in {"none", "here", "media", "call"}
    BY <2>1 DEF OtherFrames, Frames
  <2>3. TrafficPart'
    <3>1. CASE link = "ready"
      <4>1. frames' = Append(frames, new) /\ Traffic < MaxTraffic
        BY <2>1, <3>1
      <4>2. frames' \in Seq(Frames) /\ Len(frames') = Len(frames) + 1
        BY <2>2, <4>1, AppendProperties DEF IInv, TrafficPart
      <4> QED BY <1>4, <4>1, <4>2, BoundsAssumption, LenProperties
              DEF OtherMoves, IInv, TrafficPart, Traffic
    <3>2. CASE link # "ready"
      BY <1>4, <2>1, <3>2 DEF OtherMoves, IInv, TrafficPart
    <3> QED BY <3>1, <3>2
  <2> QED BY <1>4, <2>2, <2>3 DEF OtherMoves, IInv, HandPart, PlayersPart, EarsPart, LinkPart,
                                  earVars, playerVars
<1>5. ASSUME NEW p \in Players, UserPlays(p) \/ UserPauses(p)
      PROVE  IInv'
  <2>1. PlayersPart'
    BY <1>5 DEF UserPlays, UserPauses, IInv, PlayersPart
  <2> QED BY <1>5, <2>1 DEF UserPlays, UserPauses, IInv, HandPart, EarsPart, LinkPart,
                            TrafficPart, earVars, podsVars
<1> QED BY <1>1, <1>2, <1>3, <1>4, <1>5

\* Nothing plays for anyone at the start.
LEMMA Initially ==
  ASSUME Init
  PROVE  IInv
<1>1. HandPart
  <2>1. FALSE \in BOOLEAN /\ "none" \in OtherFrames
    BY DEF OtherFrames
  <2> QED BY <2>1, HandoffMade DEF Init, HandPart, NoHandoff
<1>2. PlayersPart
  BY DEF Init, PlayersPart
<1>3. windows \in [live : 0 .. 1, stale : 0 .. MaxStale] /\ windows.live = 0
  BY BoundsAssumption DEF Init
<1>4. outPending \in BOOLEAN /\ ~outPending
  BY DEF Init
<1>5. EarsPart
  BY <1>3, <1>4 DEF Init, EarsPart
<1>6. LinkPart
  BY DEF Init, LinkPart, OtherFrames
<1>7. TrafficPart
  BY BoundsAssumption DEF Init, TrafficPart
<1> QED BY <1>1, <1>2, <1>5, <1>6, <1>7 DEF IInv

\* Every step keeps the strengthening.
LEMMA Inductive ==
  ASSUME IInv, [Next]_vars
  PROVE  IInv'
<1>1. CASE UNCHANGED vars
  BY <1>1 DEF vars, IInv, HandPart, PlayersPart, EarsPart, LinkPart, TrafficPart, earVars,
              playerVars, podsVars
<1> QED
  BY <1>1, MediaReportedStep, EarSteps, LinkSteps, FrameArrivesStep, ClaimAgesStep, OutsideSteps
  DEF Next, NextButPlayers

\* The strengthening holds throughout.
LEMMA Invariant == Spec => []IInv
<1>1. Init => IInv
  BY Initially
<1>2. IInv /\ [Next]_vars => IInv'
  BY Inductive
<1> QED BY <1>1, <1>2, PTL DEF Spec

\* Every variable keeps its type; the traffic and the superseded callbacks keep to their bounds.
THEOREM TypeCorrect == Spec => []TypeOK
BY Invariant, Implied, PTL

\* An open both-out window has exactly one callback that will end it, a closed one none, whatever
\* reports, settings and teardowns come between (MediaController::handleEarDetection).
THEOREM WindowServed == Spec => []OutWindowServed
BY Invariant, Implied, PTL

\* An interruption stands only while the other device is the last heard to hold the pods
\* (OpenPods::Handoff).
THEOREM InterruptionNeedsHolder == Spec => []InterruptedByAHolder
BY Invariant, Implied, PTL

-----------------------------------------------------------------------------
\* Who moves the pods, where no player refuses

ReportedIsKnown == ~unreported => hand.localPlaying = (playing # {})

\* A change that is not yet reported is the user's, or carries the daemon's mark.
MarkedUnlessTouched ==
  \/ touched \/ hand.localPlaying = (playing # {})
  \/ mark = (IF playing # {} THEN "playing" ELSE "paused")

MovesInv == IInv /\ ReportedIsKnown /\ MarkedUnlessTouched

\* With no refusal a pause leaves nothing playing, and marks it.
LEMMA PauseFacts ==
  ASSUME Refusing = {}, Pause
  PROVE  /\ playing' = {} /\ mark' = "paused" /\ UNCHANGED <<starter, touched>>
         /\ ~unreported' => ~unreported /\ playing = {}
<1>1. PICK refused \in SUBSET (playing \cap Refusing) :
        /\ mark' = "paused" /\ playing' = refused
        /\ unreported' = (unreported \/ playing # refused)
        /\ UNCHANGED <<starter, touched>>
  BY DEF Pause
<1>2. refused = {}
  OBVIOUS
<1>3. QED
  BY <1>1, <1>2

\* And a resume leaves something playing, marked, or was for no player.
LEMMA PlayFacts ==
  ASSUME Refusing = {}, Play
  PROVE  \/ UNCHANGED <<mark, playing, unreported, starter, touched>>
         \/ /\ playing' # {} /\ mark' = "playing" /\ UNCHANGED touched
            /\ ~unreported' => ~unreported /\ playing' = playing
            /\ starter' = IF playing = {} THEN "daemon" ELSE starter
<1>1. CASE pausedBy = {}
  BY <1>1 DEF Play, playerVars
<1>2. CASE pausedBy # {}
  <2>1. PICK refused \in SUBSET (pausedBy \cap Refusing) :
          /\ mark' = "playing"
          /\ playing' = playing \cup (pausedBy \ refused)
          /\ unreported' = (unreported \/ ~((pausedBy \ refused) \subseteq playing))
          /\ starter' = IF playing = {} /\ (pausedBy \ refused) # {} THEN "daemon" ELSE starter
          /\ UNCHANGED touched
    BY <1>2 DEF Play
  <2>2. pausedBy \ refused = pausedBy
    OBVIOUS
  <2>3. playing' # {} /\ starter' = IF playing = {} THEN "daemon" ELSE starter
    BY <1>2, <2>1, <2>2
  <2>4. ~unreported' => ~unreported /\ playing' = playing
    BY <2>1, <2>2
  <2>5. QED
    BY <2>1, <2>3, <2>4
<1>3. QED
  BY <1>1, <1>2

\* The calls to the players, with what is known here unchanged.
LEMMA CallsAreMarked ==
  ASSUME Refusing = {}, ReportedIsKnown, MarkedUnlessTouched, Pause \/ Play \/ NoPlayerCall,
         hand'.localPlaying = hand.localPlaying
  PROVE  ReportedIsKnown' /\ MarkedUnlessTouched'
<1>1. CASE Pause
  BY <1>1, PauseFacts DEF ReportedIsKnown, MarkedUnlessTouched
<1>2. CASE UNCHANGED <<mark, playing, unreported, starter, touched>>
  BY <1>2 DEF ReportedIsKnown, MarkedUnlessTouched
<1>3. CASE /\ playing' # {} /\ mark' = "playing" /\ UNCHANGED touched
           /\ ~unreported' => ~unreported /\ playing' = playing
  BY <1>3 DEF ReportedIsKnown, MarkedUnlessTouched
<1>4. NoPlayerCall => UNCHANGED <<mark, playing, unreported, starter, touched>>
  BY DEF NoPlayerCall, playerVars
<1>5. QED
  BY <1>1, <1>2, <1>3, <1>4, PlayFacts

\* What the operators of the handoff do to what is known here.
LEMMA KnownHere ==
  ASSUME NEW h \in HandoffStates
  PROVE  /\ \A p, origin : OnLocalMedia(h, p, origin).localPlaying = p
         /\ NoteClaimSent(h).localPlaying = h.localPlaying
         /\ NoteResumed(h).localPlaying = h.localPlaying
         /\ \A frame : OnAudioSource(h, frame).localPlaying = h.localPlaying
BY DEF HandoffStates, OnLocalMedia, NoteClaimSent, NoteResumed, OnAudioSource

\* Sending a claim does not change it either.
LEMMA SendClaimKnows ==
  ASSUME NEW h \in HandoffStates, SendClaim(h)
  PROVE  hand'.localPlaying = h.localPlaying
BY KnownHere DEF SendClaim

\* Every step keeps what is known of the players.
LEMMA MovesInductive ==
  ASSUME Refusing = {}, MovesInv, [Next]_vars
  PROVE  MovesInv'
<1>i. IInv'
  BY Inductive DEF MovesInv
<1>t. /\ hand \in HandoffStates /\ ReportedIsKnown /\ MarkedUnlessTouched
      /\ \A p \in BOOLEAN : \A origin : OnLocalMedia(hand, p, origin) \in HandoffStates
  BY OnLocalMediaFacts DEF MovesInv, IInv, HandPart
<1> DEFINE Goal == ReportedIsKnown' /\ MarkedUnlessTouched'
<1>1. ASSUME MediaReported PROVE Goal
  <2> DEFINE h == OnLocalMedia(hand, playing # {}, Origin)
  <2>1. SendClaim(h) \/ hand' = h
    BY <1>1 DEF MediaReported
  <2>2. h \in HandoffStates /\ h.localPlaying = (playing # {})
    <3>1. PICK p \in BOOLEAN : p = (playing # {})
      OBVIOUS
    <3>2. h = OnLocalMedia(hand, p, Origin)
      BY <3>1
    <3>3. h \in HandoffStates /\ h.localPlaying = p
      BY <1>t, <3>2, KnownHere
    <3>4. QED
      BY <3>1, <3>3
  <2> HIDE DEF h
  <2>3. hand'.localPlaying = (playing # {}) /\ playing' = playing
    BY <1>1, <2>1, <2>2, SendClaimKnows DEF MediaReported
  <2>4. QED
    BY <2>3 DEF ReportedIsKnown, MarkedUnlessTouched
<1>2. ASSUME MarkExpires PROVE Goal
  BY <1>2, <1>t DEF MarkExpires, playerVars, ReportedIsKnown, MarkedUnlessTouched
<1>3. ASSUME FeaturesAck PROVE Goal
  <2>1. CASE playing = {}
    BY <1>3, <1>t, <2>1 DEF FeaturesAck, playerVars, ReportedIsKnown, MarkedUnlessTouched
  <2>2. CASE playing # {}
    <3>1. SendClaim(OnLocalMedia(hand, TRUE, "user"))
      BY <1>3, <2>2 DEF FeaturesAck
    <3>2. hand'.localPlaying = TRUE
      <4>1. OnLocalMedia(hand, TRUE, "user") \in HandoffStates
        BY <1>t
      <4>2. OnLocalMedia(hand, TRUE, "user").localPlaying = TRUE
        BY <1>t, KnownHere
      <4>3. QED
        BY <3>1, <4>1, <4>2, SendClaimKnows
    <3>3. QED
      BY <1>3, <2>2, <3>2 DEF FeaturesAck, playerVars, ReportedIsKnown, MarkedUnlessTouched
  <2>3. QED
    BY <2>1, <2>2
<1>4. ASSUME FrameArrives PROVE Goal
  <2> DEFINE h == OnAudioSource(hand, Head(frames))
  <2>1. hand' = h \/ SendClaim(NoteResumed(h))
    BY <1>4 DEF FrameArrives
  <2>2. h \in HandoffStates /\ h.localPlaying = hand.localPlaying
    <3>1. Head(frames) \in Frames
      BY <1>4, HeadTailProperties DEF FrameArrives, MovesInv, IInv, TrafficPart
    <3>2. QED
      BY <1>t, <3>1, KnownHere, OnAudioSourceFacts DEF MovesInv, IInv, HandPart
  <2> HIDE DEF h
  <2>3. hand'.localPlaying = hand.localPlaying
    BY <2>1, <2>2, KnownHere, NoteResumedFacts, SendClaimKnows
  <2>4. Pause \/ Play \/ NoPlayerCall
    BY <1>4 DEF FrameArrives
  <2>5. QED
    BY <1>t, <2>3, <2>4, CallsAreMarked
<1>5. ASSUME ClaimAges PROVE Goal
  <2>1. hand'.localPlaying = hand.localPlaying
    BY <1>5, <1>t DEF ClaimAges, HandoffStates
  <2>2. QED
    BY <1>5, <1>t, <2>1 DEF ClaimAges, playerVars, ReportedIsKnown, MarkedUnlessTouched
<1>6. ASSUME OutWindowEnds \/ Teardown \/ \E n \in 1 .. 2 : InEarReported(n) PROVE Goal
  <2>1. hand' = hand /\ (Pause \/ Play \/ NoPlayerCall)
    BY <1>6 DEF OutWindowEnds, Teardown, InEarReported
  <2>2. QED
    BY <1>t, <2>1, CallsAreMarked
<1>7. ASSUME NEW p \in Players, UserPlays(p) \/ UserPauses(p) PROVE Goal
  BY <1>7 DEF UserPlays, UserPauses, ReportedIsKnown, MarkedUnlessTouched
<1>8. ASSUME UNCHANGED <<hand, mark, playerVars>> PROVE Goal
  BY <1>8, <1>t DEF playerVars, ReportedIsKnown, MarkedUnlessTouched
<1>9. BothOutReported \/ (\E n \in 0 .. 2 : EarsNoted(n)) \/ StaleWindowEnds
        \/ SetEarDetectionBehavior \/ LinkOpens \/ LinkLost \/ DefaultSinkMoves \/ PodsHear
        \/ OtherMoves \/ UNCHANGED vars
        => UNCHANGED <<hand, mark, playerVars>>
  BY DEF BothOutReported, EarsNoted, StaleWindowEnds, SetEarDetectionBehavior, LinkOpens, LinkLost,
         DefaultSinkMoves, PodsHear, OtherMoves, vars
<1>10. QED
  BY <1>i, <1>1, <1>2, <1>3, <1>4, <1>5, <1>6, <1>7, <1>8, <1>9 DEF Next, NextButPlayers, MovesInv

\* So every state has it.
LEMMA MovesInvariant ==
  ASSUME Refusing = {}
  PROVE  Spec => []MovesInv
<1>1. Init => MovesInv
  <2>1. ASSUME Init PROVE ReportedIsKnown /\ MarkedUnlessTouched
    <3>1. hand.localPlaying = FALSE /\ unreported = (playing # {}) /\ touched = (playing # {})
      BY <2>1 DEF Init, NoHandoff
    <3>2. CASE playing = {}
      BY <3>1, <3>2 DEF ReportedIsKnown, MarkedUnlessTouched
    <3>3. CASE playing # {}
      BY <3>1, <3>3 DEF ReportedIsKnown, MarkedUnlessTouched
    <3>4. QED
      BY <3>2, <3>3
  <2>2. QED
    BY <2>1, Initially DEF MovesInv
<1>2. MovesInv /\ [Next]_vars => MovesInv'
  BY MovesInductive
<1>3. QED
  BY <1>1, <1>2, PTL DEF Spec

\* What the daemon's own pauses and resumes cause to be reported sends nothing to the pods, for any
\* players that obey: a claim or a release follows a change the user made (README.md).
THEOREM UserMovesThePods ==
  ASSUME Refusing = {}
  PROVE  Spec => OnlyTheUserMovesThePods
<1>1. ASSUME MovesInv, MediaReported PROVE wire' = wire \/ touched
  <2>1. CASE hand.localPlaying = (playing # {})
    BY <1>1, <2>1 DEF MediaReported, MediaWire
  <2>2. CASE mark = (IF playing # {} THEN "playing" ELSE "paused")
    BY <1>1, <2>2 DEF MediaReported, MediaWire, Origin
  <2>3. QED
    BY <1>1, <2>1, <2>2 DEF MovesInv, MarkedUnlessTouched
<1>2. MovesInv => [MediaReported => wire' = wire \/ touched]_vars
  BY <1>1
<1>3. QED
  BY <1>2, MovesInvariant, PTL DEF OnlyTheUserMovesThePods

-----------------------------------------------------------------------------
\* Who holds the pods while what the user started plays here

\* What plays here was started by the user, and the daemon knows of it.
Mine == playing # {} /\ starter = "user" /\ hand.localPlaying

HeardAs(frame) == IF frame = "here" THEN "none" ELSE frame

\* The claim that is still fresh, and the last other holder heard, when the i-th frame arrives.
FreshAt(h, seq, i) == h.claimFresh /\ \A j \in 1 .. (i - 1) : seq[j] # "here"
OtherAt(h, seq, i) == IF i = 1 THEN h.lastOther ELSE HeardAs(seq[i - 1])

\* One of the frames on their way will interrupt what plays here.
WillInterrupt(h, seq) ==
  \E i \in DOMAIN seq :
    \/ seq[i] = "call"
    \/ seq[i] = "media" /\ ~FreshAt(h, seq, i) /\ OtherAt(h, seq, i) = "none"

\* Once they have arrived no other device is known to hold the pods, and no claim is fresh: the next
\* device that takes them will interrupt.
LetGo(h, seq) ==
  /\ (IF seq = <<>> THEN h.lastOther ELSE HeardAs(seq[Len(seq)])) = "none"
  /\ h.claimFresh => \E i \in DOMAIN seq : seq[i] = "here"

\* What the user plays is claimed for: by a claim under way, or by one the pods have heard, and
\* then either nobody took them since or the frame that tells of it is under way.
MineIsClaimed ==
  Mine =>
    /\ ~hand.interrupted
    /\ link = "ready" =>
         \/ wire # <<>> /\ wire[Len(wire)] = "claim"
         \/ /\ wire = <<>>
            /\ \/ WillInterrupt(hand, frames)
               \/ owner \in {"here", "none"} /\ LetGo(hand, frames)

\* One frame more: it interrupts if it takes the pods, and an interruption on its way stays so.
LEMMA FrameSent ==
  ASSUME NEW h, NEW seq \in Seq(Frames), NEW frame \in Frames
  PROVE  /\ WillInterrupt(h, seq) => WillInterrupt(h, Append(seq, frame))
         /\ frame = "here" => LetGo(h, Append(seq, frame))
         /\ LetGo(h, seq) => \/ WillInterrupt(h, Append(seq, frame))
                             \/ frame \in {"here", "none"} /\ LetGo(h, Append(seq, frame))
<1> DEFINE n == Len(seq)
<1> DEFINE more == Append(seq, frame)
<1>1. /\ n \in Nat /\ DOMAIN seq = 1 .. n /\ DOMAIN more = 1 .. (n + 1) /\ Len(more) = n + 1
      /\ more # <<>> /\ (seq = <<>> <=> n = 0)
      /\ \A i \in 1 .. n : more[i] = seq[i]
      /\ more[n + 1] = frame
  OBVIOUS
<1> HIDE DEF n, more
<1>2. ASSUME WillInterrupt(h, seq) PROVE WillInterrupt(h, more)
  <2>1. PICK i \in 1 .. n :
          \/ seq[i] = "call"
          \/ seq[i] = "media" /\ ~FreshAt(h, seq, i) /\ OtherAt(h, seq, i) = "none"
    BY <1>1, <1>2 DEF WillInterrupt
  <2>2. i \in 1 .. (n + 1) /\ more[i] = seq[i]
    BY <1>1
  <2>3. \A j \in 1 .. (i - 1) : more[j] = seq[j]
    BY <1>1
  <2>4. FreshAt(h, more, i) => FreshAt(h, seq, i)
    BY <2>3 DEF FreshAt
  <2>5. OtherAt(h, more, i) = OtherAt(h, seq, i)
    BY <1>1, <2>3 DEF OtherAt
  <2>6. QED
    BY <1>1, <2>1, <2>2, <2>4, <2>5 DEF WillInterrupt
<1>3. ASSUME frame = "here" PROVE LetGo(h, more)
  <2>1. n + 1 \in DOMAIN more
    BY <1>1
  <2>2. QED
    BY <1>1, <1>3, <2>1 DEF LetGo, HeardAs
<1>4. ASSUME LetGo(h, seq)
      PROVE  WillInterrupt(h, more) \/ (frame \in {"here", "none"} /\ LetGo(h, more))
  <2>0. n + 1 \in DOMAIN more
    BY <1>1
  <2>1. CASE frame = "here"
    BY <1>3, <2>1
  <2>2. CASE frame = "none"
    <3>1. h.claimFresh => \E i \in DOMAIN more : more[i] = "here"
      BY <1>1, <1>4 DEF LetGo
    <3>2. HeardAs(more[n + 1]) = "none"
      BY <1>1, <2>2 DEF HeardAs
    <3>3. QED
      BY <1>1, <2>2, <3>1, <3>2 DEF LetGo
  <2>3. CASE frame = "call"
    BY <1>1, <2>0, <2>3 DEF WillInterrupt
  <2>4. CASE frame = "media"
    <3>1. ~FreshAt(h, more, n + 1)
      <4>1. CASE h.claimFresh
        <5>1. PICK i \in 1 .. n : seq[i] = "here"
          BY <1>1, <1>4, <4>1 DEF LetGo
        <5>2. i \in 1 .. ((n + 1) - 1) /\ more[i] = "here"
          BY <1>1, <5>1
        <5>3. QED
          BY <5>2 DEF FreshAt
      <4>2. CASE ~h.claimFresh
        BY <4>2 DEF FreshAt
      <4>3. QED
        BY <4>1, <4>2
    <3>2. OtherAt(h, more, n + 1) = "none"
      <4>1. CASE n = 0
        BY <1>1, <1>4, <4>1 DEF LetGo, OtherAt
      <4>2. CASE n # 0
        <5>1. n + 1 # 1 /\ (n + 1) - 1 = n /\ more[n] = seq[n]
          BY <1>1, <4>2
        <5>2. HeardAs(seq[n]) = "none"
          BY <1>1, <1>4, <4>2 DEF LetGo, n
        <5>3. QED
          BY <5>1, <5>2 DEF OtherAt
      <4>3. QED
        BY <4>1, <4>2
    <3>3. QED
      BY <1>1, <2>0, <2>4, <3>1, <3>2 DEF WillInterrupt
  <2>5. QED
    BY <2>1, <2>2, <2>3, <2>4 DEF Frames, OtherFrames
<1>5. QED
  BY <1>2, <1>3, <1>4 DEF more

\* The first frame arrives and does not interrupt: what the rest does is as before.
LEMMA FrameHeard ==
  ASSUME NEW h \in HandoffStates, NEW seq \in Seq(Frames), seq # <<>>,
         h.localPlaying, ~h.interrupted, ~Interrupts(h, Head(seq)),
         NEW next, next = OnAudioSource(h, Head(seq))
  PROVE  /\ WillInterrupt(h, seq) => WillInterrupt(next, Tail(seq))
         /\ LetGo(h, seq) => LetGo(next, Tail(seq))
<1> DEFINE n == Len(seq)
<1> DEFINE rest == Tail(seq)
<1>1. /\ n \in Nat \ {0} /\ DOMAIN seq = 1 .. n /\ DOMAIN rest = 1 .. (n - 1)
      /\ Len(rest) = n - 1 /\ (rest = <<>> <=> n = 1)
      /\ \A i \in 1 .. (n - 1) : rest[i] = seq[i + 1]
      /\ Head(seq) = seq[1] /\ seq[1] \in Frames
  <2>1. n \in Nat \ {0} /\ DOMAIN seq = 1 .. n /\ 1 \in DOMAIN seq
    OBVIOUS
  <2>2. rest \in Seq(Frames) /\ Len(rest) = n - 1
    OBVIOUS
  <2>3. DOMAIN rest = 1 .. (n - 1) /\ (rest = <<>> <=> n = 1)
    <3>1. \A q \in Seq(Frames) : DOMAIN q = 1 .. Len(q) /\ (q = <<>> <=> Len(q) = 0)
      OBVIOUS
    <3> HIDE DEF n, rest
    <3>2. DOMAIN rest = 1 .. Len(rest) /\ (rest = <<>> <=> Len(rest) = 0)
      BY <2>2, <3>1
    <3>3. QED
      BY <2>1, <2>2, <3>2
  <2>4. \A i \in 1 .. (n - 1) : rest[i] = seq[i + 1]
    OBVIOUS
  <2>5. Head(seq) = seq[1] /\ seq[1] \in Frames
    BY <2>1
  <2>6. QED
    BY <2>1, <2>2, <2>3, <2>4, <2>5
<1>2. /\ next.claimFresh <=> h.claimFresh /\ seq[1] # "here"
      /\ next.lastOther = HeardAs(seq[1])
  <2>1. h.claimFresh \in BOOLEAN
    BY HandoffFacts
  <2>2. CASE seq[1] = "here"
    <3>1. next.claimFresh = FALSE /\ next.lastOther = "none"
      BY <1>1, <2>2 DEF OnAudioSource, HandoffStates
    <3>2. QED
      BY <2>2, <3>1 DEF HeardAs
  <2>3. CASE seq[1] # "here"
    <3>1. next = [h EXCEPT !.lastOther = seq[1], !.interrupted = @ \/ Interrupts(h, seq[1])]
      BY <1>1, <2>3 DEF OnAudioSource
    <3>2. next.claimFresh = h.claimFresh /\ next.lastOther = seq[1]
      BY <3>1 DEF HandoffStates
    <3>3. QED
      BY <2>3, <3>2 DEF HeardAs
  <2>4. QED
    BY <2>2, <2>3
<1> HIDE DEF n, rest
<1>3. ASSUME WillInterrupt(h, seq) PROVE WillInterrupt(next, rest)
  <2>1. PICK i \in 1 .. n :
          \/ seq[i] = "call"
          \/ seq[i] = "media" /\ ~FreshAt(h, seq, i) /\ OtherAt(h, seq, i) = "none"
    BY <1>1, <1>3 DEF WillInterrupt
  <2>2. i # 1
    <3>1. ASSUME i = 1 PROVE FALSE
      <4>1. \A j \in 1 .. (1 - 1) : FALSE
        OBVIOUS
      <4>2. FreshAt(h, seq, 1) <=> h.claimFresh
        BY <4>1 DEF FreshAt
      <4>3. OtherAt(h, seq, 1) = h.lastOther
        BY DEF OtherAt
      <4>4. Interrupts(h, seq[1])
        BY <2>1, <3>1, <4>2, <4>3 DEF Interrupts
      <4>5. QED
        BY <1>1, <4>4
    <3>2. QED
      BY <3>1
  <2>3. PICK k \in 1 .. (n - 1) : i = k + 1
    BY <1>1, <2>2
  <2>4. rest[k] = seq[i] /\ k \in DOMAIN rest
    BY <1>1, <2>3
  <2>5. FreshAt(next, rest, k) => FreshAt(h, seq, i)
    <3>1. ASSUME FreshAt(next, rest, k), NEW j \in 1 .. (i - 1) PROVE seq[j] # "here"
      <4>1. CASE j = 1
        BY <1>2, <3>1, <4>1 DEF FreshAt
      <4>2. CASE j # 1
        <5>1. j - 1 \in 1 .. (k - 1) /\ j - 1 \in 1 .. (n - 1) /\ (j - 1) + 1 = j
          BY <1>1, <2>3, <4>2
        <5>2. rest[j - 1] = seq[j]
          BY <1>1, <5>1
        <5>3. QED
          BY <3>1, <5>1, <5>2 DEF FreshAt
      <4>3. QED
        BY <4>1, <4>2
    <3>2. QED
      BY <1>2, <3>1 DEF FreshAt
  <2>6. OtherAt(next, rest, k) = OtherAt(h, seq, i)
    <3>1. i - 1 = k /\ i # 1
      BY <2>3
    <3>2. CASE k = 1
      BY <1>2, <3>1, <3>2 DEF OtherAt
    <3>3. CASE k # 1
      <4>1. k - 1 \in 1 .. (n - 1) /\ (k - 1) + 1 = k
        BY <1>1, <3>3
      <4>2. rest[k - 1] = seq[k]
        BY <1>1, <4>1
      <4>3. QED
        BY <3>1, <3>3, <4>2 DEF OtherAt
    <3>4. QED
      BY <3>2, <3>3
  <2>7. QED
    BY <2>1, <2>4, <2>5, <2>6 DEF WillInterrupt
<1>4. ASSUME LetGo(h, seq) PROVE LetGo(next, rest)
  <2>1. seq # <<>> /\ HeardAs(seq[n]) = "none"
    BY <1>4 DEF LetGo, n
  <2>2. (IF rest = <<>> THEN next.lastOther ELSE HeardAs(rest[Len(rest)])) = "none"
    <3>1. CASE n = 1
      BY <1>1, <1>2, <2>1, <3>1
    <3>2. CASE n # 1
      <4>1. n - 1 \in 1 .. (n - 1) /\ (n - 1) + 1 = n
        BY <1>1, <3>2
      <4>2. rest[Len(rest)] = seq[n]
        BY <1>1, <4>1
      <4>3. QED
        BY <1>1, <2>1, <3>2, <4>2
    <3>3. QED
      BY <3>1, <3>2
  <2>3. ASSUME next.claimFresh PROVE \E i \in DOMAIN rest : rest[i] = "here"
    <3>1. PICK i \in 1 .. n : seq[i] = "here"
      BY <1>1, <1>2, <1>4, <2>3 DEF LetGo
    <3>2. i - 1 \in 1 .. (n - 1) /\ (i - 1) + 1 = i
      BY <1>1, <1>2, <2>3, <3>1
    <3>3. QED
      BY <1>1, <3>1, <3>2
  <2>4. QED
    BY <2>2, <2>3 DEF LetGo
<1>5. QED
  BY <1>3, <1>4 DEF rest

\* No call of the daemon's makes what plays here the user's.
LEMMA CallsMakeNoneMine ==
  ASSUME Refusing = {}, Pause \/ Play \/ NoPlayerCall, playing' # {}, starter' = "user"
  PROVE  playing # {} /\ starter = "user"
<1>1. NoPlayerCall => UNCHANGED <<playing, starter>>
  BY DEF NoPlayerCall, playerVars
<1>2. QED
  BY <1>1, PauseFacts, PlayFacts

\* A claim goes to the end of the wire.
LEMMA ClaimIsLast ==
  ASSUME NEW h \in HandoffStates, SendClaim(h), wire \in Seq({"claim", "release"})
  PROVE  /\ hand'.interrupted = h.interrupted
         /\ Connected => wire' # <<>> /\ wire'[Len(wire')] = "claim"
<1>1. NoteClaimSent(h).interrupted = h.interrupted
  BY DEF NoteClaimSent, HandoffStates
<1>2. hand'.interrupted = h.interrupted
  BY <1>1 DEF SendClaim
<1>3. ASSUME Connected PROVE wire' # <<>> /\ wire'[Len(wire')] = "claim"
  <2>1. wire' = Append(wire, "claim")
    BY <1>3 DEF SendClaim
  <2>2. QED
    BY <2>1
<1>4. QED
  BY <1>2, <1>3

\* Playback that was not known here ends an interruption, playback that was changes nothing.
LEMMA PlaysHere ==
  ASSUME NEW h \in HandoffStates
  PROVE  /\ \A origin : h.localPlaying => OnLocalMedia(h, TRUE, origin) = h
         /\ ~h.localPlaying => OnLocalMedia(h, TRUE, "user").interrupted = FALSE
<1>1. ASSUME NEW origin, h.localPlaying PROVE OnLocalMedia(h, TRUE, origin) = h
  <2>1. MediaWire(h, TRUE, origin) = "none" /\ h.localPlaying = TRUE
    BY <1>1, HandoffFacts DEF MediaWire
  <2>2. OnLocalMedia(h, TRUE, origin) =
          [h EXCEPT !.localPlaying = TRUE, !.interrupted = @ /\ TRUE]
    BY <2>1 DEF OnLocalMedia
  <2>3. (h.interrupted /\ TRUE) = h.interrupted
    BY HandoffFacts
  <2>4. QED
    BY <2>1, <2>2, <2>3 DEF HandoffStates
<1>2. ASSUME ~h.localPlaying PROVE OnLocalMedia(h, TRUE, "user").interrupted = FALSE
  <2>1. MediaWire(h, TRUE, "user") = "claim"
    BY <1>2 DEF MediaWire
  <2>2. QED
    BY <2>1 DEF OnLocalMedia, HandoffStates
<1>3. QED
  BY <1>1, <1>2

\* Every step keeps the claim with the playback it is for.
LEMMA MineInductive ==
  ASSUME Refusing = {}, MovesInv, MineIsClaimed, [Next]_vars
  PROVE  MineIsClaimed'
<1>t. /\ hand \in HandoffStates /\ OnLocalMedia(hand, TRUE, "user") \in HandoffStates
      /\ frames \in Seq(Frames) /\ wire \in Seq({"claim", "release"})
  BY OnLocalMediaFacts DEF MovesInv, IInv, HandPart, TrafficPart
<1>1. ASSUME UNCHANGED <<hand, link, wire, frames, owner>>, Mine' => Mine PROVE MineIsClaimed'
  BY <1>1 DEF MineIsClaimed
<1>2. ASSUME hand' = hand, link' # "ready", Mine' => Mine PROVE MineIsClaimed'
  BY <1>2 DEF MineIsClaimed
<1>3. ASSUME hand' = hand, Pause \/ Play \/ NoPlayerCall, Mine' PROVE Mine
  BY <1>3, CallsMakeNoneMine DEF Mine
<1>4. ASSUME hand' = hand, UNCHANGED playerVars PROVE Mine' => Mine
  BY <1>4 DEF Mine, playerVars
<1>5. ASSUME MediaReported, Mine' PROVE MineIsClaimed'
  <2>1. /\ playing # {} /\ playing' = playing /\ starter = "user" /\ Origin = "user"
        /\ UNCHANGED <<link, frames, owner>>
    BY <1>5 DEF MediaReported, Mine, Origin, podsVars
  <2>2. MediaWire(hand, playing # {}, Origin) = MediaWire(hand, TRUE, "user")
        /\ OnLocalMedia(hand, playing # {}, Origin) = OnLocalMedia(hand, TRUE, "user")
    <3>1. (playing # {}) = TRUE
      BY <2>1
    <3>2. QED
      BY <2>1, <3>1
  <2>3. CASE hand.localPlaying
    <3>1. MediaWire(hand, TRUE, "user") = "none"
      BY <1>t, <2>3, HandoffFacts DEF MediaWire
    <3>2. hand' = hand /\ wire' = wire
      BY <1>5, <1>t, <2>2, <2>3, <3>1, PlaysHere DEF MediaReported
    <3>3. QED
      BY <1>1, <2>1, <2>3, <3>2 DEF Mine
  <2>4. CASE ~hand.localPlaying
    <3>1. MediaWire(hand, TRUE, "user") = "claim"
      BY <2>4 DEF MediaWire
    <3>2. SendClaim(OnLocalMedia(hand, TRUE, "user"))
      BY <1>5, <2>2, <3>1 DEF MediaReported
    <3>3. hand'.interrupted = FALSE
          /\ (Connected => wire' # <<>> /\ wire'[Len(wire')] = "claim")
      BY <1>t, <2>4, <3>2, ClaimIsLast, PlaysHere
    <3>4. QED
      BY <2>1, <3>3 DEF MineIsClaimed, Connected
  <2>5. QED
    BY <2>3, <2>4
<1>6. ASSUME FeaturesAck, Mine' PROVE MineIsClaimed'
  <2>1. playing # {} /\ starter = "user" /\ Connected
    BY <1>6 DEF FeaturesAck, Mine, playerVars, Connected
  <2>2. SendClaim(OnLocalMedia(hand, TRUE, "user"))
    BY <1>6, <2>1 DEF FeaturesAck
  <2>3. hand'.interrupted = OnLocalMedia(hand, TRUE, "user").interrupted
        /\ wire' # <<>> /\ wire'[Len(wire')] = "claim"
    BY <1>t, <2>1, <2>2, ClaimIsLast
  <2>4. ~OnLocalMedia(hand, TRUE, "user").interrupted
    <3>1. CASE hand.localPlaying
      BY <1>t, <2>1, <3>1, PlaysHere DEF MineIsClaimed, Mine
    <3>2. CASE ~hand.localPlaying
      BY <1>t, <3>2, PlaysHere
    <3>3. QED
      BY <3>1, <3>2
  <2>5. QED
    BY <2>3, <2>4 DEF MineIsClaimed
<1>7. ASSUME FrameArrives, Mine' PROVE MineIsClaimed'
  <2> DEFINE h == OnAudioSource(hand, Head(frames))
  <2>1. /\ link = "ready" /\ frames # <<>> /\ frames' = Tail(frames) /\ UNCHANGED <<link, owner>>
        /\ Head(frames) \in Frames
    BY <1>7, <1>t, HeadTailProperties DEF FrameArrives
  <2>2. h \in HandoffStates /\ h.localPlaying = hand.localPlaying
    BY <1>t, <2>1, KnownHere, OnAudioSourceFacts DEF MovesInv, IInv, HandPart
  <2>3. CASE Interrupts(hand, Head(frames))
    <3>1. ~Resumes(hand, Head(frames))
      BY <2>3 DEF Interrupts, Resumes
    <3>2. Pause
      BY <1>7, <2>3, <3>1 DEF FrameArrives
    <3>3. QED
      BY <1>7, <3>2, PauseFacts DEF Mine
  <2>4. CASE Resumes(hand, Head(frames))
    <3>1. SendClaim(NoteResumed(h)) /\ Play /\ hand.interrupted
      BY <1>7, <2>4 DEF FrameArrives, Interrupts, Resumes
    <3> HIDE DEF h
    <3>2. hand'.localPlaying = hand.localPlaying
      BY <2>2, <3>1, KnownHere, NoteResumedFacts, SendClaimKnows
    <3>3. Mine
      BY <1>7, <3>1, <3>2, CallsMakeNoneMine DEF Mine
    <3>4. QED
      BY <3>1, <3>3 DEF MineIsClaimed
  <2>5. CASE ~Interrupts(hand, Head(frames)) /\ ~Resumes(hand, Head(frames))
    <3>1. hand' = h /\ NoPlayerCall /\ wire' = wire
      BY <1>7, <2>5 DEF FrameArrives
    <3>2. Mine
      BY <1>7, <2>2, <3>1, CallsMakeNoneMine DEF Mine
    <3>3. hand.localPlaying /\ ~hand.interrupted
      BY <3>2 DEF Mine, MineIsClaimed
    <3>4. /\ WillInterrupt(hand, frames) => WillInterrupt(h, frames')
          /\ LetGo(hand, frames) => LetGo(h, frames')
      BY <1>t, <2>1, <2>5, <3>3, FrameHeard
    <3>5. ~h.interrupted
      BY <1>t, <2>5, <3>3 DEF OnAudioSource, HandoffStates
    <3>6. QED
      BY <2>1, <3>1, <3>2, <3>4, <3>5 DEF MineIsClaimed
  <2>6. QED
    BY <2>3, <2>4, <2>5
<1>8. ASSUME ClaimAges, Mine' PROVE MineIsClaimed'
  <2>1. /\ frames = <<>> /\ wire = <<>> /\ hand' = [hand EXCEPT !.claimFresh = FALSE]
        /\ UNCHANGED <<link, frames, wire, owner, playing, starter>>
    BY <1>8 DEF ClaimAges, playerVars, podsVars
  <2>2. /\ hand'.localPlaying = hand.localPlaying /\ hand'.interrupted = hand.interrupted
        /\ hand'.lastOther = hand.lastOther /\ hand'.claimFresh = FALSE
    BY <1>t, <2>1 DEF HandoffStates
  <2>3. Mine
    BY <1>8, <2>1, <2>2 DEF Mine
  <2>4. ~WillInterrupt(hand, frames)
    BY <2>1 DEF WillInterrupt
  <2>5. LetGo(hand, frames) => LetGo(hand', frames')
    BY <2>1, <2>2 DEF LetGo
  <2>6. QED
    BY <2>1, <2>2, <2>3, <2>4, <2>5 DEF MineIsClaimed
<1>9. ASSUME PodsHear, Mine' PROVE MineIsClaimed'
  <2>1. link = "ready" /\ wire # <<>> /\ wire' = Tail(wire) /\ UNCHANGED <<hand, link>> /\ Mine
    BY <1>9 DEF PodsHear, Mine, playerVars
  <2>2. ~hand.interrupted /\ wire[Len(wire)] = "claim"
    BY <2>1 DEF MineIsClaimed
  <2>3. Len(wire) \in Nat \ {0} /\ Len(wire') = Len(wire) - 1 /\ wire' \in Seq({"claim", "release"})
    BY <1>t, <2>1
  <2>4. CASE Len(wire) = 1
    <3>1. wire' = <<>> /\ Head(wire) = "claim"
      BY <1>t, <2>1, <2>2, <2>3, <2>4
    <3>2. owner' = "here" /\ frames' = Append(frames, "here")
      BY <1>9, <3>1 DEF PodsHear
    <3>3. LetGo(hand, frames')
      BY <1>t, <3>2, FrameSent DEF Frames
    <3>4. QED
      BY <2>1, <2>2, <3>1, <3>2, <3>3 DEF MineIsClaimed
  <2>5. CASE Len(wire) # 1
    <3>1. wire' # <<>> /\ wire'[Len(wire')] = wire[Len(wire)]
      <4>1. \A i \in 1 .. (Len(wire) - 1) : Tail(wire)[i] = wire[i + 1]
        BY <1>t, <2>1
      <4>2. Len(wire) - 1 \in 1 .. (Len(wire) - 1) /\ (Len(wire) - 1) + 1 = Len(wire)
        BY <2>3, <2>5
      <4>3. wire'[Len(wire')] = wire[Len(wire)]
        BY <2>1, <2>3, <4>1, <4>2
      <4>4. wire' # <<>>
        BY <2>3, <4>2
      <4>5. QED
        BY <4>3, <4>4
    <3>2. QED
      BY <2>1, <2>2, <3>1 DEF MineIsClaimed
  <2>6. QED
    BY <2>4, <2>5
<1>10. ASSUME OtherMoves, Mine' PROVE MineIsClaimed'
  <2>1. PICK new \in OtherFrames :
          /\ owner' = new
          /\ IF link = "ready" THEN frames' = Append(frames, new) ELSE UNCHANGED frames
    BY <1>10 DEF OtherMoves
  <2>2. UNCHANGED <<hand, link, wire>> /\ Mine
    BY <1>10 DEF OtherMoves, Mine, playerVars
  <2>3. CASE link = "ready"
    <3>1. new \in Frames /\ new # "here" /\ frames' = Append(frames, new)
      BY <2>1, <2>3 DEF Frames, OtherFrames
    <3>2. /\ WillInterrupt(hand, frames) => WillInterrupt(hand, frames')
          /\ LetGo(hand, frames) => \/ WillInterrupt(hand, frames')
                                    \/ new = "none" /\ LetGo(hand, frames')
      BY <1>t, <3>1, FrameSent
    <3>3. QED
      BY <2>1, <2>2, <2>3, <3>2 DEF MineIsClaimed
  <2>4. CASE link # "ready"
    BY <1>2, <2>2, <2>4
  <2>5. QED
    BY <2>3, <2>4
<1>11. ASSUME NEW p \in Players, UserPlays(p) PROVE MineIsClaimed'
  <2>1. UNCHANGED <<hand, link, wire, frames, owner>>
    BY <1>11 DEF UserPlays, podsVars
  <2>2. ASSUME Mine' PROVE Mine
    BY <1>11, <2>1, <2>2 DEF UserPlays, Mine
  <2>3. QED
    BY <1>1, <2>1, <2>2
<1>12. ASSUME NEW p \in Players, UserPauses(p) PROVE MineIsClaimed'
  <2>1. UNCHANGED <<hand, link, wire, frames, owner, starter>> /\ playing' = playing \ {p}
    BY <1>12 DEF UserPauses, podsVars
  <2>2. QED
    BY <1>1, <2>1 DEF Mine
<1>13. ASSUME OutWindowEnds \/ \E n \in 1 .. 2 : InEarReported(n) PROVE MineIsClaimed'
  <2>1. UNCHANGED <<hand, link, wire, frames, owner>> /\ (Pause \/ Play \/ NoPlayerCall)
    BY <1>13 DEF OutWindowEnds, InEarReported, podsVars
  <2>2. QED
    BY <1>1, <1>3, <2>1
<1>14. ASSUME Teardown PROVE MineIsClaimed'
  <2>1. hand' = hand /\ link' # "ready" /\ (Pause \/ Play \/ NoPlayerCall)
    BY <1>14 DEF Teardown
  <2>2. QED
    BY <1>2, <1>3, <2>1
<1>15. ASSUME LinkOpens \/ LinkLost PROVE MineIsClaimed'
  <2>1. hand' = hand /\ link' # "ready" /\ UNCHANGED playerVars
    BY <1>15 DEF LinkOpens, LinkLost
  <2>2. QED
    BY <1>2, <1>4, <2>1
<1>16. ASSUME MarkExpires \/ BothOutReported \/ (\E n \in 0 .. 2 : EarsNoted(n)) \/ StaleWindowEnds
              \/ SetEarDetectionBehavior \/ DefaultSinkMoves \/ UNCHANGED vars
       PROVE  MineIsClaimed'
  <2>1. UNCHANGED <<hand, link, wire, frames, owner>> /\ UNCHANGED playerVars
    BY <1>16 DEF MarkExpires, BothOutReported, EarsNoted, StaleWindowEnds, SetEarDetectionBehavior,
                 DefaultSinkMoves, vars, podsVars
  <2>2. QED
    BY <1>1, <1>4, <2>1
<1>17. ~Mine' => MineIsClaimed'
  BY DEF MineIsClaimed
<1>18. QED
  BY <1>5, <1>6, <1>7, <1>8, <1>9, <1>10, <1>11, <1>12, <1>13, <1>14, <1>15, <1>16, <1>17
     DEF Next, NextButPlayers

\* What the user started by an edge the daemon saw does not play on against another device that
\* holds the pods, once claims, frames and reports are through: for any players that obey, and any
\* claims, releases and frames that cross (handoffstate.hpp).
THEOREM PodsAreKeptOrLeft ==
  ASSUME Refusing = {}
  PROVE  Spec => []PodsAreNotFoughtOver
<1>1. Init => MineIsClaimed
  BY DEF Init, NoHandoff, MineIsClaimed, Mine
<1>2. MovesInv /\ MineIsClaimed /\ [Next]_vars => MineIsClaimed'
  BY MineInductive
<1>3. ASSUME MovesInv, MineIsClaimed PROVE PodsAreNotFoughtOver
  <2> SUFFICES ASSUME Settled, owner \in {"media", "call"}, playing # {}, starter = "user"
               PROVE  FALSE
    BY DEF PodsAreNotFoughtOver
  <2>1. Mine
    BY <1>3 DEF Settled, MovesInv, ReportedIsKnown, Mine
  <2>2. ~WillInterrupt(hand, frames)
    BY DEF Settled, WillInterrupt
  <2>3. QED
    BY <1>3, <2>1, <2>2 DEF Settled, MineIsClaimed
<1>4. QED
  BY <1>1, <1>2, <1>3, MovesInvariant, PTL DEF Spec

=============================================================================
