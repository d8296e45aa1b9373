------------------------------- MODULE Playback -------------------------------
(***************************************************************************)
(* What plays here against who holds the pods: the MPRIS players, the      *)
(* daemon's own pauses and resumes (daemon/media/mediacontroller.cpp), ear *)
(* detection, and the handoff with the other device (daemon/main.cpp), on  *)
(* a control link that comes and goes.                                     *)
(*                                                                         *)
(* The daemon runs on one event loop and calls the players synchronously:  *)
(* a step is one callback, whole.  A player obeys at once, but what it     *)
(* reports is delivered later, by a call that reads every player anew; so  *)
(* only whether a change is still unreported is kept, and a report may     *)
(* come at any time (a browser tab registering its name causes one).  It   *)
(* comes within selfInitiatedWindowMs of the change, as the comment on     *)
(* that constant has it.                                                   *)
(*                                                                         *)
(* A both-out callback compares generations; it is counted here by the     *)
(* outcome, live while its generation is the current one, else stale.      *)
(*                                                                         *)
(* The pods and the other device are modelled from the frames the daemon   *)
(* reads: the pods honour every claim, and say so.                         *)
(***************************************************************************)
EXTENDS Handoff, Integers, Sequences

CONSTANTS
  Players,    \* MPRIS services
  Refusing,   \* those whose Pause and Play calls may fail
  Behaviors,  \* the ear detection settings in use
  MaxTraffic, \* bound: frames, claims and releases on their way together
  MaxStale    \* bound: superseded both-out callbacks still to fire

AllBehaviors == {"one", "both", "off"}

ASSUME PlayersAssumption == Refusing \subseteq Players
ASSUME BehaviorsAssumption == Behaviors \subseteq AllBehaviors /\ Behaviors # {}
ASSUME BoundsAssumption == MaxTraffic \in Nat /\ MaxStale \in Nat

VARIABLES
  \* the daemon
  hand,        \* m_handoff
  pausedBy,    \* pausedByAppServices
  mark,        \* m_selfInitiatedState while its timer is inside the window, else "none"
  behavior,    \* earDetectionBehavior
  ears,        \* EarDetection: how many pods it has in an ear
  outPending,  \* m_earOutPending
  windows,     \* both-out callbacks: of the current generation, and superseded
  \* its surroundings
  link,        \* the control link: "gone" once torn down, "lost" while it is recovered,
               \* "open" before the pods acknowledged the features, "ready"
  playing,     \* the players that play
  unreported,  \* some player changed since the last report
  podsDefault, \* the default sink is the pods'
  owner,       \* who holds the pods: "none", "here", or the other device with "media" or "call"
  frames,      \* audio-source frames on their way here
  wire,        \* claims and releases on their way to the pods
  \* history
  starter,     \* who started what plays here: "user", "daemon", or "unseen", the user when the
               \* report of it is no edge, or matches the daemon's own mark
  touched      \* the user changed a player since the last report

playerVars == <<playing, unreported, starter, touched>>
earVars == <<behavior, ears, outPending, windows>>
podsVars == <<owner, frames>>
vars == <<hand, pausedBy, mark, earVars, link, playerVars, podsDefault, podsVars, wire>>

Traffic == Len(frames) + Len(wire)

TypeOK ==
  /\ hand \in HandoffStates
  /\ pausedBy \subseteq Players /\ playing \subseteq Players
  /\ mark \in {"none", "playing", "paused"}
  /\ behavior \in Behaviors
  /\ ears \in 0 .. 2
  /\ windows \in [live : 0 .. 1, stale : 0 .. MaxStale]
  /\ link \in {"gone", "lost", "open", "ready"}
  /\ owner \in {"none", "here", "media", "call"}
  /\ frames \in Seq(Frames) /\ wire \in Seq({"claim", "release"})
  /\ Traffic <= MaxTraffic
  /\ starter \in {"user", "daemon", "unseen"}
  /\ {outPending, unreported, podsDefault, touched} \subseteq BOOLEAN

-----------------------------------------------------------------------------
\* The players

\* areAirpodsConnected
Connected == link \in {"open", "ready"}

\* Mutant: pause() leaves no mark.
PauseUnmarked ==
  \E refused \in SUBSET (playing \cap Refusing) :
    /\ playing' = refused
    /\ pausedBy' = pausedBy \cup (playing \ refused)
    /\ unreported' = (unreported \/ playing # refused)
    /\ UNCHANGED <<starter, touched, mark>>

\* pause: every player that plays, but for those whose call fails.
Pause ==
  \E refused \in SUBSET (playing \cap Refusing) :
    /\ mark' = "paused"
    /\ playing' = refused
    /\ pausedBy' = pausedBy \cup (playing \ refused)
    /\ unreported' = (unreported \/ playing # refused)
    /\ UNCHANGED <<starter, touched>>

\* play: the players paused before; one that resumes is enough to forget them all.
Play ==
  IF pausedBy = {}
  THEN UNCHANGED <<mark, playerVars, pausedBy>>
  ELSE \E refused \in SUBSET (pausedBy \cap Refusing) :
         LET resumed == pausedBy \ refused IN
         /\ mark' = "playing"
         /\ playing' = playing \cup resumed
         /\ pausedBy' = IF resumed = {} THEN pausedBy ELSE {}
         /\ unreported' = (unreported \/ ~(resumed \subseteq playing))
         /\ starter' = IF playing = {} /\ resumed # {} THEN "daemon" ELSE starter
         /\ UNCHANGED touched

NoPlayerCall == UNCHANGED <<mark, playerVars, pausedBy>>

\* activateA2dpProfileWithRetry: its first attempt, made at once, may make the pods the default.
Activate == podsDefault' \in {podsDefault, TRUE}

\* writePacketToSocket and noteClaimSent, from the state `h'; nothing goes out on a closed link.
SendClaim(h) ==
  IF Connected
  THEN wire' = Append(wire, "claim") /\ hand' = NoteClaimSent(h)
  ELSE hand' = h /\ UNCHANGED wire

-----------------------------------------------------------------------------
\* What the players report (followMediaChanges, handleMediaStateChange)

Origin == IF mark = (IF playing # {} THEN "playing" ELSE "paused") THEN "daemon" ELSE "user"

MediaReported ==
  /\ Traffic < MaxTraffic
  /\ LET now == playing # {}
         sent == MediaWire(hand, now, Origin)
         h == OnLocalMedia(hand, now, Origin) IN
     /\ \/ /\ sent = "claim"
           /\ SendClaim(h)
           /\ IF Connected /\ ~podsDefault THEN Activate ELSE UNCHANGED podsDefault
        \/ /\ sent = "release"
           /\ hand' = h
           /\ wire' = IF Connected THEN Append(wire, "release") ELSE wire
           /\ UNCHANGED podsDefault
        \/ /\ sent = "none"
           /\ hand' = h
           /\ UNCHANGED <<wire, podsDefault>>
     /\ starter' = IF now /\ Origin = "daemon" /\ starter = "user" THEN "unseen" ELSE starter
  /\ mark' = IF Origin = "daemon" THEN "none" ELSE mark
  /\ unreported' = FALSE
  /\ touched' = FALSE
  /\ UNCHANGED <<pausedBy, earVars, link, playing, podsVars>>

\* selfInitiatedWindowMs ends; no report is late for it.
MarkExpires ==
  /\ mark # "none" /\ ~unreported
  /\ mark' = "none"
  /\ UNCHANGED <<hand, pausedBy, earVars, link, playerVars, podsDefault, podsVars, wire>>

-----------------------------------------------------------------------------
\* Ear detection

\* ++m_earDetectionGeneration and m_earOutPending = false
Supersede ==
  /\ outPending' = FALSE
  /\ windows.stale + windows.live <= MaxStale
  /\ windows' = [live |-> 0, stale |-> windows.stale + windows.live]

\* handleEarDetection with both pods out: it waits, for the first such report only.
BothOutReported ==
  /\ Connected /\ behavior # "off"
  /\ ears' = 0
  /\ IF outPending
     THEN UNCHANGED <<outPending, windows>>
     ELSE outPending' = TRUE /\ windows' = [windows EXCEPT !.live = @ + 1]
  /\ UNCHANGED <<hand, pausedBy, mark, behavior, link, playerVars, podsDefault, podsVars, wire>>

\* handleEarDetection with `n' pods in: pause or resume by the setting, and follow the audio.
InEarReported(n) ==
  /\ Connected /\ behavior # "off"
  /\ ears' = n
  /\ Supersede
  /\ \/ /\ behavior = "one" /\ n = 1
        /\ IF podsDefault /\ playing # {} THEN Pause ELSE NoPlayerCall
        /\ Activate
     \/ /\ behavior = "both" \/ n = 2
        /\ Activate
        /\ IF pausedBy # {} /\ podsDefault' THEN Play ELSE NoPlayerCall
  /\ UNCHANGED <<hand, behavior, link, podsVars, wire>>

\* A report with ear detection off, or an advert (bleDeviceFound), is only remembered.
EarsNoted(n) ==
  /\ ears # n
  /\ ears' = n
  /\ UNCHANGED <<hand, pausedBy, mark, behavior, outPending, windows, link, playerVars,
                 podsDefault, podsVars, wire>>

\* Mutant: the callback does not lower the flag.
OutWindowEndsStillPending ==
  /\ windows.live > 0 /\ ears # 0
  /\ windows' = [windows EXCEPT !.live = @ - 1]
  /\ UNCHANGED <<hand, pausedBy, mark, behavior, ears, outPending, link, playerVars,
                 podsDefault, podsVars, wire>>

\* The both-out callback of the current generation; removeAudioOutputDevice may fail.
OutWindowEnds ==
  /\ windows.live > 0
  /\ windows' = [windows EXCEPT !.live = @ - 1]
  /\ outPending' = FALSE
  /\ \/ /\ ears # 0
        /\ NoPlayerCall /\ UNCHANGED podsDefault
     \/ /\ ears = 0
        /\ IF podsDefault /\ playing # {} THEN Pause ELSE NoPlayerCall
        /\ podsDefault' \in {podsDefault, FALSE}
  /\ UNCHANGED <<hand, behavior, ears, link, podsVars, wire>>

\* The same, superseded.
StaleWindowEnds ==
  /\ windows.stale > 0
  /\ windows' = [windows EXCEPT !.stale = @ - 1]
  /\ UNCHANGED <<hand, pausedBy, mark, behavior, ears, outPending, link, playerVars,
                 podsDefault, podsVars, wire>>

SetEarDetectionBehavior ==
  /\ \E b \in Behaviors \ {behavior} : behavior' = b
  /\ Supersede
  /\ UNCHANGED <<hand, pausedBy, mark, ears, link, playerVars, podsDefault, podsVars, wire>>

-----------------------------------------------------------------------------
\* The control link

LinkOpens ==
  /\ link \in {"gone", "lost"}
  /\ link' = "open"
  /\ UNCHANGED <<hand, pausedBy, mark, earVars, playerVars, podsDefault, podsVars, wire>>

\* FEATURES_ACK: what plays already is claimed for, edge or none.  The pods may then say who
\* holds them.
FeaturesAck ==
  /\ link = "open"
  /\ Len(wire) + 2 <= MaxTraffic
  /\ link' = "ready"
  /\ IF playing # {}
     THEN SendClaim(OnLocalMedia(hand, TRUE, "user"))
     ELSE UNCHANGED <<hand, wire>>
  /\ frames' \in {<<>>} \cup {<<o>> : o \in {owner} \cap OtherFrames}
  /\ UNCHANGED <<pausedBy, mark, earVars, playerVars, podsDefault, owner>>

\* The socket goes, by itself or closed by onDeviceDisconnected, with all that was on it.
LinkLost ==
  /\ Connected
  /\ link' = "lost"
  /\ frames' = <<>> /\ wire' = <<>>
  /\ owner' = IF owner = "here" THEN "none" ELSE owner
  /\ UNCHANGED <<hand, pausedBy, mark, earVars, playerVars, podsDefault>>

\* finalizeDeviceDisconnected: what plays stops, on the pods or not; the device info is reset,
\* the handoff and the ear detection window are not.
Teardown ==
  /\ link = "lost"
  /\ link' = "gone"
  /\ ears' = 0
  /\ IF playing # {} THEN Pause ELSE NoPlayerCall
  /\ UNCHANGED <<hand, behavior, outPending, windows, podsDefault, podsVars, wire>>

-----------------------------------------------------------------------------
\* Audio-source frames (handleAudioSource)

FrameArrives ==
  /\ link = "ready"
  /\ frames # <<>>
  /\ frames' = Tail(frames)
  /\ LET frame == Head(frames)
         h == OnAudioSource(hand, frame) IN
     \/ /\ Interrupts(hand, frame)
        /\ hand' = h
        /\ Pause
        /\ UNCHANGED <<wire, podsDefault>>
     \/ /\ Resumes(hand, frame)
        /\ SendClaim(NoteResumed(h))
        /\ Activate
        /\ Play
     \/ /\ ~Interrupts(hand, frame) /\ ~Resumes(hand, frame)
        /\ hand' = h
        /\ NoPlayerCall
        /\ UNCHANGED <<wire, podsDefault>>
  /\ UNCHANGED <<earVars, link, owner>>

\* claimAckTimeoutMs passes for a claim that the pods have answered, or lost with the link.
ClaimAges ==
  /\ hand.claimFresh
  /\ frames = <<>> /\ wire = <<>>
  /\ hand' = [hand EXCEPT !.claimFresh = FALSE]
  /\ UNCHANGED <<pausedBy, mark, earVars, link, playerVars, podsDefault, podsVars, wire>>

-----------------------------------------------------------------------------
\* The user, the desktop, the pods and the other device

UserPlays(p) ==
  /\ p \notin playing
  /\ playing' = playing \cup {p}
  /\ starter' = IF playing # {} THEN starter ELSE IF hand.localPlaying THEN "unseen" ELSE "user"
  /\ unreported' = TRUE /\ touched' = TRUE
  /\ UNCHANGED <<hand, pausedBy, mark, earVars, link, podsDefault, podsVars, wire>>

UserPauses(p) ==
  /\ p \in playing
  /\ playing' = playing \ {p}
  /\ unreported' = TRUE /\ touched' = TRUE
  /\ UNCHANGED <<hand, pausedBy, mark, earVars, link, starter, podsDefault, podsVars, wire>>

\* The user, WirePlumber or an activation retry moves the default sink.
DefaultSinkMoves ==
  /\ podsDefault' = ~podsDefault
  /\ UNCHANGED <<hand, pausedBy, mark, earVars, link, playerVars, podsVars, wire>>

PodsHear ==
  /\ link = "ready"
  /\ wire # <<>>
  /\ wire' = Tail(wire)
  /\ \/ /\ Head(wire) = "claim"
        /\ owner' = "here"
        /\ frames' = Append(frames, "here")
     \/ /\ Head(wire) = "release"
        /\ owner' = IF owner = "here" THEN "none" ELSE owner
        /\ UNCHANGED frames
  /\ UNCHANGED <<hand, pausedBy, mark, earVars, link, playerVars, podsDefault>>

\* The other device takes the pods, changes what it does with them, or lets go; a host with no
\* link is told nothing.
OtherMoves ==
  /\ \E new \in OtherFrames \ {owner} :
       /\ new = "none" => owner # "here"
       /\ owner' = new
       /\ IF link = "ready"
          THEN Traffic < MaxTraffic /\ frames' = Append(frames, new)
          ELSE UNCHANGED frames
  /\ UNCHANGED <<hand, pausedBy, mark, earVars, link, playerVars, podsDefault, wire>>

Init ==
  /\ hand = NoHandoff
  /\ pausedBy = {}
  /\ mark = "none"
  /\ behavior \in Behaviors
  /\ ears = 0
  /\ outPending = FALSE
  /\ windows = [live |-> 0, stale |-> 0]
  /\ link = "lost"
  /\ playing \in SUBSET Players
  /\ unreported = (playing # {})
  /\ podsDefault \in BOOLEAN
  /\ owner \in OtherFrames
  /\ frames = <<>> /\ wire = <<>>
  /\ starter = "user"
  /\ touched = (playing # {})

NextButPlayers ==
  \/ MediaReported \/ MarkExpires
  \/ BothOutReported \/ (\E n \in 1 .. 2 : InEarReported(n)) \/ (\E n \in 0 .. 2 : EarsNoted(n))
  \/ OutWindowEnds \/ StaleWindowEnds \/ SetEarDetectionBehavior
  \/ LinkOpens \/ FeaturesAck \/ LinkLost \/ Teardown
  \/ FrameArrives \/ ClaimAges
  \/ DefaultSinkMoves \/ PodsHear \/ OtherMoves

Next ==
  \/ NextButPlayers
  \/ \E p \in Players : UserPlays(p) \/ UserPauses(p)

\* Frames are read while the link lasts; nothing else need happen.
Fairness == WF_vars(FrameArrives)

Spec == Init /\ [][Next]_vars /\ Fairness

-----------------------------------------------------------------------------
\* Properties

\* The window for two pods out is open exactly while one callback will end it: a callback that
\* was superseded never ends a newer window, and none is left open, which would ignore every
\* later report of both pods out (mediacontroller.cpp handleEarDetection).
OutWindowServed ==
  /\ windows.live <= 1
  /\ outPending <=> windows.live = 1

\* "The daemon's own ear-detection pauses never release the pods to the phone" (README.md), and
\* its resumes never claim them: what a report sends follows a change the user made.
OnlyTheUserMovesThePods == [][MediaReported => wire' = wire \/ touched]_vars

\* An interruption stands only while the other device was last heard to hold the pods, so its
\* next release ends it (handoffstate.hpp).
InterruptedByAHolder == hand.interrupted => hand.lastOther # "none"

Settled == link = "ready" /\ frames = <<>> /\ wire = <<>> /\ ~unreported

\* "pause here when another device takes them" (handoffstate.hpp), however claims, frames and
\* reports cross: once they are through, what plays here while the other device holds the pods
\* was resumed by ear detection, or started by the user with no edge for the daemon to see.
PodsAreNotFoughtOver ==
  Settled /\ owner \in {"media", "call"} /\ playing # {}
    => starter # "user"

\* "take them back when it lets go" (handoffstate.hpp): the release of the other device ends an
\* interruption, unless the link goes first.
ReleaseEndsInterruption ==
  (link = "ready" /\ hand.interrupted /\ \E i \in DOMAIN frames : frames[i] = "none")
    ~> (link # "ready" \/ ~hand.interrupted)

=============================================================================
