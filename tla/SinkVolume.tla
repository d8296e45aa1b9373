------------------------------- MODULE SinkVolume -------------------------------
(***************************************************************************)
(* The volume of the pods' sink while three hands are on it: the wearer,   *)
(* the duck of conversation awareness (daemon/conversationlevel.hpp,       *)
(* daemon/media/mediacontroller.cpp), and the snap to a 5% grid that       *)
(* follows every change (daemon/media/pulseaudiocontroller.cpp,            *)
(* daemon/snaptogrid.hpp).                                                 *)
(*                                                                         *)
(* The main thread ducks and restores by blocking calls; the snap runs on  *)
(* PulseAudio's thread, from a change event to a query to a set, and knows *)
(* its own echo by m_expectedVolume alone.  Both share one connection,     *)
(* which keeps the order of what is sent each way.  A volume is the        *)
(* server's 16-bit one; the daemon reads and writes percents, truncating   *)
(* both ways.                                                              *)
(*                                                                         *)
(* Left out: the other sinks, whose volume the daemon never sets while the *)
(* default sink stays put during a handler; a server that times out.       *)
(***************************************************************************)
EXTENDS Integers, Sequences

CONSTANTS
  UserPercents, \* what the wearer sets, in percent
  MaxQueue      \* bound: messages under way, both directions together

Norm == 65536   \* PA_VOLUME_NORM
Percents == 0 .. 100

ASSUME PercentsAssumption == UserPercents \subseteq Percents
ASSUME QueueAssumption == MaxQueue \in Nat \ {0}

None == -1

VARIABLES
  ducked,        \* LevelTracker::m_ducked
  restoreTimer,  \* m_conversationRestoreTimer is running
  saved,         \* initialVolume
  expected,      \* m_expectedVolume
  snapping,      \* m_snapSinkName is the pods' sink
  onPods,        \* the default sink is the pods'
  volume,        \* the server's volume of the pods' sink
  toServer,      \* requests: an "info" query, or a volume to set and who sets it
  fromServer,    \* change events, and the volumes that queries read
  loudest        \* history: the highest percent the wearer has set

trackerVars == <<ducked, restoreTimer, saved>>
volumeVars == <<trackerVars, expected, snapping, onPods, volume, toServer, fromServer, loudest>>

\* Mutant: rounds up.
SnapToGridUp(value, step) == ((value + step - 1) \div step) * step

\* snapToGrid, for a value in range
SnapToGrid(value, step) == ((value + step \div 2) \div step) * step

Snapped(value) == SnapToGrid(value, 5)

\* setSinkVolume: pa_cvolume_set of a percent
ToVolume(percent) == (percent * Norm) \div 100

\* getSinkVolume, snapSinkInfoCallback: the percent of a volume
ToPercent(level) == (level * 100) \div Norm

Set(by, percent) == [op |-> "set", by |-> by, percent |-> percent]
Info == [op |-> "info", by |-> "snap", percent |-> 0]
Changed == None

VolumeTypeOK ==
  /\ {ducked, restoreTimer, snapping, onPods} \subseteq BOOLEAN
  /\ {saved, expected} \subseteq {None} \cup Percents
  /\ volume \in 0 .. Norm
  /\ loudest \in Percents
  /\ toServer \in Seq([op : {"set", "info"}, by : {"main", "snap"}, percent : Percents])
  /\ fromServer \in Seq({Changed} \cup 0 .. Norm)
  /\ Len(toServer) + Len(fromServer) <= MaxQueue

-----------------------------------------------------------------------------
\* The main thread, which waits for the answer to its last request

Room == Len(toServer) + Len(fromServer) < MaxQueue

MainIdle == \A i \in DOMAIN toServer : toServer[i].by # "main"

\* setSinkVolume on the default sink, when it is the pods'.
SetSinkVolume(percent) ==
  /\ expected' = IF snapping THEN percent ELSE expected
  /\ toServer' = Append(toServer, Set("main", percent))

NoSet == UNCHANGED <<expected, toServer>>

\* duckForConversation: save the volume once, and set a fifth of it; the query may fail.
DuckForConversation ==
  \E read \in {ToPercent(volume), None} :
    /\ saved' = IF saved = None /\ onPods THEN read ELSE saved
    /\ IF saved' # None /\ onPods
       THEN SetSinkVolume(Snapped(saved' \div 5))
       ELSE NoSet

\* Mutant: what was saved is kept when the pods are not the output.
RestoreAfterConversationKeeps ==
  IF saved # None /\ onPods
  THEN SetSinkVolume(saved) /\ saved' = None
  ELSE NoSet /\ UNCHANGED saved

\* restoreAfterConversation: the saved volume is dropped either way.
RestoreAfterConversation ==
  /\ saved' = None
  /\ IF saved # None /\ onPods THEN SetSinkVolume(saved) ELSE NoSet

\* The query of a duck is answered after what was sent before it.
Serviced == toServer = <<>> /\ Room

\* onLevel with a speaking level (1, 2): duck once; a later one only restarts the timer.
Speaking ==
  /\ Serviced /\ ~ducked
  /\ ducked' = TRUE
  /\ restoreTimer' = TRUE
  /\ DuckForConversation
  /\ UNCHANGED <<snapping, onPods, volume, fromServer, loudest>>

\* onLevel with a restoring level (6, 8, 9).
Quiet ==
  /\ MainIdle /\ Room
  /\ ducked
  /\ ducked' = FALSE
  /\ restoreTimer' = FALSE
  /\ RestoreAfterConversation
  /\ UNCHANGED <<snapping, onPods, volume, fromServer, loudest>>

\* onTimeout, caRestoreTimeoutMs after the last level.
RestoreTimeout ==
  /\ MainIdle /\ Room
  /\ restoreTimer
  /\ restoreTimer' = FALSE
  /\ ducked' = FALSE
  /\ IF ducked THEN RestoreAfterConversation ELSE NoSet /\ UNCHANGED saved
  /\ UNCHANGED <<snapping, onPods, volume, fromServer, loudest>>

\* enableVolumeSnap, at the end of an activation on the pods and at their release.
EnableVolumeSnap ==
  /\ MainIdle
  /\ \/ onPods /\ snapping' = TRUE
     \/ snapping' = FALSE
  /\ UNCHANGED <<trackerVars, expected, onPods, volume, toServer, fromServer, loudest>>

-----------------------------------------------------------------------------
\* PulseAudio's thread

\* subscribeCallback: a change of some sink is asked about.
SubscribeCallback ==
  /\ fromServer # <<>> /\ Head(fromServer) = Changed
  /\ fromServer' = Tail(fromServer)
  /\ toServer' = IF snapping THEN Append(toServer, Info) ELSE toServer
  /\ UNCHANGED <<trackerVars, expected, snapping, onPods, volume, loudest>>

\* The guard of snapSinkInfoCallback: off the grid, and not the echo of a set of the daemon's.
NeedsSnap(percent) ==
  /\ percent # Snapped(percent)
  /\ expected = None \/ Snapped(percent) # Snapped(expected)

\* snapSinkInfoCallback
SnapSinkInfoCallback ==
  /\ fromServer # <<>> /\ Head(fromServer) # Changed
  /\ fromServer' = Tail(fromServer)
  /\ LET percent == ToPercent(Head(fromServer)) IN
     IF snapping /\ NeedsSnap(percent)
     THEN /\ expected' = Snapped(percent)
          /\ toServer' = Append(toServer, Set("snap", Snapped(percent)))
     ELSE NoSet
  /\ UNCHANGED <<trackerVars, snapping, onPods, volume, loudest>>

-----------------------------------------------------------------------------
\* The server and the wearer

\* A change is told to every subscriber; so may be a set that changes nothing.
Becomes(level) ==
  /\ volume' = level
  /\ \/ fromServer' = Append(fromServer, Changed)
     \/ level = volume /\ UNCHANGED fromServer

Serve ==
  /\ toServer # <<>>
  /\ toServer' = Tail(toServer)
  /\ IF Head(toServer).op = "info"
     THEN fromServer' = Append(fromServer, volume) /\ UNCHANGED volume
     ELSE Becomes(ToVolume(Head(toServer).percent))
  /\ UNCHANGED <<trackerVars, expected, snapping, onPods, loudest>>

\* A stem swipe, a volume key or a mixer.
UserSets ==
  /\ Room
  /\ \E percent \in UserPercents :
       /\ Becomes(ToVolume(percent))
       /\ loudest' = IF percent > loudest THEN percent ELSE loudest
  /\ UNCHANGED <<trackerVars, expected, snapping, onPods, toServer>>

DefaultMoves ==
  /\ onPods' = ~onPods
  /\ UNCHANGED <<loudest, trackerVars, expected, snapping, volume, toServer, fromServer>>

VolumeInit ==
  /\ ducked = FALSE /\ restoreTimer = FALSE /\ saved = None
  /\ expected = None /\ snapping = FALSE
  /\ onPods \in BOOLEAN
  /\ \E percent \in UserPercents :
       /\ volume = ToVolume(percent)
       /\ loudest = percent
  /\ toServer = <<>> /\ fromServer = <<>>

VolumeNext ==
  \/ Speaking \/ Quiet \/ RestoreTimeout \/ EnableVolumeSnap
  \/ SubscribeCallback \/ SnapSinkInfoCallback
  \/ Serve \/ UserSets \/ DefaultMoves

VolumeSpec == VolumeInit /\ [][VolumeNext]_volumeVars

-----------------------------------------------------------------------------
\* Properties

\* "The level stream has no guaranteed restore frame, so the tracker bounds a duck with this
\* timer" (mediacontroller.h): a volume is saved only while ducked, "or a later duck would ratchet
\* down from a stale value" (mediacontroller.cpp restoreAfterConversation), and ducked only while
\* the timer runs, however levels, timeouts and moves of the default sink follow each other.
DuckIsBounded ==
  /\ ducked <=> restoreTimer
  /\ saved # None => ducked

\* However snaps, ducks, restores and late answers cross, the daemon never makes the pods louder
\* than the wearer has had them, but for rounding to the nearest step (snaptogrid.hpp).
NeverLouder == volume <= ToVolume(loudest + 2)

=============================================================================
